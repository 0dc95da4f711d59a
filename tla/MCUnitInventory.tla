-------------------------- MODULE MCUnitInventory ---------------------------
(***************************************************************************)
(* Small instances of UnitInventory; requests are interchangeable.         *)
(***************************************************************************)
EXTENDS UnitInventory, TLC

Symmetry == Permutations(Reqs)

=============================================================================

--------------------------- MODULE MCDailyReport ----------------------------
(***************************************************************************)
(* Small instances of DailyReport; admins and runs are interchangeable.    *)
(***************************************************************************)
EXTENDS DailyReport, TLC

Symmetry == Permutations(Admins) \cup Permutations(Runs)

=============================================================================

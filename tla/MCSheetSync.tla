---------------------------- MODULE MCSheetSync -----------------------------
(***************************************************************************)
(* Small instances of SheetSync.  Runs, keys and lead ids are              *)
(* interchangeable; rows are numbers, since a run visits them in order.    *)
(***************************************************************************)
EXTENDS SheetSync, TLC

Symmetry == Permutations(Runs) \cup Permutations(Keys) \cup Permutations(Leads)

=============================================================================

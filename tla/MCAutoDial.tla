----------------------------- MODULE MCAutoDial -----------------------------
(***************************************************************************)
(* Small instances of AutoDial.  Follow-ups, workers and handlers are      *)
(* interchangeable; calls are not, since some carry no call id.            *)
(***************************************************************************)
EXTENDS AutoDial, TLC

Symmetry ==
    Permutations(FollowUps) \cup Permutations(Workers) \cup Permutations(Handlers)

=============================================================================

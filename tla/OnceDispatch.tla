---------------------------- MODULE OnceDispatch ----------------------------
(***************************************************************************)
(* What a background job that acts on the outside world promises: an item  *)
(* is first taken, by one worker, and only a taken item is acted on, once. *)
(* The promise is at-most-once: an item that was taken may never be acted  *)
(* on, because its worker stopped.  AutoDial implements this module.       *)
(***************************************************************************)
EXTENDS Naturals

CONSTANT Items

VARIABLES taken,   \* the items some worker has claimed
          sent     \* how many times each item was acted on

vars == <<taken, sent>>

Init ==
    /\ taken = {}
    /\ sent = [i \in Items |-> 0]

Take(i) ==
    /\ i \notin taken
    /\ taken' = taken \cup {i}
    /\ UNCHANGED sent

Dispatch(i) ==
    /\ i \in taken
    /\ sent[i] = 0
    /\ sent' = [sent EXCEPT ![i] = 1]
    /\ UNCHANGED taken

Next == \E i \in Items : Take(i) \/ Dispatch(i)

Spec == Init /\ [][Next]_vars

=============================================================================

----------------------------- MODULE RowIntake ------------------------------
(***************************************************************************)
(* What the sheet sync promises about the rows of a sheet and the leads    *)
(* they become: a row gets a lead only while it has none, is marked and    *)
(* linked only to a lead that was its own, and, once marked, is posted     *)
(* again by repair runs only.  Keys, requests, the rows' order, lost       *)
(* answers and stopped runs are not seen here.  SheetSync implements this  *)
(* module when its runs do not overlap.                                    *)
(***************************************************************************)
EXTENDS Naturals

CONSTANTS
    People,   \* what rows are about, wherever they are in the sheet
    Ids,      \* ids of leads
    Nobody

VARIABLES
    owner,      \* whom each lead was made for, Nobody before
    live,       \* the leads that are in the CRM
    marked,     \* the people whose row says Synced
    links,      \* the lead ids next to the row of each person
    repairing   \* whether a repair run is on its way

vars == <<owner, live, marked, links, repairing>>

Init ==
    /\ owner = [d \in Ids |-> Nobody]
    /\ live = {}
    /\ marked = {}
    /\ links = [p \in People |-> {}]
    /\ repairing = FALSE

\* A lead is made for p, who has none; a marked row needs a repair run.
Create(p, d) ==
    /\ owner[d] = Nobody
    /\ \A e \in live : owner[e] # p
    /\ p \in marked => repairing
    /\ owner' = [owner EXCEPT ![d] = p]
    /\ live' = live \cup {d}
    /\ UNCHANGED <<marked, links, repairing>>

\* CRM users delete a lead.
Delete(d) ==
    /\ d \in live
    /\ live' = live \ {d}
    /\ UNCHANGED <<owner, marked, links, repairing>>

\* The row of p is marked: p has or had a lead.
Mark(p) ==
    /\ \E d \in Ids : owner[d] = p
    /\ marked' = marked \cup {p}
    /\ UNCHANGED <<owner, live, links, repairing>>

\* A marked row gets the id of a lead made for it.
Link(p, d) ==
    /\ p \in marked
    /\ owner[d] = p
    /\ links' = [links EXCEPT ![p] = {d}]
    /\ UNCHANGED <<owner, live, marked, repairing>>

\* A repair run failed at the row: it is ordinary work again.
Unmark(p) ==
    /\ repairing
    /\ marked' = marked \ {p}
    /\ UNCHANGED <<owner, live, links, repairing>>

\* A repair run begins, or it and its last request are over.
Turn ==
    /\ repairing' = ~repairing
    /\ UNCHANGED <<owner, live, marked, links>>

Next ==
    \/ \E p \in People : \/ \E d \in Ids : Create(p, d) \/ Link(p, d)
                         \/ Mark(p) \/ Unmark(p)
    \/ \E d \in Ids : Delete(d)
    \/ Turn

Spec == Init /\ [][Next]_vars

=============================================================================

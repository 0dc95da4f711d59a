--------------------------- MODULE MCCallCampaign ---------------------------
(***************************************************************************)
(* Small instances of CallCampaign; numbers, call ids, batches and webhook *)
(* handlers are interchangeable.                                           *)
(***************************************************************************)
EXTENDS CallCampaign, TLC

Symmetry ==
    Permutations(Numbers) \cup Permutations(Sids)
        \cup Permutations(Batches) \cup Permutations(Hooks)

\* Guards and properties tell numbers apart by being absent, pending or neither.
\* (Expiry makes dnp of initiated: neither remains neither.)
Kind(n) == IF num[n].status \in {"absent", "pending"} THEN num[n].status ELSE "neither"

\* Of the numbers a batch found, the tried ones stay tried: FoundIsTried asks for
\* the others.
Untried(b) == {n \in items[b] : num[n].attempts = 0}

\* What steps and properties depend on.  No guard reads the campaign's status.
WhatMatters ==
    <<limit, old, deleting, [n \in Numbers |-> <<Kind(n), num[n].sid, num[n].attempts>>],
      call, dialedFor, batPc, [b \in Batches |-> Untried(b)], left, cur, curSid,
      hookVars, obsVars>>

=============================================================================

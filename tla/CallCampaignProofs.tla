------------------------- MODULE CallCampaignProofs -------------------------
(***************************************************************************)
(* Proofs about CallCampaign for any number of campaign numbers, batches   *)
(* and webhook handlers: what dialing, attempts, call ids and completion   *)
(* guarantee although batches overlap and are killed, and webhooks are     *)
(* late.                                                                   *)
(***************************************************************************)
EXTENDS CallCampaign, FiniteSetTheorems, TLAPS

-----------------------------------------------------------------------------
\* e is a number with the status, call id and attempts given.
Says(e, s, c, k) ==
    e \in NumberDoc /\ e.status = s /\ e.sid = c /\ e.attempts = k

\* What the updates of a number document write.
LEMMA DocUpdates ==
    ASSUME NEW d \in NumberDoc, NEW s \in NumberStatus, NEW c \in Sids \cup {None},
           NEW k \in Nat
    PROVE  /\ Says([d EXCEPT !.status = s], s, d.sid, d.attempts)
           /\ Says([d EXCEPT !.status = s, !.sid = c], s, c, d.attempts)
           /\ Says([d EXCEPT !.status = s, !.attempts = k], s, d.sid, k)
           /\ Says([d EXCEPT !.status = s, !.sid = c, !.attempts = k], s, c, k)
<1> USE DEF NumberDoc, Says
<1>1. Says([d EXCEPT !.status = s], s, d.sid, d.attempts)
  OBVIOUS
<1>2. Says([d EXCEPT !.status = s, !.sid = c], s, c, d.attempts)
  OBVIOUS
<1>3. Says([d EXCEPT !.status = s, !.attempts = k], s, d.sid, k)
  OBVIOUS
<1>4. Says([d EXCEPT !.status = s, !.sid = c, !.attempts = k], s, c, k)
  OBVIOUS
<1> QED
  BY <1>1, <1>2, <1>3, <1>4

\* Every document the expiry writes is a number document.
LEMMA ExpiredType ==
    ASSUME num \in [Numbers -> NumberDoc]
    PROVE  /\ Expired \in [Numbers -> NumberDoc]
           /\ \A n \in Numbers : /\ Expired[n].sid = num[n].sid
                                 /\ Expired[n].attempts = num[n].attempts
                                 /\ Expired[n].status \in {"absent", "pending"} =>
                                       num[n].status = Expired[n].status
<1> SUFFICES ASSUME NEW n \in Numbers
             PROVE  /\ Expired[n] \in NumberDoc
                    /\ Expired[n].sid = num[n].sid
                    /\ Expired[n].attempts = num[n].attempts
                    /\ Expired[n].status \in {"absent", "pending"} =>
                          num[n].status = Expired[n].status
  BY DEF Expired
<1>1. num[n] \in NumberDoc
  OBVIOUS
<1>2. Expired[n] = IF old /\ num[n].status \in Expirable
                   THEN [num[n] EXCEPT !.status = "dnp"] ELSE num[n]
  BY DEF Expired
<1> QED
  BY <1>1, <1>2 DEF NumberDoc, NumberStatus, Final

\* The update after a try gives the number the reply's status and its call id,
\* and counts.
LEMMA TryDoc ==
    ASSUME TypeOK, NEW b \in Batches, cur[b] \in Numbers, NEW s \in Said(b),
           TryStored(b, s)
    PROVE  /\ num' \in [Numbers -> NumberDoc] /\ s # "absent"
           /\ \A n \in Numbers :
                 IF n = cur[b]
                 THEN /\ num'[n].status = s
                      /\ num'[n].sid = curSid[b]
                      /\ num'[n].attempts = num[n].attempts + 1
                 ELSE num'[n] = num[n]
<1>1. num' = [num EXCEPT ![cur[b]] =
                [@ EXCEPT !.status = s, !.sid = curSid[b],
                          !.attempts = num[cur[b]].attempts + 1]]
  BY DEF TryStored, AttemptsAfter
<1>2. s \in NumberStatus /\ s # "absent"
  BY CallCampaignAssumption DEF Said, NumberStatus, Final, Expirable
<1>3. num \in [Numbers -> NumberDoc] /\ curSid[b] \in Sids \cup {None}
  BY DEF TypeOK
<1>4. num[cur[b]] \in NumberDoc /\ num[cur[b]].attempts + 1 \in Nat
  BY <1>3 DEF NumberDoc
<1>5. Says(num'[cur[b]], s, curSid[b], num[cur[b]].attempts + 1)
  BY <1>1, <1>2, <1>3, <1>4, DocUpdates
<1> QED
  BY <1>1, <1>2, <1>3, <1>5 DEF Says

\* A failed try counts too and leaves the number's call id.
LEMMA StoreFailureDoc ==
    ASSUME TypeOK, NEW b \in Batches, StoreFailure(b)
    PROVE  /\ num' \in [Numbers -> NumberDoc] /\ cur[b] \in Numbers
           /\ \A n \in Numbers :
                 IF n = cur[b]
                 THEN /\ num'[n].status = "failed"
                      /\ num'[n].sid = num[n].sid
                      /\ num'[n].attempts = num[n].attempts + 1
                 ELSE num'[n] = num[n]
<1>1. num' = [num EXCEPT ![cur[b]] =
                [@ EXCEPT !.status = "failed", !.attempts = num[cur[b]].attempts + 1]]
  BY DEF StoreFailure, AttemptsAfter
<1>2. "failed" \in NumberStatus
  BY DEF NumberStatus, Final
<1>3. num \in [Numbers -> NumberDoc]
  BY DEF TypeOK
<1>4. cur[b] \in Numbers
  BY DEF TypeOK, StoreFailure
<1>5. num[cur[b]] \in NumberDoc /\ num[cur[b]].attempts + 1 \in Nat
  BY <1>3, <1>4 DEF NumberDoc
<1>6. Says(num'[cur[b]], "failed", num[cur[b]].sid, num[cur[b]].attempts + 1)
  <2>1. num[cur[b]].sid \in Sids \cup {None}
    BY <1>5 DEF NumberDoc
  <2> QED
    BY <1>1, <1>2, <1>3, <1>4, <1>5, <2>1, DocUpdates
<1> QED
  BY <1>1, <1>3, <1>4, <1>6 DEF Says

\* A webhook writes what it was told and counts no try.
LEMMA UpdateNumberDoc ==
    ASSUME TypeOK, NEW h \in Hooks, UpdateNumber(h)
    PROVE  /\ num' \in [Numbers -> NumberDoc]
           /\ hook[h].number \in Numbers /\ hook[h].status # "absent"
           /\ \A n \in Numbers :
                 IF n = hook[h].number
                 THEN /\ num'[n].status = hook[h].status
                      /\ num'[n].sid = hook[h].sid
                      /\ num'[n].attempts = num[n].attempts
                 ELSE num'[n] = num[n]
<1> DEFINE m == hook[h].number
<1>1. num' = [num EXCEPT ![m] =
                [num[m] EXCEPT !.status = hook[h].status, !.sid = hook[h].sid]]
  BY DEF UpdateNumber
<1>2. /\ hook[h].status \in NumberStatus /\ hook[h].status # "absent"
      /\ hook[h].sid \in Sids \cup {None}
  BY DEF TypeOK, HookDoc, Reported, NumberStatus, Final, Expirable
<1>3. num \in [Numbers -> NumberDoc]
  BY DEF TypeOK
<1>4. m \in Numbers
  <2>1. hook[h] \in HookDoc /\ hook[h].number # None
    BY DEF TypeOK, UpdateNumber
  <2> QED
    BY <2>1 DEF HookDoc
<1>5. num[m] \in NumberDoc
  BY <1>3, <1>4
<1>6. Says(num'[m], hook[h].status, hook[h].sid, num[m].attempts)
  <2>1. num[m].attempts \in Nat
    BY <1>5 DEF NumberDoc
  <2> QED
    BY <1>1, <1>2, <1>3, <1>4, <1>5, <2>1, DocUpdates
<1> QED
  BY <1>1, <1>2, <1>3, <1>4, <1>6 DEF Says

\* Cancelling closes pending numbers and changes nothing else.
LEMMA CancelDoc ==
    ASSUME TypeOK, CancelNumbers
    PROVE  /\ num' \in [Numbers -> NumberDoc]
           /\ \A n \in Numbers : /\ num'[n].sid = num[n].sid
                                 /\ num'[n].attempts = num[n].attempts
                                 /\ num'[n].status \in {"absent", "pending"} =>
                                       num'[n].status = num[n].status
<1>1. "cancelled" \in NumberStatus /\ num \in [Numbers -> NumberDoc]
  BY DEF NumberStatus, TypeOK
<1> SUFFICES ASSUME NEW n \in Numbers
             PROVE  /\ num'[n] \in NumberDoc
                    /\ num'[n].sid = num[n].sid
                    /\ num'[n].attempts = num[n].attempts
                    /\ num'[n].status \in {"absent", "pending"} =>
                          num'[n].status = num[n].status
  BY DEF CancelNumbers
<1>2. num[n] \in NumberDoc /\ num[n].sid \in Sids \cup {None} /\ num[n].attempts \in Nat
  BY <1>1 DEF NumberDoc
<1>3. Says([num[n] EXCEPT !.status = "cancelled"], "cancelled", num[n].sid, num[n].attempts)
  BY <1>1, <1>2, DocUpdates
<1>4. num'[n] = IF num[n].status = "pending"
                THEN [num[n] EXCEPT !.status = "cancelled"] ELSE num[n]
  BY DEF CancelNumbers
<1> QED
  BY <1>2, <1>3, <1>4 DEF Says

\* create brings a number that nobody has tried.
LEMMA AddDoc ==
    ASSUME TypeOK, NEW m \in Numbers, AddNumber(m)
    PROVE  /\ num' \in [Numbers -> NumberDoc]
           /\ \A n \in Numbers :
                 IF n = m
                 THEN num[n].status = "absent" /\ num'[n] = NewNumber
                 ELSE num'[n] = num[n]
<1>1. NewNumber \in NumberDoc
  BY DEF NewNumber, NumberDoc, NumberStatus, Expirable
<1> QED
  BY <1>1 DEF AddNumber, TypeOK

\* late only grows, and holds what becomes pending while a batch is about to
\* complete the campaign.
LEMMA LateGrows ==
    ASSUME TypeOK, NEW m \in Numbers, late' = LateWith(m)
    PROVE  /\ late' \subseteq Numbers /\ late \subseteq late'
           /\ (\E b \in Batches : batPc[b] = "completed") => m \in late'
BY DEF TypeOK, LateWith

\* What the provider says of m is counted if it is pending, and nothing else is.
LEMMA SaidNoted ==
    ASSUME TypeOK, NEW m \in Numbers, NEW s, NoteSaid(m, s)
    PROVE  /\ requeues' \in [Numbers -> Nat]
           /\ late' \subseteq Numbers /\ late \subseteq late'
           /\ \A n \in Numbers :
                 requeues'[n] = IF n = m /\ s = "pending" THEN requeues[n] + 1
                                ELSE requeues[n]
           /\ s = "pending" /\ (\E b \in Batches : batPc[b] = "completed") => m \in late'
<1>1. CASE s = "pending"
  <2>1. requeues' = [requeues EXCEPT ![m] = @ + 1] /\ late' = LateWith(m)
    BY <1>1 DEF NoteSaid
  <2>2. requeues \in [Numbers -> Nat]
    BY DEF TypeOK
  <2> QED
    BY <1>1, <2>1, <2>2, LateGrows
<1>2. CASE s # "pending"
  BY <1>2 DEF NoteSaid, TypeOK
<1> QED
  BY <1>1, <1>2

\* Every step keeps documents and locals in their domains.
LEMMA TypeStep ==
    ASSUME TypeOK, [Next]_vars
    PROVE  TypeOK'
<1> USE CallCampaignAssumption
    DEF TypeOK, campVars, batVars, hookVars, obsVars, BatchPcs
<1>1. CASE SetStatus \/ CancelCampaign
  BY <1>1 DEF SetStatus, CancelCampaign, CampaignStatus
<1>2. CASE CancelNumbers \/ GrowOld
  <2>1. CancelNumbers =>
           /\ num' \in [Numbers -> NumberDoc]
           /\ \A n \in Numbers : num'[n].status = "absent" => num'[n].attempts = 0
    BY CancelDoc
  <2> QED
    BY <1>2, <2>1 DEF CancelNumbers, GrowOld
<1>0. ASSUME NEW m \in Numbers, AddNumber(m) PROVE TypeOK'
  <2>1. num' \in [Numbers -> NumberDoc] /\ late' \subseteq Numbers
    BY <1>0, AddDoc, LateGrows DEF AddNumber
  <2>2. ASSUME NEW n \in Numbers, num'[n].status = "absent" PROVE num'[n].attempts = 0
    <3>1. IF n = m THEN num'[n] = NewNumber ELSE num'[n] = num[n]
      BY <1>0, AddDoc
    <3> QED
      BY <2>2, <3>1 DEF NewNumber
  <2> QED
    BY <1>0, <2>1, <2>2 DEF AddNumber
<1>3. CASE ListCampaign
  BY <1>3, ExpiredType DEF ListCampaign
<1>4. ASSUME NEW b \in Batches, StartCampaign(b) PROVE TypeOK'
  BY <1>4 DEF StartCampaign, CampaignStatus
<1>5. ASSUME NEW b \in Batches, ExpireOld(b) PROVE TypeOK'
  BY <1>5, ExpiredType DEF ExpireOld
<1>6. ASSUME NEW b \in Batches, FindItems(b) PROVE TypeOK'
  <2>1. PICK S \in SUBSET ToDial :
           /\ items' = [items EXCEPT ![b] = S]
           /\ left' = [left EXCEPT ![b] = S]
           /\ raced' = raced \cup (S \cap Elsewhere(b))
    BY <1>6 DEF FindItems
  <2>2. S \subseteq Numbers
    BY <2>1 DEF ToDial, Pending
  <2> QED
    BY <1>6, <2>1, <2>2 DEF FindItems
<1>7. ASSUME NEW b \in Batches, NextItem(b) PROVE TypeOK'
  BY <1>7 DEF NextItem
<1>8. ASSUME NEW b \in Batches, Undialable(b) \/ NoCredentials(b) PROVE TypeOK'
  BY <1>8 DEF Undialable, NoCredentials
<1>9. ASSUME NEW b \in Batches, Dial(b) PROVE TypeOK'
  <2>1. dials' \in [Numbers -> Nat]
    <3>1. dials' = [dials EXCEPT ![cur[b]] = dials[cur[b]] + 1] /\ dials \in [Numbers -> Nat]
      BY <1>9 DEF Dial
    <3>2. CASE cur[b] \in Numbers
      BY <3>1, <3>2
    <3>3. CASE cur[b] \notin Numbers
      BY <3>1, <3>3
    <3> QED
      BY <3>2, <3>3
  <2>2. /\ dialedFor' \in [Sids -> Numbers \cup {None}]
        /\ curSid' \in [Batches -> Sids \cup {None}]
    BY <1>9 DEF Dial
  <2> QED
    BY <1>9, <2>1, <2>2 DEF Dial
<1>10. ASSUME NEW b \in Batches, Reply(b) PROVE TypeOK'
  BY <1>10 DEF Reply
<1>11. ASSUME NEW b \in Batches, StoreTry(b) PROVE TypeOK'
  <2>1. PICK s \in Said(b) : TryStored(b, s)
    BY <1>11 DEF StoreTry
  <2>2. cur[b] \in Numbers /\ NoteSaid(cur[b], s)
    BY <1>11, <2>1 DEF StoreTry, TryStored
  <2>3. /\ num' \in [Numbers -> NumberDoc]
        /\ \A n \in Numbers : num'[n].status = "absent" => num'[n].attempts = 0
        /\ requeues' \in [Numbers -> Nat] /\ late' \subseteq Numbers
    BY <2>1, <2>2, TryDoc, SaidNoted
  <2> QED
    BY <1>11, <2>3 DEF StoreTry
<1>19. ASSUME NEW b \in Batches, StoreTryRaises(b) PROVE TypeOK'
  <2>1. ASSUME NEW s \in Said(b), TryStored(b, s)
        PROVE  /\ num' \in [Numbers -> NumberDoc]
               /\ \A n \in Numbers : num'[n].status = "absent" => num'[n].attempts = 0
               /\ requeues' \in [Numbers -> Nat] /\ late' \subseteq Numbers
    <3>1. cur[b] \in Numbers /\ NoteSaid(cur[b], s)
      BY <1>19, <2>1 DEF StoreTryRaises, TryStored
    <3> QED
      BY <2>1, <3>1, TryDoc, SaidNoted
  <2>2. /\ num' \in [Numbers -> NumberDoc]
        /\ \A n \in Numbers : num'[n].status = "absent" => num'[n].attempts = 0
        /\ requeues' \in [Numbers -> Nat] /\ late' \subseteq Numbers
    BY <1>19, <2>1 DEF StoreTryRaises
  <2> QED
    BY <1>19, <2>2 DEF StoreTryRaises
<1>12. ASSUME NEW b \in Batches, StoreFailure(b) PROVE TypeOK'
  <2>1. /\ num' \in [Numbers -> NumberDoc]
        /\ \A n \in Numbers : num'[n].status = "absent" => num'[n].attempts = 0
    BY <1>12, StoreFailureDoc
  <2> QED
    BY <1>12, <2>1 DEF StoreFailure, AfterFailure
<1>13. ASSUME NEW b \in Batches, CountPending(b) PROVE TypeOK'
  BY <1>13 DEF CountPending, StatusAfter
<1>14. ASSUME NEW b \in Batches, FinishBatch(b) \/ KillBatch(b) PROVE TypeOK'
  BY <1>14 DEF FinishBatch, KillBatch, CampaignStatus, LateWithout
<1>15. ASSUME NEW h \in Hooks, NEW s \in Sids, FindCall(h, s) PROVE TypeOK'
  BY <1>15 DEF FindCall, LinkOf, HookDoc, Reported, Final
<1>16. ASSUME NEW h \in Hooks, SaveCall(h) PROVE TypeOK'
  <2>1. hook[h] \in HookDoc /\ NoHook \in HookDoc
    BY DEF HookDoc, NoHook, Reported
  <2>2. call' \in [Sids -> Numbers \cup {None}]
    BY <1>16, <2>1 DEF SaveCall, LinkKept, HookDoc
  <2>3. /\ hookPc' \in [Hooks -> {"idle", "save", "number"}]
        /\ hook' \in [Hooks -> HookDoc]
    BY <1>16, <2>1 DEF SaveCall
  <2> QED
    BY <1>16, <2>2, <2>3 DEF SaveCall
<1>17. ASSUME NEW h \in Hooks, UpdateNumber(h) PROVE TypeOK'
  <2>1. /\ num' \in [Numbers -> NumberDoc]
        /\ \A n \in Numbers : num'[n].status = "absent" => num'[n].attempts = 0
        /\ requeues' \in [Numbers -> Nat] /\ late' \subseteq Numbers
    BY <1>17, UpdateNumberDoc, SaidNoted DEF UpdateNumber
  <2>2. NoHook \in HookDoc
    BY DEF NoHook, HookDoc, Reported
  <2> QED
    BY <1>17, <2>1, <2>2 DEF UpdateNumber
<1>18. CASE UNCHANGED vars
  BY <1>18 DEF vars
<1> QED
  BY <1>0, <1>1, <1>2, <1>3, <1>4, <1>5, <1>6, <1>7, <1>8, <1>9, <1>10, <1>11, <1>12,
     <1>13, <1>14, <1>15, <1>16, <1>17, <1>18, <1>19
  DEF Next, BatchStep, HookStep

\* The documents of a campaign and the locals of its batches and webhook
\* handlers keep their types.
THEOREM TypeCorrect == Spec => []TypeOK
<1>1. Init => TypeOK
  <2>1. AbsentNumber \in NumberDoc /\ NoHook \in HookDoc
    BY DEF AbsentNumber, NumberDoc, NumberStatus, Expirable, NoHook, HookDoc, Reported
  <2> SUFFICES ASSUME Init PROVE TypeOK
    OBVIOUS
  <2>2. /\ num \in [Numbers -> NumberDoc] /\ hook \in [Hooks -> HookDoc]
        /\ \A n \in Numbers : num[n].attempts = 0
    BY <2>1 DEF Init, AbsentNumber
  <2>3. /\ status \in CampaignStatus /\ limit \in Limits
        /\ old \in BOOLEAN /\ deleting \in BOOLEAN
        /\ call \in [Sids -> Numbers \cup {None}]
        /\ dialedFor \in [Sids -> Numbers \cup {None}]
    BY DEF Init, CampaignStatus
  <2>4. /\ batPc \in [Batches -> BatchPcs]
        /\ items \in [Batches -> SUBSET Numbers]
        /\ left \in [Batches -> SUBSET Numbers]
        /\ cur \in [Batches -> Numbers \cup {None}]
        /\ curSid \in [Batches -> Sids \cup {None}]
        /\ hookPc \in [Hooks -> {"idle", "save", "number"}]
        /\ \A b \in Batches : batPc[b] \in {"dial", "reply", "store", "fail"} => cur[b] # None
        /\ \A h \in Hooks : hookPc[h] = "number" => hook[h].number # None
    BY DEF Init, BatchPcs
  <2>5. /\ starts \in Nat /\ faults \in Nat /\ deliveries \in Nat
        /\ dials \in [Numbers -> Nat] /\ lost \subseteq Numbers /\ raced \subseteq Numbers
        /\ requeues \in [Numbers -> Nat] /\ late \subseteq Numbers
    BY DEF Init
  <2> QED
    BY <2>2, <2>3, <2>4, <2>5 DEF TypeOK
<1> QED
  BY <1>1, TypeStep, PTL DEF Spec

-----------------------------------------------------------------------------
(***************************************************************************)
(* The inductive invariant: a batch's locals against where it stands, call *)
(* ids against the calls the provider placed, and for each number who has  *)
(* it and whether it was dialed.                                           *)
(***************************************************************************)
BatchPlace(b) ==
    /\ batPc[b] \in {"dial", "reply", "store", "fail"} <=> cur[b] # None
    /\ batPc[b] \notin {"items", "dial", "reply", "store", "fail"} => left[b] = {}
    /\ cur[b] \notin left[b]
    /\ curSid[b] # None => batPc[b] \in {"reply", "store"}
    /\ batPc[b] = "completed" => Pending \subseteq late

\* A number a batch found is still to come, being dialed or tried.
FoundPlace(b) ==
    \A n \in items[b] : n \in left[b] \/ cur[b] = n \/ num[n].attempts > 0

PlaceInv == \A b \in Batches : BatchPlace(b) /\ FoundPlace(b)

\* A batch and a webhook handler have call ids of the number they have.
CallInv ==
    /\ CallsAreOfTheirNumber
    /\ \A b \in Batches : curSid[b] # None => dialedFor[curSid[b]] = cur[b]
    /\ \A h \in Hooks : hookPc[h] # "idle" =>
          hook[h].sid \in Sids /\ hook[h].number \in {None, dialedFor[hook[h].sid]}
    /\ \A h \in Hooks : hookPc[h] = "number" => hook[h].number # None

Has(b, n) == n \in left[b] \/ cur[b] = n

\* A number that was not raced for and not lost is with one batch at most.  Each
\* of its calls but one is paid for by a reply or webhook that said pending, and
\* so is every call of a number that a batch may still dial.
PaidFor(n) ==
    /\ \A a, b \in Batches : Has(a, n) /\ Has(b, n) => a = b
    /\ dials[n] <= 1 + requeues[n]
    /\ \A b \in Batches : Has(b, n) /\ ~Trying(b, n) => dials[n] <= requeues[n]
    /\ num[n].status = "pending" /\ (\A b \in Batches : ~Has(b, n))
          => dials[n] <= requeues[n]
    /\ num[n].status = "absent" => dials[n] = 0 /\ \A b \in Batches : ~Has(b, n)

DialInv == \A n \in Numbers \ (lost \cup raced) : PaidFor(n)

-----------------------------------------------------------------------------
\* A number becomes pending because it is inserted or the provider says so, and a
\* batch that is about to complete the campaign makes it late.
BecomesPending(n) ==
    /\ num[n].status = "absent" \/ requeues'[n] > requeues[n]
    /\ (\E b \in Batches : batPc[b] = "completed") => n \in late'

\* A batch stays where it is about to complete the campaign.
StillCompleting == \E b \in Batches : batPc[b] = "completed" /\ batPc'[b] = "completed"

NumberMoves(n) ==
    /\ num[n].attempts \in Nat /\ num'[n].attempts \in Nat
    /\ num'[n].attempts >= num[n].attempts
    /\ requeues[n] \in Nat /\ requeues'[n] \in Nat
    /\ requeues'[n] >= requeues[n]
    /\ num'[n].status = "absent" => num[n].status = "absent"
    /\ num'[n].status = "pending" => num[n].status = "pending" \/ BecomesPending(n)
    /\ n \in late /\ StillCompleting => n \in late'

\* The provider's word for the number a batch or webhook handler has.
LEMMA SaidMoves ==
    ASSUME TypeOK, NEW m \in Numbers, NEW s \in NumberStatus, s # "absent", NoteSaid(m, s),
           NEW n \in Numbers, num'[n].attempts \in Nat,
           num'[n].attempts >= num[n].attempts,
           IF n = m THEN num'[n].status = s ELSE num'[n].status = num[n].status
    PROVE  NumberMoves(n)
<1>1. num[n].attempts \in Nat /\ requeues[n] \in Nat
  BY DEF TypeOK, NumberDoc
<1>2. /\ requeues'[n] = IF n = m /\ s = "pending" THEN requeues[n] + 1 ELSE requeues[n]
      /\ n \in late => n \in late'
      /\ s = "pending" /\ (\E b \in Batches : batPc[b] = "completed") => m \in late'
  BY SaidNoted
<1> QED
  BY <1>1, <1>2 DEF NumberMoves, BecomesPending

\* What a step does to a number: no try is taken back, no document lost, and it
\* becomes pending only in the ways of BecomesPending.
LEMMA NumberStep ==
    ASSUME TypeOK, [Next]_vars, NEW n \in Numbers
    PROVE  NumberMoves(n)
<1>0. num[n].attempts \in Nat /\ requeues[n] \in Nat /\ num[n].status \in NumberStatus
  BY DEF TypeOK, NumberDoc
<1>1. CASE UNCHANGED <<num, requeues, late>>
  BY <1>0, <1>1 DEF NumberMoves
<1>2. CASE CancelNumbers
  BY <1>0, <1>2, CancelDoc DEF NumberMoves, CancelNumbers, obsVars
<1>3. CASE num' = Expired /\ UNCHANGED <<requeues, late>>
  <2>1. /\ Expired[n].attempts = num[n].attempts
        /\ Expired[n].status \in {"absent", "pending"} => num[n].status = Expired[n].status
    BY ExpiredType DEF TypeOK
  <2> QED
    BY <1>0, <1>3, <2>1 DEF NumberMoves
<1>4. ASSUME NEW m \in Numbers, AddNumber(m) PROVE NumberMoves(n)
  <2>1. /\ IF n = m THEN num[n].status = "absent" /\ num'[n] = NewNumber
                    ELSE num'[n] = num[n]
        /\ num[n].status = "absent" => num[n].attempts = 0
    BY <1>4, AddDoc DEF TypeOK
  <2>2. /\ late \subseteq late' /\ requeues' = requeues
        /\ (\E b \in Batches : batPc[b] = "completed") => m \in late'
    BY <1>4, LateGrows DEF AddNumber
  <2> QED
    BY <1>0, <2>1, <2>2 DEF NumberMoves, BecomesPending, NewNumber
<1>5. ASSUME NEW b \in Batches, cur[b] \in Numbers, NEW s \in Said(b), TryStored(b, s)
      PROVE  NumberMoves(n)
  <2>1. NoteSaid(cur[b], s) /\ s \in NumberStatus
    BY <1>5, CallCampaignAssumption
    DEF TryStored, Said, NumberStatus, Expirable, Final
  <2>2. /\ s # "absent"
        /\ IF n = cur[b] THEN /\ num'[n].status = s
                              /\ num'[n].attempts = num[n].attempts + 1
                         ELSE num'[n] = num[n]
    BY <1>5, TryDoc
  <2>3. num'[n].attempts \in Nat /\ num'[n].attempts >= num[n].attempts
    BY <1>0, <2>2
  <2>4. IF n = cur[b] THEN num'[n].status = s ELSE num'[n].status = num[n].status
    BY <2>2
  <2> QED
    BY <1>5, <2>1, <2>2, <2>3, <2>4, SaidMoves
<1>6. ASSUME NEW b \in Batches, StoreTry(b) PROVE NumberMoves(n)
  BY <1>5, <1>6 DEF StoreTry, TypeOK
<1>7. ASSUME NEW b \in Batches, StoreTryRaises(b) PROVE NumberMoves(n)
  <2>1. cur[b] \in Numbers
    BY <1>7 DEF StoreTryRaises, TypeOK
  <2> QED
    BY <1>1, <1>5, <1>7, <2>1 DEF StoreTryRaises
<1>8. ASSUME NEW b \in Batches, StoreFailure(b) PROVE NumberMoves(n)
  <2>1. IF n = cur[b] THEN /\ num'[n].status = "failed"
                           /\ num'[n].attempts = num[n].attempts + 1
                      ELSE num'[n] = num[n]
    BY <1>8, StoreFailureDoc
  <2>2. UNCHANGED <<requeues, late>>
    BY <1>8 DEF StoreFailure, obsVars
  <2>3. num'[n].attempts \in Nat /\ num'[n].attempts >= num[n].attempts
    BY <1>0, <2>1
  <2>4. num'[n].status = "failed" \/ num'[n].status = num[n].status
    BY <2>1
  <2> QED
    BY <1>0, <2>2, <2>3, <2>4 DEF NumberMoves
<1>9. ASSUME NEW h \in Hooks, UpdateNumber(h) PROVE NumberMoves(n)
  <2> DEFINE m == hook[h].number
             s == hook[h].status
  <2>1. /\ m \in Numbers /\ s # "absent"
        /\ IF n = m THEN num'[n].status = s /\ num'[n].attempts = num[n].attempts
                    ELSE num'[n] = num[n]
    BY <1>9, UpdateNumberDoc
  <2>2. NoteSaid(m, s) /\ s \in NumberStatus
    BY <1>9 DEF UpdateNumber, TypeOK, HookDoc, Reported, NumberStatus, Final, Expirable
  <2>3. /\ num'[n].attempts \in Nat /\ num'[n].attempts >= num[n].attempts
        /\ IF n = m THEN num'[n].status = s ELSE num'[n].status = num[n].status
    BY <1>0, <2>1
  <2> HIDE DEF m, s
  <2> QED
    BY <2>1, <2>2, <2>3, SaidMoves
<1>10. \/ SetStatus \/ CancelCampaign \/ GrowOld
       \/ (\E b \in Batches :
              \/ StartCampaign(b) \/ FindItems(b) \/ NextItem(b) \/ Undialable(b)
              \/ NoCredentials(b) \/ Dial(b) \/ Reply(b) \/ CountPending(b))
       \/ (\E h \in Hooks : SaveCall(h) \/ \E s \in Sids : FindCall(h, s))
       \/ UNCHANGED vars
       => UNCHANGED <<num, requeues, late>>
  BY DEF SetStatus, CancelCampaign, GrowOld, StartCampaign, FindItems, NextItem, Undialable,
         NoCredentials, Dial, Reply, CountPending, SaveCall, FindCall, vars, obsVars
<1>11. ListCampaign \/ (\E b \in Batches : ExpireOld(b))
       => num' = Expired /\ UNCHANGED <<requeues, late>>
  BY DEF ListCampaign, ExpireOld, obsVars
<1>12. ASSUME NEW b \in Batches, FinishBatch(b) \/ KillBatch(b) PROVE NumberMoves(n)
  <2>1. UNCHANGED <<num, requeues>> /\ late' = LateWithout(b)
    BY <1>12 DEF FinishBatch, KillBatch
  <2>2. batPc' = [batPc EXCEPT ![b] = "idle"]
    BY <1>12 DEF FinishBatch, KillBatch
  <2>3. n \in late /\ StillCompleting => n \in late'
    BY <2>1, <2>2 DEF StillCompleting, LateWithout, TypeOK
  <2> QED
    BY <1>0, <2>1, <2>3 DEF NumberMoves
<1> QED
  BY <1>1, <1>2, <1>3, <1>4, <1>6, <1>7, <1>8, <1>9, <1>10, <1>11, <1>12
  DEF Next, BatchStep, HookStep

\* A batch that takes no step keeps its place, whatever the others do.
LEMMA PlaceFrame ==
    ASSUME TypeOK, [Next]_vars, NEW a \in Batches, BatchPlace(a), FoundPlace(a),
           batPc'[a] = batPc[a], items'[a] = items[a], left'[a] = left[a],
           cur'[a] = cur[a], curSid'[a] = curSid[a]
    PROVE  BatchPlace(a)' /\ FoundPlace(a)'
<1>1. BatchPlace(a)'
  <2>1. ASSUME batPc[a] = "completed", NEW n \in Pending' PROVE n \in late'
    <3>1. n \in Numbers /\ num'[n].status = "pending" /\ NumberMoves(n)
      BY <2>1, NumberStep DEF Pending
    <3> QED
      BY <2>1, <3>1 DEF NumberMoves, BecomesPending, StillCompleting, BatchPlace, Pending
  <2> QED
    BY <2>1 DEF BatchPlace
<1>2. FoundPlace(a)'
  <2> SUFFICES ASSUME NEW n \in items'[a]
               PROVE  n \in left'[a] \/ cur'[a] = n \/ num'[n].attempts > 0
    BY DEF FoundPlace
  <2>1. n \in Numbers
    BY DEF TypeOK
  <2>2. NumberMoves(n)
    BY <2>1, NumberStep
  <2> QED
    BY <2>1, <2>2 DEF FoundPlace, NumberMoves
<1> QED
  BY <1>1, <1>2

\* A step of a batch is a step of no other.
Alone(b) ==
    \A a \in Batches \ {b} :
        /\ batPc'[a] = batPc[a] /\ items'[a] = items[a] /\ left'[a] = left[a]
        /\ cur'[a] = cur[a] /\ curSid'[a] = curSid[a]

LEMMA BatchAlone ==
    ASSUME TypeOK, NEW b \in Batches, StartCampaign(b) \/ BatchStep(b) \/ KillBatch(b)
    PROVE  Alone(b)
BY ZenonT(60) DEF TypeOK, Alone, BatchStep, StartCampaign, ExpireOld, FindItems, NextItem,
       Undialable, NoCredentials, Dial, Reply, StoreTry, StoreTryRaises, StoreFailure,
       CountPending, FinishBatch, KillBatch, batVars

\* Managers, time and webhooks leave the locals of every batch alone.
LEMMA OthersAlone ==
    ASSUME \/ \E n \in Numbers : AddNumber(n)
           \/ SetStatus \/ CancelCampaign \/ CancelNumbers \/ GrowOld \/ ListCampaign
           \/ \E h \in Hooks : HookStep(h) \/ \E s \in Sids : FindCall(h, s)
           \/ UNCHANGED vars
    PROVE  UNCHANGED batVars
BY DEF AddNumber, SetStatus, CancelCampaign, CancelNumbers, GrowOld, ListCampaign,
       HookStep, SaveCall, UpdateNumber, FindCall, batVars, vars

-----------------------------------------------------------------------------
\* The locals of a batch fit where it stands, and what it found it has tried or
\* has still to try.
LEMMA PlaceStep ==
    ASSUME TypeOK, PlaceInv, [Next]_vars
    PROVE  PlaceInv'
<1>1. CASE UNCHANGED batVars
  <2> SUFFICES ASSUME NEW a \in Batches PROVE BatchPlace(a)' /\ FoundPlace(a)'
    BY DEF PlaceInv
  <2> QED
    BY <1>1, PlaceFrame DEF PlaceInv, batVars
<1>2. ASSUME NEW b \in Batches, StartCampaign(b) \/ BatchStep(b) \/ KillBatch(b)
      PROVE  BatchPlace(b)' /\ FoundPlace(b)'
  <2> USE CallCampaignAssumption DEF TypeOK, BatchPlace, FoundPlace, PlaceInv
  <2>0. /\ BatchPlace(b) /\ FoundPlace(b)
        /\ items[b] \subseteq Numbers
        /\ \A n \in Numbers : /\ num[n].attempts \in Nat /\ num'[n].attempts \in Nat
                              /\ num'[n].attempts >= num[n].attempts
    BY NumberStep DEF NumberMoves
  <2>1. CASE StartCampaign(b) \/ ExpireOld(b)
    BY <2>0, <2>1 DEF StartCampaign, ExpireOld
  <2>2. CASE FindItems(b)
    BY <2>0, <2>2 DEF FindItems, ToDial, Pending
  <2>3. CASE NextItem(b)
    BY <2>0, <2>3 DEF NextItem
  <2>4. CASE Undialable(b) \/ NoCredentials(b)
    BY <2>0, <2>4 DEF Undialable, NoCredentials
  <2>5. CASE Dial(b)
    BY <2>0, <2>5 DEF Dial
  <2>6. CASE Reply(b)
    BY <2>0, <2>6 DEF Reply
  <2>7. CASE StoreTry(b)
    <3>1. cur[b] \in Numbers
      BY <2>0, <2>7 DEF StoreTry
    <3>2. num'[cur[b]].attempts = num[cur[b]].attempts + 1
      BY <2>7, <3>1, TryDoc DEF StoreTry
    <3>3. num'[cur[b]].attempts > 0
      BY <2>0, <3>1, <3>2
    <3>4. /\ batPc'[b] = "items" /\ cur'[b] = None /\ curSid'[b] = None
          /\ items'[b] = items[b] /\ left'[b] = left[b]
      BY <2>7 DEF StoreTry
    <3>5. BatchPlace(b)'
      BY <2>0, <2>7, <3>1, <3>4 DEF StoreTry
    <3>6. FoundPlace(b)'
      BY <2>0, <3>1, <3>3, <3>4
    <3> QED
      BY <3>5, <3>6
  <2>11. CASE StoreTryRaises(b)
    BY <2>0, <2>11 DEF StoreTryRaises
  <2>8. CASE StoreFailure(b)
    <3>1. cur[b] \in Numbers
      BY <2>0, <2>8 DEF StoreFailure
    <3>2. num'[cur[b]].attempts = num[cur[b]].attempts + 1
      BY <2>8, <3>1, StoreFailureDoc
    <3>3. num'[cur[b]].attempts > 0
      BY <2>0, <3>1, <3>2
    <3> QED
      BY <2>0, <2>8, <3>1, <3>3 DEF StoreFailure, AfterFailure
  <2>9. CASE CountPending(b)
    BY <2>0, <2>9 DEF CountPending, StatusAfter, Pending
  <2>10. CASE FinishBatch(b) \/ KillBatch(b)
    BY <2>0, <2>10 DEF FinishBatch, KillBatch
  <2> QED
    BY <1>2, <2>1, <2>2, <2>3, <2>4, <2>5, <2>6, <2>7, <2>8, <2>9, <2>10, <2>11
    DEF BatchStep
<1>3. ASSUME NEW b \in Batches, StartCampaign(b) \/ BatchStep(b) \/ KillBatch(b)
      PROVE  PlaceInv'
  <2> SUFFICES ASSUME NEW a \in Batches PROVE BatchPlace(a)' /\ FoundPlace(a)'
    BY DEF PlaceInv
  <2>1. CASE a = b
    BY <1>2, <1>3, <2>1
  <2>2. CASE a # b
    BY <1>3, <2>2, BatchAlone, PlaceFrame DEF PlaceInv, Alone
  <2> QED
    BY <2>1, <2>2
<1> QED
  BY <1>1, <1>3, OthersAlone DEF Next

\* What batches hold fits where they stand.
THEOREM PlaceInvariant == Spec => []PlaceInv
<1>1. Init => PlaceInv
  BY CallCampaignAssumption DEF Init, PlaceInv, BatchPlace, FoundPlace
<1> QED
  BY <1>1, PlaceStep, TypeCorrect, PTL DEF Spec

\* A batch that completes the campaign overlooks no number but those that became
\* pending after it counted, for any number of numbers, batches and webhooks.
THEOREM OverlooksOnlyLate == Spec => []CompletedOverlooksOnlyLate
<1>1. PlaceInv => CompletedOverlooksOnlyLate
  BY DEF PlaceInv, BatchPlace, CompletedOverlooksOnlyLate
<1> QED
  BY <1>1, PlaceInvariant, PTL

\* A batch that comes to its end has tried every number it found, whichever of
\* them could not be dialed.
THEOREM AllFoundTried == Spec => []FoundIsTried
<1>1. TypeOK /\ PlaceInv => FoundIsTried
  BY CallCampaignAssumption
  DEF TypeOK, PlaceInv, BatchPlace, FoundPlace, FoundIsTried
<1> QED
  BY <1>1, TypeCorrect, PlaceInvariant, PTL

-----------------------------------------------------------------------------
\* A step that places no call and stores no call id keeps who calls are for.
LEMMA CallFrame ==
    ASSUME CallInv, UNCHANGED <<call, dialedFor, hookPc, hook>>,
           \A n \in Numbers : num'[n].sid = num[n].sid,
           \A b \in Batches : curSid'[b] # None =>
               curSid'[b] = curSid[b] /\ cur'[b] = cur[b]
    PROVE  CallInv'
BY DEF CallInv, CallsAreOfTheirNumber

\* Calls, numbers, batches and webhook handlers agree on who a call is for.
LEMMA CallStep ==
    ASSUME TypeOK, PlaceInv, CallInv, [Next]_vars
    PROVE  CallInv'
<1> USE DEF campVars, batVars, hookVars, obsVars
<1>1. CASE SetStatus \/ CancelCampaign \/ GrowOld \/ UNCHANGED vars
  BY <1>1, CallFrame DEF SetStatus, CancelCampaign, GrowOld, vars
<1>2. CASE CancelNumbers
  <2>1. UNCHANGED <<call, dialedFor, hookPc, hook, cur, curSid>>
    BY <1>2 DEF CancelNumbers
  <2> QED
    BY <1>2, <2>1, CancelDoc, CallFrame
<1>13. ASSUME NEW n \in Numbers, AddNumber(n) PROVE CallInv'
  <2>1. UNCHANGED <<call, dialedFor, hookPc, hook, cur, curSid>>
    BY <1>13 DEF AddNumber
  <2>2. \A m \in Numbers : num'[m].sid # None => num'[m].sid = num[m].sid
    BY <1>13, AddDoc DEF NewNumber
  <2> QED
    BY <2>1, <2>2 DEF CallInv, CallsAreOfTheirNumber
<1>3. CASE ListCampaign
  BY <1>3, ExpiredType, CallFrame DEF ListCampaign, TypeOK
<1>4. ASSUME NEW b \in Batches,
             StartCampaign(b) \/ FindItems(b) \/ NextItem(b) \/ Undialable(b)
                \/ NoCredentials(b) \/ CountPending(b) \/ FinishBatch(b) \/ KillBatch(b)
      PROVE  CallInv'
  <2>1. UNCHANGED <<num, call, dialedFor, hookPc, hook>>
    BY <1>4 DEF StartCampaign, FindItems, NextItem, Undialable, NoCredentials,
                CountPending, FinishBatch, KillBatch
  <2>2. \A a \in Batches : curSid'[a] # None =>
            curSid'[a] = curSid[a] /\ cur'[a] = cur[a]
    BY <1>4 DEF TypeOK, PlaceInv, BatchPlace, StartCampaign, FindItems, NextItem,
                Undialable, NoCredentials, CountPending, FinishBatch, KillBatch
  <2> QED
    BY <2>1, <2>2, CallFrame
<1>5. ASSUME NEW b \in Batches, ExpireOld(b) PROVE CallInv'
  BY <1>5, ExpiredType, CallFrame DEF ExpireOld, TypeOK
<1>6. ASSUME NEW b \in Batches, Dial(b) PROVE CallInv'
  <2>1. cur[b] \in Numbers /\ curSid[b] = None
    BY <1>6 DEF TypeOK, PlaceInv, BatchPlace, Dial
  <2>2. CASE UNCHANGED <<dialedFor, curSid>>
    BY <1>6, <2>2, CallFrame DEF Dial
  <2>3. ASSUME NEW s \in Sids, dialedFor[s] = None,
               dialedFor' = [dialedFor EXCEPT ![s] = cur[b]],
               curSid' = [curSid EXCEPT ![b] = s]
        PROVE  CallInv'
    <3>1. \A t \in Sids : dialedFor[t] # None => dialedFor'[t] = dialedFor[t]
      BY <2>3 DEF TypeOK
    <3>2. CallsAreOfTheirNumber'
      <4>1. call' = call /\ num' = num
        BY <1>6 DEF Dial
      <4>2. \A n \in Numbers : num[n].sid \in Sids \cup {None}
        BY DEF TypeOK, NumberDoc
      <4> QED
        BY CallCampaignAssumption, <3>1, <4>1, <4>2
        DEF CallInv, CallsAreOfTheirNumber
    <3>3. \A a \in Batches : curSid'[a] # None => dialedFor'[curSid'[a]] = cur'[a]
      <4> SUFFICES ASSUME NEW a \in Batches, curSid'[a] # None
                   PROVE  dialedFor'[curSid'[a]] = cur'[a]
        OBVIOUS
      <4>1. cur' = cur
        BY <1>6 DEF Dial
      <4>2. CASE a = b
        BY <2>1, <2>3, <4>1, <4>2 DEF TypeOK
      <4>3. CASE a # b
        <5>1. curSid'[a] = curSid[a] /\ curSid[a] \in Sids /\ cur[a] # None
          BY <2>3, <4>3 DEF TypeOK, PlaceInv, BatchPlace
        <5> QED
          BY <3>1, <4>1, <5>1 DEF CallInv
      <4> QED
        BY <4>2, <4>3
    <3>4. hookPc' = hookPc /\ hook' = hook
      BY <1>6 DEF Dial
    <3> QED
      BY <3>1, <3>2, <3>3, <3>4 DEF CallInv
  <2> QED
    BY <1>6, <2>2, <2>3 DEF Dial
<1>7. ASSUME NEW b \in Batches, Reply(b) PROVE CallInv'
  <2>1. UNCHANGED <<num, dialedFor, hookPc, hook, cur>>
    BY <1>7 DEF Reply
  <2>2. \A a \in Batches : curSid'[a] # None => curSid'[a] = curSid[a]
    BY <1>7 DEF Reply, TypeOK
  <2>3. \A s \in Sids : call'[s] # None => call'[s] = dialedFor[s]
    BY <1>7 DEF Reply, TypeOK, CallInv, CallsAreOfTheirNumber
  <2> QED
    BY <2>1, <2>2, <2>3 DEF CallInv, CallsAreOfTheirNumber
<1>14. ASSUME NEW b \in Batches, cur[b] \in Numbers, NEW s \in Said(b), TryStored(b, s)
       PROVE  \A n \in Numbers : num'[n].sid # None => dialedFor[num'[n].sid] = n
  <2>1. \A n \in Numbers : IF n = cur[b] THEN num'[n].sid = curSid[b]
                                         ELSE num'[n] = num[n]
    BY <1>14, TryDoc
  <2> QED
    BY <2>1 DEF CallInv, CallsAreOfTheirNumber
<1>8. ASSUME NEW b \in Batches, StoreTry(b) \/ StoreTryRaises(b) PROVE CallInv'
  <2>1. UNCHANGED <<call, dialedFor, hookPc, hook>>
    BY <1>8 DEF StoreTry, StoreTryRaises
  <2>2. \A a \in Batches : curSid'[a] # None =>
            curSid'[a] = curSid[a] /\ cur'[a] = cur[a]
    BY <1>8 DEF StoreTry, StoreTryRaises, TypeOK
  <2>3. \A n \in Numbers : num'[n].sid # None => dialedFor[num'[n].sid] = n
    <3>1. cur[b] \in Numbers
      BY <1>8 DEF StoreTry, StoreTryRaises, TypeOK
    <3>2. num' = num \/ \E s \in Said(b) : TryStored(b, s)
      BY <1>8 DEF StoreTry, StoreTryRaises
    <3> QED
      BY <1>14, <3>1, <3>2 DEF CallInv, CallsAreOfTheirNumber
  <2> QED
    BY <2>1, <2>2, <2>3 DEF CallInv, CallsAreOfTheirNumber
<1>9. ASSUME NEW b \in Batches, StoreFailure(b) PROVE CallInv'
  <2>1. UNCHANGED <<call, dialedFor, hookPc, hook, curSid>>
    BY <1>9 DEF StoreFailure
  <2>2. \A a \in Batches : curSid[a] # None => cur'[a] = cur[a]
    BY <1>9 DEF StoreFailure, TypeOK, PlaceInv, BatchPlace
  <2>3. \A n \in Numbers : num'[n].sid = num[n].sid
    BY <1>9, StoreFailureDoc
  <2> QED
    BY <2>1, <2>2, <2>3, CallFrame
<1>10. ASSUME NEW h \in Hooks, NEW s \in Sids, FindCall(h, s) PROVE CallInv'
  <2>1. UNCHANGED <<num, call, dialedFor, cur, curSid>>
    BY <1>10 DEF FindCall
  <2>2. PICK r \in Reports :
           hook' = [hook EXCEPT ![h] = [sid |-> s, number |-> call[s], status |-> r]]
    BY <1>10 DEF FindCall, LinkOf
  <2>3. hookPc' = [hookPc EXCEPT ![h] = "save"]
    BY <1>10 DEF FindCall
  <2>4. call[s] \in {None, dialedFor[s]}
    BY DEF CallInv, CallsAreOfTheirNumber
  <2> QED
    BY <2>1, <2>2, <2>3, <2>4 DEF TypeOK, CallInv, CallsAreOfTheirNumber
<1>11. ASSUME NEW h \in Hooks, SaveCall(h) PROVE CallInv'
  <2>1. UNCHANGED <<num, dialedFor, cur, curSid>>
    BY <1>11 DEF SaveCall
  <2>2. \A s \in Sids : call'[s] # None => call'[s] = dialedFor[s]
    BY <1>11 DEF SaveCall, LinkKept, TypeOK, CallInv, CallsAreOfTheirNumber
  <2>3. \A g \in Hooks : hookPc'[g] # "idle" =>
           hook'[g] = hook[g] /\ hookPc[g] # "idle"
    BY <1>11 DEF SaveCall, TypeOK
  <2>4. \A g \in Hooks : hookPc'[g] = "number" => hook[g].number # None
    BY <1>11 DEF SaveCall, TypeOK, CallInv
  <2> QED
    BY <2>1, <2>2, <2>3, <2>4 DEF CallInv, CallsAreOfTheirNumber
<1>12. ASSUME NEW h \in Hooks, UpdateNumber(h) PROVE CallInv'
  <2>1. UNCHANGED <<call, dialedFor, cur, curSid>>
    BY <1>12 DEF UpdateNumber
  <2>2. \A n \in Numbers : num'[n].sid # None => dialedFor[num'[n].sid] = n
    <3>1. hookPc[h] = "number"
      BY <1>12 DEF UpdateNumber
    <3>2. hook[h].number = dialedFor[hook[h].sid]
      BY <3>1 DEF CallInv
    <3> QED
      BY <1>12, <3>2, UpdateNumberDoc DEF CallInv, CallsAreOfTheirNumber
  <2>3. \A g \in Hooks : hookPc'[g] # "idle" =>
           hook'[g] = hook[g] /\ hookPc'[g] = hookPc[g]
    BY <1>12 DEF UpdateNumber, TypeOK
  <2> QED
    BY <2>1, <2>2, <2>3 DEF CallInv, CallsAreOfTheirNumber
<1> QED
  BY <1>1, <1>2, <1>3, <1>4, <1>5, <1>6, <1>7, <1>8, <1>9, <1>10, <1>11, <1>12, <1>13
  DEF Next, BatchStep, HookStep

\* What batches and webhook handlers have read and stored of a call is about the
\* number it was placed for, however long ago they read it.
THEOREM CallInvariant == Spec => []CallInv
<1>1. Init => CallInv
  BY DEF Init, CallInv, CallsAreOfTheirNumber, AbsentNumber
<1> QED
  BY <1>1, CallStep, TypeCorrect, PlaceInvariant, PTL DEF Spec

\* A call recorded for a number and the call id a number shows are of a call
\* placed for that number, for any number of batches and late webhooks.
THEOREM CallsMatch == Spec => []CallsAreOfTheirNumber
<1>1. CallInv => CallsAreOfTheirNumber
  BY DEF CallInv
<1> QED
  BY <1>1, CallInvariant, PTL

-----------------------------------------------------------------------------
\* A saved call loses its number only to a webhook that read the call before the
\* batch had saved it.
THEOREM LinkLost == Spec => LinkLostOnlyToEarlyHook
<1> DEFINE Early(s) == \E h \in Hooks : /\ hookPc[h] = "save"
                                        /\ hook[h].sid = s
                                        /\ hook[h].number = None
<1>1. TypeOK /\ PlaceInv /\ [Next]_vars =>
         [\A s \in Sids : call[s] # None /\ call'[s] = None => Early(s)]_vars
  <2> SUFFICES ASSUME TypeOK, PlaceInv, [Next]_vars, NEW s \in Sids,
                      call[s] # None, call'[s] = None
               PROVE  Early(s)
    BY DEF vars
  <2>1. PICK h \in Hooks : SaveCall(h)
    <3>1. ASSUME NEW b \in Batches, Reply(b) PROVE FALSE
      <4>1. cur[b] # None
        BY <3>1 DEF PlaceInv, BatchPlace, Reply
      <4> QED
        BY <3>1, <4>1 DEF Reply, TypeOK
    <3>2. \/ call' = call
          \/ \E b \in Batches : Reply(b)
          \/ \E h \in Hooks : SaveCall(h)
      BY DEF Next, BatchStep, HookStep, AddNumber, SetStatus, CancelCampaign,
             CancelNumbers, GrowOld, ListCampaign, StartCampaign, ExpireOld, FindItems,
             NextItem, Undialable, NoCredentials, Dial, StoreTry, StoreTryRaises,
             StoreFailure, CountPending, FinishBatch, KillBatch, FindCall, UpdateNumber, vars
    <3> QED
      BY <3>1, <3>2
  <2>2. hookPc[h] = "save" /\ hook[h].sid = s /\ hook[h].number = None
    BY <2>1 DEF SaveCall, LinkKept, TypeOK
  <2> QED
    BY <2>2
<1> QED
  BY <1>1, TypeCorrect, PlaceInvariant, PTL DEF Spec, LinkLostOnlyToEarlyHook

-----------------------------------------------------------------------------
\* The three things a step can do about the tries of a number that is not lost:
\* nothing but let further batches try it, dial it, store its try.
LEMMA TryKinds ==
    ASSUME TypeOK, PlaceInv, [Next]_vars, NEW n \in Numbers, n \notin lost'
    PROVE  \/ /\ dials'[n] = dials[n]
              /\ \A b \in Batches : Trying(b, n) => Trying(b, n)'
           \/ \E b \in Batches : Dial(b) /\ cur[b] = n
           \/ \E b \in Batches : (StoreTry(b) \/ StoreFailure(b)) /\ cur[b] = n
<1> DEFINE Kept == /\ dials'[n] = dials[n]
                   /\ \A b \in Batches : Trying(b, n) => Trying(b, n)'
<1>1. CASE UNCHANGED batVars /\ UNCHANGED dials
  BY <1>1 DEF batVars, Trying
<1>3. ASSUME NEW b \in Batches, StartCampaign(b) \/ BatchStep(b) \/ KillBatch(b)
      PROVE  \/ Kept
             \/ Dial(b) /\ cur[b] = n
             \/ (StoreTry(b) \/ StoreFailure(b)) /\ cur[b] = n
  <2>0. \A a \in Batches \ {b} : Trying(a, n) => Trying(a, n)'
    BY <1>3, BatchAlone DEF Alone, Trying
  <2> SUFFICES \/ dials'[n] = dials[n] /\ (Trying(b, n) => Trying(b, n)')
               \/ Dial(b) /\ cur[b] = n
               \/ (StoreTry(b) \/ StoreFailure(b)) /\ cur[b] = n
    BY <2>0
  <2> USE DEF Trying, TypeOK, obsVars
  <2>1. CASE StartCampaign(b) \/ ExpireOld(b) \/ FindItems(b)
    BY <2>1 DEF StartCampaign, ExpireOld, FindItems
  <2>2. CASE NextItem(b) \/ CountPending(b) \/ FinishBatch(b)
    BY <2>2 DEF NextItem, CountPending, FinishBatch
  <2>3. CASE Undialable(b) \/ NoCredentials(b)
    BY <2>3 DEF Undialable, NoCredentials
  <2>4. CASE Dial(b) /\ cur[b] # n
    BY <2>4 DEF Dial
  <2>5. CASE Reply(b)
    BY <2>5 DEF Reply
  <2>6. CASE (StoreTry(b) \/ StoreFailure(b)) /\ cur[b] # n
    BY <2>6 DEF StoreTry, StoreFailure
  <2>8. CASE StoreTryRaises(b)
    BY <2>8 DEF StoreTryRaises
  <2>7. CASE KillBatch(b)
    <3>1. dials' = dials
      BY <2>7 DEF KillBatch
    <3>2. cur[b] # n
      BY <2>7, CallCampaignAssumption DEF KillBatch
    <3> QED
      BY <3>1, <3>2
  <2> QED
    BY <1>3, <2>1, <2>2, <2>3, <2>4, <2>5, <2>6, <2>7, <2>8 DEF BatchStep
<1>4. \/ \E m \in Numbers : AddNumber(m)
      \/ SetStatus \/ CancelCampaign \/ CancelNumbers \/ GrowOld \/ ListCampaign
      \/ (\E h \in Hooks : HookStep(h) \/ \E s \in Sids : FindCall(h, s))
      \/ UNCHANGED vars
      => UNCHANGED batVars /\ UNCHANGED dials
  BY DEF AddNumber, SetStatus, CancelCampaign, CancelNumbers, GrowOld, ListCampaign,
         HookStep, FindCall, SaveCall, UpdateNumber, batVars, obsVars, vars
<1> QED
  BY <1>1, <1>3, <1>4 DEF Next

\* A batch gets a number only by finding it.
LEMMA HasKinds ==
    ASSUME TypeOK, [Next]_vars, NEW n \in Numbers
    PROVE  \/ \A b \in Batches : Has(b, n)' => Has(b, n)
           \/ \E b \in Batches : FindItems(b) /\ n \in items'[b]
<1>1. CASE UNCHANGED batVars
  BY <1>1 DEF batVars, Has
<1>2. ASSUME NEW b \in Batches, StartCampaign(b) \/ BatchStep(b) \/ KillBatch(b),
             ~(FindItems(b) /\ n \in items'[b])
      PROVE  \A a \in Batches : Has(a, n)' => Has(a, n)
  <2>0. \A a \in Batches \ {b} : Has(a, n)' => Has(a, n)
    BY <1>2, BatchAlone DEF Alone, Has
  <2> SUFFICES ASSUME Has(b, n)' PROVE Has(b, n)
    BY <2>0
  <2> USE CallCampaignAssumption DEF Has, TypeOK
  <2>1. CASE FindItems(b)
    <3>1. PICK S \in SUBSET ToDial :
             items' = [items EXCEPT ![b] = S] /\ left' = [left EXCEPT ![b] = S]
      BY <2>1 DEF FindItems
    <3>2. cur' = cur /\ n \notin items'[b]
      BY <1>2, <2>1 DEF FindItems
    <3> QED
      BY <3>1, <3>2
  <2>2. CASE StartCampaign(b) \/ ExpireOld(b) \/ NextItem(b) \/ CountPending(b)
    BY <2>2 DEF StartCampaign, ExpireOld, NextItem, CountPending
  <2>3. CASE Undialable(b) \/ NoCredentials(b) \/ Dial(b) \/ Reply(b)
    BY <2>3 DEF Undialable, NoCredentials, Dial, Reply
  <2>7. CASE StoreTryRaises(b)
    BY <2>7 DEF StoreTryRaises
  <2>4. CASE StoreTry(b) \/ StoreFailure(b)
    <3>1. left' = left /\ cur' = [cur EXCEPT ![b] = None]
      BY <2>4 DEF StoreTry, StoreFailure
    <3> QED
      BY <3>1
  <2>5. CASE FinishBatch(b)
    BY <2>5 DEF FinishBatch
  <2>6. CASE KillBatch(b)
    BY <2>6 DEF KillBatch
  <2> QED
    BY <1>2, <2>1, <2>2, <2>3, <2>4, <2>5, <2>6, <2>7 DEF BatchStep
<1> QED
  BY <1>1, <1>2, OthersAlone DEF Next

\* Numbers stay lost and raced for.
LEMMA Forever ==
    ASSUME [Next]_vars
    PROVE  lost \subseteq lost' /\ raced \subseteq raced'
BY DEF Next, BatchStep, HookStep, AddNumber, SetStatus, CancelCampaign, CancelNumbers,
       GrowOld, ListCampaign, StartCampaign, ExpireOld, FindItems, NextItem, Undialable,
       NoCredentials, Dial, Reply, StoreTry, StoreTryRaises, StoreFailure, CountPending,
       FinishBatch, KillBatch, FindCall, SaveCall, UpdateNumber, vars, obsVars

-----------------------------------------------------------------------------
\* A batch that finds a number nobody else has finds one whose calls are all paid for.
LEMMA FindFresh ==
    ASSUME TypeOK, PlaceInv, NEW n \in Numbers, PaidFor(n), n \notin raced',
           NEW b \in Batches, FindItems(b), n \in items'[b]
    PROVE  PaidFor(n)'
<1>1. PICK S \in SUBSET ToDial :
         /\ items' = [items EXCEPT ![b] = S]
         /\ left' = [left EXCEPT ![b] = S]
         /\ raced' = raced \cup (S \cap Elsewhere(b))
  BY DEF FindItems
<1>2. n \in S /\ n \notin Elsewhere(b)
  BY <1>1 DEF TypeOK
<1>3. \A a \in Batches \ {b} : ~Has(a, n)
  BY <1>2, CallCampaignAssumption DEF Elsewhere, Has
<1>4. left[b] = {} /\ cur[b] = None
  BY DEF PlaceInv, BatchPlace, FindItems
<1>5. \A a \in Batches : ~Has(a, n)
  BY <1>3, <1>4, CallCampaignAssumption DEF Has
<1>6. num[n].status = "pending"
  BY <1>1, <1>2 DEF ToDial, Pending
<1>7. dials[n] <= requeues[n]
  BY <1>5, <1>6 DEF PaidFor
<1>8. UNCHANGED <<num, dials, requeues, cur>>
  BY DEF FindItems
<1>9. \A a \in Batches : Has(a, n)' => a = b
  BY <1>1, <1>3, <1>8 DEF Has, TypeOK
<1>10. dials[n] <= 1 + requeues[n]
  BY DEF PaidFor
<1> QED
  BY <1>6, <1>7, <1>8, <1>9, <1>10 DEF PaidFor

\* Each call but one of a number neither raced for nor lost stays paid for.
LEMMA DialStep ==
    ASSUME TypeOK, PlaceInv, [Next]_vars, NEW n \in Numbers, PaidFor(n),
           n \notin lost', n \notin raced'
    PROVE  PaidFor(n)'
<1>1. CASE \E b \in Batches : FindItems(b) /\ n \in items'[b]
  BY <1>1, FindFresh
<1>2. CASE \A b \in Batches : Has(b, n)' => Has(b, n)
  <2>0. /\ \A a, b \in Batches : Has(a, n)' /\ Has(b, n)' => a = b
        /\ dials[n] \in Nat /\ requeues[n] \in Nat /\ requeues'[n] \in Nat
        /\ requeues'[n] >= requeues[n]
    BY <1>2, NumberStep DEF PaidFor, TypeOK, NumberMoves
  <2>1. CASE /\ dials'[n] = dials[n]
             /\ \A b \in Batches : Trying(b, n) => Trying(b, n)'
    <3>1. \A b \in Batches : Has(b, n)' /\ ~Trying(b, n)' => dials'[n] <= requeues'[n]
      <4>1. ASSUME NEW b \in Batches, Has(b, n)', ~Trying(b, n)'
            PROVE  dials[n] <= requeues[n]
        BY <1>2, <2>1, <4>1 DEF PaidFor
      <4> QED
        BY <2>0, <2>1, <4>1
    <3>2. ASSUME num'[n].status = "pending", \A b \in Batches : ~Has(b, n)'
          PROVE  dials'[n] <= requeues'[n]
      <4>1. \A b \in Batches : ~Trying(b, n)
        BY <2>1, <3>2 DEF Has, Trying
      <4>2. CASE num[n].status = "pending"
        <5>1. dials[n] <= requeues[n]
          BY <4>1, <4>2 DEF PaidFor
        <5> QED
          BY <2>0, <2>1, <5>1
      <4>3. CASE num[n].status = "absent"
        BY <2>0, <2>1, <4>3 DEF PaidFor
      <4>4. CASE requeues'[n] > requeues[n]
        BY <2>0, <2>1, <4>4 DEF PaidFor
      <4> QED
        BY <3>2, <4>2, <4>3, <4>4, NumberStep DEF NumberMoves, BecomesPending
    <3>3. dials'[n] <= 1 + requeues'[n]
      BY <2>0, <2>1 DEF PaidFor
    <3>4. num'[n].status = "absent" => dials'[n] = 0 /\ \A b \in Batches : ~Has(b, n)'
      BY <1>2, <2>1, NumberStep DEF PaidFor, NumberMoves
    <3> QED
      BY <2>0, <3>1, <3>2, <3>3, <3>4 DEF PaidFor
  <2>2. ASSUME NEW b \in Batches, Dial(b), cur[b] = n PROVE PaidFor(n)'
    <3>1. Has(b, n) /\ ~Trying(b, n)
      BY <2>2 DEF Has, Trying, Dial
    <3>2. dials[n] <= requeues[n] /\ num[n].status # "absent"
      BY <3>1 DEF PaidFor
    <3>3. dials'[n] = dials[n] + 1 /\ UNCHANGED <<num, requeues>>
      BY <2>2 DEF Dial, TypeOK
    <3>4. Trying(b, n)' /\ Has(b, n)'
      BY <2>2 DEF Dial, Trying, Has, TypeOK
    <3>5. \A a \in Batches : Has(a, n)' => a = b
      BY <1>2, <3>1 DEF PaidFor
    <3>6. dials'[n] <= 1 + requeues'[n]
      BY <2>0, <3>2, <3>3
    <3> QED
      BY <2>0, <3>2, <3>3, <3>4, <3>5, <3>6 DEF PaidFor
  <2>3. ASSUME NEW b \in Batches, StoreTry(b) \/ StoreFailure(b), cur[b] = n
        PROVE  PaidFor(n)'
    <3>1. Has(b, n) /\ n \notin left[b]
      BY <2>3 DEF Has, PlaceInv, BatchPlace
    <3>2. left' = left /\ cur' = [cur EXCEPT ![b] = None] /\ dials' = dials
      BY <2>3 DEF StoreTry, StoreFailure, obsVars
    <3>3. ~Has(b, n)'
      BY <3>1, <3>2, CallCampaignAssumption DEF Has, TypeOK
    <3>4. \A a \in Batches : ~Has(a, n)'
      BY <1>2, <3>1, <3>3 DEF PaidFor
    <3>5. /\ num'[n].status # "absent"
          /\ num'[n].status = "pending" => requeues'[n] = requeues[n] + 1
      <4>1. CASE StoreFailure(b)
        BY <2>3, <4>1, StoreFailureDoc
      <4>2. CASE StoreTry(b)
        <5>1. PICK s \in Said(b) : TryStored(b, s)
          BY <4>2 DEF StoreTry
        <5>2. s # "absent" /\ num'[n].status = s
          BY <2>3, <5>1, TryDoc
        <5>3. s = "pending" => requeues'[n] = requeues[n] + 1
          BY <2>3, <5>1, SaidNoted DEF TryStored
        <5> QED
          BY <5>2, <5>3
      <4> QED
        BY <2>3, <4>1, <4>2
    <3>6. dials[n] <= 1 + requeues[n]
      BY DEF PaidFor
    <3>7. /\ dials'[n] <= 1 + requeues'[n]
          /\ num'[n].status = "pending" => dials'[n] <= requeues'[n]
      BY <2>0, <3>2, <3>5, <3>6
    <3> QED
      BY <3>4, <3>5, <3>7 DEF PaidFor
  <2> QED
    BY <2>1, <2>2, <2>3, TryKinds
<1> QED
  BY <1>1, <1>2, HasKinds

\* For each number that was not raced for and not lost, the batches that have
\* it, its status and its calls stay consistent.
THEOREM DialInvariant == Spec => []DialInv
<1>1. Init => DialInv
  BY CallCampaignAssumption DEF Init, DialInv, PaidFor, Has, AbsentNumber
<1>2. TypeOK /\ PlaceInv /\ DialInv /\ [Next]_vars => DialInv'
  BY DialStep, Forever DEF DialInv
<1> QED
  BY <1>1, <1>2, TypeCorrect, PlaceInvariant, PTL DEF Spec

\* A number that no two batches had together and none was killed on is called once
\* and once more for each time the provider said pending of it, at most, whatever
\* the order of webhooks, replies, expiry and cancellations.
THEOREM NoStrayRedial == Spec => []RedialNeedsRaceKillOrReport
<1>1. TypeOK /\ DialInv => RedialNeedsRaceKillOrReport
  BY DEF TypeOK, DialInv, PaidFor, RedialNeedsRaceKillOrReport
<1> QED
  BY <1>1, TypeCorrect, DialInvariant, PTL

-----------------------------------------------------------------------------
Tries(n) == {b \in Batches : Trying(b, n)}

\* The calls of a number are its stored tries and those under way.
LEMMA AttemptsStep ==
    ASSUME TypeOK, PlaceInv, [Next]_vars, NEW n \in Numbers, n \notin lost',
           dials[n] <= num[n].attempts + Cardinality(Tries(n))
    PROVE  dials'[n] <= num'[n].attempts + Cardinality(Tries(n)')
<1>0. /\ IsFiniteSet(Tries(n)) /\ Cardinality(Tries(n)) \in Nat
      /\ IsFiniteSet(Tries(n)') /\ Cardinality(Tries(n)') \in Nat
      /\ dials[n] \in Nat /\ num[n].attempts \in Nat /\ num'[n].attempts \in Nat
      /\ num'[n].attempts >= num[n].attempts
  <2>1. Tries(n) \subseteq Batches /\ Tries(n)' \subseteq Batches
    BY DEF Tries
  <2>2. IsFiniteSet(Tries(n)) /\ IsFiniteSet(Tries(n)')
    BY <2>1, CallCampaignAssumption, FS_Subset
  <2> QED
    BY <2>2, FS_CardinalityType, NumberStep DEF TypeOK, NumberMoves
<1>1. CASE /\ dials'[n] = dials[n]
           /\ \A b \in Batches : Trying(b, n) => Trying(b, n)'
  <2>1. Tries(n) \subseteq Tries(n)'
    BY <1>1 DEF Tries
  <2>2. Cardinality(Tries(n)) <= Cardinality(Tries(n)')
    BY <1>0, <2>1, FS_Subset
  <2> QED
    BY <1>0, <1>1, <2>2
<1>2. ASSUME NEW b \in Batches, Dial(b), cur[b] = n
      PROVE  dials'[n] <= num'[n].attempts + Cardinality(Tries(n)')
  <2>1. b \notin Tries(n)
    BY <1>2 DEF Tries, Trying, Dial
  <2>2. cur' = cur /\ batPc' = [batPc EXCEPT ![b] = "reply"]
    BY <1>2 DEF Dial
  <2>3. Tries(n)' = Tries(n) \cup {b}
    BY <1>2, <2>2 DEF Tries, Trying, TypeOK
  <2>4. Cardinality(Tries(n)') = Cardinality(Tries(n)) + 1
    BY <1>0, <2>1, <2>3, FS_AddElement
  <2>5. dials'[n] = dials[n] + 1
    BY <1>2 DEF Dial, TypeOK
  <2> QED
    BY <1>0, <2>4, <2>5
<1>3. ASSUME NEW b \in Batches, StoreTry(b) \/ StoreFailure(b), cur[b] = n
      PROVE  dials'[n] <= num'[n].attempts + Cardinality(Tries(n)')
  <2>1. b \in Tries(n)
    BY <1>3 DEF Tries, Trying, StoreTry, StoreFailure
  <2>2. /\ cur' = [cur EXCEPT ![b] = None] /\ dials' = dials
        /\ batPc' = [batPc EXCEPT ![b] = "items"]
    BY <1>3 DEF StoreTry, StoreFailure, AfterFailure, obsVars
  <2>3. Tries(n)' = Tries(n) \ {b}
    BY <2>2, CallCampaignAssumption DEF Tries, Trying, TypeOK
  <2>4. Cardinality(Tries(n)') = Cardinality(Tries(n)) - 1
    BY <1>0, <2>1, <2>3, FS_RemoveElement
  <2>5. num'[n].attempts = num[n].attempts + 1
    BY <1>3, TryDoc, StoreFailureDoc DEF StoreTry, TypeOK
  <2> QED
    BY <1>0, <2>2, <2>4, <2>5
<1> QED
  BY <1>1, <1>2, <1>3, TryKinds

\* No click-to-call request goes uncounted: attempts and the tries under way
\* account for every one of a number that is not lost.
THEOREM EveryTryCounted == Spec => []AttemptsCounted
<1>1. Init => AttemptsCounted
  <2> SUFFICES ASSUME Init, NEW n \in Numbers
               PROVE  dials[n] <= num[n].attempts + Cardinality(Tries(n))
    BY DEF AttemptsCounted, Tries
  <2>1. IsFiniteSet(Tries(n))
    BY CallCampaignAssumption, FS_Subset DEF Tries
  <2>2. dials[n] = 0 /\ num[n].attempts = 0
    BY DEF Init, AbsentNumber
  <2> QED
    BY <2>1, <2>2, FS_CardinalityType
<1>2. TypeOK /\ PlaceInv /\ AttemptsCounted /\ [Next]_vars => AttemptsCounted'
  <2> SUFFICES ASSUME TypeOK, PlaceInv, AttemptsCounted, [Next]_vars,
                      NEW n \in Numbers, n \notin lost'
               PROVE  dials'[n] <= num'[n].attempts + Cardinality(Tries(n)')
    BY DEF AttemptsCounted, Tries
  <2>1. dials[n] <= num[n].attempts + Cardinality(Tries(n))
    BY Forever DEF AttemptsCounted, Tries
  <2> QED
    BY <2>1, AttemptsStep
<1> QED
  BY <1>1, <1>2, TypeCorrect, PlaceInvariant, PTL DEF Spec

-----------------------------------------------------------------------------
(***************************************************************************)
(* The refinement of CheckThenAct.                                         *)
(***************************************************************************)
HasAll == \A b \in Batches : \A n \in Numbers : n \in FoundBy[b] <=> Has(b, n)

LEMMA FoundHas ==
    ASSUME TypeOK
    PROVE  HasAll /\ FoundBy \in [Batches -> SUBSET Numbers]
<1>1. ASSUME NEW b \in Batches
      PROVE  /\ FoundBy[b] = left[b] \cup ({cur[b]} \ {None})
             /\ left[b] \subseteq Numbers /\ cur[b] \in Numbers \cup {None}
  BY DEF TypeOK, FoundBy
<1>2. FoundBy \in [Batches -> SUBSET Numbers]
  <2>1. ASSUME NEW b \in Batches PROVE left[b] \cup ({cur[b]} \ {None}) \subseteq Numbers
    BY <1>1
  <2> QED
    BY <2>1 DEF FoundBy
<1> QED
  BY <1>1, <1>2, CallCampaignAssumption DEF HasAll, Has

\* A step of one batch changes what that batch has, and nobody else's.
LEMMA FoundStep ==
    ASSUME TypeOK, NEW b \in Batches, Alone(b), NEW S, FoundBy'[b] = S
    PROVE  FoundBy' = [FoundBy EXCEPT ![b] = S]
<1>1. /\ FoundBy = [a \in Batches |-> left[a] \cup ({cur[a]} \ {None})]
      /\ FoundBy' = [a \in Batches |-> left'[a] \cup ({cur'[a]} \ {None})]
  BY DEF FoundBy
<1>2. \A a \in Batches \ {b} : left'[a] = left[a] /\ cur'[a] = cur[a]
  BY DEF Alone
<1> QED
  BY <1>1, <1>2

LEMMA FoundSame ==
    ASSUME UNCHANGED <<left, cur>>
    PROVE  FoundBy' = FoundBy
BY DEF FoundBy

Excused == raced \cup lost \cup Requeued

\* Numbers that others close: cancelled, expired, reported on.
LEMMA WithdrawRefines ==
    ASSUME TypeOK, [Next]_vars, UNCHANGED <<left, cur, dials, lost, raced, requeues>>
    PROVE  \E S \in SUBSET Numbers : Calls!Withdraw(S)
<1>1. Open' \subseteq Open
  <2> SUFFICES ASSUME NEW n \in Open' PROVE n \in Open
    OBVIOUS
  <2>1. n \in Numbers /\ NumberMoves(n) /\ num'[n].status \in {"absent", "pending"}
    BY NumberStep DEF Open
  <2>2. requeues'[n] = requeues[n] /\ requeues[n] \in Nat
    BY <2>1 DEF TypeOK
  <2> QED
    BY <2>1, <2>2 DEF NumberMoves, BecomesPending, Open
<1>2. Open' = Open \ (Open \ Open')
  BY <1>1
<1>3. Open \ Open' \in SUBSET Numbers
  BY DEF Open
<1>4. FoundBy' = FoundBy
  BY FoundSame
<1>5. Requeued' = Requeued
  BY DEF Requeued
<1> QED
  BY <1>2, <1>3, <1>4, <1>5 DEF Calls!Withdraw

\* A number of which the provider says pending is open again, and excused.
LEMMA SaidPending ==
    ASSUME TypeOK, NEW m \in Numbers, num'[m].status = "pending",
           \A n \in Numbers \ {m} : num'[n] = num[n],
           NoteSaid(m, "pending"), UNCHANGED <<lost, raced>>
    PROVE  Open' = Open \cup {m} /\ Excused' = Excused \cup {m}
<1>1. \A n \in Numbers :
         /\ requeues[n] \in Nat
         /\ requeues'[n] = IF n = m THEN requeues[n] + 1 ELSE requeues[n]
  BY SaidNoted DEF TypeOK
<1>2. Open' = Open \cup {m}
  BY DEF Open
<1>3. Requeued' = Requeued \cup {m}
  BY <1>1 DEF Requeued
<1> QED
  BY <1>2, <1>3 DEF Excused

\* The lookup takes pending numbers and shares those that others have.
LEMMA FindRefines ==
    ASSUME TypeOK, PlaceInv, NEW b \in Batches, FindItems(b)
    PROVE  \E S \in SUBSET Numbers : Calls!Take(b, S)
<1>1. PICK S \in SUBSET ToDial :
         /\ items' = [items EXCEPT ![b] = S]
         /\ left' = [left EXCEPT ![b] = S]
         /\ raced' = raced \cup (S \cap Elsewhere(b))
  BY DEF FindItems
<1>2. UNCHANGED <<num, cur, dials, lost, requeues>>
  BY DEF FindItems
<1>3. left[b] = {} /\ cur[b] = None
  BY DEF PlaceInv, BatchPlace, FindItems
<1>4. S \subseteq Pending /\ S \subseteq Numbers
  BY <1>1 DEF ToDial, Pending
<1>5. FoundBy[b] = {} /\ FoundBy'[b] = S
  BY <1>1, <1>2, <1>3 DEF FoundBy, TypeOK
<1>6. FoundBy' = [FoundBy EXCEPT ![b] = S]
  BY <1>5, FoundStep, BatchAlone DEF BatchStep
<1>7. S \cap Elsewhere(b) = {i \in S : \E v \in Batches : i \in FoundBy[v]}
  <2>1. \A i : i \in Elsewhere(b) <=> \E v \in Batches \ {b} : i \in FoundBy[v]
    BY DEF Elsewhere, FoundBy
  <2> QED
    BY <1>5, <2>1
<1>8. Excused' = Excused \cup {i \in S : \E v \in Batches : i \in FoundBy[v]}
  BY <1>1, <1>2, <1>7 DEF Excused, Requeued
<1>9. Open' = Open /\ S \subseteq Open
  BY <1>2, <1>4 DEF Open, Pending
<1> QED
  BY <1>2, <1>4, <1>5, <1>6, <1>8, <1>9 DEF Calls!Take, Excused

\* A request goes to a number nobody called, or to one that is excused.
LEMMA DialRefines ==
    ASSUME TypeOK, PlaceInv, DialInv, NEW b \in Batches, Dial(b)
    PROVE  cur[b] \in Numbers /\ Calls!Act(b, cur[b])
<1>1. cur[b] \in Numbers
  BY DEF PlaceInv, BatchPlace, Dial, TypeOK
<1>2. /\ UNCHANGED <<num, left, cur, lost, raced, requeues>>
      /\ dials' = [dials EXCEPT ![cur[b]] = @ + 1]
  BY DEF Dial
<1>3. Has(b, cur[b]) /\ ~Trying(b, cur[b])
  BY <1>1 DEF Has, Trying, Dial
<1>4. dials[cur[b]] = 0 \/ cur[b] \in Excused
  <2>1. dials[cur[b]] \in Nat /\ requeues[cur[b]] \in Nat
    BY <1>1 DEF TypeOK
  <2>2. cur[b] \in raced \cup lost \/ dials[cur[b]] <= requeues[cur[b]]
    BY <1>1, <1>3 DEF DialInv, PaidFor
  <2> QED
    BY <1>1, <2>1, <2>2 DEF Excused, Requeued
<1>5. cur[b] \in FoundBy[b]
  BY <1>1, <1>3, FoundHas DEF HasAll
<1>6. FoundBy' = FoundBy /\ Open' = Open /\ Requeued' = Requeued
  BY <1>2, FoundSame DEF Open, Requeued
<1> QED
  BY <1>1, <1>2, <1>4, <1>5, <1>6 DEF Calls!Act, Calls!MayAct, Excused

\* A batch that stores its try is done with the number.
LEMMA StoreHeld ==
    ASSUME TypeOK, PlaceInv, NEW b \in Batches, StoreTry(b) \/ StoreFailure(b)
    PROVE  /\ cur[b] \in Numbers /\ cur[b] \in FoundBy[b]
           /\ FoundBy' = [FoundBy EXCEPT ![b] = @ \ {cur[b]}]
<1>1. cur[b] \in Numbers /\ cur[b] \notin left[b]
  BY DEF PlaceInv, BatchPlace, StoreTry, StoreFailure, TypeOK
<1>2. left' = left /\ cur' = [cur EXCEPT ![b] = None]
  BY DEF StoreTry, StoreFailure
<1>3. FoundBy[b] = left[b] \cup {cur[b]} /\ FoundBy'[b] = left[b]
  BY <1>1, <1>2, CallCampaignAssumption DEF FoundBy, TypeOK
<1>4. FoundBy' = [FoundBy EXCEPT ![b] = left[b]]
  BY <1>3, FoundStep, BatchAlone DEF BatchStep
<1>5. left[b] = FoundBy[b] \ {cur[b]}
  BY <1>1, <1>3
<1> QED
  BY <1>1, <1>3, <1>4, <1>5

\* A failed try closes its number.
LEMMA FailureRefines ==
    ASSUME TypeOK, PlaceInv, NEW b \in Batches, StoreFailure(b)
    PROVE  cur[b] \in Numbers /\ Calls!Settle(b, cur[b])
<1>1. Open' = Open \ {cur[b]}
  BY StoreFailureDoc DEF Open
<1>2. UNCHANGED <<dials, lost, raced, requeues>>
  BY DEF StoreFailure, obsVars
<1> QED
  BY <1>1, <1>2, StoreHeld DEF Calls!Settle, Requeued

\* A stored try closes its number unless the provider said pending.
LEMMA TryRefines ==
    ASSUME TypeOK, PlaceInv, NEW b \in Batches, StoreTry(b)
    PROVE  cur[b] \in Numbers /\ (Calls!Settle(b, cur[b]) \/ Calls!Reopen(cur[b]))
<1>1. /\ cur[b] \in Numbers /\ cur[b] \in FoundBy[b]
      /\ FoundBy' = [FoundBy EXCEPT ![b] = @ \ {cur[b]}]
  BY StoreHeld
<1>2. UNCHANGED <<dials, lost, raced>>
  BY DEF StoreTry
<1>3. PICK s \in Said(b) : TryStored(b, s)
  BY DEF StoreTry
<1>4. /\ s # "absent" /\ num'[cur[b]].status = s /\ NoteSaid(cur[b], s)
      /\ \A n \in Numbers \ {cur[b]} : num'[n] = num[n]
  BY <1>1, <1>3, TryDoc DEF TryStored
<1>5. CASE s = "pending"
  <2>1. Open' = Open \cup {cur[b]} /\ Excused' = Excused \cup {cur[b]}
    BY <1>1, <1>2, <1>4, <1>5, SaidPending
  <2> QED
    BY <1>1, <1>2, <2>1 DEF Calls!Reopen, Excused
<1>6. CASE s # "pending"
  <2>1. requeues' = requeues
    BY <1>4, <1>6 DEF NoteSaid
  <2>2. Open' = Open \ {cur[b]}
    BY <1>1, <1>4, <1>6 DEF Open
  <2>3. Excused' = Excused
    BY <1>2, <2>1 DEF Excused, Requeued
  <2> QED
    BY <1>1, <1>2, <2>2, <2>3 DEF Calls!Settle, Excused
<1> QED
  BY <1>1, <1>5, <1>6

\* The provider's word changes what is open without the batch letting go of it: a
\* webhook reports, or the update of a try raises.
LEMMA WordRefines ==
    ASSUME TypeOK, [Next]_vars, UNCHANGED <<left, cur, dials, lost, raced>>,
           NEW m \in Numbers, NEW s, NoteSaid(m, s), num'[m].status = s,
           \A n \in Numbers \ {m} : num'[n] = num[n]
    PROVE  Calls!Next
<1>1. CASE s = "pending"
  <2>1. Open' = Open \cup {m} /\ Excused' = Excused \cup {m}
    BY <1>1, SaidPending
  <2>2. Calls!Reopen(m)
    BY <2>1, FoundSame DEF Calls!Reopen, Excused
  <2> QED
    BY <2>2 DEF Calls!Next
<1>2. CASE s # "pending"
  <2>1. requeues' = requeues
    BY <1>2 DEF NoteSaid
  <2> QED
    BY <2>1, WithdrawRefines DEF Calls!Next
<1> QED
  BY <1>1, <1>2

\* A batch that is killed excuses the number it was at.
LEMMA KillRefines ==
    ASSUME TypeOK, PlaceInv, DialInv, NEW b \in Batches, KillBatch(b)
    PROVE  Calls!Leave(b)
<1> DEFINE S == {cur[b]} \ {None}
<1>1. UNCHANGED <<num, dials, raced, requeues>> /\ lost' = lost \cup S
  BY DEF KillBatch
<1>2. FoundBy'[b] = {}
  BY DEF KillBatch, FoundBy, TypeOK
<1>3. FoundBy' = [FoundBy EXCEPT ![b] = {}]
  BY <1>2, FoundStep, BatchAlone
<1>4. S \subseteq FoundBy[b]
  BY DEF FoundBy
<1>5. ASSUME NEW n \in FoundBy[b] \cap Open, n \notin Excused'
      PROVE  dials[n] = 0
  <2>1. n \in Numbers /\ n \notin lost /\ n \notin raced /\ n \notin Requeued
    BY <1>1, <1>5 DEF Open, Excused, Requeued
  <2>2. dials[n] \in Nat /\ requeues[n] \in Nat /\ Has(b, n)
    BY <1>5, <2>1, FoundHas DEF HasAll, TypeOK
  <2>3. PaidFor(n)
    BY <2>1 DEF DialInv
  <2>4. ~Trying(b, n)
    BY <1>1, <1>5, <2>1, CallCampaignAssumption DEF Trying, Excused
  <2>5. dials[n] <= requeues[n]
    BY <2>2, <2>3, <2>4 DEF PaidFor
  <2> QED
    BY <2>1, <2>2, <2>5 DEF Requeued
<1>6. Excused' = Excused \cup S
  BY <1>1 DEF Excused, Requeued
<1>7. Open' = Open
  BY <1>1 DEF Open
<1> HIDE DEF S
<1>8. \A n \in FoundBy[b] \cap Open : dials[n] = 0 \/ n \in Excused'
  BY <1>5
<1>9. {} \in SUBSET FoundBy[b] /\ {} \subseteq Excused' /\ Open' = Open \cup {}
  BY <1>7
<1> QED
  BY <1>1, <1>3, <1>4, <1>6, <1>8, <1>9 DEF Calls!Leave, Excused

\* Every step of the campaign is one of CheckThenAct or leaves it alone.
LEMMA RefineStep ==
    ASSUME TypeOK, PlaceInv, DialInv, [Next]_vars
    PROVE  [Calls!Next]_(Calls!vars)
<1>1. ASSUME UNCHANGED <<left, cur, dials, lost, raced, requeues>> PROVE Calls!Next
  BY <1>1, WithdrawRefines DEF Calls!Next
<1>2. ASSUME NEW b \in Batches, NextItem(b) PROVE UNCHANGED Calls!vars
  <2>1. PICK n \in left[b] :
           left' = [left EXCEPT ![b] = @ \ {n}] /\ cur' = [cur EXCEPT ![b] = n]
    BY <1>2 DEF NextItem
  <2>2. n \in Numbers /\ cur[b] = None
    BY <1>2 DEF TypeOK, PlaceInv, BatchPlace, NextItem
  <2>3. FoundBy'[b] = FoundBy[b]
    BY <2>1, <2>2, CallCampaignAssumption DEF FoundBy, TypeOK
  <2>4. FoundBy' = [FoundBy EXCEPT ![b] = FoundBy[b]]
    BY <1>2, <2>3, FoundStep, BatchAlone DEF BatchStep
  <2>5. FoundBy' = FoundBy
    BY <2>4, FoundHas
  <2> QED
    BY <1>2, <2>5 DEF NextItem, obsVars, Open, Requeued, Calls!vars
<1>3. ASSUME NEW b \in Batches, FindItems(b) PROVE Calls!Next
  BY <1>3, FindRefines DEF Calls!Next
<1>4. ASSUME NEW b \in Batches, Dial(b) PROVE Calls!Next
  BY <1>4, DialRefines DEF Calls!Next
<1>5. ASSUME NEW b \in Batches, StoreTry(b) PROVE Calls!Next
  BY <1>5, TryRefines DEF Calls!Next
<1>9. ASSUME NEW b \in Batches, StoreFailure(b) PROVE Calls!Next
  BY <1>9, FailureRefines DEF Calls!Next
<1>10. ASSUME NEW b \in Batches, StoreTryRaises(b) PROVE Calls!Next
  <2>1. /\ UNCHANGED <<left, cur, dials, lost, raced>> /\ cur[b] \in Numbers
        /\ requeues' = requeues \/ \E s \in Said(b) : TryStored(b, s)
    BY <1>10 DEF StoreTryRaises, TypeOK
  <2>2. ASSUME NEW s \in Said(b), TryStored(b, s) PROVE Calls!Next
    <3>1. /\ num'[cur[b]].status = s /\ NoteSaid(cur[b], s)
          /\ \A n \in Numbers \ {cur[b]} : num'[n] = num[n]
      BY <2>1, <2>2, TryDoc DEF TryStored
    <3> QED
      BY <2>1, <3>1, WordRefines
  <2>3. CASE requeues' = requeues
    <3>1. UNCHANGED <<left, cur, dials, lost, raced, requeues>>
      BY <2>1, <2>3
    <3> QED
      BY <1>1, <3>1
  <2> QED
    BY <2>1, <2>2, <2>3
<1>11. ASSUME NEW h \in Hooks, UpdateNumber(h) PROVE Calls!Next
  <2> DEFINE m == hook[h].number
             s == hook[h].status
  <2>1. /\ m \in Numbers /\ num'[m].status = s
        /\ \A n \in Numbers \ {m} : num'[n] = num[n]
    BY <1>11, UpdateNumberDoc
  <2>2. NoteSaid(m, s) /\ UNCHANGED <<left, cur, dials, lost, raced>>
    BY <1>11 DEF UpdateNumber, batVars
  <2> HIDE DEF m, s
  <2> QED
    BY <2>1, <2>2, WordRefines
<1>6. ASSUME NEW b \in Batches, KillBatch(b) PROVE Calls!Next
  BY <1>6, KillRefines DEF Calls!Next
<1>7. ASSUME NEW b \in Batches,
             StartCampaign(b) \/ ExpireOld(b) \/ Undialable(b) \/ NoCredentials(b)
                \/ Reply(b) \/ CountPending(b) \/ FinishBatch(b)
      PROVE  UNCHANGED <<left, cur, dials, lost, raced, requeues>>
  BY <1>7 DEF StartCampaign, ExpireOld, Undialable, NoCredentials, Reply, CountPending,
              FinishBatch, obsVars
<1>8. \/ \E n \in Numbers : AddNumber(n)
      \/ SetStatus \/ CancelCampaign \/ CancelNumbers \/ GrowOld \/ ListCampaign
      \/ \E h \in Hooks : SaveCall(h) \/ \E s \in Sids : FindCall(h, s)
      \/ UNCHANGED vars
      => UNCHANGED <<left, cur, dials, lost, raced, requeues>>
  BY DEF AddNumber, SetStatus, CancelCampaign, CancelNumbers, GrowOld, ListCampaign,
         SaveCall, FindCall, batVars, obsVars, vars
<1> QED
  BY <1>1, <1>2, <1>3, <1>4, <1>5, <1>6, <1>7, <1>8, <1>9, <1>10, <1>11
  DEF Next, BatchStep, HookStep

\* The campaign implements CheckThenAct, for any numbers, batches and webhook
\* handlers: a batch takes open numbers only, dials one again only if it is
\* excused, and of all who write to a number the provider alone opens it again.
THEOREM Refinement == Spec => ImplementsCheckThenAct
<1>1. Init => Calls!Init
  <2> SUFFICES ASSUME Init PROVE Calls!Init
    OBVIOUS
  <2>1. Open = Numbers /\ raced \cup lost \cup Requeued = {}
    BY DEF Init, Open, Requeued, AbsentNumber
  <2>2. FoundBy = [b \in Batches |-> {}]
    BY DEF Init, FoundBy
  <2> QED
    BY <2>1, <2>2 DEF Init, Calls!Init
<1> QED
  BY <1>1, RefineStep, TypeCorrect, PlaceInvariant, DialInvariant, PTL
  DEF Spec, ImplementsCheckThenAct, Calls!Spec

=============================================================================

--------------------------- MODULE AutoDialProofs ---------------------------
(***************************************************************************)
(* Proofs about AutoDial for any number of follow-ups, calls, overlapping  *)
(* job runs, webhook handlers, deliveries and kills.                       *)
(***************************************************************************)
EXTENDS AutoDial, TLAPS

-----------------------------------------------------------------------------
(***************************************************************************)
(* The documents an operation can store.                                   *)
(***************************************************************************)

\* Changing status, due_at or the automatic-dial fields of a follow-up gives
\* a follow-up again.
LEMMA DocUpdates ==
    ASSUME NEW d \in FollowUpDoc
    PROVE  /\ \A s \in FollowUpStatus, b \in BOOLEAN :
                 [d EXCEPT !.status = s, !.due = b] \in FollowUpDoc
           /\ [d EXCEPT !.status = "deleted"] \in FollowUpDoc
           /\ [d EXCEPT !.due = TRUE] \in FollowUpDoc
           /\ [d EXCEPT !.dialed = TRUE, !.outcome = "none"] \in FollowUpDoc
           /\ \A r \in Outcomes : [d EXCEPT !.outcome = r] \in FollowUpDoc
<1> USE DEF FollowUpDoc, FollowUpStatus, Outcomes
<1>1. \A s \in FollowUpStatus, b \in BOOLEAN :
         [d EXCEPT !.status = s, !.due = b] \in FollowUpDoc
  OBVIOUS
<1>2. [d EXCEPT !.status = "deleted"] \in FollowUpDoc
  OBVIOUS
<1>3. [d EXCEPT !.due = TRUE] \in FollowUpDoc
  OBVIOUS
<1>4. [d EXCEPT !.dialed = TRUE, !.outcome = "none"] \in FollowUpDoc
  OBVIOUS
<1>5. \A r \in Outcomes : [d EXCEPT !.outcome = r] \in FollowUpDoc
  OBVIOUS
<1> QED
  BY <1>1, <1>2, <1>3, <1>4, <1>5

\* The documents a user and _schedule_missed_call_retry insert.
LEMMA NewDocs ==
    /\ NoDoc \in FollowUpDoc
    /\ \A a \in BOOLEAN, d \in BOOLEAN : NewFollowUp(a, d) \in FollowUpDoc
    /\ \A c \in Calls, a \in BOOLEAN : NewRetry(c, a) \in FollowUpDoc
<1> USE DEF FollowUpDoc, FollowUpStatus, Outcomes, NoDoc
<1>1. NoDoc \in FollowUpDoc
  OBVIOUS
<1>2. ASSUME NEW a \in BOOLEAN, NEW d \in BOOLEAN
      PROVE  NewFollowUp(a, d) \in FollowUpDoc
  BY DEF NewFollowUp
<1>3. ASSUME NEW c \in Calls, NEW a \in BOOLEAN
      PROVE  NewRetry(c, a) \in FollowUpDoc
  BY DEF NewRetry, CallKey
<1> QED
  BY <1>1, <1>2, <1>3

\* Storing one document keeps the collection well typed.
LEMMA StoreDoc ==
    ASSUME NEW D, NEW g \in [FollowUps -> D], NEW f \in FollowUps, NEW r \in D
    PROVE  [g EXCEPT ![f] = r] \in [FollowUps -> D]
OBVIOUS

-----------------------------------------------------------------------------
\* Each step keeps the documents and the local variables in their domains.
LEMMA TypeStep ==
    ASSUME TypeOK, LocalsSet, [Next]_vars
    PROVE  TypeOK'
<1> USE DEF TypeOK, docVars, jobVars, hookVars, obsVars
<1>1. ASSUME NEW f \in FollowUps, CreateFollowUp(f) PROVE TypeOK'
  BY <1>1, NewDocs, StoreDoc DEF CreateFollowUp
<1>2. ASSUME NEW f \in FollowUps, UpdateFollowUp(f) PROVE TypeOK'
  <2>1. PICK s \in FollowUpStatus, d \in BOOLEAN :
           doc' = [doc EXCEPT ![f] = [@ EXCEPT !.status = s, !.due = d]]
    BY <1>2 DEF UpdateFollowUp
  <2>2. [doc[f] EXCEPT !.status = s, !.due = d] \in FollowUpDoc
    BY DocUpdates
  <2>3. doc' \in [FollowUps -> FollowUpDoc]
    BY <2>1, <2>2, StoreDoc
  <2> QED
    BY <1>2, <2>3 DEF UpdateFollowUp
<1>3. ASSUME NEW f \in FollowUps, DeleteFollowUp(f) PROVE TypeOK'
  BY <1>3, DocUpdates, StoreDoc DEF DeleteFollowUp
<1>4. ASSUME NEW f \in FollowUps, BecomeDue(f) PROVE TypeOK'
  BY <1>4, DocUpdates, StoreDoc DEF BecomeDue
<1>5. ASSUME NEW c \in Calls, OtherCall(c) PROVE TypeOK'
  BY <1>5 DEF OtherCall
<1>6. ASSUME NEW h \in Handlers, NEW c \in Calls, MissedCallWebhook(h, c)
      PROVE TypeOK'
  BY <1>6 DEF MissedCallWebhook
<1>7. ASSUME NEW h \in Handlers, InsertRetry(h) PROVE TypeOK'
  BY <1>7, NewDocs, StoreDoc DEF InsertRetry, LocalsSet
<1>8. ASSUME NEW h \in Handlers, HookCrash(h) PROVE TypeOK'
  BY <1>8, AutoDialAssumption DEF HookCrash
<1>9. ASSUME NEW w \in Workers, BeginRun(w) PROVE TypeOK'
  BY <1>9 DEF BeginRun, JobPcs
<1>10. ASSUME NEW w \in Workers, ClaimNext(w) PROVE TypeOK'
  <2>1. PICK f \in jobTodo[w] : ClaimOf(w, f)
    BY <1>10 DEF ClaimNext
  <2>2. [doc[f] EXCEPT !.dialed = TRUE, !.outcome = "none"] \in FollowUpDoc
    BY DocUpdates
  <2>3. doc' \in [FollowUps -> FollowUpDoc]
    BY <2>1, <2>2, StoreDoc DEF ClaimOf
  <2>4. /\ jobTodo' \in [Workers -> SUBSET FollowUps]
        /\ jobCur' \in [Workers -> FollowUps \cup {None}]
        /\ jobPc' \in [Workers -> JobPcs]
    BY <2>1 DEF ClaimOf, AfterItem, JobPcs
  <2> QED
    BY <1>10, <2>3, <2>4 DEF ClaimNext
<1>11. ASSUME NEW w \in Workers, NotDialable(w) PROVE TypeOK'
  BY <1>11 DEF NotDialable, JobPcs, Outcomes
<1>12. ASSUME NEW w \in Workers, Dial(w) PROVE TypeOK'
  BY <1>12 DEF Dial, JobPcs, LocalsSet
<1>13. ASSUME NEW w \in Workers, ProviderReply(w) PROVE TypeOK'
  BY <1>13 DEF ProviderReply, JobPcs, Outcomes
<1>14. ASSUME NEW w \in Workers, RecordOutcome(w) PROVE TypeOK'
  <2>1. jobCur[w] \in FollowUps
    BY <1>14 DEF RecordOutcome, LocalsSet
  <2>2. [doc[jobCur[w]] EXCEPT !.outcome = StoredOutcome(jobResult[w])]
           \in FollowUpDoc
    BY <2>1, DocUpdates DEF StoredOutcome
  <2>3. doc' \in [FollowUps -> FollowUpDoc]
    BY <1>14, <2>1, <2>2, StoreDoc DEF RecordOutcome
  <2> QED
    BY <1>14, <2>3 DEF RecordOutcome, AfterItem, JobPcs, Outcomes
<1>15. ASSUME NEW w \in Workers, JobCrash(w) PROVE TypeOK'
  BY <1>15, AutoDialAssumption DEF JobCrash, JobPcs, Outcomes
<1>16. CASE UNCHANGED vars
  BY <1>16 DEF vars
<1> QED
  BY <1>1, <1>2, <1>3, <1>4, <1>5, <1>6, <1>7, <1>8, <1>9, <1>10, <1>11,
     <1>12, <1>13, <1>14, <1>15, <1>16
  DEF Next, UserStep, HookStep, JobStep, ScheduledRun, RequestedRun

\* What users do to a follow-up leaves the job's fields of it alone.
LEMMA UserStepFields ==
    ASSUME TypeOK, ClaimInv, NEW g \in FollowUps, UserStep(g)
    PROVE  \A f \in FollowUps : /\ doc'[f].dialed = doc[f].dialed
                                /\ doc'[f].outcome = doc[f].outcome
<1> USE DEF TypeOK, ClaimInv, FollowUpDoc
<1>1. CASE CreateFollowUp(g)
  <2>1. doc[g].dialed = FALSE /\ doc[g].outcome = "none"
    BY <1>1 DEF CreateFollowUp
  <2>2. PICK a \in BOOLEAN, d \in BOOLEAN :
           doc' = [doc EXCEPT ![g] = NewFollowUp(a, d)]
    BY <1>1 DEF CreateFollowUp
  <2>3. NewFollowUp(a, d).dialed = FALSE /\ NewFollowUp(a, d).outcome = "none"
    BY DEF NewFollowUp
  <2> QED
    BY <2>1, <2>2, <2>3
<1>2. CASE UpdateFollowUp(g)
  BY <1>2 DEF UpdateFollowUp
<1>3. CASE DeleteFollowUp(g)
  BY <1>3 DEF DeleteFollowUp
<1>4. CASE BecomeDue(g)
  BY <1>4 DEF BecomeDue
<1> QED
  BY <1>1, <1>2, <1>3, <1>4 DEF UserStep

\* A claim sets the marker of one document and changes no other.
LEMMA ClaimFields ==
    ASSUME TypeOK, NEW w \in Workers, NEW g \in FollowUps, ClaimOf(w, g),
           Unclaimed(g)
    PROVE  /\ doc'[g].dialed /\ doc'[g].outcome = "none"
           /\ doc'[g].status = doc[g].status
           /\ \A f \in FollowUps \ {g} : doc'[f] = doc[f]
<1>1. doc' = [doc EXCEPT ![g] = [doc[g] EXCEPT !.dialed = TRUE, !.outcome = "none"]]
  BY DEF ClaimOf
<1>2. doc \in [FollowUps -> FollowUpDoc]
  BY DEF TypeOK
<1> QED
  BY <1>1, <1>2 DEF FollowUpDoc

\* Each step keeps the claims exclusive.
LEMMA ClaimStep ==
    ASSUME TypeOK, ClaimInv, [Next]_vars
    PROVE  ClaimInv'
<1> USE DEF docVars, jobVars, hookVars, obsVars
<1> USE DEF TypeOK, ClaimInv, LocalsSet, Holds, DialedAtMostOnce
<1>0. None \notin FollowUps
  BY AutoDialAssumption
<1>1. ASSUME NEW f \in FollowUps, CreateFollowUp(f) PROVE ClaimInv'
  BY <1>1 DEF CreateFollowUp, NewFollowUp
<1>2. ASSUME NEW f \in FollowUps, UpdateFollowUp(f) PROVE ClaimInv'
  BY <1>2 DEF UpdateFollowUp, FollowUpStatus, FollowUpDoc
<1>3. ASSUME NEW f \in FollowUps, DeleteFollowUp(f) PROVE ClaimInv'
  BY <1>3 DEF DeleteFollowUp, FollowUpDoc
<1>4. ASSUME NEW f \in FollowUps, BecomeDue(f) PROVE ClaimInv'
  BY <1>4 DEF BecomeDue, FollowUpDoc
<1>5. ASSUME NEW c \in Calls, OtherCall(c) PROVE ClaimInv'
  BY <1>5 DEF OtherCall
<1>6. ASSUME NEW h \in Handlers, NEW c \in Calls, MissedCallWebhook(h, c)
      PROVE ClaimInv'
  BY <1>6 DEF MissedCallWebhook
<1>7. ASSUME NEW h \in Handlers, InsertRetry(h) PROVE ClaimInv'
  BY <1>7 DEF InsertRetry, NewRetry
<1>8. ASSUME NEW h \in Handlers, HookCrash(h) PROVE ClaimInv'
  BY <1>8 DEF HookCrash
<1>9. ASSUME NEW w \in Workers, BeginRun(w) PROVE ClaimInv'
  BY <1>9 DEF BeginRun
<1>10. ASSUME NEW w \in Workers, ClaimNext(w) PROVE ClaimInv'
  <2>1. PICK f \in FollowUps : ClaimOf(w, f)
    BY <1>10 DEF ClaimNext
  <2>2. UNCHANGED <<placed, hookPc, hookCall>>
    BY <1>10 DEF ClaimNext
  <2>3. jobPc[w] = "iterate"
    BY <1>10 DEF ClaimNext
  <2>4. CASE ~Unclaimed(f)
    BY <2>1, <2>2, <2>3, <2>4 DEF ClaimOf, AfterItem
  <2>5. CASE Unclaimed(f)
    <3>1. ~doc[f].dialed /\ doc[f].status # "absent"
      BY <2>5 DEF Unclaimed, Exists, FollowUpStatus
    <3>2. /\ doc'[f].dialed /\ doc'[f].outcome = "none"
          /\ doc'[f].status = doc[f].status
          /\ \A g \in FollowUps \ {f} : doc'[g] = doc[g]
      BY <2>1, <2>5, ClaimFields
    <3>3. placed[f] = 0
      BY <3>1
    <3>4. \A v \in Workers : ~Holds(v, f)
      BY <3>1
    <3>5. \/ /\ jobCur' = jobCur
             /\ jobPc'[w] \in {"idle", "iterate"}
          \/ /\ jobCur' = [jobCur EXCEPT ![w] = f]
             /\ jobPc'[w] = "dial"
      BY <2>1, <2>5 DEF ClaimOf, AfterItem
    <3>6. \A v \in Workers \ {w} : jobPc'[v] = jobPc[v] /\ jobCur'[v] = jobCur[v]
      BY <2>1, <2>5 DEF ClaimOf
    <3> QED
      BY <1>0, <2>2, <2>3, <3>1, <3>2, <3>3, <3>4, <3>5, <3>6
  <2> QED
    BY <2>4, <2>5
<1>11. ASSUME NEW w \in Workers, NotDialable(w) PROVE ClaimInv'
  BY <1>11 DEF NotDialable
<1>12. ASSUME NEW w \in Workers, Dial(w) PROVE ClaimInv'
  BY <1>12 DEF Dial
<1>13. ASSUME NEW w \in Workers, ProviderReply(w) PROVE ClaimInv'
  BY <1>13 DEF ProviderReply
<1>14. ASSUME NEW w \in Workers, RecordOutcome(w) PROVE ClaimInv'
  BY <1>14, <1>0 DEF RecordOutcome, AfterItem, FollowUpDoc
<1>15. ASSUME NEW w \in Workers, JobCrash(w) PROVE ClaimInv'
  BY <1>15, <1>0 DEF JobCrash
<1>16. CASE UNCHANGED vars
  BY <1>16 DEF vars
<1> QED
  BY <1>1, <1>2, <1>3, <1>4, <1>5, <1>6, <1>7, <1>8, <1>9, <1>10, <1>11,
     <1>12, <1>13, <1>14, <1>15, <1>16
  DEF Next, UserStep, HookStep, JobStep, ScheduledRun, RequestedRun

-----------------------------------------------------------------------------
\* The documents and the locals of every handler stay in their domains, and
\* the claims of process_due_call_followups are exclusive.
THEOREM Inductive == Spec => [](TypeOK /\ ClaimInv)
<1>1. Init => TypeOK /\ ClaimInv
  BY AutoDialAssumption, NewDocs
  DEF Init, TypeOK, ClaimInv, LocalsSet, Holds, DialedAtMostOnce, JobPcs,
      Outcomes, NoDoc
<1>2. TypeOK /\ ClaimInv /\ [Next]_vars => (TypeOK /\ ClaimInv)'
  BY TypeStep, ClaimStep DEF ClaimInv
<1> QED
  BY <1>1, <1>2, PTL DEF Spec

\* Type correctness of every handler of the missed-call retry pipeline.
THEOREM TypeCorrect == Spec => []TypeOK
BY Inductive, PTL

\* ClaimInv: claims are exclusive, and every run that is about to dial or to
\* record holds the claim, in any order of steps and kills.
THEOREM Claims == Spec => []ClaimInv
BY Inductive, PTL

\* However many runs of process_due_call_followups overlap, whatever users do
\* to the follow-ups meanwhile and whenever processes are killed, a lead is
\* dialed at most once for one follow-up.
THEOREM AtMostOnce == Spec => []DialedAtMostOnce
<1>1. TypeOK /\ ClaimInv => DialedAtMostOnce
  BY DEF ClaimInv
<1> QED
  BY <1>1, Inductive, PTL

\* What a run recorded about a follow-up is never erased or replaced.
THEOREM FinalOutcome == Spec => OutcomeIsFinal
<1> DEFINE A == \A f \in FollowUps :
                  doc[f].outcome # "none" => doc'[f].outcome = doc[f].outcome
<1>1. TypeOK /\ ClaimInv /\ [Next]_vars => [A]_vars
  <2> SUFFICES ASSUME TypeOK, ClaimInv, [Next]_vars, UNCHANGED doc \/ ~UNCHANGED doc
               PROVE  A
    OBVIOUS
  <2> USE DEF TypeOK, ClaimInv, FollowUpDoc
  <2>1. CASE UNCHANGED doc
    BY <2>1
  <2>2. ASSUME NEW f \in FollowUps, UserStep(f) PROVE A
    BY <2>2, UserStepFields
  <2>3. ASSUME NEW h \in Handlers, InsertRetry(h) PROVE A
    BY <2>3 DEF InsertRetry, NewRetry
  <2>4. ASSUME NEW w \in Workers, ClaimNext(w) PROVE A
    BY <2>4 DEF ClaimNext, ClaimOf, Unclaimed
  <2>5. ASSUME NEW w \in Workers, RecordOutcome(w) PROVE A
    BY <2>5 DEF RecordOutcome, Holds, LocalsSet
  <2>6. [Next]_vars => \/ UNCHANGED doc
                       \/ \E f \in FollowUps : UserStep(f)
                       \/ \E h \in Handlers : InsertRetry(h)
                       \/ \E w \in Workers : ClaimNext(w) \/ RecordOutcome(w)
    BY DEF Next, HookStep, JobStep, ScheduledRun, RequestedRun, OtherCall,
           HookCrash, BeginRun, MissedCallWebhook, NotDialable, Dial,
           ProviderReply, JobCrash, vars, docVars, jobVars, hookVars, obsVars
  <2> QED
    BY <2>1, <2>2, <2>3, <2>4, <2>5, <2>6
<1> QED
  BY <1>1, Inductive, PTL DEF Spec, OutcomeIsFinal

\* The job implements the abstract at-most-once dispatcher.
THEOREM Refinement == Spec => ImplementsOnceDispatch
<1> USE DEF docVars, jobVars, hookVars, obsVars
<1> DEFINE Claimed == {f \in FollowUps : doc[f].dialed}
<1>1. Init => Once!Init
  BY DEF Init, Once!Init, NoDoc
<1>2. TypeOK /\ ClaimInv /\ [Next]_vars => [Once!Next]_(Once!vars)
  <2> SUFFICES ASSUME TypeOK, ClaimInv, [Next]_vars
               PROVE  [Once!Next]_(Once!vars)
    OBVIOUS
  <2> USE DEF TypeOK, ClaimInv, FollowUpDoc
  <2>1. CASE UNCHANGED <<doc, placed>>
    BY <2>1 DEF Once!vars
  <2>2. ASSUME NEW f \in FollowUps, UserStep(f) PROVE Claimed' = Claimed
    BY <2>2, UserStepFields
  <2>3. ASSUME NEW h \in Handlers, InsertRetry(h) PROVE Claimed' = Claimed
    BY <2>3 DEF InsertRetry, NewRetry
  <2>4. ASSUME NEW w \in Workers, RecordOutcome(w) PROVE Claimed' = Claimed
    BY <2>4 DEF RecordOutcome
  <2>5. ASSUME NEW w \in Workers, ClaimNext(w)
        PROVE  \/ UNCHANGED doc
               \/ \E f \in FollowUps : Once!Take(f)
    <3>1. PICK f \in FollowUps : ClaimOf(w, f)
      BY <2>5 DEF ClaimNext
    <3>2. CASE Unclaimed(f)
      <4>1. f \notin Claimed /\ Claimed' = Claimed \cup {f}
        BY <3>1, <3>2, ClaimFields DEF Unclaimed
      <4> QED
        BY <2>5, <4>1 DEF Once!Take, ClaimNext
    <3>3. CASE ~Unclaimed(f)
      BY <3>1, <3>3 DEF ClaimOf
    <3> QED
      BY <3>2, <3>3
  <2>6. ASSUME NEW w \in Workers, Dial(w) PROVE Once!Dispatch(jobCur[w])
    <3>1. jobCur[w] \in FollowUps /\ Holds(w, jobCur[w])
      BY <2>6 DEF Dial, LocalsSet, Holds
    <3>2. doc[jobCur[w]].dialed /\ placed[jobCur[w]] = 0
      BY <2>6, <3>1 DEF Dial
    <3>3. Claimed' = Claimed
      BY <2>6 DEF Dial
    <3> QED
      BY <2>6, <3>1, <3>2, <3>3 DEF Dial, Once!Dispatch
  <2>7. \/ UNCHANGED <<doc, placed>>
        \/ UNCHANGED placed /\ \E f \in FollowUps : UserStep(f)
        \/ UNCHANGED placed /\ \E h \in Handlers : InsertRetry(h)
        \/ UNCHANGED placed /\ \E w \in Workers : RecordOutcome(w)
        \/ UNCHANGED placed /\ \E w \in Workers : ClaimNext(w)
        \/ \E w \in Workers : Dial(w)
    BY DEF Next, HookStep, JobStep, ScheduledRun, RequestedRun, OtherCall,
           HookCrash, BeginRun, MissedCallWebhook, NotDialable,
           ProviderReply, JobCrash, vars, UserStep, CreateFollowUp,
           UpdateFollowUp, DeleteFollowUp, BecomeDue, InsertRetry,
           ClaimNext, RecordOutcome
  <2>8. \A w \in Workers : jobPc[w] = "dial" => jobCur[w] \in FollowUps
    BY DEF LocalsSet
  <2> QED
    BY <2>1, <2>2, <2>3, <2>4, <2>5, <2>6, <2>7, <2>8
    DEF Once!Next, Once!vars, Dial
<1> QED
  BY <1>1, <1>2, Inductive, PTL DEF Spec, ImplementsOnceDispatch, Once!Spec


-----------------------------------------------------------------------------
(***************************************************************************)
(* The safety side of ClaimIsSettled.                                      *)
(***************************************************************************)
\* A worker that is about to record has a result or an error to record.
ResultSet == \A w \in Workers : jobPc[w] = "record" => jobResult[w] \in {"result", "error"}

\* Where a claimed follow-up of an assigned agent can be.
Accounted(f) ==
    doc[f].dialed /\ doc[f].assigned =>
        \/ doc[f].outcome # "none"
        \/ doc[f].status = "deleted"
        \/ f \in abandoned
        \/ \E w \in Workers : Holds(w, f)

ClaimsAccounted == \A f \in FollowUps : Accounted(f)

LEMMA ResultStep ==
    ASSUME TypeOK, ResultSet, [Next]_vars
    PROVE  ResultSet'
<1> USE DEF TypeOK, ResultSet, jobVars
<1>1. CASE UNCHANGED jobVars
  BY <1>1
<1>2. ASSUME NEW w \in Workers, BeginRun(w) \/ Dial(w) PROVE ResultSet'
  BY <1>2 DEF BeginRun, Dial
<1>3. ASSUME NEW w \in Workers, ClaimNext(w) PROVE ResultSet'
  <2>1. /\ jobPc'[w] # "record" /\ jobResult' = jobResult
        /\ \A v \in Workers \ {w} : jobPc'[v] = jobPc[v]
    BY <1>3 DEF ClaimNext, ClaimOf, AfterItem
  <2> QED
    BY <2>1
<1>4. ASSUME NEW w \in Workers, NotDialable(w) \/ ProviderReply(w) PROVE ResultSet'
  <2>1. /\ jobResult'[w] \in {"result", "error"}
        /\ \A v \in Workers \ {w} : jobPc'[v] = jobPc[v] /\ jobResult'[v] = jobResult[v]
    BY <1>4 DEF NotDialable, ProviderReply
  <2> QED
    BY <2>1
<1>5. ASSUME NEW w \in Workers, RecordOutcome(w) \/ JobCrash(w) PROVE ResultSet'
  <2>1. /\ jobPc'[w] # "record"
        /\ \A v \in Workers \ {w} : jobPc'[v] = jobPc[v] /\ jobResult'[v] = jobResult[v]
    BY <1>5 DEF RecordOutcome, JobCrash, AfterItem
  <2> QED
    BY <2>1
<1>6. \/ UNCHANGED jobVars
      \/ \E w \in Workers : \/ BeginRun(w) \/ Dial(w) \/ ClaimNext(w) \/ NotDialable(w)
                            \/ ProviderReply(w) \/ RecordOutcome(w) \/ JobCrash(w)
  BY DEF Next, UserStep, HookStep, JobStep, ScheduledRun, RequestedRun, CreateFollowUp,
         UpdateFollowUp, DeleteFollowUp, BecomeDue, OtherCall, MissedCallWebhook,
         InsertRetry, HookCrash, vars
<1> QED
  BY <1>1, <1>2, <1>3, <1>4, <1>5, <1>6

\* What users do cannot make a claimed follow-up look unclaimed or lose its
\* agent, except by deleting it.
LEMMA UserKeepsAccount ==
    ASSUME TypeOK, NEW f \in FollowUps, Accounted(f), NEW g \in FollowUps, UserStep(g)
    PROVE  Accounted(f)'
<1> USE DEF TypeOK, FollowUpDoc
<1>1. UNCHANGED <<jobPc, jobCur, abandoned>>
  BY DEF UserStep, CreateFollowUp, UpdateFollowUp, DeleteFollowUp, BecomeDue, jobVars, obsVars
<1>2. \/ ~doc'[f].dialed
      \/ doc'[f].status = "deleted"
      \/ /\ doc'[f].dialed = doc[f].dialed /\ doc'[f].assigned = doc[f].assigned
         /\ doc'[f].outcome = doc[f].outcome /\ doc[f].status # "deleted"
      \/ doc'[f] = doc[f]
  <2>1. CASE f # g
    BY <2>1 DEF UserStep, CreateFollowUp, UpdateFollowUp, DeleteFollowUp, BecomeDue
  <2>2. CASE f = g /\ CreateFollowUp(g)
    BY <2>2 DEF CreateFollowUp, NewFollowUp
  <2>3. CASE f = g /\ UpdateFollowUp(g)
    BY <2>3 DEF UpdateFollowUp, Exists, FollowUpStatus
  <2>4. CASE f = g /\ DeleteFollowUp(g)
    BY <2>4 DEF DeleteFollowUp
  <2>5. CASE f = g /\ BecomeDue(g)
    BY <2>5 DEF BecomeDue, Exists, FollowUpStatus
  <2> QED
    BY <2>1, <2>2, <2>3, <2>4, <2>5 DEF UserStep
<1>3. (\E w \in Workers : Holds(w, f)) => \E w \in Workers : Holds(w, f)'
  BY <1>1 DEF Holds
<1>4. CASE ~doc'[f].dialed \/ doc'[f].status = "deleted"
  BY <1>4 DEF Accounted
<1>5. CASE \/ /\ doc'[f].dialed = doc[f].dialed /\ doc'[f].assigned = doc[f].assigned
               /\ doc'[f].outcome = doc[f].outcome /\ doc[f].status # "deleted"
           \/ doc'[f] = doc[f]
  <2>1. CASE doc[f].dialed /\ doc[f].assigned
    <3>1. \/ doc[f].outcome # "none" /\ doc'[f].outcome # "none"
          \/ doc[f].status = "deleted" /\ doc'[f].status = "deleted"
          \/ f \in abandoned'
          \/ \E w \in Workers : Holds(w, f)'
      BY <1>1, <1>3, <1>5, <2>1 DEF Accounted
    <3> QED
      BY <3>1 DEF Accounted
  <2>2. CASE ~(doc[f].dialed /\ doc[f].assigned)
    <3>1. ~(doc'[f].dialed /\ doc'[f].assigned)
      BY <1>5, <2>2
    <3> QED
      BY <3>1 DEF Accounted
  <2> QED
    BY <2>1, <2>2
<1> QED
  BY <1>2, <1>4, <1>5

\* A run accounts for what it claims, and lets go of a follow-up only by
\* recording its outcome or by being killed.
LEMMA RunKeepsAccount ==
    ASSUME TypeOK, ClaimInv, ResultSet, NEW f \in FollowUps, Accounted(f), NEW w \in Workers,
           BeginRun(w) \/ JobStep(w) \/ JobCrash(w)
    PROVE  Accounted(f)'
<1> USE DEF TypeOK
<1>0. None \notin FollowUps
  BY AutoDialAssumption
<1>a. /\ \A v \in Workers \ {w} : jobPc'[v] = jobPc[v] /\ jobCur'[v] = jobCur[v]
      /\ abandoned \subseteq abandoned'
  BY DEF BeginRun, JobStep, ClaimNext, ClaimOf, NotDialable, Dial, ProviderReply,
         RecordOutcome, JobCrash, jobVars, obsVars
<1>b. ASSUME doc'[f] = doc[f], Holds(w, f) => Holds(w, f)' \/ f \in abandoned'
      PROVE  Accounted(f)'
  <2>1. \A v \in Workers \ {w} : Holds(v, f) => Holds(v, f)'
    BY <1>a DEF Holds
  <2> QED
    BY <1>a, <1>b, <2>1 DEF Accounted
<1>1. CASE BeginRun(w)
  BY <1>1, <1>b DEF BeginRun, Holds, docVars
<1>2. CASE ClaimNext(w)
  <2>1. PICK g \in FollowUps : ClaimOf(w, g)
    BY <1>2 DEF ClaimNext
  <2>2. ~Holds(w, f)
    BY <1>2 DEF ClaimNext, Holds
  <2>3. CASE ~Unclaimed(g) \/ g # f
    <3>1. doc'[f] = doc[f]
      BY <2>1, <2>3 DEF ClaimOf
    <3> QED
      BY <1>b, <2>2, <3>1
  <2>4. CASE Unclaimed(g) /\ g = f
    <3>1. CASE doc[f].assigned
      <4>1. jobCur'[w] = f /\ jobPc'[w] = "dial"
        BY <2>1, <2>4, <3>1 DEF ClaimOf
      <4> QED
        BY <4>1 DEF Accounted, Holds
    <3>2. CASE ~doc[f].assigned
      <4>1. doc' = [doc EXCEPT ![f] = [doc[f] EXCEPT !.dialed = TRUE, !.outcome = "none"]]
        BY <2>1, <2>4 DEF ClaimOf
      <4>2. ~doc'[f].assigned
        BY <3>2, <4>1 DEF FollowUpDoc
      <4> QED
        BY <4>2 DEF Accounted
    <3> QED
      BY <3>1, <3>2
  <2> QED
    BY <2>3, <2>4
<1>3. CASE NotDialable(w) \/ Dial(w) \/ ProviderReply(w)
  <2>1. doc' = doc /\ jobCur' = jobCur /\ jobPc'[w] \in {"wait", "record"}
    BY <1>3 DEF NotDialable, Dial, ProviderReply, docVars
  <2> QED
    BY <1>b, <2>1 DEF Holds
<1>4. CASE RecordOutcome(w)
  <2>1. jobCur[w] \in FollowUps
    BY <1>4 DEF RecordOutcome, ClaimInv, LocalsSet
  <2>2. CASE jobCur[w] # f
    <3>1. doc'[f] = doc[f]
      BY <1>4, <2>2 DEF RecordOutcome
    <3> QED
      BY <1>b, <2>2, <3>1 DEF Holds
  <2>3. CASE jobCur[w] = f /\ Exists(f)
    <3>1. doc' = [doc EXCEPT ![f] = [doc[f] EXCEPT !.outcome = jobResult[w]]]
      BY <1>4, <2>3 DEF RecordOutcome, StoredOutcome
    <3>2. doc'[f].outcome # "none"
      BY <1>4, <3>1 DEF FollowUpDoc, ResultSet, RecordOutcome
    <3> QED
      BY <3>2 DEF Accounted
  <2>4. CASE jobCur[w] = f /\ ~Exists(f)
    <3>1. doc' = doc /\ Holds(w, f)
      BY <1>4, <2>4 DEF RecordOutcome, Holds
    <3>2. doc[f].status = "deleted"
      BY <2>4, <3>1 DEF ClaimInv, Exists, FollowUpDoc
    <3> QED
      BY <3>1, <3>2 DEF Accounted
  <2> QED
    BY <2>2, <2>3, <2>4
<1>5. CASE JobCrash(w)
  <2>1. doc' = doc /\ (jobCur[w] = f => f \in abandoned')
    BY <1>0, <1>5 DEF JobCrash, docVars
  <2> QED
    BY <1>b, <2>1 DEF Holds
<1> QED
  BY <1>1, <1>2, <1>3, <1>4, <1>5 DEF JobStep

\* No claim gets lost: a claimed follow-up of an assigned agent has its outcome,
\* is deleted, was abandoned by a killed worker, or is in the hands of a worker.
\* What ClaimIsSettled adds, and what fairness is needed for, is that the worker
\* goes on.
THEOREM NoClaimDropped == Spec => []ClaimsAccounted
<1>1. Init => ResultSet /\ ClaimsAccounted
  BY DEF Init, ResultSet, ClaimsAccounted, Accounted, NoDoc
<1>2. TypeOK /\ ClaimInv /\ ResultSet /\ ClaimsAccounted /\ [Next]_vars
         => (ResultSet /\ ClaimsAccounted)'
  <2> SUFFICES ASSUME TypeOK, ClaimInv, ResultSet, ClaimsAccounted, [Next]_vars,
                      NEW f \in FollowUps
               PROVE  Accounted(f)'
    BY ResultStep DEF ClaimsAccounted
  <2>0. Accounted(f)
    BY DEF ClaimsAccounted
  <2>1. CASE UNCHANGED <<doc, jobPc, jobCur, abandoned>>
    BY <2>0, <2>1 DEF Accounted, Holds
  <2>2. ASSUME NEW h \in Handlers, InsertRetry(h) PROVE Accounted(f)'
    <3>1. PICK g \in FollowUps, a \in BOOLEAN :
             doc' = [doc EXCEPT ![g] = NewRetry(hookCall[h], a)]
      BY <2>2 DEF InsertRetry
    <3>2. doc'[f] = doc[f] \/ ~doc'[f].dialed
      BY <3>1 DEF TypeOK, NewRetry
    <3>3. UNCHANGED <<jobPc, jobCur, abandoned>>
      BY <2>2 DEF InsertRetry, jobVars, obsVars
    <3> QED
      BY <2>0, <3>2, <3>3 DEF Accounted, Holds
  <2>3. ASSUME NEW g \in FollowUps, UserStep(g) PROVE Accounted(f)'
    BY <2>0, <2>3, UserKeepsAccount
  <2>4. ASSUME NEW w \in Workers, BeginRun(w) \/ JobStep(w) \/ JobCrash(w)
        PROVE  Accounted(f)'
    BY <2>0, <2>4, RunKeepsAccount
  <2>5. \/ UNCHANGED <<doc, jobPc, jobCur, abandoned>>
        \/ \E h \in Handlers : InsertRetry(h)
        \/ \E g \in FollowUps : UserStep(g)
        \/ \E w \in Workers : BeginRun(w) \/ JobStep(w) \/ JobCrash(w)
    BY DEF Next, HookStep, ScheduledRun, RequestedRun, OtherCall, HookCrash,
           MissedCallWebhook, vars, docVars, jobVars, obsVars
  <2> QED
    BY <2>1, <2>2, <2>3, <2>4, <2>5
<1> QED
  BY <1>1, <1>2, Inductive, PTL DEF Spec

=============================================================================

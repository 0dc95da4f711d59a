----------------------- MODULE MessageCampaignProofs -----------------------
(***************************************************************************)
(* Proofs about MessageCampaign for any recipients and starts.             *)
(***************************************************************************)
EXTENDS MessageCampaign, TLAPS

-----------------------------------------------------------------------------
(***************************************************************************)
(* Types.                                                                  *)
(***************************************************************************)

\* What the locals of a start become stays typed.
LEMMA RunTypes ==
    ASSUME NEW q \in Run
    PROVE  /\ NoRun \in Run
           /\ \A p \in {"find", "store"} : [q EXCEPT !.pc = p] \in Run
           /\ \A s \in SUBSET Recipients : [q EXCEPT !.pc = "next", !.left = s] \in Run
           /\ \A p \in {"note", "store"}, a \in Recipients, x \in Result, b \in BOOLEAN :
                 [q EXCEPT !.pc = p, !.user = a, !.result = x, !.out = b] \in Run
           /\ \A s \in SUBSET Recipients, b \in BOOLEAN :
                 [NoRun EXCEPT !.pc = "next", !.left = s, !.waiting = b] \in Run
<1> USE DEF Run, NoRun, Result
<1>1. NoRun \in Run
  OBVIOUS
<1>2. \A p \in {"find", "store"} : [q EXCEPT !.pc = p] \in Run
  OBVIOUS
<1>3. \A s \in SUBSET Recipients : [q EXCEPT !.pc = "next", !.left = s] \in Run
  OBVIOUS
<1>4. \A p \in {"note", "store"}, a \in Recipients, x \in Result, b \in BOOLEAN :
         [q EXCEPT !.pc = p, !.user = a, !.result = x, !.out = b] \in Run
  OBVIOUS
<1>5. \A s \in SUBSET Recipients, b \in BOOLEAN :
         [NoRun EXCEPT !.pc = "next", !.left = s, !.waiting = b] \in Run
  OBVIOUS
<1> QED
  BY <1>1, <1>2, <1>3, <1>4, <1>5

\* A start at a recipient found it, others have no message to store.
Good(q) ==
    q \in Run /\ (IF q.pc \in {"note", "store"} THEN q.user \in q.left ELSE ~q.out)

LEMMA GoodRuns ==
    TypeOK <=> /\ campaign \in CampaignStatus
               /\ recipient \in [Recipients -> RecipientStatus]
               /\ deleting \in BOOLEAN
               /\ run \in [Runs -> Run]
               /\ \A r \in Runs : Good(run[r])
               /\ starts \in Nat /\ stops \in Nat /\ edits \in Nat
               /\ messaged \in [Recipients -> Nat]
               /\ stopped \subseteq Recipients /\ shared \subseteq Recipients
               /\ lost \subseteq Recipients /\ unsure \subseteq Recipients
               /\ refused \subseteq Recipients
BY DEF TypeOK, Good

\* What the step of start r makes of its locals: the step by step account the
\* proofs below share.
LEMMA Locals ==
    ASSUME TypeOK, NEW r \in Runs
    PROVE  /\ StartCampaign(r) => \E q : /\ run' = [run EXCEPT ![r] = q] /\ Good(q)
                                         /\ q.pc = "find" /\ q.left = run[r].left /\ ~q.out
           /\ FindPending(r) => \E q : /\ run' = [run EXCEPT ![r] = q] /\ Good(q)
                                       /\ q.pc = "next" /\ q.left = ToMessage /\ ~q.out
           /\ NoteError(r) => \E q : /\ run' = [run EXCEPT ![r] = q] /\ Good(q)
                                     /\ q.pc = "store" /\ q.left = run[r].left
                                     /\ q.user = run[r].user /\ q.out = run[r].out
                                     /\ q.result = run[r].result
           /\ StoreResult(r) => \E q : /\ run' = [run EXCEPT ![r] = q] /\ Good(q)
                                       /\ q.pc = "next" /\ q.left = run[r].left \ {run[r].user}
                                       /\ ~q.out
           /\ Leave(r) => \E q : /\ run' = [run EXCEPT ![r] = q] /\ Good(q)
                                 /\ q.pc = "idle" /\ q.left = {} /\ ~q.out
<1>0. run \in [Runs -> Run] /\ run[r] \in Run /\ Good(run[r]) /\ ToMessage \in SUBSET Recipients
  BY GoodRuns DEF ToMessage
<1>1. ASSUME StartCampaign(r)
      PROVE  \E q : /\ run' = [run EXCEPT ![r] = q] /\ Good(q)
                    /\ q.pc = "find" /\ q.left = run[r].left /\ ~q.out
  <2> DEFINE q == [run[r] EXCEPT !.pc = "find"]
  <2>1. q \in Run /\ run' = [run EXCEPT ![r] = q]
    BY <1>0, <1>1, RunTypes DEF StartCampaign
  <2>2. q.pc = "find" /\ q.left = run[r].left /\ ~q.out
    BY <1>0, <1>1 DEF StartCampaign, At, Good, Run
  <2> HIDE DEF q
  <2> QED
    BY <2>1, <2>2 DEF Good
<1>2. ASSUME FindPending(r)
      PROVE  \E q : /\ run' = [run EXCEPT ![r] = q] /\ Good(q)
                    /\ q.pc = "next" /\ q.left = ToMessage /\ ~q.out
  <2> DEFINE q == [run[r] EXCEPT !.pc = "next", !.left = ToMessage]
  <2>1. q \in Run /\ run' = [run EXCEPT ![r] = q]
    BY <1>0, <1>2, RunTypes DEF FindPending
  <2>2. q.pc = "next" /\ q.left = ToMessage /\ ~q.out
    BY <1>0, <1>2 DEF FindPending, At, Good, Run
  <2> HIDE DEF q
  <2> QED
    BY <2>1, <2>2 DEF Good
<1>3. ASSUME NoteError(r)
      PROVE  \E q : /\ run' = [run EXCEPT ![r] = q] /\ Good(q)
                    /\ q.pc = "store" /\ q.left = run[r].left
                    /\ q.user = run[r].user /\ q.out = run[r].out
                    /\ q.result = run[r].result
  <2> DEFINE q == [run[r] EXCEPT !.pc = "store"]
  <2>1. q \in Run /\ run' = [run EXCEPT ![r] = q]
    BY <1>0, <1>3, RunTypes DEF NoteError
  <2>2. /\ q.pc = "store" /\ q.left = run[r].left /\ q.user = run[r].user
        /\ q.out = run[r].out /\ q.result = run[r].result /\ run[r].user \in run[r].left
    BY <1>0, <1>3 DEF NoteError, At, Good, Run
  <2> HIDE DEF q
  <2> QED
    BY <2>1, <2>2 DEF Good
<1>4. ASSUME StoreResult(r)
      PROVE  \E q : /\ run' = [run EXCEPT ![r] = q] /\ Good(q)
                    /\ q.pc = "next" /\ q.left = run[r].left \ {run[r].user} /\ ~q.out
  <2> DEFINE s == run[r].left \ {run[r].user}
             b == run[r].waiting \/ run[r].result = "pending_provider"
             q == [NoRun EXCEPT !.pc = "next", !.left = s, !.waiting = b]
  <2>1. s \in SUBSET Recipients /\ b \in BOOLEAN
    BY <1>0 DEF Run
  <2>2. q \in Run /\ run' = [run EXCEPT ![r] = q]
    BY <1>0, <1>4, <2>1, RunTypes DEF StoreResult
  <2>3. q.pc = "next" /\ q.left = s /\ ~q.out
    BY DEF NoRun
  <2> HIDE DEF q
  <2> QED
    BY <2>2, <2>3 DEF Good
<1>5. ASSUME Leave(r)
      PROVE  \E q : /\ run' = [run EXCEPT ![r] = q] /\ Good(q)
                    /\ q.pc = "idle" /\ q.left = {} /\ ~q.out
  <2>1. NoRun \in Run /\ NoRun.pc = "idle" /\ NoRun.left = {} /\ ~NoRun.out
    BY <1>0, RunTypes DEF NoRun
  <2> QED
    BY <1>5, <2>1 DEF Leave, Good
<1> QED
  BY <1>1, <1>2, <1>3, <1>4, <1>5

\* The same of a delivery, with what it observes.
LEMMA Delivery ==
    ASSUME TypeOK, NEW r \in Runs, Deliver(r)
    PROVE  \E a, q :
              /\ a \in run[r].left
              /\ run' = [run EXCEPT ![r] = q] /\ Good(q)
              /\ q.pc \in {"note", "store"} /\ q.left = run[r].left /\ q.user = a
              /\ q.result = "sent" => q.out \/ a \in refused'
              /\ refused \subseteq refused' /\ refused' \subseteq refused \cup {a}
              /\ messaged' = IF q.out THEN [messaged EXCEPT ![a] = @ + 1] ELSE messaged
              /\ unsure \subseteq unsure' /\ unsure' \subseteq unsure \cup {a}
              /\ q.out /\ q.result # "sent" => a \in unsure'
<1>0. run \in [Runs -> Run] /\ run[r] \in Run /\ run[r].left \subseteq Recipients
  BY GoodRuns DEF Run
<1>1. PICK a \in run[r].left, result \in Result, raises \in BOOLEAN, out \in BOOLEAN :
          /\ out => result = "sent" \/ raises
          /\ raises => result = "failed"
          /\ run' = [run EXCEPT ![r].pc = IF raises THEN "note" ELSE "store",
                                ![r].user = a, ![r].result = result, ![r].out = out]
          /\ messaged' = IF out THEN [messaged EXCEPT ![a] = @ + 1] ELSE messaged
          /\ unsure' = IF out /\ raises THEN unsure \cup {a} ELSE unsure
          /\ refused' = IF result = "sent" /\ ~out THEN refused \cup {a} ELSE refused
  BY DEF Deliver
<1> DEFINE p == IF raises THEN "note" ELSE "store"
           q == [run[r] EXCEPT !.pc = p, !.user = a, !.result = result, !.out = out]
<1>2. p \in {"note", "store"} /\ a \in Recipients
  BY <1>0
<1>3. q \in Run
  BY <1>0, <1>2, RunTypes
<1>4. run' = [run EXCEPT ![r] = q]
  BY <1>0, <1>1
<1>5. q.pc = p /\ q.left = run[r].left /\ q.user = a /\ q.result = result /\ q.out = out
  BY <1>0 DEF Run
<1> HIDE DEF q, p
<1> QED
  BY <1>1, <1>2, <1>3, <1>4, <1>5 DEF Good

\* The type invariant is inductive.
LEMMA TypeStep ==
    ASSUME TypeOK, [Next]_vars
    PROVE  TypeOK'
<1> USE DEF bounds, obsVars
<1>0. /\ run \in [Runs -> Run] /\ \A r \in Runs : Good(run[r])
      /\ recipient \in [Recipients -> RecipientStatus] /\ messaged \in [Recipients -> Nat]
      /\ ToMessage \subseteq Recipients
  BY GoodRuns DEF ToMessage
<1>1. ASSUME NEW r \in Runs, NEW q, Good(q), run' = [run EXCEPT ![r] = q]
      PROVE  run' \in [Runs -> Run] /\ \A s \in Runs : Good(run'[s])
  BY <1>0, <1>1 DEF Good
<1>2. ASSUME NEW r \in Runs, StartCampaign(r) PROVE TypeOK'
  <2>3. run' \in [Runs -> Run] /\ \A s \in Runs : Good(run'[s])
    BY <1>1, <1>2, Locals
  <2> QED
    BY <1>2, <2>3 DEF StartCampaign, TypeOK, Good, CampaignStatus
<1>3. ASSUME NEW r \in Runs, FindPending(r) PROVE TypeOK'
  <2>1. UNION {ToMessage \cap run[q].left : q \in Runs \ {r}} \subseteq Recipients
    BY <1>0
  <2>2. shared' \subseteq Recipients
    BY <1>3, <2>1 DEF FindPending, TypeOK
  <2>3. run' \in [Runs -> Run] /\ \A s \in Runs : Good(run'[s])
    BY <1>1, <1>3, Locals
  <2> QED
    BY <1>3, <2>3, <2>2 DEF FindPending, TypeOK, Good
<1>4. ASSUME NEW r \in Runs, Deliver(r) PROVE TypeOK'
  <2>1. PICK a, q :
              /\ a \in run[r].left
              /\ run' = [run EXCEPT ![r] = q] /\ Good(q)
              /\ messaged' = IF q.out THEN [messaged EXCEPT ![a] = @ + 1] ELSE messaged
              /\ unsure' \subseteq unsure \cup {a}
              /\ refused' \subseteq refused \cup {a}
    BY <1>4, Delivery
  <2>2. a \in Recipients
    BY <1>0, <2>1 DEF Run
  <2>3. messaged' \in [Recipients -> Nat]
    BY <1>0, <2>1, <2>2
  <2> QED
    BY <1>1, <1>4, <2>1, <2>2, <2>3 DEF Deliver, TypeOK, Good
<1>5. ASSUME NEW r \in Runs, NoteError(r) PROVE TypeOK'
  <2>3. run' \in [Runs -> Run] /\ \A s \in Runs : Good(run'[s])
    BY <1>1, <1>5, Locals
  <2> QED
    BY <1>5, <2>3 DEF NoteError, TypeOK, Good
<1>6. ASSUME NEW r \in Runs, StoreResult(r) PROVE TypeOK'
  <2>1. run[r].result \in RecipientStatus
    BY <1>0 DEF Run, RecipientStatus
  <2>2. recipient' \in [Recipients -> RecipientStatus]
    BY <1>0, <1>6, <2>1 DEF StoreResult, Stored
  <2>3. run' \in [Runs -> Run] /\ \A s \in Runs : Good(run'[s])
    BY <1>1, <1>6, Locals
  <2> QED
    BY <1>6, <2>3, <2>2 DEF StoreResult, TypeOK, Good
<1>7. ASSUME NEW r \in Runs, FinishRun(r) PROVE TypeOK'
  BY <1>1, <1>7, Locals DEF FinishRun, TypeOK, Good, CampaignStatus
<1>8. ASSUME NEW r \in Runs, Stop(r) PROVE TypeOK'
  <2>1. run[r].out => run[r].user \in Recipients
    BY <1>0 DEF Good, Run
  <2> QED
    BY <1>1, <1>8, <2>1, Locals DEF Stop, TypeOK, Good
<1>9. ASSUME NEW a \in Recipients, AddRecipient(a) PROVE TypeOK'
  <2>1. recipient' \in [Recipients -> RecipientStatus]
    BY <1>0, <1>9 DEF AddRecipient, FirstStatus, RecipientStatus, Result
  <2> QED
    BY <1>9, <2>1 DEF AddRecipient, TypeOK
<1>10. CASE PauseCampaign
  BY <1>10 DEF PauseCampaign, TypeOK, CampaignStatus
<1>11. CASE CancelCampaign
  BY <1>11 DEF CancelCampaign, TypeOK, CampaignStatus
<1>12. CASE CancelRecipients
  <2>1. recipient' \in [Recipients -> RecipientStatus]
    BY <1>0, <1>12 DEF CancelRecipients, RecipientStatus
  <2> QED
    BY <1>12, <2>1 DEF CancelRecipients, TypeOK
<1>13. CASE UNCHANGED vars
  BY <1>13 DEF vars, TypeOK
<1> QED
  BY <1>2, <1>3, <1>4, <1>5, <1>6, <1>7, <1>8, <1>9, <1>10, <1>11, <1>12, <1>13
  DEF Next, RunStep

\* TypeOK: statuses and locals keep their types, for any number of recipients
\* and of starts under way.
THEOREM TypeCorrect == Spec => []TypeOK
<1>1. Init => TypeOK
  <2> SUFFICES ASSUME Init PROVE TypeOK
    OBVIOUS
  <2>1. NoRun \in Run
    BY DEF NoRun, Run, Result
  <2>2. Good(NoRun)
    BY <2>1 DEF Good, NoRun
  <2>3. run \in [Runs -> Run] /\ \A r \in Runs : Good(run[r])
    BY <2>1, <2>2 DEF Init
  <2> QED
    BY <2>3, GoodRuns DEF Init, CampaignStatus, RecipientStatus
<1> QED
  BY <1>1, TypeStep, PTL DEF Spec

-----------------------------------------------------------------------------
(***************************************************************************)
(* Who holds a recipient, and what its status says.                        *)
(***************************************************************************)

\* A recipient two starts hold was shared when the second found it.
Alone == \A r, q \in Runs : r # q => run[r].left \cap run[q].left \subseteq shared

\* A start that has still to store a message did send it; a message it does not
\* say sent of went out before it raised, and what it says sent of without a
\* message was refused.
Truthful(r) ==
    /\ run[r].out => messaged[run[r].user] > 0
    /\ run[r].out => run[r].result = "sent" \/ run[r].user \in unsure
    /\ run[r].pc \in {"note", "store"} /\ run[r].result = "sent" =>
          run[r].out \/ run[r].user \in refused

\* No start holds a, and none to come takes it.
Done(a) == recipient[a] \notin {"absent", "pending"} /\ \A r \in Runs : a \notin run[r].left

\* Unless a was shared or lost, it was messaged at most once, and if so its
\* start has still to store that or it is done with; unless a call raised for
\* it after its message went out, its status says sent.
Told(a) ==
    a \notin shared \cup lost =>
        /\ messaged[a] <= 1
        /\ messaged[a] > 0 => Storing(a) \/ Done(a)
        /\ messaged[a] > 0 /\ a \notin unsure => recipient[a] = "sent" \/ Storing(a)

\* Nobody's status says sent without a message but those refused.
Honest(a) == recipient[a] = "sent" => messaged[a] > 0 \/ a \in refused

CampaignInv ==
    /\ Alone
    /\ \A r \in Runs : Truthful(r)
    /\ \A a \in Recipients : Told(a) /\ Honest(a)

\* A start of TypeOK that stores for a holds a.
LEMMA StoringHolds ==
    ASSUME TypeOK, NEW r \in Runs
    PROVE  /\ run[r].out => run[r].user \in run[r].left /\ run[r].pc \in {"note", "store"}
           /\ run[r].left \subseteq Recipients
BY GoodRuns DEF Good, Run

\* Replacing the locals of one start changes those of no other.
LEMMA OtherRuns ==
    ASSUME TypeOK, NEW r \in Runs, NEW q, run' = [run EXCEPT ![r] = q]
    PROVE  run'[r] = q /\ \A s \in Runs \ {r} : run'[s] = run[s]
BY GoodRuns

\* Alone and Told survive a step that lets start r hold no more than before,
\* and neither messages anybody nor changes a status to or from sent or back
\* to pending, while r keeps what it has to store or the recipient is lost.
LEMMA QuietStep ==
    ASSUME TypeOK, CampaignInv, NEW r \in Runs, NEW q, run' = [run EXCEPT ![r] = q],
           q.left \subseteq run[r].left,
           UNCHANGED <<recipient, messaged, unsure, shared, refused>>, lost \subseteq lost',
           \/ q.out = run[r].out /\ q.user = run[r].user /\ q.result = run[r].result
           \/ ~q.out /\ q.pc \notin {"note", "store"}
                     /\ (run[r].out => run[r].user \in lost'),
           q.pc \in {"note", "store"} => run[r].pc \in {"note", "store"},
           q.out \in BOOLEAN, run[r].out \in BOOLEAN
    PROVE  CampaignInv'
<1>0. run'[r] = q /\ \A s \in Runs \ {r} : run'[s] = run[s]
  BY OtherRuns
<1>1. Alone'
  BY <1>0 DEF CampaignInv, Alone
<1>2. \A s \in Runs : Truthful(s)'
  BY <1>0 DEF CampaignInv, Truthful
<1>3. ASSUME NEW a \in Recipients PROVE Told(a)'
  <2> SUFFICES ASSUME a \notin shared \cup lost'
               PROVE  /\ messaged[a] <= 1
                      /\ messaged[a] > 0 => Storing(a)' \/ Done(a)'
                      /\ messaged[a] > 0 /\ a \notin unsure =>
                            recipient[a] = "sent" \/ Storing(a)'
    BY DEF Told
  <2>1. Told(a) /\ a \notin shared \cup lost
    BY DEF CampaignInv
  <2>2. Storing(a)' <=> Storing(a)
    <3>1. \A s \in Runs : (run'[s].user = a /\ run'[s].out) <=> (run[s].user = a /\ run[s].out)
      BY <1>0
    <3> QED
      BY <3>1 DEF Storing
  <2>3. Done(a) => Done(a)'
    BY <1>0 DEF Done
  <2> QED
    BY <2>1, <2>2, <2>3 DEF Told
<1>4. \A a \in Recipients : Honest(a)'
  BY DEF CampaignInv, Honest
<1> QED
  BY <1>1, <1>2, <1>3, <1>4 DEF CampaignInv

\* A start that finds the pending recipients shares those others hold.
LEMMA FindStep ==
    ASSUME TypeOK, CampaignInv, NEW r \in Runs, FindPending(r)
    PROVE  CampaignInv'
<1>0. PICK q : /\ run' = [run EXCEPT ![r] = q] /\ Good(q)
               /\ q.pc = "next" /\ q.left = ToMessage /\ ~q.out
  BY Locals
<1>1. run'[r] = q /\ \A s \in Runs \ {r} : run'[s] = run[s]
  BY <1>0, OtherRuns
<1>2. /\ shared \subseteq shared'
      /\ \A s \in Runs \ {r} : ToMessage \cap run[s].left \subseteq shared'
      /\ UNCHANGED <<recipient, messaged, unsure, lost, refused>>
  BY DEF FindPending
<1>3. Alone'
  BY <1>0, <1>1, <1>2 DEF CampaignInv, Alone
<1>4. \A s \in Runs : Truthful(s)'
  BY <1>0, <1>1, <1>2 DEF CampaignInv, Truthful
<1>5. ASSUME NEW a \in Recipients PROVE Told(a)'
  <2> SUFFICES ASSUME a \notin shared' \cup lost'
               PROVE  /\ messaged[a] <= 1
                      /\ messaged[a] > 0 => Storing(a)' \/ Done(a)'
                      /\ messaged[a] > 0 /\ a \notin unsure =>
                            recipient[a] = "sent" \/ Storing(a)'
    BY <1>2 DEF Told
  <2>1. Told(a) /\ a \notin shared \cup lost
    BY <1>2 DEF CampaignInv
  <2>2. ~run[r].out
    BY StoringHolds DEF FindPending, At
  <2>3. Storing(a)' <=> Storing(a)
    <3>1. \A s \in Runs : (run'[s].user = a /\ run'[s].out) <=> (run[s].user = a /\ run[s].out)
      BY <1>0, <1>1, <2>2
    <3> QED
      BY <3>1 DEF Storing
  <2>4. Done(a) => Done(a)'
    BY <1>0, <1>1, <1>2 DEF Done, ToMessage
  <2> QED
    BY <2>1, <2>3, <2>4 DEF Told
<1>6. \A a \in Recipients : Honest(a)'
  BY <1>2 DEF CampaignInv, Honest
<1> QED
  BY <1>3, <1>4, <1>5, <1>6 DEF CampaignInv

\* A start messages a recipient nobody messaged, unless it was shared or lost.
LEMMA DeliverStep ==
    ASSUME TypeOK, CampaignInv, NEW r \in Runs, Deliver(r)
    PROVE  CampaignInv'
<1>0. PICK b, q :
              /\ b \in run[r].left
              /\ run' = [run EXCEPT ![r] = q] /\ Good(q)
              /\ q.pc \in {"note", "store"} /\ q.left = run[r].left /\ q.user = b
              /\ q.result = "sent" => q.out \/ b \in refused'
              /\ refused \subseteq refused'
              /\ messaged' = IF q.out THEN [messaged EXCEPT ![b] = @ + 1] ELSE messaged
              /\ unsure \subseteq unsure' /\ unsure' \subseteq unsure \cup {b}
              /\ q.out /\ q.result # "sent" => b \in unsure'
  BY Delivery
<1>1. run'[r] = q /\ \A s \in Runs \ {r} : run'[s] = run[s]
  BY <1>0, OtherRuns
<1>2. UNCHANGED <<recipient, shared, lost>> /\ ~run[r].out
  BY StoringHolds DEF Deliver, At
<1>3. b \in Recipients /\ messaged \in [Recipients -> Nat]
  BY <1>0, StoringHolds, GoodRuns
<1>4. Alone'
  BY <1>0, <1>1, <1>2 DEF CampaignInv, Alone
<1>5. \A a \in Recipients : /\ messaged'[a] >= messaged[a]
                            /\ (a # b \/ ~q.out) => messaged'[a] = messaged[a]
                            /\ (a = b /\ q.out) => messaged'[a] = messaged[a] + 1
  BY <1>0, <1>3
<1>6. ASSUME NEW s \in Runs PROVE Truthful(s)'
  <2>1. CASE s = r
    BY <1>0, <1>1, <1>3, <1>5, <2>1 DEF Truthful
  <2>2. CASE s # r
    <3>1. run'[s] = run[s] /\ Truthful(s)
      BY <1>1, <2>2 DEF CampaignInv
    <3>2. run[s].out => run[s].user \in Recipients
      BY StoringHolds
    <3>3. run[s].out => messaged'[run[s].user] > 0
      BY <1>3, <1>5, <3>1, <3>2 DEF Truthful
    <3> QED
      BY <1>0, <3>1, <3>3 DEF Truthful
  <2> QED
    BY <2>1, <2>2
<1>7. ASSUME NEW a \in Recipients PROVE Told(a)'
  <2> SUFFICES ASSUME a \notin shared \cup lost
               PROVE  /\ messaged'[a] <= 1
                      /\ messaged'[a] > 0 => Storing(a)' \/ Done(a)'
                      /\ messaged'[a] > 0 /\ a \notin unsure' =>
                            recipient[a] = "sent" \/ Storing(a)'
    BY <1>2 DEF Told
  <2>1. Told(a) /\ messaged[a] \in Nat
    BY <1>3 DEF CampaignInv
  <2>2. Storing(a) => Storing(a)'
    BY <1>1, <1>2 DEF Storing
  <2>3. Done(a) => Done(a)'
    BY <1>0, <1>1, <1>2 DEF Done
  <2>4. CASE a = b /\ q.out
    <3>1. Storing(a)'
      BY <1>0, <1>1, <2>4 DEF Storing
    <3>2. ~Done(a)
      BY <1>0, <2>4 DEF Done
    <3>3. ~Storing(a)
      <4> SUFFICES ASSUME NEW s \in Runs, run[s].user = a, run[s].out PROVE FALSE
        BY DEF Storing
      <4>1. a \in run[s].left /\ s # r
        BY <1>2, StoringHolds
      <4> QED
        BY <1>0, <2>4, <4>1 DEF CampaignInv, Alone
    <3>4. messaged[a] = 0
      BY <2>1, <3>2, <3>3 DEF Told
    <3>5. messaged'[a] = 1
      BY <1>5, <2>4, <3>4
    <3> QED
      BY <3>1, <3>5
  <2>5. CASE ~(a = b /\ q.out)
    <3>1. messaged'[a] = messaged[a]
      BY <1>5, <2>5
    <3>2. Storing(a)' => Storing(a)
      <4>1. \A s \in Runs : run'[s].user = a /\ run'[s].out => run[s].user = a /\ run[s].out
        BY <1>0, <1>1, <2>5
      <4> QED
        BY <4>1 DEF Storing
    <3> QED
      BY <1>0, <2>1, <2>2, <2>3, <3>1, <3>2 DEF Told
  <2> QED
    BY <2>4, <2>5
<1>8. \A a \in Recipients : Honest(a)'
  <2>1. \A a \in Recipients : messaged[a] > 0 => messaged'[a] > 0
    BY <1>3, <1>5
  <2> QED
    BY <1>0, <1>2, <2>1 DEF CampaignInv, Honest
<1> QED
  BY <1>4, <1>6, <1>7, <1>8 DEF CampaignInv

\* The status a start stores is the one its call came to.
LEMMA StoreStep ==
    ASSUME TypeOK, CampaignInv, NEW r \in Runs, StoreResult(r)
    PROVE  CampaignInv'
<1>0. PICK q : /\ run' = [run EXCEPT ![r] = q] /\ Good(q)
               /\ q.pc = "next" /\ q.left = run[r].left \ {run[r].user} /\ ~q.out
  BY Locals
<1> DEFINE b == run[r].user
<1>1. run'[r] = q /\ \A s \in Runs \ {r} : run'[s] = run[s]
  BY <1>0, OtherRuns
<1>2. UNCHANGED <<messaged, unsure, shared, lost, refused>>
  BY DEF StoreResult, obsVars
<1>3. b \in run[r].left /\ b \in Recipients /\ run[r].pc = "store" /\ run[r].result \in Result
  BY GoodRuns DEF StoreResult, At, Good, Run
<1>4. /\ recipient'[b] = run[r].result
      /\ \A a \in Recipients \ {b} : recipient'[a] = recipient[a]
  BY <1>3, GoodRuns DEF StoreResult, Stored
<1>5. Alone'
  BY <1>0, <1>1, <1>2 DEF CampaignInv, Alone
<1>6. \A s \in Runs : Truthful(s)'
  BY <1>0, <1>1, <1>2 DEF CampaignInv, Truthful
<1>7. ASSUME NEW a \in Recipients PROVE Told(a)'
  <2> SUFFICES ASSUME a \notin shared \cup lost
               PROVE  /\ messaged[a] <= 1
                      /\ messaged[a] > 0 => Storing(a)' \/ Done(a)'
                      /\ messaged[a] > 0 /\ a \notin unsure =>
                            recipient'[a] = "sent" \/ Storing(a)'
    BY <1>2 DEF Told
  <2>1. Told(a) /\ Truthful(r)
    BY DEF CampaignInv
  <2>2. CASE a # b
    <3>1. \A s \in Runs : (run'[s].user = a /\ run'[s].out) <=> (run[s].user = a /\ run[s].out)
      BY <1>0, <1>1, <2>2
    <3>2. Storing(a)' <=> Storing(a)
      BY <3>1 DEF Storing
    <3>3. recipient'[a] = recipient[a]
      BY <1>4, <2>2
    <3>4. Done(a) => Done(a)'
      BY <1>0, <1>1, <3>3 DEF Done
    <3> QED
      BY <2>1, <3>2, <3>3, <3>4 DEF Told
  <2>3. CASE a = b
    <3>1. \A s \in Runs \ {r} : a \notin run[s].left
      BY <1>3, <2>3 DEF CampaignInv, Alone
    <3>2. ~Storing(a)'
      <4>1. \A s \in Runs \ {r} : ~(run'[s].user = a /\ run'[s].out)
        BY <1>1, <3>1, StoringHolds
      <4> QED
        BY <1>0, <1>1, <4>1 DEF Storing
    <3>3. Done(a)'
      BY <1>0, <1>1, <1>3, <1>4, <2>3, <3>1 DEF Done, Result
    <3>4. Storing(a) <=> run[r].out
      <4>1. \A s \in Runs \ {r} : ~(run[s].user = a /\ run[s].out)
        BY <3>1, StoringHolds
      <4> QED
        BY <4>1, <2>3 DEF Storing
    <3>5. messaged[a] > 0 => run[r].out
      <4>1. ~Done(a)
        BY <1>3, <2>3 DEF Done
      <4> QED
        BY <2>1, <2>3, <3>4, <4>1 DEF Told, Truthful
    <3>6. run[r].out /\ a \notin unsure => run[r].result = "sent"
      BY <1>3, <2>1, <2>3 DEF Truthful
    <3> QED
      BY <1>4, <2>1, <2>3, <3>2, <3>3, <3>5, <3>6 DEF Told
  <2> QED
    BY <2>2, <2>3
<1>8. ASSUME NEW a \in Recipients PROVE Honest(a)'
  <2>1. CASE a = b
    BY <1>2, <1>3, <1>4, <2>1 DEF CampaignInv, Truthful, Honest
  <2>2. CASE a # b
    BY <1>2, <1>4, <2>2 DEF CampaignInv, Honest
  <2> QED
    BY <2>1, <2>2
<1> QED
  BY <1>5, <1>6, <1>7, <1>8 DEF CampaignInv

\* Statuses that change outside the starts: nothing becomes sent or stops being
\* sent, and no recipient done with becomes pending.
LEMMA StatusStep ==
    ASSUME TypeOK, CampaignInv, UNCHANGED <<run, messaged, unsure, shared, lost, refused>>,
           \A a \in Recipients : /\ recipient'[a] = "sent" <=> recipient[a] = "sent"
                                 /\ recipient[a] \notin {"absent", "pending"} =>
                                       recipient'[a] \notin {"absent", "pending"}
    PROVE  CampaignInv'
<1>1. Alone' /\ \A s \in Runs : Truthful(s)'
  BY DEF CampaignInv, Alone, Truthful
<1>2. ASSUME NEW a \in Recipients PROVE Told(a)' /\ Honest(a)'
  <2>1. Told(a) /\ Honest(a) /\ (Storing(a)' <=> Storing(a)) /\ (Done(a) => Done(a)')
    BY DEF CampaignInv, Storing, Done
  <2> QED
    BY <2>1 DEF Told, Honest
<1> QED
  BY <1>1, <1>2 DEF CampaignInv

LEMMA CampaignStep ==
    ASSUME TypeOK, CampaignInv, [Next]_vars
    PROVE  CampaignInv'
<1> USE DEF obsVars, bounds
<1>0. \A r \in Runs : run[r].out \in BOOLEAN /\ Good(run[r])
  BY GoodRuns DEF Run
<1>1. ASSUME NEW r \in Runs, StartCampaign(r) PROVE CampaignInv'
  <2>1. PICK q : /\ run' = [run EXCEPT ![r] = q] /\ q.pc = "find" /\ q.left = run[r].left /\ ~q.out
                 /\ Good(q)
    BY <1>1, Locals
  <2>2. ~run[r].out /\ q.out \in BOOLEAN
    BY <1>1, <2>1, StoringHolds DEF StartCampaign, At, Good, Run
  <2> QED
    BY <1>0, <1>1, <2>1, <2>2, QuietStep DEF StartCampaign
<1>2. ASSUME NEW r \in Runs, NoteError(r) PROVE CampaignInv'
  <2>1. PICK q : /\ run' = [run EXCEPT ![r] = q]
                 /\ q.pc = "store" /\ q.left = run[r].left
                 /\ q.user = run[r].user /\ q.out = run[r].out
                 /\ q.result = run[r].result
    BY <1>2, Locals
  <2> QED
    BY <1>0, <1>2, <2>1, QuietStep DEF NoteError, At
<1>3. ASSUME NEW r \in Runs, FinishRun(r) \/ Stop(r) PROVE CampaignInv'
  <2>1. PICK q : /\ run' = [run EXCEPT ![r] = q] /\ q.pc = "idle" /\ q.left = {} /\ ~q.out
                 /\ Good(q)
    BY <1>3, Locals DEF FinishRun, Stop
  <2>2. q.out \in BOOLEAN
    BY <2>1 DEF Good, Run
  <2>3. /\ UNCHANGED <<recipient, messaged, unsure, shared, refused>> /\ lost \subseteq lost'
        /\ run[r].out => run[r].user \in lost'
    BY <1>3, StoringHolds DEF FinishRun, Stop, At
  <2> QED
    BY <1>0, <2>1, <2>2, <2>3, QuietStep
<1>4. ASSUME NEW a \in Recipients, AddRecipient(a) PROVE CampaignInv'
  <2>1. recipient[a] = "absent" /\ recipient'[a] \in {"pending", "failed"}
        /\ \A c \in Recipients \ {a} : recipient'[c] = recipient[c]
    BY <1>4, GoodRuns DEF AddRecipient, FirstStatus
  <2> QED
    BY <1>4, <2>1, StatusStep DEF AddRecipient
<1>5. CASE CancelRecipients
  BY <1>5, StatusStep DEF CancelRecipients
<1>6. CASE PauseCampaign \/ CancelCampaign \/ UNCHANGED vars
  BY <1>6, StatusStep DEF PauseCampaign, CancelCampaign, vars
<1> QED
  BY <1>1, <1>2, <1>3, <1>4, <1>5, <1>6, FindStep, DeliverStep, StoreStep DEF Next, RunStep

\* Types and CampaignInv hold of every state, however starts overlap and end.
THEOREM Inductive == Spec => [](TypeOK /\ CampaignInv)
<1>1. Init => CampaignInv
  <2> SUFFICES ASSUME Init PROVE CampaignInv
    OBVIOUS
  <2>1. \A r \in Runs : run[r].left = {} /\ ~run[r].out /\ run[r].pc = "idle"
    BY DEF Init, NoRun
  <2> QED
    BY <2>1 DEF Init, CampaignInv, Alone, Truthful, Told, Storing, Honest
<1> QED
  BY <1>1, CampaignStep, TypeCorrect, PTL DEF Spec

\* RemessageNeedsRaceOrStop: a second message to a recipient needs two starts
\* that had it together or one that ended before it stored the first.
THEOREM OneMessageUnlessRace == Spec => []RemessageNeedsRaceOrStop
<1>1. TypeOK /\ CampaignInv => RemessageNeedsRaceOrStop
  <2> SUFFICES ASSUME TypeOK, CampaignInv, NEW a \in Recipients, a \notin shared \cup lost
               PROVE  ~(messaged[a] > 1)
    BY DEF RemessageNeedsRaceOrStop
  <2>1. messaged[a] \in Nat /\ messaged[a] <= 1
    BY DEF CampaignInv, Told, TypeOK
  <2> QED
    BY <2>1
<1> QED
  BY <1>1, Inductive, PTL

\* StatusTellsMessage: but for those cases and calls that raised after the
\* message went out, a message shows as sent in the status or in what its start
\* has still to store; and a status that says sent is true but where a refusing
\* answer counted as sent.
THEOREM StatusTrue == Spec => []StatusTellsMessage
<1>1. CampaignInv => StatusTellsMessage
  BY DEF CampaignInv, Told, Honest, StatusTellsMessage
<1> QED
  BY <1>1, Inductive, PTL

-----------------------------------------------------------------------------
(***************************************************************************)
(* Cancellation.                                                           *)
(***************************************************************************)

\* Whatever replaces the status of a cancelled recipient, it is not pending.
CancelInv == \A a \in stopped : recipient[a] \notin {"absent", "pending"}

LEMMA CancelStep ==
    ASSUME TypeOK, CancelInv, [Next]_vars
    PROVE  CancelInv'
<1> USE DEF obsVars
<1>0. stopped \subseteq Recipients /\ recipient \in [Recipients -> RecipientStatus]
  BY DEF TypeOK
<1>1. ASSUME NEW r \in Runs, StoreResult(r) PROVE CancelInv'
  <2>1. run[r].result \notin {"absent", "pending"}
    BY GoodRuns DEF Run, Result
  <2> QED
    BY <1>0, <1>1, <2>1 DEF StoreResult, Stored, CancelInv
<1>2. ASSUME NEW a \in Recipients, AddRecipient(a) PROVE CancelInv'
  BY <1>0, <1>2 DEF AddRecipient, CancelInv
<1>3. CASE CancelRecipients
  BY <1>0, <1>3 DEF CancelRecipients, CancelInv
<1>4. CASE UNCHANGED <<recipient, stopped>>
  BY <1>4 DEF CancelInv
<1>5. ASSUME NEW r \in Runs,
             StartCampaign(r) \/ FindPending(r) \/ Deliver(r) \/ NoteError(r) \/ FinishRun(r) \/ Stop(r)
      PROVE  UNCHANGED <<recipient, stopped>>
  BY <1>5 DEF StartCampaign, FindPending, Deliver, NoteError, FinishRun, Stop
<1>6. PauseCampaign \/ CancelCampaign \/ UNCHANGED vars => UNCHANGED <<recipient, stopped>>
  BY DEF PauseCampaign, CancelCampaign, vars
<1> QED
  BY <1>1, <1>2, <1>3, <1>4, <1>5, <1>6 DEF Next, RunStep

\* Whom delete_message_campaign cancelled is never pending again, whatever a
\* start still writes over the status.
THEOREM CancelledStay == Spec => [](TypeOK /\ CancelInv)
<1>1. Init => CancelInv
  BY DEF Init, CancelInv
<1> QED
  BY <1>1, CancelStep, TypeCorrect, PTL DEF Spec

\* CancelledIsNotTaken: no start takes a recipient an earlier deletion
\* cancelled, whatever starts under way made of its status.
THEOREM CancelledNotTaken == Spec => CancelledIsNotTaken
<1> DEFINE A == \A r \in Runs : At(r, "find") /\ run'[r].pc = "next" =>
                    run'[r].left \cap stopped = {}
<1>1. TypeOK /\ CancelInv /\ [Next]_vars => [A]_vars
  <2> SUFFICES ASSUME TypeOK, CancelInv, Next, NEW r \in Runs, At(r, "find"), run'[r].pc = "next"
               PROVE  run'[r].left \cap stopped = {}
    BY DEF vars
  <2>0. run \in [Runs -> Run]
    BY DEF TypeOK
  <2>1. FindPending(r)
    <3>1. ~UNCHANGED run
      BY DEF At
    <3>2. PICK s \in Runs : RunStep(s)
      BY <3>1 DEF Next, AddRecipient, PauseCampaign, CancelCampaign, CancelRecipients
    <3>3. \E q : run' = [run EXCEPT ![s] = q]
      <4>1. Deliver(s) => \E q : run' = [run EXCEPT ![s] = q]
        BY Delivery
      <4> QED
        BY <3>2, <4>1, Locals DEF RunStep, FinishRun, Stop
    <3>4. s = r
      BY <2>0, <3>3 DEF At
    <3>5. ~(FinishRun(r) \/ Stop(r) \/ StartCampaign(r) \/ Deliver(r) \/ NoteError(r) \/ StoreResult(r))
      <4>1. ~Stop(r)
        <5>1. NoRun.pc = "idle"
          BY DEF NoRun
        <5> QED
          BY <2>0, <5>1 DEF Stop, Leave
      <4> QED
        BY <4>1 DEF FinishRun, StartCampaign, Deliver, NoteError, StoreResult, At
    <3> QED
      BY <3>2, <3>4, <3>5 DEF RunStep
  <2>2. PICK q : run' = [run EXCEPT ![r] = q] /\ q.left = ToMessage
    BY <2>1, Locals
  <2>3. run'[r].left = ToMessage
    BY <2>0, <2>2
  <2> QED
    BY <2>3 DEF CancelInv, ToMessage
<1> QED
  BY <1>1, CancelledStay, PTL DEF Spec, CancelledIsNotTaken

-----------------------------------------------------------------------------
(***************************************************************************)
(* The refinement of CheckThenAct.                                         *)
(***************************************************************************)

\* A start that has not looked yet holds no recipient.
EmptyHanded == \A r \in Runs : run[r].pc \in {"idle", "find"} => run[r].left = {}

LEMMA EmptyStep ==
    ASSUME TypeOK, EmptyHanded, [Next]_vars
    PROVE  EmptyHanded'
<1>1. ASSUME NEW r \in Runs, NEW q, run' = [run EXCEPT ![r] = q],
             q.pc \in {"idle", "find"} => q.left = {}
      PROVE  EmptyHanded'
  BY <1>1, OtherRuns DEF EmptyHanded
<1>2. ASSUME NEW r \in Runs, StartCampaign(r) PROVE EmptyHanded'
  <2>1. run[r].left = {}
    BY <1>2 DEF StartCampaign, At, EmptyHanded
  <2> QED
    BY <1>1, <1>2, <2>1, Locals
<1>3. ASSUME NEW r \in Runs, Deliver(r) PROVE EmptyHanded'
  <2>1. PICK q : run' = [run EXCEPT ![r] = q] /\ q.pc \in {"note", "store"}
    BY <1>3, Delivery
  <2> QED
    BY <1>1, <2>1
<1>4. ASSUME NEW r \in Runs, FindPending(r) PROVE EmptyHanded'
  <2>1. PICK q : run' = [run EXCEPT ![r] = q] /\ q.pc = "next"
    BY <1>4, Locals
  <2> QED
    BY <1>1, <2>1
<1>5. ASSUME NEW r \in Runs, NoteError(r) PROVE EmptyHanded'
  <2>1. PICK q : run' = [run EXCEPT ![r] = q] /\ q.pc = "store"
    BY <1>5, Locals
  <2> QED
    BY <1>1, <2>1
<1>6. ASSUME NEW r \in Runs, StoreResult(r) PROVE EmptyHanded'
  <2>1. PICK q : run' = [run EXCEPT ![r] = q] /\ q.pc = "next"
    BY <1>6, Locals
  <2> QED
    BY <1>1, <2>1
<1>7. ASSUME NEW r \in Runs, FinishRun(r) \/ Stop(r) PROVE EmptyHanded'
  <2>1. PICK q : run' = [run EXCEPT ![r] = q] /\ q.left = {}
    BY <1>7, Locals DEF FinishRun, Stop
  <2> QED
    BY <1>1, <2>1
<1>8. CASE UNCHANGED run
  BY <1>8 DEF EmptyHanded
<1> QED
  BY <1>2, <1>3, <1>4, <1>5, <1>6, <1>7, <1>8
  DEF Next, RunStep, AddRecipient, PauseCampaign, CancelCampaign, CancelRecipients, vars

\* Whoever a start has found and not stored was messaged by that start only,
\* if at all, unless the recipient is excused.
LEMMA HeldUnmessaged ==
    ASSUME TypeOK, CampaignInv, NEW r \in Runs, NEW a \in run[r].left,
           ~(run[r].out /\ run[r].user = a)
    PROVE  messaged[a] = 0 \/ a \in shared \cup lost
<1> SUFFICES ASSUME a \notin shared \cup lost PROVE messaged[a] = 0
  OBVIOUS
<1>1. a \in Recipients /\ messaged[a] \in Nat
  BY StoringHolds, GoodRuns
<1>2. ~Done(a)
  BY DEF Done
<1>3. ~Storing(a)
  <2> SUFFICES ASSUME NEW s \in Runs, run[s].user = a, run[s].out PROVE FALSE
    BY DEF Storing
  <2>1. a \in run[s].left /\ s # r
    BY StoringHolds
  <2> QED
    BY <2>1 DEF CampaignInv, Alone
<1> QED
  BY <1>1, <1>2, <1>3 DEF CampaignInv, Told

\* What a start holds changes with its locals, and nobody else's does.
LEMMA LeftStep ==
    ASSUME TypeOK, NEW r \in Runs, NEW q, run' = [run EXCEPT ![r] = q]
    PROVE  /\ LeftTo' = [LeftTo EXCEPT ![r] = q.left]
           /\ q.left = run[r].left => LeftTo' = LeftTo
           /\ LeftTo[r] = run[r].left
<1>1. run'[r] = q /\ \A s \in Runs \ {r} : run'[s] = run[s]
  BY OtherRuns
<1>2. /\ LeftTo = [s \in Runs |-> run[s].left]
      /\ LeftTo' = [s \in Runs |-> run'[s].left]
  BY DEF LeftTo
<1>3. LeftTo' = [LeftTo EXCEPT ![r] = q.left]
  BY <1>1, <1>2
<1>4. ASSUME q.left = run[r].left PROVE LeftTo' = LeftTo
  BY <1>1, <1>2, <1>4
<1> QED
  BY <1>2, <1>3, <1>4

\* The lookup takes the pending recipients and shares those others have.
LEMMA FindRefines ==
    ASSUME TypeOK, EmptyHanded, NEW r \in Runs, FindPending(r)
    PROVE  Messages!Take(r, ToMessage)
<1>1. PICK d : run' = [run EXCEPT ![r] = d] /\ d.left = ToMessage
  BY Locals
<1>2. LeftTo' = [LeftTo EXCEPT ![r] = ToMessage] /\ LeftTo[r] = {} /\ run[r].left = {}
  <2>1. LeftTo' = [LeftTo EXCEPT ![r] = d.left] /\ LeftTo[r] = run[r].left
    BY <1>1, LeftStep
  <2> QED
    BY <1>1, <2>1 DEF EmptyHanded, FindPending, At
<1>3. ToMessage \subseteq Unmessaged
  BY DEF ToMessage, Unmessaged
<1>4. UNCHANGED <<recipient, messaged, lost>>
  BY DEF FindPending
<1>5. shared' = shared \cup UNION {ToMessage \cap run[q].left : q \in Runs \ {r}}
  BY DEF FindPending
<1>6. UNION {ToMessage \cap run[q].left : q \in Runs \ {r}}
          = {i \in ToMessage : \E v \in Runs : i \in LeftTo[v]}
  BY <1>2 DEF LeftTo
<1>7. (shared \cup lost)' = (shared \cup lost)
                               \cup {i \in ToMessage : \E v \in Runs : i \in LeftTo[v]}
  BY <1>4, <1>5, <1>6
<1> QED
  BY <1>2, <1>3, <1>4, <1>7 DEF Messages!Take, Unmessaged

\* A delivery messages a recipient nobody messaged, or one that is excused; it
\* may come to no message.
LEMMA DeliverRefines ==
    ASSUME TypeOK, CampaignInv, NEW r \in Runs, Deliver(r)
    PROVE  (\E a \in Recipients : Messages!Act(r, a)) \/ UNCHANGED Messages!vars
<1>1. PICK a, q : /\ a \in run[r].left
                  /\ run' = [run EXCEPT ![r] = q] /\ q.left = run[r].left
                  /\ messaged' = IF q.out THEN [messaged EXCEPT ![a] = @ + 1] ELSE messaged
  BY Delivery
<1>2. UNCHANGED <<recipient, shared, lost>> /\ ~run[r].out
  BY StoringHolds DEF Deliver, At
<1>3. LeftTo' = LeftTo /\ LeftTo[r] = run[r].left
  BY <1>1, LeftStep
<1>4. a \in Recipients /\ (messaged[a] = 0 \/ a \in shared \cup lost)
  BY <1>1, <1>2, HeldUnmessaged, StoringHolds
<1>5. Messages!MayAct(r, a)
  BY <1>1, <1>3, <1>4 DEF Messages!MayAct
<1>6. CASE q.out
  BY <1>1, <1>2, <1>3, <1>4, <1>5, <1>6 DEF Messages!Act, Unmessaged
<1>7. CASE ~q.out
  BY <1>1, <1>2, <1>3, <1>7 DEF Messages!vars, Unmessaged
<1> QED
  BY <1>6, <1>7

\* Every outcome that is stored closes the recipient.
LEMMA StoreRefines ==
    ASSUME TypeOK, NEW r \in Runs, StoreResult(r)
    PROVE  run[r].user \in Recipients /\ Messages!Settle(r, run[r].user)
<1>1. PICK q : run' = [run EXCEPT ![r] = q] /\ q.left = run[r].left \ {run[r].user}
  BY Locals
<1>2. run[r].user \in run[r].left /\ run[r].user \in Recipients /\ run[r].result \in Result
  BY GoodRuns DEF StoreResult, At, Good, Run
<1>3. LeftTo' = [LeftTo EXCEPT ![r] = @ \ {run[r].user}] /\ LeftTo[r] = run[r].left
  <2>1. LeftTo' = [LeftTo EXCEPT ![r] = q.left] /\ LeftTo[r] = run[r].left
    BY <1>1, LeftStep
  <2> QED
    BY <1>1, <2>1
<1>4. Unmessaged' = Unmessaged \ {run[r].user}
  <2>1. recipient' = [recipient EXCEPT ![run[r].user] = run[r].result]
    BY DEF StoreResult, Stored
  <2>2. recipient \in [Recipients -> RecipientStatus] /\ run[r].result \notin {"absent", "pending"}
    BY <1>2, GoodRuns DEF Result
  <2> QED
    BY <1>2, <2>1, <2>2 DEF Unmessaged
<1>5. UNCHANGED <<messaged, shared, lost>>
  BY DEF StoreResult, obsVars
<1> QED
  BY <1>2, <1>3, <1>4, <1>5 DEF Messages!Settle

\* A start that ends early excuses the recipient whose message it did not store.
LEMMA StopRefines ==
    ASSUME TypeOK, CampaignInv, NEW r \in Runs, Stop(r)
    PROVE  Messages!Leave(r)
<1>1. PICK q : run' = [run EXCEPT ![r] = q] /\ q.left = {}
  BY Locals DEF Stop
<1>2. LeftTo' = [LeftTo EXCEPT ![r] = {}] /\ LeftTo[r] = run[r].left
  <2>1. LeftTo' = [LeftTo EXCEPT ![r] = q.left] /\ LeftTo[r] = run[r].left
    BY <1>1, LeftStep
  <2> QED
    BY <1>1, <2>1
<1> DEFINE S == IF run[r].out THEN {run[r].user} ELSE {}
<1>3. UNCHANGED <<recipient, messaged, shared>> /\ lost' = lost \cup S
  BY DEF Stop
<1>4. S \subseteq run[r].left
  BY StoringHolds
<1>5. \A a \in run[r].left : messaged[a] = 0 \/ a \in (shared \cup lost) \cup S
  BY HeldUnmessaged
<1>6. (shared \cup lost)' = (shared \cup lost) \cup S
  BY <1>3
<1> HIDE DEF S
<1>7. \A a \in LeftTo[r] \cap Unmessaged : messaged[a] = 0 \/ a \in (shared \cup lost)'
  BY <1>2, <1>5, <1>6
<1>8. \E T \in SUBSET LeftTo[r] : T \subseteq (shared \cup lost)' /\ Unmessaged' = Unmessaged \cup T
  <2>1. Unmessaged' = Unmessaged \cup {}
    BY <1>3 DEF Unmessaged
  <2> QED
    BY <2>1
<1> QED
  BY <1>2, <1>3, <1>4, <1>6, <1>7, <1>8 DEF Messages!Leave

\* Creation and deletion close recipients and open none.
LEMMA WithdrawRefines ==
    ASSUME UNCHANGED <<run, messaged, shared, lost>>, Unmessaged' \subseteq Unmessaged
    PROVE  \E S \in SUBSET Recipients : Messages!Withdraw(S)
<1>1. Unmessaged' = Unmessaged \ (Unmessaged \ Unmessaged')
  OBVIOUS
<1>2. Unmessaged \ Unmessaged' \in SUBSET Recipients
  BY DEF Unmessaged
<1>3. LeftTo' = LeftTo
  BY DEF LeftTo
<1> QED
  BY <1>1, <1>2, <1>3 DEF Messages!Withdraw

LEMMA RefineStep ==
    ASSUME TypeOK, CampaignInv, EmptyHanded, [Next]_vars
    PROVE  [Messages!Next]_(Messages!vars)
<1> USE DEF obsVars, bounds
<1>1. ASSUME NEW r \in Runs, StartCampaign(r) \/ NoteError(r) PROVE UNCHANGED Messages!vars
  <2>1. PICK q : run' = [run EXCEPT ![r] = q] /\ q.left = run[r].left
    BY <1>1, Locals
  <2>2. LeftTo' = LeftTo
    BY <2>1, LeftStep
  <2> QED
    BY <1>1, <2>2 DEF StartCampaign, NoteError, Messages!vars, Unmessaged
<1>2. ASSUME NEW r \in Runs, FinishRun(r) PROVE UNCHANGED Messages!vars
  <2>1. PICK q : run' = [run EXCEPT ![r] = q] /\ q.left = {}
    BY <1>2, Locals DEF FinishRun
  <2>2. q.left = run[r].left
    BY <1>2, <2>1 DEF FinishRun
  <2>3. LeftTo' = LeftTo
    BY <2>1, <2>2, LeftStep
  <2> QED
    BY <1>2, <2>3 DEF FinishRun, Messages!vars, Unmessaged
<1>3. ASSUME NEW r \in Runs, FindPending(r) PROVE Messages!Next
  <2>1. ToMessage \in SUBSET Recipients
    BY DEF ToMessage
  <2> QED
    BY <1>3, <2>1, FindRefines DEF Messages!Next
<1>4. ASSUME NEW r \in Runs, Deliver(r) PROVE [Messages!Next]_(Messages!vars)
  BY <1>4, DeliverRefines DEF Messages!Next
<1>5. ASSUME NEW r \in Runs, StoreResult(r) PROVE Messages!Next
  BY <1>5, StoreRefines DEF Messages!Next
<1>6. ASSUME NEW r \in Runs, Stop(r) PROVE Messages!Next
  BY <1>6, StopRefines DEF Messages!Next
<1>7. ASSUME NEW a \in Recipients, AddRecipient(a) PROVE Messages!Next
  <2>1. Unmessaged' \subseteq Unmessaged
    BY <1>7, GoodRuns DEF AddRecipient, FirstStatus, Unmessaged
  <2> QED
    BY <1>7, <2>1, WithdrawRefines DEF AddRecipient, Messages!Next
<1>8. CASE CancelRecipients
  <2>1. Unmessaged' \subseteq Unmessaged
    BY <1>8 DEF CancelRecipients, Unmessaged
  <2> QED
    BY <1>8, <2>1, WithdrawRefines DEF CancelRecipients, Messages!Next
<1>9. CASE PauseCampaign \/ CancelCampaign \/ UNCHANGED vars
  BY <1>9 DEF PauseCampaign, CancelCampaign, vars, Messages!vars, Unmessaged, LeftTo
<1> QED
  BY <1>1, <1>2, <1>3, <1>4, <1>5, <1>6, <1>7, <1>8, <1>9 DEF Next, RunStep

\* ImplementsCheckThenAct: for any recipients and starts, a start takes open
\* recipients only and messages one a second time only if it is excused, and
\* neither a deletion, a creation still under way nor an error opens a
\* recipient again.
THEOREM Refinement == Spec => ImplementsCheckThenAct
<1>1. Init => Messages!Init /\ EmptyHanded
  <2> SUFFICES ASSUME Init PROVE Messages!Init /\ EmptyHanded
    OBVIOUS
  <2>1. \A r \in Runs : run[r].left = {}
    BY DEF Init, NoRun
  <2> QED
    BY <2>1 DEF Init, EmptyHanded, Messages!Init, LeftTo, Unmessaged
<1> QED
  BY <1>1, EmptyStep, RefineStep, Inductive, PTL
  DEF Spec, ImplementsCheckThenAct, Messages!Spec

=============================================================================

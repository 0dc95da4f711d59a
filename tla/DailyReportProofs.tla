------------------------- MODULE DailyReportProofs --------------------------
(***************************************************************************)
(* Proofs about DailyReport for any number of admins and runs: what the    *)
(* lookup before each mail and the record after it guarantee although runs *)
(* overlap and are killed.                                                 *)
(***************************************************************************)
EXTENDS DailyReport, TLAPS

-----------------------------------------------------------------------------
\* Every step keeps the records and the locals of the runs in their domains.
LEMMA TypeStep ==
    ASSUME TypeOK, [Next]_vars
    PROVE  TypeOK'
<1> USE DailyReportAssumption DEF TypeOK, obsVars, RunPcs, AtAdmin
<1>1. ASSUME NEW a \in Admins, ChangeAdmin(a) PROVE TypeOK'
  BY <1>1 DEF ChangeAdmin
<1>2. ASSUME NEW r \in Runs, BeginRun(r) PROVE TypeOK'
  BY <1>2 DEF BeginRun
<1>3. ASSUME NEW r \in Runs, FindDelivery(r) PROVE TypeOK'
  BY <1>3 DEF FindDelivery
<1>4. ASSUME NEW r \in Runs, SendMail(r) PROVE TypeOK'
  <2>1. cur[r] \in Admins
    BY <1>4 DEF SendMail
  <2>2. mails' \in [Admins -> Nat] /\ unsaid' \subseteq Admins
    BY <1>4, <2>1 DEF SendMail
  <2>3. \E pc \in {"fail", "record"} : runPc' = [runPc EXCEPT ![r] = pc]
    BY <1>4 DEF SendMail
  <2> QED
    BY <1>4, <2>1, <2>2, <2>3 DEF SendMail
<1>5. ASSUME NEW r \in Runs, RecordSent(r) PROVE TypeOK'
  BY <1>5 DEF RecordSent, NextAdmin, RecordStatus
<1>6. ASSUME NEW r \in Runs, RecordSentRaises(r) PROVE TypeOK'
  BY <1>6 DEF RecordSentRaises, RecordStatus
<1>7. ASSUME NEW r \in Runs, RecordFailed(r) PROVE TypeOK'
  BY <1>7 DEF RecordFailed, FailedRecord, NextAdmin, RecordStatus
<1>8. ASSUME NEW r \in Runs, RecordFailedRaises(r) PROVE TypeOK'
  BY <1>8 DEF RecordFailedRaises, FailedRecord, Leave, RecordStatus
<1>9. ASSUME NEW r \in Runs, EndLoop(r) \/ Answer(r) PROVE TypeOK'
  BY <1>9 DEF EndLoop, Answer, Leave
<1>10. ASSUME NEW r \in Runs, KillRun(r) PROVE TypeOK'
  BY <1>10 DEF KillRun, Leave
<1>11. CASE UNCHANGED vars
  BY <1>11 DEF vars
<1> QED
  BY <1>1, <1>2, <1>3, <1>4, <1>5, <1>6, <1>7, <1>8, <1>9, <1>10, <1>11
  DEF Next, RunStep

\* Records, mails and the locals of all runs keep their types.
THEOREM TypeCorrect == Spec => []TypeOK
<1>1. Init => TypeOK
  BY DEF Init, TypeOK, RecordStatus, RunPcs, AtAdmin
<1> QED
  BY <1>1, TypeStep, PTL DEF Spec

-----------------------------------------------------------------------------
\* The parts of ReportInv about an admin: who is at the admin,
HeldOnce(a) ==
    /\ \A q, r \in Runs : Holds(q, a) /\ Holds(r, a) => q = r
    /\ record[a] = "sent" => \A r \in Runs : Holds(r, a) => InDoubt(r, a)

\* and which mails there were.
MailedOnce(a) ==
    /\ mails[a] <= 1
    /\ \A r \in Runs : Holds(r, a) /\ runPc[r] # "record" => mails[a] = 0
    /\ mails[a] = 1 /\ record[a] # "sent" =>
          \E r \in Runs : Holds(r, a) /\ runPc[r] = "record"

\* The part about mails that went out before their record, and about doubts.
MailInv ==
    /\ SentRecordIsTrue
    /\ \A r \in Runs : /\ runPc[r] = "record" => mails[cur[r]] > 0
                       /\ runPc[r] = "doubt" => cur[r] \in unsaid

LEMMA ReportInvParts ==
    ReportInv <=> /\ MailInv
                  /\ \A a \in Admins \ raced : HeldOnce(a)
                  /\ \A a \in Admins \ (raced \cup unsaid) : MailedOnce(a)
BY DEF ReportInv, MailInv, HeldOnce, MailedOnce

\* A report is recorded as sent only after it was mailed.
LEMMA MailStep ==
    ASSUME TypeOK, MailInv, [Next]_vars
    PROVE  MailInv'
<1> USE DEF TypeOK, MailInv, SentRecordIsTrue, obsVars, AtAdmin
<1>1. ASSUME mails' = mails, unsaid \subseteq unsaid',
             \A a \in Admins : record'[a] = "sent" => record[a] = "sent",
             \A r \in Runs : runPc'[r] \in {"record", "doubt"} =>
                 runPc'[r] = runPc[r] /\ cur'[r] = cur[r]
      PROVE  MailInv'
  BY <1>1
<1>2. ASSUME NEW a \in Admins, ChangeAdmin(a) PROVE MailInv'
  BY <1>2 DEF ChangeAdmin
<1>3. ASSUME NEW r \in Runs, BeginRun(r) \/ FindDelivery(r) \/ EndLoop(r)
      PROVE  MailInv'
  BY <1>1, <1>3 DEF BeginRun, FindDelivery, EndLoop
<1>4. ASSUME NEW r \in Runs, SendMail(r) PROVE MailInv'
  <2>1. cur[r] \in Admins /\ record' = record /\ cur' = cur
    BY <1>4 DEF SendMail
  <2>2. \A a \in Admins : mails'[a] >= mails[a] /\ mails'[a] \in Nat
    BY <1>4, <2>1 DEF SendMail
  <2>3. /\ \A q \in Runs \ {r} : runPc'[q] = runPc[q]
        /\ runPc'[r] = "record" => mails'[cur[r]] > 0
        /\ runPc'[r] # "doubt" /\ unsaid \subseteq unsaid'
    BY <1>4, <2>1 DEF SendMail
  <2> QED
    BY <2>1, <2>2, <2>3
<1>5. ASSUME NEW r \in Runs, RecordSent(r) PROVE MailInv'
  BY <1>5 DEF RecordSent, NextAdmin
<1>6. ASSUME NEW r \in Runs, RecordSentRaises(r) PROVE MailInv'
  <2>1. cur[r] \in Admins /\ mails[cur[r]] > 0
    BY <1>6 DEF RecordSentRaises, AtAdmin
  <2>2. \A a \in Admins : record'[a] = "sent" => record[a] = "sent" \/ a = cur[r]
    BY <1>6 DEF RecordSentRaises
  <2> QED
    BY <1>6, <2>1, <2>2 DEF RecordSentRaises
<1>7. ASSUME NEW r \in Runs, RecordFailed(r) PROVE MailInv'
  BY <1>7 DEF RecordFailed, FailedRecord, NextAdmin
<1>8. ASSUME NEW r \in Runs, Leave(r), mails' = mails, unsaid \subseteq unsaid',
             \A a \in Admins : record'[a] = "sent" => record[a] = "sent"
      PROVE  MailInv'
  BY <1>1, <1>8 DEF Leave
<1>8a. ASSUME NEW r \in Runs, RecordFailedRaises(r) \/ Answer(r) \/ KillRun(r)
       PROVE  MailInv'
  BY <1>8, <1>8a DEF RecordFailedRaises, FailedRecord, Answer, KillRun
<1>9. CASE UNCHANGED vars
  BY <1>9 DEF vars
<1> QED
  BY <1>2, <1>3, <1>4, <1>5, <1>6, <1>7, <1>8a, <1>9 DEF Next, RunStep

\* An admin who was not raced is at one run at most, and at none once the
\* record says sent.
LEMMA HeldStep ==
    ASSUME TypeOK, [Next]_vars, NEW a \in Admins,
           a \notin raced => HeldOnce(a), a \notin raced'
    PROVE  HeldOnce(a)'
<1> USE DEF TypeOK, obsVars, HeldOnce, AtAdmin
<1>0. a \notin raced
  BY DEF Next, RunStep, ChangeAdmin, BeginRun, FindDelivery, SendMail, RecordSent,
         RecordSentRaises, RecordFailed, RecordFailedRaises, EndLoop, Answer,
         KillRun, vars
<1>1. ASSUME record'[a] = "sent" => record[a] = "sent",
             \A r \in Runs : Holds(r, a)' => Holds(r, a),
             \A r \in Runs : Holds(r, a)' /\ InDoubt(r, a) => InDoubt(r, a)'
      PROVE  HeldOnce(a)'
  BY <1>0, <1>1
<1>2. ASSUME NEW r \in Runs, BeginRun(r) \/ EndLoop(r) PROVE HeldOnce(a)'
  BY <1>1, <1>2 DEF BeginRun, EndLoop, Holds, InDoubt
<1>3. ASSUME NEW r \in Runs, FindDelivery(r) PROVE HeldOnce(a)'
  <2>1. CASE UNCHANGED <<runPc, cur>>
    BY <1>1, <1>3, <2>1 DEF FindDelivery, Holds, InDoubt
  <2>2. ASSUME NEW b \in Admins,
               cur' = [cur EXCEPT ![r] = b], runPc' = [runPc EXCEPT ![r] = "send"],
               record' = record, ~Delivered(b),
               raced' = IF \E q \in Runs : Holds(q, b) THEN raced \cup {b} ELSE raced
        PROVE  HeldOnce(a)'
    <3>1. CASE b # a
      BY <1>1, <2>2, <3>1 DEF Holds, InDoubt
    <3>2. CASE b = a
      <4>1. \A q \in Runs : ~Holds(q, a)
        BY <2>2, <3>2
      <4> QED
        BY <2>2, <3>2, <4>1 DEF Holds, Delivered
    <3> QED
      BY <3>1, <3>2
  <2> QED
    BY <1>3, <2>1, <2>2 DEF FindDelivery
<1>4. ASSUME NEW r \in Runs, SendMail(r) PROVE HeldOnce(a)'
  BY <1>1, <1>4 DEF SendMail, Holds, InDoubt
<1>4a. ASSUME NEW r \in Runs, RecordSentRaises(r) PROVE HeldOnce(a)'
  <2>1. /\ runPc[r] = "record" /\ cur[r] \in Admins /\ cur' = cur
        /\ runPc' = [runPc EXCEPT ![r] = "doubt"]
        /\ record' \in {record, [record EXCEPT ![cur[r]] = "sent"]}
    BY <1>4a DEF RecordSentRaises
  <2>2. \A q \in Runs : Holds(q, a)' <=> Holds(q, a)
    BY <2>1 DEF Holds
  <2>3. CASE cur[r] # a
    BY <1>1, <2>1, <2>2, <2>3 DEF InDoubt
  <2>4. CASE cur[r] = a
    <3>1. Holds(r, a) /\ InDoubt(r, a)'
      BY <2>1, <2>4 DEF Holds, InDoubt
    <3> QED
      BY <1>0, <2>2, <3>1
  <2> QED
    BY <2>3, <2>4
<1>5. ASSUME NEW r \in Runs, RecordSent(r) \/ RecordFailed(r) PROVE HeldOnce(a)'
  <2>1. /\ runPc[r] \in AtAdmin /\ cur[r] \in Admins
        /\ runPc' = [runPc EXCEPT ![r] = "find"]
        /\ cur' = [cur EXCEPT ![r] = None]
        /\ \E s : record' = [record EXCEPT ![cur[r]] = s]
    BY <1>5 DEF RecordSent, RecordFailed, NextAdmin
  <2>2. CASE cur[r] # a
    BY <1>1, <2>1, <2>2 DEF Holds, InDoubt
  <2>3. CASE cur[r] = a
    BY <1>0, <2>1, <2>3 DEF Holds
  <2> QED
    BY <2>2, <2>3
<1>6. ASSUME NEW r \in Runs, RecordFailedRaises(r) \/ Answer(r) \/ KillRun(r)
      PROVE  HeldOnce(a)'
  <2>1. Leave(r) /\ (record'[a] = "sent" => record[a] = "sent")
    BY <1>6 DEF RecordFailedRaises, FailedRecord, Answer, KillRun
  <2> QED
    BY <1>1, <2>1 DEF Leave, Holds, InDoubt
<1>7. CASE UNCHANGED <<record, runPc, cur>>
  BY <1>1, <1>7 DEF Holds, InDoubt
<1> QED
  BY <1>2, <1>3, <1>4, <1>4a, <1>5, <1>6, <1>7 DEF Next, RunStep, ChangeAdmin, vars

\* A step that is not about the admin leaves the admin's mails alone.
LEMMA MailedFrame ==
    ASSUME TypeOK, NEW a \in Admins, MailedOnce(a),
           mails'[a] = mails[a], record'[a] = record[a],
           \A r \in Runs : Holds(r, a)' <=> Holds(r, a),
           \A r \in Runs : Holds(r, a) => runPc'[r] = runPc[r]
    PROVE  MailedOnce(a)'
BY DEF MailedOnce

\* As long as no two runs are at an admin together and every mail is recorded
\* by the run that sent it, the admin gets one mail.
LEMMA MailedStep ==
    ASSUME TypeOK, [Next]_vars, NEW a \in Admins,
           a \notin raced \cup unsaid => HeldOnce(a) /\ MailedOnce(a),
           \A r \in Runs : InDoubt(r, a) => a \in unsaid,
           a \notin (raced \cup unsaid)'
    PROVE  MailedOnce(a)'
<1> USE DEF TypeOK, obsVars, AtAdmin
<1>0. a \notin raced \cup unsaid
  BY DEF Next, RunStep, ChangeAdmin, BeginRun, FindDelivery, SendMail, RecordSent,
         RecordSentRaises, RecordFailed, RecordFailedRaises, EndLoop, Answer,
         KillRun, vars
<1>a. HeldOnce(a) /\ MailedOnce(a)
  BY <1>0
<1>b. \A r \in Runs : Holds(r, a) => runPc[r] # "doubt" /\ record[a] # "sent"
  BY <1>0, <1>a DEF Holds, InDoubt, HeldOnce
<1>1. CASE UNCHANGED <<runPc, cur, mails, record>>
  BY <1>1, <1>a, MailedFrame DEF Holds
<1>2. ASSUME NEW r \in Runs, BeginRun(r) \/ EndLoop(r) PROVE MailedOnce(a)'
  BY <1>2, <1>a, MailedFrame DEF BeginRun, EndLoop, Holds
<1>3. ASSUME NEW r \in Runs, FindDelivery(r) PROVE MailedOnce(a)'
  <2>1. CASE UNCHANGED <<runPc, cur>>
    BY <1>1, <1>3, <2>1 DEF FindDelivery
  <2>2. ASSUME NEW b \in Admins,
               runPc[r] = "find",
               cur' = [cur EXCEPT ![r] = b], runPc' = [runPc EXCEPT ![r] = "send"],
               UNCHANGED <<mails, record>>, ~Delivered(b),
               raced' = IF \E q \in Runs : Holds(q, b) THEN raced \cup {b} ELSE raced
        PROVE  MailedOnce(a)'
    <3>1. CASE b # a
      BY <1>a, <2>2, <3>1, MailedFrame DEF Holds
    <3>2. CASE b = a
      <4>1. \A q \in Runs : ~Holds(q, a)
        BY <2>2, <3>2
      <4>2. record[a] # "sent" /\ mails[a] = 0
        BY <1>a, <2>2, <3>2, <4>1 DEF Delivered, MailedOnce
      <4>3. \A q \in Runs : Holds(q, a)' <=> q = r
        BY <2>2, <3>2, <4>1 DEF Holds
      <4> QED
        BY <2>2, <4>2, <4>3 DEF HeldOnce, MailedOnce
    <3> QED
      BY <3>1, <3>2
  <2> QED
    BY <1>3, <2>1, <2>2 DEF FindDelivery
<1>4. ASSUME NEW r \in Runs, SendMail(r) PROVE MailedOnce(a)'
  <2>1. PICK mailed \in BOOLEAN, raised \in BOOLEAN :
           /\ mailed \/ raised
           /\ mails' = IF mailed THEN [mails EXCEPT ![cur[r]] = @ + 1] ELSE mails
           /\ unsaid' = IF mailed /\ raised THEN unsaid \cup {cur[r]} ELSE unsaid
           /\ runPc' = [runPc EXCEPT ![r] = IF raised THEN "fail" ELSE "record"]
    BY <1>4 DEF SendMail
  <2>2. runPc[r] = "send" /\ cur[r] \in Admins /\ cur' = cur /\ record' = record
    BY <1>4 DEF SendMail
  <2>3. CASE cur[r] # a
    <3>1. mails'[a] = mails[a]
      BY <2>1, <2>2, <2>3
    <3> QED
      BY <1>a, <2>1, <2>2, <2>3, <3>1, MailedFrame DEF Holds
  <2>4. CASE cur[r] = a
    <3>1. Holds(r, a) /\ mails[a] = 0 /\ record[a] # "sent"
      BY <1>a, <1>b, <2>2, <2>4 DEF Holds, MailedOnce
    <3>2. \A q \in Runs : Holds(q, a)' <=> q = r
      BY <1>a, <2>1, <2>2, <2>4, <3>1 DEF Holds, HeldOnce, MailedOnce
    <3>3. CASE raised
      <4>1. ~mailed
        BY <2>1, <2>4, <3>3
      <4>2. mails'[a] = 0 /\ runPc'[r] = "fail"
        BY <2>1, <3>1, <3>3, <4>1
      <4> QED
        BY <2>2, <3>1, <3>2, <4>2 DEF HeldOnce, MailedOnce
    <3>4. CASE ~raised
      <4>1. mails'[a] = 1 /\ runPc'[r] = "record"
        BY <2>1, <2>4, <3>1, <3>4
      <4> QED
        BY <2>2, <3>1, <3>2, <4>1 DEF HeldOnce, MailedOnce
    <3> QED
      BY <3>3, <3>4
  <2> QED
    BY <2>3, <2>4
<1>5. ASSUME NEW r \in Runs, RecordSent(r) \/ RecordFailed(r) PROVE MailedOnce(a)'
  <2>1. /\ runPc[r] \in {"record", "fail", "doubt"} /\ cur[r] \in Admins /\ mails' = mails
        /\ runPc' = [runPc EXCEPT ![r] = "find"]
        /\ cur' = [cur EXCEPT ![r] = None]
        /\ record' = [record EXCEPT ![cur[r]] =
                        IF runPc[r] = "record" THEN "sent" ELSE "failed"]
    BY <1>5 DEF RecordSent, RecordFailed, NextAdmin, FailedRecord
  <2>2. CASE cur[r] # a
    BY <1>a, <2>1, <2>2, MailedFrame DEF Holds
  <2>3. CASE cur[r] = a
    <3>1. Holds(r, a)
      BY <2>1, <2>3 DEF Holds
    <3>2. \A q \in Runs : ~Holds(q, a)'
      BY <1>a, <2>1, <3>1 DEF Holds, HeldOnce, MailedOnce
    <3>3. mails[a] = 1 => runPc[r] = "record"
      BY <1>a, <3>1 DEF HeldOnce, MailedOnce
    <3> QED
      BY <1>a, <2>1, <2>3, <3>2, <3>3 DEF HeldOnce, MailedOnce
  <2> QED
    BY <2>2, <2>3
<1>6. ASSUME NEW r \in Runs, RecordSentRaises(r) PROVE MailedOnce(a)'
  <2>1. cur[r] # a
    BY <1>6 DEF RecordSentRaises
  <2>2. record'[a] = record[a]
    BY <1>6, <2>1 DEF RecordSentRaises
  <2> QED
    BY <1>6, <1>a, <2>1, <2>2, MailedFrame DEF RecordSentRaises, Holds
<1>7. ASSUME NEW r \in Runs, Leave(r), mails' = mails,
             record'[a] # record[a] => record[a] # "sent" /\ record'[a] # "sent",
             cur[r] = a => runPc[r] # "record"
      PROVE  MailedOnce(a)'
  <2>1. \A q \in Runs : Holds(q, a)' <=> q # r /\ Holds(q, a)
    BY <1>7 DEF Leave, Holds
  <2>2. \A q \in Runs \ {r} : runPc'[q] = runPc[q]
    BY <1>7 DEF Leave
  <2>3. \A q \in Runs : Holds(q, a) /\ runPc[q] = "record" => q # r
    BY <1>7 DEF Holds
  <2> QED
    BY <1>a, <1>7, <2>1, <2>2, <2>3 DEF HeldOnce, MailedOnce
<1>8. ASSUME NEW r \in Runs, RecordFailedRaises(r) \/ Answer(r) \/ KillRun(r)
      PROVE  MailedOnce(a)'
  <2>1. CASE RecordFailedRaises(r)
    <3>1. /\ Leave(r) /\ mails' = mails /\ runPc[r] # "record"
          /\ cur[r] # a => record'[a] = record[a]
          /\ cur[r] = a => record'[a] \in {record[a], "failed"}
      BY <2>1 DEF RecordFailedRaises, FailedRecord
    <3>2. cur[r] = a => record[a] # "sent"
      BY <1>b, <2>1 DEF RecordFailedRaises, Holds
    <3> QED
      BY <1>7, <3>1, <3>2
  <2>2. CASE Answer(r) \/ KillRun(r)
    BY <1>7, <2>2 DEF Answer, KillRun
  <2> QED
    BY <1>8, <2>1, <2>2
<1> QED
  BY <1>1, <1>2, <1>3, <1>4, <1>5, <1>6, <1>8
  DEF Next, RunStep, ChangeAdmin, vars

\* The inductive invariant holds.
THEOREM ReportInvariant == Spec => []ReportInv
<1>1. Init => ReportInv
  BY DailyReportAssumption
  DEF Init, ReportInv, SentRecordIsTrue, Holds, AtAdmin
<1>2. TypeOK /\ ReportInv /\ [Next]_vars => ReportInv'
  <2> SUFFICES ASSUME TypeOK, ReportInv, [Next]_vars PROVE ReportInv'
    OBVIOUS
  <2>1. MailInv'
    BY MailStep, ReportInvParts
  <2>2. ASSUME NEW a \in Admins, a \notin raced' PROVE HeldOnce(a)'
    BY <2>2, HeldStep, ReportInvParts
  <2>3. ASSUME NEW a \in Admins, a \notin (raced \cup unsaid)' PROVE MailedOnce(a)'
    <3>1. \A r \in Runs : InDoubt(r, a) => a \in unsaid
      BY DEF ReportInv, InDoubt
    <3> QED
      BY <2>3, <3>1, MailedStep, ReportInvParts
  <2> QED
    BY <2>1, <2>2, <2>3 DEF ReportInv, MailInv, HeldOnce, MailedOnce
<1> QED
  BY <1>1, <1>2, TypeCorrect, PTL DEF Spec

\* An admin gets a second report of a date only if two runs were at the admin
\* together or a run that mailed did not come to record it: for any number of
\* admins and runs.
THEOREM OneMailUnlessRace == Spec => []ResendNeedsRaceOrLoss
<1>1. TypeOK /\ ReportInv => ResendNeedsRaceOrLoss
  BY DEF TypeOK, ReportInv, ResendNeedsRaceOrLoss
<1> QED
  BY <1>1, TypeCorrect, ReportInvariant, PTL

\* A record of a sent report is only replaced when two runs were at the admin
\* together or by the run whose update wrote it and raised: the lookup protects it
\* from every later run, for any number of admins, runs, kills and failures.
THEOREM SentRecordFinal == Spec => SentRecordStays
<1> DEFINE Replaced(a) == a \in raced \/ \E r \in Runs : InDoubt(r, a)
<1>1. TypeOK /\ ReportInv /\ [Next]_vars =>
         [\A a \in Admins :
             record[a] = "sent" /\ record'[a] # "sent" => Replaced(a)]_vars
  <2> SUFFICES ASSUME TypeOK, ReportInv, [Next]_vars, NEW a \in Admins,
                      record[a] = "sent", record'[a] # "sent"
               PROVE  Replaced(a)
    BY DEF vars
  <2>1. PICK r \in Runs : RecordFailed(r) \/ RecordFailedRaises(r)
    BY DEF Next, RunStep, ChangeAdmin, BeginRun, FindDelivery, SendMail, RecordSent,
           RecordSentRaises, EndLoop, Answer, KillRun, vars, TypeOK
  <2>2. cur[r] = a /\ runPc[r] \in {"fail", "doubt"}
    BY <2>1 DEF RecordFailed, RecordFailedRaises, TypeOK
  <2>3. Holds(r, a)
    BY <2>2 DEF Holds, AtAdmin
  <2> QED
    BY <2>3 DEF ReportInv
<1> QED
  BY <1>1, TypeCorrect, ReportInvariant, PTL DEF Spec, SentRecordStays

-----------------------------------------------------------------------------
\* An admin a run has come to has a record, or the run is still at the admin.
FoundInv ==
    \A r \in Runs :
        /\ runPc[r] # "idle" =>
              \A a \in found[r] \ todo[r] : record[a] # "none" \/ Holds(r, a)
        /\ runPc[r] = "answer" => todo[r] = {}

LEMMA FoundStep ==
    ASSUME TypeOK, FoundInv, [Next]_vars
    PROVE  FoundInv'
<1> USE DEF TypeOK, FoundInv, obsVars, AtAdmin
<1>0. \A a \in Admins : record[a] # "none" => record'[a] # "none"
  BY DEF Next, RunStep, ChangeAdmin, BeginRun, FindDelivery, SendMail, RecordSent,
         RecordSentRaises, RecordFailed, FailedRecord, RecordFailedRaises, EndLoop, Answer,
         Leave, KillRun, vars
<1>1. ASSUME NEW r \in Runs,
             \A q \in Runs \ {r} : runPc'[q] = runPc[q] /\ found'[q] = found[q]
                                     /\ todo'[q] = todo[q] /\ cur'[q] = cur[q],
             runPc'[r] # "idle" =>
                 \A a \in found'[r] \ todo'[r] : record'[a] # "none" \/ Holds(r, a)',
             runPc'[r] = "answer" => todo'[r] = {}
      PROVE  FoundInv'
  BY <1>0, <1>1 DEF Holds
<1>2. CASE UNCHANGED <<runPc, found, todo, cur, record>>
  BY <1>2 DEF Holds
<1>3. ASSUME NEW r \in Runs, BeginRun(r) PROVE FoundInv'
  BY <1>1, <1>3 DEF BeginRun
<1>4. ASSUME NEW r \in Runs, FindDelivery(r) PROVE FoundInv'
  BY <1>1, <1>4 DEF FindDelivery, Delivered, Holds
<1>5. ASSUME NEW r \in Runs, SendMail(r) \/ RecordSentRaises(r) PROVE FoundInv'
  <2>1. \E pc \in {"record", "fail", "doubt"} :
           /\ runPc[r] \in {"send", "record"} /\ runPc' = [runPc EXCEPT ![r] = pc]
           /\ UNCHANGED <<found, todo, cur>>
    BY <1>5 DEF SendMail, RecordSentRaises
  <2> QED
    BY <1>0, <1>1, <2>1 DEF Holds
<1>6. ASSUME NEW r \in Runs, RecordSent(r) \/ RecordFailed(r) PROVE FoundInv'
  <2>1. /\ runPc[r] \in AtAdmin /\ cur[r] \in Admins /\ record'[cur[r]] # "none"
        /\ runPc' = [runPc EXCEPT ![r] = "find"] /\ cur' = [cur EXCEPT ![r] = None]
        /\ UNCHANGED <<found, todo>>
    BY <1>6 DEF RecordSent, RecordFailed, FailedRecord, NextAdmin
  <2>2. \A a \in found[r] \ todo[r] : record'[a] # "none"
    BY <1>0, <2>1 DEF Holds
  <2> QED
    BY <1>1, <2>1, <2>2
<1>7. ASSUME NEW r \in Runs, EndLoop(r) PROVE FoundInv'
  BY <1>1, <1>7 DEF EndLoop, Holds
<1>8. ASSUME NEW r \in Runs, Leave(r) PROVE FoundInv'
  BY <1>1, <1>8 DEF Leave
<1> QED
  BY <1>2, <1>3, <1>4, <1>5, <1>6, <1>7, <1>8
  DEF Next, RunStep, ChangeAdmin, RecordFailedRaises, Answer, KillRun, vars

\* A run that answers has a record, sent or failed, of every admin it read, for
\* any number of admins, runs, raising calls and failing updates.
THEOREM AllFoundRecorded == Spec => []FoundIsRecorded
<1>1. Init => FoundInv
  BY DEF Init, FoundInv
<1>2. TypeOK /\ FoundInv => FoundIsRecorded
  BY DEF TypeOK, FoundInv, FoundIsRecorded, Holds, AtAdmin
<1> QED
  BY <1>1, <1>2, FoundStep, TypeCorrect, PTL DEF Spec

-----------------------------------------------------------------------------
\* Only the admins of one run change when the others stay where they are.
LEMMA OneRunMoves ==
    ASSUME NEW r \in Runs, NEW S, AdminsAt'[r] = S,
           \A q \in Runs \ {r} : runPc'[q] = runPc[q] /\ cur'[q] = cur[q]
    PROVE  AdminsAt' = [AdminsAt EXCEPT ![r] = S]
BY DEF AdminsAt, Holds

\* A run is at its current admin while it mails and records, and at none else.
LEMMA AtCurrent ==
    ASSUME TypeOK, NEW r \in Runs
    PROVE  /\ runPc[r] \in AtAdmin => AdminsAt[r] = {cur[r]}
           /\ runPc[r] \notin AtAdmin => AdminsAt[r] = {}
BY DEF TypeOK, AdminsAt, Holds

LEMMA AtNone ==
    ASSUME NEW r \in Runs, runPc'[r] \in {"idle", "find", "answer"}
    PROVE  AdminsAt'[r] = {}
BY DEF AdminsAt, Holds, AtAdmin

\* What the abstract promise asks of a run before it mails, and of one that
\* ends without a sent record.
LEMMA MayMail ==
    ASSUME TypeOK, ReportInv, NEW r \in Runs, runPc[r] \in {"send", "fail", "doubt"}
    PROVE  Reports!MayAct(r, cur[r])
<1>1. cur[r] \in Admins /\ Holds(r, cur[r])
  BY DEF TypeOK, Holds, AtAdmin
<1>2. cur[r] \notin raced \cup unsaid => mails[cur[r]] = 0
  BY <1>1 DEF ReportInv
<1> QED
  BY <1>1, <1>2 DEF Reports!MayAct, AdminsAt

\* The mail is the act; a call that raises although the mail went out excuses
\* the next one.
LEMMA MailRefines ==
    ASSUME TypeOK, ReportInv, NEW r \in Runs, SendMail(r)
    PROVE  Reports!Act(r, cur[r]) \/ UNCHANGED Reports!vars
<1>1. PICK mailed \in BOOLEAN, raised \in BOOLEAN :
         /\ mailed \/ raised
         /\ mails' = IF mailed THEN [mails EXCEPT ![cur[r]] = @ + 1] ELSE mails
         /\ unsaid' = IF mailed /\ raised THEN unsaid \cup {cur[r]} ELSE unsaid
         /\ runPc' = [runPc EXCEPT ![r] = IF raised THEN "fail" ELSE "record"]
  BY DEF SendMail
<1>2. runPc[r] = "send" /\ cur' = cur /\ record' = record /\ raced' = raced
  BY DEF SendMail
<1>3. AdminsAt' = AdminsAt
  BY <1>1, <1>2 DEF TypeOK, AdminsAt, Holds, AtAdmin
<1>4. Unsent' = Unsent
  BY <1>2 DEF Unsent
<1>5. CASE mailed
  <2>1. mails' = [mails EXCEPT ![cur[r]] = @ + 1]
    BY <1>1, <1>5
  <2>2. (raced \cup unsaid)' \in {raced \cup unsaid, (raced \cup unsaid) \cup {cur[r]}}
    BY <1>1, <1>2
  <2> QED
    BY <1>2, <1>3, <1>4, <2>1, <2>2, MayMail DEF Reports!Act
<1>6. CASE ~mailed
  BY <1>1, <1>2, <1>3, <1>4, <1>6 DEF Reports!vars
<1> QED
  BY <1>5, <1>6

\* A sent record closes the admin; a failed one leaves the admin open, and
\* opens an admin again only after a race or in doubt.
LEMMA RecordRefines ==
    ASSUME TypeOK, ReportInv, NEW r \in Runs, RecordSent(r) \/ RecordFailed(r)
    PROVE  Reports!Settle(r, cur[r])
<1>1. /\ runPc[r] \in AtAdmin /\ cur[r] \in Admins
      /\ runPc' = [runPc EXCEPT ![r] = "find"]
      /\ cur' = [cur EXCEPT ![r] = None]
      /\ UNCHANGED <<mails, raced, unsaid>>
  BY DEF RecordSent, RecordFailed, NextAdmin, obsVars, TypeOK, AtAdmin
<1>2. AdminsAt[r] = {cur[r]}
  BY <1>1, AtCurrent
<1>3. AdminsAt'[r] = AdminsAt[r] \ {cur[r]}
  BY <1>1, <1>2, AtNone DEF TypeOK
<1>4. AdminsAt' = [AdminsAt EXCEPT ![r] = @ \ {cur[r]}]
  BY <1>1, <1>3, OneRunMoves DEF TypeOK
<1>5. \/ Unsent' = Unsent \ {cur[r]}
      \/ Unsent' = Unsent /\ Reports!MayAct(r, cur[r])
      \/ Unsent' = Unsent \cup {cur[r]} /\ cur[r] \in raced \cup unsaid
  <2>1. CASE RecordSent(r)
    BY <1>1, <2>1 DEF RecordSent, Unsent, TypeOK
  <2>2. CASE RecordFailed(r) /\ record[cur[r]] # "sent"
    <3>1. Unsent' = Unsent
      BY <1>1, <2>2 DEF RecordFailed, FailedRecord, Unsent, TypeOK
    <3> QED
      BY <2>2, <3>1, MayMail DEF RecordFailed
  <2>3. CASE RecordFailed(r) /\ record[cur[r]] = "sent"
    <3>1. Unsent' = Unsent \cup {cur[r]}
      BY <1>1, <2>3 DEF RecordFailed, FailedRecord, Unsent, TypeOK
    <3>2. cur[r] \in raced \cup unsaid
      BY <1>1, <2>3 DEF ReportInv, Holds, InDoubt, AtAdmin, RecordFailed
    <3> QED
      BY <3>1, <3>2
  <2> QED
    BY <2>1, <2>2, <2>3
<1> QED
  BY <1>1, <1>2, <1>4, <1>5 DEF Reports!Settle

\* A run that ends at an admin it mailed and did not record excuses a second
\* mail; every other end leaves nothing behind.
LEMMA EndRefines ==
    ASSUME TypeOK, ReportInv, NEW r \in Runs, Answer(r) \/ KillRun(r)
    PROVE  Reports!Leave(r)
<1>1. /\ Leave(r)
      /\ UNCHANGED <<record, mails, raced>>
      /\ \/ unsaid' = unsaid /\ runPc[r] # "record"
         \/ unsaid' = unsaid \cup {cur[r]} /\ runPc[r] = "record"
  BY DEF Answer, KillRun, obsVars
<1>2. AdminsAt'[r] = {} /\ Unsent' = Unsent
  BY <1>1, AtNone DEF Leave, Unsent, TypeOK
<1>3. AdminsAt' = [AdminsAt EXCEPT ![r] = {}]
  BY <1>1, <1>2, OneRunMoves DEF Leave
<1>4. {} \in SUBSET AdminsAt[r] /\ Unsent' = Unsent \cup {}
  BY <1>2
<1>5. CASE unsaid' = unsaid \cup {cur[r]} /\ runPc[r] = "record"
  <2>1. AdminsAt[r] = {cur[r]}
    BY <1>5, AtCurrent DEF AtAdmin
  <2>2. (raced \cup unsaid)' = (raced \cup unsaid) \cup {cur[r]}
    BY <1>1, <1>5
  <2> QED
    BY <1>1, <1>3, <1>4, <2>1, <2>2 DEF Reports!Leave
<1>6. CASE unsaid' = unsaid /\ runPc[r] # "record"
  <2>1. (raced \cup unsaid)' = (raced \cup unsaid) \cup {}
    BY <1>1, <1>6
  <2>2. \A a \in AdminsAt[r] : mails[a] = 0 \/ a \in (raced \cup unsaid)'
    BY <1>6, <2>1 DEF AdminsAt, ReportInv
  <2> QED
    BY <1>1, <1>3, <1>4, <2>1, <2>2 DEF Reports!Leave
<1> QED
  BY <1>1, <1>5, <1>6

\* A run that ends because the failed record raised leaves the admin open, or,
\* if that record took effect, opens an admin it raced or was in doubt about.
LEMMA FailRefines ==
    ASSUME TypeOK, ReportInv, NEW r \in Runs, RecordFailedRaises(r)
    PROVE  Reports!Leave(r)
<1>1. /\ Leave(r) /\ runPc[r] \in {"fail", "doubt"} /\ cur[r] \in Admins
      /\ UNCHANGED <<mails, raced, unsaid>>
      /\ record' \in {record, [record EXCEPT ![cur[r]] = "failed"]}
  BY DEF RecordFailedRaises, FailedRecord, obsVars, TypeOK, AtAdmin
<1>2. AdminsAt'[r] = {} /\ AdminsAt[r] = {cur[r]}
  BY <1>1, AtNone, AtCurrent DEF Leave, TypeOK, AtAdmin
<1>3. AdminsAt' = [AdminsAt EXCEPT ![r] = {}]
  BY <1>1, <1>2, OneRunMoves DEF Leave
<1>4. (raced \cup unsaid)' = (raced \cup unsaid) \cup {}
  BY <1>1
<1>5. \A a \in AdminsAt[r] : mails[a] = 0 \/ a \in (raced \cup unsaid)'
  BY <1>1, <1>2, <1>4, MayMail DEF Reports!MayAct
<1>6. \E S \in SUBSET AdminsAt[r] :
         S \subseteq (raced \cup unsaid)' /\ Unsent' = Unsent \cup S
  <2>1. CASE record' = record \/ record[cur[r]] # "sent"
    <3>1. Unsent' = Unsent \cup {}
      BY <1>1, <2>1 DEF Unsent, TypeOK
    <3> QED
      BY <3>1
  <2>2. CASE record' # record /\ record[cur[r]] = "sent"
    <3>1. Unsent' = Unsent \cup {cur[r]}
      BY <1>1, <2>2 DEF Unsent, TypeOK
    <3>2. cur[r] \in raced \cup unsaid
      BY <1>1, <2>2 DEF ReportInv, Holds, InDoubt, AtAdmin
    <3> QED
      BY <1>2, <1>4, <3>1, <3>2
  <2> QED
    BY <2>1, <2>2
<1> QED
  BY <1>1, <1>3, <1>4, <1>5, <1>6 DEF Reports!Leave

\* The lookup skips an admin, or takes one whose record does not say sent.
LEMMA FindRefines ==
    ASSUME TypeOK, NEW r \in Runs, FindDelivery(r)
    PROVE  (\E S \in SUBSET Admins : Reports!Take(r, S)) \/ UNCHANGED Reports!vars
<1>1. runPc[r] = "find" /\ UNCHANGED <<record, mails, unsaid>>
  BY DEF FindDelivery
<1>2. AdminsAt[r] = {} /\ Unsent' = Unsent
  BY <1>1, AtCurrent DEF Unsent, AtAdmin
<1>3. CASE UNCHANGED <<runPc, cur, raced>>
  BY <1>1, <1>2, <1>3 DEF Reports!vars, AdminsAt, Holds
<1>4. ASSUME NEW a \in Admins, ~Delivered(a),
             cur' = [cur EXCEPT ![r] = a], runPc' = [runPc EXCEPT ![r] = "send"],
             raced' = IF \E q \in Runs : Holds(q, a) THEN raced \cup {a} ELSE raced
      PROVE  Reports!Take(r, {a})
  <2>1. AdminsAt'[r] = {a}
    BY <1>4 DEF AdminsAt, Holds, TypeOK, AtAdmin
  <2>2. AdminsAt' = [AdminsAt EXCEPT ![r] = {a}]
    BY <1>4, <2>1, OneRunMoves DEF TypeOK
  <2>3. a \in Unsent
    BY <1>4 DEF Unsent, Delivered
  <2>4. (\E q \in Runs : Holds(q, a)) <=> (\E q \in Runs : a \in AdminsAt[q])
    BY DEF AdminsAt
  <2>5. (raced \cup unsaid)' = (raced \cup unsaid)
                                  \cup {i \in {a} : \E q \in Runs : i \in AdminsAt[q]}
    BY <1>1, <1>4, <2>4
  <2> QED
    BY <1>1, <1>2, <2>2, <2>3, <2>5 DEF Reports!Take
<1>5. PICK a \in todo[r] :
         \/ UNCHANGED <<runPc, cur, raced>>
         \/ /\ ~Delivered(a)
            /\ cur' = [cur EXCEPT ![r] = a]
            /\ runPc' = [runPc EXCEPT ![r] = "send"]
            /\ raced' = IF \E q \in Runs : Holds(q, a) THEN raced \cup {a} ELSE raced
  BY DEF FindDelivery
<1>6. a \in Admins /\ {a} \in SUBSET Admins
  BY DEF TypeOK
<1> QED
  BY <1>3, <1>4, <1>5, <1>6

\* Every step of the report is a step of CheckThenAct or leaves it alone.
LEMMA RefineStep ==
    ASSUME TypeOK, ReportInv, [Next]_vars
    PROVE  [Reports!Next]_(Reports!vars)
<1>1. ASSUME NEW r \in Runs, FindDelivery(r) PROVE [Reports!Next]_(Reports!vars)
  BY <1>1, FindRefines DEF Reports!Next
<1>2. ASSUME NEW r \in Runs, SendMail(r) PROVE [Reports!Next]_(Reports!vars)
  <2>1. cur[r] \in Admins
    BY <1>2 DEF SendMail, TypeOK, AtAdmin
  <2> QED
    BY <1>2, <2>1, MailRefines DEF Reports!Next
<1>3. ASSUME NEW r \in Runs, RecordSent(r) \/ RecordFailed(r)
      PROVE  [Reports!Next]_(Reports!vars)
  <2>1. cur[r] \in Admins
    BY <1>3 DEF RecordSent, RecordFailed, TypeOK, AtAdmin
  <2> QED
    BY <1>3, <2>1, RecordRefines DEF Reports!Next
<1>4. ASSUME NEW r \in Runs, RecordSentRaises(r) PROVE [Reports!Next]_(Reports!vars)
  <2>1. /\ runPc[r] = "record" /\ cur[r] \in Admins /\ cur' = cur
        /\ runPc' = [runPc EXCEPT ![r] = "doubt"]
        /\ record' \in {record, [record EXCEPT ![cur[r]] = "sent"]}
        /\ UNCHANGED <<mails, raced>> /\ unsaid' = unsaid \cup {cur[r]}
    BY <1>4 DEF RecordSentRaises, TypeOK, AtAdmin
  <2>2. AdminsAt' = AdminsAt
    BY <2>1 DEF AdminsAt, Holds, TypeOK, AtAdmin
  <2>3. Unsent' \in {Unsent, Unsent \ {cur[r]}}
    BY <2>1 DEF Unsent, TypeOK
  <2>4. cur[r] \in AdminsAt[r]
    BY <2>1, AtCurrent DEF AtAdmin
  <2>5. (raced \cup unsaid)' = (raced \cup unsaid) \cup {cur[r]}
    BY <2>1
  <2>6. Reports!Doubt(r, cur[r])
    BY <2>1, <2>2, <2>3, <2>4, <2>5 DEF Reports!Doubt
  <2> QED
    BY <2>1, <2>6 DEF Reports!Next
<1>5. ASSUME NEW r \in Runs, RecordFailedRaises(r) \/ Answer(r) \/ KillRun(r)
      PROVE  [Reports!Next]_(Reports!vars)
  BY <1>5, EndRefines, FailRefines DEF Reports!Next
<1>6. ASSUME NEW r \in Runs, BeginRun(r) \/ EndLoop(r)
      PROVE  UNCHANGED Reports!vars
  <2>1. runPc[r] \in {"idle", "find"} /\ runPc'[r] \in {"find", "answer"}
        /\ \A q \in Runs \ {r} : runPc'[q] = runPc[q]
    BY <1>6 DEF BeginRun, EndLoop, TypeOK
  <2>2. UNCHANGED <<record, cur, mails, raced, unsaid>>
    BY <1>6 DEF BeginRun, EndLoop, obsVars
  <2> QED
    BY <2>1, <2>2 DEF Reports!vars, AdminsAt, Holds, Unsent, AtAdmin
<1>7. CASE \/ \E a \in Admins : ChangeAdmin(a)
           \/ UNCHANGED vars
  <2>1. UNCHANGED <<record, runPc, cur, mails, raced, unsaid>>
    BY <1>7 DEF ChangeAdmin, vars, obsVars
  <2> QED
    BY <2>1 DEF Reports!vars, AdminsAt, Holds, Unsent
<1> QED
  BY <1>1, <1>2, <1>3, <1>4, <1>5, <1>6, <1>7 DEF Next, RunStep

\* The report implements CheckThenAct, for any number of admins and runs: a run
\* takes only admins without a sent record, every second mail is to an admin
\* whom two runs were at or whose mail a run did not come to record, and only
\* those have a sent record opened again.
THEOREM Refinement == Spec => ImplementsCheckThenAct
<1>1. Init => Reports!Init
  BY DEF Init, Reports!Init, Unsent, AdminsAt, Holds, AtAdmin
<1> QED
  BY <1>1, RefineStep, TypeCorrect, ReportInvariant, PTL
  DEF Spec, ImplementsCheckThenAct, Reports!Spec

=============================================================================

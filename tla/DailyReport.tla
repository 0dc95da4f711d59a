---------------------------- MODULE DailyReport -----------------------------
(***************************************************************************)
(* send_rrl_daily_report: one report date of the RRL organisation. A run   *)
(* reads the admins, and for each of them looks for a delivery that was    *)
(* sent, mails the report and records the delivery as sent or failed.      *)
(* Runs come from the scheduled job and from admins, may overlap, and may  *)
(* be killed between any two awaits.                                       *)
(***************************************************************************)
EXTENDS Naturals

CONSTANTS
    Admins,    \* documents of db.users that may be RRL admins with an e-mail
    Runs,      \* executions of send_rrl_daily_report that may exist at once
    MaxStarts, \* bound: runs for the date
    MaxKills,  \* bound: killed runs
    MaxFaults, \* bound: database updates that raise
    None

ASSUME DailyReportAssumption ==
    /\ MaxStarts \in Nat
    /\ MaxKills \in Nat
    /\ MaxFaults \in Nat
    /\ None \notin Admins

VARIABLES
    active,   \* admins that are active now
    record,   \* status in db.rrl_daily_report_deliveries, per admin
    runPc,    \* where each run stands
    found,    \* the admins it read
    todo,     \* those it has still to come to
    cur,      \* the admin it is at
    starts, kills, faults,
    mails,    \* reports mailed to each admin (observation)
    unsaid,   \* admins mailed by a run that did not record it as sent (observation)
    raced     \* admins two runs were at together (observation)

obsVars == <<mails, unsaid, raced>>
vars == <<active, record, runPc, found, todo, cur, starts, kills, faults,
          mails, unsaid, raced>>

\* none is no document; the unique index allows one per admin and date.
RecordStatus == {"none", "sent", "failed"}

-----------------------------------------------------------------------------
\* A user is made or stops being an active admin with an e-mail address.
ChangeAdmin(a) ==
    /\ active' = IF a \in active THEN active \ {a} ELSE active \cup {a}
    /\ UNCHANGED <<record, runPc, found, todo, cur, starts, kills, faults, obsVars>>

\* The scheduled request or an admin's; without admins it returns at once.
BeginRun(r) ==
    /\ runPc[r] = "idle"
    /\ starts < MaxStarts
    /\ active # {}
    /\ starts' = starts + 1
    /\ runPc' = [runPc EXCEPT ![r] = "find"]
    /\ found' = [found EXCEPT ![r] = active]
    /\ todo' = [todo EXCEPT ![r] = active]
    /\ UNCHANGED <<active, record, cur, kills, faults, obsVars>>

\* mutant: no lookup.
DeliveredNever(a) == FALSE

\* The lookup of the run.
Delivered(a) == record[a] = "sent"

\* What a run does at an admin: mail, record it as sent, or as failed after the
\* mail raised or, in doubt whether it is recorded as sent, after that update did.
AtAdmin == {"send", "record", "fail", "doubt"}

Holds(r, a) == cur[r] = a /\ runPc[r] \in AtAdmin

InDoubt(r, a) == cur[r] = a /\ runPc[r] = "doubt"

\* The next admin is skipped, or the run goes on to mail.
FindDelivery(r) ==
    /\ runPc[r] = "find"
    /\ \E a \in todo[r] :
          /\ todo' = [todo EXCEPT ![r] = @ \ {a}]
          /\ \/ /\ Delivered(a)
                /\ UNCHANGED <<runPc, cur, raced>>
             \/ /\ ~Delivered(a)
                /\ cur' = [cur EXCEPT ![r] = a]
                /\ runPc' = [runPc EXCEPT ![r] = "send"]
                /\ raced' = IF \E q \in Runs : Holds(q, a) THEN raced \cup {a} ELSE raced
    /\ UNCHANGED <<active, record, found, starts, kills, faults, mails, unsaid>>

\* resend.Emails.send: the report is mailed, or it is not, or it is although
\* the call raises.
SendMail(r) ==
    /\ runPc[r] = "send"
    /\ \E mailed \in BOOLEAN, raised \in BOOLEAN :
          /\ mailed \/ raised
          /\ mails' = IF mailed THEN [mails EXCEPT ![cur[r]] = @ + 1] ELSE mails
          /\ unsaid' = IF mailed /\ raised THEN unsaid \cup {cur[r]} ELSE unsaid
          /\ runPc' = [runPc EXCEPT ![r] = IF raised THEN "fail" ELSE "record"]
    /\ UNCHANGED <<active, record, found, todo, cur, starts, kills, faults, raced>>

NextAdmin(r) ==
    /\ runPc' = [runPc EXCEPT ![r] = "find"]
    /\ cur' = [cur EXCEPT ![r] = None]
    /\ UNCHANGED <<found, todo>>

RecordSent(r) ==
    /\ runPc[r] = "record"
    /\ record' = [record EXCEPT ![cur[r]] = "sent"]
    /\ NextAdmin(r)
    /\ UNCHANGED <<active, starts, kills, faults, obsVars>>

\* The update raises, inside the try of the e-mail; it took effect or it did not.
RecordSentRaises(r) ==
    /\ runPc[r] = "record"
    /\ faults < MaxFaults
    /\ faults' = faults + 1
    /\ record' \in {record, [record EXCEPT ![cur[r]] = "sent"]}
    /\ unsaid' = unsaid \cup {cur[r]}
    /\ runPc' = [runPc EXCEPT ![r] = "doubt"]
    /\ UNCHANGED <<active, found, todo, cur, starts, kills, mails, raced>>

\* mutant: a failure is recorded with a status of its own.
FailedRecordError(a) == "error"

\* mutant: a failure is not recorded.
FailedRecordNone(a) == record[a]

FailedRecord(a) == "failed"

RecordFailed(r) ==
    /\ runPc[r] \in {"fail", "doubt"}
    /\ record' = [record EXCEPT ![cur[r]] = FailedRecord(cur[r])]
    /\ NextAdmin(r)
    /\ UNCHANGED <<active, starts, kills, faults, obsVars>>

Leave(r) ==
    /\ runPc' = [runPc EXCEPT ![r] = "idle"]
    /\ found' = [found EXCEPT ![r] = {}]
    /\ todo' = [todo EXCEPT ![r] = {}]
    /\ cur' = [cur EXCEPT ![r] = None]

\* The update in the except branch raises out of the loop, whether or not it
\* took effect; the admins still to come are left out.
RecordFailedRaises(r) ==
    /\ runPc[r] \in {"fail", "doubt"}
    /\ faults < MaxFaults
    /\ faults' = faults + 1
    /\ record' \in {record, [record EXCEPT ![cur[r]] = FailedRecord(cur[r])]}
    /\ Leave(r)
    /\ UNCHANGED <<active, starts, kills, obsVars>>

\* The loop is over, and the answer is given.
EndLoop(r) ==
    /\ runPc[r] = "find"
    /\ todo[r] = {}
    /\ runPc' = [runPc EXCEPT ![r] = "answer"]
    /\ UNCHANGED <<active, record, found, todo, cur, starts, kills, faults, obsVars>>

Answer(r) ==
    /\ runPc[r] = "answer"
    /\ Leave(r)
    /\ UNCHANGED <<active, record, starts, kills, faults, obsVars>>

KillRun(r) ==
    /\ runPc[r] # "idle"
    /\ kills < MaxKills
    /\ kills' = kills + 1
    /\ unsaid' = IF runPc[r] = "record" THEN unsaid \cup {cur[r]} ELSE unsaid
    /\ Leave(r)
    /\ UNCHANGED <<active, record, starts, faults, mails, raced>>

-----------------------------------------------------------------------------
Init ==
    /\ active \in SUBSET Admins
    /\ record = [a \in Admins |-> "none"]
    /\ runPc = [r \in Runs |-> "idle"]
    /\ found = [r \in Runs |-> {}]
    /\ todo = [r \in Runs |-> {}]
    /\ cur = [r \in Runs |-> None]
    /\ starts = 0
    /\ kills = 0
    /\ faults = 0
    /\ mails = [a \in Admins |-> 0]
    /\ unsaid = {}
    /\ raced = {}

RunStep(r) ==
    FindDelivery(r) \/ SendMail(r) \/ RecordSent(r) \/ RecordSentRaises(r)
        \/ RecordFailed(r) \/ RecordFailedRaises(r) \/ EndLoop(r) \/ Answer(r)

Next ==
    \/ \E a \in Admins : ChangeAdmin(a)
    \/ \E r \in Runs : BeginRun(r) \/ RunStep(r) \/ KillRun(r)

Spec == Init /\ [][Next]_vars

-----------------------------------------------------------------------------
(***************************************************************************)
(* Properties.                                                             *)
(***************************************************************************)
RunPcs == {"idle", "find", "answer"} \cup AtAdmin

\* Records and locals stay in their domains, and a run that is at an admin has one.
TypeOK ==
    /\ active \subseteq Admins
    /\ record \in [Admins -> RecordStatus]
    /\ runPc \in [Runs -> RunPcs]
    /\ found \in [Runs -> SUBSET Admins]
    /\ todo \in [Runs -> SUBSET Admins]
    /\ cur \in [Runs -> Admins \cup {None}]
    /\ starts \in Nat /\ kills \in Nat /\ faults \in Nat
    /\ mails \in [Admins -> Nat]
    /\ unsaid \subseteq Admins
    /\ raced \subseteq Admins
    /\ \A r \in Runs : runPc[r] \in AtAdmin => cur[r] \in Admins

\* An admin whom a later run skips has got the report: a record says sent only
\* if a mail went out, whichever calls and updates raise.
SentRecordIsTrue == \A a \in Admins : record[a] = "sent" => mails[a] > 0

\* An admin gets a second report of a date only if two runs were at the admin
\* together or a run that mailed did not come to say so in the record: no
\* other order of runs, failures and kills repeats a mail.
ResendNeedsRaceOrLoss ==
    \A a \in Admins : mails[a] > 1 => a \in raced \cup unsaid

\* The inductive form of SentRecordIsTrue, SentRecordStays and
\* ResendNeedsRaceOrLoss: an admin who was not raced is held by one run at
\* most, and once the record says sent by none but one in doubt; one whose every
\* mail was also recorded has one mail at most, which its holder has still to
\* record or the record tells.
ReportInv ==
    /\ SentRecordIsTrue
    /\ \A r \in Runs : /\ runPc[r] = "record" => mails[cur[r]] > 0
                       /\ runPc[r] = "doubt" => cur[r] \in unsaid
    /\ \A a \in Admins \ raced :
          /\ \A q, r \in Runs : Holds(q, a) /\ Holds(r, a) => q = r
          /\ record[a] = "sent" => \A r \in Runs : Holds(r, a) => InDoubt(r, a)
    /\ \A a \in Admins \ (raced \cup unsaid) :
          /\ mails[a] <= 1
          /\ \A r \in Runs : Holds(r, a) /\ runPc[r] # "record" => mails[a] = 0
          /\ mails[a] = 1 /\ record[a] # "sent" =>
                \E r \in Runs : Holds(r, a) /\ runPc[r] = "record"

\* A record of a sent report turns into a failed one only when two runs were at
\* the admin together, or when the update that wrote it raised: its own run then
\* takes the report for failed.  No mail that fails, no run killed and no run
\* that comes later undoes it.
SentRecordStays ==
    [][\A a \in Admins :
          record[a] = "sent" /\ record'[a] # "sent" =>
              a \in raced \/ \E r \in Runs : InDoubt(r, a)]_vars

\* One admin's failed mail does not keep the report from the others: a run that
\* answers has a record, sent or failed, of every admin it read.  (A run whose
\* update in the except branch raises does not answer: it leaves the others out.)
FoundIsRecorded ==
    \A r \in Runs : runPc[r] = "answer" => \A a \in found[r] : record[a] # "none"

\* Runs are the actors, admins without a sent record what is open.
Unsent == {a \in Admins : record[a] # "sent"}

AdminsAt == [r \in Runs |-> {a \in Admins : Holds(r, a)}]

Reports == INSTANCE CheckThenAct WITH
    Items <- Admins, Actors <- Runs, open <- Unsent, held <- AdminsAt,
    acts <- mails, excused <- raced \cup unsaid

\* The report is sent as CheckThenAct promises: an admin is mailed again only
\* after two runs were at the admin together, or a run mailed and did not come
\* to record it, and only then a sent record is opened again.
ImplementsCheckThenAct == Reports!Spec

=============================================================================

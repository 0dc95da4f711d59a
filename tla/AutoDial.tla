------------------------------ MODULE AutoDial ------------------------------
(***************************************************************************)
(* The missed-call retry pipeline of the CRM: a CallerDesk webhook reports *)
(* a missed call, _schedule_missed_call_retry stores a follow-up for it,   *)
(* and process_due_call_followups later dials the follow-ups that are due. *)
(* Users create, edit and delete follow-ups meanwhile.                     *)
(*                                                                         *)
(* Every await of the code is a point where another request, another job   *)
(* run or a kill of the process can intervene, so each database or         *)
(* provider call is a step.  The job can run in several workers at once:   *)
(* the in-process scheduler of each server process, and the HTTP endpoint  *)
(* /jobs/process-due-call-followups.  All calls here belong to one lead;   *)
(* leads do not share follow-ups.                                          *)
(***************************************************************************)
EXTENDS Naturals, FiniteSets

CONSTANTS
    FollowUps,      \* ids new_id() may return for documents of db.follow_ups
    Calls,          \* provider calls (missed or not) of the lead
    Sidless,        \* those whose webhook carries no call id
    Workers,        \* concurrent executions of process_due_call_followups
    Handlers,       \* concurrent executions of callerdesk_webhook
    MaxDeliveries,  \* bound: how often the provider posts one call's webhook
    MaxCrashes,     \* bound: how often a worker or a handler is killed
    OnVercel,       \* os.environ.get("VERCEL")
    SeedDemoData,   \* os.environ.get("SEED_DEMO_DATA") == "true"
    LeadKey, NoKey, None

ASSUME AutoDialAssumption ==
    /\ Sidless \subseteq Calls
    /\ MaxDeliveries \in Nat
    /\ MaxCrashes \in Nat
    /\ OnVercel \in BOOLEAN
    /\ SeedDemoData \in BOOLEAN
    /\ None \notin FollowUps
    /\ None \notin Calls

VARIABLES
    doc,        \* db.follow_ups
    calls,      \* the provider calls that were placed so far
    jobPc,      \* where each job run stands
    jobTodo,    \* documents its cursor has still to return
    jobCur,     \* the document it is working on
    jobResult,  \* what _initiate_call gave for that document
    hookPc,     \* where each webhook handler stands
    hookCall,   \* the call it is about
    deliveries, \* webhooks received per call (observation, bounds the model)
    placed,     \* provider calls attempted per follow-up (observation)
    abandoned,  \* follow-ups whose worker was killed after the claim (observation)
    crashes     \* kills so far (bounds the model)

docVars  == <<doc, calls>>
jobVars  == <<jobPc, jobTodo, jobCur, jobResult>>
hookVars == <<hookPc, hookCall>>
obsVars  == <<deliveries, placed, abandoned, crashes>>
vars == <<doc, calls, jobPc, jobTodo, jobCur, jobResult, hookPc, hookCall,
          deliveries, placed, abandoned, crashes>>

-----------------------------------------------------------------------------
(***************************************************************************)
(* The documents.  done stands for missed as well: nothing here tells them *)
(* apart.  absent and deleted are no document.  auto is meta.auto_dial,    *)
(* key is meta.source_call_sid, dialed is meta.auto_dialed, outcome tells  *)
(* which of meta.auto_dial_result and meta.auto_dial_error is present.     *)
(* due says whether due_at has passed, call is the call that caused it.    *)
(***************************************************************************)
FollowUpStatus == {"pending", "done"}
Outcomes == {"none", "result", "error"}

FollowUpDoc ==
    [status : FollowUpStatus \cup {"absent", "deleted"}, auto : BOOLEAN,
     key : Calls \cup {LeadKey, NoKey}, call : Calls \cup {None},
     assigned : BOOLEAN, due : BOOLEAN, dialed : BOOLEAN, outcome : Outcomes]

NoDoc ==
    [status |-> "absent", auto |-> FALSE, key |-> NoKey, call |-> None,
     assigned |-> FALSE, due |-> FALSE, dialed |-> FALSE, outcome |-> "none"]

Exists(f) == doc[f].status \in FollowUpStatus

\* call_key = call_sid or f"{lead['id']}:{status_text}"
CallKey(c) == IF c \in Sidless THEN LeadKey ELSE c

\* mutant: the retry is stored with a status FollowUpStatus does not know.
NewRetryScheduled(c, assigned) ==
    [status |-> "scheduled", auto |-> TRUE, key |-> CallKey(c), call |-> c,
     assigned |-> assigned, due |-> FALSE, dialed |-> FALSE, outcome |-> "none"]

\* The document _schedule_missed_call_retry inserts.
NewRetry(c, assigned) ==
    [status |-> "pending", auto |-> TRUE, key |-> CallKey(c), call |-> c,
     assigned |-> assigned, due |-> FALSE, dialed |-> FALSE, outcome |-> "none"]

-----------------------------------------------------------------------------
(***************************************************************************)
(* Users and time.                                                         *)
(***************************************************************************)

\* The document POST /follow-ups inserts: no meta, so the job never dials it.
NewFollowUp(assigned, due) ==
    [status |-> "pending", auto |-> FALSE, key |-> NoKey, call |-> None,
     assigned |-> assigned, due |-> due, dialed |-> FALSE, outcome |-> "none"]

CreateFollowUp(f) ==
    /\ doc[f].status = "absent"
    /\ \E a \in BOOLEAN, d \in BOOLEAN :
           doc' = [doc EXCEPT ![f] = NewFollowUp(a, d)]
    /\ UNCHANGED <<calls, jobVars, hookVars, obsVars>>

\* PATCH /follow-ups/{id}: status and due_at change, meta is left alone.
UpdateFollowUp(f) ==
    /\ Exists(f)
    /\ \E s \in FollowUpStatus, d \in BOOLEAN :
           doc' = [doc EXCEPT ![f] = [@ EXCEPT !.status = s, !.due = d]]
    /\ UNCHANGED <<calls, jobVars, hookVars, obsVars>>

\* DELETE /follow-ups/{id}; ids are not used again.
DeleteFollowUp(f) ==
    /\ Exists(f)
    /\ doc' = [doc EXCEPT ![f] = [@ EXCEPT !.status = "deleted"]]
    /\ UNCHANGED <<calls, jobVars, hookVars, obsVars>>

\* now_utc() passes due_at.
BecomeDue(f) ==
    /\ Exists(f)
    /\ ~doc[f].due
    /\ doc' = [doc EXCEPT ![f] = [@ EXCEPT !.due = TRUE]]
    /\ UNCHANGED <<calls, jobVars, hookVars, obsVars>>

\* A call the job did not place: an inbound one, or a click on "call".
OtherCall(c) ==
    /\ c \notin calls
    /\ calls' = calls \cup {c}
    /\ UNCHANGED <<doc, jobVars, hookVars, obsVars>>

-----------------------------------------------------------------------------
(***************************************************************************)
(* The webhook of a missed call.                                           *)
(***************************************************************************)

\* _schedule_missed_call_retry looks for a pending follow-up with this key.
RetryPending(c) ==
    \E f \in FollowUps : doc[f].status = "pending" /\ doc[f].key = CallKey(c)

\* The provider posts (or posts again) the webhook of a missed call; the
\* handler looks for an open retry and either returns or goes on to insert.
MissedCallWebhook(h, c) ==
    /\ hookPc[h] = "idle"
    /\ c \in calls
    /\ deliveries[c] < MaxDeliveries
    /\ deliveries' = [deliveries EXCEPT ![c] = @ + 1]
    /\ IF RetryPending(c)
       THEN UNCHANGED hookVars
       ELSE /\ hookPc' = [hookPc EXCEPT ![h] = "insert"]
            /\ hookCall' = [hookCall EXCEPT ![h] = c]
    /\ UNCHANGED <<docVars, jobVars, placed, abandoned, crashes>>

\* insert_one; the assignee is the lead's, which may have none.
InsertRetry(h) ==
    /\ hookPc[h] = "insert"
    /\ \E f \in FollowUps, a \in BOOLEAN :
           /\ doc[f].status = "absent"
           /\ doc' = [doc EXCEPT ![f] = NewRetry(hookCall[h], a)]
    /\ hookPc' = [hookPc EXCEPT ![h] = "idle"]
    /\ hookCall' = [hookCall EXCEPT ![h] = None]
    /\ UNCHANGED <<calls, jobVars, obsVars>>

-----------------------------------------------------------------------------
(***************************************************************************)
(* process_due_call_followups.                                             *)
(***************************************************************************)

\* mutant: the comparison of due_at with now is the wrong way round.
DueRetryFlipped(f) ==
    /\ doc[f].status = "pending"
    /\ doc[f].auto
    /\ ~doc[f].due
    /\ ~doc[f].dialed

\* The query of the job.
DueRetry(f) ==
    /\ doc[f].status = "pending"
    /\ doc[f].auto
    /\ doc[f].due
    /\ ~doc[f].dialed

\* mutant: the claim is a plain update by id.
UnclaimedById(f) == Exists(f)

\* The filter of the claiming update_one: status and due_at are not asked again.
Unclaimed(f) == Exists(f) /\ ~doc[f].dialed

\* One execution starts: the cursor's first batch is read.
BeginRun(w) ==
    /\ jobPc[w] = "idle"
    /\ \E f \in FollowUps : DueRetry(f)
    /\ jobTodo' = [jobTodo EXCEPT ![w] = {f \in FollowUps : DueRetry(f)}]
    /\ jobPc' = [jobPc EXCEPT ![w] = "iterate"]
    /\ UNCHANGED <<docVars, jobCur, jobResult, hookVars, obsVars>>

\* on_startup adds the job to the scheduler inside the demo-data branch.
SchedulerStarted == ~OnVercel /\ SeedDemoData

ScheduledRun(w) == SchedulerStarted /\ BeginRun(w)

\* An authorised request to /jobs/process-due-call-followups.
RequestedRun(w) == BeginRun(w)

AfterItem(todo) == IF todo = {} THEN "idle" ELSE "iterate"

\* The next document of the cursor: claim it, or skip it when the claim
\* modified nothing.  Without an assignee a claimed document is left as it is.
ClaimOf(w, f) ==
    LET next == AfterItem(jobTodo[w] \ {f})
        claimed == [doc[f] EXCEPT !.dialed = TRUE, !.outcome = "none"]
    IN
    /\ jobTodo' = [jobTodo EXCEPT ![w] = @ \ {f}]
    /\ \/ /\ ~Unclaimed(f)
          /\ jobPc' = [jobPc EXCEPT ![w] = next]
          /\ UNCHANGED <<doc, jobCur>>
       \/ /\ Unclaimed(f)
          /\ ~doc[f].assigned
          /\ doc' = [doc EXCEPT ![f] = claimed]
          /\ jobPc' = [jobPc EXCEPT ![w] = next]
          /\ UNCHANGED jobCur
       \/ /\ Unclaimed(f)
          /\ doc[f].assigned
          /\ doc' = [doc EXCEPT ![f] = claimed]
          /\ jobCur' = [jobCur EXCEPT ![w] = f]
          /\ jobPc' = [jobPc EXCEPT ![w] = "dial"]

ClaimNext(w) ==
    /\ jobPc[w] = "iterate"
    /\ \E f \in jobTodo[w] : ClaimOf(w, f)
    /\ UNCHANGED <<calls, jobResult, hookVars, obsVars>>

\* No call is placed: no phone number, another calling provider selected, the
\* agent's own number ("error"), or no CallerDesk credentials ("result").
NotDialable(w) ==
    /\ jobPc[w] = "dial"
    /\ \E r \in {"result", "error"} :
           jobResult' = [jobResult EXCEPT ![w] = r]
    /\ jobPc' = [jobPc EXCEPT ![w] = "record"]
    /\ UNCHANGED <<docVars, jobTodo, jobCur, hookVars, obsVars>>

\* _callerdesk_api_request sends the click-to-call request.
Dial(w) ==
    /\ jobPc[w] = "dial"
    /\ placed' = [placed EXCEPT ![jobCur[w]] = @ + 1]
    /\ jobPc' = [jobPc EXCEPT ![w] = "wait"]
    /\ UNCHANGED <<docVars, jobTodo, jobCur, jobResult, hookVars,
                   deliveries, abandoned, crashes>>

\* The provider's answer: a call id, or an error (a timeout may hide a call).
ProviderReply(w) ==
    /\ jobPc[w] = "wait"
    /\ \/ \E c \in Calls \ calls, r \in {"result", "error"} :
              /\ calls' = calls \cup {c}
              /\ jobResult' = [jobResult EXCEPT ![w] = r]
       \/ /\ jobResult' = [jobResult EXCEPT ![w] = "error"]
          /\ UNCHANGED calls
    /\ jobPc' = [jobPc EXCEPT ![w] = "record"]
    /\ UNCHANGED <<doc, jobTodo, jobCur, hookVars, obsVars>>

\* mutant: the except branch only logs.
StoredOutcomeLogged(r) == IF r = "error" THEN "none" ELSE r

StoredOutcome(r) == r

\* The final update_one by id: it matches nothing if the document is gone.
RecordOutcome(w) ==
    /\ jobPc[w] = "record"
    /\ doc' = IF Exists(jobCur[w])
              THEN [doc EXCEPT ![jobCur[w]] =
                            [@ EXCEPT !.outcome = StoredOutcome(jobResult[w])]]
              ELSE doc
    /\ jobCur' = [jobCur EXCEPT ![w] = None]
    /\ jobResult' = [jobResult EXCEPT ![w] = "none"]
    /\ jobPc' = [jobPc EXCEPT ![w] = AfterItem(jobTodo[w])]
    /\ UNCHANGED <<calls, jobTodo, hookVars, obsVars>>

-----------------------------------------------------------------------------
(***************************************************************************)
(* A process is killed: the serverless platform ends the function, or the  *)
(* server is redeployed.  Nothing local survives.                          *)
(***************************************************************************)
JobCrash(w) ==
    /\ crashes < MaxCrashes
    /\ jobPc[w] # "idle"
    /\ crashes' = crashes + 1
    /\ abandoned' = IF jobCur[w] = None THEN abandoned
                                        ELSE abandoned \cup {jobCur[w]}
    /\ jobPc' = [jobPc EXCEPT ![w] = "idle"]
    /\ jobTodo' = [jobTodo EXCEPT ![w] = {}]
    /\ jobCur' = [jobCur EXCEPT ![w] = None]
    /\ jobResult' = [jobResult EXCEPT ![w] = "none"]
    /\ UNCHANGED <<docVars, hookVars, deliveries, placed>>

HookCrash(h) ==
    /\ crashes < MaxCrashes
    /\ hookPc[h] # "idle"
    /\ crashes' = crashes + 1
    /\ hookPc' = [hookPc EXCEPT ![h] = "idle"]
    /\ hookCall' = [hookCall EXCEPT ![h] = None]
    /\ UNCHANGED <<docVars, jobVars, deliveries, placed, abandoned>>

-----------------------------------------------------------------------------
Init ==
    /\ doc = [f \in FollowUps |-> NoDoc]
    /\ calls = {}
    /\ jobPc = [w \in Workers |-> "idle"]
    /\ jobTodo = [w \in Workers |-> {}]
    /\ jobCur = [w \in Workers |-> None]
    /\ jobResult = [w \in Workers |-> "none"]
    /\ hookPc = [h \in Handlers |-> "idle"]
    /\ hookCall = [h \in Handlers |-> None]
    /\ deliveries = [c \in Calls |-> 0]
    /\ placed = [f \in FollowUps |-> 0]
    /\ abandoned = {}
    /\ crashes = 0

UserStep(f) ==
    CreateFollowUp(f) \/ UpdateFollowUp(f) \/ DeleteFollowUp(f) \/ BecomeDue(f)

HookStep(h) == (\E c \in Calls : MissedCallWebhook(h, c)) \/ InsertRetry(h)

\* The steps a running job takes by itself.
JobStep(w) ==
    ClaimNext(w) \/ NotDialable(w) \/ Dial(w) \/ ProviderReply(w) \/ RecordOutcome(w)

Next ==
    \/ \E f \in FollowUps : UserStep(f)
    \/ \E c \in Calls : OtherCall(c)
    \/ \E h \in Handlers : HookStep(h) \/ HookCrash(h)
    \/ \E w \in Workers : ScheduledRun(w) \/ RequestedRun(w) \/ JobStep(w)
                            \/ JobCrash(w)

Spec == Init /\ [][Next]_vars

\* A started scheduler fires every minute and a started run is not suspended
\* for ever; nothing obliges anyone to request a run over HTTP, to post a
\* webhook or to edit a follow-up.
FairSpec ==
    /\ Spec
    /\ \A w \in Workers : WF_vars(ScheduledRun(w)) /\ WF_vars(JobStep(w))
    /\ \A h \in Handlers : WF_vars(InsertRetry(h))

-----------------------------------------------------------------------------
(***************************************************************************)
(* Properties.                                                             *)
(***************************************************************************)
JobPcs == {"idle", "iterate", "dial", "wait", "record"}

\* The documents and every local variable stay in their domains; a follow-up's
\* status is always one FollowUpStatus knows.
TypeOK ==
    /\ doc \in [FollowUps -> FollowUpDoc]
    /\ calls \subseteq Calls
    /\ jobPc \in [Workers -> JobPcs]
    /\ jobTodo \in [Workers -> SUBSET FollowUps]
    /\ jobCur \in [Workers -> FollowUps \cup {None}]
    /\ jobResult \in [Workers -> Outcomes]
    /\ hookPc \in [Handlers -> {"idle", "insert"}]
    /\ hookCall \in [Handlers -> Calls \cup {None}]
    /\ deliveries \in [Calls -> Nat]
    /\ placed \in [FollowUps -> Nat]
    /\ abandoned \subseteq FollowUps
    /\ crashes \in Nat

\* A lead is dialed at most once for one follow-up, however many job runs
\* overlap, whatever users do to the follow-up meanwhile and whenever workers
\* are killed: the claim of process_due_call_followups is exclusive.
DialedAtMostOnce == \A f \in FollowUps : placed[f] <= 1

Holds(w, f) == jobCur[w] = f /\ jobPc[w] \in {"dial", "wait", "record"}

\* A job run or a handler that is past its lookup has a document or a call.
LocalsSet ==
    /\ \A w \in Workers :
          IF jobPc[w] \in {"dial", "wait", "record"}
          THEN jobCur[w] \in FollowUps ELSE jobCur[w] = None
    /\ \A h \in Handlers : hookPc[h] = "insert" => hookCall[h] \in Calls

\* The inductive strengthening: a worker's document is claimed, by it alone,
\* was not dialed before the request and has no outcome yet, and nothing
\* unclaimed was dialed or has an outcome.
ClaimInv ==
    /\ LocalsSet
    /\ \A w \in Workers, f \in FollowUps : Holds(w, f) => doc[f].dialed
    /\ \A v, w \in Workers, f \in FollowUps :
          Holds(v, f) /\ Holds(w, f) => v = w
    /\ \A w \in Workers, f \in FollowUps :
          Holds(w, f) /\ jobPc[w] = "dial" => placed[f] = 0
    /\ \A w \in Workers, f \in FollowUps : Holds(w, f) => doc[f].outcome = "none"
    /\ \A f \in FollowUps : doc[f].dialed => doc[f].status # "absent"
    /\ \A f \in FollowUps : doc[f].outcome # "none" => doc[f].dialed
    /\ \A f \in FollowUps : placed[f] > 0 => doc[f].dialed
    /\ DialedAtMostOnce

\* What the job recorded about a follow-up is final: no later or overlapping
\* run, whose copy of meta is older, erases or replaces it.
OutcomeIsFinal ==
    [][\A f \in FollowUps :
          doc[f].outcome # "none" => doc'[f].outcome = doc[f].outcome]_vars

\* The job implements OnceDispatch: claims are the taken items, click-to-call
\* requests the dispatches.
Once == INSTANCE OnceDispatch WITH
    Items <- FollowUps,
    taken <- {f \in FollowUps : doc[f].dialed},
    sent  <- placed

ImplementsOnceDispatch == Once!Spec

\* An automatic retry whose time has come and that no worker took.
Waiting(f) ==
    doc[f].status = "pending" /\ doc[f].auto /\ doc[f].due /\ ~doc[f].dialed

\* With the scheduler running, a due automatic retry does not stay pending
\* unclaimed for ever, even when workers are killed in the middle of a run.
DueIsClaimed ==
    \A f \in FollowUps : Waiting(f) ~> ~Waiting(f)

\* A claimed follow-up of an assigned agent gets a recorded outcome unless it
\* is deleted or its worker was killed; every error path records one.
ClaimIsSettled ==
    \A f \in FollowUps :
        doc[f].dialed /\ doc[f].assigned ~>
            \/ doc[f].outcome # "none"
            \/ doc[f].status = "deleted"
            \/ f \in abandoned

\* "Create one follow-up per missed provider call" (server.py:7074): no
\* provider call has two follow-ups.
OneRetryPerCall ==
    \A c \in Calls : Cardinality({f \in FollowUps : doc[f].call = c}) <= 1

=============================================================================

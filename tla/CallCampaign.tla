---------------------------- MODULE CallCampaign ----------------------------
(***************************************************************************)
(* One CallerDesk calling campaign: starting it runs a batch that dials up *)
(* to calls_per_minute of its pending numbers one after the other, while   *)
(* the provider's webhooks report on the calls, and managers pause,        *)
(* cancel, rename or start it again.  The campaign is in the list before   *)
(* its numbers are: they are inserted while it may be started already.     *)
(* There is no lock and no transaction: each database or provider call is  *)
(* a step, and a batch may be killed at any of them.                       *)
(***************************************************************************)
EXTENDS Naturals, FiniteSets

CONSTANTS
    Numbers,       \* documents of db.callerdesk_campaign_numbers of the campaign
    Sids,          \* call ids the provider may return
    Batches,       \* executions of start_callerdesk_campaign that may exist at once
    Hooks,         \* executions of callerdesk_webhook that may exist at once
    Limits,        \* calls_per_minute campaigns are created with, clamped to 1..20
    Chosen,        \* bound: statuses managers set
    Replies,       \* bound: statuses the provider's reply gives
    Reports,       \* bound: statuses its webhooks give
    MaxStarts,     \* bound: starts of the campaign
    MaxFaults,     \* bound: killed batches and updates that raise
    MaxDeliveries, \* bound: webhooks
    None

ASSUME CallCampaignAssumption ==
    /\ IsFiniteSet(Batches)
    /\ Limits \subseteq 1 .. 20
    /\ Chosen \subseteq {"draft", "active", "paused", "completed", "cancelled"}
    /\ Replies \cup Reports
          \subseteq {"initiated", "in_progress", "connected", "dnp", "failed", "pending"}
    /\ MaxStarts \in Nat
    /\ MaxFaults \in Nat
    /\ MaxDeliveries \in Nat
    /\ None \notin Numbers
    /\ None \notin Sids

VARIABLES
    status,     \* status of the campaign
    limit,      \* its calls_per_minute; nothing changes it
    old,        \* whether its numbers, created with it, are older than two days
    deleting,   \* whether delete_callerdesk_campaign has its numbers still to do
    num,        \* its numbers
    call,       \* campaign_number_id in db.callerdesk_calls, by call_sid
    dialedFor,  \* the number a call was placed for, as the provider knows it
    batPc,      \* where each batch stands
    items,      \* numbers it found
    left,       \* those its loop has still to come to
    cur,        \* the number it is dialing
    curSid,     \* the call id it got for that number
    hookPc,     \* where each webhook handler stands
    hook,       \* what it read and was told
    starts, faults, deliveries,
    dials,      \* click-to-call requests per number (observation)
    lost,       \* numbers a batch was killed on before it stored the try (observation)
    raced,      \* numbers a batch found while another one still had them (observation)
    requeues,   \* times a reply or webhook wrote pending to a number (observation)
    late        \* numbers that became pending while batches stand between their count
                \* of none and their write (observation)

campVars == <<status, limit, old, deleting>>
batVars == <<batPc, items, left, cur, curSid>>
hookVars == <<hookPc, hook>>
obsVars == <<starts, faults, deliveries, dials, lost, raced, requeues, late>>
vars == <<status, limit, old, deleting, num, call, dialedFor, batPc, items, left, cur, curSid,
          hookPc, hook, starts, faults, deliveries, dials, lost, raced, requeues, late>>

-----------------------------------------------------------------------------
(***************************************************************************)
(* Documents.  dnp, busy and connected are final outcomes alike: connected *)
(* and dnp stand for them.  initiated stands for ringing and queued too:   *)
(* all three are expired.  in_progress and pending_credentials are not.    *)
(* in_progress stands for the texts _normalize_call_status passes through  *)
(* unchanged too, pending apart: that text puts a number back in the queue.*)
(* A number that create has not inserted yet is absent.                    *)
(***************************************************************************)
CampaignStatus == {"draft", "active", "paused", "completed", "cancelled"}

Expirable == {"pending", "initiated"}

Final == {"connected", "dnp", "failed"}

NumberStatus ==
    Expirable \cup Final
        \cup {"absent", "in_progress", "pending_credentials", "cancelled"}

\* What the provider's reply or webhook says of a call, normalised.
Reported == {"initiated", "in_progress", "pending"} \cup Final

NumberDoc ==
    [status : NumberStatus, sid : Sids \cup {None}, attempts : Nat]

\* mutant: a new number gets the status of the new campaign.
NewNumberDraft == [status |-> "draft", sid |-> None, attempts |-> 0]

NewNumber == [status |-> "pending", sid |-> None, attempts |-> 0]

AbsentNumber == [status |-> "absent", sid |-> None, attempts |-> 0]

\* number is what the handler found: the call's campaign_number_id, or nothing.
HookDoc ==
    [sid : Sids \cup {None}, number : Numbers \cup {None}, status : Reported]

NoHook == [sid |-> None, number |-> None, status |-> "initiated"]

Pending == {n \in Numbers : num[n].status = "pending"}

\* What late is after n became pending.
LateWith(n) == IF \E b \in Batches : batPc[b] = "completed" THEN late \cup {n} ELSE late

\* What it is after b is at its end: nothing once the last such batch has written.
LateWithout(b) == IF \E a \in Batches \ {b} : batPc[a] = "completed" THEN late ELSE {}

\* What is counted and noted when the provider says s of n.
NoteSaid(n, s) ==
    IF s = "pending"
    THEN requeues' = [requeues EXCEPT ![n] = @ + 1] /\ late' = LateWith(n)
    ELSE UNCHANGED <<requeues, late>>

-----------------------------------------------------------------------------
(***************************************************************************)
(* Managers and time.                                                      *)
(***************************************************************************)

\* POST /callerdesk/campaigns goes on: the campaign is there, and insert_many
\* brings its numbers one after the other, unless the request ends before.
AddNumber(n) ==
    /\ ~old
    /\ num[n].status = "absent"
    /\ num' = [num EXCEPT ![n] = NewNumber]
    /\ late' = LateWith(n)
    /\ UNCHANGED <<campVars, call, dialedFor, batVars, hookVars, starts, faults,
                   deliveries, dials, lost, raced, requeues>>

\* PATCH /callerdesk/campaigns/{id} and .../pause: any status of the list.
SetStatus ==
    /\ \E s \in Chosen : status' = s
    /\ UNCHANGED <<limit, old, deleting, num, call, dialedFor, batVars, hookVars,
                   obsVars>>

\* DELETE: first the campaign, then its pending numbers.
CancelCampaign ==
    /\ ~deleting
    /\ deleting' = TRUE
    /\ status' = "cancelled"
    /\ UNCHANGED <<limit, old, num, call, dialedFor, batVars, hookVars, obsVars>>

CancelNumbers ==
    /\ deleting
    /\ deleting' = FALSE
    /\ num' = [n \in Numbers |->
                 IF num[n].status = "pending"
                 THEN [num[n] EXCEPT !.status = "cancelled"] ELSE num[n]]
    /\ UNCHANGED <<status, limit, old, call, dialedFor, batVars, hookVars, obsVars>>

\* Two days pass since created_at, the same for all; create has ended by then.
GrowOld ==
    /\ ~old
    /\ old' = TRUE
    /\ UNCHANGED <<status, limit, deleting, num, call, dialedFor, batVars, hookVars,
                   obsVars>>

Expired ==
    [n \in Numbers |->
        IF old /\ num[n].status \in Expirable
        THEN [num[n] EXCEPT !.status = "dnp"] ELSE num[n]]

\* _expire_old_callerdesk_campaign_calls when the campaigns or calls are listed.
ListCampaign ==
    /\ num' = Expired
    /\ UNCHANGED <<campVars, call, dialedFor, batVars, hookVars, obsVars>>

-----------------------------------------------------------------------------
(***************************************************************************)
(* start_callerdesk_campaign and _run_callerdesk_campaign_batch.           *)
(***************************************************************************)
StartCampaign(b) ==
    /\ batPc[b] = "idle"
    /\ starts < MaxStarts
    /\ starts' = starts + 1
    /\ status' = "active"
    /\ batPc' = [batPc EXCEPT ![b] = "expire"]
    /\ UNCHANGED <<limit, old, deleting, num, call, dialedFor, items, left, cur, curSid,
                   hookVars, faults, deliveries, dials, lost, raced, requeues, late>>

ExpireOld(b) ==
    /\ batPc[b] = "expire"
    /\ num' = Expired
    /\ batPc' = [batPc EXCEPT ![b] = "find"]
    /\ UNCHANGED <<campVars, call, dialedFor, items, left, cur, curSid, hookVars,
                   obsVars>>

\* mutant: the batch takes every number that has no final status.
ToDialOpen == {n \in Numbers : num[n].status \in {"pending", "initiated"}}

ToDial == Pending

\* The numbers other batches have found and not finished with.
Elsewhere(b) == UNION {left[a] \cup ({cur[a]} \ {None}) : a \in Batches \ {b}}

\* At most limit of the pending numbers.
FindItems(b) ==
    /\ batPc[b] = "find"
    /\ \E S \in SUBSET ToDial :
          /\ Cardinality(S) <= limit
          /\ Cardinality(S) = limit \/ S = ToDial
          /\ items' = [items EXCEPT ![b] = S]
          /\ left' = [left EXCEPT ![b] = S]
          /\ raced' = raced \cup (S \cap Elsewhere(b))
    /\ batPc' = [batPc EXCEPT ![b] = "items"]
    /\ UNCHANGED <<campVars, num, call, dialedFor, cur, curSid, hookVars, starts,
                   faults, deliveries, dials, lost, requeues, late>>

NextItem(b) ==
    /\ batPc[b] = "items"
    /\ \E n \in left[b] :
          /\ left' = [left EXCEPT ![b] = @ \ {n}]
          /\ cur' = [cur EXCEPT ![b] = n]
    /\ batPc' = [batPc EXCEPT ![b] = "dial"]
    /\ UNCHANGED <<campVars, num, call, dialedFor, items, curSid, hookVars,
                   obsVars>>

\* No request is sent: a phone number is missing or the agent's own.
Undialable(b) ==
    /\ batPc[b] = "dial"
    /\ batPc' = [batPc EXCEPT ![b] = "fail"]
    /\ UNCHANGED <<campVars, num, call, dialedFor, items, left, cur, curSid,
                   hookVars, obsVars>>

\* No request is sent: the organisation has no CallerDesk credentials.
NoCredentials(b) ==
    /\ batPc[b] = "dial"
    /\ batPc' = [batPc EXCEPT ![b] = "store"]
    /\ UNCHANGED <<campVars, num, call, dialedFor, items, left, cur, curSid,
                   hookVars, obsVars>>

\* The click-to-call request; webhooks of the call may come before its reply.
Dial(b) ==
    /\ batPc[b] = "dial"
    /\ dials' = [dials EXCEPT ![cur[b]] = @ + 1]
    /\ \/ \E s \in Sids :
             /\ dialedFor[s] = None
             /\ dialedFor' = [dialedFor EXCEPT ![s] = cur[b]]
             /\ curSid' = [curSid EXCEPT ![b] = s]
       \/ UNCHANGED <<dialedFor, curSid>>
    /\ batPc' = [batPc EXCEPT ![b] = "reply"]
    /\ UNCHANGED <<campVars, num, call, items, left, cur, hookVars, starts, faults,
                   deliveries, lost, raced, requeues, late>>

\* A reply with a call id is saved with the number's id; a rejection, a time-out
\* or a reply without a call id raises.
Reply(b) ==
    /\ batPc[b] = "reply"
    /\ \/ /\ curSid[b] # None
          /\ call' = [call EXCEPT ![curSid[b]] = cur[b]]
          /\ batPc' = [batPc EXCEPT ![b] = "store"]
          /\ UNCHANGED curSid
       \/ /\ batPc' = [batPc EXCEPT ![b] = "fail"]
          /\ curSid' = [curSid EXCEPT ![b] = None]
          /\ UNCHANGED call
    /\ UNCHANGED <<campVars, num, dialedFor, items, left, cur, hookVars, obsVars>>

\* mutant: a failed try is not counted.
AttemptsAfterOnlyStarted(n, started) ==
    IF started THEN num[n].attempts + 1 ELSE num[n].attempts

\* "$inc": {"attempts": 1}
AttemptsAfter(n, started) == num[n].attempts + 1

\* The reply's status as the number gets it.
Said(b) == IF curSid[b] = None THEN {"pending_credentials"} ELSE Replies

\* The update that gives the number the reply's status s and call id.
TryStored(b, s) ==
    /\ num' = [num EXCEPT ![cur[b]] = [@ EXCEPT !.status = s, !.sid = curSid[b],
                                       !.attempts = AttemptsAfter(cur[b], TRUE)]]
    /\ NoteSaid(cur[b], s)

StoreTry(b) ==
    /\ batPc[b] = "store"
    /\ \E s \in Said(b) : TryStored(b, s)
    /\ cur' = [cur EXCEPT ![b] = None]
    /\ curSid' = [curSid EXCEPT ![b] = None]
    /\ batPc' = [batPc EXCEPT ![b] = "items"]
    /\ UNCHANGED <<campVars, call, dialedFor, items, left, hookVars, starts, faults,
                   deliveries, dials, lost, raced>>

\* The update raises, whether or not it took effect.
StoreTryRaises(b) ==
    /\ batPc[b] = "store"
    /\ faults < MaxFaults
    /\ faults' = faults + 1
    /\ \/ \E s \in Said(b) : TryStored(b, s)
       \/ UNCHANGED <<num, requeues, late>>
    /\ curSid' = [curSid EXCEPT ![b] = None]
    /\ batPc' = [batPc EXCEPT ![b] = "fail"]
    /\ UNCHANGED <<campVars, call, dialedFor, items, left, cur, hookVars, starts,
                   deliveries, dials, lost, raced>>

\* mutant: the exception ends the loop.
AfterFailureStops == "active"

AfterFailure == "items"

StoreFailure(b) ==
    /\ batPc[b] = "fail"
    /\ LET n == cur[b] IN
       num' = [num EXCEPT ![n] = [@ EXCEPT !.status = "failed",
                                           !.attempts = AttemptsAfter(n, FALSE)]]
    /\ cur' = [cur EXCEPT ![b] = None]
    /\ batPc' = [batPc EXCEPT ![b] = AfterFailure]
    /\ UNCHANGED <<campVars, call, dialedFor, items, left, curSid, hookVars,
                   obsVars>>

\* mutant: the campaign is completed when the batch has nothing more to dial.
StatusAfterDone(pending) == "completed"

StatusAfter(pending) == IF pending = {} THEN "completed" ELSE "active"

\* The pending numbers are counted, and the campaign gets its status.
CountPending(b) ==
    /\ batPc[b] = "items"
    /\ left[b] = {}
    /\ batPc' = [batPc EXCEPT ![b] = StatusAfter(Pending)]
    /\ UNCHANGED <<campVars, num, call, dialedFor, items, left, cur, curSid,
                   hookVars, obsVars>>

FinishBatch(b) ==
    /\ batPc[b] \in {"completed", "active"}
    /\ status' = batPc[b]
    /\ batPc' = [batPc EXCEPT ![b] = "idle"]
    /\ items' = [items EXCEPT ![b] = {}]
    /\ late' = LateWithout(b)
    /\ UNCHANGED <<limit, old, deleting, num, call, dialedFor, left, cur, curSid,
                   hookVars, starts, faults, deliveries, dials, lost, raced, requeues>>

\* The serverless function is ended or the server restarted.
KillBatch(b) ==
    /\ faults < MaxFaults
    /\ batPc[b] # "idle"
    /\ faults' = faults + 1
    /\ lost' = IF cur[b] = None THEN lost ELSE lost \cup {cur[b]}
    /\ batPc' = [batPc EXCEPT ![b] = "idle"]
    /\ items' = [items EXCEPT ![b] = {}]
    /\ left' = [left EXCEPT ![b] = {}]
    /\ cur' = [cur EXCEPT ![b] = None]
    /\ curSid' = [curSid EXCEPT ![b] = None]
    /\ late' = LateWithout(b)
    /\ UNCHANGED <<campVars, num, call, dialedFor, hookVars, starts, deliveries,
                   dials, raced, requeues>>

-----------------------------------------------------------------------------
(***************************************************************************)
(* callerdesk_webhook for a call of the campaign.                          *)
(***************************************************************************)

\* mutant: the lookup leaves the call id out.
LinkOfAny(s) ==
    IF \E t \in Sids : call[t] # None
    THEN CHOOSE n \in Numbers : \E t \in Sids : call[t] = n ELSE None

LinkOf(s) == call[s]

\* The handler reads the call's document, if there is one yet.
FindCall(h, s) ==
    /\ hookPc[h] = "idle"
    /\ dialedFor[s] # None
    /\ deliveries < MaxDeliveries
    /\ deliveries' = deliveries + 1
    /\ \E r \in Reports :
          hook' = [hook EXCEPT ![h] = [sid |-> s, number |-> LinkOf(s), status |-> r]]
    /\ hookPc' = [hookPc EXCEPT ![h] = "save"]
    /\ UNCHANGED <<campVars, num, call, dialedFor, batVars, starts, faults, dials,
                   lost, raced, requeues, late>>

\* mutant: the webhook leaves campaign_number_id out of what it saves.
LinkKeptNone(n) == None

LinkKept(n) == n

\* _save_callerdesk_call sets every field of the document.
SaveCall(h) ==
    /\ hookPc[h] = "save"
    /\ call' = [call EXCEPT ![hook[h].sid] = LinkKept(hook[h].number)]
    /\ IF hook[h].number = None
       THEN /\ hookPc' = [hookPc EXCEPT ![h] = "idle"]
            /\ hook' = [hook EXCEPT ![h] = NoHook]
       ELSE /\ hookPc' = [hookPc EXCEPT ![h] = "number"]
            /\ UNCHANGED hook
    /\ UNCHANGED <<campVars, num, dialedFor, batVars, obsVars>>

\* The number gets the reported status.
UpdateNumber(h) ==
    /\ hookPc[h] = "number"
    /\ num' = [num EXCEPT ![hook[h].number] =
                 [@ EXCEPT !.status = hook[h].status, !.sid = hook[h].sid]]
    /\ NoteSaid(hook[h].number, hook[h].status)
    /\ hookPc' = [hookPc EXCEPT ![h] = "idle"]
    /\ hook' = [hook EXCEPT ![h] = NoHook]
    /\ UNCHANGED <<campVars, call, dialedFor, batVars, starts, faults, deliveries,
                   dials, lost, raced>>

-----------------------------------------------------------------------------
Init ==
    /\ status = "draft"
    /\ limit \in Limits
    /\ old = FALSE
    /\ deleting = FALSE
    /\ num = [n \in Numbers |-> AbsentNumber]
    /\ call = [s \in Sids |-> None]
    /\ dialedFor = [s \in Sids |-> None]
    /\ batPc = [b \in Batches |-> "idle"]
    /\ items = [b \in Batches |-> {}]
    /\ left = [b \in Batches |-> {}]
    /\ cur = [b \in Batches |-> None]
    /\ curSid = [b \in Batches |-> None]
    /\ hookPc = [h \in Hooks |-> "idle"]
    /\ hook = [h \in Hooks |-> NoHook]
    /\ starts = 0
    /\ faults = 0
    /\ deliveries = 0
    /\ dials = [n \in Numbers |-> 0]
    /\ lost = {}
    /\ raced = {}
    /\ requeues = [n \in Numbers |-> 0]
    /\ late = {}

BatchStep(b) ==
    ExpireOld(b) \/ FindItems(b) \/ NextItem(b) \/ Undialable(b) \/ NoCredentials(b)
        \/ Dial(b) \/ Reply(b) \/ StoreTry(b) \/ StoreTryRaises(b) \/ StoreFailure(b)
        \/ CountPending(b) \/ FinishBatch(b)

HookStep(h) == SaveCall(h) \/ UpdateNumber(h)

Next ==
    \/ \E n \in Numbers : AddNumber(n)
    \/ SetStatus \/ CancelCampaign \/ CancelNumbers \/ GrowOld \/ ListCampaign
    \/ \E b \in Batches : StartCampaign(b) \/ BatchStep(b) \/ KillBatch(b)
    \/ \E h \in Hooks : HookStep(h) \/ \E s \in Sids : FindCall(h, s)

Spec == Init /\ [][Next]_vars

-----------------------------------------------------------------------------
(***************************************************************************)
(* Properties.                                                             *)
(***************************************************************************)
BatchPcs ==
    {"idle", "expire", "find", "items", "dial", "reply", "store", "fail",
     "completed", "active"}

\* Documents and locals stay in their domains; who is at a number has one.
TypeOK ==
    /\ status \in CampaignStatus
    /\ limit \in Limits
    /\ old \in BOOLEAN
    /\ deleting \in BOOLEAN
    /\ num \in [Numbers -> NumberDoc]
    /\ \A n \in Numbers : num[n].status = "absent" => num[n].attempts = 0
    /\ call \in [Sids -> Numbers \cup {None}]
    /\ dialedFor \in [Sids -> Numbers \cup {None}]
    /\ batPc \in [Batches -> BatchPcs]
    /\ items \in [Batches -> SUBSET Numbers]
    /\ left \in [Batches -> SUBSET Numbers]
    /\ cur \in [Batches -> Numbers \cup {None}]
    /\ \A b \in Batches : batPc[b] \in {"dial", "reply", "store", "fail"} => cur[b] # None
    /\ curSid \in [Batches -> Sids \cup {None}]
    /\ hookPc \in [Hooks -> {"idle", "save", "number"}]
    /\ hook \in [Hooks -> HookDoc]
    /\ \A h \in Hooks : hookPc[h] = "number" => hook[h].number # None
    /\ starts \in Nat /\ faults \in Nat /\ deliveries \in Nat
    /\ dials \in [Numbers -> Nat]
    /\ lost \subseteq Numbers
    /\ raced \subseteq Numbers
    /\ requeues \in [Numbers -> Nat]
    /\ late \subseteq Numbers

\* A batch that completes the campaign overlooks no number but those that
\* became pending since it counted, by create's late insert or because a reply
\* or webhook said pending: neither another batch's tries, failed or raising
\* ones, nor cancellation or expiry bring a number back into the queue.
CompletedOverlooksOnlyLate ==
    \A b \in Batches : batPc[b] = "completed" => Pending \subseteq late

Trying(b, n) == cur[b] = n /\ batPc[b] \in {"reply", "store", "fail"}

\* No click-to-call request goes uncounted: attempts counts the tries of every
\* batch, concurrent ones too, except those a batch was killed on.
AttemptsCounted ==
    \A n \in Numbers : n \notin lost =>
        dials[n] <= num[n].attempts + Cardinality({b \in Batches : Trying(b, n)})

\* A number that no two batches had at once and no batch was killed on is dialed
\* once, and once more at most for each time the provider itself said pending of
\* it: no other order of late webhooks, replies, raising updates, expiry and
\* cancellations makes a later batch repeat a call.
RedialNeedsRaceKillOrReport ==
    \A n \in Numbers : n \notin lost \cup raced => dials[n] <= 1 + requeues[n]

\* A call recorded for a number, and the call id a number shows, are of a call
\* the provider placed for that number, in whatever order replies and webhooks
\* of overlapping batches come in.
CallsAreOfTheirNumber ==
    /\ \A s \in Sids : call[s] # None => call[s] = dialedFor[s]
    /\ \A n \in Numbers : num[n].sid # None => dialedFor[num[n].sid] = n

\* A saved call loses its campaign number only to a webhook that read the call
\* before the batch had saved it: no other order of writes drops the link.
LinkLostOnlyToEarlyHook ==
    [][\A s \in Sids :
          call[s] # None /\ call'[s] = None =>
             \E h \in Hooks : /\ hookPc[h] = "save"
                              /\ hook[h].sid = s
                              /\ hook[h].number = None]_vars

\* One number that cannot be dialed does not keep the batch from the others:
\* a batch that comes to its end has tried all it found.
FoundIsTried ==
    \A b \in Batches :
        batPc[b] \in {"completed", "active"} => \A n \in items[b] : num[n].attempts > 0

\* Batches are the actors; numbers not inserted yet are open like pending ones.
FoundBy == [b \in Batches |-> left[b] \cup ({cur[b]} \ {None})]

Open == {n \in Numbers : num[n].status \in {"absent", "pending"}}

Requeued == {n \in Numbers : requeues[n] > 0}

Calls == INSTANCE CheckThenAct WITH
    Items <- Numbers, Actors <- Batches, open <- Open, held <- FoundBy,
    acts <- dials, excused <- raced \cup lost \cup Requeued

\* Batches dial as CheckThenAct promises: a number is dialed again only after
\* two batches had it together, one was killed on it or the provider said pending
\* of it, whatever managers, expiry and webhooks do to the numbers meanwhile.
ImplementsCheckThenAct == Calls!Spec

=============================================================================

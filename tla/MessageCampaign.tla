-------------------------- MODULE MessageCampaign ---------------------------
(***************************************************************************)
(* One message campaign: creating it with its recipients, starting it,     *)
(* which messages the pending recipients one after the other, pausing and  *)
(* deleting it. Nothing claims a recipient and no write asks for a status, *)
(* so starts, deletions and the creation interleave at every database and  *)
(* provider call. A delivery may raise after the message went out.         *)
(***************************************************************************)
EXTENDS Naturals, FiniteSets

CONSTANTS
    Recipients,
    Runs,      \* starts that may be under way at once
    MaxStarts, \* bound: starts
    MaxStops,  \* bound: starts that end early
    MaxEdits,  \* bound: pauses and deletions
    None       \* no recipient

ASSUME MessageCampaignAssumption ==
    /\ MaxStarts \in Nat /\ MaxStops \in Nat /\ MaxEdits \in Nat
    /\ None \notin Recipients

VARIABLES
    campaign,  \* status of the campaign
    recipient, \* status of each recipient, "absent" before it is inserted
    deleting,  \* a deletion has still to cancel the recipients
    run,       \* locals of each start
    starts, stops, edits,
    messaged,  \* messages that went out to each recipient (observation)
    stopped,   \* recipients a deletion cancelled (observation)
    shared,    \* recipients two starts had at the same time (observation)
    lost,      \* recipients whose message a start ended without storing (observation)
    unsure,    \* recipients whose message went out although the call raised (observation)
    refused    \* recipients whose answer counted as sent with no message out (observation)

bounds == <<starts, stops, edits>>
obsVars == <<messaged, stopped, shared, lost, unsure, refused>>
vars == <<campaign, recipient, deleting, run, bounds, obsVars>>

CampaignStatus == {"draft", "active", "paused", "cancelled",
                   "completed", "completed_with_pending_provider"}
Result == {"sent", "failed", "pending_provider"}
RecipientStatus == Result \cup {"absent", "pending", "cancelled"}

\* left are the recipients found and not done with, user the one at hand, out
\* whether its message went out, waiting whether one lacked a provider.
Run == [pc : {"idle", "find", "next", "note", "store"}, left : SUBSET Recipients,
        user : Recipients \cup {None}, result : Result, out : BOOLEAN, waiting : BOOLEAN]
NoRun == [pc |-> "idle", left |-> {}, user |-> None, result |-> "failed",
          out |-> FALSE, waiting |-> FALSE]

At(r, p) == run[r].pc = p
Leave(r) == run' = [run EXCEPT ![r] = NoRun]

-----------------------------------------------------------------------------
\* mutant: every recipient starts as scheduled.
FirstStatusScheduled == {"scheduled"}

\* A lead without the address of the channel has failed from the start.
FirstStatus == {"pending", "failed"}

\* create_message_campaign inserts the campaign, then the recipients.
AddRecipient(a) ==
    /\ recipient[a] = "absent"
    /\ \E s \in FirstStatus : recipient' = [recipient EXCEPT ![a] = s]
    /\ UNCHANGED <<campaign, deleting, run, bounds, obsVars>>

\* Whatever the campaign's status is.
StartCampaign(r) ==
    /\ At(r, "idle")
    /\ starts < MaxStarts
    /\ starts' = starts + 1
    /\ campaign' = "active"
    /\ run' = [run EXCEPT ![r].pc = "find"]
    /\ UNCHANGED <<recipient, deleting, stops, edits, obsVars>>

\* mutant: failed recipients are tried again.
ToMessageFailed == {a \in Recipients : recipient[a] \in {"pending", "failed"}}

\* mutant: cancelled recipients are taken as well.
ToMessageCancelled == {a \in Recipients : recipient[a] \in {"pending", "cancelled"}}

ToMessage == {a \in Recipients : recipient[a] = "pending"}

FindPending(r) ==
    /\ At(r, "find")
    /\ run' = [run EXCEPT ![r].pc = "next", ![r].left = ToMessage]
    /\ shared' = shared \cup UNION {ToMessage \cap run[q].left : q \in Runs \ {r}}
    /\ UNCHANGED <<campaign, recipient, deleting, bounds, messaged, stopped, lost, unsure, refused>>

\* _deliver_message_campaign_item for the next recipient: the lead is gone, no
\* provider takes the message, it is sent, or something raises, before or after
\* the message went out. Every answer whose status is none of three counts as
\* sent, an error body that carries its own status among them.
Deliver(r) ==
    /\ At(r, "next")
    /\ \E a \in run[r].left, result \in Result, raises, out \in BOOLEAN :
          /\ out => result = "sent" \/ raises
          /\ raises => result = "failed"
          /\ run' = [run EXCEPT ![r].pc = IF raises THEN "note" ELSE "store",
                                ![r].user = a, ![r].result = result, ![r].out = out]
          /\ messaged' = IF out THEN [messaged EXCEPT ![a] = @ + 1] ELSE messaged
          /\ unsure' = IF out /\ raises THEN unsure \cup {a} ELSE unsure
          /\ refused' = IF result = "sent" /\ ~out THEN refused \cup {a} ELSE refused
    /\ UNCHANGED <<campaign, recipient, deleting, bounds, stopped, shared, lost>>

\* The error is stored first.
NoteError(r) ==
    /\ At(r, "note")
    /\ run' = [run EXCEPT ![r].pc = "store"]
    /\ UNCHANGED <<campaign, recipient, deleting, bounds, obsVars>>

\* mutant: whatever was handed to a provider counts as sent.
StoredSent(q) == IF q.result = "pending_provider" THEN "sent" ELSE q.result

Stored(q) == q.result

\* The status replaces whatever is there by now.
StoreResult(r) ==
    /\ At(r, "store")
    /\ recipient' = [recipient EXCEPT ![run[r].user] = Stored(run[r])]
    /\ run' = [run EXCEPT ![r] = [NoRun EXCEPT !.pc = "next", !.left = run[r].left \ {run[r].user},
                                    !.waiting = run[r].waiting \/ run[r].result = "pending_provider"]]
    /\ UNCHANGED <<campaign, deleting, bounds, obsVars>>

FinishRun(r) ==
    /\ At(r, "next")
    /\ run[r].left = {}
    /\ campaign' = IF run[r].waiting THEN "completed_with_pending_provider" ELSE "completed"
    /\ Leave(r)
    /\ UNCHANGED <<recipient, deleting, bounds, obsVars>>

\* The process ends, or one of the updates raises.
Stop(r) ==
    /\ ~At(r, "idle")
    /\ stops < MaxStops
    /\ stops' = stops + 1
    /\ lost' = lost \cup (IF run[r].out THEN {run[r].user} ELSE {})
    /\ Leave(r)
    /\ UNCHANGED <<campaign, recipient, deleting, starts, edits, messaged, stopped, shared, unsure,
                   refused>>

PauseCampaign ==
    /\ edits < MaxEdits
    /\ edits' = edits + 1
    /\ campaign' = "paused"
    /\ UNCHANGED <<recipient, deleting, run, starts, stops, obsVars>>

\* delete_message_campaign: first the campaign, then the recipients.
CancelCampaign ==
    /\ ~deleting
    /\ edits < MaxEdits
    /\ edits' = edits + 1
    /\ campaign' = "cancelled"
    /\ deleting' = TRUE
    /\ UNCHANGED <<recipient, run, starts, stops, obsVars>>

CancelRecipients ==
    /\ deleting
    /\ deleting' = FALSE
    /\ recipient' = [a \in Recipients |-> IF recipient[a] = "pending" THEN "cancelled" ELSE recipient[a]]
    /\ stopped' = stopped \cup {a \in Recipients : recipient[a] = "pending"}
    /\ UNCHANGED <<campaign, run, bounds, messaged, shared, lost, unsure, refused>>

-----------------------------------------------------------------------------
Init ==
    /\ campaign = "draft"
    /\ recipient = [a \in Recipients |-> "absent"]
    /\ deleting = FALSE
    /\ run = [r \in Runs |-> NoRun]
    /\ starts = 0 /\ stops = 0 /\ edits = 0
    /\ messaged = [a \in Recipients |-> 0]
    /\ stopped = {} /\ shared = {} /\ lost = {} /\ unsure = {} /\ refused = {}

RunStep(r) ==
    StartCampaign(r) \/ FindPending(r) \/ Deliver(r) \/ NoteError(r) \/ StoreResult(r)
        \/ FinishRun(r) \/ Stop(r)

Next ==
    \/ \E r \in Runs : RunStep(r)
    \/ \E a \in Recipients : AddRecipient(a)
    \/ PauseCampaign \/ CancelCampaign \/ CancelRecipients

Spec == Init /\ [][Next]_vars

-----------------------------------------------------------------------------
(***************************************************************************)
(* Properties.                                                             *)
(***************************************************************************)
\* Statuses and locals keep their types; a start at a recipient found it.
TypeOK ==
    /\ campaign \in CampaignStatus
    /\ recipient \in [Recipients -> RecipientStatus]
    /\ deleting \in BOOLEAN
    /\ run \in [Runs -> Run]
    /\ \A r \in Runs : IF run[r].pc \in {"note", "store"} THEN run[r].user \in run[r].left
                                                           ELSE ~run[r].out
    /\ starts \in Nat /\ stops \in Nat /\ edits \in Nat
    /\ messaged \in [Recipients -> Nat]
    /\ stopped \subseteq Recipients /\ shared \subseteq Recipients
    /\ lost \subseteq Recipients /\ unsure \subseteq Recipients /\ refused \subseteq Recipients

\* A start that has still to store that its message to a went out.
Storing(a) == \E r \in Runs : run[r].user = a /\ run[r].out

\* Nobody is messaged twice by starting a campaign again and again, whatever
\* failed, raised or was cancelled: a second message needs two starts that had
\* the recipient together, or one that ended before it stored the first.
RemessageNeedsRaceOrStop ==
    \A a \in Recipients : messaged[a] > 1 => a \in shared \cup lost

\* Statuses tell what happened. The message of a recipient no two starts shared,
\* no start was ended on and no call raised for after the message went out shows:
\* the status says sent or a start has still to store that. And whoever the status
\* says was sent a message got one, whatever starts, deletions and errors came
\* between, but for an answer that counted as sent although nothing went out.
StatusTellsMessage ==
    \A a \in Recipients :
        /\ messaged[a] > 0 /\ a \notin shared \cup lost \cup unsure =>
              recipient[a] = "sent" \/ Storing(a)
        /\ recipient[a] = "sent" => messaged[a] > 0 \/ a \in refused

\* A start after a cancellation takes no recipient it reached, although starts
\* under way overwrite the status and the campaign may be started again.
CancelledIsNotTaken ==
    [][\A r \in Runs : At(r, "find") /\ run'[r].pc = "next" =>
          run'[r].left \cap stopped = {}]_vars

\* Starts are the actors, recipients with no outcome yet what is open.
Unmessaged == {a \in Recipients : recipient[a] \in {"absent", "pending"}}

LeftTo == [r \in Runs |-> run[r].left]

Messages == INSTANCE CheckThenAct WITH
    Items <- Recipients, Actors <- Runs, open <- Unmessaged, held <- LeftTo,
    acts <- messaged, excused <- shared \cup lost

\* Starting a campaign again and again messages its recipients as CheckThenAct
\* promises, whatever deletions, creations and errors come between.
ImplementsCheckThenAct == Messages!Spec

=============================================================================

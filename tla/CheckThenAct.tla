---------------------------- MODULE CheckThenAct -----------------------------
(***************************************************************************)
(* What the jobs promise that look up what is still open, act on it in the *)
(* outside world and then record that, without a lock: nothing is acted on *)
(* twice but what is excused, and only that is excused which two actors    *)
(* had at the same time, which an actor left, or was unsure of, before it  *)
(* recorded it, or which the outside world itself opened again.            *)
(* DailyReport (reports mailed), CallCampaign (numbers dialed),            *)
(* MessageCampaign (recipients messaged) and WhatsAppInbox (messages       *)
(* stored) implement this module.                                          *)
(***************************************************************************)
EXTENDS Naturals

CONSTANTS Items, Actors

VARIABLES
    open,    \* the items the records show as still to be done
    held,    \* per actor, the items it found open and is not done with
    acts,    \* how often each item was acted on
    excused  \* the items that may be acted on again

vars == <<open, held, acts, excused>>

Init ==
    /\ open = Items
    /\ held = [w \in Actors |-> {}]
    /\ acts = [i \in Items |-> 0]
    /\ excused = {}

\* Whoever comes with free hands takes open items; those it shares are excused.
Take(w, S) ==
    /\ held[w] = {}
    /\ S \subseteq open
    /\ held' = [held EXCEPT ![w] = S]
    /\ excused' = excused \cup {i \in S : \E v \in Actors : i \in held[v]}
    /\ UNCHANGED <<open, acts>>

\* The promise: an item acted on before is not acted on again unless excused.
MayAct(w, i) ==
    /\ i \in held[w]
    /\ acts[i] = 0 \/ i \in excused

\* The call raises perhaps although the act took place.
Act(w, i) ==
    /\ MayAct(w, i)
    /\ acts' = [acts EXCEPT ![i] = @ + 1]
    /\ excused' \in {excused, excused \cup {i}}
    /\ UNCHANGED <<open, held>>

\* An act that is its own record.
ActOnRecord(w, i) ==
    /\ MayAct(w, i)
    /\ acts' = [acts EXCEPT ![i] = @ + 1]
    /\ open' = open \ {i}
    /\ held' = [held EXCEPT ![w] = @ \ {i}]
    /\ UNCHANGED excused

\* Recording that the item was acted on raises, whether or not it took effect.
Doubt(w, i) ==
    /\ i \in held[w]
    /\ excused' = excused \cup {i}
    /\ open' \in {open, open \ {i}}
    /\ UNCHANGED <<held, acts>>

\* The actor is done with an item: it closes it, or leaves it open, which it
\* may only if nobody acted on it, or opens it again.
Settle(w, i) ==
    /\ i \in held[w]
    /\ \/ open' = open \ {i}
       \/ open' = open /\ MayAct(w, i)
       \/ open' = open \cup {i} /\ i \in excused
    /\ held' = [held EXCEPT ![w] = @ \ {i}]
    /\ UNCHANGED <<acts, excused>>

\* The actor ends: what it acted on and did not record is excused.  It may have
\* opened such items again.
Leave(w) ==
    /\ \E S \in SUBSET held[w] : excused' = excused \cup S
    /\ \E S \in SUBSET held[w] : S \subseteq excused' /\ open' = open \cup S
    /\ \A i \in held[w] \cap open : acts[i] = 0 \/ i \in excused'
    /\ held' = [held EXCEPT ![w] = {}]
    /\ UNCHANGED acts

\* Whoever was acted on asks for it again; an actor that records this answer may
\* be done with the item.
Reopen(i) ==
    /\ open' = open \cup {i}
    /\ excused' = excused \cup {i}
    /\ \/ UNCHANGED held
       \/ \E w \in Actors : i \in held[w] /\ held' = [held EXCEPT ![w] = @ \ {i}]
    /\ UNCHANGED acts

\* Others close items: cancellations, expiry, what a provider reports.
Withdraw(S) ==
    /\ open' = open \ S
    /\ UNCHANGED <<held, acts, excused>>

Next ==
    \/ \E w \in Actors :
          \/ \E S \in SUBSET Items : Take(w, S)
          \/ \E i \in Items : Act(w, i) \/ ActOnRecord(w, i) \/ Doubt(w, i) \/ Settle(w, i)
          \/ Leave(w)
    \/ \E i \in Items : Reopen(i)
    \/ \E S \in SUBSET Items : Withdraw(S)

Spec == Init /\ [][Next]_vars

=============================================================================

--------------------------- MODULE WhatsAppInbox ----------------------------
(***************************************************************************)
(* The WhatsApp chats of one phone number within one organisation: the     *)
(* webhook that stores inbound messages once, sending texts and media, and *)
(* reading, each of which looks for the chat and inserts one when there is *)
(* none. Executives have accounts and chats of their own; everybody else   *)
(* uses any chat of the number. A request may end between any two awaits.  *)
(***************************************************************************)
EXTENDS Naturals, FiniteSets

CONSTANTS
    Executives, \* executives with a WhatsApp account of their own
    Pids,       \* ids the provider gives to inbound messages
    SentIds,    \* ids the provider gives to texts it sends; it never reports one as inbound
    Reqs,       \* webhook calls and user requests that may be under way at once
    MaxChats,   \* bound: chats ever inserted
    MaxMsgs,    \* bound: messages ever inserted
    MaxStarts,  \* bound: requests
    MaxKills,   \* bound: requests that end early
    None        \* no document, no id, no account

ASSUME WhatsAppInboxAssumption ==
    /\ MaxChats \in Nat /\ MaxMsgs \in Nat /\ MaxStarts \in Nat /\ MaxKills \in Nat
    /\ IsFiniteSet(Reqs)
    /\ None \notin Executives /\ None \notin Pids /\ None \notin 1..MaxChats
    /\ SentIds \cap (Pids \cup {None}) = {}
    /\ None \notin [owner : Executives \cup {None}, lead : BOOLEAN, unread : Nat]
    /\ None \notin [chat : 1..MaxChats, kind : {"hook", "text", "media"},
                    pid : Pids \cup SentIds \cup {None}, account : Executives \cup {None}]

VARIABLES
    lead,     \* a lead with the number exists
    chat,     \* document of each id in db.whatsapp_conversations, or None
    msg,      \* document of each id in db.whatsapp_messages, or None
    chats,    \* chats inserted so far
    msgs,     \* messages inserted so far
    req,      \* locals of each request
    starts, kills,
    raced     \* ids that two webhook calls looked up before either stored one (observation)

counts == <<chats, msgs>>
bounds == <<starts, kills>>
vars == <<lead, chat, msg, counts, req, bounds, raced>>

Accounts == Executives \cup {None}
ChatIds == 1..MaxChats
MsgIds == 1..MaxMsgs
Chat == [owner : Accounts, lead : BOOLEAN, unread : Nat]
Kinds == {"hook", "text", "media", "read"}
Ids == Pids \cup SentIds \cup {None}
Message == [chat : ChatIds, kind : Kinds \ {"read"}, pid : Ids, account : Accounts]

\* account is the executive whose account received a message, or who asks;
\* seen is the chat as found, lead whether a lead was.
Request == [pc : {"idle", "dup", "lead", "chat", "create", "call", "store", "touch"},
            kind : Kinds, pid : Ids, account : Accounts, lead : BOOLEAN,
            chat : ChatIds \cup {None}, seen : Chat]
NoRequest == [pc |-> "idle", kind |-> "read", pid |-> None, account |-> None, lead |-> FALSE,
              chat |-> None, seen |-> [owner |-> None, lead |-> FALSE, unread |-> 0]]

At(r, p) == req[r].pc = p
Go(r, p) == req' = [req EXCEPT ![r].pc = p]
Leave(r) == req' = [req EXCEPT ![r] = NoRequest]
stored == {m \in MsgIds : msg[m] # None}
open == {c \in ChatIds : chat[c] # None}

-----------------------------------------------------------------------------
Begin(r, q) ==
    /\ At(r, "idle")
    /\ starts < MaxStarts
    /\ starts' = starts + 1
    /\ req' = [req EXCEPT ![r] = q]
    /\ UNCHANGED <<lead, chat, msg, counts, kills, raced>>

\* The provider reports a message, once or again; some have no id.
Deliver(r) ==
    \E pid \in Pids \cup {None}, account \in Accounts :
        Begin(r, [NoRequest EXCEPT !.kind = "hook", !.pid = pid, !.account = account,
                                   !.pc = IF pid = None THEN "lead" ELSE "dup"])

\* A user sends a text or media to the lead, or reads its messages.
Ask(r) ==
    /\ lead
    /\ \E kind \in Kinds \ {"hook"}, account \in Accounts :
          Begin(r, [NoRequest EXCEPT !.kind = kind, !.account = account, !.lead = TRUE,
                                     !.pc = "chat"])

\* mutant: messages are not looked up by the provider's id.
SeenNever(pid) == FALSE

Seen(pid) == \E m \in stored : msg[m].pid = pid

\* Between the lookup for p and the insertion.
Past(r, p) == req[r].pid = p /\ req[r].pc \in {"lead", "chat", "create", "call", "store"}

FindDuplicate(r) ==
    /\ At(r, "dup")
    /\ LET pid == req[r].pid IN
       IF Seen(pid) THEN Leave(r) /\ UNCHANGED raced
       ELSE /\ Go(r, "lead")
            /\ raced' = raced \cup {p \in {pid} : \E o \in Reqs \ {r} : Past(o, p)}
    /\ UNCHANGED <<lead, chat, msg, counts, bounds>>

FindLead(r) ==
    /\ At(r, "lead")
    /\ req' = [req EXCEPT ![r].pc = "chat", ![r].lead = lead]
    /\ UNCHANGED <<lead, chat, msg, counts, bounds, raced>>

\* mutant: the account is not part of the query.
MatchesAny(c, q) == q.kind # "hook" => chat[c].lead

Matches(c, q) ==
    /\ q.account # None => chat[c].owner = q.account
    /\ q.kind # "hook" => chat[c].lead

\* Where a request goes with its chat.
WithChat(q) == CASE q.kind = "hook" -> "store" [] q.kind = "read" -> "idle" [] OTHER -> "call"
Take(r, c, d) ==
    req' = [req EXCEPT ![r] = IF req[r].kind = "read" THEN NoRequest
                              ELSE [@ EXCEPT !.pc = WithChat(req[r]), !.chat = c, !.seen = d]]

FindChat(r) ==
    /\ At(r, "chat")
    /\ \/ \E c \in open : Matches(c, req[r]) /\ Take(r, c, chat[c])
       \/ (\A c \in open : ~Matches(c, req[r])) /\ Go(r, "create")
    /\ UNCHANGED <<lead, chat, msg, counts, bounds, raced>>

\* mutant: a chat starts without a count.
NewChatUncounted(q) == [owner |-> q.account, lead |-> q.lead]

NewChat(q) == [owner |-> q.account, lead |-> q.lead, unread |-> 0]

InsertChat(r) ==
    /\ At(r, "create")
    /\ chats < MaxChats
    /\ chats' = chats + 1
    /\ chat' = [chat EXCEPT ![chats + 1] = NewChat(req[r])]
    /\ Take(r, chats + 1, NewChat(req[r]))
    /\ UNCHANGED <<lead, msg, msgs, bounds, raced>>

\* Ids that may come with the answer: a text is stored with it, media without.
AnswerIds(q) ==
    IF q.kind = "text"
      THEN {i \in SentIds : ~Seen(i) /\ \A o \in Reqs : req[o].pid # i} \cup {None}
      ELSE {q.pid}

\* The provider answers.  Nothing is stored of a text it refuses or of media that
\* cannot be sent; other refused media are stored with their error.
CallProvider(r) ==
    /\ At(r, "call")
    /\ \/ Leave(r)
       \/ \E i \in AnswerIds(req[r]) :
             req' = [req EXCEPT ![r] = [@ EXCEPT !.pc = "store", !.pid = i]]
    /\ UNCHANGED <<lead, chat, msg, counts, bounds, raced>>

InsertMessage(r) ==
    /\ At(r, "store")
    /\ msgs < MaxMsgs
    /\ msgs' = msgs + 1
    /\ msg' = [msg EXCEPT ![msgs + 1] = [chat |-> req[r].chat, kind |-> req[r].kind,
                                         pid |-> req[r].pid, account |-> req[r].account]]
    /\ Go(r, "touch")
    /\ UNCHANGED <<lead, chat, chats, bounds, raced>>

\* mutant: the count is the one read, plus one.
TouchedStale(d, q) ==
    [unread |-> q.seen.unread + 1, lead |-> q.lead \/ q.seen.lead,
     owner |-> IF q.account # None THEN q.account ELSE q.seen.owner]

\* {"$set": ..., "$inc": {"unread_count": 1}}: owner and lead are written as read.
Touched(d, q) ==
    [unread |-> d.unread + 1, lead |-> q.lead \/ q.seen.lead,
     owner |-> IF q.account # None THEN q.account ELSE q.seen.owner]

\* A message that was sent sets no field modelled here.
TouchChat(r) ==
    /\ At(r, "touch")
    /\ chat' = IF req[r].kind = "hook" THEN [chat EXCEPT ![req[r].chat] = Touched(@, req[r])] ELSE chat
    /\ Leave(r)
    /\ UNCHANGED <<lead, msg, counts, bounds, raced>>

Kill(r) ==
    /\ ~At(r, "idle")
    /\ kills < MaxKills
    /\ kills' = kills + 1
    /\ Leave(r)
    /\ UNCHANGED <<lead, chat, msg, counts, starts, raced>>

\* Intake, an import or a user enters a lead with the number.
LeadArrives ==
    /\ ~lead
    /\ lead' = TRUE
    /\ UNCHANGED <<chat, msg, counts, req, bounds, raced>>

-----------------------------------------------------------------------------
Init ==
    /\ lead \in BOOLEAN
    /\ chat = [c \in ChatIds |-> None]
    /\ msg = [m \in MsgIds |-> None]
    /\ chats = 0 /\ msgs = 0
    /\ req = [r \in Reqs |-> NoRequest]
    /\ starts = 0 /\ kills = 0
    /\ raced = {}

ReqStep(r) ==
    \/ Deliver(r) \/ Ask(r) \/ FindDuplicate(r) \/ FindLead(r) \/ FindChat(r)
    \/ InsertChat(r) \/ CallProvider(r) \/ InsertMessage(r) \/ TouchChat(r) \/ Kill(r)

Next ==
    \/ \E r \in Reqs : ReqStep(r)
    \/ LeadArrives

Spec == Init /\ [][Next]_vars

-----------------------------------------------------------------------------
(***************************************************************************)
(* Properties.                                                             *)
(***************************************************************************)
\* Documents and locals keep their types, ids are used in order, a request with
\* a message to store has a chat, and only an inbound message's id is looked up.
TypeOK ==
    /\ lead \in BOOLEAN
    /\ chats \in 0..MaxChats /\ msgs \in 0..MaxMsgs
    /\ chat \in [ChatIds -> Chat \cup {None}] /\ open = 1..chats
    /\ msg \in [MsgIds -> Message \cup {None}] /\ stored = 1..msgs
    /\ req \in [Reqs -> Request]
    /\ starts \in Nat /\ kills \in Nat
    /\ raced \subseteq Pids
    /\ \A r \in Reqs : req[r].pc \in {"call", "store", "touch"} =>
          req[r].chat \in open /\ req[r].kind # "read"
    /\ \A r \in Reqs : At(r, "dup") => req[r].pid \in Pids

\* However often the provider repeats a message, it is stored once, unless two
\* calls with its id were both past the lookup before either had stored it.
StoredOnceUnlessRaced ==
    \A m, n \in stored : m # n /\ msg[m].pid \in Pids /\ msg[m].pid = msg[n].pid => msg[m].pid \in raced

Inbound(c) == {m \in stored : msg[m].chat = c /\ msg[m].kind = "hook"}
ToCount(c) == {r \in Reqs : At(r, "touch") /\ req[r].kind = "hook" /\ req[r].chat = c}

\* A chat's unread count is the number of its inbound messages, but for those a
\* call has still to count and one for each call that ended before it could;
\* calls that count at the same time lose nothing, and nothing is counted twice.
UnreadIsCounted ==
    \A c \in open :
        /\ chat[c].unread + Cardinality(ToCount(c)) <= Cardinality(Inbound(c))
        /\ Cardinality(Inbound(c)) <= chat[c].unread + Cardinality(ToCount(c)) + kills

\* A message received by an executive's account is in a chat of this executive,
\* whoever else wrote to or updated the chat from an older copy.
AccountMessageInOwnChat ==
    \A m \in stored : msg[m].kind = "hook" /\ msg[m].account # None =>
        chat[msg[m].chat].owner = msg[m].account

\* Webhook calls are the actors, ids that are not stored what is open.
Unstored == {p \in Pids : ~Seen(p)}

LookedUp == [r \in Reqs |-> {p \in Pids : Past(r, p)}]

Copies == [p \in Pids |-> Cardinality({m \in stored : msg[m].pid = p})]

Inbox == INSTANCE CheckThenAct WITH
    Items <- Pids, Actors <- Reqs, open <- Unstored, held <- LookedUp,
    acts <- Copies, excused <- raced

\* Repeated messages are stored as CheckThenAct promises, the insertion being
\* its own record: a second copy needs two calls that looked the id up together.
ImplementsCheckThenAct == Inbox!Spec

=============================================================================

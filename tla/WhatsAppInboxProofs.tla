------------------------ MODULE WhatsAppInboxProofs -------------------------
(***************************************************************************)
(* Proofs about WhatsAppInbox for any executives, messages and requests.   *)
(***************************************************************************)
EXTENDS WhatsAppInbox, FiniteSetTheorems, TLAPS

-----------------------------------------------------------------------------
(***************************************************************************)
(* Types.                                                                  *)
(***************************************************************************)

\* What a request looks like after each kind of change of its locals.
LEMMA RequestTypes ==
    ASSUME NEW q \in Request
    PROVE  /\ NoRequest \in Request
           /\ \A p \in {"lead", "create", "store", "touch"} : [q EXCEPT !.pc = p] \in Request
           /\ \A b \in BOOLEAN : [q EXCEPT !.pc = "chat", !.lead = b] \in Request
           /\ \A i \in Ids : [q EXCEPT !.pc = "store", !.pid = i] \in Request
           /\ \A p \in {"call", "store"}, c \in ChatIds, d \in Chat :
                 [q EXCEPT !.pc = p, !.chat = c, !.seen = d] \in Request
           /\ \A p \in {"dup", "lead"}, i \in Pids \cup {None}, a \in Accounts :
                 [NoRequest EXCEPT !.kind = "hook", !.pid = i, !.account = a, !.pc = p] \in Request
           /\ \A k \in Kinds, a \in Accounts :
                 [NoRequest EXCEPT !.kind = k, !.account = a, !.lead = TRUE, !.pc = "chat"] \in Request
<1> USE DEF Request, NoRequest, Kinds, Chat, Accounts, Ids
<1>1. NoRequest \in Request
  OBVIOUS
<1>2. \A p \in {"lead", "create", "store", "touch"} : [q EXCEPT !.pc = p] \in Request
  OBVIOUS
<1>3. \A b \in BOOLEAN : [q EXCEPT !.pc = "chat", !.lead = b] \in Request
  OBVIOUS
<1>4. \A p \in {"call", "store"}, c \in ChatIds, d \in Chat :
         [q EXCEPT !.pc = p, !.chat = c, !.seen = d] \in Request
  OBVIOUS
<1>5. \A p \in {"dup", "lead"}, i \in Pids \cup {None}, a \in Accounts :
         [NoRequest EXCEPT !.kind = "hook", !.pid = i, !.account = a, !.pc = p] \in Request
  OBVIOUS
<1>6. \A k \in Kinds, a \in Accounts :
         [NoRequest EXCEPT !.kind = k, !.account = a, !.lead = TRUE, !.pc = "chat"] \in Request
  OBVIOUS
<1>7. \A i \in Ids : [q EXCEPT !.pc = "store", !.pid = i] \in Request
  OBVIOUS
<1> QED
  BY <1>1, <1>2, <1>3, <1>4, <1>5, <1>6, <1>7

\* Neither documents nor messages are None, and what steps make are documents.
LEMMA Documents ==
    /\ None \notin Chat /\ None \notin Message /\ None \notin ChatIds
    /\ \A q \in Request : NewChat(q) \in Chat
    /\ \A d \in Chat, q \in Request : Touched(d, q) \in Chat
    /\ \A q \in Request, c \in ChatIds : q.kind # "read" =>
          [chat |-> c, kind |-> q.kind, pid |-> q.pid, account |-> q.account] \in Message
<1>1. None \notin Chat /\ None \notin ChatIds
  BY WhatsAppInboxAssumption DEF Chat, Accounts, ChatIds
<1>2. None \notin Message
  <2>1. Kinds \ {"read"} = {"hook", "text", "media"}
    BY DEF Kinds
  <2> QED
    BY <2>1, WhatsAppInboxAssumption DEF Message, Ids, Accounts, ChatIds
<1>3. \A q \in Request : NewChat(q) \in Chat
  BY DEF Request, NewChat, Chat
<1>4. \A d \in Chat, q \in Request : Touched(d, q) \in Chat
  BY DEF Request, Touched, Chat
<1>5. \A q \in Request, c \in ChatIds : q.kind # "read" =>
          [chat |-> c, kind |-> q.kind, pid |-> q.pid, account |-> q.account] \in Message
  BY DEF Request, Message
<1> QED
  BY <1>1, <1>2, <1>3, <1>4, <1>5

\* Locals a request may have while n chats are stored.
Good(q, n) ==
    /\ q \in Request
    /\ q.pc \in {"call", "store", "touch"} => q.chat \in 1..n /\ q.kind # "read"
    /\ q.pc = "dup" => q.pid \in Pids

\* What TypeOK says of numbers, documents and locals.
LEMMA TypeFacts ==
    ASSUME TypeOK
    PROVE  /\ chats \in 0..MaxChats /\ msgs \in 0..MaxMsgs /\ MaxChats \in Nat /\ MaxMsgs \in Nat
           /\ open = 1..chats /\ stored = 1..msgs
           /\ \A c \in open : chat[c] \in Chat /\ c \in ChatIds
           /\ \A m \in stored : msg[m] \in Message /\ m \in MsgIds
           /\ req \in [Reqs -> Request] /\ \A r \in Reqs : Good(req[r], chats)
           /\ Good(NoRequest, chats)
<1>1. \A r \in Reqs : Good(req[r], chats)
  BY DEF TypeOK, Good, At
<1>2. Good(NoRequest, chats)
  BY RequestTypes DEF Good, NoRequest, Request, Kinds, Chat, Accounts, Ids
<1> QED
  BY <1>1, <1>2, WhatsAppInboxAssumption DEF TypeOK, open, stored

\* Every chat has an id that is in use, and its document.
LEMMA TakeStep ==
    ASSUME TypeOK, NEW r \in Reqs, NEW n \in Nat, chats <= n, n <= MaxChats,
           NEW c \in 1..n, NEW d \in Chat, Take(r, c, d)
    PROVE  \E q : Good(q, n) /\ req' = [req EXCEPT ![r] = q]
<1>0. req[r] \in Request /\ Good(NoRequest, n) /\ c \in ChatIds
  BY TypeFacts DEF ChatIds, Good, NoRequest
<1>1. CASE req[r].kind = "read"
  BY <1>0, <1>1 DEF Take
<1>2. CASE req[r].kind # "read"
  <2> DEFINE q == [req[r] EXCEPT !.pc = WithChat(req[r]), !.chat = c, !.seen = d]
  <2>1. WithChat(req[r]) \in {"call", "store"}
    BY <1>0, <1>2 DEF WithChat, Request, Kinds
  <2>2. q \in Request
    BY <1>0, <2>1, RequestTypes
  <2>3. q.chat = c /\ q.kind = req[r].kind /\ q.pc # "dup"
    BY <1>0, <2>1 DEF Request
  <2>4. req' = [req EXCEPT ![r] = q]
    BY <1>2 DEF Take
  <2> HIDE DEF q
  <2> QED
    BY <1>2, <2>2, <2>3, <2>4 DEF Good
<1> QED
  BY <1>1, <1>2

\* A step of a request changes its own locals only, to good ones.
LEMMA LocalsStep ==
    ASSUME TypeOK, NEW r \in Reqs, ReqStep(r)
    PROVE  \E q : Good(q, chats') /\ req' = [req EXCEPT ![r] = q]
<1> DEFINE Old == req[r]
<1>0. /\ Old \in Request /\ Good(Old, chats) /\ Good(NoRequest, chats) /\ chats \in 0..MaxChats
      /\ MaxChats \in Nat /\ req \in [Reqs -> Request]
  BY TypeFacts
<1>1. CASE Leave(r) /\ chats' = chats
  BY <1>0, <1>1 DEF Leave
<1>2. ASSUME NEW p \in {"lead", "create", "store", "touch"}, Go(r, p), chats' = chats,
             p \in {"store", "touch"} => Old.pc \in {"call", "store"}
      PROVE  \E q : Good(q, chats') /\ req' = [req EXCEPT ![r] = q]
  <2> DEFINE q == [Old EXCEPT !.pc = p]
  <2>0. q \in Request
    BY <1>0, RequestTypes
  <2>1. q \in Request /\ q.pc = p /\ p # "dup" /\ q.chat = Old.chat /\ q.kind = Old.kind
    BY <1>0, <2>0 DEF Request
  <2>2. req' = [req EXCEPT ![r] = q]
    BY <1>2 DEF Go
  <2> HIDE DEF q
  <2> QED
    BY <1>0, <1>2, <2>1, <2>2 DEF Good
<1>3. CASE Deliver(r) \/ Ask(r)
  <2>1. PICK q \in Request : /\ q.pc \in {"dup", "lead", "chat"} /\ (q.pc = "dup" => q.pid \in Pids)
                            /\ req' = [req EXCEPT ![r] = q] /\ chats' = chats
    <3>1. CASE Deliver(r)
      <4>1. PICK i \in Pids \cup {None}, a \in Accounts :
               Begin(r, [NoRequest EXCEPT !.kind = "hook", !.pid = i, !.account = a,
                                          !.pc = IF i = None THEN "lead" ELSE "dup"])
        BY <3>1 DEF Deliver
      <4> DEFINE p == IF i = None THEN "lead" ELSE "dup"
                 q == [NoRequest EXCEPT !.kind = "hook", !.pid = i, !.account = a, !.pc = p]
      <4>2. p \in {"dup", "lead"}
        OBVIOUS
      <4>3. q \in Request
        BY <1>0, <4>2, RequestTypes
      <4>4. q.pc = p /\ q.pid = i
        BY DEF NoRequest
      <4> QED
        BY <4>1, <4>2, <4>3, <4>4 DEF Begin, counts
    <3>2. CASE Ask(r)
      <4>1. PICK k \in Kinds, a \in Accounts :
               Begin(r, [NoRequest EXCEPT !.kind = k, !.account = a, !.lead = TRUE, !.pc = "chat"])
        BY <3>2 DEF Ask
      <4> DEFINE q == [NoRequest EXCEPT !.kind = k, !.account = a, !.lead = TRUE, !.pc = "chat"]
      <4>3. q \in Request
        BY <1>0, RequestTypes
      <4>4. q.pc = "chat"
        BY DEF NoRequest
      <4> QED
        BY <4>1, <4>3, <4>4 DEF Begin, counts
    <3> QED
      BY <1>3, <3>1, <3>2
  <2> QED
    BY <2>1 DEF Good
<1>4. CASE FindDuplicate(r)
  BY <1>1, <1>2, <1>4 DEF FindDuplicate, counts
<1>5. CASE FindLead(r)
  <2> DEFINE q == [Old EXCEPT !.pc = "chat", !.lead = lead]
  <2>0. q \in Request
    BY <1>0, RequestTypes DEF TypeOK
  <2>1. q \in Request /\ q.pc = "chat"
    BY <1>0, <2>0 DEF Request
  <2>2. req' = [req EXCEPT ![r] = q] /\ chats' = chats
    BY <1>5 DEF FindLead, counts
  <2> HIDE DEF q
  <2> QED
    BY <2>1, <2>2 DEF Good
<1>6. CASE FindChat(r)
  <2>1. CASE \E c \in open : Take(r, c, chat[c])
    <3>1. PICK c \in open : Take(r, c, chat[c])
      BY <2>1
    <3>2. c \in 1..chats /\ chat[c] \in Chat /\ chats \in Nat /\ chats <= MaxChats
      BY <1>0, TypeFacts
    <3> QED
      BY <1>6, <3>1, <3>2, TakeStep DEF FindChat, counts
  <2> QED
    BY <1>2, <1>6, <2>1 DEF FindChat, counts
<1>7. CASE InsertChat(r)
  <2>1. /\ chats' = chats + 1 /\ chats + 1 <= MaxChats /\ chats + 1 \in Nat /\ chats + 1 \in 1..(chats + 1)
        /\ NewChat(Old) \in Chat
    BY <1>0, <1>7, Documents DEF InsertChat
  <2>2. Take(r, chats + 1, NewChat(Old))
    BY <1>7 DEF InsertChat
  <2> QED
    BY <1>0, <2>1, <2>2, TakeStep
<1>8. CASE CallProvider(r)
  <2>1. ASSUME NEW i \in AnswerIds(Old),
               req' = [req EXCEPT ![r] = [@ EXCEPT !.pc = "store", !.pid = i]]
        PROVE  \E q : Good(q, chats') /\ req' = [req EXCEPT ![r] = q]
    <3> DEFINE q == [Old EXCEPT !.pc = "store", !.pid = i]
    <3>1. i \in Ids
      BY <1>0 DEF AnswerIds, Ids, Request
    <3>2. q \in Request
      BY <1>0, <3>1, RequestTypes
    <3>3. q.pc = "store" /\ q.chat = Old.chat /\ q.kind = Old.kind
      BY <1>0 DEF Request
    <3>4. Old.pc = "call" /\ chats' = chats /\ req' = [req EXCEPT ![r] = q]
      BY <1>8, <2>1 DEF CallProvider, At, counts
    <3> HIDE DEF q
    <3> QED
      BY <1>0, <3>2, <3>3, <3>4 DEF Good
  <2> QED
    BY <1>1, <1>8, <2>1 DEF CallProvider, counts
<1>9. CASE InsertMessage(r)
  BY <1>2, <1>9 DEF InsertMessage, At
<1>10. CASE TouchChat(r) \/ Kill(r)
  BY <1>1, <1>10 DEF TouchChat, Kill, counts
<1> QED
  BY <1>3, <1>4, <1>5, <1>6, <1>7, <1>8, <1>9, <1>10 DEF ReqStep

LEMMA InitType == ASSUME Init PROVE TypeOK
<1>1. req \in [Reqs -> Request] /\ \A r \in Reqs : req[r].pc = "idle"
  BY DEF Init, Request, NoRequest, Kinds, Chat, Accounts, Ids
<1>2. /\ lead \in BOOLEAN /\ starts \in Nat /\ kills \in Nat /\ raced \subseteq Pids
      /\ chat \in [ChatIds -> Chat \cup {None}] /\ msg \in [MsgIds -> Message \cup {None}]
  BY DEF Init
<1>3. chats \in 0..MaxChats /\ msgs \in 0..MaxMsgs /\ 1..chats = {} /\ 1..msgs = {}
  BY WhatsAppInboxAssumption DEF Init
<1>4. open = {} /\ stored = {}
  BY DEF Init, open, stored
<1> QED
  BY <1>1, <1>2, <1>3, <1>4 DEF TypeOK, At

LEMMA NextType == ASSUME TypeOK, [Next]_vars PROVE TypeOK'
<1>0. /\ chats \in 0..MaxChats /\ msgs \in 0..MaxMsgs /\ MaxChats \in Nat /\ MaxMsgs \in Nat
      /\ open = 1..chats /\ stored = 1..msgs
      /\ chat \in [ChatIds -> Chat \cup {None}] /\ msg \in [MsgIds -> Message \cup {None}]
      /\ \A r \in Reqs : req[r] \in Request
      /\ None \notin Chat /\ None \notin Message
  BY TypeFacts, Documents DEF TypeOK
<1>1. /\ chats' \in 0..MaxChats /\ chats <= chats'
      /\ chat' \in [ChatIds -> Chat \cup {None}] /\ open' = 1..chats'
  <2>1. CASE chats' = chats /\ chat' = chat
    BY <1>0, <2>1 DEF open
  <2>2. ASSUME NEW r \in Reqs, InsertChat(r)
        PROVE  /\ chats' \in 0..MaxChats /\ chats <= chats'
               /\ chat' \in [ChatIds -> Chat \cup {None}] /\ open' = 1..chats'
    <3>1. NewChat(req[r]) \in Chat
      BY <1>0, Documents
    <3>2. chats' = chats + 1 /\ chats + 1 \in 1..MaxChats /\ chat' = [chat EXCEPT ![chats + 1] = NewChat(req[r])]
      BY <1>0, <2>2 DEF InsertChat
    <3> HIDE DEF NewChat
    <3> QED
      BY <1>0, <3>1, <3>2 DEF open, ChatIds
  <2>3. ASSUME NEW r \in Reqs, TouchChat(r)
        PROVE  /\ chats' \in 0..MaxChats /\ chats <= chats'
               /\ chat' \in [ChatIds -> Chat \cup {None}] /\ open' = 1..chats'
    <3>1. chats' = chats /\ req[r].chat \in open
      BY <2>3 DEF TouchChat, counts, TypeOK, At
    <3>2. Touched(chat[req[r].chat], req[r]) \in Chat /\ chat[req[r].chat] \in Chat
      BY <1>0, <3>1, TypeFacts, Documents
    <3>3. chat' = chat \/ chat' = [chat EXCEPT ![req[r].chat] = Touched(chat[req[r].chat], req[r])]
      BY <2>3 DEF TouchChat
    <3> QED
      BY <1>0, <3>1, <3>2, <3>3 DEF open
  <2>4. (\A r \in Reqs : ~InsertChat(r) /\ ~TouchChat(r)) => chats' = chats /\ chat' = chat
    BY DEF Next, ReqStep, Deliver, Ask, Begin, FindDuplicate, FindLead, FindChat, CallProvider,
           InsertMessage, Kill, LeadArrives, vars, counts
  <2> QED
    BY <2>1, <2>2, <2>3, <2>4
<1>2. /\ msgs' \in 0..MaxMsgs /\ msg' \in [MsgIds -> Message \cup {None}] /\ stored' = 1..msgs'
  <2>1. CASE msgs' = msgs /\ msg' = msg
    BY <1>0, <2>1 DEF stored
  <2>2. ASSUME NEW r \in Reqs, InsertMessage(r)
        PROVE  /\ msgs' \in 0..MaxMsgs /\ msg' \in [MsgIds -> Message \cup {None}] /\ stored' = 1..msgs'
    <3> DEFINE d == [chat |-> req[r].chat, kind |-> req[r].kind, pid |-> req[r].pid, account |-> req[r].account]
    <3>1. req[r].chat \in ChatIds /\ req[r].kind # "read"
      BY <2>2, TypeFacts DEF InsertMessage, TypeOK, At
    <3>2. d \in Message
      BY <1>0, <3>1, Documents
    <3>3. msgs' = msgs + 1 /\ msgs + 1 \in 1..MaxMsgs /\ msg' = [msg EXCEPT ![msgs + 1] = d]
      BY <1>0, <2>2 DEF InsertMessage
    <3> HIDE DEF d
    <3> QED
      BY <1>0, <3>2, <3>3 DEF stored, MsgIds
  <2>3. (\A r \in Reqs : ~InsertMessage(r)) => msgs' = msgs /\ msg' = msg
    BY DEF Next, ReqStep, Deliver, Ask, Begin, FindDuplicate, FindLead, FindChat, CallProvider,
           InsertChat, TouchChat, Kill, LeadArrives, vars, counts
  <2> QED
    BY <2>1, <2>2, <2>3
<1>3. /\ req' \in [Reqs -> Request]
      /\ \A r \in Reqs : req'[r].pc \in {"call", "store", "touch"} =>
            req'[r].chat \in 1..chats' /\ req'[r].kind # "read"
      /\ \A r \in Reqs : req'[r].pc = "dup" => req'[r].pid \in Pids
  <2>1. CASE req' = req
    BY <1>0, <1>1, <2>1 DEF TypeOK, At
  <2>2. ASSUME NEW r \in Reqs, NEW q, Good(q, chats'), req' = [req EXCEPT ![r] = q]
        PROVE  /\ req' \in [Reqs -> Request]
               /\ \A o \in Reqs : req'[o].pc \in {"call", "store", "touch"} =>
                     req'[o].chat \in 1..chats' /\ req'[o].kind # "read"
               /\ \A o \in Reqs : req'[o].pc = "dup" => req'[o].pid \in Pids
    <3>1. q \in Request /\ req \in [Reqs -> Request]
      BY <2>2 DEF Good, TypeOK
    <3>2. ASSUME NEW o \in Reqs, o # r
          PROVE  /\ req'[o].pc \in {"call", "store", "touch"} => req'[o].chat \in 1..chats' /\ req'[o].kind # "read"
                 /\ req'[o].pc = "dup" => req'[o].pid \in Pids
      <4>1. req'[o] = req[o]
        BY <2>2, <3>1, <3>2
      <4>2. /\ req[o].pc \in {"call", "store", "touch"} => req[o].chat \in 1..chats /\ req[o].kind # "read"
            /\ req[o].pc = "dup" => req[o].pid \in Pids
        BY <1>0 DEF TypeOK, At
      <4> QED
        BY <1>0, <1>1, <4>1, <4>2
    <3>3. req'[r] = q
      BY <2>2, <3>1
    <3>4. req' \in [Reqs -> Request]
      BY <2>2, <3>1
    <3> QED
      BY <2>2, <3>2, <3>3, <3>4 DEF Good
  <2>3. req' = req \/ \E r \in Reqs : ReqStep(r)
    BY DEF Next, LeadArrives, vars
  <2> QED
    BY <2>1, <2>2, <2>3, LocalsStep
<1>4. lead' \in BOOLEAN /\ starts' \in Nat /\ kills' \in Nat
  <2>0. lead \in BOOLEAN /\ starts \in Nat /\ kills \in Nat /\ starts + 1 \in Nat /\ kills + 1 \in Nat
    BY DEF TypeOK
  <2>1. CASE LeadArrives \/ UNCHANGED vars
    BY <2>0, <2>1 DEF LeadArrives, vars, bounds
  <2>2. ASSUME NEW r \in Reqs, ReqStep(r) PROVE lead' = lead /\ starts' \in Nat /\ kills' \in Nat
    <3>1. CASE Deliver(r) \/ Ask(r)
      BY <2>0, <3>1, Zenon DEF Deliver, Ask, Begin
    <3>2. CASE Kill(r)
      BY <2>0, <3>2, Zenon DEF Kill
    <3>3. CASE ~Deliver(r) /\ ~Ask(r) /\ ~Kill(r)
      BY <2>0, <2>2, <3>3 DEF ReqStep, FindDuplicate, FindLead, FindChat, InsertChat, CallProvider,
             InsertMessage, TouchChat, bounds
    <3> QED
      BY <3>1, <3>2, <3>3
  <2> QED
    BY <2>0, <2>1, <2>2 DEF Next
<1>5. raced' \subseteq Pids
  <2>1. ASSUME NEW r \in Reqs, FindDuplicate(r) PROVE raced' \subseteq Pids
    <3>1. raced \subseteq Pids /\ req[r].pid \in Pids
      BY <1>0, <2>1 DEF TypeOK, Request, FindDuplicate
    <3> QED
      BY <2>1, <3>1 DEF FindDuplicate
  <2> QED
    BY <2>1 DEF TypeOK, Next, ReqStep, Deliver, Ask, Begin, FindLead, FindChat, InsertChat, CallProvider,
           InsertMessage, TouchChat, Kill, LeadArrives, vars
<1> QED
  BY <1>1, <1>2, <1>3, <1>4, <1>5 DEF TypeOK, At

\* TypeOK: documents and locals keep their types.
THEOREM TypeCorrect == Spec => []TypeOK
<1> QED
  BY InitType, NextType, PTL DEF Spec

-----------------------------------------------------------------------------
(***************************************************************************)
(* Messages are stored once.                                               *)
(***************************************************************************)

\* Where each step leads, and with which id.
LEMMA LocalsAfter ==
    ASSUME TypeOK, NEW r \in Reqs, ReqStep(r)
    PROVE  /\ \A o \in Reqs \ {r} : req'[o] = req[o]
           /\ Deliver(r) => req'[r].pc \in {"dup", "lead"} /\ (req'[r].pid # None => req'[r].pc = "dup")
           /\ Ask(r) => req'[r].pid = None /\ req'[r].pc = "chat"
           /\ FindDuplicate(r) => \/ req'[r] = NoRequest /\ raced' = raced
                                  \/ ~Seen(req[r].pid) /\ req'[r].pid = req[r].pid
           /\ FindLead(r) \/ FindChat(r) \/ InsertChat(r) =>
                 \/ req'[r] = NoRequest
                 \/ /\ req'[r].pid = req[r].pid /\ req'[r].pc \in {"chat", "create", "call", "store"}
                    /\ req[r].pc \in {"lead", "chat", "create"}
           /\ CallProvider(r) =>
                 \/ req'[r] = NoRequest
                 \/ /\ req'[r].pid = req[r].pid \/ req'[r].pid \notin Pids
                    /\ req'[r].pc = "store" /\ req[r].pc = "call"
           /\ InsertMessage(r) => /\ req'[r].pc = "touch" /\ req'[r].pid = req[r].pid
                                  /\ req'[r].chat = req[r].chat /\ req'[r].kind = req[r].kind
           /\ TouchChat(r) \/ Kill(r) => req'[r] = NoRequest
<1>0. req \in [Reqs -> Request] /\ req[r] \in Request
  BY DEF TypeOK
<1>1. \A o \in Reqs \ {r} : req'[o] = req[o]
  BY <1>0, LocalsStep
<1>2. Leave(r) => req'[r] = NoRequest
  BY <1>0 DEF Leave
<1>3. \A p : Go(r, p) => /\ req'[r].pc = p /\ req'[r].pid = req[r].pid
                         /\ req'[r].chat = req[r].chat /\ req'[r].kind = req[r].kind
  BY <1>0 DEF Go, Request
<1>4. Deliver(r) => req'[r].pc \in {"dup", "lead"} /\ (req'[r].pid # None => req'[r].pc = "dup")
  <2>1. SUFFICES ASSUME NEW i, NEW a,
                        Begin(r, [NoRequest EXCEPT !.kind = "hook", !.pid = i, !.account = a,
                                                   !.pc = IF i = None THEN "lead" ELSE "dup"])
                 PROVE  req'[r].pc \in {"dup", "lead"} /\ (req'[r].pid # None => req'[r].pc = "dup")
    BY DEF Deliver
  <2> QED
    BY <1>0, <2>1 DEF Begin, NoRequest
<1>5. Ask(r) => req'[r].pid = None /\ req'[r].pc = "chat"
  <2>1. SUFFICES ASSUME NEW k, NEW a,
                        Begin(r, [NoRequest EXCEPT !.kind = k, !.account = a, !.lead = TRUE, !.pc = "chat"])
                 PROVE  req'[r].pid = None /\ req'[r].pc = "chat"
    BY DEF Ask
  <2> QED
    BY <1>0, <2>1 DEF Begin, NoRequest
<1>6. ASSUME FindDuplicate(r)
      PROVE  \/ req'[r] = NoRequest /\ raced' = raced
             \/ ~Seen(req[r].pid) /\ req'[r].pid = req[r].pid
  <2>1. CASE Seen(req[r].pid)
    BY <1>2, <1>6, <2>1 DEF FindDuplicate
  <2>2. CASE ~Seen(req[r].pid)
    BY <1>3, <1>6, <2>2 DEF FindDuplicate
  <2> QED
    BY <2>1, <2>2
<1>7. ASSUME NEW c, NEW d, Take(r, c, d)
      PROVE  \/ req'[r] = NoRequest
             \/ req'[r].pid = req[r].pid /\ req'[r].pc \in {"call", "store"}
  <2>2. CASE req[r].kind = "read"
    BY <1>0, <1>7, <2>2 DEF Take
  <2>3. CASE req[r].kind # "read"
    <3>1. WithChat(req[r]) \in {"call", "store"}
      BY <1>0, <2>3 DEF WithChat, Request, Kinds
    <3>2. req'[r] = [req[r] EXCEPT !.pc = WithChat(req[r]), !.chat = c, !.seen = d]
      BY <1>0, <1>7, <2>3 DEF Take
    <3> HIDE DEF WithChat
    <3> QED
      BY <1>0, <3>1, <3>2 DEF Request
  <2> QED
    BY <2>2, <2>3
<1>8. FindLead(r) => req'[r].pid = req[r].pid /\ req'[r].pc = "chat" /\ req[r].pc = "lead"
  BY <1>0 DEF FindLead, At, Request
<1>9. FindChat(r) \/ InsertChat(r) =>
         /\ req[r].pc \in {"chat", "create"}
         /\ \/ req'[r] = NoRequest
            \/ req'[r].pid = req[r].pid /\ req'[r].pc \in {"create", "call", "store"}
  BY <1>3, <1>7 DEF FindChat, InsertChat, At
<1>10. CallProvider(r) =>
         /\ req[r].pc = "call"
         /\ \/ req'[r] = NoRequest
            \/ (req'[r].pid = req[r].pid \/ req'[r].pid \notin Pids) /\ req'[r].pc = "store"
  <2>1. \A i \in AnswerIds(req[r]) : i = req[r].pid \/ i \notin Pids
    BY WhatsAppInboxAssumption DEF AnswerIds
  <2>2. ASSUME NEW i \in AnswerIds(req[r]),
               req' = [req EXCEPT ![r] = [@ EXCEPT !.pc = "store", !.pid = i]]
        PROVE  (req'[r].pid = req[r].pid \/ req'[r].pid \notin Pids) /\ req'[r].pc = "store"
    <3>1. req'[r].pid = i /\ req'[r].pc = "store"
      BY <1>0, <2>2 DEF Request
    <3> QED
      BY <2>1, <3>1
  <2> QED
    BY <1>2, <2>2 DEF CallProvider, At
<1>11. InsertMessage(r) => /\ req'[r].pc = "touch" /\ req'[r].pid = req[r].pid
                          /\ req'[r].chat = req[r].chat /\ req'[r].kind = req[r].kind
  BY <1>3, Zenon DEF InsertMessage
<1>12. TouchChat(r) \/ Kill(r) => req'[r] = NoRequest
  BY <1>2 DEF TouchChat, Kill
<1> QED
  BY <1>1, <1>4, <1>5, <1>6, <1>8, <1>9, <1>10, <1>11, <1>12

\* Of an id nobody raced for, one request at most is between the lookup and the
\* insertion, and only while no message has the id; and one message has it.
StoreInv ==
    \A p \in Pids \ raced :
        /\ \A r, o \in Reqs : Past(r, p) /\ Past(o, p) => r = o
        /\ \A r \in Reqs : Past(r, p) => ~Seen(p)
        /\ \A m, n \in stored : msg[m].pid = p /\ msg[n].pid = p => m = n

LEMMA StoreStep == ASSUME TypeOK, StoreInv, [Next]_vars PROVE StoreInv'
<1>0. None \notin Pids
  BY WhatsAppInboxAssumption
<1>1. SUFFICES ASSUME NEW p \in Pids, p \notin raced'
               PROVE  /\ \A r, o \in Reqs : Past(r, p)' /\ Past(o, p)' => r = o
                      /\ \A r \in Reqs : Past(r, p)' => ~Seen(p)'
                      /\ \A m, n \in stored' : msg'[m].pid = p /\ msg'[n].pid = p => m = n
  BY DEF StoreInv
<1>2. raced \subseteq raced'
  BY DEF Next, ReqStep, Deliver, Ask, Begin, FindDuplicate, FindLead, FindChat, InsertChat, CallProvider,
         InsertMessage, TouchChat, Kill, LeadArrives, vars
<1>3. /\ \A r, o \in Reqs : Past(r, p) /\ Past(o, p) => r = o
      /\ \A r \in Reqs : Past(r, p) => ~Seen(p)
      /\ \A m, n \in stored : msg[m].pid = p /\ msg[n].pid = p => m = n
  BY <1>1, <1>2 DEF StoreInv
<1>4. CASE LeadArrives \/ UNCHANGED vars
  BY <1>3, <1>4 DEF LeadArrives, vars, Past, Seen, stored
<1>5. ASSUME NEW r \in Reqs, ReqStep(r), ~FindDuplicate(r), ~InsertMessage(r)
      PROVE  /\ \A q, o \in Reqs : Past(q, p)' /\ Past(o, p)' => q = o
             /\ \A q \in Reqs : Past(q, p)' => ~Seen(p)'
             /\ \A m, n \in stored' : msg'[m].pid = p /\ msg'[n].pid = p => m = n
  <2>1. msg' = msg
    BY <1>5 DEF ReqStep, Deliver, Ask, Begin, FindLead, FindChat, InsertChat, CallProvider, TouchChat, Kill
  <2>2. Past(r, p)' => Past(r, p)
    BY <1>0, <1>5, LocalsAfter DEF Past, ReqStep, NoRequest
  <2>3. \A o \in Reqs \ {r} : Past(o, p)' => Past(o, p)
    BY <1>5, LocalsAfter DEF Past
  <2> QED
    BY <1>3, <2>1, <2>2, <2>3 DEF Seen, stored
<1>6. ASSUME NEW r \in Reqs, FindDuplicate(r)
      PROVE  /\ \A q, o \in Reqs : Past(q, p)' /\ Past(o, p)' => q = o
             /\ \A q \in Reqs : Past(q, p)' => ~Seen(p)'
             /\ \A m, n \in stored' : msg'[m].pid = p /\ msg'[n].pid = p => m = n
  <2>1. msg' = msg
    BY <1>6 DEF FindDuplicate
  <2>2. ReqStep(r) /\ \A o \in Reqs \ {r} : Past(o, p)' => Past(o, p)
    BY <1>6, LocalsAfter DEF Past, ReqStep
  <2>3. CASE ~Past(r, p)'
    BY <1>3, <2>1, <2>2, <2>3 DEF Seen, stored
  <2>4. CASE Past(r, p)'
    <3>1. req'[r] # NoRequest
      BY <2>4 DEF Past, NoRequest
    <3>2. req[r].pid = p /\ ~Seen(p)
      BY <1>6, <2>2, <2>4, <3>1, LocalsAfter DEF Past
    <3>3. \A o \in Reqs \ {r} : ~Past(o, p)
      <4>1. raced' = raced \cup {x \in {p} : \E o \in Reqs \ {r} : Past(o, x)}
        BY <1>6, <3>2 DEF FindDuplicate
      <4> QED
        BY <1>1, <4>1
    <3> QED
      BY <1>3, <2>1, <2>2, <3>2, <3>3 DEF Seen, stored
  <2> QED
    BY <2>3, <2>4
<1>7. ASSUME NEW r \in Reqs, InsertMessage(r)
      PROVE  /\ \A q, o \in Reqs : Past(q, p)' /\ Past(o, p)' => q = o
             /\ \A q \in Reqs : Past(q, p)' => ~Seen(p)'
             /\ \A m, n \in stored' : msg'[m].pid = p /\ msg'[n].pid = p => m = n
  <2>1. ReqStep(r) /\ ~Past(r, p)' /\ \A o \in Reqs \ {r} : Past(o, p)' => Past(o, p)
    BY <1>7, LocalsAfter DEF Past, ReqStep
  <2>2. req[r].pid = p => Past(r, p)
    BY <1>7 DEF InsertMessage, Past, At
  <2>3. /\ msgs' = msgs + 1 /\ stored = 1..msgs /\ stored' = 1..msgs' /\ msgs \in Nat
        /\ msgs + 1 \in MsgIds /\ msg \in [MsgIds -> Message \cup {None}]
    BY <1>7, TypeFacts, NextType DEF InsertMessage, TypeOK, MsgIds
  <2> DEFINE d == [chat |-> req[r].chat, kind |-> req[r].kind, pid |-> req[r].pid, account |-> req[r].account]
  <2>4. msg' = [msg EXCEPT ![msgs + 1] = d]
    BY <1>7 DEF InsertMessage
  <2>5. /\ msg'[msgs + 1].pid = req[r].pid
        /\ \A m \in stored : msg'[m] = msg[m] /\ m \in stored'
        /\ \A m \in stored' : m \in stored \/ m = msgs + 1
    BY <2>3, <2>4 DEF MsgIds
  <2>6. CASE req[r].pid = p
    <3>1. ~Seen(p) /\ \A o \in Reqs \ {r} : ~Past(o, p)
      BY <1>3, <2>2, <2>6
    <3> QED
      BY <2>1, <2>5, <3>1 DEF Seen
  <2>7. CASE req[r].pid # p
    <3>1. Seen(p)' => Seen(p)
      BY <2>5, <2>7 DEF Seen
    <3> QED
      BY <1>3, <2>1, <2>5, <2>7, <3>1
  <2> QED
    BY <2>6, <2>7
<1> QED
  BY <1>4, <1>5, <1>6, <1>7 DEF Next

\* StoredOnceUnlessRaced: a repeated message is stored once but for a race.
THEOREM StoredOnce == Spec => []StoredOnceUnlessRaced
<1>1. Init => StoreInv
  BY DEF Init, StoreInv, Past, NoRequest, stored
<1>2. TypeOK /\ StoreInv => StoredOnceUnlessRaced
  <2>1. SUFFICES ASSUME TypeOK, StoreInv, NEW m \in stored, NEW n \in stored, m # n,
                        msg[m].pid \in Pids, msg[m].pid = msg[n].pid
                 PROVE  msg[m].pid \in raced
    BY DEF StoredOnceUnlessRaced
  <2> QED
    BY <2>1 DEF StoreInv
<1> QED
  BY <1>1, <1>2, TypeCorrect, StoreStep, PTL DEF Spec

-----------------------------------------------------------------------------
(***************************************************************************)
(* Accounts keep their chats.                                              *)
(***************************************************************************)

HasChat(r) == req[r].pc \in {"call", "store", "touch"}

\* How a request comes by its chat.
LEMMA SeenAfter ==
    ASSUME TypeOK, NEW r \in Reqs, ReqStep(r), HasChat(r)'
    PROVE  /\ req'[r].account = req[r].account /\ req'[r].kind = req[r].kind
           /\ \/ HasChat(r) /\ req'[r].chat = req[r].chat /\ req'[r].seen = req[r].seen
              \/ \E c \in open : /\ Matches(c, req[r]) /\ chat' = chat
                                /\ req'[r].chat = c /\ req'[r].seen = chat[c]
              \/ /\ InsertChat(r) /\ req'[r].chat = chats + 1 /\ req'[r].seen = NewChat(req[r])
<1> DEFINE Kept == req'[r].account = req[r].account /\ req'[r].kind = req[r].kind
<1>0. req \in [Reqs -> Request] /\ req[r] \in Request
  BY DEF TypeOK
<1>1. req'[r] # NoRequest /\ ~Leave(r)
  BY <1>0 DEF HasChat, NoRequest, Leave
<1>2. CASE \E p : Go(r, p) /\ (p = "store" \/ p = "touch") /\ HasChat(r)
  BY <1>0, <1>2 DEF Go, Request
<1>3. ASSUME NEW c, NEW d, Take(r, c, d)
      PROVE  Kept /\ req'[r].chat = c /\ req'[r].seen = d
  BY <1>0, <1>1, <1>3 DEF Take, Request
<1>4. CASE FindChat(r)
  <2>1. ASSUME Go(r, "create") PROVE FALSE
    BY <1>0, <2>1 DEF Go, HasChat, Request
  <2>2. PICK c \in open : Matches(c, req[r]) /\ Take(r, c, chat[c])
    BY <1>4, <2>1 DEF FindChat
  <2> QED
    BY <1>3, <1>4, <2>2 DEF FindChat
<1>5. CASE InsertChat(r)
  <2>1. Take(r, chats + 1, NewChat(req[r]))
    BY <1>5 DEF InsertChat
  <2> QED
    BY <1>3, <1>5, <2>1
<1>6. CASE CallProvider(r) \/ InsertMessage(r)
  <2>1. CASE CallProvider(r)
    <3>1. PICK i : req' = [req EXCEPT ![r] = [@ EXCEPT !.pc = "store", !.pid = i]]
      BY <1>1, <2>1 DEF CallProvider
    <3> QED
      BY <1>0, <2>1, <3>1 DEF CallProvider, At, HasChat, Request
  <2> QED
    BY <1>1, <1>2, <1>6, <2>1 DEF InsertMessage, At, HasChat
<1>7. ~Deliver(r) /\ ~Ask(r) /\ ~FindLead(r) /\ ~TouchChat(r) /\ ~Kill(r)
  <2>1. ~Deliver(r) /\ ~Ask(r) /\ ~TouchChat(r) /\ ~Kill(r)
    BY <1>1, LocalsAfter DEF HasChat
  <2>2. FindLead(r) => req'[r].pc = "chat"
    BY <1>0 DEF FindLead, Request
  <2> QED
    BY <2>1, <2>2 DEF HasChat
<1>8. ~FindDuplicate(r)
  <2>1. Go(r, "lead") => req'[r].pc = "lead"
    BY <1>0 DEF Go, Request
  <2> QED
    BY <1>1, <2>1 DEF FindDuplicate, HasChat
<1> QED
  BY <1>4, <1>5, <1>6, <1>7, <1>8 DEF ReqStep

\* A request's copy has its chat's owner, who is the account if there is one;
\* and messages are in chats of their account.
OwnerInv ==
    /\ \A r \in Reqs : HasChat(r) =>
          /\ req[r].seen.owner = chat[req[r].chat].owner
          /\ req[r].account # None => req[r].seen.owner = req[r].account
    /\ \A m \in stored :
          /\ msg[m].chat \in open
          /\ msg[m].kind = "hook" /\ msg[m].account # None =>
                chat[msg[m].chat].owner = msg[m].account

\* No step changes the owner of a chat.
LEMMA OwnersStay ==
    ASSUME TypeOK, OwnerInv, [Next]_vars
    PROVE  open \subseteq open' /\ \A c \in open : chat'[c].owner = chat[c].owner
<1>0. /\ chat \in [ChatIds -> Chat \cup {None}] /\ open = 1..chats /\ chats \in Nat
      /\ \A c \in open : chat[c] \in Chat /\ c \in ChatIds
  BY TypeFacts DEF TypeOK
<1>1. CASE chat' = chat
  BY <1>1 DEF open
<1>2. ASSUME NEW r \in Reqs, InsertChat(r)
      PROVE  open \subseteq open' /\ \A c \in open : chat'[c].owner = chat[c].owner
  <2>1. chat' = [chat EXCEPT ![chats + 1] = NewChat(req[r])] /\ chats + 1 \notin open
    BY <1>0, <1>2 DEF InsertChat
  <2>2. \A c \in open : chat'[c] = chat[c]
    BY <1>0, <2>1
  <2> QED
    BY <1>0, <2>2 DEF open
<1>3. ASSUME NEW r \in Reqs, TouchChat(r)
      PROVE  open \subseteq open' /\ \A c \in open : chat'[c].owner = chat[c].owner
  <2> DEFINE k == req[r].chat
  <2>1. HasChat(r) /\ k \in open /\ req[r] \in Request
    BY <1>3 DEF TouchChat, At, HasChat, TypeOK
  <2>2. Touched(chat[k], req[r]).owner = chat[k].owner
    BY <2>1 DEF Touched, OwnerInv
  <2>3. Touched(chat[k], req[r]) \in Chat /\ None \notin Chat
    BY <1>0, <2>1, Documents
  <2>4. chat' = chat \/ chat' = [chat EXCEPT ![k] = Touched(chat[k], req[r])]
    BY <1>3 DEF TouchChat
  <2> HIDE DEF k
  <2> QED
    BY <1>0, <2>1, <2>2, <2>3, <2>4 DEF open
<1> QED
  BY <1>1, <1>2, <1>3 DEF Next, ReqStep, Deliver, Ask, Begin, FindDuplicate, FindLead, FindChat, CallProvider,
         InsertMessage, Kill, LeadArrives, vars

LEMMA OwnerStep == ASSUME TypeOK, OwnerInv, [Next]_vars PROVE OwnerInv'
<1>0. /\ req \in [Reqs -> Request] /\ msgs \in Nat /\ stored = 1..msgs
      /\ \A r \in Reqs : HasChat(r) => req[r].chat \in open
      /\ open \subseteq open' /\ \A c \in open : chat'[c].owner = chat[c].owner
  BY TypeFacts, OwnersStay DEF TypeOK, HasChat
<1>1. \A r \in Reqs : HasChat(r)' =>
        /\ req'[r].seen.owner = chat'[req'[r].chat].owner
        /\ req'[r].account # None => req'[r].seen.owner = req'[r].account
  <2>1. CASE req' = req
    BY <1>0, <2>1 DEF HasChat, OwnerInv
  <2>2. ASSUME NEW r \in Reqs, ReqStep(r), NEW o \in Reqs, HasChat(o)'
        PROVE  /\ req'[o].seen.owner = chat'[req'[o].chat].owner
               /\ req'[o].account # None => req'[o].seen.owner = req'[o].account
    <3>1. CASE o # r
      BY <1>0, <2>2, <3>1, LocalsAfter DEF HasChat, OwnerInv
    <3>2. CASE o = r /\ HasChat(r) /\ req'[r].chat = req[r].chat /\ req'[r].seen = req[r].seen
                     /\ req'[r].account = req[r].account
      BY <1>0, <3>2 DEF OwnerInv
    <3>3. ASSUME o = r, NEW c \in open, Matches(c, req[r]), chat' = chat,
                 req'[r].chat = c, req'[r].seen = chat[c], req'[r].account = req[r].account
          PROVE  /\ req'[o].seen.owner = chat'[req'[o].chat].owner
                 /\ req'[o].account # None => req'[o].seen.owner = req'[o].account
      BY <3>3 DEF Matches
    <3>4. CASE o = r /\ InsertChat(r) /\ req'[r].chat = chats + 1 /\ req'[r].seen = NewChat(req[r])
                     /\ req'[r].account = req[r].account
      <4>1. chat' = [chat EXCEPT ![chats + 1] = NewChat(req[r])] /\ chats + 1 \in ChatIds
        BY <3>4, TypeFacts DEF InsertChat, ChatIds
      <4>2. chat'[chats + 1] = NewChat(req[r])
        BY <4>1 DEF TypeOK
      <4> QED
        BY <3>4, <4>2 DEF NewChat
    <3> QED
      BY <2>2, <3>1, <3>2, <3>3, <3>4, SeenAfter
  <2>3. req' = req \/ \E r \in Reqs : ReqStep(r)
    BY DEF Next, LeadArrives, vars
  <2> QED
    BY <2>1, <2>2, <2>3
<1>2. \A m \in stored' :
         /\ msg'[m].chat \in open'
         /\ msg'[m].kind = "hook" /\ msg'[m].account # None =>
               chat'[msg'[m].chat].owner = msg'[m].account
  <2>0. ASSUME NEW m \in stored, msg'[m] = msg[m]
        PROVE  /\ msg'[m].chat \in open'
               /\ msg'[m].kind = "hook" /\ msg'[m].account # None =>
                     chat'[msg'[m].chat].owner = msg'[m].account
    <3> DEFINE k == msg[m].chat
    <3>1. k \in open /\ (msg[m].kind = "hook" /\ msg[m].account # None => chat[k].owner = msg[m].account)
      BY DEF OwnerInv
    <3> HIDE DEF k
    <3>2. k \in open' /\ chat'[k].owner = chat[k].owner
      BY <1>0, <3>1
    <3> USE DEF k
    <3> QED
      BY <2>0, <3>1, <3>2
  <2>1. CASE msg' = msg
    BY <2>0, <2>1 DEF stored
  <2>2. ASSUME NEW r \in Reqs, InsertMessage(r), NEW m \in stored'
        PROVE  /\ msg'[m].chat \in open'
               /\ msg'[m].kind = "hook" /\ msg'[m].account # None =>
                     chat'[msg'[m].chat].owner = msg'[m].account
    <3> DEFINE d == [chat |-> req[r].chat, kind |-> req[r].kind, pid |-> req[r].pid, account |-> req[r].account]
    <3>1. /\ msgs' = msgs + 1 /\ stored' = 1..msgs' /\ msgs + 1 \in MsgIds
          /\ msg \in [MsgIds -> Message \cup {None}] /\ msg' = [msg EXCEPT ![msgs + 1] = d]
      BY <2>2, TypeFacts, NextType DEF InsertMessage, TypeOK, MsgIds
    <3>2. HasChat(r) /\ chat' = chat
      BY <2>2 DEF InsertMessage, At, HasChat
    <3>3. CASE m = msgs + 1
      <4>1. msg'[m].chat = req[r].chat /\ msg'[m].account = req[r].account
        BY <3>1, <3>3
      <4> QED
        BY <1>0, <3>2, <4>1 DEF OwnerInv
    <3>4. CASE m # msgs + 1
      <4>1. m \in stored /\ msg'[m] = msg[m]
        BY <1>0, <3>1, <3>4 DEF MsgIds
      <4> QED
        BY <2>0, <4>1
    <3> QED
      BY <3>3, <3>4
  <2> QED
    BY <2>1, <2>2 DEF Next, ReqStep, Deliver, Ask, Begin, FindDuplicate, FindLead, FindChat, InsertChat,
           CallProvider, TouchChat, Kill, LeadArrives, vars
<1> QED
  BY <1>1, <1>2 DEF OwnerInv

LEMMA OwnerInit == ASSUME Init PROVE OwnerInv
BY DEF Init, OwnerInv, HasChat, NoRequest, stored

\* AccountMessageInOwnChat: an account's messages stay in chats of its executive.
THEOREM AccountsKeepChats == Spec => []AccountMessageInOwnChat
<1>1. OwnerInv => AccountMessageInOwnChat
  BY DEF OwnerInv, AccountMessageInOwnChat
<1> QED
  BY <1>1, TypeCorrect, OwnerInit, OwnerStep, PTL DEF Spec

-----------------------------------------------------------------------------
(***************************************************************************)
(* Unread messages are counted.                                            *)
(***************************************************************************)

\* UnreadIsCounted for one chat.
Counted(c) ==
    /\ chat[c].unread + Cardinality(ToCount(c)) <= Cardinality(Inbound(c))
    /\ Cardinality(Inbound(c)) <= chat[c].unread + Cardinality(ToCount(c)) + kills

LEMMA CountsFinite ==
    ASSUME TypeOK, NEW c
    PROVE  /\ IsFiniteSet(Inbound(c)) /\ Cardinality(Inbound(c)) \in Nat
           /\ IsFiniteSet(ToCount(c)) /\ Cardinality(ToCount(c)) \in Nat
<1>1. Inbound(c) \subseteq 1..msgs /\ msgs \in Int /\ 1 \in Int
  BY TypeFacts DEF Inbound
<1>2. IsFiniteSet(1..msgs)
  BY <1>1, FS_Interval
<1>3. IsFiniteSet(Inbound(c))
  BY <1>1, <1>2, FS_Subset
<1>4. ToCount(c) \in SUBSET Reqs /\ IsFiniteSet(Reqs)
  BY WhatsAppInboxAssumption DEF ToCount
<1>5. IsFiniteSet(ToCount(c))
  BY <1>4, FS_Subset
<1> QED
  BY <1>3, <1>5, FS_CardinalityType

\* Only these steps concern a message to count.
LEMMA OtherStep ==
    ASSUME TypeOK, NEW r \in Reqs, ReqStep(r), ~InsertMessage(r), ~TouchChat(r), ~Kill(r)
    PROVE  ~At(r, "touch") /\ ~At(r, "touch")' /\ kills' = kills /\ msg' = msg
<1>1. ~At(r, "touch") /\ kills' = kills /\ msg' = msg
  BY DEF ReqStep, Deliver, Ask, Begin, FindDuplicate, FindLead, FindChat, InsertChat, CallProvider, At, bounds
<1>2. CASE FindDuplicate(r)
  <2>1. req'[r] = NoRequest \/ req'[r].pc = "lead"
    BY <1>2 DEF TypeOK, FindDuplicate, Leave, Go, Request
  <2> QED
    BY <1>1, <2>1 DEF At, NoRequest
<1>3. CASE ~FindDuplicate(r)
  <2>1. req'[r].pc # "touch"
    BY <1>3, LocalsAfter DEF ReqStep, NoRequest
  <2> QED
    BY <1>1, <2>1 DEF At
<1> QED
  BY <1>2, <1>3

LEMMA CountStep ==
    ASSUME TypeOK, OwnerInv, UnreadIsCounted, [Next]_vars, NEW c \in open'
    PROVE  Counted(c)'
<1>0. /\ IsFiniteSet(Inbound(c)) /\ Cardinality(Inbound(c)) \in Nat
      /\ IsFiniteSet(ToCount(c)) /\ Cardinality(ToCount(c)) \in Nat
      /\ kills \in Nat /\ req \in [Reqs -> Request]
      /\ chat \in [ChatIds -> Chat \cup {None}] /\ open = 1..chats /\ chats \in Nat
      /\ \A d \in open : chat[d].unread \in Nat /\ d \in ChatIds
  BY CountsFinite, TypeFacts DEF TypeOK, Chat
<1>1. c \in open => Counted(c)
  BY DEF UnreadIsCounted, Counted
<1>2. ASSUME c \in open, chat'[c].unread = chat[c].unread, kills' = kills,
             Inbound(c)' = Inbound(c), ToCount(c)' = ToCount(c)
      PROVE  Counted(c)'
  BY <1>1, <1>2 DEF Counted
<1>3. ASSUME NEW r \in Reqs, InsertChat(r) PROVE Counted(c)'
  <2>1. /\ chat' = [chat EXCEPT ![chats + 1] = NewChat(req[r])] /\ msg' = msg /\ ReqStep(r)
        /\ chats' = chats + 1
        /\ ~InsertMessage(r) /\ ~TouchChat(r) /\ ~Kill(r)
    BY <1>3 DEF InsertChat, InsertMessage, TouchChat, Kill, ReqStep, At, counts
  <2>2. ~At(r, "touch") /\ ~At(r, "touch")' /\ kills' = kills
    BY <2>1, OtherStep
  <2>3. Inbound(c)' = Inbound(c) /\ ToCount(c)' = ToCount(c)
    <3>1. \A o \in Reqs \ {r} : req'[o] = req[o]
      BY <2>1, LocalsAfter
    <3> QED
      BY <2>1, <2>2, <3>1 DEF Inbound, ToCount, stored, At
  <2>4. CASE c \in open
    <3>1. chat'[c] = chat[c]
      BY <1>0, <2>1, <2>4
    <3> QED
      BY <1>2, <2>2, <2>3, <2>4, <3>1
  <2>5. CASE c \notin open
    <3>1. c = chats + 1 /\ c \in ChatIds
      <4>1. open' = 1..(chats + 1) /\ open' \subseteq ChatIds
        BY <2>1, NextType, TypeFacts DEF TypeOK, open
      <4> QED
        BY <1>0, <2>5, <4>1
    <3>2. chat'[c].unread = 0
      BY <1>0, <2>1, <3>1 DEF NewChat
    <3>3. Inbound(c) = {}
      BY <2>5 DEF Inbound, OwnerInv
    <3>4. ToCount(c) = {}
      BY <2>5 DEF ToCount, TypeOK, At
    <3> QED
      BY <1>0, <2>2, <2>3, <3>2, <3>3, <3>4, FS_EmptySet DEF Counted
  <2> QED
    BY <2>4, <2>5
<1>4. ASSUME NEW r \in Reqs, InsertMessage(r) PROVE Counted(c)'
  <2>1. /\ ReqStep(r) /\ At(r, "store") /\ chat' = chat /\ kills' = kills /\ c \in open
    BY <1>4 DEF InsertMessage, ReqStep, open, bounds
  <2>2. /\ req'[r].pc = "touch" /\ req'[r].chat = req[r].chat /\ req'[r].kind = req[r].kind
        /\ \A o \in Reqs \ {r} : req'[o] = req[o]
    BY <1>4, <2>1, LocalsAfter
  <2>3. /\ msgs' = msgs + 1 /\ stored = 1..msgs /\ stored' = 1..msgs' /\ msgs \in Nat
        /\ msgs + 1 \in MsgIds /\ msg \in [MsgIds -> Message \cup {None}]
    BY <1>4, TypeFacts, NextType DEF InsertMessage, TypeOK, MsgIds
  <2> DEFINE d == [chat |-> req[r].chat, kind |-> req[r].kind, pid |-> req[r].pid, account |-> req[r].account]
  <2>4. msg' = [msg EXCEPT ![msgs + 1] = d]
    BY <1>4 DEF InsertMessage
  <2>5. /\ msg'[msgs + 1].chat = req[r].chat /\ msg'[msgs + 1].kind = req[r].kind
        /\ \A m \in stored : msg'[m] = msg[m] /\ m \in stored' /\ m # msgs + 1
        /\ \A m \in stored' : m \in stored \/ m = msgs + 1
        /\ msgs + 1 \in stored'
    BY <2>3, <2>4 DEF MsgIds
  <2>6. CASE req[r].kind = "hook" /\ req[r].chat = c
    <3>1. Inbound(c)' = Inbound(c) \cup {msgs + 1} /\ msgs + 1 \notin Inbound(c)
      BY <2>5, <2>6 DEF Inbound
    <3>2. ToCount(c)' = ToCount(c) \cup {r} /\ r \notin ToCount(c)
      BY <2>1, <2>2, <2>6 DEF ToCount, At
    <3>3. /\ Cardinality(Inbound(c)') = Cardinality(Inbound(c)) + 1
          /\ Cardinality(ToCount(c)') = Cardinality(ToCount(c)) + 1
      BY <1>0, <3>1, <3>2, FS_AddElement
    <3> QED
      BY <1>0, <1>1, <2>1, <3>3, SMTT(60) DEF Counted
  <2>7. CASE ~(req[r].kind = "hook" /\ req[r].chat = c)
    <3>1. Inbound(c)' = Inbound(c)
      BY <2>5, <2>7 DEF Inbound
    <3>2. ToCount(c)' = ToCount(c)
      BY <2>1, <2>2, <2>7 DEF ToCount, At
    <3> QED
      BY <1>2, <2>1, <3>1, <3>2
  <2> QED
    BY <2>6, <2>7
<1>5. ASSUME NEW r \in Reqs, TouchChat(r) \/ Kill(r) PROVE Counted(c)'
  <2> DEFINE k == req[r].chat
  <2>0. ReqStep(r)
    BY <1>5 DEF ReqStep
  <2>1. /\ req'[r] = NoRequest /\ \A o \in Reqs \ {r} : req'[o] = req[o]
    BY <1>5, <2>0, LocalsAfter
  <2>2. Inbound(c)' = Inbound(c) /\ open' = open
    <3>1. msg' = msg /\ chats' = chats
      BY <1>5 DEF TouchChat, Kill, counts
    <3>2. open' = 1..chats'
      BY NextType, TypeFacts DEF TypeOK
    <3> QED
      BY <1>0, <3>1, <3>2 DEF Inbound, stored
  <2>3. ToCount(c)' = ToCount(c) \ {r}
    BY <2>1 DEF ToCount, At, NoRequest
  <2>4. Cardinality(ToCount(c)') = IF r \in ToCount(c) THEN Cardinality(ToCount(c)) - 1
                                                      ELSE Cardinality(ToCount(c))
    BY <1>0, <2>3, FS_RemoveElement
  <2>5. CASE Kill(r)
    <3>1. chat' = chat /\ kills' = kills + 1
      BY <2>5 DEF Kill
    <3> QED
      BY <1>0, <1>1, <2>2, <2>4, <3>1, SMTT(60) DEF Counted
  <2>6. CASE TouchChat(r)
    <3>1. /\ kills' = kills /\ At(r, "touch")
          /\ chat' = IF req[r].kind = "hook" THEN [chat EXCEPT ![k] = Touched(chat[k], req[r])] ELSE chat
      BY <2>6 DEF TouchChat, bounds
    <3>2. CASE req[r].kind = "hook" /\ k = c
      <4>1. r \in ToCount(c) /\ chat'[c].unread = chat[c].unread + 1
        BY <1>0, <2>2, <3>1, <3>2 DEF ToCount, Touched
      <4> QED
        BY <1>0, <1>1, <2>2, <2>4, <3>1, <4>1 DEF Counted
    <3>3. CASE ~(req[r].kind = "hook" /\ k = c)
      <4>1. r \notin ToCount(c) /\ chat'[c] = chat[c]
        BY <1>0, <2>2, <3>1, <3>3 DEF ToCount
      <4> QED
        BY <1>2, <2>2, <2>3, <3>1, <4>1
    <3> QED
      BY <3>2, <3>3
  <2> QED
    BY <1>5, <2>5, <2>6
<1>6. ASSUME NEW r \in Reqs, ReqStep(r), ~InsertChat(r), ~InsertMessage(r), ~TouchChat(r), ~Kill(r)
      PROVE  Counted(c)'
  <2>1. chat' = chat /\ kills' = kills /\ msg' = msg /\ ~At(r, "touch") /\ ~At(r, "touch")'
    BY <1>6, OtherStep
    DEF ReqStep, Deliver, Ask, Begin, FindDuplicate, FindLead, FindChat, CallProvider
  <2>2. \A o \in Reqs \ {r} : req'[o] = req[o]
    BY <1>6, LocalsAfter
  <2>3. Inbound(c)' = Inbound(c) /\ ToCount(c)' = ToCount(c) /\ c \in open
    BY <2>1, <2>2 DEF Inbound, ToCount, stored, open, At
  <2> QED
    BY <1>2, <2>1, <2>3
<1>7. CASE LeadArrives \/ UNCHANGED vars
  <2>1. chat' = chat /\ kills' = kills /\ msg' = msg /\ req' = req
    BY <1>7 DEF LeadArrives, vars, bounds
  <2>2. Inbound(c)' = Inbound(c) /\ ToCount(c)' = ToCount(c) /\ c \in open
    BY <2>1 DEF Inbound, ToCount, stored, open, At
  <2> QED
    BY <1>2, <2>1, <2>2
<1> QED
  BY <1>3, <1>4, <1>5, <1>6, <1>7 DEF Next

\* UnreadIsCounted: calls that count at the same time lose nothing, a call that
\* ends early loses one, for any number of chats, messages and requests.
THEOREM UnreadCounted == Spec => []UnreadIsCounted
<1>1. Init => UnreadIsCounted
  BY DEF Init, UnreadIsCounted, open
<1>2. TypeOK /\ OwnerInv /\ UnreadIsCounted /\ [Next]_vars => UnreadIsCounted'
  BY CountStep DEF UnreadIsCounted, Counted
<1> QED
  BY <1>1, <1>2, TypeCorrect, OwnerInit, OwnerStep, PTL DEF Spec

-----------------------------------------------------------------------------
(***************************************************************************)
(* The refinement of CheckThenAct.                                         *)
(***************************************************************************)

\* Messages with an id: finitely many, none if the id is not stored.
OfId(p) == {m \in stored : msg[m].pid = p}

LEMMA CopiesOfId ==
    ASSUME TypeOK
    PROVE  \A p \in Pids : /\ IsFiniteSet(OfId(p)) /\ Copies[p] = Cardinality(OfId(p))
                           /\ Copies[p] \in Nat
                           /\ ~Seen(p) => Copies[p] = 0
<1> SUFFICES ASSUME NEW p \in Pids
             PROVE  /\ IsFiniteSet(OfId(p)) /\ Copies[p] = Cardinality(OfId(p))
                    /\ Copies[p] \in Nat
                    /\ ~Seen(p) => Copies[p] = 0
  OBVIOUS
<1>1. OfId(p) \subseteq 1..msgs /\ msgs \in Int /\ 1 \in Int
  BY TypeFacts DEF OfId
<1>2. IsFiniteSet(OfId(p))
  BY <1>1, FS_Interval, FS_Subset
<1>3. Copies[p] = Cardinality(OfId(p))
  BY DEF Copies, OfId
<1>4. ~Seen(p) => OfId(p) = {}
  BY DEF Seen, OfId
<1> QED
  BY <1>2, <1>3, <1>4, FS_CardinalityType, FS_EmptySet

\* A step of one request changes what that request has looked up, and nobody
\* else's.
LEMMA LookedUpStep ==
    ASSUME TypeOK, NEW r \in Reqs, ReqStep(r), NEW S, LookedUp'[r] = S
    PROVE  LookedUp' = [LookedUp EXCEPT ![r] = S]
<1>1. \A o \in Reqs \ {r} : req'[o] = req[o]
  BY LocalsAfter
<1>2. \A o \in Reqs \ {r} : {p \in Pids : Past(o, p)'} = {p \in Pids : Past(o, p)}
  BY <1>1 DEF Past
<1>3. /\ LookedUp = [o \in Reqs |-> {p \in Pids : Past(o, p)}]
      /\ LookedUp' = [o \in Reqs |-> {p \in Pids : Past(o, p)'}]
  BY DEF LookedUp
<1> QED
  BY <1>2, <1>3

\* The messages are as they were.
LEMMA SameMessages ==
    ASSUME msg' = msg
    PROVE  Unstored' = Unstored /\ Copies' = Copies /\ \A p : Seen(p)' <=> Seen(p)
BY DEF Unstored, Copies, Seen, stored

\* A request that looks up what it had looked up before.
LEMMA SameRefines ==
    ASSUME TypeOK, NEW r \in Reqs, ReqStep(r), msg' = msg, raced' = raced,
           \A p \in Pids : Past(r, p)' <=> Past(r, p)
    PROVE  UNCHANGED Inbox!vars
<1>1. LookedUp'[r] = LookedUp[r] /\ LookedUp = [o \in Reqs |-> LookedUp[o]]
  BY DEF LookedUp
<1>2. LookedUp' = [LookedUp EXCEPT ![r] = LookedUp[r]]
  BY <1>1, LookedUpStep
<1>3. LookedUp' = LookedUp
  BY <1>1, <1>2
<1> QED
  BY <1>3, SameMessages DEF Inbox!vars

\* A request that ends, whether or not it stored its message, or that goes on
\* with an id of its own: nothing is owed.
LEMMA EndRefines ==
    ASSUME TypeOK, NEW r \in Reqs, ReqStep(r), \A p \in Pids : ~Past(r, p)',
           msg' = msg, raced' = raced
    PROVE  Inbox!Leave(r)
<1>1. LookedUp'[r] = {}
  BY DEF LookedUp
<1>2. LookedUp' = [LookedUp EXCEPT ![r] = {}]
  BY <1>1, LookedUpStep
<1>3. \A p \in LookedUp[r] \cap Unstored : Copies[p] = 0
  BY CopiesOfId DEF Unstored
<1>4. raced' = raced \cup {}
  OBVIOUS
<1> QED
  BY <1>2, <1>3, <1>4, SameMessages DEF Inbox!Leave

\* The lookup finds no message, and shares the id with whoever is past it.
LEMMA LookupRefines ==
    ASSUME TypeOK, NEW r \in Reqs, FindDuplicate(r), ~Seen(req[r].pid)
    PROVE  \E S \in SUBSET Pids : Inbox!Take(r, S)
<1> DEFINE pid == req[r].pid
<1>1. /\ req[r].pc = "dup" /\ pid \in Pids /\ msg' = msg /\ ReqStep(r)
      /\ req \in [Reqs -> Request]
  BY DEF TypeOK, Request, FindDuplicate, At, ReqStep
<1>2. Go(r, "lead") /\ raced' = raced \cup {p \in {pid} : \E o \in Reqs \ {r} : Past(o, p)}
  BY DEF FindDuplicate
<1>3. req'[r].pc = "lead" /\ req'[r].pid = pid
  BY <1>1, <1>2 DEF Go, Request
<1>4. LookedUp[r] = {} /\ LookedUp'[r] = {pid}
  BY <1>1, <1>3 DEF LookedUp, Past
<1>5. LookedUp' = [LookedUp EXCEPT ![r] = {pid}]
  BY <1>1, <1>4, LookedUpStep
<1>6. {p \in {pid} : \E o \in Reqs \ {r} : Past(o, p)}
          = {i \in {pid} : \E v \in Reqs : i \in LookedUp[v]}
  <2>1. \A o \in Reqs : pid \in LookedUp[o] <=> Past(o, pid)
    BY <1>1 DEF LookedUp
  <2>2. ~Past(r, pid)
    BY <1>1 DEF Past
  <2> HIDE DEF pid
  <2> QED
    BY <2>1, <2>2
<1>7. pid \in Unstored
  BY <1>1 DEF Unstored
<1> HIDE DEF pid
<1>8. Inbox!Take(r, {pid})
  BY <1>1, <1>2, <1>4, <1>5, <1>6, <1>7, SameMessages DEF Inbox!Take
<1> QED
  BY <1>1, <1>8

\* The insertion of a message with an id is the act and its record.
LEMMA InsertRefines ==
    ASSUME TypeOK, StoreInv, NEW r \in Reqs, InsertMessage(r), req[r].pid \in Pids
    PROVE  Inbox!ActOnRecord(r, req[r].pid)
<1>0. PICK pid \in Pids : pid = req[r].pid
  OBVIOUS
<1> DEFINE d == [chat |-> req[r].chat, kind |-> req[r].kind, pid |-> pid, account |-> req[r].account]
<1>1. ReqStep(r) /\ Past(r, pid) /\ raced' = raced
  BY <1>0 DEF InsertMessage, ReqStep, Past, At
<1>2. /\ msgs' = msgs + 1 /\ stored = 1..msgs /\ stored' = 1..msgs' /\ msgs \in Nat
      /\ msgs + 1 \in MsgIds /\ msg \in [MsgIds -> Message \cup {None}]
  BY <1>1, TypeFacts, NextType DEF Next, InsertMessage, TypeOK, MsgIds
<1>3. msg' = [msg EXCEPT ![msgs + 1] = d]
  BY <1>0 DEF InsertMessage
<1>4. /\ msg'[msgs + 1].pid = pid
      /\ \A m \in stored : msg'[m] = msg[m] /\ m \in stored' /\ m # msgs + 1
      /\ \A m \in stored' : m \in stored \/ m = msgs + 1
      /\ msgs + 1 \in stored'
  BY <1>2, <1>3 DEF MsgIds
<1>5. /\ OfId(pid)' = OfId(pid) \cup {msgs + 1} /\ msgs + 1 \notin OfId(pid)
      /\ \A p \in Pids \ {pid} : OfId(p)' = OfId(p)
  BY <1>4 DEF OfId
<1>6. /\ Copies = [p \in Pids |-> Cardinality(OfId(p))]
      /\ Copies' = [p \in Pids |-> Cardinality(OfId(p)')]
  BY DEF Copies, OfId
<1>7. Cardinality(OfId(pid)') = Copies[pid] + 1
  BY <1>5, CopiesOfId, FS_AddElement
<1> HIDE DEF d
<1>8. Copies' = [Copies EXCEPT ![pid] = @ + 1]
  BY <1>5, <1>6, <1>7
<1>9. Unstored' = Unstored \ {pid}
  BY <1>4 DEF Unstored, Seen
<1>10. LookedUp' = [LookedUp EXCEPT ![r] = @ \ {pid}]
  <2>1. LookedUp[r] \subseteq {pid} /\ LookedUp'[r] = {}
    BY <1>0, <1>1, LocalsAfter DEF LookedUp, Past
  <2>2. LookedUp' = [LookedUp EXCEPT ![r] = {}]
    BY <1>1, <2>1, LookedUpStep
  <2>3. LookedUp[r] \ {pid} = {}
    BY <2>1
  <2> QED
    BY <2>2, <2>3
<1>11. pid \in Pids /\ pid \in LookedUp[r] /\ (Copies[pid] = 0 \/ pid \in raced)
  BY <1>1, CopiesOfId DEF LookedUp, StoreInv
<1>12. Inbox!ActOnRecord(r, pid)
  BY <1>1, <1>8, <1>9, <1>10, <1>11 DEF Inbox!ActOnRecord, Inbox!MayAct
<1> QED
  BY <1>0, <1>12

\* A message without an id is nothing the promise is about.
LEMMA InsertOther ==
    ASSUME TypeOK, NEW r \in Reqs, InsertMessage(r), req[r].pid \notin Pids
    PROVE  UNCHANGED Inbox!vars
<1> DEFINE d == [chat |-> req[r].chat, kind |-> req[r].kind, pid |-> req[r].pid, account |-> req[r].account]
<1>1. ReqStep(r) /\ raced' = raced
  BY DEF InsertMessage, ReqStep
<1>2. /\ msgs' = msgs + 1 /\ stored = 1..msgs /\ stored' = 1..msgs' /\ msgs \in Nat
      /\ msgs + 1 \in MsgIds /\ msg \in [MsgIds -> Message \cup {None}]
  BY <1>1, TypeFacts, NextType DEF Next, InsertMessage, TypeOK, MsgIds
<1>3. msg' = [msg EXCEPT ![msgs + 1] = d]
  BY DEF InsertMessage
<1>4. /\ msg'[msgs + 1].pid \notin Pids
      /\ \A m \in stored : msg'[m] = msg[m] /\ m \in stored'
      /\ \A m \in stored' : m \in stored \/ m = msgs + 1
  BY <1>2, <1>3 DEF MsgIds
<1>5. \A p \in Pids : OfId(p)' = OfId(p) /\ (Seen(p)' <=> Seen(p))
  BY <1>4 DEF OfId, Seen
<1>6. Unstored' = Unstored
  BY <1>5 DEF Unstored
<1>7. Copies' = Copies
  <2>1. /\ Copies = [p \in Pids |-> Cardinality(OfId(p))]
        /\ Copies' = [p \in Pids |-> Cardinality(OfId(p)')]
    BY DEF Copies, OfId
  <2> QED
    BY <1>5, <2>1
<1>8. LookedUp' = LookedUp
  <2>1. LookedUp[r] = {} /\ LookedUp'[r] = {} /\ LookedUp = [o \in Reqs |-> LookedUp[o]]
    BY <1>1, LocalsAfter DEF LookedUp, Past
  <2>2. LookedUp' = [LookedUp EXCEPT ![r] = {}]
    BY <1>1, <2>1, LookedUpStep
  <2> QED
    BY <2>1, <2>2
<1> QED
  BY <1>1, <1>6, <1>7, <1>8 DEF Inbox!vars

LEMMA RefineStep ==
    ASSUME TypeOK, StoreInv, [Next]_vars
    PROVE  [Inbox!Next]_(Inbox!vars)
<1>0. None \notin Pids
  BY WhatsAppInboxAssumption
<1>1. ASSUME NEW r \in Reqs, ReqStep(r), ~FindDuplicate(r), ~InsertMessage(r)
      PROVE  [Inbox!Next]_(Inbox!vars)
  <2>1. msg' = msg /\ raced' = raced
    BY <1>1 DEF ReqStep, Deliver, Ask, Begin, FindLead, FindChat, InsertChat, CallProvider,
                TouchChat, Kill
  <2>2. CASE req'[r] = NoRequest \/ (CallProvider(r) /\ req'[r].pid \notin Pids)
    <3>1. \A p \in Pids : ~Past(r, p)'
      BY <1>0, <2>2 DEF Past, NoRequest
    <3> QED
      BY <1>1, <2>1, <3>1, EndRefines DEF Inbox!Next
  <2>3. CASE ~(req'[r] = NoRequest \/ (CallProvider(r) /\ req'[r].pid \notin Pids))
    <3>1. CASE Deliver(r) \/ Ask(r)
      <4>1. req[r].pc = "idle"
        BY <3>1 DEF Deliver, Ask, Begin, At
      <4>2. \A p \in Pids : ~Past(r, p) /\ ~Past(r, p)'
        BY <1>0, <1>1, <3>1, <4>1, LocalsAfter DEF Past
      <4> QED
        BY <1>1, <2>1, <4>2, SameRefines
    <3>2. CASE ~Deliver(r) /\ ~Ask(r)
      <4>1. \A p \in Pids : Past(r, p)' <=> Past(r, p)
        BY <1>1, <2>3, <3>2, LocalsAfter DEF Past, ReqStep
      <4> QED
        BY <1>1, <2>1, <4>1, SameRefines
    <3> QED
      BY <3>1, <3>2
  <2> QED
    BY <2>2, <2>3
<1>2. ASSUME NEW r \in Reqs, FindDuplicate(r) PROVE [Inbox!Next]_(Inbox!vars)
  <2>1. CASE Seen(req[r].pid)
    <3>1. Leave(r) /\ raced' = raced /\ msg' = msg /\ ReqStep(r)
      BY <1>2, <2>1 DEF FindDuplicate, ReqStep
    <3>2. req'[r] = NoRequest
      BY <3>1 DEF Leave, TypeOK
    <3>3. \A p \in Pids : ~Past(r, p)'
      BY <3>2 DEF Past, NoRequest
    <3> QED
      BY <3>1, <3>3, EndRefines DEF Inbox!Next
  <2>2. CASE ~Seen(req[r].pid)
    BY <1>2, <2>2, LookupRefines DEF Inbox!Next
  <2> QED
    BY <2>1, <2>2
<1>3. ASSUME NEW r \in Reqs, InsertMessage(r) PROVE [Inbox!Next]_(Inbox!vars)
  BY <1>3, InsertRefines, InsertOther DEF Inbox!Next
<1>4. CASE LeadArrives \/ UNCHANGED vars
  <2>1. msg' = msg /\ raced' = raced /\ req' = req
    BY <1>4 DEF LeadArrives, vars
  <2>2. LookedUp' = LookedUp
    BY <2>1 DEF LookedUp, Past
  <2> QED
    BY <2>1, <2>2, SameMessages DEF Inbox!vars
<1> QED
  BY <1>1, <1>2, <1>3, <1>4 DEF Next

\* ImplementsCheckThenAct: for any ids and webhook calls, a call takes an id only
\* while no message has it, and a second copy of a message is stored only for
\* an id that two calls had looked up together.
THEOREM Refinement == Spec => ImplementsCheckThenAct
<1>1. Init => StoreInv
  BY DEF Init, StoreInv, Past, NoRequest, stored
<1>2. Init => Inbox!Init
  <2> SUFFICES ASSUME Init PROVE Inbox!Init
    OBVIOUS
  <2>1. stored = {} /\ \A p : ~Seen(p)
    BY DEF Init, stored, Seen
  <2>2. Unstored = Pids
    BY <2>1 DEF Unstored
  <2>3. LookedUp = [r \in Reqs |-> {}]
    BY DEF Init, LookedUp, Past, NoRequest
  <2>4. Copies = [p \in Pids |-> 0]
    BY <2>1, InitType, CopiesOfId DEF Copies
  <2> QED
    BY <2>2, <2>3, <2>4 DEF Init, Inbox!Init
<1> QED
  BY <1>1, <1>2, StoreStep, RefineStep, TypeCorrect, PTL
  DEF Spec, ImplementsCheckThenAct, Inbox!Spec

=============================================================================

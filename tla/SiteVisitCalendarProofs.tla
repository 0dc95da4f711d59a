---------------------- MODULE SiteVisitCalendarProofs ----------------------
(***************************************************************************)
(* Proofs about SiteVisitCalendar for any users, requests and failures.    *)
(***************************************************************************)
EXTENDS SiteVisitCalendar, FiniteSetTheorems, TLAPS

-----------------------------------------------------------------------------
(***************************************************************************)
(* Types, and what a request's locals become.                              *)
(***************************************************************************)

\* Only calls have a user at hand; a map is written by updates, the visit is
\* removed by deletions, and users to come to are as they were found.
Good(q) ==
    /\ q \in Request
    /\ q.pc = "call" => q.user \in Users \ q.left
    /\ q.pc # "call" => q.user = None
    /\ q.pc = "write" => ~q.drop
    /\ q.pc = "remove" => q.drop
    /\ q.pc \in {"next", "call"} => \A u \in q.left \cup ({q.user} \ {None}) : q.new[u] = q.seen.map[u]

GoodInv == TypeOK /\ \A r \in Reqs : Good(req[r])

\* What types say about documents and locals, in one place.
LEMMA Facts ==
    ASSUME TypeOK
    PROVE  /\ None \notin Users /\ None \notin Ids /\ None \notin Visit /\ None \notin Event
           /\ NoMap \in Map /\ NoRequest \in Request /\ Good(NoRequest)
           /\ req \in [Reqs -> Request] /\ event \in [Ids -> Event \cup {None}]
           /\ visit # None => visit \in Visit
           /\ last \in 0..MaxEvents /\ MaxEvents \in Nat /\ Ids = 1..MaxEvents
<1>1. None \notin Users /\ None \notin Ids /\ None \notin Visit /\ None \notin Event
  BY SiteVisitCalendarAssumption DEF Ids, Visit, Event, Map
<1>2. NoMap \in Map
  BY DEF NoMap, Map
<1>3. NoRequest \in Request
  BY <1>2 DEF NoRequest, Request, Visit
<1>4. Good(NoRequest)
  BY <1>3 DEF Good, NoRequest
<1> QED
  BY <1>1, <1>2, <1>3, <1>4, SiteVisitCalendarAssumption DEF TypeOK, Ids

\* Fields of a request keep their types.
LEMMA RequestFields ==
    ASSUME NEW q \in Request
    PROVE  /\ q.drop \in BOOLEAN /\ q.seen \in Visit /\ q.left \subseteq Users
           /\ q.user \in Users \cup {None} /\ q.new \in Map
           /\ q.seen.map \in Map /\ q.seen.owners \subseteq Users /\ q.seen.slot \in Nat
           /\ \A u \in Users : q.new[u] \in Ids \cup {None} /\ q.seen.map[u] \in Ids \cup {None}
BY DEF Request, Visit, Map

\* A run that starts from v.
LEMMA SnapshotStep ==
    ASSUME TypeOK, NEW r \in Reqs, NEW v \in Visit, NEW drop \in BOOLEAN, Snapshot(r, v, drop)
    PROVE  \E q : /\ req' = [req EXCEPT ![r] = q] /\ Good(q)
                  /\ q.pc = "lead" /\ q.drop = drop /\ q.seen = v /\ q.left = {}
                  /\ q.new = NoMap /\ q.user = None
<1> DEFINE q == [NoRequest EXCEPT !.pc = "lead", !.drop = drop, !.seen = v]
<1>1. q \in Request
  BY Facts DEF Request
<1>2. q.pc = "lead" /\ q.drop = drop /\ q.seen = v /\ q.left = {} /\ q.user = None
      /\ q.new = NoMap
  BY DEF NoRequest
<1>3. req' = [req EXCEPT ![r] = q]
  BY DEF Snapshot
<1> HIDE DEF q
<1> QED
  BY <1>1, <1>2, <1>3 DEF Good

\* A step that only goes on.
LEMMA GoStep ==
    ASSUME TypeOK, NEW r \in Reqs, Good(req[r]), NEW p \in {"reread", "write", "remove"}, Go(r, p),
           ~At(r, "call"), p = "write" => ~req[r].drop, p = "remove" => req[r].drop
    PROVE  \E q : /\ req' = [req EXCEPT ![r] = q] /\ Good(q)
                  /\ q.pc = p /\ q.drop = req[r].drop /\ q.seen = req[r].seen
                  /\ q.left = req[r].left /\ q.new = req[r].new /\ q.user = None
<1> DEFINE q == [req[r] EXCEPT !.pc = p]
<1>0. req[r] \in Request
  BY Facts
<1>1. q \in Request
  BY <1>0 DEF Request
<1>2. /\ q.pc = p /\ q.drop = req[r].drop /\ q.seen = req[r].seen /\ q.left = req[r].left
      /\ q.new = req[r].new /\ q.user = None
  BY <1>0 DEF Request, Good, At
<1>3. req' = [req EXCEPT ![r] = q]
  BY Facts DEF Go
<1> HIDE DEF q
<1> QED
  BY <1>1, <1>2, <1>3 DEF Good

LEMMA ReadLeadStep ==
    ASSUME TypeOK, NEW r \in Reqs, Good(req[r]), ReadLead(r)
    PROVE  \E q : /\ req' = [req EXCEPT ![r] = q] /\ Good(q)
                  /\ q.pc = "next" /\ q.drop = req[r].drop
                  /\ q.seen.map = req[r].seen.map /\ q.seen.slot = req[r].seen.slot
                  /\ q.new = q.seen.map
                  /\ \A u \in Users \ q.left : q.seen.map[u] = None
<1>0. req[r] \in Request
  BY Facts
<1>1. PICK co \in SUBSET Users :
          LET owners == req[r].seen.owners \cup co IN
          req' = [req EXCEPT ![r].pc = "next", ![r].seen.owners = owners,
                             ![r].new = req[r].seen.map, ![r].left = Targets(req[r], owners)]
  BY DEF ReadLead
<1> DEFINE owners == req[r].seen.owners \cup co
           v == [req[r].seen EXCEPT !.owners = owners]
           left == Targets(req[r], owners)
           q == [req[r] EXCEPT !.pc = "next", !.seen = v, !.new = req[r].seen.map, !.left = left]
<1>2. owners \subseteq Users
  BY <1>0, RequestFields
<1>3. left \subseteq Users /\ \A u \in Users \ left : req[r].seen.map[u] = None
  BY <1>2 DEF Targets
<1>4. v \in Visit /\ v.map = req[r].seen.map /\ v.slot = req[r].seen.slot
  BY <1>0, <1>2, RequestFields DEF Visit
<1>5. req' = [req EXCEPT ![r] = q]
  <2> HIDE DEF left
  <2>1. req' = [req EXCEPT ![r] = [req[r] EXCEPT !.pc = "next", !.seen.owners = owners,
                                                 !.new = req[r].seen.map, !.left = left]]
    BY <1>1, Facts, ZenonT(60) DEF left
  <2>2. [req[r] EXCEPT !.pc = "next", !.seen.owners = owners,
                       !.new = req[r].seen.map, !.left = left] = q
    BY <1>0 DEF Request
  <2> QED
    BY <2>1, <2>2
<1> HIDE DEF v, left
<1>6. q \in Request
  BY <1>0, <1>3, <1>4, RequestFields DEF Request
<1>7. /\ q.pc = "next" /\ q.drop = req[r].drop /\ q.seen = v /\ q.left = left
      /\ q.new = req[r].seen.map /\ q.user = None
  BY <1>0 DEF Request, Good, ReadLead, At
<1> HIDE DEF q
<1>8. Good(q)
  BY <1>3, <1>4, <1>6, <1>7 DEF Good
<1>9. /\ q.seen.map = req[r].seen.map /\ q.seen.slot = req[r].seen.slot /\ q.new = q.seen.map
      /\ \A u \in Users \ q.left : q.seen.map[u] = None
  BY <1>3, <1>4, <1>7
<1> QED
  BY <1>5, <1>7, <1>8, <1>9

\* The run comes to user u, or passes it by.
LEMMA NextUserStep ==
    ASSUME TypeOK, NEW r \in Reqs, Good(req[r]), NextUser(r)
    PROVE  \E u, q : /\ u \in req[r].left
                     /\ req' = [req EXCEPT ![r] = q] /\ Good(q)
                     /\ q.left = req[r].left \ {u} /\ q.drop = req[r].drop
                     /\ q.seen = req[r].seen /\ q.new = req[r].new
                     /\ \/ q.pc = "call" /\ q.user = u /\ u \in connected /\ UNCHANGED <<faults, failed>>
                        \/ q.pc = "next" /\ u \notin connected /\ UNCHANGED <<faults, failed>>
                        \/ q.pc = "next" /\ faults' = faults + 1 /\ failed' = failed \cup {u}
<1>0. req[r] \in Request /\ req[r].pc = "next" /\ req[r].user = None /\ req[r].left \subseteq Users
  BY Facts, RequestFields DEF NextUser, At, Good
<1>1. PICK u \in req[r].left :
          \/ /\ u \in connected
             /\ req' = [req EXCEPT ![r].pc = "call", ![r].user = u, ![r].left = @ \ {u}]
             /\ UNCHANGED <<faults, failed>>
          \/ /\ u \notin connected
             /\ req' = [req EXCEPT ![r].left = @ \ {u}]
             /\ UNCHANGED <<faults, failed>>
          \/ /\ u \in connected
             /\ faults < MaxFaults
             /\ faults' = faults + 1
             /\ failed' = failed \cup {u}
             /\ req' = [req EXCEPT ![r].left = @ \ {u}]
  BY DEF NextUser
<1>2. CASE /\ u \in connected
           /\ req' = [req EXCEPT ![r].pc = "call", ![r].user = u, ![r].left = @ \ {u}]
           /\ UNCHANGED <<faults, failed>>
  <2> DEFINE q == [req[r] EXCEPT !.pc = "call", !.user = u, !.left = req[r].left \ {u}]
  <2>1. q \in Request
    BY <1>0 DEF Request
  <2>2. /\ q.pc = "call" /\ q.user = u /\ q.left = req[r].left \ {u} /\ q.drop = req[r].drop
        /\ q.seen = req[r].seen /\ q.new = req[r].new
    BY <1>0 DEF Request
  <2>3. req' = [req EXCEPT ![r] = q]
    BY <1>0, <1>2, Facts
  <2>4. Good(q)
    <3> HIDE DEF q
    <3>1. \A w \in req[r].left : req[r].new[w] = req[r].seen.map[w]
      BY <1>0 DEF Good
    <3>2. q.left \cup ({q.user} \ {None}) = req[r].left
      BY <1>0, <1>1, <2>2, Facts
    <3> QED
      BY <1>0, <1>1, <2>1, <2>2, <3>1, <3>2 DEF Good
  <2> HIDE DEF q
  <2> QED
    BY <1>2, <2>2, <2>3, <2>4
<1>3. CASE /\ req' = [req EXCEPT ![r].left = @ \ {u}]
           /\ \/ u \notin connected /\ UNCHANGED <<faults, failed>>
              \/ faults' = faults + 1 /\ failed' = failed \cup {u}
  <2> DEFINE q == [req[r] EXCEPT !.left = req[r].left \ {u}]
  <2>1. q \in Request
    BY <1>0 DEF Request
  <2>2. /\ q.pc = "next" /\ q.user = None /\ q.left = req[r].left \ {u} /\ q.drop = req[r].drop
        /\ q.seen = req[r].seen /\ q.new = req[r].new
    BY <1>0 DEF Request
  <2>3. req' = [req EXCEPT ![r] = q]
    BY <1>0, <1>3, Facts
  <2>4. Good(q)
    <3> HIDE DEF q
    <3>1. \A w \in req[r].left : req[r].new[w] = req[r].seen.map[w]
      BY <1>0 DEF Good
    <3> QED
      BY <1>0, <2>1, <2>2, <3>1 DEF Good
  <2> HIDE DEF q
  <2> QED
    BY <1>3, <2>2, <2>3, <2>4
<1> QED
  BY <1>1, <1>2, <1>3

\* After a call the entry of its user is e, and no other changed.
LEMMA EnterStep ==
    ASSUME TypeOK, NEW r \in Reqs, Good(req[r]), At(r, "call"), NEW e \in Ids \cup {None}, Enter(r, e)
    PROVE  \E q : /\ req' = [req EXCEPT ![r] = q] /\ Good(q)
                  /\ q.pc = "next" /\ q.left = req[r].left /\ q.drop = req[r].drop
                  /\ q.seen = req[r].seen /\ q.new[req[r].user] = e
                  /\ \A u \in Users \ {req[r].user} : q.new[u] = req[r].new[u]
<1> DEFINE w == req[r].user
           new == [req[r].new EXCEPT ![w] = e]
           q == [req[r] EXCEPT !.pc = "next", !.user = None, !.new = new]
<1>0. req[r] \in Request /\ w \in Users /\ w \notin req[r].left /\ req[r].new \in Map
  BY Facts, RequestFields DEF At, Good
<1>1. new \in Map /\ new[w] = e /\ \A u \in Users \ {w} : new[u] = req[r].new[u]
  BY <1>0 DEF Map
<1>2. req' = [req EXCEPT ![r] = q]
  <2>1. req' = [req EXCEPT ![r] = [req[r] EXCEPT !.pc = "next", !.user = None, !.new[w] = e]]
    BY Facts, ZenonT(60) DEF Enter
  <2>2. [req[r] EXCEPT !.pc = "next", !.user = None, !.new[w] = e] = q
    BY <1>0 DEF Request
  <2> QED
    BY <2>1, <2>2
<1> HIDE DEF new
<1>3. q \in Request
  BY <1>0, <1>1 DEF Request
<1>4. /\ q.pc = "next" /\ q.user = None /\ q.left = req[r].left /\ q.drop = req[r].drop
      /\ q.seen = req[r].seen /\ q.new = new
  BY <1>0 DEF Request
<1>5. Good(q)
  <2> HIDE DEF q
  <2>1. \A u \in req[r].left : req[r].new[u] = req[r].seen.map[u]
    BY DEF At, Good
  <2>2. req[r].left \subseteq Users \ {w}
    BY <1>0, RequestFields
  <2> QED
    BY <1>1, <1>3, <1>4, <2>1, <2>2 DEF Good
<1> HIDE DEF q
<1> QED
  BY <1>1, <1>2, <1>4, <1>5

\* An update has still to read the visit again.
LEMMA UpdateStep ==
    ASSUME TypeOK, NEW r \in Reqs, Good(req[r]), UpdateVisit(r)
    PROVE  \E q : req' = [req EXCEPT ![r] = q] /\ Good(q) /\ q.pc = "reread"
<1>1. Go(r, "reread") /\ ~At(r, "call")
  BY DEF UpdateVisit, Begin, At
<1>2. \E q : /\ req' = [req EXCEPT ![r] = q] /\ Good(q)
             /\ q.pc = "reread" /\ q.drop = req[r].drop /\ q.seen = req[r].seen
             /\ q.left = req[r].left /\ q.new = req[r].new /\ q.user = None
  BY <1>1, GoStep
<1> QED
  BY <1>2

\* Every step of a request changes its own locals only, and keeps them good.
LEMMA LocalsStep ==
    ASSUME GoodInv, NEW r \in Reqs, ReqStep(r)
    PROVE  \E q : req' = [req EXCEPT ![r] = q] /\ Good(q)
<1>0. TypeOK /\ Good(req[r]) /\ req[r] \in Request
  BY Facts DEF GoodInv
<1>1. CASE CreateVisit(r)
  <2>1. PICK owners \in SUBSET Users : Snapshot(r, [owners |-> owners, slot |-> 0, map |-> NoMap], FALSE)
    BY <1>1 DEF CreateVisit
  <2>2. [owners |-> owners, slot |-> 0, map |-> NoMap] \in Visit
    BY <1>0, Facts DEF Visit
  <2> DEFINE v == [owners |-> owners, slot |-> 0, map |-> NoMap]
  <2> HIDE DEF v
  <2>3. v \in Visit /\ Snapshot(r, v, FALSE) /\ FALSE \in BOOLEAN
    BY <2>1, <2>2 DEF v
  <2>4. \E q : /\ req' = [req EXCEPT ![r] = q] /\ Good(q)
               /\ q.pc = "lead" /\ q.drop = FALSE /\ q.seen = v /\ q.left = {}
    BY <1>0, <2>3, SnapshotStep
  <2> QED
    BY <2>4
<1>2. CASE UpdateVisit(r)
  BY <1>0, <1>2, UpdateStep
<1>3. CASE RereadVisit(r) \/ FindVisit(r)
  <2>1. CASE visit = None /\ Leave(r)
    BY <1>0, <2>1, Facts DEF Leave
  <2>2. ASSUME visit # None, NEW drop \in BOOLEAN, Snapshot(r, visit, drop)
        PROVE  \E q : req' = [req EXCEPT ![r] = q] /\ Good(q)
    <3>1. visit \in Visit
      BY <1>0, <2>2, Facts
    <3>2. \E q : /\ req' = [req EXCEPT ![r] = q] /\ Good(q)
                 /\ q.pc = "lead" /\ q.drop = drop /\ q.seen = visit /\ q.left = {}
      BY <1>0, <2>2, <3>1, SnapshotStep
    <3> QED
      BY <3>2
  <2> QED
    BY <1>3, <2>1, <2>2 DEF RereadVisit, FindVisit
<1>5. CASE ReadLead(r)
  BY <1>0, <1>5, ReadLeadStep
<1>6. CASE NextUser(r)
  BY <1>0, <1>6, NextUserStep
<1>4. ASSUME NEW e \in Ids \cup {None}, At(r, "call"), Enter(r, e)
      PROVE  \E q : req' = [req EXCEPT ![r] = q] /\ Good(q)
  <2>1. \E q : /\ req' = [req EXCEPT ![r] = q] /\ Good(q)
               /\ q.pc = "next" /\ q.left = req[r].left /\ q.drop = req[r].drop
               /\ q.seen = req[r].seen /\ q.new[req[r].user] = e
               /\ \A u \in Users \ {req[r].user} : q.new[u] = req[r].new[u]
    BY <1>0, <1>4, EnterStep
  <2> QED
    BY <2>1
<1>7. CASE DeleteEvent(r)
  BY <1>4, <1>7 DEF DeleteEvent
<1>8. CASE InsertEvent(r)
  <2>1. last + 1 \in Ids
    BY <1>0, <1>8, Facts DEF InsertEvent
  <2>2. At(r, "call") /\ Enter(r, last + 1)
    BY <1>8 DEF InsertEvent, Entered
  <2> QED
    BY <1>4, <2>1, <2>2
<1>9. CASE UpdateEvent(r)
  <2>1. req[r].seen.map[req[r].user] \in Ids \cup {None}
    BY <1>0, <1>9, RequestFields DEF UpdateEvent, At, Good
  <2>2. At(r, "call") /\ Enter(r, req[r].seen.map[req[r].user])
    BY <1>9 DEF UpdateEvent
  <2> QED
    BY <1>4, <2>1, <2>2
<1>10. CASE CallRaises(r)
  <2>1. req[r].seen.map[req[r].user] \in Ids \cup {None}
    BY <1>0, <1>10, RequestFields DEF CallRaises, At, Good
  <2>2. At(r, "call") /\ Enter(r, IF Wanted(req[r]) THEN req[r].seen.map[req[r].user] ELSE None)
    BY <1>10 DEF CallRaises
  <2> QED
    BY <1>4, <2>1, <2>2
<1>11. CASE EndCalls(r)
  <2>1. req[r].drop \in BOOLEAN
    BY <1>0, RequestFields
  <2>2. CASE req[r].drop
    BY <1>0, <1>11, <2>2, GoStep DEF EndCalls, At
  <2>3. CASE ~req[r].drop
    BY <1>0, <1>11, <2>3, GoStep DEF EndCalls, At
  <2> QED
    BY <2>1, <2>2, <2>3
<1>12. CASE WriteMap(r) \/ DeleteVisit(r) \/ Kill(r)
  BY <1>0, <1>12, Facts DEF WriteMap, DeleteVisit, Kill, Leave
<1>13. CASE SyncRaises(r)
  BY <1>0, <1>13, Facts, GoStep DEF SyncRaises, Leave, At
<1> QED
  BY <1>1, <1>2, <1>3, <1>5, <1>6, <1>7, <1>8, <1>9, <1>10, <1>11, <1>12, <1>13 DEF ReqStep

\* What a step may do to calendars: event ids keep their user until they are
\* gone, and the one inserted is new.
LEMMA EventTypes ==
    ASSUME GoodInv, NEW r \in Reqs, ReqStep(r)
    PROVE  /\ event' \in [Ids -> Event \cup {None}] /\ last' \in 0..MaxEvents
           /\ last' = last \/ last' = last + 1
<1>0. TypeOK /\ Good(req[r]) /\ req[r] \in Request
  BY Facts DEF GoodInv
<1>1. ASSUME At(r, "call") PROVE [user |-> req[r].user, slot |-> req[r].seen.slot] \in Event
  BY <1>0, <1>1, RequestFields DEF At, Good, Event
<1>2. \A e \in Ids : event[e] # None => [event[e] EXCEPT !.slot = req[r].seen.slot] \in Event
  BY <1>0, Facts, RequestFields DEF Event
<1>3. CASE InsertEvent(r)
  <2>1. /\ last < MaxEvents /\ last' = last + 1
        /\ event' = [event EXCEPT ![last + 1] = [user |-> req[r].user, slot |-> req[r].seen.slot]]
    BY <1>3 DEF InsertEvent
  <2> QED
    BY <1>0, <1>1, <1>3, <2>1, Facts DEF InsertEvent
<1>4. CASE UpdateEvent(r)
  <2> DEFINE e == req[r].seen.map[req[r].user]
  <2>1. e \in Ids
    BY <1>0, <1>4, RequestFields DEF UpdateEvent, At, Good
  <2>2. event' = (IF event[e] = None THEN event ELSE [event EXCEPT ![e].slot = req[r].seen.slot])
        /\ last' = last
    BY <1>4 DEF UpdateEvent
  <2> HIDE DEF e
  <2> QED
    BY <1>0, <1>2, <2>1, <2>2, Facts
<1>5. CASE DeleteEvent(r)
  <2> DEFINE e == req[r].seen.map[req[r].user]
  <2>1. event' = (IF e = None THEN event ELSE [event EXCEPT ![e] = None]) /\ last' = last
    BY <1>5 DEF DeleteEvent
  <2> HIDE DEF e
  <2> QED
    BY <1>0, <2>1, Facts
<1>6. CASE CallRaises(r)
  <2>1. \/ UNCHANGED <<event, last>>
        \/ \E e : event' = [event EXCEPT ![e] = None] /\ UNCHANGED last
        \/ /\ last < MaxEvents /\ last' = last + 1
           /\ event' = [event EXCEPT ![last + 1] = [user |-> req[r].user, slot |-> req[r].seen.slot]]
    BY <1>6 DEF CallRaises
  <2>2. At(r, "call")
    BY <1>6 DEF CallRaises
  <2> QED
    BY <1>0, <1>1, <2>1, <2>2, Facts
<1>7. CASE UNCHANGED <<event, last>>
  BY <1>0, <1>7, Facts
<1> QED
  BY <1>3, <1>4, <1>5, <1>6, <1>7 DEF ReqStep, CreateVisit, UpdateVisit, RereadVisit, FindVisit, ReadLead,
     NextUser, EndCalls, WriteMap, DeleteVisit, SyncRaises, Kill

LEMMA VisitTypes ==
    ASSUME GoodInv, NEW r \in Reqs, ReqStep(r)
    PROVE  visit' \in Visit \cup {None}
<1>0. TypeOK /\ Good(req[r]) /\ req[r] \in Request /\ NoMap \in Map
  BY Facts DEF GoodInv
<1>1. CASE CreateVisit(r)
  BY <1>0, <1>1 DEF CreateVisit, Visit
<1>2. CASE UpdateVisit(r)
  <2>1. visit \in Visit
    BY <1>0, <1>2, Facts DEF UpdateVisit
  <2>2. PICK owners \in SUBSET Users, slot \in {visit.slot, visit.slot + 1} :
           visit' = [visit EXCEPT !.owners = owners, !.slot = slot]
    BY <1>2 DEF UpdateVisit
  <2>3. slot \in Nat
    BY <2>1 DEF Visit
  <2> QED
    BY <2>1, <2>2, <2>3 DEF Visit
<1>3. CASE WriteMap(r)
  <2>1. req[r].new \in Map
    BY <1>0, RequestFields
  <2> QED
    BY <1>0, <1>3, <2>1, Facts DEF WriteMap, MapAfter, Visit
<1>4. CASE DeleteVisit(r)
  BY <1>4 DEF DeleteVisit
<1>5. CASE UNCHANGED visit
  BY <1>0, <1>5 DEF TypeOK
<1> QED
  BY <1>1, <1>2, <1>3, <1>4, <1>5 DEF ReqStep, RereadVisit, FindVisit, ReadLead, NextUser, DeleteEvent,
     InsertEvent, UpdateEvent, CallRaises, EndCalls, SyncRaises, Kill

LEMMA RestTypes ==
    ASSUME GoodInv, NEW r \in Reqs, ReqStep(r)
    PROVE  /\ connected' \subseteq Users /\ starts' \in Nat /\ faults' \in Nat
           /\ raced' \in BOOLEAN /\ failed' \subseteq Users
<1>0. TypeOK /\ Good(req[r]) /\ req[r] \in Request
  BY Facts DEF GoodInv
<1>1. connected' = connected
  BY DEF ReqStep, CreateVisit, UpdateVisit, RereadVisit, FindVisit, ReadLead, NextUser, DeleteEvent,
     InsertEvent, UpdateEvent, CallRaises, EndCalls, WriteMap, DeleteVisit, SyncRaises, Kill
<1>2. starts' = starts \/ starts' = starts + 1
  BY DEF ReqStep, CreateVisit, UpdateVisit, RereadVisit, FindVisit, ReadLead, NextUser, DeleteEvent,
     InsertEvent, UpdateEvent, CallRaises, EndCalls, WriteMap, DeleteVisit, SyncRaises, Kill, Begin, bounds
<1>3. faults' = faults \/ faults' = faults + 1
  BY DEF ReqStep, CreateVisit, UpdateVisit, RereadVisit, FindVisit, ReadLead, NextUser, DeleteEvent,
     InsertEvent, UpdateEvent, CallRaises, EndCalls, WriteMap, DeleteVisit, SyncRaises, Kill, bounds
<1>4. raced' \in BOOLEAN
  BY <1>0 DEF TypeOK, ReqStep, CreateVisit, UpdateVisit, RereadVisit, FindVisit, ReadLead, NextUser, DeleteEvent,
     InsertEvent, UpdateEvent, CallRaises, EndCalls, WriteMap, DeleteVisit, SyncRaises, Kill, Snapshot
<1>5. failed' \subseteq Users
  <2>1. Unfinished(req[r]) \subseteq Users
    BY <1>0, RequestFields DEF Unfinished
  <2>2. CASE NextUser(r)
    BY <1>0, <2>2, NextUserStep, RequestFields DEF TypeOK
  <2>3. CASE CallRaises(r)
    BY <1>0, <2>3 DEF CallRaises, TypeOK, At, Good
  <2>4. CASE SyncRaises(r) \/ Kill(r)
    BY <1>0, <2>1, <2>4 DEF SyncRaises, Kill, TypeOK
  <2>5. CASE UNCHANGED failed
    BY <1>0, <2>5 DEF TypeOK
  <2> QED
    BY <2>2, <2>3, <2>4, <2>5 DEF ReqStep, CreateVisit, UpdateVisit, RereadVisit, FindVisit, ReadLead,
       DeleteEvent, InsertEvent, UpdateEvent, EndCalls, WriteMap, DeleteVisit
<1> QED
  BY <1>0, <1>1, <1>2, <1>3, <1>4, <1>5 DEF TypeOK

LEMMA TypeStep ==
    ASSUME GoodInv, [Next]_vars
    PROVE  GoodInv'
<1>0. TypeOK
  BY DEF GoodInv
<1>1. ASSUME NEW r \in Reqs, ReqStep(r) PROVE GoodInv'
  <2>1. PICK q : req' = [req EXCEPT ![r] = q] /\ Good(q)
    BY <1>1, LocalsStep
  <2>2. req' \in [Reqs -> Request] /\ \A s \in Reqs : Good(req'[s])
    BY <1>0, <2>1, Facts DEF GoodInv, Good
  <2>3. \A s \in Reqs : At(s, "call")' => req'[s].user \in Users
    BY <2>2 DEF Good, At
  <2>4. TypeOK'
    BY <1>1, <2>2, <2>3, EventTypes, VisitTypes, RestTypes DEF TypeOK
  <2>5. \A s \in Reqs : Good(req[s])'
    BY <2>2 DEF Good
  <2> QED
    BY <2>4, <2>5 DEF GoodInv
<1>2. ASSUME NEW u \in Users, Connect(u) \/ Disconnect(u) PROVE GoodInv'
  BY <1>2 DEF Connect, Disconnect, GoodInv, TypeOK, Good, At, bounds
<1>3. CASE UNCHANGED vars
  BY <1>3 DEF vars, bounds, GoodInv, TypeOK, Good, At
<1> QED
  BY <1>1, <1>2, <1>3 DEF Next

LEMMA Types == Spec => []GoodInv
<1>1. Init => GoodInv
  <2> SUFFICES ASSUME Init PROVE GoodInv
    OBVIOUS
  <2>1. NoRequest \in Request /\ Good(NoRequest)
    <3>1. NoMap \in Map
      BY DEF NoMap, Map
    <3>2. NoRequest \in Request
      BY <3>1 DEF NoRequest, Request, Visit
    <3> QED
      BY <3>2 DEF Good, NoRequest
  <2>2. req \in [Reqs -> Request] /\ \A r \in Reqs : Good(req[r]) /\ ~At(r, "call")
    BY <2>1 DEF Init, At, NoRequest
  <2>3. last \in 0..MaxEvents
    BY SiteVisitCalendarAssumption DEF Init
  <2> QED
    BY <2>2, <2>3 DEF Init, GoodInv, TypeOK
<1> QED
  BY <1>1, TypeStep, PTL DEF Spec

\* TypeOK: the visit, calendars and locals keep their types.
THEOREM TypeCorrect == Spec => []TypeOK
<1>1. GoodInv => TypeOK
  BY DEF GoodInv
<1> QED
  BY <1>1, Types, PTL

-----------------------------------------------------------------------------
(***************************************************************************)
(* Whose event an id is.                                                   *)
(***************************************************************************)

\* e is no event, or one that was inserted for u and may be gone.
OwnsAt(u, e, ev, n) == e # None => e <= n /\ (ev[e] = None \/ ev[e].user = u)
Owns(u, e) == OwnsAt(u, e, event, last)
OwnsNext(u, e) == OwnsAt(u, e, event', last')

\* Maps name events of their users only, and later ids are unused.
OwnInv ==
    /\ \A e \in Ids : e > last => event[e] = None
    /\ visit # None => \A u \in Users : Owns(u, visit.map[u])
    /\ \A r \in Reqs, u \in Users : Owns(u, req[r].seen.map[u]) /\ Owns(u, req[r].new[u])

\* A calendar call deletes or moves the event its snapshot names, or inserts one.
LEMMA EventSteps ==
    ASSUME GoodInv, NEW r \in Reqs, ReqStep(r)
    PROVE  LET w == req[r].user
               e == req[r].seen.map[w]
               s == req[r].seen.slot
           IN  \/ UNCHANGED <<event, last>>
               \/ /\ At(r, "call") /\ e \in Ids /\ last' = last
                  /\ event' = [event EXCEPT ![e] = None]
               \/ /\ At(r, "call") /\ e \in Ids /\ event[e] # None /\ last' = last
                  /\ event' = [event EXCEPT ![e].slot = s]
               \/ /\ At(r, "call") /\ e = None /\ last + 1 \in Ids /\ last' = last + 1
                  /\ event' = [event EXCEPT ![last + 1] = [user |-> w, slot |-> s]]
<1> DEFINE w == req[r].user
           e == req[r].seen.map[w]
           s == req[r].seen.slot
<1>0. TypeOK /\ Good(req[r]) /\ req[r] \in Request
  BY Facts DEF GoodInv
<1>1. At(r, "call") => e \in Ids \cup {None}
  BY <1>0, RequestFields DEF At, Good
<1>2. last < MaxEvents => last + 1 \in Ids
  BY <1>0, Facts
<1>3. CASE DeleteEvent(r)
  <2>1. At(r, "call") /\ last' = last /\ event' = (IF e = None THEN event ELSE [event EXCEPT ![e] = None])
    BY <1>3 DEF DeleteEvent
  <2> HIDE DEF e
  <2> QED
    BY <1>1, <2>1 DEF e
<1>4. CASE InsertEvent(r)
  BY <1>1, <1>2, <1>4 DEF InsertEvent
<1>5. CASE UpdateEvent(r)
  <2>1. /\ At(r, "call") /\ last' = last /\ e # None
        /\ event' = (IF event[e] = None THEN event ELSE [event EXCEPT ![e].slot = s])
    BY <1>5 DEF UpdateEvent
  <2> HIDE DEF e, s
  <2> QED
    BY <1>1, <2>1 DEF e, s
<1>6. CASE CallRaises(r)
  <2>1. /\ At(r, "call")
        /\ \/ UNCHANGED <<event, last>>
           \/ e # None /\ event' = [event EXCEPT ![e] = None] /\ UNCHANGED last
           \/ /\ e = None /\ last < MaxEvents /\ last' = last + 1
              /\ event' = [event EXCEPT ![last + 1] = [user |-> w, slot |-> s]]
    BY <1>6 DEF CallRaises
  <2> HIDE DEF e, s, w
  <2> QED
    BY <1>1, <1>2, <2>1 DEF e, s, w
<1>7. CASE UNCHANGED <<event, last>>
  BY <1>7
<1> QED
  BY <1>3, <1>4, <1>5, <1>6, <1>7 DEF ReqStep, CreateVisit, UpdateVisit, RereadVisit, FindVisit, ReadLead,
     NextUser, EndCalls, WriteMap, DeleteVisit, SyncRaises, Kill

\* Events keep their user.
LEMMA OwnsStays ==
    ASSUME GoodInv, OwnInv, NEW r \in Reqs, ReqStep(r)
    PROVE  /\ \A e \in Ids : e > last' => event'[e] = None
           /\ \A u \in Users, e \in Ids \cup {None} : Owns(u, e) => OwnsNext(u, e)
<1> DEFINE w == req[r].user
           d == req[r].seen.map[w]
           s == req[r].seen.slot
<1>0. /\ TypeOK /\ event \in [Ids -> Event \cup {None}] /\ last \in 0..MaxEvents /\ MaxEvents \in Nat
      /\ Ids = 1..MaxEvents /\ None \notin Ids
  BY Facts DEF GoodInv
<1>1. \/ UNCHANGED <<event, last>>
      \/ d \in Ids /\ last' = last /\ event' = [event EXCEPT ![d] = None]
      \/ d \in Ids /\ event[d] # None /\ last' = last /\ event' = [event EXCEPT ![d].slot = s]
      \/ /\ last + 1 \in Ids /\ last' = last + 1
         /\ event' = [event EXCEPT ![last + 1] = [user |-> w, slot |-> s]]
  BY EventSteps
<1> HIDE DEF w, d, s
<1>2. \A e \in Ids : \/ event'[e] = event[e]
                     \/ event'[e] = None
                     \/ event[e] # None /\ event'[e].user = event[e].user
                     \/ e = last + 1 /\ last' = last + 1
  BY <1>0, <1>1 DEF Event
<1>3. last' = last \/ last' = last + 1
  BY <1>1
<1>4. \A e \in Ids : e > last' => event'[e] = None
  BY <1>0, <1>1 DEF OwnInv
<1>5. ASSUME NEW u \in Users, NEW e \in Ids, Owns(u, e) PROVE OwnsNext(u, e)
  <2>1. e <= last /\ (event[e] = None \/ event[e].user = u)
    BY <1>0, <1>5 DEF Owns, OwnsAt, OwnsNext
  <2>2. e <= last'
    BY <1>0, <1>3, <2>1
  <2>3. e # last + 1
    BY <1>0, <2>1
  <2>4. event'[e] = None \/ event'[e].user = u
    <3>1. CASE event[e] = None
      <4>1. event'[e] = None
        BY <1>0, <1>1, <2>3, <3>1
      <4> QED
        BY <4>1
    <3>2. CASE event[e] # None
      BY <1>2, <2>1, <2>3, <3>2
    <3> QED
      BY <3>1, <3>2
  <2> QED
    BY <2>2, <2>4 DEF Owns, OwnsAt, OwnsNext
<1>6. \A u \in Users : OwnsNext(u, None)
  BY DEF Owns, OwnsAt, OwnsNext
<1> QED
  BY <1>4, <1>5, <1>6

\* Calendars of other users than the one at hand stay as they are.
LEMMA OtherCalendars ==
    ASSUME GoodInv, OwnInv, NEW r \in Reqs, ReqStep(r), NEW u \in Users,
           ~At(r, "call") \/ u # req[r].user
    PROVE  Live(u)' = Live(u) /\ \A e \in Live(u) : event'[e] = event[e]
<1> DEFINE w == req[r].user
           d == req[r].seen.map[w]
           s == req[r].seen.slot
<1>0. /\ event \in [Ids -> Event \cup {None}] /\ last \in 0..MaxEvents /\ None \notin Event
      /\ Ids = 1..MaxEvents /\ MaxEvents \in Nat /\ None \notin Ids /\ Good(req[r])
  BY Facts DEF GoodInv
<1>1. CASE UNCHANGED <<event, last>>
  BY <1>1 DEF Live
<1>2. CASE ~UNCHANGED <<event, last>>
  <2>1. /\ At(r, "call")
        /\ \/ d \in Ids /\ event' = [event EXCEPT ![d] = None]
           \/ d \in Ids /\ event[d] # None /\ event' = [event EXCEPT ![d].slot = s]
           \/ last + 1 \in Ids /\ event' = [event EXCEPT ![last + 1] = [user |-> w, slot |-> s]]
    BY <1>2, EventSteps
  <2>2. w \in Users /\ u # w
    BY <1>0, <2>1 DEF At, Good
  <2>3. d \in Ids => event[d] = None \/ event[d].user = w
    BY <1>0, <2>2 DEF OwnInv, Owns, OwnsAt, OwnsNext
  <2>4. last + 1 \in Ids => event[last + 1] = None
    BY <1>0 DEF OwnInv
  <2> HIDE DEF d, w, s
  <2>5. \A e \in Ids : event[e] # None /\ event[e].user = u => event'[e] = event[e]
    BY <1>0, <2>1, <2>2, <2>3, <2>4
  <2>6. \A e \in Ids : event'[e] # None /\ event'[e].user = u => event'[e] = event[e]
    BY <1>0, <2>1, <2>2, <2>3, <2>4 DEF Event
  <2> QED
    BY <2>5, <2>6 DEF Live
<1> QED
  BY <1>1, <1>2

\* What a step of a request sees and makes of the two maps it works with.
LEMMA MapsStep ==
    ASSUME GoodInv, OwnInv, NEW r \in Reqs, ReqStep(r)
    PROVE  \A u \in Users : OwnsNext(u, req'[r].seen.map[u]) /\ OwnsNext(u, req'[r].new[u])
<1>0. /\ TypeOK /\ Good(req[r]) /\ req[r] \in Request /\ NoMap \in Map /\ req \in [Reqs -> Request]
      /\ event \in [Ids -> Event \cup {None}] /\ last \in 0..MaxEvents /\ MaxEvents \in Nat
  BY Facts DEF GoodInv
<1>1. \A u \in Users : OwnsNext(u, None)
  BY DEF Owns, OwnsAt, OwnsNext
<1>2. \A u \in Users : OwnsNext(u, req[r].seen.map[u]) /\ OwnsNext(u, req[r].new[u])
  BY <1>0, OwnsStays, RequestFields DEF OwnInv
<1>3. visit # None => \A u \in Users : OwnsNext(u, visit.map[u])
  BY <1>0, Facts, OwnsStays DEF OwnInv, Visit, Map
<1>4. \A u \in Users : NoMap[u] = None
  BY DEF NoMap
<1>5. CASE Leave(r)
  BY <1>0, <1>1, <1>4, <1>5 DEF Leave, NoRequest
<1>6. ASSUME NEW v \in Visit, NEW drop \in BOOLEAN, Snapshot(r, v, drop), v.map = NoMap \/ v = visit
      PROVE  \A u \in Users : OwnsNext(u, req'[r].seen.map[u]) /\ OwnsNext(u, req'[r].new[u])
  <2>1. PICK q : req' = [req EXCEPT ![r] = q] /\ q.seen = v /\ q.new = NoMap
    BY <1>0, <1>6, SnapshotStep
  <2>2. req'[r] = q
    BY <1>0, <2>1
  <2>3. visit # None \/ v.map = NoMap
    BY <1>0, <1>6, Facts
  <2> QED
    BY <1>1, <1>3, <1>4, <1>6, <2>1, <2>2, <2>3
<1>7. CASE CreateVisit(r)
  <2>1. PICK owners \in SUBSET Users : Snapshot(r, [owners |-> owners, slot |-> 0, map |-> NoMap], FALSE)
    BY <1>7 DEF CreateVisit
  <2> DEFINE v == [owners |-> owners, slot |-> 0, map |-> NoMap]
  <2>2. v \in Visit /\ v.map = NoMap
    BY <1>0 DEF Visit
  <2> HIDE DEF v
  <2>3. Snapshot(r, v, FALSE)
    BY <2>1 DEF v
  <2> QED
    BY <1>6, <2>2, <2>3
<1>8. CASE RereadVisit(r) \/ FindVisit(r)
  BY <1>0, <1>5, <1>6, <1>8, Facts DEF RereadVisit, FindVisit
<1>9. ASSUME NEW q, req' = [req EXCEPT ![r] = q], q.seen.map = req[r].seen.map,
             q.new = req[r].new \/ q.new = req[r].seen.map
      PROVE  \A u \in Users : OwnsNext(u, req'[r].seen.map[u]) /\ OwnsNext(u, req'[r].new[u])
  <2>1. req'[r] = q
    BY <1>0, <1>9
  <2> QED
    BY <1>2, <1>9, <2>1
<1>10. ASSUME NEW p \in {"reread", "write", "remove"}, Go(r, p)
       PROVE  \A u \in Users : OwnsNext(u, req'[r].seen.map[u]) /\ OwnsNext(u, req'[r].new[u])
  <2>1. req' = [req EXCEPT ![r] = [req[r] EXCEPT !.pc = p]]
    BY <1>0, <1>10 DEF Go
  <2>2. [req[r] EXCEPT !.pc = p].seen = req[r].seen /\ [req[r] EXCEPT !.pc = p].new = req[r].new
    BY <1>0 DEF Request
  <2> QED
    BY <1>9, <2>1, <2>2
<1>11. CASE ReadLead(r)
  BY <1>0, <1>9, <1>11, ReadLeadStep
<1>12. CASE NextUser(r)
  BY <1>0, <1>9, <1>12, NextUserStep
<1>13. ASSUME At(r, "call"), NEW e \in Ids \cup {None}, Enter(r, e), OwnsNext(req[r].user, e)
       PROVE  \A u \in Users : OwnsNext(u, req'[r].seen.map[u]) /\ OwnsNext(u, req'[r].new[u])
  <2>1. PICK q : /\ req' = [req EXCEPT ![r] = q] /\ q.seen = req[r].seen /\ q.new[req[r].user] = e
                 /\ \A u \in Users \ {req[r].user} : q.new[u] = req[r].new[u]
    BY <1>0, <1>13, EnterStep
  <2>2. req'[r] = q
    BY <1>0, <2>1
  <2>3. \A u \in Users : OwnsNext(u, req'[r].seen.map[u])
    BY <1>2, <2>1, <2>2
  <2>4. ASSUME NEW u \in Users PROVE OwnsNext(u, req'[r].new[u])
    BY <1>2, <1>13, <2>1, <2>2
  <2> QED
    BY <2>3, <2>4
<1>14. At(r, "call") => /\ req[r].user \in Users /\ req[r].seen.map[req[r].user] \in Ids \cup {None}
                        /\ OwnsNext(req[r].user, req[r].seen.map[req[r].user])
  BY <1>0, <1>2, RequestFields DEF At, Good
<1>15. CASE DeleteEvent(r)
  BY <1>1, <1>13, <1>14, <1>15 DEF DeleteEvent
<1>16. CASE UpdateEvent(r)
  BY <1>13, <1>14, <1>16 DEF UpdateEvent
<1>17. CASE CallRaises(r)
  <2>1. At(r, "call") /\ Enter(r, IF Wanted(req[r]) THEN req[r].seen.map[req[r].user] ELSE None)
    BY <1>17 DEF CallRaises
  <2> QED
    BY <1>1, <1>13, <1>14, <2>1
<1>18. CASE InsertEvent(r)
  <2>1. /\ At(r, "call") /\ last < MaxEvents /\ last' = last + 1 /\ Enter(r, last + 1)
        /\ event' = [event EXCEPT ![last + 1] = [user |-> req[r].user, slot |-> req[r].seen.slot]]
    BY <1>18 DEF InsertEvent, Entered
  <2>2. last + 1 \in Ids
    BY <1>0, <2>1, Facts
  <2>3. event'[last + 1].user = req[r].user /\ last + 1 <= last'
    BY <1>0, <2>1, <2>2
  <2>4. OwnsNext(req[r].user, last + 1)
    BY <2>3 DEF OwnsNext, OwnsAt
  <2> QED
    BY <1>13, <2>1, <2>2, <2>4
<1>19. CASE SyncRaises(r)
  BY <1>5, <1>10, <1>19 DEF SyncRaises
<1> QED
  BY <1>5, <1>7, <1>8, <1>10, <1>11, <1>12, <1>15, <1>16, <1>17, <1>18, <1>19
  DEF ReqStep, UpdateVisit, EndCalls, WriteMap, DeleteVisit, Kill

LEMMA OwnStep ==
    ASSUME GoodInv, OwnInv, [Next]_vars
    PROVE  OwnInv'
<1>1. ASSUME NEW r \in Reqs, ReqStep(r) PROVE OwnInv'
  <2>0. /\ TypeOK /\ Good(req[r]) /\ req[r] \in Request /\ NoMap \in Map /\ req \in [Reqs -> Request]
    BY Facts DEF GoodInv
  <2>1. \A e \in Ids : e > last' => event'[e] = None
    BY <1>1, OwnsStays
  <2>2. PICK q : req' = [req EXCEPT ![r] = q]
    BY <1>1, LocalsStep
  <2>3. \A s \in Reqs \ {r} : req'[s] = req[s]
    BY <2>0, <2>2
  <2>4. ASSUME NEW s \in Reqs, NEW u \in Users
        PROVE  OwnsNext(u, req'[s].seen.map[u]) /\ OwnsNext(u, req'[s].new[u])
    <3>1. CASE s = r
      BY <1>1, <3>1, MapsStep
    <3>2. CASE s # r
      <4>1. req'[s] = req[s] /\ req[s] \in Request
        BY <2>0, <2>3, <3>2
      <4> QED
        BY <1>1, <4>1, OwnsStays, RequestFields DEF OwnInv
    <3> QED
      BY <3>1, <3>2
  <2>5. ASSUME visit' # None, NEW u \in Users PROVE OwnsNext(u, visit'.map[u])
    <3>1. visit # None => OwnsNext(u, visit.map[u])
      BY <1>1, <2>0, Facts, OwnsStays DEF OwnInv, Visit, Map
    <3>2. OwnsNext(u, req[r].new[u]) /\ OwnsNext(u, None)
      BY <1>1, <2>0, OwnsStays, RequestFields DEF OwnInv, Owns, OwnsAt, OwnsNext
    <3>3. CASE CreateVisit(r)
      <4>1. visit'.map[u] = None
        BY <3>3 DEF CreateVisit, NoMap
      <4> QED
        BY <3>2, <4>1
    <3>4. CASE UpdateVisit(r)
      <4>1. visit # None /\ visit'.map = visit.map
        BY <2>0, <3>4, Facts DEF UpdateVisit, Visit
      <4> QED
        BY <3>1, <4>1
    <3>5. CASE WriteMap(r)
      <4>1. visit # None /\ visit'.map = req[r].new
        BY <2>0, <2>5, <3>5, Facts DEF WriteMap, MapAfter, Visit
      <4> QED
        BY <3>2, <4>1
    <3>6. CASE visit' = visit
      BY <2>5, <3>1, <3>6
    <3>7. ~DeleteVisit(r)
      BY <2>5 DEF DeleteVisit
    <3> QED
      BY <1>1, <3>3, <3>4, <3>5, <3>6, <3>7 DEF ReqStep, RereadVisit, FindVisit, ReadLead, NextUser,
         DeleteEvent, InsertEvent, UpdateEvent, CallRaises, EndCalls, SyncRaises, Kill
  <2> QED
    BY <2>1, <2>4, <2>5 DEF OwnInv, Owns, OwnsNext
<1>2. ASSUME NEW u \in Users, Connect(u) \/ Disconnect(u) PROVE OwnInv'
  BY <1>2 DEF Connect, Disconnect, OwnInv, Owns, OwnsAt, OwnsNext, bounds
<1>3. CASE UNCHANGED vars
  BY <1>3 DEF vars, bounds, OwnInv, Owns, OwnsAt, OwnsNext
<1> QED
  BY <1>1, <1>2, <1>3 DEF Next

-----------------------------------------------------------------------------
(***************************************************************************)
(* Calendars and the visit.                                                *)
(***************************************************************************)

\* The id a run has for u by now, and whether it is done with u.
Now(q, u) == IF q.pc = "lead" THEN q.seen.map[u] ELSE q.new[u]
Reached(q, u) == q.pc # "lead" /\ u \notin q.left /\ u # q.user

\* No update of the visit has still to be read again.
Settled == \A r \in Reqs : ~At(r, "reread")

AtSlot(u, s) == \A e \in Live(u) : event[e].slot = s

\* Between runs u's calendar is as the visit says, at its time once all updates
\* were read; during a run as the run has it by now, at its time once reached.
Rest(u) ==
    /\ Live(u) = IF visit = None THEN {} ELSE {visit.map[u]} \ {None}
    /\ visit # None /\ Settled => AtSlot(u, visit.slot)
Synced(q, u) ==
    /\ Live(u) = {Now(q, u)} \ {None}
    /\ Reached(q, u) => IF q.drop THEN Live(u) = {} ELSE AtSlot(u, q.seen.slot)
    /\ Settled => q.seen.slot = visit.slot

Match(u) ==
    /\ Live(u) # {} => u \in connected
    /\ (\A r \in Reqs : ~Syncing(r)) => Rest(u)
    /\ \A r \in Reqs : Syncing(r) => Synced(req[r], u)

\* Without overlap a run is alone and has the visit's map.
Solo ==
    \A r \in Reqs : Syncing(r) =>
        /\ \A s \in Reqs \ {r} : ~Syncing(s)
        /\ visit # None
        /\ req[r].seen.map = visit.map

\* A run that ended without coming to u, or lost u's connection, failed for u.
LeftInv ==
    \A r \in Reqs : /\ req[r].pc \in {"write", "remove"} => req[r].left \subseteq failed
                    /\ At(r, "call") => req[r].user \in connected \cup failed

Calm == Solo /\ \A u \in Users \ failed : Match(u)
CalInv == LeftInv /\ (~raced => Calm)

\* Overlaps and failures are not forgotten.
LEMMA Observed ==
    ASSUME GoodInv, NEW r \in Reqs, ReqStep(r)
    PROVE  (raced => raced') /\ failed \subseteq failed' /\ connected' = connected
<1>1. failed \subseteq failed'
  BY NextUserStep DEF GoodInv, ReqStep, CreateVisit, UpdateVisit, RereadVisit, FindVisit, ReadLead, NextUser,
     DeleteEvent, InsertEvent, UpdateEvent, CallRaises, EndCalls, WriteMap, DeleteVisit, SyncRaises, Kill
<1>2. connected' = connected
  BY DEF ReqStep, CreateVisit, UpdateVisit, RereadVisit, FindVisit, ReadLead, NextUser, DeleteEvent,
     InsertEvent, UpdateEvent, CallRaises, EndCalls, WriteMap, DeleteVisit, SyncRaises, Kill
<1>3. raced => raced'
  BY DEF ReqStep, CreateVisit, UpdateVisit, RereadVisit, FindVisit, ReadLead, NextUser, DeleteEvent,
     InsertEvent, UpdateEvent, CallRaises, EndCalls, WriteMap, DeleteVisit, SyncRaises, Kill, Snapshot
<1> QED
  BY <1>1, <1>2, <1>3

\* The run of r goes on.
LEMMA Stay ==
    ASSUME GoodInv, Calm, NEW r \in Reqs, Syncing(r), NEW q, req' = [req EXCEPT ![r] = q],
           q.pc \in {"lead", "next", "call", "write", "remove"}, q.seen.map = req[r].seen.map,
           UNCHANGED <<visit, connected>>,
           \A u \in Users \ failed' : Synced(q, u)' /\ (Live(u)' # {} => u \in connected)
    PROVE  Calm'
<1>1. req'[r] = q /\ \A s \in Reqs \ {r} : req'[s] = req[s]
  BY Facts DEF GoodInv
<1>2. \A s \in Reqs \ {r} : ~Syncing(s) /\ ~Syncing(s)'
  BY <1>1 DEF Calm, Solo, Syncing
<1>3. Syncing(r)'
  BY <1>1 DEF Syncing
<1>4. Solo'
  BY <1>1, <1>2 DEF Calm, Solo
<1>5. ASSUME NEW u \in Users, u \notin failed' PROVE Match(u)'
  <2>1. (Live(u) # {} => u \in connected)'
    BY <1>5
  <2>2. (\A s \in Reqs : Syncing(s) => Synced(req[s], u))'
    <3>1. ASSUME NEW s \in Reqs, Syncing(s)' PROVE Synced(req[s], u)'
      <4>1. s = r
        BY <1>2, <3>1
      <4>2. Synced(q, u)'
        BY <1>5
      <4> QED
        BY <1>1, <4>1, <4>2 DEF Synced, Now, Reached
    <3> QED
      BY <3>1
  <2> QED
    BY <1>3, <2>1, <2>2 DEF Match
<1> QED
  BY <1>4, <1>5 DEF Calm

\* The run of r is over, the only one there was.
LEMMA Gone ==
    ASSUME GoodInv, Calm, NEW r \in Reqs, Syncing(r), Leave(r), UNCHANGED connected,
           \A u \in Users \ failed' : Rest(u)' /\ (Live(u)' # {} => u \in connected)
    PROVE  Calm'
<1>1. req'[r] = NoRequest /\ \A s \in Reqs \ {r} : req'[s] = req[s]
  BY Facts DEF GoodInv, Leave
<1>2. \A s \in Reqs : ~Syncing(s)'
  BY <1>1 DEF Calm, Solo, Syncing, NoRequest
<1> QED
  BY <1>2 DEF Calm, Solo, Match

\* A run starts from the visit when there was none.
LEMMA Starts ==
    ASSUME GoodInv, Calm, NEW r \in Reqs, NEW drop \in BOOLEAN, Snapshot(r, visit', drop), ~raced',
           visit' \in Visit, visit' = visit \/ (visit = None /\ visit'.map = NoMap),
           UNCHANGED <<connected, failed, event>>
    PROVE  Calm'
<1>0. \A s \in Reqs : ~Syncing(s)
  BY DEF Snapshot
<1>1. PICK v \in Visit : v = visit'
  OBVIOUS
<1>2. PICK q : /\ req' = [req EXCEPT ![r] = q] /\ q.pc = "lead" /\ q.drop = drop /\ q.seen = v
               /\ q.left = {}
  BY <1>1, SnapshotStep DEF GoodInv
<1>3. req'[r] = q /\ \A s \in Reqs \ {r} : req'[s] = req[s]
  BY <1>2, Facts DEF GoodInv
<1>4. \A s \in Reqs \ {r} : ~Syncing(s)'
  BY <1>0, <1>3 DEF Syncing
<1>5. Syncing(r)'
  BY <1>2, <1>3 DEF Syncing
<1>6. visit' # None /\ req'[r].seen = visit'
  BY <1>1, <1>2, <1>3, Facts DEF GoodInv
<1>7. Solo'
  BY <1>4, <1>6 DEF Solo
<1>8. ASSUME NEW u \in Users, u \notin failed PROVE Match(u)'
  <2>1. Match(u) /\ Rest(u) /\ Live(u)' = Live(u)
    BY <1>0, <1>8 DEF Calm, Match, Live
  <2>2. Live(u) = {v.map[u]} \ {None}
    <3>1. CASE visit' = visit
      BY <1>1, <1>6, <2>1, <3>1 DEF Rest
    <3>2. CASE visit = None /\ visit'.map = NoMap
      BY <1>1, <2>1, <3>2 DEF Rest, NoMap
    <3> QED
      BY <3>1, <3>2
  <2>3. Synced(req[r], u)'
    BY <1>2, <1>3, <1>6, <2>1, <2>2, <1>1 DEF Synced, Now, Reached
  <2> QED
    BY <1>4, <1>5, <2>1, <2>3 DEF Match
<1> QED
  BY <1>7, <1>8 DEF Calm

\* A user whose calendar a step left alone.
LEMMA Unmoved ==
    ASSUME NEW r \in Reqs, NEW u \in Users, NEW q, UNCHANGED visit, Settled' => Settled,
           Live(u)' = Live(u), \A e \in Live(u) : event'[e] = event[e],
           Synced(req[r], u), Now(q, u) = Now(req[r], u), q.drop = req[r].drop,
           q.seen.slot = req[r].seen.slot, Reached(q, u) => Reached(req[r], u) \/ Live(u) = {}
    PROVE  Synced(q, u)'
<1>1. Now(q, u)' = Now(q, u) /\ (Reached(q, u)' <=> Reached(q, u))
  BY DEF Now, Reached
<1> QED
  BY <1>1 DEF Synced, AtSlot

\* Nothing is to be read again that was not before.
LEMMA SettledStep ==
    ASSUME GoodInv, NEW r \in Reqs, NEW q, req' = [req EXCEPT ![r] = q], ~At(r, "reread")
    PROVE  Settled' => Settled
<1>1. \A s \in Reqs \ {r} : req'[s] = req[s]
  BY Facts DEF GoodInv
<1> QED
  BY <1>1 DEF Settled, At

\* A run that comes to no calendar keeps step with them.
LEMMA QuietCalm ==
    ASSUME GoodInv, OwnInv, CalInv, Calm, NEW r \in Reqs,
           ReadLead(r) \/ NextUser(r) \/ EndCalls(r)
    PROVE  Calm'
<1>0. /\ TypeOK /\ Good(req[r]) /\ req[r] \in Request /\ ReqStep(r) /\ Syncing(r)
      /\ UNCHANGED <<visit, connected>> /\ ~At(r, "call") /\ ~At(r, "reread") /\ failed \subseteq failed'
  BY Facts, Observed DEF GoodInv, ReqStep, Syncing, ReadLead, NextUser, EndCalls, At
<1>1. \A u \in Users : Live(u)' = Live(u) /\ \A e \in Live(u) : event'[e] = event[e]
  BY <1>0, OtherCalendars
<1>2. \A u \in Users \ failed : Synced(req[r], u) /\ (Live(u) # {} => u \in connected)
  BY <1>0 DEF Calm, Match
<1>3. CASE ReadLead(r)
  <2>1. PICK q : /\ req' = [req EXCEPT ![r] = q]
                 /\ q.pc = "next" /\ q.drop = req[r].drop
                 /\ q.seen.map = req[r].seen.map /\ q.seen.slot = req[r].seen.slot
                 /\ q.new = q.seen.map
                 /\ \A u \in Users \ q.left : q.seen.map[u] = None
    BY <1>0, <1>3, ReadLeadStep
  <2>2. ASSUME NEW u \in Users, u \notin failed' PROVE Synced(q, u)'
    <3>1. Now(q, u) = Now(req[r], u)
      BY <1>3, <2>1 DEF Now, ReadLead, At
    <3>2. Reached(q, u) => Live(u) = {}
      BY <1>0, <1>2, <2>1, <2>2, <3>1 DEF Reached, Synced, Now
    <3> QED
      BY <1>0, <1>1, <1>2, <2>1, <2>2, <3>1, <3>2, SettledStep, Unmoved
  <2> QED
    BY <1>0, <1>1, <1>2, <2>1, <2>2, Stay
<1>4. CASE NextUser(r)
  <2>1. PICK w, q : /\ w \in req[r].left
                    /\ req' = [req EXCEPT ![r] = q]
                    /\ q.left = req[r].left \ {w} /\ q.drop = req[r].drop
                    /\ q.seen = req[r].seen /\ q.new = req[r].new
                    /\ \/ q.pc = "call" /\ q.user = w /\ w \in connected
                       \/ q.pc = "next" /\ w \notin connected
                       \/ q.pc = "next" /\ w \in failed'
    BY <1>0, <1>4, NextUserStep
  <2>2. req[r].pc = "next" /\ req[r].user = None /\ None \notin Users
    BY <1>0, <1>4, Facts DEF Good, NextUser, At
  <2>3. ASSUME NEW u \in Users, u \notin failed' PROVE Synced(q, u)'
    <3>1. Now(q, u) = Now(req[r], u) /\ (Live(u) # {} => u \in connected)
      BY <1>0, <1>2, <2>1, <2>2, <2>3 DEF Now
    <3>2. Reached(q, u) => Reached(req[r], u) \/ Live(u) = {}
      BY <2>1, <2>2, <2>3, <3>1 DEF Reached
    <3> QED
      BY <1>0, <1>1, <1>2, <2>1, <2>3, <3>1, <3>2, SettledStep, Unmoved
  <2> QED
    BY <1>0, <1>1, <1>2, <2>1, <2>3, Stay
<1>5. CASE EndCalls(r)
  <2>1. PICK q : /\ req' = [req EXCEPT ![r] = q] /\ q.pc \in {"write", "remove"}
                 /\ q.drop = req[r].drop /\ q.seen = req[r].seen /\ q.new = req[r].new
    <3>1. PICK p \in {"write", "remove"} : Go(r, p) /\ (p = "write" => ~req[r].drop)
                                                    /\ (p = "remove" => req[r].drop)
      BY <1>5 DEF EndCalls
    <3> QED
      BY <1>0, <3>1, GoStep
  <2>2. req[r].pc = "next" /\ req[r].left = {} /\ req[r].user = None /\ None \notin Users
    BY <1>0, <1>5, Facts DEF Good, EndCalls, At
  <2>3. ASSUME NEW u \in Users, u \notin failed' PROVE Synced(q, u)'
    <3>1. Now(q, u) = Now(req[r], u) /\ Reached(req[r], u)
      BY <2>1, <2>2 DEF Now, Reached
    <3> QED
      BY <1>0, <1>1, <1>2, <2>1, <2>3, <3>1, SettledStep, Unmoved
  <2> QED
    BY <1>0, <1>1, <1>2, <2>1, <2>3, Stay
<1> QED
  BY <1>3, <1>4, <1>5

\* A call brings its user's calendar in step, or the user has failed.
LEMMA CallCalm ==
    ASSUME GoodInv, OwnInv, CalInv, Calm, NEW r \in Reqs,
           DeleteEvent(r) \/ InsertEvent(r) \/ UpdateEvent(r) \/ CallRaises(r)
    PROVE  Calm'
<1>w. PICK w : w = req[r].user
  OBVIOUS
<1> DEFINE d == req[r].seen.map[w]
           s == req[r].seen.slot
<1>0. /\ TypeOK /\ Good(req[r]) /\ req[r] \in Request /\ ReqStep(r) /\ Syncing(r) /\ At(r, "call")
      /\ UNCHANGED <<visit, connected>> /\ ~At(r, "reread") /\ failed \subseteq failed'
  BY Facts, Observed DEF GoodInv, ReqStep, Syncing, DeleteEvent, InsertEvent, UpdateEvent, CallRaises, At
<1>1. \A u \in Users \ {w} : Live(u)' = Live(u) /\ \A e \in Live(u) : event'[e] = event[e]
  BY <1>0, <1>w, OtherCalendars
<1>2. \A u \in Users \ failed : Synced(req[r], u) /\ (Live(u) # {} => u \in connected)
  BY <1>0 DEF Calm, Match
<1>3. /\ w \in Users /\ d \in Ids \cup {None} /\ req[r].new[w] = d /\ w \notin req[r].left
      /\ None \notin Users /\ None \notin Ids /\ None \notin Event
      /\ w \notin failed => w \in connected
      /\ event \in [Ids -> Event \cup {None}] /\ last \in 0..MaxEvents
  BY <1>0, <1>w, RequestFields, Facts DEF At, Good, CalInv, LeftInv
<1>4. w \notin failed => Live(w) = {d} \ {None}
  BY <1>0, <1>2, <1>3 DEF Synced, Now, At
\* What follows once the step is known to enter e.
<1>5. ASSUME NEW e \in Ids \cup {None}, Enter(r, e),
             w \notin failed' => /\ Live(w)' = {e} \ {None}
                                 /\ IF req[r].drop THEN e = None ELSE \A i \in Live(w)' : event'[i].slot = s
      PROVE  Calm'
  <2>1. PICK q : /\ req' = [req EXCEPT ![r] = q] /\ Good(q)
                 /\ q.pc = "next" /\ q.left = req[r].left /\ q.drop = req[r].drop
                 /\ q.seen = req[r].seen /\ q.new[w] = e
                 /\ \A u \in Users \ {w} : q.new[u] = req[r].new[u]
    BY <1>0, <1>5, <1>w, EnterStep
  <2>2. q.user = None
    BY <2>1 DEF Good
  <2>3. Settled' => Settled
    BY <1>0, <2>1, SettledStep
  <2>4. ASSUME NEW u \in Users, u \notin failed', u # w PROVE Synced(q, u)' /\ Live(u)' = Live(u)
    <3>1. Now(q, u) = Now(req[r], u)
      BY <1>0, <2>1, <2>4 DEF Now, At
    <3>2. Reached(q, u) => Reached(req[r], u)
      BY <1>0, <1>w, <2>1, <2>4 DEF Reached, At
    <3> QED
      BY <1>0, <1>1, <1>2, <2>1, <2>3, <2>4, <3>1, <3>2, Unmoved
  <2>5. ASSUME w \notin failed' PROVE Synced(q, w)'
    <3>1. Live(w)' = {Now(q, w)} \ {None}
      BY <1>5, <2>1, <2>5 DEF Now
    <3>2. Settled' => q.seen.slot = visit'.slot
      BY <1>0, <1>2, <1>3, <2>1, <2>3, <2>5 DEF Synced
    <3>3. IF q.drop THEN Live(w)' = {} ELSE \A i \in Live(w)' : event'[i].slot = q.seen.slot
      BY <1>5, <2>1, <2>5
    <3> QED
      BY <3>1, <3>2, <3>3 DEF Synced, AtSlot, Now
  <2>6. \A u \in Users \ failed' : Synced(q, u)' /\ (Live(u)' # {} => u \in connected)
    BY <1>0, <1>2, <1>3, <2>4, <2>5
  <2> QED
    BY <1>0, <2>1, <2>6, Stay
<1> HIDE DEF d, s
<1>6. CASE DeleteEvent(r)
  <2>1. /\ Enter(r, None) /\ ~Wanted(req[r])
        /\ event' = (IF d = None THEN event ELSE [event EXCEPT ![d] = None])
    BY <1>6, <1>w DEF DeleteEvent, d
  <2>2. w \notin failed => Live(w)' = {}
    <3>1. ASSUME w \notin failed PROVE \A i \in Ids : ~(event'[i] # None /\ event'[i].user = w)
      <4>1. \A i \in Ids : event[i] # None /\ event[i].user = w => i = d
        BY <1>4, <3>1 DEF Live
      <4> QED
        BY <1>3, <2>1, <4>1
    <3> QED
      BY <3>1 DEF Live
  <2> QED
    BY <1>0, <1>5, <2>1, <2>2
<1>7. CASE InsertEvent(r)
  <2>1. /\ last < MaxEvents /\ d = None /\ Wanted(req[r]) /\ Enter(r, last + 1)
        /\ event' = [event EXCEPT ![last + 1] = [user |-> w, slot |-> s]]
    BY <1>7, <1>w DEF InsertEvent, Entered, d, s
  <2>2. last + 1 \in Ids /\ ~req[r].drop
    BY <1>0, <2>1, Facts DEF Wanted
  <2>3. event'[last + 1] = [user |-> w, slot |-> s]
    BY <1>3, <2>1, <2>2
  <2>4. w \notin failed => Live(w)' = {last + 1}
    <3>1. ASSUME w \notin failed
          PROVE  \A i \in Ids : (event'[i] # None /\ event'[i].user = w) <=> i = last + 1
      <4>1. \A i \in Ids : ~(event[i] # None /\ event[i].user = w)
        BY <1>4, <2>1, <3>1 DEF Live
      <4>2. [user |-> w, slot |-> s] # None
        BY <1>0, <1>3, RequestFields DEF Event, s
      <4> QED
        BY <1>3, <2>1, <2>2, <2>3, <4>1, <4>2
    <3> QED
      BY <2>2, <3>1 DEF Live
  <2> QED
    BY <1>0, <1>3, <1>5, <2>1, <2>2, <2>3, <2>4
<1>8. CASE UpdateEvent(r)
  <2>1. /\ d # None /\ Wanted(req[r]) /\ Enter(r, d)
        /\ event' = (IF event[d] = None THEN event ELSE [event EXCEPT ![d].slot = s])
    BY <1>8, <1>w DEF UpdateEvent, d, s
  <2>2. d \in Ids /\ ~req[r].drop
    BY <1>3, <2>1 DEF Wanted
  <2>3. ASSUME w \notin failed PROVE Live(w)' = {d} /\ event'[d].slot = s
    <3>1. \A i \in Ids : (event[i] # None /\ event[i].user = w) <=> i = d
      BY <1>3, <1>4, <2>1, <2>2, <2>3 DEF Live
    <3>2. event[d] # None /\ event[d] \in Event
      BY <1>3, <2>2, <3>1
    <3>3. event' = [event EXCEPT ![d].slot = s]
      BY <2>1, <3>2
    <3>4. event'[d] = [event[d] EXCEPT !.slot = s] /\ \A i \in Ids \ {d} : event'[i] = event[i]
      BY <1>3, <2>2, <3>3
    <3>5. event'[d].user = event[d].user /\ event'[d].slot = s /\ event'[d] \in Event
      BY <1>0, <3>2, <3>4, RequestFields DEF Event, s
    <3>6. \A i \in Ids : (event'[i] # None /\ event'[i].user = w) <=> i = d
      BY <1>3, <2>2, <3>1, <3>4, <3>5
    <3> QED
      BY <2>2, <3>5, <3>6 DEF Live
  <2> QED
    BY <1>0, <1>3, <1>5, <2>1, <2>2, <2>3
<1>9. CASE CallRaises(r)
  <2>1. /\ Enter(r, IF Wanted(req[r]) THEN d ELSE None) /\ w \in failed'
    BY <1>9, <1>w DEF CallRaises, d
  <2> QED
    BY <1>3, <1>5, <2>1
<1> QED
  BY <1>6, <1>7, <1>8, <1>9

\* A run that ends, or a deletion that goes on without its run.
LEMMA EndCalm ==
    ASSUME GoodInv, OwnInv, CalInv, Calm, NEW r \in Reqs, Syncing(r),
           WriteMap(r) \/ DeleteVisit(r) \/ SyncRaises(r) \/ Kill(r)
    PROVE  Calm'
<1>0. /\ TypeOK /\ Good(req[r]) /\ req[r] \in Request /\ ReqStep(r)
      /\ UNCHANGED <<connected, event>> /\ ~At(r, "reread") /\ failed \subseteq failed'
      /\ visit \in Visit /\ visit # None /\ req[r].seen.map = visit.map /\ None \notin Users
  BY Facts, Observed DEF GoodInv, ReqStep, Syncing, WriteMap, DeleteVisit, SyncRaises, Kill, At, Calm, Solo
<1>1. \A u \in Users : Live(u)' = Live(u) /\ \A e \in Live(u) : event'[e] = event[e]
  BY <1>0 DEF Live
<1>2. \A u \in Users \ failed : Synced(req[r], u) /\ (Live(u) # {} => u \in connected)
  BY DEF Calm, Match
<1>3. Leave(r) => (Settled' => Settled)
  BY <1>0, SettledStep DEF Leave
<1>4. CASE WriteMap(r)
  <2>1. /\ req[r].pc = "write" /\ ~req[r].drop /\ req[r].user = None /\ req[r].left \subseteq failed
        /\ failed' = failed /\ Leave(r)
    BY <1>0, <1>4 DEF WriteMap, At, Good, CalInv, LeftInv
  <2>2. visit' = [visit EXCEPT !.map = req[r].new]
    BY <1>0, <1>4 DEF WriteMap, MapAfter
  <2>3. visit' # None /\ visit'.map = req[r].new /\ visit'.slot = visit.slot
    <3>1. visit' \in Visit /\ visit'.map = req[r].new /\ visit'.slot = visit.slot
      BY <1>0, <2>2, RequestFields DEF Visit
    <3> QED
      BY <1>0, <3>1, Facts
  <2>4. ASSUME NEW u \in Users, u \notin failed PROVE Rest(u)'
    <3>1. Reached(req[r], u) /\ Now(req[r], u) = req[r].new[u]
      BY <1>0, <2>1, <2>4 DEF Reached, Now
    <3>2. /\ Live(u) = {req[r].new[u]} \ {None} /\ AtSlot(u, req[r].seen.slot)
          /\ (Settled => req[r].seen.slot = visit.slot)
      BY <1>2, <2>1, <2>4, <3>1 DEF Synced
    <3>3. Live(u)' = IF visit' = None THEN {} ELSE {visit'.map[u]} \ {None}
      BY <1>1, <2>3, <3>2
    <3>4. Settled' => \A e \in Live(u)' : event'[e].slot = visit'.slot
      BY <1>1, <1>3, <2>1, <2>3, <3>2 DEF AtSlot
    <3> QED
      BY <3>3, <3>4 DEF Rest, AtSlot
  <2> QED
    BY <1>0, <1>1, <1>2, <2>1, <2>4, Gone
<1>5. CASE DeleteVisit(r)
  <2>1. /\ req[r].pc = "remove" /\ req[r].drop /\ req[r].user = None /\ req[r].left \subseteq failed
        /\ failed' = failed /\ Leave(r) /\ visit' = None
    BY <1>0, <1>5 DEF DeleteVisit, At, Good, CalInv, LeftInv
  <2>2. ASSUME NEW u \in Users, u \notin failed PROVE Rest(u)'
    <3>1. Reached(req[r], u)
      BY <1>0, <2>1, <2>2 DEF Reached
    <3>2. Live(u) = {}
      BY <1>2, <2>1, <2>2, <3>1 DEF Synced
    <3> QED
      BY <1>1, <2>1, <3>2 DEF Rest
  <2> QED
    BY <1>0, <1>1, <1>2, <2>1, <2>2, Gone
<1>6. ASSUME NEW u \in Users, u \notin failed, u \notin Unfinished(req[r])
      PROVE  /\ req[r].pc # "lead" /\ Reached(req[r], u) /\ req[r].new[u] = visit.map[u]
             /\ Live(u) = {visit.map[u]} \ {None}
             /\ IF req[r].drop THEN Live(u) = {} ELSE AtSlot(u, req[r].seen.slot)
             /\ Settled => req[r].seen.slot = visit.slot
  <2>1. req[r].pc # "lead" /\ u \notin req[r].left /\ u # req[r].user /\ req[r].new[u] = visit.map[u]
    BY <1>0, <1>6 DEF Unfinished
  <2> QED
    BY <1>2, <1>6, <2>1 DEF Synced, Reached, Now
<1>7. CASE (SyncRaises(r) \/ Kill(r)) /\ Leave(r)
  <2>1. failed' = failed \cup Unfinished(req[r]) /\ visit' = visit
    BY <1>7 DEF SyncRaises, Kill
  <2>2. ASSUME NEW u \in Users, u \notin failed' PROVE Rest(u)'
    <3>1. Live(u)' = IF visit' = None THEN {} ELSE {visit'.map[u]} \ {None}
      BY <1>0, <1>1, <1>6, <2>1, <2>2
    <3>2. Settled' => \A e \in Live(u)' : event'[e].slot = visit'.slot
      BY <1>1, <1>3, <1>6, <1>7, <2>1, <2>2 DEF AtSlot
    <3> QED
      BY <3>1, <3>2 DEF Rest, AtSlot
  <2> QED
    BY <1>0, <1>1, <1>2, <1>7, <2>2, Gone
<1>8. CASE SyncRaises(r) /\ ~Leave(r)
  <2>1. /\ failed' = failed \cup Unfinished(req[r]) /\ visit' = visit /\ ~At(r, "call")
        /\ req[r].drop /\ Go(r, "remove")
    BY <1>8 DEF SyncRaises, At
  <2>2. PICK q : /\ req' = [req EXCEPT ![r] = q]
                 /\ q.pc = "remove" /\ q.drop = req[r].drop /\ q.seen = req[r].seen
                 /\ q.left = req[r].left /\ q.new = req[r].new /\ q.user = None
    BY <1>0, <2>1, GoStep
  <2>3. ASSUME NEW u \in Users, u \notin failed' PROVE Synced(q, u)'
    <3>1. Now(q, u) = Now(req[r], u) /\ Reached(req[r], u) /\ Synced(req[r], u)
      BY <1>2, <1>6, <2>1, <2>2, <2>3 DEF Now
    <3> QED
      BY <1>0, <1>1, <2>1, <2>2, <3>1, SettledStep, Unmoved
  <2> QED
    BY <1>0, <1>1, <1>2, <2>1, <2>2, <2>3, Stay
<1> QED
  BY <1>4, <1>5, <1>7, <1>8 DEF Kill

\* Steps outside a run: an update, a request ended before its run, a deleted
\* visit that is read again.
LEMMA OutsideCalm ==
    ASSUME GoodInv, OwnInv, CalInv, Calm, NEW r \in Reqs,
           \/ UpdateVisit(r)
           \/ At(r, "reread") /\ (Kill(r) \/ (RereadVisit(r) /\ visit = None))
    PROVE  Calm'
<1>0. /\ TypeOK /\ Good(req[r]) /\ req[r] \in Request /\ ReqStep(r) /\ None \notin Visit
      /\ UNCHANGED <<connected, event>> /\ ~Syncing(r) /\ failed \subseteq failed'
      /\ visit # None => visit \in Visit
  BY Facts, Observed DEF GoodInv, ReqStep, Syncing, UpdateVisit, Begin, RereadVisit, Kill, At
<1>1. PICK q : req' = [req EXCEPT ![r] = q] /\ q.pc \in {"reread", "idle"}
  <2>1. CASE UpdateVisit(r)
    BY <1>0, <2>1, UpdateStep
  <2>2. CASE Leave(r)
    <3>1. NoRequest.pc = "idle"
      BY DEF NoRequest
    <3> QED
      BY <2>2, <3>1 DEF Leave
  <2> QED
    BY <2>1, <2>2 DEF Kill, RereadVisit
<1>2. req'[r] = q /\ \A s \in Reqs \ {r} : req'[s] = req[s]
  BY <1>1, Facts DEF GoodInv
<1>3. \A s \in Reqs : (Syncing(s)' <=> Syncing(s)) /\ (Syncing(s) => req'[s] = req[s])
  BY <1>0, <1>1, <1>2 DEF Syncing
<1>4. \A u \in Users : Live(u)' = Live(u)
  BY <1>0 DEF Live
<1>5. CASE UpdateVisit(r)
  <2>1. visit # None /\ visit' # None /\ visit'.map = visit.map
    <3>1. visit # None /\ visit \in Visit
      BY <1>0, <1>5 DEF UpdateVisit
    <3>2. PICK owners \in SUBSET Users, slot \in {visit.slot, visit.slot + 1} :
             visit' = [visit EXCEPT !.owners = owners, !.slot = slot]
      BY <1>5 DEF UpdateVisit
    <3>3. visit' \in Visit
      <4>1. visit.slot \in Nat /\ slot \in Nat
        BY <3>1 DEF Visit
      <4> QED
        BY <3>1, <3>2, <4>1 DEF Visit
    <3>4. visit'.map = visit.map
      BY <3>1, <3>2 DEF Visit
    <3> QED
      BY <1>0, <3>1, <3>3, <3>4
  <2>2. ~Settled'
    <3>1. req'[r].pc = "reread"
      BY <1>0, <1>5 DEF UpdateVisit, Go, TypeOK, Request
    <3> QED
      BY <3>1 DEF Settled, At
  <2>3. Solo'
    BY <1>2, <1>3, <2>1 DEF Calm, Solo
  <2>4. ASSUME NEW u \in Users, u \notin failed' PROVE Match(u)'
    <3>1. Match(u)
      BY <1>0, <2>4 DEF Calm
    <3>2. (\A s \in Reqs : ~Syncing(s)) => Rest(u)'
      BY <1>4, <2>1, <2>2, <3>1 DEF Match, Rest
    <3>3. ASSUME NEW s \in Reqs, Syncing(s) PROVE Synced(req[s], u)'
      <4>1. Synced(req[s], u) /\ req'[s] = req[s]
        BY <1>3, <3>1, <3>3 DEF Match
      <4> QED
        BY <1>0, <1>4, <2>2, <4>1 DEF Synced, Now, Reached, AtSlot
    <3> QED
      BY <1>0, <1>3, <1>4, <3>1, <3>2, <3>3 DEF Match
  <2> QED
    BY <2>3, <2>4 DEF Calm
<1>6. CASE At(r, "reread") /\ Kill(r)
  <2>1. visit' = visit /\ failed' = failed \cup Users
    BY <1>6 DEF Kill, Unfinished, At
  <2>2. Solo'
    BY <1>2, <1>3, <2>1 DEF Calm, Solo
  <2> QED
    BY <2>1, <2>2 DEF Calm
<1>7. CASE RereadVisit(r) /\ visit = None
  <2>1. visit' = None
    BY <1>7 DEF RereadVisit
  <2>2. \A s \in Reqs : ~Syncing(s)
    BY <1>7 DEF Calm, Solo
  <2>3. \A s \in Reqs : ~Syncing(s)'
    BY <1>3, <2>2
  <2>4. ASSUME NEW u \in Users, u \notin failed' PROVE Match(u)'
    <3>1. Match(u) /\ Rest(u)
      BY <1>0, <2>2, <2>4 DEF Calm, Match
    <3> QED
      BY <1>0, <1>4, <1>7, <2>1, <2>3, <3>1 DEF Match, Rest
  <2> QED
    BY <2>3, <2>4 DEF Calm, Solo
<1> QED
  BY <1>5, <1>6, <1>7

\* A step of a request, without overlap after it.
LEMMA CalmStep ==
    ASSUME GoodInv, OwnInv, CalInv, NEW r \in Reqs, ReqStep(r), ~raced'
    PROVE  Calm'
<1>0. Calm /\ TypeOK /\ (visit # None => visit \in Visit)
  BY Observed, Facts DEF CalInv, GoodInv
<1>1. CASE CreateVisit(r)
  <2>1. PICK v : /\ visit' = v /\ Snapshot(r, v, FALSE) /\ v.map = NoMap /\ visit = None
                 /\ UNCHANGED <<connected, failed, event>>
    BY <1>1 DEF CreateVisit
  <2>2. visit' \in Visit
    BY <1>1, VisitTypes, Facts DEF CreateVisit, Visit, Map, NoMap
  <2> QED
    BY <1>0, <2>1, <2>2, Starts
<1>2. CASE FindVisit(r)
  BY <1>0, <1>2, Starts DEF FindVisit
<1>3. CASE RereadVisit(r) /\ visit # None
  BY <1>0, <1>3, Starts DEF RereadVisit
<1>4. CASE UpdateVisit(r) \/ (RereadVisit(r) /\ visit = None) \/ (Kill(r) /\ At(r, "reread"))
  <2>1. RereadVisit(r) => At(r, "reread")
    BY DEF RereadVisit
  <2> QED
    BY <1>0, <1>4, <2>1, OutsideCalm
<1>5. CASE ReadLead(r) \/ NextUser(r) \/ EndCalls(r)
  BY <1>0, <1>5, QuietCalm
<1>6. CASE DeleteEvent(r) \/ InsertEvent(r) \/ UpdateEvent(r) \/ CallRaises(r)
  BY <1>0, <1>6, CallCalm
<1>7. CASE WriteMap(r) \/ DeleteVisit(r) \/ SyncRaises(r) \/ (Kill(r) /\ ~At(r, "reread"))
  <2>1. req[r] \in Request
    BY <1>0, Facts
  <2>2. Syncing(r)
    BY <1>7, <2>1 DEF WriteMap, DeleteVisit, SyncRaises, Kill, Syncing, At, Request
  <2> QED
    BY <1>0, <1>7, <2>2, EndCalm
<1> QED
  BY <1>1, <1>2, <1>3, <1>4, <1>5, <1>6, <1>7 DEF ReqStep

\* A run knows of the users it does not come to any more that they failed.
LEMMA LeftStep ==
    ASSUME GoodInv, LeftInv, NEW r \in Reqs, ReqStep(r)
    PROVE  LeftInv'
<1> DEFINE Fine(q) == /\ q.pc \in {"write", "remove"} => q.left \subseteq failed'
                      /\ q.pc = "call" => q.user \in connected' \cup failed'
<1>0. /\ TypeOK /\ Good(req[r]) /\ req[r] \in Request /\ failed \subseteq failed' /\ connected' = connected
      /\ req \in [Reqs -> Request]
  BY Facts, Observed DEF GoodInv
<1>1. PICK q : req' = [req EXCEPT ![r] = q] /\ Good(q)
  BY LocalsStep
<1>2. req'[r] = q /\ \A s \in Reqs \ {r} : req'[s] = req[s]
  BY <1>0, <1>1
<1>3. CASE q.pc \notin {"write", "remove", "call"}
  BY <1>0, <1>2, <1>3 DEF LeftInv, At
<1>4. CASE NextUser(r)
  <2>1. PICK u, p : /\ req' = [req EXCEPT ![r] = p]
                    /\ \/ p.pc = "call" /\ p.user = u /\ u \in connected
                       \/ p.pc = "next"
    BY <1>0, <1>4, NextUserStep
  <2>2. p = q
    BY <1>0, <1>2, <2>1
  <2> QED
    BY <1>0, <1>2, <2>1, <2>2 DEF LeftInv, At
<1>5. CASE EndCalls(r)
  <2>1. q.left = {} /\ q.pc # "call"
    BY <1>0, <1>2, <1>5 DEF EndCalls, Go, Request
  <2> QED
    BY <1>0, <1>2, <2>1 DEF LeftInv, At
<1>6. CASE SyncRaises(r)
  <2>1. CASE Leave(r)
    <3>1. q.pc = "idle"
      BY <1>0, <1>2, <2>1 DEF Leave, NoRequest
    <3> QED
      BY <1>3, <3>1
  <2>2. CASE Go(r, "remove")
    <3>1. q.left = req[r].left /\ q.pc = "remove"
      BY <1>0, <1>2, <2>2 DEF Go, Request
    <3>2. req[r].left \subseteq failed'
      BY <1>0, <1>6, RequestFields DEF SyncRaises, Unfinished
    <3> QED
      BY <1>0, <1>2, <3>1, <3>2 DEF LeftInv, At
  <2> QED
    BY <1>6, <2>1, <2>2 DEF SyncRaises
<1>7. ASSUME NEW p \in {"idle", "reread", "lead", "next"}, q.pc = p PROVE LeftInv'
  BY <1>3, <1>7
<1>8. ASSUME NEW v, NEW drop, Snapshot(r, v, drop) PROVE q.pc = "lead"
  BY <1>0, <1>2, <1>8 DEF Snapshot, NoRequest
<1>9. ASSUME NEW e, Enter(r, e) PROVE q.pc = "next"
  BY <1>0, <1>2, <1>9 DEF Enter, Request
<1>10. Leave(r) => q.pc = "idle"
  BY <1>0, <1>2 DEF Leave, NoRequest
<1>11. CASE CreateVisit(r) \/ FindVisit(r) \/ RereadVisit(r)
  BY <1>7, <1>8, <1>10, <1>11 DEF CreateVisit, FindVisit, RereadVisit
<1>12. CASE UpdateVisit(r)
  <2>1. q.pc = "reread"
    BY <1>0, <1>2, <1>12 DEF UpdateVisit, Go, Request
  <2> QED
    BY <1>7, <2>1
<1>13. CASE ReadLead(r)
  <2>1. q.pc = "next"
    BY <1>0, <1>2, <1>13, ReadLeadStep
  <2> QED
    BY <1>7, <2>1
<1>14. CASE DeleteEvent(r) \/ InsertEvent(r) \/ UpdateEvent(r) \/ CallRaises(r)
  BY <1>7, <1>9, <1>14 DEF DeleteEvent, InsertEvent, UpdateEvent, CallRaises
<1>15. CASE WriteMap(r) \/ DeleteVisit(r) \/ Kill(r)
  BY <1>7, <1>10, <1>15 DEF WriteMap, DeleteVisit, Kill
<1> QED
  BY <1>4, <1>5, <1>6, <1>11, <1>12, <1>13, <1>14, <1>15 DEF ReqStep

LEMMA CalStep ==
    ASSUME GoodInv, OwnInv, CalInv, [Next]_vars
    PROVE  CalInv'
<1>1. ASSUME NEW r \in Reqs, ReqStep(r) PROVE CalInv'
  BY <1>1, CalmStep, LeftStep DEF CalInv
<1>2. ASSUME NEW u \in Users, Connect(u) \/ Disconnect(u) PROVE CalInv'
  <2>1. /\ UNCHANGED <<visit, event, req, raced>> /\ failed \subseteq failed'
        /\ connected' \cup failed' = connected \cup failed \cup {u} /\ connected \ failed' \subseteq connected'
    BY <1>2 DEF Connect, Disconnect
  <2>2. LeftInv'
    BY <2>1 DEF CalInv, LeftInv, At
  <2>3. ASSUME Calm PROVE Calm'
    <3>1. Solo'
      BY <2>1, <2>3 DEF Calm, Solo, Syncing
    <3>2. ASSUME NEW x \in Users, x \notin failed' PROVE Match(x)'
      <4>1. Match(x)
        BY <2>1, <2>3, <3>2 DEF Calm
      <4> QED
        BY <2>1, <3>2, <4>1 DEF Match, Rest, Synced, Settled, Syncing, At, Live, AtSlot, Now, Reached
    <3> QED
      BY <3>1, <3>2 DEF Calm
  <2> QED
    BY <2>1, <2>2, <2>3 DEF CalInv
<1>3. CASE UNCHANGED vars
  BY <1>3 DEF vars, bounds, CalInv, LeftInv, Calm, Solo, Match, Rest, Synced, Settled, Syncing, At, Live,
     AtSlot, Now, Reached
<1> QED
  BY <1>1, <1>2, <1>3 DEF Next

\* The invariants of the calendars, together.
LEMMA Calendars == Spec => [](GoodInv /\ OwnInv /\ CalInv)
<1>1. Init => OwnInv
  BY DEF Init, OwnInv, Owns, OwnsAt, NoRequest, NoMap
<1>2. Init => CalInv
  <2> SUFFICES ASSUME Init PROVE CalInv
    OBVIOUS
  <2>1. \A r \in Reqs : req[r].pc = "idle"
    BY DEF Init, NoRequest
  <2>2. \A u \in Users : Live(u) = {}
    BY DEF Init, Live
  <2> QED
    BY <2>1, <2>2 DEF Init, CalInv, LeftInv, Calm, Solo, Match, Rest, Syncing, At
<1> QED
  BY <1>1, <1>2, Types, OwnStep, CalStep, PTL DEF Spec

\* CalendarMatchesVisit: unless runs of the sync overlapped, the calendar of a
\* user nothing failed for matches the visit whenever no request is under way,
\* for any number of users, requests, updates and failures of other users.
THEOREM VisitMatched == Spec => []CalendarMatchesVisit
<1>1. CalInv => CalendarMatchesVisit
  <2> SUFFICES ASSUME CalInv, ~raced, \A r \in Reqs : At(r, "idle"), NEW u \in Users \ failed
               PROVE  /\ Live(u) = IF visit = None THEN {} ELSE {visit.map[u]} \ {None}
                      /\ \A e \in Live(u) : event[e].slot = visit.slot
    BY DEF CalendarMatchesVisit
  <2>1. Settled /\ Rest(u)
    BY DEF CalInv, Calm, Match, Settled, Syncing, At
  <2> QED
    BY <2>1 DEF Rest, AtSlot
<1> QED
  BY <1>1, Calendars, PTL

-----------------------------------------------------------------------------
(***************************************************************************)
(* Events nobody knows of.                                                 *)
(***************************************************************************)

\* A deletion that is done with u, or with all users, forgets u's event.
Lost(q, u) ==
    q.drop /\ (q.pc = "remove" \/ (q.pc \in {"next", "call"} /\ u \notin q.left /\ u # q.user))

\* The event of u that a run or the visit will still answer for; of a user who
\* disconnected neither does.
Kept(q, u) == IF u \notin connected \/ Lost(q, u) THEN {} ELSE {Now(q, u)}
Spared(u) == IF visit = None \/ u \notin connected THEN {} ELSE {visit.map[u]}

\* The event a run is about to insert for a user who just disconnected.
Coming(q, u) ==
    IF q.pc = "call" /\ q.user = u /\ Wanted(q) /\ Now(q, u) = None /\ u \notin connected
    THEN {last + 1} ELSE {}
Owed(q, u) == (Live(u) \ Kept(q, u)) \cup Coming(q, u)

\* The events of u that failures have to account for.
Debt(u) ==
    IF \A r \in Reqs : ~Syncing(r) THEN Live(u) \ Spared(u)
    ELSE UNION {Owed(req[r], u) : r \in {s \in Reqs : Syncing(s)}}
StrayInv == ~raced => \A u \in Users : IsFiniteSet(Debt(u)) /\ Cardinality(Debt(u)) <= faults

\* No failure, no new debt; a failure adds one event at most.
Paid(u) ==
    \/ faults' = faults /\ Debt(u)' \subseteq Debt(u)
    \/ faults' = faults + 1 /\ \E x : Debt(u)' \subseteq Debt(u) \cup {x}

\* A run alone has the debt for itself.
LEMMA DebtOf ==
    ASSUME Solo, NEW r \in Reqs, Syncing(r), NEW u \in Users
    PROVE  Debt(u) = Owed(req[r], u)
<1>1. {s \in Reqs : Syncing(s)} = {r}
  BY DEF Solo
<1>2. UNION {Owed(req[s], u) : s \in {r}} = Owed(req[r], u)
  OBVIOUS
<1> QED
  BY <1>1, <1>2 DEF Debt

LEMMA DebtOfNext ==
    ASSUME Solo', NEW r \in Reqs, Syncing(r)', NEW u \in Users, NEW q, req'[r] = q
    PROVE  Debt(u)' = Owed(q, u)'
<1>1. {s \in Reqs : Syncing(s)'} = {r}
  BY DEF Solo
<1>2. Debt(u)' = UNION {Owed(req[s], u)' : s \in {s \in Reqs : Syncing(s)'}}
  BY DEF Debt
<1>3. Owed(req[r], u)' = Owed(q, u)'
  BY DEF Owed, Kept, Coming, Lost, Now, Wanted
<1>4. UNION {Owed(req[s], u)' : s \in {r}} = Owed(req[r], u)'
  OBVIOUS
<1> QED
  BY <1>1, <1>2, <1>3, <1>4

\* All events of u but one are owed, and all if that one does not exist.
LEMMA AllButOne ==
    ASSUME GoodInv, NEW u \in Users
    PROVE  /\ None \notin Live(u)
           /\ \A q : /\ Live(u) \subseteq Owed(q, u) \cup {Now(q, u)}
                     /\ Now(q, u) = None \/ Kept(q, u) = {} => Live(u) \subseteq Owed(q, u)
           /\ \E x : Live(u) \subseteq (Live(u) \ Spared(u)) \cup {x}
<1>1. None \notin Live(u)
  BY Facts DEF GoodInv, Live
<1>2. ASSUME NEW q
      PROVE  /\ Live(u) \subseteq Owed(q, u) \cup {Now(q, u)}
             /\ Now(q, u) = None \/ Kept(q, u) = {} => Live(u) \subseteq Owed(q, u)
  BY <1>1 DEF Owed, Kept
<1>3. Live(u) \subseteq (Live(u) \ Spared(u)) \cup {visit.map[u]}
  BY DEF Spared
<1> QED
  BY <1>1, <1>2, <1>3

\* What an end of a request or a skipped user leaves without having changed a
\* calendar is one event more at most.
LEMMA OneMore ==
    ASSUME GoodInv, Solo, Solo', NEW r \in Reqs, NEW q, req' = [req EXCEPT ![r] = q], Syncing(r),
           q.pc # "call", UNCHANGED <<connected, event, last>>, NEW u \in Users
    PROVE  \E x : Debt(u)' \subseteq Debt(u) \cup {x}
<1>1. req'[r] = q /\ \A s \in Reqs \ {r} : req'[s] = req[s]
  BY Facts DEF GoodInv
<1>2. Debt(u) = Owed(req[r], u)
  BY DebtOf
<1>3. Live(u)' = Live(u)
  BY DEF Live
<1>4. Debt(u)' \subseteq Live(u)
  <2>1. CASE Syncing(r)'
    <3>1. Debt(u)' = Owed(q, u)'
      BY <1>1, <2>1, DebtOfNext
    <3>2. Coming(q, u)' = {}
      BY DEF Coming
    <3>3. Owed(q, u)' = (Live(u)' \ Kept(q, u)') \cup Coming(q, u)'
      BY DEF Owed
    <3> QED
      BY <1>3, <3>1, <3>2, <3>3
  <2>2. CASE ~Syncing(r)'
    <3>1. \A s \in Reqs : ~Syncing(s)'
      BY <1>1, <2>2 DEF Solo, Syncing
    <3>2. Debt(u)' = Live(u)' \ Spared(u)'
      BY <3>1 DEF Debt
    <3> QED
      BY <1>3, <3>2
  <2> QED
    BY <2>1, <2>2
<1>5. Live(u) \subseteq Owed(req[r], u) \cup {Now(req[r], u)}
  BY AllButOne
<1> QED
  BY <1>2, <1>4, <1>5

\* Between two steps of a run that neither change u's calendar nor have to do
\* with u's event, u's debt does not grow.
LEMMA SameDebt ==
    ASSUME GoodInv, Solo, Solo', NEW r \in Reqs, NEW q, req' = [req EXCEPT ![r] = q], Syncing(r),
           q.pc \in {"next", "call", "write", "remove"}, NEW u \in Users,
           Live(u)' = Live(u), UNCHANGED connected,
           u \in connected => Kept(req[r], u) \subseteq Kept(q, u) \cup {None},
           q.pc = "call" => q.user # u \/ u \in connected
    PROVE  Debt(u)' \subseteq Debt(u)
<1>1. req'[r] = q /\ Syncing(r)'
  BY Facts DEF GoodInv, Syncing
<1>2. Debt(u) = Owed(req[r], u) /\ Debt(u)' = Owed(q, u)'
  BY <1>1, DebtOf, DebtOfNext
<1>3. Coming(q, u)' = {}
  BY DEF Coming
<1>4. Kept(q, u)' = Kept(q, u)
  BY DEF Kept, Lost, Now
<1>5. u \notin connected => Kept(req[r], u) = {}
  BY DEF Kept
<1>6. None \notin Live(u)
  BY AllButOne
<1>7. Owed(q, u)' = Live(u)' \ Kept(q, u)'
  BY <1>3 DEF Owed
<1> QED
  BY <1>2, <1>4, <1>5, <1>6, <1>7 DEF Owed

\* Reading the lead, coming to a user and ending the calls.
LEMMA QuietDebt ==
    ASSUME GoodInv, OwnInv, Solo, Solo', NEW r \in Reqs, NEW u \in Users,
           ReadLead(r) \/ NextUser(r) \/ EndCalls(r)
    PROVE  Paid(u)
<1>0. /\ TypeOK /\ Good(req[r]) /\ req[r] \in Request /\ Syncing(r) /\ None \notin Users
      /\ UNCHANGED <<connected, event, last>>
  BY Facts DEF GoodInv, Syncing, ReadLead, NextUser, EndCalls, At
<1>1. Live(u)' = Live(u)
  BY <1>0 DEF Live
<1>2. CASE ReadLead(r)
  <2>1. PICK q : /\ req' = [req EXCEPT ![r] = q]
                 /\ q.pc = "next" /\ q.drop = req[r].drop
                 /\ q.seen.map = req[r].seen.map
                 /\ q.new = q.seen.map
                 /\ \A x \in Users \ q.left : q.seen.map[x] = None
    BY <1>0, <1>2, ReadLeadStep
  <2>2. Now(q, u) = Now(req[r], u) /\ (Lost(q, u) => Now(q, u) = None)
    BY <1>2, <2>1 DEF Now, Lost, ReadLead, At
  <2>3. Kept(req[r], u) \subseteq Kept(q, u) \cup {None}
    BY <2>2 DEF Kept
  <2>4. Debt(u)' \subseteq Debt(u)
    BY <1>0, <1>1, <2>1, <2>3, SameDebt
  <2> QED
    BY <1>2, <2>4 DEF Paid, ReadLead, bounds
<1>3. CASE NextUser(r)
  <2>1. PICK w, q : /\ w \in req[r].left
                    /\ req' = [req EXCEPT ![r] = q] /\ Good(q)
                    /\ q.left = req[r].left \ {w} /\ q.drop = req[r].drop
                    /\ q.new = req[r].new
                    /\ \/ q.pc = "call" /\ q.user = w /\ w \in connected /\ UNCHANGED <<faults, failed>>
                       \/ q.pc = "next" /\ w \notin connected /\ UNCHANGED <<faults, failed>>
                       \/ q.pc = "next" /\ faults' = faults + 1
    BY <1>0, <1>3, NextUserStep
  <2>2. CASE q.pc = "next" /\ faults' = faults + 1
    BY <1>0, <2>1, <2>2, OneMore DEF Paid
  <2>3. CASE ~(q.pc = "next" /\ faults' = faults + 1)
    <3>1. /\ faults' = faults /\ q.pc \in {"next", "call"}
          /\ q.pc = "call" => q.user = w /\ w \in connected
          /\ q.pc = "next" => q.user = None /\ w \notin connected
      BY <2>1, <2>3 DEF Good
    <3>2. req[r].pc = "next" /\ req[r].user = None
      BY <1>0, <1>3 DEF NextUser, At, Good
    <3>3. Now(q, u) = Now(req[r], u)
      BY <2>1, <3>1, <3>2 DEF Now
    <3>4. u \in connected => (Lost(q, u) => Lost(req[r], u))
      BY <1>0, <2>1, <3>1, <3>2 DEF Lost
    <3>5. u \in connected => Kept(req[r], u) \subseteq Kept(q, u) \cup {None}
      BY <3>3, <3>4 DEF Kept
    <3>6. Debt(u)' \subseteq Debt(u)
      BY <1>0, <1>1, <2>1, <3>1, <3>5, SameDebt
    <3> QED
      BY <3>1, <3>6 DEF Paid
  <2> QED
    BY <2>2, <2>3
<1>4. CASE EndCalls(r)
  <2>1. PICK p \in {"write", "remove"} : Go(r, p) /\ (p = "write" <=> ~req[r].drop)
    BY <1>0, <1>4, RequestFields DEF EndCalls
  <2>2. PICK q : /\ req' = [req EXCEPT ![r] = q]
                 /\ q.pc = p /\ q.drop = req[r].drop
                 /\ q.left = req[r].left /\ q.new = req[r].new /\ q.user = None
    BY <1>0, <1>4, <2>1, GoStep DEF EndCalls, At
  <2>3. req[r].pc = "next" /\ req[r].left = {} /\ req[r].user = None
    BY <1>0, <1>4 DEF EndCalls, At, Good
  <2>4. Now(q, u) = Now(req[r], u) /\ (Lost(q, u) => Lost(req[r], u))
    BY <1>0, <2>1, <2>2, <2>3 DEF Now, Lost
  <2>5. Kept(req[r], u) \subseteq Kept(q, u) \cup {None}
    BY <2>4 DEF Kept
  <2>6. Debt(u)' \subseteq Debt(u)
    BY <1>0, <1>1, <2>1, <2>2, <2>5, SameDebt
  <2> QED
    BY <1>4, <2>6 DEF Paid, EndCalls, bounds
<1> QED
  BY <1>2, <1>3, <1>4


\* The calendar calls: what a call inserts is known, or was coming, unless the
\* call raised.
LEMMA CallDebt ==
    ASSUME GoodInv, OwnInv, Solo, Solo', NEW r \in Reqs, NEW u \in Users,
           DeleteEvent(r) \/ InsertEvent(r) \/ UpdateEvent(r) \/ CallRaises(r)
    PROVE  Paid(u)
<1>w. PICK w, d, s : w = req[r].user /\ d = req[r].seen.map[w] /\ s = req[r].seen.slot
  OBVIOUS
<1>0. /\ TypeOK /\ Good(req[r]) /\ req[r] \in Request /\ ReqStep(r) /\ Syncing(r) /\ At(r, "call")
      /\ UNCHANGED connected /\ None \notin Users /\ last \in 0..MaxEvents /\ MaxEvents \in Nat
      /\ Ids = 1..MaxEvents /\ None \notin Ids /\ event \in [Ids -> Event \cup {None}]
      /\ None \notin Event
  BY Facts DEF GoodInv, ReqStep, Syncing, DeleteEvent, InsertEvent, UpdateEvent, CallRaises, At
<1>1. /\ w \in Users \ req[r].left /\ d \in Ids \cup {None} /\ req[r].new[w] = d
      /\ req[r].pc = "call" /\ req[r].user = w
  <2>1. w \in Users \ req[r].left /\ req[r].pc = "call"
    BY <1>0, <1>w DEF Good, At
  <2>2. d \in Ids \cup {None}
    BY <1>0, <1>w, <2>1, RequestFields
  <2>3. req[r].new[w] = req[r].seen.map[w]
    BY <1>0, <1>w, <2>1 DEF Good
  <2> QED
    BY <1>w, <2>1, <2>2, <2>3
<1>2. PICK e \in Ids \cup {None} :
         /\ Enter(r, e)
         /\ DeleteEvent(r) => e = None
         /\ InsertEvent(r) => e = last + 1
         /\ UpdateEvent(r) => e = d
  <2>1. CASE DeleteEvent(r)
    BY <1>0, <2>1 DEF DeleteEvent, InsertEvent, UpdateEvent
  <2>2. CASE InsertEvent(r)
    <3>1. last + 1 \in Ids /\ Enter(r, last + 1)
      BY <1>0, <2>2 DEF InsertEvent, Entered
    <3>2. ~DeleteEvent(r) /\ ~UpdateEvent(r)
      BY <2>2 DEF DeleteEvent, InsertEvent, UpdateEvent
    <3> QED
      BY <3>1, <3>2
  <2>3. CASE UpdateEvent(r)
    <3>1. Enter(r, d)
      BY <1>w, <2>3 DEF UpdateEvent
    <3>2. ~DeleteEvent(r) /\ ~InsertEvent(r)
      BY <2>3 DEF DeleteEvent, InsertEvent, UpdateEvent
    <3> QED
      BY <1>1, <3>1, <3>2
  <2>4. CASE CallRaises(r) /\ ~DeleteEvent(r) /\ ~InsertEvent(r) /\ ~UpdateEvent(r)
    <3>1. Enter(r, d) \/ Enter(r, None)
      BY <1>w, <2>4 DEF CallRaises
    <3> QED
      BY <1>1, <2>4, <3>1
  <2> QED
    BY <2>1, <2>2, <2>3, <2>4
<1>3. PICK q : /\ req' = [req EXCEPT ![r] = q] /\ Good(q)
               /\ q.pc = "next" /\ q.left = req[r].left /\ q.drop = req[r].drop
               /\ q.new[w] = e /\ \A x \in Users \ {w} : q.new[x] = req[r].new[x]
  BY <1>0, <1>2, <1>w, EnterStep
<1>4. faults' = faults \/ (faults' = faults + 1 /\ CallRaises(r))
  BY <1>2 DEF DeleteEvent, InsertEvent, UpdateEvent, bounds, CallRaises
<1>5. CASE u # w
  <2>1. Live(u)' = Live(u)
    BY <1>0, <1>w, <1>5, OtherCalendars
  <2>2. Now(q, u) = Now(req[r], u) /\ (Lost(q, u) => Lost(req[r], u))
    BY <1>1, <1>3, <1>5 DEF Now, Lost
  <2>3. Kept(req[r], u) \subseteq Kept(q, u) \cup {None}
    BY <2>2 DEF Kept
  <2>4. Debt(u)' \subseteq Debt(u)
    BY <1>0, <1>3, <2>1, <2>3, SameDebt
  <2> QED
    BY <1>4, <2>4 DEF Paid
<1>6. CASE u = w
  <2>0. req'[r] = q /\ Syncing(r)'
    BY <1>0, <1>3, Facts DEF Syncing
  <2>1. Debt(u) = Owed(req[r], u) /\ Debt(u)' = Owed(q, u)'
    BY <1>0, <2>0, DebtOf, DebtOfNext
  <2>2. Owed(q, u)' = Live(u)' \ Kept(q, u)'
    <3>1. Coming(q, u)' = {}
      BY <1>3 DEF Coming
    <3> QED
      BY <3>1 DEF Owed
  <2>3. Now(req[r], u) = d /\ Now(q, u) = e
    BY <1>1, <1>3, <1>6 DEF Now
  <2>4. Live(u) \subseteq Owed(req[r], u) \cup {d} /\ (d = None => Live(u) \subseteq Owed(req[r], u))
    BY <2>3, AllButOne
  <2>5. CASE DeleteEvent(r)
    <3>1. event' = IF d = None THEN event ELSE [event EXCEPT ![d] = None]
      BY <1>w, <2>5 DEF DeleteEvent
    <3>2. Live(u)' \subseteq Live(u) \ {d}
      <4>1. CASE d = None
        BY <1>0, <3>1, <4>1 DEF Live
      <4>2. CASE d # None
        BY <1>0, <1>1, <3>1, <4>2 DEF Live
      <4> QED
        BY <4>1, <4>2
    <3> QED
      BY <2>1, <2>2, <2>4, <2>5, <3>2 DEF Paid, DeleteEvent, bounds
  <2>6. CASE UpdateEvent(r)
    <3>1. event' = (IF event[d] = None THEN event ELSE [event EXCEPT ![d].slot = s]) /\ d # None
      BY <1>w, <2>6 DEF UpdateEvent
    <3>2. Live(u)' = Live(u)
      <4>1. CASE event[d] = None
        BY <3>1, <4>1 DEF Live
      <4>2. CASE event[d] # None
        <5>1. event[d] \in Event /\ event' = [event EXCEPT ![d] = [event[d] EXCEPT !.slot = s]] /\ d \in Ids
          BY <1>0, <1>1, <3>1, <4>2
        <5>2. s \in Nat
          BY <1>0, <1>w, RequestFields
        <5>3. [event[d] EXCEPT !.slot = s] \in Event /\ [event[d] EXCEPT !.slot = s].user = event[d].user
          BY <5>1, <5>2 DEF Event
        <5>4. event'[d] = [event[d] EXCEPT !.slot = s]
          BY <1>0, <5>1
        <5>5. event'[d] # None /\ event'[d].user = event[d].user
          BY <1>0, <5>3, <5>4
        <5> QED
          BY <1>0, <4>2, <5>1, <5>5 DEF Live
      <4> QED
        BY <4>1, <4>2
    <3>3. Kept(req[r], u) \subseteq Kept(q, u)
      <4>1. Wanted(req[r])
        BY <2>6 DEF UpdateEvent
      <4>2. ~req[r].drop /\ e = d
        BY <1>2, <2>6, <4>1 DEF Wanted
      <4> QED
        BY <1>3, <2>3, <4>2 DEF Kept, Lost
    <3>4. Kept(q, u)' = Kept(q, u)
      BY <1>0 DEF Kept, Lost, Now
    <3>5. Debt(u)' \subseteq Debt(u)
      BY <2>1, <2>2, <3>2, <3>3, <3>4 DEF Owed
    <3> QED
      BY <2>6, <3>5 DEF Paid, UpdateEvent, bounds
  <2>7. CASE InsertEvent(r)
    <3>1. /\ event' = [event EXCEPT ![last + 1] = [user |-> w, slot |-> s]] /\ last + 1 \in Ids
          /\ d = None /\ Wanted(req[r]) /\ ~req[r].drop /\ e = last + 1
      BY <1>0, <1>2, <1>w, <2>7 DEF InsertEvent, Wanted
    <3>2. Live(u)' \subseteq Live(u) \cup {last + 1}
      BY <1>0, <3>1 DEF Live
    <3>3. CASE u \in connected
      <4>1. Kept(q, u)' = {last + 1}
        BY <1>0, <1>3, <2>3, <3>1, <3>3 DEF Kept, Lost, Now
      <4>2. Debt(u)' \subseteq Debt(u)
        BY <2>1, <2>2, <2>4, <3>1, <3>2, <4>1
      <4> QED
        BY <2>7, <4>2 DEF Paid, InsertEvent, bounds
    <3>4. CASE u \notin connected
      <4>1. Coming(req[r], u) = {last + 1}
        BY <1>1, <1>6, <2>3, <3>1, <3>4 DEF Coming
      <4>2. Debt(u)' \subseteq Debt(u)
        BY <2>1, <2>2, <2>4, <3>1, <3>2, <4>1 DEF Owed
      <4> QED
        BY <2>7, <4>2 DEF Paid, InsertEvent, bounds
    <3> QED
      BY <3>3, <3>4
  <2>8. CASE CallRaises(r)
    <3>1. /\ faults' = faults + 1
          /\ \/ UNCHANGED event
             \/ d # None /\ event' = [event EXCEPT ![d] = None]
             \/ /\ d = None /\ last + 1 \in Ids
                /\ event' = [event EXCEPT ![last + 1] = [user |-> w, slot |-> s]]
      <4> DEFINE x == req[r].user
                 y == req[r].seen.map[x]
                 z == req[r].seen.slot
      <4>1. /\ faults' = faults + 1
            /\ \/ UNCHANGED event
               \/ y # None /\ event' = [event EXCEPT ![y] = None]
               \/ /\ y = None /\ last < MaxEvents
                  /\ event' = [event EXCEPT ![last + 1] = [user |-> x, slot |-> z]]
        BY <2>8 DEF CallRaises
      <4>2. x = w /\ y = d /\ z = s
        BY <1>w
      <4>3. last < MaxEvents => last + 1 \in Ids
        BY <1>0
      <4> HIDE DEF x, y, z
      <4> QED
        BY <4>1, <4>2, <4>3
    <3>2. \E x : Live(u)' \subseteq Owed(req[r], u) \cup {x}
      <4>1. CASE UNCHANGED event
        <5>1. Live(u)' = Live(u)
          BY <4>1 DEF Live
        <5> QED
          BY <2>4, <5>1
      <4>2. CASE d # None /\ event' = [event EXCEPT ![d] = None]
        <5>1. Live(u)' \subseteq Live(u)
          BY <1>0, <1>1, <4>2 DEF Live
        <5> QED
          BY <2>4, <5>1
      <4>3. CASE d = None /\ last + 1 \in Ids /\ event' = [event EXCEPT ![last + 1] = [user |-> w, slot |-> s]]
        <5>1. Live(u)' \subseteq Live(u) \cup {last + 1}
          BY <1>0, <4>3 DEF Live
        <5> QED
          BY <2>4, <4>3, <5>1
      <4> QED
        BY <3>1, <4>1, <4>2, <4>3
    <3>3. \E x : Debt(u)' \subseteq Debt(u) \cup {x}
      BY <2>1, <2>2, <3>2
    <3> QED
      BY <3>1, <3>3 DEF Paid
  <2> QED
    BY <2>5, <2>6, <2>7, <2>8
<1> QED
  BY <1>5, <1>6


\* The beginning of a run: it answers for what the visit answered for.
LEMMA StartDebt ==
    ASSUME GoodInv, Solo, Solo', NEW r \in Reqs, NEW u \in Users, NEW drop \in BOOLEAN,
           Snapshot(r, visit', drop), ~raced',
           visit' \in Visit, visit' = visit \/ (visit = None /\ visit'.map = NoMap),
           UNCHANGED <<connected, event>>
    PROVE  Debt(u)' \subseteq Debt(u)
<1>0. Debt(u) = Live(u) \ Spared(u)
  BY DEF Snapshot, Debt
<1>1. PICK v \in Visit : v = visit'
  OBVIOUS
<1>2. PICK q : /\ req' = [req EXCEPT ![r] = q] /\ q.pc = "lead" /\ q.seen = v
  BY <1>1, SnapshotStep DEF GoodInv
<1>3. req'[r] = q /\ Syncing(r)'
  BY <1>2, Facts DEF GoodInv, Syncing
<1>4. Debt(u)' = Owed(q, u)'
  BY <1>3, DebtOfNext
<1>5. Coming(q, u)' = {} /\ Kept(q, u)' = (IF u \notin connected THEN {} ELSE {v.map[u]})
  BY <1>2 DEF Coming, Kept, Lost, Now
<1>6. Live(u)' = Live(u) /\ None \notin Live(u)
  BY AllButOne DEF Live
<1>7. Spared(u) \subseteq Kept(q, u)' \cup {None}
  <2>1. CASE visit # None
    BY <1>1, <1>5, <2>1 DEF Spared
  <2>2. CASE visit = None
    BY <2>2 DEF Spared
  <2> QED
    BY <2>1, <2>2
<1>8. Owed(q, u)' = Live(u)' \ Kept(q, u)'
  BY <1>5 DEF Owed
<1> QED
  BY <1>0, <1>4, <1>6, <1>7, <1>8

\* The end of a run: the visit answers for what the run wrote, and a deletion
\* has forgotten everything before.
LEMMA EndDebt ==
    ASSUME GoodInv, Solo, Solo', NEW r \in Reqs, NEW u \in Users, Syncing(r),
           WriteMap(r) \/ DeleteVisit(r) \/ SyncRaises(r) \/ Kill(r)
    PROVE  Paid(u)
<1>0. /\ TypeOK /\ Good(req[r]) /\ req[r] \in Request /\ UNCHANGED <<connected, event, last>>
      /\ visit # None /\ visit \in Visit
  BY Facts DEF GoodInv, Solo, WriteMap, DeleteVisit, SyncRaises, Kill
<1>1. Debt(u) = Owed(req[r], u)
  BY DebtOf
<1>2. Live(u)' = Live(u)
  BY <1>0 DEF Live
<1>3. ASSUME Leave(r)
      PROVE  Debt(u)' = Live(u) \ Spared(u)'
  <2>1. req'[r] = NoRequest /\ \A s \in Reqs \ {r} : req'[s] = req[s]
    BY <1>0, <1>3, Facts DEF Leave
  <2>2. \A s \in Reqs : ~Syncing(s)'
    BY <2>1 DEF Syncing, NoRequest, Solo
  <2> QED
    BY <1>2, <2>2 DEF Debt
<1>4. CASE WriteMap(r)
  <2>1. /\ req[r].pc = "write" /\ ~req[r].drop /\ Leave(r) /\ faults' = faults
        /\ visit' = [visit EXCEPT !.map = req[r].new]
    BY <1>0, <1>4 DEF WriteMap, MapAfter, At, Good, bounds
  <2>2. visit'.map = req[r].new
    BY <1>0, <2>1 DEF Visit
  <2>3. visit' # None
    <3>1. visit' \in Visit
      BY <1>0, <2>1, RequestFields DEF Visit
    <3> QED
      BY <1>0, <3>1, Facts
  <2>4. Kept(req[r], u) = Spared(u)'
    BY <1>0, <2>1, <2>2, <2>3 DEF Kept, Lost, Now, Spared
  <2>5. Debt(u)' \subseteq Debt(u)
    BY <1>1, <1>3, <2>1, <2>4 DEF Owed
  <2> QED
    BY <2>1, <2>5 DEF Paid
<1>5. CASE DeleteVisit(r)
  <2>1. req[r].pc = "remove" /\ req[r].drop /\ Leave(r) /\ faults' = faults
    BY <1>0, <1>5 DEF DeleteVisit, At, Good, bounds
  <2>2. Kept(req[r], u) = {}
    BY <2>1 DEF Kept, Lost
  <2>3. Debt(u)' \subseteq Debt(u)
    BY <1>1, <1>3, <2>1, <2>2 DEF Owed
  <2> QED
    BY <2>1, <2>3 DEF Paid
<1>6. CASE SyncRaises(r) \/ Kill(r)
  <2>1. PICK q : req' = [req EXCEPT ![r] = q] /\ q.pc # "call"
    <3>1. CASE Leave(r)
      <4>1. NoRequest.pc # "call"
        BY DEF NoRequest
      <4> QED
        BY <3>1, <4>1 DEF Leave
    <3>2. CASE Go(r, "remove") /\ SyncRaises(r) /\ req[r].drop
      BY <1>0, <3>2, GoStep DEF SyncRaises, At
    <3> QED
      BY <1>6, <3>1, <3>2 DEF SyncRaises, Kill
  <2>2. \E x : Debt(u)' \subseteq Debt(u) \cup {x}
    BY <1>0, <2>1, OneMore
  <2> QED
    BY <1>6, <2>2 DEF Paid, SyncRaises, Kill
<1> QED
  BY <1>4, <1>5, <1>6

\* A step outside a run leaves every debt as it is.
LEMMA OutsideDebt ==
    ASSUME GoodInv, Solo, Solo', NEW r \in Reqs, NEW u \in Users,
           \/ UpdateVisit(r)
           \/ At(r, "reread") /\ (Kill(r) \/ (RereadVisit(r) /\ visit = None))
    PROVE  Paid(u)
<1>0. /\ TypeOK /\ req[r] \in Request /\ UNCHANGED <<connected, event, last>> /\ ~Syncing(r)
      /\ faults' = faults \/ faults' = faults + 1
  BY Facts DEF GoodInv, Syncing, UpdateVisit, Begin, RereadVisit, Kill, At, bounds
<1>1. PICK q : req' = [req EXCEPT ![r] = q] /\ q.pc \in {"reread", "idle"}
  <2>1. CASE UpdateVisit(r)
    BY <1>0, <2>1, UpdateStep DEF GoodInv
  <2>2. CASE Leave(r)
    <3>1. NoRequest.pc = "idle"
      BY DEF NoRequest
    <3> QED
      BY <2>2, <3>1 DEF Leave
  <2> QED
    BY <2>1, <2>2 DEF Kill, RereadVisit
<1>2. req'[r] = q /\ \A s \in Reqs \ {r} : req'[s] = req[s]
  BY <1>1, Facts DEF GoodInv
<1>3. \A s \in Reqs : (Syncing(s)' <=> Syncing(s)) /\ (Syncing(s) => req'[s] = req[s])
  BY <1>0, <1>1, <1>2 DEF Syncing
<1>4. Live(u)' = Live(u)
  BY <1>0 DEF Live
<1>5. Spared(u)' = Spared(u)
  <2>1. CASE UpdateVisit(r)
    <3>1. visit # None /\ visit \in Visit
      BY <1>0, <2>1, Facts DEF UpdateVisit
    <3>2. PICK owners \in SUBSET Users, slot \in {visit.slot, visit.slot + 1} :
             visit' = [visit EXCEPT !.owners = owners, !.slot = slot]
      BY <2>1 DEF UpdateVisit
    <3>3. visit' \in Visit
      <4>1. visit.slot \in Nat /\ slot \in Nat
        BY <3>1 DEF Visit
      <4> QED
        BY <3>1, <3>2, <4>1 DEF Visit
    <3>4. visit'.map = visit.map /\ visit' # None
      BY <1>0, <3>1, <3>2, <3>3, Facts DEF Visit
    <3> QED
      BY <1>0, <3>1, <3>4 DEF Spared
  <2>2. CASE UNCHANGED visit
    BY <1>0, <2>2 DEF Spared
  <2> QED
    BY <2>1, <2>2 DEF Kill, RereadVisit
<1>6. CASE \A s \in Reqs : ~Syncing(s)
  <2>1. Debt(u)' = Debt(u)
    BY <1>3, <1>4, <1>5, <1>6 DEF Debt
  <2> QED
    BY <1>0, <2>1 DEF Paid
<1>7. ASSUME NEW s \in Reqs, Syncing(s) PROVE Paid(u)
  <2>1. PICK p : p = req[s] /\ req'[s] = p /\ Syncing(s)'
    BY <1>3, <1>7
  <2>2. Debt(u) = Owed(p, u) /\ Debt(u)' = Owed(p, u)'
    BY <1>7, <2>1, DebtOf, DebtOfNext
  <2>3. Owed(p, u)' = Owed(p, u)
    BY <1>0, <1>4 DEF Owed, Kept, Coming, Lost, Now, Wanted
  <2> QED
    BY <1>0, <2>2, <2>3 DEF Paid
<1> QED
  BY <1>6, <1>7


\* A step of a request, without overlap after it.
LEMMA RequestDebt ==
    ASSUME GoodInv, OwnInv, CalInv, CalInv', NEW r \in Reqs, ReqStep(r), ~raced', NEW u \in Users
    PROVE  Paid(u)
<1>0. Solo /\ Solo' /\ TypeOK /\ (visit # None => visit \in Visit)
  BY Observed, Facts DEF CalInv, Calm, GoodInv
<1>1. CASE CreateVisit(r)
  <2>1. PICK v : /\ visit' = v /\ Snapshot(r, v, FALSE) /\ v.map = NoMap /\ visit = None
                 /\ UNCHANGED <<connected, event, faults>>
    BY <1>1 DEF CreateVisit
  <2>2. visit' \in Visit
    BY <1>1, VisitTypes, Facts DEF CreateVisit, Visit, Map, NoMap
  <2> QED
    BY <1>0, <2>1, <2>2, StartDebt DEF Paid
<1>2. CASE FindVisit(r)
  BY <1>0, <1>2, StartDebt DEF FindVisit, Paid
<1>3. CASE RereadVisit(r) /\ visit # None
  BY <1>0, <1>3, StartDebt DEF RereadVisit, Paid, bounds
<1>4. CASE UpdateVisit(r) \/ (RereadVisit(r) /\ visit = None) \/ (Kill(r) /\ At(r, "reread"))
  <2>1. RereadVisit(r) => At(r, "reread")
    BY DEF RereadVisit
  <2> QED
    BY <1>0, <1>4, <2>1, OutsideDebt
<1>5. CASE ReadLead(r) \/ NextUser(r) \/ EndCalls(r)
  BY <1>0, <1>5, QuietDebt
<1>6. CASE DeleteEvent(r) \/ InsertEvent(r) \/ UpdateEvent(r) \/ CallRaises(r)
  BY <1>0, <1>6, CallDebt
<1>7. CASE WriteMap(r) \/ DeleteVisit(r) \/ SyncRaises(r) \/ (Kill(r) /\ ~At(r, "reread"))
  <2>1. req[r] \in Request
    BY <1>0, Facts
  <2>2. Syncing(r)
    BY <1>7, <2>1 DEF WriteMap, DeleteVisit, SyncRaises, Kill, Syncing, At, Request
  <2> QED
    BY <1>0, <1>7, <2>2, EndDebt
<1> QED
  BY <1>1, <1>2, <1>3, <1>4, <1>5, <1>6, <1>7 DEF ReqStep

\* A new connection settles debts; a lost one adds the event of its user, or
\* the one a run is about to insert there.
LEMMA ConnectionDebt ==
    ASSUME GoodInv, Solo, Solo', NEW c \in Users, Connect(c) \/ Disconnect(c), NEW u \in Users
    PROVE  Paid(u)
<1>0. /\ UNCHANGED <<visit, event, last, req>> /\ Live(u)' = Live(u)
      /\ \A s \in Reqs : Syncing(s)' <=> Syncing(s)
      /\ Connect(c) => connected' = connected \cup {c} /\ faults' = faults
      /\ Disconnect(c) => connected' = connected \ {c} /\ faults' = faults + 1
  BY DEF Connect, Disconnect, Live, Syncing, bounds
<1>1. CASE \A s \in Reqs : ~Syncing(s)
  <2>1. Debt(u) = Live(u) \ Spared(u) /\ Debt(u)' = Live(u) \ Spared(u)'
    BY <1>0, <1>1 DEF Debt
  <2>2. CASE Connect(c)
    <3>1. Spared(u) \subseteq Spared(u)'
      BY <1>0, <2>2 DEF Spared
    <3> QED
      BY <1>0, <2>1, <2>2, <3>1 DEF Paid
  <2>3. CASE Disconnect(c)
    BY <1>0, <2>1, <2>3, AllButOne DEF Paid
  <2> QED
    BY <2>2, <2>3
<1>2. ASSUME NEW r \in Reqs, Syncing(r) PROVE Paid(u)
  <2>1. PICK q : q = req[r] /\ req'[r] = q /\ Syncing(r)'
    BY <1>0, <1>2
  <2>2. Debt(u) = Owed(q, u) /\ Debt(u)' = Owed(q, u)'
    BY <1>2, <2>1, DebtOf, DebtOfNext
  <2>3. Owed(q, u)' = (Live(u) \ Kept(q, u)') \cup Coming(q, u)'
    BY <1>0 DEF Owed
  <2>4. CASE Connect(c)
    <3>1. Kept(q, u) \subseteq Kept(q, u)'
      BY <1>0, <2>4 DEF Kept, Lost, Now
    <3>2. Coming(q, u)' \subseteq Coming(q, u)
      BY <1>0, <2>4 DEF Coming, Wanted, Now
    <3> QED
      BY <1>0, <2>2, <2>3, <2>4, <3>1, <3>2 DEF Paid, Owed
  <2>5. CASE Disconnect(c)
    <3>1. \E x : Debt(u)' \subseteq Debt(u) \cup {x}
      <4>1. CASE Coming(q, u)' = {}
        <5>1. Live(u) \subseteq Owed(q, u) \cup {Now(q, u)}
          BY AllButOne
        <5> QED
          BY <2>2, <2>3, <4>1, <5>1
      <4>2. CASE Coming(q, u)' # {}
        <5>1. Now(q, u) = None /\ Coming(q, u)' = {last + 1}
          BY <1>0, <4>2 DEF Coming, Now
        <5>2. Live(u) \subseteq Owed(q, u)
          BY <5>1, AllButOne
        <5> QED
          BY <2>2, <2>3, <5>1, <5>2
      <4> QED
        BY <4>1, <4>2
    <3> QED
      BY <1>0, <2>5, <3>1 DEF Paid
  <2> QED
    BY <2>4, <2>5
<1> QED
  BY <1>1, <1>2

\* A set that grows by one element at most has one element more at most.
LEMMA GrowsByOne ==
    ASSUME NEW S, NEW T, NEW x, NEW n \in Nat, IsFiniteSet(S), Cardinality(S) <= n
    PROVE  /\ T \subseteq S => IsFiniteSet(T) /\ Cardinality(T) <= n
           /\ T \subseteq S \cup {x} => IsFiniteSet(T) /\ Cardinality(T) <= n + 1
<1>1. Cardinality(S) \in Nat
  BY FS_CardinalityType
<1>2. ASSUME T \subseteq S PROVE IsFiniteSet(T) /\ Cardinality(T) <= n
  <2>1. IsFiniteSet(T) /\ Cardinality(T) <= Cardinality(S)
    BY <1>2, FS_Subset
  <2>2. Cardinality(T) \in Nat
    BY <2>1, FS_CardinalityType
  <2> QED
    BY <1>1, <2>1, <2>2
<1>3. ASSUME T \subseteq S \cup {x} PROVE IsFiniteSet(T) /\ Cardinality(T) <= n + 1
  <2>1. IsFiniteSet(S \cup {x}) /\ (Cardinality(S \cup {x}) = Cardinality(S)
                                    \/ Cardinality(S \cup {x}) = Cardinality(S) + 1)
    BY FS_AddElement
  <2>2. IsFiniteSet(T) /\ Cardinality(T) <= Cardinality(S \cup {x})
    BY <1>3, <2>1, FS_Subset
  <2>3. Cardinality(T) \in Nat
    BY <2>2, FS_CardinalityType
  <2> QED
    BY <1>1, <2>1, <2>2, <2>3
<1> QED
  BY <1>2, <1>3

LEMMA StrayStep ==
    ASSUME GoodInv, OwnInv, CalInv, CalInv', StrayInv, [Next]_vars
    PROVE  StrayInv'
<1>0. faults \in Nat
  BY DEF GoodInv, TypeOK
<1> SUFFICES ASSUME ~raced', NEW u \in Users
             PROVE  IsFiniteSet(Debt(u)') /\ Cardinality(Debt(u)') <= faults'
  BY DEF StrayInv
<1>1. ~raced => IsFiniteSet(Debt(u)) /\ Cardinality(Debt(u)) <= faults
  BY DEF StrayInv
<1>2. ASSUME Paid(u), ~raced PROVE IsFiniteSet(Debt(u)') /\ Cardinality(Debt(u)') <= faults'
  <2>1. PICK S, T : S = Debt(u) /\ T = Debt(u)'
    OBVIOUS
  <2>2. CASE faults' = faults /\ T \subseteq S
    BY <1>0, <1>1, <1>2, <2>1, <2>2, GrowsByOne
  <2>3. CASE faults' = faults + 1 /\ \E x : T \subseteq S \cup {x}
    BY <1>0, <1>1, <1>2, <2>1, <2>3, GrowsByOne
  <2> QED
    BY <1>2, <2>1, <2>2, <2>3 DEF Paid
<1>3. ASSUME NEW r \in Reqs, ReqStep(r) PROVE IsFiniteSet(Debt(u)') /\ Cardinality(Debt(u)') <= faults'
  BY <1>2, <1>3, RequestDebt, Observed
<1>4. ASSUME NEW c \in Users, Connect(c) \/ Disconnect(c)
      PROVE  IsFiniteSet(Debt(u)') /\ Cardinality(Debt(u)') <= faults'
  <2>1. ~raced
    BY <1>4 DEF Connect, Disconnect
  <2>2. Solo /\ Solo'
    BY <2>1 DEF CalInv, Calm
  <2> QED
    BY <1>2, <1>4, <2>1, <2>2, ConnectionDebt
<1>5. CASE UNCHANGED vars
  <2>1. Debt(u)' = Debt(u)
    BY <1>5 DEF vars, Debt, Live, Spared, Owed, Kept, Coming, Lost, Now, Wanted, Syncing
  <2> QED
    BY <1>1, <1>5, <2>1 DEF vars, bounds
<1> QED
  BY <1>3, <1>4, <1>5 DEF Next

\* StraysAreCounted: unless runs of the sync overlapped, every event nobody
\* knows of is paid for by a failure of its own.
THEOREM StraysCounted == Spec => []StraysAreCounted
<1>1. Init => StrayInv
  <2> SUFFICES ASSUME Init, NEW u \in Users PROVE IsFiniteSet(Debt(u)) /\ Cardinality(Debt(u)) <= faults
    BY DEF StrayInv
  <2>1. Debt(u) = {}
    BY DEF Init, NoRequest, Debt, Live, Syncing
  <2> QED
    BY <2>1, FS_EmptySet DEF Init
<1>2. GoodInv /\ CalInv /\ StrayInv => StraysAreCounted
  <2> SUFFICES ASSUME GoodInv, CalInv, StrayInv, ~raced, NEW u \in Users
               PROVE  Cardinality(Live(u) \ Known(u)) <= faults
    BY DEF StraysAreCounted
  <2>1. Solo /\ faults \in Nat /\ IsFiniteSet(Debt(u)) /\ Cardinality(Debt(u)) <= faults
    BY DEF CalInv, Calm, StrayInv, GoodInv, TypeOK
  <2>2. Live(u) \ Known(u) \subseteq Debt(u)
    <3>1. CASE \A s \in Reqs : ~Syncing(s)
      <4>1. Spared(u) \subseteq Known(u)
        BY DEF Spared, Known
      <4> QED
        BY <3>1, <4>1 DEF Debt
    <3>2. ASSUME NEW r \in Reqs, Syncing(r) PROVE Live(u) \ Known(u) \subseteq Debt(u)
      <4>1. Debt(u) = Owed(req[r], u)
        BY <2>1, <3>2, DebtOf
      <4>2. req[r].new[u] \in Known(u)
        BY <3>2 DEF Known
      <4>3. req[r].seen.map[u] \in Known(u)
        BY <2>1, <3>2 DEF Solo, Known
      <4>4. Kept(req[r], u) \subseteq Known(u)
        BY <4>2, <4>3 DEF Kept, Now
      <4> QED
        BY <4>1, <4>4 DEF Owed
    <3> QED
      BY <3>1, <3>2
  <2> QED
    BY <2>1, <2>2, GrowsByOne
<1> QED
  BY <1>1, <1>2, Calendars, StrayStep, PTL DEF Spec

=============================================================================

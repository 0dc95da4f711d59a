------------------------- MODULE SiteVisitCalendar --------------------------
(***************************************************************************)
(* One site visit and the events it has in the Google calendars of its     *)
(* owners: create_visit, update_visit and delete_visit, each with its run  *)
(* of sync_site_visit_calendar_event. A run works from a snapshot of the   *)
(* visit, calls the calendars one after the other, and writes the map of   *)
(* event ids back whole. Calls may fail and requests may be killed.        *)
(***************************************************************************)
EXTENDS Naturals, FiniteSets

CONSTANTS
    Users,     \* users who may own the visit
    Reqs,      \* requests that may be under way at once
    MaxEvents, \* bound: calendar events ever inserted
    MaxStarts, \* bound: requests
    MaxFaults, \* bound: failing refreshes and calls, kills and disconnections
    None       \* no visit, no event, no user

ASSUME SiteVisitCalendarAssumption ==
    /\ MaxEvents \in Nat /\ MaxStarts \in Nat /\ MaxFaults \in Nat
    /\ None \notin Users /\ None \notin 1..MaxEvents
    /\ None \notin [owners : SUBSET Users, slot : Nat, map : [Users -> 1..MaxEvents \cup {None}]]
    /\ None \notin [user : Users, slot : Nat]

VARIABLES
    visit,     \* the visit's document
    connected, \* users with a calendar connection
    event,     \* calendar entry of each event id, None when there is none
    last,      \* events inserted so far; the provider uses ids once
    req,       \* locals of each request
    starts, faults,
    raced,     \* two runs of the sync overlapped (observation)
    failed     \* users a failure, a kill or a disconnection concerned (observation)

bounds == <<starts, faults>>
vars == <<visit, connected, event, last, req, bounds, raced, failed>>

Ids == 1..MaxEvents
Map == [Users -> Ids \cup {None}]
Visit == [owners : SUBSET Users, slot : Nat, map : Map]
Event == [user : Users, slot : Nat]

\* seen is the visit as read, with the lead's co-assignees among the owners
\* once these are read; left are the users to come to, new the updated map.
Request == [pc : {"idle", "reread", "lead", "next", "call", "write", "remove"},
            drop : BOOLEAN, seen : Visit, left : SUBSET Users,
            user : Users \cup {None}, new : Map]
NoMap == [u \in Users |-> None]
NoRequest == [pc |-> "idle", drop |-> FALSE, seen |-> [owners |-> {}, slot |-> 0, map |-> NoMap],
              left |-> {}, user |-> None, new |-> NoMap]

At(r, p) == req[r].pc = p
Go(r, p) == req' = [req EXCEPT ![r].pc = p]
Leave(r) == req' = [req EXCEPT ![r] = NoRequest]

\* Requests between the reading of the visit and the end of their sync.
Syncing(r) == req[r].pc \in {"lead", "next", "call", "write", "remove"}

\* The run starts from v.
Snapshot(r, v, drop) ==
    /\ req' = [req EXCEPT ![r] = [NoRequest EXCEPT !.pc = "lead", !.drop = drop, !.seen = v]]
    /\ raced' = (raced \/ \E q \in Reqs : Syncing(q))

-----------------------------------------------------------------------------
Begin(r) ==
    /\ At(r, "idle")
    /\ starts < MaxStarts
    /\ starts' = starts + 1

\* create_visit; the document it hands to the sync has no map.
CreateVisit(r) ==
    /\ Begin(r)
    /\ visit = None
    /\ starts = 0
    /\ \E owners \in SUBSET Users :
          LET v == [owners |-> owners, slot |-> 0, map |-> NoMap] IN
          visit' = v /\ Snapshot(r, v, FALSE)
    /\ UNCHANGED <<connected, event, last, faults, failed>>

\* update_visit: new owners, a new time, or something else of the visit.
UpdateVisit(r) ==
    /\ Begin(r)
    /\ visit # None
    /\ \E owners \in SUBSET Users, slot \in {visit.slot, visit.slot + 1} :
          visit' = [visit EXCEPT !.owners = owners, !.slot = slot]
    /\ Go(r, "reread")
    /\ UNCHANGED <<connected, event, last, faults, raced, failed>>

RereadVisit(r) ==
    /\ At(r, "reread")
    /\ IF visit = None THEN Leave(r) /\ UNCHANGED raced ELSE Snapshot(r, visit, FALSE)
    /\ UNCHANGED <<visit, connected, event, last, bounds, failed>>

\* delete_visit.
FindVisit(r) ==
    /\ Begin(r)
    /\ visit # None
    /\ Snapshot(r, visit, TRUE)
    /\ UNCHANGED <<visit, connected, event, last, faults, failed>>

\* mutant: fields without an owner count as owners.
TargetsUnset(q, owners) ==
    {u \in Users : q.seen.map[u] # None} \cup IF q.drop THEN {} ELSE owners \cup {None}

\* mutant: only the owners of now are visited.
TargetsOwners(q, owners) == IF q.drop THEN {u \in Users : q.seen.map[u] # None} ELSE owners

Targets(q, owners) ==
    {u \in Users : q.seen.map[u] # None} \cup IF q.drop THEN {} ELSE owners

\* The lead's co-assignees are owners too.
ReadLead(r) ==
    /\ At(r, "lead")
    /\ \E co \in SUBSET Users :
          LET owners == req[r].seen.owners \cup co IN
          req' = [req EXCEPT ![r].pc = "next", ![r].seen.owners = owners,
                             ![r].new = req[r].seen.map, ![r].left = Targets(req[r], owners)]
    /\ UNCHANGED <<visit, connected, event, last, bounds, raced, failed>>

\* google_calendar_service_for: a user without a connection, or whose token
\* cannot be refreshed, is left out.
NextUser(r) ==
    /\ At(r, "next")
    /\ \E u \in req[r].left :
          \/ /\ u \in connected
             /\ req' = [req EXCEPT ![r].pc = "call", ![r].user = u, ![r].left = @ \ {u}]
             /\ UNCHANGED <<faults, failed>>
          \/ /\ u \notin connected
             /\ req' = [req EXCEPT ![r].left = @ \ {u}]
             /\ UNCHANGED <<faults, failed>>
          \/ /\ u \in connected
             /\ faults < MaxFaults
             /\ faults' = faults + 1
             /\ failed' = failed \cup {u}
             /\ req' = [req EXCEPT ![r].left = @ \ {u}]
    /\ UNCHANGED <<visit, connected, event, last, starts, raced>>

Wanted(q) == ~q.drop /\ q.user \in q.seen.owners

\* The entry of the map after the call: e is the event's id.
Enter(r, e) == req' = [req EXCEPT ![r].pc = "next", ![r].user = None, ![r].new[req[r].user] = e]

\* events().delete, for a user who is no owner (any more).
DeleteEvent(r) ==
    /\ At(r, "call")
    /\ ~Wanted(req[r])
    /\ LET e == req[r].seen.map[req[r].user] IN
       event' = IF e = None THEN event ELSE [event EXCEPT ![e] = None]
    /\ Enter(r, None)
    /\ UNCHANGED <<visit, connected, last, bounds, raced, failed>>

\* mutant: the id of an inserted event is not kept.
EnteredNone(e) == None

Entered(e) == e

\* events().insert.
InsertEvent(r) ==
    /\ At(r, "call")
    /\ Wanted(req[r])
    /\ req[r].seen.map[req[r].user] = None
    /\ last < MaxEvents
    /\ last' = last + 1
    /\ event' = [event EXCEPT ![last + 1] = [user |-> req[r].user, slot |-> req[r].seen.slot]]
    /\ Enter(r, Entered(last + 1))
    /\ UNCHANGED <<visit, connected, bounds, raced, failed>>

\* events().update; of an event that is gone it raises and the id is kept.
UpdateEvent(r) ==
    /\ At(r, "call")
    /\ Wanted(req[r])
    /\ LET e == req[r].seen.map[req[r].user] IN
       /\ e # None
       /\ event' = IF event[e] = None THEN event ELSE [event EXCEPT ![e].slot = req[r].seen.slot]
       /\ Enter(r, e)
    /\ UNCHANGED <<visit, connected, last, bounds, raced, failed>>

\* A call raises, having done its work or not; a deletion counts as done, an
\* insertion or update as not done.
CallRaises(r) ==
    /\ At(r, "call")
    /\ faults < MaxFaults
    /\ faults' = faults + 1
    /\ failed' = failed \cup {req[r].user}
    /\ LET q == req[r]
           e == q.seen.map[q.user] IN
       /\ \/ UNCHANGED <<event, last>>
          \/ ~Wanted(q) /\ e # None /\ event' = [event EXCEPT ![e] = None] /\ UNCHANGED last
          \/ /\ Wanted(q) /\ e = None /\ last < MaxEvents
             /\ last' = last + 1
             /\ event' = [event EXCEPT ![last + 1] = [user |-> q.user, slot |-> q.seen.slot]]
       /\ Enter(r, IF Wanted(q) THEN e ELSE None)
    /\ UNCHANGED <<visit, connected, starts, raced>>

EndCalls(r) ==
    /\ At(r, "next")
    /\ req[r].left = {}
    /\ Go(r, IF req[r].drop THEN "remove" ELSE "write")
    /\ UNCHANGED <<visit, connected, event, last, bounds, raced, failed>>

MapAfter(v, q) == [v EXCEPT !.map = q.new]

\* The whole map replaces the visit's; nothing happens if the visit is gone.
WriteMap(r) ==
    /\ At(r, "write")
    /\ visit' = IF visit = None THEN None ELSE MapAfter(visit, req[r])
    /\ Leave(r)
    /\ UNCHANGED <<connected, event, last, bounds, raced, failed>>

DeleteVisit(r) ==
    /\ At(r, "remove")
    /\ visit' = None
    /\ Leave(r)
    /\ UNCHANGED <<connected, event, last, bounds, raced, failed>>

\* Users whose calendar or entry a killed request leaves as it was, or half done.
Unfinished(q) ==
    IF q.pc \in {"reread", "lead"} THEN Users
    ELSE q.left \cup ({q.user} \ {None}) \cup {u \in Users : q.new[u] # q.seen.map[u]}

\* Reading the lead, a connection or its token raises: the sync ends for all
\* users, and a deletion goes on to the visit.
SyncRaises(r) ==
    /\ req[r].pc \in {"lead", "next"}
    /\ faults < MaxFaults
    /\ faults' = faults + 1
    /\ failed' = failed \cup Unfinished(req[r])
    /\ IF req[r].drop THEN Go(r, "remove") ELSE Leave(r)
    /\ UNCHANGED <<visit, connected, event, last, starts, raced>>

Kill(r) ==
    /\ ~At(r, "idle")
    /\ faults < MaxFaults
    /\ faults' = faults + 1
    /\ failed' = failed \cup Unfinished(req[r])
    /\ Leave(r)
    /\ UNCHANGED <<visit, connected, event, last, starts, raced>>

\* The end of the OAuth callback.
Connect(u) ==
    /\ u \notin connected
    /\ connected' = connected \cup {u}
    /\ UNCHANGED <<visit, event, last, req, bounds, raced, failed>>

\* disconnect_google_calendar leaves the events where they are.
Disconnect(u) ==
    /\ u \in connected
    /\ faults < MaxFaults
    /\ faults' = faults + 1
    /\ connected' = connected \ {u}
    /\ failed' = failed \cup {u}
    /\ UNCHANGED <<visit, event, last, req, starts, raced>>

-----------------------------------------------------------------------------
Init ==
    /\ visit = None
    /\ connected \in SUBSET Users
    /\ event = [e \in Ids |-> None]
    /\ last = 0
    /\ req = [r \in Reqs |-> NoRequest]
    /\ starts = 0 /\ faults = 0
    /\ raced = FALSE
    /\ failed = {}

ReqStep(r) ==
    \/ CreateVisit(r) \/ UpdateVisit(r) \/ RereadVisit(r) \/ FindVisit(r) \/ ReadLead(r)
    \/ NextUser(r) \/ DeleteEvent(r) \/ InsertEvent(r) \/ UpdateEvent(r) \/ CallRaises(r)
    \/ EndCalls(r) \/ WriteMap(r) \/ DeleteVisit(r) \/ SyncRaises(r) \/ Kill(r)

Next ==
    \/ \E r \in Reqs : ReqStep(r)
    \/ \E u \in Users : Connect(u) \/ Disconnect(u)

Spec == Init /\ [][Next]_vars

-----------------------------------------------------------------------------
(***************************************************************************)
(* Properties.                                                             *)
(***************************************************************************)
\* Documents, calendars and locals keep their types.
TypeOK ==
    /\ visit \in Visit \cup {None}
    /\ connected \subseteq Users
    /\ event \in [Ids -> Event \cup {None}]
    /\ last \in 0..MaxEvents
    /\ req \in [Reqs -> Request]
    /\ starts \in Nat /\ faults \in Nat
    /\ raced \in BOOLEAN /\ failed \subseteq Users
    /\ \A r \in Reqs : At(r, "call") => req[r].user \in Users

\* The events in the calendar of u.
Live(u) == {e \in Ids : event[e] # None /\ event[e].user = u}

\* While no request is under way: a user nothing failed for has the event the
\* visit's map names and no other, at the visit's time, and none when the
\* visit is deleted, unless two runs of the sync once overlapped.
CalendarMatchesVisit ==
    ~raced /\ (\A r \in Reqs : At(r, "idle")) =>
        \A u \in Users \ failed :
            /\ Live(u) = IF visit = None THEN {} ELSE {visit.map[u]} \ {None}
            /\ \A e \in Live(u) : event[e].slot = visit.slot

\* The event of u that the visit's map or the map of a run under way names.
Known(u) ==
    (IF visit = None THEN {} ELSE {visit.map[u]})
        \cup {req[r].new[u] : r \in {q \in Reqs : Syncing(q)}}

\* Unless two runs of the sync once overlapped, a calendar holds no more events
\* that nobody knows of than there were failures: each costs one at most,
\* and none comes from reassigning, moving or deleting the visit.
StraysAreCounted ==
    ~raced => \A u \in Users : Cardinality(Live(u) \ Known(u)) <= faults

=============================================================================

--------------------------- MODULE UnitInventory ----------------------------
(***************************************************************************)
(* db.units of one project: GET /units, which repairs floors and removes   *)
(* duplicates before it reads, the import, which does the same, may clear  *)
(* the project and upserts its rows, and creating, editing and deleting    *)
(* units and the project. A request may end between any two awaits.        *)
(***************************************************************************)
EXTENDS Naturals, FiniteSets

CONSTANTS
    Nos,       \* tower and unit number together
    Named,     \* numbers whose text names floor 1, as "A-101" does
    Reqs,      \* requests that may be under way at once
    MaxUnits,  \* bound: documents ever inserted
    MaxStarts, \* bound: requests
    MaxEdits,  \* bound: edits and deletions by users
    MaxStops,  \* bound: requests that end early
    MaxRows,   \* bound: rows of an import
    None       \* no document, no row

ASSUME UnitInventoryAssumption ==
    /\ Named \subseteq Nos
    /\ MaxUnits \in Nat /\ MaxStarts \in Nat /\ MaxEdits \in Nat
    /\ MaxStops \in Nat /\ MaxRows \in Nat
    /\ None \notin [no : Nos, floor : {0, 1}, stamp : Nat]

VARIABLES
    project,   \* the project's document exists
    unit,      \* document of each id in db.units, None for no document
    last,      \* documents inserted so far; ids are used once
    clock,     \* last value of created_at
    req,       \* locals of each request
    starts, edits, stops,
    disturbed, \* units changed while a request held copies to delete (observation)
    twinned,   \* units duplicated by something else than one import (observation)
    emptied,   \* whether an import cleared the project and nothing was put since (observation)
    late       \* units may outlive the project (observation)

obsVars == <<disturbed, twinned, emptied, late>>
bounds == <<starts, edits, stops>>
vars == <<project, unit, last, clock, req, bounds, obsVars>>

Ids == 1..MaxUnits
Floors == {0, 1}

\* The fields an upsert and the grouping identify a unit by.
Identity == [no : Nos, floor : Floors]
Unit == [no : Nos, floor : Floors, stamp : Nat]

\* pc is the next await; work the ids read, file the rows of an import still
\* to write (none for GET /units), row the one being inserted.
Request == [pc : {"idle", "find", "repair", "group", "purge", "prepare",
                  "clear", "upsert", "insert", "create", "drop"},
            work : SUBSET Ids, file : SUBSET Identity,
            row : Identity \cup {None}, stamp : Nat, replace : BOOLEAN]
NoRequest == [pc |-> "idle", work |-> {}, file |-> {}, row |-> None,
              stamp |-> 0, replace |-> FALSE]

stored == {i \in Ids : unit[i] # None}
IdentityOf(d) == [no |-> d.no, floor |-> d.floor]

\* The identity a document has once its floor is repaired.
Final(d) == [no |-> d.no, floor |-> IF d.floor = 0 /\ d.no \in Named THEN 1 ELSE d.floor]

Same(i, j) == IdentityOf(unit[i]) = IdentityOf(unit[j])
Twins(i, j) == Final(unit[i]) = Final(unit[j])

\* {"created_at": -1, "_id": -1}; _id grows with the inserts.
Newer(i, j) == unit[i].stamp > unit[j].stamp \/ (unit[i].stamp = unit[j].stamp /\ i > j)

At(r, p) == req[r].pc = p
Writing(r) == At(r, "upsert") \/ At(r, "insert")
Go(r, p) == req' = [req EXCEPT ![r].pc = p]
Leave(r) == req' = [req EXCEPT ![r] = NoRequest]
Remove(gone) == unit' = [i \in Ids |-> IF i \in gone THEN None ELSE unit[i]]

\* mutant: created_at is left out.
InsertUndated(row, at) ==
    /\ last < MaxUnits
    /\ last' = last + 1
    /\ emptied' = "no"
    /\ unit' = [unit EXCEPT ![last + 1] = [no |-> row.no, floor |-> row.floor]]

Insert(row, at) ==
    /\ last < MaxUnits
    /\ last' = last + 1
    /\ emptied' = "no"
    /\ unit' = [unit EXCEPT ![last + 1] = [no |-> row.no, floor |-> row.floor, stamp |-> at]]

\* Documents that requests are about to delete, and what these are copies of.
Doomed == {i \in stored : \E r \in Reqs : At(r, "purge") /\ i \in req[r].work}
DoomedUnits == {Final(unit[i]) : i \in Doomed}

\* The units of changed documents whose copies are about to be deleted.
Disturb(changed) ==
    disturbed' = disturbed \cup
        ((DoomedUnits \cup DoomedUnits')
            \cap ({Final(unit[i]) : i \in changed}
                  \cup {Final(unit'[i]) : i \in changed \cap stored'}))

\* The units somebody has put twice, or beside an import about to insert them.
Inserting(r, x) == At(r, "insert") /\ req[r].row = x
Put ==
    twinned' = twinned \cup {x \in Identity : \E i \in stored' :
        /\ IdentityOf(unit'[i]) = x
        /\ \/ \E j \in stored' \ {i} : IdentityOf(unit'[j]) = x
           \/ \E r \in Reqs : Inserting(r, x)}

-----------------------------------------------------------------------------
\* mutant: the project is not looked up.
ProjectFoundAny == TRUE

ProjectFound == project

\* GET /units, or an import of a file; the project is looked up first.
Begin(r) ==
    /\ At(r, "idle")
    /\ starts < MaxStarts
    /\ ProjectFound
    /\ starts' = starts + 1
    /\ \E file \in SUBSET Identity, replace \in BOOLEAN :
          /\ Cardinality(file) <= MaxRows
          /\ replace => file # {}
          /\ req' = [req EXCEPT ![r] = [NoRequest EXCEPT !.pc = "find", !.file = file,
                                                         !.replace = replace]]
    /\ UNCHANGED <<project, unit, last, clock, edits, stops, obsVars>>

FindFloors(r) ==
    /\ At(r, "find")
    /\ req' = [req EXCEPT ![r].pc = "repair",
                          ![r].work = {i \in stored : unit[i].floor = 0 /\ unit[i].no \in Named}]
    /\ UNCHANGED <<project, unit, last, clock, bounds, obsVars>>

\* One UpdateOne by id per document found, whatever it has become by now.
RepairFloors(r) ==
    /\ At(r, "repair")
    /\ unit' = [i \in Ids |-> IF i \in req[r].work \cap stored
                              THEN [unit[i] EXCEPT !.floor = 1] ELSE unit[i]]
    /\ req' = [req EXCEPT ![r].pc = "group", ![r].work = {}]
    /\ Put
    /\ UNCHANGED <<project, last, clock, bounds, emptied, late>>
    /\ Disturb({i \in req[r].work \cap stored : Final(unit[i]) # Final(unit'[i])})

\* mutant: sorted by created_at ascending.
DuplicatesOldest == {i \in stored : \E j \in stored : Same(i, j) /\ Newer(i, j)}

\* All but the newest document of each group.
Duplicates == {i \in stored : \E j \in stored : Same(i, j) /\ Newer(j, i)}

GroupCopies(r) ==
    /\ At(r, "group")
    /\ req' = [req EXCEPT ![r].pc = "purge", ![r].work = Duplicates]
    /\ UNCHANGED <<project, unit, last, clock, bounds, obsVars>>

\* delete_many by id; GET /units then reads, an import goes on.
PurgeCopies(r) ==
    /\ At(r, "purge")
    /\ Remove(req[r].work)
    /\ IF req[r].file = {} THEN Leave(r)
       ELSE req' = [req EXCEPT ![r].pc = "prepare", ![r].work = {}]
    /\ UNCHANGED <<project, last, clock, bounds, obsVars>>

\* mutant: cleared although every row was dropped.
BeforeRowsClear(r, file) == IF req[r].replace THEN "clear" ELSE IF file = {} THEN "idle" ELSE "upsert"

BeforeRows(r, file) == IF file = {} THEN "idle" ELSE IF req[r].replace THEN "clear" ELSE "upsert"

\* Rows that are not valid are dropped, the others stamped; with none left
\* there is nothing to write.
PrepareRows(r) ==
    /\ At(r, "prepare")
    /\ clock' = clock + 1
    /\ \E file \in SUBSET req[r].file :
          LET next == BeforeRows(r, file) IN
          req' = [req EXCEPT ![r] = IF next = "idle" THEN NoRequest
                                    ELSE [@ EXCEPT !.pc = next, !.file = file, !.stamp = clock + 1]]
    /\ UNCHANGED <<project, unit, last, bounds, obsVars>>

ClearUnits(r) ==
    /\ At(r, "clear")
    /\ Remove(Ids)
    /\ emptied' = "clearing"
    /\ Go(r, "upsert")
    /\ UNCHANGED <<project, last, clock, bounds, twinned, late>>
    /\ Disturb(stored)

\* mutant: the row's floor is not part of the identity.
MatchesNo(i, row) == unit[i].no = row.no

Matches(i, row) == IdentityOf(unit[i]) = row

NextRow(r, row) ==
    IF req[r].file = {row} THEN Leave(r)
    ELSE req' = [req EXCEPT ![r].pc = "upsert", ![r].file = @ \ {row}, ![r].row = None]

\* An upsert that matches sets the row's values, created_at among them.
UpdateRow(r) ==
    /\ At(r, "upsert")
    /\ \E row \in req[r].file, i \in stored :
          /\ Matches(i, row)
          /\ unit' = [unit EXCEPT ![i] = [no |-> row.no, floor |-> row.floor, stamp |-> req[r].stamp]]
          /\ NextRow(r, row)
          /\ Disturb({i})
    /\ UNCHANGED <<project, last, clock, bounds, twinned, emptied, late>>

\* One that matches nothing goes on to insert; no unique index stops two.
MissRow(r) ==
    /\ At(r, "upsert")
    /\ \E row \in req[r].file :
          /\ \A i \in stored : ~Matches(i, row)
          /\ req' = [req EXCEPT ![r].pc = "insert", ![r].row = row]
    /\ UNCHANGED <<project, unit, last, clock, bounds, obsVars>>

\* Between its lookup and this somebody else may have put the unit, or looked.
InsertRow(r) ==
    /\ At(r, "insert")
    /\ Insert(req[r].row, req[r].stamp)
    /\ NextRow(r, req[r].row)
    /\ twinned' = twinned \cup {x \in {req[r].row} : \E q \in Reqs \ {r} : Inserting(q, x)}
    /\ UNCHANGED <<project, clock, bounds, disturbed, late>>

\* The process ends, or a bulk write raises.
Stop(r) ==
    /\ ~At(r, "idle")
    /\ stops < MaxStops
    /\ stops' = stops + 1
    /\ late' = (late \/ At(r, "drop"))
    /\ emptied' = IF emptied = "clearing" /\ Writing(r) THEN "stopped" ELSE emptied
    /\ Leave(r)
    /\ UNCHANGED <<project, unit, last, clock, starts, edits, disturbed, twinned>>

BeginCreate(r) ==
    /\ At(r, "idle")
    /\ starts < MaxStarts
    /\ ProjectFound
    /\ starts' = starts + 1
    /\ Go(r, "create")
    /\ UNCHANGED <<project, unit, last, clock, edits, stops, obsVars>>

\* No lookup of the unit: the same one may be created twice.
CreateUnit(r) ==
    /\ At(r, "create")
    /\ clock' = clock + 1
    /\ \E row \in Identity : Insert(row, clock + 1)
    /\ Put
    /\ Leave(r)
    /\ UNCHANGED <<project, bounds, disturbed, late>>

EditUnit(i) ==
    /\ i \in stored
    /\ edits < MaxEdits
    /\ edits' = edits + 1
    /\ \E row \in Identity :
          unit' = [unit EXCEPT ![i] = [@ EXCEPT !.no = row.no, !.floor = row.floor]]
    /\ Put
    /\ UNCHANGED <<project, last, clock, req, starts, stops, emptied, late>>
    /\ Disturb({i})

DeleteUnit(i) ==
    /\ i \in stored
    /\ edits < MaxEdits
    /\ edits' = edits + 1
    /\ Remove({i})
    /\ UNCHANGED <<project, last, clock, req, starts, stops, twinned, emptied, late>>
    /\ Disturb({i})

\* delete_project: first the project, then its units.
DropProject(r) ==
    /\ At(r, "idle")
    /\ starts < MaxStarts
    /\ ProjectFound
    /\ starts' = starts + 1
    /\ project' = FALSE
    /\ late' = \E q \in Reqs : At(q, "create") \/ req[q].file # {}
    /\ Go(r, "drop")
    /\ UNCHANGED <<unit, last, clock, edits, stops, disturbed, twinned, emptied>>

DropUnits(r) ==
    /\ At(r, "drop")
    /\ Remove(Ids)
    /\ Leave(r)
    /\ UNCHANGED <<project, last, clock, bounds, twinned, emptied, late>>
    /\ Disturb(stored)

-----------------------------------------------------------------------------
Init ==
    /\ project = TRUE
    /\ unit = [i \in Ids |-> None]
    /\ last = 0 /\ clock = 0
    /\ req = [r \in Reqs |-> NoRequest]
    /\ starts = 0 /\ edits = 0 /\ stops = 0
    /\ disturbed = {} /\ twinned = {} /\ emptied = "no" /\ late = FALSE

ReqStep(r) ==
    \/ Begin(r) \/ FindFloors(r) \/ RepairFloors(r) \/ GroupCopies(r) \/ PurgeCopies(r)
    \/ PrepareRows(r) \/ ClearUnits(r) \/ UpdateRow(r) \/ MissRow(r) \/ InsertRow(r)
    \/ BeginCreate(r) \/ CreateUnit(r) \/ DropProject(r) \/ DropUnits(r) \/ Stop(r)

Next ==
    \/ \E r \in Reqs : ReqStep(r)
    \/ \E i \in Ids : EditUnit(i) \/ DeleteUnit(i)

Spec == Init /\ [][Next]_vars

-----------------------------------------------------------------------------
(***************************************************************************)
(* Properties.                                                             *)
(***************************************************************************)
\* Documents and locals keep their types, no id above last is used, and a
\* request about to insert has a row.
TypeOK ==
    /\ project \in BOOLEAN /\ late \in BOOLEAN
    /\ emptied \in {"no", "clearing", "stopped"}
    /\ unit \in [Ids -> Unit \cup {None}]
    /\ last \in 0..MaxUnits /\ clock \in Nat
    /\ \A i \in stored \cup UNION {req[r].work : r \in Reqs} : i <= last
    /\ req \in [Reqs -> Request]
    /\ starts \in Nat /\ edits \in Nat /\ stops \in Nat
    /\ disturbed \subseteq Identity /\ twinned \subseteq Identity
    /\ \A r \in Reqs : At(r, "insert") => req[r].row \in req[r].file

\* However many requests repair, group and delete side by side, and wherever
\* they end: of a unit nobody renewed, edited or deleted meanwhile, every copy
\* about to be deleted has a newer one that no request is about to delete.
DoomedHasKeeper ==
    \A i \in Doomed : Final(unit[i]) \notin disturbed =>
        \E j \in stored \ Doomed : Twins(i, j) /\ Newer(j, i)

Purged(r) == IF At(r, "purge") /\ req'[r].pc # "purge" THEN stored \ stored' ELSE {}

\* GET /units and an import delete no copy of such a unit but for a newer one
\* that stays.
NewestCopyKeptUnlessChanged ==
    [][\A r \in Reqs : \A i \in Purged(r) : Final(unit[i]) \notin disturbed =>
          \E j \in stored' : Twins(i, j) /\ Newer(j, i)]_vars

\* Imports alone, interrupted and retried at will, store no unit twice: two
\* copies need a creation, an edit, a repair, or two requests inserting at once.
OneCopyUnlessPutTwice ==
    \A i, j \in stored : i # j /\ Same(i, j) => IdentityOf(unit[i]) \in twinned

\* A project that an import cleared is filled again by an import still at it,
\* or was left empty by one that ended early; a file of invalid rows clears nothing.
ClearedIsRefilled ==
    emptied = "clearing" => stored = {} /\ \E r \in Reqs : Writing(r) /\ req[r].file # {}

\* Units outlive their project only if something that was to insert them had
\* looked it up before, or the request that deletes them ended early.
OrphansNeedRaceOrStop ==
    ~project /\ (\A r \in Reqs : ~At(r, "drop")) /\ stored # {} => late

=============================================================================

------------------------ MODULE UnitInventoryProofs -------------------------
(***************************************************************************)
(* Proofs about UnitInventory for any units, requests and imports.         *)
(***************************************************************************)
EXTENDS UnitInventory, TLAPS, WellFoundedInduction

-----------------------------------------------------------------------------
\* A set of naturals has a least element.
LEMMA LeastNatural ==
    ASSUME NEW T, T \subseteq Nat, T # {}
    PROVE  \E n \in T : \A m \in T : n <= m
<1>1. \E n \in T : \A m \in T : <<m, n>> \notin OpToRel(<, Nat)
  BY WFMin, NatLessThanWellFounded, Zenon
<1>2. PICK n \in T : \A m \in T : <<m, n>> \notin OpToRel(<, Nat)
  BY <1>1
<1>3. \A m \in T : ~(m < n)
  BY <1>2, Zenon DEF OpToRel
<1> QED
  BY <1>3

-----------------------------------------------------------------------------
(***************************************************************************)
(* Types.                                                                  *)
(***************************************************************************)

\* What a request looks like after each kind of change of its locals.
LEMMA RequestTypes ==
    ASSUME NEW q \in Request
    PROVE  /\ NoRequest \in Request
           /\ \A p \in {"upsert", "create", "drop"} : [q EXCEPT !.pc = p] \in Request
           /\ \A p \in {"repair", "purge", "prepare", "group"}, w \in SUBSET Ids :
                 [q EXCEPT !.pc = p, !.work = w] \in Request
           /\ \A f \in SUBSET Identity, b \in BOOLEAN :
                 [NoRequest EXCEPT !.pc = "find", !.file = f, !.replace = b] \in Request
           /\ \A p \in {"clear", "upsert"}, f \in SUBSET Identity, n \in Nat :
                 [q EXCEPT !.pc = p, !.file = f, !.stamp = n] \in Request
           /\ \A x \in Identity : [q EXCEPT !.pc = "insert", !.row = x] \in Request
           /\ \A x \in Identity :
                 [q EXCEPT !.pc = "upsert", !.file = q.file \ {x}, !.row = None] \in Request
<1> USE DEF Request, NoRequest
<1>1. NoRequest \in Request
  OBVIOUS
<1>2. \A p \in {"upsert", "create", "drop"} : [q EXCEPT !.pc = p] \in Request
  OBVIOUS
<1>3. \A p \in {"repair", "purge", "prepare", "group"}, w \in SUBSET Ids :
         [q EXCEPT !.pc = p, !.work = w] \in Request
  OBVIOUS
<1>4. \A f \in SUBSET Identity, b \in BOOLEAN :
         [NoRequest EXCEPT !.pc = "find", !.file = f, !.replace = b] \in Request
  OBVIOUS
<1>5. \A p \in {"clear", "upsert"}, f \in SUBSET Identity, n \in Nat :
         [q EXCEPT !.pc = p, !.file = f, !.stamp = n] \in Request
  OBVIOUS
<1>6. \A x \in Identity : [q EXCEPT !.pc = "insert", !.row = x] \in Request
  OBVIOUS
<1>7. \A x \in Identity :
         [q EXCEPT !.pc = "upsert", !.file = q.file \ {x}, !.row = None] \in Request
  OBVIOUS
<1> QED
  BY <1>1, <1>2, <1>3, <1>4, <1>5, <1>6, <1>7

\* A row and a stamp make a document, which is not None and has the row's
\* identity; so has a document whose number and floor are set.
LEMMA Documents ==
    /\ None \notin Unit
    /\ \A x \in Identity, n \in Nat :
          [no |-> x.no, floor |-> x.floor, stamp |-> n] \in Unit
    /\ \A d \in Unit, x \in Identity :
          /\ [d EXCEPT !.no = x.no, !.floor = x.floor] \in Unit
          /\ [d EXCEPT !.floor = 1] \in Unit
    /\ \A d \in Unit : IdentityOf(d) \in Identity /\ Final(d) \in Identity
BY UnitInventoryAssumption DEF Unit, Identity, Floors, IdentityOf, Final

\* Changing the locals of one request is a change of one request.
LEMMA OneRequest ==
    ASSUME NEW f \in [Reqs -> Request], NEW r \in Reqs, NEW q \in Request
    PROVE  /\ [f EXCEPT ![r] = q] \in [Reqs -> Request]
           /\ [f EXCEPT ![r] = q][r] = q
           /\ \A o \in Reqs \ {r} : [f EXCEPT ![r] = q][o] = f[o]
OBVIOUS

LEMMA InitType == ASSUME Init PROVE TypeOK
<1> USE UnitInventoryAssumption DEF Init
<1>1. unit \in [Ids -> Unit \cup {None}] /\ stored = {}
  BY DEF stored
<1>2. req \in [Reqs -> Request] /\ \A r \in Reqs : req[r] = NoRequest
  BY DEF Request, NoRequest
<1>3. last \in 0..MaxUnits
  OBVIOUS
<1>4. UNION {req[r].work : r \in Reqs} = {}
  BY <1>2 DEF NoRequest
<1>5. \A r \in Reqs : ~At(r, "insert")
  BY <1>2 DEF At, NoRequest
<1> QED
  BY <1>1, <1>2, <1>3, <1>4, <1>5 DEF TypeOK

\* A request whose locals can be where they are: no unused id, and a row of
\* its file to insert.
GoodRequest(q) ==
    /\ q \in Request
    /\ \A i \in q.work : i <= last
    /\ q.pc = "insert" => q.row \in q.file

LEMMA GoodRequests ==
    ASSUME TypeOK
    PROVE  /\ \A r \in Reqs : GoodRequest(req[r])
           /\ GoodRequest(NoRequest)
           /\ \A i \in stored : i <= last
           /\ stored \in SUBSET Ids
<1>1. ASSUME NEW r \in Reqs PROVE GoodRequest(req[r])
  BY DEF GoodRequest, TypeOK, At
<1>2. GoodRequest(NoRequest)
  BY RequestTypes DEF GoodRequest, NoRequest, Request
<1> QED
  BY <1>1, <1>2 DEF TypeOK, stored

\* A step of a request changes its own locals only, to good ones.
LEMMA LocalsStep ==
    ASSUME TypeOK, NEW r \in Reqs, ReqStep(r)
    PROVE  \E q : GoodRequest(q) /\ req' = [req EXCEPT ![r] = q]
<1> DEFINE Old == req[r]
<1>0. /\ GoodRequest(Old) /\ GoodRequest(NoRequest) /\ req \in [Reqs -> Request] /\ Old \in Request
      /\ stored \in SUBSET Ids /\ (\A i \in stored : i <= last) /\ clock + 1 \in Nat
  BY GoodRequests DEF TypeOK, GoodRequest
<1>1. CASE Leave(r)
  BY <1>0, <1>1 DEF Leave
<1>2. CASE Begin(r)
  <2>1. PICK f \in SUBSET Identity, b \in BOOLEAN :
           req' = [req EXCEPT ![r] = [NoRequest EXCEPT !.pc = "find", !.file = f, !.replace = b]]
    BY <1>2 DEF Begin
  <2> DEFINE q == [NoRequest EXCEPT !.pc = "find", !.file = f, !.replace = b]
  <2>2. q \in Request
    BY <1>0, RequestTypes
  <2>3. q.work = {} /\ q.pc = "find"
    BY DEF NoRequest
  <2> QED
    BY <2>1, <2>2, <2>3 DEF GoodRequest
<1>3. CASE \E p \in {"repair", "purge", "prepare", "group"}, w \in SUBSET stored :
              req' = [req EXCEPT ![r].pc = p, ![r].work = w]
  <2>1. PICK p \in {"repair", "purge", "prepare", "group"}, w \in SUBSET stored :
              req' = [req EXCEPT ![r].pc = p, ![r].work = w]
    BY <1>3
  <2> DEFINE q == [Old EXCEPT !.pc = p, !.work = w]
  <2>2. q \in Request
    BY <1>0, RequestTypes
  <2>3. q.work = w /\ q.pc = p
    BY <1>0 DEF Request
  <2>4. req' = [req EXCEPT ![r] = q]
    BY <2>1, <1>0
  <2> QED
    BY <1>0, <2>2, <2>3, <2>4 DEF GoodRequest
<1>4. CASE Go(r, "upsert") \/ Go(r, "create") \/ Go(r, "drop")
  <2>1. PICK p \in {"upsert", "create", "drop"} : Go(r, p)
    BY <1>4
  <2> DEFINE q == [Old EXCEPT !.pc = p]
  <2>2. q \in Request
    BY <1>0, RequestTypes
  <2>3. q.work = Old.work /\ q.pc = p
    BY <1>0 DEF Request
  <2>4. req' = [req EXCEPT ![r] = q]
    BY <2>1, <1>0 DEF Go
  <2> QED
    BY <1>0, <2>2, <2>3, <2>4 DEF GoodRequest
<1>5. CASE PrepareRows(r)
  <2>1. PICK f \in SUBSET req[r].file :
           \/ req' = [req EXCEPT ![r] = NoRequest]
           \/ req' = [req EXCEPT ![r] = [@ EXCEPT !.pc = "clear", !.file = f, !.stamp = clock + 1]]
           \/ req' = [req EXCEPT ![r] = [@ EXCEPT !.pc = "upsert", !.file = f, !.stamp = clock + 1]]
    BY <1>5 DEF PrepareRows, BeforeRows
  <2>2. f \in SUBSET Identity
    BY <1>0 DEF Request
  <2>3. ASSUME NEW p \in {"clear", "upsert"},
               req' = [req EXCEPT ![r] = [@ EXCEPT !.pc = p, !.file = f, !.stamp = clock + 1]]
        PROVE  \E q : GoodRequest(q) /\ req' = [req EXCEPT ![r] = q]
    <3> DEFINE q == [Old EXCEPT !.pc = p, !.file = f, !.stamp = clock + 1]
    <3>1. q \in Request
      BY <1>0, <2>2, RequestTypes
    <3>2. q.work = Old.work /\ q.pc = p
      BY <1>0 DEF Request
    <3> QED
      BY <1>0, <2>3, <3>1, <3>2 DEF GoodRequest
  <2> QED
    BY <1>0, <2>1, <2>3
<1>6. CASE MissRow(r)
  <2>1. PICK x \in req[r].file : req' = [req EXCEPT ![r].pc = "insert", ![r].row = x]
    BY <1>6 DEF MissRow
  <2> DEFINE q == [Old EXCEPT !.pc = "insert", !.row = x]
  <2>0. x \in Identity
    BY <1>0 DEF Request
  <2>2. q \in Request
    BY <1>0, <2>0, RequestTypes
  <2>3. q.work = Old.work /\ q.row = x /\ q.file = Old.file
    BY <1>0 DEF Request
  <2>4. req' = [req EXCEPT ![r] = q]
    BY <2>1, <1>0
  <2> QED
    BY <1>0, <2>2, <2>3, <2>4 DEF GoodRequest
<1>7. CASE \E x \in req[r].file : NextRow(r, x)
  <2>1. PICK x \in req[r].file :
           \/ Leave(r)
           \/ req' = [req EXCEPT ![r].pc = "upsert", ![r].file = @ \ {x}, ![r].row = None]
    BY <1>7 DEF NextRow
  <2> DEFINE q == [Old EXCEPT !.pc = "upsert", !.file = Old.file \ {x}, !.row = None]
  <2>0. x \in Identity
    BY <1>0 DEF Request
  <2>2. q \in Request
    BY <1>0, <2>0, RequestTypes
  <2>3. q.work = Old.work /\ q.pc = "upsert"
    BY <1>0 DEF Request
  <2>4. CASE req' = [req EXCEPT ![r].pc = "upsert", ![r].file = @ \ {x}, ![r].row = None]
    <3>1. req' = [req EXCEPT ![r] = q]
      BY <2>4, <1>0
    <3> QED
      BY <1>0, <2>2, <2>3, <3>1 DEF GoodRequest
  <2> QED
    BY <1>1, <2>1, <2>4
<1>8. FindFloors(r) \/ RepairFloors(r) \/ GroupCopies(r) =>
         \E p \in {"repair", "purge", "prepare", "group"}, w \in SUBSET stored :
            req' = [req EXCEPT ![r].pc = p, ![r].work = w]
  BY DEF FindFloors, RepairFloors, GroupCopies, Duplicates
<1>9. PurgeCopies(r) => Leave(r) \/ \E p \in {"repair", "purge", "prepare", "group"}, w \in SUBSET stored :
            req' = [req EXCEPT ![r].pc = p, ![r].work = w]
  BY DEF PurgeCopies
<1>10. UpdateRow(r) \/ InsertRow(r) => \E x \in req[r].file : NextRow(r, x)
  <2>1. InsertRow(r) => req[r].row \in req[r].file
    BY <1>0 DEF InsertRow, GoodRequest, At
  <2> QED
    BY <2>1 DEF UpdateRow, InsertRow
<1>11. ClearUnits(r) \/ BeginCreate(r) \/ DropProject(r) => Go(r, "upsert") \/ Go(r, "create") \/ Go(r, "drop")
  BY Zenon DEF ClearUnits, BeginCreate, DropProject
<1>12. Stop(r) \/ CreateUnit(r) \/ DropUnits(r) => Leave(r)
  BY DEF Stop, CreateUnit, DropUnits
<1>13. Begin(r) \/ FindFloors(r) \/ RepairFloors(r) \/ GroupCopies(r) \/ PurgeCopies(r)
         \/ PrepareRows(r) \/ MissRow(r) => \E q : GoodRequest(q) /\ req' = [req EXCEPT ![r] = q]
  BY <1>1, <1>2, <1>3, <1>5, <1>6, <1>8, <1>9
<1>14. ClearUnits(r) \/ UpdateRow(r) \/ InsertRow(r) \/ Stop(r) \/ BeginCreate(r) \/ CreateUnit(r)
         \/ DropProject(r) \/ DropUnits(r) => \E q : GoodRequest(q) /\ req' = [req EXCEPT ![r] = q]
  BY <1>1, <1>4, <1>7, <1>10, <1>11, <1>12
<1> QED
  BY <1>13, <1>14, Zenon DEF ReqStep

\* What a step does to the collection, request steps and user edits alike.
LEMMA UnitsStep ==
    ASSUME TypeOK, [Next]_vars
    PROVE  /\ unit' \in [Ids -> Unit \cup {None}]
           /\ last' \in 0..MaxUnits /\ last <= last' /\ clock' \in Nat
           /\ \A i \in stored' : i <= last'
<1> USE DEF Ids
<1>0. /\ unit \in [Ids -> Unit \cup {None}] /\ None \notin Unit /\ last \in 0..MaxUnits
      /\ clock \in Nat /\ MaxUnits \in Nat /\ \A i \in stored : i <= last
      /\ \A r \in Reqs : req[r] \in Request /\ req[r].stamp \in Nat
  <2>1. None \notin Unit
    BY Documents
  <2>2. \A r \in Reqs : req[r] \in Request /\ req[r].stamp \in Nat
    BY DEF TypeOK, Request
  <2> QED
    BY <2>1, <2>2, UnitInventoryAssumption DEF TypeOK
<1>1. CASE unit' = unit /\ last' = last /\ clock' \in Nat
  BY <1>0, <1>1 DEF stored
<1>2. CASE (\E gone : Remove(gone)) /\ last' = last /\ clock' = clock
  BY <1>0, <1>2 DEF stored, Remove
<1>3. CASE \E x \in Identity, n \in Nat : Insert(x, n) /\ clock' \in Nat
  <2>1. PICK x \in Identity, n \in Nat : Insert(x, n) /\ clock' \in Nat
    BY <1>3
  <2>2. [no |-> x.no, floor |-> x.floor, stamp |-> n] \in Unit
    BY Documents
  <2> QED
    BY <1>0, <2>1, <2>2 DEF stored, Insert
<1>4. CASE /\ last' = last /\ clock' = clock
           /\ \E i \in stored : \E d \in Unit : unit' = [unit EXCEPT ![i] = d]
  BY <1>0, <1>4 DEF stored
<1>5. ASSUME NEW r \in Reqs, RepairFloors(r) PROVE unit' \in [Ids -> Unit \cup {None}] /\ stored' = stored
  <2>1. ASSUME NEW i \in stored PROVE [unit[i] EXCEPT !.floor = 1] \in Unit
    BY <1>0, Documents, ZenonT(60) DEF stored
  <2>2. unit' = [i \in Ids |-> IF i \in req[r].work \cap stored
                              THEN [unit[i] EXCEPT !.floor = 1] ELSE unit[i]]
    BY <1>5 DEF RepairFloors
  <2>3. unit' \in [Ids -> Unit \cup {None}]
    BY <1>0, <2>1, <2>2
  <2>4. \A i \in Ids : (unit'[i] = None) <=> (unit[i] = None)
    BY <1>0, <2>1, <2>2 DEF stored
  <2> QED
    BY <2>3, <2>4 DEF stored
<1>6. ASSUME NEW r \in Reqs, ReqStep(r), ~RepairFloors(r)
      PROVE  \/ unit' = unit /\ last' = last /\ clock' \in Nat
             \/ (\E gone : Remove(gone)) /\ last' = last /\ clock' = clock
             \/ \E x \in Identity, n \in Nat : Insert(x, n) /\ clock' \in Nat
             \/ /\ last' = last /\ clock' = clock
                /\ \E i \in stored : \E d \in Unit : unit' = [unit EXCEPT ![i] = d]
  <2>0. clock + 1 \in Nat
    BY <1>0
  <2>1. Begin(r) \/ FindFloors(r) \/ GroupCopies(r) \/ PrepareRows(r) \/ MissRow(r) \/ Stop(r)
          \/ BeginCreate(r) \/ DropProject(r) => unit' = unit /\ last' = last /\ clock' \in Nat
    BY <1>0, <2>0 DEF Begin, FindFloors, GroupCopies, PrepareRows, MissRow, Stop, BeginCreate, DropProject
  <2>2. PurgeCopies(r) \/ ClearUnits(r) \/ DropUnits(r) =>
          (\E gone : Remove(gone)) /\ last' = last /\ clock' = clock
    BY DEF PurgeCopies, ClearUnits, DropUnits
  <2>3. CreateUnit(r) => \E x \in Identity, n \in Nat : Insert(x, n) /\ clock' \in Nat
    BY <2>0 DEF CreateUnit
  <2>4. InsertRow(r) => \E x \in Identity, n \in Nat : Insert(x, n) /\ clock' \in Nat
    <3>1. InsertRow(r) => req[r].row \in Identity
      BY <1>0 DEF InsertRow, TypeOK, At, Request
    <3>2. InsertRow(r) => Insert(req[r].row, req[r].stamp) /\ clock' \in Nat
      BY <1>0 DEF InsertRow
    <3> QED
      BY <1>0, <3>1, <3>2
  <2>5. UpdateRow(r) => /\ last' = last /\ clock' = clock
                        /\ \E i \in stored : \E d \in Unit : unit' = [unit EXCEPT ![i] = d]
    <3>1. SUFFICES ASSUME UpdateRow(r)
                   PROVE  \E i \in stored : \E d \in Unit : unit' = [unit EXCEPT ![i] = d]
      BY DEF UpdateRow
    <3>2. PICK x \in req[r].file, i \in stored :
             unit' = [unit EXCEPT ![i] = [no |-> x.no, floor |-> x.floor, stamp |-> req[r].stamp]]
      BY <3>1 DEF UpdateRow
    <3>3. x \in Identity
      BY <1>0 DEF Request
    <3> QED
      BY <1>0, <3>2, <3>3, Documents
  <2> QED
    BY <1>6, <2>1, <2>2, <2>3, <2>4, <2>5 DEF ReqStep
<1>7. ASSUME NEW i \in Ids, EditUnit(i)
      PROVE  /\ last' = last /\ clock' = clock
             /\ \E j \in stored : \E d \in Unit : unit' = [unit EXCEPT ![j] = d]
  <2>1. PICK x \in Identity : unit' = [unit EXCEPT ![i] = [@ EXCEPT !.no = x.no, !.floor = x.floor]]
    BY <1>7 DEF EditUnit
  <2>2. i \in stored /\ unit[i] \in Unit
    BY <1>0, <1>7 DEF EditUnit, stored
  <2>3. [unit[i] EXCEPT !.no = x.no, !.floor = x.floor] \in Unit
    BY <2>2, Documents
  <2> QED
    BY <1>7, <2>1, <2>2, <2>3 DEF EditUnit
<1>8. ASSUME NEW i \in Ids, DeleteUnit(i) PROVE (\E gone : Remove(gone)) /\ last' = last /\ clock' = clock
  BY <1>8 DEF DeleteUnit
<1>9. ASSUME NEW r \in Reqs, RepairFloors(r) PROVE last' = last /\ clock' = clock
  BY <1>9 DEF RepairFloors
<1>10. CASE UNCHANGED vars
  BY <1>0, <1>1, <1>10 DEF vars
<1>11. CASE Next
  <2>1. CASE \E i \in Ids : EditUnit(i) \/ DeleteUnit(i)
    BY <1>2, <1>4, <1>7, <1>8, <2>1
  <2>2. ASSUME NEW r \in Reqs, ReqStep(r), ~RepairFloors(r)
        PROVE  /\ unit' \in [Ids -> Unit \cup {None}]
               /\ last' \in 0..MaxUnits /\ last <= last' /\ clock' \in Nat
               /\ \A i \in stored' : i <= last'
    BY <1>1, <1>2, <1>3, <1>4, <1>6, <2>2
  <2>3. ASSUME NEW r \in Reqs, RepairFloors(r)
        PROVE  /\ unit' \in [Ids -> Unit \cup {None}]
               /\ last' \in 0..MaxUnits /\ last <= last' /\ clock' \in Nat
               /\ \A i \in stored' : i <= last'
    BY <1>0, <1>5, <1>9, <2>3
  <2> QED
    BY <1>11, <2>1, <2>2, <2>3 DEF Next
<1> QED
  BY <1>10, <1>11

LEMMA NextType == ASSUME TypeOK, [Next]_vars PROVE TypeOK'
<1>1. /\ req' \in [Reqs -> Request]
      /\ \A r \in Reqs : \A i \in req'[r].work : i <= last
      /\ \A r \in Reqs : At(r, "insert")' => req'[r].row \in req'[r].file
  <2>1. CASE req' = req
    BY <2>1 DEF TypeOK, At
  <2>2. ASSUME NEW r \in Reqs, NEW q, GoodRequest(q), req' = [req EXCEPT ![r] = q]
        PROVE  /\ req' \in [Reqs -> Request]
               /\ \A o \in Reqs : \A i \in req'[o].work : i <= last
               /\ \A o \in Reqs : At(o, "insert")' => req'[o].row \in req'[o].file
    BY <2>2, GoodRequests, OneRequest DEF GoodRequest, TypeOK, At
  <2>3. req' = req \/ \E r \in Reqs : ReqStep(r)
    BY DEF Next, vars, EditUnit, DeleteUnit
  <2> QED
    BY <2>1, <2>2, <2>3, LocalsStep
<1>2. /\ unit' \in [Ids -> Unit \cup {None}]
      /\ last' \in 0..MaxUnits /\ last <= last' /\ clock' \in Nat
      /\ \A i \in stored' : i <= last'
  BY UnitsStep
<1>3. \A i \in UNION {req'[r].work : r \in Reqs} : i <= last'
  <2>1. \A r \in Reqs : req'[r].work \in SUBSET Ids
    BY <1>1 DEF Request
  <2>2. ASSUME NEW r \in Reqs, NEW i \in req'[r].work PROVE i <= last'
    <3>1. i \in 1..MaxUnits /\ last \in 0..MaxUnits /\ MaxUnits \in Nat
      BY <2>1, <2>2, UnitInventoryAssumption DEF Ids, TypeOK
    <3>2. i <= last
      BY <1>1, <2>2
    <3> QED
      BY <1>2, <3>1, <3>2
  <2> QED
    BY <2>2
<1>4. (UNCHANGED disturbed \/ \E C \in SUBSET stored : Disturb(C)) => disturbed' \subseteq Identity
  <2>1. SUFFICES ASSUME NEW C \in SUBSET stored, Disturb(C) PROVE disturbed' \subseteq Identity
    BY DEF TypeOK
  <2>2. /\ \A i \in stored : Final(unit[i]) \in Identity
        /\ \A i \in stored' : Final(unit'[i]) \in Identity
    BY <1>2, Documents DEF stored, TypeOK
  <2> QED
    BY <2>1, <2>2 DEF Disturb, TypeOK
<1>5. /\ UNCHANGED disturbed \/ \E C \in SUBSET stored : Disturb(C)
      /\ UNCHANGED twinned \/ twinned' \subseteq Identity
  <2>0. twinned \subseteq Identity /\ \A r \in Reqs : At(r, "insert") => req[r].row \in Identity
    BY DEF TypeOK, At, Request
  <2>1. ASSUME NEW i \in Ids, EditUnit(i) \/ DeleteUnit(i)
        PROVE  Disturb({i}) /\ {i} \in SUBSET stored /\ (UNCHANGED twinned \/ Put)
    BY <2>1 DEF EditUnit, DeleteUnit
  <2>2. ASSUME NEW r \in Reqs, UpdateRow(r)
        PROVE  (\E i \in stored : Disturb({i})) /\ UNCHANGED twinned
    BY <2>2 DEF UpdateRow
  <2>3. ASSUME NEW r \in Reqs, RepairFloors(r) \/ ClearUnits(r) \/ DropUnits(r)
        PROVE  (\E C \in SUBSET stored : Disturb(C)) /\ (UNCHANGED twinned \/ Put)
    BY <2>3 DEF RepairFloors, ClearUnits, DropUnits
  <2>4. ASSUME NEW r \in Reqs, InsertRow(r) PROVE UNCHANGED disturbed /\ twinned' \subseteq Identity
    BY <2>0, <2>4 DEF InsertRow
  <2>5. ASSUME NEW r \in Reqs, CreateUnit(r) PROVE UNCHANGED disturbed /\ Put
    BY <2>5 DEF CreateUnit
  <2>6. ASSUME NEW r \in Reqs,
               Begin(r) \/ FindFloors(r) \/ GroupCopies(r) \/ PurgeCopies(r) \/ PrepareRows(r)
                 \/ MissRow(r) \/ Stop(r) \/ BeginCreate(r) \/ DropProject(r)
        PROVE  UNCHANGED <<disturbed, twinned>>
    BY <2>6 DEF Begin, FindFloors, GroupCopies, PurgeCopies, PrepareRows, MissRow, Stop,
                BeginCreate, DropProject, obsVars
  <2>7. Put => twinned' \subseteq Identity
    BY <2>0 DEF Put
  <2>8. CASE UNCHANGED vars
    BY <2>8 DEF vars, obsVars
  <2> QED
    BY <2>1, <2>2, <2>3, <2>4, <2>5, <2>6, <2>7, <2>8 DEF Next, ReqStep
<1>6. /\ project' \in BOOLEAN /\ late' \in BOOLEAN
      /\ emptied' \in {"no", "clearing", "stopped"}
      /\ starts' \in Nat /\ edits' \in Nat /\ stops' \in Nat
  <2>0. /\ project \in BOOLEAN /\ late \in BOOLEAN
        /\ emptied \in {"no", "clearing", "stopped"}
        /\ starts \in Nat /\ edits \in Nat /\ stops \in Nat
        /\ starts + 1 \in Nat /\ edits + 1 \in Nat
    BY DEF TypeOK
  <2>1. ASSUME NEW i \in Ids, EditUnit(i) \/ DeleteUnit(i)
        PROVE  edits' \in Nat /\ UNCHANGED <<project, late, emptied, starts, stops>>
    BY <2>0, <2>1, Zenon DEF EditUnit, DeleteUnit
  <2>2. ASSUME NEW r \in Reqs, Begin(r) \/ BeginCreate(r)
        PROVE  starts' \in Nat /\ UNCHANGED <<project, late, emptied, edits, stops>>
    BY <2>0, <2>2, Zenon DEF Begin, BeginCreate, obsVars
  <2>3. ASSUME NEW r \in Reqs, DropProject(r)
        PROVE  starts' \in Nat /\ project' \in BOOLEAN /\ late' \in BOOLEAN /\ UNCHANGED <<emptied, edits, stops>>
    BY <2>0, <2>3, Zenon DEF DropProject
  <2>4. ASSUME NEW r \in Reqs, Stop(r)
        PROVE  /\ stops' \in Nat /\ late' \in BOOLEAN /\ emptied' \in {"no", "clearing", "stopped"}
               /\ UNCHANGED <<project, starts, edits>>
    BY <2>0, <2>4 DEF Stop, At
  <2>5. ASSUME NEW r \in Reqs,
               FindFloors(r) \/ RepairFloors(r) \/ GroupCopies(r) \/ PurgeCopies(r) \/ PrepareRows(r)
                 \/ UpdateRow(r) \/ MissRow(r) \/ DropUnits(r)
        PROVE  UNCHANGED <<project, late, emptied, starts, edits, stops>>
    BY <2>5 DEF FindFloors, RepairFloors, GroupCopies, PurgeCopies, PrepareRows,
                UpdateRow, MissRow, DropUnits, obsVars, bounds
  <2>6. ASSUME NEW r \in Reqs, ClearUnits(r) \/ InsertRow(r) \/ CreateUnit(r)
        PROVE  emptied' \in {"no", "clearing"} /\ UNCHANGED <<project, late, starts, edits, stops>>
    BY <2>6 DEF ClearUnits, InsertRow, CreateUnit, Insert, bounds
  <2>7. CASE UNCHANGED vars
    BY <2>0, <2>7 DEF vars, obsVars, bounds
  <2> QED
    BY <2>0, <2>1, <2>2, <2>3, <2>4, <2>5, <2>6, <2>7 DEF Next, ReqStep
<1>7. disturbed' \subseteq Identity /\ twinned' \subseteq Identity
  BY <1>4, <1>5 DEF TypeOK
<1>8. \A i \in stored' \cup UNION {req'[r].work : r \in Reqs} : i <= last'
  BY <1>2, <1>3
<1>9. \A r \in Reqs : At(r, "insert")' => req'[r].row \in req'[r].file
  BY <1>1
<1> QED
  BY <1>1, <1>2, <1>6, <1>7, <1>8, <1>9 DEF TypeOK

\* TypeOK: documents and locals keep their types.
THEOREM TypeCorrect == Spec => []TypeOK
<1> QED
  BY InitType, NextType, PTL DEF Spec

-----------------------------------------------------------------------------
(***************************************************************************)
(* Copies about to be deleted have a newer one that stays.                 *)
(***************************************************************************)

\* The ids in the hands of requests about to delete.
Works == UNION {req[r].work : r \in {q \in Reqs : At(q, "purge")}}

\* Where each step leads.
LEMMA PcStep ==
    ASSUME TypeOK, NEW r \in Reqs, ReqStep(r)
    PROVE  /\ \A o \in Reqs \ {r} : req'[o] = req[o]
           /\ Begin(r) => req'[r].pc = "find"
           /\ GroupCopies(r) => req'[r].pc = "purge" /\ req'[r].work = Duplicates
           /\ MissRow(r) => req'[r].pc = "insert" /\ req'[r].row \in req[r].file
                              /\ \A i \in stored : ~Matches(i, req'[r].row)
           /\ FindFloors(r) \/ RepairFloors(r) => req'[r].pc \in {"repair", "group"}
           /\ PurgeCopies(r) => req'[r].pc \in {"idle", "prepare"}
           /\ PrepareRows(r) => req'[r].pc \in {"idle", "clear", "upsert"}
           /\ ClearUnits(r) => req'[r].pc = "upsert"
           /\ BeginCreate(r) => req'[r].pc = "create"
           /\ DropProject(r) => req'[r].pc = "drop"
           /\ UpdateRow(r) \/ InsertRow(r) => req'[r].pc \in {"idle", "upsert"}
           /\ Stop(r) \/ CreateUnit(r) \/ DropUnits(r) => req'[r] = NoRequest
<1>0. PICK q : GoodRequest(q) /\ req' = [req EXCEPT ![r] = q]
  BY LocalsStep
<1>1. req \in [Reqs -> Request] /\ req[r] \in Request /\ \A o \in Reqs \ {r} : req'[o] = req[o]
  BY <1>0 DEF TypeOK
<1>2. NoRequest.pc = "idle" /\ (Leave(r) => req'[r] = NoRequest)
  BY <1>1 DEF NoRequest, Leave
<1>3. Begin(r) => req'[r].pc = "find"
  <2>1. SUFFICES ASSUME NEW f, NEW b,
                        req' = [req EXCEPT ![r] = [NoRequest EXCEPT !.pc = "find", !.file = f,
                                                                    !.replace = b]]
                 PROVE req'[r].pc = "find"
    BY DEF Begin
  <2> QED
    BY <1>1, <2>1 DEF NoRequest
<1>4. GroupCopies(r) => req'[r].pc = "purge" /\ req'[r].work = Duplicates
  BY <1>1 DEF GroupCopies, Request
<1>5. MissRow(r) => req'[r].pc = "insert" /\ req'[r].row \in req[r].file
                      /\ \A i \in stored : ~Matches(i, req'[r].row)
  <2>1. SUFFICES ASSUME NEW x \in req[r].file, \A i \in stored : ~Matches(i, x),
                        req' = [req EXCEPT ![r].pc = "insert", ![r].row = x]
                 PROVE  req'[r].pc = "insert" /\ req'[r].row = x
    BY DEF MissRow
  <2> QED
    BY <1>1, <2>1 DEF Request
<1>6. FindFloors(r) \/ RepairFloors(r) => req'[r].pc \in {"repair", "group"}
  BY <1>1 DEF FindFloors, RepairFloors, Request
<1>7. PurgeCopies(r) => req'[r].pc \in {"idle", "prepare"}
  BY <1>1, <1>2 DEF PurgeCopies, Request
<1>8. PrepareRows(r) => req'[r].pc \in {"idle", "clear", "upsert"}
  BY <1>1, <1>2 DEF PrepareRows, BeforeRows, Request
<1>9. \A p : Go(r, p) => req'[r].pc = p
  BY <1>1 DEF Go, Request
<1>10. /\ ClearUnits(r) => req'[r].pc = "upsert"
       /\ BeginCreate(r) => req'[r].pc = "create"
       /\ DropProject(r) => req'[r].pc = "drop"
  BY <1>9, Zenon DEF ClearUnits, BeginCreate, DropProject
<1>11. \A x : NextRow(r, x) => req'[r].pc \in {"idle", "upsert"}
  BY <1>1, <1>2 DEF NextRow, Request
<1>12. UpdateRow(r) \/ InsertRow(r) => req'[r].pc \in {"idle", "upsert"}
  BY <1>11, Zenon DEF UpdateRow, InsertRow
<1>13. Stop(r) \/ CreateUnit(r) \/ DropUnits(r) => req'[r] = NoRequest
  BY <1>2 DEF Stop, CreateUnit, DropUnits
<1> QED
  BY <1>1, <1>3, <1>4, <1>5, <1>6, <1>7, <1>8, <1>10, <1>12, <1>13

\* Only GroupCopies brings ids to delete.
LEMMA WorksStep ==
    ASSUME TypeOK, NEW r \in Reqs, ReqStep(r)
    PROVE  /\ GroupCopies(r) => Works' = Works \cup Duplicates
           /\ ~GroupCopies(r) => Works' \subseteq Works
           /\ ~GroupCopies(r) /\ ~At(r, "purge") => Works' = Works
           /\ PurgeCopies(r) => req[r].work \subseteq Works
<1>1. \A o \in Reqs \ {r} : req'[o] = req[o] /\ (At(o, "purge")' <=> At(o, "purge"))
  BY PcStep DEF At
<1>2. ~GroupCopies(r) => ~At(r, "purge")'
  BY PcStep DEF At, ReqStep, NoRequest
<1>4. ASSUME GroupCopies(r) PROVE At(r, "purge")' /\ req'[r].work = Duplicates /\ ~At(r, "purge")
  BY <1>4, PcStep DEF GroupCopies, At
<1>5. GroupCopies(r) => Works' = Works \cup Duplicates
  <2>1. SUFFICES ASSUME GroupCopies(r) PROVE Works' = Works \cup Duplicates
    OBVIOUS
  <2>2. ASSUME NEW i PROVE i \in Works' <=> i \in Works \/ i \in Duplicates
    BY <1>1, <1>4, <2>1 DEF Works
  <2> QED
    BY <2>2
<1>6. ~GroupCopies(r) => Works' \subseteq Works
  BY <1>1, <1>2 DEF Works
<1>7. ~GroupCopies(r) /\ ~At(r, "purge") => Works \subseteq Works'
  BY <1>1 DEF Works
<1>8. PurgeCopies(r) => req[r].work \subseteq Works
  BY DEF PurgeCopies, Works
<1> QED
  BY <1>5, <1>6, <1>7, <1>8

\* No document and no prepared row is from the future.
StampsPast ==
    /\ \A i \in stored : unit[i].stamp <= clock
    /\ \A r \in Reqs : req[r].stamp <= clock

\* Among the copies of a unit one is newer than all others.
LEMMA NewestCopy ==
    ASSUME TypeOK, StampsPast, NEW x, NEW i0 \in stored, Final(unit[i0]) = x
    PROVE  \E k \in stored : /\ Final(unit[k]) = x
                             /\ \A j \in stored : Final(unit[j]) = x => j = k \/ Newer(k, j)
<1>0. /\ clock \in Nat /\ MaxUnits \in Nat /\ stored \subseteq 1..MaxUnits
      /\ \A j \in stored : unit[j].stamp \in Nat /\ unit[j].stamp <= clock
  BY UnitInventoryAssumption DEF TypeOK, StampsPast, stored, Ids, Unit
<1> DEFINE S == {j \in stored : Final(unit[j]) = x}
           T == {clock - unit[j].stamp : j \in S}
<1>1. T \subseteq Nat /\ T # {}
  <2>1. \A j \in S : clock - unit[j].stamp \in Nat
    BY <1>0
  <2>2. i0 \in S
    OBVIOUS
  <2> QED
    BY <2>1, <2>2
<1>2. PICK n \in T : \A m \in T : n <= m
  BY <1>1, LeastNatural
<1>3. PICK j1 \in S : n = clock - unit[j1].stamp
  BY <1>2
<1>4. \A j \in S : unit[j].stamp <= unit[j1].stamp
  <2>1. ASSUME NEW j \in S PROVE unit[j].stamp <= unit[j1].stamp
    <3>1. n <= clock - unit[j].stamp
      BY <1>2
    <3> QED
      BY <1>0, <1>3, <3>1
  <2> QED
    BY <2>1
<1> DEFINE S2 == {j \in S : unit[j].stamp = unit[j1].stamp}
           T2 == {MaxUnits - j : j \in S2}
<1>5. T2 \subseteq Nat /\ T2 # {}
  BY <1>0
<1>6. PICK n2 \in T2 : \A m \in T2 : n2 <= m
  BY <1>5, LeastNatural
<1>7. PICK k \in S2 : n2 = MaxUnits - k
  BY <1>6
<1>8. ASSUME NEW j \in S PROVE j = k \/ Newer(k, j)
  <2>1. CASE j \in S2
    <3>1. n2 <= MaxUnits - j
      BY <1>6, <2>1
    <3> QED
      BY <1>0, <1>7, <2>1, <3>1 DEF Newer
  <2>2. CASE j \notin S2
    BY <1>0, <1>4, <1>7, <2>2 DEF Newer
  <2> QED
    BY <2>1, <2>2
<1> QED
  BY <1>7, <1>8

LEMMA StampStep == ASSUME TypeOK, StampsPast, [Next]_vars PROVE StampsPast'
<1>0. /\ clock \in Nat /\ last \in 0..MaxUnits /\ unit \in [Ids -> Unit \cup {None}]
      /\ \A i \in stored : unit[i] \in Unit /\ unit[i].stamp \in Nat /\ unit[i].stamp <= clock
      /\ \A r \in Reqs : req[r] \in Request /\ req[r].stamp \in Nat /\ req[r].stamp <= clock
  BY DEF TypeOK, StampsPast, stored, Unit, Request
<1>1. CASE UNCHANGED vars
  BY <1>1 DEF vars, StampsPast, stored
<1>2. ASSUME NEW r \in Reqs, ReqStep(r)
      PROVE  clock' \in Nat /\ clock <= clock' /\ \A o \in Reqs : req'[o].stamp <= clock'
  <2>0. PICK q : GoodRequest(q) /\ req' = [req EXCEPT ![r] = q]
    BY <1>2, LocalsStep
  <2>1. req \in [Reqs -> Request] /\ \A o \in Reqs \ {r} : req'[o] = req[o]
    BY <2>0 DEF TypeOK
  <2>2. clock' \in Nat /\ clock <= clock'
    <3>1. clock + 1 \in Nat /\ clock <= clock + 1 /\ clock <= clock
      BY <1>0
    <3>2. PrepareRows(r) \/ CreateUnit(r) => clock' = clock + 1
      BY DEF PrepareRows, CreateUnit
    <3>3. ~PrepareRows(r) /\ ~CreateUnit(r) => clock' = clock
      BY <1>2 DEF ReqStep, Begin, FindFloors, RepairFloors, GroupCopies, PurgeCopies, ClearUnits, UpdateRow,
             MissRow, InsertRow, Stop, BeginCreate, DropProject, DropUnits
    <3> QED
      BY <1>0, <3>1, <3>2, <3>3
  <2>3. req'[r].stamp \in {0, req[r].stamp, clock'}
    <3>1. NoRequest.stamp = 0 /\ (Leave(r) => req'[r] = NoRequest)
      BY <2>1 DEF NoRequest, Leave
    <3>2. Begin(r) => req'[r].stamp = 0
      <4>1. SUFFICES ASSUME NEW f, NEW b,
                            req' = [req EXCEPT ![r] = [NoRequest EXCEPT !.pc = "find", !.file = f,
                                                                        !.replace = b]]
                     PROVE req'[r].stamp = 0
        BY DEF Begin
      <4> QED
        BY <2>1, <4>1 DEF NoRequest
    <3>3. FindFloors(r) \/ RepairFloors(r) \/ MissRow(r) \/ GroupCopies(r) => req'[r].stamp = req[r].stamp
      BY <2>1, <1>0 DEF FindFloors, RepairFloors, MissRow, GroupCopies, Request
    <3>4. PurgeCopies(r) => req'[r].stamp \in {0, req[r].stamp}
      BY <2>1, <1>0, <3>1 DEF PurgeCopies, Request
    <3>5. PrepareRows(r) => req'[r].stamp \in {0, clock'}
      BY <2>1, <1>0, <3>1 DEF PrepareRows, Request
    <3>6. (\E p : Go(r, p)) => req'[r].stamp = req[r].stamp
      BY <2>1, <1>0 DEF Go, Request
    <3>7. (\E x : NextRow(r, x)) => req'[r].stamp \in {0, req[r].stamp}
      BY <2>1, <1>0, <3>1 DEF NextRow, Request
    <3>8. /\ ClearUnits(r) \/ BeginCreate(r) \/ DropProject(r) => \E p : Go(r, p)
          /\ UpdateRow(r) \/ InsertRow(r) => \E x : NextRow(r, x)
          /\ Stop(r) \/ CreateUnit(r) \/ DropUnits(r) => Leave(r)
      BY Zenon DEF ClearUnits, BeginCreate, DropProject, UpdateRow, InsertRow, Stop, CreateUnit, DropUnits
    <3> QED
      BY <1>2, <3>1, <3>2, <3>3, <3>4, <3>5, <3>6, <3>7, <3>8 DEF ReqStep
  <2> QED
    BY <1>0, <2>1, <2>2, <2>3
<1>3. ASSUME NEW i \in Ids, EditUnit(i) \/ DeleteUnit(i) PROVE clock' = clock /\ req' = req
  BY <1>3 DEF EditUnit, DeleteUnit
<1>4. CASE Next
  <2>1. clock' \in Nat /\ clock <= clock' /\ \A o \in Reqs : req'[o].stamp <= clock'
    BY <1>0, <1>2, <1>3, <1>4 DEF Next
  <2>2. (UNCHANGED unit \/ \E gone : Remove(gone)) => \A i \in stored' : unit'[i].stamp <= clock'
    <3>1. (UNCHANGED unit \/ \E gone : Remove(gone)) => \A i \in stored' : i \in stored /\ unit'[i] = unit[i]
      BY <1>0 DEF Remove, stored
    <3> QED
      BY <1>0, <2>1, <3>1
  <2>3. ASSUME NEW x, NEW n \in Nat, n <= clock', Insert(x, n)
        PROVE  \A i \in stored' : unit'[i].stamp <= clock'
    <3>1. \A i \in stored' : i \in stored \/ i = last + 1
      BY <1>0, <2>3 DEF Insert, stored
    <3>2. \A i \in stored : i # last + 1 => unit'[i] = unit[i]
      BY <1>0, <2>3 DEF Insert, stored
    <3>3. last + 1 \in Ids => unit'[last + 1].stamp = n
      BY <1>0, <2>3 DEF Insert
    <3> QED
      BY <1>0, <2>1, <2>3, <3>1, <3>2, <3>3 DEF stored
  <2>4. ASSUME NEW r \in Reqs, UpdateRow(r) PROVE \A i \in stored' : unit'[i].stamp <= clock'
    <3>1. PICK x \in req[r].file, i \in stored :
             unit' = [unit EXCEPT ![i] = [no |-> x.no, floor |-> x.floor, stamp |-> req[r].stamp]]
      BY <2>4 DEF UpdateRow
    <3>2. \A j \in stored' : j \in stored /\ (j # i => unit'[j] = unit[j])
      BY <1>0, <3>1 DEF stored
    <3>3. unit'[i].stamp = req[r].stamp
      BY <1>0, <3>1 DEF stored
    <3> QED
      BY <1>0, <2>1, <3>2, <3>3
  <2>5. ASSUME NEW r \in Reqs, RepairFloors(r) PROVE \A i \in stored' : unit'[i].stamp <= clock'
    <3>1. unit' = [i \in Ids |-> IF i \in req[r].work \cap stored
                              THEN [unit[i] EXCEPT !.floor = 1] ELSE unit[i]]
      BY <2>5 DEF RepairFloors
    <3>2. \A i \in stored : [unit[i] EXCEPT !.floor = 1].stamp = unit[i].stamp
      BY <1>0 DEF Unit
    <3>3. \A i \in stored' : i \in stored /\ unit'[i].stamp = unit[i].stamp
      BY <1>0, <3>1, <3>2 DEF stored
    <3> QED
      BY <1>0, <2>1, <3>3
  <2>6. ASSUME NEW i \in Ids, EditUnit(i) PROVE \A j \in stored' : unit'[j].stamp <= clock'
    <3>1. PICK x \in Identity : unit' = [unit EXCEPT ![i] = [@ EXCEPT !.no = x.no, !.floor = x.floor]]
      BY <2>6 DEF EditUnit
    <3>2. i \in stored /\ [unit[i] EXCEPT !.no = x.no, !.floor = x.floor].stamp = unit[i].stamp
      BY <1>0, <2>6 DEF EditUnit, Unit
    <3>3. \A j \in stored' : j \in stored /\ unit'[j].stamp = unit[j].stamp
      BY <1>0, <3>1, <3>2 DEF stored
    <3> QED
      BY <1>0, <2>1, <3>3
  <2>7. ASSUME NEW r \in Reqs, InsertRow(r) PROVE \A i \in stored' : unit'[i].stamp <= clock'
    <3>1. Insert(req[r].row, req[r].stamp) /\ clock' = clock
      BY <2>7 DEF InsertRow
    <3> QED
      BY <1>0, <2>3, <3>1
  <2>8. ASSUME NEW r \in Reqs, CreateUnit(r) PROVE \A i \in stored' : unit'[i].stamp <= clock'
    <3>1. PICK x \in Identity : Insert(x, clock + 1) /\ clock' = clock + 1
      BY <2>8 DEF CreateUnit
    <3> QED
      BY <1>0, <2>3, <3>1
  <2>9. ASSUME NEW r \in Reqs, ReqStep(r), ~UpdateRow(r), ~RepairFloors(r), ~InsertRow(r), ~CreateUnit(r)
        PROVE  UNCHANGED unit \/ \E gone : Remove(gone)
    BY <2>9 DEF ReqStep, Begin, FindFloors, GroupCopies, PurgeCopies, PrepareRows, ClearUnits,
           MissRow, Stop, BeginCreate, DropProject, DropUnits
  <2>10. \A i \in Ids : DeleteUnit(i) => \E gone : Remove(gone)
    BY DEF DeleteUnit
  <2>11. \A i \in stored' : unit'[i].stamp <= clock'
    BY <1>4, <2>2, <2>4, <2>5, <2>6, <2>7, <2>8, <2>9, <2>10 DEF Next
  <2> QED
    BY <2>1, <2>11 DEF StampsPast
<1> QED
  BY <1>1, <1>4

\* A step that brings nothing to delete and leaves documents as they are, but
\* for those it removes that are to be deleted, those it adds, and those it
\* reports to Disturb, keeps the keepers.
LEMMA KeepersStay ==
    ASSUME TypeOK, DoomedHasKeeper, NEW C,
           Works' \subseteq Works,
           Works' \cap stored' \subseteq stored,
           \A i \in stored \ C : i \in stored' \/ i \in Works,
           \A i \in (stored \cap stored') \ C :
              Final(unit'[i]) = Final(unit[i]) /\ unit'[i].stamp = unit[i].stamp,
           Disturb(C) \/ (C = {} /\ disturbed' = disturbed)
    PROVE  DoomedHasKeeper'
<1>1. SUFFICES ASSUME NEW i \in Doomed', Final(unit'[i]) \notin disturbed'
               PROVE  \E j \in stored' \ Doomed' :
                         /\ Final(unit'[j]) = Final(unit'[i])
                         /\ \/ unit'[j].stamp > unit'[i].stamp
                            \/ unit'[j].stamp = unit'[i].stamp /\ j > i
  BY DEF DoomedHasKeeper, Twins, Newer
<1>2. /\ Doomed = Works \cap stored /\ Doomed' = Works' \cap stored'
      /\ i \in Works /\ i \in stored /\ i \in stored' /\ i \in Doomed
  BY <1>1 DEF Doomed, Works
<1>3. i \notin C
  BY <1>1, <1>2 DEF Disturb, DoomedUnits
<1>4. Final(unit'[i]) = Final(unit[i]) /\ unit'[i].stamp = unit[i].stamp
  BY <1>2, <1>3
<1>5. Final(unit[i]) \notin disturbed
  BY <1>1, <1>4 DEF Disturb
<1>6. PICK j \in stored \ Doomed : Twins(i, j) /\ Newer(j, i)
  BY <1>2, <1>5 DEF DoomedHasKeeper
<1>7. j \notin C
  <2>1. Final(unit[j]) \in DoomedUnits /\ Final(unit[j]) = Final(unit'[i])
    BY <1>2, <1>4, <1>6 DEF DoomedUnits, Twins
  <2> QED
    BY <1>1, <1>6, <2>1 DEF Disturb
<1>8. j \in stored' \ Doomed' /\ Final(unit'[j]) = Final(unit[j]) /\ unit'[j].stamp = unit[j].stamp
  BY <1>2, <1>6, <1>7
<1> QED
  BY <1>4, <1>6, <1>8 DEF Twins, Newer

LEMMA KeeperStep == ASSUME TypeOK, StampsPast, DoomedHasKeeper, [Next]_vars PROVE DoomedHasKeeper'
<1>0. /\ unit \in [Ids -> Unit \cup {None}] /\ last \in 0..MaxUnits /\ stored \subseteq Ids
      /\ \A i \in stored : unit[i] \in Unit
      /\ \A i \in Works : i <= last
  BY DEF TypeOK, stored, Works
<1>1. CASE UNCHANGED <<unit, disturbed>> /\ Works' \subseteq Works
  <2>1. stored' = stored
    BY <1>1 DEF stored
  <2> QED
    BY <1>1, <2>1, KeepersStay
<1>2. CASE UNCHANGED vars
  BY <1>1, <1>2 DEF vars, obsVars, Works, At
<1>3. ASSUME NEW r \in Reqs, GroupCopies(r) PROVE DoomedHasKeeper'
  <2>1. Works' = Works \cup Duplicates /\ UNCHANGED <<unit, disturbed>> /\ stored' = stored
    <3>1. UNCHANGED <<unit, disturbed>>
      BY <1>3 DEF GroupCopies, obsVars
    <3> QED
      BY <1>3, <3>1, WorksStep DEF ReqStep, stored
  <2>2. /\ Doomed = Works \cap stored /\ Doomed' = (Works \cup Duplicates) \cap stored
    BY <2>1 DEF Doomed, Works
  <2>3. SUFFICES ASSUME NEW i \in Doomed', Final(unit[i]) \notin disturbed
                 PROVE  \E j \in stored \ Doomed' : Twins(i, j) /\ Newer(j, i)
    BY <2>1 DEF DoomedHasKeeper, Twins, Newer
  <2>4. i \in stored /\ \E j \in stored : Twins(i, j) /\ Newer(j, i)
    <3>1. CASE i \in Doomed
      BY <2>2, <2>3, <3>1 DEF DoomedHasKeeper
    <3>2. CASE i \in Duplicates
      BY <3>2, <1>0 DEF Duplicates, Same, Twins, IdentityOf, Final
    <3> QED
      BY <2>2, <2>3, <3>1, <3>2
  <2>5. PICK k \in stored : /\ Final(unit[k]) = Final(unit[i])
                           /\ \A j \in stored : Final(unit[j]) = Final(unit[i]) => j = k \/ Newer(k, j)
    BY <2>4, NewestCopy
  <2>6. \A j \in stored : unit[j].stamp \in Nat /\ j \in Int
    BY <1>0, UnitInventoryAssumption DEF Unit, Ids
  <2>7. \A j \in stored : Final(unit[j]) = Final(unit[i]) => ~Newer(j, k)
    BY <2>5, <2>6 DEF Newer
  <2>8. k \notin Doomed
    BY <2>3, <2>5, <2>7 DEF DoomedHasKeeper, Twins
  <2>9. k \notin Duplicates
    BY <2>5, <2>7, <1>0 DEF Duplicates, Same, IdentityOf, Final
  <2>10. k # i
    BY <2>4, <2>7 DEF Twins
  <2> QED
    BY <2>2, <2>4, <2>5, <2>8, <2>9, <2>10 DEF Twins
<1>4. ASSUME NEW r \in Reqs, PurgeCopies(r) PROVE DoomedHasKeeper'
  <2>1. Works' \subseteq Works /\ req[r].work \subseteq Works
    BY <1>4, WorksStep DEF ReqStep, PurgeCopies, GroupCopies, At
  <2>2. disturbed' = disturbed /\ unit' = [i \in Ids |-> IF i \in req[r].work THEN None ELSE unit[i]]
    BY <1>4 DEF PurgeCopies, Remove, obsVars
  <2>3. /\ stored' \subseteq stored /\ \A i \in stored : i \in stored' \/ i \in Works
        /\ \A i \in stored' : unit'[i] = unit[i]
    BY <1>0, <2>1, <2>2 DEF stored
  <2> QED
    BY <2>1, <2>2, <2>3, KeepersStay
<1>5. ASSUME NEW r \in Reqs, InsertRow(r) \/ CreateUnit(r) PROVE DoomedHasKeeper'
  <2>1. Works' = Works /\ disturbed' = disturbed
    BY <1>5, WorksStep DEF ReqStep, InsertRow, CreateUnit, GroupCopies, At, obsVars
  <2>2. PICK x, n : Insert(x, n)
    BY <1>5 DEF InsertRow, CreateUnit
  <2>3. /\ \A i \in stored : i # last + 1 => i \in stored' /\ unit'[i] = unit[i]
        /\ stored' \subseteq stored \cup {last + 1}
    BY <1>0, <2>2 DEF Insert, stored
  <2>4. last + 1 \notin Works /\ last + 1 \notin stored
    <3>1. \A i \in Works \cup stored : i <= last
      BY <1>0 DEF TypeOK
    <3> QED
      BY <1>0, <3>1
  <2> QED
    BY <2>1, <2>3, <2>4, KeepersStay
<1>6. ASSUME NEW C, Disturb(C), Works' = Works, stored' \subseteq stored,
             \A i \in stored \ C : i \in stored' /\ Final(unit'[i]) = Final(unit[i]) /\ unit'[i].stamp = unit[i].stamp
      PROVE  DoomedHasKeeper'
  BY <1>6, KeepersStay
<1>7. ASSUME NEW i \in Ids, EditUnit(i) \/ DeleteUnit(i) PROVE DoomedHasKeeper'
  <2>1. Disturb({i}) /\ req' = req /\ i \in stored
    BY <1>7 DEF EditUnit, DeleteUnit
  <2>2. Works' = Works
    BY <2>1 DEF Works, At
  <2>3. \A j \in Ids \ {i} : unit'[j] = unit[j]
    BY <1>0, <1>7 DEF EditUnit, DeleteUnit, Remove
  <2>4. stored' \subseteq stored /\ \A j \in stored \ {i} : j \in stored' /\ unit'[j] = unit[j]
    BY <1>0, <2>1, <2>3 DEF stored
  <2> QED
    BY <1>6, <2>1, <2>2, <2>4
<1>8. ASSUME NEW r \in Reqs, UpdateRow(r) PROVE DoomedHasKeeper'
  <2>1. Works' = Works
    BY <1>8, WorksStep DEF ReqStep, UpdateRow, GroupCopies, At
  <2>2. PICK x \in req[r].file, i \in stored :
           /\ unit' = [unit EXCEPT ![i] = [no |-> x.no, floor |-> x.floor, stamp |-> req[r].stamp]]
           /\ Disturb({i})
    BY <1>8 DEF UpdateRow
  <2>3. stored' \subseteq stored /\ \A j \in stored \ {i} : j \in stored' /\ unit'[j] = unit[j]
    BY <1>0, <2>2 DEF stored
  <2> QED
    BY <1>6, <2>1, <2>2, <2>3
<1>9. ASSUME NEW r \in Reqs, ClearUnits(r) \/ DropUnits(r) PROVE DoomedHasKeeper'
  <2>1. stored' = {}
    BY <1>9 DEF ClearUnits, DropUnits, Remove, stored
  <2> QED
    BY <2>1 DEF DoomedHasKeeper, Doomed
<1>10. ASSUME NEW r \in Reqs, RepairFloors(r) PROVE DoomedHasKeeper'
  <2>1. Works' = Works
    BY <1>10, WorksStep DEF ReqStep, RepairFloors, GroupCopies, At
  <2>2. /\ unit' = [i \in Ids |-> IF i \in req[r].work \cap stored
                              THEN [unit[i] EXCEPT !.floor = 1] ELSE unit[i]]
        /\ Disturb({i \in req[r].work \cap stored : Final(unit[i]) # Final(unit'[i])})
    BY <1>10 DEF RepairFloors
  <2>3. \A i \in stored : [unit[i] EXCEPT !.floor = 1].stamp = unit[i].stamp /\ [unit[i] EXCEPT !.floor = 1] # None
    <3>1. ASSUME NEW i \in stored PROVE [unit[i] EXCEPT !.floor = 1] \in Unit
      BY <1>0, Documents
    <3> QED
      BY <1>0, <3>1, Documents DEF Unit
  <2>4. stored' = stored /\ \A i \in stored : unit'[i].stamp = unit[i].stamp
    BY <1>0, <2>2, <2>3 DEF stored
  <2>5. \A i \in stored : i \notin req[r].work => unit'[i] = unit[i]
    BY <1>0, <2>2
  <2> QED
    BY <1>6, <2>1, <2>2, <2>4, <2>5
<1>11. ASSUME NEW r \in Reqs,
              Begin(r) \/ FindFloors(r) \/ PrepareRows(r) \/ MissRow(r) \/ Stop(r) \/ BeginCreate(r) \/ DropProject(r)
       PROVE  DoomedHasKeeper'
  <2>1. UNCHANGED <<unit, disturbed>>
    BY <1>11 DEF Begin, FindFloors, PrepareRows, MissRow, Stop, BeginCreate, DropProject, obsVars
  <2>2. ReqStep(r)
    BY <1>11 DEF ReqStep
  <2>3. ~GroupCopies(r) \/ DoomedHasKeeper'
    BY <1>3
  <2> QED
    BY <1>1, <2>1, <2>2, <2>3, WorksStep
<1> QED
  BY <1>2, <1>3, <1>4, <1>5, <1>7, <1>8, <1>9, <1>10, <1>11 DEF Next, ReqStep

\* DoomedHasKeeper: of a unit nobody changed meanwhile, a newer copy stays.
THEOREM KeeperStays == Spec => []DoomedHasKeeper
<1>1. Init => DoomedHasKeeper /\ StampsPast
  BY DEF Init, DoomedHasKeeper, Doomed, StampsPast, stored, NoRequest
<1> QED
  BY <1>1, TypeCorrect, StampStep, KeeperStep, PTL DEF Spec

\* NewestCopyKeptUnlessChanged: no purge deletes the newest copy of such a unit.
THEOREM NewestCopyKept == Spec => NewestCopyKeptUnlessChanged
<1>1. TypeOK /\ DoomedHasKeeper /\ [Next]_vars =>
         [\A r \in Reqs : \A i \in Purged(r) : Final(unit[i]) \notin disturbed =>
             \E j \in stored' : Twins(i, j) /\ Newer(j, i)]_vars
  <2> SUFFICES ASSUME TypeOK, DoomedHasKeeper, Next, NEW r \in Reqs, NEW i \in Purged(r),
                      Final(unit[i]) \notin disturbed
               PROVE  \E j \in stored' : Twins(i, j) /\ Newer(j, i)
    BY DEF vars
  <2>1. At(r, "purge") /\ req'[r].pc # "purge" /\ i \in stored /\ i \notin stored'
    BY DEF Purged
  <2>2. PurgeCopies(r)
    <3>1. req' # req /\ (\A o \in Reqs \ {r} : ~ReqStep(o)) /\ ReqStep(r)
      <4>1. req' # req
        BY <2>1 DEF At
      <4>2. ASSUME NEW o \in Reqs \ {r} PROVE ~ReqStep(o)
        BY <2>1, LocalsStep, OneRequest DEF At, GoodRequest, TypeOK
      <4> QED
        BY <4>1, <4>2 DEF Next, EditUnit, DeleteUnit
    <3>2. ~PurgeCopies(r) => Stop(r)
      BY <2>1, <3>1 DEF ReqStep, Begin, FindFloors, RepairFloors, GroupCopies, PrepareRows, ClearUnits,
             UpdateRow, MissRow, InsertRow, BeginCreate, CreateUnit, DropProject, DropUnits, At
    <3>3. ~Stop(r)
      BY <2>1 DEF Stop, stored
    <3> QED
      BY <3>2, <3>3
  <2>3. unit' = [k \in Ids |-> IF k \in req[r].work THEN None ELSE unit[k]]
    BY <2>2 DEF PurgeCopies, Remove
  <2>4. req[r].work \cap stored \subseteq Doomed /\ i \in Doomed
    BY <2>1, <2>3 DEF Doomed, stored
  <2>5. PICK j \in stored \ Doomed : Twins(i, j) /\ Newer(j, i)
    BY <2>4 DEF DoomedHasKeeper
  <2>6. j \in stored'
    BY <2>3, <2>4, <2>5 DEF stored
  <2> QED
    BY <2>5, <2>6
<1> QED
  BY <1>1, TypeCorrect, KeeperStays, PTL DEF Spec, NewestCopyKeptUnlessChanged

-----------------------------------------------------------------------------
(***************************************************************************)
(* Copies, cleared projects and orphans.                                   *)
(***************************************************************************)

\* A unit nobody put twice has one copy at most, and none while an import is
\* about to insert it.
CopyInv ==
    /\ OneCopyUnlessPutTwice
    /\ \A r \in Reqs, i \in stored :
          Inserting(r, IdentityOf(unit[i])) => IdentityOf(unit[i]) \in twinned

LEMMA CopyStep == ASSUME TypeOK, CopyInv, [Next]_vars PROVE CopyInv'
<1>0. /\ unit \in [Ids -> Unit \cup {None}] /\ \A i \in stored : unit[i] \in Unit
      /\ \A i \in stored' : unit'[i] \in Unit /\ IdentityOf(unit'[i]) \in Identity
      /\ last \in 0..MaxUnits
  BY NextType, Documents DEF TypeOK, stored
<1>1. ASSUME twinned \subseteq twinned', \A i \in stored' : i \in stored /\ IdentityOf(unit'[i]) = IdentityOf(unit[i]),
             \A r \in Reqs : req'[r] = req[r] \/ req'[r].pc # "insert"
                             \/ \A i \in stored : IdentityOf(unit[i]) # req'[r].row
      PROVE  CopyInv'
  BY <1>1 DEF CopyInv, OneCopyUnlessPutTwice, Same, Inserting, At
<1>2. ASSUME Put, \A r \in Reqs : req'[r] = req[r] \/ req'[r].pc # "insert" PROVE CopyInv'
  BY <1>0, <1>2 DEF CopyInv, OneCopyUnlessPutTwice, Same, Inserting, At, Put
<1>3. CASE UNCHANGED vars
  BY <1>1, <1>3 DEF vars, obsVars, stored
<1>4. ASSUME NEW i \in Ids, EditUnit(i) PROVE CopyInv'
  BY <1>2, <1>4 DEF EditUnit
<1>5. (\E gone : Remove(gone)) \/ UNCHANGED unit =>
         \A i \in stored' : i \in stored /\ IdentityOf(unit'[i]) = IdentityOf(unit[i])
  BY <1>0 DEF Remove, stored
<1>6. ASSUME NEW i \in Ids, DeleteUnit(i) PROVE CopyInv'
  BY <1>1, <1>5, <1>6 DEF DeleteUnit
<1>7. ASSUME NEW r \in Reqs, CreateUnit(r) \/ RepairFloors(r) PROVE CopyInv'
  <2>1. Put
    BY <1>7 DEF CreateUnit, RepairFloors
  <2>2. \A o \in Reqs : req'[o] = req[o] \/ req'[o].pc # "insert"
    BY <1>7, PcStep DEF ReqStep, NoRequest
  <2> QED
    BY <1>2, <2>1, <2>2
<1>8. ASSUME NEW r \in Reqs, UpdateRow(r) PROVE CopyInv'
  <2>1. PICK x \in req[r].file, i \in stored :
           /\ Matches(i, x)
           /\ unit' = [unit EXCEPT ![i] = [no |-> x.no, floor |-> x.floor, stamp |-> req[r].stamp]]
    BY <1>8 DEF UpdateRow
  <2>2. IdentityOf(unit'[i]) = IdentityOf(unit[i])
    BY <1>0, <2>1 DEF Matches, IdentityOf, stored
  <2>3. \A j \in stored' : j \in stored /\ IdentityOf(unit'[j]) = IdentityOf(unit[j])
    BY <1>0, <2>1, <2>2 DEF stored
  <2>4. \A o \in Reqs : req'[o] = req[o] \/ req'[o].pc # "insert"
    BY <1>8, PcStep DEF ReqStep
  <2>5. twinned' = twinned
    BY <1>8 DEF UpdateRow
  <2> QED
    BY <1>1, <2>3, <2>4, <2>5
<1>9. ASSUME NEW r \in Reqs, InsertRow(r) PROVE CopyInv'
  <2> DEFINE x == req[r].row
             n == last + 1
  <2>1. /\ unit' = [unit EXCEPT ![n] = [no |-> x.no, floor |-> x.floor, stamp |-> req[r].stamp]]
        /\ twinned' = twinned \cup {y \in {x} : \E q \in Reqs \ {r} : Inserting(q, y)}
        /\ At(r, "insert") /\ last < MaxUnits
    BY <1>9 DEF InsertRow, Insert
  <2>2. x \in Identity /\ n \in Ids
    BY <1>0, <2>1, UnitInventoryAssumption DEF TypeOK, Request, At, Ids
  <2>3. n \notin stored
    BY <1>0 DEF TypeOK
  <2>4. IdentityOf(unit'[n]) = x
    BY <1>0, <2>1, <2>2 DEF IdentityOf, Identity
  <2>5. \A j \in stored' \ {n} : j \in stored /\ unit'[j] = unit[j]
    BY <1>0, <2>1, <2>2 DEF stored
  <2>6. \A j \in stored : IdentityOf(unit[j]) = x => x \in twinned
    BY <2>1 DEF CopyInv, Inserting
  <2>7. \A o \in Reqs : req'[o].pc = "insert" => o # r /\ req'[o] = req[o]
    BY <1>9, PcStep DEF ReqStep
  <2>8. OneCopyUnlessPutTwice'
    <3>1. SUFFICES ASSUME NEW i \in stored', NEW j \in stored', i # j, IdentityOf(unit'[i]) = IdentityOf(unit'[j])
                   PROVE  IdentityOf(unit'[i]) \in twinned'
      BY DEF OneCopyUnlessPutTwice, Same
    <3>2. CASE i = n \/ j = n
      BY <2>1, <2>4, <2>5, <2>6, <3>1, <3>2
    <3>3. CASE i # n /\ j # n
      BY <2>1, <2>5, <3>1, <3>3 DEF CopyInv, OneCopyUnlessPutTwice, Same
    <3> QED
      BY <3>2, <3>3
  <2>9. ASSUME NEW o \in Reqs, NEW i \in stored', Inserting(o, IdentityOf(unit[i]))'
        PROVE  IdentityOf(unit'[i]) \in twinned'
    <3>1. o # r /\ Inserting(o, IdentityOf(unit'[i]))
      BY <2>7, <2>9 DEF Inserting, At
    <3>2. CASE i = n
      BY <2>1, <2>4, <3>1, <3>2
    <3>3. CASE i # n
      BY <2>1, <2>5, <3>1, <3>3 DEF CopyInv
    <3> QED
      BY <3>2, <3>3
  <2> QED
    BY <2>8, <2>9 DEF CopyInv
<1>10. ASSUME NEW r \in Reqs, MissRow(r) PROVE CopyInv'
  <2>1. UNCHANGED <<unit, twinned>>
    BY <1>10 DEF MissRow, obsVars
  <2>2. \A o \in Reqs : req'[o] = req[o] \/ \A i \in stored : IdentityOf(unit[i]) # req'[o].row
    BY <1>10, PcStep DEF ReqStep, Matches
  <2> QED
    BY <1>1, <1>5, <2>1, <2>2
<1>11. ASSUME NEW r \in Reqs,
              Begin(r) \/ FindFloors(r) \/ GroupCopies(r) \/ PurgeCopies(r) \/ PrepareRows(r) \/ ClearUnits(r)
                \/ Stop(r) \/ BeginCreate(r) \/ DropProject(r) \/ DropUnits(r)
       PROVE  CopyInv'
  <2>1. ((\E gone : Remove(gone)) \/ UNCHANGED unit) /\ twinned' = twinned
    BY <1>11 DEF Begin, FindFloors, GroupCopies, PurgeCopies, PrepareRows, ClearUnits, Stop,
                 BeginCreate, DropProject, DropUnits, obsVars
  <2>2. \A o \in Reqs : req'[o] = req[o] \/ req'[o].pc # "insert"
    BY <1>11, PcStep DEF ReqStep, NoRequest
  <2> QED
    BY <1>1, <1>5, <2>1, <2>2
<1> QED
  BY <1>3, <1>4, <1>6, <1>7, <1>8, <1>9, <1>10, <1>11 DEF Next, ReqStep

\* OneCopyUnlessPutTwice: imports alone make no second copy.
THEOREM ImportsMakeNoTwins == Spec => []OneCopyUnlessPutTwice
<1>1. Init => CopyInv
  BY DEF Init, CopyInv, OneCopyUnlessPutTwice, stored
<1>2. CopyInv => OneCopyUnlessPutTwice
  BY DEF CopyInv
<1> QED
  BY <1>1, <1>2, TypeCorrect, CopyStep, PTL DEF Spec

\* A project being filled has no unit yet and an import about to put one.
ClearedInv == emptied = "clearing" => stored = {} /\ \E r \in Reqs : Writing(r)

LEMMA ClearedStep == ASSUME TypeOK, ClearedInv, [Next]_vars PROVE ClearedInv'
<1>0. SUFFICES ASSUME emptied' = "clearing"
               PROVE  stored' = {} /\ \E r \in Reqs : Writing(r)'
  BY DEF ClearedInv
<1>1. CASE UNCHANGED vars
  BY <1>0, <1>1 DEF vars, obsVars, stored, ClearedInv, Writing, At
<1>2. ASSUME NEW i \in Ids, EditUnit(i) \/ DeleteUnit(i) PROVE stored' = {} /\ \E r \in Reqs : Writing(r)'
  BY <1>0, <1>2 DEF EditUnit, DeleteUnit, ClearedInv
<1>3. ASSUME NEW r \in Reqs, ClearUnits(r) PROVE stored' = {} /\ \E o \in Reqs : Writing(o)'
  <2>1. stored' = {}
    BY <1>3 DEF ClearUnits, Remove, stored
  <2>2. Writing(r)'
    BY <1>3, PcStep DEF ReqStep, Writing, At
  <2> QED
    BY <2>1, <2>2
<1>4. ASSUME NEW r \in Reqs, InsertRow(r) \/ CreateUnit(r) PROVE FALSE
  BY <1>0, <1>4 DEF InsertRow, CreateUnit, Insert
<1>5. ASSUME NEW r \in Reqs, ReqStep(r), ~ClearUnits(r), ~InsertRow(r), ~CreateUnit(r)
      PROVE  stored' = {} /\ \E o \in Reqs : Writing(o)'
  <2>1. emptied = "clearing" /\ (Stop(r) => ~Writing(r))
    <3>1. Stop(r) => emptied = "clearing" /\ ~Writing(r)
      BY <1>0 DEF Stop
    <3>2. ~Stop(r) => emptied' = emptied
      BY <1>5 DEF ReqStep, Begin, FindFloors, RepairFloors, GroupCopies, PurgeCopies, PrepareRows,
             UpdateRow, MissRow, BeginCreate, DropProject, DropUnits, obsVars
    <3> QED
      BY <1>0, <3>1, <3>2
  <2>2. stored = {} /\ \E o \in Reqs : Writing(o)
    BY <2>1 DEF ClearedInv
  <2>3. ~UpdateRow(r)
    BY <2>2 DEF UpdateRow
  <2>4. UNCHANGED unit \/ (\E gone : Remove(gone)) \/ RepairFloors(r)
    BY <1>5, <2>3 DEF ReqStep, Begin, FindFloors, GroupCopies, PurgeCopies, PrepareRows,
           MissRow, Stop, BeginCreate, DropProject, DropUnits
  <2>5. stored' = {}
    BY <2>2, <2>4 DEF stored, Remove, RepairFloors
  <2>6. Writing(r) => MissRow(r)
    BY <1>5, <2>1, <2>3 DEF ReqStep, Writing, At, Begin, FindFloors, RepairFloors, GroupCopies, PurgeCopies,
           PrepareRows, BeginCreate, DropProject, DropUnits
  <2>7. \A o \in Reqs : Writing(o) => Writing(o)'
    BY <1>5, <2>6, PcStep DEF Writing, At
  <2> QED
    BY <2>2, <2>5, <2>7
<1> QED
  BY <1>1, <1>2, <1>3, <1>4, <1>5 DEF Next

\* An import that clears or writes has rows left.
FileInv == \A r \in Reqs : At(r, "clear") \/ Writing(r) => req[r].file # {}

LEMMA FileStep == ASSUME TypeOK, FileInv, [Next]_vars PROVE FileInv'
<1>1. CASE UNCHANGED vars
  BY <1>1 DEF vars, FileInv, At, Writing
<1>2. ASSUME NEW i \in Ids, EditUnit(i) \/ DeleteUnit(i) PROVE FileInv'
  BY <1>2 DEF EditUnit, DeleteUnit, FileInv, At, Writing
<1>3. ASSUME NEW r \in Reqs, ReqStep(r) PROVE FileInv'
  <2>0. req \in [Reqs -> Request] /\ req[r] \in Request /\ \A o \in Reqs \ {r} : req'[o] = req[o]
    BY <1>3, PcStep DEF TypeOK
  <2>1. SUFFICES req'[r].pc \in {"clear", "upsert", "insert"} => req'[r].file # {}
    BY <2>0 DEF FileInv, At, Writing
  <2>2. CASE PrepareRows(r)
    BY <2>0, <2>2 DEF PrepareRows, BeforeRows, NoRequest, Request
  <2>3. CASE ClearUnits(r)
    BY <2>0, <2>3 DEF ClearUnits, Go, FileInv, At, Request
  <2>4. CASE MissRow(r)
    BY <2>0, <2>4 DEF MissRow, Request
  <2>5. ASSUME NEW x \in req[r].file, NextRow(r, x)
        PROVE  req'[r].pc \in {"clear", "upsert", "insert"} => req'[r].file # {}
    BY <2>0, <2>5 DEF NextRow, Leave, NoRequest, Request
  <2>6. CASE UpdateRow(r) \/ InsertRow(r)
    BY <2>5, <2>6 DEF UpdateRow, InsertRow, TypeOK, At
  <2> QED
    BY <1>3, <2>2, <2>3, <2>4, <2>6, PcStep DEF ReqStep, NoRequest
<1> QED
  BY <1>1, <1>2, <1>3 DEF Next

\* ClearedIsRefilled: only an import that ended early leaves a cleared project.
THEOREM ClearedRefilled == Spec => []ClearedIsRefilled
<1>1. Init => ClearedInv /\ FileInv
  BY DEF Init, ClearedInv, FileInv, NoRequest, At, Writing
<1>2. ClearedInv /\ FileInv => ClearedIsRefilled
  BY DEF ClearedInv, FileInv, ClearedIsRefilled
<1> QED
  BY <1>1, <1>2, TypeCorrect, ClearedStep, FileStep, PTL DEF Spec

\* Once the project is gone, and nothing was under way that may still insert,
\* nothing is, and units are left only while they are being deleted.
OrphanInv ==
    ~project /\ ~late =>
        /\ \A r \in Reqs : ~At(r, "create") /\ req[r].file = {}
        /\ stored # {} => \E r \in Reqs : At(r, "drop")

LEMMA OrphanStep == ASSUME TypeOK, OrphanInv, [Next]_vars PROVE OrphanInv'
<1>0. SUFFICES ASSUME ~project', ~late'
               PROVE  /\ \A r \in Reqs : ~At(r, "create")' /\ req'[r].file = {}
                      /\ stored' # {} => \E r \in Reqs : At(r, "drop")'
  BY DEF OrphanInv
<1>1. CASE UNCHANGED vars
  BY <1>0, <1>1 DEF vars, obsVars, stored, OrphanInv, At
<1>2. ASSUME NEW i \in Ids, EditUnit(i) \/ DeleteUnit(i)
      PROVE  /\ \A r \in Reqs : ~At(r, "create")' /\ req'[r].file = {}
             /\ stored' # {} => \E r \in Reqs : At(r, "drop")'
  BY <1>0, <1>2 DEF EditUnit, DeleteUnit, OrphanInv, At, Remove, stored
<1>3. ASSUME NEW r \in Reqs, DropProject(r)
      PROVE  /\ \A o \in Reqs : ~At(o, "create")' /\ req'[o].file = {}
             /\ stored' # {} => \E o \in Reqs : At(o, "drop")'
  <2>1. late' = (\E q \in Reqs : At(q, "create") \/ req[q].file # {}) /\ Go(r, "drop")
    BY <1>3 DEF DropProject
  <2>2. \A q \in Reqs : ~At(q, "create") /\ req[q].file = {}
    BY <1>0, <2>1
  <2>3. req'[r].pc = "drop" /\ req'[r].file = req[r].file /\ \A o \in Reqs \ {r} : req'[o] = req[o]
    BY <2>1 DEF Go, TypeOK, Request
  <2> QED
    BY <2>2, <2>3 DEF At
<1>4. ASSUME NEW r \in Reqs, ReqStep(r), ~DropProject(r)
      PROVE  /\ \A o \in Reqs : ~At(o, "create")' /\ req'[o].file = {}
             /\ stored' # {} => \E o \in Reqs : At(o, "drop")'
  <2>1. project' = project /\ (late => late') /\ (Stop(r) => ~At(r, "drop"))
    <3>0. late \in BOOLEAN /\ At(r, "drop") \in BOOLEAN
      BY DEF TypeOK, At
    <3>1. Stop(r) => project' = project /\ (late => late') /\ (At(r, "drop") => late')
      <4>1. Stop(r) => project' = project /\ late' = (late \/ At(r, "drop"))
        BY DEF Stop
      <4> QED
        BY <3>0, <4>1
    <3>2. ~Stop(r) => project' = project /\ late' = late
      BY <1>4 DEF ReqStep, Begin, FindFloors, RepairFloors, GroupCopies, PurgeCopies, PrepareRows,
             ClearUnits, UpdateRow, MissRow, InsertRow, BeginCreate, CreateUnit, DropUnits, obsVars, Insert
    <3> QED
      BY <1>0, <3>0, <3>1, <3>2
  <2>2. /\ ~project /\ \A o \in Reqs : ~At(o, "create") /\ req[o].file = {}
        /\ stored # {} => \E o \in Reqs : At(o, "drop")
    BY <1>0, <2>1 DEF OrphanInv
  <2>3. ~Begin(r) /\ ~BeginCreate(r) /\ ~CreateUnit(r) /\ ~MissRow(r) /\ ~UpdateRow(r) /\ ~InsertRow(r)
    BY <2>2 DEF Begin, BeginCreate, ProjectFound, CreateUnit, MissRow, UpdateRow, InsertRow, TypeOK, At
  <2>4. /\ req'[r].pc # "create" /\ req'[r].file = {}
        /\ \A o \in Reqs \ {r} : req'[o] = req[o]
    <3>1. req'[r].pc # "create" /\ \A o \in Reqs \ {r} : req'[o] = req[o]
      BY <1>4, <2>3, PcStep DEF ReqStep, NoRequest
    <3>2. req \in [Reqs -> Request] /\ req[r] \in Request
      BY DEF TypeOK
    <3>3. FindFloors(r) \/ RepairFloors(r) \/ GroupCopies(r) => req'[r].file = {}
      BY <2>2, <3>2 DEF FindFloors, RepairFloors, GroupCopies, Request
    <3>4. ClearUnits(r) => req'[r].file = {}
      BY <2>2, <3>2 DEF ClearUnits, Go, Request
    <3>5. PrepareRows(r) => req'[r].file = {}
      BY <2>2, <3>2 DEF PrepareRows, BeforeRows, NoRequest, Request
    <3>6. PurgeCopies(r) => req'[r].file = {}
      BY <2>2, <3>2 DEF PurgeCopies, Leave, NoRequest
    <3>7. Stop(r) \/ DropUnits(r) => req'[r].file = {}
      BY <1>4, PcStep DEF NoRequest
    <3> QED
      BY <1>4, <2>3, <3>1, <3>3, <3>4, <3>5, <3>6, <3>7 DEF ReqStep
  <2>5. UNCHANGED unit \/ (\E gone : Remove(gone)) \/ RepairFloors(r)
    BY <1>4, <2>3 DEF ReqStep, FindFloors, GroupCopies, PurgeCopies, PrepareRows,
           ClearUnits, Stop, DropUnits
  <2>6. stored' # {} => stored # {}
    BY <2>5 DEF stored, Remove, RepairFloors
  <2>7. DropUnits(r) => stored' = {}
    BY DEF DropUnits, Remove, stored
  <2>8. ~DropUnits(r) => ~At(r, "drop")
    BY <1>4, <2>1, <2>3 DEF ReqStep, FindFloors, RepairFloors, GroupCopies, PurgeCopies, PrepareRows,
           ClearUnits, At
  <2> QED
    BY <2>2, <2>4, <2>6, <2>7, <2>8 DEF At
<1> QED
  BY <1>1, <1>2, <1>3, <1>4 DEF Next

\* OrphansNeedRaceOrStop: units outlive their project only in a race or a stop.
THEOREM OrphansExplained == Spec => []OrphansNeedRaceOrStop
<1>1. Init => OrphanInv
  BY DEF Init, OrphanInv
<1>2. OrphanInv => OrphansNeedRaceOrStop
  BY DEF OrphanInv, OrphansNeedRaceOrStop
<1> QED
  BY <1>1, <1>2, TypeCorrect, OrphanStep, PTL DEF Spec

=============================================================================

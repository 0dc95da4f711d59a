-------------------------- MODULE SheetSyncProofs ---------------------------
(***************************************************************************)
(* Proofs about SheetSync for any number of rows, keys and leads: when     *)
(* runs do not overlap, no row key gets two leads, and, when rows change   *)
(* place between runs only, no row does.                                   *)
(***************************************************************************)
EXTENDS SheetSync, TLAPS

-----------------------------------------------------------------------------
\* Storing one document keeps a collection well typed.
LEMMA StoreDoc ==
    ASSUME NEW S, NEW D, NEW g \in [S -> D], NEW i \in S, NEW d \in D
    PROVE  [g EXCEPT ![i] = d] \in [S -> D]
OBVIOUS

\* What the script writes into a row gives a row again.
LEMMA RowUpdates ==
    ASSUME NEW d \in RowDoc
    PROVE  /\ \A n \in {"none", "ref", "full"}, v \in BOOLEAN :
                 [d EXCEPT !.name = n, !.valid = v] \in RowDoc
           /\ [d EXCEPT !.status = "Synced"] \in RowDoc
           /\ [d EXCEPT !.status = "Error"] \in RowDoc
           /\ \A k \in Keys : [d EXCEPT !.key = k] \in RowDoc
           /\ \A l \in Leads \cup {None} : [d EXCEPT !.lead = l] \in RowDoc
<1> USE DEF RowDoc
<1>1. \A n \in {"none", "ref", "full"}, v \in BOOLEAN :
         [d EXCEPT !.name = n, !.valid = v] \in RowDoc
  OBVIOUS
<1>2. [d EXCEPT !.status = "Synced"] \in RowDoc
  OBVIOUS
<1>3. [d EXCEPT !.status = "Error"] \in RowDoc
  OBVIOUS
<1>4. \A k \in Keys : [d EXCEPT !.key = k] \in RowDoc
  OBVIOUS
<1>5. \A l \in Leads \cup {None} : [d EXCEPT !.lead = l] \in RowDoc
  OBVIOUS
<1> QED
  BY <1>1, <1>2, <1>3, <1>4, <1>5

\* What users and the endpoint write into a lead gives a lead again.
LEMMA LeadUpdates ==
    ASSUME NEW d \in LeadDoc
    PROVE  /\ \A n \in {"fallback", "full"}, c \in {"sheet", "crm"} :
                 [d EXCEPT !.contact = c, !.name = n] \in LeadDoc
           /\ \A n \in {"fallback", "full"}, c \in {"sheet", "crm"} :
                 [d EXCEPT !.name = n, !.contact = c] \in LeadDoc
           /\ [d EXCEPT !.state = "deleted"] \in LeadDoc
<1> USE DEF LeadDoc
<1>1. \A n \in {"fallback", "full"}, c \in {"sheet", "crm"} :
         [d EXCEPT !.contact = c, !.name = n] \in LeadDoc
  OBVIOUS
<1>2. \A n \in {"fallback", "full"}, c \in {"sheet", "crm"} :
         [d EXCEPT !.name = n, !.contact = c] \in LeadDoc
  OBVIOUS
<1>3. [d EXCEPT !.state = "deleted"] \in LeadDoc
  OBVIOUS
<1> QED
  BY <1>1, <1>2, <1>3

\* A step of the server changes the state and the lead of one request.
LEMMA ServerEffect ==
    ASSUME req \in [Runs -> Request], NEW r \in Runs, NEW pc, NEW l, Server(r, pc, l)
    PROVE  /\ req'[r].pc = pc /\ req'[r].lead = l
           /\ req'[r].key = req[r].key /\ req'[r].who = req[r].who
           /\ req'[r].name = req[r].name
           /\ \A q \in Runs \ {r} : req'[q] = req[q]
BY DEF Server, Request

\* and leaves a request, if the lead is one.
LEMMA ServerTyped ==
    ASSUME req \in [Runs -> Request], NEW r \in Runs, NEW l \in Leads \cup {None},
           NEW pc \in {"none", "find", "repair", "insert", "log", "ok", "error"},
           Server(r, pc, l)
    PROVE  req' \in [Runs -> Request]
<1>1. [req[r] EXCEPT !.pc = pc, !.lead = l] \in Request
  BY DEF Request
<1> QED
  BY <1>1, StoreDoc DEF Server

\* The initial request and the empty snapshot are in their domains.
LEMMA NoRequestTyped == NoRequest \in Request
BY DEF NoRequest, Request

LEMMA NoRowsTyped == NoRows \in [Rows -> RowDoc]
BY DEF NoRows, NewRow, RowDoc

-----------------------------------------------------------------------------
\* One run or request at a time: the inductive part that needs ~Overlap.
LEMMA KeyStep ==
    ASSUME ~Overlap, KeyInv, leads \in [Leads -> LeadDoc], req \in [Runs -> Request],
           runPc \in [Runs -> RunPcs], [Next]_vars
    PROVE  KeyInv'
<1> USE DEF KeyInv, OneLeadPerKey, Live, Active, Matching, runVars
<1>1. ASSUME NEW i \in Rows, EditRow(i) PROVE KeyInv'
  BY <1>1 DEF EditRow
<1>2. ASSUME NEW i \in Rows, NEW j \in Rows, MoveRows(i, j) PROVE KeyInv'
  BY <1>2 DEF MoveRows
<1>3. ASSUME NEW l \in Leads, EditLead(l) PROVE KeyInv'
  BY <1>3 DEF EditLead, LeadDoc
<1>4. ASSUME NEW l \in Leads, DeleteLead(l) PROVE KeyInv'
  BY <1>4 DEF DeleteLead, LeadDoc
<1>5. ASSUME NEW r \in Runs, NEW rep \in BOOLEAN, BeginRun(r, rep) PROVE KeyInv'
  BY <1>5 DEF BeginRun, Quiet
<1>6. ASSUME NEW r \in Runs, RunStep(r) PROVE KeyInv'
  <2>1. CASE EndRun(r)
    BY <1>6, <2>1 DEF EndRun, Leave
  <2>2. CASE SkipRow(r) \/ NamelessRow(r)
    BY <1>6, <2>2 DEF SkipRow, NamelessRow
  <2>3. CASE TakeKey(r)
    BY <1>6, <2>3 DEF TakeKey, AtRow
  <2>4. CASE Post(r)
    BY <1>6, <2>4 DEF Post
  <2>5. CASE MarkSynced(r)
    BY <1>6, <2>5 DEF MarkSynced
  <2>6. CASE WriteLeadId(r) \/ MarkError(r)
    BY <1>6, <2>6 DEF WriteLeadId, MarkError, NextRow, NoRequest
  <2> QED
    BY <1>6, <2>1, <2>2, <2>3, <2>4, <2>5, <2>6 DEF RunStep
<1>7. ASSUME NEW r \in Runs, KillRun(r) PROVE KeyInv'
  BY <1>7 DEF KillRun, Leave
<1>8. ASSUME NEW r \in Runs, ServerStep(r) PROVE KeyInv'
  <2>1. CASE FindLead(r)
    <3>1. PICK pc \in {"insert", "repair", "ok"}, l \in Leads \cup {None} :
             /\ Server(r, pc, l)
             /\ pc = "insert" => Matching(req[r].key) = {}
      BY <2>1 DEF FindLead, Existing
    <3>2. /\ req'[r].pc = pc /\ req'[r].key = req[r].key
          /\ \A q \in Runs \ {r} : req'[q] = req[q]
      BY <3>1, ServerEffect
    <3> QED
      BY <2>1, <3>1, <3>2 DEF FindLead
  <2>2. CASE RepairLead(r)
    BY <2>2 DEF RepairLead, Server, Request, LeadDoc
  <2>3. CASE InsertLead(r)
    BY <2>3 DEF InsertLead, Server, Request, LeadDoc
  <2>4. CASE LogLead(r)
    BY <2>4 DEF LogLead, Server, Request
  <2>5. CASE Forget(r)
    BY <2>5 DEF Forget, NoRequest
  <2> QED
    BY <1>8, <2>1, <2>2, <2>3, <2>4, <2>5 DEF ServerStep
<1>9. ASSUME NEW r \in Runs, Fail(r) PROVE KeyInv'
  BY <1>9 DEF Fail, Server, Request
<1>10. CASE UNCHANGED vars
  BY <1>10 DEF vars
<1> QED
  BY <1>1, <1>2, <1>3, <1>4, <1>5, <1>6, <1>7, <1>8, <1>9, <1>10 DEF Next

LEMMA NextRowTyped ==
    ASSUME TypeOK, NEW r \in Runs, NextRow(r)
    PROVE  /\ req' \in [Runs -> Request]
           /\ runPc' \in [Runs -> RunPcs]
           /\ at' \in [Runs -> Nat \ {0}]
           /\ runKey' \in [Runs -> Keys \cup {None}]
           /\ snap' = snap /\ repair' = repair
<1>1. req' \in [Runs -> Request]
  BY NoRequestTyped, StoreDoc DEF NextRow, TypeOK
<1> QED
  BY <1>1 DEF NextRow, TypeOK, RunPcs

\* Every step keeps sheet, leads, runs and requests in their domains.
LEMMA TypeStep ==
    ASSUME TypeOK, LocalsSet, [Next]_vars
    PROVE  TypeOK'
<1> USE SheetSyncAssumption DEF TypeOK, runVars
<1>1. ASSUME NEW i \in Rows, EditRow(i) PROVE TypeOK'
  <2>1. PICK n \in {"none", "ref", "full"}, v \in BOOLEAN :
           sheet' = [sheet EXCEPT ![i] = [@ EXCEPT !.name = n, !.valid = v]]
    BY <1>1 DEF EditRow
  <2>2. [sheet[i] EXCEPT !.name = n, !.valid = v] \in RowDoc
    BY RowUpdates
  <2>3. sheet' \in [Rows -> RowDoc]
    BY <2>1, <2>2, StoreDoc
  <2> QED
    BY <1>1, <2>3 DEF EditRow
<1>2. ASSUME NEW i \in Rows, NEW j \in Rows, MoveRows(i, j) PROVE TypeOK'
  BY <1>2 DEF MoveRows
<1>3. ASSUME NEW l \in Leads, EditLead(l) PROVE TypeOK'
  <2>1. leads[l].name \in {"fallback", "full"}
    BY DEF LeadDoc
  <2>2. PICK n \in {leads[l].name, "full"} :
           leads' = [leads EXCEPT ![l] = [@ EXCEPT !.contact = "crm", !.name = n]]
    BY <1>3 DEF EditLead
  <2>3. [leads[l] EXCEPT !.contact = "crm", !.name = n] \in LeadDoc
    BY <2>1, LeadUpdates
  <2>4. leads' \in [Leads -> LeadDoc]
    BY <2>2, <2>3, StoreDoc
  <2> QED
    BY <1>3, <2>4 DEF EditLead
<1>4. ASSUME NEW l \in Leads, DeleteLead(l) PROVE TypeOK'
  BY <1>4, LeadUpdates, StoreDoc DEF DeleteLead
<1>5. ASSUME NEW r \in Runs, NEW rep \in BOOLEAN, BeginRun(r, rep) PROVE TypeOK'
  BY <1>5 DEF BeginRun, FirstRow, RunPcs
<1>6. ASSUME NEW r \in Runs, RunStep(r) PROVE TypeOK'
  <2>1. CASE EndRun(r)
    BY <2>1, NoRowsTyped DEF EndRun, Leave, RunPcs
  <2>2. CASE SkipRow(r)
    BY <2>2 DEF SkipRow
  <2>3. CASE NamelessRow(r)
    <3>1. [sheet[at[r]] EXCEPT !.status = "Error"] \in RowDoc
      BY <2>3, RowUpdates DEF NamelessRow, AtRow
    <3>2. sheet' \in [Rows -> RowDoc]
      BY <2>3, <3>1, StoreDoc DEF NamelessRow, AtRow
    <3> QED
      BY <2>3, <3>2 DEF NamelessRow
  <2>4. CASE TakeKey(r)
    <3>1. Row(r) \in RowDoc /\ at[r] \in Rows
      BY <2>4 DEF TakeKey, AtRow, Row
    <3>2. Row(r).key \in Keys \cup {None}
      BY <3>1 DEF RowDoc
    <3>3. sheet' \in [Rows -> RowDoc]
      <4>1. CASE UNCHANGED sheet
        BY <4>1
      <4>2. ASSUME NEW k \in Keys, sheet' = WithKey(at[r], k)
            PROVE  sheet' \in [Rows -> RowDoc]
        <5>1. [sheet[at[r]] EXCEPT !.key = k] \in RowDoc
          BY <3>1, RowUpdates
        <5> QED
          BY <3>1, <4>2, <5>1, StoreDoc DEF WithKey
      <4> QED
        BY <2>4, <4>1, <4>2 DEF TakeKey
    <3>4. runKey' \in [Runs -> Keys \cup {None}] /\ used' \subseteq Keys
      BY <2>4, <3>2 DEF TakeKey
    <3> QED
      BY <2>4, <3>3, <3>4 DEF TakeKey, RunPcs
  <2>5. CASE Post(r)
    <3>1. Row(r) \in RowDoc
      BY <2>5 DEF Post, Row, LocalsSet
    <3>2. Row(r).who \in Rows
      BY <3>1 DEF RowDoc
    <3>3. req' \in [Runs -> Request]
      BY <2>5, <3>2, StoreDoc DEF Post, Request
    <3> QED
      BY <2>5, <3>3 DEF Post, RunPcs
  <2>6. CASE MarkSynced(r)
    <3>1. at[r] \in Rows
      BY <2>6 DEF LocalsSet, MarkSynced
    <3>2. [sheet[at[r]] EXCEPT !.status = "Synced"] \in RowDoc
      BY <3>1, RowUpdates
    <3>3. sheet' \in [Rows -> RowDoc]
      BY <2>6, <3>1, <3>2, StoreDoc DEF MarkSynced
    <3> QED
      BY <2>6, <3>3 DEF MarkSynced, RunPcs
  <2>7. CASE WriteLeadId(r)
    <3>1. req[r].lead \in Leads \cup {None} /\ at[r] \in Rows
      BY <2>7 DEF Request, LocalsSet, WriteLeadId
    <3>2. [sheet[at[r]] EXCEPT !.lead = req[r].lead] \in RowDoc
      BY <3>1, RowUpdates
    <3>3. sheet' \in [Rows -> RowDoc]
      BY <2>7, <3>1, <3>2, StoreDoc DEF WriteLeadId
    <3> QED
      BY <2>7, <3>3, NextRowTyped DEF WriteLeadId
  <2>8. CASE MarkError(r)
    <3>1. at[r] \in Rows
      BY <2>8 DEF LocalsSet, MarkError
    <3>2. [sheet[at[r]] EXCEPT !.status = "Error"] \in RowDoc
      BY <3>1, RowUpdates
    <3>3. sheet' \in [Rows -> RowDoc]
      BY <2>8, <3>1, <3>2, StoreDoc DEF MarkError
    <3> QED
      BY <2>8, <3>3, NextRowTyped DEF MarkError
  <2> QED
    BY <1>6, <2>1, <2>2, <2>3, <2>4, <2>5, <2>6, <2>7, <2>8 DEF RunStep
<1>7. ASSUME NEW r \in Runs, KillRun(r) PROVE TypeOK'
  BY <1>7, NoRowsTyped DEF KillRun, Leave, RunPcs
<1>8. ASSUME NEW r \in Runs, ServerStep(r) PROVE TypeOK'
  <2>1. CASE FindLead(r)
    BY <2>1, ServerTyped DEF FindLead, Existing, Matching
  <2>2. CASE RepairLead(r)
    <3>1. req[r].lead \in Leads \cup {None} /\ req[r].name \in {"fallback", "full"}
      BY DEF Request
    <3>2. leads' \in [Leads -> LeadDoc]
      BY <2>2, <3>1, LeadUpdates, StoreDoc DEF RepairLead
    <3> QED
      BY <2>2, <3>1, <3>2, ServerTyped DEF RepairLead
  <2>3. CASE InsertLead(r)
    <3>1. PICK l \in Leads :
             /\ leads' = [leads EXCEPT ![l] =
                            [state |-> "live", key |-> req[r].key,
                             who |-> req[r].who, name |-> req[r].name,
                             contact |-> "sheet"]]
             /\ Server(r, "log", l)
      BY <2>3 DEF InsertLead
    <3>2. leads' \in [Leads -> LeadDoc]
      BY <3>1, StoreDoc DEF LeadDoc, Request
    <3> QED
      BY <2>3, <3>1, <3>2, ServerTyped DEF InsertLead
  <2>4. CASE LogLead(r)
    BY <2>4, ServerTyped DEF LogLead, LocalsSet
  <2>5. CASE Forget(r)
    BY <2>5, StoreDoc, NoRequestTyped DEF Forget
  <2> QED
    BY <1>8, <2>1, <2>2, <2>3, <2>4, <2>5 DEF ServerStep
<1>9. ASSUME NEW r \in Runs, Fail(r) PROVE TypeOK'
  BY <1>9, ServerTyped DEF Fail
<1>10. CASE UNCHANGED vars
  BY <1>10 DEF vars
<1> QED
  BY <1>1, <1>2, <1>3, <1>4, <1>5, <1>6, <1>7, <1>8, <1>9, <1>10 DEF Next

\* Every step keeps the locals of runs and requests set.
LEMMA LocalsStep ==
    ASSUME TypeOK, LocalsSet, [Next]_vars
    PROVE  LocalsSet'
<1> USE DEF LocalsSet, TypeOK, runVars
<1>1. ASSUME NEW i \in Rows, EditRow(i) PROVE LocalsSet'
  BY <1>1 DEF EditRow
<1>2. ASSUME NEW i \in Rows, NEW j \in Rows, MoveRows(i, j) PROVE LocalsSet'
  BY <1>2 DEF MoveRows
<1>3. ASSUME NEW l \in Leads, EditLead(l) \/ DeleteLead(l) PROVE LocalsSet'
  BY <1>3 DEF EditLead, DeleteLead
<1>4. ASSUME NEW r \in Runs, NEW rep \in BOOLEAN, BeginRun(r, rep) PROVE LocalsSet'
  BY <1>4 DEF BeginRun
<1>5. ASSUME NEW r \in Runs, RunStep(r) PROVE LocalsSet'
  <2>1. CASE EndRun(r) \/ SkipRow(r) \/ NamelessRow(r)
    BY <2>1 DEF EndRun, Leave, SkipRow, NamelessRow, AtRow
  <2>2. CASE TakeKey(r)
    BY <2>2 DEF TakeKey, AtRow
  <2>3. CASE Post(r)
    BY <2>3 DEF Post
  <2>4. CASE MarkSynced(r)
    BY <2>4 DEF MarkSynced
  <2>5. CASE WriteLeadId(r) \/ MarkError(r)
    <3>1. /\ runPc' = [runPc EXCEPT ![r] = "rows"]
          /\ at' = [at EXCEPT ![r] = @ + 1]
          /\ req' = [req EXCEPT ![r] = NoRequest]
      BY <2>5 DEF WriteLeadId, MarkError, NextRow
    <3>2. NoRequest.pc = "none"
      BY DEF NoRequest
    <3> QED
      BY <3>1, <3>2
  <2> QED
    BY <1>5, <2>1, <2>2, <2>3, <2>4, <2>5 DEF RunStep
<1>6. ASSUME NEW r \in Runs, KillRun(r) PROVE LocalsSet'
  BY <1>6 DEF KillRun, Leave
<1>7. ASSUME NEW r \in Runs, ServerStep(r) PROVE LocalsSet'
  <2>1. CASE FindLead(r)
    <3>1. PICK pc \in {"insert", "repair", "ok"}, l \in Leads \cup {None} :
             Server(r, pc, l) /\ (pc = "repair" => l \in Leads)
      BY <2>1 DEF FindLead, Existing, Matching
    <3>2. /\ req'[r].pc = pc /\ req'[r].lead = l
          /\ \A q \in Runs \ {r} : req'[q] = req[q]
      BY <3>1, ServerEffect
    <3> QED
      BY <2>1, <3>1, <3>2 DEF FindLead
  <2>2. CASE RepairLead(r)
    BY <2>2, ServerEffect DEF RepairLead
  <2>3. CASE InsertLead(r)
    <3>1. PICK l \in Leads : Server(r, "log", l)
      BY <2>3 DEF InsertLead
    <3>2. req'[r].lead = l /\ \A q \in Runs \ {r} : req'[q] = req[q]
      BY <3>1, ServerEffect
    <3> QED
      BY <2>3, <3>2 DEF InsertLead
  <2>4. CASE LogLead(r)
    BY <2>4, ServerEffect DEF LogLead
  <2>5. CASE Forget(r)
    BY <2>5 DEF Forget, NoRequest
  <2> QED
    BY <1>7, <2>1, <2>2, <2>3, <2>4, <2>5 DEF ServerStep
<1>8. ASSUME NEW r \in Runs, Fail(r) PROVE LocalsSet'
  BY <1>8, ServerEffect DEF Fail
<1>9. CASE UNCHANGED vars
  BY <1>9 DEF vars
<1> QED
  BY <1>1, <1>2, <1>3, <1>4, <1>5, <1>6, <1>7, <1>8, <1>9 DEF Next

-----------------------------------------------------------------------------
\* Type correctness of the script and the endpoint, overlapping runs and moved
\* rows included.
THEOREM TypeCorrect == Spec => []TypeOK
<1>1. Init => TypeOK /\ LocalsSet
  <2> SUFFICES ASSUME Init PROVE TypeOK /\ LocalsSet
    OBVIOUS
  <2>1. sheet \in [Rows -> RowDoc]
    <3>1. PICK n \in [Rows -> Names], v \in [Rows -> Valids] :
             sheet = [i \in Rows |-> NewRow(i, n[i], v[i])]
      BY DEF Init
    <3>2. \A i \in Rows : NewRow(i, n[i], v[i]) \in RowDoc
      BY SheetSyncAssumption DEF NewRow, RowDoc
    <3> QED
      BY <3>1, <3>2
  <2>2. leads \in [Leads -> LeadDoc]
    BY DEF Init, NoLead, LeadDoc
  <2>3. req \in [Runs -> Request] /\ \A r \in Runs : req[r].pc = "none"
    BY NoRequestTyped DEF Init, NoRequest
  <2>4. snap \in [Runs -> [Rows -> RowDoc]]
    BY NoRowsTyped DEF Init
  <2> QED
    BY <2>1, <2>2, <2>3, <2>4 DEF Init, TypeOK, LocalsSet, RunPcs
<1>2. TypeOK /\ LocalsSet /\ [Next]_vars => (TypeOK /\ LocalsSet)'
  BY TypeStep, LocalsStep
<1> QED
  BY <1>1, <1>2, PTL DEF Spec

\* KeyInv: when no run starts before the last one and its requests have ended,
\* one request at most is under way, and a key it found no lead for has none.
THEOREM KeyInvariant == ASSUME ~Overlap PROVE Spec => []KeyInv
<1>1. Init => KeyInv
  BY DEF Init, KeyInv, OneLeadPerKey, Live, NoLead, Active, NoRequest
<1>2. TypeOK /\ KeyInv /\ [Next]_vars => KeyInv'
  BY KeyStep DEF TypeOK
<1> QED
  BY <1>1, <1>2, TypeCorrect, PTL DEF Spec

\* Then a row key never gets two leads, wherever runs and requests end and
\* whatever people do to the sheet and to the leads: the check-then-insert of
\* the endpoint.
THEOREM NoKeyTwice == ASSUME ~Overlap PROVE Spec => []OneLeadPerKey
<1>1. KeyInv => OneLeadPerKey
  BY DEF KeyInv
<1> QED
  BY <1>1, KeyInvariant, PTL

-----------------------------------------------------------------------------
\* Between two states every row keeps its owner and the key it has.
KeysKept ==
    \A i \in Rows : /\ sheet'[i].who = sheet[i].who
                    /\ sheet[i].key # None => sheet'[i].key = sheet[i].key

\* Every row keeps its owner and its key or lack of one.
KeysSame ==
    \A i \in Rows : sheet'[i].who = sheet[i].who /\ sheet'[i].key = sheet[i].key

\* Writing name, status or lead id leaves owner and key alone.
LEMMA CellWrites ==
    ASSUME NEW d \in RowDoc
    PROVE  /\ \A n, v : LET e == [d EXCEPT !.name = n, !.valid = v]
                        IN  e.who = d.who /\ e.key = d.key
           /\ \A n : LET e == [d EXCEPT !.status = n]
                     IN  e.who = d.who /\ e.key = d.key
           /\ \A n : LET e == [d EXCEPT !.lead = n]
                     IN  e.who = d.who /\ e.key = d.key
           /\ \A k : LET e == [d EXCEPT !.key = k]
                     IN  e.who = d.who /\ e.key = k
BY DEF RowDoc

\* The writes of a run other than TakeKey, and edits, change no key.
LEMMA CellStep ==
    ASSUME TypeOK, LocalsSet
    PROVE  /\ \A i \in Rows : EditRow(i) => KeysSame
           /\ \A r \in Runs : NamelessRow(r) => KeysSame
           /\ \A r \in Runs : MarkSynced(r) \/ MarkError(r) => KeysSame
           /\ \A r \in Runs : WriteLeadId(r) => KeysSame
<1> USE DEF KeysSame
<1>0. sheet \in [Rows -> RowDoc]
  BY DEF TypeOK
<1>1. ASSUME NEW i \in Rows, NEW d, sheet' = [sheet EXCEPT ![i] = d],
             d.who = sheet[i].who, d.key = sheet[i].key
      PROVE  KeysSame
  BY <1>0, <1>1
<1>2. ASSUME NEW i \in Rows, EditRow(i) PROVE KeysSame
  <2>1. PICK n, v : sheet' = [sheet EXCEPT ![i] = [@ EXCEPT !.name = n, !.valid = v]]
    BY <1>2 DEF EditRow
  <2> QED
    BY <1>0, <1>1, <2>1, CellWrites
<1>3. ASSUME NEW r \in Runs, NamelessRow(r) PROVE KeysSame
  <2>1. /\ at[r] \in Rows
        /\ sheet' = [sheet EXCEPT ![at[r]] = [@ EXCEPT !.status = "Error"]]
    BY <1>3 DEF NamelessRow, AtRow
  <2> QED
    BY <1>0, <1>1, <2>1, CellWrites
<1>4. ASSUME NEW r \in Runs, MarkSynced(r) \/ MarkError(r) PROVE KeysSame
  <2>1. PICK n : sheet' = [sheet EXCEPT ![at[r]] = [@ EXCEPT !.status = n]]
    BY <1>4 DEF MarkSynced, MarkError
  <2>2. at[r] \in Rows
    BY <1>4 DEF LocalsSet, MarkSynced, MarkError
  <2> QED
    BY <1>0, <1>1, <2>1, <2>2, CellWrites
<1>5. ASSUME NEW r \in Runs, WriteLeadId(r) PROVE KeysSame
  <2>1. sheet' = [sheet EXCEPT ![at[r]] = [@ EXCEPT !.lead = req[r].lead]]
    BY <1>5 DEF WriteLeadId
  <2>2. at[r] \in Rows
    BY <1>5 DEF LocalsSet, WriteLeadId
  <2> QED
    BY <1>0, <1>1, <2>1, <2>2, CellWrites
<1> QED
  BY <1>2, <1>3, <1>4, <1>5

\* TakeKey gives at most the row its run is at a key, an unused one.
LEMMA TakeKeyStep ==
    ASSUME TypeOK, SnapFresh, NEW r \in Runs, TakeKey(r)
    PROVE  /\ at[r] \in Rows /\ runPc[r] = "rows" /\ snap' = snap
           /\ \/ UNCHANGED <<sheet, used>>
              \/ \E k \in Keys \ used :
                    /\ used' = used \cup {k}
                    /\ sheet[at[r]].key = None
                    /\ sheet'[at[r]].who = sheet[at[r]].who
                    /\ sheet'[at[r]].key = k
                    /\ runKey'[r] = k
                    /\ \A j \in Rows \ {at[r]} : sheet'[j] = sheet[j]
<1>1. at[r] \in Rows /\ runPc[r] = "rows" /\ snap' = snap
  BY DEF TakeKey, AtRow
<1>2. CASE UNCHANGED <<sheet, used>>
  BY <1>1, <1>2
<1>3. CASE ~UNCHANGED <<sheet, used>>
  <2>1. PICK k \in Keys \ used :
           /\ Row(r).key = None
           /\ runKey' = [runKey EXCEPT ![r] = k]
           /\ used' = used \cup {k}
           /\ sheet' = [sheet EXCEPT ![at[r]] = [@ EXCEPT !.key = k]]
    BY <1>3 DEF TakeKey, WithKey
  <2>2. Unvisited(r, at[r])
    BY <1>1 DEF Unvisited, Rows
  <2>3. sheet[at[r]].key = None
    BY <1>1, <2>1, <2>2 DEF SnapFresh, Row
  <2>4. /\ sheet'[at[r]].who = sheet[at[r]].who /\ sheet'[at[r]].key = k
        /\ \A j \in Rows \ {at[r]} : sheet'[j] = sheet[j]
    BY <1>1, <2>1, CellWrites DEF TypeOK
  <2>5. runKey'[r] = k
    BY <2>1 DEF TypeOK
  <2> QED
    BY <1>1, <2>1, <2>3, <2>4, <2>5
<1> QED
  BY <1>2, <1>3

\* No row changes place in this step.
NoMove == \A i, j \in Rows : ~MoveRows(i, j)

\* In any other step rows keep their places and get keys of their own.
LEMMA SheetStep ==
    ASSUME NoMove, TypeOK, LocalsSet, OwnKeys, SnapFresh, [Next]_vars
    PROVE  OwnKeys' /\ KeysKept
<1> USE DEF KeysSame, KeysKept
<1>1. ASSUME KeysSame, used' = used PROVE OwnKeys' /\ KeysKept
  BY <1>1 DEF OwnKeys
<1>2. CASE UNCHANGED <<sheet, used>>
  BY <1>2 DEF OwnKeys
<1>3. CASE KeysSame /\ used' = used
  BY <1>1, <1>3
<1>4. ASSUME NEW r \in Runs, TakeKey(r) PROVE OwnKeys' /\ KeysKept
  <2>1. None \notin Keys
    BY SheetSyncAssumption
  <2>2. CASE UNCHANGED <<sheet, used>>
    BY <1>2, <2>2
  <2>3. ASSUME NEW k \in Keys \ used, at[r] \in Rows,
               used' = used \cup {k}, sheet[at[r]].key = None,
               sheet'[at[r]].who = sheet[at[r]].who, sheet'[at[r]].key = k,
               \A j \in Rows \ {at[r]} : sheet'[j] = sheet[j]
        PROVE  OwnKeys' /\ KeysKept
    BY <2>1, <2>3 DEF OwnKeys
  <2> QED
    BY <1>4, <2>2, <2>3, TakeKeyStep
<1>5. \/ UNCHANGED <<sheet, used>>
      \/ KeysSame /\ used' = used
      \/ \E r \in Runs : TakeKey(r)
  <2>1. \/ UNCHANGED <<sheet, used>>
        \/ used' = used /\ \E i \in Rows : EditRow(i)
        \/ used' = used /\ \E r \in Runs : \/ NamelessRow(r) \/ MarkSynced(r)
                                           \/ MarkError(r) \/ WriteLeadId(r)
        \/ \E r \in Runs : TakeKey(r)
    BY ZenonT(60) DEF Next, RunStep, ServerStep, NoMove, EditLead, DeleteLead, BeginRun,
           EndRun, SkipRow, Post, KillRun, FindLead, RepairLead, InsertLead,
           LogLead, Forget, Fail, vars, EditRow, NamelessRow, MarkSynced,
           MarkError, WriteLeadId
  <2> QED
    BY <2>1, CellStep
<1> QED
  BY <1>2, <1>3, <1>4, <1>5

\* The rows still to be visited stay as they were read: only the one active
\* run gives keys, and only to the row it is at.
LEMMA SnapStep ==
    ASSUME NoMove, TypeOK, LocalsSet, KeyInv, SnapFresh, [Next]_vars
    PROVE  SnapFresh'
<1>0. /\ at \in [Runs -> Nat \ {0}]
      /\ runPc \in [Runs -> RunPcs]
      /\ snap \in [Runs -> [Rows -> RowDoc]]
      /\ Rows \subseteq Nat
  BY DEF TypeOK, Rows
<1>1. ASSUME KeysSame, UNCHANGED snap,
             \A r \in Runs : runPc'[r] # "idle" => runPc[r] # "idle",
             \A r \in Runs, i \in Rows : Unvisited(r, i)' => Unvisited(r, i)
      PROVE  SnapFresh'
  BY <1>1 DEF SnapFresh, KeysSame
<1>2. ASSUME KeysSame, UNCHANGED <<snap, runPc, at>> PROVE SnapFresh'
  BY <1>1, <1>2 DEF Unvisited
<1>3. UNCHANGED sheet => KeysSame
  BY DEF KeysSame
<1>4. ASSUME NEW r \in Runs, NEW rep \in BOOLEAN, BeginRun(r, rep) PROVE SnapFresh'
  BY <1>0, <1>4 DEF BeginRun, FirstRow, SnapFresh, Unvisited
<1>5. ASSUME NEW r \in Runs, Leave(r), UNCHANGED sheet PROVE SnapFresh'
  BY <1>0, <1>5 DEF Leave, SnapFresh, Unvisited
<1>6. ASSUME NEW r \in Runs, UNCHANGED <<runPc, snap>>, KeysSame, AtRow(r),
             at' = [at EXCEPT ![r] = @ + 1]
      PROVE  SnapFresh'
  BY <1>0, <1>1, <1>6 DEF Unvisited, AtRow
<1>7. ASSUME NEW r \in Runs, TakeKey(r) PROVE SnapFresh'
  <2>1. /\ at[r] \in Rows /\ runPc[r] = "rows" /\ snap' = snap
        /\ \A j \in Rows \ {at[r]} : sheet'[j] = sheet[j]
    BY <1>7, TakeKeyStep
  <2>2. \A q \in Runs \ {r} : runPc[q] = "idle"
    BY <2>1 DEF KeyInv, Active
  <2>3. runPc' = [runPc EXCEPT ![r] = "post"] /\ at' = at
    BY <1>7 DEF TakeKey
  <2>4. \A q \in Runs, i \in Rows :
           Unvisited(q, i)' => Unvisited(q, i) /\ i # at[r]
    <3>1. runPc'[r] = "post" /\ \A q \in Runs \ {r} : runPc'[q] = "idle"
      BY <1>0, <2>2, <2>3
    <3>2. \A i \in Rows : Unvisited(r, i)' => i > at[r]
      BY <2>3, <3>1 DEF Unvisited
    <3>3. \A i \in Rows : i > at[r] => Unvisited(r, i) /\ i # at[r]
      <4>1. at[r] \in Nat /\ \A i \in Rows : i \in Nat
        BY <1>0
      <4>2. \A i \in Rows : i > at[r] => i >= at[r] /\ i # at[r]
        BY <4>1
      <4> QED
        BY <2>1, <4>2 DEF Unvisited
    <3>4. ASSUME NEW q \in Runs \ {r}, NEW i \in Rows PROVE ~Unvisited(q, i)'
      BY <3>1 DEF Unvisited
    <3> QED
      BY <3>2, <3>3, <3>4
  <2>5. \A q \in Runs : runPc'[q] # "idle" => runPc[q] # "idle"
    BY <1>0, <2>1, <2>3
  <2>6. sheet'[at[r]].who = sheet[at[r]].who
    BY <1>7, TakeKeyStep
  <2> QED
    BY <2>1, <2>4, <2>5, <2>6 DEF SnapFresh
<1>8. ASSUME NEW r \in Runs, KeysSame, UNCHANGED <<snap, at>>,
             runPc[r] \in {"post", "wait"},
             \E pc \in {"wait", "link"} : runPc' = [runPc EXCEPT ![r] = pc]
      PROVE  SnapFresh'
  BY <1>0, <1>1, <1>8 DEF Unvisited
<1>9. ASSUME NEW r \in Runs, KeysSame, NextRow(r), runPc[r] \in {"wait", "link"}
      PROVE  SnapFresh'
  <2>1. /\ runPc'[r] = "rows" /\ at'[r] = at[r] + 1 /\ snap' = snap
        /\ \A q \in Runs \ {r} : runPc'[q] = runPc[q] /\ at'[q] = at[q]
    BY <1>0, <1>9 DEF NextRow
  <2>2. \A i \in Rows : i >= at[r] + 1 => i > at[r]
    <3>1. at[r] \in Nat /\ \A i \in Rows : i \in Nat
      BY <1>0, <1>9
    <3>2. \A m, n \in Nat : n >= m + 1 => n > m
      OBVIOUS
    <3> QED
      BY <3>1, <3>2
  <2>3. \A q \in Runs, i \in Rows : Unvisited(q, i)' => Unvisited(q, i)
    <3>1. \A i \in Rows : Unvisited(r, i)' => Unvisited(r, i)
      BY <1>9, <2>1, <2>2 DEF Unvisited
    <3>2. ASSUME NEW q \in Runs \ {r} PROVE \A i \in Rows : Unvisited(q, i)' => Unvisited(q, i)
      BY <2>1 DEF Unvisited
    <3> QED
      BY <3>1, <3>2
  <2> QED
    BY <1>1, <1>9, <2>1, <2>3
<1>10. ASSUME NEW r \in Runs, RunStep(r) PROVE SnapFresh'
  <2>1. CASE EndRun(r)
    BY <1>5, <2>1 DEF EndRun
  <2>2. CASE SkipRow(r)
    BY <1>3, <1>6, <2>2 DEF SkipRow
  <2>3. CASE NamelessRow(r)
    BY <1>6, <2>3, CellStep DEF NamelessRow
  <2>4. CASE Post(r)
    BY <1>3, <1>8, <2>4 DEF Post
  <2>5. CASE MarkSynced(r)
    BY <1>8, <2>5, CellStep DEF MarkSynced
  <2>6. CASE WriteLeadId(r) \/ MarkError(r)
    BY <1>9, <2>6, CellStep DEF WriteLeadId, MarkError
  <2> QED
    BY <1>7, <1>10, <2>1, <2>2, <2>3, <2>4, <2>5, <2>6 DEF RunStep
<1>11. ASSUME NEW r \in Runs, KillRun(r) PROVE SnapFresh'
  BY <1>5, <1>11 DEF KillRun
<1>12. CASE UNCHANGED <<sheet, snap, runPc, at>>
  BY <1>2, <1>3, <1>12
<1>13. ASSUME NEW i \in Rows, EditRow(i) PROVE SnapFresh'
  BY <1>2, <1>13, CellStep DEF EditRow, runVars
<1>14. \/ UNCHANGED <<sheet, snap, runPc, at>>
       \/ \E i \in Rows : EditRow(i)
       \/ \E r \in Runs : RunStep(r) \/ KillRun(r) \/ \E rep \in BOOLEAN : BeginRun(r, rep)
  BY DEF Next, ServerStep, NoMove, EditLead, DeleteLead, FindLead, RepairLead,
         InsertLead, LogLead, Forget, Fail, vars, runVars
<1> QED
  BY <1>4, <1>10, <1>11, <1>12, <1>13, <1>14

\* A row that has a key is found again afterwards.
LEMMA RowKept ==
    ASSUME KeysKept, NEW w, NEW k, HasRow(w, k)
    PROVE  HasRow(w, k)'
BY DEF KeysKept, HasRow

\* When the sheet is sorted between runs the rows have only other places.
LEMMA MoveStep ==
    ASSUME ~RowsMove, TypeOK, RowInv, NEW i \in Rows, NEW j \in Rows, MoveRows(i, j)
    PROVE  RowInv'
<1>1. /\ sheet' = [sheet EXCEPT ![i] = sheet[j], ![j] = sheet[i]]
      /\ UNCHANGED <<leads, used, runPc, req>>
      /\ sheet \in [Rows -> RowDoc]
      /\ i # j
  BY DEF MoveRows, runVars, TypeOK, Rows
<1>2. \A r \in Runs : runPc[r] = "idle" /\ req[r].pc = "none"
  BY DEF MoveRows, Quiet
<1>3. PICK p \in [Rows -> Rows] :
         /\ \A a \in Rows : sheet'[a] = sheet[p[a]] /\ p[p[a]] = a
  <2> DEFINE q == [a \in Rows |-> IF a = i THEN j ELSE IF a = j THEN i ELSE a]
  <2>1. q \in [Rows -> Rows] /\ \A a \in Rows : q[q[a]] = a
    OBVIOUS
  <2>2. \A a \in Rows : sheet'[a] = sheet[q[a]]
    BY <1>1
  <2> QED
    BY <2>1, <2>2
<1>4. OwnKeys'
  BY <1>1, <1>3 DEF RowInv, OwnKeys
<1>5. SnapFresh' /\ RequestKeyed'
  BY <1>1, <1>2 DEF SnapFresh, RequestKeyed, Unvisited
<1>6. ASSUME NEW w, NEW k, HasRow(w, k) PROVE HasRow(w, k)'
  BY <1>3, <1>6 DEF HasRow
<1>7. LeadKeyed'
  BY <1>1, <1>6 DEF RowInv, LeadKeyed, Live
<1> QED
  BY <1>4, <1>5, <1>7 DEF RowInv

\* Posts and requests carry their row's key.
LEMMA RequestStep ==
    ASSUME NoMove, TypeOK, LocalsSet, SnapFresh, RequestKeyed, KeysKept, [Next]_vars
    PROVE  RequestKeyed'
<1>0. /\ runPc \in [Runs -> RunPcs]
      /\ req \in [Runs -> Request]
      /\ runKey \in [Runs -> Keys \cup {None}]
      /\ at \in [Runs -> Nat \ {0}]
      /\ None \notin Keys
  BY SheetSyncAssumption DEF TypeOK
<1>1. ASSUME \A q \in Runs : runPc'[q] = "post" =>
                 runPc[q] = "post" /\ at'[q] = at[q] /\ runKey'[q] = runKey[q],
             \A q \in Runs : req'[q].pc # "none" =>
                 /\ req[q].pc # "none"
                 /\ req'[q].who = req[q].who /\ req'[q].key = req[q].key
      PROVE  RequestKeyed'
  <2>1. \A q \in Runs : runPc[q] = "post" => at[q] \in Rows
    BY DEF LocalsSet
  <2> QED
    BY <1>1, <2>1, RowKept DEF RequestKeyed, KeysKept
<1>2. ASSUME UNCHANGED <<runPc, at, runKey, req>> PROVE RequestKeyed'
  <2>1. \A q \in Runs : runPc[q] = "post" => at[q] \in Rows
    BY DEF LocalsSet
  <2> QED
    BY <1>2, <2>1, RowKept DEF RequestKeyed, KeysKept
<1>3. ASSUME NEW r \in Runs, NEW rep \in BOOLEAN, BeginRun(r, rep)
      PROVE  RequestKeyed'
  BY <1>0, <1>1, <1>3 DEF BeginRun
<1>4. ASSUME NEW r \in Runs, Leave(r), UNCHANGED req PROVE RequestKeyed'
  BY <1>0, <1>1, <1>4 DEF Leave
<1>5. ASSUME NEW r \in Runs, SkipRow(r) \/ NamelessRow(r) PROVE RequestKeyed'
  BY <1>0, <1>1, <1>5 DEF SkipRow, NamelessRow, AtRow
<1>6. ASSUME NEW r \in Runs, TakeKey(r) PROVE RequestKeyed'
  <2>1. /\ runPc' = [runPc EXCEPT ![r] = "post"]
        /\ at' = at /\ req' = req /\ at[r] \in Rows
        /\ \A q \in Runs \ {r} : runKey'[q] = runKey[q]
    BY <1>0, <1>6 DEF TakeKey, AtRow
  <2>2. runKey'[r] # None /\ runKey'[r] = sheet'[at[r]].key
    <3>1. CASE sheet' # sheet \/ used' # used
      BY <1>0, <1>6, <3>1, TakeKeyStep
    <3>2. CASE sheet' = sheet /\ used' = used
      <4>1. Row(r).key # None /\ runKey' = [runKey EXCEPT ![r] = Row(r).key]
        BY <1>6, <3>2 DEF TakeKey
      <4>2. Unvisited(r, at[r])
        BY <1>0, <1>6 DEF TakeKey, AtRow, Unvisited
      <4>3. Row(r).key = sheet[at[r]].key
        <5>1. runPc[r] # "idle"
          BY <1>6 DEF TakeKey, AtRow
        <5> QED
          BY <2>1, <4>2, <5>1 DEF SnapFresh, Row
      <4> QED
        BY <1>0, <3>2, <4>1, <4>3
    <3> QED
      BY <3>1, <3>2
  <2>3. \A q \in Runs : runPc[q] = "post" => at[q] \in Rows
    BY DEF LocalsSet
  <2> QED
    BY <1>0, <2>1, <2>2, <2>3, RowKept DEF RequestKeyed, KeysKept
<1>7. ASSUME NEW r \in Runs, Post(r) PROVE RequestKeyed'
  <2>1. /\ runPc' = [runPc EXCEPT ![r] = "wait"]
        /\ at' = at /\ runKey' = runKey /\ sheet' = sheet
        /\ runPc[r] = "post" /\ at[r] \in Rows
        /\ \A q \in Runs \ {r} : req'[q] = req[q]
        /\ req'[r].key = runKey[r] /\ req'[r].who = Row(r).who
    BY <1>0, <1>7 DEF Post, runVars, LocalsSet
  <2>2. Row(r).who = sheet[at[r]].who
    BY <2>1 DEF SnapFresh, Row
  <2>3. HasRow(Row(r).who, runKey[r])
    BY <2>1, <2>2 DEF RequestKeyed, HasRow
  <2>4. \A q \in Runs \ {r} : runPc'[q] = runPc[q]
    BY <1>0, <2>1
  <2>5. \A q \in Runs : req'[q].pc # "none" => HasRow(req'[q].who, req'[q].key)
    BY <2>1, <2>3 DEF RequestKeyed
  <2> QED
    BY <1>0, <2>1, <2>4, <2>5, RowKept DEF RequestKeyed
<1>8. ASSUME NEW r \in Runs, MarkSynced(r) PROVE RequestKeyed'
  BY <1>0, <1>1, <1>8 DEF MarkSynced
<1>9. ASSUME NEW r \in Runs, NextRow(r) PROVE RequestKeyed'
  <2>1. NoRequest.pc = "none"
    BY DEF NoRequest
  <2> QED
    BY <1>0, <1>1, <1>9, <2>1 DEF NextRow
<1>10. ASSUME NEW r \in Runs, NEW pc, NEW l, Server(r, pc, l), req[r].pc # "none",
              UNCHANGED runVars
       PROVE  RequestKeyed'
  <2>1. /\ req'[r].key = req[r].key /\ req'[r].who = req[r].who
        /\ \A q \in Runs \ {r} : req'[q] = req[q]
    BY <1>0, <1>10, ServerEffect
  <2> QED
    BY <1>1, <1>10, <2>1 DEF runVars
<1>11. ASSUME NEW r \in Runs, ServerStep(r) \/ Fail(r) PROVE RequestKeyed'
  <2>1. CASE Forget(r)
    <3>1. NoRequest.pc = "none"
      BY DEF NoRequest
    <3> QED
      BY <1>0, <1>1, <2>1, <3>1 DEF Forget, runVars
  <2>2. CASE FindLead(r)
    BY <1>10, <2>2 DEF FindLead
  <2>3. CASE RepairLead(r) \/ InsertLead(r)
    BY <1>10, <2>3 DEF RepairLead, InsertLead
  <2>4. CASE LogLead(r) \/ Fail(r)
    BY <1>10, <2>4 DEF LogLead, Fail
  <2> QED
    BY <1>11, <2>1, <2>2, <2>3, <2>4 DEF ServerStep
<1>12. ASSUME NEW r \in Runs, RunStep(r) \/ KillRun(r) PROVE RequestKeyed'
  BY <1>4, <1>5, <1>6, <1>7, <1>8, <1>9, <1>12
  DEF RunStep, EndRun, KillRun, WriteLeadId, MarkError
<1>13. \/ UNCHANGED <<runPc, at, runKey, req>>
       \/ \E r \in Runs : RunStep(r) \/ KillRun(r) \/ ServerStep(r) \/ Fail(r)
                            \/ \E rep \in BOOLEAN : BeginRun(r, rep)
  BY DEF Next, NoMove, EditRow, EditLead, DeleteLead, vars, runVars
<1> QED
  BY <1>2, <1>3, <1>11, <1>12, <1>13

\* Leads carry the key of the row they came from.
LEMMA LeadStep ==
    ASSUME TypeOK, RequestKeyed, LeadKeyed, KeysKept, [Next]_vars
    PROVE  LeadKeyed'
<1>0. leads \in [Leads -> LeadDoc]
  BY DEF TypeOK
<1>1. ASSUME \A l \in Leads : leads'[l].state = "live" =>
                 /\ leads[l].state = "live"
                 /\ leads'[l].who = leads[l].who /\ leads'[l].key = leads[l].key
      PROVE  LeadKeyed'
  BY <1>1, RowKept DEF LeadKeyed, Live
<1>2. ASSUME NEW l \in Leads, EditLead(l) PROVE LeadKeyed'
  BY <1>0, <1>1, <1>2 DEF EditLead, LeadDoc
<1>3. ASSUME NEW l \in Leads, DeleteLead(l) PROVE LeadKeyed'
  BY <1>0, <1>1, <1>3 DEF DeleteLead, LeadDoc
<1>4. ASSUME NEW r \in Runs, RepairLead(r) PROVE LeadKeyed'
  BY <1>0, <1>1, <1>4 DEF RepairLead, LeadDoc
<1>5. ASSUME NEW r \in Runs, InsertLead(r) PROVE LeadKeyed'
  <2>1. PICK l \in Leads :
           leads' = [leads EXCEPT ![l] =
                       [state |-> "live", key |-> req[r].key, who |-> req[r].who,
                        name |-> req[r].name, contact |-> "sheet"]]
    BY <1>5 DEF InsertLead
  <2>2. HasRow(req[r].who, req[r].key)
    BY <1>5 DEF InsertLead, RequestKeyed
  <2>3. leads'[l].who = req[r].who /\ leads'[l].key = req[r].key
    BY <1>0, <2>1
  <2>4. \A m \in Leads \ {l} : leads'[m] = leads[m]
    BY <1>0, <2>1
  <2>5. ASSUME NEW m \in Leads, leads'[m].state = "live"
        PROVE  HasRow(leads'[m].who, leads'[m].key)
    BY <2>2, <2>3, <2>4, <2>5 DEF LeadKeyed, Live
  <2> QED
    BY <2>5, RowKept DEF LeadKeyed, Live
<1>6. \/ UNCHANGED leads
      \/ \E l \in Leads : EditLead(l) \/ DeleteLead(l)
      \/ \E r \in Runs : RepairLead(r) \/ InsertLead(r)
  BY DEF Next, RunStep, ServerStep, MoveRows, EditRow, BeginRun, EndRun, SkipRow,
         NamelessRow, TakeKey, Post, MarkSynced, WriteLeadId, MarkError, KillRun,
         FindLead, LogLead, Forget, Fail, vars
<1> QED
  BY <1>1, <1>2, <1>3, <1>4, <1>5, <1>6

\* RowInv: when runs do not overlap and the sheet is sorted between runs only,
\* rows have keys of their own, and requests and leads that of their row.
THEOREM RowInvariant == ASSUME ~Overlap, ~RowsMove PROVE Spec => [](KeyInv /\ RowInv)
<1> DEFINE Inv == LocalsSet /\ KeyInv /\ RowInv
<1>1. Init => Inv
  <2> SUFFICES ASSUME Init PROVE Inv
    OBVIOUS
  <2>1. KeyInv
    BY DEF Init, KeyInv, OneLeadPerKey, Live, NoLead, Active, NoRequest
  <2>2. PICK n \in [Rows -> Names], v \in [Rows -> Valids] :
             sheet = [i \in Rows |-> NewRow(i, n[i], v[i])]
    BY DEF Init
  <2>3. \A i \in Rows : sheet[i].who = i /\ sheet[i].key = None
    BY <2>2 DEF NewRow
  <2>5. /\ \A r \in Runs : runPc[r] = "idle" /\ req[r].pc = "none"
        /\ \A l \in Leads : ~Live(l)
    BY DEF Init, NoRequest, NoLead, Live
  <2> QED
    BY <2>1, <2>3, <2>5
    DEF RowInv, OwnKeys, SnapFresh, Unvisited, RequestKeyed, LeadKeyed, LocalsSet
<1>2. TypeOK /\ Inv /\ [Next]_vars => Inv'
  <2> SUFFICES ASSUME TypeOK, Inv, [Next]_vars PROVE Inv'
    OBVIOUS
  <2>1. LocalsSet'
    BY LocalsStep
  <2>2. KeyInv'
    BY KeyStep DEF TypeOK
  <2>3. CASE NoMove
    <3>1. OwnKeys' /\ KeysKept
      BY <2>3, SheetStep DEF RowInv
    <3>2. SnapFresh'
      BY <2>3, SnapStep DEF RowInv
    <3>3. RequestKeyed' /\ LeadKeyed'
      BY <2>3, <3>1, RequestStep, LeadStep DEF RowInv
    <3> QED
      BY <2>1, <2>2, <3>1, <3>2, <3>3 DEF RowInv
  <2>4. CASE ~NoMove
    BY <2>1, <2>2, <2>4, MoveStep DEF NoMove
  <2> QED
    BY <2>3, <2>4
<1>3. Inv => KeyInv /\ RowInv
  OBVIOUS
<1> QED
  BY <1>1, <1>2, <1>3, TypeCorrect, PTL DEF Spec

\* "Propzel Row Key is kept with the row so retries and future runs cannot
\* create a duplicate lead": true of any number of rows, runs and failures, on
\* the two conditions the code does not enforce. The sheet may be sorted between runs.
THEOREM NoRowTwice == ASSUME ~Overlap, ~RowsMove PROVE Spec => []OneLeadPerRow
<1>1. KeyInv /\ RowInv => OneLeadPerRow
  <2> SUFFICES ASSUME KeyInv, RowInv, NEW l \in Leads, NEW m \in Leads, Live(l), Live(m),
                      leads[l].who = leads[m].who
               PROVE  l = m
    BY DEF OneLeadPerRow
  <2>1. HasRow(leads[l].who, leads[l].key) /\ HasRow(leads[m].who, leads[m].key)
    BY DEF RowInv, LeadKeyed
  <2>2. leads[l].key = leads[m].key
    BY <2>1 DEF RowInv, OwnKeys, HasRow
  <2> QED
    BY <2>2 DEF KeyInv, OneLeadPerKey
<1> QED
  BY <1>1, RowInvariant, PTL

-----------------------------------------------------------------------------
(***************************************************************************)
(* Rows, requests and the leads they are about.                            *)
(***************************************************************************)

\* A lead that was deleted, or logged unless a request failed.
KeptLead(l) ==
    \/ leads[l].state = "deleted"
    \/ leads[l].state = "live" /\ (l \in logged \/ errors > 0)

\* A lead of the row w with the key k.
IsLead(l, w, k) ==
    l \in Leads /\ leads[l].state # "absent" /\ leads[l].who = w /\ leads[l].key = k

\* A request past its lookup or insert has a lead of its row, and one that did
\* not just insert it, a kept one.
HasLead(r) ==
    req[r].pc \in {"repair", "log", "ok"} =>
        /\ IsLead(req[r].lead, req[r].who, req[r].key)
        /\ req[r].pc # "log" => KeptLead(req[r].lead)

RequestLead == \A r \in Runs : HasLead(r)

\* A run that waits for an answer has a request about the row it is at.
RunRequest ==
    \A r \in Runs :
        /\ runPc[r] \in {"rows", "post"} => req[r].pc = "none"
        /\ runPc[r] \in {"wait", "link"} =>
              req[r].pc # "none" /\ req[r].who = sheet[at[r]].who
        /\ runPc[r] = "link" => req[r].pc = "ok"

\* A live lead is logged unless a request failed or is about to log it; leads
\* have keys.
LeadsLogged ==
    \A l \in Leads :
        /\ leads[l].state # "absent" => leads[l].key # None
        /\ Live(l) => \/ KeptLead(l)
                      \/ \E r \in Runs : req[r].pc = "log" /\ req[r].lead = l

\* The lead id of a row is its lead's, and a row marked Synced has a kept lead.
RowHasLead(i) ==
    /\ sheet[i].lead # None => IsLead(sheet[i].lead, sheet[i].who, sheet[i].key)
    /\ sheet[i].status = "Synced" => \E l \in Leads : leads[l].who = sheet[i].who /\ KeptLead(l)

RowLead == \A i \in Rows : RowHasLead(i)

LinkInv == RequestLead /\ RunRequest /\ LeadsLogged /\ RowLead

\* Leads stay, with their row and key, and kept ones stay kept.
LEMMA LeadsStay ==
    ASSUME TypeOK, [Next]_vars, NEW l \in Leads, leads[l].state # "absent"
    PROVE  /\ leads'[l].state # "absent" /\ leads'[l].who = leads[l].who /\ leads'[l].key = leads[l].key
           /\ KeptLead(l) => KeptLead(l)'
<1>0. leads \in [Leads -> LeadDoc] /\ errors \in Nat
  BY DEF TypeOK
<1>1. ASSUME UNCHANGED leads, logged \subseteq logged', errors' = errors \/ errors' = errors + 1
      PROVE  /\ leads'[l].state # "absent" /\ leads'[l].who = leads[l].who /\ leads'[l].key = leads[l].key
             /\ KeptLead(l) => KeptLead(l)'
  BY <1>0, <1>1 DEF KeptLead
<1>2. ASSUME NEW m \in Leads, EditLead(m)
      PROVE  /\ leads'[l].state # "absent" /\ leads'[l].who = leads[l].who /\ leads'[l].key = leads[l].key
             /\ KeptLead(l) => KeptLead(l)'
  BY <1>0, <1>2 DEF EditLead, KeptLead, LeadDoc
<1>3. ASSUME NEW m \in Leads, DeleteLead(m)
      PROVE  /\ leads'[l].state # "absent" /\ leads'[l].who = leads[l].who /\ leads'[l].key = leads[l].key
             /\ KeptLead(l) => KeptLead(l)'
  BY <1>0, <1>3 DEF DeleteLead, KeptLead, LeadDoc
<1>4. ASSUME NEW r \in Runs, RepairLead(r)
      PROVE  /\ leads'[l].state # "absent" /\ leads'[l].who = leads[l].who /\ leads'[l].key = leads[l].key
             /\ KeptLead(l) => KeptLead(l)'
  BY <1>0, <1>4 DEF RepairLead, KeptLead, LeadDoc
<1>5. ASSUME NEW r \in Runs, InsertLead(r)
      PROVE  /\ leads'[l].state # "absent" /\ leads'[l].who = leads[l].who /\ leads'[l].key = leads[l].key
             /\ KeptLead(l) => KeptLead(l)'
  BY <1>0, <1>5 DEF InsertLead, KeptLead
<1>6. \/ UNCHANGED leads /\ logged \subseteq logged' /\ (errors' = errors \/ errors' = errors + 1)
      \/ \E m \in Leads : EditLead(m) \/ DeleteLead(m)
      \/ \E r \in Runs : RepairLead(r) \/ InsertLead(r)
  BY ZenonT(60) DEF Next, RunStep, ServerStep, MoveRows, EditRow, BeginRun, EndRun, SkipRow,
         NamelessRow, TakeKey, Post, MarkSynced, WriteLeadId, MarkError, KillRun,
         FindLead, LogLead, Forget, Fail, vars
<1> QED
  BY <1>1, <1>2, <1>3, <1>4, <1>5, <1>6

\* One key, one row.
LEMMA KeyOfOneRow ==
    ASSUME OwnKeys, NEW v, NEW w, NEW k, HasRow(v, k), HasRow(w, k)
    PROVE  v = w
BY DEF OwnKeys, HasRow

LEMMA RequestLeadStep ==
    ASSUME TypeOK, KeyInv, RowInv, RequestLead, LeadsLogged, [Next]_vars
    PROVE  RequestLead'
<1>0. req \in [Runs -> Request] /\ leads \in [Leads -> LeadDoc]
  BY DEF TypeOK
<1>1. ASSUME NEW r \in Runs, req'[r] = req[r] PROVE HasLead(r)'
  <2>1. CASE req[r].pc \in {"repair", "log", "ok"}
    <3>1. PICK l \in Leads : HasLead(r) /\ l = req[r].lead /\ leads[l].state # "absent"
      BY <2>1 DEF RequestLead, HasLead, IsLead
    <3>2. /\ leads'[l].state # "absent" /\ leads'[l].who = leads[l].who /\ leads'[l].key = leads[l].key
          /\ KeptLead(l) => KeptLead(l)'
      BY <3>1, LeadsStay
    <3> QED
      BY <1>1, <2>1, <3>1, <3>2 DEF HasLead, IsLead, KeptLead
  <2> QED
    BY <1>1, <2>1 DEF HasLead
<1>2. ASSUME NEW r \in Runs, \A q \in Runs \ {r} : req'[q] = req[q], HasLead(r)'
      PROVE  RequestLead'
  BY <1>1, <1>2 DEF RequestLead
<1>3. CASE req' = req
  BY <1>1, <1>3 DEF RequestLead
<1>4. ASSUME NEW r \in Runs, Post(r) \/ NextRow(r) \/ Forget(r) \/ Fail(r) PROVE RequestLead'
  <2>1. /\ req'[r].pc \notin {"repair", "log", "ok"}
        /\ \A q \in Runs \ {r} : req'[q] = req[q]
    BY <1>0, <1>4, ServerEffect DEF Post, NextRow, Forget, Fail, NoRequest
  <2> QED
    BY <1>2, <2>1 DEF HasLead
<1>5. ASSUME NEW r \in Runs, FindLead(r) PROVE RequestLead'
  <2>1. CASE Server(r, "insert", None)
    <3>1. /\ req'[r].pc = "insert" /\ \A q \in Runs \ {r} : req'[q] = req[q]
      BY <1>0, <2>1, ServerEffect
    <3> QED
      BY <1>2, <3>1 DEF HasLead
  <2>2. ASSUME NEW l \in Matching(req[r].key), NEW pc \in {"repair", "ok"}, Server(r, pc, l)
        PROVE  RequestLead'
    <3>1. /\ req'[r].pc = pc /\ req'[r].lead = l /\ \A q \in Runs \ {r} : req'[q] = req[q]
          /\ req'[r].who = req[r].who /\ req'[r].key = req[r].key
      BY <1>0, <2>2, ServerEffect
    <3>2. l \in Leads /\ Live(l) /\ leads[l].key = req[r].key /\ req[r].pc = "find"
      BY <1>5, <2>2 DEF Matching, Live, FindLead
    <3>3. HasRow(leads[l].who, req[r].key) /\ HasRow(req[r].who, req[r].key)
      BY <3>2 DEF RowInv, LeadKeyed, RequestKeyed
    <3>4. leads[l].who = req[r].who
      BY <3>3, KeyOfOneRow DEF RowInv
    <3>5. KeptLead(l)
      <4>1. ASSUME NEW q \in Runs, req[q].pc = "log" PROVE FALSE
        BY <3>2, <4>1 DEF KeyInv, Active
      <4> QED
        BY <3>2, <4>1 DEF LeadsLogged
    <3>6. UNCHANGED <<leads, logged, errors>>
      BY <1>5 DEF FindLead
    <3> QED
      BY <1>2, <3>1, <3>2, <3>4, <3>5, <3>6 DEF HasLead, IsLead, KeptLead, Live
  <2>3. \/ Server(r, "insert", None)
        \/ \E l \in Matching(req[r].key), pc \in {"repair", "ok"} : Server(r, pc, l)
    BY <1>5 DEF FindLead, Existing
  <2> QED
    BY <2>1, <2>2, <2>3
<1>6. ASSUME NEW r \in Runs, RepairLead(r) PROVE RequestLead'
  <2>1. /\ req'[r].pc = "ok" /\ req'[r].lead = req[r].lead /\ \A q \in Runs \ {r} : req'[q] = req[q]
        /\ req'[r].who = req[r].who /\ req'[r].key = req[r].key /\ req[r].pc = "repair"
    BY <1>0, <1>6, ServerEffect DEF RepairLead
  <2>2. IsLead(req[r].lead, req[r].who, req[r].key) /\ KeptLead(req[r].lead)
    BY <2>1 DEF RequestLead, HasLead
  <2>5. PICK l \in Leads : l = req[r].lead
    BY <2>2 DEF IsLead
  <2>3. /\ leads'[l].state # "absent" /\ leads'[l].who = leads[l].who /\ leads'[l].key = leads[l].key
        /\ KeptLead(l)'
    BY <2>2, <2>5, LeadsStay DEF IsLead
  <2>4. HasLead(r)'
    BY <2>1, <2>2, <2>5, <2>3 DEF HasLead, IsLead, KeptLead
  <2> QED
    BY <1>2, <2>1, <2>4
<1>7. ASSUME NEW r \in Runs, InsertLead(r) PROVE RequestLead'
  <2>1. PICK l \in Leads :
           /\ Server(r, "log", l)
           /\ leads' = [leads EXCEPT ![l] =
                         [state |-> "live", key |-> req[r].key, who |-> req[r].who,
                          name |-> req[r].name, contact |-> "sheet"]]
    BY <1>7 DEF InsertLead
  <2>2. /\ req'[r].pc = "log" /\ req'[r].lead = l /\ \A q \in Runs \ {r} : req'[q] = req[q]
        /\ req'[r].who = req[r].who /\ req'[r].key = req[r].key
    BY <1>0, <2>1, ServerEffect
  <2> QED
    BY <1>0, <1>2, <2>1, <2>2 DEF HasLead, IsLead
<1>8. ASSUME NEW r \in Runs, LogLead(r) PROVE RequestLead'
  <2>1. /\ req'[r].pc = "ok" /\ req'[r].lead = req[r].lead /\ \A q \in Runs \ {r} : req'[q] = req[q]
        /\ req'[r].who = req[r].who /\ req'[r].key = req[r].key /\ req[r].pc = "log"
        /\ leads' = leads /\ req[r].lead \in logged'
    BY <1>0, <1>8, ServerEffect DEF LogLead
  <2>2. IsLead(req[r].lead, req[r].who, req[r].key)
    BY <2>1 DEF RequestLead, HasLead
  <2>3. HasLead(r)'
    BY <1>0, <2>1, <2>2 DEF HasLead, KeptLead, IsLead, LeadDoc
  <2> QED
    BY <1>2, <2>1, <2>3
<1>9. \/ req' = req
      \/ \E r \in Runs : \/ Post(r) \/ NextRow(r) \/ Forget(r) \/ Fail(r) \/ FindLead(r)
                         \/ RepairLead(r) \/ InsertLead(r) \/ LogLead(r)
  BY DEF Next, RunStep, ServerStep, MoveRows, EditRow, EditLead, DeleteLead, BeginRun, EndRun,
         SkipRow, NamelessRow, TakeKey, MarkSynced, WriteLeadId, MarkError, KillRun, vars
<1> QED
  BY <1>3, <1>4, <1>5, <1>6, <1>7, <1>8, <1>9

LEMMA LeadsLoggedStep ==
    ASSUME TypeOK, RowInv, RequestLead, RunRequest, LeadsLogged, [Next]_vars
    PROVE  LeadsLogged'
<1>0. /\ req \in [Runs -> Request] /\ leads \in [Leads -> LeadDoc] /\ errors \in Nat
  BY DEF TypeOK
<1>1. ASSUME NEW l \in Leads, leads[l].state # "absent",
             \A r \in Runs : req[r].pc = "log" /\ req[r].lead = l =>
                 (req'[r].pc = "log" /\ req'[r].lead = l) \/ errors' > 0 \/ l \in logged'
      PROVE  /\ leads'[l].key # None
             /\ Live(l)' => \/ KeptLead(l)'
                            \/ \E r \in Runs : req'[r].pc = "log" /\ req'[r].lead = l
  <2>1. leads[l].key # None /\ leads'[l].key = leads[l].key /\ (KeptLead(l) => KeptLead(l)')
    BY <1>1, LeadsStay DEF LeadsLogged
  <2>2. ASSUME Live(l)', ~KeptLead(l)
        PROVE  KeptLead(l)' \/ \E r \in Runs : req'[r].pc = "log" /\ req'[r].lead = l
    <3>1. Live(l)
      BY <1>0, <1>1, <2>2 DEF KeptLead, Live, LeadDoc
    <3>2. PICK r \in Runs : req[r].pc = "log" /\ req[r].lead = l
      BY <2>2, <3>1 DEF LeadsLogged
    <3> QED
      BY <1>1, <2>2, <3>2 DEF KeptLead, Live
  <2> QED
    BY <2>1, <2>2
<1>2. ASSUME NEW r \in Runs, req[r].pc = "log",
             ~(req'[r].pc = "log" /\ req'[r].lead = req[r].lead)
      PROVE  errors' > 0 \/ req[r].lead \in logged'
  <2>1. runPc[r] \notin {"rows", "post", "link"}
    BY <1>2 DEF RunRequest
  <2>2. req'[r] # req[r]
    BY <1>2
  <2>3. \/ \E q \in Runs : Post(q) \/ Forget(q) \/ FindLead(q) \/ RepairLead(q) \/ InsertLead(q)
                           \/ WriteLeadId(q) \/ MarkError(q)
        \/ \E q \in Runs : LogLead(q) \/ Fail(q)
    BY <2>2 DEF Next, RunStep, ServerStep, MoveRows, EditRow, EditLead, DeleteLead, BeginRun, EndRun,
         SkipRow, NamelessRow, TakeKey, MarkSynced, KillRun, vars
  <2>4. ASSUME NEW q \in Runs, Post(q) \/ Forget(q) \/ FindLead(q) \/ RepairLead(q) \/ InsertLead(q)
                                 \/ WriteLeadId(q) \/ MarkError(q)
        PROVE  FALSE
    <3>1. q = r
      BY <1>0, <2>2, <2>4
      DEF Post, Forget, FindLead, RepairLead, InsertLead, WriteLeadId, MarkError, NextRow, Server
    <3> QED
      BY <1>2, <2>1, <2>4, <3>1
      DEF Post, Forget, FindLead, RepairLead, InsertLead, WriteLeadId, MarkError
  <2>5. ASSUME NEW q \in Runs, LogLead(q) PROVE errors' > 0 \/ req[r].lead \in logged'
    BY <1>0, <2>2, <2>5 DEF LogLead, Server
  <2>6. ASSUME NEW q \in Runs, Fail(q) PROVE errors' > 0 \/ req[r].lead \in logged'
    BY <1>0, <2>6 DEF Fail
  <2> QED
    BY <2>3, <2>4, <2>5, <2>6
<1>3. ASSUME NEW l \in Leads, leads[l].state = "absent"
      PROVE  /\ leads'[l].state # "absent" => leads'[l].key # None
             /\ Live(l)' => \/ KeptLead(l)'
                            \/ \E r \in Runs : req'[r].pc = "log" /\ req'[r].lead = l
  <2>1. CASE leads'[l] = leads[l]
    BY <1>3, <2>1 DEF Live
  <2>2. ASSUME NEW r \in Runs, InsertLead(r), leads'[l] # leads[l]
        PROVE  /\ leads'[l].state # "absent" => leads'[l].key # None
               /\ Live(l)' => \/ KeptLead(l)'
                              \/ \E q \in Runs : req'[q].pc = "log" /\ req'[q].lead = l
    <3>1. PICK m \in Leads :
             /\ Server(r, "log", m)
             /\ leads' = [leads EXCEPT ![m] =
                           [state |-> "live", key |-> req[r].key, who |-> req[r].who,
                            name |-> req[r].name, contact |-> "sheet"]]
      BY <2>2 DEF InsertLead
    <3>2. m = l /\ leads'[l].key = req[r].key
      BY <1>0, <2>2, <3>1
    <3>3. req'[r].pc = "log" /\ req'[r].lead = m
      BY <1>0, <3>1, ServerEffect
    <3>4. req[r].key # None
      BY <2>2 DEF InsertLead, RowInv, RequestKeyed, HasRow
    <3> QED
      BY <3>2, <3>3, <3>4
  <2>3. leads'[l] = leads[l] \/ \E r \in Runs : InsertLead(r)
    <3>1. \A m \in Leads : EditLead(m) \/ DeleteLead(m) => leads'[l] = leads[l]
      BY <1>0, <1>3 DEF EditLead, DeleteLead
    <3>2. \A r \in Runs : RepairLead(r) => leads'[l] = leads[l]
      BY <1>0, <1>3 DEF RepairLead
    <3> QED
      BY <3>1, <3>2 DEF Next, RunStep, ServerStep, MoveRows, EditRow, BeginRun, EndRun, SkipRow,
         NamelessRow, TakeKey, Post, MarkSynced, WriteLeadId, MarkError, KillRun,
         FindLead, LogLead, Forget, Fail, vars
  <2> QED
    BY <2>1, <2>2, <2>3
<1> QED
  BY <1>1, <1>2, <1>3 DEF LeadsLogged, Live

\* A run and the request it waits for stay about the same row.
LEMMA RunRequestStep ==
    ASSUME NoMove, TypeOK, LocalsSet, SnapFresh, KeysKept, RunRequest, [Next]_vars
    PROVE  RunRequest'
<1>0. /\ runPc \in [Runs -> RunPcs] /\ req \in [Runs -> Request]
      /\ \A r \in Runs : runPc[r] \in {"post", "wait", "link"} => at[r] \in Rows
  BY DEF TypeOK, LocalsSet
<1>1. ASSUME UNCHANGED <<runPc, at, req>> PROVE RunRequest'
  BY <1>0, <1>1 DEF RunRequest, KeysKept
<1>2. ASSUME NEW r \in Runs,
             \A q \in Runs \ {r} : runPc'[q] = runPc[q] /\ at'[q] = at[q] /\ req'[q] = req[q],
             runPc'[r] \in {"rows", "post"} => req'[r].pc = "none",
             runPc'[r] \in {"wait", "link"} => req'[r].pc # "none" /\ req'[r].who = sheet'[at'[r]].who,
             runPc'[r] = "link" => req'[r].pc = "ok"
      PROVE  RunRequest'
  BY <1>0, <1>2 DEF RunRequest, KeysKept
<1>3. ASSUME NEW r \in Runs, Leave(r), req' = req PROVE RunRequest'
  BY <1>0, <1>2, <1>3 DEF Leave
<1>4. ASSUME NEW r \in Runs, \E rep \in BOOLEAN : BeginRun(r, rep) PROVE RunRequest'
  BY <1>0, <1>2, <1>4 DEF BeginRun
<1>5. ASSUME NEW r \in Runs, SkipRow(r) \/ NamelessRow(r) PROVE RunRequest'
  <2>1. /\ runPc[r] = "rows" /\ runPc' = runPc /\ req' = req
        /\ at' = [at EXCEPT ![r] = @ + 1]
    BY <1>5 DEF SkipRow, NamelessRow, AtRow
  <2>2. \A q \in Runs \ {r} : at'[q] = at[q]
    BY <1>0, <2>1
  <2>3. req[r].pc = "none"
    BY <2>1 DEF RunRequest
  <2> QED
    BY <1>2, <2>1, <2>2, <2>3
<1>6. ASSUME NEW r \in Runs, TakeKey(r) PROVE RunRequest'
  BY <1>0, <1>2, <1>6 DEF TakeKey, AtRow, RunRequest
<1>7. ASSUME NEW r \in Runs, Post(r) PROVE RunRequest'
  <2>1. /\ at[r] \in Rows /\ at' = at /\ sheet' = sheet /\ runPc[r] = "post"
        /\ req'[r].pc \in {"find", "error"} /\ req'[r].who = Row(r).who /\ runPc'[r] = "wait"
        /\ \A q \in Runs \ {r} : req'[q] = req[q] /\ runPc'[q] = runPc[q]
    BY <1>0, <1>7 DEF Post
  <2>2. Row(r).who = sheet[at[r]].who
    BY <2>1 DEF SnapFresh, Row
  <2> QED
    BY <1>2, <2>1, <2>2
<1>8. ASSUME NEW r \in Runs, MarkSynced(r) PROVE RunRequest'
  <2>1. /\ at[r] \in Rows /\ at' = at /\ req' = req /\ runPc[r] = "wait" /\ req[r].pc = "ok"
        /\ runPc'[r] = "link" /\ \A q \in Runs \ {r} : runPc'[q] = runPc[q]
    BY <1>0, <1>8 DEF MarkSynced, Accepted
  <2> QED
    BY <1>2, <2>1 DEF RunRequest, KeysKept
<1>9. ASSUME NEW r \in Runs, NextRow(r) PROVE RunRequest'
  BY <1>0, <1>2, <1>9 DEF NextRow, NoRequest
<1>10. ASSUME NEW r \in Runs, NEW pc \in {"insert", "repair", "log", "ok", "error"}, NEW l, Server(r, pc, l),
              UNCHANGED runVars, req[r].pc \in {"find", "repair", "insert", "log"}
       PROVE  RunRequest'
  <2>1. /\ req'[r].pc # "none" /\ req'[r].who = req[r].who
        /\ \A q \in Runs \ {r} : req'[q] = req[q]
        /\ runPc' = runPc /\ at' = at
    BY <1>0, <1>10, ServerEffect DEF runVars
  <2> QED
    BY <1>0, <1>2, <1>10, <2>1 DEF RunRequest, KeysKept
<1>11. ASSUME NEW r \in Runs, FindLead(r) \/ RepairLead(r) \/ InsertLead(r) \/ LogLead(r) \/ Fail(r)
       PROVE  RunRequest'
  <2>1. /\ \E pc \in {"insert", "repair", "log", "ok", "error"}, l \in Leads \cup {None, req[r].lead} : Server(r, pc, l)
        /\ UNCHANGED runVars /\ req[r].pc \in {"find", "repair", "insert", "log"}
    <3>1. CASE FindLead(r)
      BY <3>1 DEF FindLead, Existing, Matching
    <3>2. CASE RepairLead(r) \/ InsertLead(r)
      BY <3>2 DEF RepairLead, InsertLead
    <3>3. CASE LogLead(r) \/ Fail(r)
      BY <3>3 DEF LogLead, Fail
    <3> QED
      BY <1>11, <3>1, <3>2, <3>3
  <2> QED
    BY <1>10, <2>1
<1>12. ASSUME NEW r \in Runs, Forget(r) PROVE RunRequest'
  BY <1>0, <1>2, <1>12 DEF Forget, runVars
<1>13. \/ UNCHANGED <<runPc, at, req>>
       \/ \E r \in Runs : RunStep(r) \/ KillRun(r) \/ ServerStep(r) \/ Fail(r)
                            \/ \E rep \in BOOLEAN : BeginRun(r, rep)
  BY DEF Next, NoMove, EditRow, EditLead, DeleteLead, vars, runVars
<1> QED
  BY <1>1, <1>3, <1>4, <1>5, <1>6, <1>7, <1>8, <1>9, <1>11, <1>12, <1>13
  DEF RunStep, ServerStep, EndRun, KillRun, WriteLeadId, MarkError

\* Writing one cell of a row leaves the others alone.
LEMMA OtherCells ==
    ASSUME sheet \in [Rows -> RowDoc], NEW i \in Rows, NEW n
    PROVE  /\ \A v :
              LET w == [sheet EXCEPT ![i] = [@ EXCEPT !.name = n, !.valid = v]]
              IN  \A j \in Rows : /\ w[j].who = sheet[j].who /\ w[j].lead = sheet[j].lead
                                  /\ w[j].key = sheet[j].key /\ w[j].status = sheet[j].status
           /\ LET w == [sheet EXCEPT ![i] = [@ EXCEPT !.status = n]]
              IN  \A j \in Rows : /\ w[j].who = sheet[j].who /\ w[j].lead = sheet[j].lead
                                  /\ w[j].key = sheet[j].key
                                  /\ w[j].status = (IF j = i THEN n ELSE sheet[j].status)
           /\ LET w == [sheet EXCEPT ![i] = [@ EXCEPT !.key = n]]
              IN  \A j \in Rows : /\ w[j].who = sheet[j].who /\ w[j].lead = sheet[j].lead
                                  /\ w[j].status = sheet[j].status
                                  /\ w[j].key = (IF j = i THEN n ELSE sheet[j].key)
           /\ LET w == [sheet EXCEPT ![i] = [@ EXCEPT !.lead = n]]
              IN  \A j \in Rows : /\ w[j].who = sheet[j].who /\ w[j].status = sheet[j].status
                                  /\ w[j].key = sheet[j].key
                                  /\ w[j].lead = (IF j = i THEN n ELSE sheet[j].lead)
<1>0. PICK d \in RowDoc : d = sheet[i]
  OBVIOUS
<1>1. /\ \A v :
         LET e == [d EXCEPT !.name = n, !.valid = v]
         IN  e.who = d.who /\ e.lead = d.lead /\ e.key = d.key /\ e.status = d.status
      /\ LET e == [d EXCEPT !.status = n]
         IN  e.who = d.who /\ e.lead = d.lead /\ e.key = d.key /\ e.status = n
      /\ LET e == [d EXCEPT !.key = n]
         IN  e.who = d.who /\ e.lead = d.lead /\ e.key = n /\ e.status = d.status
      /\ LET e == [d EXCEPT !.lead = n]
         IN  e.who = d.who /\ e.lead = n /\ e.key = d.key /\ e.status = d.status
  BY DEF RowDoc
<1>2. \A e : LET w == [sheet EXCEPT ![i] = e]
             IN  \A j \in Rows : w[j] = IF j = i THEN e ELSE sheet[j]
  OBVIOUS
<1> QED
  BY <1>0, <1>1, <1>2

\* The rows keep what LinkInv says of them.
LEMMA RowLeadStep ==
    ASSUME NoMove, TypeOK, LocalsSet, RowInv, LinkInv, [Next]_vars
    PROVE  RowLead'
<1>0. sheet \in [Rows -> RowDoc] /\ OwnKeys /\ RequestKeyed /\ RowLead /\ RunRequest /\ RequestLead /\ LeadsLogged
  BY DEF TypeOK, RowInv, LinkInv
<1>1. ASSUME NEW i \in Rows, sheet'[i].who = sheet[i].who,
             sheet'[i].lead # None => sheet'[i].lead = sheet[i].lead /\ sheet'[i].key = sheet[i].key,
             sheet'[i].status = "Synced" => sheet[i].status = "Synced"
      PROVE  RowHasLead(i)'
  <2>0. RowHasLead(i)
    BY <1>0 DEF RowLead
  <2>1. ASSUME sheet'[i].lead # None
        PROVE  /\ sheet'[i].lead \in Leads /\ leads'[sheet'[i].lead].state # "absent"
               /\ leads'[sheet'[i].lead].who = sheet'[i].who /\ leads'[sheet'[i].lead].key = sheet'[i].key
    <3>1. PICK l \in Leads : /\ l = sheet[i].lead /\ leads[l].state # "absent"
                             /\ leads[l].who = sheet[i].who /\ leads[l].key = sheet[i].key
      BY <1>1, <2>0, <2>1 DEF RowHasLead, IsLead
    <3> QED
      BY <1>1, <2>1, <3>1, LeadsStay
  <2>2. ASSUME sheet'[i].status = "Synced"
        PROVE  \E l \in Leads : leads'[l].who = sheet'[i].who /\ KeptLead(l)'
    <3>1. PICK l \in Leads : leads[l].who = sheet[i].who /\ KeptLead(l)
      BY <1>1, <2>0, <2>2 DEF RowHasLead
    <3>2. leads[l].state # "absent"
      BY <3>1 DEF KeptLead
    <3> QED
      BY <1>1, <3>1, <3>2, LeadsStay
  <2> QED
    BY <2>1, <2>2 DEF RowHasLead, IsLead
<1>2. CASE sheet' = sheet
  BY <1>1, <1>2 DEF RowLead
<1>3. ASSUME NEW i \in Rows, EditRow(i) PROVE RowLead'
  <2>1. PICK n, v : sheet' = [sheet EXCEPT ![i] = [@ EXCEPT !.name = n, !.valid = v]]
    BY <1>3 DEF EditRow
  <2>2. \A j \in Rows : /\ sheet'[j].who = sheet[j].who /\ sheet'[j].lead = sheet[j].lead
                         /\ sheet'[j].key = sheet[j].key /\ sheet'[j].status = sheet[j].status
    BY <1>0, <2>1, OtherCells
  <2> QED
    BY <1>1, <2>2 DEF RowLead
<1>4. ASSUME NEW r \in Runs, NamelessRow(r) \/ MarkError(r) PROVE RowLead'
  <2>1. at[r] \in Rows /\ sheet' = [sheet EXCEPT ![at[r]] = [@ EXCEPT !.status = "Error"]]
    <3>1. CASE NamelessRow(r)
      BY <3>1 DEF NamelessRow, AtRow
    <3>2. CASE MarkError(r)
      BY <3>2 DEF MarkError, LocalsSet
    <3> QED
      BY <1>4, <3>1, <3>2
  <2>2. \A j \in Rows : /\ sheet'[j].who = sheet[j].who /\ sheet'[j].lead = sheet[j].lead
                         /\ sheet'[j].key = sheet[j].key
                         /\ (sheet'[j].status = sheet[j].status \/ sheet'[j].status = "Error")
    BY <1>0, <2>1, OtherCells
  <2> QED
    BY <1>1, <2>2 DEF RowLead
<1>5. ASSUME NEW r \in Runs, TakeKey(r) PROVE RowLead'
  <2>1. CASE UNCHANGED sheet
    BY <1>2, <2>1
  <2>2. CASE ~UNCHANGED sheet
    <3>1. PICK k \in Keys : /\ at[r] \in Rows /\ sheet[at[r]].key = None
                            /\ sheet' = [sheet EXCEPT ![at[r]] = [@ EXCEPT !.key = k]]
      <4>1. at[r] \in Rows /\ sheet[at[r]].key = None
        BY <1>5, <2>2, TakeKeyStep DEF RowInv
      <4> QED
        BY <1>5, <2>2, <4>1 DEF TakeKey, WithKey
    <3>2. /\ \A j \in Rows : /\ sheet'[j].who = sheet[j].who /\ sheet'[j].lead = sheet[j].lead
                              /\ sheet'[j].status = sheet[j].status
          /\ \A j \in Rows \ {at[r]} : sheet'[j].key = sheet[j].key
      BY <1>0, <3>1, OtherCells
    <3>3. sheet[at[r]].lead = None
      BY <1>0, <3>1 DEF RowLead, RowHasLead, IsLead, LeadsLogged
    <3> QED
      BY <1>1, <3>2, <3>3 DEF RowLead
  <2> QED
    BY <2>1, <2>2
<1>6. ASSUME NEW r \in Runs, MarkSynced(r) PROVE RowLead'
  <2>1. /\ at[r] \in Rows /\ sheet' = [sheet EXCEPT ![at[r]] = [@ EXCEPT !.status = "Synced"]]
        /\ runPc[r] = "wait" /\ req[r].pc = "ok" /\ UNCHANGED <<leads, logged, errors>>
    BY <1>6 DEF MarkSynced, Accepted, LocalsSet
  <2>2. \A j \in Rows : /\ sheet'[j].who = sheet[j].who /\ sheet'[j].lead = sheet[j].lead
                         /\ sheet'[j].key = sheet[j].key
                         /\ (j # at[r] => sheet'[j].status = sheet[j].status)
    BY <1>0, <2>1, OtherCells
  <2>3. PICK l \in Leads : leads[l].who = req[r].who /\ KeptLead(l)
    BY <1>0, <2>1 DEF RequestLead, HasLead, IsLead
  <2>4. req[r].who = sheet[at[r]].who
    BY <1>0, <2>1 DEF RunRequest
  <2>5. ASSUME NEW j \in Rows, j = at[r] PROVE RowHasLead(j)'
    <3>1. RowHasLead(j)
      BY <1>0 DEF RowLead
    <3> QED
      BY <2>1, <2>2, <2>3, <2>4, <2>5, <3>1 DEF RowHasLead, IsLead, KeptLead
  <2> QED
    BY <1>1, <2>2, <2>5 DEF RowLead
<1>7. ASSUME NEW r \in Runs, WriteLeadId(r) PROVE RowLead'
  <2>1. /\ at[r] \in Rows /\ sheet' = [sheet EXCEPT ![at[r]] = [@ EXCEPT !.lead = req[r].lead]]
        /\ runPc[r] = "link" /\ UNCHANGED <<leads, logged, errors>>
    BY <1>7 DEF WriteLeadId, LocalsSet
  <2>2. \A j \in Rows : /\ sheet'[j].who = sheet[j].who /\ sheet'[j].status = sheet[j].status
                         /\ sheet'[j].key = sheet[j].key
                         /\ sheet'[j].lead = (IF j = at[r] THEN req[r].lead ELSE sheet[j].lead)
    BY <1>0, <2>1, OtherCells
  <2>3. req[r].pc = "ok" /\ req[r].who = sheet[at[r]].who
    BY <1>0, <2>1 DEF RunRequest
  <2>4. IsLead(req[r].lead, req[r].who, req[r].key)
    BY <1>0, <2>3 DEF RequestLead, HasLead
  <2>5. req[r].key = sheet[at[r]].key
    BY <1>0, <2>1, <2>3 DEF RequestKeyed, HasRow, OwnKeys
  <2>6. ASSUME NEW j \in Rows, j = at[r] PROVE RowHasLead(j)'
    <3>1. RowHasLead(j)
      BY <1>0 DEF RowLead
    <3> QED
      BY <2>1, <2>2, <2>3, <2>4, <2>5, <2>6, <3>1 DEF RowHasLead, IsLead, KeptLead
  <2> QED
    BY <1>1, <2>2, <2>6 DEF RowLead
<1>8. \/ sheet' = sheet
      \/ \E i \in Rows : EditRow(i)
      \/ \E r \in Runs : NamelessRow(r) \/ MarkError(r) \/ TakeKey(r) \/ MarkSynced(r) \/ WriteLeadId(r)
  BY DEF Next, RunStep, ServerStep, NoMove, EditLead, DeleteLead, BeginRun, EndRun, SkipRow, Post, KillRun,
         FindLead, RepairLead, InsertLead, LogLead, Forget, Fail, vars
<1> QED
  BY <1>2, <1>3, <1>4, <1>5, <1>6, <1>7, <1>8

\* Sorting a quiet sheet takes lead ids and statuses along.
LEMMA MoveLinkStep ==
    ASSUME ~RowsMove, TypeOK, RunRequest, RowLead, NEW i \in Rows, NEW j \in Rows, MoveRows(i, j)
    PROVE  RunRequest' /\ RowLead'
<1>1. /\ sheet' = [sheet EXCEPT ![i] = sheet[j], ![j] = sheet[i]]
      /\ UNCHANGED <<leads, logged, errors, runPc, req>> /\ sheet \in [Rows -> RowDoc]
      /\ \A r \in Runs : runPc[r] = "idle"
  BY DEF MoveRows, Quiet, runVars, TypeOK
<1>2. \A a \in Rows : \E b \in Rows : sheet'[a] = sheet[b]
  BY <1>1
<1>3. ASSUME NEW a \in Rows PROVE RowHasLead(a)'
  <2>1. PICK b \in Rows : sheet'[a] = sheet[b]
    BY <1>2
  <2>2. RowHasLead(b)
    BY DEF RowLead
  <2> QED
    BY <1>1, <2>1, <2>2 DEF RowHasLead, IsLead, KeptLead
<1> QED
  BY <1>1, <1>3 DEF RunRequest, RowLead

\* The inductive invariant LinkInv holds on the two conditions of NoRowTwice.
LEMMA LinkInvariant == ASSUME ~Overlap, ~RowsMove PROVE Spec => [](TypeOK /\ LinkInv)
<1> DEFINE Inv == LocalsSet /\ LinkInv
<1>1. Init => Inv
  <2> SUFFICES ASSUME Init PROVE Inv
    OBVIOUS
  <2>1. PICK n \in [Rows -> Names], v \in [Rows -> Valids] :
             sheet = [i \in Rows |-> NewRow(i, n[i], v[i])]
    BY DEF Init
  <2>2. \A i \in Rows : sheet[i].lead = None /\ sheet[i].status = ""
    BY <2>1 DEF NewRow
  <2>3. /\ \A r \in Runs : runPc[r] = "idle" /\ req[r].pc = "none"
        /\ \A l \in Leads : leads[l].state = "absent"
    BY DEF Init, NoRequest, NoLead
  <2> QED
    BY <2>2, <2>3
    DEF LocalsSet, LinkInv, RequestLead, HasLead, RunRequest, LeadsLogged, Live, RowLead, RowHasLead
<1>2. TypeOK /\ KeyInv /\ RowInv /\ Inv /\ [Next]_vars => Inv'
  <2> SUFFICES ASSUME TypeOK, KeyInv, RowInv, Inv, [Next]_vars PROVE Inv'
    OBVIOUS
  <2>1. LocalsSet' /\ RequestLead' /\ LeadsLogged'
    BY LocalsStep, RequestLeadStep, LeadsLoggedStep DEF LinkInv
  <2>2. CASE NoMove
    <3>1. KeysKept
      BY <2>2, SheetStep DEF RowInv
    <3>2. RunRequest' /\ RowLead'
      BY <2>2, <3>1, RunRequestStep, RowLeadStep DEF RowInv, LinkInv
    <3> QED
      BY <2>1, <3>2 DEF LinkInv
  <2>3. CASE ~NoMove
    BY <2>1, <2>3, MoveLinkStep DEF NoMove, LinkInv
  <2> QED
    BY <2>2, <2>3
<1> QED
  BY <1>1, <1>2, TypeCorrect, RowInvariant, PTL DEF Spec

\* "This integration creates a Propzel lead for each unsynced spreadsheet row":
\* a row marked Synced has had a lead, for any number of rows and runs, on the
\* two conditions the code does not enforce.
THEOREM SyncedStored == ASSUME ~Overlap, ~RowsMove PROVE Spec => []SyncedRowIsStored
<1>1. LinkInv => SyncedRowIsStored
  BY DEF LinkInv, RowLead, RowHasLead, KeptLead, SyncedRowIsStored
<1> QED
  BY <1>1, LinkInvariant, PTL

\* The lead id next to a row is that of the row's lead, on the same conditions.
THEOREM RowsLinked == ASSUME ~Overlap, ~RowsMove PROVE Spec => []RowLinksItsLead
<1>1. LinkInv => RowLinksItsLead
  BY DEF LinkInv, RowLead, RowHasLead, IsLead, RowLinksItsLead
<1> QED
  BY <1>1, LinkInvariant, PTL

(***************************************************************************)
(* Synced rows and ordinary runs.                                          *)
(***************************************************************************)

\* The rows a run has still to visit have the status it read.
StatusFresh(r) ==
    \A i \in Rows : runPc[r] # "idle" /\ Unvisited(r, i) => snap[r][i].status = sheet[i].status

Unsynced(w) == \A i \in Rows : sheet[i].who = w => sheet[i].status # "Synced"

\* An ordinary run posts a row that is not synced, nor is it until the request
\* found or inserted a lead.
PostsUnsynced(r) ==
    /\ runPc[r] = "post" => repair[r] \/ sheet[at[r]].status # "Synced"
    /\ req[r].pc \in {"find", "insert"} => repair[r] \/ Unsynced(req[r].who)

ResendInv == \A r \in Runs : StatusFresh(r) /\ PostsUnsynced(r)

LEMMA ResendStep ==
    ASSUME ~Overlap, NoMove, TypeOK, LocalsSet, KeyInv, RowInv, RunRequest, ResendInv, [Next]_vars
    PROVE  ResendInv'
<1>0. /\ runPc \in [Runs -> RunPcs] /\ req \in [Runs -> Request] /\ sheet \in [Rows -> RowDoc]
      /\ snap \in [Runs -> [Rows -> RowDoc]] /\ at \in [Runs -> Nat \ {0}] /\ repair \in [Runs -> BOOLEAN]
      /\ \A r \in Runs : runPc[r] \in {"post", "wait", "link"} => at[r] \in Rows
      /\ NumRows \in Nat /\ OwnKeys /\ SnapFresh
  BY SheetSyncAssumption DEF TypeOK, LocalsSet, RowInv
<1>1. ASSUME UNCHANGED <<runPc, snap, at, repair, req>>,
             \A i \in Rows : sheet'[i].status = sheet[i].status /\ sheet'[i].who = sheet[i].who
      PROVE  ResendInv'
  <2>1. ASSUME NEW r \in Runs PROVE StatusFresh(r)'
    BY <1>1 DEF ResendInv, StatusFresh, Unvisited
  <2>2. ASSUME NEW r \in Runs PROVE PostsUnsynced(r)'
    BY <1>0, <1>1 DEF ResendInv, PostsUnsynced, Unsynced
  <2> QED
    BY <2>1, <2>2 DEF ResendInv
<1>2. ASSUME NEW r \in Runs, StatusFresh(r)', PostsUnsynced(r)',
             \A q \in Runs \ {r} : /\ runPc[q] = "idle" /\ req[q].pc = "none"
                                   /\ runPc'[q] = runPc[q] /\ req'[q] = req[q]
      PROVE  ResendInv'
  BY <1>2 DEF ResendInv, StatusFresh, PostsUnsynced
<1>3. ASSUME NEW r \in Runs, Active(r), NEW q \in Runs \ {r}
      PROVE  runPc[q] = "idle" /\ req[q].pc = "none"
  BY <1>3 DEF KeyInv, Active
<1>4. ASSUME NEW r \in Runs, NEW rep \in BOOLEAN, BeginRun(r, rep) PROVE ResendInv'
  <2>1. /\ \A q \in Runs : runPc[q] = "idle" /\ req[q].pc = "none"
        /\ runPc'[r] = "rows" /\ req' = req /\ sheet' = sheet /\ snap'[r] = sheet
        /\ \A q \in Runs \ {r} : runPc'[q] = runPc[q]
    BY <1>0, <1>4 DEF BeginRun, Quiet
  <2> QED
    BY <1>2, <2>1 DEF StatusFresh, PostsUnsynced
<1>5. ASSUME NEW r \in Runs, Leave(r), UNCHANGED <<sheet, req>>, Active(r) PROVE ResendInv'
  <2>1. runPc'[r] = "idle" /\ repair' = repair /\ \A q \in Runs \ {r} : runPc'[q] = runPc[q]
    BY <1>0, <1>5 DEF Leave
  <2>2. StatusFresh(r)' /\ PostsUnsynced(r)'
    BY <1>5, <2>1 DEF ResendInv, StatusFresh, PostsUnsynced, Unsynced
  <2> QED
    BY <1>2, <1>3, <1>5, <2>1, <2>2
<1>6. ASSUME NEW r \in Runs, SkipRow(r) \/ NamelessRow(r) PROVE ResendInv'
  <2>1. /\ runPc[r] = "rows" /\ at[r] \in Rows
        /\ UNCHANGED <<runPc, snap, repair, req>> /\ at' = [at EXCEPT ![r] = @ + 1]
        /\ \A i \in Rows \ {at[r]} : sheet'[i] = sheet[i]
    BY <1>0, <1>6 DEF SkipRow, NamelessRow, AtRow
  <2>2. req[r].pc = "none"
    BY <2>1 DEF RunRequest
  <2>3. at'[r] = at[r] + 1 /\ at[r] \in Nat
    BY <1>0, <2>1
  <2>4. StatusFresh(r)' /\ PostsUnsynced(r)'
    BY <2>1, <2>2, <2>3 DEF ResendInv, StatusFresh, PostsUnsynced, Unvisited, Rows
  <2> QED
    BY <1>2, <1>3, <2>1, <2>4 DEF Active
<1>7. ASSUME NEW r \in Runs, TakeKey(r) PROVE ResendInv'
  <2>1. /\ runPc[r] = "rows" /\ at[r] \in Rows /\ runPc'[r] = "post"
        /\ \A q \in Runs \ {r} : runPc'[q] = runPc[q]
        /\ UNCHANGED <<snap, at, repair, req>> /\ (repair[r] \/ Row(r).status # "Synced")
    BY <1>0, <1>7 DEF TakeKey, AtRow, Wanted
  <2>2. \A i \in Rows : sheet'[i].status = sheet[i].status /\ sheet'[i].who = sheet[i].who
    <3>1. sheet' = sheet \/ \E k \in Keys : sheet' = [sheet EXCEPT ![at[r]] = [@ EXCEPT !.key = k]]
      BY <1>7 DEF TakeKey, WithKey
    <3>2. CASE sheet' = sheet
      BY <3>2
    <3>3. ASSUME NEW k \in Keys, sheet' = [sheet EXCEPT ![at[r]] = [@ EXCEPT !.key = k]]
          PROVE  \A i \in Rows : sheet'[i].status = sheet[i].status /\ sheet'[i].who = sheet[i].who
      BY <1>0, <2>1, <3>3, OtherCells
    <3> QED
      BY <3>1, <3>2, <3>3
  <2>3. req[r].pc = "none"
    BY <2>1 DEF RunRequest
  <2>4. Row(r).status = sheet[at[r]].status
    BY <1>0, <2>1 DEF ResendInv, StatusFresh, Unvisited, Row, Rows
  <2>5. StatusFresh(r)'
    BY <1>0, <2>1, <2>2 DEF ResendInv, StatusFresh, Unvisited, Rows
  <2>6. PostsUnsynced(r)'
    BY <2>1, <2>2, <2>3, <2>4 DEF PostsUnsynced
  <2> QED
    BY <1>2, <1>3, <2>1, <2>5, <2>6 DEF Active
<1>8. ASSUME NEW r \in Runs, Post(r) PROVE ResendInv'
  <2>1. /\ at[r] \in Rows /\ UNCHANGED <<sheet, snap, at, repair>> /\ runPc[r] = "post"
        /\ req'[r].pc \in {"find", "error"} /\ req'[r].who = Row(r).who /\ runPc'[r] = "wait"
        /\ \A q \in Runs \ {r} : req'[q] = req[q] /\ runPc'[q] = runPc[q]
    BY <1>0, <1>8 DEF Post
  <2>2. Row(r).who = sheet[at[r]].who
    BY <1>0, <2>1 DEF SnapFresh, Row
  <2>3. repair[r] \/ Unsynced(sheet[at[r]].who)
    BY <1>0, <2>1 DEF ResendInv, PostsUnsynced, Unsynced, OwnKeys
  <2>4. StatusFresh(r)'
    BY <2>1 DEF ResendInv, StatusFresh, Unvisited
  <2>5. PostsUnsynced(r)'
    BY <2>1, <2>2, <2>3 DEF PostsUnsynced, Unsynced
  <2> QED
    BY <1>2, <1>3, <2>1, <2>4, <2>5 DEF Active
<1>9. ASSUME NEW r \in Runs, MarkSynced(r) PROVE ResendInv'
  <2>1. /\ at[r] \in Rows /\ UNCHANGED <<snap, at, repair, req>> /\ runPc[r] = "wait"
        /\ req[r].pc = "ok" /\ runPc'[r] = "link" /\ \A q \in Runs \ {r} : runPc'[q] = runPc[q]
        /\ \A i \in Rows \ {at[r]} : sheet'[i] = sheet[i]
    BY <1>0, <1>9 DEF MarkSynced, Accepted
  <2>2. at[r] \in Nat
    BY <1>0
  <2>3. StatusFresh(r)' /\ PostsUnsynced(r)'
    BY <2>1, <2>2 DEF ResendInv, StatusFresh, PostsUnsynced, Unvisited, Rows
  <2> QED
    BY <1>2, <1>3, <2>1, <2>3 DEF Active
<1>10. ASSUME NEW r \in Runs, WriteLeadId(r) \/ MarkError(r) PROVE ResendInv'
  <2>1. /\ NextRow(r) /\ runPc[r] \in {"wait", "link"} /\ at[r] \in Rows
        /\ \A i \in Rows \ {at[r]} : sheet'[i] = sheet[i]
    BY <1>0, <1>10 DEF WriteLeadId, MarkError
  <2>2. /\ runPc'[r] = "rows" /\ req'[r].pc = "none" /\ at'[r] = at[r] + 1 /\ at[r] \in Nat
        /\ \A q \in Runs \ {r} : req'[q] = req[q] /\ runPc'[q] = runPc[q]
        /\ snap' = snap /\ repair' = repair
    BY <1>0, <2>1 DEF NextRow, NoRequest
  <2>3. StatusFresh(r)' /\ PostsUnsynced(r)'
    BY <2>1, <2>2 DEF ResendInv, StatusFresh, PostsUnsynced, Unvisited, Rows
  <2> QED
    BY <1>2, <1>3, <2>1, <2>2, <2>3 DEF Active
<1>11. ASSUME NEW r \in Runs, req[r].pc # "none", UNCHANGED <<sheet, runVars>>,
              \A q \in Runs \ {r} : req'[q] = req[q],
              req'[r].pc \in {"find", "insert"} => req[r].pc = "find" /\ req'[r].who = req[r].who
       PROVE  ResendInv'
  <2>1. StatusFresh(r)' /\ PostsUnsynced(r)'
    BY <1>11 DEF ResendInv, StatusFresh, PostsUnsynced, Unvisited, Unsynced, runVars
  <2> QED
    BY <1>2, <1>3, <1>11, <2>1 DEF Active, runVars
<1>12. ASSUME NEW r \in Runs, FindLead(r) PROVE ResendInv'
  <2>1. PICK pc, l : Server(r, pc, l)
    BY <1>12 DEF FindLead
  <2>2. /\ req[r].pc = "find" /\ req'[r].who = req[r].who /\ \A q \in Runs \ {r} : req'[q] = req[q]
        /\ UNCHANGED <<sheet, runVars>>
    BY <1>0, <1>12, <2>1, ServerEffect DEF FindLead
  <2> QED
    BY <1>11, <2>2
<1>13. ASSUME NEW r \in Runs, RepairLead(r) \/ InsertLead(r) \/ LogLead(r) \/ Fail(r) PROVE ResendInv'
  <2>0. PICK pc : pc \in {"ok", "log", "error"} /\ \E l : Server(r, pc, l)
    BY <1>13 DEF RepairLead, InsertLead, LogLead, Fail
  <2>1. PICK l : Server(r, pc, l)
    BY <2>0
  <2>2. /\ req[r].pc # "none" /\ req'[r].pc = pc /\ \A q \in Runs \ {r} : req'[q] = req[q]
        /\ UNCHANGED <<sheet, runVars>>
    BY <1>0, <1>13, <2>1, ServerEffect DEF RepairLead, InsertLead, LogLead, Fail
  <2> QED
    BY <1>11, <2>0, <2>2
<1>14. ASSUME NEW r \in Runs, Forget(r) PROVE ResendInv'
  <2>1. /\ req[r].pc # "none" /\ req'[r].pc = "none" /\ \A q \in Runs \ {r} : req'[q] = req[q]
        /\ UNCHANGED <<sheet, runVars>>
    BY <1>0, <1>14 DEF Forget, NoRequest
  <2> QED
    BY <1>11, <2>1
<1>15. ASSUME NEW i \in Rows, EditRow(i) PROVE ResendInv'
  <2>1. PICK n, v : sheet' = [sheet EXCEPT ![i] = [@ EXCEPT !.name = n, !.valid = v]]
    BY <1>15 DEF EditRow
  <2>2. \A j \in Rows : sheet'[j].status = sheet[j].status /\ sheet'[j].who = sheet[j].who
    BY <1>0, <2>1, OtherCells
  <2> QED
    BY <1>1, <1>15, <2>2 DEF EditRow, runVars
<1>16. CASE UNCHANGED <<sheet, runVars, req>>
  BY <1>1, <1>16 DEF runVars
<1>17. \/ UNCHANGED <<sheet, runVars, req>>
       \/ \E i \in Rows : EditRow(i)
       \/ \E r \in Runs : RunStep(r) \/ KillRun(r) \/ ServerStep(r) \/ Fail(r)
                            \/ \E rep \in BOOLEAN : BeginRun(r, rep)
  BY DEF Next, NoMove, EditLead, DeleteLead, vars, runVars
<1>18. ASSUME NEW r \in Runs, EndRun(r) \/ KillRun(r) PROVE ResendInv'
  BY <1>5, <1>18 DEF EndRun, KillRun, Active
<1> QED
  BY <1>4, <1>6, <1>7, <1>8, <1>9, <1>10, <1>12, <1>13, <1>14, <1>15, <1>16, <1>17, <1>18
  DEF RunStep, ServerStep

\* Sorting a quiet sheet disturbs no run.
LEMMA MoveResendStep ==
    ASSUME ~RowsMove, ResendInv, NEW i \in Rows, NEW j \in Rows, MoveRows(i, j)
    PROVE  ResendInv'
BY DEF MoveRows, Quiet, runVars, ResendInv, StatusFresh, PostsUnsynced

LEMMA ResendInvariant ==
    ASSUME ~Overlap, ~RowsMove
    PROVE  Spec => [](TypeOK /\ KeyInv /\ RowInv /\ LinkInv /\ LocalsSet /\ ResendInv)
<1> DEFINE Inv == LocalsSet /\ ResendInv
<1>1. Init => Inv
  BY DEF Init, LocalsSet, ResendInv, StatusFresh, PostsUnsynced, NoRequest
<1>2. TypeOK /\ KeyInv /\ RowInv /\ LinkInv /\ Inv /\ [Next]_vars => Inv'
  <2> SUFFICES ASSUME TypeOK, KeyInv, RowInv, LinkInv, Inv, [Next]_vars PROVE Inv'
    OBVIOUS
  <2>1. CASE NoMove
    BY <2>1, LocalsStep, ResendStep DEF LinkInv
  <2>2. CASE ~NoMove
    BY <2>2, LocalsStep, MoveResendStep DEF NoMove
  <2> QED
    BY <2>1, <2>2
<1> QED
  BY <1>1, <1>2, TypeCorrect, RowInvariant, LinkInvariant, PTL DEF Spec

\* An ordinary run never brings back the lead of a synced row: runs that do not
\* overlap, on a sheet that rests while they go on, create leads for synced rows
\* only when they repair.
THEOREM NotResent == ASSUME ~Overlap, ~RowsMove PROVE Spec => SyncedRowIsNotResent
<1> DEFINE NoResend ==
      \A l \in Leads, i \in Rows :
          /\ leads[l].state = "absent"
          /\ leads'[l].state = "live"
          /\ leads'[l].who = sheet[i].who
          /\ sheet[i].status = "Synced"
          => \E r \in Runs : repair[r]
<1>1. ASSUME TypeOK, ResendInv, Next PROVE NoResend
  <2> SUFFICES ASSUME NEW l \in Leads, NEW i \in Rows, leads[l].state = "absent",
                      leads'[l].state = "live", leads'[l].who = sheet[i].who,
                      sheet[i].status = "Synced"
               PROVE  \E r \in Runs : repair[r]
    OBVIOUS
  <2>0. leads \in [Leads -> LeadDoc]
    BY <1>1 DEF TypeOK
  <2>1. \E r \in Runs : InsertLead(r)
    <3>1. \A m \in Leads : ~EditLead(m) /\ ~DeleteLead(m)
      BY <2>0 DEF EditLead, DeleteLead
    <3>2. \A r \in Runs : ~RepairLead(r)
      BY <2>0 DEF RepairLead
    <3> QED
      BY <1>1, <3>1, <3>2 DEF Next, RunStep, ServerStep, MoveRows, EditRow, BeginRun, EndRun, SkipRow,
         NamelessRow, TakeKey, Post, MarkSynced, WriteLeadId, MarkError, KillRun, FindLead, LogLead, Forget, Fail
  <2>2. PICK r \in Runs : InsertLead(r)
    BY <2>1
  <2>3. leads'[l].who = req[r].who /\ req[r].pc = "insert"
    BY <2>0, <2>2 DEF InsertLead
  <2> QED
    BY <1>1, <2>3 DEF ResendInv, PostsUnsynced, Unsynced
<1>2. ASSUME vars' = vars PROVE NoResend
  BY <1>2 DEF vars
<1>3. TypeOK /\ ResendInv /\ [Next]_vars => [NoResend]_vars
  BY <1>1, <1>2
<1> QED
  BY <1>3, ResendInvariant, PTL DEF Spec, SyncedRowIsNotResent


(***************************************************************************)
(* SheetSync implements RowIntake.                                         *)
(***************************************************************************)

\* Ids that were not used yet are nobody's.
UnusedLeads == \A l \in Leads : leads[l].state = "absent" => leads[l].who = None

\* A run that is about to write a lead id marked the row; an ordinary run
\* works on a row that is not marked until then.
RowMarked(r) ==
    /\ runPc[r] = "link" => sheet[at[r]].status = "Synced"
    /\ runPc[r] \in {"post", "wait"} => repair[r] \/ sheet[at[r]].status # "Synced"

MarkInv == \A r \in Runs : RowMarked(r)

LEMMA UnusedStep ==
    ASSUME TypeOK, UnusedLeads, [Next]_vars
    PROVE  UnusedLeads'
<1>0. leads \in [Leads -> LeadDoc]
  BY DEF TypeOK
<1>1. CASE UNCHANGED leads
  BY <1>1 DEF UnusedLeads
<1>2. ASSUME NEW m \in Leads, EditLead(m) \/ DeleteLead(m) PROVE UnusedLeads'
  BY <1>0, <1>2 DEF EditLead, DeleteLead, UnusedLeads, LeadDoc
<1>3. ASSUME NEW r \in Runs, RepairLead(r) \/ InsertLead(r) PROVE UnusedLeads'
  <2>1. CASE InsertLead(r)
    <3>1. PICK l \in Leads :
             leads' = [leads EXCEPT ![l] =
                         [state |-> "live", key |-> req[r].key, who |-> req[r].who,
                          name |-> req[r].name, contact |-> "sheet"]]
      BY <2>1 DEF InsertLead
    <3> QED
      BY <1>0, <3>1 DEF UnusedLeads
  <2>2. CASE RepairLead(r)
    <3>1. ASSUME NEW m \in Leads
          PROVE  leads'[m].state = leads[m].state /\ leads'[m].who = leads[m].who
      BY <1>0, <2>2 DEF RepairLead, LeadDoc
    <3> QED
      BY <3>1 DEF UnusedLeads
  <2> QED
    BY <1>3, <2>1, <2>2
<1>4. \/ UNCHANGED leads
      \/ \E m \in Leads : EditLead(m) \/ DeleteLead(m)
      \/ \E r \in Runs : RepairLead(r) \/ InsertLead(r)
  BY DEF Next, RunStep, ServerStep, MoveRows, EditRow, BeginRun, EndRun, SkipRow,
         NamelessRow, TakeKey, Post, MarkSynced, WriteLeadId, MarkError, KillRun,
         FindLead, LogLead, Forget, Fail, vars
<1> QED
  BY <1>1, <1>2, <1>3, <1>4

LEMMA MarkStep ==
    ASSUME NoMove, TypeOK, LocalsSet, KeyInv, ResendInv, MarkInv, [Next]_vars
    PROVE  MarkInv'
<1>0. /\ runPc \in [Runs -> RunPcs] /\ sheet \in [Rows -> RowDoc]
      /\ \A r \in Runs : runPc[r] \in {"post", "wait", "link"} => at[r] \in Rows
  BY DEF TypeOK, LocalsSet
<1>1. ASSUME UNCHANGED <<runPc, at, repair>>, \A i \in Rows : sheet'[i].status = sheet[i].status
      PROVE  MarkInv'
  BY <1>0, <1>1 DEF MarkInv, RowMarked
<1>2. ASSUME NEW r \in Runs, Active(r), RowMarked(r)', \A q \in Runs \ {r} : runPc'[q] = runPc[q]
      PROVE  MarkInv'
  BY <1>2 DEF MarkInv, RowMarked, KeyInv, Active
<1>3. ASSUME NEW r \in Runs, \E rep \in BOOLEAN : BeginRun(r, rep) PROVE MarkInv'
  <2>1. /\ runPc'[r] = "rows" /\ \A q \in Runs \ {r} : runPc'[q] = runPc[q]
        /\ sheet' = sheet /\ \A q \in Runs \ {r} : at'[q] = at[q] /\ repair'[q] = repair[q]
    BY <1>0, <1>3 DEF BeginRun, TypeOK
  <2> QED
    BY <2>1 DEF MarkInv, RowMarked
<1>4. ASSUME NEW r \in Runs, SkipRow(r) \/ NamelessRow(r) PROVE MarkInv'
  BY <1>2, <1>4 DEF SkipRow, NamelessRow, AtRow, Active, RowMarked
<1>5. ASSUME NEW r \in Runs, EndRun(r) \/ KillRun(r) PROVE MarkInv'
  <2>1. runPc'[r] = "idle" /\ \A q \in Runs \ {r} : runPc'[q] = runPc[q]
    BY <1>0, <1>5 DEF EndRun, KillRun, Leave
  <2> QED
    BY <1>2, <1>5, <2>1 DEF EndRun, KillRun, Active, RowMarked
<1>6. ASSUME NEW r \in Runs, WriteLeadId(r) \/ MarkError(r) PROVE MarkInv'
  <2>1. runPc'[r] = "rows" /\ \A q \in Runs \ {r} : runPc'[q] = runPc[q]
    BY <1>0, <1>6 DEF WriteLeadId, MarkError, NextRow
  <2> QED
    BY <1>2, <1>6, <2>1 DEF WriteLeadId, MarkError, Active, RowMarked
<1>7. ASSUME NEW r \in Runs, TakeKey(r) PROVE MarkInv'
  <2>1. /\ runPc[r] = "rows" /\ at[r] \in Rows /\ runPc'[r] = "post"
        /\ \A q \in Runs \ {r} : runPc'[q] = runPc[q]
        /\ UNCHANGED <<snap, at, repair, req>> /\ (repair[r] \/ Row(r).status # "Synced")
    BY <1>0, <1>7 DEF TakeKey, AtRow, Wanted
  <2>2. sheet'[at[r]].status = sheet[at[r]].status
    <3>1. sheet' = sheet \/ \E k \in Keys : sheet' = [sheet EXCEPT ![at[r]] = [@ EXCEPT !.key = k]]
      BY <1>7 DEF TakeKey, WithKey
    <3>2. ASSUME NEW k \in Keys, sheet' = [sheet EXCEPT ![at[r]] = [@ EXCEPT !.key = k]]
          PROVE  sheet'[at[r]].status = sheet[at[r]].status
      BY <1>0, <2>1, <3>2, OtherCells
    <3> QED
      BY <3>1, <3>2
  <2>3. Row(r).status = sheet[at[r]].status
    BY <2>1 DEF ResendInv, StatusFresh, Unvisited, Row, Rows
  <2> QED
    BY <1>2, <2>1, <2>2, <2>3 DEF Active, RowMarked
<1>8. ASSUME NEW r \in Runs, Post(r) PROVE MarkInv'
  <2>1. /\ runPc[r] = "post" /\ runPc'[r] = "wait" /\ UNCHANGED <<sheet, at, repair>>
        /\ \A q \in Runs \ {r} : runPc'[q] = runPc[q]
    BY <1>0, <1>8 DEF Post
  <2> QED
    BY <1>2, <2>1 DEF Active, MarkInv, RowMarked
<1>9. ASSUME NEW r \in Runs, MarkSynced(r) PROVE MarkInv'
  <2>1. /\ at[r] \in Rows /\ at' = at /\ runPc[r] = "wait" /\ runPc'[r] = "link"
        /\ \A q \in Runs \ {r} : runPc'[q] = runPc[q]
        /\ sheet' = [sheet EXCEPT ![at[r]] = [@ EXCEPT !.status = "Synced"]]
    BY <1>0, <1>9 DEF MarkSynced
  <2>2. sheet'[at[r]].status = "Synced"
    BY <1>0, <2>1, OtherCells
  <2> QED
    BY <1>2, <2>1, <2>2 DEF Active, RowMarked
<1>10. ASSUME NEW i \in Rows, EditRow(i) PROVE MarkInv'
  <2>1. PICK n, v : sheet' = [sheet EXCEPT ![i] = [@ EXCEPT !.name = n, !.valid = v]]
    BY <1>10 DEF EditRow
  <2>2. \A j \in Rows : sheet'[j].status = sheet[j].status
    BY <1>0, <2>1, OtherCells
  <2> QED
    BY <1>1, <1>10, <2>2 DEF EditRow, runVars
<1>11. CASE UNCHANGED <<sheet, runVars>>
  BY <1>1, <1>11 DEF runVars
<1>12. \/ UNCHANGED <<sheet, runVars>>
       \/ \E i \in Rows : EditRow(i)
       \/ \E r \in Runs : RunStep(r) \/ KillRun(r) \/ \E rep \in BOOLEAN : BeginRun(r, rep)
  BY DEF Next, NoMove, EditLead, DeleteLead, ServerStep, FindLead, RepairLead, InsertLead, LogLead,
         Forget, Fail, vars, runVars
<1> QED
  BY <1>3, <1>4, <1>5, <1>6, <1>7, <1>8, <1>9, <1>10, <1>11, <1>12 DEF RunStep


\* RowIntake sees no change of leads that keep their row and state,
LEMMA SameLeads ==
    ASSUME \A l \in Leads : leads'[l].who = leads[l].who /\ leads'[l].state = leads[l].state
    PROVE  OwnerOf' = OwnerOf /\ LiveLeads' = LiveLeads
BY DEF OwnerOf, LiveLeads, Live

\* none of rows that keep who they are about, their status and their lead id,
LEMMA SameRows ==
    ASSUME \A i \in Rows : /\ sheet'[i].who = sheet[i].who /\ sheet'[i].status = sheet[i].status
                           /\ sheet'[i].lead = sheet[i].lead
    PROVE  MarkedPeople' = MarkedPeople /\ LinksOf' = LinksOf
<1>1. \A w : w \in MarkedPeople' <=> w \in MarkedPeople
  BY DEF MarkedPeople
<1>2. \A w \in Rows : LinksOf'[w] = LinksOf[w]
  BY DEF LinksOf
<1> QED
  BY <1>1, <1>2 DEF LinksOf, MarkedPeople

\* nor of a sorted sheet,
LEMMA SortedRows ==
    ASSUME sheet \in [Rows -> RowDoc], NEW i \in Rows, NEW j \in Rows,
           sheet' = [sheet EXCEPT ![i] = sheet[j], ![j] = sheet[i]]
    PROVE  MarkedPeople' = MarkedPeople /\ LinksOf' = LinksOf
<1>1. /\ \A a \in Rows : \E b \in Rows : sheet'[a] = sheet[b]
      /\ \A a \in Rows : \E b \in Rows : sheet[a] = sheet'[b]
  <2>1. sheet'[i] = sheet[j] /\ sheet'[j] = sheet[i] /\ \A a \in Rows \ {i, j} : sheet'[a] = sheet[a]
    OBVIOUS
  <2> QED
    BY <2>1
<1>2. ASSUME NEW w PROVE w \in MarkedPeople' <=> w \in MarkedPeople
  <2>1. ASSUME w \in MarkedPeople' PROVE w \in MarkedPeople
    <3>1. PICK a \in Rows : sheet'[a].status = "Synced" /\ sheet'[a].who = w
      BY <2>1 DEF MarkedPeople
    <3>2. PICK b \in Rows : sheet'[a] = sheet[b]
      BY <1>1
    <3> QED
      BY <3>1, <3>2 DEF MarkedPeople
  <2>2. ASSUME w \in MarkedPeople PROVE w \in MarkedPeople'
    <3>1. PICK a \in Rows : sheet[a].status = "Synced" /\ sheet[a].who = w
      BY <2>2 DEF MarkedPeople
    <3>2. PICK b \in Rows : sheet[a] = sheet'[b]
      BY <1>1
    <3> QED
      BY <3>1, <3>2 DEF MarkedPeople
  <2> QED
    BY <2>1, <2>2
<1>3. ASSUME NEW w \in Rows PROVE LinksOf'[w] = LinksOf[w]
  <2>1. ASSUME NEW l \in Leads, NEW a \in Rows, sheet'[a].who = w, sheet'[a].lead = l
        PROVE  \E b \in Rows : sheet[b].who = w /\ sheet[b].lead = l
    <3>1. PICK b \in Rows : sheet'[a] = sheet[b]
      BY <1>1
    <3> QED
      BY <2>1, <3>1
  <2>2. ASSUME NEW l \in Leads, NEW a \in Rows, sheet[a].who = w, sheet[a].lead = l
        PROVE  \E b \in Rows : sheet'[b].who = w /\ sheet'[b].lead = l
    <3>1. PICK b \in Rows : sheet[a] = sheet'[b]
      BY <1>1
    <3> QED
      BY <2>2, <3>1
  <2> QED
    BY <2>1, <2>2 DEF LinksOf
<1> QED
  BY <1>2, <1>3 DEF LinksOf, MarkedPeople

\* nor of a run that goes on.
LEMMA SameTurn ==
    ASSUME KeyInv, KeyInv', NEW r \in Runs, Active(r), Active(r)', repair'[r] = repair[r]
    PROVE  Repairing' <=> Repairing
BY DEF Repairing, KeyInv

\* A status written into a row marks its person or takes the mark away.
LEMMA MarkedBy ==
    ASSUME sheet \in [Rows -> RowDoc], OwnKeys, NEW i \in Rows, NEW s \in {"Synced", "Error"},
           sheet' = [sheet EXCEPT ![i] = [@ EXCEPT !.status = s]]
    PROVE  /\ MarkedPeople' = IF s = "Synced" THEN MarkedPeople \cup {sheet[i].who}
                                              ELSE MarkedPeople \ {sheet[i].who}
           /\ LinksOf' = LinksOf
<1>1. \A j \in Rows : /\ sheet'[j].who = sheet[j].who /\ sheet'[j].lead = sheet[j].lead
                      /\ sheet'[j].status = (IF j = i THEN s ELSE sheet[j].status)
  BY OtherCells
<1>2. \A w \in Rows : LinksOf'[w] = LinksOf[w]
  BY <1>1 DEF LinksOf
<1>3. \A w : w \in MarkedPeople' <=>
          \E j \in Rows : sheet[j].who = w /\ (IF j = i THEN s ELSE sheet[j].status) = "Synced"
  BY <1>1 DEF MarkedPeople
<1>4. \A w : w \in MarkedPeople <=> \E j \in Rows : sheet[j].who = w /\ sheet[j].status = "Synced"
  BY DEF MarkedPeople
<1>5. \A j \in Rows : sheet[j].who = sheet[i].who => j = i
  BY DEF OwnKeys
<1>6. \A w : w \in MarkedPeople' <=>
          IF s = "Synced" THEN w \in MarkedPeople \/ w = sheet[i].who
                          ELSE w \in MarkedPeople /\ w # sheet[i].who
  BY <1>3, <1>4, <1>5
<1>7. MarkedPeople' = IF s = "Synced" THEN MarkedPeople \cup {sheet[i].who}
                                      ELSE MarkedPeople \ {sheet[i].who}
  BY <1>6
<1> QED
  BY <1>2, <1>7 DEF LinksOf

\* A lead id written into a row becomes the link of its person.
LEMMA LinkedBy ==
    ASSUME sheet \in [Rows -> RowDoc], OwnKeys, NEW i \in Rows, NEW l \in Leads,
           sheet' = [sheet EXCEPT ![i] = [@ EXCEPT !.lead = l]]
    PROVE  LinksOf' = [LinksOf EXCEPT ![sheet[i].who] = {l}] /\ MarkedPeople' = MarkedPeople
<1>1. \A j \in Rows : /\ sheet'[j].who = sheet[j].who /\ sheet'[j].status = sheet[j].status
                      /\ sheet'[j].lead = (IF j = i THEN l ELSE sheet[j].lead)
  BY OtherCells
<1>2. \A w : w \in MarkedPeople' <=> w \in MarkedPeople
  BY <1>1 DEF MarkedPeople
<1>3. \A j \in Rows : sheet[j].who = sheet[i].who => j = i
  BY DEF OwnKeys
<1>4. ASSUME NEW w \in Rows PROVE LinksOf'[w] = IF w = sheet[i].who THEN {l} ELSE LinksOf[w]
  <2>1. \A m \in Leads : (\E j \in Rows : sheet'[j].who = w /\ sheet'[j].lead = m)
           <=> IF w = sheet[i].who THEN m = l ELSE \E j \in Rows : sheet[j].who = w /\ sheet[j].lead = m
    BY <1>1, <1>3
  <2> QED
    BY <2>1 DEF LinksOf
<1>5. sheet[i].who \in Rows
  BY DEF RowDoc
<1> QED
  BY <1>2, <1>4, <1>5 DEF LinksOf, MarkedPeople


\* Whatever only begins or ends a run is at most a turn of RowIntake.
LEMMA TurnRefines ==
    ASSUME OwnerOf' = OwnerOf, LiveLeads' = LiveLeads, MarkedPeople' = MarkedPeople, LinksOf' = LinksOf
    PROVE  [Intake!Next]_(Intake!vars)
<1>1. CASE Repairing' <=> Repairing
  BY <1>1 DEF Intake!vars
<1>2. CASE Repairing' <=> ~Repairing
  BY <1>2 DEF Intake!Next, Intake!Turn
<1> QED
  BY <1>1, <1>2

\* What a run writes into the sheet is a step of RowIntake,
LEMMA SheetRefines ==
    ASSUME NoMove, TypeOK, LocalsSet, KeyInv, KeyInv', OwnKeys, LinkInv, ResendInv, MarkInv, NEW r \in Runs
    PROVE  /\ NamelessRow(r) => [Intake!Next]_(Intake!vars)
           /\ MarkSynced(r) => [Intake!Next]_(Intake!vars)
           /\ MarkError(r) => [Intake!Next]_(Intake!vars)
           /\ WriteLeadId(r) => [Intake!Next]_(Intake!vars)
<1>0. /\ runPc \in [Runs -> RunPcs] /\ sheet \in [Rows -> RowDoc] /\ req \in [Runs -> Request]
      /\ \A i \in Rows : sheet[i].who \in Rows
      /\ \A q \in Runs : runPc[q] \in {"post", "wait", "link"} => at[q] \in Rows
  BY DEF TypeOK, LocalsSet, RowDoc
<1>1. ASSUME UNCHANGED leads PROVE OwnerOf' = OwnerOf /\ LiveLeads' = LiveLeads
  BY <1>1, SameLeads
<1>2. ASSUME Active(r) PROVE Repairing <=> repair[r]
  BY <1>2 DEF Repairing, KeyInv
<1>3. ASSUME NamelessRow(r) PROVE [Intake!Next]_(Intake!vars)
  <2>1. /\ at[r] \in Rows /\ runPc[r] = "rows" /\ UNCHANGED <<leads, runPc, repair, req>>
        /\ Row(r).status # "Synced" \/ repair[r]
        /\ sheet' = [sheet EXCEPT ![at[r]] = [@ EXCEPT !.status = "Error"]]
    BY <1>3 DEF NamelessRow, AtRow, Wanted
  <2>2. MarkedPeople' = MarkedPeople \ {sheet[at[r]].who} /\ LinksOf' = LinksOf
    BY <1>0, <2>1, MarkedBy
  <2>3. Row(r).status = sheet[at[r]].status
    BY <2>1 DEF ResendInv, StatusFresh, Unvisited, Row, Rows
  <2>4. Active(r) /\ (Repairing' <=> Repairing)
    BY <2>1, SameTurn DEF Active
  <2>5. CASE repair[r]
    BY <1>0, <1>1, <1>2, <2>1, <2>2, <2>4, <2>5 DEF Intake!Next, Intake!Unmark
  <2>6. CASE sheet[at[r]].status # "Synced"
    <3>1. sheet[at[r]].who \notin MarkedPeople
      BY <2>1, <2>6 DEF MarkedPeople, OwnKeys
    <3> QED
      BY <1>1, <2>1, <2>2, <2>4, <3>1, TurnRefines
  <2> QED
    BY <2>1, <2>3, <2>5, <2>6
<1>4. ASSUME MarkError(r) PROVE [Intake!Next]_(Intake!vars)
  <2>1. /\ at[r] \in Rows /\ runPc[r] = "wait" /\ UNCHANGED leads /\ repair' = repair /\ runPc'[r] = "rows"
        /\ sheet' = [sheet EXCEPT ![at[r]] = [@ EXCEPT !.status = "Error"]]
    BY <1>0, <1>4 DEF MarkError, NextRow
  <2>2. MarkedPeople' = MarkedPeople \ {sheet[at[r]].who} /\ LinksOf' = LinksOf
    BY <1>0, <2>1, MarkedBy
  <2>3. Active(r) /\ (Repairing' <=> Repairing)
    BY <2>1, SameTurn DEF Active
  <2>4. CASE repair[r]
    BY <1>0, <1>1, <1>2, <2>1, <2>2, <2>3, <2>4 DEF Intake!Next, Intake!Unmark
  <2>5. CASE sheet[at[r]].status # "Synced"
    <3>1. sheet[at[r]].who \notin MarkedPeople
      BY <2>1, <2>5 DEF MarkedPeople, OwnKeys
    <3> QED
      BY <1>1, <2>1, <2>2, <2>3, <3>1, TurnRefines
  <2> QED
    BY <2>1, <2>4, <2>5 DEF MarkInv, RowMarked
<1>5. ASSUME MarkSynced(r) PROVE [Intake!Next]_(Intake!vars)
  <2>1. /\ at[r] \in Rows /\ runPc[r] = "wait" /\ UNCHANGED leads /\ repair' = repair /\ runPc'[r] = "link"
        /\ req[r].pc = "ok" /\ sheet' = [sheet EXCEPT ![at[r]] = [@ EXCEPT !.status = "Synced"]]
    BY <1>0, <1>5 DEF MarkSynced, Accepted
  <2>2. MarkedPeople' = MarkedPeople \cup {sheet[at[r]].who} /\ LinksOf' = LinksOf
    BY <1>0, <2>1, MarkedBy
  <2>3. Active(r) /\ (Repairing' <=> Repairing)
    BY <2>1, SameTurn DEF Active
  <2>4. req[r].lead \in Leads /\ leads[req[r].lead].who = req[r].who
    BY <2>1 DEF LinkInv, RequestLead, HasLead, IsLead
  <2>5. req[r].who = sheet[at[r]].who
    BY <2>1 DEF LinkInv, RunRequest
  <2>6. \E l \in Leads : OwnerOf[l] = sheet[at[r]].who
    BY <2>4, <2>5 DEF OwnerOf
  <2>7. OwnerOf' = OwnerOf /\ LiveLeads' = LiveLeads
    BY <1>1, <2>1
  <2>8. Intake!Mark(sheet[at[r]].who)
    <3>1. UNCHANGED <<OwnerOf, LiveLeads, LinksOf, Repairing>>
      BY <2>2, <2>3, <2>7 DEF Repairing
    <3> QED
      BY <2>2, <2>6, <3>1 DEF Intake!Mark
  <2> QED
    BY <1>0, <2>1, <2>8 DEF Intake!Next
<1>6. ASSUME WriteLeadId(r) PROVE [Intake!Next]_(Intake!vars)
  <2>1. /\ at[r] \in Rows /\ runPc[r] = "link" /\ UNCHANGED leads /\ repair' = repair /\ runPc'[r] = "rows"
        /\ sheet' = [sheet EXCEPT ![at[r]] = [@ EXCEPT !.lead = req[r].lead]]
    BY <1>0, <1>6 DEF WriteLeadId, NextRow
  <2>2. req[r].lead \in Leads /\ leads[req[r].lead].who = req[r].who
    BY <2>1 DEF LinkInv, RequestLead, HasLead, IsLead, RunRequest
  <2>3. req[r].who = sheet[at[r]].who
    BY <2>1 DEF LinkInv, RunRequest
  <2>4. LinksOf' = [LinksOf EXCEPT ![sheet[at[r]].who] = {req[r].lead}] /\ MarkedPeople' = MarkedPeople
    BY <1>0, <2>1, <2>2, LinkedBy
  <2>5. Active(r) /\ (Repairing' <=> Repairing)
    BY <2>1, SameTurn DEF Active
  <2>6. sheet[at[r]].who \in MarkedPeople /\ OwnerOf[req[r].lead] = sheet[at[r]].who
    BY <2>1, <2>2, <2>3 DEF MarkInv, RowMarked, MarkedPeople, OwnerOf
  <2>7. OwnerOf' = OwnerOf /\ LiveLeads' = LiveLeads
    BY <1>1, <2>1
  <2>8. Intake!Link(sheet[at[r]].who, req[r].lead)
    <3>1. UNCHANGED <<OwnerOf, LiveLeads, MarkedPeople, Repairing>>
      BY <2>4, <2>5, <2>7 DEF Repairing
    <3> QED
      BY <2>4, <2>6, <3>1 DEF Intake!Link
  <2> QED
    BY <1>0, <2>1, <2>2, <2>8 DEF Intake!Next
<1> QED
  BY <1>3, <1>4, <1>5, <1>6

\* and so is what happens to the leads:
LEMMA LeadRefines ==
    ASSUME TypeOK, KeyInv, KeyInv', RowInv, UnusedLeads, ResendInv
    PROVE  /\ \A l \in Leads : EditLead(l) => [Intake!Next]_(Intake!vars)
           /\ \A l \in Leads : DeleteLead(l) => [Intake!Next]_(Intake!vars)
           /\ \A r \in Runs : RepairLead(r) => [Intake!Next]_(Intake!vars)
           /\ \A r \in Runs : InsertLead(r) => [Intake!Next]_(Intake!vars)
<1>0. leads \in [Leads -> LeadDoc] /\ req \in [Runs -> Request] /\ runPc \in [Runs -> RunPcs]
  BY DEF TypeOK
<1>1. ASSUME UNCHANGED sheet PROVE MarkedPeople' = MarkedPeople /\ LinksOf' = LinksOf
  BY <1>1, SameRows
<1>2. ASSUME UNCHANGED <<runVars, req>> PROVE Repairing' <=> Repairing
  BY <1>2 DEF Repairing, Active, runVars
<1>3. ASSUME NEW l \in Leads, EditLead(l) PROVE [Intake!Next]_(Intake!vars)
  <2>1. OwnerOf' = OwnerOf /\ LiveLeads' = LiveLeads
    BY <1>0, <1>3, SameLeads DEF EditLead, LeadDoc
  <2> QED
    BY <1>1, <1>2, <1>3, <2>1, TurnRefines DEF EditLead
<1>4. ASSUME NEW l \in Leads, DeleteLead(l) PROVE [Intake!Next]_(Intake!vars)
  <2>1. /\ leads' = [leads EXCEPT ![l] = [@ EXCEPT !.state = "deleted"]] /\ leads[l].state = "live"
        /\ UNCHANGED <<sheet, runVars, req>>
    BY <1>4 DEF DeleteLead
  <2>2. /\ \A m \in Leads : leads'[m].who = leads[m].who
        /\ \A m \in Leads \ {l} : leads'[m].state = leads[m].state
        /\ leads'[l].state = "deleted"
    BY <1>0, <2>1 DEF LeadDoc
  <2>3. OwnerOf' = OwnerOf
    BY <2>2 DEF OwnerOf
  <2>4. l \in LiveLeads /\ LiveLeads' = LiveLeads \ {l}
    BY <2>1, <2>2 DEF LiveLeads, Live
  <2>5. MarkedPeople' = MarkedPeople /\ LinksOf' = LinksOf /\ (Repairing' <=> Repairing)
    BY <1>1, <1>2, <2>1
  <2>6. Intake!Delete(l)
    BY <2>3, <2>4, <2>5 DEF Intake!Delete
  <2> QED
    BY <2>6 DEF Intake!Next
<1>5. ASSUME NEW r \in Runs, RepairLead(r) PROVE [Intake!Next]_(Intake!vars)
  <2>1. /\ req'[r].pc = "ok" /\ req[r].pc = "repair" /\ UNCHANGED <<sheet, runVars>>
    BY <1>0, <1>5, ServerEffect DEF RepairLead
  <2>2. OwnerOf' = OwnerOf /\ LiveLeads' = LiveLeads
    BY <1>0, <1>5, SameLeads DEF RepairLead, LeadDoc
  <2>3. Repairing' <=> Repairing
    BY <2>1, SameTurn DEF Active, runVars
  <2> QED
    BY <1>1, <2>1, <2>2, <2>3, TurnRefines
<1>6. ASSUME NEW r \in Runs, InsertLead(r) PROVE [Intake!Next]_(Intake!vars)
  <2>1. PICK l \in Leads :
           /\ leads[l].state = "absent" /\ Server(r, "log", l)
           /\ leads' = [leads EXCEPT ![l] =
                         [state |-> "live", key |-> req[r].key, who |-> req[r].who,
                          name |-> req[r].name, contact |-> "sheet"]]
    BY <1>6 DEF InsertLead
  <2>2. /\ req'[r].pc = "log" /\ req[r].pc = "insert" /\ UNCHANGED <<sheet, runVars>>
    BY <1>0, <1>6, <2>1, ServerEffect DEF InsertLead
  <2>3. Repairing' <=> Repairing
    BY <2>2, SameTurn DEF Active, runVars
  <2>4. OwnerOf' = [OwnerOf EXCEPT ![l] = req[r].who]
    BY <1>0, <2>1 DEF OwnerOf
  <2>5. LiveLeads' = LiveLeads \cup {l}
    BY <1>0, <2>1 DEF LiveLeads, Live
  <2>6. OwnerOf[l] = None
    BY <2>1 DEF UnusedLeads, OwnerOf
  <2>7. PICK i \in Rows : sheet[i].who = req[r].who /\ sheet[i].key = req[r].key /\ req[r].key # None
    BY <2>2 DEF RowInv, RequestKeyed, HasRow
  <2>8. ASSUME NEW m \in LiveLeads PROVE OwnerOf[m] # req[r].who
    <3>1. m \in Leads /\ Live(m) /\ OwnerOf[m] = leads[m].who
      BY DEF LiveLeads, OwnerOf
    <3>2. leads[m].key # req[r].key
      BY <2>2, <3>1 DEF KeyInv, Matching, Live
    <3>3. HasRow(leads[m].who, leads[m].key)
      BY <3>1 DEF RowInv, LeadKeyed
    <3>4. PICK j \in Rows : sheet[j].who = leads[m].who /\ sheet[j].key = leads[m].key
      BY <3>3 DEF HasRow
    <3> QED
      BY <2>7, <3>1, <3>2, <3>4 DEF RowInv, OwnKeys
  <2>9. req[r].who \in MarkedPeople => Repairing
    <3>1. repair[r] \/ Unsynced(req[r].who)
      BY <2>2 DEF ResendInv, PostsUnsynced
    <3> QED
      BY <2>2, <3>1 DEF Unsynced, MarkedPeople, Repairing, Active
  <2>10. req[r].who \in Rows
    BY <2>7 DEF TypeOK, RowDoc
  <2>11. MarkedPeople' = MarkedPeople /\ LinksOf' = LinksOf
    BY <1>1, <2>2
  <2>12. Intake!Create(req[r].who, l)
    BY <2>3, <2>4, <2>5, <2>6, <2>8, <2>9, <2>11 DEF Intake!Create
  <2> QED
    BY <2>10, <2>12 DEF Intake!Next
<1> QED
  BY <1>3, <1>4, <1>5, <1>6

\* and so is every step.
LEMMA RefineStep ==
    ASSUME ~RowsMove, TypeOK, LocalsSet, KeyInv, KeyInv', RowInv, LinkInv, ResendInv, UnusedLeads, MarkInv,
           [Next]_vars
    PROVE  [Intake!Next]_(Intake!vars)
<1>0. sheet \in [Rows -> RowDoc] /\ OwnKeys
  BY DEF TypeOK, RowInv
<1>1. ASSUME UNCHANGED <<leads, sheet>> PROVE [Intake!Next]_(Intake!vars)
  BY <1>1, SameLeads, SameRows, TurnRefines
<1>2. ASSUME NEW i \in Rows, EditRow(i) PROVE [Intake!Next]_(Intake!vars)
  <2>1. PICK n, v : sheet' = [sheet EXCEPT ![i] = [@ EXCEPT !.name = n, !.valid = v]]
    BY <1>2 DEF EditRow
  <2>2. \A j \in Rows : /\ sheet'[j].who = sheet[j].who /\ sheet'[j].status = sheet[j].status
                        /\ sheet'[j].lead = sheet[j].lead
    BY <1>0, <2>1, OtherCells
  <2> QED
    BY <1>2, <2>2, SameLeads, SameRows, TurnRefines DEF EditRow
<1>3. ASSUME NEW i \in Rows, NEW j \in Rows, MoveRows(i, j) PROVE [Intake!Next]_(Intake!vars)
  <2>1. MarkedPeople' = MarkedPeople /\ LinksOf' = LinksOf
    BY <1>0, <1>3, SortedRows DEF MoveRows
  <2> QED
    BY <1>3, <2>1, SameLeads, TurnRefines DEF MoveRows
<1>4. ASSUME NEW r \in Runs, TakeKey(r) PROVE [Intake!Next]_(Intake!vars)
  <2>1. at[r] \in Rows /\ leads' = leads
    BY <1>4 DEF TakeKey, AtRow
  <2>2. sheet' = sheet \/ \E k \in Keys : sheet' = [sheet EXCEPT ![at[r]] = [@ EXCEPT !.key = k]]
    BY <1>4 DEF TakeKey, WithKey
  <2>3. ASSUME NEW k \in Keys, sheet' = [sheet EXCEPT ![at[r]] = [@ EXCEPT !.key = k]]
        PROVE  \A j \in Rows : /\ sheet'[j].who = sheet[j].who /\ sheet'[j].status = sheet[j].status
                               /\ sheet'[j].lead = sheet[j].lead
    BY <1>0, <2>1, <2>3, OtherCells
  <2> QED
    BY <2>1, <2>2, <2>3, SameLeads, SameRows, TurnRefines
<1>5. ASSUME NEW r \in Runs, NamelessRow(r) \/ MarkSynced(r) \/ MarkError(r) \/ WriteLeadId(r), NoMove
      PROVE  [Intake!Next]_(Intake!vars)
  BY <1>0, <1>5, SheetRefines
<1>6. CASE ~NoMove
  BY <1>3, <1>6 DEF NoMove
<1>7. \/ UNCHANGED <<leads, sheet>>
      \/ \E i \in Rows : EditRow(i) \/ \E j \in Rows : MoveRows(i, j)
      \/ \E l \in Leads : EditLead(l) \/ DeleteLead(l)
      \/ \E r \in Runs : \/ NamelessRow(r) \/ MarkSynced(r) \/ MarkError(r) \/ WriteLeadId(r)
                         \/ TakeKey(r) \/ RepairLead(r) \/ InsertLead(r)
  BY DEF Next, RunStep, ServerStep, BeginRun, EndRun, SkipRow, Post, KillRun,
         FindLead, LogLead, Forget, Fail, vars
<1> QED
  BY <1>1, <1>2, <1>3, <1>4, <1>5, <1>6, <1>7, LeadRefines

\* The inductive invariant of the refinement.
LEMMA MarkInvariant ==
    ASSUME ~Overlap, ~RowsMove
    PROVE  Spec => [](TypeOK /\ LocalsSet /\ KeyInv /\ RowInv /\ LinkInv /\ ResendInv /\ UnusedLeads /\ MarkInv)
<1>1. Init => UnusedLeads /\ MarkInv
  BY DEF Init, UnusedLeads, NoLead, MarkInv, RowMarked
<1>2. TypeOK /\ LocalsSet /\ KeyInv /\ ResendInv /\ UnusedLeads /\ MarkInv /\ [Next]_vars => UnusedLeads' /\ MarkInv'
  <2> SUFFICES ASSUME TypeOK, LocalsSet, KeyInv, ResendInv, UnusedLeads, MarkInv, [Next]_vars
               PROVE  UnusedLeads' /\ MarkInv'
    OBVIOUS
  <2>1. CASE NoMove
    BY <2>1, UnusedStep, MarkStep
  <2>2. CASE ~NoMove
    BY <2>2, UnusedStep DEF NoMove, MoveRows, Quiet, runVars, MarkInv, RowMarked
  <2> QED
    BY <2>1, <2>2
<1> QED
  BY <1>1, <1>2, ResendInvariant, PTL DEF Spec

\* Runs that do not overlap, on a sheet sorted between them only, turn rows into
\* leads as RowIntake promises: every step of people, scripts and requests is a
\* step of RowIntake or changes nothing it sees.
THEOREM Refinement == ASSUME ~Overlap, ~RowsMove PROVE Spec => ImplementsRowIntake
<1> DEFINE Inv == /\ TypeOK /\ LocalsSet /\ KeyInv /\ RowInv /\ LinkInv /\ ResendInv
                  /\ UnusedLeads /\ MarkInv
<1>1. Init => Intake!Init
  <2> SUFFICES ASSUME Init PROVE Intake!Init
    OBVIOUS
  <2>1. PICK n \in [Rows -> Names], v \in [Rows -> Valids] :
             sheet = [i \in Rows |-> NewRow(i, n[i], v[i])]
    BY DEF Init
  <2>2. \A i \in Rows : sheet[i].lead = None /\ sheet[i].status = ""
    BY <2>1 DEF NewRow
  <2>3. \A l \in Leads : leads[l].state = "absent" /\ leads[l].who = None
    BY DEF Init, NoLead
  <2>4. OwnerOf = [d \in Leads |-> None] /\ LiveLeads = {}
    BY <2>3 DEF OwnerOf, LiveLeads, Live
  <2>5. MarkedPeople = {}
    BY <2>2 DEF MarkedPeople
  <2>6. LinksOf = [w \in Rows |-> {}]
    BY <2>2, SheetSyncAssumption DEF LinksOf
  <2>7. ~Repairing
    BY DEF Init, Repairing, Active, NoRequest
  <2> QED
    BY <2>4, <2>5, <2>6, <2>7 DEF Intake!Init
<1>2. Inv /\ Inv' /\ [Next]_vars => [Intake!Next]_(Intake!vars)
  BY RefineStep
<1>3. Spec => []Inv
  BY MarkInvariant, PTL
<1> QED
  BY <1>1, <1>2, <1>3, PTL DEF Spec, Intake!Spec, ImplementsRowIntake


-----------------------------------------------------------------------------
(***************************************************************************)
(* Where the finding about CRM edits ends: a sheet whose columns never     *)
(* yield a lead reference without a name.                                  *)
(***************************************************************************)
\* Neither rows nor snapshots hold a lead reference in place of a name.
RowsNamed ==
    /\ \A i \in Rows : sheet[i].name # "ref"
    /\ \A r \in Runs, i \in Rows : snap[r][i].name # "ref"

\* No request and no lead has a fallback name, so none is to be repaired.
LeadsNamed ==
    /\ \A r \in Runs : runPc[r] = "post" => Row(r).name = "full"
    /\ \A r \in Runs : req[r].name = "full" /\ req[r].pc # "repair"
    /\ \A l \in Leads : leads[l].name = "full"

NamedInv == RowsNamed /\ LeadsNamed

\* Names come into the sheet from Init and EditRow only, and snapshots from
\* the sheet.
LEMMA RowsNamedStep ==
    ASSUME "ref" \notin Names, TypeOK, LocalsSet, RowsNamed, [Next]_vars
    PROVE  RowsNamed'
<1> USE DEF TypeOK, RowsNamed, runVars
<1>n. \A i \in Rows : NoRows[i].name # "ref"
  BY DEF NoRows, NewRow
<1>d. \A i \in Rows : sheet[i] \in RowDoc
  OBVIOUS
<1>u. ASSUME NEW d \in RowDoc, NEW v
      PROVE  /\ \A b : [d EXCEPT !.name = v, !.valid = b].name = v
             /\ [d EXCEPT !.status = v].name = d.name
             /\ [d EXCEPT !.key = v].name = d.name
             /\ [d EXCEPT !.lead = v].name = d.name
  BY DEF RowDoc
<1>1. ASSUME NEW i \in Rows, EditRow(i) PROVE RowsNamed'
  <2>1. PICK n \in Names, v \in Valids :
           sheet' = [sheet EXCEPT ![i] = [@ EXCEPT !.name = n, !.valid = v]]
    BY <1>1 DEF EditRow
  <2>2. [sheet[i] EXCEPT !.name = n, !.valid = v].name = n
    BY <1>d, <1>u
  <2> QED
    BY <1>1, <2>1, <2>2 DEF EditRow
<1>2. ASSUME NEW i \in Rows, NEW j \in Rows, MoveRows(i, j) PROVE RowsNamed'
  BY <1>2 DEF MoveRows
<1>3. ASSUME NEW l \in Leads, EditLead(l) \/ DeleteLead(l) PROVE RowsNamed'
  BY <1>3 DEF EditLead, DeleteLead
<1>4. ASSUME NEW r \in Runs, NEW rep \in BOOLEAN, BeginRun(r, rep) PROVE RowsNamed'
  BY <1>4 DEF BeginRun
<1>5. ASSUME NEW r \in Runs, RunStep(r) PROVE RowsNamed'
  <2>1. CASE EndRun(r)
    BY <2>1, <1>n DEF EndRun, Leave
  <2>2. CASE SkipRow(r) \/ Post(r)
    BY <2>2 DEF SkipRow, Post
  <2>3. ASSUME NEW i \in Rows, NEW d \in RowDoc, d.name = sheet[i].name,
               sheet' = [sheet EXCEPT ![i] = d], UNCHANGED snap
        PROVE  RowsNamed'
    BY <2>3
  <2>4. CASE NamelessRow(r)
    <3>1. [sheet[at[r]] EXCEPT !.status = "Error"].name = sheet[at[r]].name
      BY <2>4, <1>d, <1>u DEF NamelessRow, AtRow
    <3> QED
      BY <2>4, <3>1, <2>3, RowUpdates DEF NamelessRow, AtRow
  <2>5. CASE TakeKey(r)
    <3>1. CASE UNCHANGED sheet
      BY <2>5, <3>1 DEF TakeKey
    <3>2. ASSUME NEW k \in Keys, sheet' = WithKey(at[r], k) PROVE RowsNamed'
      <4>1. at[r] \in Rows /\ UNCHANGED snap
        BY <2>5 DEF TakeKey, AtRow
      <4>2. [sheet[at[r]] EXCEPT !.key = k].name = sheet[at[r]].name
        BY <4>1, <1>d, <1>u
      <4> QED
        BY <3>2, <4>1, <4>2, <2>3, RowUpdates DEF WithKey
    <3> QED
      BY <2>5, <3>1, <3>2 DEF TakeKey
  <2>6. CASE MarkSynced(r)
    <3>1. at[r] \in Rows
      BY <2>6 DEF MarkSynced, LocalsSet
    <3>2. [sheet[at[r]] EXCEPT !.status = "Synced"].name = sheet[at[r]].name
      BY <3>1, <1>d, <1>u
    <3> QED
      BY <2>6, <3>1, <3>2, <2>3, RowUpdates DEF MarkSynced
  <2>7. CASE WriteLeadId(r)
    <3>1. at[r] \in Rows /\ req[r].lead \in Leads \cup {None}
      BY <2>7 DEF WriteLeadId, LocalsSet, Request
    <3>2. [sheet[at[r]] EXCEPT !.lead = req[r].lead].name = sheet[at[r]].name
      BY <3>1, <1>d, <1>u
    <3> QED
      BY <2>7, <3>1, <3>2, <2>3, RowUpdates DEF WriteLeadId, NextRow
  <2>8. CASE MarkError(r)
    <3>1. at[r] \in Rows
      BY <2>8 DEF MarkError, LocalsSet
    <3>2. [sheet[at[r]] EXCEPT !.status = "Error"].name = sheet[at[r]].name
      BY <3>1, <1>d, <1>u
    <3> QED
      BY <2>8, <3>1, <3>2, <2>3, RowUpdates DEF MarkError, NextRow
  <2> QED
    BY <1>5, <2>1, <2>2, <2>4, <2>5, <2>6, <2>7, <2>8 DEF RunStep
<1>6. ASSUME NEW r \in Runs, KillRun(r) PROVE RowsNamed'
  BY <1>6, <1>n DEF KillRun, Leave
<1>7. ASSUME NEW r \in Runs, ServerStep(r) \/ Fail(r) PROVE RowsNamed'
  BY <1>7
     DEF ServerStep, Fail, FindLead, RepairLead, InsertLead, LogLead, Forget
<1>8. CASE UNCHANGED vars
  BY <1>8 DEF vars
<1> QED
  BY <1>1, <1>2, <1>3, <1>4, <1>5, <1>6, <1>7, <1>8 DEF Next

\* A request takes its name from its row and a lead from its request, and only
\* a lead with a fallback name sends a request to the repair.
LEMMA LeadsNamedStep ==
    ASSUME TypeOK, LocalsSet, RowsNamed, LeadsNamed, [Next]_vars
    PROVE  LeadsNamed'
<1> USE DEF TypeOK, LeadsNamed, runVars
<1>q. \A r \in Runs : req[r] \in Request
  OBVIOUS
<1>d. \A l \in Leads : leads[l] \in LeadDoc
  OBVIOUS
<1>s. ASSUME NEW r \in Runs, NEW p, p # "repair", NEW l, Server(r, p, l),
             UNCHANGED <<leads, runPc, snap, at>>
      PROVE  LeadsNamed'
  <2>1. [req[r] EXCEPT !.pc = p, !.lead = l].name = req[r].name
    BY <1>q DEF Request
  <2>2. [req[r] EXCEPT !.pc = p, !.lead = l].pc = p
    BY <1>q DEF Request
  <2> QED
    BY <1>s, <2>1, <2>2 DEF Server, Row
<1>1. ASSUME NEW i \in Rows, EditRow(i) PROVE LeadsNamed'
  BY <1>1 DEF EditRow, Row
<1>2. ASSUME NEW i \in Rows, NEW j \in Rows, MoveRows(i, j) PROVE LeadsNamed'
  BY <1>2 DEF MoveRows, Row
<1>3. ASSUME NEW l \in Leads, EditLead(l) PROVE LeadsNamed'
  <2>1. leads' = [leads EXCEPT ![l] = [@ EXCEPT !.contact = "crm", !.name = "full"]]
    BY <1>3 DEF EditLead
  <2>2. [leads[l] EXCEPT !.contact = "crm", !.name = "full"].name = "full"
    BY <1>d DEF LeadDoc
  <2> QED
    BY <1>3, <2>1, <2>2 DEF EditLead, Row
<1>4. ASSUME NEW l \in Leads, DeleteLead(l) PROVE LeadsNamed'
  <2>1. [leads[l] EXCEPT !.state = "deleted"].name = leads[l].name
    BY <1>d DEF LeadDoc
  <2> QED
    BY <1>4, <2>1 DEF DeleteLead, Row
<1>5. ASSUME NEW r \in Runs, NEW rep \in BOOLEAN, BeginRun(r, rep) PROVE LeadsNamed'
  BY <1>5 DEF BeginRun, Row
<1>6. ASSUME NEW r \in Runs, RunStep(r) PROVE LeadsNamed'
  <2>n. ASSUME NextRow(r), UNCHANGED leads PROVE LeadsNamed'
    BY <2>n DEF NextRow, NoRequest, Row
  <2>1. CASE EndRun(r)
    BY <2>1 DEF EndRun, Leave, Row
  <2>2. CASE SkipRow(r)
    BY <2>2 DEF SkipRow, AtRow, Row
  <2>3. CASE NamelessRow(r)
    BY <2>3 DEF NamelessRow, AtRow, Row
  <2>4. CASE TakeKey(r)
    <3>1. Row(r) \in RowDoc /\ Row(r).name # "ref" /\ Row(r).name # "none"
      BY <2>4 DEF TakeKey, AtRow, Row, RowsNamed
    <3>2. Row(r).name = "full"
      BY <3>1 DEF RowDoc
    <3> QED
      BY <2>4, <3>2 DEF TakeKey, Row
  <2>5. CASE Post(r)
    BY <2>5 DEF Post, Row
  <2>6. CASE MarkSynced(r)
    BY <2>6 DEF MarkSynced, Row
  <2>7. CASE WriteLeadId(r)
    BY <2>7, <2>n DEF WriteLeadId
  <2>8. CASE MarkError(r)
    BY <2>8, <2>n DEF MarkError
  <2> QED
    BY <1>6, <2>1, <2>2, <2>3, <2>4, <2>5, <2>6, <2>7, <2>8 DEF RunStep
<1>7. ASSUME NEW r \in Runs, KillRun(r) PROVE LeadsNamed'
  BY <1>7 DEF KillRun, Leave, Row
<1>8. ASSUME NEW r \in Runs, ServerStep(r) PROVE LeadsNamed'
  <2>1. CASE FindLead(r)
    <3>1. CASE Server(r, "insert", None)
      BY <2>1, <3>1, <1>s DEF FindLead
    <3>2. ASSUME NEW l \in Existing(req[r].key),
                 Server(r, IF leads[l].name = "fallback" THEN "repair" ELSE "ok", l)
          PROVE  LeadsNamed'
      <4>1. Server(r, "ok", l)
        BY <3>2 DEF Existing, Matching
      <4> QED
        BY <2>1, <4>1, <1>s DEF FindLead
    <3> QED
      BY <2>1, <3>1, <3>2 DEF FindLead
  <2>2. CASE RepairLead(r)
    BY <2>2 DEF RepairLead
  <2>3. CASE InsertLead(r)
    <3>1. PICK l \in Leads :
             /\ leads' = [leads EXCEPT ![l] =
                            [state |-> "live", key |-> req[r].key,
                             who |-> req[r].who, name |-> req[r].name,
                             contact |-> "sheet"]]
             /\ Server(r, "log", l)
      BY <2>3 DEF InsertLead
    <3>2. \A m \in Leads : leads'[m].name = "full"
      BY <3>1
    <3>3. [req[r] EXCEPT !.pc = "log", !.lead = l].name = req[r].name
      BY <1>q DEF Request
    <3>4. [req[r] EXCEPT !.pc = "log", !.lead = l].pc = "log"
      BY <1>q DEF Request
    <3> QED
      BY <2>3, <3>1, <3>2, <3>3, <3>4 DEF InsertLead, Server, Row
  <2>4. CASE LogLead(r)
    BY <2>4, <1>s DEF LogLead
  <2>5. CASE Forget(r)
    BY <2>5 DEF Forget, NoRequest, Row
  <2> QED
    BY <1>8, <2>1, <2>2, <2>3, <2>4, <2>5 DEF ServerStep
<1>9. ASSUME NEW r \in Runs, Fail(r) PROVE LeadsNamed'
  BY <1>9, <1>s DEF Fail
<1>10. CASE UNCHANGED vars
  BY <1>10 DEF vars, Row
<1> QED
  BY <1>1, <1>2, <1>3, <1>4, <1>5, <1>6, <1>7, <1>8, <1>9, <1>10 DEF Next

\* NamedInv: where no row ever has a lead reference in place of a name, no
\* request is ever a repair, with runs that overlap and rows that move too.
THEOREM NamedInvariant == ASSUME "ref" \notin Names PROVE Spec => []NamedInv
<1> DEFINE Inv == LocalsSet /\ NamedInv
<1>1. Init => Inv
  <2> SUFFICES ASSUME Init PROVE Inv
    OBVIOUS
  <2>1. PICK n \in [Rows -> Names], v \in [Rows -> Valids] :
             sheet = [i \in Rows |-> NewRow(i, n[i], v[i])]
    BY DEF Init
  <2>2. RowsNamed
    BY <2>1 DEF RowsNamed, Init, NewRow, NoRows
  <2>3. LeadsNamed
    BY DEF LeadsNamed, Init, NoRequest, NoLead
  <2>4. LocalsSet
    BY DEF Init, NoRequest, LocalsSet
  <2> QED
    BY <2>2, <2>3, <2>4 DEF NamedInv
<1>2. TypeOK /\ Inv /\ [Next]_vars => Inv'
  BY LocalsStep, RowsNamedStep, LeadsNamedStep DEF NamedInv
<1> QED
  BY <1>1, <1>2, TypeCorrect, PTL DEF Spec

\* Then the comment at server.py:3990 is true: what CRM users enter is never
\* overwritten.  The edits that the sync does lose are lost through fallback
\* names alone, the case SheetSyncCrmEdits shows.
THEOREM EditsKept == ASSUME "ref" \notin Names PROVE Spec => CrmEditsKept
<1> DEFINE Kept ==
      \A l \in Leads :
          Live(l) /\ leads[l].contact = "crm" => leads'[l].contact = "crm"
<1>1. TypeOK /\ NamedInv /\ [Next]_vars => Kept
  <2> SUFFICES ASSUME TypeOK, NamedInv, [Next]_vars, NEW m \in Leads, Live(m),
                      leads[m].contact = "crm"
               PROVE  leads'[m].contact = "crm"
    OBVIOUS
  <2> USE DEF TypeOK
  <2>1. ASSUME NEW l \in Leads, EditLead(l) \/ DeleteLead(l) PROVE leads'[m].contact = "crm"
    <3>1. leads[l] \in LeadDoc
      OBVIOUS
    <3>2. /\ \A n : [leads[l] EXCEPT !.contact = "crm", !.name = n].contact = "crm"
          /\ [leads[l] EXCEPT !.state = "deleted"].contact = leads[l].contact
      BY <3>1 DEF LeadDoc
    <3>3. CASE EditLead(l)
      <4>1. PICK n : leads' = [leads EXCEPT ![l] =
                                 [@ EXCEPT !.contact = "crm", !.name = n]]
        BY <3>3 DEF EditLead
      <4> QED
        BY <3>2, <4>1
    <3>4. CASE DeleteLead(l)
      BY <3>2, <3>4 DEF DeleteLead
    <3> QED
      BY <2>1, <3>3, <3>4
  <2>2. ASSUME NEW r \in Runs, RepairLead(r) PROVE leads'[m].contact = "crm"
    BY <2>2 DEF RepairLead, NamedInv, LeadsNamed
  <2>3. ASSUME NEW r \in Runs, InsertLead(r) PROVE leads'[m].contact = "crm"
    BY <2>3 DEF InsertLead, Live
  <2>4. CASE UNCHANGED leads
    BY <2>4
  <2> QED
    BY <2>1, <2>2, <2>3, <2>4
       DEF Next, RunStep, ServerStep, EditRow, MoveRows, BeginRun, EndRun, SkipRow,
           NamelessRow, TakeKey, Post, MarkSynced, WriteLeadId, MarkError, KillRun,
           FindLead, LogLead, Forget, Fail, vars
<1>2. TypeOK /\ NamedInv /\ [Next]_vars => [Kept]_vars
  BY <1>1
<1> QED
  BY <1>2, TypeCorrect, NamedInvariant, PTL DEF Spec, CrmEditsKept

=============================================================================

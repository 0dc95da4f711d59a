----------------------------- MODULE SheetSync ------------------------------
(***************************************************************************)
(* The Google Sheets lead sync: the Apps Script syncPropzelLeadsInternal   *)
(* walks over a snapshot of the sheet, gives each row a key, posts it and  *)
(* marks the row; ingest_google_sheet_lead creates or repairs the lead.    *)
(* Runs start hourly, from the menu, or as repair runs.  A run may end     *)
(* anywhere (script time limit, a fetch that throws), and its last request *)
(* may still be executing then.  Sheet writes go by row number.            *)
(***************************************************************************)
EXTENDS Naturals, FiniteSets

CONSTANTS
    NumRows,    \* data rows of the sheet
    Runs,       \* executions of the script that may exist at once
    Keys,       \* values Utilities.getUuid() may return
    Leads,      \* ids new_id() may return for documents of db.leads
    Overlap,    \* whether a run may start while another one or its request goes on
    RowsMove,   \* whether somebody sorts the sheet during a run, not only between
    MaxKills,   \* bound: runs that end early
    MaxErrors,  \* bound: requests that end with an error answer
    MaxTouched, \* bound: leads that CRM users edit or delete
    Names,      \* what the name columns of a row may hold
    Valids,     \* whether the other cells of a row may pass the body validation
    None

ASSUME SheetSyncAssumption ==
    /\ NumRows \in Nat
    /\ Overlap \in BOOLEAN
    /\ RowsMove \in BOOLEAN
    /\ Names \subseteq {"none", "ref", "full"}
    /\ Valids \subseteq BOOLEAN
    /\ MaxKills \in Nat
    /\ MaxErrors \in Nat
    /\ MaxTouched \in Nat
    /\ None \notin Keys
    /\ None \notin Leads

VARIABLES
    sheet,   \* the rows, by row number
    leads,   \* db.leads
    logged,  \* leads with a lead_created activity
    used,    \* keys that getUuid returned
    runPc,   \* where each run stands
    snap,    \* the values it read when it started
    at,      \* the row number it is at
    repair,  \* repairSyncedLeads of its current or, when idle, its last run
    runKey,  \* rowKey of the current row
    req,     \* the server's handling of its last request
    kills, errors

runVars == <<runPc, snap, at, repair, runKey>>
vars == <<sheet, leads, logged, used, runPc, snap, at, repair, runKey, req,
          kills, errors>>

Rows == 1 .. NumRows

NewRow(i, n, v) ==
    [who |-> i, name |-> n, valid |-> v, status |-> "", key |-> None, lead |-> None]

NoRows == [i \in Rows |-> NewRow(i, "none", TRUE)]

\* who is the lead a row is about; name is absent, only a lead reference, or full;
\* valid tells whether the endpoint takes the row (an e-mail that is one, a name
\* that is not too long).
RowDoc ==
    [who : Rows, name : {"none", "ref", "full"}, valid : BOOLEAN,
     status : {"", "Synced", "Error"},
     key : Keys \cup {None}, lead : Leads \cup {None}]

\* contact tells whether phone and email came from the sheet or a CRM user.
LeadDoc ==
    [state : {"absent", "live", "deleted"}, key : Keys \cup {None},
     who : Rows \cup {None}, name : {"fallback", "full"}, contact : {"sheet", "crm"}]

\* row is the snapshot row the request was made from.
Request ==
    [pc : {"none", "find", "repair", "insert", "log", "ok", "error"},
     key : Keys \cup {None}, who : Rows \cup {None}, name : {"fallback", "full"},
     lead : Leads \cup {None}]

NoRequest ==
    [pc |-> "none", key |-> None, who |-> None, name |-> "full", lead |-> None]

NoLead ==
    [state |-> "absent", key |-> None, who |-> None, name |-> "full",
     contact |-> "sheet"]

-----------------------------------------------------------------------------
(***************************************************************************)
(* People: the owner of the sheet and CRM users.                           *)
(***************************************************************************)

\* A name, or the column the lead reference comes from, is filled in, or a cell
\* is put right or spoilt.
EditRow(i) ==
    /\ \E n \in Names, v \in Valids :
          /\ n = sheet[i].name \/ (sheet[i].name # "full" /\ n # "none")
          /\ sheet' = [sheet EXCEPT ![i] = [@ EXCEPT !.name = n, !.valid = v]]
    /\ UNCHANGED <<leads, logged, used, runVars, req, kills, errors>>

Quiet == \A r \in Runs : runPc[r] = "idle" /\ req[r].pc = "none"

\* Two rows change places: the sheet is sorted.
MoveRows(i, j) ==
    /\ RowsMove \/ Quiet
    /\ i < j
    /\ sheet' = [sheet EXCEPT ![i] = sheet[j], ![j] = sheet[i]]
    /\ UNCHANGED <<leads, logged, used, runVars, req, kills, errors>>

Touched == {l \in Leads : leads[l].state = "deleted" \/ leads[l].contact = "crm"}

\* PATCH /leads/{id}: a user corrects phone or email, and perhaps the name.
EditLead(l) ==
    /\ leads[l].state = "live"
    /\ Cardinality(Touched \cup {l}) <= MaxTouched
    /\ \E n \in {leads[l].name, "full"} :
          leads' = [leads EXCEPT ![l] = [@ EXCEPT !.contact = "crm", !.name = n]]
    /\ UNCHANGED <<sheet, logged, used, runVars, req, kills, errors>>

\* DELETE /leads/{id}: the lead.  Its activities are deleted by organisation, and
\* the one the sync wrote, with no actor, carries none: it stays.
DeleteLead(l) ==
    /\ leads[l].state = "live"
    /\ Cardinality(Touched \cup {l}) <= MaxTouched
    /\ leads' = [leads EXCEPT ![l] = [@ EXCEPT !.state = "deleted"]]
    /\ UNCHANGED <<sheet, logged, used, runVars, req, kills, errors>>

-----------------------------------------------------------------------------
(***************************************************************************)
(* The script.                                                             *)
(***************************************************************************)
\* mutant: row numbers are taken as the zero-based index of the values array.
FirstRowZero == 0

FirstRow == 1

BeginRun(r, rep) ==
    /\ runPc[r] = "idle"
    /\ req[r].pc = "none"
    /\ Overlap \/ Quiet
    /\ runPc' = [runPc EXCEPT ![r] = "rows"]
    /\ snap' = [snap EXCEPT ![r] = sheet]
    /\ at' = [at EXCEPT ![r] = FirstRow]
    /\ repair' = [repair EXCEPT ![r] = rep]
    /\ UNCHANGED <<sheet, leads, logged, used, runKey, req, kills, errors>>

\* Nothing the script held in memory survives its end.
Leave(r) ==
    /\ runPc' = [runPc EXCEPT ![r] = "idle"]
    /\ snap' = [snap EXCEPT ![r] = NoRows]
    /\ at' = [at EXCEPT ![r] = 1]
    /\ runKey' = [runKey EXCEPT ![r] = None]
    /\ UNCHANGED repair

EndRun(r) ==
    /\ runPc[r] = "rows"
    /\ at[r] > NumRows
    /\ Leave(r)
    /\ UNCHANGED <<sheet, leads, logged, used, req, kills, errors>>

Row(r) == snap[r][at[r]]

\* mutant: Synced rows are taken as well.
WantedAlways(r) == TRUE

\* mutant: rows that ended in an error are not tried again.
WantedNew(r) == Row(r).status = "" \/ repair[r]

Wanted(r) == Row(r).status # "Synced" \/ repair[r]

AtRow(r) == runPc[r] = "rows" /\ at[r] \in Rows

SkipRow(r) ==
    /\ AtRow(r)
    /\ ~Wanted(r)
    /\ at' = [at EXCEPT ![r] = @ + 1]
    /\ UNCHANGED <<sheet, leads, logged, used, runPc, snap, repair, runKey, req,
                   kills, errors>>

\* "Error: Name is required"
NamelessRow(r) ==
    /\ AtRow(r)
    /\ Wanted(r)
    /\ Row(r).name = "none"
    /\ sheet' = [sheet EXCEPT ![at[r]] = [@ EXCEPT !.status = "Error"]]
    /\ at' = [at EXCEPT ![r] = @ + 1]
    /\ UNCHANGED <<leads, logged, used, runPc, snap, repair, runKey, req, kills, errors>>

\* mutant: the new key is not written to the sheet before the request.
WithKeyUnsaved(i, k) == sheet

WithKey(i, k) == [sheet EXCEPT ![i] = [@ EXCEPT !.key = k]]

\* The row's key, as the snapshot has it, or a new one, which is saved first.
TakeKey(r) ==
    /\ AtRow(r)
    /\ Wanted(r)
    /\ Row(r).name # "none"
    /\ \/ /\ Row(r).key # None
          /\ runKey' = [runKey EXCEPT ![r] = Row(r).key]
          /\ UNCHANGED <<sheet, used>>
       \/ /\ Row(r).key = None
          /\ \E k \in Keys \ used :
                /\ runKey' = [runKey EXCEPT ![r] = k]
                /\ used' = used \cup {k}
                /\ sheet' = WithKey(at[r], k)
    /\ runPc' = [runPc EXCEPT ![r] = "post"]
    /\ UNCHANGED <<leads, logged, snap, at, repair, req, kills, errors>>

\* GoogleSheetsLeadBody does not validate: 422 before the handler runs.
Refused(r) == ~Row(r).valid

\* UrlFetchApp.fetch; rowToLead falls back to "Facebook lead <reference>".
Post(r) ==
    /\ runPc[r] = "post"
    /\ req' = [req EXCEPT ![r] =
                 [pc |-> IF Refused(r) THEN "error" ELSE "find",
                  key |-> runKey[r], who |-> Row(r).who,
                  name |-> IF Row(r).name = "full" THEN "full" ELSE "fallback",
                  lead |-> None]]
    /\ runPc' = [runPc EXCEPT ![r] = "wait"]
    /\ UNCHANGED <<sheet, leads, logged, used, snap, at, repair, runKey, kills, errors>>

\* mutant: the response code is not looked at.
AcceptedAlways(r) == req[r].pc \in {"ok", "error"}

Accepted(r) == req[r].pc = "ok"

\* The answer is ok: first the status cell, then the lead id cell.
MarkSynced(r) ==
    /\ runPc[r] = "wait"
    /\ Accepted(r)
    /\ sheet' = [sheet EXCEPT ![at[r]] = [@ EXCEPT !.status = "Synced"]]
    /\ runPc' = [runPc EXCEPT ![r] = "link"]
    /\ UNCHANGED <<leads, logged, used, snap, at, repair, runKey, req, kills, errors>>

NextRow(r) ==
    /\ req' = [req EXCEPT ![r] = NoRequest]
    /\ runPc' = [runPc EXCEPT ![r] = "rows"]
    /\ at' = [at EXCEPT ![r] = @ + 1]
    /\ runKey' = [runKey EXCEPT ![r] = None]
    /\ UNCHANGED <<snap, repair>>

WriteLeadId(r) ==
    /\ runPc[r] = "link"
    /\ sheet' = [sheet EXCEPT ![at[r]] = [@ EXCEPT !.lead = req[r].lead]]
    /\ NextRow(r)
    /\ UNCHANGED <<leads, logged, used, kills, errors>>

\* Any other answer.
MarkError(r) ==
    /\ runPc[r] = "wait"
    /\ req[r].pc = "error"
    /\ sheet' = [sheet EXCEPT ![at[r]] = [@ EXCEPT !.status = "Error"]]
    /\ NextRow(r)
    /\ UNCHANGED <<leads, logged, used, kills, errors>>

\* The script is stopped, or fetch throws; an answered request is forgotten.
KillRun(r) ==
    /\ kills < MaxKills
    /\ runPc[r] # "idle"
    /\ kills' = kills + 1
    /\ Leave(r)
    /\ UNCHANGED <<sheet, leads, logged, used, req, errors>>

-----------------------------------------------------------------------------
(***************************************************************************)
(* The server.                                                             *)
(***************************************************************************)
Server(r, pc, l) == req' = [req EXCEPT ![r] = [@ EXCEPT !.pc = pc, !.lead = l]]

Matching(k) == {l \in Leads : leads[l].state = "live" /\ leads[l].key = k}

\* mutant: the row key is missing from the lookup.
ExistingAnyKey(k) == {l \in Leads : leads[l].state = "live"}

\* mutant: no lookup by row key.
ExistingIgnored(k) == {}

\* db.leads.find_one by organisation and google_sheets_row_key
Existing(k) == Matching(k)

\* A lead whose name is still a fallback is repaired, any other is kept.
FindLead(r) ==
    /\ req[r].pc = "find"
    /\ \/ /\ Existing(req[r].key) = {}
          /\ Server(r, "insert", None)
       \/ \E l \in Existing(req[r].key) :
             Server(r, IF leads[l].name = "fallback" THEN "repair" ELSE "ok", l)
    /\ UNCHANGED <<sheet, leads, logged, used, runVars, kills, errors>>

\* update_one by id: name, phone and email are the sheet's again.
RepairLead(r) ==
    /\ req[r].pc = "repair"
    /\ LET l == req[r].lead IN
       leads' = IF leads[l].state = "live"
                THEN [leads EXCEPT ![l] = [@ EXCEPT !.name = req[r].name,
                                                    !.contact = "sheet"]]
                ELSE leads
    /\ Server(r, "ok", req[r].lead)
    /\ UNCHANGED <<sheet, logged, used, runVars, kills, errors>>

InsertLead(r) ==
    /\ req[r].pc = "insert"
    /\ \E l \in Leads :
          /\ leads[l].state = "absent"
          /\ leads' = [leads EXCEPT ![l] =
                         [state |-> "live", key |-> req[r].key, who |-> req[r].who,
                          name |-> req[r].name, contact |-> "sheet"]]
          /\ Server(r, "log", l)
    /\ UNCHANGED <<sheet, logged, used, runVars, kills, errors>>

\* log_activity and create_notification, then the answer.
LogLead(r) ==
    /\ req[r].pc = "log"
    /\ logged' = logged \cup {req[r].lead}
    /\ Server(r, "ok", req[r].lead)
    /\ UNCHANGED <<sheet, leads, used, runVars, kills, errors>>

\* 503, 401 or 404, or the function is killed or fails at any of its awaits.
Fail(r) ==
    /\ errors < MaxErrors
    /\ req[r].pc \in {"find", "repair", "insert", "log"}
    /\ errors' = errors + 1
    /\ Server(r, "error", None)
    /\ UNCHANGED <<sheet, leads, logged, used, runVars, kills>>

\* Nobody waits for the answer any more.
Forget(r) ==
    /\ runPc[r] = "idle"
    /\ req[r].pc \in {"ok", "error"}
    /\ req' = [req EXCEPT ![r] = NoRequest]
    /\ UNCHANGED <<sheet, leads, logged, used, runVars, kills, errors>>

-----------------------------------------------------------------------------
Init ==
    /\ \E n \in [Rows -> Names], v \in [Rows -> Valids] :
          sheet = [i \in Rows |-> NewRow(i, n[i], v[i])]
    /\ leads = [l \in Leads |-> NoLead]
    /\ logged = {}
    /\ used = {}
    /\ runPc = [r \in Runs |-> "idle"]
    /\ snap = [r \in Runs |-> NoRows]
    /\ at = [r \in Runs |-> 1]
    /\ repair = [r \in Runs |-> FALSE]
    /\ runKey = [r \in Runs |-> None]
    /\ req = [r \in Runs |-> NoRequest]
    /\ kills = 0
    /\ errors = 0

RunStep(r) ==
    EndRun(r) \/ SkipRow(r) \/ NamelessRow(r) \/ TakeKey(r) \/ Post(r)
        \/ MarkSynced(r) \/ WriteLeadId(r) \/ MarkError(r)

ServerStep(r) ==
    FindLead(r) \/ RepairLead(r) \/ InsertLead(r) \/ LogLead(r) \/ Forget(r)

Next ==
    \/ \E i \in Rows : EditRow(i) \/ \E j \in Rows : MoveRows(i, j)
    \/ \E l \in Leads : EditLead(l) \/ DeleteLead(l)
    \/ \E r \in Runs : \/ \E rep \in BOOLEAN : BeginRun(r, rep)
                       \/ RunStep(r) \/ KillRun(r) \/ ServerStep(r) \/ Fail(r)

Spec == Init /\ [][Next]_vars

\* The hourly trigger is installed and executions that are not stopped go on.
FairSpec ==
    /\ Spec
    /\ \A r \in Runs : WF_vars(BeginRun(r, FALSE)) /\ WF_vars(RunStep(r))
                         /\ WF_vars(ServerStep(r))

-----------------------------------------------------------------------------
(***************************************************************************)
(* Properties.                                                             *)
(***************************************************************************)
RunPcs == {"idle", "rows", "post", "wait", "link"}

\* Sheet, leads, runs and requests stay in their domains.
TypeOK ==
    /\ sheet \in [Rows -> RowDoc]
    /\ leads \in [Leads -> LeadDoc]
    /\ logged \subseteq Leads
    /\ used \subseteq Keys
    /\ runPc \in [Runs -> RunPcs]
    /\ snap \in [Runs -> [Rows -> RowDoc]]
    /\ at \in [Runs -> Nat \ {0}]
    /\ repair \in [Runs -> BOOLEAN]
    /\ runKey \in [Runs -> Keys \cup {None}]
    /\ req \in [Runs -> Request]
    /\ kills \in Nat
    /\ errors \in Nat

Live(l) == leads[l].state = "live"

\* "Propzel Row Key is kept with the row so retries and future runs cannot
\* create a duplicate lead" (integrations/google-sheets/README.md:21): no two
\* leads of the CRM come from the same row, although runs and requests may end
\* anywhere, answers get lost and repair runs post synced rows again.
OneLeadPerRow ==
    \A l, m \in Leads : Live(l) /\ Live(m) /\ leads[l].who = leads[m].who => l = m

\* No two leads carry the same row key, as long as runs do not overlap: the
\* lookup and the insert of a request act like one step.
OneLeadPerKey ==
    \A l, m \in Leads : Live(l) /\ Live(m) /\ leads[l].key = leads[m].key => l = m

Active(r) == runPc[r] # "idle" \/ req[r].pc # "none"

\* A run that posts is at a row; a request past its lookup or insert has a lead.
LocalsSet ==
    /\ \A r \in Runs : runPc[r] \in {"post", "wait", "link"} => at[r] \in Rows
    /\ \A r \in Runs : req[r].pc \in {"repair", "log"} => req[r].lead \in Leads

\* The inductive form of OneLeadPerKey: one run or request at a time, and a
\* request that is about to insert still has no lead with its key.
KeyInv ==
    /\ \A q, r \in Runs : Active(q) /\ Active(r) => q = r
    /\ \A r \in Runs : req[r].pc = "insert" => Matching(req[r].key) = {}
    /\ OneLeadPerKey

\* Rows differ in what they are about and have keys of their own.
OwnKeys ==
    /\ \A i, j \in Rows : sheet[i].who = sheet[j].who => i = j
    /\ \A i \in Rows : sheet[i].key \in used \cup {None}
    /\ \A i, j \in Rows : sheet[i].key = sheet[j].key => i = j \/ sheet[i].key = None

\* The rows a run has still to visit are as it read them.
Unvisited(r, i) ==
    IF runPc[r] = "rows" THEN i >= at[r] ELSE runPc[r] # "idle" /\ i > at[r]

SnapFresh ==
    \A r \in Runs, i \in Rows : runPc[r] # "idle" =>
        /\ snap[r][i].who = sheet[i].who
        /\ Unvisited(r, i) => snap[r][i].key = sheet[i].key

\* Some row, wherever it is now, is about w and has the key k.
HasRow(w, k) == k # None /\ \E i \in Rows : sheet[i].who = w /\ sheet[i].key = k

\* What is on its way to the server carries its row's key.
RequestKeyed ==
    /\ \A r \in Runs : runPc[r] = "post" =>
          runKey[r] # None /\ runKey[r] = sheet[at[r]].key
    /\ \A r \in Runs : req[r].pc # "none" => HasRow(req[r].who, req[r].key)

\* So does every lead the sync created.
LeadKeyed == \A l \in Leads : Live(l) => HasRow(leads[l].who, leads[l].key)

\* The inductive form of OneLeadPerRow.
RowInv == OwnKeys /\ SnapFresh /\ RequestKeyed /\ LeadKeyed

\* "This integration creates a Propzel lead for each unsynced spreadsheet row"
\* (integrations/google-sheets/README.md:3): a row marked Synced has had a lead,
\* with its activity entry unless a request failed.
SyncedRowIsStored ==
    \A i \in Rows : sheet[i].status = "Synced" =>
        \E l \in Leads :
            /\ leads[l].who = sheet[i].who
            /\ \/ leads[l].state = "deleted"
               \/ leads[l].state = "live" /\ (l \in logged \/ errors > 0)

\* The lead id written next to a row belongs to that row's lead, and the
\* lead carries the key the row has, whatever order runs ended in.
RowLinksItsLead ==
    \A i \in Rows : sheet[i].lead # None =>
        /\ leads[sheet[i].lead].who = sheet[i].who
        /\ leads[sheet[i].lead].key = sheet[i].key

\* A lead is created for a row marked Synced only by a repair run: an ordinary
\* run never brings back the lead of a synced row that CRM users deleted.
SyncedRowIsNotResent ==
    [][\A l \in Leads, i \in Rows :
          /\ leads[l].state = "absent"
          /\ leads'[l].state = "live"
          /\ leads'[l].who = sheet[i].who
          /\ sheet[i].status = "Synced"
          => \E r \in Runs : repair[r]]_vars

\* Somewhere in the sheet the endpoint's validation takes the row of w.
Valid(w) == \E i \in Rows : sheet[i].who = w /\ sheet[i].valid

\* With the hourly trigger, a row that has a name or a lead reference, and that
\* the endpoint's validation takes from then on, is eventually marked Synced:
\* after errors for cells put right since, after stopped runs and failed
\* requests, and wherever the sheet is sorted to between the runs.
NamedRowIsSynced ==
    \A w \in Rows :
        ((\E i \in Rows : sheet[i].who = w /\ sheet[i].name # "none") /\ []Valid(w))
            ~> (\E i \in Rows : sheet[i].who = w /\ sheet[i].status = "Synced")

\* "Repair only those generated records on a later sync; do not overwrite
\* CRM-edited leads" (server.py:3990): contact data a CRM user entered stays.
CrmEditsKept ==
    [][\A l \in Leads :
          Live(l) /\ leads[l].contact = "crm" => leads'[l].contact = "crm"]_vars

\* What of the state RowIntake sees.
OwnerOf == [l \in Leads |-> leads[l].who]

LiveLeads == {l \in Leads : Live(l)}

MarkedPeople == {sheet[i].who : i \in {j \in Rows : sheet[j].status = "Synced"}}

LinksOf ==
    [w \in Rows |-> {l \in Leads : \E i \in Rows : sheet[i].who = w /\ sheet[i].lead = l}]

Repairing == \E r \in Runs : Active(r) /\ repair[r]

Intake == INSTANCE RowIntake WITH
    People <- Rows, Ids <- Leads, Nobody <- None, owner <- OwnerOf,
    live <- LiveLeads, marked <- MarkedPeople, links <- LinksOf,
    repairing <- Repairing

\* Rows become leads as RowIntake promises: one live lead per row, rows are
\* marked and linked to leads of their own, and a marked row is posted again by
\* a repair run only, wherever the sheet is sorted to and whatever gets lost.
ImplementsRowIntake == Intake!Spec

=============================================================================

# TLA+ models of the Propzel CRM server

The repository is a CRM for real-estate sales teams: one FastAPI server
(`server.py`) over MongoDB, a calling provider (CallerDesk), a mail provider
(Resend), WhatsApp, Google Calendar, and a Google Apps Script
(`integrations/google-sheets/Code.gs`) that pushes the rows of a sheet to the
server. The server has no locks, no transactions and almost no unique indexes.
It runs as several processes (Vercel functions, or uvicorn workers with an
in-process scheduler) that may be ended between any two awaits. What makes the
program hard is therefore not what a handler does but what several of them do
to the same documents at the same time, and that is what these modules model.

`server.py` starts with a commented-out older version (lines 1-2685); only the
live code from line 2686 on is modelled. `.pydeps/` holds third-party packages.

## The system

| Component | State | Operations | Interacts with | What is hard | What makes it correct |
|---|---|---|---|---|---|
| Missed-call retries | `follow_ups` with `meta.auto_*` | webhook of a missed call schedules a follow-up; the due-call job claims, dials and records; users edit | CallerDesk, leads, scheduler, cron endpoint | several job runs at once, kills between claim, request and record | a lead is dialed once per follow-up, outcomes are kept, due follow-ups are dialed |
| Google Sheets sync | the sheet, `leads`, activities | hourly, manual and repair runs; find, repair, insert, log on the server | Apps Script, CRM users | lost answers, stopped runs, overlap, rows that move | one lead per row, rows marked Synced are stored |
| Calling campaigns | `callerdesk_campaigns`, `callerdesk_campaign_numbers`, `callerdesk_calls` | start, batch, webhook, expiry, pause, delete | CallerDesk, managers | two batches, early and late webhooks, kills | no repeated calls without a cause, tries are counted, calls stay with their number |
| RRL daily report | `rrl_daily_report_deliveries` | scheduled and manual send: lookup, mail, record per admin | Resend, users | overlapping runs, a mail whose record fails | one mail per admin, records tell the truth |
| End-of-day e-mail | `eod_emails` | scheduled and manual send | Resend | a retry mails everyone again | - |
| Unit inventory | `units` | import (replace, upsert), list with repair and removal of duplicates, create, update, delete | projects | a read that deletes; imports that clear and refill next to lists, users and deletions | the newest copy of a unit stays, imports make no second copy, a cleared project is refilled |
| Message campaigns | `message_campaigns`, recipients, `messages` | create, start, cancel | WhatsApp, e-mail | two starts, cancellation during a run, messages that go out although the call raises | a second message needs an overlap or a lost result, statuses tell what happened, a cancelled recipient is not taken again |
| WhatsApp inbox | conversations, messages, attachments | inbound webhook, send, read, status update | Meta | repeated and concurrent webhooks of one number, several accounts | a message is stored once, counted once, and in a chat of its account |
| Lead intake and assignment | `leads`, activities | web, import and webhook intake; automatic and bulk assignment | users, notifications | counts read before inserts | leads are spread over active executives |
| Site visits, Google Calendar | `site_visits` with a map of events, OAuth tokens | create, update, delete with calls per owner; OAuth callback | Google | the map is rewritten after the calls, some calls fail, owners change and disconnect | calendars show what the visit's map says; what is left over is paid for by a failure |
| Notifications | `notifications` | lookup within 24 hours and insert; list, read | most others | lookup then insert | no duplicates, readers find theirs |
| Organisations, users, settings | the collections of that name | create, update, delete | authentication | lookup then insert, stale role checks | unique slugs and e-mails |
| Authentication, tenancy scope | none | token and role checks, filters | all | - | functions of one request |
| Projects, templates, partners, proposals | one document each | create, update, delete | - | - | - |
| Dashboards, reports | none | read-only aggregation | - | - | - |
| Twilio endpoints | none | answer 410 | - | - | - |

Components interact through documents (a webhook stores what the job later
reads), through provider calls whose webhooks come back to another process, and
through the scheduler. `vercel.json` names one cron only, for the end-of-day
e-mail; the in-process scheduler starts in the demo-data branch of `on_startup`.

## Modules

Each database call and each provider call is a step; everything between two
awaits is one step with it. A kill throws local variables away. Variables
marked "observation" in a module are never read by an action's guard except to
bound the model; they only serve properties. A provider call or a database
update that raises has taken effect before or has not: where the code goes on after
the exception, the models have both.

### `AutoDial`, with `OnceDispatch` as its abstract specification

`_schedule_missed_call_retry`, `process_due_call_followups`, the follow-up
endpoints and the part of `on_startup` that decides about the scheduler.
`doc` is `db.follow_ups`. The webhook is two steps, `MissedCallWebhook` (lookup)
and `InsertRetry`. A job run is `BeginRun` (the query), then per document
`ClaimNext` (the conditional update), `Dial` / `ProviderReply` or `NotDialable`,
and `RecordOutcome`. Users create, edit and delete at any moment; `JobCrash` and
`HookCrash` end a process. All calls of the model belong to one lead, as leads
share no follow-ups; statuses done and missed are one, as nothing here tells
them apart.

`OnceDispatch` is what such a job promises: an item is taken by one worker and a
taken item is dispatched at most once. `AutoDial` implements it with
`taken <- {f : doc[f].dialed}` and `sent <- placed`.

### `RowIntake` and `CheckThenAct`, the other abstract specifications

`RowIntake` is what the sheet sync promises of rows and leads, without keys,
requests, the order of the rows, or failures: a row gets a lead only while it has
none, is marked and linked only to a lead that was made for it, and once marked
is posted again by repair runs only. `SheetSync` implements it
(`ImplementsRowIntake`) when runs do not overlap and rows do not move during one.

`CheckThenAct` is what four jobs have in common: they look up what the records show as
open, act on it in the outside world, and record that they did, without a lock.
Its promise is that nothing is acted on twice but what is excused, and that only that
is excused which two actors had at the same time, which an actor left, or was
unsure of, before it recorded it, or which the outside world itself asked for
again (`Reopen`). Four modules implement it
(`ImplementsCheckThenAct` in each):

| Module | actors | open | acts | excused |
|---|---|---|---|---|
| `DailyReport` | report runs | admins without a sent record | mails | `raced`, `unsaid` |
| `CallCampaign` | batches | pending numbers, and those not inserted yet | calls placed | `raced`, `lost`, those the provider said pending of |
| `MessageCampaign` | starts | recipients absent or pending | messages | `shared`, `lost` |
| `WhatsAppInbox` | webhook calls | inbound ids not stored | copies stored | `raced` |

### `SheetSync`

`syncPropzelLeadsInternal` of the Apps Script and `ingest_google_sheet_lead` of
the server. A run reads the sheet (`BeginRun`), and per row skips it, marks it
nameless, or takes a key (saved in the sheet first), posts, and marks the row
from the answer in two writes (`MarkSynced`, `WriteLeadId`). The server's
handling of the request is `FindLead`, `RepairLead` or `InsertLead`, `LogLead`;
it goes on when the script is stopped, and `Fail` ends it with an error answer
anywhere. A row whose cells fail the validation of `GoogleSheetsLeadBody` is answered
422 before the handler runs, at every try until somebody puts the cells right: `valid`
says which rows those are, `Refused` is the answer. People edit rows, sort the sheet, edit and delete leads. `who` says
which lead a row is about, whatever its place; it is not in the sheet, and no
guard of the code's actions reads it.

Two constants say what the deployment does not enforce: `Overlap` (runs overlap:
the trigger and the menu have no lock) and `RowsMove` (the sheet is sorted
*during* a run). Sorting between runs is always possible.

### `CallCampaign`

One campaign: `start_callerdesk_campaign`, `_run_callerdesk_campaign_batch`,
`_expire_old_callerdesk_campaign_calls`, the campaign part of
`callerdesk_webhook`, pause and delete. The campaign is there from the beginning, its
numbers come later (`AddNumber`): `create_callerdesk_campaign` inserts the one, then the
others, and a start may come in between. A batch expires old numbers, finds at
most `limit` pending ones, dials one after the other, saves the call, stores the
try, and finally counts what is pending and writes the campaign's status, all in
separate steps; the update that stores the try may raise (`StoreTryRaises`), and the
number is then stored as failed and counted again. Webhooks read the call's document,
save it whole, and update the number. `_normalize_call_status` passes texts it does not
know through, so a reply or webhook may say "pending" of a number and put it back into
the queue; `requeues` counts how often one did. Left out: call documents without a call id, and the activity entries and
notifications of a call.

### `DailyReport`

`send_rrl_daily_report` for one report date. A run reads the active admins and
per admin looks for a sent delivery, mails, and records. The mail may go out
although the call raises; the record's update is inside the same `try` as the
mail, so when it raises, whether or not it took effect, the delivery is recorded as
failed (the run is in "doubt"); when that update raises too, the run is over, and the
admins it had still to come to get no report. The unique index on organisation, admin and date
makes the record a function of the admin.

### `UnitInventory`

The units of one project. A request of `GET /units`, or an import, is `Begin` (the
project is found), `FindFloors` and `RepairFloors` (units whose number names
floor 1 but which are stored on floor 0), `GroupCopies` (the aggregation) and
`PurgeCopies` (deletion by id of what the aggregation returned). An import goes on with `PrepareRows` (the
invalid rows are dropped, the time of the import is taken), `ClearUnits` if it
replaces, and per row an upsert: `UpdateRow` when a document matches, else
`MissRow` and `InsertRow`, as MongoDB's upsert without a unique index is a lookup
and an insertion. Users create, edit and delete units; `DropProject` and
`DropUnits` are the two deletions of `delete_project`; `Stop` ends a request
anywhere. A unit is its number (with its tower), floor and `created_at`. The
grouping is the definition `Duplicates`, "all but the newest of each group".

### `SiteVisitCalendar`

One visit and the events it has in the Google calendars of its owners.
`CreateVisit`, `UpdateVisit` followed by `RereadVisit`, and `FindVisit` (the
deletion) take a snapshot of the visit and start a run of
`sync_site_visit_calendar_event`: `ReadLead` adds the lead's co-assignees,
`NextUser` takes an owner or former owner and asks for its calendar,
`DeleteEvent`, `InsertEvent` and `UpdateEvent` are the three calls, `CallRaises`
is a call that raises with or without having done its work, `WriteMap` replaces
the map of event ids, and `DeleteVisit` ends a deletion. `SyncRaises` ends the
sync for all owners, as an undecryptable token does; `Kill` ends the request.
`Connect` and `Disconnect` are the OAuth callback's last write and its
inverse. The provider is modelled by `event`, one entry per id it ever gave out.

### `WhatsAppInbox`

The chats of one phone number in one organisation. `Deliver` is a webhook call:
`FindDuplicate` (by the provider's id; a call without an id skips it),
`FindLead`, `FindChat` or `InsertChat`, `InsertMessage`, `TouchChat` (owner and
lead as read, the count incremented in the database). `Ask` is a user who sends a
text or media (`CallProvider` before the message is stored; a refused text, an
attachment that could not be sent or a missing instance name raises and stores nothing) or
reads, which looks for a chat and inserts one too. Sent texts get an id from the provider
(`SentIds`), which is stored like that of an inbound message and looked up with the same
query; the provider does not report it as inbound, and the webhook ignores echoes of
what was sent. `LeadArrives` is any intake of a lead with
the number, so that chats are found with and without one. `FindChat` may take any
matching chat: `find_one` promises no order.

### `MessageCampaign`

One campaign: `AddRecipient` (the recipients are inserted after the campaign, so a
start may come in between), `StartCampaign`, `FindPending`, per recipient
`Deliver`, `NoteError` and `StoreResult`, then `FinishRun`; `PauseCampaign`,
`CancelCampaign` and `CancelRecipients` (two writes); `Stop`. `Deliver` has the
outcomes of the delivery function: no lead, no provider, sent, or an exception,
which may come after the message went out. The function counts every answer as sent
whose status is not one of three. `whatsapp_service_request` returns answers as they are
and leaves an error body the status it carries (5297-5298, 5310), so a refused message
can count as sent: `refused` notes whom.

## What is checked

Passing runs:

| Run | Instance | Shows |
|---|---|---|
| `auto_dial` | 2 follow-ups, 1 call, 2 job runs, 1 handler, 2 deliveries, 1 kill, scheduler on | `DialedAtMostOnce`, `OutcomeIsFinal`, `ImplementsOnceDispatch`; under fairness `DueIsClaimed` and `ClaimIsSettled` |
| `sheet_sync_safety` | 2 rows that the validation takes, 1 run at a time, 1 stopped run, 1 failed request, 1 lead touched by users, sorting between runs | `OneLeadPerRow`, `SyncedRowIsStored`, `RowLinksItsLead`, `SyncedRowIsNotResent`, `ImplementsRowIntake` |
| `sheet_sync_live` | 2 rows, each valid or not and changing, 1 stopped run, 1 failed request | `NamedRowIsSynced` under the hourly trigger |
| `call_campaign` | 2 numbers inserted at any time, 1 or 2 calls per minute, 2 call ids, 2 batches, 1 webhook, 1 kill or raising update | `RedialNeedsRaceKillOrReport`, `AttemptsCounted`, `CompletedOverlooksOnlyLate`, `CallsAreOfTheirNumber`, `FoundIsTried`, `LinkLostOnlyToEarlyHook` |
| `daily_report` | 2 admins, 2 runs at once of 3, 1 kill, 2 raising updates | `ResendNeedsRaceOrLoss`, `FoundIsRecorded`, `SentRecordStays` |
| `unit_inventory` | 2 numbers (one names floor 1) on 2 floors, 3 documents, 2 requests at once of 4, imports of 1 row, 1 edit, 1 early end | `NewestCopyKeptUnlessChanged`, `OneCopyUnlessPutTwice`, `ClearedIsRefilled`, `OrphansNeedRaceOrStop` |
| `site_visit_calendar` | 2 users, 3 events, 2 requests at once of 3, 1 failure | `CalendarMatchesVisit`, `StraysAreCounted` |
| `whatsapp_inbox` | 1 executive, 1 inbound and 1 sent id, 2 chats, 2 messages, 2 requests at once of 4, 1 kill | `StoredOnceUnlessRaced`, `UnreadIsCounted`, `AccountMessageInOwnChat` |
| `message_campaign` | 2 recipients, 2 starts at once of 3, 1 early end, 2 pauses or deletions | `RemessageNeedsRaceOrStop`, `StatusTellsMessage`, `CancelledIsNotTaken` |

Runs that end in a counterexample; each shows a behaviour of the code that a
sentence of the repository rules out:

| Run | Sentence | What happens |
|---|---|---|
| `auto_dial_one_retry` | "Create one follow-up per missed provider call" (server.py:7074) | lookup and insert are two awaits: two webhooks of one call store two follow-ups |
| `sheet_sync_overlap` | "retries and future runs cannot create a duplicate lead" (google-sheets/README.md:21) | two overlapping runs give one row two keys, or find no lead both |
| `sheet_sync_crm_edits` | "do not overwrite CRM-edited leads" (server.py:3990) | the repair looks at the name only and sets phone and e-mail back |

Some properties say on which condition the code keeps what one would expect of it;
the condition is where it does not. `...UnlessRaced`, `...NeedsRace...` and
`raced`, `shared`, `twinned`, `disturbed` mark overlaps the code has no lock or
index against: two report runs mail an admin twice, two starts message a
recipient twice, two webhook calls store a message twice, an import renews the
copy a list is about to delete, two runs of the calendar sync lose each other's
ids. `requeues`, `late`, `refused` and `unsaid` do the same for what others say or leave
unsaid: a provider that says "pending" of a number has it dialed again and leaves it behind in a
completed campaign, as do numbers inserted after a batch's count; a refused message
may be recorded as sent; a record of a sent report turns into a failed one when the
update that wrote it raised. `NamedRowIsSynced` speaks of rows whose cells pass the endpoint's
validation from some moment on: the others get an error at every run. The constants do
it for the deployment: with `RowsMove` a row that
was never posted can be marked Synced, and where `SchedulerStarted` is false (no
demo data, or Vercel) nobody dials a due follow-up, as the server starts the
scheduler in the demo-data branch of `on_startup` only.

### Bounds

Two of everything that can race (workers, batches, runs, documents) is enough
for the hazards: each is a conflict of two actors over one document, and the
second document shows that actors do not disturb each other's. One kill and one
failure per behaviour put the fault at every step; a second fault meets states
that the first one reaches as well, since nothing local survives. `daily_report` has two
raising updates, as the second can hit the except branch of the first. The bounds
are the `Max...` constants and the sizes of the sets in the `.cfg` files.
`call_campaign` restricts the statuses that managers, replies and webhooks give
(`Chosen`, `Replies`, `Reports`) to one that goes on, one that is final and, for the webhook,
"pending", because the others take the same branches; a reply that says pending, further
webhooks and more statuses are left to the theorems. Its `VIEW` (`WhatMatters`)
keeps what guards and properties depend on: it leaves out the campaign's status, which
no guard of the code reads, tells numbers that are neither absent nor pending not
apart, and of what a batch found keeps the numbers not tried yet; every status is in
the theorem about types. `MaxTouched` of `sheet_sync_safety` allows one lead to be
edited or deleted; three lead ids let a deleted lead's row come back in a repair
run. All its rows pass the validation: a refused row gets the same answer as a failed
request, rows of both kinds are in `sheet_sync_live`, and the theorems are about any rows. `unit_inventory` needs three documents: a copy, a newer one, and one an
import inserts meanwhile. `site_visit_calendar` needs two users, of whom a failure
concerns one, and three events, two for one user after a loss; three requests are a
creation, a change and a deletion. `whatsapp_inbox` needs two chats, of the executive's
account and of nobody, and four requests: two calls with one id, a user who sends,
and one more call. Deadlock is not checked: every system here may come to rest when nobody
asks anything of it. Symmetry is used only where no liveness property is.

### Fairness

`AutoDial!FairSpec`: the scheduled job fires every minute where the scheduler was
started, and a started run or handler goes on unless killed. Nothing obliges
users, providers or callers of the HTTP endpoint. `SheetSync!FairSpec`: the
hourly trigger starts ordinary runs, scripts and requests go on unless stopped, and
`MaxKills` and `MaxErrors` let only finitely many of them stop or fail.
No fairness is assumed of repair runs, of people, or of failures. The other
modules state safety only: nothing in the program takes up again a campaign, an
import, a report or a visit that a killed process left, unless a person asks for it.

## What is proved

For every value of the constants that meets the modules' assumptions:

| Module | Theorem | Statement |
|---|---|---|
| `AutoDialProofs` | `TypeCorrect`, `AtMostOnce`, `FinalOutcome` | `TypeOK`, `DialedAtMostOnce`, `OutcomeIsFinal` |
| | `Claims` | `ClaimInv`, the inductive form |
| | `Refinement` | `AutoDial` implements `OnceDispatch` |
| | `NoClaimDropped` | a claimed follow-up has its outcome, is deleted, was abandoned by a killed worker, or is in a worker's hands |
| `SheetSyncProofs` | `TypeCorrect` | `TypeOK`, overlapping runs and moved rows included |
| | `NoKeyTwice` | without overlap, no two leads carry one row key |
| | `NoRowTwice` | without overlap and with sorting only between runs, no row becomes two leads |
| | `KeyInvariant`, `RowInvariant` | `KeyInv`, `RowInv`, their inductive forms |
| | `SyncedStored`, `RowsLinked`, `NotResent` | `SyncedRowIsStored`, `RowLinksItsLead`, `SyncedRowIsNotResent`, on the same conditions |
| | `Refinement` | `SheetSync` implements `RowIntake`, on the same conditions |
| | `EditsKept` | if no row falls back to its lead reference for a name, `CrmEditsKept`, with overlap and moved rows |
| `CallCampaignProofs` | `TypeCorrect` | `TypeOK` |
| | `NoStrayRedial` | `RedialNeedsRaceKillOrReport` |
| | `EveryTryCounted` | `AttemptsCounted` |
| | `OverlooksOnlyLate`, `AllFoundTried` | `CompletedOverlooksOnlyLate`, `FoundIsTried` |
| | `CallsMatch`, `LinkLost` | `CallsAreOfTheirNumber`, `LinkLostOnlyToEarlyHook` |
| | `Refinement` | `CallCampaign` implements `CheckThenAct` |
| `DailyReportProofs` | `TypeCorrect`, `ReportInvariant` | `TypeOK`, `ReportInv` |
| | `OneMailUnlessRace`, `SentRecordFinal` | `ResendNeedsRaceOrLoss`, `SentRecordStays` |
| | `AllFoundRecorded` | `FoundIsRecorded` |
| | `Refinement` | `DailyReport` implements `CheckThenAct` |
| `UnitInventoryProofs` | `TypeCorrect`, `KeeperStays` | `TypeOK`, `DoomedHasKeeper` |
| | `NewestCopyKept`, `ImportsMakeNoTwins` | `NewestCopyKeptUnlessChanged`, `OneCopyUnlessPutTwice` |
| | `ClearedRefilled`, `OrphansExplained` | `ClearedIsRefilled`, `OrphansNeedRaceOrStop` |
| `SiteVisitCalendarProofs` | `TypeCorrect`, `VisitMatched` | `TypeOK`, `CalendarMatchesVisit` |
| | `StraysCounted` | `StraysAreCounted` |
| `WhatsAppInboxProofs` | `TypeCorrect`, `StoredOnce` | `TypeOK`, `StoredOnceUnlessRaced` |
| | `AccountsKeepChats`, `UnreadCounted` | `AccountMessageInOwnChat`, `UnreadIsCounted` |
| | `Refinement` | `WhatsAppInbox` implements `CheckThenAct` |
| `MessageCampaignProofs` | `TypeCorrect`, `OneMessageUnlessRace` | `TypeOK`, `RemessageNeedsRaceOrStop` |
| | `StatusTrue`, `CancelledNotTaken` | `StatusTellsMessage`, `CancelledIsNotTaken` |
| | `Refinement` | `MessageCampaign` implements `CheckThenAct` |

`DialedAtMostOnce` is not inductive: nothing in it says that a worker about to
dial has the follow-up for itself. `ClaimInv` adds that the holder of a document
claimed it, that it is the only one, and that an unclaimed document was neither
dialed nor has an outcome; the step that matters is the conditional update, which
succeeds for unclaimed documents only. The refinement follows from the same
invariant, a `Dial` step being the only one that dispatches.

`NoClaimDropped` is the safety side of `ClaimIsSettled`. `ClaimsAccounted` says where a
claimed follow-up of an assigned agent can be; a worker lets go of it only when it
records the outcome or is killed. What is left to fairness is that the worker goes on.

`OneLeadPerRow` rests on two layers. `KeyInv`: without overlap one run or request
is active at a time, so the server's lookup and insert act like one step and no
key gets two leads. `RowInv`: rows have keys of their own (`OwnKeys`), the rows a
run has still to visit are as it read them (`SnapFresh`), and requests and leads
carry the key of the row they are about (`RequestKeyed`, `LeadKeyed`). The key
must be in the sheet before the request is made; otherwise `RequestKeyed` fails.
Sorting happens only when no run is active, so it permutes rows and keys together.

The campaign's proofs need three invariants, stated in `CallCampaignProofs`.
`PlaceInv` ties a batch's locals to where it stands and says that a number it
found is still to come, at hand, or tried. `CallInv` says that the call ids which
batches and handlers hold are of the number they hold. `DialInv` is about numbers
nobody raced for and no batch was killed on: one batch at most has such a number, and
each of its calls but one is paid for by a reply or webhook that said pending
(`PaidFor`); so is every call of a number that a batch may still dial, and of a pending
one that no batch has. So a batch that finds a pending number nobody else has finds
one whose every call is paid for. `OverlooksOnlyLate` rests on `BecomesPending`: a number
becomes pending by insertion or because the provider says so, and if a batch is between
its count and its write then, the number is in `late`, which is emptied when the last such
batch has written. `EveryTryCounted` follows the set of batches trying a number: dialing adds
one to it, storing takes one out and counts it; it needs `Batches` finite.

`ReportInv` says that a record says sent only if a mail went out; of an admin who was
not raced, that at most one run is at the admin, and none once the record says sent but
one whose update took effect and raised; of one whose every mail was also
recorded, that there was at most one mail, which its run has still to record or
the record tells. The lookup is what lets a run become the holder.

`AllFoundRecorded` follows an admin through a run: found, still to come, at hand,
or on record, and a record never disappears.

`SyncedRowIsStored` and `RowLinksItsLead` rest on `LinkInv`: a request past its
lookup and the run that waits for it speak of the same lead, that of the row, and a run
waits only for a request that carries its row. `SyncedRowIsNotResent` needs
`ResendInv`, which says that a run's snapshot shows the status of every row still to
come and that it posts none it saw as Synced. Both hold with one run at a time.

The refinement of `RowIntake` uses all of these at once, with `UnusedLeads` (an id not
given out yet is nobody's) and `MarkInv` (a run that is about to write a lead's id has
marked the row, and an ordinary run posts from a row that is not marked). The insertion is
`Create`: the row has no lead because the request found none under the row's own
key; `MarkSynced` is `Mark` and `WriteLeadId` is `Link` because the answer is about the
row's lead. Sorting the sheet is a stutter, as rows are seen by whom they are about.

`EditsKept` bounds the finding of `sheet_sync_crm_edits`. `NamedInv` says that where no row has
a lead reference in place of a name, none such reaches a snapshot, a request or a
lead, so no request ever comes to the repair. It needs neither one run at a time nor rows
that stay: edits are lost through fallback names only.

In `UnitInventoryProofs`, `DoomedHasKeeper` says that a copy some request is about
to delete has a newer one that none is about to delete, and whoever changes such a unit
meanwhile is recorded in `disturbed`. It is inductive with `StampsPast` (no
document or request has a stamp of the future, so what is inserted or renewed later is
not older) and `NewestCopy` (among the copies of a unit one is newer than all others:
`Newer` orders by time, then id, and a set of naturals has a least element). `CopyInv` adds to `OneCopyUnlessPutTwice`
that a request about to insert has no stored match; `ClearedInv` with `FileInv` says
that an import which cleared still has rows to write; `OrphanInv` says that without a late
insertion nothing of a deleted project is stored once its deletion is through.

In `SiteVisitCalendarProofs`, `OwnInv` says whose events the ids in maps, snapshots
and half-written maps are, and that no event has an id not given out yet. `CalInv` is about
users nothing failed for and behaviours without overlap: `Solo`, the run is alone
and works on the map the visit has; `Match`, what is in a user's calendar is what
the run's half-written map says for users done with and the visit's map for the
others, at the old time or the new. `LeftInv` is why a run comes to nobody but
those it should: whom it skipped is recorded in `failed`. `StrayInv` bounds the
`Debt` of a user: the events in the calendar but for the one the run or the visit
still answers for, and the one a run is about to insert for a user who just
disconnected. Every step either leaves the debt no larger or is a failure that adds one
event (`Paid`); a deletion of a disconnected user's visit adds none because
the disconnection was paid for.

In `WhatsAppInboxProofs`, `StoreInv` is mutual exclusion per provider id: of an id
not in `raced`, one call at most is past its lookup, and none once the message is
stored; the ids of sent texts are apart from those of inbound messages, and no lookup is for one. `OwnerInv` says that a chat's owner never changes although it is
written back from a copy. `UnreadCounted` adds up cardinalities: storing adds a message and a
call that has still to count it, counting moves one over, and a call ended in between
is a kill; it needs `Reqs` finite.

In `MessageCampaignProofs`, `CampaignInv` consists of `Alone` (a recipient nobody
shared is in one start's hands at most), `Truthful` (what a start is about to
store is what its delivery did, but for the refused), `Told` (messages of a recipient are in its
status or still to be stored) and `Honest` (the status sent without a message
is a refused one's). `CancelInv` is short: whom a deletion cancelled may
have a result written over it but is never pending again.

The four refinements of `CheckThenAct` rest on the invariants above: they say that an item in
the hands of an actor who may act on it was not acted on before unless it is
excused. What the refinements add is that a property of the state is kept
step by step: every database and provider call of these modules is one of a dozen abstract
steps or a stutter, items are taken only when open, and closed ones are
opened again only if excused (in `DailyReport` a failure record may replace a sent
one after a race or in doubt; in `CallCampaign` only the provider's "pending" does it). `CallCampaign` adds that what `FoundBy` holds is what a batch is said to have
(`HasAll`), `MessageCampaign` that starts which have not looked yet are empty-handed
(`EmptyHanded`), and `WhatsAppInbox` counts copies by cardinality. No run lists
`ImplementsCheckThenAct`: it says of each step what the runs' invariants say of the
states, and its theorems cover every instance.

Only model-checked: the liveness properties `DueIsClaimed`, `ClaimIsSettled` and
`NamedRowIsSynced`, which are beyond the prover.

## Not modelled

- Authentication and tenancy filters are functions of one request; the endpoints of
  projects, templates, partners and proposals change one document each;
  dashboards and reports only read; the Twilio endpoints answer 410; demo data
  is data. There is nothing in them that interleaves.
- The end-of-day e-mail is the RRL report without its lookup: every run mails
  everyone, and no promise is made that a model could check.
- Lead intake: `_pick_auto_assignee` reads counts and picks the least loaded
  executive (its docstring says round-robin); leads that arrive together may all go
  to one. How even the spread is depends on data the model would have to make up.
- Notifications: a lookup within 24 hours followed by an insertion, with the same
  overlap as the webhook of a missed call.
- Organisations and users: lookups before inserts, with unique indexes only on some.
- Within modelled components: call documents without a call id, delivery reports of
  WhatsApp messages, OAuth states before the callback's last write,
  prices and statuses of units, and the recovery of units without an organisation.

If the development goes on, the order would be delivery reports in `WhatsAppInbox`,
lead assignment, then notifications and organisations.

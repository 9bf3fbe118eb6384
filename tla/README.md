# DealerForge CRM: formal models

TLA+ models of the DealerForge API (NestJS on Prisma/PostgreSQL), the TLC runs
that check them on small dealerships and the TLAPS proofs that hold for every
dealership. Paths without a prefix are relative to `apps/api/src/`.

## 1. The system

DealerForge is a CRM for car dealerships. Several dealerships (tenants) share
one database. The API is a single NestJS program on one event loop: a handler
runs without interruption up to its next `await`, nearly every `await` is a
round trip to PostgreSQL, and any other request may run in between. Only two
places use a database transaction (`activities.service.ts:44`,
`dealerships.service.ts:31`); nothing takes a lock, no row has a version, and a
handler that fails half-way leaves what it has written. Most of what could go
wrong in this code comes from these facts, and the models are built around
them: one action per round trip, what a handler has read kept in its request
record, a fault possible at every await.

| Component | State | Operations | Hard behaviour | What makes it correct |
|---|---|---|---|---|
| Leads (`modules/leads`) | `Lead`, `LeadSource`, `Activity` rows | create, update, assign, set status, log activity | stale status and role; write, rescore, audit and event are four separate round trips | stamps of sales are whole and earned; assignees are members; every acknowledged change is audited |
| Lead scoring (`lead-scoring.service.ts`) | `leadScore` column | compute, recalculate and persist, explain | the row, the counts and the write are three round trips; lost update of the score | range, monotonicity, explanation adds up; the stored score is the score of the row unless overtaken |
| Audit and event logs | `AuditLog`, `EventLog` | `logEvent` (throws), `emit` (swallows) | one of the two missing | an event only about an audited change |
| Appointments (`modules/appointments`) | `Appointment` rows | create, update, confirm, cancel | status and window are checked against a row read one await earlier | what is canceled is not revived, what is over is not canceled; the window is an interval |
| Tasks (`modules/tasks`) | `Task` rows | create, update, complete, snooze | as above | closed tasks stay closed; completion is stamped |
| Communications (`modules/communications`) | threads, messages, templates | send SMS, inbound SMS, status callback, call log, bulk send | carrier callbacks are lost, repeated and reordered, and may come before the identifier they name is stored | a row says delivered only of a text that arrived and failed only of one that did not ("undelivered" is misread) |
| Team, users, auth (`modules/team`, `users`, `auth`) | memberships, invitations, users with the hash of a refresh token | invite, revoke, accept, set role, deactivate, appoint, amend, remove, login, refresh, logout, profile | an invitation is looked up, the account saved, the membership upserted and the invitation marked in separate queries; revoke and accept, two accepts, refresh and logout race | an invitation that is shown as closed admits nobody; a closed session stays closed; only administrators act on a dealership |
| Guards (`common/guards`) | none (reads memberships) | authenticate, find the tenant, check roles | the role is read once and used after awaits | no request acts in a dealership without a membership or a platform role; `RolesGuard` stands before three routes that only read |
| Dealerships (`modules/dealerships`) | dealerships, settings | create, update, update settings, deactivate | creation is one transaction | a dealership that was created has its lead sources |
| Integrations (`modules/integrations`) | integrations, their events, the rate limiter in memory | create, CSV import, webhook | check-then-create of duplicates; a fault between the lead and the mark of its event; the edge of the window | events, leads and counts agree; at most 60 webhooks of one provider and sender in any span of a minute |
| Reports (`modules/reports`) | none (reads the event log, no other table) | summary, breakdown, trends | several queries over a log that grows meanwhile | each figure was true at some moment of the report; parts add up |
| AI (`modules/ai`) | none | summary, score, draft, next action | output filters | a draft passes the safety filter |
| Web (`apps/web`) | token, selected dealership and notifications in localStorage; the frame and the page in memory | log in, accept, switch, go, search, import, read, log out | answers for the dealership, the filter or the user that was left come late | what is seen belongs to what is selected; what was read comes back as new only when it was cut off a full list and told again; the tab comes to rest |
| Worker (`apps/worker`) | none | start-up only | none | none |

How they interact: every request passes the guards in the order of
`app.module.ts:45-62` (JWT, tenant, platform administrator, roles), which put
the user and the role into the request. Every handler of leads, activities,
appointments and messages ends by calling the lead scoring service, the audit
log and the event log. Integrations create leads through
`LeadsService.createLead` with neither user nor role. Reports read the event
log; the web client reads everything through the API.

## 2. The models

| Module | Models | State | Actions |
|---|---|---|---|
| `LeadScoring` | `lead-scoring.service.ts` computeScore, buildReasons; `lead-scoring.rules.ts` | none, operators | `Score`, `Breakdown`, `Reasons` and their parts |
| `MCLeadScoring` | the life of one lead, to evaluate the score along | row and evidence of one lead | contact, appointments, edits, time |
| `Leads` | `leads.service.ts`, `activities.service.ts`, the tenant guard, the scoring service's two writers, both logs | `leads`, `evidence`, `sources`, `audit`, `events`, memberships, requests | one per round trip, below |
| `LeadLedger` | what the leads API promises of status, assignee and sale stamp | `ledger` | `Open`, `Revise`, `HandOver`, `Mark` |
| `Appointments` | `appointments.service.ts` and the refresh of the linked lead's score | `appts`, `leads`, logs, requests | as above |
| `Tasks` | `tasks.service.ts` | `tasks`, logs, requests | as above |
| `Messaging` | `communications.service.ts`, `twilio-sms.provider.ts`, `twilio-webhooks.controller.ts`; Twilio itself as an environment | `leads`, `threads`, `msgs`, logs, `carrier`, requests | as above, and the carrier's |
| `Memberships` | `auth.service.ts`, `team.service.ts`, `users.service.ts`, `dealerships.service.ts`, the tenant and platform guards | users, memberships, invitations, dealerships, requests; time, as invitations that lapse | as above |
| `CsvImport` | `csv-import.ts`, `generic.adapter.ts`: lines, headers, cells, the columns of a lead | none, operators and recursive functions | `ParseCsvLine`, `NormalizeCsvRow` and their parts |
| `RateLimiter` | the sliding window of `integrations.service.ts` | clock, hits per key | `Accept`, `Refuse`, `Tick` |
| `Integrations` | `integrations.service.ts`, composed of `CsvImport` and `RateLimiter`, with `LeadsService.createLead` as the row and what follows it | `integrations`, `leads`, `events`, logs, the limiter, requests | as above, and the failing of a query inside a `try` |
| `Reports` | `reports.service.ts`, over a log that others append to | `log`, one request with its groups, which interleave | one per query |
| `WebShell` | `dealership-store.ts`, `authorization.ts`, `notifications.ts`, `app-shell.tsx`, `api.ts` and the pages that load by dealership | one tab: localStorage, frame, page, answers under way | one per handler of an event and per continuation of an answer |
| `MCLeads`, `MCAppointments`, `MCTasks`, `MCMessaging`, `MCMemberships`, `MCIntegrations`, `MCReports`, `MCWebShell` | small instances | | |
| `Figures_proofs` (scoring and reports), `Leads_proofs`, `Appointments_proofs`, `Tasks_proofs`, `Messaging_proofs`, `Memberships_proofs`, `Integrations_proofs`, `WebShell_proofs` | proofs, section 4 | | |

`Leads`, `Appointments` and `Messaging` extend `LeadScoring`: the score they
store is the real one, worked out from the model's own rows. `Integrations`
extends `CsvImport` and `RateLimiter`: a webhook goes through the limiter's own
actions, a row of a file through the parser's own operators.

### How a handler becomes actions

A request is a record: the operation, its arguments, a program counter and the
handler's local variables. It starts by an action that stands for the guards
and the DTO (`StartUpdate`, ...), then takes one action per database round trip,
in the order of the code:

| pc | what runs | `Leads` | `Appointments` | `Tasks` | `Messaging` |
|---|---|---|---|---|---|
| find | look the row up; checks of role, status and window that follow without an await | `EnsureLeadExists` | `FindAppointment` | `FindTask` | `FindLead`, `MatchLead`, `FindLeads` |
| validate | check what the payload refers to | `ResolveSource`, `ValidateAssignee` | `ValidateLead` | `ValidateAssignee`, `ValidateLead` | `GetThread` |
| write | the row is written, by its id alone | `CreateLead`, `UpdateLead`, `AssignLead`, `UpdateStatus`, `CreateActivity` | `CreateAppointment`, `UpdateAppointment`, `ConfirmAppointment`, `CancelAppointment` | `CreateTask`, `UpdateTask`, `CompleteTask`, `SnoozeTask` | `NewLead`, `SaveMessage`, `StoreAnswer` |
| send | the carrier is called | | | | `Send` |
| score | touch, read the row, count, store | `ReadLead`, `CountEvidence`, `PersistScore` | the same and `TouchLead` | | `TouchLead`, `CountEvidence`, `PersistScore` |
| logs | audit row, event | `WriteAudit`, `EmitEvent`, `EmitAssigned` | `WriteAudit`, `EmitEvent` | `WriteAudit`, `EmitEvent` | `EmitEvent`, `WriteAudit` |
| answer | the row is read for the response | `ReadSummary` | `ReadSummary` | | `ReadSummary`, `NextLead` |

`Memberships` and `Integrations` are built the same way; their program counters
name the query that is next: `tenant`, `invitation`, `expire`, `user`,
`saveUser`, `upsert`, `mark`, `issue`, ... and `limit`, `match`, `lookup`,
`event`, `normalize`, `email`, `phone`, `create`, `finish`, `done`, .... Where several routes share a method
(`ChangeMembership` of the team and of the platform, `IssueTokens` of login,
refresh and acceptance) they share the action, and the operation in the request
tells them apart. A dealership is created by one action, since that is the one
place with a transaction.

The order of these phases differs from handler to handler (leads are rescored
before they are audited, appointments after; messages are told to the event log
before the audit log), and the models keep each handler's own order. `Fault`
ends a request at any point after it has begun: a query that fails or a process
that dies. What the request has written stays. `emit` swallows its own failure,
so an event may be missing after a request that succeeded.

A report is a request with groups: a summary has one, a breakdown one for each
value of its dimension, and each group goes through its own three queries, in
any order with the others, as `Promise.all` lets them. It writes nothing, so one
report beside a growing log shows all that a report can do.

The web client has another rhythm. JavaScript runs a handler or the
continuation of an answer to its end; React then renders and runs the effects
whose dependencies changed. `WebShell` makes one step of the three: an action
says what the handler sets, and `Render` (through `Step`) works out what is
mounted and unmounted by that and what the effects send. Calls under way are a
bag: any of them may be answered next, with success or failure; the page's own
loads are a sequence, so that an older one can be answered last. A page that was
left has no state any more, except where its code goes on: `gone` is the answer
to a dashboard that is no longer there, `adrift` that to an import whose page is
not. The lists the shell asks for are told as they are when the answer is
handled, less what is older than 24 hours (any moment, `since`). A note is
`[id, at, read]`: leads and texts are dated by their creation, appointments by
`updatedAt`, which `Reschedule` changes under the same identifier, imports by the
clock of the browser, which need not agree with the server's. A list is cut by
date. Of notes of one date at the cut, what has just been put in front stays
before what was there (`unshift` and a stable sort); which of the old ones goes
then is left open (`Cuts`), for the order in storage is not modelled.

Abstractions: a text, a name, a note is not there at all; contact data is
whether each column is filled in; a date is an integer or a model value; ages
are counted in days from the moment of rescoring. Identifiers are drawn from
finite sets, and a creation takes any that is free. Requests are made at most
once each; that bounds every behaviour. The routes differ only by their
operation, and the payloads are every combination of the values a run's
constants give, `UNSET` for a property that is missing. In `Leads` the members
of the dealership lose and change roles at any time, which is how a request
comes to act with a role it no longer has.

History variables (`overtaken`, `raced`, `neglected`, `lost`, `demoted`, `hurt`,
`asked`, `accepted`, and `mixed`, `lateBell`, `strayed`, `read` of the web) are not state of
the program. They record when two requests overlapped in a way that matters, so
that a property can say exactly what holds otherwise: an exception is meant to
be the narrowest under which the property is true, and section 3 says what
happens inside it. `raced` holds an appointment from the write that moved one of
its ends after another had moved the other, until the window is set again;
`lateBell` holds from an answer for a dealership that was left to the next
setting of the bell. What a property can see in the step or in the tables needs
no history: who confirms by a status that has changed since (`Misjudges`), which
row says DELIVERED of an undelivered text (`Misread`).

`TypeOK` stands in no run: for `Leads`, `Appointments`, `Tasks`, `Messaging` and
`Memberships` it is proved, for every dealership. `Integrations`, `Reports` and
`WebShell` have none, since every property of theirs reads the same fields; their
proofs have the shape of a request (`Shaped`), of the log and the report
(`LogOK`, `ReportInv`) and of the tab (`Typed`) in their invariants.

## 3. The runs

| Run | Instance | Checks | Shows |
|---|---|---|---|
| `lead_scoring` | counts and ages up to the last threshold | `ReasonsAddUp`, `ContactNeverHurts`, `IdleScoreOnlyFalls` | the lines of the explanation add up to the score; contact never lowers it, idleness never raises it |
| `lead_races` | one lead, two requests, three users, faults, in two plays: anything but creation, while the administrator may lose the role; or creation and marking, while a member leaves | `SoldStampEarned`, `AcknowledgedIsAudited`, `ScoreSettles`, `AssignedInsideDealership`, `EventsAudited`, `ImplementsLedger` | a stamp is never half set and always earned by a role that could; a stored score is right unless a request still owes it or it was overtaken; no route assigns a lead outside the dealership even when the check is stale; no event without its audit row; every handler looks atomic on the columns of the ledger |
| `sold_by_anyone` | one request | `OnlyManagementSells`, violated | creation and update write SOLD for any role |
| `appointment_calendar` | one appointment, two leads and a foreign one, two requests, faults | `WindowUnlessRaced`, `ScoreFollowsAppointments`, `StatusIsTold`, `OutcomeStands` | only two overlapping requests that each move one end can store an empty window; only a status that has changed since it was read, or an update that names it, revives what is canceled or cancels what is over; only relinking, overlap or a fault leaves a lead's score wrong; only a fault keeps a status from the reports |
| `task_board` | one task, two requests of any kind, faults | `CompletionAudited`, `ClosedUnlessRaced` | no counted completion without its audit row; only overlap reopens what is closed |
| `messaging` | two leads and a foreign one, two numbers; one request sends alone or in bulk, the other logs a call or brings a text; faults; a live carrier | `StatusUnlessMisread`, `TextHasRow`, `ScoreFollowsMessages`, `BulkAccounts`, `BulkEnds` | a row says DELIVERED only of a text that arrived and FAILED only of one that did not, in whatever order reports come, but for an "undelivered" stored as DELIVERED (the next run); a text of `sendLeadSms` always has its row; a bulk answer counts what was sent; a bulk send comes to its end |
| `messaging_undelivered` | one text | `UndeliveredIsFailed`, violated | the carrier's "undelivered" is stored as DELIVERED |
| `memberships` | an administrator, a member of the platform's staff and a guest; two dealerships; one invitation that is open, used, withdrawn or yet to be made and lapses at any moment; two requests of all sixteen kinds, faults | `AcceptedIsMember`, `FinalUnlessRaced`, `AdmittedByOpenInvitation`, `LogoutSticks`, `AdminsOnly` | an accepted invitation has made a member wherever it was cut short; a closed one admits nobody and stays closed, a closed session too, and only administrators act, each up to an overlap that the property names |
| `integrations` | two requests that connect, import one of four files or bring a webhook, queries that fail, requests that are lost, one webhook in two ticks | `OkEventHasLead`, `ImportAccounts`, `LeadPerEvent`, `Bounded`, `RoundTrip`, `NoTwinUnlessRaced` | events, leads and counts of an import agree whatever fails; no row becomes the twin of a lead that was there when the import began to look; the limiter holds at its edge; quoting is read back |
| `reports` | up to four events before, between and after the queries of one report of any kind | `SummaryBracketed`, `BreakdownAddsUp`, `TrendAddsUp` | each figure lies between what was true when it was asked for and at the end; groups and days add up to such a figure, none counted twice |
| `web_shell` | two users, two dealerships, three acts | `ShownIsSelected`, `SelectedIsMineUnlessMixed`, `NotesAreOwn`, `BellIsSelected`, `ComesToRest` | whatever answers late, the page shows the selected dealership, what is kept for a dealership is its own, and the effects do not feed one another for ever |
| `web_notes` | one user, one dealership, a lead, its appointment and a text of one moment or several, a list of two notes, four acts | `ReadUnlessRedated` | a note that was read is new again only in a full list, and only with a later date or as one of the oldest: cut off, and told again |

The two violations are disagreements between the code and what it says of
itself; PROJECT.json quotes both. One comes from a route that writes a column
without the check another route makes, one from the order in which the carrier's
words are compared.

Other places where the code does less than one might think stand in the
properties as named exceptions, or in the model with nothing in the repository
to speak against them:

- Leads and messages. Creation and update assign to anybody for any role. An
  appointment moved to another lead leaves the old lead's score stale
  (`ScoreFollowsAppointments` needs `neglected` for it). A text whose answer was
  lost stays FAILED although it may have arrived, because the carrier's
  identifier was never stored; a report that comes before the identifier is
  stored changes nothing and is gone. `sendMessage` stores SENT whatever the
  provider answers. Two first texts of one number at once create two leads:
  `Messaging` allows it, but no run gives both requests the operation.
- Overlaps. Two updates that each move one end of an appointment leave a window
  that ends before it begins (`WindowUnlessRaced`); confirm revives what was
  canceled meanwhile (`OutcomeStands`), and without any overlap it turns what
  took place back into a booking, for it refuses nothing else; a task completed meanwhile is snoozed and so open again
  (`ClosedUnlessRaced`).
- Memberships. Overlapping, one invitation can be used twice, or used although
  it was revoked; a demoted administrator may finish what the guard let through
  (`AdminsOnly` excepts `demoted`); `updateCurrentUser` writes every column, the
  ones the payload leaves out with what it read.
- Integrations. The adapter is given the raw keys, so that a column `mobile` with
  words in it becomes the phone although README.md:266-293 speaks of digits; of
  two columns for the same field the later one wins, blank or not. Webhooks do
  not look for duplicates. A fault after the lead was created leaves an event
  that says the row failed beside the lead. Two dealerships with one provider
  and one secret are told apart by chance.
- Reports. `lead_created` does not carry the type of the lead, so that the filter
  by it leaves nothing. A lead imported as SOLD has no status event and is never
  counted as sold. The show rate of a range can exceed 1, since shows are those of
  bookings made before it too. The trend of sales counts events, the summary
  leads.
- Web. Nothing ever asks for a refreshed token, and logging out clears the tab
  alone. An answer to `fetchMe` that comes after the logout selects the old
  user's dealership again, and one that fails late logs the next user out; a
  login over a session keeps the old selection (`mixed`). The bell may show the
  list of a dealership that was left (`lateBell`), the notice of an import goes to
  the dealership selected when it ends (`strayed`), and the answer to an older
  filter stays if it comes last. A note that was read does come back as new: when
  a hundred newer ones have pushed it out and its appointment is updated, since
  that keeps the id and changes the date (`notifications.ts:134,143`), and also
  without any update when its date is that of the last one kept, since what is
  told again goes in front (`notifications.ts:50`). `ReadUnlessRedated` excepts
  these two and no other. `/accept-invite` without a session is sent to
  the login by the shell (`app-shell.tsx:83-94`).

### Bounds

Two requests are enough for what is at stake: every handler has one decision
and one write, so a stale decision needs one other writer, and every property
is about one row or one pair of writer and overtaker. Two leads are there where
a request can leave one for another, one elsewhere. Values are chosen at the
thresholds: a window of 1..4 with moves to 3 and 3, which are legal one by one
and empty together; SOLD and one other status; a role that may sell and one that
may not; a member, and a user of another dealership; a number that cannot be
dialled. Symmetry is over requests, and in `reports` over what events are about (never
with liveness). `lead_races` has one lead, since no handler of leads touches two:
of two creations the second finds no identifier left and waits at its write,
where it has changed nothing but the sources. Its two plays (`creating`) differ in
what is requested and in how the memberships change; what neither has, members
who leave during an update or an assignment and roles that change during a
creation, only the proofs cover.
`messaging` gives its two requests different operations:
two texts at once share nothing but the lead's score, which a call or an
incoming text changes as well.

`memberships` has one invitation, because no request touches two, and an
address that has an account at the start or not. The files of `integrations`
have two rows, the limit of `MaxRows`, and one of three, which is refused: the
second row repeats the contact of the first in another spelling, by address or by
number, has a bad status, or fills a column by two headers. Its limiter allows
one webhook in two ticks, so that the edge of the window is met by the second
request; the proof covers sixty in a minute. `RoundTrip` is evaluated for every
line of two cells of up to three characters, once, beside an empty system; the
proof covers lines and cells of any length.
`reports` logs up to four events on two days, which is what one sale of a lead
with a booking that showed takes, at any moment of a report; leads carry the
source `Web` or none, asked for as `web`. `web_shell` counts three acts (of the
user or at the dealership) but no answers: an act and its late answer with a
switch and another act in between is the shortest behaviour that goes wrong
without the guards of the code. Lists are cut to one note instead of a hundred.
`web_notes` has two moments and a list of two, which a lead, an appointment and a
text overfill: four acts (an update, a reading, two visits) suffice to have a
note read, cut off, dated anew and told again, or told again with the date of
the last one kept.
`Text` and the like are small sets of values that differ in the respects the
code compares. Clocks stop at `MaxTime`.

`CHECK_DEADLOCK FALSE` is there because every request is made at most once, and
because a tab with nothing under way rests, so that every behaviour ends.

### Fairness

`Spec` of every module of the API with liveness in mind (`Leads`, `Appointments`,
`Tasks`, `Messaging`, `Memberships`) has weak fairness of `Step(r)` for every
request: Node's event loop resumes a handler whose promise is settled, queries
end or fail, and `fetch` gives up by itself. A request may fail at any await
instead (`Fault`), which ends it too. Nothing is assumed of those who send
requests, of membership changes, or of the carrier. Of the properties that are
checked only `BulkEnds` depends on it, the one about a loop of such
awaits: the other handlers go straight on. `WebShell!FairSpec` has weak
fairness of `Answer`: a promise under way is settled, with success or failure,
and its continuation runs; `ComesToRest` needs that and nothing of the user.

## 4. The proofs

All are checked by TLAPS for any number of users, rows and requests, from the
named assumptions on the constants, which TLC evaluates on every run:

- `LeadsAssumption`, `MessagingAssumption`, ...: the markers (`NULL`, `UNSET`,
  `NoActivity`) are none of the values they stand beside, and the payloads and
  initial rows are of their types; for the messages, there are finitely many
  leads, since rows are counted there.
- `LedgerAssumption`: a line of the ledger is not `NULL`, so that a lead that is
  not there differs from any that is.
- `FilesAssumption`: what `importCsv` is given is an array of rows.
  `InitialLeadsAssumption`: no lead that is there at the start was created by a
  request of the model.
- `CsvAssumption`: a quote is not a comma.
- `ReportsAssumption`: a day has a positive number of instants; payloads, queries
  and the folding of case are of their types.
- `WebAssumption`: the tables of the server are functions of their types, `NULL`
  is neither a user nor a dealership, times are natural numbers, and what is
  there at the start is finitely many rows, one of each name, since a list is cut
  by counting.

| Theorem | Says |
|---|---|
| `Figures_proofs!ScoreBounded` | the score is a whole number in 0..100 for all counts and ages |
| `Figures_proofs!ContactHelps` | `LifeSpec => ContactNeverHurts` |
| `Figures_proofs!IdleScoreFalls` | `LifeSpec => IdleScoreOnlyFalls` |
| `Figures_proofs!ReasonsExplain` | `LifeSpec => []ReasonsAddUp` |
| `Figures_proofs!SummariesAreBracketed` | `Spec => []SummaryBracketed` of `Reports` |
| `Figures_proofs!BreakdownsAddUp` | `Spec => []BreakdownAddsUp` |
| `Figures_proofs!TrendsAddUp` | `Spec => []TrendAddsUp` |
| `Leads_proofs!TypeCorrect` | `Spec => []TypeOK` |
| `Leads_proofs!SalesAreEarned` | `Spec => []SoldStampEarned` |
| `Leads_proofs!AssigneesAreMembers` | `Spec => []AssignedInsideDealership` |
| `Leads_proofs!AcknowledgedChangesAreAudited` | `Spec => []AcknowledgedIsAudited` |
| `Leads_proofs!EventsAreAudited` | `Spec => []EventsAudited` |
| `Leads_proofs!ScoresSettle` | `Spec => []ScoreSettles` |
| `Leads_proofs!LeadsImplementLedger` | `Spec => ImplementsLedger`, that is `Spec => Ledger!Spec` |
| `Appointments_proofs!TypeCorrect` | `Spec => []TypeOK` |
| `Appointments_proofs!WindowsHold` | `Spec => []WindowUnlessRaced` |
| `Appointments_proofs!OutcomesStand` | `Spec => OutcomeStands` |
| `Appointments_proofs!StatusesAreTold` | `Spec => []StatusIsTold` |
| `Appointments_proofs!ScoresFollow` | `Spec => []ScoreFollowsAppointments` |
| `Tasks_proofs!TypeCorrect` | `Spec => []TypeOK` |
| `Tasks_proofs!CompletionsAreAudited` | `Spec => []CompletionAudited` |
| `Tasks_proofs!ClosedTasksStayClosed` | `Spec => ClosedUnlessRaced` |
| `Messaging_proofs!TypeCorrect` | `Spec => []TypeOK` |
| `Messaging_proofs!StatusesUnlessMisread` | `Spec => []StatusUnlessMisread` |
| `Messaging_proofs!TextsHaveRows` | `Spec => []TextHasRow` |
| `Messaging_proofs!ScoresFollow` | `Spec => []ScoreFollowsMessages` |
| `Messaging_proofs!BulkSendsAccount` | `Spec => []BulkAccounts` |
| `Memberships_proofs!TypeCorrect` | `Spec => []TypeOK` |
| `Memberships_proofs!AcceptedAreMembers` | `Spec => []AcceptedIsMember` |
| `Memberships_proofs!ClosedInvitationsStayClosed` | `Spec => FinalUnlessRaced` |
| `Memberships_proofs!AdmissionNeedsInvitation` | `Spec => AdmittedByOpenInvitation` |
| `Memberships_proofs!ClosedSessionsStayClosed` | `Spec => LogoutSticks` |
| `Memberships_proofs!OnlyAdminsAct` | `Spec => AdminsOnly` |
| `Integrations_proofs!RateIsBounded` | `LimiterSpec => []Bounded` |
| `Integrations_proofs!LimiterIsImplemented` | `Spec => LimiterSpec`: the component's steps are steps of the limiter |
| `Integrations_proofs!WebhooksAreLimited` | `Spec => []Bounded`, which follows |
| `Integrations_proofs!ProcessedHasLead` | `Spec => []OkEventHasLead` |
| `Integrations_proofs!ImportsAddUp` | `Spec => []ImportAccounts` |
| `Integrations_proofs!LeadsFollowEvents` | `Spec => []LeadPerEvent` |
| `Integrations_proofs!TwinsAreSkipped` | `Spec => NoTwinUnlessRaced` |
| `Integrations_proofs!LinesReadBack` | `ParseCsvLine(EncodeLine(fields)) = fields` for every line of at least one cell, over any characters |
| `Integrations_proofs!RoundTripsHold` | `MCSpec => []RoundTrip` |
| `WebShell_proofs!WebSafe` | `Spec => []WebInv`, the inductive invariant of the tab |
| `WebShell_proofs!ShownBelongs` | `Spec => []ShownIsSelected` |
| `WebShell_proofs!SelectedIsOurs` | `Spec => []SelectedIsMineUnlessMixed` |
| `WebShell_proofs!BellRings` | `Spec => []BellIsSelected` |
| `WebShell_proofs!NotesBelong` | `Spec => []NotesAreOwn` |
| `WebShell_proofs!ReadComesBackOnlyRedated` | `Spec => []ReadUnlessRedated` |

No `TypeOK` is inductive: `UpdateLead` keeps the type of the table only because
the lead was found earlier, which the row does not say. Each module therefore
has a `TypeInv`, `TypeOK` with `Located(r)` for every request: which way its
operation goes (`Routed`, `Arrived`), that what it has looked up exists
(`Found`, `Placed`), what it has checked (`Checked`, `Vetted`, `Decided`) and
what it carries (`Carries`, `Holds`, `Saved`). That stays true because rows are
never deleted. On top of it:

- `LeadScoring`. Each line of the breakdown is a step function of a count or an
  age, so it is monotone by itself; the sum keeps that, and so do the cap and the
  clamp. `ReasonsAddUp` names the six lines of the explanation one by one; there
  are never more. `Alive` says of the one lead of
  `MCLeadScoring` that its row and evidence keep their types.
- `Leads`. `SalesInv` adds to the stamp what its proof needs of requests on the
  way: who writes the status SOLD at its write has been let through with a role
  that may (`Authorised`), and who carries an assignee to its write carries a
  member (`Vetted`); membership may have ended since, never begun elsewhere,
  which is why the promise is `Member` and not `active`. `ScoreInv` adds to the
  stored score that of a request which has read the row, or has worked out a
  score and is about to store it, what it holds is what the tables say, unless it
  was outdated meanwhile (`Informed`); without that nothing is known of the value
  a late request stores. The ledger needs only `Changes(l)`, the kinds of change
  a step can make to a row: each is one of `Open`, `Revise`, `HandOver`, `Mark`,
  which leave the same columns alone, or changes none of the ledger's columns.
  `LogsInv` says of every
  request past its audit that the row is there (`Recorded`), and of every event
  that it came after it (`Sourced`).
- `Appointments` and `Messaging`, the scores. `ScoreInv` adds `Informed(r)`: a
  handler that works on a score has touched the lead, and the score it is about
  to store is that of the rows there are, unless it was overtaken. A row that
  changes marks the scores under way for its lead as outdated in the same step,
  and leaves the evidence of every other lead as it was.
- `Appointments`, the windows and statuses. A step writes an interval if what it
  had read of the other end still holds; a status once told stays told, since the
  log only grows; who is about to confirm or to cancel has seen a status that allows
  it (`Checked`), and does not misjudge the row if it has that status still.
- `Tasks`. `AuditInv` says that a request about to emit has its audit row; that a
  task stays closed is read off the writing steps from `Decided`, what the
  handler had seen when it decided.
- `Messaging`. `WriteInv` says for each request which of its leads have a row or a
  text and which it has yet to come to (`Written`), so that nothing is sent twice
  under one name and a row's identifier is never of a text that is not at the
  carrier; and which of the carrier's words each status of a row goes with
  (`Heard`), the misread one among them: what has arrived or failed stays so at the
  carrier, and an earlier word that comes late makes the row SENT again, which
  goes with any. `AccountInv` keeps the accounts of a bulk send: a lead that was
  named is yet to come to, at work, has its row, has no number or is foreign; the count
  is the number of rows without the one at work (`Pending`); every row but that
  one has its audit row. The count grows by one exactly when the last step of a
  lead is done, which needs finitely many leads.
- `Memberships`. `Grows` is what every step does to the tables: accounts,
  memberships and invitations stay, and of an invitation only the status changes.
  `Trusted` says of a request past the guard that its actor is an administrator
  still, was demoted since, or is of the platform.
- `RateLimiter`. `Remembers` says that every accepted hit younger than the window
  is among the remembered ones, `BoundedAlways` bounds every span that ended: a
  span that ends now holds remembered hits only, and those are counted before
  another one is let in. A step of `Integrations` is a step of `LimiterSpec` or
  leaves its variables alone, so the invariant is the component's too.
- `Integrations`. `IInv` says the same six things (`Good(r)`) of every request:
  its record has the fields its place needs (`Shaped`), the rows it has come to
  are those with an event (`Recorded`), its counts are what the events say
  (`Accounted`), a row about to be marked has its lead (`Created`), its leads are
  those of its processed events and the one not yet marked (`Paired`, unless a
  query has failed), and the leads it has found no twin among are still there
  (`Single`). Events and leads carry the name of their request, so a step of one
  request cannot disturb `Good` of another (`SameRow`); that each holds only
  between certain queries is why none of the properties is inductive alone.
- `CsvImport`. What the parser makes of a line is a function of the position, so
  the proofs go by induction over positions: `Induction` derives it from the
  well-foundedness of the subsets of a finite set, since the least number that
  is not in a set would have one below it that is not either. `ScanAppend` says
  what one more character does; `QuotedRead` and `PlainRead` follow a cell that
  is quoted, or need not be, to its end, and `LinesReadBack` the cells of a line.
  A quote that closes and one that escapes look alike until the next character,
  so a cell may end with the scanner's `escape` set; the comma clears it.
- `Reports`. `ReportInv` says that there was a moment, `old`, since which all the
  report holds has been read (`Since`): the true figures when it arrived are
  those of the log of then; each set a query returned lies between what that log
  and the present one would give (`GroupOK`), since the log only grows; and the
  same holds of the counts. Groups divide the leads that were found and a booking
  is of one lead (`LeadsDivided`), so that no unit is counted in two groups. A sum
  is the cardinality of the units added (`AddedUp`), and `SumOfParts` says that
  counting apart what shares nothing counts it together; that and the days of a
  trend need no induction.
- `WebShell`. `WebInv` is about the whole tab, `TabOK`: the select shows what the
  requests are sent for (`Linked`), which is one of the user's dealerships unless
  sessions met (`Belongs`), and all the page shows *or has asked for* is for that
  dealership and user (`Fresh`): an answer is shown when it comes, so what is on
  its way counts already. A handler leaves the tab `Ready` and
  `RenderFacts` shows that React makes it right again: a page that was to be
  thrown away need not be right before. `NotesStep` is what any step does to the
  lists of notifications, and `AllNotesOK` says of a note that was read that it
  is in the list, as read and with the date it was read with, or that it is
  among the oldest of a full list, told again or not (`Remembered`). The property
  alone is not inductive, as it says nothing of a note that was cut off; this is,
  since what a cut drops is no younger than what it keeps, and a full list stays
  full and does not grow older (`CutsFacts`).

The proofs have one lemma per action for the types; for the rest, lemmas that
state what an action does to a request and a row (`Changes`, `Moves`,
`SaveEffect`, `LateEffect`, ...), from which each invariant is then shown without
looking at the actions again.

Every invariant and every action property of the runs is proved, and so are
both refinements, of the ledger of leads and of the limiter. Model-checked
only are `BulkEnds` and `ComesToRest`: liveness
under fairness is out of this prover's reach.

## 5. The plan

Done: scoring, leads and the refinement of the ledger; appointments, tasks,
messaging and memberships; integrations with the limiter and the lines of a file;
reports; the web client's shell; all with their proofs. What is left, in this
order:

1. `AccessGuards`: the chain of guards as a function of user, route and
   memberships, checked against a table of who may do what.
2. The timeline (`leads.service.ts:211-252` and the page that asks for it): pages
   by time alone, with rows of the same millisecond at their edge and rows added
   between two of them.
3. A promise about the status events of leads, like `StatusIsTold`: `updateLead`
   compares with a status it read several awaits earlier (`leads.service.ts:304`),
   so that its exceptions are those of an overlap.

A ledger of appointments and one of tasks, like that of leads, would say less than
`OutcomeStands` and `ClosedUnlessRaced`: an update may set any status, and only
the request tells whether it was asked to.

No module to be proved about declares a recursive operator.

## 6. What is not modelled

Read-only endpoints of the API (lists, timeline, thread views, the listing of the
logs, health, meta), because no state depends on them; templates, the columns of
settings, names and hours, rows that one query writes; the text of messages; the
AI module, which composes text from what it reads and whose one write, the
rescoring of a lead, is an operation of `Leads`; hashing and signing, which
libraries do (bcrypt compares only the first bytes of what it is given, so that
two refresh tokens of one user may pass for one another: `Memberships` has a
session, not a token); in the web client the other pages, which load as those that are modelled,
forms, tables and layout, and a second tab on the same localStorage; migrations,
seed data and the worker, which has no jobs. Several processes of the API would
each have a limiter of their own; the repository runs one. PROJECT.json lists
every component with its status, and under "hazards" what can go wrong where,
with the property that covers it or the reason why none does.

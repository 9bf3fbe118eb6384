---------------------------- MODULE Integrations ----------------------------
(***************************************************************************)
(* Leads that come from outside (IntegrationsService): files of rows that   *)
(* an admin imports, and webhooks of lead providers, one action per round   *)
(* trip.  Leads are created by LeadsService.createLead: its row is one step *)
(* here and what follows the row, which may fail, another.                  *)
(***************************************************************************)
EXTENDS CsvImport, RateLimiter

CONSTANTS
  Dealership, Provider, Secret, Sender,
  Name,         \* names of integrations
  Request,      \* requests, each of which is made at most once
  NULL,
  Ops,          \* the operations that are requested
  Files,        \* the files that are imported, see CsvImport
  Payloads,     \* the objects that webhooks carry
  SourceArg,    \* the source of rows that name none
  ActiveArg,    \* isActive in the payload of an integration
  InitialIntegrations,   \* sets of rows of the Integration table
  InitialLeads, \* the leads the system may start with: sets of LeadRow
  MaxRows,      \* csvImportMaxRows
  MaxTime,      \* time stops here
  Faults        \* may a query fail or a request be lost?

VARIABLES
  integrations, \* the Integration table
  leads,        \* the Lead table
  events,       \* the IntegrationEvent table: from <<request, row>>
  reports,      \* the events integration_csv_import_completed
  audit,        \* the audited ingestions
  req,          \* the requests
  failed,       \* the requests that were answered with an error or lost
  hurt          \* history: the requests during which a query has failed

tables == <<integrations, leads, events, reports, audit>>
clock == limiterVars   \* now, hits and accepted, see RateLimiter
vars == <<tables, clock, req, failed, hurt>>

ASSUME IntegrationsAssumption == Key = Provider \X Sender /\ Hit = Request

\* What importCsv is given is an array of rows.
ASSUME FilesAssumption == \A f \in Files : f.rows \in Seq(ToSet(f.rows))

\* No lead that is there at the start was created by a request.
ASSUME InitialLeadsAssumption ==
  \A some \in InitialLeads : \A l \in some : l.id[1] \notin Request

-----------------------------------------------------------------------------
NoEvent == [dealership |-> NULL, integration |-> NULL, ok |-> FALSE, lead |-> NULL]

Idle == [pc |-> "idle", op |-> NULL, dealership |-> NULL, integration |-> NULL,
         provider |-> NULL, sender |-> NULL, secret |-> NULL, file |-> NULL, payload |-> NULL,
         source |-> UNSET, active |-> NULL, row |-> 0, inbound |-> NULL, lead |-> NULL,
         known |-> {}, successes |-> <<>>, failures |-> <<>>]

At(r, pc) == req[r].pc = pc /\ r \notin failed
InFlight(r) == req[r].pc \notin {"idle", "end"} /\ r \notin failed
Goto(r, pc) == req' = [req EXCEPT ![r].pc = pc]
Throw(r) == failed' = failed \cup {r} /\ UNCHANGED <<tables, req, hurt>>
Quiet == UNCHANGED <<tables, failed, hurt>>

Init ==
  /\ integrations \in InitialIntegrations /\ leads \in InitialLeads
  /\ events = <<>> /\ reports = {} /\ audit = {}
  /\ LimiterInit
  /\ req = [r \in Request |-> Idle]
  /\ failed = {} /\ hurt = {}

\* An admin connects a provider or imports a file; a webhook needs no account.
Start(r) ==
  /\ At(r, "idle")
  /\ \/ /\ "connect" \in Ops
        /\ \E d \in Dealership, n \in Name, p \in Provider, s \in Secret, a \in ActiveArg :
             req' = [req EXCEPT ![r] = [Idle EXCEPT !.pc = "connect", !.op = "connect",
               !.dealership = d, !.integration = n, !.provider = p, !.secret = s, !.active = a]]
     \/ /\ "csv" \in Ops
        /\ \E d \in Dealership, f \in Files, n \in Name \cup {NULL}, s \in SourceArg :
             req' = [req EXCEPT ![r] = [Idle EXCEPT !.pc = "lookup", !.op = "csv",
               !.dealership = d, !.integration = n, !.file = f, !.source = s]]
     \/ /\ "webhook" \in Ops
        /\ \E p \in Provider, w \in Sender, s \in Secret \cup {NULL}, o \in Payloads :
             req' = [req EXCEPT ![r] = [Idle EXCEPT !.pc = "limit", !.op = "webhook",
               !.provider = p, !.sender = w, !.secret = s, !.payload = o, !.row = 1]]
  /\ Quiet /\ UNCHANGED clock

ActiveOr(a) == IF a = UNSET THEN TRUE ELSE a

\* createIntegration; the name is unique in its dealership.
CreateIntegration(r) ==
  LET q == req[r] IN
  /\ At(r, "connect")
  /\ IF \E i \in integrations : i.dealership = q.dealership /\ i.name = q.integration
     THEN Throw(r)
     ELSE /\ integrations' = integrations \cup
               {[dealership |-> q.dealership, name |-> q.integration, provider |-> q.provider,
                 secret |-> q.secret, isActive |-> ActiveOr(q.active)]}
          /\ Goto(r, "end")
          /\ UNCHANGED <<leads, events, reports, audit, failed, hurt>>
  /\ UNCHANGED clock

-----------------------------------------------------------------------------
\* handleWebhook up to its first await: the limiter, and then the secret.
EnforceWebhookRateLimit(r) ==
  LET k == <<req[r].provider, req[r].sender>> IN
  /\ At(r, "limit")
  /\ \/ /\ Refuse(k) /\ Throw(r)
     \/ /\ Accept(k, r)
        /\ IF req[r].secret = NULL THEN Throw(r) ELSE Goto(r, "match") /\ Quiet

\* Any active integration of the provider with this secret: the order of the
\* rows is not specified, and two dealerships may have chosen the same secret.
MatchSecret(r) ==
  LET q == req[r]
      found == {i \in integrations : i.provider = q.provider /\ i.isActive
                                     /\ i.secret = q.secret}
  IN
  /\ At(r, "match")
  /\ \/ found = {} /\ Throw(r)
     \/ \E i \in found :
          /\ req' = [req EXCEPT ![r] = [@ EXCEPT !.dealership = i.dealership,
                                                 !.integration = i.name, !.pc = "event"]]
          /\ Quiet
  /\ UNCHANGED clock

\* importCsv up to its first row: the file, its size, the integration.
LookUpIntegration(r) ==
  LET q == req[r]
      known == \E i \in integrations : i.dealership = q.dealership /\ i.name = q.integration
                                       /\ i.isActive
  IN
  /\ At(r, "lookup")
  /\ IF ~WellFormed(q.file) \/ Len(q.file.rows) > MaxRows \/ (q.integration # NULL /\ ~known)
     THEN Throw(r)
     ELSE /\ req' = [req EXCEPT ![r] = [@ EXCEPT !.row = 1, !.pc = "event"]]
          /\ Quiet
  /\ UNCHANGED clock

-----------------------------------------------------------------------------
EventOf(r) == <<r, req[r].row>>

CreateEvent(r) ==
  LET q == req[r] IN
  /\ At(r, "event")
  /\ events' = [e \in DOMAIN events \cup {EventOf(r)} |->
       IF e = EventOf(r) THEN [NoEvent EXCEPT !.dealership = q.dealership,
                                              !.integration = q.integration]
       ELSE events[e]]
  /\ Goto(r, "normalize")
  /\ UNCHANGED <<integrations, leads, reports, audit, failed, hurt, clock>>

CurrentRow(q) == RowOf(q.file, q.row)

DefaultSource == [is |-> "words", of |-> "CSV Import"]

\* The normalization of a row, or of the payload of a webhook, up to the next await.
Normalize(r) ==
  LET q == req[r]
      inbound == IF q.op = "csv" THEN ParseInbound(RowObject(CurrentRow(q), Or(q.source, DefaultSource)))
                 ELSE ParseInbound(q.payload)
      lead == [email |-> inbound.email, phone |-> inbound.phone,
               source |-> Or(inbound.source, q.integration),
               status |-> IF q.op = "csv" THEN Normalized(CurrentRow(q)).status ELSE UNSET]
  IN
  /\ At(r, "normalize")
  /\ req' = [req EXCEPT ![r] = [@ EXCEPT !.inbound = lead, !.lead = NULL, !.pc =
       IF q.op = "csv" THEN IF Errors(CurrentRow(q)) # {} THEN "skip" ELSE "email"
       ELSE IF Acceptable(inbound) THEN "create" ELSE "caught"]]
  /\ Quiet /\ UNCHANGED clock

\* Two spellings of one address are the same to the query, two of one number not.
SameEmail(a, b) == a # UNSET /\ b # UNSET /\ [a EXCEPT !.form = ""] = [b EXCEPT !.form = ""]
SamePhone(a, b) == a # UNSET /\ a = b

LeadsOf(d) == {l \in leads : l.dealership = d}

FindByEmail(r) ==
  LET q == req[r] IN
  /\ At(r, "email")
  /\ req' = [req EXCEPT ![r] = [@ EXCEPT !.known = LeadsOf(q.dealership), !.pc =
       IF \E l \in LeadsOf(q.dealership) : SameEmail(q.inbound.email, l.email)
       THEN "skip" ELSE "phone"]]
  /\ Quiet /\ UNCHANGED clock

\* A slip: the phone is looked for only when there is no email.
PhoneTwinUnlessEmail(q) ==
  q.inbound.email = UNSET /\ \E l \in LeadsOf(q.dealership) : SamePhone(q.inbound.phone, l.phone)

PhoneTwin(q) == \E l \in LeadsOf(q.dealership) : SamePhone(q.inbound.phone, l.phone)

FindByPhone(r) ==
  /\ At(r, "phone")
  /\ Goto(r, IF PhoneTwin(req[r]) THEN "skip" ELSE "create")
  /\ Quiet /\ UNCHANGED clock

\* A slip: the event is marked before the lead exists.
CreateLeadLate(r) ==
  /\ At(r, "create")
  /\ req' = [req EXCEPT ![r] = [@ EXCEPT !.lead = EventOf(r), !.pc = "finish"]]
  /\ UNCHANGED <<integrations, leads, events, reports, audit, failed, hurt, clock>>

\* createLead: the row. A webhook does not look for duplicates.
CreateLead(r) ==
  LET q == req[r]
      row == [id |-> EventOf(r), dealership |-> q.dealership, email |-> q.inbound.email,
              phone |-> q.inbound.phone, source |-> q.inbound.source,
              status |-> q.inbound.status]
  IN
  /\ At(r, "create")
  /\ leads' = leads \cup {row}
  /\ req' = [req EXCEPT ![r] = [@ EXCEPT !.lead = row.id, !.known = {}, !.pc = "finish"]]
  /\ UNCHANGED <<integrations, events, reports, audit, failed, hurt, clock>>

\* createLead: score, summary, audit row and event; see Leads.
FinishLead(r) ==
  /\ At(r, "finish")
  /\ Goto(r, "done")
  /\ Quiet /\ UNCHANGED clock

MarkEvent(r, ok, lead) ==
  /\ events' = [events EXCEPT ![EventOf(r)] = [@ EXCEPT !.ok = ok, !.lead = lead]]
  /\ UNCHANGED <<integrations, leads, reports, audit, failed, hurt, clock>>

AfterRow(q) == IF q.row = Len(q.file.rows) THEN "emit" ELSE "event"

\* A slip: a duplicate is not counted.
RowsCounted(q, success) ==
  IF success THEN [q EXCEPT !.successes = Append(@, q.row)]
  ELSE IF q.pc = "skip" THEN q
  ELSE [q EXCEPT !.failures = Append(@, q.row)]

CountRow(q, success) ==
  IF success THEN [q EXCEPT !.successes = Append(@, q.row)]
  ELSE [q EXCEPT !.failures = Append(@, q.row)]

NextRow(q, success) ==
  [CountRow(q, success) EXCEPT !.pc = AfterRow(q),
                               !.row = IF AfterRow(q) = "event" THEN @ + 1 ELSE @]

\* A row with errors, or a duplicate: noted on its event.
SkipRow(r) ==
  /\ At(r, "skip")
  /\ MarkEvent(r, FALSE, events[EventOf(r)].lead)
  /\ req' = [req EXCEPT ![r] = NextRow(req[r], FALSE)]

MarkProcessed(r) ==
  /\ At(r, "done")
  /\ MarkEvent(r, TRUE, req[r].lead)
  /\ req' = [req EXCEPT ![r] =
       IF req[r].op = "csv" THEN NextRow(req[r], TRUE) ELSE [@ EXCEPT !.pc = "audit"]]

\* The catch blocks: whatever was thrown is noted, and the lead, if there is
\* one already, stays.
MarkFailed(r) ==
  /\ At(r, "caught")
  /\ MarkEvent(r, FALSE, events[EventOf(r)].lead)
  /\ req' = [req EXCEPT ![r] =
       IF req[r].op = "csv" THEN NextRow(req[r], FALSE) ELSE [@ EXCEPT !.pc = "audit"]]

AuditIngestion(r) ==
  /\ At(r, "audit")
  /\ audit' = audit \cup {[event |-> EventOf(r), ok |-> events[EventOf(r)].ok]}
  /\ Goto(r, "end")
  /\ UNCHANGED <<integrations, leads, events, reports, failed, hurt, clock>>

\* The event is stored, or its failure is swallowed; the answer is the same.
EmitCompleted(r) ==
  LET q == req[r] IN
  /\ At(r, "emit")
  /\ \/ reports' = reports \cup {[req |-> r, total |-> Len(q.file.rows),
                                  successCount |-> Len(q.successes),
                                  failureCount |-> Len(q.failures)]}
     \/ Faults /\ UNCHANGED reports
  /\ Goto(r, "end")
  /\ UNCHANGED <<integrations, leads, events, audit, failed, hurt, clock>>

-----------------------------------------------------------------------------
\* Inside a try block a query that fails leads to the catch block; the audit of
\* a processed event is inside, that of a failed one is not.
Guarded(r) ==
  \/ req[r].pc \in {"email", "phone", "create", "finish", "done"}
  \/ req[r].pc = "skip" /\ Errors(CurrentRow(req[r])) = {}
  \/ req[r].pc = "audit" /\ events[EventOf(r)].ok

QueryFails(r) ==
  /\ Faults
  /\ r \notin failed /\ Guarded(r)
  /\ hurt' = hurt \cup {r}
  /\ Goto(r, "caught")
  /\ UNCHANGED <<tables, clock, failed>>

Fault(r) == Faults /\ InFlight(r) /\ Throw(r) /\ UNCHANGED clock

TimePasses == now < MaxTime /\ Tick /\ UNCHANGED <<tables, req, failed, hurt>>

Step(r) ==
  \/ CreateIntegration(r) \/ EnforceWebhookRateLimit(r) \/ MatchSecret(r)
  \/ LookUpIntegration(r) \/ CreateEvent(r) \/ Normalize(r) \/ FindByEmail(r)
  \/ FindByPhone(r) \/ CreateLead(r) \/ FinishLead(r) \/ SkipRow(r) \/ MarkProcessed(r)
  \/ MarkFailed(r) \/ AuditIngestion(r) \/ EmitCompleted(r)

Next == TimePasses \/ \E r \in Request : Start(r) \/ Step(r) \/ QueryFails(r) \/ Fault(r)

Spec == Init /\ [][Next]_vars

-----------------------------------------------------------------------------
Ended(r) == req[r].pc = "end" /\ r \notin failed
EventsOf(r) == {e \in DOMAIN events : e[1] = r}
CreatedBy(r) == {l \in leads : l.id[1] = r}

\* handleWebhook, importCsv: an event that counts as processed points at a lead
\* that exists, in the dealership of the event, from the moment it says so.
OkEventHasLead ==
  \A e \in DOMAIN events : events[e].ok =>
    \E l \in leads : l.id = events[e].lead /\ l.dealership = events[e].dealership

\* importCsv: an import that is answered has an event for each row, and counts
\* as successes the rows whose events are processed and as failures all others.
ImportAccounts ==
  \A r \in Request : Ended(r) /\ req[r].op = "csv" =>
    LET q == req[r]  ok == {n \in DOMAIN q.file.rows : events[<<r, n>>].ok} IN
    /\ EventsOf(r) = {<<r, n>> : n \in DOMAIN q.file.rows}
    /\ Len(q.successes) = Cardinality(ok) /\ ToSet(q.successes) = ok
    /\ Len(q.failures) = Len(q.file.rows) - Cardinality(ok)

\* createLeadFromInbound: a request during which no query failed has created
\* exactly the leads that its processed events point at, one each.
LeadPerEvent ==
  \A r \in Request : Ended(r) /\ r \notin hurt =>
    {l.id : l \in CreatedBy(r)} = {e \in EventsOf(r) : events[e].ok}

\* findDuplicateLeadReason (README.md:293): no row of a file becomes a lead
\* while there is one with its email, in whatever spelling, or its phone that
\* was there when the import began to look.
NoTwinUnlessRaced ==
  [][\A r \in Request : CreateLead(r) /\ req[r].op = "csv" =>
       \A l \in req[r].known : /\ ~SameEmail(req[r].inbound.email, l.email)
                               /\ ~SamePhone(req[r].inbound.phone, l.phone)]_vars
=============================================================================

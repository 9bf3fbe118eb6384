------------------------------- MODULE Leads -------------------------------
(***************************************************************************)
(* The leads of one dealership, under concurrent HTTP requests             *)
(* (LeadsService, ActivitiesService.createForLead, and the two writers of  *)
(* LeadScoringService).                                                    *)
(*                                                                         *)
(* A request is a process of its own. Its handler runs to the next await   *)
(* without interruption and every await is a round trip to the database,   *)
(* so there is one action per round trip and other requests run in         *)
(* between. What a handler has read stays in its request record until it   *)
(* is used, however old it is by then. The only transaction is the one of  *)
(* createForLead.                                                          *)
(*                                                                         *)
(* A request is used once, so a finished request remembers what it did.    *)
(* The age of the last activity does not grow here: time is left to        *)
(* MCLeadScoring.                                                          *)
(***************************************************************************)
EXTENDS LeadScoring

CONSTANTS
  User,             \* all users, those of other dealerships included
  Member,           \* the users with a membership in this dealership
  Platform,         \* the administrators and operators of the platform
  Lead,             \* identifiers of leads
  Source,           \* names of lead sources
  Request,          \* requests, each of which is made at most once
  NULL,             \* a null column, or no actor
  UNSET,            \* a property the payload does not have (undefined)
  Ops,              \* the operations that are requested
  StatusArg, AssigneeArg, SourceArg, ContactArg, AgeArg,
                    \* the payloads that are sent, UNSET among them
  RoleOf,           \* the role each member starts with
  NewRole,          \* the roles SetRole gives
  Leaver,           \* the members who may be deactivated
  InitialRow,       \* the rows a lead may have at the start, or NULL
  InitialEvidence,  \* what there is about a lead at the start
  Faults            \* may a request be cut short by a fault?

Role == {"ADMIN", "MANAGER", "BDC", "SALES"}
AllOps == {"create", "update", "assign", "status", "activity", "rescore"}

MANAGEMENT_ASSIGN_ROLES == {"ADMIN", "MANAGER"}
SOLD_ALLOWED_ROLES == {"ADMIN", "MANAGER"}

Row == [status : LeadStatus, source : Source \cup {NULL},
        assignee : User \cup {NULL}, soldAt : BOOLEAN, soldBy : User \cup {NULL},
        contact : Contact, age : Int \cup {NoActivity},
        score : MIN_LEAD_SCORE .. MAX_LEAD_SCORE]

Flag == BOOLEAN \cup {UNSET}
ContactPatch == [phone : Flag, email : Flag, first : Flag, last : Flag, vehicle : Flag]

ASSUME LeadsAssumption ==
  /\ Member \subseteq User /\ Platform \subseteq User
  /\ NULL \notin User \cup Source /\ NULL \notin Lead /\ NULL \notin Row
  /\ UNSET \notin User \cup Source \cup {NULL, NoActivity}
  /\ UNSET \notin LeadStatus /\ UNSET \notin BOOLEAN /\ UNSET \notin Int
  /\ Ops \subseteq AllOps
  /\ StatusArg \subseteq LeadStatus \cup {UNSET}
  /\ AssigneeArg \subseteq User \cup {UNSET}
  /\ SourceArg \subseteq Source \cup {UNSET}
  /\ ContactArg \subseteq ContactPatch
  /\ AgeArg \subseteq Int \cup {UNSET}
  /\ RoleOf \in [User -> Role]
  /\ NewRole \subseteq Role
  /\ Leaver \subseteq Member
  /\ InitialEvidence \subseteq Evidence
  /\ Faults \in BOOLEAN

\* A lead in the database before the requests: open, unstamped, in the hands
\* of a member or of nobody, with the score that its row deserves.
ASSUME InitialRowAssumption ==
  \A row \in InitialRow \ {NULL} :
     /\ row \in Row
     /\ ~row.soldAt /\ row.soldBy = NULL
     /\ row.assignee \in Member \cup {NULL}
     /\ \A e \in InitialEvidence : row.score = Score(row, e)

VARIABLES
  leads,      \* the Lead table
  evidence,   \* per lead, what the rows that refer to it amount to
  sources,    \* the LeadSource table
  audit,      \* the AuditLog table
  events,     \* the EventLog table
  active,     \* the users with an active membership
  role,       \* the role column of the memberships
  req,        \* the requests
  failed,     \* the requests that were answered with an error or lost
  overtaken   \* history: leads whose score an overtaken request wrote

tables == <<leads, evidence, sources, audit, events>>
members == <<active, role>>
vars == <<tables, members, req, failed, overtaken>>

-----------------------------------------------------------------------------
\* The payload's value, or what the column has: Prisma leaves a column alone
\* when it is given undefined.
Given(arg, old) == IF arg = UNSET THEN old ELSE arg

PatchContact(p, c) ==
  [phone |-> Given(p.phone, c.phone), email |-> Given(p.email, c.email),
   first |-> Given(p.first, c.first), last |-> Given(p.last, c.last),
   vehicle |-> Given(p.vehicle, c.vehicle)]

NoPatch == [phone |-> UNSET, email |-> UNSET, first |-> UNSET, last |-> UNSET,
            vehicle |-> UNSET]
NoContact == [phone |-> FALSE, email |-> FALSE, first |-> FALSE, last |-> FALSE,
              vehicle |-> FALSE]

\* The columns computeScore selects.
ScoredColumns(row) ==
  [status |-> row.status, soldAt |-> row.soldAt, contact |-> row.contact,
   age |-> row.age]

ScoreOf(l) == Score(ScoredColumns(leads[l]), evidence[l])

\* Where a request is: the round trip it is about to make.
PC == {"idle", "ensure", "source", "assignee", "write", "read", "count",
       "persist", "summary", "audit", "emit", "emitAssigned", "end"}

BeforeWrite == {"idle", "ensure", "source", "assignee", "write"}
BeforePersist == BeforeWrite \cup {"read", "count", "persist"}

\* The arguments of a request, and the payloads that are sent with a creation
\* or an update.
NoArgs == [status |-> UNSET, assignee |-> UNSET, source |-> UNSET,
           contact |-> NoPatch, age |-> UNSET, isCall |-> FALSE]
Payload == [status : StatusArg, assignee : AssigneeArg, source : SourceArg,
            contact : ContactArg, age : AgeArg, isCall : {FALSE}]

\* The handler's local variables, and before it has set any.
Blank == [seen |-> NULL, row |-> NULL, score |-> 0, outdated |-> FALSE,
          assigned |-> NULL]

Idle == [pc |-> "idle", op |-> NULL, actor |-> NULL, role |-> NULL, lead |-> NULL,
         args |-> NoArgs, local |-> Blank]

InFlight(r) == req[r].pc \notin {"idle", "end"} /\ r \notin failed
Wrote(r) == req[r].op # "rescore" /\ req[r].pc \notin BeforeWrite
Scored(r) == req[r].pc \notin BeforePersist

At(r, pc) == req[r].pc = pc /\ r \notin failed
Goto(r, pc) == req' = [req EXCEPT ![r].pc = pc]


\* The handler goes on to another round trip, with what it knows now.
Resume(r, local, pc) == req' = [req EXCEPT ![r] = [@ EXCEPT !.local = local, !.pc = pc]]
Finish(r) == Resume(r, Blank, "end")

\* The handler throws, and the request is answered with an error.
Throw(r) ==
  /\ failed' = failed \cup {r}
  /\ req' = [req EXCEPT ![r].local = Blank]
  /\ UNCHANGED <<tables, members, overtaken>>

Init ==
  /\ leads \in [Lead -> InitialRow]
  /\ evidence \in [Lead -> InitialEvidence]
  /\ sources = {} /\ audit = {} /\ events = {}
  /\ active = Member /\ role = RoleOf
  /\ req = [r \in Request |-> Idle]
  /\ failed = {} /\ overtaken = {}

-----------------------------------------------------------------------------
(***************************************************************************)
(* A request arrives. TenantGuard has found the actor's active membership  *)
(* and put its role into the request, where it stays whatever becomes of   *)
(* the membership; the staff of the platform come in as administrators of  *)
(* any dealership they have no membership in. A lead that comes in through *)
(* an integration has neither actor nor role.                              *)
(***************************************************************************)
Admitted == active \cup Platform

TenantRole(u) ==
  IF u = NULL THEN NULL ELSE IF u \in active THEN role[u] ELSE "ADMIN"

Begin(r, op, u, l, pc, args) ==
  /\ op \in Ops
  /\ At(r, "idle")
  /\ u \in Admitted \/ (u = NULL /\ op = "create")
  /\ req' = [req EXCEPT ![r] =
                [pc |-> pc, op |-> op, actor |-> u, role |-> TenantRole(u),
                 lead |-> l, args |-> args, local |-> Blank]]
  /\ UNCHANGED <<tables, members, failed, overtaken>>

StartCreate(r) ==
  \E u \in Admitted \cup {NULL}, args \in Payload :
    Begin(r, "create", u, NULL, "source", args)

StartUpdate(r) ==
  \E u \in Admitted, l \in Lead, args \in Payload :
    Begin(r, "update", u, l, "ensure", args)

StartAssign(r) ==
  \E u \in Admitted, l \in Lead, a \in AssigneeArg :
    Begin(r, "assign", u, l, "ensure", [NoArgs EXCEPT !.assignee = a])

StartStatus(r) ==
  \E u \in Admitted, l \in Lead, s \in StatusArg \ {UNSET} :
    Begin(r, "status", u, l, "ensure", [NoArgs EXCEPT !.status = s])

StartActivity(r) ==
  \E u \in Admitted, l \in Lead, b \in BOOLEAN :
    Begin(r, "activity", u, l, "ensure", [NoArgs EXCEPT !.isCall = b])

\* GET /leads/:id/ai/lead-score computes the score and stores it.
StartRescore(r) ==
  \E u \in Admitted, l \in Lead : Begin(r, "rescore", u, l, "read", NoArgs)

-----------------------------------------------------------------------------
\* ensureLeadExists, and the checks of the role that follow it without an
\* await: who may assign to whom, and who may mark a lead as sold.
MayAssign(q) ==
  IF q.role = "SALES" THEN q.args.assignee = q.actor
  ELSE q.role \in MANAGEMENT_ASSIGN_ROLES

MaySetStatus(q) == q.args.status = "SOLD" => q.role \in SOLD_ALLOWED_ROLES

EnsureLeadExists(r) ==
  LET q == req[r] IN
  /\ At(r, "ensure")
  /\ IF leads[q.lead] # NULL
        /\ (q.op = "assign" => MayAssign(q))
        /\ (q.op = "status" => MaySetStatus(q))
     THEN /\ Resume(r, [q.local EXCEPT !.seen = leads[q.lead].status],
                    CASE q.op = "update" -> "source"
                      [] q.op = "assign" -> "assignee"
                      [] OTHER -> "write")
          /\ UNCHANGED <<tables, members, failed, overtaken>>
     ELSE Throw(r)

\* resolveSource: the name is upserted, or there is no name.
ResolveSource(r) ==
  /\ At(r, "source")
  /\ sources' = sources \cup ({req[r].args.source} \ {UNSET})
  /\ Goto(r, "assignee")
  /\ UNCHANGED <<leads, evidence, audit, events, members, failed, overtaken>>

\* A lead that a salesperson creates for nobody in particular is theirs.
AssigneeOf(q) ==
  IF q.op = "create" /\ q.args.assignee = UNSET /\ q.role = "SALES"
  THEN q.actor ELSE q.args.assignee

\* A slip: any user will do as an assignee.
ValidateAssigneeNot(r) ==
  LET u == AssigneeOf(req[r]) IN
  /\ At(r, "assignee")
  /\ req' = [req EXCEPT ![r] = [@ EXCEPT !.args.assignee = u, !.pc = "write"]]
  /\ UNCHANGED <<tables, members, failed, overtaken>>

ValidateAssignee(r) ==
  LET u == AssigneeOf(req[r]) IN
  /\ At(r, "assignee")
  /\ IF u = UNSET \/ u \in active
     THEN /\ req' = [req EXCEPT ![r] = [@ EXCEPT !.args.assignee = u, !.pc = "write"]]
          /\ UNCHANGED <<tables, members, failed, overtaken>>
     ELSE Throw(r)

-----------------------------------------------------------------------------
(***************************************************************************)
(* The one write of each handler. A score that another request is working  *)
(* out from what was there before is overtaken by it.                      *)
(***************************************************************************)
Overtakes(l, q) == q.lead = l /\ q.pc \in {"count", "persist"}

\* A slip: the write is not followed by a new score.
WrittenNotRescored(r, l) ==
  req' = [q \in Request |->
            IF q = r THEN [req[r] EXCEPT !.lead = l, !.pc = "summary"]
            ELSE [req[q] EXCEPT !.local.outdated = @ \/ Overtakes(l, req[q])]]

\* The requests after r has written lead l.
Written(r, l) ==
  req' = [q \in Request |->
            IF q = r THEN [req[r] EXCEPT !.lead = l, !.pc = "read"]
            ELSE [req[q] EXCEPT !.local.outdated = @ \/ Overtakes(l, req[q])]]

OrNull(arg) == Given(arg, NULL)

\* What createLead inserts; the columns it does not mention have their defaults.
NewRow(a) ==
  [status |-> Given(a.status, "NEW"), source |-> OrNull(a.source),
   assignee |-> OrNull(a.assignee), soldAt |-> FALSE, soldBy |-> NULL,
   contact |-> PatchContact(a.contact, NoContact), age |-> Given(a.age, NoActivity),
   score |-> 0]

CreateLead(r) ==
  /\ At(r, "write") /\ req[r].op = "create"
  /\ \E l \in Lead : /\ leads[l] = NULL
                    /\ leads' = [leads EXCEPT ![l] = NewRow(req[r].args)]
                    /\ Written(r, l)
  /\ UNCHANGED <<evidence, sources, audit, events, members, failed, overtaken>>

UpdateLead(r) ==
  LET q == req[r]  old == leads[q.lead] IN
  /\ At(r, "write") /\ q.op = "update"
  /\ leads' = [leads EXCEPT ![q.lead] =
        [old EXCEPT !.status = Given(q.args.status, @), !.source = Given(q.args.source, @),
                    !.assignee = Given(q.args.assignee, @),
                    !.contact = PatchContact(q.args.contact, @),
                    !.age = Given(q.args.age, @)]]
  /\ Written(r, q.lead)
  /\ UNCHANGED <<evidence, sources, audit, events, members, failed, overtaken>>

AssignLead(r) ==
  LET q == req[r] IN
  /\ At(r, "write") /\ q.op = "assign"
  /\ leads' = [leads EXCEPT ![q.lead] =
                  [@ EXCEPT !.assignee = OrNull(q.args.assignee), !.age = 0]]
  /\ Written(r, q.lead)
  /\ UNCHANGED <<evidence, sources, audit, events, members, failed, overtaken>>

\* A slip: reopening a lead clears the date of the sale but not the seller.
UpdateStatusKeepsSeller(r) ==
  LET q == req[r]  sold == q.args.status = "SOLD" IN
  /\ At(r, "write") /\ q.op = "status"
  /\ leads' = [leads EXCEPT ![q.lead] =
                  [@ EXCEPT !.status = q.args.status, !.soldAt = sold, !.age = 0,
                            !.soldBy = IF sold THEN q.actor ELSE @]]
  /\ Written(r, q.lead)
  /\ UNCHANGED <<evidence, sources, audit, events, members, failed, overtaken>>

UpdateStatus(r) ==
  LET q == req[r]  sold == q.args.status = "SOLD" IN
  /\ At(r, "write") /\ q.op = "status"
  /\ leads' = [leads EXCEPT ![q.lead] =
                  [@ EXCEPT !.status = q.args.status, !.soldAt = sold, !.age = 0,
                            !.soldBy = IF sold THEN q.actor ELSE NULL]]
  /\ Written(r, q.lead)
  /\ UNCHANGED <<evidence, sources, audit, events, members, failed, overtaken>>

\* One transaction inserts the activity and touches the lead.
CreateActivity(r) ==
  LET q == req[r] IN
  /\ At(r, "write") /\ q.op = "activity"
  /\ evidence' = [evidence EXCEPT ![q.lead].calls = @ + (IF q.args.isCall THEN 1 ELSE 0)]
  /\ leads' = [leads EXCEPT ![q.lead].age = 0]
  /\ Written(r, q.lead)
  /\ UNCHANGED <<sources, audit, events, members, failed, overtaken>>

-----------------------------------------------------------------------------
(***************************************************************************)
(* recalculateAndPersist, which every write is followed by, and            *)
(* calculateLeadScore: the row is read, then the counts, then the score is *)
(* stored, whatever has become of the row and of the counts.               *)
(***************************************************************************)
ReadLead(r) ==
  LET row == ScoredColumns(leads[req[r].lead])
      sold == SoldForScore(row) IN
  /\ At(r, "read")
  /\ IF leads[req[r].lead] = NULL THEN Throw(r)
     ELSE /\ Resume(r, [req[r].local EXCEPT !.row = row, !.outdated = FALSE,
                                             !.score = IF sold THEN 100 ELSE 0],
                    IF sold THEN "persist" ELSE "count")
          /\ UNCHANGED <<tables, members, failed, overtaken>>

CountEvidence(r) ==
  LET q == req[r] IN
  /\ At(r, "count")
  /\ Resume(r, [q.local EXCEPT !.score = Score(q.local.row, evidence[q.lead])], "persist")
  /\ UNCHANGED <<tables, members, failed, overtaken>>

PersistScore(r) ==
  LET q == req[r] IN
  /\ At(r, "persist")
  /\ leads' = [leads EXCEPT ![q.lead].score = q.local.score]
  /\ overtaken' = IF q.local.outdated THEN overtaken \cup {q.lead}
                  ELSE overtaken \ {q.lead}
  /\ IF q.op = "rescore" THEN Finish(r)
     ELSE Resume(r, [q.local EXCEPT !.row = NULL, !.score = 0, !.outdated = FALSE],
                 IF q.op = "activity" THEN "audit" ELSE "summary")
  /\ UNCHANGED <<evidence, sources, audit, events, members, failed>>

\* A slip: the event is emitted without waiting for the audit row.
ReadSummaryThenEmit(r) ==
  /\ At(r, "summary")
  /\ Resume(r, [req[r].local EXCEPT !.assigned = leads[req[r].lead].assignee], "emit")
  /\ UNCHANGED <<tables, members, failed, overtaken>>

\* getLeadSummaryOrThrow; createLead goes on with the assignee it finds there.
ReadSummary(r) ==
  /\ At(r, "summary")
  /\ Resume(r, [req[r].local EXCEPT !.assigned = leads[req[r].lead].assignee], "audit")
  /\ UNCHANGED <<tables, members, failed, overtaken>>

-----------------------------------------------------------------------------
\* What logEvent and emit call what the handler did.
ActionName ==
  [create |-> "lead_created", update |-> "lead_updated", assign |-> "lead_assigned",
   status |-> "lead_status_changed", activity |-> "activity_logged"]
EventType ==
  [create |-> "lead_created", update |-> "lead_status_changed",
   assign |-> "lead_assigned", status |-> "lead_status_changed"]

EventName == {"lead_created", "lead_status_changed", "lead_assigned"}
AuditAction == EventName \cup {"lead_updated", "activity_logged"}

\* Does the handler go on to emit an event? The status it compares with is the
\* one it read before anything else.
Emits(q) ==
  CASE q.op = "activity" -> FALSE
    [] q.op = "update" -> q.args.status # UNSET /\ q.args.status # q.local.seen
    [] q.op = "status" -> q.args.status # q.local.seen
    [] OTHER -> TRUE

\* A slip: the audit row is only written when an event follows.
AuditWithEventOnly(r) ==
  LET q == req[r] IN
  /\ At(r, "audit")
  /\ audit' = IF Emits(q)
              THEN audit \cup {[req |-> r, action |-> ActionName[q.op], lead |-> q.lead]}
              ELSE audit
  /\ IF Emits(q) THEN Goto(r, "emit") ELSE Finish(r)
  /\ UNCHANGED <<leads, evidence, sources, events, members, failed, overtaken>>

\* AuditService.logEvent; its failure is a Fault of the request.
WriteAudit(r) ==
  LET q == req[r] IN
  /\ At(r, "audit")
  /\ audit' = audit \cup {[req |-> r, action |-> ActionName[q.op], lead |-> q.lead]}
  /\ IF Emits(q) THEN Goto(r, "emit") ELSE Finish(r)
  /\ UNCHANGED <<leads, evidence, sources, events, members, failed, overtaken>>

\* EventLogService.emit: the row is inserted, or the failure is swallowed and
\* the request goes on as if it had been.
Emit(r, type) ==
  \/ events' = events \cup {[req |-> r, type |-> type, lead |-> req[r].lead]}
  \/ Faults /\ UNCHANGED events

EmitEvent(r) ==
  LET q == req[r] IN
  /\ At(r, "emit")
  /\ Emit(r, EventType[q.op])
  /\ IF q.op = "create" /\ q.local.assigned # NULL
     THEN Goto(r, "emitAssigned") ELSE Finish(r)
  /\ UNCHANGED <<leads, evidence, sources, audit, members, failed, overtaken>>

\* createLead emits a second event for a lead that is born assigned.
EmitAssigned(r) ==
  /\ At(r, "emitAssigned")
  /\ Emit(r, "lead_assigned")
  /\ Finish(r)
  /\ UNCHANGED <<leads, evidence, sources, audit, members, failed, overtaken>>

-----------------------------------------------------------------------------
\* A query fails or the process stops: the handler goes no further, and what
\* it has written stays written.
Fault(r) ==
  /\ Faults
  /\ InFlight(r)
  /\ Throw(r)

\* TeamService.setRole and deactivateMembership, for requests under way a
\* change behind their back.
SetRole(u, newRole) ==
  /\ u \in Member /\ role[u] # newRole
  /\ role' = [role EXCEPT ![u] = newRole]
  /\ UNCHANGED <<tables, active, req, failed, overtaken>>

DeactivateMembership(u) ==
  /\ u \in active
  /\ active' = active \ {u}
  /\ UNCHANGED <<tables, role, req, failed, overtaken>>

Start(r) ==
  StartCreate(r) \/ StartUpdate(r) \/ StartAssign(r) \/ StartStatus(r)
    \/ StartActivity(r) \/ StartRescore(r)

Write(r) ==
  CreateLead(r) \/ UpdateLead(r) \/ AssignLead(r) \/ UpdateStatus(r) \/ CreateActivity(r)

\* A handler that has been resumed.
Step(r) ==
  EnsureLeadExists(r) \/ ResolveSource(r) \/ ValidateAssignee(r) \/ Write(r)
    \/ ReadLead(r) \/ CountEvidence(r) \/ PersistScore(r) \/ ReadSummary(r)
    \/ WriteAudit(r) \/ EmitEvent(r) \/ EmitAssigned(r)

Next ==
  \/ \E r \in Request : Start(r) \/ Step(r) \/ Fault(r)
  \/ \E u \in Member, newRole \in NewRole : SetRole(u, newRole)
  \/ \E u \in Leaver : DeactivateMembership(u)

\* The event loop comes back to every handler whose query has been answered;
\* nobody has to send a request.
Spec == Init /\ [][Next]_vars /\ \A r \in Request : WF_vars(Step(r))

-----------------------------------------------------------------------------
\* The state of a request: its operation, its arguments and what it has read.
Args == [status : LeadStatus \cup {UNSET}, assignee : User \cup {UNSET},
         source : Source \cup {UNSET}, contact : ContactPatch,
         age : Int \cup {UNSET}, isCall : BOOLEAN]
Local == [seen : LeadStatus \cup {NULL}, row : ScoredLead \cup {NULL},
          score : MIN_LEAD_SCORE .. MAX_LEAD_SCORE, outdated : BOOLEAN,
          assigned : User \cup {NULL}]
RequestState ==
  [pc : PC, op : AllOps \cup {NULL}, actor : User \cup {NULL}, role : Role \cup {NULL},
   lead : Lead \cup {NULL}, args : Args, local : Local]

\* Every table and every request is what its columns and fields say.
TypeOK ==
  /\ leads \in [Lead -> Row \cup {NULL}]
  /\ evidence \in [Lead -> Evidence]
  /\ sources \subseteq Source
  /\ audit \subseteq [req : Request, action : AuditAction, lead : Lead]
  /\ events \subseteq [req : Request, type : EventName, lead : Lead]
  /\ active \subseteq Member
  /\ role \in [User -> Role]
  /\ req \in [Request -> RequestState]
  /\ failed \subseteq Request
  /\ overtaken \subseteq Lead

\* Did request r mark lead l as sold on behalf of u, with a role that may?
SoldBy(r, l, u) ==
  /\ Wrote(r)
  /\ req[r].op = "status" /\ req[r].args.status = "SOLD"
  /\ req[r].lead = l /\ req[r].actor = u
  /\ req[r].role \in SOLD_ALLOWED_ROLES

\* updateStatus: the date and the author of a sale are set and cleared
\* together under every interleaving, and who is recorded as the seller did
\* mark the lead as sold, as an admin or a manager at the time of asking.
SoldStampEarned ==
  \A l \in Lead : leads[l] # NULL =>
    /\ leads[l].soldAt <=> leads[l].soldBy # NULL
    /\ leads[l].soldBy # NULL => \E r \in Request : SoldBy(r, l, leads[l].soldBy)

\* createLead, updateLead, assignLead: whichever of the three routes a lead
\* was assigned by, it is never in the hands of a user of another dealership.
AssignedInsideDealership ==
  \A l \in Lead : leads[l] # NULL => leads[l].assignee \in Member \cup {NULL}

\* Has r changed l without having rescored it (yet, or ever, if it failed)?
OwesScore(r, l) == req[r].lead = l /\ Wrote(r) /\ ~Scored(r)

\* recalculateAndPersist: a stored score is the score of the stored row,
\* unless a request that changed the lead has not rescored it, or the last
\* score stored was overtaken by a write while it was worked out.
ScoreSettles ==
  \A l \in Lead : leads[l] # NULL =>
    \/ leads[l].score = ScoreOf(l)
    \/ \E r \in Request : OwesScore(r, l)
    \/ l \in overtaken

\* logEvent is awaited and its failure is the request's: a change that was
\* acknowledged is in the audit log, whether or not an event was emitted.
AcknowledgedIsAudited ==
  \A r \in Request : req[r].pc = "end" /\ req[r].op # "rescore" =>
    \E a \in audit : a.req = r /\ a.lead = req[r].lead /\ a.action = ActionName[req[r].op]

\* Reports count events: every event is about a change that the audit log has
\* too, made to the same lead by the same request.
EventsAudited ==
  \A e \in events : \E a \in audit : a.req = e.req /\ a.lead = e.lead

-----------------------------------------------------------------------------
\* The columns a dealership works with, for the refinement. A lead that is not
\* there differs from any that is.
ASSUME LedgerAssumption ==
  NULL \notin [status : LeadStatus, assignee : User \cup {NULL},
               soldAt : BOOLEAN, soldBy : User \cup {NULL}]

Ledger == INSTANCE LeadLedger WITH
  ledger <- [l \in Lead |->
               IF leads[l] = NULL THEN NULL
               ELSE [status |-> leads[l].status, assignee |-> leads[l].assignee,
                     soldAt |-> leads[l].soldAt, soldBy |-> leads[l].soldBy]]

\* Every handler, with all its awaits, looks like one atomic change of the
\* ledger: no interleaving shows half of it, and no step but its write is seen.
ImplementsLedger == Ledger!Spec

\* leads.service.ts:369, "Only admin/manager can mark a lead as sold".
OnlyManagementSells ==
  \A l \in Lead : leads[l] # NULL /\ leads[l].status = "SOLD" =>
    \E r \in Request : /\ Wrote(r) /\ req[r].lead = l /\ req[r].args.status = "SOLD"
                       /\ req[r].role \in SOLD_ALLOWED_ROLES
=============================================================================

---------------------------- MODULE Appointments ----------------------------
(***************************************************************************)
(* The appointments of one dealership under concurrent requests, and the   *)
(* scores of the leads they are linked to (AppointmentsService).           *)
(*                                                                         *)
(* As in Leads, a handler has one action per round trip and keeps what it  *)
(* has read in its request record. Confirming, canceling and moving an     *)
(* appointment are decided with the row that was read first and written    *)
(* without looking again. The instant at which a score is worked out, Now, *)
(* does not move.                                                          *)
(***************************************************************************)
EXTENDS LeadScoring

CONSTANTS
  Appointment,        \* identifiers of appointments
  Lead,               \* the leads of the dealership
  Request,            \* requests, each of which is made at most once
  NULL,               \* a null column
  UNSET,              \* a property the payload does not have (undefined)
  Ops,                \* the operations that are requested
  StatusArg, StartArg, EndArg, LeadArg,
                      \* the payloads, UNSET and leads of other dealerships
                      \* among them
  Now,                \* the instant at which upcoming appointments are counted
  InitialAppointment, \* the rows an appointment may have at the start, or NULL
  Faults              \* may a request be cut short by a fault?

AppointmentStatus == {"SET", "CONFIRMED", "SHOWED", "NO_SHOW", "CANCELED"}
AllOps == {"create", "update", "confirm", "cancel"}

AppointmentRow == [status : AppointmentStatus, start_at : Int, end_at : Int,
                   lead_id : Lead \cup {NULL}]

ASSUME AppointmentsAssumption ==
  /\ NULL \notin Lead \cup Appointment \cup AppointmentRow
  /\ UNSET \notin AppointmentStatus \cup Int \cup {NULL} /\ UNSET \notin Lead
  /\ Ops \subseteq AllOps
  /\ StatusArg \subseteq AppointmentStatus \cup {UNSET}
  /\ StartArg \subseteq Int \cup {UNSET} /\ EndArg \subseteq Int \cup {UNSET}
  /\ Now \in Int
  /\ \A row \in InitialAppointment \ {NULL} :
        row \in AppointmentRow /\ row.status = "SET" /\ row.start_at < row.end_at
  /\ Faults \in BOOLEAN

VARIABLES
  appts,      \* the Appointment table
  leads,      \* of the Lead table: when the lead was last active, its score
  audit,      \* the AuditLog table
  events,     \* the EventLog table
  req,        \* the requests
  failed,     \* the requests that were answered with an error or lost
  raced,      \* history: appointments of which two requests each moved one end
  neglected,  \* history: leads whose stored score nobody is about to correct
  lost        \* history: requests whose event was not stored

logs == <<audit, events>>
history == <<raced, neglected, lost>>
vars == <<appts, leads, logs, req, failed, history>>

-----------------------------------------------------------------------------
Given(arg, old) == IF arg = UNSET THEN old ELSE arg

\* What the appointments that are linked to a lead amount to for its score.
Linked(l) == {a \in Appointment : appts[a] # NULL /\ appts[a].lead_id = l}
EvidenceOf(l) ==
  [outbound |-> 0, inbound |-> FALSE, calls |-> 0,
   showed |-> \E a \in Linked(l) : appts[a].status = "SHOWED",
   upcoming |-> \E a \in Linked(l) : /\ appts[a].status \in {"SET", "CONFIRMED"}
                                     /\ appts[a].start_at > Now,
   noShow |-> \E a \in Linked(l) : appts[a].status = "NO_SHOW"]

\* A new lead of which only the e-mail address is known.
LeadRow(age) ==
  [status |-> "NEW", soldAt |-> FALSE, age |-> age,
   contact |-> [phone |-> FALSE, email |-> TRUE, first |-> FALSE, last |-> FALSE,
                vehicle |-> FALSE]]

ScoreOf(l) == Score(LeadRow(leads[l].age), EvidenceOf(l))

PC == {"idle", "find", "lead", "write", "audit", "emit", "touch", "read", "count",
       "persist", "summary", "end"}

NoArgs == [status |-> UNSET, start_at |-> UNSET, end_at |-> UNSET, lead_id |-> UNSET]
Payload == [status : StatusArg, start_at : StartArg, end_at : EndArg, lead_id : LeadArg]

\* The handler's local variables: the row it read, the row it wrote, the row
\* of the lead and its score, and whether that score has been overtaken.
Blank == [seen |-> NULL, row |-> NULL, age |-> NoActivity, score |-> 0,
          outdated |-> FALSE]

Idle == [pc |-> "idle", op |-> NULL, appt |-> NULL, args |-> NoArgs, local |-> Blank]

At(r, pc) == req[r].pc = pc /\ r \notin failed
InFlight(r) == req[r].pc \notin {"idle", "end"} /\ r \notin failed
Wrote(r) == req[r].local.row # NULL

Resume(r, local, pc) == req' = [req EXCEPT ![r] = [@ EXCEPT !.local = local, !.pc = pc]]
Goto(r, pc) == req' = [req EXCEPT ![r].pc = pc]

\* The handler throws, and the request is answered with an error.
Throw(r) ==
  /\ failed' = failed \cup {r}
  /\ UNCHANGED <<appts, leads, logs, req, history>>

Init ==
  /\ appts \in [Appointment -> InitialAppointment]
  /\ leads = [l \in Lead |-> [age |-> NoActivity,
                              score |-> Score(LeadRow(NoActivity), EvidenceOf(l))]]
  /\ audit = {} /\ events = {}
  /\ req = [r \in Request |-> Idle]
  /\ failed = {} /\ raced = {} /\ neglected = {} /\ lost = {}

-----------------------------------------------------------------------------
\* A request is let in by the guards; the body is validated by its DTO, which
\* asks for both ends of a new appointment.
Begin(r, op, a, pc, args) ==
  /\ op \in Ops
  /\ At(r, "idle")
  /\ req' = [req EXCEPT ![r] = [pc |-> pc, op |-> op, appt |-> a, args |-> args,
                               local |-> Blank]]
  /\ UNCHANGED <<appts, leads, logs, failed, history>>

StartCreate(r) ==
  \E args \in Payload :
    /\ args.start_at # UNSET /\ args.end_at # UNSET
    /\ Begin(r, "create", NULL, "lead", args)

StartUpdate(r) ==
  \E a \in Appointment, args \in Payload : Begin(r, "update", a, "find", args)

StartConfirm(r) == \E a \in Appointment : Begin(r, "confirm", a, "find", NoArgs)
StartCancel(r) == \E a \in Appointment : Begin(r, "cancel", a, "find", NoArgs)

-----------------------------------------------------------------------------
\* A slip: a window that is empty is let through.
IsWindowOrEmpty(args, row) ==
  Given(args.start_at, row.start_at) =< Given(args.end_at, row.end_at)

\* validateTimeWindow, on the ends that are given and those of the row read.
IsWindow(args, row) ==
  Given(args.start_at, row.start_at) < Given(args.end_at, row.end_at)

\* A slip: canceling is never refused.
RefusesConfirm(op, row) == op = "confirm" /\ row.status = "CANCELED"

\* Confirming what is canceled and canceling what is over are refused; doing
\* again what was done is answered at once.
Refuses(op, row) ==
  \/ op = "confirm" /\ row.status = "CANCELED"
  \/ op = "cancel" /\ row.status \in {"SHOWED", "NO_SHOW"}

IsDone(op, row) ==
  \/ op = "confirm" /\ row.status = "CONFIRMED"
  \/ op = "cancel" /\ row.status = "CANCELED"

\* findAppointmentById and the checks that follow it without an await.
FindAppointment(r) ==
  LET q == req[r]  row == appts[q.appt] IN
  /\ At(r, "find")
  /\ IF \/ row = NULL
        \/ Refuses(q.op, row)
        \/ q.op = "update" /\ q.args.lead_id = UNSET /\ ~IsWindow(q.args, row)
     THEN Throw(r)
     ELSE /\ Resume(r, [q.local EXCEPT !.seen = row],
                    CASE IsDone(q.op, row) -> "end"
                      [] q.op = "update" /\ q.args.lead_id # UNSET -> "lead"
                      [] OTHER -> "write")
          /\ UNCHANGED <<appts, leads, logs, failed, history>>

\* validateLead, and the window after it.
ValidateLead(r) ==
  /\ At(r, "lead")
  /\ IF /\ req[r].args.lead_id \in Lead \cup {UNSET}
        /\ IsWindow(req[r].args, req[r].local.seen)
     THEN Goto(r, "write") /\ UNCHANGED <<appts, leads, logs, failed, history>>
     ELSE Throw(r)

-----------------------------------------------------------------------------
(***************************************************************************)
(* The write of each handler: row becomes the row of a, and what is done   *)
(* afterwards is done with the row that the write returned. The lead that  *)
(* loses the appointment is not looked at again. A score that another      *)
(* request has worked out for either lead, and not stored yet, is overtaken*)
(* by the write.                                                           *)
(***************************************************************************)
LeadsOf(a, row) ==
  {row.lead_id} \cup (IF appts[a] = NULL THEN {} ELSE {appts[a].lead_id})

\* Does q give one end of the window of a, when the other has been moved since q
\* read it?
MovesOneEnd(q, a) ==
  \/ q.args.start_at # UNSET /\ q.args.end_at = UNSET /\ q.local.seen.end_at # appts[a].end_at
  \/ q.args.end_at # UNSET /\ q.args.start_at = UNSET /\ q.local.seen.start_at # appts[a].start_at

SameWindow(a, row) ==
  appts[a] # NULL /\ row.start_at = appts[a].start_at /\ row.end_at = appts[a].end_at

Overtakes(q, a, row) == q.pc = "persist" /\ q.local.row.lead_id \in LeadsOf(a, row)

Write(r, a, row) ==
  /\ appts' = [appts EXCEPT ![a] = row]
  /\ req' = [q \in Request |->
               IF q = r
               THEN [req[r] EXCEPT !.appt = a, !.pc = "audit", !.local.row = row]
               ELSE [req[q] EXCEPT !.local.outdated = @ \/ Overtakes(req[q], a, row)]]
  /\ raced' = IF MovesOneEnd(req[r], a) THEN raced \cup {a}
                ELSE IF SameWindow(a, row) THEN raced ELSE raced \ {a}
  /\ neglected' = neglected \cup (LeadsOf(a, row) \ {row.lead_id, NULL})
  /\ UNCHANGED <<leads, logs, failed, lost>>

CreateAppointment(r) ==
  LET args == req[r].args IN
  /\ At(r, "write") /\ req[r].op = "create"
  /\ \E a \in Appointment :
        /\ appts[a] = NULL
        /\ Write(r, a, [status |-> Given(args.status, "SET"), start_at |-> args.start_at,
                        end_at |-> args.end_at, lead_id |-> Given(args.lead_id, NULL)])

UpdateAppointment(r) ==
  LET q == req[r]  old == appts[q.appt] IN
  /\ At(r, "write") /\ q.op = "update"
  /\ Write(r, q.appt, [status |-> Given(q.args.status, old.status),
                       start_at |-> Given(q.args.start_at, old.start_at),
                       end_at |-> Given(q.args.end_at, old.end_at),
                       lead_id |-> Given(q.args.lead_id, old.lead_id)])

ConfirmAppointment(r) ==
  LET q == req[r] IN
  /\ At(r, "write") /\ q.op = "confirm"
  /\ Write(r, q.appt, [appts[q.appt] EXCEPT !.status = "CONFIRMED"])

CancelAppointment(r) ==
  LET q == req[r] IN
  /\ At(r, "write") /\ q.op = "cancel"
  /\ Write(r, q.appt, [appts[q.appt] EXCEPT !.status = "CANCELED"])

-----------------------------------------------------------------------------
ActionName == [create |-> "appointment_created", update |-> "appointment_updated",
               confirm |-> "appointment_confirmed", cancel |-> "appointment_canceled"]

EventName(op) ==
  IF op = "create" THEN "appointment_created" ELSE "appointment_status_changed"

\* A slip: only the outcomes of the two buttons are told.
TellsButtons(q) ==
  q.op = "update" => q.local.row.status \in {"CONFIRMED", "CANCELED"}

\* An update tells of any status but SET, whether or not it has changed it.
Tells(q) ==
  q.op = "update" => q.local.row.status \in {"CONFIRMED", "CANCELED", "SHOWED", "NO_SHOW"}

\* A slip: the score is refreshed by those who create and update only.
AfterLogsNoButtons(q) ==
  IF q.local.row.lead_id = NULL \/ q.op \in {"confirm", "cancel"} THEN "end" ELSE "touch"

\* refreshLeadScoreIfLinked, for the lead that is linked now.
AfterLogs(q) == IF q.local.row.lead_id = NULL THEN "end" ELSE "touch"

WriteAudit(r) ==
  LET q == req[r] IN
  /\ At(r, "audit")
  /\ audit' = audit \cup {[req |-> r, action |-> ActionName[q.op], appt |-> q.appt]}
  /\ Goto(r, IF Tells(q) THEN "emit" ELSE AfterLogs(q))
  /\ UNCHANGED <<appts, leads, events, failed, history>>

\* The event is stored, or its failure is swallowed.
EmitEvent(r) ==
  LET q == req[r] IN
  /\ At(r, "emit")
  /\ \/ /\ events' = events \cup {[req |-> r, type |-> EventName(q.op), appt |-> q.appt,
                                   status |-> q.local.row.status]}
        /\ UNCHANGED lost
     \/ Faults /\ lost' = lost \cup {r} /\ UNCHANGED events
  /\ Goto(r, AfterLogs(q))
  /\ UNCHANGED <<appts, leads, audit, failed, raced, neglected>>

TouchLead(r) ==
  /\ At(r, "touch")
  /\ leads' = [leads EXCEPT ![req[r].local.row.lead_id].age = 0]
  /\ Goto(r, "read")
  /\ UNCHANGED <<appts, logs, failed, history>>

ReadLead(r) ==
  LET q == req[r] IN
  /\ At(r, "read")
  /\ Resume(r, [q.local EXCEPT !.age = leads[q.local.row.lead_id].age], "count")
  /\ UNCHANGED <<appts, leads, logs, failed, history>>

CountEvidence(r) ==
  LET q == req[r]  score == Score(LeadRow(q.local.age), EvidenceOf(q.local.row.lead_id)) IN
  /\ At(r, "count")
  /\ Resume(r, [q.local EXCEPT !.score = score, !.outdated = FALSE], "persist")
  /\ UNCHANGED <<appts, leads, logs, failed, history>>

PersistScore(r) ==
  LET q == req[r]  l == q.local.row.lead_id IN
  /\ At(r, "persist")
  /\ leads' = [leads EXCEPT ![l].score = q.local.score]
  /\ neglected' = IF q.local.outdated THEN neglected \cup {l} ELSE neglected \ {l}
  /\ Goto(r, "summary")
  /\ UNCHANGED <<appts, logs, failed, raced, lost>>

\* getLeadSummaryOrThrow, for the answer.
ReadSummary(r) ==
  /\ At(r, "summary")
  /\ Goto(r, "end")
  /\ UNCHANGED <<appts, leads, logs, failed, history>>

\* A query fails or the process stops.
Fault(r) ==
  /\ Faults
  /\ InFlight(r)
  /\ Throw(r)

Start(r) == StartCreate(r) \/ StartUpdate(r) \/ StartConfirm(r) \/ StartCancel(r)

Step(r) ==
  \/ FindAppointment(r) \/ ValidateLead(r)
  \/ CreateAppointment(r) \/ UpdateAppointment(r)
  \/ ConfirmAppointment(r) \/ CancelAppointment(r)
  \/ WriteAudit(r) \/ EmitEvent(r) \/ TouchLead(r) \/ ReadLead(r) \/ CountEvidence(r)
  \/ PersistScore(r) \/ ReadSummary(r)

Next == \E r \in Request : Start(r) \/ Step(r) \/ Fault(r)

\* The event loop comes back to every handler whose query has been answered.
Spec == Init /\ [][Next]_vars /\ \A r \in Request : WF_vars(Step(r))

-----------------------------------------------------------------------------
Args == [status : AppointmentStatus \cup {UNSET}, start_at : Int \cup {UNSET},
         end_at : Int \cup {UNSET}, lead_id : LeadArg \cup {UNSET}]
Local == [seen : AppointmentRow \cup {NULL}, row : AppointmentRow \cup {NULL},
          age : Int \cup {NoActivity}, score : MIN_LEAD_SCORE .. MAX_LEAD_SCORE,
          outdated : BOOLEAN]
RequestState == [pc : PC, op : AllOps \cup {NULL}, appt : Appointment \cup {NULL},
                 args : Args, local : Local]

AuditAction == {"appointment_created", "appointment_updated", "appointment_confirmed",
                "appointment_canceled"}
EventType == {"appointment_created", "appointment_status_changed"}

\* Every table and every request is what its columns and fields say; in
\* particular no appointment is linked to a lead of another dealership.
TypeOK ==
  /\ appts \in [Appointment -> AppointmentRow \cup {NULL}]
  /\ leads \in [Lead -> [age : Int \cup {NoActivity},
                         score : MIN_LEAD_SCORE .. MAX_LEAD_SCORE]]
  /\ audit \subseteq [req : Request, action : AuditAction, appt : Appointment]
  /\ events \subseteq [req : Request, type : EventType, appt : Appointment,
                       status : AppointmentStatus]
  /\ req \in [Request -> RequestState]
  /\ failed \subseteq Request
  /\ raced \subseteq Appointment /\ neglected \subseteq Lead /\ lost \subseteq Request

IsInterval(a) == appts[a].start_at < appts[a].end_at

\* validateTimeWindow: the window of an appointment is an interval, unless a
\* request that moved one end of it overlapped one that had moved the other, and
\* nobody has set the window since.
WindowUnlessRaced ==
  \A a \in Appointment : appts[a] # NULL /\ a \notin raced => IsInterval(a)

\* Is r still to bring the score of l up to date, or was it cut short?
OwesScore(r, l) ==
  Wrote(r) /\ req[r].local.row.lead_id = l /\ req[r].pc \notin {"summary", "end"}

\* refreshLeadScoreIfLinked: a lead's stored score is the score of the
\* appointments linked to it, unless a request that changed one of them is not
\* done with it, an appointment was moved from the lead to another one, or the
\* last score stored was overtaken.
ScoreFollowsAppointments ==
  \A l \in Lead : \/ leads[l].score = ScoreOf(l)
                  \/ l \in neglected
                  \/ \E r \in Request : OwesScore(r, l)

\* Has r given a the status s without telling the log (yet, or ever)?
OwesEvent(r, a, s) ==
  /\ Wrote(r) /\ req[r].appt = a /\ req[r].local.row.status = s
  /\ req[r].pc \in {"audit", "emit"} \/ r \in lost

\* Reports see appointments through the event log alone: every status in the
\* table but SET is in the log too, or it was written by a request that was cut
\* short, or whose event was lost, or that has yet to tell.
StatusIsTold ==
  \A a \in Appointment : appts[a] # NULL =>
    LET s == appts[a].status IN
    \/ s = "SET"
    \/ \E e \in events : e.appt = a /\ e.status = s
    \/ \E r \in Request : OwesEvent(r, a, s)

\* r updates a, and the caller has named the status.
NamesStatus(r, a) ==
  UpdateAppointment(r) /\ req[r].appt = a /\ req[r].args.status # UNSET

\* r confirms or cancels a, and its status has changed since r read it.
Misjudges(r, a) ==
  /\ ConfirmAppointment(r) \/ CancelAppointment(r)
  /\ req[r].appt = a /\ req[r].local.seen.status # appts[a].status

\* confirmAppointment, cancelAppointment: what is canceled is not revived and
\* what is over is not canceled, except by somebody who read another status;
\* only an update that names the status may.
OutcomeStands ==
  [][\A a \in Appointment : appts[a] # NULL =>
       \/ \E r \in Request : NamesStatus(r, a) \/ Misjudges(r, a)
       \/ /\ appts[a].status = "CANCELED" => appts'[a].status = "CANCELED"
          /\ appts[a].status \in {"SHOWED", "NO_SHOW"} => appts'[a].status # "CANCELED"]_vars
=============================================================================

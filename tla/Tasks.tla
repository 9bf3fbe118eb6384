-------------------------------- MODULE Tasks --------------------------------
(***************************************************************************)
(* The tasks of one dealership under concurrent requests (TasksService).   *)
(* One action per round trip; the audit row and the event of a handler are *)
(* written after its row, and a fault may come before either.              *)
(***************************************************************************)
EXTENDS Integers

CONSTANTS
  Task,          \* identifiers of tasks
  User,          \* all users
  Enrolled,      \* the users with a membership here, active or ended
  Lead,          \* the leads of the dealership
  Date,          \* due dates
  Request,       \* requests, each of which is made at most once
  NULL,          \* a null column
  UNSET,         \* a property the payload does not have (undefined)
  Ops,           \* the operations that are requested
  StatusArg, DateArg, AssigneeArg, LeadArg,
                 \* the payloads, UNSET among them, and users and leads of
                 \* other dealerships
  InitialTask,   \* the rows a task may have at the start, or NULL
  Faults         \* may a request be cut short by a fault?

TaskStatus == {"OPEN", "DONE", "SNOOZED", "CANCELED"}
AllOps == {"create", "update", "complete", "snooze"}

TaskRow == [status : TaskStatus, dueAt : Date \cup {NULL},
            assignee : Enrolled \cup {NULL}, lead : Lead \cup {NULL}]

ASSUME TasksAssumption ==
  /\ Enrolled \subseteq User
  /\ NULL \notin Task \cup User \cup Lead \cup Date \cup TaskRow
  /\ UNSET \notin TaskStatus \cup Date \cup User \cup Lead \cup {NULL}
  /\ Ops \subseteq AllOps
  /\ StatusArg \subseteq TaskStatus \cup {UNSET}
  /\ DateArg \subseteq Date \cup {UNSET}
  /\ AssigneeArg \subseteq User \cup {UNSET}
  /\ InitialTask \subseteq [status : {"OPEN"}, dueAt : {NULL}, assignee : {NULL},
                            lead : {NULL}] \cup {NULL}
  /\ Faults \in BOOLEAN

VARIABLES
  tasks,    \* the Task table
  audit,    \* the AuditLog table
  events,   \* the EventLog table
  req,      \* the requests
  failed,   \* the requests that were answered with an error or lost
  raced     \* history: tasks written from a row that had changed

logs == <<audit, events>>
vars == <<tasks, logs, req, failed, raced>>

-----------------------------------------------------------------------------
Given(arg, old) == IF arg = UNSET THEN old ELSE arg

PC == {"idle", "find", "assignee", "lead", "write", "audit", "emit", "end"}

NoArgs == [status |-> UNSET, dueAt |-> UNSET, assignee |-> UNSET, lead |-> UNSET]
Payload == [status : StatusArg, dueAt : DateArg, assignee : AssigneeArg, lead : LeadArg]

Idle == [pc |-> "idle", op |-> NULL, task |-> NULL, args |-> NoArgs, seen |-> NULL]

At(r, pc) == req[r].pc = pc /\ r \notin failed
InFlight(r) == req[r].pc \notin {"idle", "end"} /\ r \notin failed
Goto(r, pc) == req' = [req EXCEPT ![r].pc = pc]

Throw(r) == failed' = failed \cup {r} /\ UNCHANGED <<tasks, logs, req, raced>>

Init ==
  /\ tasks \in [Task -> InitialTask]
  /\ audit = {} /\ events = {}
  /\ req = [r \in Request |-> Idle]
  /\ failed = {} /\ raced = {}

\* A request is let in by the guards. A new task is always open: its payload
\* has no status.
Begin(r, op, t, pc, args) ==
  /\ op \in Ops
  /\ At(r, "idle")
  /\ req' = [req EXCEPT ![r] = [pc |-> pc, op |-> op, task |-> t, args |-> args,
                               seen |-> NULL]]
  /\ UNCHANGED <<tasks, logs, failed, raced>>

StartCreate(r) ==
  \E args \in Payload : args.status = UNSET /\ Begin(r, "create", NULL, "assignee", args)

StartUpdate(r) == \E t \in Task, args \in Payload : Begin(r, "update", t, "find", args)

StartComplete(r) == \E t \in Task : Begin(r, "complete", t, "find", NoArgs)

StartSnooze(r) ==
  \E t \in Task, d \in DateArg \ {UNSET} :
    Begin(r, "snooze", t, "find", [NoArgs EXCEPT !.dueAt = d])

-----------------------------------------------------------------------------
\* A slip: only canceled tasks are closed.
RefusesCanceled(op, row) == op \in {"complete", "snooze"} /\ row.status = "CANCELED"

\* Only a task that is not canceled is completed, only an active one snoozed.
Refuses(op, row) ==
  \/ op = "complete" /\ row.status = "CANCELED"
  \/ op = "snooze" /\ row.status \in {"DONE", "CANCELED"}

\* findTaskById and ensureTaskExists, and the checks that follow without an
\* await; completing again is answered at once.
FindTask(r) ==
  LET q == req[r]  row == tasks[q.task] IN
  /\ At(r, "find")
  /\ IF row = NULL \/ Refuses(q.op, row) THEN Throw(r)
     ELSE /\ req' = [req EXCEPT ![r] = [@ EXCEPT !.seen = row, !.pc =
                       CASE q.op = "complete" /\ row.status = "DONE" -> "end"
                         [] q.op = "update" -> "assignee"
                         [] OTHER -> "write"]]
          /\ UNCHANGED <<tasks, logs, failed, raced>>

\* validateAssignee: a membership will do, even one that has ended.
ValidateAssignee(r) ==
  /\ At(r, "assignee")
  /\ IF req[r].args.assignee \in Enrolled \cup {UNSET}
     THEN Goto(r, "lead") /\ UNCHANGED <<tasks, logs, failed, raced>>
     ELSE Throw(r)

ValidateLead(r) ==
  /\ At(r, "lead")
  /\ IF req[r].args.lead \in Lead \cup {UNSET}
     THEN Goto(r, "write") /\ UNCHANGED <<tasks, logs, failed, raced>>
     ELSE Throw(r)

-----------------------------------------------------------------------------
Write(r, t, row) ==
  /\ tasks' = [tasks EXCEPT ![t] = row]
  /\ req' = [req EXCEPT ![r] = [@ EXCEPT !.task = t, !.pc = "audit"]]
  /\ raced' = IF req[r].seen = tasks[t] THEN raced ELSE raced \cup {t}
  /\ UNCHANGED <<logs, failed>>

CreateTask(r) ==
  LET args == req[r].args IN
  /\ At(r, "write") /\ req[r].op = "create"
  /\ \E t \in Task :
        /\ tasks[t] = NULL
        /\ Write(r, t, [status |-> "OPEN", dueAt |-> Given(args.dueAt, NULL),
                        assignee |-> Given(args.assignee, NULL),
                        lead |-> Given(args.lead, NULL)])

UpdateTask(r) ==
  LET q == req[r]  old == tasks[q.task] IN
  /\ At(r, "write") /\ q.op = "update"
  /\ Write(r, q.task, [status |-> Given(q.args.status, old.status),
                       dueAt |-> Given(q.args.dueAt, old.dueAt),
                       assignee |-> Given(q.args.assignee, old.assignee),
                       lead |-> Given(q.args.lead, old.lead)])

CompleteTask(r) ==
  LET q == req[r] IN
  /\ At(r, "write") /\ q.op = "complete"
  /\ Write(r, q.task, [tasks[q.task] EXCEPT !.status = "DONE"])

SnoozeTask(r) ==
  LET q == req[r] IN
  /\ At(r, "write") /\ q.op = "snooze"
  /\ Write(r, q.task, [tasks[q.task] EXCEPT !.status = "SNOOZED", !.dueAt = q.args.dueAt])

ActionName == [create |-> "task_created", update |-> "task_updated",
               complete |-> "task_completed", snooze |-> "task_snoozed"]

\* A slip: the event is emitted first and the audit row written after it.
EmitThenAudit(r) ==
  LET q == req[r] IN
  /\ At(r, "audit")
  /\ events' = IF q.op \in {"create", "complete"}
               THEN events \cup {[req |-> r, type |-> ActionName[q.op], task |-> q.task]}
               ELSE events
  /\ Goto(r, "emit")
  /\ UNCHANGED <<tasks, audit, failed, raced>>

WriteAudit(r) ==
  LET q == req[r] IN
  /\ At(r, "audit")
  /\ audit' = audit \cup {[req |-> r, action |-> ActionName[q.op], task |-> q.task]}
  /\ Goto(r, IF q.op \in {"create", "complete"} THEN "emit" ELSE "end")
  /\ UNCHANGED <<tasks, events, failed, raced>>

\* The event is stored, or its failure is swallowed.
EmitEvent(r) ==
  LET q == req[r] IN
  /\ At(r, "emit")
  /\ \/ events' = events \cup {[req |-> r, type |-> ActionName[q.op], task |-> q.task]}
     \/ Faults /\ UNCHANGED events
  /\ Goto(r, "end")
  /\ UNCHANGED <<tasks, audit, failed, raced>>

Fault(r) ==
  /\ Faults
  /\ InFlight(r)
  /\ Throw(r)

Start(r) == StartCreate(r) \/ StartUpdate(r) \/ StartComplete(r) \/ StartSnooze(r)

Step(r) ==
  \/ FindTask(r) \/ ValidateAssignee(r) \/ ValidateLead(r)
  \/ CreateTask(r) \/ UpdateTask(r) \/ CompleteTask(r) \/ SnoozeTask(r)
  \/ WriteAudit(r) \/ EmitEvent(r)

Next == \E r \in Request : Start(r) \/ Step(r) \/ Fault(r)

\* The event loop comes back to every handler whose query has been answered.
Spec == Init /\ [][Next]_vars /\ \A r \in Request : WF_vars(Step(r))

-----------------------------------------------------------------------------
EventName == {"task_created", "task_completed"}
AuditAction == EventName \cup {"task_updated", "task_snoozed"}

\* Every table and every request is what its columns and fields say; in
\* particular no task is given to or about somebody of another dealership.
TypeOK ==
  /\ tasks \in [Task -> TaskRow \cup {NULL}]
  /\ audit \subseteq [req : Request, action : AuditAction, task : Task]
  /\ events \subseteq [req : Request, type : EventName, task : Task]
  /\ req \in [Request ->
        [pc : PC, op : AllOps \cup {NULL}, task : Task \cup {NULL},
         args : [status : TaskStatus \cup {UNSET}, dueAt : Date \cup {UNSET},
                 assignee : User \cup {UNSET}, lead : LeadArg \cup {UNSET}],
         seen : TaskRow \cup {NULL}]]
  /\ failed \subseteq Request
  /\ raced \subseteq Task

\* r updates t, and the caller has named the status.
NamesStatus(r, t) == UpdateTask(r) /\ req[r].task = t /\ req[r].args.status # UNSET

\* completeTask, snoozeTask: what is done stays done and what is canceled stays
\* canceled, unless the request that undoes it overlapped with the one that
\* closed the task; only an update that names the status may.
ClosedUnlessRaced ==
  [][\A t \in Task : tasks[t] # NULL /\ t \notin raced' =>
       \/ \E r \in Request : NamesStatus(r, t)
       \/ tasks[t].status \in {"DONE", "CANCELED"} => tasks'[t].status = tasks[t].status]_vars

\* completeTask is told to the log only by a request that has told the audit
\* log of the same task: no completion is counted that nobody can look up.
CompletionAudited ==
  \A e \in events : \E a \in audit :
    a.req = e.req /\ a.task = e.task /\ a.action = e.type
=============================================================================

---------------------------- MODULE Tasks_proofs ----------------------------
(***************************************************************************)
(* Proofs about the tasks of a dealership, for any number of tasks, users, *)
(* leads and requests.                                                     *)
(***************************************************************************)
EXTENDS Tasks, TLAPS

Args == [status : TaskStatus \cup {UNSET}, dueAt : Date \cup {UNSET},
         assignee : User \cup {UNSET}, lead : LeadArg \cup {UNSET}]

RequestState == [pc : PC, op : AllOps \cup {NULL}, task : Task \cup {NULL},
                 args : Args, seen : TaskRow \cup {NULL}]

-----------------------------------------------------------------------------
(***************************************************************************)
(* Where a request is tells what it carries: what has been looked up is    *)
(* there, since tasks are never deleted; what has been checked still holds *)
(* of the payload, which never changes.                                    *)
(***************************************************************************)
\* A route has its own way through the handler.
Routed(q) ==
  /\ q.op \in AllOps
  /\ q.op = "create" => q.pc # "find"
  /\ q.op \in {"complete", "snooze"} => q.pc \notin {"assignee", "lead"}
  /\ q.pc = "emit" => q.op \in {"create", "complete"}
  /\ q.op = "snooze" => q.args.dueAt \in Date

\* The task of a request is in the table once it was found or written.
Found(q) ==
  /\ q.op # "create" \/ q.pc \in {"audit", "emit", "end"} => q.task \in Task
  /\ q.pc \in {"audit", "emit"} \/ (q.op # "create" /\ q.pc # "find") => tasks[q.task] # NULL

\* The payload has been checked.
Vetted(q) ==
  q.op \in {"create", "update"} =>
    /\ q.pc \in {"lead", "write"} => q.args.assignee \in Enrolled \cup {UNSET}
    /\ q.pc = "write" => q.args.lead \in Lead \cup {UNSET}

\* Who is to complete or to snooze has seen a row that is still open.
Decided(q) ==
  q.pc = "write" /\ q.op \in {"complete", "snooze"} =>
    q.seen # NULL /\ q.seen.status \notin {"DONE", "CANCELED"}

Located(r) ==
  LET q == req[r] IN
  q.pc # "idle" => Routed(q) /\ Found(q) /\ Vetted(q) /\ Decided(q)

TypeInv == TypeOK /\ \A r \in Request : Located(r)

-----------------------------------------------------------------------------
LEMMA NoArgsType == NoArgs \in Args
BY DEF NoArgs, Args

LEMMA PayloadType == Payload \subseteq Args
BY TasksAssumption DEF Payload, Args

LEMMA RequestType == TypeOK <=>
  /\ tasks \in [Task -> TaskRow \cup {NULL}]
  /\ audit \subseteq [req : Request, action : AuditAction, task : Task]
  /\ events \subseteq [req : Request, type : EventName, task : Task]
  /\ req \in [Request -> RequestState]
  /\ failed \subseteq Request
  /\ raced \subseteq Task
BY DEF TypeOK, RequestState, Args

\* A request that moves, while no task disappears, leaves the others located.
LEMMA OthersLocated ==
  ASSUME TypeInv, NEW r \in Request,
         NEW new \in RequestState, req' = [req EXCEPT ![r] = new],
         \A t \in Task : tasks[t] # NULL => tasks'[t] # NULL,
         NEW s \in Request, s # r
  PROVE  Located(s)'
<1>1. req'[s] = req[s]
  BY RequestType DEF TypeInv
<1>2. req[s].pc # "idle" => Found(req[s])'
  BY RequestType DEF TypeInv, Located, Found, RequestState
<1>. QED  BY <1>1, <1>2 DEF TypeInv, Located, Routed, Found, Vetted, Decided

LEMMA ThrowInv ==
  ASSUME TypeInv, NEW r \in Request, Throw(r)
  PROVE  TypeInv'
BY RequestType DEF TypeInv, TypeOK, Throw, logs, Located, Routed, Found, Vetted, Decided

LEMMA InitTypeInv == Init => TypeInv
<1>. SUFFICES ASSUME Init PROVE TypeInv
  OBVIOUS
<1>1. Idle \in RequestState
  BY NoArgsType DEF Idle, RequestState, PC
<1>2. tasks \in [Task -> TaskRow \cup {NULL}]
  BY TasksAssumption DEF Init, TaskRow, TaskStatus
<1>3. TypeOK
  BY <1>1, <1>2, RequestType DEF Init
<1>. QED  BY <1>3 DEF Init, TypeInv, Located, Idle

LEMMA BeginInv ==
  ASSUME TypeInv, NEW r \in Request, NEW op, NEW t \in Task \cup {NULL}, NEW pc \in PC,
         NEW args \in Args, Begin(r, op, t, pc, args),
         \/ op = "create" /\ pc = "assignee"
         \/ op \in {"update", "complete", "snooze"} /\ pc = "find" /\ t \in Task,
         op = "snooze" => args.dueAt \in Date
  PROVE  TypeInv'
<1>. DEFINE new == [pc |-> pc, op |-> op, task |-> t, args |-> args, seen |-> NULL]
<1>1. new \in RequestState
  BY DEF RequestState, AllOps
<1>2. req' = [req EXCEPT ![r] = new] /\ UNCHANGED tasks
  BY DEF Begin
<1>3. req'[r] = new
  BY <1>2, RequestType DEF TypeInv
<1>4. TypeOK'
  BY <1>1, <1>2 DEF TypeInv, TypeOK, RequestState, Args, Begin, logs
<1>5. Located(r)'
  BY <1>3 DEF Located, Routed, Found, Vetted, Decided, AllOps
<1>. HIDE DEF new
<1>. QED  BY <1>1, <1>2, <1>4, <1>5, OthersLocated DEF TypeInv

LEMMA StartInv ==
  ASSUME TypeInv, NEW r \in Request, Start(r)
  PROVE  TypeInv'
<1>1. CASE StartCreate(r)
  BY <1>1, BeginInv, PayloadType DEF StartCreate, PC
<1>2. CASE StartUpdate(r)
  BY <1>2, BeginInv, PayloadType DEF StartUpdate, PC
<1>3. CASE StartComplete(r)
  BY <1>3, BeginInv, NoArgsType DEF StartComplete, PC
<1>4. CASE StartSnooze(r)
  <2>1. PICK t \in Task, d \in DateArg \ {UNSET} :
          Begin(r, "snooze", t, "find", [NoArgs EXCEPT !.dueAt = d])
    BY <1>4 DEF StartSnooze
  <2>2. d \in Date /\ [NoArgs EXCEPT !.dueAt = d] \in Args
    BY TasksAssumption, NoArgsType DEF Args
  <2>3. [NoArgs EXCEPT !.dueAt = d].dueAt = d
    BY DEF NoArgs
  <2>. QED  BY <2>1, <2>2, <2>3, BeginInv DEF PC
<1>. QED  BY <1>1, <1>2, <1>3, <1>4 DEF Start

-----------------------------------------------------------------------------
LEMMA FindTaskInv ==
  ASSUME TypeInv, NEW r \in Request, FindTask(r)
  PROVE  TypeInv'
<1>. DEFINE q == req[r]
            row == tasks[q.task]
            pc == CASE q.op = "complete" /\ row.status = "DONE" -> "end"
                    [] q.op = "update" -> "assignee"
                    [] OTHER -> "write"
            new == [q EXCEPT !.seen = row, !.pc = pc]
<1>1. CASE row = NULL \/ Refuses(q.op, row)
  BY <1>1, ThrowInv DEF FindTask
<1>2. CASE ~(row = NULL \/ Refuses(q.op, row))
  <2>1. q \in RequestState /\ q.pc = "find" /\ q.op \in AllOps /\ q.task \in Task
    BY RequestType DEF TypeInv, FindTask, At, Located, Routed, Found
  <2>2. row \in TaskRow
    BY <1>2, <2>1, RequestType DEF TypeInv
  <2>3. new \in RequestState /\ new.pc = pc /\ new.seen = row /\ new.op = q.op
          /\ new.args = q.args /\ new.task = q.task
    BY <2>1, <2>2 DEF RequestState, PC
  <2>4. req' = [req EXCEPT ![r] = new] /\ UNCHANGED <<tasks, logs, failed, raced>>
    BY <1>2 DEF FindTask
  <2>5. req'[r] = new
    BY <2>4, RequestType DEF TypeInv
  <2>6. TypeOK'
    BY <2>3, <2>4 DEF TypeInv, TypeOK, RequestState, Args, logs
  <2>7. Routed(q)
    BY <2>1 DEF TypeInv, Located
  <2>8. Routed(new) /\ Decided(new)
    BY <1>2, <2>1, <2>3, <2>7 DEF Routed, Decided, Refuses, AllOps
  <2>9. Vetted(new)
    BY <2>1, <2>3, <2>7 DEF Routed, Vetted
  <2>10. Found(new)'
    BY <1>2, <2>1, <2>3, <2>4 DEF Found
  <2>11. Located(r)'
    BY <2>5, <2>8, <2>9, <2>10 DEF Located, Routed, Found, Vetted, Decided
  <2>. HIDE DEF new, pc
  <2>. QED  BY <2>3, <2>4, <2>6, <2>11, OthersLocated DEF TypeInv
<1>. QED  BY <1>1, <1>2

LEMMA ValidateAssigneeInv ==
  ASSUME TypeInv, NEW r \in Request, ValidateAssignee(r)
  PROVE  TypeInv'
<1>. DEFINE new == [req[r] EXCEPT !.pc = "lead"]
<1>1. CASE req[r].args.assignee \notin Enrolled \cup {UNSET}
  BY <1>1, ThrowInv DEF ValidateAssignee
<1>2. CASE req[r].args.assignee \in Enrolled \cup {UNSET}
  <2>1. req' = [req EXCEPT ![r] = new] /\ UNCHANGED <<tasks, logs, failed, raced>>
    BY <1>2 DEF ValidateAssignee, Goto
  <2>2. req[r] \in RequestState /\ req[r].pc = "assignee" /\ Located(r)
    BY RequestType DEF TypeInv, ValidateAssignee, At
  <2>3. new \in RequestState /\ new.pc = "lead" /\ new.op = req[r].op
          /\ new.args = req[r].args /\ new.task = req[r].task /\ req'[r] = new
    BY <2>1, <2>2, RequestType DEF TypeInv, RequestState, PC
  <2>4. TypeOK'
    BY <2>1, <2>3 DEF TypeInv, TypeOK, RequestState, Args, logs
  <2>5. Located(r)'
    BY <1>2, <2>1, <2>2, <2>3 DEF Located, Routed, Found, Vetted, Decided
  <2>. HIDE DEF new
  <2>. QED  BY <2>1, <2>3, <2>4, <2>5, OthersLocated DEF TypeInv
<1>. QED  BY <1>1, <1>2

LEMMA ValidateLeadInv ==
  ASSUME TypeInv, NEW r \in Request, ValidateLead(r)
  PROVE  TypeInv'
<1>. DEFINE new == [req[r] EXCEPT !.pc = "write"]
<1>1. CASE req[r].args.lead \notin Lead \cup {UNSET}
  BY <1>1, ThrowInv DEF ValidateLead
<1>2. CASE req[r].args.lead \in Lead \cup {UNSET}
  <2>1. req' = [req EXCEPT ![r] = new] /\ UNCHANGED <<tasks, logs, failed, raced>>
    BY <1>2 DEF ValidateLead, Goto
  <2>2. req[r] \in RequestState /\ req[r].pc = "lead" /\ Located(r)
    BY RequestType DEF TypeInv, ValidateLead, At
  <2>3. new \in RequestState /\ new.pc = "write" /\ new.op = req[r].op
          /\ new.args = req[r].args /\ new.task = req[r].task /\ req'[r] = new
    BY <2>1, <2>2, RequestType DEF TypeInv, RequestState, PC
  <2>4. TypeOK'
    BY <2>1, <2>3 DEF TypeInv, TypeOK, RequestState, Args, logs
  <2>5. Located(r)'
    BY <1>2, <2>1, <2>2, <2>3 DEF Located, Routed, Found, Vetted, Decided
  <2>. HIDE DEF new
  <2>. QED  BY <2>1, <2>3, <2>4, <2>5, OthersLocated DEF TypeInv
<1>. QED  BY <1>1, <1>2

-----------------------------------------------------------------------------
\* What the four writes have in common.
LEMMA WriteInv ==
  ASSUME TypeInv, NEW r \in Request, At(r, "write"), req[r].op \in AllOps,
         NEW t \in Task, NEW row \in TaskRow, Write(r, t, row)
  PROVE  TypeInv'
<1>. DEFINE new == [req[r] EXCEPT !.task = t, !.pc = "audit"]
<1>1. req' = [req EXCEPT ![r] = new] /\ tasks' = [tasks EXCEPT ![t] = row]
        /\ UNCHANGED <<audit, events, failed>> /\ raced' \in SUBSET (raced \cup {t})
  BY DEF Write, logs
<1>2. req[r] \in RequestState /\ req[r].pc = "write" /\ Located(r)
  BY RequestType DEF TypeInv, At
<1>3. new \in RequestState /\ new.pc = "audit" /\ new.op = req[r].op
        /\ new.args = req[r].args /\ new.task = t /\ req'[r] = new
  BY <1>1, <1>2, RequestType DEF TypeInv, RequestState, PC
<1>4. TypeOK'
  BY <1>1, <1>3 DEF TypeInv, TypeOK, RequestState, Args
<1>5. row # NULL
  BY TasksAssumption
<1>6. tasks'[t] # NULL /\ \A u \in Task : tasks[u] # NULL => tasks'[u] # NULL
  BY <1>1, <1>5 DEF TypeInv, TypeOK
<1>7. Located(r)'
  BY <1>2, <1>3, <1>6 DEF Located, Routed, Found, Vetted, Decided
<1>. HIDE DEF new
<1>. QED  BY <1>1, <1>3, <1>4, <1>6, <1>7, OthersLocated DEF TypeInv

LEMMA RowType ==
  ASSUME TypeInv, NEW r \in Request, At(r, "write")
  PROVE  /\ req[r] \in RequestState /\ req[r].op \in AllOps
         /\ req[r].op # "create" => req[r].task \in Task /\ tasks[req[r].task] \in TaskRow
         /\ req[r].op \in {"create", "update"} =>
              /\ req[r].args.assignee \in Enrolled \cup {UNSET}
              /\ req[r].args.lead \in Lead \cup {UNSET}
<1>1. req[r].pc = "write" /\ Located(r)
  BY DEF At, TypeInv
<1>. QED  BY <1>1, RequestType DEF TypeInv, Located, Routed, Found, Vetted

LEMMA WritesInv ==
  ASSUME TypeInv, NEW r \in Request,
         CreateTask(r) \/ UpdateTask(r) \/ CompleteTask(r) \/ SnoozeTask(r)
  PROVE  TypeInv'
<1>. DEFINE q == req[r]
            old == tasks[q.task]
<1>. At(r, "write")
  BY DEF CreateTask, UpdateTask, CompleteTask, SnoozeTask
<1>1. CASE CreateTask(r)
  <2>. DEFINE row == [status |-> "OPEN", dueAt |-> Given(q.args.dueAt, NULL),
                      assignee |-> Given(q.args.assignee, NULL),
                      lead |-> Given(q.args.lead, NULL)]
  <2>1. row \in TaskRow
    BY <1>1, RowType DEF CreateTask, RequestState, Args, Given, TaskRow, TaskStatus
  <2>2. PICK t \in Task : Write(r, t, row)
    BY <1>1 DEF CreateTask
  <2>. HIDE DEF row
  <2>. QED  BY <2>1, <2>2, WriteInv, RowType
<1>2. CASE UpdateTask(r)
  <2>. DEFINE row == [status |-> Given(q.args.status, old.status),
                      dueAt |-> Given(q.args.dueAt, old.dueAt),
                      assignee |-> Given(q.args.assignee, old.assignee),
                      lead |-> Given(q.args.lead, old.lead)]
  <2>1. row \in TaskRow
    BY <1>2, RowType DEF UpdateTask, RequestState, Args, Given, TaskRow
  <2>2. Write(r, q.task, row) /\ q.task \in Task
    BY <1>2, RowType DEF UpdateTask
  <2>. HIDE DEF row
  <2>. QED  BY <2>1, <2>2, WriteInv, RowType
<1>3. CASE CompleteTask(r)
  <2>1. [old EXCEPT !.status = "DONE"] \in TaskRow /\ q.task \in Task
    BY <1>3, RowType DEF CompleteTask, TaskRow, TaskStatus
  <2>. QED  BY <1>3, <2>1, WriteInv, RowType DEF CompleteTask
<1>4. CASE SnoozeTask(r)
  <2>1. q.args.dueAt \in Date
    BY <1>4 DEF SnoozeTask, At, TypeInv, Located, Routed
  <2>2. [old EXCEPT !.status = "SNOOZED", !.dueAt = q.args.dueAt] \in TaskRow /\ q.task \in Task
    BY <1>4, <2>1, RowType DEF SnoozeTask, TaskRow, TaskStatus
  <2>. QED  BY <1>4, <2>2, WriteInv, RowType DEF SnoozeTask
<1>. QED  BY <1>1, <1>2, <1>3, <1>4

-----------------------------------------------------------------------------
\* What the steps have in common that only write to the logs.
LEMMA LogInv ==
  ASSUME TypeInv, NEW r \in Request, NEW pc \in {"emit", "end"}, Goto(r, pc),
         req[r].pc \in {"audit", "emit"},
         pc = "emit" => req[r].op \in {"create", "complete"},
         UNCHANGED <<tasks, failed, raced>>,
         audit' \subseteq [req : Request, action : AuditAction, task : Task],
         events' \subseteq [req : Request, type : EventName, task : Task]
  PROVE  TypeInv'
<1>. DEFINE new == [req[r] EXCEPT !.pc = pc]
<1>1. req[r] \in RequestState /\ Located(r)
  BY RequestType DEF TypeInv
<1>2. new \in RequestState /\ new.pc = pc /\ new.op = req[r].op
        /\ new.args = req[r].args /\ new.task = req[r].task
  BY <1>1 DEF RequestState, PC
<1>3. req' = [req EXCEPT ![r] = new] /\ req'[r] = new
  BY RequestType DEF TypeInv, Goto
<1>4. TypeOK'
  BY <1>2, <1>3 DEF TypeInv, TypeOK, RequestState, Args
<1>5. Located(r)'
  BY <1>1, <1>2, <1>3 DEF Located, Routed, Found, Vetted, Decided
<1>. HIDE DEF new
<1>. QED  BY <1>2, <1>3, <1>4, <1>5, OthersLocated DEF TypeInv

LEMMA LogsInv ==
  ASSUME TypeInv, NEW r \in Request, WriteAudit(r) \/ EmitEvent(r)
  PROVE  TypeInv'
<1>1. req[r].op \in AllOps /\ req[r].task \in Task
        /\ (req[r].pc = "emit" => req[r].op \in {"create", "complete"})
  BY DEF WriteAudit, EmitEvent, At, TypeInv, Located, Routed, Found
<1>2. ActionName[req[r].op] \in AuditAction
        /\ (req[r].op \in {"create", "complete"} => ActionName[req[r].op] \in EventName)
  BY <1>1 DEF ActionName, AuditAction, EventName, AllOps
<1>3. CASE WriteAudit(r)
  BY <1>1, <1>2, <1>3, LogInv DEF WriteAudit, At, TypeInv, TypeOK
<1>4. CASE EmitEvent(r)
  BY <1>1, <1>2, <1>4, LogInv DEF EmitEvent, At, TypeInv, TypeOK
<1>. QED  BY <1>3, <1>4

LEMMA NextTypeInv == TypeInv /\ [Next]_vars => TypeInv'
<1>. SUFFICES ASSUME TypeInv, [Next]_vars PROVE TypeInv'
  OBVIOUS
<1>1. CASE \E r \in Request : Start(r) \/ Step(r) \/ Fault(r)
  BY <1>1, StartInv, FindTaskInv, ValidateAssigneeInv, ValidateLeadInv, WritesInv, LogsInv,
     ThrowInv DEF Step, Fault
<1>2. CASE UNCHANGED vars
  BY <1>2 DEF vars, logs, TypeInv, TypeOK, Located, Routed, Found, Vetted, Decided
<1>. QED  BY <1>1, <1>2 DEF Next

\* validateAssignee, validateLead: in every execution no task is given to who
\* is not enrolled, or linked to a lead of another dealership, and no column
\* holds undefined.
THEOREM TypeCorrect == Spec => []TypeOK
<1>1. TypeInv => TypeOK
  BY DEF TypeInv
<1>. QED  BY <1>1, InitTypeInv, NextTypeInv, PTL DEF Spec

-----------------------------------------------------------------------------
\* completeTask: in every execution an event that reports count has its row in
\* the audit log.
Entry(r) == [req |-> r, action |-> ActionName[req[r].op], task |-> req[r].task]

AuditInv ==
  /\ TypeInv
  /\ \A r \in Request : req[r].pc = "emit" => Entry(r) \in audit
  /\ CompletionAudited

\* A request leaves the others alone, and only WriteAudit takes it to "emit".
Quiet(r) ==
  /\ UNCHANGED logs
  /\ \A s \in Request : s # r => req'[s] = req[s]
  /\ req'[r].pc # "emit" \/ req'[r] = req[r]

LEMMA StartIsQuiet ==
  ASSUME TypeInv, NEW r \in Request, Start(r)
  PROVE  Quiet(r)
BY DEF Start, StartCreate, StartUpdate, StartComplete, StartSnooze, Begin, Quiet, TypeInv, TypeOK

LEMMA StepIsQuiet ==
  ASSUME TypeInv, NEW r \in Request,
         \/ FindTask(r) \/ ValidateAssignee(r) \/ ValidateLead(r)
         \/ CreateTask(r) \/ UpdateTask(r) \/ CompleteTask(r) \/ SnoozeTask(r)
         \/ Throw(r)
  PROVE  Quiet(r)
<1>1. CASE Throw(r)
  BY <1>1 DEF Throw, Quiet
<1>2. CASE FindTask(r)
  BY <1>2, <1>1 DEF FindTask, Quiet, TypeInv, TypeOK
<1>3. CASE ValidateAssignee(r) \/ ValidateLead(r)
  BY <1>3, <1>1 DEF ValidateAssignee, ValidateLead, Goto, Quiet, TypeInv, TypeOK
<1>4. CASE CreateTask(r) \/ UpdateTask(r) \/ CompleteTask(r) \/ SnoozeTask(r)
  BY <1>4 DEF CreateTask, UpdateTask, CompleteTask, SnoozeTask, Write, Quiet, TypeInv, TypeOK
<1>. QED  BY <1>1, <1>2, <1>3, <1>4

LEMMA QuietKeepsAudit ==
  ASSUME AuditInv, TypeInv', NEW r \in Request, Quiet(r)
  PROVE  AuditInv'
BY DEF AuditInv, Quiet, logs, Entry, CompletionAudited

LEMMA NextAuditInv == AuditInv /\ [Next]_vars => AuditInv'
<1>. SUFFICES ASSUME AuditInv, [Next]_vars PROVE AuditInv'
  OBVIOUS
<1>1. TypeInv /\ TypeInv'
  BY NextTypeInv DEF AuditInv
<1>2. ASSUME NEW r \in Request, Start(r) \/ Fault(r)
      PROVE  AuditInv'
  BY <1>1, <1>2, StartIsQuiet, StepIsQuiet, QuietKeepsAudit DEF Fault
<1>3. ASSUME NEW r \in Request, WriteAudit(r)
      PROVE  AuditInv'
  <2>1. audit' = audit \cup {Entry(r)} /\ events' = events
    BY <1>3 DEF WriteAudit, Entry
  <2>2. /\ \A s \in Request : s # r => req'[s] = req[s]
        /\ req'[r].op = req[r].op /\ req'[r].task = req[r].task
    BY <1>1, <1>3 DEF WriteAudit, Goto, TypeInv, TypeOK
  <2>. QED  BY <1>1, <2>1, <2>2 DEF AuditInv, Entry, CompletionAudited
<1>4. ASSUME NEW r \in Request, EmitEvent(r)
      PROVE  AuditInv'
  <2>1. req[r].pc = "emit" /\ audit' = audit
          /\ events' \subseteq events \cup {[req |-> r, type |-> ActionName[req[r].op],
                                             task |-> req[r].task]}
    BY <1>4 DEF EmitEvent, At
  <2>2. Entry(r) \in audit
    BY <2>1 DEF AuditInv
  <2>3. CompletionAudited'
    BY <2>1, <2>2 DEF AuditInv, Entry, CompletionAudited
  <2>4. /\ \A s \in Request : s # r => req'[s] = req[s]
        /\ req'[r].pc = "end"
    BY <1>1, <1>4 DEF EmitEvent, Goto, TypeInv, TypeOK
  <2>. QED  BY <1>1, <2>1, <2>3, <2>4 DEF AuditInv, Entry
<1>5. ASSUME NEW r \in Request, Step(r)
      PROVE  AuditInv'
  BY <1>1, <1>3, <1>4, <1>5, StepIsQuiet, QuietKeepsAudit DEF Step
<1>6. CASE UNCHANGED vars
  BY <1>1, <1>6 DEF vars, logs, AuditInv, Entry, CompletionAudited
<1>. QED  BY <1>2, <1>5, <1>6 DEF Next

\* completeTask: in every execution an event of a task has been told to the audit
\* log first, by the same request, whatever is cut short.
THEOREM CompletionsAreAudited == Spec => []CompletionAudited
<1>1. Init => AuditInv
  BY InitTypeInv DEF Init, AuditInv, Idle, CompletionAudited
<1>2. AuditInv => CompletionAudited
  BY DEF AuditInv
<1>. QED  BY <1>1, <1>2, NextAuditInv, PTL DEF Spec

-----------------------------------------------------------------------------
\* completeTask, snoozeTask: in every execution what was done or canceled stays
\* so, but for an update that names the status and for requests that overlap.
Closed(row) == row.status \in {"DONE", "CANCELED"}

LEMMA WriteKeepsClosed ==
  ASSUME TypeInv, NEW r \in Request,
         CreateTask(r) \/ UpdateTask(r) \/ CompleteTask(r) \/ SnoozeTask(r),
         NEW t \in Task, tasks[t] # NULL, t \notin raced', Closed(tasks[t]),
         ~NamesStatus(r, t)
  PROVE  tasks'[t].status = tasks[t].status
<1>. DEFINE q == req[r]
<1>0. q.pc = "write" /\ Routed(q) /\ Decided(q)
  BY DEF TypeInv, Located, CreateTask, UpdateTask, CompleteTask, SnoozeTask, At
<1>1. CASE CreateTask(r)
  BY <1>1 DEF CreateTask, Write, TypeInv, TypeOK
<1>2. CASE UpdateTask(r)
  <2>1. q.task = t => q.args.status = UNSET
    BY <1>2 DEF NamesStatus
  <2>. QED  BY <1>2, <2>1 DEF UpdateTask, Write, Given, TypeInv, TypeOK, TaskRow
<1>3. CASE CompleteTask(r) \/ SnoozeTask(r)
  <2>1. q.seen # NULL /\ ~Closed(q.seen)
    BY <1>0, <1>3 DEF CompleteTask, SnoozeTask, Decided, Closed
  <2>2. q.task # t
    <3>1. ASSUME q.task = t PROVE q.seen = tasks[t]
      BY <1>3, <3>1 DEF CompleteTask, SnoozeTask, Write
    <3>. QED  BY <2>1, <3>1
  <2>3. tasks'[t] = tasks[t]
    BY <1>3, <2>2 DEF CompleteTask, SnoozeTask, Write, TypeInv, TypeOK
  <2>. QED  BY <2>3
<1>. QED  BY <1>1, <1>2, <1>3

\* completeTask, snoozeTask: in every execution what is done or canceled stays so,
\* unless requests overlapped or an update names the status.
THEOREM ClosedTasksStayClosed == Spec => ClosedUnlessRaced
<1>1. TypeInv /\ [Next]_vars =>
        [\A t \in Task : tasks[t] # NULL /\ t \notin raced' =>
           \/ \E r \in Request : NamesStatus(r, t)
           \/ tasks[t].status \in {"DONE", "CANCELED"} => tasks'[t].status = tasks[t].status]_vars
  <2>. SUFFICES ASSUME TypeInv, Next, NEW t \in Task, tasks[t] # NULL, t \notin raced',
                       \A r \in Request : ~NamesStatus(r, t), Closed(tasks[t])
                PROVE  tasks'[t].status = tasks[t].status
    BY DEF Closed
  <2>1. PICK r \in Request : Start(r) \/ Step(r) \/ Fault(r)
    BY DEF Next
  <2>2. CASE CreateTask(r) \/ UpdateTask(r) \/ CompleteTask(r) \/ SnoozeTask(r)
    BY <2>2, WriteKeepsClosed
  <2>3. CASE ~(CreateTask(r) \/ UpdateTask(r) \/ CompleteTask(r) \/ SnoozeTask(r))
    BY <2>1, <2>3 DEF Start, StartCreate, StartUpdate, StartComplete, StartSnooze, Begin,
       Step, FindTask, ValidateAssignee, ValidateLead, WriteAudit, EmitEvent, Fault, Throw
  <2>. QED  BY <2>2, <2>3
<1>. QED  BY <1>1, InitTypeInv, NextTypeInv, PTL DEF Spec, ClosedUnlessRaced
=============================================================================

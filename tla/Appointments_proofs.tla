------------------------- MODULE Appointments_proofs -------------------------
(***************************************************************************)
(* Proofs about the appointments of a dealership and the scores of its     *)
(* leads, for any number of appointments, leads and requests.              *)
(***************************************************************************)
EXTENDS Appointments, TLAPS

-----------------------------------------------------------------------------
\* The score of a row is in its range, see Figures_proofs.
LEMMA ScoreInRange ==
  ASSUME NEW row \in ScoredLead, NEW e \in Evidence
  PROVE  Score(row, e) \in MIN_LEAD_SCORE .. MAX_LEAD_SCORE
<1>. USE DEF Points
<1>1. Contactability(row.contact) \in Int
  BY DEF ScoredLead, Contact, Contactability
<1>2. Engagement(e) \in Int /\ AppointmentPoints(e) \in Int /\ Penalty(e) \in Int
  BY DEF Evidence, Engagement, EngagementRaw, AppointmentPoints, Penalty
<1>3. LEAD_STAGE_SCORES[row.status] \in Int /\ Freshness(row.age) \in Int
  <2>1. LEAD_STAGE_SCORES[row.status] \in Int
    BY DEF ScoredLead, LeadStatus, LEAD_STAGE_SCORES
  <2>2. CASE row.age = NoActivity
    BY <2>1, <2>2, NoActivityAssumption DEF Freshness
  <2>3. CASE row.age \in Int
    BY <2>1, <2>3, DayAssumption, NoActivityAssumption DEF Freshness
  <2>. QED  BY <2>2, <2>3 DEF ScoredLead
<1>4. Unclamped(row, e) \in Int
  BY <1>1, <1>2, <1>3 DEF Unclamped
<1>. QED  BY <1>4 DEF Score, Clamp, MIN_LEAD_SCORE, MAX_LEAD_SCORE

-----------------------------------------------------------------------------
(***************************************************************************)
(* Where a request is tells what it carries: what has been looked up is    *)
(* there, since appointments are never deleted, and what has been checked  *)
(* holds of the payload and of the row that was read.                      *)
(***************************************************************************)
BeforeWrite == {"idle", "find", "lead", "write"}
Scoring == {"touch", "read", "count", "persist", "summary"}

\* A route has its own way through the handler.
Routed(q) ==
  q.pc # "idle" =>
    /\ q.op \in AllOps
    /\ q.op = "create" => q.pc # "find" /\ q.args.start_at \in Int /\ q.args.end_at \in Int
    /\ q.op \in {"confirm", "cancel"} => q.pc # "lead"

\* The appointment of a request is in the table once it was found or written.
Found(q) ==
  \/ q.pc = "idle"
  \/ q.op = "create" /\ q.pc \in {"lead", "write"}
  \/ q.appt \in Appointment /\ (q.pc # "find" => appts[q.appt] # NULL)

\* The payload has been checked, against the row that was read.
Checked(q) ==
  /\ q.pc \in {"lead", "write"} /\ q.op # "create" => q.local.seen # NULL
  /\ q.pc = "write" /\ q.op \in {"create", "update"} =>
       q.args.lead_id \in Lead \cup {UNSET} /\ IsWindow(q.args, q.local.seen)
  /\ q.pc = "write" /\ q.op \in {"confirm", "cancel"} => ~Refuses(q.op, q.local.seen)

\* From its write on, a request keeps the row it wrote.
Carries(q) ==
  /\ q.pc \in BeforeWrite => q.local.row = NULL
  /\ q.pc \in {"audit", "emit"} \cup Scoring => q.local.row # NULL
  /\ q.pc \in Scoring => q.local.row.lead_id \in Lead

Located(r) ==
  Routed(req[r]) /\ Found(req[r]) /\ Checked(req[r]) /\ Carries(req[r])

TypeInv == TypeOK /\ \A r \in Request : Located(r)

-----------------------------------------------------------------------------
LEMMA NoArgsType == NoArgs \in Args
BY DEF NoArgs, Args

LEMMA PayloadType == Payload \subseteq Args
BY AppointmentsAssumption DEF Payload, Args

LEMMA BlankType == Blank \in Local
BY DEF Blank, Local, MIN_LEAD_SCORE, MAX_LEAD_SCORE

\* A score that is worked out from the tables is a score.
LEMMA ScoreType ==
  ASSUME NEW l, NEW age \in Int \cup {NoActivity}
  PROVE  Score(LeadRow(age), EvidenceOf(l)) \in MIN_LEAD_SCORE .. MAX_LEAD_SCORE
<1>1. LeadRow(age) \in ScoredLead
  BY DEF LeadRow, ScoredLead, Contact, LeadStatus
<1>2. EvidenceOf(l) \in Evidence
  BY DEF EvidenceOf, Evidence
<1>. QED  BY <1>1, <1>2, ScoreInRange

\* Whoever stays where it is with what it carries stays located, as long as no
\* appointment disappears.
LEMMA StaysLocated ==
  ASSUME TypeInv, NEW s \in Request,
         req'[s].pc = req[s].pc, req'[s].op = req[s].op, req'[s].appt = req[s].appt,
         req'[s].args = req[s].args, req'[s].local.seen = req[s].local.seen,
         req'[s].local.row = req[s].local.row,
         \A a \in Appointment : appts[a] # NULL => appts'[a] # NULL
  PROVE  Located(s)'
<1>1. Routed(req[s])' /\ Checked(req[s])' /\ Carries(req[s])'
  BY DEF TypeInv, Located, Routed, Checked, Carries, IsWindow
<1>2. Found(req[s])'
  BY DEF TypeInv, Located, Found
<1>. QED  BY <1>1, <1>2 DEF Located

\* A request that moves leaves the others where they are.
LEMMA MoveInv ==
  ASSUME TypeInv, NEW r \in Request, NEW new \in RequestState,
         req' = [req EXCEPT ![r] = new], UNCHANGED appts, TypeOK',
         Routed(new), Found(new), Checked(new), Carries(new)
  PROVE  TypeInv'
<1>1. req'[r] = new
  BY DEF TypeInv, TypeOK
<1>2. Located(r)'
  BY <1>1 DEF Located, Routed, Found, Checked, Carries, IsWindow
<1>3. ASSUME NEW s \in Request, s # r PROVE Located(s)'
  BY <1>3, StaysLocated DEF TypeInv, TypeOK
<1>. QED  BY <1>2, <1>3 DEF TypeInv

LEMMA ThrowInv ==
  ASSUME TypeInv, NEW r \in Request, Throw(r)
  PROVE  TypeInv'
<1>1. TypeOK'
  BY DEF TypeInv, TypeOK, Throw, logs, history
<1>. QED  BY <1>1, StaysLocated DEF TypeInv, Throw

LEMMA InitTypeInv == Init => TypeInv
<1>. SUFFICES ASSUME Init PROVE TypeInv
  OBVIOUS
<1>1. Idle \in RequestState
  BY NoArgsType, BlankType DEF Idle, RequestState, PC
<1>2. appts \in [Appointment -> AppointmentRow \cup {NULL}]
  BY AppointmentsAssumption DEF Init
<1>3. leads \in [Lead -> [age : Int \cup {NoActivity},
                          score : MIN_LEAD_SCORE .. MAX_LEAD_SCORE]]
  BY ScoreType DEF Init
<1>4. TypeOK
  BY <1>1, <1>2, <1>3 DEF Init, TypeOK
<1>. QED  BY <1>4 DEF Init, TypeInv, Located, Routed, Found, Checked, Carries, Idle, Blank,
                      BeforeWrite, Scoring

LEMMA BeginInv ==
  ASSUME TypeInv, NEW r \in Request, NEW op, NEW a \in Appointment \cup {NULL},
         NEW pc \in PC, NEW args \in Args, Begin(r, op, a, pc, args),
         \/ op = "create" /\ pc = "lead" /\ args.start_at \in Int /\ args.end_at \in Int
         \/ op \in {"update", "confirm", "cancel"} /\ pc = "find" /\ a \in Appointment
  PROVE  TypeInv'
<1>. DEFINE new == [pc |-> pc, op |-> op, appt |-> a, args |-> args, local |-> Blank]
<1>1. new \in RequestState
  BY BlankType DEF RequestState, AllOps
<1>2. req' = [req EXCEPT ![r] = new] /\ UNCHANGED <<appts, leads, logs, failed, history>>
  BY DEF Begin
<1>3. TypeOK'
  BY <1>1, <1>2 DEF TypeInv, TypeOK, logs, history
<1>4. Routed(new) /\ Found(new) /\ Checked(new) /\ Carries(new)
  BY DEF Routed, Found, Checked, Carries, AllOps, Blank, BeforeWrite, Scoring
<1>. HIDE DEF new
<1>. QED  BY <1>1, <1>2, <1>3, <1>4, MoveInv

LEMMA StartInv ==
  ASSUME TypeInv, NEW r \in Request, Start(r)
  PROVE  TypeInv'
<1>1. CASE StartCreate(r)
  <2>1. PICK args \in Payload : args.start_at # UNSET /\ args.end_at # UNSET
                                /\ Begin(r, "create", NULL, "lead", args)
    BY <1>1 DEF StartCreate
  <2>2. args \in Args /\ args.start_at \in Int /\ args.end_at \in Int
    BY <2>1, PayloadType DEF Args
  <2>. QED  BY <2>1, <2>2, BeginInv DEF PC
<1>2. CASE StartUpdate(r)
  BY <1>2, BeginInv, PayloadType DEF StartUpdate, PC
<1>3. CASE StartConfirm(r) \/ StartCancel(r)
  BY <1>3, BeginInv, NoArgsType DEF StartConfirm, StartCancel, PC
<1>. QED  BY <1>1, <1>2, <1>3 DEF Start

-----------------------------------------------------------------------------
LEMMA FindAppointmentInv ==
  ASSUME TypeInv, NEW r \in Request, FindAppointment(r)
  PROVE  TypeInv'
<1>. DEFINE q == req[r]
            row == appts[q.appt]
            refused == \/ row = NULL
                       \/ Refuses(q.op, row)
                       \/ q.op = "update" /\ q.args.lead_id = UNSET /\ ~IsWindow(q.args, row)
            pc == CASE IsDone(q.op, row) -> "end"
                    [] q.op = "update" /\ q.args.lead_id # UNSET -> "lead"
                    [] OTHER -> "write"
            new == [q EXCEPT !.local = [q.local EXCEPT !.seen = row], !.pc = pc]
<1>1. CASE refused
  BY <1>1, ThrowInv DEF FindAppointment
<1>2. CASE ~refused
  <2>1. q \in RequestState /\ q.pc = "find" /\ Located(r)
    BY DEF TypeInv, TypeOK, FindAppointment, At
  <2>2. q.op \in AllOps /\ q.op # "create" /\ q.appt \in Appointment /\ q.local \in Local
          /\ q.local.row = NULL
    BY <2>1 DEF Located, Routed, Found, Carries, BeforeWrite, RequestState
  <2>3. row \in AppointmentRow /\ row # NULL
    BY <1>2, <2>2 DEF TypeInv, TypeOK
  <2>4. pc \in {"end", "lead", "write"} /\ (pc = "lead" => q.op = "update")
          /\ (pc = "write" /\ q.op = "update" => q.args.lead_id = UNSET /\ IsWindow(q.args, row))
    BY <1>2, <2>2 DEF AllOps, IsDone
  <2>11. ~Refuses(q.op, row)
    BY <1>2
  <2>. HIDE DEF pc, row
  <2>5. new \in RequestState /\ new.pc = pc /\ new.op = q.op /\ new.appt = q.appt
          /\ new.args = q.args /\ new.local.seen = row /\ new.local.row = NULL
    BY <2>1, <2>2, <2>3, <2>4 DEF RequestState, PC, Local
  <2>. HIDE DEF new
  <2>6. req' = [req EXCEPT ![r] = new] /\ UNCHANGED <<appts, leads, logs, failed, history>>
    BY <1>2 DEF FindAppointment, Resume, new, pc, row
  <2>7. TypeOK'
    BY <2>5, <2>6 DEF TypeInv, TypeOK, logs, history
  <2>8. Routed(new)
    BY <2>2, <2>4, <2>5 DEF Routed, AllOps
  <2>9. Found(new)
    BY <2>2, <2>3, <2>5 DEF Found, row
  <2>10. Checked(new) /\ Carries(new)
    BY <2>2, <2>3, <2>4, <2>5, <2>11 DEF Checked, Carries, BeforeWrite, Scoring
  <2>. QED  BY <2>5, <2>6, <2>7, <2>8, <2>9, <2>10, MoveInv
<1>. QED  BY <1>1, <1>2

\* What the steps have in common that only take a request from one place to
\* another.
LEMMA GotoInv ==
  ASSUME TypeInv, NEW r \in Request, NEW pc \in PC \ {"idle"}, Goto(r, pc),
         req[r].pc # "idle", UNCHANGED appts,
         req' \in [Request -> RequestState] => TypeOK',
         pc # "find", req[r].op \in {"confirm", "cancel"} => pc # "lead",
         req[r].pc \in {"lead", "write"} => pc = "write",
         req[r].pc \notin {"lead", "write"} => pc \notin BeforeWrite /\ req[r].pc # "find",
         pc = "write" /\ req[r].op \in {"create", "update"} =>
           req[r].args.lead_id \in Lead \cup {UNSET}
             /\ IsWindow(req[r].args, req[r].local.seen),
         pc \in {"audit", "emit"} \cup Scoring => req[r].local.row # NULL,
         pc \in Scoring => req[r].local.row.lead_id \in Lead
  PROVE  TypeInv'
<1>. DEFINE q == req[r]
            new == [q EXCEPT !.pc = pc]
<1>1. q \in RequestState /\ Located(r)
  BY DEF TypeInv, TypeOK
<1>2. new \in RequestState /\ new.pc = pc /\ new.op = q.op /\ new.appt = q.appt
        /\ new.args = q.args /\ new.local = q.local
  BY <1>1 DEF RequestState, PC
<1>3. req' = [req EXCEPT ![r] = new]
  BY DEF Goto
<1>4. TypeOK'
  BY <1>2, <1>3 DEF TypeInv, TypeOK
<1>5. Routed(new)
  BY <1>1, <1>2 DEF Located, Routed
<1>6. Found(new)
  BY <1>1, <1>2 DEF Located, Found, BeforeWrite
<1>7. Checked(new) /\ Carries(new)
  BY <1>1, <1>2 DEF Located, Routed, Checked, Carries, BeforeWrite, Scoring
<1>. HIDE DEF new
<1>. QED  BY <1>2, <1>3, <1>4, <1>5, <1>6, <1>7, MoveInv

LEMMA ValidateLeadInv ==
  ASSUME TypeInv, NEW r \in Request, ValidateLead(r)
  PROVE  TypeInv'
<1>1. CASE /\ req[r].args.lead_id \in Lead \cup {UNSET}
           /\ IsWindow(req[r].args, req[r].local.seen)
  <2>1. Goto(r, "write") /\ UNCHANGED <<appts, leads, logs, failed, history>>
          /\ req[r].pc = "lead"
    BY <1>1 DEF ValidateLead, At
  <2>2. req' \in [Request -> RequestState] => TypeOK'
    BY <2>1 DEF TypeInv, TypeOK, logs, history
  <2>. QED  BY <1>1, <2>1, <2>2, GotoInv DEF PC, Scoring
<1>2. CASE ~(/\ req[r].args.lead_id \in Lead \cup {UNSET}
             /\ IsWindow(req[r].args, req[r].local.seen))
  BY <1>2, ThrowInv DEF ValidateLead
<1>. QED  BY <1>1, <1>2

-----------------------------------------------------------------------------
\* What the four writes have in common.
LEMMA WriteEffect ==
  ASSUME TypeInv, NEW r \in Request, NEW a \in Appointment, NEW row \in AppointmentRow,
         req[r].op \in AllOps, Write(r, a, row)
  PROVE  /\ row # NULL /\ appts' = [appts EXCEPT ![a] = row]
         /\ \A b \in Appointment : appts[b] # NULL => appts'[b] # NULL
         /\ req' \in [Request -> RequestState]
         /\ req'[r].pc = "audit" /\ req'[r].op = req[r].op /\ req'[r].appt = a
         /\ req'[r].args = req[r].args /\ req'[r].local.row = row
         /\ \A s \in Request : s # r =>
              /\ req'[s].pc = req[s].pc /\ req'[s].op = req[s].op
              /\ req'[s].appt = req[s].appt /\ req'[s].args = req[s].args
              /\ req'[s].local.seen = req[s].local.seen
              /\ req'[s].local.row = req[s].local.row
              /\ req'[s].local.age = req[s].local.age
              /\ req'[s].local.score = req[s].local.score
              /\ req[s].local.outdated \/ Overtakes(req[s], a, row)
                   => req'[s].local.outdated
<1>1. row # NULL /\ appts' = [appts EXCEPT ![a] = row]
  BY AppointmentsAssumption DEF Write
<1>2. \A b \in Appointment : appts[b] # NULL => appts'[b] # NULL
  BY <1>1 DEF TypeInv, TypeOK
<1>3. \A s \in Request : req[s] \in RequestState /\ req[s].local \in Local
  BY DEF TypeInv, TypeOK, RequestState
<1>. DEFINE new == [req[r] EXCEPT !.appt = a, !.pc = "audit", !.local.row = row]
            other(s) == [req[s] EXCEPT !.local.outdated = @ \/ Overtakes(req[s], a, row)]
<1>4. req' = [s \in Request |-> IF s = r THEN new ELSE other(s)]
  BY DEF Write
<1>5. new \in RequestState /\ new.pc = "audit" /\ new.op = req[r].op /\ new.appt = a
        /\ new.args = req[r].args /\ new.local.row = row
  <2>1. [req[r].local EXCEPT !.row = row] \in Local
    BY <1>3 DEF Local
  <2>. QED  BY <1>3, <2>1 DEF RequestState, PC, Local
<1>6. ASSUME NEW s \in Request
      PROVE  /\ other(s) \in RequestState
             /\ other(s).pc = req[s].pc /\ other(s).op = req[s].op
             /\ other(s).appt = req[s].appt /\ other(s).args = req[s].args
             /\ other(s).local.seen = req[s].local.seen
             /\ other(s).local.row = req[s].local.row
             /\ other(s).local.age = req[s].local.age
             /\ other(s).local.score = req[s].local.score
             /\ req[s].local.outdated \/ Overtakes(req[s], a, row)
                  => other(s).local.outdated
  <2>1. Overtakes(req[s], a, row) \in BOOLEAN
    BY DEF Overtakes
  <2>. QED  BY <1>3, <2>1 DEF RequestState, Local
<1>. HIDE DEF new, other
<1>. QED  BY <1>1, <1>2, <1>4, <1>5, <1>6

LEMMA WriteInv ==
  ASSUME TypeInv, NEW r \in Request, NEW a \in Appointment, NEW row \in AppointmentRow,
         At(r, "write"), req[r].op \in AllOps, Write(r, a, row)
  PROVE  TypeInv'
<1>1. neglected' \subseteq Lead /\ raced' \subseteq Appointment
        /\ UNCHANGED <<leads, audit, events, failed, lost>>
  BY DEF Write, logs, LeadsOf, TypeInv, TypeOK, AppointmentRow
<1>2. TypeOK'
  BY <1>1, WriteEffect DEF TypeInv, TypeOK
<1>3. Located(r)'
  <2>1. Routed(req[r])'
    BY WriteEffect DEF Routed, At, TypeInv, Located
  <2>2. Found(req[r])'
    BY WriteEffect DEF Found, TypeInv, TypeOK
  <2>3. Checked(req[r])' /\ Carries(req[r])'
    BY WriteEffect DEF Checked, Carries, BeforeWrite, Scoring
  <2>. QED  BY <2>1, <2>2, <2>3 DEF Located
<1>4. ASSUME NEW s \in Request, s # r PROVE Located(s)'
  <2>1. /\ req'[s].pc = req[s].pc /\ req'[s].op = req[s].op
        /\ req'[s].appt = req[s].appt /\ req'[s].args = req[s].args
        /\ req'[s].local.seen = req[s].local.seen
        /\ req'[s].local.row = req[s].local.row
        /\ \A b \in Appointment : appts[b] # NULL => appts'[b] # NULL
    BY <1>4, WriteEffect
  <2>. QED  BY <2>1, StaysLocated
<1>. QED  BY <1>2, <1>3, <1>4 DEF TypeInv

LEMMA RowType ==
  ASSUME TypeInv, NEW r \in Request, At(r, "write")
  PROVE  /\ req[r] \in RequestState /\ req[r].op \in AllOps /\ req[r].local.row = NULL
         /\ req[r].op # "create" =>
              req[r].appt \in Appointment /\ appts[req[r].appt] \in AppointmentRow
         /\ req[r].op = "create" =>
              req[r].args.start_at \in Int /\ req[r].args.end_at \in Int
         /\ req[r].op \in {"create", "update"} =>
              req[r].args.lead_id \in Lead \cup {UNSET}
                /\ IsWindow(req[r].args, req[r].local.seen)
         /\ req[r].op \in {"confirm", "cancel"} => ~Refuses(req[r].op, req[r].local.seen)
<1>1. req[r].pc = "write" /\ Located(r)
  BY DEF At, TypeInv
<1>. QED  BY <1>1 DEF TypeInv, TypeOK, Located, Routed, Found, Checked, Carries, BeforeWrite

\* Each of the four handlers that write, with the row it writes.
NewRow(args) == [status |-> Given(args.status, "SET"), start_at |-> args.start_at,
                 end_at |-> args.end_at, lead_id |-> Given(args.lead_id, NULL)]
Revised(args, old) == [status |-> Given(args.status, old.status),
                       start_at |-> Given(args.start_at, old.start_at),
                       end_at |-> Given(args.end_at, old.end_at),
                       lead_id |-> Given(args.lead_id, old.lead_id)]

Writes(r) == CreateAppointment(r) \/ UpdateAppointment(r)
               \/ ConfirmAppointment(r) \/ CancelAppointment(r)

LEMMA WhatIsWritten ==
  ASSUME TypeInv, NEW r \in Request, Writes(r)
  PROVE  /\ At(r, "write") /\ req[r].op \in AllOps
         /\ \E a \in Appointment, row \in AppointmentRow :
              /\ Write(r, a, row)
              /\ \/ req[r].op = "create" /\ appts[a] = NULL /\ row = NewRow(req[r].args)
                 \/ /\ req[r].appt = a /\ appts[a] \in AppointmentRow
                    /\ \/ req[r].op = "update" /\ row = Revised(req[r].args, appts[a])
                       \/ /\ req[r].op \in {"confirm", "cancel"}
                          /\ row.start_at = appts[a].start_at /\ row.end_at = appts[a].end_at
<1>. DEFINE q == req[r]
            old == appts[q.appt]
<1>1. At(r, "write")
  BY DEF Writes, CreateAppointment, UpdateAppointment, ConfirmAppointment, CancelAppointment
<1>2. CASE CreateAppointment(r)
  <2>1. NewRow(q.args) \in AppointmentRow
    BY <1>1, <1>2, RowType DEF CreateAppointment, NewRow, RequestState, Args, Given,
       AppointmentRow, AppointmentStatus
  <2>2. \E a \in Appointment : appts[a] = NULL /\ Write(r, a, NewRow(q.args))
    BY <1>2 DEF CreateAppointment, NewRow
  <2>. QED  BY <1>1, <1>2, <2>1, <2>2, RowType DEF CreateAppointment
<1>3. CASE UpdateAppointment(r)
  <2>1. Revised(q.args, old) \in AppointmentRow
    BY <1>1, <1>3, RowType DEF UpdateAppointment, Revised, RequestState, Args, Given,
       AppointmentRow
  <2>2. Write(r, q.appt, Revised(q.args, old))
    BY <1>3 DEF UpdateAppointment, Revised
  <2>. QED  BY <1>1, <1>3, <2>1, <2>2, RowType DEF UpdateAppointment
<1>4. CASE ConfirmAppointment(r)
  <2>1. [old EXCEPT !.status = "CONFIRMED"] \in AppointmentRow
          /\ [old EXCEPT !.status = "CONFIRMED"].start_at = old.start_at
          /\ [old EXCEPT !.status = "CONFIRMED"].end_at = old.end_at
    BY <1>1, <1>4, RowType DEF ConfirmAppointment, AppointmentRow, AppointmentStatus
  <2>. QED  BY <1>1, <1>4, <2>1, RowType DEF ConfirmAppointment
<1>5. CASE CancelAppointment(r)
  <2>1. [old EXCEPT !.status = "CANCELED"] \in AppointmentRow
          /\ [old EXCEPT !.status = "CANCELED"].start_at = old.start_at
          /\ [old EXCEPT !.status = "CANCELED"].end_at = old.end_at
    BY <1>1, <1>5, RowType DEF CancelAppointment, AppointmentRow, AppointmentStatus
  <2>. QED  BY <1>1, <1>5, <2>1, RowType DEF CancelAppointment
<1>. QED  BY <1>2, <1>3, <1>4, <1>5 DEF Writes

LEMMA WritesInv ==
  ASSUME TypeInv, NEW r \in Request, Writes(r)
  PROVE  TypeInv'
BY WhatIsWritten, WriteInv

-----------------------------------------------------------------------------
\* The logs, and the refresh of the lead's score.
LEMMA LogsInv ==
  ASSUME TypeInv, NEW r \in Request, WriteAudit(r) \/ EmitEvent(r)
  PROVE  TypeInv'
<1>. DEFINE q == req[r]
<1>1. q.pc \in {"audit", "emit"} /\ q.op \in AllOps /\ q.appt \in Appointment
        /\ q.local.row \in AppointmentRow /\ q.local.row # NULL
  BY DEF WriteAudit, EmitEvent, At, TypeInv, TypeOK, Located, Routed, Found, Carries,
         RequestState, Local
<1>2. ActionName[q.op] \in AuditAction /\ EventName(q.op) \in EventType
  BY <1>1 DEF ActionName, AuditAction, EventName, EventType, AllOps
<1>3. AfterLogs(q) \in {"end", "touch"}
        /\ (AfterLogs(q) = "touch" => q.local.row.lead_id \in Lead)
  BY <1>1 DEF AfterLogs, AppointmentRow
<1>4. CASE WriteAudit(r)
  <2>1. PICK pc \in {"emit", "end", "touch"} :
          Goto(r, pc) /\ (pc = "touch" => q.local.row.lead_id \in Lead)
    BY <1>3, <1>4 DEF WriteAudit
  <2>2. req' \in [Request -> RequestState] => TypeOK'
    BY <1>1, <1>2, <1>4 DEF WriteAudit, TypeInv, TypeOK, history
  <2>. QED  BY <1>1, <1>4, <2>1, <2>2, GotoInv DEF WriteAudit, PC, Scoring, BeforeWrite
<1>5. CASE EmitEvent(r)
  <2>1. req' \in [Request -> RequestState] => TypeOK'
    BY <1>1, <1>2, <1>5 DEF EmitEvent, TypeInv, TypeOK, AppointmentRow
  <2>. QED  BY <1>1, <1>3, <1>5, <2>1, GotoInv DEF EmitEvent, PC, Scoring, BeforeWrite
<1>. QED  BY <1>4, <1>5

\* A request that works on a score has a lead to work on.
LEMMA AtScoring ==
  ASSUME TypeInv, NEW r \in Request, NEW pc \in Scoring, At(r, pc)
  PROVE  /\ req[r] \in RequestState /\ req[r].local \in Local /\ req[r].pc = pc
         /\ req[r].local.row # NULL /\ req[r].local.row.lead_id \in Lead
BY DEF TypeInv, TypeOK, At, Located, Carries, RequestState

LEMMA LeadInv ==
  ASSUME TypeInv, NEW r \in Request, TouchLead(r) \/ PersistScore(r) \/ ReadSummary(r)
  PROVE  TypeInv'
<1>1. CASE TouchLead(r)
  <2>1. req' \in [Request -> RequestState] => TypeOK'
    BY <1>1, AtScoring DEF TouchLead, TypeInv, TypeOK, logs, history, Scoring
  <2>. QED  BY <1>1, <2>1, AtScoring, GotoInv DEF TouchLead, PC, Scoring, BeforeWrite
<1>2. CASE PersistScore(r)
  <2>1. req' \in [Request -> RequestState] => TypeOK'
    BY <1>2, AtScoring DEF PersistScore, TypeInv, TypeOK, logs, Scoring, Local
  <2>. QED  BY <1>2, <2>1, AtScoring, GotoInv DEF PersistScore, PC, Scoring, BeforeWrite
<1>3. CASE ReadSummary(r)
  <2>1. req' \in [Request -> RequestState] => TypeOK'
    BY <1>3 DEF ReadSummary, TypeInv, TypeOK, logs, history
  <2>. QED  BY <1>3, <2>1, AtScoring, GotoInv DEF ReadSummary, PC, Scoring, BeforeWrite
<1>. QED  BY <1>1, <1>2, <1>3

LEMMA ResumeInv ==
  ASSUME TypeInv, NEW r \in Request, NEW local \in Local, NEW pc \in {"count", "persist"},
         Resume(r, local, pc), req[r].pc \in Scoring,
         local.seen = req[r].local.seen, local.row = req[r].local.row,
         UNCHANGED <<appts, leads, logs, failed, history>>
  PROVE  TypeInv'
<1>. DEFINE q == req[r]
            new == [q EXCEPT !.local = local, !.pc = pc]
<1>1. q \in RequestState /\ Located(r)
  BY DEF TypeInv, TypeOK
<1>2. new \in RequestState /\ new.pc = pc /\ new.op = q.op /\ new.appt = q.appt
        /\ new.args = q.args /\ new.local = local
  BY <1>1 DEF RequestState, PC
<1>3. req' = [req EXCEPT ![r] = new]
  BY DEF Resume
<1>4. TypeOK'
  BY <1>2, <1>3 DEF TypeInv, TypeOK, logs, history
<1>5. Routed(new) /\ Found(new) /\ Checked(new) /\ Carries(new)
  BY <1>1, <1>2 DEF Located, Routed, Found, Checked, Carries, BeforeWrite, Scoring
<1>. HIDE DEF new
<1>. QED  BY <1>2, <1>3, <1>4, <1>5, MoveInv

LEMMA CountInv ==
  ASSUME TypeInv, NEW r \in Request, ReadLead(r) \/ CountEvidence(r)
  PROVE  TypeInv'
<1>. DEFINE q == req[r]
            l == q.local.row.lead_id
<1>1. CASE ReadLead(r)
  <2>. DEFINE local == [q.local EXCEPT !.age = leads[l].age]
  <2>1. local \in Local /\ local.seen = q.local.seen /\ local.row = q.local.row
    BY <1>1, AtScoring DEF ReadLead, TypeInv, TypeOK, Local, Scoring
  <2>2. Resume(r, local, "count") /\ q.pc \in Scoring
          /\ UNCHANGED <<appts, leads, logs, failed, history>>
    BY <1>1 DEF ReadLead, At, Scoring
  <2>. HIDE DEF local
  <2>. QED  BY <2>1, <2>2, ResumeInv
<1>2. CASE CountEvidence(r)
  <2>. DEFINE score == Score(LeadRow(q.local.age), EvidenceOf(l))
              local == [q.local EXCEPT !.score = score, !.outdated = FALSE]
  <2>1. q.local \in Local
    BY <1>2, AtScoring DEF CountEvidence, Scoring
  <2>2. score \in MIN_LEAD_SCORE .. MAX_LEAD_SCORE
    BY <2>1, ScoreType DEF Local
  <2>3. Resume(r, local, "persist") /\ q.pc \in Scoring
          /\ UNCHANGED <<appts, leads, logs, failed, history>>
    BY <1>2 DEF CountEvidence, At, Scoring
  <2>. HIDE DEF score
  <2>4. local \in Local /\ local.seen = q.local.seen /\ local.row = q.local.row
    BY <2>1, <2>2 DEF Local
  <2>. HIDE DEF local
  <2>. QED  BY <2>3, <2>4, ResumeInv
<1>. QED  BY <1>1, <1>2

LEMMA NextTypeInv == TypeInv /\ [Next]_vars => TypeInv'
<1>. SUFFICES ASSUME TypeInv, [Next]_vars PROVE TypeInv'
  OBVIOUS
<1>1. CASE \E r \in Request : Start(r) \/ Step(r) \/ Fault(r)
  BY <1>1, StartInv, FindAppointmentInv, ValidateLeadInv, WritesInv, LogsInv, LeadInv,
     CountInv, ThrowInv DEF Step, Writes, Fault
<1>2. CASE UNCHANGED vars
  <2>1. TypeOK'
    BY <1>2 DEF vars, logs, history, TypeInv, TypeOK
  <2>. QED  BY <1>2, <2>1, StaysLocated DEF vars, TypeInv
<1>. QED  BY <1>1, <1>2 DEF Next

\* validateLead: in every execution no appointment is linked to a lead of
\* another dealership, no column holds undefined, and no score leaves its range.
THEOREM TypeCorrect == Spec => []TypeOK
<1>1. TypeInv => TypeOK
  BY DEF TypeInv
<1>. QED  BY <1>1, InitTypeInv, NextTypeInv, PTL DEF Spec

-----------------------------------------------------------------------------
\* The steps that leave every table and log alone, and keep what r wrote.
Quiet(r) == \/ Start(r) \/ FindAppointment(r) \/ ValidateLead(r) \/ ReadLead(r)
            \/ CountEvidence(r) \/ ReadSummary(r) \/ Fault(r)

LEMMA QuietEffect ==
  ASSUME TypeInv, NEW r \in Request, Quiet(r)
  PROVE  /\ UNCHANGED <<appts, leads, events, raced, neglected, lost>>
         /\ \A s \in Request : s # r => req'[s] = req[s]
         /\ Wrote(r) =>
              /\ req'[r].local.row = req[r].local.row /\ req'[r].appt = req[r].appt
              /\ req[r].pc \in {"audit", "emit"} => req'[r].pc = req[r].pc
              /\ req'[r].pc \in {"summary", "end"} => req[r].pc \in {"summary", "end"}
         /\ req[r].pc \in BeforeWrite => req'[r].pc \in BeforeWrite \cup {"end"}
         /\ Fault(r) => req' = req
<1>1. req \in [Request -> RequestState] /\ Located(r)
  BY DEF TypeInv, TypeOK
<1>2. CASE Start(r)
  <2>1. PICK new : /\ req' = [req EXCEPT ![r] = new] /\ new.pc \in {"find", "lead"}
                   /\ UNCHANGED <<appts, leads, logs, failed, history>> /\ At(r, "idle")
    BY <1>2 DEF Start, StartCreate, StartUpdate, StartConfirm, StartCancel, Begin
  <2>2. req[r].pc = "idle" /\ ~Wrote(r)
    BY <1>1, <2>1 DEF At, Located, Carries, BeforeWrite, Wrote
  <2>. QED  BY <1>1, <2>1, <2>2 DEF logs, history, BeforeWrite, Fault, InFlight
<1>3. CASE FindAppointment(r)
  <2>1. req[r].pc = "find" /\ ~Wrote(r)
    BY <1>1, <1>3 DEF FindAppointment, At, Located, Carries, BeforeWrite, Wrote
  <2>2. UNCHANGED <<appts, leads, logs, history>>
          /\ \A s \in Request : s # r => req'[s] = req[s]
    BY <1>1, <1>3 DEF FindAppointment, Resume, Throw
  <2>3. req'[r].pc \in {"find", "end", "lead", "write"}
    <3>1. CASE Throw(r)
      BY <2>1, <3>1 DEF Throw
    <3>2. CASE \E local, pc : pc \in {"end", "lead", "write"} /\ Resume(r, local, pc)
      BY <1>1, <3>2 DEF Resume, RequestState
    <3>. QED  BY <1>3, <3>1, <3>2 DEF FindAppointment
  <2>. QED  BY <2>1, <2>2, <2>3 DEF logs, history, BeforeWrite, Fault, Throw
<1>4. CASE ValidateLead(r)
  <2>1. req[r].pc = "lead" /\ ~Wrote(r)
    BY <1>1, <1>4 DEF ValidateLead, At, Located, Carries, BeforeWrite, Wrote
  <2>. QED  BY <1>1, <1>4, <2>1 DEF ValidateLead, Goto, Throw, logs, history, BeforeWrite,
            Fault, RequestState
<1>5. CASE ReadLead(r) \/ CountEvidence(r)
  <2>1. PICK local, pc :
          /\ pc \in {"count", "persist"}
          /\ Resume(r, local, pc) /\ local.row = req[r].local.row
          /\ UNCHANGED <<appts, leads, logs, failed, history>>
          /\ req[r].pc \in {"read", "count"}
    <3>1. req[r].local \in Local
      BY <1>1 DEF RequestState
    <3>2. CASE ReadLead(r)
      <4>. DEFINE local == [req[r].local EXCEPT !.age = leads[req[r].local.row.lead_id].age]
      <4>1. local.row = req[r].local.row
        BY <3>1 DEF Local
      <4>2. Resume(r, local, "count") /\ UNCHANGED <<appts, leads, logs, failed, history>>
              /\ req[r].pc = "read"
        BY <3>2 DEF ReadLead, At
      <4>. HIDE DEF local
      <4>. QED  BY <4>1, <4>2
    <3>3. CASE CountEvidence(r)
      <4>. DEFINE score == Score(LeadRow(req[r].local.age),
                                 EvidenceOf(req[r].local.row.lead_id))
                  local == [req[r].local EXCEPT !.score = score, !.outdated = FALSE]
      <4>1. Resume(r, local, "persist") /\ UNCHANGED <<appts, leads, logs, failed, history>>
              /\ req[r].pc = "count"
        BY <3>3 DEF CountEvidence, At
      <4>. HIDE DEF score
      <4>2. local.row = req[r].local.row
        BY <3>1 DEF Local
      <4>. HIDE DEF local
      <4>. QED  BY <4>1, <4>2
    <3>. QED  BY <1>5, <3>2, <3>3
  <2>. QED  BY <1>1, <2>1 DEF Resume, logs, history, BeforeWrite, Fault, Throw, RequestState
<1>6. CASE ReadSummary(r)
  BY <1>1, <1>6 DEF ReadSummary, At, Goto, logs, history, BeforeWrite, Fault, Throw,
     RequestState
<1>7. CASE Fault(r)
  BY <1>7 DEF Fault, Throw, logs, history
<1>. QED  BY <1>2, <1>3, <1>4, <1>5, <1>6, <1>7 DEF Quiet

\* Every step is quiet, writes an appointment, or does one of four things more.
LEMMA StepsSplit ==
  ASSUME NEW r \in Request, Start(r) \/ Step(r) \/ Fault(r)
  PROVE  \/ Quiet(r) \/ Writes(r) \/ WriteAudit(r) \/ EmitEvent(r)
         \/ TouchLead(r) \/ PersistScore(r)
BY DEF Step, Quiet, Writes

LEMMA StaysTyped == Spec => []TypeInv
BY InitTypeInv, NextTypeInv, PTL DEF Spec

-----------------------------------------------------------------------------
\* A window that is written was checked against the row that was read: the end
\* that was not given is that of the row still, unless the appointment is raced.
LEMMA WindowKept ==
  ASSUME TypeInv, WindowUnlessRaced, NEW r \in Request, Writes(r)
  PROVE  WindowUnlessRaced'
<1>1. PICK a \in Appointment, row \in AppointmentRow :
        /\ Write(r, a, row)
        /\ \/ req[r].op = "create" /\ appts[a] = NULL /\ row = NewRow(req[r].args)
           \/ /\ req[r].appt = a /\ appts[a] \in AppointmentRow
              /\ \/ req[r].op = "update" /\ row = Revised(req[r].args, appts[a])
                 \/ /\ req[r].op \in {"confirm", "cancel"}
                    /\ row.start_at = appts[a].start_at /\ row.end_at = appts[a].end_at
  BY WhatIsWritten
<1>2. At(r, "write") /\ req[r].op \in AllOps
  BY WhatIsWritten
<1>3. /\ appts' = [appts EXCEPT ![a] = row] /\ appts \in [Appointment -> AppointmentRow \cup {NULL}]
      /\ raced' = IF MovesOneEnd(req[r], a) THEN raced \cup {a}
                    ELSE IF SameWindow(a, row) THEN raced ELSE raced \ {a}
  BY <1>1 DEF Write, TypeInv, TypeOK
<1>4. a \notin raced' => row.start_at < row.end_at
  <2>1. SUFFICES ASSUME a \notin raced' PROVE row.start_at < row.end_at
    OBVIOUS
  <2>2. ~MovesOneEnd(req[r], a) /\ (SameWindow(a, row) => a \notin raced)
    BY <1>3, <2>1
  <2>3. CASE req[r].op = "create"
    BY <1>1, <1>2, <2>3, RowType, AppointmentsAssumption DEF NewRow, IsWindow, Given
  <2>4. CASE req[r].op = "update"
    <3>0. /\ row = Revised(req[r].args, appts[a]) /\ appts[a] # NULL
          /\ IsWindow(req[r].args, req[r].local.seen)
      BY <1>1, <1>2, <2>4, RowType, AppointmentsAssumption
    <3>1. CASE req[r].args.start_at = UNSET /\ req[r].args.end_at = UNSET
      <4>1. row.start_at = appts[a].start_at /\ row.end_at = appts[a].end_at
        BY <3>0, <3>1 DEF Revised, Given
      <4>. QED  BY <3>0, <4>1, <2>2 DEF SameWindow, WindowUnlessRaced, IsInterval
    <3>2. CASE req[r].args.start_at # UNSET \/ req[r].args.end_at # UNSET
      BY <3>0, <3>2, <2>2 DEF MovesOneEnd, Revised, IsWindow, Given
    <3>. QED  BY <3>1, <3>2
  <2>5. CASE req[r].op \in {"confirm", "cancel"}
    <3>1. appts[a] # NULL
      BY <1>1, <2>5, AppointmentsAssumption
    <3>. QED  BY <1>1, <2>2, <2>5, <3>1 DEF SameWindow, WindowUnlessRaced, IsInterval
  <2>. QED  BY <1>2, <2>3, <2>4, <2>5 DEF AllOps
<1>. QED  BY <1>3, <1>4 DEF WindowUnlessRaced, IsInterval

\* validateTimeWindow: every appointment starts before it ends, unless a request
\* that moved one end of it overlapped one that had moved the other, and nobody
\* has set the window since.
THEOREM WindowsHold == Spec => []WindowUnlessRaced
<1>1. Init => WindowUnlessRaced
  BY AppointmentsAssumption DEF Init, WindowUnlessRaced, IsInterval
<1>2. TypeInv /\ WindowUnlessRaced /\ [Next]_vars => WindowUnlessRaced'
  <2>. SUFFICES ASSUME TypeInv, WindowUnlessRaced, [Next]_vars PROVE WindowUnlessRaced'
    OBVIOUS
  <2>1. CASE UNCHANGED <<appts, raced>>
    BY <2>1 DEF WindowUnlessRaced, IsInterval
  <2>2. ASSUME NEW r \in Request, Writes(r) PROVE WindowUnlessRaced'
    BY <2>2, WindowKept
  <2>3. ASSUME NEW r \in Request, Quiet(r) PROVE UNCHANGED <<appts, raced>>
    BY <2>3, QuietEffect
  <2>4. ASSUME NEW r \in Request,
               WriteAudit(r) \/ EmitEvent(r) \/ TouchLead(r) \/ PersistScore(r)
        PROVE  UNCHANGED <<appts, raced>>
    BY <2>4 DEF WriteAudit, EmitEvent, TouchLead, PersistScore, history
  <2>. QED  BY <2>1, <2>2, <2>3, <2>4, StepsSplit DEF Next, vars, history
<1>. QED  BY <1>1, <1>2, StaysTyped, PTL DEF Spec

-----------------------------------------------------------------------------
\* Who confirms or cancels has seen a status that allows it, and the row replaced
\* has that status still, unless it has changed in between.
LEMMA WriteKeepsOutcome ==
  ASSUME TypeInv, NEW r \in Request, Writes(r),
         NEW a \in Appointment, appts[a] # NULL, ~NamesStatus(r, a), ~Misjudges(r, a)
  PROVE  /\ appts[a].status = "CANCELED" => appts'[a].status = "CANCELED"
         /\ appts[a].status \in {"SHOWED", "NO_SHOW"} => appts'[a].status # "CANCELED"
<1>. DEFINE q == req[r]
<1>0. At(r, "write") /\ appts \in [Appointment -> AppointmentRow \cup {NULL}]
  BY WhatIsWritten DEF TypeInv, TypeOK
<1>1. CASE CreateAppointment(r)
  BY <1>0, <1>1 DEF CreateAppointment, Write
<1>2. CASE UpdateAppointment(r)
  <2>1. q.appt = a => q.args.status = UNSET
    BY <1>2 DEF NamesStatus
  <2>. QED  BY <1>0, <1>2, <2>1 DEF UpdateAppointment, Write, Given
<1>3. CASE ConfirmAppointment(r) \/ CancelAppointment(r)
  <2>1. ~Refuses(q.op, q.local.seen) /\ q.op \in {"confirm", "cancel"}
    BY <1>0, <1>3, RowType DEF ConfirmAppointment, CancelAppointment
  <2>2. q.appt = a => q.local.seen.status = appts[a].status
    BY <1>3 DEF Misjudges
  <2>3. q.appt = a => /\ q.op = "confirm" => appts[a].status # "CANCELED"
                      /\ q.op = "cancel" => appts[a].status \notin {"SHOWED", "NO_SHOW"}
    BY <2>1, <2>2 DEF Refuses
  <2>4. q.appt # a => appts'[a] = appts[a]
    BY <1>0, <1>3 DEF ConfirmAppointment, CancelAppointment, Write
  <2>5. q.appt = a => appts'[a].status = IF q.op = "confirm" THEN "CONFIRMED" ELSE "CANCELED"
    BY <1>0, <1>3 DEF ConfirmAppointment, CancelAppointment, Write, AppointmentRow
  <2>. QED  BY <2>1, <2>3, <2>4, <2>5
<1>. QED  BY <1>1, <1>2, <1>3 DEF Writes

\* confirmAppointment, cancelAppointment: in every execution what is canceled
\* stays canceled and what is over is not canceled, unless the status changed
\* between reading and writing or an update names it.
THEOREM OutcomesStand == Spec => OutcomeStands
<1>1. TypeInv /\ [Next]_vars =>
        [\A a \in Appointment : appts[a] # NULL =>
           \/ \E r \in Request : NamesStatus(r, a) \/ Misjudges(r, a)
           \/ /\ appts[a].status = "CANCELED" => appts'[a].status = "CANCELED"
              /\ appts[a].status \in {"SHOWED", "NO_SHOW"} => appts'[a].status # "CANCELED"]_vars
  <2>. SUFFICES ASSUME TypeInv, Next, NEW a \in Appointment, appts[a] # NULL,
                       \A r \in Request : ~NamesStatus(r, a) /\ ~Misjudges(r, a)
                PROVE  /\ appts[a].status = "CANCELED" => appts'[a].status = "CANCELED"
                       /\ appts[a].status \in {"SHOWED", "NO_SHOW"} => appts'[a].status # "CANCELED"
    OBVIOUS
  <2>1. PICK r \in Request : Start(r) \/ Step(r) \/ Fault(r)
    BY DEF Next
  <2>2. CASE Writes(r)
    BY <2>2, WriteKeepsOutcome
  <2>3. CASE Quiet(r)
    BY <2>3, QuietEffect
  <2>4. CASE WriteAudit(r) \/ EmitEvent(r) \/ TouchLead(r) \/ PersistScore(r)
    BY <2>4 DEF WriteAudit, EmitEvent, TouchLead, PersistScore
  <2>. QED  BY <2>1, <2>2, <2>3, <2>4, StepsSplit
<1>. QED  BY <1>1, StaysTyped, PTL DEF Spec, OutcomeStands

-----------------------------------------------------------------------------
\* What is told stays told, and who has yet to tell still has.
LEMMA StillTold ==
  ASSUME StatusIsTold, events \subseteq events', UNCHANGED appts,
         \A s \in Request, a \in Appointment, status \in AppointmentStatus \ {"SET"} :
           OwesEvent(s, a, status) => \/ OwesEvent(s, a, status)'
                                      \/ \E e \in events' : e.appt = a /\ e.status = status,
         TypeInv
  PROVE  StatusIsTold'
<1>. SUFFICES ASSUME NEW a \in Appointment, appts[a] # NULL, appts[a].status # "SET"
              PROVE  \/ \E e \in events' : e.appt = a /\ e.status = appts[a].status
                     \/ \E s \in Request : OwesEvent(s, a, appts[a].status)'
  BY DEF StatusIsTold, OwesEvent, Wrote
<1>1. appts[a].status \in AppointmentStatus \ {"SET"}
  BY DEF TypeInv, TypeOK, AppointmentRow
<1>2. \/ \E e \in events : e.appt = a /\ e.status = appts[a].status
      \/ \E s \in Request : OwesEvent(s, a, appts[a].status)
  BY DEF StatusIsTold
<1>. QED  BY <1>1, <1>2

LEMMA WriteTells ==
  ASSUME TypeInv, StatusIsTold, NEW r \in Request, Writes(r)
  PROVE  StatusIsTold'
<1>1. PICK a \in Appointment, row \in AppointmentRow : Write(r, a, row)
  BY WhatIsWritten
<1>2. At(r, "write") /\ req[r].op \in AllOps
  BY WhatIsWritten
<1>3. /\ row # NULL /\ appts' = [appts EXCEPT ![a] = row]
      /\ req'[r].pc = "audit" /\ req'[r].appt = a /\ req'[r].local.row = row
      /\ \A s \in Request : s # r =>
           /\ req'[s].pc = req[s].pc /\ req'[s].appt = req[s].appt
           /\ req'[s].local.row = req[s].local.row
  BY <1>1, <1>2, WriteEffect
<1>4. events' = events /\ lost' = lost
  BY <1>1 DEF Write, logs
<1>5. ~Wrote(r)
  BY <1>2, RowType DEF Wrote
<1>6. ASSUME NEW status, status = row.status PROVE OwesEvent(r, a, status)'
  BY <1>3, <1>6 DEF OwesEvent, Wrote
<1>7. ASSUME NEW b \in Appointment, b # a, appts'[b] # NULL,
             NEW status, status = appts'[b].status, status # "SET"
      PROVE  \/ \E e \in events' : e.appt = b /\ e.status = status
             \/ \E s \in Request : OwesEvent(s, b, status)'
  <2>1. appts'[b] = appts[b]
    BY <1>3, <1>7 DEF TypeInv, TypeOK
  <2>2. ASSUME NEW s \in Request, OwesEvent(s, b, status)
        PROVE  OwesEvent(s, b, status)'
    BY <1>3, <1>4, <1>5, <2>2 DEF OwesEvent, Wrote
  <2>3. \/ \E e \in events : e.appt = b /\ e.status = status
        \/ \E s \in Request : OwesEvent(s, b, status)
    BY <1>7, <2>1 DEF StatusIsTold
  <2>. QED  BY <1>4, <2>2, <2>3
<1>8. appts'[a] = row
  BY <1>3 DEF TypeInv, TypeOK
<1>. QED  BY <1>6, <1>7, <1>8 DEF StatusIsTold, OwesEvent, Wrote

LEMMA LogsTell ==
  ASSUME TypeInv, StatusIsTold, NEW r \in Request, WriteAudit(r) \/ EmitEvent(r)
  PROVE  StatusIsTold'
<1>. DEFINE q == req[r]
<1>1. /\ q \in RequestState /\ q.local \in Local
      /\ q.pc \in {"audit", "emit"} /\ q.op \in AllOps /\ q.appt \in Appointment
      /\ q.local.row \in AppointmentRow /\ q.local.row # NULL
  BY DEF WriteAudit, EmitEvent, At, TypeInv, TypeOK, Located, Routed, Found, Carries,
         RequestState, Local
<1>2. PICK pc : Goto(r, pc) /\ (WriteAudit(r) => pc = IF Tells(q) THEN "emit" ELSE AfterLogs(q))
  BY DEF WriteAudit, EmitEvent
<1>3. /\ req'[r].local.row = q.local.row /\ req'[r].appt = q.appt /\ req'[r].pc = pc
      /\ \A s \in Request : s # r => req'[s] = req[s]
  BY <1>1, <1>2 DEF Goto, TypeInv, TypeOK, RequestState
<1>4. UNCHANGED appts /\ events \subseteq events' /\ lost \subseteq lost'
  BY DEF WriteAudit, EmitEvent, history
<1>5. ASSUME NEW s \in Request, NEW a \in Appointment,
             NEW status \in AppointmentStatus \ {"SET"}, OwesEvent(s, a, status)
      PROVE  \/ OwesEvent(s, a, status)'
             \/ \E e \in events' : e.appt = a /\ e.status = status
  <2>1. CASE s # r \/ r \in lost
    BY <1>3, <1>4, <1>5, <2>1 DEF OwesEvent, Wrote
  <2>2. CASE s = r /\ WriteAudit(r)
    <3>1. Tells(q)
      BY <1>1, <1>5, <2>2 DEF OwesEvent, Tells, AppointmentStatus
    <3>. QED  BY <1>1, <1>2, <1>3, <1>5, <2>2, <3>1 DEF OwesEvent, Wrote
  <2>3. CASE s = r /\ EmitEvent(r)
    <3>1. q.appt = a /\ q.local.row.status = status
      BY <1>5, <2>3 DEF OwesEvent
    <3>2. CASE r \in lost'
      BY <1>1, <1>3, <2>3, <3>1, <3>2 DEF OwesEvent, Wrote
    <3>3. CASE r \notin lost'
      <4>. DEFINE e == [req |-> r, type |-> EventName(q.op), appt |-> q.appt,
                        status |-> q.local.row.status]
      <4>1. e \in events'
        BY <2>3, <3>3 DEF EmitEvent
      <4>2. e.appt = a /\ e.status = status
        BY <3>1
      <4>. HIDE DEF e
      <4>. QED  BY <4>1, <4>2
    <3>. QED  BY <3>2, <3>3
  <2>. QED  BY <2>1, <2>2, <2>3
<1>. QED  BY <1>4, <1>5, StillTold

\* Every status in the table but SET is in the event log, or it was written by
\* a request that was cut short, whose event was lost, or that has yet to tell.
THEOREM StatusesAreTold == Spec => []StatusIsTold
<1>1. Init => StatusIsTold
  BY AppointmentsAssumption DEF Init, StatusIsTold
<1>2. TypeInv /\ StatusIsTold /\ [Next]_vars => StatusIsTold'
  <2>. SUFFICES ASSUME TypeInv, StatusIsTold, [Next]_vars PROVE StatusIsTold'
    OBVIOUS
  <2>1. CASE UNCHANGED vars
    BY <2>1 DEF vars, logs, history, StatusIsTold, OwesEvent, Wrote
  <2>2. ASSUME NEW r \in Request, Quiet(r) PROVE StatusIsTold'
    <3>1. ASSUME NEW s \in Request, NEW a \in Appointment, NEW status, OwesEvent(s, a, status)
          PROVE  OwesEvent(s, a, status)'
      BY <2>2, <3>1, QuietEffect DEF OwesEvent, Wrote
    <3>2. UNCHANGED <<appts, events>>
      BY <2>2, QuietEffect
    <3>. QED  BY <3>1, <3>2, StillTold
  <2>3. ASSUME NEW r \in Request, TouchLead(r) \/ PersistScore(r) PROVE StatusIsTold'
    <3>1. PICK pc : Goto(r, pc) /\ req[r].pc \in {"touch", "persist"}
                    /\ UNCHANGED <<appts, events, lost>>
      BY <2>3 DEF TouchLead, PersistScore, At, logs, history
    <3>2. /\ req'[r].local = req[r].local /\ req'[r].appt = req[r].appt
          /\ \A s \in Request : s # r => req'[s] = req[s]
      BY <3>1 DEF Goto, TypeInv, TypeOK, RequestState
    <3>3. ASSUME NEW s \in Request, NEW a \in Appointment, NEW status, OwesEvent(s, a, status)
          PROVE  OwesEvent(s, a, status)'
      BY <3>1, <3>2, <3>3 DEF OwesEvent, Wrote
    <3>. QED  BY <3>1, <3>3, StillTold
  <2>. QED  BY <2>1, <2>2, <2>3, WriteTells, LogsTell, StepsSplit DEF Next
<1>. QED  BY <1>1, <1>2, StaysTyped, PTL DEF Spec

-----------------------------------------------------------------------------
(***************************************************************************)
(* A handler that works on a score has touched the lead, so that the lead  *)
(* and the row it has read of it were active just now; and the score it is *)
(* about to store is that of the evidence, unless it has been overtaken.   *)
(***************************************************************************)
Informed(r) ==
  LET q == req[r]  l == q.local.row.lead_id IN
  /\ q.pc \in {"read", "count", "persist"} => leads[l].age = 0
  /\ q.pc \in {"count", "persist"} => q.local.age = 0
  /\ q.pc = "persist" /\ ~q.local.outdated => q.local.score = Score(LeadRow(0), EvidenceOf(l))

ScoreInv == ScoreFollowsAppointments /\ \A r \in Request : Informed(r)

\* The evidence of a lead is that of the appointments linked to it.
LEMMA EvidenceKept ==
  ASSUME TypeOK, NEW a \in Appointment, NEW row \in AppointmentRow,
         appts' = [appts EXCEPT ![a] = row], NEW l \in Lead, l \notin LeadsOf(a, row)
  PROVE  EvidenceOf(l)' = EvidenceOf(l)
<1>1. \A b \in Appointment : b # a => appts'[b] = appts[b]
  BY DEF TypeOK
<1>2. appts'[a] = row /\ row.lead_id # l /\ ~(appts[a] # NULL /\ appts[a].lead_id = l)
  BY DEF TypeOK, LeadsOf
<1>3. Linked(l)' = Linked(l) /\ a \notin Linked(l) /\ Linked(l) \subseteq Appointment
  BY <1>1, <1>2 DEF Linked
<1>4. \A b \in Linked(l) : appts'[b] = appts[b]
  BY <1>1, <1>3
<1>. QED  BY <1>3, <1>4 DEF EvidenceOf

\* As long as the evidence and the age of l stay, so does its score.
LEMMA SameScore ==
  ASSUME NEW l, leads'[l].age = leads[l].age, EvidenceOf(l)' = EvidenceOf(l)
  PROVE  ScoreOf(l)' = ScoreOf(l)
BY DEF ScoreOf, LeadRow

LEMMA QuietScores ==
  ASSUME TypeInv, ScoreInv, NEW r \in Request, Quiet(r)
  PROVE  ScoreInv'
<1>1. /\ UNCHANGED <<appts, leads, neglected>>
      /\ \A s \in Request : s # r => req'[s] = req[s]
  BY QuietEffect
<1>2. \A l : EvidenceOf(l)' = EvidenceOf(l)
  BY <1>1 DEF EvidenceOf, Linked
<1>3. \A l : ScoreOf(l)' = ScoreOf(l)
  BY <1>1, <1>2, SameScore
<1>4. ASSUME NEW s \in Request, NEW l, OwesScore(s, l) PROVE OwesScore(s, l)'
  BY <1>1, <1>4, QuietEffect DEF OwesScore, Wrote
<1>5. ScoreFollowsAppointments'
  BY <1>1, <1>3, <1>4 DEF ScoreInv, ScoreFollowsAppointments
<1>6. ASSUME NEW s \in Request, req'[s] = req[s] PROVE Informed(s)'
  BY <1>1, <1>2, <1>6 DEF ScoreInv, Informed, LeadRow
<1>7. Informed(r)'
  <2>1. CASE req[r].pc \in BeforeWrite
    BY <2>1, QuietEffect DEF Informed, BeforeWrite
  <2>2. CASE Fault(r)
    BY <1>6, <2>2, QuietEffect
  <2>3. CASE ReadLead(r)
    BY <1>1, <2>3, AtScoring
       DEF ReadLead, Resume, Informed, ScoreInv, At, Scoring, TypeInv, TypeOK, Local
  <2>4. CASE CountEvidence(r)
    <3>. DEFINE q == req[r]
                score == Score(LeadRow(q.local.age), EvidenceOf(q.local.row.lead_id))
                local == [q.local EXCEPT !.score = score, !.outdated = FALSE]
    <3>1. q \in RequestState /\ q.local \in Local /\ q.pc = "count"
      BY <2>4, AtScoring DEF CountEvidence, Scoring
    <3>2. Resume(r, local, "persist")
      BY <2>4 DEF CountEvidence
    <3>3. score = Score(LeadRow(0), EvidenceOf(q.local.row.lead_id))
            /\ q.local.age = 0 /\ leads[q.local.row.lead_id].age = 0
      BY <3>1 DEF ScoreInv, Informed
    <3>. HIDE DEF score
    <3>4. local.row = q.local.row /\ local.age = q.local.age /\ local.score = score
      BY <3>1 DEF Local
    <3>. HIDE DEF local
    <3>5. req'[r].local = local /\ req'[r].pc = "persist"
      BY <3>1, <3>2 DEF Resume, TypeInv, TypeOK, RequestState
    <3>. QED  BY <1>1, <1>2, <3>3, <3>4, <3>5 DEF Informed, LeadRow
  <2>5. CASE ReadSummary(r)
    BY <2>5 DEF ReadSummary, Goto, Informed, TypeInv, TypeOK, RequestState
  <2>. QED  BY <2>1, <2>2, <2>3, <2>4, <2>5
       DEF Quiet, Start, StartCreate, StartUpdate, StartConfirm, StartCancel, Begin,
           FindAppointment, ValidateLead, At, BeforeWrite
<1>. QED  BY <1>1, <1>5, <1>6, <1>7 DEF ScoreInv

\* A write owes the score of the lead that is linked now, gives up that of the
\* lead that loses the appointment, and overtakes the scores about to be stored.
LEMMA WriteScores ==
  ASSUME TypeInv, ScoreInv, NEW r \in Request, Writes(r)
  PROVE  ScoreInv'
<1>1. PICK a \in Appointment, row \in AppointmentRow : Write(r, a, row)
  BY WhatIsWritten
<1>2. At(r, "write") /\ req[r].op \in AllOps
  BY WhatIsWritten
<1>3. /\ row # NULL /\ appts' = [appts EXCEPT ![a] = row]
      /\ req'[r].pc = "audit" /\ req'[r].local.row = row
      /\ \A s \in Request : s # r =>
           /\ req'[s].pc = req[s].pc
           /\ req'[s].local.row = req[s].local.row
           /\ req'[s].local.age = req[s].local.age
           /\ req'[s].local.score = req[s].local.score
           /\ req[s].local.outdated \/ Overtakes(req[s], a, row) => req'[s].local.outdated
  BY <1>1, <1>2, WriteEffect
<1>4. leads' = leads /\ neglected' = neglected \cup (LeadsOf(a, row) \ {row.lead_id, NULL})
  BY <1>1 DEF Write
<1>5. ~Wrote(r)
  BY <1>2, RowType DEF Wrote
<1>6. \A l \in Lead : l \notin LeadsOf(a, row) => EvidenceOf(l)' = EvidenceOf(l)
  BY <1>3, EvidenceKept DEF TypeInv
<1>7. ASSUME NEW l \in Lead
      PROVE  \/ leads'[l].score = ScoreOf(l)'
             \/ l \in neglected'
             \/ \E s \in Request : OwesScore(s, l)'
  <2>1. CASE l \notin LeadsOf(a, row)
    <3>1. ScoreOf(l)' = ScoreOf(l)
      BY <1>4, <1>6, <2>1, SameScore
    <3>2. ASSUME NEW s \in Request, OwesScore(s, l) PROVE OwesScore(s, l)'
      BY <1>3, <1>5, <3>2 DEF OwesScore, Wrote
    <3>. QED  BY <1>4, <3>1, <3>2 DEF ScoreInv, ScoreFollowsAppointments
  <2>2. CASE l = row.lead_id
    BY <1>3, <2>2 DEF OwesScore, Wrote
  <2>3. CASE l \in LeadsOf(a, row) /\ l # row.lead_id
    BY <1>4, <2>3, AppointmentsAssumption
  <2>. QED  BY <2>1, <2>2, <2>3
<1>8. Informed(r)'
  BY <1>3 DEF Informed
<1>9. ASSUME NEW s \in Request, s # r PROVE Informed(s)'
  <2>. DEFINE l == req[s].local.row.lead_id
  <2>1. /\ req'[s].pc = req[s].pc /\ req'[s].local.row = req[s].local.row
        /\ req'[s].local.age = req[s].local.age /\ req'[s].local.score = req[s].local.score
        /\ req[s].local.outdated \/ Overtakes(req[s], a, row) => req'[s].local.outdated
    BY <1>3, <1>9
  <2>2. req[s].pc = "persist" => l \in Lead
    BY DEF TypeInv, Located, Carries, Scoring
  <2>3. req[s].pc = "persist" /\ ~req'[s].local.outdated
          => EvidenceOf(l)' = EvidenceOf(l) /\ ~req[s].local.outdated
    BY <1>6, <2>1, <2>2 DEF Overtakes
  <2>. QED  BY <1>4, <2>1, <2>3 DEF ScoreInv, Informed, LeadRow
<1>. QED  BY <1>7, <1>8, <1>9 DEF ScoreInv, ScoreFollowsAppointments

\* The logs and the touch keep the score owed, and the store settles it.
LEMMA StepScores ==
  ASSUME TypeInv, ScoreInv, NEW r \in Request,
         WriteAudit(r) \/ EmitEvent(r) \/ TouchLead(r) \/ PersistScore(r)
  PROVE  ScoreInv'
<1>. DEFINE q == req[r]
<1>1. q \in RequestState /\ q.local \in Local /\ Located(r) /\ r \in Request
  BY DEF TypeInv, TypeOK, RequestState
<1>2. PICK pc : Goto(r, pc)
  BY DEF WriteAudit, EmitEvent, TouchLead, PersistScore
<1>3. /\ req'[r].local = q.local /\ req'[r].pc = pc
      /\ \A s \in Request : s # r => req'[s] = req[s]
  BY <1>1, <1>2 DEF Goto, TypeInv, TypeOK, RequestState
<1>4. UNCHANGED appts
  BY DEF WriteAudit, EmitEvent, TouchLead, PersistScore
<1>5. \A l : EvidenceOf(l)' = EvidenceOf(l)
  BY <1>4 DEF EvidenceOf, Linked
<1>6. CASE WriteAudit(r) \/ EmitEvent(r)
  <2>1. leads' = leads /\ neglected' = neglected
    BY <1>6 DEF WriteAudit, EmitEvent, history
  <2>2. pc \in {"emit", "end", "touch"} /\ (pc = "end" => q.local.row.lead_id = NULL)
    BY <1>2, <1>3, <1>6 DEF WriteAudit, EmitEvent, AfterLogs, Goto, TypeInv, TypeOK,
       RequestState
  <2>3. \A l : ScoreOf(l)' = ScoreOf(l)
    BY <1>5, <2>1, SameScore
  <2>4. ASSUME NEW s \in Request, NEW l \in Lead, OwesScore(s, l) PROVE OwesScore(s, l)'
    BY <1>3, <2>2, <2>4, AppointmentsAssumption DEF OwesScore, Wrote
  <2>5. ASSUME NEW s \in Request PROVE Informed(s)'
    BY <1>3, <1>5, <2>1, <2>2, <2>5 DEF ScoreInv, Informed, LeadRow
  <2>. QED  BY <2>1, <2>3, <2>4, <2>5 DEF ScoreInv, ScoreFollowsAppointments
<1>7. CASE TouchLead(r)
  <2>1. PICK m \in Lead : q.local.row.lead_id = m /\ q.pc = "touch" /\ q.local.row # NULL
    BY <1>7, AtScoring DEF TouchLead, Scoring, At
  <2>2. pc = "read"
    BY <1>3, <1>1, <1>7 DEF TouchLead, Goto, TypeInv, TypeOK, RequestState
  <2>3. leads' = [leads EXCEPT ![m].age = 0] /\ neglected' = neglected
    BY <1>7, <2>1 DEF TouchLead, history
  <2>4. /\ leads'[m].age = 0
        /\ \A l \in Lead : leads'[l].score = leads[l].score
        /\ \A l \in Lead : l # m => leads'[l] = leads[l]
    BY <2>1, <2>3 DEF TypeInv, TypeOK
  <2>5. OwesScore(r, m)'
    BY <1>3, <2>1, <2>2 DEF OwesScore, Wrote
  <2>6. \A l \in Lead : l # m => ScoreOf(l)' = ScoreOf(l)
    BY <1>5, <2>4, SameScore
  <2>7. ASSUME NEW s \in Request, NEW l \in Lead, l # m, OwesScore(s, l)
        PROVE  OwesScore(s, l)'
    BY <1>3, <2>1, <2>7 DEF OwesScore, Wrote
  <2>8. ScoreFollowsAppointments'
    BY <2>3, <2>4, <2>5, <2>6, <2>7 DEF ScoreInv, ScoreFollowsAppointments
  <2>9. Informed(r)'
    BY <1>3, <2>1, <2>2, <2>4 DEF Informed
  <2>10. ASSUME NEW s \in Request, s # r PROVE Informed(s)'
    <3>1. req[s].pc \in Scoring => req[s].local.row.lead_id \in Lead
      BY DEF TypeInv, Located, Carries
    <3>. QED  BY <1>3, <1>5, <2>4, <2>10, <3>1 DEF ScoreInv, Informed, LeadRow, Scoring
  <2>. QED  BY <2>8, <2>9, <2>10 DEF ScoreInv
<1>8. CASE PersistScore(r)
  <2>1. PICK m \in Lead : q.local.row.lead_id = m /\ q.pc = "persist"
    BY <1>8, AtScoring DEF PersistScore, Scoring, At
  <2>2. pc = "summary"
    BY <1>3, <1>1, <1>8 DEF PersistScore, Goto, TypeInv, TypeOK, RequestState
  <2>3. /\ leads' = [leads EXCEPT ![m].score = q.local.score]
        /\ neglected' = IF q.local.outdated THEN neglected \cup {m} ELSE neglected \ {m}
    BY <1>8, <2>1 DEF PersistScore
  <2>4. /\ leads'[m].score = q.local.score
        /\ \A l \in Lead : leads'[l].age = leads[l].age
        /\ \A l \in Lead : l # m => leads'[l] = leads[l]
    BY <2>1, <2>3 DEF TypeInv, TypeOK
  <2>5. \A l \in Lead : ScoreOf(l)' = ScoreOf(l)
    BY <1>5, <2>4, SameScore
  <2>6. leads'[m].score = ScoreOf(m)' \/ m \in neglected'
    <3>1. CASE q.local.outdated
      BY <2>3, <3>1
    <3>2. CASE ~q.local.outdated
      <4>1. leads[m].age = 0 /\ q.local.score = Score(LeadRow(0), EvidenceOf(m))
        BY <2>1, <3>2 DEF ScoreInv, Informed
      <4>2. q.local.score = ScoreOf(m)
        BY <4>1 DEF ScoreOf
      <4>. QED  BY <2>1, <2>4, <2>5, <4>2
    <3>. QED  BY <3>1, <3>2
  <2>7. ASSUME NEW l \in Lead, l # m
        PROVE  \/ leads'[l].score = ScoreOf(l)'
               \/ l \in neglected'
               \/ \E s \in Request : OwesScore(s, l)'
    <3>1. ASSUME NEW s \in Request, OwesScore(s, l) PROVE OwesScore(s, l)'
      BY <1>3, <2>1, <2>7, <3>1 DEF OwesScore, Wrote
    <3>2. l \in neglected => l \in neglected'
      BY <2>3, <2>7
    <3>. QED  BY <2>4, <2>5, <2>7, <3>1, <3>2 DEF ScoreInv, ScoreFollowsAppointments
  <2>8. Informed(r)'
    BY <1>3, <2>2 DEF Informed
  <2>9. ASSUME NEW s \in Request, s # r PROVE Informed(s)'
    <3>1. req[s].pc \in Scoring => req[s].local.row.lead_id \in Lead
      BY DEF TypeInv, Located, Carries
    <3>. QED  BY <1>3, <1>5, <2>4, <2>9, <3>1 DEF ScoreInv, Informed, LeadRow, Scoring
  <2>. QED  BY <2>6, <2>7, <2>8, <2>9 DEF ScoreInv, ScoreFollowsAppointments
<1>. QED  BY <1>6, <1>7, <1>8

\* refreshLeadScoreIfLinked: the stored score of a lead is the score of the
\* appointments linked to it, unless somebody who changed one is not done with
\* it, an appointment was moved away, or the last score stored was overtaken.
THEOREM ScoresFollow == Spec => []ScoreFollowsAppointments
<1>1. Init => ScoreInv
  BY DEF Init, ScoreInv, ScoreFollowsAppointments, ScoreOf, Informed, Idle
<1>2. TypeInv /\ ScoreInv /\ [Next]_vars => ScoreInv'
  <2>. SUFFICES ASSUME TypeInv, ScoreInv, [Next]_vars PROVE ScoreInv'
    OBVIOUS
  <2>1. CASE UNCHANGED vars
    BY <2>1 DEF vars, ScoreInv, ScoreFollowsAppointments, Informed, OwesScore, Wrote,
       ScoreOf, EvidenceOf, Linked, LeadRow, history
  <2>. QED  BY <2>1, QuietScores, WriteScores, StepScores, StepsSplit DEF Next
<1>3. ScoreInv => ScoreFollowsAppointments
  BY DEF ScoreInv
<1>. QED  BY <1>1, <1>2, <1>3, StaysTyped, PTL DEF Spec
=============================================================================

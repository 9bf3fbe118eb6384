---------------------------- MODULE Leads_proofs ----------------------------
(***************************************************************************)
(* Proofs about the leads of a dealership, for any number of requests,     *)
(* leads and users.                                                        *)
(***************************************************************************)
EXTENDS Leads, TLAPS

-----------------------------------------------------------------------------
\* The score of a row is in its range, see Figures_proofs.
LEMMA ScoreInRange ==
  ASSUME NEW row \in ScoredLead, NEW e \in Evidence
  PROVE  Score(row, e) \in MIN_LEAD_SCORE .. MAX_LEAD_SCORE
<1>. USE DEF Points
<1>1. Contactability(row.contact) \in Int
  BY DEF ScoredLead, Contact, Contactability
<1>2. Engagement(e) \in Int /\ AppointmentPoints(e) \in Int /\ Penalty(e) \in Int
  BY DEF Evidence, Engagement, EngagementRaw, AppointmentPoints, Penalty
<1>3. LEAD_STAGE_SCORES[row.status] \in Int /\ Freshness(row.age) \in Int
  <2>1. LEAD_STAGE_SCORES[row.status] \in Int
    BY DEF ScoredLead, LeadStatus, LEAD_STAGE_SCORES
  <2>2. CASE row.age = NoActivity
    BY <2>1, <2>2, NoActivityAssumption DEF Freshness
  <2>3. CASE row.age \in Int
    BY <2>1, <2>3, DayAssumption, NoActivityAssumption DEF Freshness
  <2>. QED  BY <2>2, <2>3 DEF ScoredLead
<1>4. Unclamped(row, e) \in Int
  BY <1>1, <1>2, <1>3 DEF Unclamped
<1>. QED  BY <1>4 DEF Score, Clamp, MIN_LEAD_SCORE, MAX_LEAD_SCORE

\* Helpers keep their types.
LEMMA PatchContactType ==
  ASSUME NEW p \in ContactPatch, NEW c \in Contact
  PROVE  PatchContact(p, c) \in Contact
BY LeadsAssumption DEF ContactPatch, Contact, Flag, PatchContact, Given

LEMMA NoContactType == NoContact \in Contact /\ NoPatch \in ContactPatch
BY DEF NoContact, NoPatch, Contact, ContactPatch, Flag

LEMMA ScoredColumnsType ==
  ASSUME NEW row \in Row
  PROVE  ScoredColumns(row) \in ScoredLead
BY DEF Row, ScoredColumns, ScoredLead

LEMMA NoArgsType == NoArgs \in Args
BY NoContactType DEF NoArgs, Args

LEMMA BlankType == Blank \in Local
BY DEF Blank, Local, MIN_LEAD_SCORE, MAX_LEAD_SCORE

LEMMA IdleType == Idle \in RequestState
BY NoArgsType, BlankType DEF Idle, RequestState, PC

LEMMA PayloadType == Payload \subseteq Args
BY LeadsAssumption DEF Payload, Args

\* A request may be given another position, other arguments or other locals.
LEMMA MovedType ==
  ASSUME NEW q \in RequestState, NEW pc \in PC
  PROVE  [q EXCEPT !.pc = pc] \in RequestState
BY DEF RequestState

LEMMA LocalType ==
  ASSUME NEW q \in RequestState, NEW v \in Local
  PROVE  [q EXCEPT !.local = v] \in RequestState
BY DEF RequestState

LEMMA ResumeType ==
  ASSUME TypeOK, NEW r \in Request, NEW loc \in Local, NEW pc \in PC, Resume(r, loc, pc)
  PROVE  req' \in [Request -> RequestState]
<1>1. [req[r] EXCEPT !.local = loc, !.pc = pc] \in RequestState
  BY DEF TypeOK, RequestState
<1>. QED  BY <1>1 DEF TypeOK, Resume

\* Throwing changes nothing but the request's fate.
LEMMA ThrowType ==
  ASSUME TypeOK, NEW r \in Request, Throw(r)
  PROVE  TypeOK'
<1>1. [req[r] EXCEPT !.local = Blank] \in RequestState
  BY BlankType, LocalType DEF TypeOK
<1>2. req' \in [Request -> RequestState]
  BY <1>1 DEF Throw, TypeOK
<1>. QED  BY <1>2 DEF Throw, TypeOK, tables, members

-----------------------------------------------------------------------------
(***************************************************************************)
(* Where a request is tells what it carries. TypeOK is not inductive       *)
(* without it: a write of a lead keeps the type of the table only because  *)
(* the lead was found earlier and leads are never deleted.                 *)
(***************************************************************************)
Arrived(q) ==
  /\ q.op \in AllOps
  /\ q.op = "status" => q.args.status \in LeadStatus
  /\ q.op # "create" \/ q.pc \notin BeforeWrite => q.lead \in Lead
  /\ q.pc = "ensure" => q.op # "create"
  /\ q.op = "rescore" => q.pc \in {"read", "count", "persist", "end"}
  /\ q.op = "activity" => q.pc \notin {"summary", "emit", "emitAssigned"}

Found(q) ==
  \/ q.pc \in {"idle", "ensure"}
  \/ q.op = "create" /\ q.pc \in BeforeWrite
  \/ q.op = "rescore" /\ q.pc = "read"
  \/ leads[q.lead] # NULL

Holds(q) == q.pc = "count" => q.local.row \in ScoredLead

Located(r) ==
  /\ req[r].pc # "idle" => Arrived(req[r])
  /\ Found(req[r])
  /\ r \notin failed => Holds(req[r])

AllLocated == \A r \in Request : Located(r)

TypeInv == TypeOK /\ AllLocated

-----------------------------------------------------------------------------
LEMMA InitType == Init => TypeOK
<1>. SUFFICES ASSUME Init PROVE TypeOK
  OBVIOUS
<1>1. leads \in [Lead -> Row \cup {NULL}]
  BY InitialRowAssumption DEF Init
<1>2. evidence \in [Lead -> Evidence]
  BY LeadsAssumption DEF Init
<1>3. req \in [Request -> RequestState]
  BY IdleType DEF Init
<1>. QED  BY <1>1, <1>2, <1>3, LeadsAssumption DEF Init, TypeOK

-----------------------------------------------------------------------------
(***************************************************************************)
(* Each step preserves the types: the steps that change only the requests, *)
(* the writes of the Lead table, and the logs.                             *)
(***************************************************************************)
LEMMA BeginType ==
  ASSUME TypeOK, NEW r \in Request, NEW op, NEW u, NEW l \in Lead \cup {NULL},
         NEW pc \in PC, NEW args \in Args, Begin(r, op, u, l, pc, args)
  PROVE  TypeOK'
<1>1. u \in User \cup {NULL} /\ op \in AllOps
  BY LeadsAssumption DEF Begin, Admitted, TypeOK
<1>2. TenantRole(u) \in Role \cup {NULL}
  BY <1>1 DEF TenantRole, TypeOK, Role
<1>3. [pc |-> pc, op |-> op, actor |-> u, role |-> TenantRole(u),
       lead |-> l, args |-> args, local |-> Blank] \in RequestState
  BY <1>1, <1>2, BlankType DEF RequestState
<1>4. req' \in [Request -> RequestState]
  BY <1>3 DEF Begin, TypeOK
<1>. QED  BY <1>4 DEF Begin, TypeOK, tables, members

LEMMA EnsureLeadExistsType ==
  ASSUME TypeOK, NEW r \in Request, EnsureLeadExists(r), req[r].lead \in Lead
  PROVE  TypeOK'
<1>1. CASE Throw(r)
  BY <1>1, ThrowType
<1>2. CASE ~Throw(r)
  <2>. DEFINE l == req[r].lead
              loc == [req[r].local EXCEPT !.seen = leads[l].status]
              pc == CASE req[r].op = "update" -> "source"
                      [] req[r].op = "assign" -> "assignee"
                      [] OTHER -> "write"
  <2>1. leads[l] # NULL /\ leads[l] \in Row
    BY <1>2 DEF EnsureLeadExists, TypeOK
  <2>2. loc \in Local
    <3>1. req[r].local \in Local
      BY DEF TypeOK, RequestState
    <3>2. leads[l].status \in LeadStatus
      BY <2>1 DEF Row
    <3>. QED  BY <3>1, <3>2 DEF Local
  <2>3. pc \in PC
    BY DEF PC
  <2>4. Resume(r, loc, pc)
    BY <1>2 DEF EnsureLeadExists
  <2>5. req' \in [Request -> RequestState]
    BY <2>2, <2>3, <2>4, ResumeType
  <2>. QED  BY <1>2, <2>5 DEF EnsureLeadExists, TypeOK, tables, members
<1>. QED  BY <1>1, <1>2

LEMMA ResolveSourceType ==
  ASSUME TypeOK, NEW r \in Request, ResolveSource(r)
  PROVE  TypeOK'
<1>1. [req[r] EXCEPT !.pc = "assignee"] \in RequestState
  BY MovedType DEF TypeOK, PC
<1>2. req' \in [Request -> RequestState]
  BY <1>1 DEF ResolveSource, Goto, TypeOK
<1>3. sources' \subseteq Source
  BY DEF ResolveSource, TypeOK, RequestState, Args
<1>. QED  BY <1>2, <1>3 DEF ResolveSource, TypeOK, members

LEMMA ValidateAssigneeType ==
  ASSUME TypeOK, NEW r \in Request, ValidateAssignee(r)
  PROVE  TypeOK'
<1>1. CASE Throw(r)
  BY <1>1, ThrowType
<1>2. CASE ~Throw(r)
  <2>. DEFINE u == AssigneeOf(req[r])
              args == [req[r].args EXCEPT !.assignee = u]
  <2>1. u \in User \cup {UNSET}
    BY <1>2, LeadsAssumption DEF ValidateAssignee, TypeOK
  <2>2. args \in Args
    BY <2>1 DEF TypeOK, RequestState, Args
  <2>3. [req[r] EXCEPT !.args = args, !.pc = "write"] \in RequestState
    BY <2>2 DEF TypeOK, RequestState, PC
  <2>4. req' = [req EXCEPT ![r] = [req[r] EXCEPT !.args = args, !.pc = "write"]]
    BY <1>2 DEF ValidateAssignee, TypeOK, RequestState, Args
  <2>5. req' \in [Request -> RequestState]
    BY <2>3, <2>4 DEF TypeOK
  <2>. QED  BY <1>2, <2>5 DEF ValidateAssignee, TypeOK, tables, members
<1>. QED  BY <1>1, <1>2

LEMMA OutdatedType ==
  ASSUME NEW v \in Local, NEW b \in BOOLEAN
  PROVE  [v EXCEPT !.outdated = b] \in Local
BY DEF Local

\* Every request after a write, the writer and those it overtakes.
LEMMA WrittenType ==
  ASSUME TypeOK, NEW r \in Request, NEW l \in Lead, Written(r, l)
  PROVE  req' \in [Request -> RequestState]
<1>. SUFFICES ASSUME NEW q \in Request
              PROVE  req'[q] \in RequestState
  BY DEF Written
<1>1. CASE q = r
  BY <1>1 DEF Written, TypeOK, RequestState, PC
<1>2. CASE q # r
  <2>. DEFINE loc == [req[q].local EXCEPT !.outdated = @ \/ Overtakes(l, req[q])]
  <2>1. loc \in Local
    <3>1. req[q].local \in Local
      BY DEF TypeOK, RequestState
    <3>2. (req[q].local.outdated \/ Overtakes(l, req[q])) \in BOOLEAN
      OBVIOUS
    <3>. QED  BY <3>1, <3>2, OutdatedType
  <2>2. [req[q] EXCEPT !.local = loc] \in RequestState
    BY <2>1, LocalType DEF TypeOK
  <2>3. req'[q] = [req[q] EXCEPT !.local = loc]
    BY <1>2 DEF Written, TypeOK, RequestState
  <2>. QED  BY <2>2, <2>3
<1>. QED  BY <1>1, <1>2

\* A handler that writes has an argument where the column needs one.
LEMMA GivenType ==
  ASSUME NEW S, NEW arg \in S \cup {UNSET}, NEW old \in S
  PROVE  Given(arg, old) \in S
BY DEF Given

LEMMA NewRowType ==
  ASSUME NEW a \in Args
  PROVE  NewRow(a) \in Row
<1>1. Given(a.status, "NEW") \in LeadStatus
  BY DEF Args, Given, LeadStatus
<1>2. OrNull(a.source) \in Source \cup {NULL} /\ OrNull(a.assignee) \in User \cup {NULL}
  BY DEF Args, OrNull, Given
<1>3. PatchContact(a.contact, NoContact) \in Contact
  BY PatchContactType, NoContactType DEF Args
<1>4. Given(a.age, NoActivity) \in Int \cup {NoActivity}
  BY DEF Args, Given
<1>5. 0 \in MIN_LEAD_SCORE .. MAX_LEAD_SCORE
  BY DEF MIN_LEAD_SCORE, MAX_LEAD_SCORE
<1>. QED  BY <1>1, <1>2, <1>3, <1>4, <1>5 DEF NewRow, Row

LEMMA CreateLeadType ==
  ASSUME TypeInv, NEW r \in Request, CreateLead(r)
  PROVE  TypeOK'
<1>1. NewRow(req[r].args) \in Row
  BY NewRowType DEF TypeInv, TypeOK, RequestState
<1>2. leads' \in [Lead -> Row \cup {NULL}]
  BY <1>1 DEF CreateLead, TypeInv, TypeOK
<1>3. req' \in [Request -> RequestState]
  BY WrittenType DEF CreateLead, TypeInv
<1>. QED  BY <1>2, <1>3 DEF CreateLead, TypeInv, TypeOK, members

\* The writes of a lead that was found put a row in the place of a row.
Rewrites(r) == \E row \in Row : leads' = [leads EXCEPT ![req[r].lead] = row]

LEMMA FoundRow ==
  ASSUME TypeInv, NEW r \in Request,
         req[r].pc \in {"source", "assignee", "write", "count", "persist", "summary",
                        "audit", "emit", "emitAssigned"},
         req[r].op # "create" \/ req[r].pc \notin BeforeWrite
  PROVE  req[r].lead \in Lead /\ leads[req[r].lead] \in Row
BY DEF TypeInv, TypeOK, AllLocated, Located, Arrived, Found, BeforeWrite

LEMMA UpdateLeadType ==
  ASSUME TypeInv, NEW r \in Request, UpdateLead(r)
  PROVE  TypeOK' /\ Rewrites(r)
<1>. DEFINE a == req[r].args
            l == req[r].lead
            row == [leads[l] EXCEPT
                      !.status = Given(a.status, @), !.source = Given(a.source, @),
                      !.assignee = Given(a.assignee, @),
                      !.contact = PatchContact(a.contact, @), !.age = Given(a.age, @)]
<1>1. l \in Lead /\ leads[l] \in Row
  BY FoundRow DEF UpdateLead, At
<1>2. a \in Args
  BY DEF TypeInv, TypeOK, RequestState
<1>3. Given(a.status, leads[l].status) \in LeadStatus
  BY <1>1, <1>2 DEF Args, Row, Given
<1>4. Given(a.source, leads[l].source) \in Source \cup {NULL}
  BY <1>1, <1>2 DEF Args, Row, Given
<1>5. Given(a.assignee, leads[l].assignee) \in User \cup {NULL}
  BY <1>1, <1>2 DEF Args, Row, Given
<1>6. PatchContact(a.contact, leads[l].contact) \in Contact
  BY <1>1, <1>2, PatchContactType DEF Args, Row
<1>7. Given(a.age, leads[l].age) \in Int \cup {NoActivity}
  BY <1>1, <1>2 DEF Args, Row, Given
<1>8. row \in Row
  BY <1>1, <1>3, <1>4, <1>5, <1>6, <1>7 DEF Row
<1>9. leads' \in [Lead -> Row \cup {NULL}]
  BY <1>1, <1>8 DEF UpdateLead, TypeInv, TypeOK
<1>10. req' \in [Request -> RequestState]
  BY <1>1, WrittenType DEF UpdateLead, TypeInv
<1>11. Rewrites(r)
  BY <1>8 DEF UpdateLead, Rewrites
<1>. QED  BY <1>9, <1>10, <1>11 DEF UpdateLead, TypeInv, TypeOK, members

\* A write that touches a lead leaves it fresh.
LEMMA TouchedType ==
  ASSUME NEW row \in Row
  PROVE  [row EXCEPT !.age = 0] \in Row
<1>1. 0 \in Int \cup {NoActivity}
  OBVIOUS
<1>. QED  BY <1>1 DEF Row

LEMMA AssignLeadType ==
  ASSUME TypeInv, NEW r \in Request, AssignLead(r)
  PROVE  TypeOK' /\ Rewrites(r)
<1>. DEFINE l == req[r].lead
            row == [leads[l] EXCEPT !.assignee = OrNull(req[r].args.assignee), !.age = 0]
<1>1. l \in Lead /\ leads[l] \in Row
  BY FoundRow DEF AssignLead, At
<1>2. OrNull(req[r].args.assignee) \in User \cup {NULL}
  BY DEF TypeInv, TypeOK, RequestState, Args, OrNull, Given
<1>3. row \in Row
  <2>1. [leads[l] EXCEPT !.assignee = OrNull(req[r].args.assignee)] \in Row
    BY <1>1, <1>2 DEF Row
  <2>. QED  BY <2>1, TouchedType
<1>4. leads' = [leads EXCEPT ![l] = row]
  BY <1>1 DEF AssignLead, TypeInv, TypeOK, Row
<1>5. leads' \in [Lead -> Row \cup {NULL}]
  BY <1>1, <1>3, <1>4 DEF TypeInv, TypeOK
<1>6. req' \in [Request -> RequestState]
  BY <1>1, WrittenType DEF AssignLead, TypeInv
<1>7. Rewrites(r)
  BY <1>3, <1>4 DEF Rewrites
<1>. QED  BY <1>5, <1>6, <1>7 DEF AssignLead, TypeInv, TypeOK, members

LEMMA UpdateStatusType ==
  ASSUME TypeInv, NEW r \in Request, UpdateStatus(r)
  PROVE  TypeOK' /\ Rewrites(r)
<1>. DEFINE l == req[r].lead
            s == req[r].args.status
            seller == IF s = "SOLD" THEN req[r].actor ELSE NULL
            row == [leads[l] EXCEPT !.status = s, !.soldAt = (s = "SOLD"),
                                    !.soldBy = seller, !.age = 0]
<1>1. l \in Lead /\ leads[l] \in Row
  BY FoundRow DEF UpdateStatus, At
<1>2. s \in LeadStatus
  BY DEF UpdateStatus, At, TypeInv, AllLocated, Located, Arrived
<1>3. seller \in User \cup {NULL}
  BY DEF TypeInv, TypeOK, RequestState
<1>4. (s = "SOLD") \in BOOLEAN
  OBVIOUS
<1>5. row \in Row
  <2>1. [leads[l] EXCEPT !.status = s, !.soldAt = (s = "SOLD"), !.soldBy = seller] \in Row
    BY <1>1, <1>2, <1>3, <1>4 DEF Row
  <2>. QED  BY <2>1, TouchedType
<1>6. leads' = [leads EXCEPT ![l] = row]
  BY <1>1 DEF UpdateStatus, TypeInv, TypeOK, Row
<1>7. leads' \in [Lead -> Row \cup {NULL}]
  BY <1>1, <1>5, <1>6 DEF TypeInv, TypeOK
<1>8. req' \in [Request -> RequestState]
  BY <1>1, WrittenType DEF UpdateStatus, TypeInv
<1>9. Rewrites(r)
  BY <1>5, <1>6 DEF Rewrites
<1>. QED  BY <1>7, <1>8, <1>9 DEF UpdateStatus, TypeInv, TypeOK, members

LEMMA CreateActivityType ==
  ASSUME TypeInv, NEW r \in Request, CreateActivity(r)
  PROVE  TypeOK' /\ Rewrites(r)
<1>. DEFINE l == req[r].lead
            row == [leads[l] EXCEPT !.age = 0]
            found == [evidence[l] EXCEPT !.calls = @ + (IF req[r].args.isCall THEN 1 ELSE 0)]
<1>1. l \in Lead /\ leads[l] \in Row
  BY FoundRow DEF CreateActivity, At
<1>2. row \in Row
  BY <1>1, TouchedType
<1>3. leads' = [leads EXCEPT ![l] = row]
  BY <1>1 DEF CreateActivity, TypeInv, TypeOK, Row
<1>4. leads' \in [Lead -> Row \cup {NULL}]
  BY <1>1, <1>2, <1>3 DEF TypeInv, TypeOK
<1>5. found \in Evidence
  BY <1>1 DEF TypeInv, TypeOK, Evidence
<1>6. evidence' = [evidence EXCEPT ![l] = found]
  BY <1>1 DEF CreateActivity, TypeInv, TypeOK, Evidence
<1>7. evidence' \in [Lead -> Evidence]
  BY <1>1, <1>5, <1>6 DEF TypeInv, TypeOK
<1>8. req' \in [Request -> RequestState]
  BY <1>1, WrittenType DEF CreateActivity, TypeInv
<1>9. Rewrites(r)
  BY <1>2, <1>3 DEF Rewrites
<1>. QED  BY <1>4, <1>7, <1>8, <1>9 DEF CreateActivity, TypeInv, TypeOK, members

LEMMA ReadLeadType ==
  ASSUME TypeInv, NEW r \in Request, ReadLead(r)
  PROVE  TypeOK'
<1>. DEFINE row == ScoredColumns(leads[req[r].lead])
            sold == SoldForScore(row)
            loc == [req[r].local EXCEPT !.row = row, !.outdated = FALSE,
                                        !.score = IF sold THEN 100 ELSE 0]
            pc == IF sold THEN "persist" ELSE "count"
<1>1. CASE leads[req[r].lead] = NULL
  BY <1>1, ThrowType DEF ReadLead, TypeInv
<1>2. CASE leads[req[r].lead] # NULL
  <2>1. req[r].lead \in Lead
    BY DEF ReadLead, At, TypeInv, AllLocated, Located, Arrived, BeforeWrite
  <2>2. row \in ScoredLead
    BY <1>2, <2>1, ScoredColumnsType DEF TypeInv, TypeOK
  <2>3. req[r].local \in Local /\ req[r] \in RequestState
    BY DEF TypeInv, TypeOK, RequestState
  <2>4. (IF sold THEN 100 ELSE 0) \in MIN_LEAD_SCORE .. MAX_LEAD_SCORE
    BY DEF MIN_LEAD_SCORE, MAX_LEAD_SCORE
  <2>5. loc \in Local
    BY <2>2, <2>3, <2>4 DEF Local
  <2>6. Resume(r, loc, pc)
    BY <1>2 DEF ReadLead
  <2>7. req' \in [Request -> RequestState]
    BY <2>5, <2>6, ResumeType DEF TypeInv, PC
  <2>. QED  BY <1>2, <2>7 DEF ReadLead, TypeInv, TypeOK, tables, members
<1>. QED  BY <1>1, <1>2

LEMMA CountEvidenceType ==
  ASSUME TypeInv, NEW r \in Request, CountEvidence(r)
  PROVE  TypeOK'
<1>. DEFINE score == Score(req[r].local.row, evidence[req[r].lead])
            loc == [req[r].local EXCEPT !.score = score]
<1>1. req[r].lead \in Lead /\ req[r].local.row \in ScoredLead
  BY DEF CountEvidence, At, TypeInv, AllLocated, Located, Arrived, BeforeWrite, Holds
<1>2. score \in MIN_LEAD_SCORE .. MAX_LEAD_SCORE
  BY <1>1, ScoreInRange DEF TypeInv, TypeOK
<1>3. req[r].local \in Local /\ req[r] \in RequestState
  BY DEF TypeInv, TypeOK, RequestState
<1>4. loc \in Local
  BY <1>2, <1>3 DEF Local
<1>5. req' \in [Request -> RequestState]
  BY <1>4, ResumeType DEF CountEvidence, TypeInv, PC
<1>. QED  BY <1>5 DEF CountEvidence, TypeInv, TypeOK, tables, members

\* A request that has done its work.
LEMMA FinishType ==
  ASSUME TypeOK, NEW r \in Request, Finish(r)
  PROVE  req' \in [Request -> RequestState]
BY BlankType, ResumeType DEF Finish, PC

LEMMA GotoType ==
  ASSUME TypeOK, NEW r \in Request, NEW pc \in PC, Goto(r, pc)
  PROVE  req' \in [Request -> RequestState]
<1>1. [req[r] EXCEPT !.pc = pc] \in RequestState
  BY MovedType DEF TypeOK
<1>. QED  BY <1>1 DEF Goto, TypeOK

LEMMA PersistScoreType ==
  ASSUME TypeInv, NEW r \in Request, PersistScore(r)
  PROVE  TypeOK'
<1>. DEFINE l == req[r].lead
            loc == [req[r].local EXCEPT !.row = NULL, !.score = 0, !.outdated = FALSE]
            pc == IF req[r].op = "activity" THEN "audit" ELSE "summary"
            row == [leads[l] EXCEPT !.score = req[r].local.score]
<1>1. l \in Lead /\ leads[l] \in Row
  BY FoundRow DEF PersistScore, At, BeforeWrite
<1>2. req[r].local \in Local /\ req[r] \in RequestState
  BY DEF TypeInv, TypeOK, RequestState
<1>3. row \in Row
  BY <1>1, <1>2 DEF Row, Local
<1>4. leads' = [leads EXCEPT ![l] = row]
  BY <1>1 DEF PersistScore, TypeInv, TypeOK, Row
<1>5. leads' \in [Lead -> Row \cup {NULL}]
  BY <1>1, <1>3, <1>4 DEF TypeInv, TypeOK
<1>6. req' \in [Request -> RequestState]
  <2>1. CASE req[r].op = "rescore"
    BY <2>1, FinishType DEF PersistScore, TypeInv
  <2>2. CASE req[r].op # "rescore"
    <3>1. 0 \in MIN_LEAD_SCORE .. MAX_LEAD_SCORE
      BY DEF MIN_LEAD_SCORE, MAX_LEAD_SCORE
    <3>2. loc \in Local
      BY <1>2, <3>1 DEF Local
    <3>3. Resume(r, loc, pc)
      BY <2>2 DEF PersistScore
    <3>. QED  BY <3>2, <3>3, ResumeType DEF TypeInv, PC
  <2>. QED  BY <2>1, <2>2
<1>7. overtaken' \subseteq Lead
  BY <1>1 DEF PersistScore, TypeInv, TypeOK
<1>. QED  BY <1>5, <1>6, <1>7 DEF PersistScore, TypeInv, TypeOK, members

LEMMA ReadSummaryType ==
  ASSUME TypeInv, NEW r \in Request, ReadSummary(r)
  PROVE  TypeOK'
<1>. DEFINE row == leads[req[r].lead]
            loc == [req[r].local EXCEPT !.assigned = row.assignee]
<1>1. row \in Row
  BY FoundRow DEF ReadSummary, At, BeforeWrite
<1>2. req[r].local \in Local /\ req[r] \in RequestState
  BY DEF TypeInv, TypeOK, RequestState
<1>3. loc \in Local
  BY <1>1, <1>2 DEF Local, Row
<1>4. req' \in [Request -> RequestState]
  BY <1>3, ResumeType DEF ReadSummary, TypeInv, PC
<1>. QED  BY <1>4 DEF ReadSummary, TypeInv, TypeOK, tables, members

LEMMA WriteAuditType ==
  ASSUME TypeInv, NEW r \in Request, WriteAudit(r)
  PROVE  TypeOK'
<1>1. req[r].lead \in Lead
  BY FoundRow DEF WriteAudit, At, BeforeWrite
<1>2. ActionName[req[r].op] \in AuditAction
  <2>1. req[r].op \in {"create", "update", "assign", "status", "activity"}
    BY DEF WriteAudit, At, TypeInv, AllLocated, Located, Arrived, AllOps
  <2>. QED  BY <2>1 DEF ActionName, AuditAction, EventName
<1>3. audit' \subseteq [req : Request, action : AuditAction, lead : Lead]
  BY <1>1, <1>2 DEF WriteAudit, TypeInv, TypeOK
<1>4. req' \in [Request -> RequestState]
  BY FinishType, GotoType DEF WriteAudit, TypeInv, PC
<1>. QED  BY <1>3, <1>4 DEF WriteAudit, TypeInv, TypeOK, members

LEMMA EmitType ==
  ASSUME TypeInv, NEW r \in Request, req[r].lead \in Lead,
         NEW type \in EventName, Emit(r, type)
  PROVE  events' \subseteq [req : Request, type : EventName, lead : Lead]
BY DEF Emit, TypeInv, TypeOK

LEMMA EmitEventType ==
  ASSUME TypeInv, NEW r \in Request, EmitEvent(r)
  PROVE  TypeOK'
<1>1. req[r].lead \in Lead
  BY FoundRow DEF EmitEvent, At, BeforeWrite
<1>2. EventType[req[r].op] \in EventName
  <2>1. req[r].op \in {"create", "update", "assign", "status"}
    BY DEF EmitEvent, At, TypeInv, AllLocated, Located, Arrived, AllOps
  <2>. QED  BY <2>1 DEF EventType, EventName
<1>3. events' \subseteq [req : Request, type : EventName, lead : Lead]
  BY <1>1, <1>2, EmitType DEF EmitEvent
<1>4. req' \in [Request -> RequestState]
  BY FinishType, GotoType DEF EmitEvent, TypeInv, PC
<1>. QED  BY <1>3, <1>4 DEF EmitEvent, TypeInv, TypeOK, members

LEMMA EmitAssignedType ==
  ASSUME TypeInv, NEW r \in Request, EmitAssigned(r)
  PROVE  TypeOK'
<1>1. req[r].lead \in Lead
  BY FoundRow DEF EmitAssigned, At, BeforeWrite
<1>2. events' \subseteq [req : Request, type : EventName, lead : Lead]
  BY <1>1, EmitType DEF EmitAssigned, EventName
<1>3. req' \in [Request -> RequestState]
  BY FinishType DEF EmitAssigned, TypeInv
<1>. QED  BY <1>2, <1>3 DEF EmitAssigned, TypeInv, TypeOK, members

LEMMA MembersType ==
  ASSUME TypeOK, NEW u \in Member,
         DeactivateMembership(u) \/ \E newRole \in NewRole : SetRole(u, newRole)
  PROVE  TypeOK'
BY LeadsAssumption DEF TypeOK, DeactivateMembership, SetRole, tables

-----------------------------------------------------------------------------
(***************************************************************************)
(* What a step of request r leaves alone: where the other requests are and *)
(* what they carry, and that a lead which exists goes on existing.         *)
(***************************************************************************)
SameRequest(q) ==
  /\ req'[q].pc = req[q].pc
  /\ req'[q].op = req[q].op
  /\ req'[q].actor = req[q].actor
  /\ req'[q].role = req[q].role
  /\ req'[q].lead = req[q].lead
  /\ req'[q].args = req[q].args
  /\ req'[q].local.row = req[q].local.row

Kept(r) ==
  /\ \A q \in Request \ {r} : SameRequest(q)
  /\ \A l \in Lead : leads[l] # NULL => leads'[l] # NULL
  /\ failed \subseteq failed'

\* The requests that do not move stay located.
LEMMA OthersLocated ==
  ASSUME TypeInv, NEW r \in Request, Kept(r), Located(r)'
  PROVE  AllLocated'
<1>. SUFFICES ASSUME NEW q \in Request, q # r
              PROVE  Located(q)'
  BY DEF AllLocated
<1>1. Located(q) /\ SameRequest(q)
  BY DEF TypeInv, AllLocated, Kept
<1>2. req'[q].pc # "idle" => Arrived(req'[q])
  BY <1>1 DEF Located, SameRequest, Arrived
<1>3. Found(req[q])'
  BY <1>1, <1>2 DEF Located, SameRequest, Arrived, Found, Kept, BeforeWrite
<1>4. q \notin failed' => Holds(req'[q])
  BY <1>1 DEF Located, SameRequest, Holds, Kept
<1>. QED  BY <1>2, <1>3, <1>4 DEF Located

\* A step that gives r another record and changes no lead keeps the rest.
LEMMA OneRequest ==
  ASSUME TypeInv, NEW r \in Request, NEW q2, req' = [req EXCEPT ![r] = q2],
         \A l \in Lead : leads[l] # NULL => leads'[l] # NULL, failed \subseteq failed'
  PROVE  Kept(r) /\ req'[r] = q2
BY DEF TypeInv, TypeOK, Kept, SameRequest

LEMMA ResumeKept ==
  ASSUME TypeInv, NEW r \in Request, NEW loc, NEW pc, Resume(r, loc, pc),
         \A l \in Lead : leads[l] # NULL => leads'[l] # NULL, failed \subseteq failed'
  PROVE  Kept(r) /\ req'[r] = [req[r] EXCEPT !.local = loc, !.pc = pc]
BY OneRequest DEF Resume

LEMMA WrittenKept ==
  ASSUME TypeInv, NEW r \in Request, NEW l \in Lead, Written(r, l),
         \A k \in Lead : leads[k] # NULL => leads'[k] # NULL, failed' = failed
  PROVE  /\ Kept(r)
         /\ req'[r] = [req[r] EXCEPT !.lead = l, !.pc = "read"]
<1>1. ASSUME NEW q \in Request \ {r}
      PROVE  SameRequest(q)
  <2>. DEFINE b == req[q].local.outdated \/ Overtakes(l, req[q])
  <2>1. req'[q] = [req[q] EXCEPT !.local = [@ EXCEPT !.outdated = b]]
    BY DEF Written, TypeInv, TypeOK, RequestState
  <2>. HIDE DEF b
  <2>2. req[q] \in RequestState /\ req[q].local \in Local
    BY DEF TypeInv, TypeOK, RequestState
  <2>. QED  BY <2>1, <2>2 DEF SameRequest, RequestState, Local
<1>2. req'[r] = [req[r] EXCEPT !.lead = l, !.pc = "read"]
  BY DEF Written
<1>. QED  BY <1>1, <1>2 DEF Kept

LEMMA ThrowInv ==
  ASSUME TypeInv, NEW r \in Request, Throw(r)
  PROVE  TypeInv'
<1>1. Kept(r) /\ req'[r] = [req[r] EXCEPT !.local = Blank]
  BY OneRequest DEF Throw, TypeInv, TypeOK, RequestState, tables
<1>2. Located(r)'
  BY <1>1 DEF Throw, TypeInv, TypeOK, RequestState, AllLocated, Located, Arrived, Found, tables
<1>. QED  BY <1>1, <1>2, ThrowType, OthersLocated DEF TypeInv

LEMMA BeginInv ==
  ASSUME TypeInv, NEW r \in Request, NEW op, NEW u, NEW l \in Lead \cup {NULL},
         NEW pc, NEW args \in Args, Begin(r, op, u, l, pc, args),
         op \in AllOps,
         op = "status" => args.status \in LeadStatus,
         \/ op = "create" /\ pc = "source"
         \/ op \in {"update", "assign", "status", "activity"} /\ pc = "ensure" /\ l \in Lead
         \/ op = "rescore" /\ pc = "read" /\ l \in Lead
  PROVE  TypeInv'
<1>1. TypeOK'
  BY BeginType DEF TypeInv, PC
<1>. DEFINE q2 == [pc |-> pc, op |-> op, actor |-> u,
                   role |-> TenantRole(u),
                   lead |-> l, args |-> args, local |-> Blank]
<1>2. Kept(r) /\ req'[r] = q2
  BY OneRequest DEF Begin, tables
<1>3. Arrived(q2)
  BY DEF Arrived, AllOps, BeforeWrite
<1>4. Found(req[r])'
  BY <1>2 DEF Found, BeforeWrite
<1>5. Holds(q2)
  BY DEF Holds
<1>6. Located(r)'
  BY <1>2, <1>3, <1>4, <1>5 DEF Located
<1>. QED  BY <1>1, <1>2, <1>6, OthersLocated DEF TypeInv

LEMMA StartInv ==
  ASSUME TypeInv, NEW r \in Request, Start(r)
  PROVE  TypeInv'
<1>. USE DEF AllOps
<1>1. CASE StartCreate(r)
  BY <1>1, BeginInv, PayloadType DEF StartCreate
<1>2. CASE StartUpdate(r)
  BY <1>2, BeginInv, PayloadType DEF StartUpdate
<1>3. CASE StartAssign(r)
  <2>1. PICK u \in Admitted, l \in Lead, a \in AssigneeArg :
          Begin(r, "assign", u, l, "ensure", [NoArgs EXCEPT !.assignee = a])
    BY <1>3 DEF StartAssign
  <2>2. [NoArgs EXCEPT !.assignee = a] \in Args
    BY NoArgsType, LeadsAssumption DEF Args
  <2>. QED  BY <2>1, <2>2, BeginInv
<1>4. CASE StartStatus(r)
  <2>1. PICK u \in Admitted, l \in Lead, s \in StatusArg \ {UNSET} :
          Begin(r, "status", u, l, "ensure", [NoArgs EXCEPT !.status = s])
    BY <1>4 DEF StartStatus
  <2>2. /\ [NoArgs EXCEPT !.status = s] \in Args
        /\ [NoArgs EXCEPT !.status = s].status \in LeadStatus
    BY NoArgsType, LeadsAssumption DEF Args
  <2>. QED  BY <2>1, <2>2, BeginInv
<1>5. CASE StartActivity(r)
  <2>1. PICK u \in Admitted, l \in Lead, b \in BOOLEAN :
          Begin(r, "activity", u, l, "ensure", [NoArgs EXCEPT !.isCall = b])
    BY <1>5 DEF StartActivity
  <2>2. [NoArgs EXCEPT !.isCall = b] \in Args
    BY NoArgsType DEF Args
  <2>. QED  BY <2>1, <2>2, BeginInv
<1>6. CASE StartRescore(r)
  BY <1>6, BeginInv, NoArgsType DEF StartRescore
<1>. QED  BY <1>1, <1>2, <1>3, <1>4, <1>5, <1>6 DEF Start

LEMMA EnsureLeadExistsInv ==
  ASSUME TypeInv, NEW r \in Request, EnsureLeadExists(r)
  PROVE  TypeInv'
<1>1. CASE Throw(r)
  BY <1>1, ThrowInv
<1>2. CASE ~Throw(r)
  <2>. DEFINE loc == [req[r].local EXCEPT !.seen = leads[req[r].lead].status]
              pc == CASE req[r].op = "update" -> "source"
                      [] req[r].op = "assign" -> "assignee"
                      [] OTHER -> "write"
  <2>1. Arrived(req[r]) /\ req[r].pc = "ensure" /\ req[r].lead \in Lead
    BY DEF EnsureLeadExists, At, TypeInv, AllLocated, Located, Arrived
  <2>2. TypeOK'
    BY <2>1, EnsureLeadExistsType DEF TypeInv
  <2>3. leads[req[r].lead] # NULL /\ UNCHANGED <<leads, failed>>
    BY <1>2 DEF EnsureLeadExists, tables
  <2>4. Resume(r, loc, pc)
    BY <1>2 DEF EnsureLeadExists
  <2>5. Kept(r) /\ req'[r] = [req[r] EXCEPT !.local = loc, !.pc = pc]
    BY <2>3, <2>4, OneRequest DEF Resume
  <2>. HIDE DEF loc
  <2>6. Located(r)'
    BY <2>1, <2>3, <2>5
       DEF TypeInv, TypeOK, RequestState, Located, Arrived, Found, Holds, BeforeWrite
  <2>. QED  BY <2>2, <2>5, <2>6, OthersLocated DEF TypeInv
<1>. QED  BY <1>1, <1>2

LEMMA ResolveSourceInv ==
  ASSUME TypeInv, NEW r \in Request, ResolveSource(r)
  PROVE  TypeInv'
<1>1. Kept(r) /\ req'[r] = [req[r] EXCEPT !.pc = "assignee"]
  BY OneRequest DEF ResolveSource, Goto
<1>2. Located(r)'
  BY <1>1 DEF ResolveSource, At, TypeInv, TypeOK, RequestState, AllLocated,
              Located, Arrived, Found, Holds, BeforeWrite
<1>. QED  BY <1>1, <1>2, ResolveSourceType, OthersLocated DEF TypeInv

LEMMA ValidateAssigneeInv ==
  ASSUME TypeInv, NEW r \in Request, ValidateAssignee(r)
  PROVE  TypeInv'
<1>1. CASE Throw(r)
  BY <1>1, ThrowInv
<1>2. CASE ~Throw(r)
  <2>. DEFINE args == [req[r].args EXCEPT !.assignee = AssigneeOf(req[r])]
  <2>1. req' = [req EXCEPT ![r] = [req[r] EXCEPT !.args = args, !.pc = "write"]]
    BY <1>2 DEF ValidateAssignee, TypeInv, TypeOK, RequestState, Args
  <2>2. UNCHANGED <<leads, failed>>
    BY <1>2 DEF ValidateAssignee, tables
  <2>3. Kept(r) /\ req'[r] = [req[r] EXCEPT !.args = args, !.pc = "write"]
    BY <2>1, <2>2, OneRequest
  <2>4. args.status = req[r].args.status
    BY DEF TypeInv, TypeOK, RequestState, Args
  <2>. HIDE DEF args
  <2>5. Located(r)'
    BY <2>2, <2>3, <2>4 DEF ValidateAssignee, At, TypeInv, TypeOK, RequestState,
       AllLocated, Located, Arrived, Found, Holds, BeforeWrite
  <2>. QED  BY <2>3, <2>5, ValidateAssigneeType, OthersLocated DEF TypeInv
<1>. QED  BY <1>1, <1>2

\* After the write of a lead that the handler found or created.
LEMMA WrittenInv ==
  ASSUME TypeInv, TypeOK', NEW r \in Request, NEW l \in Lead, Written(r, l),
         req[r].pc = "write", leads[l] # NULL => req[r].lead = l,
         \A k \in Lead : leads[k] # NULL => leads'[k] # NULL,
         leads'[l] # NULL, failed' = failed
  PROVE  TypeInv'
<1>1. Kept(r) /\ req'[r] = [req[r] EXCEPT !.lead = l, !.pc = "read"]
  BY WrittenKept
<1>2. Arrived(req[r])
  BY DEF TypeInv, AllLocated, Located
<1>3. Located(r)'
  BY <1>1, <1>2 DEF TypeInv, TypeOK, RequestState, Located, Arrived, Found, Holds, BeforeWrite
<1>. QED  BY <1>1, <1>3, OthersLocated DEF TypeInv

LEMMA RewrittenInv ==
  ASSUME TypeInv, TypeOK', NEW r \in Request, Written(r, req[r].lead), Rewrites(r),
         req[r].pc = "write", req[r].op # "create", failed' = failed
  PROVE  TypeInv'
<1>1. req[r].lead \in Lead
  BY FoundRow
<1>2. PICK row \in Row : leads' = [leads EXCEPT ![req[r].lead] = row]
  BY DEF Rewrites
<1>3. row # NULL
  BY LeadsAssumption
<1>4. leads'[req[r].lead] # NULL /\ \A k \in Lead : leads[k] # NULL => leads'[k] # NULL
  BY <1>1, <1>2, <1>3 DEF TypeInv, TypeOK
<1>. QED  BY <1>1, <1>4, WrittenInv

LEMMA WriteInv ==
  ASSUME TypeInv, NEW r \in Request, Write(r)
  PROVE  TypeInv'
<1>1. CASE CreateLead(r)
  <2>1. PICK l \in Lead : /\ leads[l] = NULL /\ Written(r, l)
                          /\ leads' = [leads EXCEPT ![l] = NewRow(req[r].args)]
    BY <1>1 DEF CreateLead
  <2>2. NewRow(req[r].args) # NULL
    BY NewRowType, LeadsAssumption DEF TypeInv, TypeOK, RequestState
  <2>3. leads'[l] # NULL /\ \A k \in Lead : leads[k] # NULL => leads'[k] # NULL
    BY <2>1, <2>2 DEF TypeInv, TypeOK
  <2>. QED  BY <1>1, <2>1, <2>3, CreateLeadType, WrittenInv DEF CreateLead, At
<1>2. CASE UpdateLead(r)
  BY <1>2, UpdateLeadType, RewrittenInv DEF UpdateLead, At
<1>3. CASE AssignLead(r)
  BY <1>3, AssignLeadType, RewrittenInv DEF AssignLead, At
<1>4. CASE UpdateStatus(r)
  BY <1>4, UpdateStatusType, RewrittenInv DEF UpdateStatus, At
<1>5. CASE CreateActivity(r)
  BY <1>5, CreateActivityType, RewrittenInv DEF CreateActivity, At
<1>. QED  BY <1>1, <1>2, <1>3, <1>4, <1>5 DEF Write

LEMMA ReadLeadInv ==
  ASSUME TypeInv, NEW r \in Request, ReadLead(r)
  PROVE  TypeInv'
<1>. DEFINE row == ScoredColumns(leads[req[r].lead])
            sold == SoldForScore(row)
            loc == [req[r].local EXCEPT !.row = row, !.outdated = FALSE,
                                        !.score = IF sold THEN 100 ELSE 0]
            pc == IF sold THEN "persist" ELSE "count"
<1>1. CASE leads[req[r].lead] = NULL
  BY <1>1, ThrowInv DEF ReadLead
<1>2. CASE leads[req[r].lead] # NULL
  <2>1. Arrived(req[r]) /\ req[r].pc = "read" /\ req[r].lead \in Lead
    BY DEF ReadLead, At, TypeInv, AllLocated, Located, Arrived, BeforeWrite
  <2>2. row \in ScoredLead /\ loc.row = row
    BY <1>2, <2>1, ScoredColumnsType DEF TypeInv, TypeOK, RequestState, Local
  <2>3. Resume(r, loc, pc) /\ UNCHANGED <<leads, failed>>
    BY <1>2 DEF ReadLead, tables
  <2>. HIDE DEF loc, pc, row
  <2>4. Kept(r) /\ req'[r] = [req[r] EXCEPT !.local = loc, !.pc = pc]
    BY <2>3, OneRequest DEF Resume
  <2>5. pc \in {"count", "persist"}
    BY DEF pc
  <2>6. Located(r)'
    BY <1>2, <2>1, <2>2, <2>3, <2>4, <2>5
       DEF TypeInv, TypeOK, RequestState, Located, Arrived, Found, Holds, BeforeWrite
  <2>. QED  BY <2>4, <2>6, ReadLeadType, OthersLocated DEF TypeInv
<1>. QED  BY <1>1, <1>2

LEMMA CountEvidenceInv ==
  ASSUME TypeInv, NEW r \in Request, CountEvidence(r)
  PROVE  TypeInv'
<1>. DEFINE loc == [req[r].local EXCEPT
                      !.score = Score(req[r].local.row, evidence[req[r].lead])]
<1>1. Located(r) /\ req[r].pc = "count" /\ r \notin failed
  BY DEF CountEvidence, At, TypeInv, AllLocated
<1>2. Resume(r, loc, "persist")
  BY DEF CountEvidence
<1>3. UNCHANGED <<leads, failed>>
  BY DEF CountEvidence, tables
<1>. HIDE DEF loc
<1>4. Kept(r) /\ req'[r] = [req[r] EXCEPT !.local = loc, !.pc = "persist"]
  BY <1>2, <1>3, OneRequest DEF Resume
<1>5. Located(r)'
  BY <1>1, <1>3, <1>4
     DEF TypeInv, TypeOK, RequestState, Located, Arrived, Found, Holds, BeforeWrite
<1>. QED  BY <1>4, <1>5, CountEvidenceType, OthersLocated DEF TypeInv

\* The last steps of a request: it ends, or goes on to the next log.
LEMMA FinishInv ==
  ASSUME TypeInv, TypeOK', NEW r \in Request, Finish(r), req[r].pc # "idle",
         req[r].pc \notin BeforeWrite, leads[req[r].lead] # NULL,
         \A l \in Lead : leads[l] # NULL => leads'[l] # NULL, failed' = failed
  PROVE  TypeInv'
<1>1. Kept(r) /\ req'[r] = [req[r] EXCEPT !.local = Blank, !.pc = "end"]
  BY ResumeKept DEF Finish
<1>2. Located(r)'
  BY <1>1 DEF TypeInv, TypeOK, RequestState, AllLocated, Located, Arrived, Found,
              Holds, BeforeWrite
<1>. QED  BY <1>1, <1>2, OthersLocated DEF TypeInv

LEMMA GotoInv ==
  ASSUME TypeInv, TypeOK', NEW r \in Request, NEW pc \in {"emit", "emitAssigned"},
         Goto(r, pc), req[r].op \notin {"activity", "rescore"}, r \notin failed,
         req[r].pc \in {"audit", "emit"}, UNCHANGED <<leads, failed>>
  PROVE  TypeInv'
<1>1. Kept(r) /\ req'[r] = [req[r] EXCEPT !.pc = pc]
  BY OneRequest DEF Goto
<1>2. Located(r)'
  BY <1>1 DEF TypeInv, TypeOK, RequestState, AllLocated, Located, Arrived, Found,
              Holds, BeforeWrite
<1>. QED  BY <1>1, <1>2, OthersLocated DEF TypeInv

LEMMA PersistScoreInv ==
  ASSUME TypeInv, NEW r \in Request, PersistScore(r)
  PROVE  TypeInv'
<1>. DEFINE l == req[r].lead
            loc == [req[r].local EXCEPT !.row = NULL, !.score = 0, !.outdated = FALSE]
            pc == IF req[r].op = "activity" THEN "audit" ELSE "summary"
<1>1. Located(r) /\ req[r].pc = "persist" /\ l \in Lead /\ leads[l] \in Row
  BY FoundRow DEF PersistScore, At, BeforeWrite, TypeInv, AllLocated
<1>2. [leads[l] EXCEPT !.score = req[r].local.score] \in Row
  BY <1>1 DEF TypeInv, TypeOK, RequestState, Local, Row
<1>3. leads[l] # NULL /\ \A k \in Lead : leads[k] # NULL => leads'[k] # NULL
  BY <1>1, <1>2, LeadsAssumption DEF PersistScore, TypeInv, TypeOK
<1>4. CASE req[r].op = "rescore"
  BY <1>1, <1>3, <1>4, PersistScoreType, FinishInv DEF PersistScore, BeforeWrite
<1>5. CASE req[r].op # "rescore"
  <2>1. Resume(r, loc, pc)
    BY <1>5 DEF PersistScore
  <2>. HIDE DEF loc
  <2>2. Kept(r) /\ req'[r] = [req[r] EXCEPT !.local = loc, !.pc = pc]
    BY <1>3, <2>1, OneRequest DEF Resume, PersistScore
  <2>3. Located(r)'
    BY <1>1, <1>3, <1>5, <2>2
       DEF TypeInv, TypeOK, RequestState, Located, Arrived, Found, Holds, BeforeWrite
  <2>. QED  BY <2>2, <2>3, PersistScoreType, OthersLocated DEF TypeInv
<1>. QED  BY <1>4, <1>5

LEMMA ReadSummaryInv ==
  ASSUME TypeInv, NEW r \in Request, ReadSummary(r)
  PROVE  TypeInv'
<1>. DEFINE loc == [req[r].local EXCEPT !.assigned = leads[req[r].lead].assignee]
<1>1. Located(r) /\ req[r].pc = "summary"
  BY DEF ReadSummary, At, TypeInv, AllLocated
<1>2. Resume(r, loc, "audit")
  BY DEF ReadSummary
<1>3. UNCHANGED <<leads, failed>>
  BY DEF ReadSummary, tables
<1>. HIDE DEF loc
<1>4. Kept(r) /\ req'[r] = [req[r] EXCEPT !.local = loc, !.pc = "audit"]
  BY <1>2, <1>3, OneRequest DEF Resume
<1>5. Located(r)'
  BY <1>1, <1>3, <1>4
     DEF TypeInv, TypeOK, RequestState, Located, Arrived, Found, Holds, BeforeWrite
<1>. QED  BY <1>4, <1>5, ReadSummaryType, OthersLocated DEF TypeInv

LEMMA WriteAuditInv ==
  ASSUME TypeInv, NEW r \in Request, WriteAudit(r)
  PROVE  TypeInv'
<1>1. /\ Arrived(req[r]) /\ leads[req[r].lead] # NULL
      /\ req[r].op # "rescore" /\ req[r].pc = "audit" /\ r \notin failed
  BY DEF WriteAudit, At, BeforeWrite, TypeInv, AllLocated, Located, Arrived, Found
<1>2. CASE Emits(req[r])
  BY <1>1, <1>2, WriteAuditType, GotoInv DEF WriteAudit, Emits
<1>3. CASE ~Emits(req[r])
  BY <1>1, <1>3, WriteAuditType, FinishInv DEF WriteAudit, BeforeWrite
<1>. QED  BY <1>2, <1>3

LEMMA EmitEventInv ==
  ASSUME TypeInv, NEW r \in Request, EmitEvent(r)
  PROVE  TypeInv'
<1>1. /\ Arrived(req[r]) /\ leads[req[r].lead] # NULL
      /\ req[r].op \notin {"rescore", "activity"} /\ req[r].pc = "emit" /\ r \notin failed
  BY DEF EmitEvent, At, BeforeWrite, TypeInv, AllLocated, Located, Arrived, Found
<1>2. CASE Goto(r, "emitAssigned")
  BY <1>1, <1>2, EmitEventType, GotoInv DEF EmitEvent
<1>3. CASE Finish(r)
  BY <1>1, <1>3, EmitEventType, FinishInv DEF EmitEvent, BeforeWrite
<1>. QED  BY <1>2, <1>3 DEF EmitEvent

LEMMA EmitAssignedInv ==
  ASSUME TypeInv, NEW r \in Request, EmitAssigned(r)
  PROVE  TypeInv'
<1>1. /\ leads[req[r].lead] # NULL
      /\ req[r].op # "rescore" /\ req[r].pc = "emitAssigned"
  BY DEF EmitAssigned, At, BeforeWrite, TypeInv, AllLocated, Located, Arrived, Found
<1>. QED  BY <1>1, EmitAssignedType, FinishInv DEF EmitAssigned, BeforeWrite

LEMMA MembersInv ==
  ASSUME TypeInv, NEW u \in Member,
         DeactivateMembership(u) \/ \E newRole \in NewRole : SetRole(u, newRole)
  PROVE  TypeInv'
<1>1. UNCHANGED <<leads, req, failed>>
  BY DEF DeactivateMembership, SetRole, tables
<1>. QED  BY <1>1, MembersType DEF TypeInv, AllLocated, Located, Found

-----------------------------------------------------------------------------
LEMMA StepInv ==
  ASSUME TypeInv, NEW r \in Request, Step(r)
  PROVE  TypeInv'
BY EnsureLeadExistsInv, ResolveSourceInv, ValidateAssigneeInv, WriteInv, ReadLeadInv,
   CountEvidenceInv, PersistScoreInv, ReadSummaryInv, WriteAuditInv, EmitEventInv,
   EmitAssignedInv DEF Step

LEMMA InitTypeInv == Init => TypeInv
BY InitType DEF Init, TypeInv, AllLocated, Located, Found, Holds, Idle, BeforeWrite

LEMMA NextTypeInv == TypeInv /\ [Next]_vars => TypeInv'
<1>. SUFFICES ASSUME TypeInv, [Next]_vars PROVE TypeInv'
  OBVIOUS
<1>1. CASE \E r \in Request : Start(r) \/ Step(r) \/ Fault(r)
  BY <1>1, StartInv, StepInv, ThrowInv DEF Fault
<1>2. CASE \/ \E u \in Member, newRole \in NewRole : SetRole(u, newRole)
           \/ \E u \in Leaver : DeactivateMembership(u)
  BY <1>2, MembersInv, LeadsAssumption
<1>3. CASE UNCHANGED vars
  BY <1>3 DEF vars, tables, members, TypeInv, TypeOK, AllLocated, Located, Found
<1>. QED  BY <1>1, <1>2, <1>3 DEF Next

\* TypeOK: no column ever holds undefined, no score is out of range, no event
\* or audit row is without its lead, whatever the handlers interleave.
THEOREM TypeCorrect == Spec => []TypeOK
<1>1. TypeInv => TypeOK
  BY DEF TypeInv
<1>. QED  BY <1>1, InitTypeInv, NextTypeInv, PTL DEF Spec

-----------------------------------------------------------------------------
(***************************************************************************)
(* A request never goes back: what it was asked to do and by whom stays as *)
(* it is once it has begun, the lead it wrote stays the lead it wrote, and *)
(* a request past its audit row stays past it.                             *)
(***************************************************************************)
Logged == {"emit", "emitAssigned", "end"}

\* How a request comes in, and how it gets from one check to the next.
ComesIn(q) ==
  /\ req'[q].pc \in {"source", "ensure", "read"}
  /\ req'[q].op # "create" => req'[q].actor # NULL
  /\ req'[q].op = "status" => req'[q].pc = "ensure"

Moves(q) ==
  /\ req[q].pc = "idle" => req'[q].pc = "idle" \/ ComesIn(q)
  /\ req[q].pc # "idle" =>
       /\ req'[q].pc # "idle"
       /\ req'[q].op = req[q].op
       /\ req'[q].actor = req[q].actor
       /\ req'[q].role = req[q].role
       /\ req'[q].args.status = req[q].args.status
       /\ req[q].op # "create" \/ req[q].pc \notin BeforeWrite => req'[q].lead = req[q].lead
       /\ req'[q].pc = "ensure" => req[q].pc = "ensure"
  /\ req[q].pc = "ensure" /\ req'[q].pc # "ensure" /\ req[q].op = "status"
       => MaySetStatus(req[q])
  /\ req'[q].pc = "write" =>
       \/ req'[q].op \notin {"create", "update", "assign"}
       \/ req[q].pc = "write" /\ req'[q].args = req[q].args
       \/ req'[q].args.assignee \in Member \cup {UNSET}
  /\ req[q].pc \notin BeforeWrite => req'[q].pc \notin BeforeWrite
  /\ req[q].pc \in Logged => req'[q].pc \in Logged

LEMMA StartMoves ==
  ASSUME TypeInv, NEW r \in Request, Start(r), NEW q \in Request
  PROVE  Moves(q)
<1>1. ASSUME NEW op, NEW u, NEW l, NEW pc \in {"source", "ensure", "read"}, NEW args,
             op = "status" => pc = "ensure", Begin(r, op, u, l, pc, args)
      PROVE  Moves(q)
  <2>1. req[r].pc = "idle" /\ (op # "create" => u # NULL)
    BY <1>1, LeadsAssumption DEF Begin, At, Admitted, TypeInv, TypeOK
  <2>2. req'[q] = IF q = r THEN [pc |-> pc, op |-> op, actor |-> u,
                                 role |-> TenantRole(u),
                                 lead |-> l, args |-> args, local |-> Blank]
                  ELSE req[q]
    BY <1>1 DEF Begin, TypeInv, TypeOK
  <2>3. CASE q = r
    <3>1. req'[q].pc = pc /\ req'[q].op = op /\ req'[q].actor = u
      BY <2>2, <2>3
    <3>. QED  BY <1>1, <2>1, <2>3, <3>1 DEF Moves, ComesIn, BeforeWrite, Logged
  <2>4. CASE q # r
    BY <2>2, <2>4 DEF Moves
  <2>. QED  BY <2>3, <2>4
<1>. QED  BY <1>1 DEF Start, StartCreate, StartUpdate, StartAssign, StartStatus,
                      StartActivity, StartRescore

LEMMA ThrowMoves ==
  ASSUME TypeInv, NEW r \in Request, Throw(r), NEW q \in Request
  PROVE  Moves(q)
BY DEF Throw, Moves, TypeInv, TypeOK, RequestState

LEMMA WriteMoves ==
  ASSUME TypeInv, NEW r \in Request, Write(r), NEW q \in Request
  PROVE  Moves(q)
<1>1. PICK l \in Lead : Written(r, l) /\ (req[r].op # "create" => req[r].lead = l)
  BY FoundRow DEF Write, CreateLead, UpdateLead, AssignLead, UpdateStatus,
                  CreateActivity, At
<1>2. At(r, "write")
  BY DEF Write, CreateLead, UpdateLead, AssignLead, UpdateStatus, CreateActivity
<1>3. CASE q = r
  BY <1>1, <1>2, <1>3
     DEF Written, Moves, At, BeforeWrite, Logged, TypeInv, TypeOK, RequestState
<1>4. CASE q # r
  <2>. DEFINE b == req[q].local.outdated \/ Overtakes(l, req[q])
  <2>1. req'[q] = [req[q] EXCEPT !.local = [@ EXCEPT !.outdated = b]]
    BY <1>1, <1>4 DEF Written, TypeInv, TypeOK, RequestState
  <2>. HIDE DEF b
  <2>. QED  BY <2>1 DEF Moves, TypeInv, TypeOK, RequestState
<1>. QED  BY <1>3, <1>4

LEMMA ResumeMoves ==
  ASSUME TypeInv, NEW r \in Request, NEW loc, NEW pc \in PC, Resume(r, loc, pc),
         pc \notin {"idle", "ensure"},
         req[r].pc \notin BeforeWrite => pc \notin BeforeWrite,
         req[r].pc \in Logged => pc \in Logged,
         req[r].pc # "idle", pc = "write" => req[r].op \in {"status", "activity"},
         req[r].pc = "ensure" /\ req[r].op = "status" => MaySetStatus(req[r]),
         NEW q \in Request
  PROVE  Moves(q)
<1>1. req'[q] = IF q = r THEN [req[r] EXCEPT !.local = loc, !.pc = pc] ELSE req[q]
  BY DEF Resume, TypeInv, TypeOK
<1>2. req[r] \in RequestState
  BY DEF TypeInv, TypeOK
<1>. QED  BY <1>1, <1>2 DEF Moves, RequestState

LEMMA GotoMoves ==
  ASSUME TypeInv, NEW r \in Request, NEW pc \in PC, Goto(r, pc),
         pc \notin {"idle", "ensure"},
         req[r].pc \notin BeforeWrite => pc \notin BeforeWrite,
         req[r].pc \in Logged => pc \in Logged,
         req[r].pc # "idle", pc = "write" => req[r].op \in {"status", "activity"},
         req[r].pc = "ensure" /\ req[r].op = "status" => MaySetStatus(req[r]),
         NEW q \in Request
  PROVE  Moves(q)
<1>1. req'[q] = IF q = r THEN [req[r] EXCEPT !.pc = pc] ELSE req[q]
  BY DEF Goto, TypeInv, TypeOK
<1>2. req[r] \in RequestState
  BY DEF TypeInv, TypeOK
<1>. QED  BY <1>1, <1>2 DEF Moves, RequestState

LEMMA ValidateAssigneeMoves ==
  ASSUME TypeInv, NEW r \in Request, ValidateAssignee(r), ~Throw(r), NEW q \in Request
  PROVE  Moves(q)
<1>. DEFINE args == [req[r].args EXCEPT !.assignee = AssigneeOf(req[r])]
<1>1. req' = [req EXCEPT ![r] = [req[r] EXCEPT !.args = args, !.pc = "write"]]
  BY DEF ValidateAssignee, TypeInv, TypeOK, RequestState, Args
<1>2. /\ args.status = req[r].args.status
      /\ args.assignee \in Member \cup {UNSET}
  BY DEF ValidateAssignee, TypeInv, TypeOK, RequestState, Args
<1>3. req[r] \in RequestState /\ req[r].pc = "assignee"
  BY DEF TypeInv, TypeOK, ValidateAssignee, At
<1>. HIDE DEF args
<1>4. req'[q] = IF q = r THEN [req[r] EXCEPT !.args = args, !.pc = "write"] ELSE req[q]
  BY <1>1 DEF TypeInv, TypeOK
<1>. QED  BY <1>2, <1>3, <1>4 DEF Moves, RequestState, BeforeWrite, Logged

\* The steps between two round trips that write no lead but its score.
LEMMA OtherMoves ==
  ASSUME TypeInv, NEW r \in Request, Step(r), ~Write(r), NEW q \in Request
  PROVE  Moves(q)
<1>. USE ResumeMoves, GotoMoves DEF At, BeforeWrite, Logged, PC
<1>1. CASE Throw(r)
  BY <1>1, ThrowMoves
<1>2. CASE EnsureLeadExists(r) /\ ~Throw(r)
  <2>1. req[r].op \in {"update", "assign", "status", "activity"}
    BY <1>2 DEF EnsureLeadExists, TypeInv, AllLocated, Located, Arrived, AllOps
  <2>. QED  BY <1>2, <2>1 DEF EnsureLeadExists
<1>3. CASE ResolveSource(r)
  BY <1>3 DEF ResolveSource
<1>4. CASE ValidateAssignee(r) /\ ~Throw(r)
  BY <1>4, ValidateAssigneeMoves
<1>5. CASE ReadLead(r) /\ ~Throw(r)
  BY <1>5 DEF ReadLead
<1>6. CASE CountEvidence(r)
  BY <1>6 DEF CountEvidence
<1>7. CASE PersistScore(r)
  BY <1>7 DEF PersistScore, Finish
<1>8. CASE ReadSummary(r)
  BY <1>8 DEF ReadSummary
<1>9. CASE WriteAudit(r)
  BY <1>9 DEF WriteAudit, Finish
<1>10. CASE EmitEvent(r)
  BY <1>10 DEF EmitEvent, Finish
<1>11. CASE EmitAssigned(r)
  BY <1>11 DEF EmitAssigned, Finish
<1>. QED  BY <1>1, <1>2, <1>3, <1>4, <1>5, <1>6, <1>7, <1>8, <1>9, <1>10, <1>11 DEF Step

LEMMA NextMoves ==
  ASSUME TypeInv, [Next]_vars, NEW q \in Request
  PROVE  Moves(q)
<1>1. CASE \E r \in Request : Start(r) \/ Step(r) \/ Fault(r)
  BY <1>1, StartMoves, WriteMoves, OtherMoves, ThrowMoves DEF Fault
<1>2. CASE req' = req
  BY <1>2 DEF Moves
<1>. QED  BY <1>1, <1>2 DEF Next, vars, SetRole, DeactivateMembership

-----------------------------------------------------------------------------
(***************************************************************************)
(* What one step can do to the columns of a lead: nothing, or what one     *)
(* request at its write was asked for.                                     *)
(***************************************************************************)
Opened(l) ==
  /\ leads'[l].soldAt = FALSE /\ leads'[l].soldBy = NULL
  /\ leads'[l].assignee \in Member \cup {NULL}

SameStamp(l) ==
  /\ leads[l] # NULL
  /\ leads'[l].soldAt = leads[l].soldAt /\ leads'[l].soldBy = leads[l].soldBy

SameAssignee(l) == leads[l] # NULL /\ leads'[l].assignee = leads[l].assignee

Sold(l) ==
  \E r \in Request :
    /\ req[r].pc = "write" /\ req[r].op = "status" /\ req[r].args.status = "SOLD"
    /\ req[r].lead = l /\ req'[r].pc = "read"
    /\ leads'[l].soldAt = TRUE /\ leads'[l].soldBy = req[r].actor

Changes(l) ==
  /\ \/ SameStamp(l) \/ Sold(l)
     \/ leads'[l].soldAt = FALSE /\ leads'[l].soldBy = NULL
  /\ SameAssignee(l) \/ leads'[l].assignee \in Member \cup {NULL}

\* At its write, a request that carries an assignee carries a member.
Vetted(r) ==
  req[r].pc = "write" /\ req[r].op \in {"create", "update", "assign"}
    => req[r].args.assignee \in Member \cup {UNSET}

LEMMA SameRowChanges ==
  ASSUME NEW l \in Lead, leads' = leads, leads'[l] # NULL
  PROVE  Changes(l)
BY DEF Changes, SameStamp, SameAssignee

LEMMA WriteChanges ==
  ASSUME TypeInv, NEW r \in Request, Write(r), Vetted(r), NEW l \in Lead, leads'[l] # NULL
  PROVE  Changes(l)
<1>. DEFINE k == req[r].lead
            a == req[r].args
<1>1. CASE CreateLead(r)
  <2>1. PICK n \in Lead : leads[n] = NULL /\ leads' = [leads EXCEPT ![n] = NewRow(a)]
    BY <1>1 DEF CreateLead
  <2>2. CASE l = n
    <3>1. leads'[l] = NewRow(a)
      BY <2>1, <2>2 DEF TypeInv, TypeOK
    <3>2. OrNull(a.assignee) \in Member \cup {NULL}
      BY <1>1 DEF CreateLead, At, Vetted, OrNull, Given
    <3>. QED  BY <3>1, <3>2 DEF Changes, NewRow
  <2>3. CASE l # n
    BY <2>1, <2>3 DEF Changes, SameStamp, SameAssignee, TypeInv, TypeOK
  <2>. QED  BY <2>2, <2>3
<1>2. CASE ~CreateLead(r)
  <2>1. k \in Lead /\ leads[k] \in Row
    BY <1>2, FoundRow
       DEF Write, UpdateLead, AssignLead, UpdateStatus, CreateActivity, At
  <2>2. CASE l # k
    BY <1>2, <2>1, <2>2 DEF Write, UpdateLead, AssignLead, UpdateStatus, CreateActivity,
       Changes, SameStamp, SameAssignee, TypeInv, TypeOK
  <2>3. CASE l = k
    <3>1. leads[l] # NULL
      BY <2>1, <2>3, LeadsAssumption
    <3>2. CASE UpdateLead(r)
      <4>1. Given(a.assignee, leads[l].assignee) \in Member \cup {NULL, leads[l].assignee}
        BY <3>2 DEF UpdateLead, At, Vetted, Given
      <4>. QED  BY <2>1, <2>3, <3>1, <3>2, <4>1
                   DEF UpdateLead, Changes, SameStamp, SameAssignee, TypeInv, TypeOK, Row
    <3>3. CASE AssignLead(r)
      <4>1. OrNull(a.assignee) \in Member \cup {NULL}
        BY <3>3 DEF AssignLead, At, Vetted, OrNull, Given
      <4>. QED  BY <2>1, <2>3, <3>1, <3>3, <4>1
                   DEF AssignLead, Changes, SameStamp, SameAssignee, TypeInv, TypeOK, Row
    <3>4. CASE UpdateStatus(r)
      <4>1. leads'[l] = [leads[l] EXCEPT !.status = a.status, !.soldAt = (a.status = "SOLD"),
                           !.age = 0, !.soldBy = IF a.status = "SOLD"
                                                 THEN req[r].actor ELSE NULL]
        BY <2>1, <2>3, <3>4 DEF UpdateStatus, TypeInv, TypeOK
      <4>2. SameAssignee(l)
        BY <2>1, <2>3, <3>1, <4>1 DEF SameAssignee, Row
      <4>3. CASE a.status = "SOLD"
        <5>1. req'[r].pc = "read" /\ req[r].pc = "write" /\ req[r].op = "status"
          BY <3>4 DEF UpdateStatus, Written, At, TypeInv, TypeOK, RequestState
        <5>2. leads'[l].soldAt = TRUE /\ leads'[l].soldBy = req[r].actor
          BY <2>1, <2>3, <4>1, <4>3 DEF Row
        <5>. QED  BY <2>3, <4>2, <4>3, <5>1, <5>2 DEF Changes, Sold
      <4>4. CASE a.status # "SOLD"
        <5>1. leads'[l].soldAt = FALSE /\ leads'[l].soldBy = NULL
          BY <2>1, <2>3, <4>1, <4>4 DEF Row
        <5>. QED  BY <4>2, <5>1 DEF Changes
      <4>. QED  BY <4>3, <4>4
    <3>5. CASE CreateActivity(r)
      BY <2>1, <2>3, <3>1, <3>5
         DEF CreateActivity, Changes, SameStamp, SameAssignee, TypeInv, TypeOK, Row
    <3>. QED  BY <1>2, <3>2, <3>3, <3>4, <3>5 DEF Write
  <2>. QED  BY <2>2, <2>3
<1>. QED  BY <1>1, <1>2

LEMMA PersistChanges ==
  ASSUME TypeInv, NEW r \in Request, PersistScore(r), NEW l \in Lead, leads'[l] # NULL
  PROVE  Changes(l)
<1>1. req[r].lead \in Lead /\ leads[req[r].lead] \in Row
  BY FoundRow DEF PersistScore, At, BeforeWrite
<1>2. leads[req[r].lead] # NULL
  BY <1>1, LeadsAssumption
<1>. QED  BY <1>1, <1>2 DEF PersistScore, Changes, SameStamp, SameAssignee, TypeInv,
                            TypeOK, Row

LEMMA NextChanges ==
  ASSUME TypeInv, [Next]_vars, \A r \in Request : Vetted(r),
         NEW l \in Lead, leads'[l] # NULL
  PROVE  Changes(l)
<1>1. ASSUME NEW r \in Request, Step(r)
      PROVE  Changes(l)
  <2>1. CASE Write(r)
    BY <2>1, WriteChanges
  <2>2. CASE PersistScore(r)
    BY <2>2, PersistChanges
  <2>3. CASE ~Write(r) /\ ~PersistScore(r)
    BY <1>1, <2>3, SameRowChanges DEF Step, EnsureLeadExists, ResolveSource,
       ValidateAssignee, ReadLead, CountEvidence, ReadSummary, WriteAudit, EmitEvent,
       EmitAssigned, Throw, tables
  <2>. QED  BY <2>1, <2>2, <2>3
<1>2. CASE leads' = leads
  BY <1>2, SameRowChanges
<1>. QED  BY <1>1, <1>2 DEF Next, vars, tables, Start, StartCreate, StartUpdate,
             StartAssign, StartStatus, StartActivity, StartRescore, Begin, Fault, Throw,
             SetRole, DeactivateMembership

-----------------------------------------------------------------------------
(***************************************************************************)
(* Sales and assignments. SoldStampEarned is not inductive alone: that the *)
(* seller had a role that may sell is decided at the check, two round      *)
(* trips before the stamp is written, and the request carries it there.    *)
(***************************************************************************)
Authorised(r) ==
  /\ req[r].pc # "idle" /\ req[r].op # "create" => req[r].actor # NULL
  /\ /\ req[r].op = "status" /\ req[r].args.status = "SOLD"
     /\ req[r].pc \notin {"idle", "ensure"}
     => req[r].role \in SOLD_ALLOWED_ROLES

AllCleared == \A r \in Request : Authorised(r) /\ Vetted(r)

SalesInv == TypeInv /\ AllCleared /\ SoldStampEarned /\ AssignedInsideDealership

LEMMA InitSalesInv == Init => SalesInv
<1>. SUFFICES ASSUME Init PROVE SalesInv
  OBVIOUS
<1>1. TypeInv
  BY InitTypeInv
<1>2. AllCleared
  BY DEF Init, AllCleared, Authorised, Vetted, Idle
<1>3. SoldStampEarned /\ AssignedInsideDealership
  BY InitialRowAssumption DEF Init, SoldStampEarned, AssignedInsideDealership
<1>. QED  BY <1>1, <1>2, <1>3 DEF SalesInv

LEMMA ClearedKept ==
  ASSUME SalesInv, [Next]_vars
  PROVE  AllCleared'
<1>. SUFFICES ASSUME NEW r \in Request
              PROVE  (Authorised(r) /\ Vetted(r))'
  BY DEF AllCleared
<1>1. Authorised(r) /\ Vetted(r) /\ Moves(r)
  BY NextMoves DEF SalesInv, AllCleared
<1>2. Authorised(r)'
  <2>1. CASE req[r].pc = "idle"
    BY <1>1, <2>1 DEF Moves, ComesIn, Authorised
  <2>2. CASE req[r].pc # "idle"
    BY <1>1, <2>2 DEF Moves, Authorised, MaySetStatus
  <2>. QED  BY <2>1, <2>2
<1>3. Vetted(r)'
  <2>1. CASE req[r].pc = "write"
    BY <1>1, <2>1 DEF Moves, Vetted
  <2>2. CASE req[r].pc # "write"
    BY <1>1, <2>2 DEF Moves, Vetted
  <2>. QED  BY <2>1, <2>2
<1>. QED  BY <1>2, <1>3

LEMMA StampKept ==
  ASSUME SalesInv, [Next]_vars
  PROVE  SoldStampEarned'
<1>. SUFFICES ASSUME NEW l \in Lead, leads'[l] # NULL
              PROVE  /\ leads'[l].soldAt <=> leads'[l].soldBy # NULL
                     /\ leads'[l].soldBy # NULL
                          => \E r \in Request : SoldBy(r, l, leads[l].soldBy)'
  BY DEF SoldStampEarned
<1>1. Changes(l)
  BY NextChanges DEF SalesInv, AllCleared
<1>2. CASE SameStamp(l)
  <2>1. leads'[l].soldAt <=> leads'[l].soldBy # NULL
    BY <1>2 DEF SameStamp, SalesInv, SoldStampEarned
  <2>2. ASSUME leads'[l].soldBy # NULL
        PROVE  \E r \in Request : SoldBy(r, l, leads[l].soldBy)'
    <3>1. PICK r \in Request : SoldBy(r, l, leads[l].soldBy)
      BY <1>2, <2>2 DEF SameStamp, SalesInv, SoldStampEarned
    <3>2. Moves(r)
      BY NextMoves DEF SalesInv
    <3>3. SoldBy(r, l, leads[l].soldBy)'
      BY <1>2, <3>1, <3>2 DEF Moves, SoldBy, Wrote, BeforeWrite, SameStamp
    <3>. QED  BY <3>3
  <2>. QED  BY <2>1, <2>2
<1>3. CASE Sold(l)
  <2>1. PICK r \in Request :
          /\ req[r].pc = "write" /\ req[r].op = "status" /\ req[r].args.status = "SOLD"
          /\ req[r].lead = l /\ req'[r].pc = "read"
          /\ leads'[l].soldAt = TRUE /\ leads'[l].soldBy = req[r].actor
    BY <1>3 DEF Sold
  <2>2. req[r].role \in SOLD_ALLOWED_ROLES /\ req[r].actor # NULL
    BY <2>1 DEF SalesInv, AllCleared, Authorised
  <2>3. Moves(r)
    BY NextMoves DEF SalesInv
  <2>4. SoldBy(r, l, leads[l].soldBy)'
    BY <2>1, <2>2, <2>3 DEF Moves, SoldBy, Wrote, BeforeWrite
  <2>5. leads'[l].soldBy # NULL
    BY <2>1, <2>2, LeadsAssumption
  <2>. QED  BY <2>1, <2>4, <2>5
<1>. QED  BY <1>1, <1>2, <1>3 DEF Changes

LEMMA AssigneeKept ==
  ASSUME SalesInv, [Next]_vars
  PROVE  AssignedInsideDealership'
<1>. SUFFICES ASSUME NEW l \in Lead, leads'[l] # NULL
              PROVE  leads'[l].assignee \in Member \cup {NULL}
  BY DEF AssignedInsideDealership
<1>1. Changes(l)
  BY NextChanges DEF SalesInv, AllCleared
<1>. QED  BY <1>1 DEF Changes, SameAssignee, SalesInv, AssignedInsideDealership

LEMMA NextSalesInv == SalesInv /\ [Next]_vars => SalesInv'
BY NextTypeInv, ClearedKept, StampKept, AssigneeKept DEF SalesInv

\* updateStatus: in every execution the date of a sale and the seller stand or
\* fall together, and the seller is an admin or a manager of the dealership who
\* asked for the lead to be marked as sold.
THEOREM SalesAreEarned == Spec => []SoldStampEarned
<1>1. SalesInv => SoldStampEarned
  BY DEF SalesInv
<1>. QED  BY <1>1, InitSalesInv, NextSalesInv, PTL DEF Spec

\* validateAssignee: in every execution a lead is in the hands of a member of
\* the dealership, or of nobody.
THEOREM AssigneesAreMembers == Spec => []AssignedInsideDealership
<1>1. SalesInv => AssignedInsideDealership
  BY DEF SalesInv
<1>. QED  BY <1>1, InitSalesInv, NextSalesInv, PTL DEF Spec

-----------------------------------------------------------------------------
(***************************************************************************)
(* The logs. A request gets past its audit row only by writing it, and     *)
(* nothing takes a row out of the log.                                     *)
(***************************************************************************)
Entry(r) == [req |-> r, action |-> ActionName[req[r].op], lead |-> req[r].lead]

Recorded(r) == req[r].pc \in Logged /\ req[r].op # "rescore" => Entry(r) \in audit

Sourced(e) == req[e.req].pc \in Logged /\ req[e.req].op # "rescore"
                /\ e.lead = req[e.req].lead

LogsInv ==
  /\ TypeInv
  /\ \A r \in Request : Recorded(r)
  /\ \A e \in events : Sourced(e)

\* What one step does to the logs.
Logs ==
  /\ audit \subseteq audit'
  /\ \A r \in Request : req[r].pc \notin Logged /\ req'[r].pc \in Logged
        => \/ req'[r].op = "rescore"
           \/ Entry(r) \in audit' /\ req'[r].lead = req[r].lead
  /\ \A e \in events' \ events : req[e.req].pc \in Logged /\ req[e.req].op # "rescore"
                                  /\ e.req \in Request /\ e.lead = req[e.req].lead

LEMMA QuietLogs ==
  ASSUME TypeInv, UNCHANGED <<audit, events>>,
         \A r \in Request : \/ req'[r].pc = req[r].pc \/ req'[r].pc \notin Logged
                           \/ req'[r].op = "rescore"
  PROVE  Logs
BY DEF Logs

LEMMA ResumedAt ==
  ASSUME TypeInv, NEW r \in Request, NEW loc, NEW pc, Resume(r, loc, pc)
  PROVE  req'[r].pc = pc
BY DEF Resume, TypeInv, TypeOK, RequestState

LEMMA StepLogs ==
  ASSUME TypeInv, NEW r \in Request, Step(r)
  PROVE  Logs
<1>. USE DEF At, Logged
<1>1. CASE Throw(r)
  BY <1>1, QuietLogs DEF Throw, tables, TypeInv, TypeOK, RequestState
<1>2. CASE EnsureLeadExists(r) /\ ~Throw(r)
  <2>1. \A q \in Request \ {r} : req'[q] = req[q]
    BY <1>2 DEF EnsureLeadExists, Resume, TypeInv, TypeOK
  <2>2. req'[r].pc \in {"source", "assignee", "write"}
    BY <1>2, ResumedAt DEF EnsureLeadExists
  <2>. QED  BY <1>2, <2>1, <2>2, QuietLogs DEF EnsureLeadExists, tables
<1>3. CASE ResolveSource(r)
  BY <1>3, QuietLogs DEF ResolveSource, Goto, TypeInv, TypeOK, RequestState
<1>4. CASE ValidateAssignee(r) /\ ~Throw(r)
  BY <1>4, QuietLogs DEF ValidateAssignee, tables, TypeInv, TypeOK, RequestState
<1>5. CASE Write(r)
  <2>1. PICK l \in Lead : Written(r, l) /\ UNCHANGED <<audit, events>>
    BY <1>5, FoundRow DEF Write, CreateLead, UpdateLead, AssignLead, UpdateStatus,
                          CreateActivity
  <2>2. \A q \in Request : req'[q].pc = req[q].pc \/ req'[q].pc = "read"
    BY <2>1 DEF Written, TypeInv, TypeOK, RequestState
  <2>. QED  BY <2>1, <2>2, QuietLogs
<1>6. CASE ReadLead(r) /\ ~Throw(r)
  <2>1. \A q \in Request \ {r} : req'[q] = req[q]
    BY <1>6 DEF ReadLead, Resume, TypeInv, TypeOK
  <2>2. req'[r].pc \in {"count", "persist"}
    BY <1>6, ResumedAt DEF ReadLead
  <2>. QED  BY <1>6, <2>1, <2>2, QuietLogs DEF ReadLead, tables
<1>7. CASE CountEvidence(r)
  BY <1>7, QuietLogs DEF CountEvidence, Resume, tables, TypeInv, TypeOK, RequestState
<1>8. CASE PersistScore(r)
  <2>1. CASE req[r].op = "rescore"
    BY <1>8, <2>1, QuietLogs
       DEF PersistScore, Finish, Resume, TypeInv, TypeOK, RequestState
  <2>2. CASE req[r].op # "rescore"
    BY <1>8, <2>2, QuietLogs DEF PersistScore, Resume, TypeInv, TypeOK, RequestState
  <2>. QED  BY <2>1, <2>2
<1>9. CASE ReadSummary(r)
  BY <1>9, QuietLogs DEF ReadSummary, Resume, tables, TypeInv, TypeOK, RequestState
<1>10. CASE WriteAudit(r)
  <2>1. CASE Goto(r, "emit")
    <3>1. req'[r].lead = req[r].lead /\ \A q \in Request \ {r} : req'[q] = req[q]
      BY <2>1 DEF Goto, TypeInv, TypeOK, RequestState
    <3>. QED  BY <1>10, <3>1 DEF WriteAudit, Entry, Logs
  <2>2. CASE Finish(r)
    <3>1. req'[r].lead = req[r].lead /\ \A q \in Request \ {r} : req'[q] = req[q]
      BY <2>2 DEF Finish, Resume, TypeInv, TypeOK, RequestState
    <3>. QED  BY <1>10, <3>1 DEF WriteAudit, Entry, Logs
  <2>. QED  BY <1>10, <2>1, <2>2 DEF WriteAudit
<1>11. CASE EmitEvent(r) \/ EmitAssigned(r)
  <2>1. req[r].pc \in Logged /\ req[r].op # "rescore"
    BY <1>11 DEF EmitEvent, EmitAssigned, TypeInv, AllLocated, Located, Arrived
  <2>2. \A q \in Request \ {r} : req'[q] = req[q]
    BY <1>11 DEF EmitEvent, EmitAssigned, Goto, Finish, Resume, TypeInv, TypeOK
  <2>3. \A e \in events' \ events : e.req = r /\ e.lead = req[r].lead
    BY <1>11 DEF EmitEvent, EmitAssigned, Emit
  <2>. QED  BY <1>11, <2>1, <2>2, <2>3 DEF EmitEvent, EmitAssigned, Logs
<1>. QED  BY <1>1, <1>2, <1>3, <1>4, <1>5, <1>6, <1>7, <1>8, <1>9, <1>10, <1>11 DEF Step

LEMMA NextLogs ==
  ASSUME TypeInv, [Next]_vars
  PROVE  Logs
<1>1. ASSUME NEW r \in Request, Start(r)
      PROVE  Logs
  <2>1. ASSUME NEW op, NEW u, NEW l, NEW pc \in {"source", "ensure", "read"}, NEW args,
               Begin(r, op, u, l, pc, args)
        PROVE  Logs
    BY <2>1, QuietLogs DEF Begin, Logged, tables, TypeInv, TypeOK
  <2>. QED  BY <1>1, <2>1 DEF Start, StartCreate, StartUpdate, StartAssign, StartStatus,
                              StartActivity, StartRescore
<1>2. ASSUME NEW r \in Request, Throw(r)
      PROVE  Logs
  BY <1>2, QuietLogs DEF Throw, tables, TypeInv, TypeOK, RequestState
<1>3. CASE UNCHANGED <<req, audit, events>>
  BY <1>3, QuietLogs
<1>. QED  BY <1>1, <1>2, <1>3, StepLogs
             DEF Next, Fault, vars, tables, SetRole, DeactivateMembership

LEMMA NextLogsInv == LogsInv /\ [Next]_vars => LogsInv'
<1>. SUFFICES ASSUME LogsInv, [Next]_vars PROVE LogsInv'
  OBVIOUS
<1>1. TypeInv' /\ Logs /\ \A r \in Request : Moves(r)
  BY NextTypeInv, NextLogs, NextMoves DEF LogsInv
<1>2. ASSUME NEW r \in Request
      PROVE  Recorded(r)'
  <2>. SUFFICES ASSUME req'[r].pc \in Logged, req'[r].op # "rescore"
                PROVE  Entry(r)' \in audit'
    BY DEF Recorded
  <2>1. req[r].pc # "idle"
    BY <1>1 DEF Moves, ComesIn, Logged
  <2>2. CASE req[r].pc \in Logged
    BY <1>1, <2>1, <2>2 DEF LogsInv, Recorded, Entry, Logs, Moves, Logged, BeforeWrite
  <2>3. CASE req[r].pc \notin Logged
    <3>1. req'[r].op = req[r].op
      BY <1>1, <2>1 DEF Moves
    <3>2. Entry(r) \in audit' /\ req'[r].lead = req[r].lead
      BY <1>1, <2>3, <3>1 DEF Logs
    <3>. QED  BY <3>1, <3>2 DEF Entry
  <2>. QED  BY <2>2, <2>3
<1>3. ASSUME NEW e \in events'
      PROVE  Sourced(e)'
  <2>1. e.req \in Request
    BY <1>1 DEF TypeInv, TypeOK
  <2>2. req[e.req].pc \in Logged /\ req[e.req].op # "rescore" /\ e.lead = req[e.req].lead
    BY <1>1 DEF LogsInv, Sourced, Logs
  <2>. QED  BY <1>1, <2>1, <2>2 DEF Sourced, Moves, Logged, BeforeWrite
<1>. QED  BY <1>1, <1>2, <1>3 DEF LogsInv

\* logEvent: in every execution a change that was acknowledged has its row in
\* the audit log.
THEOREM AcknowledgedChangesAreAudited == Spec => []AcknowledgedIsAudited
<1>1. Init => LogsInv
  BY InitTypeInv DEF Init, LogsInv, Recorded, Sourced, Idle, Logged
<1>2. LogsInv => AcknowledgedIsAudited
  BY DEF LogsInv, Recorded, Entry, Logged, AcknowledgedIsAudited
<1>. QED  BY <1>1, <1>2, NextLogsInv, PTL DEF Spec

\* emit: in every execution an event that reports count has its row in the
\* audit log.
THEOREM EventsAreAudited == Spec => []EventsAudited
<1>1. Init => LogsInv
  BY InitTypeInv DEF Init, LogsInv, Recorded, Sourced, Idle, Logged
<1>2. LogsInv => EventsAudited
  <2>. SUFFICES ASSUME LogsInv, NEW e \in events
                PROVE  \E a \in audit : a.req = e.req /\ a.lead = e.lead
    BY DEF EventsAudited
  <2>1. e.req \in Request /\ Sourced(e)
    BY DEF LogsInv, TypeInv, TypeOK
  <2>2. Entry(e.req) \in audit
    BY <2>1 DEF LogsInv, Recorded, Sourced
  <2>3. Entry(e.req).req = e.req /\ Entry(e.req).lead = e.lead
    BY <2>1 DEF Entry, Sourced
  <2>. QED  BY <2>2, <2>3
<1>. QED  BY <1>1, <1>2, NextLogsInv, PTL DEF Spec

-----------------------------------------------------------------------------
(***************************************************************************)
(* The stored score. ScoreSettles is not inductive alone: that a score     *)
(* which is about to be stored is right is known from what the request     *)
(* read, and that nobody has written the lead since.                       *)
(***************************************************************************)
Informed(q) ==
  q \notin failed /\ ~req[q].local.outdated =>
    /\ req[q].pc = "count" => req[q].local.row = ScoredColumns(leads[req[q].lead])
    /\ req[q].pc = "persist" => req[q].local.score = ScoreOf(req[q].lead)

AllInformed == \A q \in Request : Informed(q)

ScoreInv == TypeInv /\ AllInformed /\ ScoreSettles

\* A step of a request moves that request alone, or writes a lead.
LEMMA StepMovesOne ==
  ASSUME NEW r \in Request, Start(r) \/ Step(r) \/ Fault(r), ~Write(r)
  PROVE  \E q2 : req' = [req EXCEPT ![r] = q2]
<1>. USE DEF Resume, Goto, Finish, Throw
<1>1. ASSUME NEW op, NEW u, NEW l, NEW pc, NEW args, Begin(r, op, u, l, pc, args)
      PROVE  \E q2 : req' = [req EXCEPT ![r] = q2]
  BY <1>1 DEF Begin
<1>2. CASE Start(r)
  BY <1>1, <1>2 DEF Start, StartCreate, StartUpdate, StartAssign, StartStatus,
                    StartActivity, StartRescore
<1>3. CASE Throw(r)
  <2>1. req' = [req EXCEPT ![r].local = Blank]
    BY <1>3
  <2>. QED  BY <2>1
<1>4. CASE EnsureLeadExists(r) \/ ResolveSource(r)
  BY <1>3, <1>4 DEF EnsureLeadExists, ResolveSource
<1>5. CASE ValidateAssignee(r)
  BY <1>3, <1>5 DEF ValidateAssignee
<1>6. CASE ReadLead(r) \/ CountEvidence(r)
  BY <1>3, <1>6 DEF ReadLead, CountEvidence
<1>7. CASE PersistScore(r) \/ ReadSummary(r)
  BY <1>7 DEF PersistScore, ReadSummary
<1>8. CASE WriteAudit(r) \/ EmitEvent(r) \/ EmitAssigned(r)
  BY <1>8 DEF WriteAudit, EmitEvent, EmitAssigned
<1>. QED  BY <1>2, <1>3, <1>4, <1>5, <1>6, <1>7, <1>8 DEF Step, Fault

LEMMA OthersStay ==
  ASSUME TypeInv, NEW r \in Request, Start(r) \/ Step(r) \/ Fault(r), ~Write(r)
  PROVE  \A q \in Request \ {r} : req'[q] = req[q]
BY StepMovesOne DEF TypeInv, TypeOK

\* What a write does: one lead and what there is about it, and the requests.
LEMMA WriteEffect ==
  ASSUME TypeInv, NEW r \in Request, Write(r)
  PROVE  \E l \in Lead :
           /\ Written(r, l) /\ req[r].pc = "write" /\ req[r].op # "rescore"
           /\ UNCHANGED <<failed, overtaken>>
           /\ \A k \in Lead \ {l} : leads'[k] = leads[k] /\ evidence'[k] = evidence[k]
<1>1. req[r].pc = "write"
  BY DEF Write, CreateLead, UpdateLead, AssignLead, UpdateStatus, CreateActivity, At
<1>2. req[r].op # "rescore"
  BY <1>1 DEF TypeInv, AllLocated, Located, Arrived
<1>3. UNCHANGED <<failed, overtaken>>
  BY DEF Write, CreateLead, UpdateLead, AssignLead, UpdateStatus, CreateActivity
<1>4. CASE CreateLead(r)
  <2>1. PICK l \in Lead : /\ Written(r, l)
                          /\ leads' = [leads EXCEPT ![l] = NewRow(req[r].args)]
    BY <1>4 DEF CreateLead
  <2>2. \A k \in Lead \ {l} : leads'[k] = leads[k] /\ evidence'[k] = evidence[k]
    BY <1>4, <2>1 DEF CreateLead, TypeInv, TypeOK
  <2>. QED  BY <1>1, <1>2, <1>3, <2>1, <2>2
<1>5. CASE ~CreateLead(r)
  <2>. DEFINE l == req[r].lead
  <2>1. l \in Lead
    BY <1>1, <1>5, FoundRow
       DEF Write, UpdateLead, AssignLead, UpdateStatus, CreateActivity
  <2>2. Written(r, l)
    BY <1>5 DEF Write, UpdateLead, AssignLead, UpdateStatus, CreateActivity
  <2>3. \A k \in Lead \ {l} : leads'[k] = leads[k] /\ evidence'[k] = evidence[k]
    BY <1>5 DEF Write, UpdateLead, AssignLead, UpdateStatus, CreateActivity, TypeInv, TypeOK
  <2>. QED  BY <1>1, <1>2, <1>3, <2>1, <2>2, <2>3
<1>. QED  BY <1>4, <1>5

\* The requests after a write: the writer is to read, and who was working out a
\* score of the lead knows less than there is.
LEMMA WrittenRequests ==
  ASSUME TypeInv, NEW r \in Request, NEW l \in Lead, Written(r, l)
  PROVE  /\ req'[r].pc = "read" /\ req'[r].lead = l /\ req'[r].op = req[r].op
         /\ \A q \in Request \ {r} :
              /\ req'[q].pc = req[q].pc /\ req'[q].lead = req[q].lead
              /\ req'[q].op = req[q].op
              /\ req'[q].local.row = req[q].local.row
              /\ req'[q].local.score = req[q].local.score
              /\ req'[q].local.outdated = (req[q].local.outdated \/ Overtakes(l, req[q]))
<1>1. req'[r] = [req[r] EXCEPT !.lead = l, !.pc = "read"] /\ req[r] \in RequestState
  BY DEF Written, TypeInv, TypeOK
<1>2. ASSUME NEW q \in Request \ {r}
      PROVE  /\ req'[q].pc = req[q].pc /\ req'[q].lead = req[q].lead
             /\ req'[q].op = req[q].op
             /\ req'[q].local.row = req[q].local.row
             /\ req'[q].local.score = req[q].local.score
             /\ req'[q].local.outdated = (req[q].local.outdated \/ Overtakes(l, req[q]))
  <2>. DEFINE b == req[q].local.outdated \/ Overtakes(l, req[q])
  <2>1. req'[q] = [req[q] EXCEPT !.local = [@ EXCEPT !.outdated = b]]
    BY DEF Written, TypeInv, TypeOK, RequestState
  <2>2. req[q] \in RequestState /\ req[q].local \in Local
    BY DEF TypeInv, TypeOK, RequestState
  <2>. HIDE DEF b
  <2>3. req'[q].local.outdated = b
    BY <2>1, <2>2 DEF RequestState, Local
  <2>4. /\ req'[q].pc = req[q].pc /\ req'[q].lead = req[q].lead
        /\ req'[q].op = req[q].op
        /\ req'[q].local.row = req[q].local.row
        /\ req'[q].local.score = req[q].local.score
    BY <2>1, <2>2 DEF RequestState, Local
  <2>. QED  BY <2>3, <2>4 DEF b
<1>. QED  BY <1>1, <1>2 DEF RequestState

\* A request owes its lead a score from its write to its persist.
Owing == {"read", "count", "persist"}

LEMMA OwesAt ==
  ASSUME TypeInv, NEW q \in Request, NEW l
  PROVE  OwesScore(q, l) <=> /\ req[q].lead = l /\ req[q].op # "rescore"
                             /\ req[q].pc \in Owing
BY DEF OwesScore, Wrote, Scored, BeforePersist, BeforeWrite, Owing, TypeInv, TypeOK,
       RequestState, PC

LEMMA InitScoreInv == Init => ScoreInv
<1>. SUFFICES ASSUME Init PROVE ScoreInv
  OBVIOUS
<1>1. TypeInv
  BY InitTypeInv
<1>2. AllInformed
  BY DEF Init, AllInformed, Informed, Idle
<1>3. ScoreSettles
  <2>. SUFFICES ASSUME NEW l \in Lead, leads[l] # NULL
                PROVE  leads[l].score = ScoreOf(l)
    BY DEF ScoreSettles
  <2>1. leads[l] \in InitialRow \ {NULL} /\ evidence[l] \in InitialEvidence
    BY DEF Init
  <2>2. leads[l] \in Row /\ ~leads[l].soldAt /\ leads[l].score = Score(leads[l], evidence[l])
    BY <2>1, InitialRowAssumption
  <2>3. Score(ScoredColumns(leads[l]), evidence[l]) = Score(leads[l], evidence[l])
    BY DEF Score, ScoredColumns, SoldForScore, Unclamped
  <2>. QED  BY <2>2, <2>3 DEF ScoreOf
<1>. QED  BY <1>1, <1>2, <1>3 DEF ScoreInv

\* After a write the writer owes the lead a score, and nothing else has changed.
LEMMA WriteScores ==
  ASSUME ScoreInv, TypeInv', NEW r \in Request, Write(r)
  PROVE  ScoreSettles' /\ AllInformed'
<1>1. PICK l \in Lead :
        /\ Written(r, l) /\ req[r].pc = "write" /\ req[r].op # "rescore"
        /\ UNCHANGED <<failed, overtaken>>
        /\ \A k \in Lead \ {l} : leads'[k] = leads[k] /\ evidence'[k] = evidence[k]
  BY WriteEffect DEF ScoreInv
<1>2. /\ req'[r].pc = "read" /\ req'[r].lead = l /\ req'[r].op = req[r].op
      /\ \A q \in Request \ {r} :
           /\ req'[q].pc = req[q].pc /\ req'[q].lead = req[q].lead
           /\ req'[q].op = req[q].op
           /\ req'[q].local.row = req[q].local.row
           /\ req'[q].local.score = req[q].local.score
           /\ req'[q].local.outdated = (req[q].local.outdated \/ Overtakes(l, req[q]))
  BY <1>1, WrittenRequests DEF ScoreInv
<1>3. ScoreSettles'
  <2>. SUFFICES ASSUME NEW k \in Lead, leads'[k] # NULL
                PROVE  \/ leads'[k].score = ScoreOf(k)'
                       \/ \E q \in Request : OwesScore(q, k)'
                       \/ k \in overtaken'
    BY DEF ScoreSettles
  <2>1. CASE k = l
    <3>1. OwesScore(r, k)'
      BY <1>1, <1>2, <2>1 DEF OwesScore, Wrote, Scored, BeforePersist, BeforeWrite
    <3>. QED  BY <3>1
  <2>2. CASE k # l
    <3>1. leads'[k] = leads[k] /\ ScoreOf(k)' = ScoreOf(k)
      BY <1>1, <2>2 DEF ScoreOf
    <3>2. ASSUME NEW q \in Request, OwesScore(q, k)
          PROVE  OwesScore(q, k)'
      <4>1. q # r
        BY <1>1, <3>2 DEF OwesScore, Wrote, BeforeWrite
      <4>. QED  BY <1>2, <3>2, <4>1 DEF OwesScore, Wrote, Scored
    <3>. QED  BY <1>1, <3>1, <3>2 DEF ScoreInv, ScoreSettles
  <2>. QED  BY <2>1, <2>2
<1>4. ASSUME NEW q \in Request
      PROVE  Informed(q)'
  <2>1. CASE q = r
    BY <1>2, <2>1 DEF Informed
  <2>2. CASE q # r
    <3>. SUFFICES ASSUME q \notin failed', ~req'[q].local.outdated,
                         req'[q].pc \in {"count", "persist"}
                  PROVE  Informed(q)'
      BY DEF Informed
    <3>1. /\ req'[q].pc = req[q].pc /\ req'[q].lead = req[q].lead
          /\ req'[q].local.row = req[q].local.row
          /\ req'[q].local.score = req[q].local.score
          /\ ~req[q].local.outdated /\ ~Overtakes(l, req[q])
      BY <1>2, <2>2
    <3>2. req[q].lead # l
      BY <3>1 DEF Overtakes
    <3>3. req[q].lead \in Lead
      BY <3>1 DEF ScoreInv, TypeInv, AllLocated, Located, Arrived, BeforeWrite
    <3>4. leads'[req[q].lead] = leads[req[q].lead] /\ evidence'[req[q].lead] = evidence[req[q].lead]
      BY <1>1, <3>2, <3>3
    <3>5. q \notin failed /\ Informed(q)
      BY <1>1 DEF ScoreInv, AllInformed
    <3>. QED  BY <3>1, <3>4, <3>5 DEF Informed, ScoreOf
  <2>. QED  BY <2>1, <2>2
<1>. QED  BY <1>3, <1>4 DEF AllInformed

\* Storing a score: it is the right one, or the lead counts as overtaken.
LEMMA PersistScores ==
  ASSUME ScoreInv, NEW r \in Request, PersistScore(r)
  PROVE  ScoreSettles' /\ AllInformed'
<1>. DEFINE l == req[r].lead
            row == [leads[l] EXCEPT !.score = req[r].local.score]
<1>1. l \in Lead /\ leads[l] \in Row /\ req[r].pc = "persist" /\ r \notin failed
  BY FoundRow DEF PersistScore, At, BeforeWrite, ScoreInv
<1>2. leads' = [leads EXCEPT ![l] = row] /\ UNCHANGED <<evidence, failed>>
  BY <1>1 DEF PersistScore, ScoreInv, TypeInv, TypeOK, Row
<1>3. \A k \in Lead : ScoredColumns(leads'[k]) = ScoredColumns(leads[k])
  BY <1>1, <1>2 DEF ScoreInv, TypeInv, TypeOK, Row, ScoredColumns
<1>4. \A k \in Lead : ScoreOf(k)' = ScoreOf(k)
  BY <1>2, <1>3 DEF ScoreOf
<1>5. req'[r].pc \in {"audit", "summary", "end"}
  BY ResumedAt DEF PersistScore, Finish, ScoreInv
<1>6. \A q \in Request \ {r} : req'[q] = req[q]
  BY OthersStay DEF Step, ScoreInv, PersistScore, Write, CreateLead, UpdateLead, AssignLead,
                    UpdateStatus, CreateActivity, At
<1>7. ScoreSettles'
  <2>. SUFFICES ASSUME NEW k \in Lead, leads'[k] # NULL
                PROVE  \/ leads'[k].score = ScoreOf(k)'
                       \/ \E q \in Request : OwesScore(q, k)'
                       \/ k \in overtaken'
    BY DEF ScoreSettles
  <2>1. CASE k = l /\ req[r].local.outdated
    BY <2>1 DEF PersistScore
  <2>2. CASE k = l /\ ~req[r].local.outdated
    <3>1. req[r].local.score = ScoreOf(l)
      BY <1>1, <2>2 DEF ScoreInv, AllInformed, Informed
    <3>2. leads'[l].score = req[r].local.score
      BY <1>1, <1>2 DEF ScoreInv, TypeInv, TypeOK, Row
    <3>. QED  BY <1>1, <1>4, <2>2, <3>1, <3>2
  <2>3. CASE k # l
    <3>1. leads'[k] = leads[k] /\ (k \in overtaken => k \in overtaken')
      BY <1>2, <2>3 DEF PersistScore, ScoreInv, TypeInv, TypeOK
    <3>2. ASSUME NEW q \in Request, OwesScore(q, k)
          PROVE  OwesScore(q, k)'
      <4>1. q # r
        BY <2>3, <3>2 DEF OwesScore
      <4>. QED  BY <1>6, <3>2, <4>1 DEF OwesScore, Wrote, Scored
    <3>. QED  BY <1>4, <3>1, <3>2 DEF ScoreInv, ScoreSettles
  <2>. QED  BY <2>1, <2>2, <2>3
<1>8. ASSUME NEW q \in Request
      PROVE  Informed(q)'
  <2>1. CASE q = r
    BY <1>5, <2>1 DEF Informed
  <2>2. CASE q # r
    <3>. SUFFICES ASSUME q \notin failed', ~req'[q].local.outdated,
                         req'[q].pc \in {"count", "persist"}
                  PROVE  Informed(q)'
      BY DEF Informed
    <3>1. req'[q] = req[q] /\ q \notin failed /\ Informed(q)
      BY <1>2, <1>6, <2>2 DEF ScoreInv, AllInformed
    <3>2. PICK k \in Lead : k = req[q].lead
      BY <3>1 DEF ScoreInv, TypeInv, AllLocated, Located, Arrived, BeforeWrite
    <3>3. /\ ScoredColumns(leads'[k]) = ScoredColumns(leads[k])
          /\ ScoreOf(k)' = ScoreOf(k)
      BY <1>3, <1>4, <3>2
    <3>. QED  BY <3>1, <3>2, <3>3 DEF Informed, ScoreOf
  <2>. QED  BY <2>1, <2>2
<1>. QED  BY <1>7, <1>8 DEF AllInformed

\* A request reads the row, and with it knows what it will store, or what it
\* will count with.
LEMMA ReadInforms ==
  ASSUME ScoreInv, NEW r \in Request, ReadLead(r), ~Throw(r)
  PROVE  Informed(r)' /\ (\A k : OwesScore(r, k) => OwesScore(r, k)')
<1>. DEFINE l == req[r].lead
            row == ScoredColumns(leads[l])
            sold == SoldForScore(row)
            loc == [req[r].local EXCEPT !.row = row, !.outdated = FALSE,
                                        !.score = IF sold THEN 100 ELSE 0]
            pc == IF sold THEN "persist" ELSE "count"
<1>1. Resume(r, loc, pc) /\ UNCHANGED <<leads, evidence>>
  BY DEF ReadLead, tables
<1>2. req'[r] = [req[r] EXCEPT !.local = loc, !.pc = pc]
  BY <1>1 DEF Resume, ScoreInv, TypeInv, TypeOK
<1>3. req[r] \in RequestState /\ req[r].local \in Local
  BY DEF ScoreInv, TypeInv, TypeOK, RequestState
<1>4. loc.row = row /\ loc.score = IF sold THEN 100 ELSE 0
  BY <1>3 DEF Local
<1>5. sold => Score(row, evidence[l]) = 100
  BY DEF Score
<1>. HIDE DEF loc, row
<1>6. req'[r].local = loc /\ req'[r].pc = pc /\ req'[r].lead = l /\ req'[r].op = req[r].op
  BY <1>2, <1>3 DEF RequestState
<1>7. Informed(r)'
  BY <1>1, <1>4, <1>5, <1>6 DEF Informed, ScoreOf, row
<1>8. \A k : OwesScore(r, k) => OwesScore(r, k)'
  BY <1>6 DEF OwesScore, Wrote, Scored, BeforePersist, BeforeWrite
<1>. QED  BY <1>7, <1>8

LEMMA CountInforms ==
  ASSUME ScoreInv, NEW r \in Request, CountEvidence(r)
  PROVE  Informed(r)' /\ (\A k : OwesScore(r, k) => OwesScore(r, k)')
<1>. DEFINE l == req[r].lead
            loc == [req[r].local EXCEPT !.score = Score(req[r].local.row, evidence[l])]
<1>1. Resume(r, loc, "persist") /\ UNCHANGED <<leads, evidence>>
  BY DEF CountEvidence, tables
<1>2. req'[r] = [req[r] EXCEPT !.local = loc, !.pc = "persist"]
  BY <1>1 DEF Resume, ScoreInv, TypeInv, TypeOK
<1>3. req[r] \in RequestState /\ req[r].local \in Local
  BY DEF ScoreInv, TypeInv, TypeOK, RequestState
<1>4. /\ loc.score = Score(req[r].local.row, evidence[l])
      /\ loc.outdated = req[r].local.outdated
  BY <1>3 DEF Local
<1>5. req[r].pc = "count" /\ r \notin failed /\ Informed(r)
  BY DEF CountEvidence, At, ScoreInv, AllInformed
<1>. HIDE DEF loc
<1>6. /\ req'[r].local = loc /\ req'[r].pc = "persist" /\ req'[r].lead = l
      /\ req'[r].op = req[r].op
  BY <1>2, <1>3 DEF RequestState
<1>7. Informed(r)'
  BY <1>1, <1>4, <1>5, <1>6 DEF Informed, ScoreOf
<1>8. \A k : OwesScore(r, k) => OwesScore(r, k)'
  BY <1>5, <1>6 DEF OwesScore, Wrote, Scored, BeforePersist, BeforeWrite
<1>. QED  BY <1>7, <1>8

\* Every other step leaves the leads and what there is about them alone.
Untouched == UNCHANGED <<leads, evidence, overtaken>> /\ failed \subseteq failed'

LEMMA QuietScores ==
  ASSUME ScoreInv, NEW r \in Request, Untouched,
         \A q \in Request \ {r} : req'[q] = req[q], Informed(r)',
         \A k : OwesScore(r, k) => OwesScore(r, k)'
  PROVE  ScoreSettles' /\ AllInformed'
<1>1. ASSUME NEW q \in Request, NEW l, OwesScore(q, l)
      PROVE  OwesScore(q, l)'
  <2>1. CASE q = r
    BY <1>1, <2>1
  <2>2. CASE q # r
    BY <1>1, <2>2 DEF OwesScore, Wrote, Scored
  <2>. QED  BY <2>1, <2>2
<1>2. ScoreSettles'
  BY <1>1 DEF ScoreInv, ScoreSettles, ScoreOf, Untouched
<1>3. ASSUME NEW q \in Request
      PROVE  Informed(q)'
  <2>1. CASE q = r
    BY <2>1
  <2>2. CASE q # r
    BY <2>2 DEF ScoreInv, AllInformed, Informed, ScoreOf, Untouched
  <2>. QED  BY <2>1, <2>2
<1>. QED  BY <1>2, <1>3 DEF AllInformed

LEMMA StartScores ==
  ASSUME ScoreInv, NEW r \in Request, Start(r)
  PROVE  ScoreSettles' /\ AllInformed'
<1>1. Untouched /\ req[r].pc = "idle" /\ req'[r].pc \in {"source", "ensure", "read"}
  <2>1. ASSUME NEW op, NEW u, NEW l, NEW pc \in {"source", "ensure", "read"}, NEW args,
               Begin(r, op, u, l, pc, args)
        PROVE  Untouched /\ req[r].pc = "idle" /\ req'[r].pc \in {"source", "ensure", "read"}
    BY <2>1 DEF Begin, At, Untouched, tables, ScoreInv, TypeInv, TypeOK
  <2>. QED  BY <2>1 DEF Start, StartCreate, StartUpdate, StartAssign, StartStatus,
                        StartActivity, StartRescore
<1>2. ~Write(r)
  BY <1>1 DEF Write, CreateLead, UpdateLead, AssignLead, UpdateStatus, CreateActivity, At
<1>3. \A q \in Request \ {r} : req'[q] = req[q]
  BY <1>2, OthersStay DEF ScoreInv
<1>4. Informed(r)'
  BY <1>1 DEF Informed
<1>5. \A k : ~OwesScore(r, k)
  BY <1>1 DEF OwesScore, Wrote, BeforeWrite
<1>. QED  BY <1>1, <1>3, <1>4, <1>5, QuietScores

LEMMA ThrowScores ==
  ASSUME ScoreInv, NEW r \in Request, Throw(r)
  PROVE  ScoreSettles' /\ AllInformed'
<1>1. Untouched
  BY DEF Throw, Untouched, tables
<1>2. /\ \A q \in Request \ {r} : req'[q] = req[q]
      /\ req'[r].pc = req[r].pc /\ req'[r].op = req[r].op /\ req'[r].lead = req[r].lead
  BY DEF Throw, ScoreInv, TypeInv, TypeOK, RequestState
<1>3. Informed(r)'
  BY DEF Throw, Informed
<1>4. \A k : OwesScore(r, k) => OwesScore(r, k)'
  BY <1>2 DEF OwesScore, Wrote, Scored
<1>. QED  BY <1>1, <1>2, <1>3, <1>4, QuietScores

\* The steps before the write and after the score.
LEMMA OtherScores ==
  ASSUME ScoreInv, NEW r \in Request, Step(r), ~Write(r), ~PersistScore(r),
         ~ReadLead(r), ~CountEvidence(r), ~Throw(r)
  PROVE  ScoreSettles' /\ AllInformed'
<1>. USE DEF At
<1>1. Untouched
  BY DEF Step, EnsureLeadExists, ResolveSource, ValidateAssignee, ReadSummary, WriteAudit,
         EmitEvent, EmitAssigned, Untouched, tables
<1>2. \A q \in Request \ {r} : req'[q] = req[q]
  BY OthersStay DEF ScoreInv
<1>3. req[r].pc \notin Owing
  BY DEF Step, EnsureLeadExists, ResolveSource, ValidateAssignee, ReadSummary, WriteAudit,
         EmitEvent, EmitAssigned, Owing
<1>4. req'[r].pc \in {"source", "assignee", "write", "audit", "emit", "emitAssigned", "end"}
  <2>1. CASE EnsureLeadExists(r)
    BY <2>1, ResumedAt DEF EnsureLeadExists, ScoreInv
  <2>2. CASE ResolveSource(r)
    BY <2>2 DEF ResolveSource, Goto, ScoreInv, TypeInv, TypeOK, RequestState
  <2>3. CASE ValidateAssignee(r)
    <3>. DEFINE args == [req[r].args EXCEPT !.assignee = AssigneeOf(req[r])]
    <3>1. req' = [req EXCEPT ![r] = [req[r] EXCEPT !.args = args, !.pc = "write"]]
      BY <2>3 DEF ValidateAssignee, ScoreInv, TypeInv, TypeOK, RequestState, Args
    <3>. HIDE DEF args
    <3>. QED  BY <3>1 DEF ScoreInv, TypeInv, TypeOK, RequestState
  <2>4. CASE ReadSummary(r)
    BY <2>4, ResumedAt DEF ReadSummary, ScoreInv
  <2>5. CASE WriteAudit(r) \/ EmitEvent(r) \/ EmitAssigned(r)
    BY <2>5, ResumedAt DEF WriteAudit, EmitEvent, EmitAssigned, Goto, Finish, ScoreInv,
                           TypeInv, TypeOK, RequestState
  <2>. QED  BY <2>1, <2>2, <2>3, <2>4, <2>5 DEF Step
<1>5. Informed(r)'
  BY <1>4 DEF Informed
<1>6. \A k : ~OwesScore(r, k)
  BY <1>3, OwesAt DEF ScoreInv
<1>. QED  BY <1>1, <1>2, <1>5, <1>6, QuietScores

LEMMA NextScoreInv == ScoreInv /\ [Next]_vars => ScoreInv'
<1>. SUFFICES ASSUME ScoreInv, [Next]_vars PROVE ScoreInv'
  OBVIOUS
<1>1. TypeInv'
  BY NextTypeInv DEF ScoreInv
<1>2. ASSUME NEW r \in Request, Start(r) \/ Step(r) \/ Fault(r)
      PROVE  ScoreSettles' /\ AllInformed'
  <2>1. CASE Start(r)
    BY <2>1, StartScores
  <2>2. CASE Throw(r)
    BY <2>2, ThrowScores
  <2>3. CASE Write(r)
    BY <1>1, <2>3, WriteScores
  <2>4. CASE PersistScore(r)
    BY <2>4, PersistScores
  <2>5. CASE (ReadLead(r) \/ CountEvidence(r)) /\ ~Throw(r)
    <3>1. Untouched
      BY <2>5 DEF ReadLead, CountEvidence, Untouched, tables
    <3>2. Step(r) /\ ~Write(r)
      BY <2>5 DEF Step, ReadLead, CountEvidence, Write, CreateLead, UpdateLead, AssignLead,
                  UpdateStatus, CreateActivity, At
    <3>3. \A q \in Request \ {r} : req'[q] = req[q]
      BY <3>2, OthersStay DEF ScoreInv
    <3>. QED  BY <2>5, <3>1, <3>3, ReadInforms, CountInforms, QuietScores
  <2>6. CASE /\ Step(r) /\ ~Throw(r) /\ ~Write(r) /\ ~PersistScore(r)
             /\ ~ReadLead(r) /\ ~CountEvidence(r)
    BY <2>6, OtherScores
  <2>. QED  BY <1>2, <2>1, <2>2, <2>3, <2>4, <2>5, <2>6 DEF Fault
<1>3. CASE UNCHANGED <<tables, req, failed, overtaken>>
  <2>1. ScoreSettles'
    BY <1>3 DEF tables, ScoreInv, ScoreSettles, ScoreOf, OwesScore, Wrote, Scored
  <2>2. AllInformed'
    BY <1>3 DEF tables, ScoreInv, AllInformed, Informed, ScoreOf
  <2>. QED  BY <1>1, <2>1, <2>2 DEF ScoreInv
<1>. QED  BY <1>1, <1>2, <1>3 DEF ScoreInv, Next, vars, SetRole, DeactivateMembership

\* recalculateAndPersist: in every execution the stored score of a lead is the
\* score of its row, unless a request that wrote the lead owes it a score, or the
\* last score was worked out before the last write.
THEOREM ScoresSettle == Spec => []ScoreSettles
<1>1. ScoreInv => ScoreSettles
  BY DEF ScoreInv
<1>. QED  BY <1>1, InitScoreInv, NextScoreInv, PTL DEF Spec

-----------------------------------------------------------------------------
(***************************************************************************)
(* The refinement: a write is a step of the ledger, one of the four that   *)
(* LeadLedger allows, and every other step leaves the ledger as it is.     *)
(***************************************************************************)
Line(row) == [status |-> row.status, assignee |-> row.assignee,
              soldAt |-> row.soldAt, soldBy |-> row.soldBy]

Book == [l \in Lead |->
           IF leads[l] = NULL THEN NULL
           ELSE [status |-> leads[l].status, assignee |-> leads[l].assignee,
                 soldAt |-> leads[l].soldAt, soldBy |-> leads[l].soldBy]]

\* The book is what the instance has in the place of the ledger.
LEMMA OpenStep ==
  ASSUME NEW l \in Lead, Book[l] = NULL, NEW s \in LeadStatus, NEW a \in Member \cup {NULL},
         Book' = [Book EXCEPT ![l] = [status |-> s, assignee |-> a, soldAt |-> FALSE,
                                      soldBy |-> NULL]]
  PROVE  Ledger!Next
<1>1. Ledger!Open(l)
  BY DEF Ledger!Open, Ledger!Nobody, Book
<1>. QED  BY <1>1 DEF Ledger!Next

LEMMA ReviseStep ==
  ASSUME NEW l \in Lead, Book[l] # NULL, NEW s \in LeadStatus,
         NEW a \in Member \cup {Book[l].assignee},
         Book' = [Book EXCEPT ![l] = [@ EXCEPT !.status = s, !.assignee = a]]
  PROVE  Ledger!Next
<1>1. Ledger!Revise(l)
  BY DEF Ledger!Revise, Book
<1>. QED  BY <1>1 DEF Ledger!Next

LEMMA HandOverStep ==
  ASSUME NEW l \in Lead, Book[l] # NULL, NEW a \in Member \cup {NULL},
         Book' = [Book EXCEPT ![l].assignee = a]
  PROVE  Ledger!Next
<1>1. Ledger!HandOver(l)
  BY DEF Ledger!HandOver, Ledger!Nobody, Book
<1>. QED  BY <1>1 DEF Ledger!Next

LEMMA MarkStep ==
  ASSUME NEW l \in Lead, Book[l] # NULL, NEW s \in LeadStatus, NEW u \in User,
         Book' = [Book EXCEPT ![l] = [@ EXCEPT !.status = s, !.soldAt = (s = "SOLD"),
                                        !.soldBy = IF s = "SOLD" THEN u ELSE NULL]]
  PROVE  Ledger!Next
<1>1. Ledger!Mark(l, u)
  BY DEF Ledger!Mark, Book
<1>. QED  BY <1>1 DEF Ledger!Next

LEMMA InitLedger == Init => Ledger!Init
<1>. SUFFICES ASSUME Init
              PROVE  Book \in [Lead -> {NULL} \cup
                       [status : LeadStatus, assignee : Member \cup {NULL},
                        soldAt : {FALSE}, soldBy : {NULL}]]
  BY DEF Ledger!Init, Ledger!Nobody, Book, Line
<1>. SUFFICES ASSUME NEW l \in Lead, leads[l] # NULL
              PROVE  Line(leads[l]) \in [status : LeadStatus, assignee : Member \cup {NULL},
                                         soldAt : {FALSE}, soldBy : {NULL}]
  BY DEF Book, Line
<1>1. leads[l] \in InitialRow \ {NULL}
  BY DEF Init
<1>2. /\ leads[l] \in Row /\ ~leads[l].soldAt /\ leads[l].soldBy = NULL
      /\ leads[l].assignee \in Member \cup {NULL}
  BY <1>1, InitialRowAssumption
<1>. QED  BY <1>2 DEF Line, Row

\* One row for another is one line for another.
LEMMA BookStep ==
  ASSUME TypeOK, NEW l \in Lead, NEW row, row # NULL, leads' = [leads EXCEPT ![l] = row]
  PROVE  Book' = [Book EXCEPT ![l] = Line(row)]
BY DEF TypeOK, Book, Line

LEMMA SameLine ==
  ASSUME TypeOK, NEW l \in Lead, leads[l] # NULL,
         NEW row, row # NULL, leads' = [leads EXCEPT ![l] = row],
         Line(row) = Line(leads[l])
  PROVE  Book' = Book
BY DEF TypeOK, Book, Line

\* A line of which some columns are replaced, column by column.
LEMMA LineRevised ==
  ASSUME NEW row, NEW s, NEW a
  PROVE  [Line(row) EXCEPT !.status = s, !.assignee = a]
           = [status |-> s, assignee |-> a, soldAt |-> row.soldAt, soldBy |-> row.soldBy]
<1>. DEFINE x == Line(row)
            m == [status |-> s, assignee |-> row.assignee, soldAt |-> row.soldAt,
                  soldBy |-> row.soldBy]
<1>1. [x EXCEPT !.status = s] = m
  BY DEF Line
<1>2. [m EXCEPT !.assignee = a]
        = [status |-> s, assignee |-> a, soldAt |-> row.soldAt, soldBy |-> row.soldBy]
  OBVIOUS
<1>3. [x EXCEPT !.status = s, !.assignee = a] = [[x EXCEPT !.status = s] EXCEPT !.assignee = a]
  OBVIOUS
<1>. HIDE DEF x, m
<1>4. [x EXCEPT !.status = s, !.assignee = a] = [m EXCEPT !.assignee = a]
  BY <1>1, <1>3
<1>. QED  BY <1>2, <1>4 DEF x

LEMMA LineMarked ==
  ASSUME NEW row, NEW s, NEW at, NEW by
  PROVE  [Line(row) EXCEPT !.status = s, !.soldAt = at, !.soldBy = by]
           = [status |-> s, assignee |-> row.assignee, soldAt |-> at, soldBy |-> by]
<1>. DEFINE x == Line(row)
            m == [status |-> s, assignee |-> row.assignee, soldAt |-> row.soldAt,
                  soldBy |-> row.soldBy]
            n == [status |-> s, assignee |-> row.assignee, soldAt |-> at,
                  soldBy |-> row.soldBy]
<1>1. [x EXCEPT !.status = s] = m
  BY DEF Line
<1>2. [m EXCEPT !.soldAt = at] = n
  OBVIOUS
<1>3. [n EXCEPT !.soldBy = by]
        = [status |-> s, assignee |-> row.assignee, soldAt |-> at, soldBy |-> by]
  OBVIOUS
<1>4. [x EXCEPT !.status = s, !.soldAt = at, !.soldBy = by]
        = [[[x EXCEPT !.status = s] EXCEPT !.soldAt = at] EXCEPT !.soldBy = by]
  OBVIOUS
<1>. HIDE DEF x, m, n
<1>5. [x EXCEPT !.status = s, !.soldAt = at, !.soldBy = by] = [n EXCEPT !.soldBy = by]
  BY <1>1, <1>2, <1>4
<1>. QED  BY <1>3, <1>5 DEF x

LEMMA WriteLedger ==
  ASSUME SalesInv, NEW r \in Request, Write(r)
  PROVE  Ledger!Next \/ Book' = Book
<1>. DEFINE k == req[r].lead
            a == req[r].args
<1>1. TypeInv /\ TypeOK /\ Vetted(r) /\ Authorised(r)
  BY DEF SalesInv, AllCleared, TypeInv
<1>2. CASE CreateLead(r)
  <2>1. PICK l \in Lead : leads[l] = NULL /\ leads' = [leads EXCEPT ![l] = NewRow(a)]
    BY <1>2 DEF CreateLead
  <2>2. NewRow(a) \in Row /\ NewRow(a) # NULL
    BY <1>1, NewRowType, LeadsAssumption DEF TypeOK, RequestState
  <2>3. NewRow(a).status \in LeadStatus
    BY <2>2 DEF Row
  <2>4. NewRow(a).assignee \in Member \cup {NULL}
    BY <1>1, <1>2 DEF CreateLead, At, Vetted, NewRow, OrNull, Given
  <2>5. Line(NewRow(a)) = [status |-> NewRow(a).status, assignee |-> NewRow(a).assignee,
                           soldAt |-> FALSE, soldBy |-> NULL]
    BY DEF Line, NewRow
  <2>6. Book' = [Book EXCEPT ![l] = Line(NewRow(a))] /\ Book[l] = NULL
    BY <1>1, <2>1, <2>2, BookStep DEF Book
  <2>. QED  BY <2>3, <2>4, <2>5, <2>6, OpenStep
<1>3. CASE ~CreateLead(r)
  <2>1. k \in Lead /\ leads[k] \in Row /\ leads[k] # NULL
    BY <1>1, <1>3, FoundRow, LeadsAssumption
       DEF Write, UpdateLead, AssignLead, UpdateStatus, CreateActivity, At
  <2>2. Book[k] = Line(leads[k]) /\ Book[k] # NULL
    <3>1. Line(leads[k]) # NULL
      BY <2>1, LedgerAssumption DEF Line, Row
    <3>. QED  BY <2>1, <3>1 DEF Book, Line
  <2>3. CASE UpdateLead(r)
    <3>. DEFINE row == [leads[k] EXCEPT
                          !.status = Given(a.status, @), !.source = Given(a.source, @),
                          !.assignee = Given(a.assignee, @),
                          !.contact = PatchContact(a.contact, @), !.age = Given(a.age, @)]
                s == Given(a.status, leads[k].status)
                b == Given(a.assignee, leads[k].assignee)
    <3>1. leads' = [leads EXCEPT ![k] = row]
      BY <2>3 DEF UpdateLead
    <3>2. row \in [status : {s}, source : {row.source}, assignee : {b},
                   soldAt : {leads[k].soldAt}, soldBy : {leads[k].soldBy},
                   contact : {row.contact}, age : {row.age}, score : {leads[k].score}]
      BY <2>1 DEF Row
    <3>3. row \in Row /\ row # NULL
      <4>1. Rewrites(r)
        BY <1>1, <2>3, UpdateLeadType
      <4>. QED  BY <1>1, <2>1, <3>1, <4>1, LeadsAssumption DEF Rewrites, TypeOK
    <3>4. s \in LeadStatus
      BY <3>2, <3>3 DEF Row
    <3>5. b \in Member \cup {leads[k].assignee}
      BY <1>1, <2>3 DEF UpdateLead, At, Vetted, Given
    <3>. HIDE DEF s, b, row
    <3>6. Line(row) = [Book[k] EXCEPT !.status = s, !.assignee = b]
      <4>1. /\ row.status = s /\ row.assignee = b
            /\ row.soldAt = leads[k].soldAt /\ row.soldBy = leads[k].soldBy
        BY <3>2
      <4>2. Line(row) = [status |-> s, assignee |-> b, soldAt |-> leads[k].soldAt,
                         soldBy |-> leads[k].soldBy]
        BY <4>1 DEF Line
      <4>3. [Line(leads[k]) EXCEPT !.status = s, !.assignee = b]
              = [status |-> s, assignee |-> b, soldAt |-> leads[k].soldAt,
                 soldBy |-> leads[k].soldBy]
        BY LineRevised
      <4>. QED  BY <2>2, <4>2, <4>3
    <3>7. Book' = [Book EXCEPT ![k] = Line(row)]
      BY <1>1, <2>1, <3>1, <3>3, BookStep
    <3>8. Book[k].assignee = leads[k].assignee
      BY <2>2 DEF Line
    <3>. QED  BY <2>1, <2>2, <3>4, <3>5, <3>6, <3>7, <3>8, ReviseStep
  <2>4. CASE AssignLead(r)
    <3>. DEFINE b == OrNull(a.assignee)
                row == [leads[k] EXCEPT !.assignee = b, !.age = 0]
    <3>1. leads' = [leads EXCEPT ![k] = row]
      BY <2>1, <2>4 DEF AssignLead
    <3>2. b \in Member \cup {NULL}
      BY <1>1, <2>4 DEF AssignLead, At, Vetted, OrNull, Given
    <3>3. row # NULL
      <4>1. Rewrites(r)
        BY <1>1, <2>4, AssignLeadType
      <4>. QED  BY <1>1, <2>1, <3>1, <4>1, LeadsAssumption DEF Rewrites, TypeOK
    <3>. HIDE DEF b
    <3>4. Line(row) = [Book[k] EXCEPT !.assignee = b]
      BY <2>1, <2>2 DEF Line, Row
    <3>. HIDE DEF row
    <3>5. Book' = [Book EXCEPT ![k] = Line(row)]
      BY <1>1, <2>1, <3>1, <3>3, BookStep
    <3>. QED  BY <2>1, <2>2, <3>2, <3>4, <3>5, HandOverStep
  <2>5. CASE UpdateStatus(r)
    <3>. DEFINE s == a.status
                u == req[r].actor
                seller == IF s = "SOLD" THEN u ELSE NULL
                row == [leads[k] EXCEPT !.status = s, !.soldAt = (s = "SOLD"), !.age = 0,
                                        !.soldBy = seller]
    <3>1. leads' = [leads EXCEPT ![k] = row]
      BY <2>1, <2>5 DEF UpdateStatus
    <3>2. s \in LeadStatus
      BY <1>1, <2>5 DEF UpdateStatus, At, TypeInv, AllLocated, Located, Arrived
    <3>3. u \in User
      BY <1>1, <2>5 DEF UpdateStatus, At, Authorised, TypeOK, RequestState
    <3>4. row # NULL
      <4>1. Rewrites(r)
        BY <1>1, <2>5, UpdateStatusType
      <4>. QED  BY <1>1, <2>1, <3>1, <4>1, LeadsAssumption DEF Rewrites, TypeOK
    <3>. HIDE DEF s, u
    <3>. DEFINE sold == (s = "SOLD")
    <3>5. Line(row) = [Book[k] EXCEPT !.status = s, !.soldAt = sold, !.soldBy = seller]
      <4>. HIDE DEF seller
      <4>1. /\ row.status = s /\ row.assignee = leads[k].assignee
            /\ row.soldAt = (s = "SOLD") /\ row.soldBy = seller
        BY <2>1 DEF Row
      <4>. HIDE DEF row
      <4>2. Line(row) = [status |-> s, assignee |-> leads[k].assignee,
                         soldAt |-> sold, soldBy |-> seller]
        BY <4>1 DEF Line
      <4>. HIDE DEF sold
      <4>3. [Line(leads[k]) EXCEPT !.status = s, !.soldAt = sold, !.soldBy = seller]
              = [status |-> s, assignee |-> leads[k].assignee,
                 soldAt |-> sold, soldBy |-> seller]
        BY LineMarked
      <4>. QED  BY <2>2, <4>2, <4>3
    <3>. HIDE DEF row
    <3>6. Book' = [Book EXCEPT ![k] = Line(row)]
      BY <1>1, <2>1, <3>1, <3>4, BookStep
    <3>7. Book' = [Book EXCEPT ![k] = [@ EXCEPT !.status = s, !.soldAt = (s = "SOLD"),
                                         !.soldBy = IF s = "SOLD" THEN u ELSE NULL]]
      BY <3>5, <3>6
    <3>. QED  BY <2>1, <2>2, <3>2, <3>3, <3>7, MarkStep
  <2>6. CASE CreateActivity(r)
    <3>. DEFINE row == [leads[k] EXCEPT !.age = 0]
    <3>1. leads' = [leads EXCEPT ![k] = row]
      BY <2>1, <2>6 DEF CreateActivity
    <3>2. row # NULL /\ Line(row) = Line(leads[k])
      <4>1. row \in Row
        BY <2>1, TouchedType
      <4>. QED  BY <2>1, <4>1, LeadsAssumption DEF Line, Row
    <3>. QED  BY <1>1, <2>1, <3>1, <3>2, SameLine
  <2>. QED  BY <1>3, <2>3, <2>4, <2>5, <2>6 DEF Write
<1>. QED  BY <1>2, <1>3

LEMMA NextLedger ==
  ASSUME SalesInv, [Next]_vars
  PROVE  Ledger!Next \/ Book' = Book
<1>1. ASSUME NEW r \in Request, Step(r)
      PROVE  Ledger!Next \/ Book' = Book
  <2>1. CASE Write(r)
    BY <2>1, WriteLedger
  <2>2. CASE PersistScore(r)
    <3>. DEFINE k == req[r].lead
                row == [leads[k] EXCEPT !.score = req[r].local.score]
    <3>1. k \in Lead /\ leads[k] \in Row /\ TypeOK /\ TypeInv
      BY <2>2, FoundRow DEF PersistScore, At, BeforeWrite, SalesInv, TypeInv
    <3>2. leads' = [leads EXCEPT ![k] = row]
      BY <2>2, <3>1 DEF PersistScore, TypeOK, Row
    <3>3. row \in Row
      BY <3>1 DEF TypeOK, RequestState, Local, Row
    <3>4. row # NULL /\ leads[k] # NULL /\ Line(row) = Line(leads[k])
      BY <3>1, <3>3, LeadsAssumption DEF Line, Row
    <3>. QED  BY <3>1, <3>2, <3>4, SameLine
  <2>3. CASE leads' = leads
    BY <2>3 DEF Book
  <2>. QED  BY <1>1, <2>1, <2>2, <2>3 DEF Step, EnsureLeadExists, ResolveSource,
       ValidateAssignee, ReadLead, CountEvidence, ReadSummary, WriteAudit, EmitEvent,
       EmitAssigned, Throw, tables
<1>2. CASE leads' = leads
  BY <1>2 DEF Book
<1>. QED  BY <1>1, <1>2 DEF Next, vars, tables, Start, StartCreate, StartUpdate,
             StartAssign, StartStatus, StartActivity, StartRescore, Begin, Fault, Throw,
             SetRole, DeactivateMembership

\* LeadLedger: in every execution the handlers, with all their awaits, look like
\* atomic changes of status, assignee and stamp, of the four kinds only: no
\* interleaving shows half of one.
THEOREM LeadsImplementLedger == Spec => ImplementsLedger
<1>1. SalesInv /\ [Next]_vars => [Ledger!Next]_Book
  BY NextLedger
<1>2. Init => Ledger!Init
  BY InitLedger
<1>3. (Ledger!Init /\ [][Ledger!Next]_Book) <=> ImplementsLedger
  BY DEF ImplementsLedger, Ledger!Spec, Book
<1>. QED  BY <1>1, <1>2, <1>3, InitSalesInv, NextSalesInv, PTL DEF Spec
=============================================================================

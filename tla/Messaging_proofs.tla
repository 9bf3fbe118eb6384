-------------------------- MODULE Messaging_proofs --------------------------
(***************************************************************************)
(* Proofs about the messages of a dealership, for any number of leads,     *)
(* telephone numbers and requests.                                         *)
(***************************************************************************)
EXTENDS Messaging, FiniteSetTheorems, TLAPS

-----------------------------------------------------------------------------
\* The score of a row is in its range, see Figures_proofs.
LEMMA ScoreInRange ==
  ASSUME NEW row \in ScoredLead, NEW e \in Evidence
  PROVE  Score(row, e) \in MIN_LEAD_SCORE .. MAX_LEAD_SCORE
<1>. USE DEF Points
<1>1. Contactability(row.contact) \in Int
  BY DEF ScoredLead, Contact, Contactability
<1>2. Engagement(e) \in Int /\ AppointmentPoints(e) \in Int /\ Penalty(e) \in Int
  BY DEF Evidence, Engagement, EngagementRaw, AppointmentPoints, Penalty
<1>3. LEAD_STAGE_SCORES[row.status] \in Int /\ Freshness(row.age) \in Int
  <2>1. LEAD_STAGE_SCORES[row.status] \in Int
    BY DEF ScoredLead, LeadStatus, LEAD_STAGE_SCORES
  <2>2. CASE row.age = NoActivity
    BY <2>1, <2>2, NoActivityAssumption DEF Freshness
  <2>3. CASE row.age \in Int
    BY <2>1, <2>3, DayAssumption, NoActivityAssumption DEF Freshness
  <2>. QED  BY <2>2, <2>3 DEF ScoredLead
<1>4. Unclamped(row, e) \in Int
  BY <1>1, <1>2, <1>3 DEF Unclamped
<1>. QED  BY <1>4 DEF Score, Clamp, MIN_LEAD_SCORE, MAX_LEAD_SCORE

-----------------------------------------------------------------------------
(***************************************************************************)
(* Where a request is tells what it works on: until it has a lead it names *)
(* none, and the lead of a message that is on its way is in the table,     *)
(* since leads are never deleted.                                          *)
(***************************************************************************)
Waiting == {"idle", "leads", "match", "newlead"}
Working == {"thread", "save", "send", "store", "emit", "audit", "touch", "count",
            "persist", "summary"}

\* A route has its own way through the handler.
Routed(q) ==
  /\ q.pc # "idle" => q.op \in AllOps
  /\ q.pc \in {"leads", "next"} => q.op = "bulk"
  /\ q.pc \in {"match", "newlead"} => q.op = "inbound"
  /\ q.pc = "find" => q.op # "inbound"
  /\ q.op = "bulk" => q.args.channel \in {"SMS", "EMAIL"}
  /\ q.pc \in {"send", "audit"} => Flow(q) \in {"sms", "message"}
  /\ q.pc = "store" => Flow(q) = "sms"

Placed(q) ==
  /\ q.pc \in Waiting => q.lead = NULL
  /\ q.pc \in Working \cup {"find"} => q.lead \in Lead
  /\ q.pc \in Working => leads[q.lead] # NULL

\* sendLeadSms has its row before it sends and an answer before it stores one.
Saved(r, q) ==
  /\ q.pc = "send" /\ Flow(q) = "sms" => msgs[<<r, q.lead>>] # NULL
  /\ q.pc = "store" => msgs[<<r, q.lead>>] # NULL /\ q.local.answer # NULL

Located(r) == Routed(req[r]) /\ Placed(req[r]) /\ Saved(r, req[r])

\* There are finitely many rows, so that they can be counted.
Rows == {m \in Message : msgs[m] # NULL}

TypeInv == TypeOK /\ (\A r \in Request : Located(r)) /\ IsFiniteSet(Rows)

-----------------------------------------------------------------------------
LEMMA NoArgsType == NoArgs \in Args
BY DEF NoArgs, Args, Channel, Direction

LEMMA BlankType == Blank \in Local
BY DEF Blank, Local, MIN_LEAD_SCORE, MAX_LEAD_SCORE

\* The two parts of the contact data are worth ten points each.
LEMMA FirstScoreValue ==
  ASSUME NEW c \in ContactData
  PROVE  FirstScore(c) = Points(c.phone # NULL, 10) + Points(c.email, 10)
<1>. DEFINE known == {x \in {"phone", "email"} :
                         IF x = "phone" THEN c.phone # NULL ELSE c.email}
<1>0. c.email \in BOOLEAN
  BY DEF ContactData
<1>1. Cardinality({}) = 0 /\ Cardinality({"phone"}) = 1 /\ Cardinality({"email"}) = 1
  BY FS_EmptySet, FS_Singleton
<1>2. Cardinality({"phone", "email"}) = 2
  <2>1. IsFiniteSet({"phone"}) /\ {"phone", "email"} = {"phone"} \cup {"email"}
    BY FS_Singleton
  <2>2. Cardinality({"phone"} \cup {"email"}) = Cardinality({"phone"}) + 1
    BY <2>1, FS_AddElement
  <2>. QED  BY <1>1, <2>1, <2>2
<1>3. CASE c.phone # NULL /\ c.email
  <2>1. known = {"phone", "email"}
    BY <1>3
  <2>. QED  BY <1>2, <1>3, <2>1 DEF FirstScore, Points
<1>4. CASE c.phone # NULL /\ ~c.email
  <2>1. known = {"phone"}
    BY <1>4
  <2>. QED  BY <1>1, <1>4, <2>1 DEF FirstScore, Points
<1>5. CASE c.phone = NULL /\ c.email
  <2>1. known = {"email"}
    BY <1>5
  <2>. QED  BY <1>1, <1>5, <2>1 DEF FirstScore, Points
<1>6. CASE c.phone = NULL /\ ~c.email
  <2>1. known = {}
    BY <1>6
  <2>. QED  BY <1>1, <1>6, <2>1 DEF FirstScore, Points
<1>. QED  BY <1>0, <1>3, <1>4, <1>5, <1>6

\* What is counted are some of the rows.
LEMMA EvidenceType ==
  ASSUME IsFiniteSet(Rows), NEW l
  PROVE  EvidenceOf(l) \in Evidence
<1>. DEFINE sent == {m \in Of(l) : /\ msgs[m].direction = "OUTBOUND"
                                   /\ msgs[m].channel \in {"SMS", "EMAIL"}}
            calls == {m \in Of(l) : msgs[m].channel = "CALL"}
            inbound == \E m \in Of(l) : msgs[m].direction = "INBOUND"
<1>1. sent \subseteq Rows /\ calls \subseteq Rows
  BY DEF Of, Rows
<1>2. Cardinality(sent) \in Nat /\ Cardinality(calls) \in Nat
  BY <1>1, FS_Subset, FS_CardinalityType
<1>3. EvidenceOf(l) = [outbound |-> Cardinality(sent), inbound |-> inbound,
                       calls |-> Cardinality(calls),
                       showed |-> FALSE, upcoming |-> FALSE, noShow |-> FALSE]
  BY DEF EvidenceOf
<1>4. inbound \in BOOLEAN
  OBVIOUS
<1>. HIDE DEF sent, calls, inbound
<1>. QED  BY <1>2, <1>3, <1>4 DEF Evidence

\* A score that is worked out from the tables is a score.
LEMMA ScoreType ==
  ASSUME TypeOK, IsFiniteSet(Rows), NEW l \in Lead, leads[l] # NULL
  PROVE  ScoreOf(l) \in MIN_LEAD_SCORE .. MAX_LEAD_SCORE
<1>. DEFINE contact == [phone |-> leads[l].phone # NULL, email |-> leads[l].email,
                        first |-> FALSE, last |-> FALSE, vehicle |-> FALSE]
            lead == [status |-> "NEW", soldAt |-> FALSE, age |-> leads[l].age,
                     contact |-> contact]
<1>1. leads[l].age \in {0, NoActivity} /\ leads[l].email \in BOOLEAN
  BY DEF TypeOK, LeadRecord
<1>2. contact \in Contact
  BY <1>1 DEF Contact
<1>. HIDE DEF contact
<1>3. lead \in ScoredLead
  BY <1>1, <1>2 DEF ScoredLead, LeadStatus
<1>4. ScoreOf(l) = Score(lead, EvidenceOf(l))
  BY DEF ScoreOf, contact
<1>. HIDE DEF lead
<1>. QED  BY <1>3, <1>4, EvidenceType, ScoreInRange

-----------------------------------------------------------------------------
\* The contact data that the table may start with.
LEMMA InitialRow ==
  ASSUME NEW c \in ContactData
  PROVE  /\ LeadRow(c, NoActivity, FirstScore(c)) \in LeadRecord
         /\ LeadRow(c, NoActivity, FirstScore(c)) # NULL
<1>1. FirstScore(c) \in MIN_LEAD_SCORE .. MAX_LEAD_SCORE
  BY FirstScoreValue DEF Points, MIN_LEAD_SCORE, MAX_LEAD_SCORE
<1>2. LeadRow(c, NoActivity, FirstScore(c)) \in LeadRecord
  BY <1>1 DEF LeadRow, LeadRecord, ContactData
<1>. QED  BY <1>2, MessagingAssumption

LEMMA InitTypeInv == Init => TypeInv
<1>. SUFFICES ASSUME Init PROVE TypeInv
  OBVIOUS
<1>1. Idle \in RequestState
  BY NoArgsType, BlankType DEF Idle, RequestState, PC
<1>2. leads \in [Lead -> LeadRecord \cup {NULL}]
  <2>1. PICK contact \in InitialLeads :
          leads = [l \in Lead |-> IF contact[l] = NULL THEN NULL
                       ELSE LeadRow(contact[l], NoActivity, FirstScore(contact[l]))]
    BY DEF Init
  <2>2. \A l \in Lead : contact[l] # NULL => contact[l] \in ContactData
    BY MessagingAssumption
  <2>3. ASSUME NEW l \in Lead, contact[l] # NULL
        PROVE  LeadRow(contact[l], NoActivity, FirstScore(contact[l])) \in LeadRecord
    BY <2>2, <2>3, InitialRow
  <2>. QED  BY <2>1, <2>3
<1>3. TypeOK
  BY <1>1, <1>2 DEF Init, TypeOK
<1>4. Rows = {}
  BY DEF Init, Rows
<1>5. IsFiniteSet(Rows)
  BY <1>4, FS_EmptySet
<1>. QED  BY <1>3, <1>5 DEF Init, TypeInv, Located, Routed, Placed, Saved, Idle, NoArgs, Waiting, Working

\* Whoever stays where it is with what it carries stays located.
LEMMA StaysLocated ==
  ASSUME TypeInv, NEW s \in Request,
         req'[s].pc = req[s].pc, req'[s].op = req[s].op, req'[s].lead = req[s].lead,
         req'[s].args = req[s].args, req'[s].local.answer = req[s].local.answer,
         \A l \in Lead : leads[l] # NULL => leads'[l] # NULL,
         \A m \in Message : msgs[m] # NULL => msgs'[m] # NULL
  PROVE  Located(s)'
<1>1. Routed(req[s])'
  BY DEF TypeInv, Located, Routed, Flow
<1>2. Placed(req[s])'
  BY DEF TypeInv, Located, Placed
<1>3. Saved(s, req[s])'
  <2>1. Located(s) /\ Flow(req[s])' = Flow(req[s])
    BY DEF TypeInv, Flow
  <2>2. req[s].pc \in {"send", "store"} => <<s, req[s].lead>> \in Message
    BY <2>1 DEF Located, Placed, Working, Message
  <2>. QED  BY <2>1, <2>2 DEF Located, Saved
<1>. QED  BY <1>1, <1>2, <1>3 DEF Located

\* A request that moves leaves the others where they are.
LEMMA MoveInv ==
  ASSUME TypeInv, NEW r \in Request, NEW new \in RequestState,
         req' = [req EXCEPT ![r] = new], UNCHANGED msgs, TypeOK',
         \A l \in Lead : leads[l] # NULL => leads'[l] # NULL,
         Routed(new), Placed(new)', Saved(r, new)
  PROVE  TypeInv'
<1>1. req'[r] = new
  BY DEF TypeInv, TypeOK
<1>2. Located(r)'
  BY <1>1 DEF Located, Routed, Placed, Saved, Flow
<1>3. ASSUME NEW s \in Request, s # r PROVE Located(s)'
  BY <1>3, StaysLocated DEF TypeInv, TypeOK
<1>4. IsFiniteSet(Rows)'
  BY DEF TypeInv, Rows
<1>. QED  BY <1>2, <1>3, <1>4 DEF TypeInv

LEMMA ThrowInv ==
  ASSUME TypeInv, NEW r \in Request, Throw(r)
  PROVE  TypeInv'
<1>1. TypeOK'
  BY DEF TypeInv, TypeOK, Throw, logs
<1>2. IsFiniteSet(Rows)'
  BY DEF TypeInv, Throw, Rows
<1>. QED  BY <1>1, <1>2, StaysLocated DEF TypeInv, Throw

LEMMA BeginInv ==
  ASSUME TypeInv, NEW r \in Request, NEW op \in AllOps, NEW l \in Lead \cup {NULL},
         NEW pc \in PC, NEW args \in Args, Begin(r, op, l, pc, args),
         \/ op \in {"sms", "message", "call"} /\ pc = "find" /\ l \in Lead
         \/ op = "bulk" /\ pc = "leads" /\ l = NULL /\ args.channel \in {"SMS", "EMAIL"}
         \/ op = "inbound" /\ pc = "match" /\ l = NULL
  PROVE  TypeInv'
<1>. DEFINE new == [pc |-> pc, op |-> op, lead |-> l, args |-> args, local |-> Blank]
<1>1. new \in RequestState
  BY BlankType DEF RequestState
<1>2. req' = [req EXCEPT ![r] = new]
        /\ UNCHANGED <<leads, threads, msgs, logs, carrier, failed, neglected>>
  BY DEF Begin
<1>3. TypeOK'
  BY <1>1, <1>2 DEF TypeInv, TypeOK, logs
<1>4. Routed(new)
  BY DEF Routed, AllOps
<1>5. Placed(new)'
  BY DEF Placed, Waiting, Working
<1>6. Saved(r, new)
  BY DEF Saved
<1>. HIDE DEF new
<1>. QED  BY <1>1, <1>2, <1>3, <1>4, <1>5, <1>6, MoveInv

LEMMA StartInv ==
  ASSUME TypeInv, NEW r \in Request, Start(r)
  PROVE  TypeInv'
<1>1. Named \subseteq Lead
  BY MessagingAssumption DEF Named
<1>2. CASE StartSms(r)
  <2>1. PICK l \in Named, p \in PhoneArg, d \in DirectionArg :
          Begin(r, "sms", l, "find", [NoArgs EXCEPT !.phone = p, !.direction = d])
    BY <1>2 DEF StartSms
  <2>2. [NoArgs EXCEPT !.phone = p, !.direction = d] \in Args
    BY NoArgsType, MessagingAssumption DEF Args
  <2>. QED  BY <1>1, <2>1, <2>2, BeginInv DEF AllOps, PC
<1>3. CASE StartMessage(r)
  <2>1. PICK l \in Named, c \in ChannelArg, d \in DirectionArg :
          Begin(r, "message", l, "find", [NoArgs EXCEPT !.channel = c, !.direction = d])
    BY <1>3 DEF StartMessage
  <2>2. [NoArgs EXCEPT !.channel = c, !.direction = d] \in Args
    BY NoArgsType, MessagingAssumption DEF Args
  <2>. QED  BY <1>1, <2>1, <2>2, BeginInv DEF AllOps, PC
<1>4. CASE StartCall(r)
  <2>1. PICK l \in Named, d \in DirectionArg :
          Begin(r, "call", l, "find", [NoArgs EXCEPT !.channel = "CALL", !.direction = d])
    BY <1>4 DEF StartCall
  <2>2. [NoArgs EXCEPT !.channel = "CALL", !.direction = d] \in Args
    BY NoArgsType, MessagingAssumption DEF Args, Channel
  <2>. QED  BY <1>1, <2>1, <2>2, BeginInv DEF AllOps, PC
<1>5. CASE StartBulk(r)
  <2>1. PICK ls \in {b \in BulkArg : b \subseteq Named},
             c \in ChannelArg \cap {"SMS", "EMAIL"}, t \in TemplateArg :
          Begin(r, "bulk", NULL, "leads",
                [NoArgs EXCEPT !.channel = c, !.leads = ls, !.template = t])
    BY <1>5 DEF StartBulk
  <2>. DEFINE args == [NoArgs EXCEPT !.channel = c, !.leads = ls, !.template = t]
  <2>2. args \in Args /\ args.channel \in {"SMS", "EMAIL"}
    BY NoArgsType, MessagingAssumption DEF Args
  <2>. HIDE DEF args
  <2>3. Begin(r, "bulk", NULL, "leads", args)
    BY <2>1 DEF args
  <2>. QED  BY <2>2, <2>3, BeginInv DEF AllOps, PC
<1>6. CASE StartInbound(r)
  <2>1. PICK p \in Phone :
          Begin(r, "inbound", NULL, "match",
                [NoArgs EXCEPT !.phone = p, !.direction = "INBOUND"])
    BY <1>6 DEF StartInbound
  <2>2. [NoArgs EXCEPT !.phone = p, !.direction = "INBOUND"] \in Args
    BY NoArgsType, MessagingAssumption DEF Args, Direction
  <2>. QED  BY <2>1, <2>2, BeginInv DEF AllOps, PC
<1>. QED  BY <1>2, <1>3, <1>4, <1>5, <1>6 DEF Start

-----------------------------------------------------------------------------
\* A request that goes on, with the operation and the payload it came with.
LEMMA GoOnInv ==
  ASSUME TypeInv, NEW r \in Request, NEW new \in RequestState,
         req' = [req EXCEPT ![r] = new], UNCHANGED msgs,
         req' \in [Request -> RequestState] => TypeOK',
         \A l \in Lead : leads[l] # NULL => leads'[l] # NULL,
         req[r].pc # "idle", new.op = req[r].op, new.args = req[r].args,
         new.pc \notin {"idle", "leads", "match"},
         new.pc = "next" => new.op = "bulk",
         new.pc = "newlead" => new.op = "inbound" /\ new.lead = NULL,
         new.pc = "find" => new.op # "inbound",
         new.pc = "audit" => Flow(new) \in {"sms", "message"},
         new.pc = "send" => Flow(new) = "message",
         new.pc = "store" => /\ Flow(new) = "sms" /\ new.local.answer # NULL
                             /\ msgs[<<r, new.lead>>] # NULL,
         new.pc \in Working \cup {"find"} => new.lead \in Lead,
         new.pc \in Working => leads'[new.lead] # NULL
  PROVE  TypeInv'
<1>1. Located(r) /\ req[r] \in RequestState
  BY DEF TypeInv, TypeOK
<1>2. TypeOK'
  BY DEF TypeInv, TypeOK
<1>3. Routed(new)
  BY <1>1 DEF Located, Routed
<1>4. Placed(new)'
  BY DEF Placed, Waiting
<1>5. Saved(r, new)
  BY DEF Saved
<1>. QED  BY <1>2, <1>3, <1>4, <1>5, MoveInv

LEMMA GotoInv ==
  ASSUME TypeInv, NEW r \in Request, NEW pc \in PC, Goto(r, pc), UNCHANGED msgs,
         req' \in [Request -> RequestState] => TypeOK',
         \A l \in Lead : leads[l] # NULL => leads'[l] # NULL,
         req[r].pc \in Working \cup {"find"} \/ pc = "end",
         req[r].pc # "idle", pc \notin {"idle", "leads", "match", "newlead", "find", "store"},
         pc = "next" => req[r].op = "bulk",
         pc = "send" => Flow(req[r]) = "message",
         pc = "audit" => Flow(req[r]) \in {"sms", "message"},
         pc \in Working => leads'[req[r].lead] # NULL
  PROVE  TypeInv'
<1>. DEFINE q == req[r]
            new == [q EXCEPT !.pc = pc]
<1>1. q \in RequestState /\ Located(r)
  BY DEF TypeInv, TypeOK
<1>2. new \in RequestState /\ new.pc = pc /\ new.op = q.op /\ new.lead = q.lead
        /\ new.args = q.args /\ new.local = q.local
  BY <1>1 DEF RequestState
<1>3. req' = [req EXCEPT ![r] = new]
  BY DEF Goto
<1>4. Flow(new) = Flow(q)
  BY <1>2 DEF Flow
<1>5. pc \in Working => new.lead \in Lead
  BY <1>1, <1>2 DEF Located, Placed, Working
<1>. HIDE DEF new
<1>. QED  BY <1>2, <1>3, <1>4, <1>5, GoOnInv

LEMMA ResumeInv ==
  ASSUME TypeInv, NEW r \in Request, NEW local \in Local, NEW pc \in PC,
         Resume(r, local, pc), UNCHANGED msgs,
         req' \in [Request -> RequestState] => TypeOK',
         \A l \in Lead : leads[l] # NULL => leads'[l] # NULL,
         req[r].pc \in Working \cup {"find"} \/ pc \in {"end", "next"},
         req[r].pc # "idle", pc \notin {"idle", "leads", "match", "newlead", "find", "send", "audit"},
         pc = "next" => req[r].op = "bulk",
         pc = "store" => /\ Flow(req[r]) = "sms" /\ local.answer # NULL
                         /\ msgs[Current(r)] # NULL,
         pc \in Working => leads'[req[r].lead] # NULL
  PROVE  TypeInv'
<1>. DEFINE q == req[r]
            new == [q EXCEPT !.local = local, !.pc = pc]
<1>1. q \in RequestState /\ Located(r)
  BY DEF TypeInv, TypeOK
<1>2. new \in RequestState /\ new.pc = pc /\ new.op = q.op /\ new.lead = q.lead
        /\ new.args = q.args /\ new.local = local
  BY <1>1 DEF RequestState
<1>3. req' = [req EXCEPT ![r] = new]
  BY DEF Resume
<1>4. Flow(new) = Flow(q)
  BY <1>2 DEF Flow
<1>5. pc \in Working => new.lead \in Lead
  BY <1>1, <1>2 DEF Located, Placed, Working
<1>. HIDE DEF new
<1>. QED  BY <1>2, <1>3, <1>4, <1>5, GoOnInv DEF Current

\* A request that is given its lead.
LEMMA TakeInv ==
  ASSUME TypeInv, NEW r \in Request, NEW l \in Lead, NEW local \in Local, NEW pc,
         req' = [req EXCEPT ![r] = [req[r] EXCEPT !.lead = l, !.local = local, !.pc = pc]],
         UNCHANGED msgs, req' \in [Request -> RequestState] => TypeOK',
         \A m \in Lead : leads[m] # NULL => leads'[m] # NULL,
         req[r].pc # "idle",
         \/ pc = "find" /\ req[r].op = "bulk"
         \/ pc = "thread" /\ leads'[l] # NULL
  PROVE  TypeInv'
<1>. DEFINE q == req[r]
            new == [q EXCEPT !.lead = l, !.local = local, !.pc = pc]
<1>1. q \in RequestState
  BY DEF TypeInv, TypeOK
<1>2. new \in RequestState /\ new.pc = pc /\ new.op = q.op /\ new.lead = l
        /\ new.args = q.args
  BY <1>1 DEF RequestState, PC
<1>3. req' = [req EXCEPT ![r] = new]
  OBVIOUS
<1>. HIDE DEF new
<1>. QED  BY <1>2, <1>3, GoOnInv DEF Working

-----------------------------------------------------------------------------
LEMMA FindLeadsInv ==
  ASSUME TypeInv, NEW r \in Request, FindLeads(r)
  PROVE  TypeInv'
<1>. DEFINE q == req[r]
            local == [q.local EXCEPT !.todo = {l \in q.args.leads : leads[l] # NULL}]
<1>1. q \in RequestState /\ q.pc = "leads" /\ q.op = "bulk"
  BY DEF TypeInv, TypeOK, FindLeads, At, Located, Routed
<1>2. CASE q.args.template # q.args.channel
  BY <1>2, ThrowInv DEF FindLeads
<1>3. CASE q.args.template = q.args.channel
  <2>1. Resume(r, local, "next")
          /\ UNCHANGED <<leads, threads, msgs, logs, carrier, failed, neglected>>
    BY <1>3 DEF FindLeads
  <2>2. local \in Local
    BY <1>1 DEF RequestState, Local, Args
  <2>. HIDE DEF local
  <2>3. req' \in [Request -> RequestState] => TypeOK'
    BY <2>1 DEF TypeInv, TypeOK, logs
  <2>. QED  BY <1>1, <2>1, <2>2, <2>3, ResumeInv DEF PC, Working
<1>. QED  BY <1>2, <1>3

LEMMA NextLeadInv ==
  ASSUME TypeInv, NEW r \in Request, NextLead(r)
  PROVE  TypeInv'
<1>. DEFINE q == req[r]
<1>1. q \in RequestState /\ q.pc = "next" /\ q.op = "bulk"
  BY DEF TypeInv, TypeOK, NextLead, At, Located, Routed
<1>2. UNCHANGED <<leads, threads, msgs, logs, carrier, failed, neglected>>
  BY DEF NextLead
<1>3. req' \in [Request -> RequestState] => TypeOK'
  BY <1>2 DEF TypeInv, TypeOK, logs
<1>4. CASE q.local.todo = {}
  <2>1. Goto(r, "end")
    BY <1>4 DEF NextLead
  <2>. QED  BY <1>1, <1>2, <1>3, <2>1, GotoInv DEF PC, Working
<1>5. CASE q.local.todo # {}
  <2>. DEFINE rest(l) == [q.local EXCEPT !.todo = @ \ {l}, !.answer = NULL]
  <2>1. PICK l \in q.local.todo :
          IF q.args.channel = "SMS" /\ leads[l].phone = NULL
          THEN Resume(r, rest(l), "next")
          ELSE req' = [req EXCEPT ![r] = [@ EXCEPT !.lead = l, !.local = rest(l), !.pc = "find"]]
    BY <1>5 DEF NextLead
  <2>2. rest(l) \in Local /\ l \in Lead
    BY <1>1 DEF RequestState, Local
  <2>. HIDE DEF rest
  <2>0. ~(q.args.channel = "SMS" /\ leads[l].phone = NULL) =>
          req' = [req EXCEPT ![r] = [q EXCEPT !.lead = l, !.local = rest(l), !.pc = "find"]]
    BY <1>1, <2>1 DEF TypeInv, TypeOK
  <2>3. CASE q.args.channel = "SMS" /\ leads[l].phone = NULL
    BY <1>1, <1>2, <1>3, <2>1, <2>2, <2>3, ResumeInv DEF PC, Working
  <2>4. CASE ~(q.args.channel = "SMS" /\ leads[l].phone = NULL)
    <3>1. PICK local \in Local :
            req' = [req EXCEPT ![r] = [req[r] EXCEPT !.lead = l, !.local = local, !.pc = "find"]]
      BY <2>0, <2>2, <2>4
    <3>2. req[r].pc # "idle" /\ req[r].op = "bulk" /\ UNCHANGED <<msgs, leads>>
      BY <1>1, <1>2
    <3>. QED  BY <1>3, <2>2, <3>1, <3>2, TakeInv
  <2>. QED  BY <2>3, <2>4
<1>. QED  BY <1>4, <1>5

LEMMA MatchLeadInv ==
  ASSUME TypeInv, NEW r \in Request, MatchLead(r)
  PROVE  TypeInv'
<1>. DEFINE q == req[r]
            same == {l \in Lead : leads[l] # NULL /\ leads[l].phone = q.args.phone}
<1>1. q \in RequestState /\ q.pc = "match" /\ q.op = "inbound" /\ q.lead = NULL
        /\ q.local \in Local
  BY DEF TypeInv, TypeOK, MatchLead, At, Located, Routed, Placed, Waiting, RequestState
<1>2. UNCHANGED <<leads, threads, msgs, logs, carrier, failed, neglected>>
  BY DEF MatchLead
<1>3. req' \in [Request -> RequestState] => TypeOK'
  BY <1>2 DEF TypeInv, TypeOK, logs
<1>4. CASE same = {}
  <2>. DEFINE new == [q EXCEPT !.pc = "newlead"]
  <2>1. req' = [req EXCEPT ![r] = new]
    BY <1>4 DEF MatchLead, Goto
  <2>2. new \in RequestState /\ new.pc = "newlead" /\ new.op = q.op /\ new.lead = q.lead
          /\ new.args = q.args
    BY <1>1 DEF RequestState, PC
  <2>. HIDE DEF new
  <2>. QED  BY <1>1, <1>2, <1>3, <2>1, <2>2, GoOnInv DEF Working
<1>5. CASE same # {}
  <2>1. PICK l \in same : req' = [req EXCEPT ![r] = [@ EXCEPT !.lead = l, !.pc = "thread"]]
    BY <1>5 DEF MatchLead
  <2>. DEFINE new == [q EXCEPT !.lead = l, !.pc = "thread"]
  <2>2. req' = [req EXCEPT ![r] = new]
    BY <1>1, <2>1 DEF TypeInv, TypeOK
  <2>3. new \in RequestState /\ new.pc = "thread" /\ new.op = q.op /\ new.lead = l
          /\ new.args = q.args
    BY <1>1, <2>1 DEF RequestState, PC
  <2>. HIDE DEF new
  <2>4. l \in Lead /\ leads'[l] # NULL
    BY <1>2, <2>1
  <2>. QED  BY <1>1, <1>2, <1>3, <2>2, <2>3, <2>4, GoOnInv DEF Working
<1>. QED  BY <1>4, <1>5

LEMMA NewLeadInv ==
  ASSUME TypeInv, NEW r \in Request, NewLead(r)
  PROVE  TypeInv'
<1>. DEFINE q == req[r]
            row == LeadRow([phone |-> q.args.phone, email |-> FALSE], NoActivity, 0)
<1>1. q \in RequestState /\ q.pc = "newlead" /\ q.op = "inbound"
  BY DEF TypeInv, TypeOK, NewLead, At, Located, Routed
<1>2. UNCHANGED <<threads, msgs, logs, carrier, failed, neglected>>
  BY DEF NewLead
<1>3. PICK l \in Lead :
        /\ leads[l] = NULL /\ leads' = [leads EXCEPT ![l] = row]
        /\ req' = [req EXCEPT ![r] = [@ EXCEPT !.lead = l, !.pc = "thread"]]
  BY DEF NewLead
<1>4. row \in LeadRecord /\ row # NULL
  <2>1. row \in LeadRecord
    BY <1>1 DEF RequestState, Args, LeadRow, LeadRecord, MIN_LEAD_SCORE, MAX_LEAD_SCORE
  <2>. HIDE DEF row
  <2>. QED  BY <2>1, MessagingAssumption
<1>. HIDE DEF row
<1>5. /\ leads' \in [Lead -> LeadRecord \cup {NULL}] /\ leads'[l] # NULL
      /\ \A m \in Lead : leads[m] # NULL => leads'[m] # NULL
  BY <1>3, <1>4 DEF TypeInv, TypeOK
<1>6. req' \in [Request -> RequestState] => TypeOK'
  BY <1>2, <1>5 DEF TypeInv, TypeOK, logs
<1>. DEFINE new == [q EXCEPT !.lead = l, !.pc = "thread"]
<1>7. req' = [req EXCEPT ![r] = new]
  BY <1>1, <1>3 DEF TypeInv, TypeOK
<1>8. new \in RequestState /\ new.pc = "thread" /\ new.op = q.op /\ new.lead = l
        /\ new.args = q.args
  BY <1>1 DEF RequestState, PC
<1>. HIDE DEF new
<1>. QED  BY <1>1, <1>2, <1>5, <1>6, <1>7, <1>8, GoOnInv DEF Working

LEMMA FindLeadInv ==
  ASSUME TypeInv, NEW r \in Request, FindLead(r)
  PROVE  TypeInv'
<1>1. CASE leads[req[r].lead] = NULL
  BY <1>1, ThrowInv DEF FindLead
<1>2. CASE leads[req[r].lead] # NULL
  <2>1. Goto(r, "thread") /\ req[r].pc = "find"
          /\ UNCHANGED <<leads, threads, msgs, logs, carrier, failed, neglected>>
    BY <1>2 DEF FindLead, At
  <2>2. req' \in [Request -> RequestState] => TypeOK'
    BY <2>1 DEF TypeInv, TypeOK, logs
  <2>. QED  BY <1>2, <2>1, <2>2, GotoInv DEF PC, Working
<1>. QED  BY <1>1, <1>2

\* A request that works on a message has its lead.
LEMMA AtWork ==
  ASSUME TypeInv, NEW r \in Request, req[r].pc \in Working
  PROVE  /\ req[r] \in RequestState /\ req[r].local \in Local /\ req[r].args \in Args
         /\ req[r].op \in AllOps /\ req[r].lead \in Lead /\ leads[req[r].lead] \in LeadRecord
         /\ leads[req[r].lead] # NULL /\ Current(r) = <<r, req[r].lead>>
         /\ Current(r) \in Message
<1>1. req[r] \in RequestState /\ Located(r)
  BY DEF TypeInv, TypeOK
<1>2. req[r].op \in AllOps /\ req[r].lead \in Lead /\ leads[req[r].lead] # NULL
  BY <1>1 DEF Located, Routed, Placed, Working
<1>. QED  BY <1>1, <1>2 DEF TypeInv, TypeOK, RequestState, Current, Message

LEMMA GetThreadInv ==
  ASSUME TypeInv, NEW r \in Request, GetThread(r)
  PROVE  TypeInv'
<1>. DEFINE q == req[r]
<1>1. /\ q.pc = "thread" /\ threads' = threads \cup {q.lead}
      /\ UNCHANGED <<leads, msgs, logs, carrier, neglected>>
  BY DEF GetThread, At
<1>2. q.lead \in Lead /\ leads[q.lead] # NULL
  BY <1>1, AtWork DEF Working
<1>3. CASE Unreachable(q)
  <2>1. failed' = failed \cup {r} /\ UNCHANGED req
    BY <1>3 DEF GetThread
  <2>2. TypeOK'
    BY <1>1, <1>2, <2>1 DEF TypeInv, TypeOK, logs
  <2>3. IsFiniteSet(Rows)'
    BY <1>1 DEF TypeInv, Rows
  <2>. QED  BY <1>1, <2>1, <2>2, <2>3, StaysLocated DEF TypeInv
<1>4. CASE ~Unreachable(q)
  <2>1. Goto(r, AfterThread(q)) /\ UNCHANGED failed
    BY <1>4 DEF GetThread
  <2>2. /\ AfterThread(q) \in {"send", "save"}
        /\ AfterThread(q) = "send" => Flow(q) = "message"
    BY DEF AfterThread, Texts, Mails
  <2>3. req' \in [Request -> RequestState] => TypeOK'
    BY <1>1, <1>2, <2>1 DEF TypeInv, TypeOK, logs
  <2>. QED  BY <1>1, <1>2, <2>1, <2>2, <2>3, GotoInv DEF PC, Working
<1>. QED  BY <1>3, <1>4

-----------------------------------------------------------------------------
\* The row that a request writes, and what it does to the other requests.
SavedRow(q) ==
  [channel |-> q.args.channel, direction |-> q.args.direction,
   status |-> FirstStatus(q), sid |-> q.local.answer # NULL /\ q.local.answer.sid]

LEMMA SaveEffect ==
  ASSUME TypeInv, NEW r \in Request, SaveMessage(r)
  PROVE  /\ req[r].pc = "save"
         /\ SavedRow(req[r]) \in MessageRow /\ SavedRow(req[r]) # NULL
         /\ msgs' = [msgs EXCEPT ![Current(r)] = SavedRow(req[r])]
         /\ UNCHANGED <<leads, threads, logs, carrier, failed, neglected>>
         /\ req' \in [Request -> RequestState]
         /\ req'[r].pc = (IF Flow(req[r]) = "sms" THEN "send" ELSE "emit")
         /\ req'[r].op = req[r].op /\ req'[r].lead = req[r].lead
         /\ req'[r].args = req[r].args /\ req'[r].local = req[r].local
         /\ \A s \in Request : s # r =>
              /\ req'[s].pc = req[s].pc /\ req'[s].op = req[s].op
              /\ req'[s].lead = req[s].lead /\ req'[s].args = req[s].args
              /\ req'[s].local.todo = req[s].local.todo
              /\ req'[s].local.accepted = req[s].local.accepted
              /\ req'[s].local.answer = req[s].local.answer
              /\ req'[s].local.score = req[s].local.score
              /\ req[s].local.outdated => req'[s].local.outdated
              /\ req[s].pc = "persist" /\ req[s].lead = req[r].lead
                   => req'[s].local.outdated
<1>. DEFINE q == req[r]
            new == [q EXCEPT !.pc = IF Flow(q) = "sms" THEN "send" ELSE "emit"]
            hit(s) == req[s].pc = "persist" /\ req[s].lead = q.lead
            other(s) == [req[s] EXCEPT !.local.outdated = @ \/ hit(s)]
<1>1. /\ q.pc = "save" /\ msgs' = [msgs EXCEPT ![Current(r)] = SavedRow(q)]
      /\ UNCHANGED <<leads, threads, logs, carrier, failed, neglected>>
  BY DEF SaveMessage, At, SavedRow
<1>2. req' = [s \in Request |-> IF s = r THEN new ELSE other(s)]
  BY DEF SaveMessage
<1>3. q \in RequestState /\ q.local \in Local /\ q.args \in Args
  BY <1>1, AtWork DEF Working
<1>4. SavedRow(q) \in MessageRow /\ SavedRow(q) # NULL
  <2>1. q.local.answer # NULL => q.local.answer.sid \in BOOLEAN
    BY <1>3 DEF Local, Answer
  <2>2. FirstStatus(q) \in MessageStatus
    BY DEF FirstStatus, MessageStatus
  <2>3. SavedRow(q) \in MessageRow
    BY <1>3, <2>1, <2>2 DEF SavedRow, MessageRow, Args
  <2>. QED  BY <2>3, MessagingAssumption
<1>5. /\ new \in RequestState /\ new.pc = IF Flow(q) = "sms" THEN "send" ELSE "emit"
      /\ new.op = q.op /\ new.lead = q.lead /\ new.args = q.args /\ new.local = q.local
  BY <1>3 DEF RequestState, PC
<1>6. ASSUME NEW s \in Request
      PROVE  /\ other(s) \in RequestState
             /\ other(s).pc = req[s].pc /\ other(s).op = req[s].op
             /\ other(s).lead = req[s].lead /\ other(s).args = req[s].args
             /\ other(s).local.todo = req[s].local.todo
             /\ other(s).local.accepted = req[s].local.accepted
             /\ other(s).local.answer = req[s].local.answer
             /\ other(s).local.score = req[s].local.score
             /\ req[s].local.outdated \/ hit(s) => other(s).local.outdated
  <2>1. req[s] \in RequestState /\ req[s].local \in Local
    BY DEF TypeInv, TypeOK, RequestState
  <2>2. hit(s) \in BOOLEAN
    OBVIOUS
  <2>. HIDE DEF hit
  <2>. QED  BY <2>1, <2>2 DEF RequestState, Local
<1>. HIDE DEF new, other
<1>. QED  BY <1>1, <1>2, <1>4, <1>5, <1>6

LEMMA SaveMessageInv ==
  ASSUME TypeInv, NEW r \in Request, SaveMessage(r)
  PROVE  TypeInv'
<1>1. req[r].pc = "save" /\ UNCHANGED <<leads, threads, logs, carrier, failed, neglected>>
  BY SaveEffect
<1>2. /\ Current(r) \in Message /\ SavedRow(req[r]) \in MessageRow
      /\ msgs' = [msgs EXCEPT ![Current(r)] = SavedRow(req[r])]
      /\ req' \in [Request -> RequestState]
  BY <1>1, SaveEffect, AtWork DEF Working
<1>3. TypeOK'
  BY <1>1, <1>2 DEF TypeInv, TypeOK, logs
<1>4. Located(r)'
  <2>1. /\ req'[r].pc = (IF Flow(req[r]) = "sms" THEN "send" ELSE "emit")
        /\ req'[r].op = req[r].op /\ req'[r].lead = req[r].lead
        /\ req'[r].args = req[r].args
    BY SaveEffect
  <2>2. Located(r) /\ Flow(req[r])' = Flow(req[r])
    BY <2>1 DEF TypeInv, Flow
  <2>3. Routed(req[r])'
    BY <1>1, <2>1, <2>2 DEF Located, Routed
  <2>4. Placed(req[r])'
    BY <1>1, <2>1, <2>2 DEF Located, Placed, Working, Waiting
  <2>5. Saved(r, req[r])'
    <3>1. msgs'[<<r, req[r].lead>>] # NULL
      BY <1>2, SaveEffect DEF Current, TypeInv, TypeOK
    <3>. QED  BY <2>1, <3>1 DEF Saved
  <2>. QED  BY <2>3, <2>4, <2>5 DEF Located
<1>5. ASSUME NEW s \in Request, s # r PROVE Located(s)'
  <2>1. \A m \in Message : msgs[m] # NULL => msgs'[m] # NULL
    BY <1>2, SaveEffect DEF TypeInv, TypeOK
  <2>. QED  BY <1>1, <1>5, <2>1, SaveEffect, StaysLocated
<1>6. IsFiniteSet(Rows)'
  <2>1. Rows' \subseteq Rows \cup {Current(r)}
    BY <1>2 DEF Rows, TypeInv, TypeOK
  <2>2. IsFiniteSet(Rows \cup {Current(r)})
    BY FS_AddElement DEF TypeInv
  <2>. QED  BY <2>1, <2>2, FS_Subset
<1>. QED  BY <1>3, <1>4, <1>5, <1>6 DEF TypeInv

LEMMA SendInv ==
  ASSUME TypeInv, NEW r \in Request, Send(r)
  PROVE  TypeInv'
<1>. DEFINE q == req[r]
<1>1. q.pc = "send" /\ UNCHANGED <<leads, threads, msgs, logs, failed, neglected>>
  BY DEF Send, At
<1>2. PICK answer \in Answer :
        /\ carrier' = carrier \/ carrier' = [carrier EXCEPT ![Current(r)] = "accepted"]
        /\ Resume(r, [q.local EXCEPT !.answer = answer], AfterSend(q, answer))
  BY DEF Send
<1>3. /\ q.local \in Local /\ Current(r) \in Message /\ q.lead \in Lead /\ leads[q.lead] # NULL
  BY <1>1, AtWork DEF Working
<1>4. [q.local EXCEPT !.answer = answer] \in Local
  BY <1>3 DEF Local
<1>5. carrier' \in [Message -> CarrierStatus \cup {NULL}]
  BY <1>2, <1>3 DEF TypeInv, TypeOK, CarrierStatus
<1>6. req' \in [Request -> RequestState] => TypeOK'
  BY <1>1, <1>5 DEF TypeInv, TypeOK, logs
<1>7. AfterSend(q, answer) \in {"store", "save"}
        /\ (AfterSend(q, answer) = "store" => Flow(q) = "sms")
  BY DEF AfterSend
<1>8. Flow(q) = "sms" => msgs[Current(r)] # NULL
  BY <1>1 DEF TypeInv, Located, Saved, Current
<1>9. answer # NULL
  BY MessagingAssumption
<1>. DEFINE local == [q.local EXCEPT !.answer = answer]
<1>10. local.answer # NULL
  BY <1>3, <1>9 DEF Local
<1>. HIDE DEF local
<1>11. Resume(r, local, AfterSend(q, answer)) /\ local \in Local
  BY <1>2, <1>4 DEF local
<1>. QED  BY <1>1, <1>3, <1>6, <1>7, <1>8, <1>10, <1>11, ResumeInv DEF PC, Working

LEMMA StoreEffect ==
  ASSUME TypeInv, NEW r \in Request, StoreAnswer(r)
  PROVE  LET m == Current(r)  answer == req[r].local.answer IN
         /\ req[r].pc = "store" /\ Flow(req[r]) = "sms"
         /\ answer \in Answer /\ m \in Message
         /\ msgs[m] \in MessageRow /\ msgs[m] # NULL
         /\ msgs'[m] \in MessageRow /\ msgs'[m] # NULL
         /\ msgs'[m].channel = msgs[m].channel /\ msgs'[m].direction = msgs[m].direction
         /\ msgs'[m].status = answer.status /\ msgs'[m].sid = answer.sid
         /\ \A n \in Message : n # m => msgs'[n] = msgs[n]
         /\ msgs' \in [Message -> MessageRow \cup {NULL}]
         /\ Goto(r, "emit")
         /\ UNCHANGED <<leads, threads, logs, carrier, failed, neglected>>
<1>. DEFINE m == Current(r)
            answer == req[r].local.answer
            row == [msgs[m] EXCEPT !.status = answer.status, !.sid = answer.sid]
<1>1. req[r].pc = "store"
  BY DEF StoreAnswer, At
<1>2. m \in Message /\ req[r].local \in Local /\ Located(r)
  BY <1>1, AtWork DEF Working, TypeInv
<1>3. Flow(req[r]) = "sms" /\ answer \in Answer /\ msgs[m] # NULL
  BY <1>1, <1>2 DEF Located, Routed, Saved, Current, Local
<1>4. msgs[m] \in MessageRow
  BY <1>2, <1>3 DEF TypeInv, TypeOK
<1>5. /\ row \in MessageRow /\ row.channel = msgs[m].channel
      /\ row.direction = msgs[m].direction /\ row.status = answer.status
      /\ row.sid = answer.sid
  BY <1>3, <1>4 DEF MessageRow, Answer, MessageStatus
<1>6. /\ msgs' = [msgs EXCEPT ![m] = row] /\ Goto(r, "emit")
      /\ UNCHANGED <<leads, threads, logs, carrier, failed, neglected>>
  BY DEF StoreAnswer
<1>. HIDE DEF row
<1>7. row # NULL
  BY <1>5, MessagingAssumption
<1>8. msgs'[m] = row /\ (\A n \in Message : n # m => msgs'[n] = msgs[n])
        /\ msgs' \in [Message -> MessageRow \cup {NULL}]
  BY <1>2, <1>5, <1>6 DEF TypeInv, TypeOK
<1>. QED  BY <1>1, <1>2, <1>3, <1>4, <1>5, <1>6, <1>7, <1>8

LEMMA StoreAnswerInv ==
  ASSUME TypeInv, NEW r \in Request, StoreAnswer(r)
  PROVE  TypeInv'
<1>. DEFINE q == req[r]
<1>1. /\ q.pc = "store" /\ Goto(r, "emit") /\ msgs' \in [Message -> MessageRow \cup {NULL}]
      /\ UNCHANGED <<leads, threads, logs, carrier, failed, neglected>>
      /\ \A m \in Message : msgs[m] # NULL <=> msgs'[m] # NULL
  BY StoreEffect
<1>2. q \in RequestState /\ Located(r)
  BY DEF TypeInv, TypeOK
<1>3. PICK new \in RequestState :
        /\ new.pc = "emit" /\ new.op = q.op /\ new.lead = q.lead /\ new.args = q.args
        /\ req' = [req EXCEPT ![r] = new]
  <2>. DEFINE next == [q EXCEPT !.pc = "emit"]
  <2>1. next \in RequestState /\ next.pc = "emit" /\ next.op = q.op
          /\ next.lead = q.lead /\ next.args = q.args
    BY <1>2 DEF RequestState, PC
  <2>2. req' = [req EXCEPT ![r] = next]
    BY <1>1 DEF Goto
  <2>. HIDE DEF next
  <2>. QED  BY <2>1, <2>2
<1>5. TypeOK'
  BY <1>1, <1>3 DEF TypeInv, TypeOK, logs
<1>6. IsFiniteSet(Rows)'
  BY <1>1 DEF TypeInv, Rows
<1>7. req'[r] = new
  BY <1>3 DEF TypeInv, TypeOK
<1>8. Routed(new) /\ Placed(new)' /\ Saved(r, new)
  BY <1>1, <1>2, <1>3 DEF Located, Routed, Placed, Saved, Waiting, Working
<1>9. Located(r)'
  BY <1>3, <1>7, <1>8 DEF Located, Routed, Placed, Saved, Flow
<1>10. ASSUME NEW s \in Request, s # r PROVE Located(s)'
  BY <1>1, <1>3, <1>10, StaysLocated DEF TypeInv, TypeOK
<1>. QED  BY <1>5, <1>6, <1>9, <1>10 DEF TypeInv

LEMMA LogsInv ==
  ASSUME TypeInv, NEW r \in Request, EmitEvent(r) \/ WriteAudit(r)
  PROVE  TypeInv'
<1>. DEFINE q == req[r]
<1>1. q.pc \in {"emit", "audit"} /\ UNCHANGED <<leads, threads, msgs, carrier, failed, neglected>>
  BY DEF EmitEvent, WriteAudit, At
<1>2. q.op \in AllOps /\ Current(r) \in Message /\ q.lead \in Lead /\ leads[q.lead] # NULL
        /\ Located(r)
  BY <1>1, AtWork DEF Working, TypeInv
<1>3. CASE EmitEvent(r)
  <2>1. EventName(q) \in EventType
    BY <1>2 DEF EventName, EventType, Flow, AllOps
  <2>2. events' = events \cup {[msg |-> Current(r), type |-> EventName(q)]} \/ events' = events
    BY <1>3 DEF EmitEvent
  <2>3. events' \subseteq [msg : Message, type : EventType] /\ audit' = audit
    BY <1>2, <1>3, <2>1, <2>2 DEF TypeInv, TypeOK, EmitEvent
  <2>4. req' \in [Request -> RequestState] => TypeOK'
    BY <1>1, <2>3 DEF TypeInv, TypeOK
  <2>5. /\ AfterEvent(q) \in {"audit", "touch"}
        /\ AfterEvent(q) = "audit" => Flow(q) \in {"sms", "message"}
    BY DEF AfterEvent
  <2>6. Goto(r, AfterEvent(q))
    BY <1>3 DEF EmitEvent
  <2>. QED  BY <1>1, <1>2, <2>4, <2>5, <2>6, GotoInv DEF PC, Working
<1>4. CASE WriteAudit(r)
  <2>1. Flow(q) \in {"sms", "message"}
    BY <1>2, <1>4 DEF WriteAudit, At, Located, Routed
  <2>2. audit' = audit \cup {[msg |-> Current(r), action |-> ActionName[Flow(q)]]}
          /\ events' = events
    BY <1>4 DEF WriteAudit
  <2>3. ActionName[Flow(q)] \in {"sms_sent", "message_sent"}
    BY <2>1 DEF ActionName
  <2>4. audit' \subseteq [msg : Message, action : {"sms_sent", "message_sent"}]
    BY <1>2, <2>2, <2>3 DEF TypeInv, TypeOK
  <2>5. req' \in [Request -> RequestState] => TypeOK'
    BY <1>1, <2>2, <2>4 DEF TypeInv, TypeOK
  <2>6. Goto(r, "touch")
    BY <1>4 DEF WriteAudit
  <2>. QED  BY <1>1, <1>2, <2>5, <2>6, GotoInv DEF PC, Working
<1>. QED  BY <1>3, <1>4

\* What a step makes of one row of the lead table.
LEMMA LeadChange ==
  ASSUME TypeInv, NEW l \in Lead, leads[l] # NULL, NEW row \in LeadRecord,
         leads' = [leads EXCEPT ![l] = row]
  PROVE  /\ leads' \in [Lead -> LeadRecord \cup {NULL}] /\ leads'[l] = row
         /\ \A m \in Lead : m # l => leads'[m] = leads[m]
         /\ \A m \in Lead : leads[m] # NULL <=> leads'[m] # NULL
<1>1. row # NULL
  BY MessagingAssumption
<1>. QED  BY <1>1 DEF TypeInv, TypeOK

LEMMA TouchEffect ==
  ASSUME TypeInv, NEW r \in Request, TouchLead(r)
  PROVE  LET l == req[r].lead IN
         /\ req[r].pc = "touch" /\ l \in Lead /\ leads[l] # NULL /\ Goto(r, "count")
         /\ UNCHANGED <<threads, msgs, logs, carrier, failed, neglected>>
         /\ leads' \in [Lead -> LeadRecord \cup {NULL}]
         /\ leads'[l].age = 0 /\ leads'[l].score = leads[l].score
         /\ leads'[l].phone = leads[l].phone
         /\ \A m \in Lead : m # l => leads'[m] = leads[m]
         /\ \A m \in Lead : leads[m] # NULL <=> leads'[m] # NULL
<1>. DEFINE l == req[r].lead
            row == [leads[l] EXCEPT !.age = 0]
<1>1. req[r].pc = "touch" /\ Goto(r, "count")
        /\ UNCHANGED <<threads, msgs, logs, carrier, failed, neglected>>
  BY DEF TouchLead, At
<1>2. l \in Lead /\ leads[l] \in LeadRecord /\ leads[l] # NULL
  BY <1>1, AtWork DEF Working
<1>3. row \in LeadRecord /\ row.age = 0 /\ row.score = leads[l].score
        /\ row.phone = leads[l].phone
  BY <1>2 DEF LeadRecord
<1>4. leads' = [leads EXCEPT ![l] = row]
  BY DEF TouchLead
<1>. HIDE DEF row
<1>. QED  BY <1>1, <1>2, <1>3, <1>4, LeadChange

LEMMA PersistEffect ==
  ASSUME TypeInv, NEW r \in Request, PersistScore(r)
  PROVE  LET q == req[r]  l == req[r].lead IN
         /\ q.pc = "persist" /\ l \in Lead /\ leads[l] # NULL /\ q.local \in Local
         /\ Resume(r, [q.local EXCEPT !.score = 0, !.outdated = FALSE],
                   IF q.op = "inbound" THEN "end" ELSE "summary")
         /\ UNCHANGED <<threads, msgs, logs, carrier, failed>>
         /\ neglected' = IF q.local.outdated THEN neglected \cup {l} ELSE neglected \ {l}
         /\ leads' \in [Lead -> LeadRecord \cup {NULL}]
         /\ leads'[l].score = q.local.score /\ leads'[l].age = leads[l].age
         /\ leads'[l].phone = leads[l].phone /\ leads'[l].email = leads[l].email
         /\ \A m \in Lead : m # l => leads'[m] = leads[m]
         /\ \A m \in Lead : leads[m] # NULL <=> leads'[m] # NULL
<1>. DEFINE q == req[r]
            l == req[r].lead
            row == [leads[l] EXCEPT !.score = q.local.score]
<1>1. /\ q.pc = "persist"
      /\ Resume(r, [q.local EXCEPT !.score = 0, !.outdated = FALSE],
                IF q.op = "inbound" THEN "end" ELSE "summary")
      /\ UNCHANGED <<threads, msgs, logs, carrier, failed>>
      /\ neglected' = IF q.local.outdated THEN neglected \cup {l} ELSE neglected \ {l}
  BY DEF PersistScore, At
<1>2. l \in Lead /\ leads[l] \in LeadRecord /\ leads[l] # NULL /\ q.local \in Local
  BY <1>1, AtWork DEF Working
<1>3. /\ row \in LeadRecord /\ row.age = leads[l].age /\ row.score = q.local.score
      /\ row.phone = leads[l].phone /\ row.email = leads[l].email
  BY <1>2 DEF LeadRecord, Local
<1>4. leads' = [leads EXCEPT ![l] = row]
  BY DEF PersistScore
<1>. HIDE DEF row
<1>. QED  BY <1>1, <1>2, <1>3, <1>4, LeadChange

LEMMA ScoringInv ==
  ASSUME TypeInv, NEW r \in Request,
         TouchLead(r) \/ CountEvidence(r) \/ PersistScore(r) \/ ReadSummary(r)
  PROVE  TypeInv'
<1>. DEFINE q == req[r]
<1>1. CASE TouchLead(r)
  <2>1. req' \in [Request -> RequestState] => TypeOK'
    BY <1>1, TouchEffect DEF TypeInv, TypeOK, logs
  <2>. QED  BY <1>1, <2>1, TouchEffect, GotoInv DEF PC, Working
<1>2. CASE CountEvidence(r)
  <2>. DEFINE local == [q.local EXCEPT !.score = ScoreOf(q.lead), !.outdated = FALSE]
  <2>1. q.pc = "count" /\ Resume(r, local, "persist")
          /\ UNCHANGED <<leads, threads, msgs, logs, carrier, failed, neglected>>
    BY <1>2 DEF CountEvidence, At
  <2>2. q.local \in Local /\ q.lead \in Lead /\ leads[q.lead] # NULL
    BY <2>1, AtWork DEF Working
  <2>3. ScoreOf(q.lead) \in MIN_LEAD_SCORE .. MAX_LEAD_SCORE
    BY <2>2, ScoreType DEF TypeInv
  <2>4. local \in Local
    BY <2>2, <2>3 DEF Local
  <2>. HIDE DEF local
  <2>5. req' \in [Request -> RequestState] => TypeOK'
    BY <2>1 DEF TypeInv, TypeOK, logs
  <2>. QED  BY <2>1, <2>2, <2>4, <2>5, ResumeInv DEF PC, Working
<1>3. CASE PersistScore(r)
  <2>. DEFINE local == [q.local EXCEPT !.score = 0, !.outdated = FALSE]
              pc == IF q.op = "inbound" THEN "end" ELSE "summary"
  <2>1. /\ q.pc = "persist" /\ q.lead \in Lead /\ leads[q.lead] # NULL /\ q.local \in Local
        /\ Resume(r, local, pc)
    BY <1>3, PersistEffect
  <2>2. local \in Local
    <3>1. q.local \in Local
      BY <2>1
    <3>2. 0 \in MIN_LEAD_SCORE .. MAX_LEAD_SCORE
      BY DEF MIN_LEAD_SCORE, MAX_LEAD_SCORE
    <3>. QED  BY <3>1, <3>2 DEF Local
  <2>. HIDE DEF local
  <2>3. neglected' \subseteq Lead
    <3>1. neglected' = IF q.local.outdated THEN neglected \cup {q.lead}
                       ELSE neglected \ {q.lead}
      BY <1>3, PersistEffect
    <3>2. q.lead \in Lead /\ neglected \subseteq Lead
      BY <2>1 DEF TypeInv, TypeOK
    <3>. QED  BY <3>1, <3>2
  <2>4. req' \in [Request -> RequestState] => TypeOK'
    BY <1>3, <2>3, PersistEffect DEF TypeInv, TypeOK, logs
  <2>5. leads'[q.lead] # NULL /\ UNCHANGED msgs
          /\ \A l \in Lead : leads[l] # NULL => leads'[l] # NULL
    BY <1>3, <2>1, PersistEffect
  <2>6. pc \in {"end", "summary"}
    OBVIOUS
  <2>. HIDE DEF pc
  <2>. QED  BY <2>1, <2>2, <2>4, <2>5, <2>6, ResumeInv DEF PC, Working
<1>4. CASE ReadSummary(r)
  <2>1. q.pc = "summary"
          /\ UNCHANGED <<leads, threads, msgs, logs, carrier, failed, neglected>>
    BY <1>4 DEF ReadSummary, At
  <2>2. q.local \in Local
    BY <2>1, AtWork DEF Working
  <2>3. req' \in [Request -> RequestState] => TypeOK'
    BY <2>1 DEF TypeInv, TypeOK, logs
  <2>4. CASE q.op = "bulk"
    <3>. DEFINE local == [q.local EXCEPT !.accepted = @ + 1]
    <3>1. Resume(r, local, "next")
      BY <1>4, <2>4 DEF ReadSummary
    <3>2. local \in Local
      BY <2>2 DEF Local
    <3>. HIDE DEF local
    <3>. QED  BY <2>1, <2>3, <2>4, <3>1, <3>2, ResumeInv DEF PC, Working
  <2>5. CASE q.op # "bulk"
    <3>1. Goto(r, "end")
      BY <1>4, <2>5 DEF ReadSummary
    <3>. QED  BY <2>1, <2>3, <3>1, GotoInv DEF PC, Working
  <2>. QED  BY <2>4, <2>5
<1>. QED  BY <1>1, <1>2, <1>3, <1>4

-----------------------------------------------------------------------------
\* A report changes the status of a row that has the identifier, or nothing.
LEMMA ReportEffect ==
  ASSUME TypeInv, NEW m \in Message, NEW s \in CarrierStatus, HandleStatus(m, s)
  PROVE  /\ UNCHANGED <<leads, threads, logs, carrier, req, failed, neglected>>
         /\ msgs' \in [Message -> MessageRow \cup {NULL}]
         /\ \A n \in Message : n # m => msgs'[n] = msgs[n]
         /\ \A n \in Message : msgs[n] # NULL <=> msgs'[n] # NULL
         /\ msgs[m] = NULL \/ ~msgs[m].sid => msgs'[m] = msgs[m]
         /\ msgs[m] # NULL =>
              /\ msgs'[m].channel = msgs[m].channel /\ msgs'[m].direction = msgs[m].direction
              /\ msgs'[m].sid = msgs[m].sid
              /\ msgs[m].sid => msgs'[m].status = Normalized(s)
<1>1. UNCHANGED <<leads, threads, logs, carrier, req, failed, neglected>>
  BY DEF HandleStatus
<1>2. CASE ~(msgs[m] # NULL /\ msgs[m].sid)
  <2>1. msgs' = msgs
    BY <1>2 DEF HandleStatus
  <2>. QED  BY <1>1, <1>2, <2>1 DEF TypeInv, TypeOK
<1>3. CASE msgs[m] # NULL /\ msgs[m].sid
  <2>. DEFINE row == [msgs[m] EXCEPT !.status = Normalized(s)]
  <2>1. msgs' = [msgs EXCEPT ![m] = row]
    BY <1>3 DEF HandleStatus
  <2>2. msgs[m] \in MessageRow /\ Normalized(s) \in MessageStatus
    BY <1>3 DEF TypeInv, TypeOK, Normalized, MessageStatus
  <2>3. /\ row \in MessageRow /\ row.channel = msgs[m].channel
        /\ row.direction = msgs[m].direction /\ row.sid = msgs[m].sid
        /\ row.status = Normalized(s)
    BY <2>2 DEF MessageRow
  <2>. HIDE DEF row
  <2>4. row # NULL
    BY <2>3, MessagingAssumption
  <2>5. /\ msgs' \in [Message -> MessageRow \cup {NULL}] /\ msgs'[m] = row
        /\ \A n \in Message : n # m => msgs'[n] = msgs[n]
    BY <2>1, <2>3 DEF TypeInv, TypeOK
  <2>. QED  BY <1>1, <1>3, <2>3, <2>4, <2>5
<1>. QED  BY <1>2, <1>3

LEMMA CarrierInv ==
  ASSUME TypeInv, NEW m \in Message, Carrier(m)
  PROVE  TypeInv'
<1>1. CASE CarrierMoves(m)
  <2>1. UNCHANGED <<leads, threads, msgs, logs, req, failed, neglected>>
          /\ \E s \in CarrierStatus : carrier' = [carrier EXCEPT ![m] = s]
    BY <1>1 DEF CarrierMoves
  <2>2. TypeOK'
    BY <2>1 DEF TypeInv, TypeOK, logs
  <2>3. IsFiniteSet(Rows)'
    BY <2>1 DEF TypeInv, Rows
  <2>. QED  BY <2>1, <2>2, <2>3, StaysLocated DEF TypeInv
<1>2. ASSUME NEW s \in CarrierStatus, HandleStatus(m, s) PROVE TypeInv'
  <2>1. /\ UNCHANGED <<leads, threads, logs, carrier, req, failed, neglected>>
        /\ msgs' \in [Message -> MessageRow \cup {NULL}]
        /\ \A n \in Message : msgs[n] # NULL <=> msgs'[n] # NULL
    BY <1>2, ReportEffect
  <2>2. TypeOK'
    BY <2>1 DEF TypeInv, TypeOK, logs
  <2>3. IsFiniteSet(Rows)'
    BY <2>1 DEF TypeInv, Rows
  <2>. QED  BY <2>1, <2>2, <2>3, StaysLocated DEF TypeInv
<1>. QED  BY <1>1, <1>2 DEF Carrier

LEMMA NextTypeInv == TypeInv /\ [Next]_vars => TypeInv'
<1>. SUFFICES ASSUME TypeInv, [Next]_vars PROVE TypeInv'
  OBVIOUS
<1>1. CASE UNCHANGED vars
  <2>1. TypeOK'
    BY <1>1 DEF TypeInv, TypeOK, vars, logs
  <2>2. IsFiniteSet(Rows)'
    BY <1>1 DEF TypeInv, Rows, vars
  <2>. QED  BY <1>1, <2>1, <2>2, StaysLocated DEF TypeInv, vars
<1>2. ASSUME NEW r \in Request, Step(r) PROVE TypeInv'
  BY <1>2, FindLeadsInv, NextLeadInv, MatchLeadInv, NewLeadInv, FindLeadInv, GetThreadInv,
     SaveMessageInv, SendInv, StoreAnswerInv, LogsInv, ScoringInv DEF Step
<1>3. ASSUME NEW r \in Request, Fault(r) PROVE TypeInv'
  BY <1>3, ThrowInv DEF Fault
<1>. QED  BY <1>1, <1>2, <1>3, StartInv, CarrierInv DEF Next

LEMMA StaysTyped == Spec => []TypeInv
BY InitTypeInv, NextTypeInv, PTL DEF Spec

\* Every table and every request is what its columns and fields say; whoever
\* works on a message has found its lead.
THEOREM TypeCorrect == Spec => []TypeOK
<1>1. TypeInv => TypeOK
  BY DEF TypeInv
<1>. QED  BY <1>1, StaysTyped, PTL

-----------------------------------------------------------------------------
LEMMA GotoEffect ==
  ASSUME TypeInv, NEW r \in Request, NEW pc, Goto(r, pc)
  PROVE  /\ req'[r].pc = pc /\ req'[r].op = req[r].op /\ req'[r].lead = req[r].lead
         /\ req'[r].args = req[r].args /\ req'[r].local = req[r].local
         /\ \A s \in Request : s # r => req'[s] = req[s]
BY DEF Goto, TypeInv, TypeOK, RequestState

LEMMA ResumeEffect ==
  ASSUME TypeInv, NEW r \in Request, NEW local, NEW pc, Resume(r, local, pc)
  PROVE  /\ req'[r].pc = pc /\ req'[r].op = req[r].op /\ req'[r].lead = req[r].lead
         /\ req'[r].args = req[r].args /\ req'[r].local = local
         /\ \A s \in Request : s # r => req'[s] = req[s]
BY DEF Resume, TypeInv, TypeOK, RequestState

LEMMA BeginEffect ==
  ASSUME TypeInv, NEW r \in Request, Start(r)
  PROVE  /\ req[r].pc = "idle"
         /\ \/ req'[r].pc = "find" /\ req'[r].op \in {"sms", "message", "call"}
                                   /\ req'[r].lead \in Lead
            \/ req'[r].pc = "leads" /\ req'[r].op = "bulk"
                 /\ req'[r].args.leads \subseteq Named /\ req'[r].lead = NULL
            \/ req'[r].pc = "match" /\ req'[r].op = "inbound" /\ req'[r].lead = NULL
                 /\ req'[r].args.phone \in Phone
         /\ req'[r].local = Blank
         /\ \A s \in Request : s # r => req'[s] = req[s]
         /\ UNCHANGED <<leads, threads, msgs, logs, carrier, failed, neglected>>
<1>1. Named \subseteq Lead
  BY MessagingAssumption DEF Named
<1>2. PICK op, l, pc, args : Begin(r, op, l, pc, args)
        /\ \/ pc = "find" /\ op \in {"sms", "message", "call"} /\ l \in Lead
           \/ pc = "leads" /\ op = "bulk" /\ l = NULL /\ args.leads \subseteq Named
           \/ pc = "match" /\ op = "inbound" /\ l = NULL /\ args.phone \in Phone
  <2>1. CASE StartBulk(r)
    <3>1. PICK ls \in {b \in BulkArg : b \subseteq Named},
               c \in ChannelArg \cap {"SMS", "EMAIL"}, t \in TemplateArg :
            Begin(r, "bulk", NULL, "leads",
                  [NoArgs EXCEPT !.channel = c, !.leads = ls, !.template = t])
      BY <2>1 DEF StartBulk
    <3>. DEFINE args == [NoArgs EXCEPT !.channel = c, !.leads = ls, !.template = t]
    <3>2. args.leads \subseteq Named
      BY DEF NoArgs
    <3>. HIDE DEF args
    <3>3. Begin(r, "bulk", NULL, "leads", args)
      BY <3>1 DEF args
    <3>. QED  BY <3>2, <3>3
  <2>2. CASE StartInbound(r)
    <3>1. PICK p \in Phone : Begin(r, "inbound", NULL, "match",
                                   [NoArgs EXCEPT !.phone = p, !.direction = "INBOUND"])
      BY <2>2 DEF StartInbound
    <3>. DEFINE args == [NoArgs EXCEPT !.phone = p, !.direction = "INBOUND"]
    <3>2. args.phone = p
      BY DEF NoArgs
    <3>. HIDE DEF args
    <3>3. Begin(r, "inbound", NULL, "match", args)
      BY <3>1 DEF args
    <3>. QED  BY <3>2, <3>3
  <2>3. CASE StartSms(r) \/ StartMessage(r) \/ StartCall(r)
    BY <1>1, <2>3 DEF StartSms, StartMessage, StartCall
  <2>. QED  BY <2>1, <2>2, <2>3 DEF Start
<1>. DEFINE new == [pc |-> pc, op |-> op, lead |-> l, args |-> args, local |-> Blank]
<1>3. /\ req[r].pc = "idle" /\ req' = [req EXCEPT ![r] = new]
      /\ UNCHANGED <<leads, threads, msgs, logs, carrier, failed, neglected>>
  BY <1>2 DEF Begin, At
<1>4. new.pc = pc /\ new.op = op /\ new.lead = l /\ new.args = args /\ new.local = Blank
  OBVIOUS
<1>. HIDE DEF new
<1>5. req'[r] = new /\ \A s \in Request : s # r => req'[s] = req[s]
  BY <1>3 DEF TypeInv, TypeOK
<1>. QED  BY <1>2, <1>3, <1>4, <1>5

\* Who gets a lead, from the payload or from the table.
LEMMA TakeEffect ==
  ASSUME TypeInv, NEW r \in Request, NextLead(r) \/ MatchLead(r) \/ NewLead(r)
  PROVE  /\ req'[r].op = req[r].op /\ req'[r].args = req[r].args
         /\ \A s \in Request : s # r => req'[s] = req[s]
         /\ UNCHANGED <<threads, msgs, logs, carrier, failed, neglected>>
         /\ \/ /\ NextLead(r) /\ req[r].pc = "next" /\ req[r].op = "bulk" /\ leads' = leads
               /\ req'[r].local.accepted = req[r].local.accepted
               /\ \/ /\ req[r].local.todo = {} /\ req'[r].pc = "end"
                     /\ req'[r].local.todo = {} /\ req'[r].lead = req[r].lead
                  \/ \E l \in Lead :
                       /\ l \in req[r].local.todo
                       /\ req'[r].local.todo = req[r].local.todo \ {l}
                       /\ req'[r].local.answer = NULL
                       /\ \/ req'[r].pc = "next" /\ leads[l].phone = NULL
                               /\ req'[r].lead = req[r].lead
                          \/ req'[r].pc = "find" /\ req'[r].lead = l
            \/ /\ MatchLead(r) \/ NewLead(r)
               /\ req[r].pc \in {"match", "newlead"} /\ req[r].op = "inbound"
               /\ req'[r].local = req[r].local
               /\ \/ req'[r].pc = "newlead" /\ req'[r].lead = NULL
                  \/ req'[r].pc = "thread" /\ req'[r].lead \in Lead
<1>. DEFINE q == req[r]
<1>1. q \in RequestState /\ q.local \in Local /\ q.args \in Args /\ Located(r)
  BY DEF TypeInv, TypeOK, RequestState
<1>2. CASE NextLead(r)
  <2>1. q.pc = "next" /\ q.op = "bulk"
          /\ UNCHANGED <<leads, threads, msgs, logs, carrier, failed, neglected>>
    BY <1>1, <1>2 DEF NextLead, At, Located, Routed
  <2>2. CASE q.local.todo = {}
    <3>1. Goto(r, "end")
      BY <1>2, <2>2 DEF NextLead
    <3>. QED  BY <1>2, <2>1, <2>2, <3>1, GotoEffect
  <2>3. CASE q.local.todo # {}
    <3>. DEFINE rest(l) == [q.local EXCEPT !.todo = @ \ {l}, !.answer = NULL]
    <3>1. PICK l \in q.local.todo :
            IF q.args.channel = "SMS" /\ leads[l].phone = NULL
            THEN Resume(r, rest(l), "next")
            ELSE req' = [req EXCEPT ![r] = [@ EXCEPT !.lead = l, !.local = rest(l), !.pc = "find"]]
      BY <1>2, <2>3 DEF NextLead
    <3>2. l \in Lead
      BY <1>1 DEF Local
    <3>3. /\ rest(l).todo = q.local.todo \ {l} /\ rest(l).answer = NULL
          /\ rest(l).accepted = q.local.accepted
      BY <1>1 DEF Local
    <3>. HIDE DEF rest
    <3>4. CASE q.args.channel = "SMS" /\ leads[l].phone = NULL
      <4>1. Resume(r, rest(l), "next")
        BY <3>1, <3>4
      <4>2. /\ req'[r].pc = "next" /\ req'[r].op = q.op /\ req'[r].lead = q.lead
            /\ req'[r].args = q.args /\ req'[r].local = rest(l)
            /\ \A s \in Request : s # r => req'[s] = req[s]
        BY <4>1, ResumeEffect
      <4>. QED  BY <1>2, <2>1, <3>2, <3>3, <3>4, <4>2
    <3>5. CASE ~(q.args.channel = "SMS" /\ leads[l].phone = NULL)
      <4>1. /\ req'[r].pc = "find" /\ req'[r].op = q.op /\ req'[r].lead = l
            /\ req'[r].args = q.args /\ req'[r].local = rest(l)
            /\ \A s \in Request : s # r => req'[s] = req[s]
        BY <1>1, <3>1, <3>5 DEF TypeInv, TypeOK, RequestState
      <4>. QED  BY <1>2, <2>1, <3>2, <3>3, <4>1
    <3>. QED  BY <3>4, <3>5
  <2>. QED  BY <2>2, <2>3
<1>3. CASE MatchLead(r)
  <2>1. q.pc = "match" /\ q.op = "inbound" /\ q.lead = NULL
          /\ UNCHANGED <<leads, threads, msgs, logs, carrier, failed, neglected>>
    BY <1>1, <1>3 DEF MatchLead, At, Located, Routed, Placed, Waiting
  <2>2. \/ Goto(r, "newlead")
        \/ \E l \in Lead : req' = [req EXCEPT ![r] = [@ EXCEPT !.lead = l, !.pc = "thread"]]
    BY <1>3 DEF MatchLead
  <2>3. CASE Goto(r, "newlead")
    BY <1>3, <2>1, <2>3, GotoEffect
  <2>4. ASSUME NEW l \in Lead,
               req' = [req EXCEPT ![r] = [@ EXCEPT !.lead = l, !.pc = "thread"]]
        PROVE  /\ req'[r].pc = "thread" /\ req'[r].op = q.op /\ req'[r].lead = l
               /\ req'[r].args = q.args /\ req'[r].local = q.local
               /\ \A s \in Request : s # r => req'[s] = req[s]
    BY <1>1, <2>4 DEF TypeInv, TypeOK, RequestState
  <2>. QED  BY <1>3, <2>1, <2>2, <2>3, <2>4
<1>4. CASE NewLead(r)
  <2>1. q.pc = "newlead" /\ q.op = "inbound"
          /\ UNCHANGED <<threads, msgs, logs, carrier, failed, neglected>>
    BY <1>1, <1>4 DEF NewLead, At, Located, Routed
  <2>2. PICK l \in Lead : req' = [req EXCEPT ![r] = [@ EXCEPT !.lead = l, !.pc = "thread"]]
    BY <1>4 DEF NewLead
  <2>3. /\ req'[r].pc = "thread" /\ req'[r].op = q.op /\ req'[r].lead = l
        /\ req'[r].args = q.args /\ req'[r].local = q.local
        /\ \A s \in Request : s # r => req'[s] = req[s]
    BY <1>1, <2>2 DEF TypeInv, TypeOK, RequestState
  <2>. QED  BY <1>4, <2>1, <2>3
<1>. QED  BY <1>2, <1>3, <1>4

\* Who looks something up, or is cut short.
LEMMA LookEffect ==
  ASSUME TypeInv, NEW r \in Request,
         FindLeads(r) \/ FindLead(r) \/ GetThread(r) \/ Fault(r)
  PROVE  /\ UNCHANGED <<leads, msgs, logs, carrier, neglected>>
         /\ failed \subseteq failed'
         /\ \A s \in Request : s # r => req'[s] = req[s]
         /\ \/ req' = req /\ r \in failed'
            \/ /\ req'[r].op = req[r].op /\ req'[r].args = req[r].args
               /\ req'[r].lead = req[r].lead /\ failed' = failed
               /\ req'[r].local.accepted = req[r].local.accepted
               /\ req'[r].local.answer = req[r].local.answer
               /\ \/ /\ req[r].pc = "leads" /\ req'[r].pc = "next"
                     /\ req'[r].local.todo = {l \in req[r].args.leads : leads[l] # NULL}
                  \/ /\ req'[r].local.todo = req[r].local.todo
                     /\ \/ req[r].pc = "find" /\ req'[r].pc = "thread"
                        \/ req[r].pc = "thread" /\ req'[r].pc = AfterThread(req[r])
<1>. DEFINE q == req[r]
<1>1. q \in RequestState /\ q.local \in Local /\ q.args \in Args
  BY DEF TypeInv, TypeOK, RequestState
<1>2. CASE Throw(r)
  BY <1>2 DEF Throw, logs
<1>3. CASE FindLeads(r) /\ ~Throw(r)
  <2>. DEFINE local == [q.local EXCEPT !.todo = {l \in q.args.leads : leads[l] # NULL}]
  <2>1. q.pc = "leads" /\ Resume(r, local, "next")
          /\ UNCHANGED <<leads, threads, msgs, logs, carrier, failed, neglected>>
    BY <1>3 DEF FindLeads, At
  <2>2. /\ local.todo = {l \in q.args.leads : leads[l] # NULL}
        /\ local.accepted = q.local.accepted /\ local.answer = q.local.answer
    BY <1>1 DEF Local
  <2>. HIDE DEF local
  <2>3. /\ req'[r].pc = "next" /\ req'[r].op = q.op /\ req'[r].lead = q.lead
        /\ req'[r].args = q.args /\ req'[r].local = local
        /\ \A s \in Request : s # r => req'[s] = req[s]
    BY <2>1, ResumeEffect
  <2>. QED  BY <2>1, <2>2, <2>3
<1>4. CASE FindLead(r) /\ ~Throw(r)
  <2>1. q.pc = "find" /\ Goto(r, "thread")
          /\ UNCHANGED <<leads, threads, msgs, logs, carrier, failed, neglected>>
    BY <1>4 DEF FindLead, At
  <2>. QED  BY <2>1, GotoEffect
<1>5. CASE GetThread(r)
  <2>1. q.pc = "thread" /\ UNCHANGED <<leads, msgs, logs, carrier, neglected>>
    BY <1>5 DEF GetThread, At
  <2>2. CASE failed' = failed \cup {r} /\ UNCHANGED req
    BY <2>1, <2>2
  <2>3. CASE Goto(r, AfterThread(q)) /\ UNCHANGED failed
    BY <2>1, <2>3, GotoEffect
  <2>. QED  BY <1>5, <2>2, <2>3 DEF GetThread
<1>. QED  BY <1>2, <1>3, <1>4, <1>5 DEF Fault

Late == {"emit", "audit", "touch", "count", "persist", "summary"}

\* What follows the row and what the carrier has answered.
LEMMA LateEffect ==
  ASSUME TypeInv, NEW r \in Request,
         \/ EmitEvent(r) \/ WriteAudit(r) \/ TouchLead(r) \/ CountEvidence(r)
         \/ PersistScore(r) \/ ReadSummary(r)
  PROVE  /\ UNCHANGED <<msgs, carrier, failed>>
         /\ \A l \in Lead : leads[l] # NULL <=> leads'[l] # NULL
         /\ \A l \in Lead : leads[l] # NULL => leads'[l].phone = leads[l].phone
         /\ \A s \in Request : s # r => req'[s] = req[s]
         /\ req'[r].op = req[r].op /\ req'[r].args = req[r].args
         /\ req'[r].lead = req[r].lead
         /\ req'[r].local.todo = req[r].local.todo
         /\ req'[r].local.answer = req[r].local.answer
         /\ req[r].pc \in Late
         /\ IF req[r].pc = "summary"
            THEN /\ leads' = leads /\ UNCHANGED logs
                 /\ req[r].op = "bulk" =>
                      /\ req'[r].pc = "next"
                      /\ req'[r].local.accepted = req[r].local.accepted + 1
                 /\ req[r].op # "bulk" => req'[r].pc = "end"
            ELSE /\ req'[r].local.accepted = req[r].local.accepted
                 /\ \/ req'[r].pc \in Late \ {"emit"}
                    \/ req[r].op = "inbound" /\ req'[r].pc = "end"
<1>. DEFINE q == req[r]
<1>1. CASE EmitEvent(r) \/ WriteAudit(r)
  <2>1. PICK pc \in {"audit", "touch"} : Goto(r, pc)
    BY <1>1 DEF EmitEvent, WriteAudit, AfterEvent
  <2>2. q.pc \in {"emit", "audit"} /\ UNCHANGED <<leads, msgs, carrier, failed>>
    BY <1>1 DEF EmitEvent, WriteAudit, At
  <2>. QED  BY <2>1, <2>2, GotoEffect DEF Late
<1>2. CASE TouchLead(r)
  <2>1. Goto(r, "count") /\ q.pc = "touch"
    BY <1>2, TouchEffect
  <2>2. UNCHANGED <<msgs, carrier, failed>> /\ \A l \in Lead : leads[l] # NULL <=> leads'[l] # NULL
    BY <1>2, TouchEffect
  <2>3. \A l \in Lead : leads[l] # NULL => leads'[l].phone = leads[l].phone
    BY <1>2, TouchEffect
  <2>. QED  BY <2>1, <2>2, <2>3, GotoEffect DEF Late
<1>3. CASE CountEvidence(r)
  <2>. DEFINE local == [q.local EXCEPT !.score = ScoreOf(q.lead), !.outdated = FALSE]
  <2>1. q.pc = "count" /\ Resume(r, local, "persist")
          /\ UNCHANGED <<leads, threads, msgs, logs, carrier, failed, neglected>>
    BY <1>3 DEF CountEvidence, At
  <2>2. q.local \in Local
    BY <2>1, AtWork DEF Working
  <2>3. /\ local.todo = q.local.todo /\ local.answer = q.local.answer
        /\ local.accepted = q.local.accepted
    BY <2>2 DEF Local
  <2>. HIDE DEF local
  <2>. QED  BY <2>1, <2>3, ResumeEffect DEF Late
<1>4. CASE PersistScore(r)
  <2>. DEFINE local == [q.local EXCEPT !.score = 0, !.outdated = FALSE]
              pc == IF q.op = "inbound" THEN "end" ELSE "summary"
  <2>1. q.pc = "persist" /\ Resume(r, local, pc) /\ q.local \in Local
    BY <1>4, PersistEffect
  <2>2. UNCHANGED <<msgs, carrier, failed>> /\ \A l \in Lead : leads[l] # NULL <=> leads'[l] # NULL
    BY <1>4, PersistEffect
  <2>3. \A l \in Lead : leads[l] # NULL => leads'[l].phone = leads[l].phone
    BY <1>4, PersistEffect
  <2>4. /\ local.todo = q.local.todo /\ local.answer = q.local.answer
        /\ local.accepted = q.local.accepted
    <3>1. q.local \in Local
      BY <2>1
    <3>. QED  BY <3>1 DEF Local
  <2>5. (pc = "end" /\ q.op = "inbound") \/ pc = "summary"
    OBVIOUS
  <2>. HIDE DEF local, pc
  <2>. QED  BY <2>1, <2>2, <2>3, <2>4, <2>5, ResumeEffect DEF Late
<1>5. CASE ReadSummary(r)
  <2>1. q.pc = "summary"
          /\ UNCHANGED <<leads, threads, msgs, logs, carrier, failed, neglected>>
    BY <1>5 DEF ReadSummary, At
  <2>2. CASE q.op = "bulk"
    <3>. DEFINE local == [q.local EXCEPT !.accepted = @ + 1]
    <3>1. Resume(r, local, "next")
      BY <1>5, <2>2 DEF ReadSummary
    <3>2. q.local \in Local
      BY <2>1, AtWork DEF Working
    <3>3. /\ local.todo = q.local.todo /\ local.answer = q.local.answer
          /\ local.accepted = q.local.accepted + 1
      BY <3>2 DEF Local
    <3>. HIDE DEF local
    <3>. QED  BY <2>1, <2>2, <3>1, <3>3, ResumeEffect DEF Late
  <2>3. CASE q.op # "bulk"
    <3>1. Goto(r, "end")
      BY <1>5, <2>3 DEF ReadSummary
    <3>. QED  BY <2>1, <2>3, <3>1, GotoEffect DEF Late
  <2>. QED  BY <2>2, <2>3
<1>. QED  BY <1>1, <1>2, <1>3, <1>4, <1>5

LEMMA SendEffect ==
  ASSUME TypeInv, NEW r \in Request, Send(r)
  PROVE  LET q == req[r]  m == Current(r)  answer == req'[r].local.answer IN
         /\ q.pc = "send" /\ Flow(q) \in {"sms", "message"} /\ m \in Message
         /\ UNCHANGED <<leads, threads, msgs, logs, failed, neglected>>
         /\ answer \in Answer
         /\ answer.sid => answer.status = "SENT" /\ carrier'[m] # NULL
         /\ carrier'[m] \in {carrier[m], "accepted"}
         /\ \A n \in Message : n # m => carrier'[n] = carrier[n]
         /\ req'[r].pc = (IF Flow(q) = "sms" THEN "store" ELSE "save")
         /\ req'[r].op = q.op /\ req'[r].lead = q.lead /\ req'[r].args = q.args
         /\ req'[r].local.todo = q.local.todo
         /\ req'[r].local.accepted = q.local.accepted
         /\ \A s \in Request : s # r => req'[s] = req[s]
<1>. DEFINE q == req[r]
            m == Current(r)
<1>1. q.pc = "send" /\ UNCHANGED <<leads, threads, msgs, logs, failed, neglected>>
  BY DEF Send, At
<1>2. m \in Message /\ q.local \in Local /\ Located(r)
  BY <1>1, AtWork DEF Working, TypeInv
<1>3. Flow(q) \in {"sms", "message"}
  BY <1>1, <1>2 DEF Located, Routed
<1>4. PICK answer \in Answer, taken \in BOOLEAN :
        /\ IF Texts(q) /\ Live
           THEN /\ answer.sid = (answer.status = "SENT")
                /\ answer.sid => taken
                /\ taken /\ ~answer.sid => Faults
           ELSE answer = [status |-> "SENT", sid |-> FALSE] /\ ~taken
        /\ carrier' = IF taken THEN [carrier EXCEPT ![m] = "accepted"] ELSE carrier
        /\ Resume(r, [q.local EXCEPT !.answer = answer], AfterSend(q, answer))
  BY DEF Send
<1>5. answer.sid => answer.status = "SENT" /\ taken
  <2>1. CASE Texts(q) /\ Live
    <3>1. answer.sid = (answer.status = "SENT") /\ (answer.sid => taken)
      BY <1>4, <2>1
    <3>. QED  BY <3>1
  <2>2. CASE ~(Texts(q) /\ Live)
    <3>1. answer = [status |-> "SENT", sid |-> FALSE]
      BY <1>4, <2>2
    <3>. QED  BY <3>1
  <2>. QED  BY <2>1, <2>2
<1>6. /\ carrier'[m] \in {carrier[m], "accepted"} /\ (taken => carrier'[m] = "accepted")
      /\ \A n \in Message : n # m => carrier'[n] = carrier[n]
  BY <1>2, <1>4 DEF TypeInv, TypeOK
<1>. DEFINE local == [q.local EXCEPT !.answer = answer]
<1>7. /\ local.answer = answer /\ local.todo = q.local.todo
      /\ local.accepted = q.local.accepted
  BY <1>2 DEF Local
<1>. HIDE DEF local
<1>8. Resume(r, local, AfterSend(q, answer))
  BY <1>4 DEF local
<1>9. /\ req'[r].pc = AfterSend(q, answer) /\ req'[r].op = q.op /\ req'[r].lead = q.lead
      /\ req'[r].args = q.args /\ req'[r].local = local
      /\ \A s \in Request : s # r => req'[s] = req[s]
  BY <1>8, ResumeEffect
<1>10. "accepted" # NULL
  BY MessagingAssumption DEF CarrierStatus
<1>. QED  BY <1>1, <1>2, <1>3, <1>5, <1>6, <1>7, <1>9, <1>10 DEF AfterSend

-----------------------------------------------------------------------------
(***************************************************************************)
(* What a request has written, and handed over, by where it is: nothing    *)
(* before it has a lead, and nothing for the leads that a bulk send has    *)
(* yet to come to; a row that waits for an answer bears no identifier; and *)
(* an identifier that waits to be stored is one that the carrier gave.     *)
(***************************************************************************)
Fresh(r, l) == msgs[<<r, l>>] = NULL /\ carrier[<<r, l>>] = NULL

Given(r, q) ==
  q.local.answer # NULL /\ q.local.answer.sid =>
    q.local.answer.status = "SENT" /\ carrier[<<r, q.lead>>] # NULL

Written(r, q) ==
  /\ q.pc \in Waiting => /\ q.local.answer = NULL /\ q.local.todo = {}
                         /\ \A l \in Lead : Fresh(r, l)
  /\ \A l \in q.local.todo : Fresh(r, l)
  /\ q.pc \in Working \cup {"find"} => q.lead \notin q.local.todo
  /\ q.pc \in {"find", "thread"} => Fresh(r, q.lead) /\ q.local.answer = NULL
  /\ q.pc = "save" => /\ msgs[<<r, q.lead>>] = NULL /\ Given(r, q)
                      /\ Flow(q) # "message" =>
                           carrier[<<r, q.lead>>] = NULL /\ q.local.answer = NULL
  /\ q.pc = "send" => /\ carrier[<<r, q.lead>>] = NULL
                      /\ IF Flow(q) = "sms" THEN ~msgs[<<r, q.lead>>].sid
                         ELSE msgs[<<r, q.lead>>] = NULL
  /\ q.pc = "store" => ~msgs[<<r, q.lead>>].sid /\ Given(r, q)

\* The row, or the handler that is about to write it.
HasRow(r, l) ==
  carrier[<<r, l>>] # NULL =>
    \/ msgs[<<r, l>>] # NULL
    \/ Flow(req[r]) = "message" /\ req[r].pc = "save" /\ req[r].lead = l

\* What the rows with the carrier's identifier say of their texts.
Heard ==
  \A m \in Message : msgs[m] # NULL /\ msgs[m].sid =>
    CASE msgs[m].status = "SENT" -> carrier[m] # NULL
      [] msgs[m].status = "DELIVERED" -> carrier[m] \in {"delivered", "undelivered"}
      [] msgs[m].status = "FAILED" -> carrier[m] = "failed"
      [] OTHER -> FALSE

WriteInv ==
  /\ \A r \in Request : Written(r, req[r])
  /\ \A r \in Request, l \in Lead : HasRow(r, l)
  /\ Heard

LEMMA LeadTypes ==
  ASSUME TypeInv, NEW r \in Request
  PROVE  /\ req[r].local.todo \subseteq Lead
         /\ req[r].pc \in Working \cup {"find"} => req[r].lead \in Lead
         /\ \A l \in Lead : <<r, l>> \in Message
BY DEF TypeInv, TypeOK, RequestState, Local, Located, Placed, Message

\* Whoever stays where it is, with its rows and its texts, has written the same.
LEMMA StaysWritten ==
  ASSUME TypeInv, NEW s \in Request, Written(s, req[s]),
         req'[s].pc = req[s].pc, req'[s].op = req[s].op, req'[s].lead = req[s].lead,
         req'[s].args = req[s].args, req'[s].local.todo = req[s].local.todo,
         req'[s].local.answer = req[s].local.answer,
         \A l \in Lead :
            /\ msgs[<<s, l>>] = NULL <=> msgs'[<<s, l>>] = NULL
            /\ msgs[<<s, l>>] # NULL => msgs'[<<s, l>>].sid = msgs[<<s, l>>].sid
            /\ carrier[<<s, l>>] = NULL <=> carrier'[<<s, l>>] = NULL
  PROVE  Written(s, req[s])'
<1>. DEFINE q == req[s]
<1>1. Flow(q)' = Flow(q)
  BY DEF Flow
<1>2. \A l \in Lead : Fresh(s, l) => Fresh(s, l)'
  BY DEF Fresh
<1>3. q.local.todo \subseteq Lead /\ (q.pc \in Working \cup {"find"} => q.lead \in Lead)
  BY LeadTypes
<1>4. q.pc \in {"save", "store"} /\ Given(s, q) => Given(s, q)'
  BY <1>3 DEF Given, Working
<1>5. Located(s)
  BY DEF TypeInv
<1>6. (q.pc = "send" /\ Flow(q) = "sms") \/ q.pc = "store" => msgs[<<s, q.lead>>] # NULL
  BY <1>5 DEF Located, Saved
<1>7. CASE q.pc \in Waiting
  BY <1>2, <1>3, <1>7 DEF Written, Waiting, Working
<1>8. CASE q.pc \in {"find", "thread"}
  BY <1>2, <1>3, <1>8 DEF Written, Waiting, Working
<1>9. CASE q.pc \in {"save", "send", "store"}
  BY <1>1, <1>2, <1>3, <1>4, <1>6, <1>9 DEF Written, Waiting, Working
<1>10. CASE q.pc \notin Waiting \cup {"find", "thread", "save", "send", "store"}
  BY <1>2, <1>3, <1>10 DEF Written, Waiting, Working
<1>. QED  BY <1>7, <1>8, <1>9, <1>10

\* A step of one request concerns its own rows and texts.
LEMMA OthersWritten ==
  ASSUME TypeInv, WriteInv, NEW s \in Request,
         req'[s].pc = req[s].pc, req'[s].op = req[s].op, req'[s].lead = req[s].lead,
         req'[s].args = req[s].args, req'[s].local.todo = req[s].local.todo,
         req'[s].local.answer = req[s].local.answer,
         \A l \in Lead : msgs'[<<s, l>>] = msgs[<<s, l>>] /\ carrier'[<<s, l>>] = carrier[<<s, l>>]
  PROVE  Written(s, req[s])' /\ \A l \in Lead : HasRow(s, l)'
<1>1. Written(s, req[s])'
  BY StaysWritten DEF WriteInv
<1>2. Flow(req[s])' = Flow(req[s])
  BY DEF Flow
<1>3. ASSUME NEW l \in Lead PROVE HasRow(s, l)'
  BY <1>2 DEF WriteInv, HasRow
<1>. QED  BY <1>1, <1>3

\* A request that is not about to write a row, and does not send, leaves the
\* texts to be told by the rows.
LEMMA QuietWritten ==
  ASSUME TypeInv, WriteInv, NEW r \in Request, UNCHANGED <<msgs, carrier>>,
         \A s \in Request : s # r => req'[s] = req[s],
         req[r].pc # "save", Written(r, req[r])'
  PROVE  WriteInv'
<1>1. ASSUME NEW s \in Request, s # r
      PROVE  Written(s, req[s])' /\ \A l \in Lead : HasRow(s, l)'
  BY <1>1, OthersWritten
<1>2. \A l \in Lead : HasRow(r, l)'
  BY DEF WriteInv, HasRow
<1>3. Heard'
  BY DEF WriteInv, Heard
<1>. QED  BY <1>1, <1>2, <1>3 DEF WriteInv

LEMMA StartWritten ==
  ASSUME TypeInv, WriteInv, NEW r \in Request, Start(r)
  PROVE  WriteInv'
<1>1. /\ req[r].pc = "idle" /\ req'[r].local = Blank
      /\ req'[r].pc \in {"find", "leads", "match"}
      /\ req'[r].pc = "find" => req'[r].lead \in Lead
      /\ \A s \in Request : s # r => req'[s] = req[s]
      /\ UNCHANGED <<msgs, carrier>>
  BY BeginEffect
<1>2. \A l \in Lead : Fresh(r, l)
  BY <1>1 DEF WriteInv, Written, Waiting
<1>3. \A l \in Lead : Fresh(r, l)'
  BY <1>1, <1>2 DEF Fresh
<1>4. req'[r].local.todo = {} /\ req'[r].local.answer = NULL
  BY <1>1 DEF Blank
<1>5. Written(r, req[r])'
  BY <1>1, <1>3, <1>4 DEF Written, Waiting
<1>. QED  BY <1>1, <1>5, QuietWritten

LEMMA LookWritten ==
  ASSUME TypeInv, WriteInv, NEW r \in Request,
         FindLeads(r) \/ FindLead(r) \/ GetThread(r) \/ Fault(r)
  PROVE  WriteInv'
<1>. DEFINE q == req[r]
<1>1. UNCHANGED <<msgs, carrier>> /\ \A s \in Request : s # r => req'[s] = req[s]
  BY LookEffect
<1>2. CASE req' = req
  <2>1. ASSUME NEW s \in Request
        PROVE  Written(s, req[s])' /\ \A l \in Lead : HasRow(s, l)'
    BY <1>1, <1>2, OthersWritten
  <2>. QED  BY <1>1, <2>1 DEF WriteInv, Heard
<1>3. CASE req' # req
  <2>1. /\ req'[r].op = q.op /\ req'[r].args = q.args /\ req'[r].lead = q.lead
        /\ req'[r].local.answer = q.local.answer
        /\ \/ /\ q.pc = "leads" /\ req'[r].pc = "next"
              /\ req'[r].local.todo = {l \in q.args.leads : leads[l] # NULL}
           \/ /\ req'[r].local.todo = q.local.todo
              /\ \/ q.pc = "find" /\ req'[r].pc = "thread"
                 \/ q.pc = "thread" /\ req'[r].pc = AfterThread(q)
    BY <1>3, LookEffect
  <2>2. Written(r, q)
    BY DEF WriteInv
  <2>3. CASE q.pc = "leads"
    <3>1. q.args.leads \subseteq Lead
      BY DEF TypeInv, TypeOK, RequestState, Args
    <3>2. req'[r].pc = "next" /\ req'[r].local.todo \subseteq Lead
      BY <2>1, <2>3, <3>1
    <3>3. \A l \in req'[r].local.todo : Fresh(r, l)'
      BY <1>1, <2>2, <2>3, <3>2 DEF Written, Waiting, Fresh
    <3>4. Written(r, req[r])'
      BY <3>2, <3>3 DEF Written, Waiting, Working
    <3>. QED  BY <1>1, <2>3, <3>4, QuietWritten
  <2>4. CASE q.pc \in {"find", "thread"}
    <3>1. /\ q.lead \in Lead /\ Fresh(r, q.lead) /\ q.local.answer = NULL
          /\ q.lead \notin q.local.todo /\ \A l \in q.local.todo : Fresh(r, l)
      BY <2>2, <2>4, LeadTypes DEF Written, Working
    <3>2. /\ req'[r].local.todo = q.local.todo /\ req'[r].lead = q.lead
          /\ req'[r].local.answer = NULL
      BY <2>1, <2>4, <3>1
    <3>3. Fresh(r, req[r].lead)' /\ \A l \in req'[r].local.todo : Fresh(r, l)'
      <4>1. Fresh(r, req[r].lead)'
        BY <1>1, <3>1, <3>2 DEF Fresh
      <4>2. \A l \in req'[r].local.todo : Fresh(r, l)'
        BY <1>1, <3>1, <3>2 DEF Fresh
      <4>. QED  BY <4>1, <4>2
    <3>4. /\ req'[r].pc \in {"thread", "send", "save"}
          /\ req'[r].pc = "send" => Flow(q) # "sms"
      BY <2>1, <2>4 DEF AfterThread
    <3>5. Flow(req[r])' = Flow(q)
      BY <2>1 DEF Flow
    <3>6. Given(r, req[r])'
      BY <3>2 DEF Given
    <3>7. Written(r, req[r])'
      BY <3>1, <3>2, <3>3, <3>4, <3>5, <3>6 DEF Written, Waiting, Working, Fresh
    <3>. QED  BY <1>1, <2>4, <3>7, QuietWritten
  <2>. QED  BY <2>1, <2>3, <2>4
<1>. QED  BY <1>2, <1>3

LEMMA TakeWritten ==
  ASSUME TypeInv, WriteInv, NEW r \in Request, NextLead(r) \/ MatchLead(r) \/ NewLead(r)
  PROVE  WriteInv'
<1>. DEFINE q == req[r]
<1>1. UNCHANGED <<msgs, carrier>> /\ \A s \in Request : s # r => req'[s] = req[s]
  BY TakeEffect
<1>2. Written(r, q) /\ q.local.todo \subseteq Lead
  BY LeadTypes DEF WriteInv
<1>3. \A l \in Lead : Fresh(r, l) => Fresh(r, l)'
  BY <1>1 DEF Fresh
<1>4. q.pc \in {"next", "match", "newlead"}
  BY TakeEffect
<1>5. CASE NextLead(r)
  <2>1. q.pc = "next"
    BY <1>5 DEF NextLead, At
  <2>2. \/ /\ q.local.todo = {} /\ req'[r].pc = "end" /\ req'[r].local.todo = {}
        \/ \E l \in Lead :
             /\ l \in q.local.todo /\ req'[r].local.todo = q.local.todo \ {l}
             /\ req'[r].local.answer = NULL
             /\ \/ req'[r].pc = "next"
                \/ req'[r].pc = "find" /\ req'[r].lead = l
    BY <2>1, TakeEffect
  <2>3. \A l \in q.local.todo : Fresh(r, l)'
    BY <1>2, <1>3 DEF Written
  <2>4. CASE req'[r].pc \in {"end", "next"}
    <3>1. \A l \in req'[r].local.todo : Fresh(r, l)'
      BY <2>2, <2>3
    <3>. QED  BY <1>1, <1>4, <2>4, <3>1, QuietWritten DEF Written, Waiting, Working
  <2>5. CASE req'[r].pc = "find"
    <3>1. PICK l \in Lead : /\ l \in q.local.todo /\ req'[r].local.todo = q.local.todo \ {l}
                            /\ req'[r].local.answer = NULL /\ req'[r].lead = l
      BY <2>2, <2>5
    <3>2. Fresh(r, req[r].lead)' /\ \A n \in req'[r].local.todo : Fresh(r, n)'
      <4>1. Fresh(r, l)'
        BY <2>3, <3>1
      <4>. QED  BY <2>3, <3>1, <4>1 DEF Fresh
    <3>3. Written(r, req[r])'
      BY <2>5, <3>1, <3>2 DEF Written, Waiting, Working
    <3>. QED  BY <1>1, <1>4, <3>3, QuietWritten
  <2>. QED  BY <2>2, <2>4, <2>5
<1>6. CASE MatchLead(r) \/ NewLead(r)
  <2>1. q.pc \in {"match", "newlead"}
    BY <1>6 DEF MatchLead, NewLead, At
  <2>2. /\ req'[r].local = q.local
        /\ \/ req'[r].pc = "newlead" /\ req'[r].lead = NULL
           \/ req'[r].pc = "thread" /\ req'[r].lead \in Lead
    BY <2>1, TakeEffect
  <2>3. q.local.answer = NULL /\ (\A l \in Lead : Fresh(r, l)) /\ q.local.todo = {}
    BY <1>2, <2>1 DEF Written, Waiting
  <2>4. req'[r].local.answer = NULL /\ req'[r].local.todo = {}
    BY <2>2, <2>3
  <2>5. \A l \in Lead : Fresh(r, l)'
    BY <1>3, <2>3
  <2>6. Written(r, req[r])'
    <3>1. CASE req'[r].pc = "newlead"
      BY <2>4, <2>5, <3>1 DEF Written, Waiting, Working
    <3>2. CASE req'[r].pc = "thread" /\ req'[r].lead \in Lead
      <4>1. Fresh(r, req[r].lead)'
        <5>1. PICK l \in Lead : req'[r].lead = l
          BY <3>2
        <5>2. Fresh(r, l)'
          BY <2>5
        <5>. QED  BY <5>1, <5>2 DEF Fresh
      <4>. QED  BY <2>4, <3>2, <4>1 DEF Written, Waiting, Working
    <3>. QED  BY <2>2, <3>1, <3>2
  <2>. QED  BY <1>1, <2>1, <2>6, QuietWritten
<1>. QED  BY <1>5, <1>6

LEMMA LateWritten ==
  ASSUME TypeInv, WriteInv, NEW r \in Request,
         \/ EmitEvent(r) \/ WriteAudit(r) \/ TouchLead(r) \/ CountEvidence(r)
         \/ PersistScore(r) \/ ReadSummary(r)
  PROVE  WriteInv'
<1>1. /\ UNCHANGED <<msgs, carrier>> /\ \A s \in Request : s # r => req'[s] = req[s]
      /\ req[r].pc \in Late /\ req'[r].pc \in Late \cup {"next", "end"}
      /\ req'[r].lead = req[r].lead /\ req'[r].local.todo = req[r].local.todo
      /\ req'[r].pc \in Late => req'[r].pc # "emit"
  BY LateEffect DEF Late
<1>2. Written(r, req[r]) /\ req[r].local.todo \subseteq Lead
  BY LeadTypes DEF WriteInv
<1>3. \A l \in req'[r].local.todo : Fresh(r, l)'
  BY <1>1, <1>2 DEF Written, Fresh
<1>4. req'[r].lead \notin req'[r].local.todo
  BY <1>1, <1>2 DEF Written, Late, Working
<1>5. Written(r, req[r])'
  BY <1>1, <1>3, <1>4 DEF Written, Late, Waiting, Working
<1>6. req[r].pc # "save"
  BY <1>1 DEF Late
<1>. QED  BY <1>1, <1>5, <1>6, QuietWritten

LEMMA SaveWritten ==
  ASSUME TypeInv, WriteInv, NEW r \in Request, SaveMessage(r)
  PROVE  WriteInv'
<1>. DEFINE q == req[r]
            row == SavedRow(q)
<1>1. /\ q.pc = "save" /\ row \in MessageRow /\ row # NULL
      /\ msgs' = [msgs EXCEPT ![Current(r)] = row] /\ carrier' = carrier
      /\ req'[r].pc = (IF Flow(q) = "sms" THEN "send" ELSE "emit")
      /\ req'[r].op = q.op /\ req'[r].lead = q.lead /\ req'[r].args = q.args
      /\ req'[r].local = q.local
      /\ \A s \in Request : s # r =>
           /\ req'[s].pc = req[s].pc /\ req'[s].op = req[s].op
           /\ req'[s].lead = req[s].lead /\ req'[s].args = req[s].args
           /\ req'[s].local.todo = req[s].local.todo
           /\ req'[s].local.answer = req[s].local.answer
  BY SaveEffect
<1>2. q.lead \in Lead /\ Current(r) = <<r, q.lead>> /\ Current(r) \in Message
        /\ q.local.todo \subseteq Lead
  BY <1>1, AtWork, LeadTypes DEF Working
<1>3. Written(r, q)
  BY DEF WriteInv
<1>4. /\ row.sid => q.local.answer # NULL /\ q.local.answer.sid
      /\ row.status = FirstStatus(q)
  BY DEF SavedRow
<1>. HIDE DEF row
<1>5. /\ msgs'[<<r, q.lead>>] = row
      /\ \A m \in Message : m # <<r, q.lead>> => msgs'[m] = msgs[m]
  BY <1>1, <1>2 DEF TypeInv, TypeOK
<1>6. row.sid => Flow(q) = "message" /\ row.status = "SENT" /\ carrier[<<r, q.lead>>] # NULL
  BY <1>1, <1>3, <1>4 DEF Written, Given, FirstStatus
<1>7. ASSUME NEW s \in Request, s # r
      PROVE  Written(s, req[s])' /\ \A l \in Lead : HasRow(s, l)'
  <2>1. \A l \in Lead : msgs'[<<s, l>>] = msgs[<<s, l>>] /\ carrier'[<<s, l>>] = carrier[<<s, l>>]
    BY <1>1, <1>5, <1>7 DEF Message
  <2>. QED  BY <1>1, <1>7, <2>1, OthersWritten
<1>8. Written(r, req[r])'
  <2>1. \A l \in req'[r].local.todo : Fresh(r, l)'
    <3>1. ASSUME NEW l \in q.local.todo PROVE Fresh(r, l)'
      <4>1. l \in Lead /\ l # q.lead /\ Fresh(r, l)
        BY <1>1, <1>2, <1>3 DEF Written, Working
      <4>2. msgs'[<<r, l>>] = msgs[<<r, l>>]
        BY <1>5, <4>1 DEF Message
      <4>. QED  BY <1>1, <4>1, <4>2 DEF Fresh
    <3>. QED  BY <1>1, <3>1
  <2>2. req'[r].lead \notin req'[r].local.todo
    BY <1>1, <1>3 DEF Written, Working
  <2>3. Flow(req[r])' = Flow(q)
    BY <1>1 DEF Flow
  <2>4. CASE Flow(q) = "sms"
    <3>1. carrier'[<<r, req'[r].lead>>] = NULL /\ ~msgs'[<<r, req'[r].lead>>].sid
      BY <1>1, <1>3, <1>5, <1>6, <2>4 DEF Written
    <3>. QED  BY <1>1, <2>1, <2>2, <2>3, <2>4, <3>1 DEF Written, Waiting, Working
  <2>5. CASE Flow(q) # "sms"
    BY <1>1, <2>1, <2>2, <2>5 DEF Written, Waiting, Working
  <2>. QED  BY <2>4, <2>5
<1>9. ASSUME NEW l \in Lead PROVE HasRow(r, l)'
  <2>1. CASE l = q.lead
    BY <1>1, <1>5, <2>1 DEF HasRow
  <2>2. CASE l # q.lead
    <3>1. msgs'[<<r, l>>] = msgs[<<r, l>>]
      BY <1>5, <2>2 DEF Message
    <3>. QED  BY <1>1, <2>2, <3>1 DEF HasRow, WriteInv
  <2>. QED  BY <2>1, <2>2
<1>10. Heard'
  BY <1>1, <1>5, <1>6 DEF Heard, WriteInv
<1>. QED  BY <1>7, <1>8, <1>9, <1>10 DEF WriteInv

LEMMA SendWritten ==
  ASSUME TypeInv, WriteInv, NEW r \in Request, Send(r)
  PROVE  WriteInv'
<1>. DEFINE q == req[r]
            m == <<r, q.lead>>
<1>1. /\ q.pc = "send" /\ Flow(q) \in {"sms", "message"} /\ msgs' = msgs
      /\ req'[r].local.answer.sid => req'[r].local.answer.status = "SENT" /\ carrier'[m] # NULL
      /\ carrier'[m] \in {carrier[m], "accepted"}
      /\ \A n \in Message : n # m => carrier'[n] = carrier[n]
      /\ req'[r].pc = (IF Flow(q) = "sms" THEN "store" ELSE "save")
      /\ req'[r].op = q.op /\ req'[r].lead = q.lead /\ req'[r].args = q.args
      /\ req'[r].local.todo = q.local.todo
      /\ \A s \in Request : s # r => req'[s] = req[s]
  BY SendEffect DEF Current
<1>2. q.lead \in Lead /\ m \in Message /\ q.local.todo \subseteq Lead
  BY <1>1, LeadTypes DEF Working
<1>3. Written(r, q) /\ Located(r)
  BY DEF WriteInv, TypeInv
<1>4. carrier[m] = NULL /\ (Flow(q) = "sms" => msgs[m] # NULL /\ ~msgs[m].sid)
        /\ (Flow(q) = "message" => msgs[m] = NULL)
  BY <1>1, <1>3 DEF Written, Located, Saved
<1>5. ASSUME NEW s \in Request, s # r
      PROVE  Written(s, req[s])' /\ \A l \in Lead : HasRow(s, l)'
  <2>1. \A l \in Lead : msgs'[<<s, l>>] = msgs[<<s, l>>] /\ carrier'[<<s, l>>] = carrier[<<s, l>>]
    BY <1>1, <1>5 DEF Message
  <2>. QED  BY <1>1, <1>5, <2>1, OthersWritten
<1>6. Flow(req[r])' = Flow(q)
  BY <1>1 DEF Flow
<1>7. Written(r, req[r])'
  <2>1. \A l \in req'[r].local.todo : Fresh(r, l)'
    <3>1. ASSUME NEW l \in q.local.todo PROVE Fresh(r, l)'
      <4>1. l \in Lead /\ l # q.lead /\ Fresh(r, l)
        BY <1>1, <1>2, <1>3 DEF Written, Working
      <4>2. carrier'[<<r, l>>] = carrier[<<r, l>>]
        BY <1>1, <4>1 DEF Message
      <4>. QED  BY <1>1, <4>1, <4>2 DEF Fresh
    <3>. QED  BY <1>1, <3>1
  <2>2. req'[r].lead \notin req'[r].local.todo
    BY <1>1, <1>3 DEF Written, Working
  <2>3. Given(r, req[r])'
    BY <1>1 DEF Given
  <2>4. CASE Flow(q) = "sms"
    <3>1. ~msgs'[<<r, req'[r].lead>>].sid
      BY <1>1, <1>4, <2>4
    <3>. QED  BY <1>1, <2>1, <2>2, <2>3, <2>4, <3>1 DEF Written, Waiting, Working
  <2>5. CASE Flow(q) = "message"
    <3>1. msgs'[<<r, req'[r].lead>>] = NULL
      BY <1>1, <1>4, <2>5
    <3>. QED  BY <1>1, <1>6, <2>1, <2>2, <2>3, <2>5, <3>1 DEF Written, Waiting, Working
  <2>. QED  BY <1>1, <2>4, <2>5
<1>8. ASSUME NEW l \in Lead PROVE HasRow(r, l)'
  <2>1. CASE l = q.lead
    BY <1>1, <1>4, <1>6, <2>1 DEF HasRow
  <2>2. CASE l # q.lead
    <3>1. carrier'[<<r, l>>] = carrier[<<r, l>>]
      BY <1>1, <2>2 DEF Message
    <3>. QED  BY <1>1, <2>2, <3>1 DEF HasRow, WriteInv
  <2>. QED  BY <2>1, <2>2
<1>9. Heard'
  <2>1. ASSUME NEW n \in Message, msgs[n] # NULL, msgs[n].sid PROVE carrier'[n] = carrier[n]
    BY <1>1, <1>4, <2>1
  <2>. QED  BY <1>1, <2>1 DEF Heard, WriteInv
<1>. QED  BY <1>5, <1>7, <1>8, <1>9 DEF WriteInv

LEMMA StoreWritten ==
  ASSUME TypeInv, WriteInv, NEW r \in Request, StoreAnswer(r)
  PROVE  WriteInv'
<1>. DEFINE q == req[r]
            m == <<r, q.lead>>
<1>1. /\ q.pc = "store" /\ q.local.answer \in Answer /\ m \in Message
      /\ msgs[m] # NULL /\ msgs'[m] # NULL
      /\ msgs'[m].status = q.local.answer.status /\ msgs'[m].sid = q.local.answer.sid
      /\ \A n \in Message : n # m => msgs'[n] = msgs[n]
      /\ Goto(r, "emit") /\ carrier' = carrier
  BY StoreEffect DEF Current
<1>2. /\ req'[r].pc = "emit" /\ req'[r].lead = q.lead /\ req'[r].local = q.local
      /\ \A s \in Request : s # r => req'[s] = req[s]
  BY <1>1, GotoEffect
<1>3. Written(r, q) /\ q.lead \in Lead /\ q.local.todo \subseteq Lead
  BY <1>1, LeadTypes DEF WriteInv, Working
<1>4. msgs'[m].sid => msgs'[m].status = "SENT" /\ carrier[m] # NULL
  BY <1>1, <1>3, MessagingAssumption DEF Written, Given
<1>5. ASSUME NEW s \in Request, s # r
      PROVE  Written(s, req[s])' /\ \A l \in Lead : HasRow(s, l)'
  <2>1. \A l \in Lead : msgs'[<<s, l>>] = msgs[<<s, l>>] /\ carrier'[<<s, l>>] = carrier[<<s, l>>]
    BY <1>1, <1>5 DEF Message
  <2>. QED  BY <1>2, <1>5, <2>1, OthersWritten
<1>6. Written(r, req[r])'
  <2>1. ASSUME NEW l \in q.local.todo PROVE Fresh(r, l)'
    <3>1. l \in Lead /\ l # q.lead /\ Fresh(r, l)
      BY <1>1, <1>3 DEF Written, Working
    <3>2. msgs'[<<r, l>>] = msgs[<<r, l>>]
      BY <1>1, <3>1 DEF Message
    <3>. QED  BY <1>1, <3>1, <3>2 DEF Fresh
  <2>2. q.lead \notin q.local.todo
    BY <1>1, <1>3 DEF Written, Working
  <2>3. (\A l \in req'[r].local.todo : Fresh(r, l)') /\ req'[r].lead \notin req'[r].local.todo
    BY <1>2, <2>1, <2>2
  <2>. QED  BY <1>2, <2>3 DEF Written, Waiting, Working
<1>7. ASSUME NEW l \in Lead PROVE HasRow(r, l)'
  <2>1. msgs[<<r, l>>] # NULL => msgs'[<<r, l>>] # NULL
    BY <1>1 DEF Message
  <2>. QED  BY <1>1, <2>1 DEF HasRow, WriteInv
<1>8. Heard'
  BY <1>1, <1>4 DEF Heard, WriteInv
<1>. QED  BY <1>5, <1>6, <1>7, <1>8 DEF WriteInv

LEMMA CarrierWritten ==
  ASSUME TypeInv, WriteInv, NEW m \in Message, Carrier(m)
  PROVE  WriteInv'
<1>1. CASE CarrierMoves(m)
  <2>1. PICK s \in CarrierStatus :
          /\ carrier[m] # NULL /\ <<carrier[m], s>> \in CarrierSteps
          /\ carrier' = [carrier EXCEPT ![m] = s] /\ UNCHANGED <<msgs, req>>
    BY <1>1 DEF CarrierMoves
  <2>2. s # NULL
    BY MessagingAssumption
  <2>3. /\ carrier'[m] = s /\ \A n \in Message : n # m => carrier'[n] = carrier[n]
        /\ \A n \in Message : carrier'[n] = NULL <=> carrier[n] = NULL
    BY <2>1, <2>2 DEF TypeInv, TypeOK
  <2>4. \A r \in Request : Written(r, req[r])'
    BY <2>1, <2>3, LeadTypes, StaysWritten DEF WriteInv
  <2>5. \A r \in Request, l \in Lead : HasRow(r, l)'
    BY <2>1, <2>3 DEF WriteInv, HasRow, Message
  <2>6. carrier[m] \in {"accepted", "sent"}
    BY <2>1 DEF CarrierSteps
  <2>7. Heard'
    BY <2>1, <2>2, <2>3, <2>6 DEF WriteInv, Heard
  <2>. QED  BY <2>4, <2>5, <2>7 DEF WriteInv
<1>2. ASSUME NEW s \in CarrierStatus, HandleStatus(m, s) PROVE WriteInv'
  <2>1. /\ UNCHANGED <<carrier, req>>
        /\ \A n \in Message : n # m => msgs'[n] = msgs[n]
        /\ \A n \in Message : msgs[n] # NULL <=> msgs'[n] # NULL
        /\ msgs[m] = NULL \/ ~msgs[m].sid => msgs'[m] = msgs[m]
        /\ msgs[m] # NULL => /\ msgs'[m].sid = msgs[m].sid
                             /\ msgs[m].sid => msgs'[m].status = Normalized(s)
    BY <1>2, ReportEffect
  <2>2. ASSUME NEW r \in Request PROVE Written(r, req[r])'
    <3>1. \A l \in Lead :
            /\ msgs[<<r, l>>] = NULL <=> msgs'[<<r, l>>] = NULL
            /\ msgs[<<r, l>>] # NULL => msgs'[<<r, l>>].sid = msgs[<<r, l>>].sid
            /\ carrier[<<r, l>>] = NULL <=> carrier'[<<r, l>>] = NULL
      BY <2>1, LeadTypes
    <3>. QED  BY <2>1, <3>1, StaysWritten DEF WriteInv
  <2>3. \A r \in Request, l \in Lead : HasRow(r, l)'
    BY <2>1 DEF WriteInv, HasRow, Message
  <2>4. carrier[m] \in CarrierStatus /\ s \in Reported[carrier[m]]
    BY <1>2 DEF HandleStatus, TypeInv, TypeOK
  <2>5. \/ Normalized(s) = "SENT" /\ carrier[m] # NULL
        \/ Normalized(s) = "DELIVERED" /\ carrier[m] \in {"delivered", "undelivered"}
        \/ Normalized(s) = "FAILED" /\ carrier[m] = "failed"
    <3>1. CASE s = "sent"
      BY <1>2, <3>1 DEF Normalized, HandleStatus
    <3>2. CASE s \in {"delivered", "undelivered"}
      BY <2>4, <3>2 DEF Normalized, Reported, CarrierStatus
    <3>3. CASE s = "failed"
      BY <2>4, <3>3 DEF Normalized, Reported, CarrierStatus
    <3>. QED  BY <2>4, <3>1, <3>2, <3>3 DEF Reported, CarrierStatus
  <2>6. ASSUME msgs'[m] # NULL, msgs'[m].sid
        PROVE  CASE msgs'[m].status = "SENT" -> carrier'[m] # NULL
                 [] msgs'[m].status = "DELIVERED" -> carrier'[m] \in {"delivered", "undelivered"}
                 [] msgs'[m].status = "FAILED" -> carrier'[m] = "failed"
                 [] OTHER -> FALSE
    <3>1. msgs'[m].status = Normalized(s) /\ carrier' = carrier
      BY <2>1, <2>6
    <3>. QED  BY <2>5, <3>1
  <2>7. ASSUME NEW n \in Message, n # m, msgs'[n] # NULL, msgs'[n].sid
        PROVE  CASE msgs'[n].status = "SENT" -> carrier'[n] # NULL
                 [] msgs'[n].status = "DELIVERED" -> carrier'[n] \in {"delivered", "undelivered"}
                 [] msgs'[n].status = "FAILED" -> carrier'[n] = "failed"
                 [] OTHER -> FALSE
    <3>1. msgs'[n] = msgs[n] /\ carrier' = carrier
      BY <2>1, <2>7
    <3>. QED  BY <2>7, <3>1 DEF WriteInv, Heard
  <2>8. Heard'
    BY <2>6, <2>7 DEF Heard
  <2>. QED  BY <2>2, <2>3, <2>8 DEF WriteInv
<1>. QED  BY <1>1, <1>2 DEF Carrier

LEMMA StaysTrue == Spec => []WriteInv
<1>1. Init => WriteInv
  <2>. SUFFICES ASSUME Init PROVE WriteInv
    OBVIOUS
  <2>1. \A r \in Request, l \in Lead : Fresh(r, l)
    BY DEF Init, Fresh, Message
  <2>2. \A r \in Request : Written(r, req[r])
    BY <2>1 DEF Init, Idle, Blank, Written, Waiting, Working
  <2>3. (\A r \in Request, l \in Lead : HasRow(r, l)) /\ Heard
    BY <2>1 DEF Init, HasRow, Fresh, Heard
  <2>. QED  BY <2>2, <2>3 DEF WriteInv
<1>2. TypeInv /\ WriteInv /\ [Next]_vars => WriteInv'
  <2>. SUFFICES ASSUME TypeInv, WriteInv, [Next]_vars PROVE WriteInv'
    OBVIOUS
  <2>1. CASE UNCHANGED vars
    <3>1. UNCHANGED <<req, msgs, carrier>>
      BY <2>1 DEF vars
    <3>2. ASSUME NEW s \in Request
          PROVE  Written(s, req[s])' /\ \A l \in Lead : HasRow(s, l)'
      BY <3>1, OthersWritten
    <3>. QED  BY <3>1, <3>2 DEF WriteInv, Heard
  <2>2. ASSUME NEW r \in Request, Step(r) PROVE WriteInv'
    BY <2>2, LookWritten, TakeWritten, LateWritten, SaveWritten, SendWritten, StoreWritten
       DEF Step
  <2>3. ASSUME NEW r \in Request, Fault(r) PROVE WriteInv'
    BY <2>3, LookWritten
  <2>. QED  BY <2>1, <2>2, <2>3, StartWritten, CarrierWritten DEF Next
<1>. QED  BY <1>1, <1>2, StaysTyped, PTL DEF Spec

\* updateMessageStatusByProviderMessageId: in whatever order reports come, a row
\* says DELIVERED only of a text that arrived and FAILED only of one that did not,
\* but for the report "undelivered", which the code reads as DELIVERED.
THEOREM StatusesUnlessMisread == Spec => []StatusUnlessMisread
<1>1. TypeInv /\ WriteInv => StatusUnlessMisread
  <2>. SUFFICES ASSUME TypeInv, WriteInv, NEW m \in Message, msgs[m] # NULL, msgs[m].sid
                PROVE  /\ msgs[m].status \in DOMAIN Warrant
                       /\ carrier[m] \in Warrant[msgs[m].status] \/ Misread(m)
    BY DEF StatusUnlessMisread
  <2>1. carrier[m] \in CarrierStatus \cup {NULL}
    BY DEF TypeInv, TypeOK
  <2>2. /\ DOMAIN Warrant = {"SENT", "DELIVERED", "FAILED"}
        /\ Warrant["SENT"] = CarrierStatus /\ Warrant["DELIVERED"] = {"delivered"}
        /\ Warrant["FAILED"] = {"failed", "undelivered"}
    BY DEF Warrant
  <2>3. \/ msgs[m].status = "SENT" /\ carrier[m] # NULL
        \/ msgs[m].status = "DELIVERED" /\ carrier[m] \in {"delivered", "undelivered"}
        \/ msgs[m].status = "FAILED" /\ carrier[m] = "failed"
    BY DEF WriteInv, Heard
  <2>. QED  BY <2>1, <2>2, <2>3 DEF Misread
<1>. QED  BY <1>1, StaysTyped, StaysTrue, PTL

\* sendLeadSms writes before it sends: no text of it is at the carrier without a
\* row, faults or not; one of sendMessage's is only until its row is written.
THEOREM TextsHaveRows == Spec => []TextHasRow
<1>1. WriteInv => TextHasRow
  BY DEF WriteInv, HasRow, TextHasRow
<1>. QED  BY <1>1, StaysTrue, PTL

-----------------------------------------------------------------------------
(***************************************************************************)
(* A handler that works on a score has touched the lead, which then was    *)
(* active just now for good; and the score it is about to store is that of *)
(* the rows there are, unless it has been overtaken.                       *)
(***************************************************************************)
Informed(r) ==
  LET q == req[r] IN
  /\ q.pc \in {"count", "persist"} => leads[q.lead].age = 0
  /\ q.pc = "persist" /\ ~q.local.outdated => q.local.score = ScoreOf(q.lead)

ScoreInv == ScoreFollowsMessages /\ \A r \in Request : Informed(r)

\* The evidence of a lead is what the rows written for it say.
LEMMA SameEvidence ==
  ASSUME NEW l,
         \A m \in Message : m[2] = l =>
            /\ msgs[m] # NULL <=> msgs'[m] # NULL
            /\ msgs[m] # NULL => /\ msgs'[m].channel = msgs[m].channel
                                 /\ msgs'[m].direction = msgs[m].direction
  PROVE  EvidenceOf(l)' = EvidenceOf(l)
<1>1. Of(l)' = Of(l)
  BY DEF Of
<1>2. \A m \in Of(l) : msgs'[m].channel = msgs[m].channel /\ msgs'[m].direction = msgs[m].direction
  BY DEF Of
<1>. DEFINE sent == {m \in Of(l) : /\ msgs[m].direction = "OUTBOUND"
                                   /\ msgs[m].channel \in {"SMS", "EMAIL"}}
            calls == {m \in Of(l) : msgs[m].channel = "CALL"}
            inbound == \E m \in Of(l) : msgs[m].direction = "INBOUND"
<1>3. sent' = sent /\ calls' = calls /\ inbound' = inbound
  BY <1>1, <1>2
<1>4. EvidenceOf(l) = [outbound |-> Cardinality(sent), inbound |-> inbound,
                       calls |-> Cardinality(calls),
                       showed |-> FALSE, upcoming |-> FALSE, noShow |-> FALSE]
  BY DEF EvidenceOf
<1>5. EvidenceOf(l)' = [outbound |-> Cardinality(sent'), inbound |-> inbound',
                        calls |-> Cardinality(calls'),
                        showed |-> FALSE, upcoming |-> FALSE, noShow |-> FALSE]
  BY DEF EvidenceOf
<1>. HIDE DEF sent, calls, inbound
<1>. QED  BY <1>3, <1>4, <1>5

\* As long as the evidence, the contact data and the age of l stay, so does its
\* score.
LEMMA SameScore ==
  ASSUME NEW l, EvidenceOf(l)' = EvidenceOf(l), leads'[l].age = leads[l].age,
         leads'[l].phone = leads[l].phone, leads'[l].email = leads[l].email
  PROVE  ScoreOf(l)' = ScoreOf(l)
BY DEF ScoreOf

\* A lead that nobody has written to is worth its contact data.
LEMMA FirstScoreIsScore ==
  ASSUME NEW c \in ContactData, NEW l, leads[l] = LeadRow(c, NoActivity, FirstScore(c)),
         \A m \in Message : msgs[m] = NULL
  PROVE  leads[l].score = ScoreOf(l)
<1>. DEFINE contact == [phone |-> c.phone # NULL, email |-> c.email,
                        first |-> FALSE, last |-> FALSE, vehicle |-> FALSE]
            lead == [status |-> "NEW", soldAt |-> FALSE, age |-> NoActivity,
                     contact |-> contact]
            none == [outbound |-> 0, inbound |-> FALSE, calls |-> 0,
                     showed |-> FALSE, upcoming |-> FALSE, noShow |-> FALSE]
<1>1. EvidenceOf(l) = none
  <2>1. Of(l) = {}
    BY DEF Of
  <2>2. {m \in Of(l) : /\ msgs[m].direction = "OUTBOUND"
                       /\ msgs[m].channel \in {"SMS", "EMAIL"}} = {}
          /\ {m \in Of(l) : msgs[m].channel = "CALL"} = {}
          /\ (\E m \in Of(l) : msgs[m].direction = "INBOUND") = FALSE
    BY <2>1
  <2>. QED  BY <2>2, FS_EmptySet DEF EvidenceOf
<1>2. ScoreOf(l) = Score(lead, EvidenceOf(l))
  BY DEF ScoreOf, LeadRow
<1>3. Contactability(contact) = Points(c.phone # NULL, 10) + Points(c.email, 10)
        /\ Contactability(contact) \in 0 .. 20
  <2>1. c.email \in BOOLEAN
    BY DEF ContactData
  <2>2. /\ contact.phone = (c.phone # NULL) /\ contact.email = c.email
        /\ contact.first = FALSE /\ contact.last = FALSE /\ contact.vehicle = FALSE
    OBVIOUS
  <2>. HIDE DEF contact
  <2>3. /\ Points(contact.phone, 10) = Points(c.phone # NULL, 10)
        /\ Points(contact.email, 10) = Points(c.email, 10)
        /\ Points(contact.first \/ contact.last, 3) = 0 /\ Points(contact.vehicle, 5) = 0
    BY <2>2 DEF Points
  <2>4. Points(c.phone # NULL, 10) \in {0, 10} /\ Points(c.email, 10) \in {0, 10}
    BY DEF Points
  <2>5. ~(contact.first /\ contact.last)
    BY <2>2
  <2>. QED  BY <2>3, <2>4, <2>5 DEF Contactability
<1>4. Engagement(none) = 0 /\ AppointmentPoints(none) = 0 /\ Penalty(none) = 0
  BY DEF Engagement, EngagementRaw, AppointmentPoints, Penalty, Points
<1>5. Freshness(NoActivity) = 0 /\ LEAD_STAGE_SCORES["NEW"] = 0
  BY NoActivityAssumption DEF Freshness, LEAD_STAGE_SCORES
<1>6. /\ lead.status = "NEW" /\ lead.soldAt = FALSE /\ lead.age = NoActivity
      /\ lead.contact = contact
  OBVIOUS
<1>. HIDE DEF lead, contact, none
<1>7. Unclamped(lead, none) = Contactability(contact)
  BY <1>3, <1>4, <1>5, <1>6 DEF Unclamped
<1>8. Score(lead, none) = Contactability(contact)
  BY <1>3, <1>6, <1>7 DEF Score, SoldForScore, Clamp, MAX_LEAD_SCORE, MIN_LEAD_SCORE
<1>9. leads[l].score = FirstScore(c)
  BY DEF LeadRow
<1>. QED  BY <1>1, <1>2, <1>3, <1>8, <1>9, FirstScoreValue

\* A step that leaves the rows, the leads and the scores about to be stored, and
\* lets nobody off who owes a score.
LEMMA KeepsScores ==
  ASSUME TypeInv, ScoreInv, NEW r \in Request,
         UNCHANGED <<leads, neglected>>,
         \A l \in Lead : EvidenceOf(l)' = EvidenceOf(l),
         \A s \in Request : s # r => req'[s] = req[s],
         \A l \in Lead : Owes(r, l) => Owes(r, l)',
         Informed(r)'
  PROVE  ScoreInv'
<1>1. \A l \in Lead : ScoreOf(l)' = ScoreOf(l)
  BY SameScore
<1>2. \A s \in Request, l \in Lead : Owes(s, l) => Owes(s, l)'
  BY DEF Owes
<1>3. ScoreFollowsMessages'
  BY <1>1, <1>2 DEF ScoreInv, ScoreFollowsMessages
<1>4. ASSUME NEW s \in Request, s # r PROVE Informed(s)'
  BY <1>1, <1>4, LeadTypes DEF ScoreInv, Informed, Working
<1>. QED  BY <1>3, <1>4 DEF ScoreInv

\* What has nothing to do with scores yet.
LEMMA EarlyScores ==
  ASSUME TypeInv, ScoreInv, NEW r \in Request,
         \/ Start(r) \/ FindLeads(r) \/ NextLead(r) \/ MatchLead(r) \/ FindLead(r)
         \/ GetThread(r) \/ Send(r) \/ StoreAnswer(r) \/ EmitEvent(r) \/ WriteAudit(r)
         \/ Fault(r)
  PROVE  ScoreInv'
<1>. DEFINE q == req[r]
<1>1. Located(r)
  BY DEF TypeInv
<1>2. CASE Start(r)
  <2>1. /\ q.pc = "idle" /\ req'[r].pc \in {"find", "leads", "match"}
        /\ UNCHANGED <<leads, msgs, neglected>>
        /\ \A s \in Request : s # r => req'[s] = req[s]
    BY <1>2, BeginEffect
  <2>2. \A l \in Lead : ~Owes(r, l)
    BY <1>1, <2>1, MessagingAssumption DEF Located, Placed, Waiting, Owes
  <2>. QED  BY <2>1, <2>2, KeepsScores, SameEvidence DEF Informed
<1>3. CASE FindLeads(r) \/ FindLead(r) \/ GetThread(r) \/ Fault(r)
  <2>1. /\ UNCHANGED <<leads, msgs, neglected>>
        /\ \A s \in Request : s # r => req'[s] = req[s]
    BY <1>3, LookEffect
  <2>2. CASE req' = req
    <3>1. \A l : EvidenceOf(l)' = EvidenceOf(l)
      BY <2>1, SameEvidence
    <3>2. ScoreOf(req[r].lead)' = ScoreOf(req[r].lead)
      BY <2>1, <2>2, <3>1 DEF ScoreOf
    <3>3. Informed(r)'
      BY <2>1, <2>2, <3>2 DEF Informed, ScoreInv
    <3>4. \A l \in Lead : Owes(r, l) => Owes(r, l)'
      BY <2>2 DEF Owes
    <3>. QED  BY <2>1, <3>1, <3>3, <3>4, KeepsScores
  <2>3. CASE req' # req
    <3>1. /\ q.pc \in {"leads", "find", "thread"} /\ req'[r].lead = q.lead
          /\ \/ q.pc = "leads" /\ req'[r].pc = "next"
             \/ q.pc # "leads" /\ req'[r].pc \in {"thread", "save", "send"}
      <4>1. AfterThread(q) \in {"save", "send"}
        BY DEF AfterThread
      <4>. QED  BY <1>3, <2>3, <4>1, LookEffect
    <3>2. q.pc = "leads" => \A l \in Lead : ~Owes(r, l)
      BY <1>1, MessagingAssumption DEF Located, Placed, Waiting, Owes
    <3>3. \A l \in Lead : Owes(r, l) => Owes(r, l)'
      BY <3>1, <3>2 DEF Owes
    <3>. QED  BY <2>1, <3>1, <3>3, KeepsScores, SameEvidence DEF Informed
  <2>. QED  BY <2>2, <2>3
<1>4. CASE NextLead(r) \/ MatchLead(r)
  <2>1. /\ UNCHANGED <<msgs, neglected>> /\ \A s \in Request : s # r => req'[s] = req[s]
        /\ q.pc \in {"next", "match", "newlead"}
        /\ req'[r].pc \in {"end", "next", "find", "newlead", "thread"}
    BY <1>4, TakeEffect
  <2>2. leads' = leads
    BY <1>4 DEF NextLead, MatchLead
  <2>3. \A l \in Lead : ~Owes(r, l)
    BY <1>1, <2>1, MessagingAssumption DEF Located, Placed, Waiting, Owes
  <2>. QED  BY <2>1, <2>2, <2>3, KeepsScores, SameEvidence DEF Informed
<1>5. CASE Send(r)
  <2>1. /\ q.pc = "send" /\ UNCHANGED <<leads, msgs, neglected>>
        /\ req'[r].pc \in {"store", "save"} /\ req'[r].lead = q.lead
        /\ \A s \in Request : s # r => req'[s] = req[s]
    BY <1>5, SendEffect
  <2>. QED  BY <2>1, KeepsScores, SameEvidence DEF Informed, Owes
<1>6. CASE StoreAnswer(r)
  <2>1. /\ q.pc = "store" /\ Goto(r, "emit") /\ UNCHANGED <<leads, neglected>>
        /\ \A m \in Message : /\ msgs[m] # NULL <=> msgs'[m] # NULL
                              /\ msgs[m] # NULL => /\ msgs'[m].channel = msgs[m].channel
                                                   /\ msgs'[m].direction = msgs[m].direction
    BY <1>6, StoreEffect
  <2>2. /\ req'[r].pc = "emit" /\ req'[r].lead = q.lead
        /\ \A s \in Request : s # r => req'[s] = req[s]
    BY <2>1, GotoEffect
  <2>3. \A l \in Lead : EvidenceOf(l)' = EvidenceOf(l)
    BY <2>1, SameEvidence
  <2>. QED  BY <2>1, <2>2, <2>3, KeepsScores DEF Informed, Owes
<1>7. CASE EmitEvent(r) \/ WriteAudit(r)
  <2>1. PICK pc \in {"audit", "touch"} : Goto(r, pc)
    BY <1>7 DEF EmitEvent, WriteAudit, AfterEvent
  <2>2. q.pc \in {"emit", "audit"} /\ UNCHANGED <<leads, msgs, neglected>>
    BY <1>7 DEF EmitEvent, WriteAudit, At
  <2>3. /\ req'[r].pc = pc /\ req'[r].lead = q.lead
        /\ \A s \in Request : s # r => req'[s] = req[s]
    BY <2>1, GotoEffect
  <2>. QED  BY <2>1, <2>2, <2>3, KeepsScores, SameEvidence DEF Informed, Owes
<1>. QED  BY <1>2, <1>3, <1>4, <1>5, <1>6, <1>7

\* A new lead is owed its score.
LEMMA NewLeadScores ==
  ASSUME TypeInv, ScoreInv, NEW r \in Request, NewLead(r)
  PROVE  ScoreInv'
<1>. DEFINE q == req[r]
<1>1. PICK l \in Lead : /\ leads[l] = NULL
                        /\ leads' = [leads EXCEPT ![l] = LeadRow([phone |-> q.args.phone,
                                                      email |-> FALSE], NoActivity, 0)]
                        /\ req' = [req EXCEPT ![r] = [@ EXCEPT !.lead = l, !.pc = "thread"]]
  BY DEF NewLead
<1>2. UNCHANGED <<msgs, neglected>> /\ q.pc = "newlead" /\ Located(r)
  BY DEF NewLead, At, TypeInv
<1>3. /\ req'[r].lead = l /\ req'[r].pc = "thread"
      /\ \A s \in Request : s # r => req'[s] = req[s]
  BY <1>1 DEF TypeInv, TypeOK, RequestState
<1>4. \A m \in Lead : m # l => leads'[m] = leads[m]
  BY <1>1 DEF TypeInv, TypeOK
<1>5. \A m : EvidenceOf(m)' = EvidenceOf(m)
  BY <1>2, SameEvidence
<1>6. \A m \in Lead : m # l => ScoreOf(m)' = ScoreOf(m)
  BY <1>4, <1>5, SameScore
<1>7. \A s \in Request, m \in Lead : Owes(s, m) => Owes(s, m)'
  BY <1>2, <1>3, MessagingAssumption DEF Owes, Located, Placed, Waiting
<1>8. Owes(r, l)'
  BY <1>3 DEF Owes
<1>9. ScoreFollowsMessages'
  <2>1. ASSUME NEW m \in Lead, leads'[m] # NULL
        PROVE  leads'[m].score = ScoreOf(m)' \/ m \in neglected' \/ \E s \in Request : Owes(s, m)'
    <3>1. CASE m = l
      BY <1>8, <3>1
    <3>2. CASE m # l
      BY <1>2, <1>4, <1>6, <1>7, <2>1, <3>2 DEF ScoreInv, ScoreFollowsMessages
    <3>. QED  BY <3>1, <3>2
  <2>. QED  BY <2>1 DEF ScoreFollowsMessages
<1>10. Informed(r)'
  BY <1>3 DEF Informed
<1>11. ASSUME NEW s \in Request, s # r PROVE Informed(s)'
  <2>1. req[s].pc \in {"count", "persist"} => req[s].lead \in Lead /\ req[s].lead # l
    BY <1>1, AtWork DEF Working
  <2>2. Informed(s) /\ req'[s] = req[s]
    BY <1>3, <1>11 DEF ScoreInv
  <2>. QED  BY <1>4, <1>6, <2>1, <2>2 DEF Informed
<1>. QED  BY <1>9, <1>10, <1>11 DEF ScoreInv

\* A row overtakes the scores that are about to be stored for its lead, and its
\* own handler owes one.
LEMMA SaveScores ==
  ASSUME TypeInv, ScoreInv, NEW r \in Request, SaveMessage(r)
  PROVE  ScoreInv'
<1>. DEFINE q == req[r]
<1>1. /\ q.pc = "save" /\ msgs' = [msgs EXCEPT ![Current(r)] = SavedRow(q)]
      /\ UNCHANGED <<leads, neglected>>
      /\ req'[r].pc \in {"send", "emit"} /\ req'[r].lead = q.lead
      /\ \A s \in Request : s # r =>
           /\ req'[s].pc = req[s].pc /\ req'[s].lead = req[s].lead
           /\ req'[s].local.score = req[s].local.score
           /\ req[s].local.outdated => req'[s].local.outdated
           /\ req[s].pc = "persist" /\ req[s].lead = q.lead => req'[s].local.outdated
  BY SaveEffect
<1>2. q.lead \in Lead /\ Current(r) = <<r, q.lead>>
  BY <1>1, AtWork DEF Working
<1>3. \A l \in Lead : l # q.lead => ScoreOf(l)' = ScoreOf(l)
  <2>1. ASSUME NEW l \in Lead, l # q.lead PROVE EvidenceOf(l)' = EvidenceOf(l)
    <3>1. \A m \in Message : m[2] = l => msgs'[m] = msgs[m]
      BY <1>1, <1>2, <2>1 DEF TypeInv, TypeOK
    <3>. QED  BY <3>1, SameEvidence
  <2>. QED  BY <1>1, <2>1, SameScore
<1>4. Owes(r, q.lead) /\ \A s \in Request, l \in Lead : Owes(s, l) => Owes(s, l)'
  BY <1>1 DEF Owes
<1>5. ScoreFollowsMessages'
  <2>1. ASSUME NEW l \in Lead, leads'[l] # NULL
        PROVE  leads'[l].score = ScoreOf(l)' \/ l \in neglected' \/ \E s \in Request : Owes(s, l)'
    <3>1. CASE l = q.lead
      BY <1>4, <3>1
    <3>2. CASE l # q.lead
      BY <1>1, <1>3, <1>4, <2>1, <3>2 DEF ScoreInv, ScoreFollowsMessages
    <3>. QED  BY <3>1, <3>2
  <2>. QED  BY <2>1 DEF ScoreFollowsMessages
<1>6. Informed(r)'
  BY <1>1 DEF Informed
<1>7. ASSUME NEW s \in Request, s # r PROVE Informed(s)'
  <2>1. req[s].pc \in {"count", "persist"} => req[s].lead \in Lead
    BY LeadTypes DEF Working
  <2>2. /\ Informed(s) /\ req'[s].pc = req[s].pc /\ req'[s].lead = req[s].lead
        /\ req'[s].local.score = req[s].local.score
        /\ req[s].local.outdated => req'[s].local.outdated
        /\ req[s].pc = "persist" /\ req[s].lead = q.lead => req'[s].local.outdated
    BY <1>1, <1>7 DEF ScoreInv
  <2>. QED  BY <1>1, <1>3, <2>1, <2>2 DEF Informed
<1>. QED  BY <1>5, <1>6, <1>7 DEF ScoreInv

LEMMA TouchScores ==
  ASSUME TypeInv, ScoreInv, NEW r \in Request, TouchLead(r)
  PROVE  ScoreInv'
<1>. DEFINE l == req[r].lead
<1>1. /\ req[r].pc = "touch" /\ l \in Lead /\ Goto(r, "count")
      /\ UNCHANGED <<msgs, neglected>>
      /\ leads'[l].age = 0
      /\ \A m \in Lead : m # l => leads'[m] = leads[m]
      /\ \A m \in Lead : leads[m] # NULL <=> leads'[m] # NULL
  BY TouchEffect
<1>2. leads' = [leads EXCEPT ![l].age = 0] /\ leads[l] \in LeadRecord
  BY <1>1, AtWork DEF TouchLead, Working
<1>3. leads'[l].phone = leads[l].phone /\ leads'[l].email = leads[l].email
  BY <1>1, <1>2 DEF TypeInv, TypeOK, LeadRecord
<1>4. /\ req'[r].pc = "count" /\ req'[r].lead = l
      /\ \A s \in Request : s # r => req'[s] = req[s]
  BY <1>1, GotoEffect
<1>5. \A m : EvidenceOf(m)' = EvidenceOf(m)
  BY <1>1, SameEvidence
<1>6. \A m \in Lead : m # l => ScoreOf(m)' = ScoreOf(m)
  BY <1>1, <1>5, SameScore
<1>7. Owes(r, req[r].lead)' /\ \A s \in Request, m \in Lead : Owes(s, m) => Owes(s, m)'
  BY <1>1, <1>4 DEF Owes
<1>8. ScoreFollowsMessages'
  <2>1. ASSUME NEW m \in Lead, leads'[m] # NULL
        PROVE  leads'[m].score = ScoreOf(m)' \/ m \in neglected' \/ \E s \in Request : Owes(s, m)'
    <3>1. CASE m = l
      <4>1. Owes(r, m)
        BY <1>1, <3>1 DEF Owes
      <4>. QED  BY <1>7, <4>1
    <3>2. CASE m # l
      BY <1>1, <1>6, <1>7, <2>1, <3>2 DEF ScoreInv, ScoreFollowsMessages
    <3>. QED  BY <3>1, <3>2
  <2>. QED  BY <2>1 DEF ScoreFollowsMessages
<1>9. Informed(r)'
  BY <1>1, <1>4 DEF Informed
<1>10. ASSUME NEW s \in Request, s # r PROVE Informed(s)'
  <2>1. req[s].pc \in {"count", "persist"} => req[s].lead \in Lead
    BY LeadTypes DEF Working
  <2>2. Informed(s) /\ req'[s] = req[s]
    BY <1>4, <1>10 DEF ScoreInv
  <2>3. CASE req[s].lead # l
    BY <1>1, <1>6, <2>1, <2>2, <2>3 DEF Informed
  <2>4. CASE req[s].lead = l /\ req[s].pc \in {"count", "persist"}
    <3>1. leads[l].age = 0
      BY <2>2, <2>4 DEF Informed
    <3>2. ScoreOf(req[s].lead)' = ScoreOf(req[s].lead)
      <4>1. ASSUME NEW m, m = l PROVE ScoreOf(m)' = ScoreOf(m)
        BY <1>1, <1>3, <1>5, <3>1, <4>1, SameScore
      <4>. QED  BY <2>2, <2>4, <4>1 DEF ScoreOf, EvidenceOf, Of
    <3>. QED  BY <1>1, <2>2, <2>4, <3>2 DEF Informed
  <2>. QED  BY <2>2, <2>3, <2>4 DEF Informed
<1>. QED  BY <1>8, <1>9, <1>10 DEF ScoreInv

LEMMA CountScores ==
  ASSUME TypeInv, ScoreInv, NEW r \in Request, CountEvidence(r) \/ ReadSummary(r)
  PROVE  ScoreInv'
<1>. DEFINE q == req[r]
<1>1. CASE CountEvidence(r)
  <2>. DEFINE local == [q.local EXCEPT !.score = ScoreOf(q.lead), !.outdated = FALSE]
  <2>1. q.pc = "count" /\ Resume(r, local, "persist")
          /\ UNCHANGED <<leads, threads, msgs, logs, carrier, failed, neglected>>
    BY <1>1 DEF CountEvidence, At
  <2>2. q.local \in Local
    BY <2>1, AtWork DEF Working
  <2>3. local.score = ScoreOf(q.lead)
    BY <2>2 DEF Local
  <2>. HIDE DEF local
  <2>4. /\ req'[r].pc = "persist" /\ req'[r].lead = q.lead /\ req'[r].local = local
        /\ \A s \in Request : s # r => req'[s] = req[s]
    BY <2>1, ResumeEffect
  <2>5. \A l : EvidenceOf(l)' = EvidenceOf(l)
    BY <2>1, SameEvidence
  <2>6. ScoreOf(req[r].lead)' = ScoreOf(q.lead)
    BY <2>1, <2>4, <2>5 DEF ScoreOf
  <2>7. leads[q.lead].age = 0
    BY <2>1 DEF ScoreInv, Informed
  <2>8. Informed(r)'
    BY <2>1, <2>3, <2>4, <2>6, <2>7 DEF Informed
  <2>. QED  BY <2>1, <2>4, <2>5, <2>8, KeepsScores DEF Owes
<1>2. CASE ReadSummary(r)
  <2>1. q.pc = "summary"
          /\ UNCHANGED <<leads, threads, msgs, logs, carrier, failed, neglected>>
    BY <1>2 DEF ReadSummary, At
  <2>2. /\ req'[r].pc \in {"next", "end"} /\ \A s \in Request : s # r => req'[s] = req[s]
    BY <1>2, <2>1, LateEffect
  <2>. QED  BY <2>1, <2>2, KeepsScores, SameEvidence DEF Owes, Informed
<1>. QED  BY <1>1, <1>2

\* The score that is stored is that of the rows, or the lead is neglected.
LEMMA PersistScores ==
  ASSUME TypeInv, ScoreInv, NEW r \in Request, PersistScore(r)
  PROVE  ScoreInv'
<1>. DEFINE q == req[r]
            l == req[r].lead
<1>1. /\ q.pc = "persist" /\ l \in Lead /\ leads[l] # NULL /\ msgs' = msgs
      /\ leads'[l].score = q.local.score /\ leads'[l].age = leads[l].age
      /\ leads'[l].phone = leads[l].phone /\ leads'[l].email = leads[l].email
      /\ \A m \in Lead : m # l => leads'[m] = leads[m]
  BY PersistEffect
<1>2. neglected' = IF q.local.outdated THEN neglected \cup {l} ELSE neglected \ {l}
  BY PersistEffect
<1>3. /\ req'[r].pc \in {"summary", "end"} /\ req'[r].lead = l
      /\ \A s \in Request : s # r => req'[s] = req[s]
  <2>1. req'[r].pc \in Late \ {"emit"} \/ req'[r].pc = "end"
    BY <1>1, LateEffect
  <2>2. Resume(r, [q.local EXCEPT !.score = 0, !.outdated = FALSE],
               IF q.op = "inbound" THEN "end" ELSE "summary")
    BY PersistEffect
  <2>3. req'[r].pc = IF q.op = "inbound" THEN "end" ELSE "summary"
    BY <2>2, ResumeEffect
  <2>. QED  BY <2>3, LateEffect
<1>4. \A m : EvidenceOf(m)' = EvidenceOf(m)
  BY <1>1, SameEvidence
<1>5. \A m \in Lead : ScoreOf(m)' = ScoreOf(m)
  <2>1. ASSUME NEW m \in Lead
        PROVE  /\ leads'[m].age = leads[m].age /\ leads'[m].phone = leads[m].phone
               /\ leads'[m].email = leads[m].email
    BY <1>1
  <2>. QED  BY <1>4, <2>1, SameScore
<1>6. \A s \in Request, m \in Lead : m # l /\ Owes(s, m) => Owes(s, m)'
  BY <1>3 DEF Owes
<1>7. l \in neglected' \/ q.local.score = ScoreOf(l)
  <2>1. CASE q.local.outdated
    BY <1>2, <2>1
  <2>2. CASE ~q.local.outdated
    <3>1. Informed(r) /\ q.pc = "persist"
      BY <1>1 DEF ScoreInv
    <3>. QED  BY <2>2, <3>1 DEF Informed
  <2>. QED  BY <2>1, <2>2
<1>8. ScoreFollowsMessages'
  <2>1. ASSUME NEW m \in Lead, leads'[m] # NULL
        PROVE  leads'[m].score = ScoreOf(m)' \/ m \in neglected' \/ \E s \in Request : Owes(s, m)'
    <3>1. CASE m = l
      <4>1. ScoreOf(m)' = ScoreOf(m)
        BY <1>5
      <4>. QED  BY <1>1, <1>7, <3>1, <4>1
    <3>2. CASE m # l
      <4>1. leads[m].score = ScoreOf(m) \/ m \in neglected \/ \E s \in Request : Owes(s, m)
        BY <1>1, <2>1, <3>2 DEF ScoreInv, ScoreFollowsMessages
      <4>2. m \in neglected => m \in neglected'
        BY <1>2, <3>2
      <4>. QED  BY <1>1, <1>5, <1>6, <3>2, <4>1, <4>2
    <3>. QED  BY <3>1, <3>2
  <2>. QED  BY <2>1 DEF ScoreFollowsMessages
<1>9. Informed(r)'
  BY <1>3 DEF Informed
<1>10. ASSUME NEW s \in Request, s # r PROVE Informed(s)'
  <2>1. req[s].pc \in {"count", "persist"} => req[s].lead \in Lead
    BY LeadTypes DEF Working
  <2>2. Informed(s) /\ req'[s] = req[s]
    BY <1>3, <1>10 DEF ScoreInv
  <2>3. req[s].pc \in {"count", "persist"} => leads'[req[s].lead].age = leads[req[s].lead].age
    BY <1>1, <2>1
  <2>. QED  BY <1>5, <2>1, <2>2, <2>3 DEF Informed
<1>. QED  BY <1>8, <1>9, <1>10 DEF ScoreInv

\* Nothing that is not a request touches the leads or what counts of the rows.
LEMMA CarrierScores ==
  ASSUME ScoreInv, UNCHANGED <<leads, req, neglected>>,
         \A m \in Message : /\ msgs[m] # NULL <=> msgs'[m] # NULL
                            /\ msgs[m] # NULL => /\ msgs'[m].channel = msgs[m].channel
                                                 /\ msgs'[m].direction = msgs[m].direction
  PROVE  ScoreInv'
<1>1. \A l : EvidenceOf(l)' = EvidenceOf(l)
  BY SameEvidence
<1>2. \A l : ScoreOf(l)' = ScoreOf(l)
  BY <1>1, SameScore
<1>3. ScoreFollowsMessages'
  BY <1>2 DEF ScoreInv, ScoreFollowsMessages, Owes
<1>4. \A s \in Request : Informed(s)'
  BY <1>2 DEF ScoreInv, Informed
<1>. QED  BY <1>3, <1>4 DEF ScoreInv

\* Every handler ends by rescoring the lead: the stored score is that of the
\* messages there are, unless somebody is not done with one of them, was cut
\* short between, or the last score stored was overtaken.
THEOREM ScoresFollow == Spec => []ScoreFollowsMessages
<1>1. Init => ScoreInv
  <2>. SUFFICES ASSUME Init PROVE ScoreInv
    OBVIOUS
  <2>1. PICK contact \in InitialLeads :
          leads = [l \in Lead |-> IF contact[l] = NULL THEN NULL
                       ELSE LeadRow(contact[l], NoActivity, FirstScore(contact[l]))]
    BY DEF Init
  <2>2. ASSUME NEW l \in Lead, leads[l] # NULL PROVE leads[l].score = ScoreOf(l)
    <3>1. contact[l] \in ContactData
            /\ leads[l] = LeadRow(contact[l], NoActivity, FirstScore(contact[l]))
      BY <2>1, <2>2, MessagingAssumption
    <3>. QED  BY <3>1, FirstScoreIsScore DEF Init
  <2>. QED  BY <2>2 DEF Init, Idle, ScoreInv, ScoreFollowsMessages, Informed
<1>2. TypeInv /\ ScoreInv /\ [Next]_vars => ScoreInv'
  <2>. SUFFICES ASSUME TypeInv, ScoreInv, [Next]_vars PROVE ScoreInv'
    OBVIOUS
  <2>1. CASE UNCHANGED vars
    BY <2>1, CarrierScores DEF vars
  <2>2. ASSUME NEW m \in Message, Carrier(m) PROVE ScoreInv'
    <3>1. CASE CarrierMoves(m)
      BY <3>1, CarrierScores DEF CarrierMoves
    <3>2. ASSUME NEW s \in CarrierStatus, HandleStatus(m, s) PROVE ScoreInv'
      <4>1. \A n \in Message : /\ msgs[n] # NULL <=> msgs'[n] # NULL
                               /\ msgs[n] # NULL => /\ msgs'[n].channel = msgs[n].channel
                                                    /\ msgs'[n].direction = msgs[n].direction
        BY <3>2, ReportEffect
      <4>. QED  BY <3>2, <4>1, CarrierScores DEF HandleStatus
    <3>. QED  BY <2>2, <3>1, <3>2 DEF Carrier
  <2>3. ASSUME NEW r \in Request, Step(r) PROVE ScoreInv'
    BY <2>3, EarlyScores, NewLeadScores, SaveScores, TouchScores, CountScores, PersistScores
       DEF Step
  <2>. QED  BY <2>1, <2>2, <2>3, EarlyScores DEF Next
<1>3. ScoreInv => ScoreFollowsMessages
  BY DEF ScoreInv
<1>. QED  BY <1>1, <1>2, <1>3, StaysTyped, PTL DEF Spec

-----------------------------------------------------------------------------
(***************************************************************************)
(* The accounts of a bulk send. A lead that was named is one of another    *)
(* dealership, or it is in the table: it is yet to come to, at work, has   *)
(* its row, or has no number. The count is that of the rows, but for the   *)
(* one that is at work, and the audit rows follow.                         *)
(***************************************************************************)
Pending(q) == IF q.pc \in Working \cup {"find"} THEN {q.lead} ELSE {}

Accounted(r, l) ==
  LET q == req[r] IN
  \/ l \in q.local.todo \/ l \in Reached(r) \/ l \in Foreign
  \/ leads[l] # NULL /\ leads[l].phone = NULL
  \/ l = q.lead /\ q.pc \in {"find", "thread", "save", "send"}

IsAudited(r, l) == \E a \in audit : a.msg = <<r, l>>

Accounts(r) ==
  LET q == req[r] IN
  q.op = "bulk" =>
    /\ \A l \in q.args.leads : leads[l] # NULL \/ l \in Foreign
    /\ \A l \in q.local.todo : leads[l] # NULL
    /\ q.pc # "leads" => \A l \in q.args.leads : Accounted(r, l)
    /\ q.pc = "end" => q.local.todo = {}
    /\ q.local.accepted = Cardinality(Reached(r) \ Pending(q))
    /\ q.pc \in Late => q.lead \in Reached(r)
    /\ \A l \in Reached(r) :
         IsAudited(r, l) \/ (l = q.lead /\ q.pc \in {"send", "store", "emit", "audit"})

AccountInv ==
  /\ \A l \in Foreign : leads[l] = NULL
  /\ \A r \in Request : Accounts(r)

\* Leads come, with their numbers for good, and none of another dealership.
LeadsGrow ==
  /\ \A l \in Lead : leads[l] # NULL => leads'[l] # NULL /\ leads'[l].phone = leads[l].phone
  /\ \A l \in Foreign : leads[l] = NULL => leads'[l] = NULL

LEMMA StepGrows ==
  ASSUME TypeInv, NEW r \in Request, Start(r) \/ Step(r) \/ Fault(r)
  PROVE  LeadsGrow
<1>. Foreign \subseteq Lead
  BY MessagingAssumption
<1>1. CASE Start(r)
  BY <1>1, BeginEffect DEF LeadsGrow
<1>2. CASE FindLeads(r) \/ FindLead(r) \/ GetThread(r) \/ Fault(r)
  BY <1>2, LookEffect DEF LeadsGrow
<1>3. CASE NextLead(r) \/ MatchLead(r)
  BY <1>3 DEF NextLead, MatchLead, LeadsGrow
<1>4. CASE NewLead(r)
  <2>1. PICK l \in Lead : /\ leads[l] = NULL /\ l \notin Foreign
                          /\ leads' = [leads EXCEPT ![l] =
                                LeadRow([phone |-> req[r].args.phone, email |-> FALSE],
                                        NoActivity, 0)]
    BY <1>4 DEF NewLead
  <2>2. \A m \in Lead : m # l => leads'[m] = leads[m]
    BY <2>1 DEF TypeInv, TypeOK
  <2>. QED  BY <2>1, <2>2 DEF LeadsGrow
<1>5. CASE SaveMessage(r)
  BY <1>5, SaveEffect DEF LeadsGrow
<1>6. CASE Send(r)
  BY <1>6, SendEffect DEF LeadsGrow
<1>7. CASE StoreAnswer(r)
  BY <1>7, StoreEffect DEF LeadsGrow
<1>8. CASE \/ EmitEvent(r) \/ WriteAudit(r) \/ TouchLead(r) \/ CountEvidence(r)
           \/ PersistScore(r) \/ ReadSummary(r)
  BY <1>8, LateEffect DEF LeadsGrow
<1>. QED  BY <1>1, <1>2, <1>3, <1>4, <1>5, <1>6, <1>7, <1>8 DEF Step

LEMMA StepAudits ==
  ASSUME NEW r \in Request, Start(r) \/ Step(r) \/ Fault(r)
  PROVE  audit \subseteq audit'
BY DEF Start, StartSms, StartMessage, StartCall, StartBulk, StartInbound, Begin, Step, Fault,
       Throw, FindLeads, NextLead, MatchLead, NewLead, FindLead, GetThread, SaveMessage, Send,
       StoreAnswer, EmitEvent, WriteAudit, TouchLead, CountEvidence, PersistScore,
       ReadSummary, logs

\* What is accounted for stays so, for whoever stays where it is.
LEMMA StaysAccounted ==
  ASSUME TypeInv, NEW s \in Request, Accounts(s), LeadsGrow, audit \subseteq audit',
         req'[s].pc = req[s].pc, req'[s].op = req[s].op, req'[s].lead = req[s].lead,
         req'[s].args = req[s].args, req'[s].local.todo = req[s].local.todo,
         req'[s].local.accepted = req[s].local.accepted,
         \A l \in Lead : msgs[<<s, l>>] # NULL <=> msgs'[<<s, l>>] # NULL
  PROVE  Accounts(s)'
<1>. SUFFICES ASSUME req[s].op = "bulk" PROVE Accounts(s)'
  BY DEF Accounts
<1>1. Reached(s)' = Reached(s)
  BY DEF Reached
<1>2. Pending(req[s])' = Pending(req[s])
  BY DEF Pending
<1>3. req[s].args.leads \subseteq Lead
  BY DEF TypeInv, TypeOK, RequestState, Args
<1>4. \A l \in Lead : Accounted(s, l) => Accounted(s, l)'
  BY <1>1 DEF Accounted, LeadsGrow
<1>5. \A l \in Lead : IsAudited(s, l) => IsAudited(s, l)'
  BY DEF IsAudited
<1>6. Reached(s) \subseteq Lead
  BY DEF Reached
<1>7. \A l \in req[s].args.leads : leads'[l] # NULL \/ l \in Foreign
  BY <1>3 DEF Accounts, LeadsGrow
<1>8. \A l \in req[s].local.todo : leads'[l] # NULL
  BY LeadTypes DEF Accounts, LeadsGrow
<1>9. req[s].pc # "leads" => \A l \in req[s].args.leads : Accounted(s, l)'
  BY <1>3, <1>4 DEF Accounts
<1>10. \A l \in Reached(s) :
        \/ IsAudited(s, l)'
        \/ l = req[s].lead /\ req[s].pc \in {"send", "store", "emit", "audit"}
  BY <1>5, <1>6 DEF Accounts
<1>. QED  BY <1>1, <1>2, <1>7, <1>8, <1>9, <1>10 DEF Accounts

\* A step of one request leaves the accounts of the others.
LEMMA MoveAccounts ==
  ASSUME TypeInv, AccountInv, NEW r \in Request, Start(r) \/ Step(r) \/ Fault(r),
         \A s \in Request : s # r =>
           /\ req'[s].pc = req[s].pc /\ req'[s].op = req[s].op
           /\ req'[s].lead = req[s].lead /\ req'[s].args = req[s].args
           /\ req'[s].local.todo = req[s].local.todo
           /\ req'[s].local.accepted = req[s].local.accepted
           /\ \A l \in Lead : msgs[<<s, l>>] # NULL <=> msgs'[<<s, l>>] # NULL,
         Accounts(r)'
  PROVE  AccountInv'
<1>1. LeadsGrow /\ audit \subseteq audit'
  BY StepGrows, StepAudits
<1>2. ASSUME NEW s \in Request, s # r PROVE Accounts(s)'
  BY <1>1, <1>2, StaysAccounted DEF AccountInv
<1>3. \A l \in Foreign : leads'[l] = NULL
  BY <1>1 DEF AccountInv, LeadsGrow
<1>. QED  BY <1>2, <1>3 DEF AccountInv

LEMMA ReachedType ==
  ASSUME NEW r \in Request
  PROVE  Reached(r) \subseteq Lead /\ IsFiniteSet(Reached(r))
<1>1. Reached(r) \subseteq Lead
  BY DEF Reached
<1>. QED  BY <1>1, FS_Subset, MessagingAssumption

LEMMA StartAccounts ==
  ASSUME TypeInv, WriteInv, AccountInv, NEW r \in Request, Start(r)
  PROVE  AccountInv'
<1>1. /\ req[r].pc = "idle" /\ req'[r].local = Blank
      /\ req'[r].op = "bulk" => /\ req'[r].pc = "leads" /\ req'[r].args.leads \subseteq Named
      /\ \A s \in Request : s # r => req'[s] = req[s]
      /\ UNCHANGED <<leads, msgs>>
  BY BeginEffect
<1>2. Reached(r)' = {}
  BY <1>1 DEF Reached, WriteInv, Written, Waiting, Fresh
<1>3. Accounts(r)'
  <2>. SUFFICES ASSUME req'[r].op = "bulk" PROVE Accounts(r)'
    BY DEF Accounts
  <2>1. \A l \in req'[r].args.leads : leads'[l] # NULL \/ l \in Foreign
    BY <1>1 DEF Named
  <2>2. req'[r].local.todo = {} /\ req'[r].local.accepted = 0
    BY <1>1 DEF Blank
  <2>3. Cardinality(Reached(r) \ Pending(req[r]))' = 0
    BY <1>2, FS_EmptySet
  <2>. QED  BY <1>1, <1>2, <2>1, <2>2, <2>3 DEF Accounts, Late
<1>. QED  BY <1>1, <1>3, MoveAccounts

LEMMA LookAccounts ==
  ASSUME TypeInv, AccountInv, NEW r \in Request,
         FindLeads(r) \/ FindLead(r) \/ GetThread(r) \/ Fault(r)
  PROVE  AccountInv'
<1>. DEFINE q == req[r]
<1>1. UNCHANGED <<leads, msgs, audit>> /\ (\A s \in Request : s # r => req'[s] = req[s])
  BY LookEffect DEF logs
<1>2. Accounts(r)
  BY DEF AccountInv
<1>3. Reached(r)' = Reached(r)
  BY <1>1 DEF Reached
<1>4. \A l : IsAudited(r, l)' = IsAudited(r, l)
  BY <1>1 DEF IsAudited
<1>5. CASE req' = req
  <2>1. Accounts(r)'
    BY <1>1, <1>2, <1>3, <1>4, <1>5 DEF Accounts, Accounted, Pending
  <2>. QED  BY <1>1, <2>1, MoveAccounts DEF Step
<1>6. CASE req' # req
  <2>1. /\ req'[r].op = q.op /\ req'[r].args = q.args /\ req'[r].lead = q.lead
        /\ req'[r].local.accepted = q.local.accepted
        /\ \/ /\ q.pc = "leads" /\ req'[r].pc = "next"
              /\ req'[r].local.todo = {l \in q.args.leads : leads[l] # NULL}
           \/ /\ req'[r].local.todo = q.local.todo
              /\ \/ q.pc = "find" /\ req'[r].pc = "thread"
                 \/ q.pc = "thread" /\ req'[r].pc = AfterThread(q)
    BY <1>6, LookEffect
  <2>2. AfterThread(q) \in {"save", "send"}
    BY DEF AfterThread
  <2>3. Accounts(r)'
    <3>. SUFFICES ASSUME q.op = "bulk" PROVE Accounts(r)'
      BY <2>1 DEF Accounts
    <3>1. Pending(req[r])' = Pending(req[r])
      BY <2>1, <2>2 DEF Pending, Working
    <3>2. q.pc # "leads" => \A l : Accounted(r, l) => Accounted(r, l)'
      BY <1>1, <1>3, <2>1, <2>2 DEF Accounted
    <3>3. \A l \in q.args.leads : Accounted(r, l)'
      <4>1. CASE q.pc = "leads"
        BY <1>1, <1>2, <2>1, <4>1 DEF Accounts, Accounted
      <4>2. CASE q.pc # "leads"
        BY <1>2, <3>2, <4>2 DEF Accounts
      <4>. QED  BY <4>1, <4>2
    <3>4. \A l \in Reached(r) : IsAudited(r, l)'
      BY <1>2, <1>4, <2>1 DEF Accounts
    <3>5. (\A l \in req'[r].local.todo : leads'[l] # NULL)
            /\ (\A l \in req'[r].args.leads : leads'[l] # NULL \/ l \in Foreign)
      BY <1>1, <1>2, <2>1 DEF Accounts
    <3>6. req'[r].local.accepted = Cardinality(Reached(r) \ Pending(req[r]))'
      BY <1>2, <1>3, <2>1, <3>1 DEF Accounts
    <3>7. req'[r].pc \notin Late \cup {"end"}
      BY <2>1, <2>2 DEF Late
    <3>8. \A l \in req'[r].args.leads : Accounted(r, l)'
      BY <2>1, <3>3
    <3>9. (\A l \in Reached(r) : IsAudited(r, l))'
      BY <1>3, <3>4
    <3>. QED  BY <3>5, <3>6, <3>7, <3>8, <3>9 DEF Accounts
  <2>. QED  BY <1>1, <2>3, MoveAccounts DEF Step
<1>. QED  BY <1>5, <1>6

LEMMA TakeAccounts ==
  ASSUME TypeInv, WriteInv, AccountInv, NEW r \in Request,
         NextLead(r) \/ MatchLead(r) \/ NewLead(r)
  PROVE  AccountInv'
<1>. DEFINE q == req[r]
<1>1. /\ req'[r].op = q.op /\ req'[r].args = q.args
      /\ \A s \in Request : s # r => req'[s] = req[s]
      /\ msgs' = msgs
  BY TakeEffect
<1>2. CASE q.op # "bulk"
  <2>1. Accounts(r)'
    BY <1>1, <1>2 DEF Accounts
  <2>. QED  BY <1>1, <2>1, MoveAccounts DEF Step
<1>3. CASE q.op = "bulk"
  <2>1. /\ q.pc = "next" /\ leads' = leads /\ audit' = audit
        /\ req'[r].local.accepted = q.local.accepted
        /\ \/ /\ q.local.todo = {} /\ req'[r].pc = "end"
              /\ req'[r].local.todo = {} /\ req'[r].lead = q.lead
           \/ \E l \in Lead :
                /\ l \in q.local.todo /\ req'[r].local.todo = q.local.todo \ {l}
                /\ \/ req'[r].pc = "next" /\ leads[l].phone = NULL
                   \/ req'[r].pc = "find" /\ req'[r].lead = l
    BY <1>3, TakeEffect DEF logs
  <2>2. Accounts(r) /\ Written(r, q)
    BY DEF AccountInv, WriteInv
  <2>3. Reached(r)' = Reached(r)
    BY <1>1 DEF Reached
  <2>4. \A l : IsAudited(r, l)' = IsAudited(r, l)
    BY <2>1 DEF IsAudited
  <2>5. (\A l \in Reached(r) : IsAudited(r, l))'
    BY <1>3, <2>1, <2>2, <2>3, <2>4 DEF Accounts
  <2>6. (\A l \in req'[r].local.todo : leads'[l] # NULL)
          /\ (\A l \in req'[r].args.leads : leads'[l] # NULL \/ l \in Foreign)
    BY <1>1, <1>3, <2>1, <2>2 DEF Accounts
  <2>7. \A l \in req'[r].args.leads : Accounted(r, l)'
    <3>. SUFFICES ASSUME NEW l \in q.args.leads PROVE Accounted(r, l)'
      BY <1>1
    <3>1. l \in q.local.todo \/ l \in Reached(r) \/ l \in Foreign
            \/ (leads[l] # NULL /\ leads[l].phone = NULL)
      BY <1>3, <2>1, <2>2 DEF Accounts, Accounted
    <3>2. \A m \in q.local.todo : leads[m] # NULL
      BY <1>3, <2>2 DEF Accounts
    <3>. QED  BY <2>1, <2>3, <3>1, <3>2 DEF Accounted
  <2>8. Reached(r) \ Pending(req[r])' = Reached(r) \ Pending(q)
    <3>1. Pending(q) = {}
      BY <2>1 DEF Pending, Working
    <3>2. CASE req'[r].pc \in {"next", "end"}
      BY <3>1, <3>2 DEF Pending, Working
    <3>3. CASE req'[r].pc = "find"
      <4>1. req'[r].lead \in q.local.todo
        BY <2>1, <3>3
      <4>2. req'[r].lead \notin Reached(r)
        BY <2>2, <4>1 DEF Written, Fresh, Reached
      <4>. QED  BY <3>1, <3>3, <4>2 DEF Pending
    <3>. QED  BY <2>1, <3>2, <3>3
  <2>9. req'[r].local.accepted = Cardinality(Reached(r) \ Pending(req[r]))'
    BY <1>3, <2>1, <2>2, <2>3, <2>8 DEF Accounts
  <2>10. req'[r].pc \notin Late
    BY <2>1 DEF Late
  <2>11. req'[r].pc = "end" => req'[r].local.todo = {}
    BY <2>1
  <2>12. Accounts(r)'
    BY <2>5, <2>6, <2>7, <2>9, <2>10, <2>11 DEF Accounts
  <2>. QED  BY <1>1, <2>12, MoveAccounts DEF Step
<1>. QED  BY <1>2, <1>3

LEMMA SaveAccounts ==
  ASSUME TypeInv, WriteInv, AccountInv, NEW r \in Request, SaveMessage(r)
  PROVE  AccountInv'
<1>. DEFINE q == req[r]
<1>1. /\ q.pc = "save" /\ UNCHANGED <<leads, audit>>
      /\ SavedRow(q) # NULL /\ msgs' = [msgs EXCEPT ![Current(r)] = SavedRow(q)]
      /\ req'[r].pc \in {"send", "emit"}
      /\ req'[r].op = q.op /\ req'[r].lead = q.lead
      /\ req'[r].args = q.args /\ req'[r].local = q.local
  BY SaveEffect DEF logs
<1>2. q.lead \in Lead /\ Current(r) = <<r, q.lead>> /\ Current(r) \in Message
  BY <1>1, AtWork DEF Working
<1>3. /\ msgs'[<<r, q.lead>>] # NULL
      /\ \A m \in Message : m # <<r, q.lead>> => msgs'[m] = msgs[m]
  BY <1>1, <1>2 DEF TypeInv, TypeOK
<1>4. ASSUME NEW s \in Request, s # r
      PROVE  /\ req'[s].pc = req[s].pc /\ req'[s].op = req[s].op
             /\ req'[s].lead = req[s].lead /\ req'[s].args = req[s].args
             /\ req'[s].local.todo = req[s].local.todo
             /\ req'[s].local.accepted = req[s].local.accepted
             /\ \A l \in Lead : msgs[<<s, l>>] # NULL <=> msgs'[<<s, l>>] # NULL
  <2>1. \A l \in Lead : msgs'[<<s, l>>] = msgs[<<s, l>>]
    BY <1>3, <1>4 DEF Message
  <2>. QED  BY <1>4, <2>1, SaveEffect
<1>5. Accounts(r)'
  <2>. SUFFICES ASSUME q.op = "bulk" PROVE Accounts(r)'
    BY <1>1 DEF Accounts
  <2>1. Accounts(r)
    BY DEF AccountInv
  <2>2. Reached(r)' = Reached(r) \cup {q.lead}
    <3>1. ASSUME NEW l \in Lead PROVE msgs'[<<r, l>>] # NULL <=> l = q.lead \/ msgs[<<r, l>>] # NULL
      BY <1>3 DEF Message
    <3>. QED  BY <1>2, <3>1 DEF Reached
  <2>3. (Reached(r) \ Pending(req[r]))' = Reached(r) \ Pending(q)
    <3>1. Pending(q) = {q.lead} /\ Pending(req[r])' = {q.lead}
      BY <1>1 DEF Pending, Working
    <3>. QED  BY <2>2, <3>1
  <2>4. \A l \in req'[r].args.leads : Accounted(r, l)'
    <3>. SUFFICES ASSUME NEW l \in q.args.leads PROVE Accounted(r, l)'
      BY <1>1
    <3>1. Accounted(r, l)
      BY <1>1, <2>1 DEF Accounts
    <3>. QED  BY <1>1, <2>2, <3>1 DEF Accounted
  <2>5. req'[r].lead \in Reached(r)'
    BY <1>1, <2>2
  <2>6. ASSUME NEW l \in Reached(r)'
        PROVE  IsAudited(r, l)' \/ (l = req'[r].lead /\ req'[r].pc \in {"send", "emit"})
    <3>1. l \in Reached(r) => IsAudited(r, l)
      BY <1>1, <2>1 DEF Accounts
    <3>. QED  BY <1>1, <2>2, <3>1 DEF IsAudited
  <2>7. /\ \A l \in req'[r].args.leads : leads'[l] # NULL \/ l \in Foreign
        /\ \A l \in req'[r].local.todo : leads'[l] # NULL
        /\ req'[r].local.accepted = Cardinality(Reached(r) \ Pending(req[r]))'
    BY <1>1, <2>1, <2>3 DEF Accounts
  <2>. QED  BY <1>1, <2>4, <2>5, <2>6, <2>7 DEF Accounts
<1>. QED  BY <1>4, <1>5, MoveAccounts DEF Step

LEMMA SendAccounts ==
  ASSUME TypeInv, WriteInv, AccountInv, NEW r \in Request, Send(r) \/ StoreAnswer(r)
  PROVE  AccountInv'
<1>. DEFINE q == req[r]
<1>1. /\ q.pc \in {"send", "store"} /\ UNCHANGED <<leads, audit>>
      /\ \A m \in Message : msgs[m] # NULL <=> msgs'[m] # NULL
  <2>1. CASE Send(r)
    BY <2>1, SendEffect DEF logs
  <2>2. CASE StoreAnswer(r)
    BY <2>2, StoreEffect DEF logs
  <2>. QED  BY <2>1, <2>2
<1>2. /\ req'[r].op = q.op /\ req'[r].lead = q.lead /\ req'[r].args = q.args
      /\ req'[r].local.todo = q.local.todo /\ req'[r].local.accepted = q.local.accepted
      /\ \A s \in Request : s # r => req'[s] = req[s]
      /\ \/ q.pc = "send" /\ req'[r].pc = (IF Flow(q) = "sms" THEN "store" ELSE "save")
         \/ q.pc = "store" /\ req'[r].pc = "emit"
  <2>1. CASE Send(r)
    BY <2>1, SendEffect
  <2>2. CASE StoreAnswer(r)
    BY <2>2, StoreEffect, GotoEffect
  <2>. QED  BY <2>1, <2>2
<1>3. Located(r) /\ q.lead \in Lead /\ Written(r, q) /\ Flow(q) \in {"sms", "message"}
  BY <1>1, LeadTypes DEF TypeInv, WriteInv, Working, Located, Routed
<1>4. /\ q.pc = "send" /\ Flow(q) = "message" => q.lead \notin Reached(r)
      /\ q.pc = "store" \/ Flow(q) = "sms" => q.lead \in Reached(r)
  BY <1>1, <1>3 DEF Located, Saved, Written, Reached
<1>5. Reached(r)' = Reached(r)
  BY <1>1, LeadTypes DEF Reached
<1>6. Accounts(r)'
  <2>. SUFFICES ASSUME q.op = "bulk" PROVE Accounts(r)'
    BY <1>2 DEF Accounts
  <2>1. Accounts(r)
    BY DEF AccountInv
  <2>2. Pending(req[r])' = Pending(q)
    BY <1>1, <1>2 DEF Pending, Working
  <2>3. \A l \in req'[r].args.leads : Accounted(r, l)'
    <3>. SUFFICES ASSUME NEW l \in q.args.leads PROVE Accounted(r, l)'
      BY <1>2
    <3>1. Accounted(r, l)
      BY <1>1, <2>1 DEF Accounts
    <3>. QED  BY <1>1, <1>2, <1>3, <1>4, <1>5, <3>1 DEF Accounted
  <2>4. req'[r].pc \in Late => req'[r].lead \in Reached(r)'
    BY <1>2, <1>4, <1>5 DEF Late
  <2>5. ASSUME NEW l \in Reached(r)'
        PROVE  IsAudited(r, l)' \/ (l = req'[r].lead /\ req'[r].pc \in {"store", "emit"})
    <3>1. IsAudited(r, l) \/ l = q.lead
      BY <1>5, <2>1, <2>5 DEF Accounts
    <3>2. l = q.lead => req'[r].pc \in {"store", "emit"}
      BY <1>2, <1>3, <1>4, <1>5, <2>5
    <3>. QED  BY <1>1, <1>2, <3>1, <3>2 DEF IsAudited
  <2>6. /\ \A l \in req'[r].args.leads : leads'[l] # NULL \/ l \in Foreign
        /\ \A l \in req'[r].local.todo : leads'[l] # NULL
        /\ req'[r].local.accepted = Cardinality(Reached(r) \ Pending(req[r]))'
    BY <1>1, <1>2, <1>5, <2>1, <2>2 DEF Accounts
  <2>. QED  BY <1>2, <2>3, <2>4, <2>5, <2>6 DEF Accounts
<1>7. \A s \in Request, l \in Lead : msgs[<<s, l>>] # NULL <=> msgs'[<<s, l>>] # NULL
  BY <1>1, LeadTypes
<1>. QED  BY <1>2, <1>6, <1>7, MoveAccounts DEF Step

\* The row gets its audit row on the way, and counts once it is dealt with.
LEMMA LateAccounts ==
  ASSUME TypeInv, AccountInv, NEW r \in Request,
         \/ EmitEvent(r) \/ WriteAudit(r) \/ TouchLead(r) \/ CountEvidence(r)
         \/ PersistScore(r) \/ ReadSummary(r)
  PROVE  AccountInv'
<1>. DEFINE q == req[r]
<1>1. /\ msgs' = msgs
      /\ \A s \in Request : s # r => req'[s] = req[s]
      /\ req'[r].op = q.op /\ req'[r].args = q.args /\ req'[r].lead = q.lead
      /\ req'[r].local.todo = q.local.todo /\ q.pc \in Late
      /\ q.op = "bulk" => req'[r].pc \in Late \cup {"next"}
  BY LateEffect DEF Late
<1>2. LeadsGrow /\ audit \subseteq audit'
  BY StepGrows, StepAudits DEF Step
<1>3. Reached(r)' = Reached(r)
  BY <1>1 DEF Reached
<1>4. q.pc = "emit" /\ q.op = "bulk" => req'[r].pc = "audit"
  <2>. SUFFICES ASSUME q.pc = "emit", q.op = "bulk" PROVE req'[r].pc = "audit"
    OBVIOUS
  <2>1. Goto(r, AfterEvent(q))
    BY DEF EmitEvent, WriteAudit, TouchLead, CountEvidence, PersistScore, ReadSummary, At
  <2>2. AfterEvent(q) = "audit"
    BY DEF AfterEvent, Flow
  <2>. QED  BY <2>1, <2>2, GotoEffect
<1>5. q.pc = "audit" => IsAudited(r, q.lead)'
  <2>. SUFFICES ASSUME q.pc = "audit" PROVE IsAudited(r, q.lead)'
    BY <1>1 DEF IsAudited
  <2>1. audit' = audit \cup {[msg |-> Current(r), action |-> ActionName[Flow(q)]]}
    BY DEF EmitEvent, WriteAudit, TouchLead, CountEvidence, PersistScore, ReadSummary, At
  <2>. DEFINE a == [msg |-> Current(r), action |-> ActionName[Flow(q)]]
  <2>2. a \in audit' /\ a.msg = <<r, q.lead>>
    BY <2>1 DEF Current
  <2>. HIDE DEF a
  <2>. QED  BY <1>1, <2>2 DEF IsAudited
<1>6. Accounts(r)'
  <2>. SUFFICES ASSUME q.op = "bulk" PROVE Accounts(r)'
    BY <1>1 DEF Accounts
  <2>1. Accounts(r)
    BY DEF AccountInv
  <2>2. q.lead \in Lead /\ q.lead \in Reached(r)
    BY <1>1, <2>1 DEF Accounts, Reached
  <2>3. \A l \in req'[r].args.leads : Accounted(r, l)'
    <3>. SUFFICES ASSUME NEW l \in q.args.leads PROVE Accounted(r, l)'
      BY <1>1
    <3>1. l \in Lead
      BY DEF TypeInv, TypeOK, RequestState, Args
    <3>2. Accounted(r, l)
      BY <1>1, <2>1 DEF Accounts, Late
    <3>. QED  BY <1>1, <1>2, <1>3, <2>2, <3>1, <3>2 DEF Accounted, LeadsGrow
  <2>4. /\ \A l \in req'[r].args.leads : leads'[l] # NULL \/ l \in Foreign
        /\ \A l \in req'[r].local.todo : leads'[l] # NULL
    <3>1. q.args.leads \subseteq Lead /\ q.local.todo \subseteq Lead
      BY DEF TypeInv, TypeOK, RequestState, Args, Local
    <3>. QED  BY <1>1, <1>2, <2>1, <3>1 DEF Accounts, LeadsGrow
  <2>5. req'[r].local.accepted = Cardinality(Reached(r) \ Pending(req[r]))'
    <3>1. Pending(q) = {q.lead} /\ q.local.accepted = Cardinality(Reached(r) \ {q.lead})
      BY <1>1, <2>1 DEF Accounts, Pending, Late, Working
    <3>2. CASE q.pc = "summary"
      <4>1. req'[r].pc = "next" /\ req'[r].local.accepted = q.local.accepted + 1
        BY <3>2, LateEffect
      <4>2. Cardinality(Reached(r)) = Cardinality(Reached(r) \ {q.lead}) + 1
        <5>1. IsFiniteSet(Reached(r))
          BY ReachedType
        <5>2. Cardinality(Reached(r) \ {q.lead}) = Cardinality(Reached(r)) - 1
          BY <2>2, <5>1, FS_RemoveElement
        <5>3. Cardinality(Reached(r)) \in Nat
          BY <5>1, FS_CardinalityType
        <5>. HIDE DEF q
        <5>. QED  BY <5>2, <5>3
      <4>3. (Reached(r) \ Pending(req[r]))' = Reached(r)
        BY <1>3, <4>1 DEF Pending, Working
      <4>. QED  BY <3>1, <4>1, <4>2, <4>3
    <3>3. CASE q.pc # "summary"
      <4>1. req'[r].pc \in Late /\ req'[r].local.accepted = q.local.accepted
        BY <3>3, LateEffect
      <4>2. (Reached(r) \ Pending(req[r]))' = Reached(r) \ {q.lead}
        BY <1>1, <1>3, <4>1 DEF Pending, Late, Working
      <4>. QED  BY <3>1, <4>1, <4>2
    <3>. QED  BY <3>2, <3>3
  <2>6. ASSUME NEW l \in Reached(r)
        PROVE  IsAudited(r, l)' \/ (l = q.lead /\ req'[r].pc = "audit")
    <3>1. IsAudited(r, l) \/ (l = q.lead /\ q.pc \in {"emit", "audit"})
      BY <1>1, <2>1, <2>6 DEF Accounts, Late
    <3>2. IsAudited(r, l) => IsAudited(r, l)'
      BY <1>2 DEF IsAudited
    <3>3. l = q.lead /\ q.pc = "audit" => IsAudited(r, l)'
      BY <1>1, <1>5 DEF IsAudited
    <3>4. q.pc = "emit" => req'[r].pc = "audit"
      BY <1>4
    <3>. HIDE DEF q
    <3>. QED  BY <3>1, <3>2, <3>3, <3>4
  <2>. QED  BY <1>1, <1>3, <2>2, <2>3, <2>4, <2>5, <2>6 DEF Accounts, Late
<1>. QED  BY <1>1, <1>6, MoveAccounts DEF Step

\* Nothing that is not a request comes near the accounts.
LEMMA QuietAccounts ==
  ASSUME TypeInv, AccountInv, UNCHANGED <<leads, audit, req>>,
         \A m \in Message : msgs[m] # NULL <=> msgs'[m] # NULL
  PROVE  AccountInv'
<1>1. LeadsGrow
  BY DEF LeadsGrow
<1>2. ASSUME NEW s \in Request PROVE Accounts(s)'
  <2>1. \A l \in Lead : msgs[<<s, l>>] # NULL <=> msgs'[<<s, l>>] # NULL
    BY LeadTypes
  <2>. QED  BY <1>1, <2>1, StaysAccounted DEF AccountInv
<1>. QED  BY <1>2 DEF AccountInv

\* A request that has not begun is nothing to account for.
LEMMA InitAccounts == Init => AccountInv
<1>. SUFFICES ASSUME Init PROVE AccountInv
  OBVIOUS
<1>1. \A l \in Foreign : leads[l] = NULL
  <2>1. PICK contact \in InitialLeads :
          leads = [l \in Lead |-> IF contact[l] = NULL THEN NULL
                       ELSE LeadRow(contact[l], NoActivity, FirstScore(contact[l]))]
    BY DEF Init
  <2>. QED  BY <2>1, MessagingAssumption
<1>2. ASSUME NEW r \in Request PROVE Accounts(r)
  <2>1. /\ req[r].pc = "idle" /\ req[r].args.leads = {}
        /\ req[r].local.todo = {} /\ req[r].local.accepted = 0
    BY DEF Init, Idle, NoArgs, Blank
  <2>2. Reached(r) = {}
    BY DEF Init, Reached, Message
  <2>3. Cardinality(Reached(r) \ Pending(req[r])) = 0
    BY <2>2, FS_EmptySet
  <2>. QED  BY <2>1, <2>2, <2>3 DEF Accounts, Late
<1>. QED  BY <1>1, <1>2 DEF AccountInv

LEMMA StaysSquare == Spec => []AccountInv
<1>1. TypeInv /\ WriteInv /\ AccountInv /\ [Next]_vars => AccountInv'
  <2>. SUFFICES ASSUME TypeInv, WriteInv, AccountInv, [Next]_vars PROVE AccountInv'
    OBVIOUS
  <2>1. CASE UNCHANGED vars
    BY <2>1, QuietAccounts DEF vars, logs
  <2>2. ASSUME NEW m \in Message, Carrier(m) PROVE AccountInv'
    <3>1. CASE CarrierMoves(m)
      BY <3>1, QuietAccounts DEF CarrierMoves, logs
    <3>2. ASSUME NEW s \in CarrierStatus, HandleStatus(m, s) PROVE AccountInv'
      BY <3>2, ReportEffect, QuietAccounts DEF logs
    <3>. QED  BY <2>2, <3>1, <3>2 DEF Carrier
  <2>3. ASSUME NEW r \in Request, Step(r) PROVE AccountInv'
    BY <2>3, LookAccounts, TakeAccounts, SaveAccounts, SendAccounts, LateAccounts DEF Step
  <2>. QED  BY <2>1, <2>2, <2>3, StartAccounts, LookAccounts DEF Next
<1>. QED  BY <1>1, InitAccounts, StaysTyped, StaysTrue, PTL DEF Spec

\* bulkSend: an answer counts the leads that have got a row, each of which has
\* its audit row; a lead that is left out is not there or has no number.
THEOREM BulkSendsAccount == Spec => []BulkAccounts
<1>1. AccountInv => BulkAccounts
  <2>. SUFFICES ASSUME AccountInv, NEW r \in Request, req[r].op = "bulk", At(r, "end")
                PROVE  /\ req[r].local.accepted = Cardinality(Reached(r))
                       /\ \A l \in Reached(r) : \E a \in audit : a.msg = <<r, l>>
                       /\ \A l \in req[r].args.leads \ Reached(r) :
                             leads[l] = NULL \/ leads[l].phone = NULL
    BY DEF BulkAccounts
  <2>1. req[r].pc = "end" /\ Accounts(r)
    BY DEF At, AccountInv
  <2>2. Reached(r) \ Pending(req[r]) = Reached(r)
    BY <2>1 DEF Pending, Working
  <2>3. \A l \in Foreign : leads[l] = NULL
    BY DEF AccountInv
  <2>. QED  BY <2>1, <2>2, <2>3 DEF Accounts, Accounted, IsAudited
<1>. QED  BY <1>1, StaysSquare, PTL
=============================================================================

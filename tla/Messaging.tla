------------------------------ MODULE Messaging ------------------------------
(***************************************************************************)
(* The messages of one dealership: what its members send to leads one by   *)
(* one or in bulk, what leads send back, and what the carrier reports of   *)
(* the texts it was given (CommunicationsService, TwilioSmsProvider).      *)
(*                                                                         *)
(* The carrier is external. It takes a text or refuses it; its answer may  *)
(* be lost; its reports come in any order, again, too early or never.      *)
(*                                                                         *)
(* A message is named by the request that writes it and the lead it is     *)
(* written for: no request writes two for the same lead.                   *)
(***************************************************************************)
EXTENDS LeadScoring, FiniteSets

CONSTANTS
  Lead,          \* identifiers of leads
  Foreign,       \* those of other dealerships, which this one has no row of
  Phone,         \* telephone numbers, all of ten digits or more
  Dialable,      \* those in E.164 format
  Request,       \* requests, each of which is made at most once
  NULL,          \* a null column, a property the payload does not have
  OpsOf,         \* the operations each request may ask for
  PhoneArg, ChannelArg, DirectionArg, BulkArg, TemplateArg,
                 \* the payloads
  InitialLeads,  \* the contact data the leads may have at the start
  Live,          \* is COMMUNICATIONS_MODE twilio?
  Faults         \* may a request be cut short, or an answer be lost?

Channel == {"SMS", "EMAIL", "CALL", "NOTE"}
Direction == {"OUTBOUND", "INBOUND"}
MessageStatus == {"QUEUED", "SENT", "DELIVERED", "FAILED", "RECEIVED"}
AllOps == {"sms", "message", "call", "bulk", "inbound"}

ContactData == [phone : Phone \cup {NULL}, email : BOOLEAN]

\* age is that of the last activity, which is now once there was any.
LeadRecord == [phone : Phone \cup {NULL}, email : BOOLEAN, age : {0, NoActivity},
               score : MIN_LEAD_SCORE .. MAX_LEAD_SCORE]

\* sid: is the identifier that is stored the one the carrier uses?
MessageRow == [channel : Channel, direction : Direction, status : MessageStatus,
               sid : BOOLEAN]

\* What the carrier, or the provider that stands in for it, has answered.
Answer == [status : {"SENT", "FAILED"}, sid : BOOLEAN]

\* The life of a text at the carrier.
CarrierStatus == {"accepted", "sent", "delivered", "undelivered", "failed"}

ASSUME MessagingAssumption ==
  /\ Dialable \subseteq Phone /\ IsFiniteSet(Lead) /\ Foreign \subseteq Lead
  /\ NULL \notin Lead \cup Phone \cup ContactData \cup LeadRecord
  /\ NULL \notin MessageRow \cup Answer /\ NULL \notin CarrierStatus
  /\ OpsOf \in [Request -> SUBSET AllOps]
  /\ PhoneArg \subseteq Phone \cup {NULL}
  /\ ChannelArg \subseteq Channel /\ DirectionArg \subseteq Direction
  /\ BulkArg \subseteq SUBSET Lead /\ TemplateArg \subseteq Channel \cup {NULL}
  /\ InitialLeads \subseteq [Lead -> ContactData \cup {NULL}]
  /\ \A contact \in InitialLeads, l \in Foreign : contact[l] = NULL
  /\ Live \in BOOLEAN /\ Faults \in BOOLEAN

VARIABLES
  leads,      \* of the Lead table: contact data, when last active, the score
  threads,    \* the leads that have a ConversationThread
  msgs,       \* the Message table
  audit,      \* the AuditLog table
  events,     \* the EventLog table
  carrier,    \* what has become of the texts that the carrier was given
  req,        \* the requests
  failed,     \* the requests that were answered with an error or lost
  neglected   \* history: leads whose last stored score had been overtaken

logs == <<audit, events>>
vars == <<leads, threads, msgs, logs, carrier, req, failed, neglected>>

-----------------------------------------------------------------------------
Message == Request \X Lead

LeadRow(contact, age, score) ==
  [phone |-> contact.phone, email |-> contact.email, age |-> age, score |-> score]

PC == {"idle", "leads", "next", "match", "newlead", "find", "thread", "save", "send",
       "store", "emit", "audit", "touch", "count", "persist", "summary", "end"}

Blank == [todo |-> {}, accepted |-> 0, answer |-> NULL, score |-> 0, outdated |-> FALSE]
NoArgs == [phone |-> NULL, channel |-> "SMS", direction |-> "OUTBOUND", leads |-> {},
           template |-> NULL]
Idle == [pc |-> "idle", op |-> NULL, lead |-> NULL, args |-> NoArgs, local |-> Blank]

At(r, pc) == req[r].pc = pc /\ r \notin failed
InFlight(r) == req[r].pc \notin {"idle", "end"} /\ r \notin failed

\* The message that r is writing.
Current(r) == <<r, req[r].lead>>

Resume(r, local, pc) == req' = [req EXCEPT ![r] = [@ EXCEPT !.local = local, !.pc = pc]]
Goto(r, pc) == req' = [req EXCEPT ![r].pc = pc]

Throw(r) ==
  /\ failed' = failed \cup {r}
  /\ UNCHANGED <<leads, threads, msgs, logs, carrier, req, neglected>>

\* A bulk send does for each lead what the handler of one message does.
Flow(q) ==
  IF q.op = "bulk" THEN IF q.args.channel = "SMS" THEN "sms" ELSE "message" ELSE q.op

\* What the messages of a lead amount to for its score.
Of(l) == {m \in Message : m[2] = l /\ msgs[m] # NULL}
EvidenceOf(l) ==
  [outbound |-> Cardinality({m \in Of(l) : /\ msgs[m].direction = "OUTBOUND"
                                           /\ msgs[m].channel \in {"SMS", "EMAIL"}}),
   inbound |-> \E m \in Of(l) : msgs[m].direction = "INBOUND",
   calls |-> Cardinality({m \in Of(l) : msgs[m].channel = "CALL"}),
   showed |-> FALSE, upcoming |-> FALSE, noShow |-> FALSE]

\* A new lead that nobody has an appointment with.
ScoreOf(l) ==
  Score([status |-> "NEW", soldAt |-> FALSE, age |-> leads[l].age,
         contact |-> [phone |-> leads[l].phone # NULL, email |-> leads[l].email,
                      first |-> FALSE, last |-> FALSE, vehicle |-> FALSE]],
        EvidenceOf(l))

FirstScore(c) == 10 * Cardinality({x \in {"phone", "email"} :
                          IF x = "phone" THEN c.phone # NULL ELSE c.email})

Init ==
  /\ \E contact \in InitialLeads :
        leads = [l \in Lead |-> IF contact[l] = NULL THEN NULL
                                ELSE LeadRow(contact[l], NoActivity, FirstScore(contact[l]))]
  /\ threads = {}
  /\ msgs = [m \in Message |-> NULL]
  /\ audit = {} /\ events = {}
  /\ carrier = [m \in Message |-> NULL]
  /\ req = [r \in Request |-> Idle]
  /\ failed = {} /\ neglected = {}

-----------------------------------------------------------------------------
\* A request is let in by the guards, or a text by its signature.
Begin(r, op, l, pc, args) ==
  /\ op \in OpsOf[r]
  /\ At(r, "idle")
  /\ req' = [req EXCEPT ![r] = [pc |-> pc, op |-> op, lead |-> l, args |-> args,
                               local |-> Blank]]
  /\ UNCHANGED <<leads, threads, msgs, logs, carrier, failed, neglected>>

\* The leads a client can have heard of.
Named == {l \in Lead : leads[l] # NULL} \cup Foreign

StartSms(r) ==
  \E l \in Named, p \in PhoneArg, d \in DirectionArg :
    Begin(r, "sms", l, "find", [NoArgs EXCEPT !.phone = p, !.direction = d])

StartMessage(r) ==
  \E l \in Named, c \in ChannelArg, d \in DirectionArg :
    Begin(r, "message", l, "find", [NoArgs EXCEPT !.channel = c, !.direction = d])

StartCall(r) ==
  \E l \in Named, d \in DirectionArg :
    Begin(r, "call", l, "find", [NoArgs EXCEPT !.channel = "CALL", !.direction = d])

StartBulk(r) ==
  \E ls \in {b \in BulkArg : b \subseteq Named},
     c \in ChannelArg \cap {"SMS", "EMAIL"}, t \in TemplateArg :
    Begin(r, "bulk", NULL, "leads",
          [NoArgs EXCEPT !.channel = c, !.leads = ls, !.template = t])

\* The carrier brings a text from p, and has been told which dealership owns
\* the number it was sent to.
StartInbound(r) ==
  \E p \in Phone : Begin(r, "inbound", NULL, "match",
                         [NoArgs EXCEPT !.phone = p, !.direction = "INBOUND"])

-----------------------------------------------------------------------------
\* bulkSend reads the template and the leads that are named and exist.
FindLeads(r) ==
  LET q == req[r] IN
  /\ At(r, "leads")
  /\ IF q.args.template # q.args.channel THEN Throw(r)
     ELSE /\ Resume(r, [q.local EXCEPT !.todo = {l \in q.args.leads : leads[l] # NULL}],
                    "next")
          /\ UNCHANGED <<leads, threads, msgs, logs, carrier, failed, neglected>>

\* A slip: a lead without a number ends the loop.
NextLeadBreaks(r) ==
  LET q == req[r] IN
  /\ At(r, "next")
  /\ IF q.local.todo = {} THEN Goto(r, "end")
     ELSE \E l \in q.local.todo :
        LET rest == [q.local EXCEPT !.todo = @ \ {l}, !.answer = NULL] IN
        IF q.args.channel = "SMS" /\ leads[l].phone = NULL
        THEN Resume(r, rest, "end")
        ELSE req' = [req EXCEPT ![r] = [@ EXCEPT !.lead = l, !.local = rest, !.pc = "find"]]
  /\ UNCHANGED <<leads, threads, msgs, logs, carrier, failed, neglected>>

\* A slip: a lead without a number is come to again.
NextLeadStays(r) ==
  LET q == req[r] IN
  /\ At(r, "next")
  /\ IF q.local.todo = {} THEN Goto(r, "end")
     ELSE \E l \in q.local.todo :
        LET rest == [q.local EXCEPT !.todo = @ \ {l}, !.answer = NULL] IN
        IF q.args.channel = "SMS" /\ leads[l].phone = NULL
        THEN Goto(r, "next")
        ELSE req' = [req EXCEPT ![r] = [@ EXCEPT !.lead = l, !.local = rest, !.pc = "find"]]
  /\ UNCHANGED <<leads, threads, msgs, logs, carrier, failed, neglected>>

\* The next lead, in the order of the query's result, which is any order. A
\* lead without a number is passed over.
NextLead(r) ==
  LET q == req[r] IN
  /\ At(r, "next")
  /\ IF q.local.todo = {} THEN Goto(r, "end")
     ELSE \E l \in q.local.todo :
        LET rest == [q.local EXCEPT !.todo = @ \ {l}, !.answer = NULL] IN
        IF q.args.channel = "SMS" /\ leads[l].phone = NULL
        THEN Resume(r, rest, "next")
        ELSE req' = [req EXCEPT ![r] = [@ EXCEPT !.lead = l, !.local = rest, !.pc = "find"]]
  /\ UNCHANGED <<leads, threads, msgs, logs, carrier, failed, neglected>>

\* recordInboundSms: some lead with the number, or none.
MatchLead(r) ==
  LET same == {l \in Lead : leads[l] # NULL /\ leads[l].phone = req[r].args.phone} IN
  /\ At(r, "match")
  /\ IF same = {} THEN Goto(r, "newlead")
     ELSE \E l \in same :
            req' = [req EXCEPT ![r] = [@ EXCEPT !.lead = l, !.pc = "thread"]]
  /\ UNCHANGED <<leads, threads, msgs, logs, carrier, failed, neglected>>

\* A lead of which the number is all that is known, with the default score.
NewLead(r) ==
  /\ At(r, "newlead")
  /\ \E l \in Lead :
        /\ leads[l] = NULL /\ l \notin Foreign
        /\ leads' = [leads EXCEPT ![l] =
              LeadRow([phone |-> req[r].args.phone, email |-> FALSE], NoActivity, 0)]
        /\ req' = [req EXCEPT ![r] = [@ EXCEPT !.lead = l, !.pc = "thread"]]
  /\ UNCHANGED <<threads, msgs, logs, carrier, failed, neglected>>

\* ensureLeadExists. buildMergeContext and the other reads of a handler find
\* nothing that it decides by.
FindLead(r) ==
  /\ At(r, "find")
  /\ IF leads[req[r].lead] = NULL THEN Throw(r)
     ELSE /\ Goto(r, "thread")
          /\ UNCHANGED <<leads, threads, msgs, logs, carrier, failed, neglected>>

-----------------------------------------------------------------------------
Number(q) == IF q.args.phone # NULL THEN q.args.phone ELSE leads[q.lead].phone

Texts(q) == \/ Flow(q) = "sms"
            \/ /\ Flow(q) = "message"
               /\ q.args.channel = "SMS" /\ q.args.direction = "OUTBOUND"
Mails(q) == /\ Flow(q) = "message"
            /\ q.args.channel = "EMAIL" /\ q.args.direction = "OUTBOUND"

\* Texts need a number, mails an address; only sendLeadSms looks at the format.
Unreachable(q) == \/ Texts(q) /\ Number(q) = NULL
                  \/ Flow(q) = "sms" /\ Number(q) \notin Dialable
                  \/ Mails(q) /\ ~leads[q.lead].email

\* A slip: sendLeadSms sends before it writes the row, as sendMessage does.
AfterThreadSends(q) == IF Texts(q) \/ Mails(q) THEN "send" ELSE "save"

\* sendLeadSms writes the row and then sends; sendMessage sends and then writes.
AfterThread(q) ==
  IF Flow(q) # "sms" /\ (Texts(q) \/ Mails(q)) THEN "send" ELSE "save"

\* createOrGetThread, and the checks after it.
GetThread(r) ==
  LET q == req[r] IN
  /\ At(r, "thread")
  /\ threads' = threads \cup {q.lead}
  /\ IF Unreachable(q) THEN failed' = failed \cup {r} /\ UNCHANGED req
     ELSE Goto(r, AfterThread(q)) /\ UNCHANGED failed
  /\ UNCHANGED <<leads, msgs, logs, carrier, neglected>>

\* What the row says before the carrier's own reports.
FirstStatus(q) == CASE Flow(q) = "sms" -> "QUEUED"
                    [] Flow(q) = "inbound" -> "RECEIVED"
                    [] OTHER -> "SENT"

\* A score that another request has worked out for the lead, and not stored
\* yet, is overtaken by the row.
SaveMessage(r) ==
  LET q == req[r] IN
  /\ At(r, "save")
  /\ msgs' = [msgs EXCEPT ![Current(r)] =
        [channel |-> q.args.channel, direction |-> q.args.direction,
         status |-> FirstStatus(q), sid |-> q.local.answer # NULL /\ q.local.answer.sid]]
  /\ req' = [s \in Request |->
        IF s = r THEN [q EXCEPT !.pc = IF Flow(q) = "sms" THEN "send" ELSE "emit"]
        ELSE [req[s] EXCEPT !.local.outdated =
                 @ \/ (req[s].pc = "persist" /\ req[s].lead = q.lead)]]
  /\ UNCHANGED <<leads, threads, logs, carrier, failed, neglected>>

AfterSend(q, answer) == IF Flow(q) = "sms" THEN "store" ELSE "save"

\* The answer of the provider: accepted, refused (or not even tried for want of
\* credentials or a sender), or accepted and the answer lost, which fetch makes
\* an exception of and the provider a failure. Mails and the mock accept all.
Send(r) ==
  LET q == req[r] IN
  /\ At(r, "send")
  /\ \E answer \in Answer, taken \in BOOLEAN :
        /\ IF Texts(q) /\ Live
           THEN /\ answer.sid = (answer.status = "SENT")
                /\ answer.sid => taken
                /\ taken /\ ~answer.sid => Faults
           ELSE answer = [status |-> "SENT", sid |-> FALSE] /\ ~taken
        /\ carrier' = IF taken THEN [carrier EXCEPT ![Current(r)] = "accepted"] ELSE carrier
        /\ Resume(r, [q.local EXCEPT !.answer = answer], AfterSend(q, answer))
  /\ UNCHANGED <<leads, threads, msgs, logs, failed, neglected>>

StoreAnswer(r) ==
  LET answer == req[r].local.answer IN
  /\ At(r, "store")
  /\ msgs' = [msgs EXCEPT ![Current(r)] =
                 [@ EXCEPT !.status = answer.status, !.sid = answer.sid]]
  /\ Goto(r, "emit")
  /\ UNCHANGED <<leads, threads, logs, carrier, failed, neglected>>

-----------------------------------------------------------------------------
\* How a text gets on at the carrier, and what it has reported of it.
CarrierSteps == {<<"accepted", "sent">>, <<"accepted", "failed">>,
                 <<"sent", "delivered">>, <<"sent", "undelivered">>}
Reported == [accepted |-> {}, sent |-> {"sent"}, failed |-> {"failed"},
             delivered |-> {"sent", "delivered"}, undelivered |-> {"sent", "undelivered"}]

CarrierMoves(m) ==
  /\ carrier[m] # NULL
  /\ \E s \in CarrierStatus : /\ <<carrier[m], s>> \in CarrierSteps
                              /\ carrier' = [carrier EXCEPT ![m] = s]
  /\ UNCHANGED <<leads, threads, msgs, logs, req, failed, neglected>>

\* A slip: whatever is not a failure has arrived.
NormalizedEagerly(s) == IF s = "failed" THEN "FAILED" ELSE "DELIVERED"

\* What is looked for first is "deliver", which "undelivered" has in it too.
Normalized(s) == CASE s \in {"delivered", "undelivered"} -> "DELIVERED"
                   [] s = "failed" -> "FAILED"
                   [] OTHER -> "SENT"

\* updateMessageStatusByProviderMessageId: one query changes whatever row has
\* the identifier, if there is one. Any report may come, at any time, again.
HandleStatus(m, s) ==
  /\ carrier[m] # NULL /\ s \in Reported[carrier[m]]
  /\ msgs' = IF msgs[m] # NULL /\ msgs[m].sid
             THEN [msgs EXCEPT ![m].status = Normalized(s)] ELSE msgs
  /\ UNCHANGED <<leads, threads, logs, carrier, req, failed, neglected>>

-----------------------------------------------------------------------------
ActionName == [sms |-> "sms_sent", message |-> "message_sent"]
EventName(q) ==
  CASE Flow(q) = "sms" -> IF q.local.answer.status = "SENT" THEN "sms_sent" ELSE "sms_failed"
    [] Flow(q) = "message" -> "message_sent"
    [] Flow(q) = "call" -> "call_logged"
    [] Flow(q) = "inbound" -> "sms_received"

\* A slip: a call does not count for the score.
AfterEventNoCalls(q) ==
  CASE Flow(q) \in {"sms", "message"} -> "audit" [] Flow(q) = "call" -> "summary"
    [] OTHER -> "touch"

\* Calls and what comes in leave no audit row.
AfterEvent(q) == IF Flow(q) \in {"sms", "message"} THEN "audit" ELSE "touch"

\* The event is stored, or its failure is swallowed.
EmitEvent(r) ==
  LET q == req[r] IN
  /\ At(r, "emit")
  /\ \/ events' = events \cup {[msg |-> Current(r), type |-> EventName(q)]}
     \/ Faults /\ UNCHANGED events
  /\ Goto(r, AfterEvent(q))
  /\ UNCHANGED <<leads, threads, msgs, audit, carrier, failed, neglected>>

WriteAudit(r) ==
  /\ At(r, "audit")
  /\ audit' = audit \cup {[msg |-> Current(r), action |-> ActionName[Flow(req[r])]]}
  /\ Goto(r, "touch")
  /\ UNCHANGED <<leads, threads, msgs, events, carrier, failed, neglected>>

TouchLead(r) ==
  /\ At(r, "touch")
  /\ leads' = [leads EXCEPT ![req[r].lead].age = 0]
  /\ Goto(r, "count")
  /\ UNCHANGED <<threads, msgs, logs, carrier, failed, neglected>>

\* computeScore. The row, once touched, says the same to both of its queries.
CountEvidence(r) ==
  /\ At(r, "count")
  /\ Resume(r, [req[r].local EXCEPT !.score = ScoreOf(req[r].lead), !.outdated = FALSE],
            "persist")
  /\ UNCHANGED <<leads, threads, msgs, logs, carrier, failed, neglected>>

PersistScore(r) ==
  LET q == req[r] IN
  /\ At(r, "persist")
  /\ leads' = [leads EXCEPT ![q.lead].score = q.local.score]
  /\ neglected' = IF q.local.outdated THEN neglected \cup {q.lead} ELSE neglected \ {q.lead}
  /\ Resume(r, [q.local EXCEPT !.score = 0, !.outdated = FALSE],
            IF q.op = "inbound" THEN "end" ELSE "summary")
  /\ UNCHANGED <<threads, msgs, logs, carrier, failed>>

\* getLeadSummaryOrThrow, for the answer; a bulk send goes on.
ReadSummary(r) ==
  LET q == req[r] IN
  /\ At(r, "summary")
  /\ IF q.op = "bulk" THEN Resume(r, [q.local EXCEPT !.accepted = @ + 1], "next")
     ELSE Goto(r, "end")
  /\ UNCHANGED <<leads, threads, msgs, logs, carrier, failed, neglected>>

\* A query fails or the process stops.
Fault(r) == Faults /\ InFlight(r) /\ Throw(r)

Start(r) ==
  StartSms(r) \/ StartMessage(r) \/ StartCall(r) \/ StartBulk(r) \/ StartInbound(r)

Step(r) ==
  \/ FindLeads(r) \/ NextLead(r) \/ MatchLead(r) \/ NewLead(r) \/ FindLead(r)
  \/ GetThread(r) \/ SaveMessage(r) \/ Send(r) \/ StoreAnswer(r)
  \/ EmitEvent(r) \/ WriteAudit(r)
  \/ TouchLead(r) \/ CountEvidence(r) \/ PersistScore(r) \/ ReadSummary(r)

Carrier(m) == CarrierMoves(m) \/ \E s \in CarrierStatus : HandleStatus(m, s)

Next == \/ \E r \in Request : Start(r) \/ Step(r) \/ Fault(r)
        \/ \E m \in Message : Carrier(m)

\* The event loop comes back to every handler whose query or call has been
\* answered; the carrier owes nothing.
Spec == Init /\ [][Next]_vars /\ \A r \in Request : WF_vars(Step(r))

-----------------------------------------------------------------------------
EventType == {"sms_sent", "sms_failed", "message_sent", "call_logged", "sms_received"}

Args == [phone : Phone \cup {NULL}, channel : Channel, direction : Direction,
         leads : SUBSET Lead, template : Channel \cup {NULL}]
Local == [todo : SUBSET Lead, accepted : Nat, answer : Answer \cup {NULL},
          score : MIN_LEAD_SCORE .. MAX_LEAD_SCORE, outdated : BOOLEAN]
RequestState == [pc : PC, op : AllOps \cup {NULL}, lead : Lead \cup {NULL},
                 args : Args, local : Local]

\* Every table and every request is what its columns and fields say.
TypeOK ==
  /\ leads \in [Lead -> LeadRecord \cup {NULL}]
  /\ threads \subseteq {l \in Lead : leads[l] # NULL}
  /\ msgs \in [Message -> MessageRow \cup {NULL}]
  /\ audit \subseteq [msg : Message, action : {"sms_sent", "message_sent"}]
  /\ events \subseteq [msg : Message, type : EventType]
  /\ carrier \in [Message -> CarrierStatus \cup {NULL}]
  /\ req \in [Request -> RequestState]
  /\ failed \subseteq Request /\ neglected \subseteq Lead

\* What has become of a text of which a row may say so. SENT may be late: the
\* carrier has the text, whatever has become of it since.
Warrant == [SENT |-> CarrierStatus, DELIVERED |-> {"delivered"},
            FAILED |-> {"failed", "undelivered"}]

\* The report of which communications.service.ts:209 makes the opposite, though
\* the line has a branch for it: see UndeliveredIsFailed.
Misread(m) == carrier[m] = "undelivered" /\ msgs[m].status = "DELIVERED"

\* updateMessageStatusByProviderMessageId: a row that has the carrier's
\* identifier of its text says DELIVERED only of one that arrived and FAILED only
\* of one that did not, however late, often, early or out of order the reports
\* came; the exception is an "undelivered" that was misread.
StatusUnlessMisread ==
  \A m \in Message : msgs[m] # NULL /\ msgs[m].sid =>
    /\ msgs[m].status \in DOMAIN Warrant
    /\ carrier[m] \in Warrant[msgs[m].status] \/ Misread(m)

\* Nothing that sendLeadSms hands to the carrier is without its row, faults or
\* not; what sendMessage hands over may be, if its request is cut short.
TextHasRow ==
  \A r \in Request, l \in Lead :
    carrier[<<r, l>>] # NULL =>
      \/ msgs[<<r, l>>] # NULL
      \/ Flow(req[r]) = "message" /\ req[r].pc = "save"

\* Does r still owe the message to l the steps that follow its row, or was it
\* cut short between them?
Owes(r, l) == req[r].lead = l /\ req[r].pc \notin {"summary", "end", "next"}

\* Every handler ends by rescoring the lead: the stored score is the score of
\* the messages there are, unless a request is not done with one of them, or the
\* last score stored was overtaken.
ScoreFollowsMessages ==
  \A l \in Lead : leads[l] # NULL =>
    \/ leads[l].score = ScoreOf(l)
    \/ l \in neglected
    \/ \E r \in Request : Owes(r, l)

\* What was texted or sent in bulk by a request that has been answered.
Reached(r) == {l \in Lead : msgs[<<r, l>>] # NULL}

\* bulkSend: an answer counts the leads that have got a row, each of them has
\* its audit row, and those left out are not there or have no number.
BulkAccounts ==
  \A r \in Request : req[r].op = "bulk" /\ At(r, "end") =>
    /\ req[r].local.accepted = Cardinality(Reached(r))
    /\ \A l \in Reached(r) : \E a \in audit : a.msg = <<r, l>>
    /\ \A l \in req[r].args.leads \ Reached(r) :
          leads[l] = NULL \/ leads[l].phone = NULL

\* bulkSend: whatever lead is without a number, elsewhere or fails, and whatever
\* calls and texts come between, the loop comes to its end and is answered, or
\* the request was cut short.
BulkEnds == \A r \in Request : []<>~(req[r].op = "bulk" /\ InFlight(r))

\* communications.service.ts:209, normalized.includes('undeliver') ?
\* MessageStatus.FAILED.
UndeliveredIsFailed ==
  [][\A m \in Message :
       HandleStatus(m, "undelivered") /\ msgs[m] # NULL /\ msgs[m].sid
         => msgs'[m].status = "FAILED"]_vars
=============================================================================

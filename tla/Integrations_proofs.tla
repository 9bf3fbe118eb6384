------------------------- MODULE Integrations_proofs -------------------------
(***************************************************************************)
(* Proofs about the rate limiter, for every window, limit and number of     *)
(* senders, and about imports and webhooks, for any number of requests,     *)
(* whatever the files and payloads are.                                     *)
(***************************************************************************)
EXTENDS MCIntegrations, FiniteSetTheorems, TLAPS

(***************************************************************************)
(* The bound of the limiter. What a key remembers covers everything that    *)
(* was let through less than a window ago (Remembers), so that the span     *)
(* that ends with a new hit holds at most the hits that were counted for    *)
(* it, and itself.                                                          *)
(***************************************************************************)

\* What was let through is past, and finite; what is younger than the window
\* is remembered.
Remembers ==
  \A k \in Key :
    /\ IsFiniteSet(accepted[k])
    /\ \A h \in accepted[k] : h.at <= now
    /\ hits[k] \subseteq accepted[k]
    /\ {h \in accepted[k] : now - h.at < Window} \subseteq hits[k]

\* The bound, at every time.
BoundedAlways ==
  \A k \in Key, t \in Nat : Cardinality(Within(k, t)) <= Limit

LimiterInv == LimiterTypeOK /\ Remembers /\ BoundedAlways

LEMMA AddOne ==
  ASSUME NEW S, IsFiniteSet(S), NEW x
  PROVE  IsFiniteSet(S \cup {x}) /\ Cardinality(S \cup {x}) <= Cardinality(S) + 1
<1>1. Cardinality(S) \in Nat
  BY FS_CardinalityType
<1>2. /\ IsFiniteSet(S \cup {x})
      /\ Cardinality(S \cup {x}) = Cardinality(S) \/ Cardinality(S \cup {x}) = Cardinality(S) + 1
  BY FS_AddElement
<1> QED
  BY <1>1, <1>2

\* No hit is remembered at the start.
LEMMA InitLimiter == LimiterInit => LimiterInv
<1> SUFFICES ASSUME LimiterInit PROVE LimiterInv
  OBVIOUS
<1> USE DEF LimiterInit
<1>1. LimiterTypeOK
  BY DEF LimiterTypeOK
<1>2. Remembers
  BY FS_EmptySet DEF Remembers
<1>3. BoundedAlways
  <2> SUFFICES ASSUME NEW k \in Key, NEW t \in Nat
               PROVE  Cardinality(Within(k, t)) <= Limit
    BY DEF BoundedAlways
  <2>1. Within(k, t) = {}
    BY DEF Within
  <2> QED
    BY <2>1, FS_EmptySet, RateLimiterAssumption
<1> QED
  BY <1>1, <1>2, <1>3 DEF LimiterInv

LEMMA TickLimiter == LimiterInv /\ Tick => LimiterInv'
<1> SUFFICES ASSUME LimiterInv, Tick PROVE LimiterInv'
  OBVIOUS
<1> USE DEF Tick, LimiterInv
<1>1. LimiterTypeOK'
  BY DEF LimiterTypeOK
<1>2. Remembers'
  <2> SUFFICES ASSUME NEW k \in Key
               PROVE  /\ IsFiniteSet(accepted'[k])
                      /\ \A h \in accepted'[k] : h.at <= now'
                      /\ hits'[k] \subseteq accepted'[k]
                      /\ {h \in accepted'[k] : now' - h.at < Window} \subseteq hits'[k]
    BY DEF Remembers
  <2>1. \A h \in accepted[k] : h.at \in Nat
    BY DEF LimiterTypeOK, Stamped
  <2>2. now \in Nat /\ Window \in Nat
    BY RateLimiterAssumption DEF LimiterTypeOK
  <2> QED
    BY <2>1, <2>2 DEF Remembers
<1>3. BoundedAlways'
  BY DEF BoundedAlways, Within
<1> QED
  BY <1>1, <1>2, <1>3

LEMMA RefuseLimiter == ASSUME NEW k \in Key PROVE LimiterInv /\ Refuse(k) => LimiterInv'
<1> SUFFICES ASSUME LimiterInv, Refuse(k) PROVE LimiterInv'
  OBVIOUS
<1> USE DEF Refuse, LimiterInv
<1>1. LimiterTypeOK'
  BY DEF LimiterTypeOK, Recent
<1>2. Remembers'
  <2> SUFFICES ASSUME NEW l \in Key
               PROVE  /\ hits'[l] \subseteq accepted[l]
                      /\ {h \in accepted[l] : now - h.at < Window} \subseteq hits'[l]
    BY DEF Remembers
  <2>1. hits'[l] = IF l = k THEN Recent(k) ELSE hits[l]
    BY DEF LimiterTypeOK
  <2> QED
    BY <2>1 DEF Remembers, Recent
<1>3. BoundedAlways'
  BY DEF BoundedAlways, Within
<1> QED
  BY <1>1, <1>2, <1>3

LEMMA AcceptLimiter ==
  ASSUME NEW k \in Key, NEW x \in Hit PROVE LimiterInv /\ Accept(k, x) => LimiterInv'
<1> SUFFICES ASSUME LimiterInv, Accept(k, x) PROVE LimiterInv'
  OBVIOUS
<1> DEFINE new == [hit |-> x, at |-> now]
<1>1. now \in Nat /\ now' = now /\ Window \in Nat /\ Limit \in Nat /\ new \in Stamped
  BY RateLimiterAssumption DEF Accept, LimiterInv, LimiterTypeOK, Stamped
<1>2. /\ hits' = [hits EXCEPT ![k] = Recent(k) \cup {new}]
      /\ accepted' = [accepted EXCEPT ![k] = accepted[k] \cup {new}]
  BY DEF Accept
<1>3. \A l \in Key : /\ hits'[l] = IF l = k THEN Recent(k) \cup {new} ELSE hits[l]
                     /\ accepted'[l] = IF l = k THEN accepted[k] \cup {new} ELSE accepted[l]
  BY <1>2 DEF LimiterInv, LimiterTypeOK
<1>4. new.at = now
  OBVIOUS
<1>5. Recent(k) = {h \in accepted[k] : now - h.at < Window}
  BY DEF LimiterInv, Remembers, Recent
<1>6. IsFiniteSet(accepted[k]) /\ \A h \in accepted[k] : h.at \in Nat /\ h.at <= now
  BY DEF LimiterInv, Remembers, LimiterTypeOK, Stamped
<1>7. IsFiniteSet(Recent(k)) /\ Cardinality(Recent(k)) \in Nat
  BY <1>5, <1>6, FS_Subset, FS_CardinalityType
<1>8. Cardinality(Recent(k)) < Limit
  BY <1>1, <1>7 DEF Accept, Full
<1> HIDE DEF new
<1>9. LimiterTypeOK'
  BY <1>1, <1>2 DEF LimiterInv, LimiterTypeOK, Recent
<1>10. Remembers'
  <2> SUFFICES ASSUME NEW l \in Key
               PROVE  /\ IsFiniteSet(accepted'[l])
                      /\ \A h \in accepted'[l] : h.at <= now
                      /\ hits'[l] \subseteq accepted'[l]
                      /\ {h \in accepted'[l] : now - h.at < Window} \subseteq hits'[l]
    BY <1>1 DEF Remembers
  <2>1. CASE l # k
    BY <2>1, <1>3 DEF LimiterInv, Remembers
  <2>2. CASE l = k
    <3>1. accepted'[l] = accepted[k] \cup {new} /\ hits'[l] = Recent(k) \cup {new}
      BY <1>3, <2>2
    <3>2. IsFiniteSet(accepted[k] \cup {new})
      BY <1>6, FS_AddElement
    <3> QED
      BY <3>1, <3>2, <1>1, <1>4, <1>5, <1>6
  <2> QED
    BY <2>1, <2>2
<1>11. BoundedAlways'
  <2> SUFFICES ASSUME NEW l \in Key, NEW t \in Nat
               PROVE  Cardinality(Within(l, t)') <= Limit
    BY DEF BoundedAlways
  <2> DEFINE W == {h \in accepted'[l] : t - Window < h.at /\ h.at <= t}
  <2>1. Within(l, t)' = W
    BY DEF Within
  <2>2. CASE l # k \/ ~(t - Window < now /\ now <= t)
    <3>1. W = Within(l, t)
      BY <2>2, <1>3, <1>4 DEF Within
    <3> QED
      BY <2>1, <3>1 DEF LimiterInv, BoundedAlways
  <2>3. CASE l = k /\ t - Window < now /\ now <= t
    <3>1. W \subseteq Recent(k) \cup {new}
      <4> SUFFICES ASSUME NEW h \in W, h # new PROVE h \in Recent(k)
        OBVIOUS
      <4>1. h \in accepted[k] /\ t - Window < h.at
        BY <2>3, <1>3
      <4>2. now - h.at < Window
        BY <4>1, <2>3, <1>1, <1>6
      <4> QED
        BY <4>1, <4>2, <1>5
    <3>2. /\ IsFiniteSet(Recent(k) \cup {new})
          /\ Cardinality(Recent(k) \cup {new}) <= Cardinality(Recent(k)) + 1
      BY <1>7, AddOne
    <3>3. IsFiniteSet(W) /\ Cardinality(W) <= Cardinality(Recent(k) \cup {new})
      BY <3>1, <3>2, FS_Subset
    <3>4. Cardinality(W) \in Nat /\ Cardinality(Recent(k) \cup {new}) \in Nat
      BY <3>2, <3>3, FS_CardinalityType
    <3> HIDE DEF W
    <3> QED
      BY <2>1, <3>2, <3>3, <3>4, <1>1, <1>7, <1>8
  <2> QED
    BY <2>2, <2>3
<1> QED
  BY <1>9, <1>10, <1>11 DEF LimiterInv

LEMMA NextLimiter == LimiterInv /\ [LimiterNext]_limiterVars => LimiterInv'
<1>1. LimiterInv /\ UNCHANGED limiterVars => LimiterInv'
  BY DEF LimiterInv, LimiterTypeOK, Remembers, BoundedAlways, Within, limiterVars
<1> QED
  BY <1>1, TickLimiter, RefuseLimiter, AcceptLimiter DEF LimiterNext

LEMMA SpecLimiter == LimiterSpec => []LimiterInv
BY InitLimiter, NextLimiter, PTL DEF LimiterSpec

LEMMA LimiterInvBounded == LimiterInv => Bounded
<1> SUFFICES ASSUME LimiterInv, NEW k \in Key, NEW t \in 0 .. now
             PROVE  IsFiniteSet(Within(k, t)) /\ Cardinality(Within(k, t)) <= Limit
  BY DEF Bounded
<1>1. t \in Nat
  BY DEF LimiterInv, LimiterTypeOK
<1>2. IsFiniteSet(accepted[k]) /\ Within(k, t) \subseteq accepted[k]
  BY DEF LimiterInv, Remembers, Within
<1>3. IsFiniteSet(Within(k, t))
  BY <1>2, FS_Subset
<1> QED
  BY <1>1, <1>3 DEF LimiterInv, BoundedAlways

\* Whatever the window and the limit are, and however many senders there are,
\* no span of one window holds more than the limit of accepted hits of a sender.
THEOREM RateIsBounded == LimiterSpec => []Bounded
BY SpecLimiter, LimiterInvBounded, PTL

-----------------------------------------------------------------------------
(***************************************************************************)
(* Imports and webhooks. Where a request is tells which rows have an event, *)
(* which are counted, whether its lead is there already, and what the       *)
(* queries for a duplicate have shown; each is a property of one request,   *)
(* and no step of one disturbs that of another.                             *)
(***************************************************************************)
BeforeEvents == {"idle", "connect", "limit", "match", "lookup"}
InRow == {"normalize", "skip", "email", "phone", "create", "finish", "done", "caught"}
CsvPC == InRow \cup {"lookup", "event", "emit", "end"}
WebhookPC == (InRow \ {"skip", "email", "phone"})
               \cup {"limit", "match", "event", "audit", "end"}

\* The rows that have an event, and the rows of an import that are counted.
EventRows(q) ==
  IF q.pc \in BeforeEvents \/ q.op = "connect" THEN {}
  ELSE IF q.pc = "event" THEN 1 .. q.row - 1 ELSE 1 .. q.row

LastCounted(q) == IF q.pc \in {"lookup", "emit", "end"} THEN q.row ELSE q.row - 1

Importing(q) == q.pc # "idle" /\ q.op = "csv"

Fields == {"pc", "op", "dealership", "integration", "provider", "sender", "secret", "file",
           "payload", "source", "active", "row", "inbound", "lead", "known", "successes",
           "failures"}

Shaped(q) ==
  /\ DOMAIN q = Fields
  /\ \/ q.pc = "idle"
     \/ q.op = "connect" /\ q.pc \in {"connect", "end"}
     \/ /\ q.op = "webhook" /\ q.pc \in WebhookPC
        /\ q.provider \in Provider /\ q.sender \in Sender /\ q.row = 1
     \/ /\ q.op = "csv" /\ q.pc \in CsvPC /\ q.file \in Files
        /\ q.row \in 0 .. Len(q.file.rows) /\ (q.row = 0 <=> q.pc = "lookup")
        /\ q.pc \in {"emit", "end"} => q.row = Len(q.file.rows)
        /\ q.successes \in Seq(Nat) /\ q.failures \in Seq(Nat)

OkRows(r) == {n \in 1 .. LastCounted(req[r]) : events[<<r, n>>].ok}

\* The rows of a request that have an event are those it has come to.
Recorded(r) ==
  /\ EventsOf(r) = {<<r, n>> : n \in EventRows(req[r])}
  /\ req[r].pc \in InRow \cup {"audit"} => events[EventOf(r)].dealership = req[r].dealership

\* What an import counts is what its events say.
Accounted(r) ==
  Importing(req[r]) =>
    /\ ToSet(req[r].successes) = OkRows(r)
    /\ Len(req[r].successes) = Cardinality(OkRows(r))
    /\ Len(req[r].successes) + Len(req[r].failures) = LastCounted(req[r])

\* A lead was created for the row, and is in the dealership of the request.
Created(r) ==
  req[r].pc \in {"finish", "done"} =>
    /\ req[r].lead = EventOf(r)
    /\ \E l \in leads : l.id = EventOf(r) /\ l.dealership = req[r].dealership

\* Unless a query has failed, the leads of a request are those of its processed
\* events, and the one that is not yet marked.
Paired(r) ==
  r \notin hurt =>
    /\ {l.id : l \in CreatedBy(r)} = {e \in EventsOf(r) : events[e].ok}
         \cup (IF req[r].pc \in {"finish", "done"} THEN {EventOf(r)} ELSE {})
    /\ req[r].pc \in InRow => ~events[EventOf(r)].ok

\* The leads that were there when the row was looked for are there still, and
\* are no twins of it as far as it has been looked.
Single(r) ==
  Importing(req[r]) /\ req[r].pc \in {"phone", "create"} =>
    /\ req[r].known \subseteq LeadsOf(req[r].dealership)
    /\ \A l \in req[r].known :
         /\ ~SameEmail(req[r].inbound.email, l.email)
         /\ req[r].pc = "create" => ~SamePhone(req[r].inbound.phone, l.phone)

Good(r) ==
  Shaped(req[r]) /\ Recorded(r) /\ Accounted(r) /\ Created(r) /\ Paired(r) /\ Single(r)

EventShape == \A e \in DOMAIN events : DOMAIN events[e] = DOMAIN NoEvent

IInv ==
  /\ DOMAIN req = Request
  /\ EventShape
  /\ OkEventHasLead
  /\ \A r \in Request : Good(r)

-----------------------------------------------------------------------------
LEMMA IdleShape ==
  /\ DOMAIN Idle = Fields /\ Idle.pc = "idle"
  /\ DOMAIN NoEvent = {"dealership", "integration", "ok", "lead"}
BY DEF Idle, Fields, NoEvent

LEMMA InitIInv == Init => IInv
<1> SUFFICES ASSUME Init PROVE IInv
  OBVIOUS
<1>1. DOMAIN req = Request /\ events = <<>> /\ \A r \in Request : req[r] = Idle
  BY DEF Init
<1>2. DOMAIN events = {}
  BY <1>1
<1>3. EventShape /\ OkEventHasLead
  BY <1>2 DEF EventShape, OkEventHasLead
<1>4. ASSUME NEW r \in Request PROVE Good(r)
  <2>1. req[r] = Idle /\ req[r].pc = "idle" /\ EventsOf(r) = {}
    BY <1>1, <1>2, IdleShape DEF EventsOf
  <2>2. Shaped(req[r])
    BY <2>1, IdleShape DEF Shaped
  <2>3. EventRows(req[r]) = {}
    BY <2>1 DEF EventRows, BeforeEvents
  <2>4. Recorded(r)
    BY <2>1, <2>3 DEF Recorded, InRow
  <2>5. Accounted(r) /\ Created(r) /\ Single(r)
    BY <2>1 DEF Accounted, Created, Single, Importing
  <2>6. CreatedBy(r) = {}
    BY InitialLeadsAssumption DEF Init, CreatedBy
  <2>7. Paired(r)
    BY <2>1, <2>6 DEF Paired, InRow
  <2> QED
    BY <2>2, <2>4, <2>5, <2>7 DEF Good
<1> QED
  BY <1>1, <1>3, <1>4 DEF IInv
-----------------------------------------------------------------------------
\* The fields that a step of a request may set do not tell how far it is.
LEMMA CountedHasEvent ==
  ASSUME NEW q, Shaped(q), Importing(q)
  PROVE  1 .. LastCounted(q) \subseteq EventRows(q)
BY DEF Shaped, Importing, LastCounted, EventRows, CsvPC, InRow, BeforeEvents

LEMMA EventsHave ==
  ASSUME NEW r \in Request, Good(r)
  PROVE  /\ \A n \in EventRows(req[r]) : <<r, n>> \in EventsOf(r)
         /\ req[r].pc \in InRow \cup {"audit"} => EventOf(r) \in EventsOf(r)
<1>1. \A n \in EventRows(req[r]) : <<r, n>> \in EventsOf(r)
  BY DEF Good, Recorded
<1>2. ASSUME req[r].pc \in InRow \cup {"audit"} PROVE EventOf(r) \in EventsOf(r)
  <2>1. req[r].row \in 1 .. req[r].row /\ EventRows(req[r]) = 1 .. req[r].row
    <3>1. req[r].pc \notin {"idle", "connect", "limit", "match", "lookup", "event", "end"}
      BY <1>2 DEF InRow
    <3>2. req[r].op # "connect" /\ req[r].row \in Nat /\ req[r].row # 0
      BY <3>1 DEF Good, Shaped
    <3> QED
      BY <3>1, <3>2 DEF EventRows, BeforeEvents
  <2> QED
    BY <2>1, <1>1 DEF EventOf
<1> QED
  BY <1>1, <1>2

\* A request that does not move is not disturbed by the others.
LEMMA Bystander ==
  ASSUME NEW s \in Request, Good(s),
         req'[s] = req[s], s \in hurt' <=> s \in hurt,
         EventsOf(s)' = EventsOf(s), \A e \in EventsOf(s) : events'[e] = events[e],
         leads \subseteq leads', CreatedBy(s)' = CreatedBy(s)
  PROVE  Good(s)'
<1> DEFINE q == req[s]
<1>1. req'[s] = q
  OBVIOUS
<1>2. Shaped(q)
  BY DEF Good
<1>3. EventOf(s)' = EventOf(s)
  BY <1>1 DEF EventOf
<1>4. q.pc \in InRow \cup {"audit"} => events'[EventOf(s)] = events[EventOf(s)]
  BY EventsHave
<1>5. Recorded(s)'
  <2>1. Recorded(s)
    BY DEF Good
  <2>2. EventsOf(s)' = {<<s, n>> : n \in EventRows(q)}
    BY <2>1 DEF Recorded
  <2>3. q.pc \in InRow \cup {"audit"} => events'[EventOf(s)].dealership = q.dealership
    BY <2>1, <1>4 DEF Recorded
  <2> HIDE DEF q
  <2> QED
    BY <2>2, <2>3, <1>1, <1>3 DEF Recorded
<1>6. Accounted(s)'
  <2>1. CASE ~Importing(q)
    BY <2>1, <1>1 DEF Accounted
  <2>2. CASE Importing(q)
    <3>1. \A n \in 1 .. LastCounted(q) : events'[<<s, n>>] = events[<<s, n>>]
      BY <2>2, <1>2, CountedHasEvent, EventsHave
    <3>2. OkRows(s)' = OkRows(s)
      BY <3>1, <1>1 DEF OkRows
    <3>3. Accounted(s)
      BY DEF Good
    <3> HIDE DEF q
    <3> QED
      BY <3>2, <3>3, <1>1 DEF Accounted
  <2> QED
    BY <2>1, <2>2
<1>7. Created(s)'
  <2>1. Created(s)
    BY DEF Good
  <2> QED
    BY <2>1, <1>1, <1>3 DEF Created
<1>8. Paired(s)'
  <2>1. Paired(s)
    BY DEF Good
  <2>2. {e \in EventsOf(s)' : events'[e].ok} = {e \in EventsOf(s) : events[e].ok}
    OBVIOUS
  <2>3. {l.id : l \in CreatedBy(s)'} = {l.id : l \in CreatedBy(s)}
    OBVIOUS
  <2>4. q.pc \in InRow => events'[EventOf(s)] = events[EventOf(s)]
    BY <1>4
  <2> QED
    BY <2>1, <2>2, <2>3, <2>4, <1>1, <1>3 DEF Paired
<1>9. Single(s)'
  <2>1. Single(s)
    BY DEF Good
  <2>2. LeadsOf(q.dealership) \subseteq LeadsOf(q.dealership)'
    BY DEF LeadsOf
  <2> QED
    BY <2>1, <2>2, <1>1 DEF Single, LeadsOf
<1> QED
  BY <1>1, <1>2, <1>5, <1>6, <1>7, <1>8, <1>9 DEF Good

\* It is enough to look at the request that moves.
LEMMA Alone ==
  ASSUME IInv, NEW r \in Request, Good(r)', DOMAIN req' = Request, EventShape', OkEventHasLead',
         \A s \in Request \ {r} : req'[s] = req[s] /\ (s \in hurt' <=> s \in hurt),
         \A s \in Request \ {r} : EventsOf(s)' = EventsOf(s),
         \A s \in Request \ {r} : \A e \in EventsOf(s) : events'[e] = events[e],
         leads \subseteq leads', \A l \in leads' : l \notin leads => l.id[1] = r
  PROVE  IInv'
<1>1. ASSUME NEW s \in Request, s # r PROVE Good(s)'
  <2>1. CreatedBy(s)' = CreatedBy(s)
    BY <1>1 DEF CreatedBy
  <2>2. Good(s)
    BY DEF IInv
  <2>3. /\ req'[s] = req[s] /\ (s \in hurt' <=> s \in hurt)
        /\ EventsOf(s)' = EventsOf(s)
        /\ \A e \in EventsOf(s) : events'[e] = events[e]
    BY <1>1
  <2> QED
    BY <2>1, <2>2, <2>3, Bystander
<1> QED
  BY <1>1 DEF IInv
\* A step that leaves the events and the leads alone.
LEMMA Still ==
  ASSUME IInv, NEW r \in Request, UNCHANGED <<leads, events>>, DOMAIN req' = Request,
         \A s \in Request \ {r} : req'[s] = req[s] /\ (s \in hurt' <=> s \in hurt),
         Good(r)'
  PROVE  IInv'
<1>1. \A s \in Request : EventsOf(s)' = EventsOf(s)
  BY DEF EventsOf
<1>2. EventShape' /\ OkEventHasLead'
  BY DEF IInv, EventShape, OkEventHasLead
<1> QED
  BY <1>1, <1>2, Alone

\* What does not say how far a request is, within a row and after it.
SameRow(q, p) ==
  /\ DOMAIN p = Fields
  /\ p.op = q.op /\ p.dealership = q.dealership /\ p.provider = q.provider
  /\ p.sender = q.sender /\ p.file = q.file /\ p.row = q.row
  /\ p.successes = q.successes /\ p.failures = q.failures

\* A request that moves on in its row.
LEMMA MovesOn ==
  ASSUME NEW r \in Request, Good(r), UNCHANGED events, SameRow(req[r], req'[r]),
         req[r].pc \in InRow \cup {"audit"},
         req'[r].pc \in InRow \cup {"audit"},
         req[r].op = "webhook" => req'[r].pc \in WebhookPC,
         req[r].op = "csv" => req'[r].pc # "audit"
  PROVE  Shaped(req'[r]) /\ Recorded(r)' /\ Accounted(r)'
<1> DEFINE q == req[r]
           p == req'[r]
<1>1. Shaped(q) /\ SameRow(q, p)
  BY DEF Good
<1>2. /\ q.pc \notin BeforeEvents \cup {"event", "emit", "end"}
      /\ p.pc \notin BeforeEvents \cup {"event", "emit", "end"}
  BY DEF InRow, BeforeEvents
<1>3. q.op \in {"webhook", "csv"}
  BY <1>1, <1>2 DEF Shaped, BeforeEvents
<1>4. Shaped(p)
  <2>1. CASE q.op = "webhook"
    BY <2>1, <1>1, <1>2 DEF Shaped, SameRow, BeforeEvents
  <2>2. CASE q.op = "csv"
    <3>1. p.pc \in CsvPC
      BY <2>2 DEF CsvPC
    <3> QED
      BY <3>1, <2>2, <1>1, <1>2 DEF Shaped, SameRow, BeforeEvents
  <2> QED
    BY <2>1, <2>2, <1>3
<1>5. EventRows(p) = EventRows(q) /\ LastCounted(p) = LastCounted(q) /\ p.row = q.row
  BY <1>1, <1>2, <1>3 DEF EventRows, LastCounted, SameRow, BeforeEvents
<1>6. EventOf(r)' = EventOf(r) /\ EventsOf(r)' = EventsOf(r)
  BY <1>5 DEF EventOf, EventsOf
<1>7. Recorded(r)'
  <2>1. Recorded(r) /\ p.dealership = q.dealership
    BY <1>1 DEF Good, SameRow
  <2> QED
    BY <2>1, <1>5, <1>6 DEF Recorded
<1>8. Accounted(r)'
  <2>1. Accounted(r) /\ p.op = q.op /\ p.successes = q.successes /\ p.failures = q.failures
    BY <1>1 DEF Good, SameRow
  <2>2. OkRows(r)' = OkRows(r)
    BY <1>5 DEF OkRows
  <2>3. q.pc # "idle" /\ q.pc # "lookup"
    BY <1>2 DEF BeforeEvents
  <2> QED
    BY <2>1, <2>2, <2>3, <1>5 DEF Accounted, Importing
<1> QED
  BY <1>4, <1>7, <1>8

LEMMA StaysPaired ==
  ASSUME NEW r \in Request, Good(r), UNCHANGED <<events, leads>>, req'[r].row = req[r].row,
         r \notin hurt' => r \notin hurt,
         req'[r].pc \in {"finish", "done"} <=> req[r].pc \in {"finish", "done"},
         req'[r].pc \in InRow => req[r].pc \in InRow
  PROVE  Paired(r)'
<1>1. EventOf(r)' = EventOf(r) /\ EventsOf(r)' = EventsOf(r) /\ CreatedBy(r)' = CreatedBy(r)
  BY DEF EventOf, EventsOf, CreatedBy
<1>2. Paired(r)
  BY DEF Good
<1> QED
  BY <1>1, <1>2 DEF Paired
-----------------------------------------------------------------------------
\* A request that has no event yet, and has counted nothing, is in order.
LEMMA NothingYet ==
  ASSUME NEW r \in Request, Good(r), UNCHANGED <<events, leads, hurt>>, Shaped(req'[r]),
         EventRows(req[r]) = {}, EventRows(req'[r]) = {},
         req[r].pc \notin InRow \cup {"audit"}, req'[r].pc \notin InRow \cup {"audit"},
         Importing(req'[r]) =>
           /\ req'[r].successes = <<>> /\ req'[r].failures = <<>>
           /\ \/ req'[r].pc = "lookup" /\ req'[r].row = 0
              \/ req'[r].pc = "event" /\ req'[r].row = 1
  PROVE  Good(r)'
<1>1. EventsOf(r)' = EventsOf(r) /\ CreatedBy(r)' = CreatedBy(r)
  BY DEF EventsOf, CreatedBy
<1>2. Recorded(r)'
  BY <1>1 DEF Good, Recorded
<1>3. Accounted(r)'
  <2> SUFFICES ASSUME Importing(req'[r]) PROVE
               /\ ToSet(req'[r].successes) = OkRows(r)'
               /\ Len(req'[r].successes) = Cardinality(OkRows(r)')
               /\ Len(req'[r].successes) + Len(req'[r].failures) = LastCounted(req'[r])
    BY DEF Accounted
  <2>1. 1 .. LastCounted(req'[r]) = {}
    BY DEF LastCounted
  <2>2. OkRows(r)' = {}
    BY <2>1 DEF OkRows
  <2>3. Cardinality(OkRows(r)') = 0
    BY <2>2, FS_EmptySet
  <2>4. ToSet(<<>>) = {} /\ Len(<<>>) = 0
    BY DEF ToSet
  <2>5. LastCounted(req'[r]) = 0
    BY DEF LastCounted
  <2>6. req'[r].successes = <<>> /\ req'[r].failures = <<>>
    OBVIOUS
  <2> QED
    BY <2>2, <2>3, <2>4, <2>5, <2>6
<1>4. Created(r)' /\ Single(r)' /\ req[r].pc \notin {"finish", "done"}
      /\ req'[r].pc \notin {"finish", "done"}
  BY DEF Created, Single, InRow
<1>5. Paired(r)'
  BY <1>1, <1>4 DEF Good, Paired
<1> QED
  BY <1>2, <1>3, <1>4, <1>5 DEF Good

LEMMA StartShapes ==
  ASSUME NEW q, DOMAIN q = Fields
  PROVE  /\ q.op = "connect" /\ q.pc = "connect" => Shaped(q)
         /\ q.op = "webhook" /\ q.pc = "limit" /\ q.row = 1
            /\ q.provider \in Provider /\ q.sender \in Sender => Shaped(q)
         /\ q.op = "csv" /\ q.pc = "lookup" /\ q.row = 0 /\ q.file \in Files
            /\ q.successes = <<>> /\ q.failures = <<>> => Shaped(q)
<1>1. q.op = "connect" /\ q.pc = "connect" => Shaped(q)
  BY DEF Shaped
<1>2. ASSUME q.op = "webhook", q.pc = "limit", q.row = 1,
             q.provider \in Provider, q.sender \in Sender
      PROVE  Shaped(q)
  BY <1>2 DEF Shaped, WebhookPC
<1>3. ASSUME q.op = "csv", q.pc = "lookup", q.row = 0, q.file \in Files,
             q.successes = <<>>, q.failures = <<>>
      PROVE  Shaped(q)
  <2>1. 0 \in 0 .. Len(q.file.rows) /\ <<>> \in Seq(Nat)
    BY <1>3, FilesAssumption
  <2> QED
    BY <1>3, <2>1 DEF Shaped, CsvPC
<1> QED
  BY <1>1, <1>2, <1>3

LEMMA StartIInv == ASSUME IInv, NEW r \in Request, Start(r) PROVE IInv'
<1>1. UNCHANGED <<events, leads, hurt>> /\ req[r].pc = "idle" /\ DOMAIN req = Request /\ Good(r)
  BY DEF Start, Quiet, At, tables, IInv
<1>2. DOMAIN Idle = Fields /\ Idle.row = 0 /\ Idle.successes = <<>> /\ Idle.failures = <<>>
  BY DEF Idle, Fields
<1>3. DOMAIN req' = Request /\ \A s \in Request \ {r} : req'[s] = req[s]
  BY <1>1 DEF Start
<1>4. EventRows(req[r]) = {}
  BY <1>1 DEF EventRows, BeforeEvents
<1>5. /\ Shaped(req'[r])
      /\ \/ req'[r].op = "connect" /\ req'[r].pc = "connect"
         \/ /\ req'[r].op = "csv" /\ req'[r].pc = "lookup" /\ req'[r].row = 0
            /\ req'[r].successes = <<>> /\ req'[r].failures = <<>>
         \/ req'[r].op = "webhook" /\ req'[r].pc = "limit"
  <2>1. CASE \E d \in Dealership, n \in Name, p \in Provider, s \in Secret, a \in ActiveArg :
             req' = [req EXCEPT ![r] = [Idle EXCEPT !.pc = "connect", !.op = "connect",
               !.dealership = d, !.integration = n, !.provider = p, !.secret = s, !.active = a]]
    <3>1. req'[r].op = "connect" /\ req'[r].pc = "connect" /\ DOMAIN req'[r] = Fields
      BY <2>1, <1>1, <1>2 DEF Fields
    <3>2. Shaped(req'[r])
      BY <3>1, StartShapes
    <3> QED
      BY <3>1, <3>2
  <2>2. CASE \E d \in Dealership, f \in Files, n \in Name \cup {NULL}, s \in SourceArg :
             req' = [req EXCEPT ![r] = [Idle EXCEPT !.pc = "lookup", !.op = "csv",
               !.dealership = d, !.integration = n, !.file = f, !.source = s]]
    <3>1. /\ req'[r].op = "csv" /\ req'[r].pc = "lookup" /\ DOMAIN req'[r] = Fields
          /\ req'[r].row = 0 /\ req'[r].successes = <<>> /\ req'[r].failures = <<>>
          /\ req'[r].file \in Files
      BY <2>2, <1>1, <1>2 DEF Fields
    <3>2. Shaped(req'[r])
      BY <3>1, StartShapes
    <3> QED
      BY <3>1, <3>2
  <2>3. CASE \E p \in Provider, w \in Sender, s \in Secret \cup {NULL}, o \in Payloads :
             req' = [req EXCEPT ![r] = [Idle EXCEPT !.pc = "limit", !.op = "webhook",
               !.provider = p, !.sender = w, !.secret = s, !.payload = o, !.row = 1]]
    <3>1. /\ req'[r].op = "webhook" /\ req'[r].pc = "limit" /\ DOMAIN req'[r] = Fields
          /\ req'[r].row = 1 /\ req'[r].provider \in Provider /\ req'[r].sender \in Sender
      BY <2>3, <1>1, <1>2 DEF Fields
    <3>2. Shaped(req'[r])
      BY <3>1, StartShapes
    <3> QED
      BY <3>1, <3>2
  <2> QED
    BY <2>1, <2>2, <2>3 DEF Start
<1>6. EventRows(req'[r]) = {}
  BY <1>5 DEF EventRows, BeforeEvents
<1>7. Good(r)'
  BY <1>1, <1>4, <1>5, <1>6, NothingYet DEF Importing, InRow
<1> QED
  BY <1>1, <1>3, <1>7, Still
\* What changes neither the requests nor the events nor the leads.
LEMMA QuietIInv == ASSUME IInv, UNCHANGED <<leads, events, req, hurt>> PROVE IInv'
<1>1. ASSUME NEW r \in Request PROVE Good(r)'
  <2>1. EventsOf(r)' = EventsOf(r) /\ CreatedBy(r)' = CreatedBy(r)
    BY DEF EventsOf, CreatedBy
  <2>2. Good(r)
    BY DEF IInv
  <2> QED
    BY <2>1, <2>2, Bystander
<1> QED
  BY <1>1 DEF IInv, EventShape, OkEventHasLead

LEMMA ThrowIInv == ASSUME IInv, NEW r, Throw(r) PROVE IInv'
BY QuietIInv DEF Throw, tables

\* Goto sets the pc and nothing else.
LEMMA GotoSets ==
  ASSUME IInv, NEW r \in Request, NEW pc, Goto(r, pc)
  PROVE  /\ DOMAIN req' = Request /\ DOMAIN req'[r] = Fields
         /\ \A s \in Request \ {r} : req'[s] = req[s]
         /\ req'[r].pc = pc
         /\ \A f \in Fields \ {"pc"} : req'[r][f] = req[r][f]
<1>1. DOMAIN req = Request /\ DOMAIN req[r] = Fields
  BY DEF IInv, Good, Shaped
<1> QED
  BY <1>1 DEF Goto, Fields

LEMMA CreateIntegrationIInv ==
  ASSUME IInv, NEW r \in Request, CreateIntegration(r) PROVE IInv'
<1>1. CASE Throw(r)
  BY <1>1, ThrowIInv
<1>2. CASE Goto(r, "end") /\ UNCHANGED <<leads, events, hurt>>
  <2>1. Good(r) /\ Shaped(req[r]) /\ req[r].pc = "connect"
    BY DEF IInv, Good, CreateIntegration, At
  <2>2. req[r].op = "connect"
    BY <2>1 DEF Shaped, CsvPC, WebhookPC, InRow
  <2>3. /\ DOMAIN req' = Request /\ DOMAIN req'[r] = Fields
        /\ \A s \in Request \ {r} : req'[s] = req[s]
        /\ req'[r].pc = "end" /\ req'[r].op = "connect"
    BY <1>2, <2>2, GotoSets DEF Fields
  <2>4. EventRows(req[r]) = {} /\ EventRows(req'[r]) = {}
    BY <2>2, <2>3 DEF EventRows
  <2>5. ASSUME NEW q, DOMAIN q = Fields, q.pc = "end", q.op = "connect" PROVE Shaped(q)
    BY <2>5 DEF Shaped
  <2>6. Shaped(req'[r])
    BY <2>3, <2>5
  <2>7. Good(r)'
    BY <1>2, <2>1, <2>3, <2>4, <2>6, NothingYet DEF Importing, InRow
  <2> QED
    BY <1>2, <2>3, <2>7, Still
<1> QED
  BY <1>1, <1>2 DEF CreateIntegration

\* A webhook that waits for the limiter, or for its secret, moves on.
LEMMA WaitingMoves ==
  ASSUME IInv, NEW r \in Request, UNCHANGED <<leads, events, hurt>>,
         req[r].pc \in {"limit", "match"}, DOMAIN req' = Request, DOMAIN req'[r] = Fields,
         \A s \in Request \ {r} : req'[s] = req[s],
         req'[r].op = req[r].op, req'[r].provider = req[r].provider,
         req'[r].sender = req[r].sender, req'[r].row = req[r].row,
         req'[r].pc \in {"match", "event"}
  PROVE  IInv'
<1>1. Good(r) /\ Shaped(req[r])
  BY DEF IInv, Good
<1>2. /\ req[r].op = "webhook" /\ req[r].row = 1
      /\ req[r].provider \in Provider /\ req[r].sender \in Sender
  BY <1>1 DEF Shaped, CsvPC, InRow
<1>3. ASSUME NEW q, DOMAIN q = Fields, q.pc \in {"match", "event"}, q.op = "webhook", q.row = 1,
             q.provider \in Provider, q.sender \in Sender
      PROVE  Shaped(q)
  BY <1>3 DEF Shaped, WebhookPC
<1>4. Shaped(req'[r]) /\ req'[r].op = "webhook" /\ req'[r].row = 1
  BY <1>2, <1>3
<1>5. EventRows(req[r]) = {} /\ EventRows(req'[r]) = {}
  BY <1>4 DEF EventRows, BeforeEvents
<1>6. Good(r)'
  BY <1>1, <1>4, <1>5, NothingYet DEF Importing, InRow
<1> QED
  BY <1>6, Still

LEMMA EnforceWebhookRateLimitIInv ==
  ASSUME IInv, NEW r \in Request, EnforceWebhookRateLimit(r) PROVE IInv'
<1>1. CASE Throw(r)
  BY <1>1, ThrowIInv
<1>2. CASE Goto(r, "match") /\ Quiet
  <2>1. req[r].pc = "limit"
    BY DEF EnforceWebhookRateLimit, At
  <2> QED
    BY <1>2, <2>1, GotoSets, WaitingMoves DEF Quiet, tables, Fields
<1> QED
  BY <1>1, <1>2 DEF EnforceWebhookRateLimit

LEMMA MatchSecretIInv ==
  ASSUME IInv, NEW r \in Request, MatchSecret(r) PROVE IInv'
<1>1. CASE Throw(r)
  BY <1>1, ThrowIInv
<1>2. ASSUME NEW d, NEW n, Quiet,
             req' = [req EXCEPT ![r] = [@ EXCEPT !.dealership = d, !.integration = n, !.pc = "event"]]
      PROVE  IInv'
  <2>1. req[r].pc = "match" /\ DOMAIN req = Request /\ DOMAIN req[r] = Fields
    BY DEF MatchSecret, At, IInv, Good, Shaped
  <2>2. /\ DOMAIN req' = Request /\ DOMAIN req'[r] = Fields
        /\ \A s \in Request \ {r} : req'[s] = req[s]
        /\ req'[r].pc = "event" /\ req'[r].op = req[r].op /\ req'[r].row = req[r].row
        /\ req'[r].provider = req[r].provider /\ req'[r].sender = req[r].sender
    BY <1>2, <2>1 DEF Fields
  <2> QED
    BY <1>2, <2>1, <2>2, WaitingMoves DEF Quiet, tables
<1> QED
  BY <1>1, <1>2 DEF MatchSecret

LEMMA LookUpIntegrationIInv ==
  ASSUME IInv, NEW r \in Request, LookUpIntegration(r) PROVE IInv'
<1>1. CASE Throw(r)
  BY <1>1, ThrowIInv
<1>2. CASE WellFormed(req[r].file) /\ Quiet
           /\ req' = [req EXCEPT ![r] = [@ EXCEPT !.row = 1, !.pc = "event"]]
  <2>1. /\ req[r].pc = "lookup" /\ DOMAIN req = Request /\ DOMAIN req[r] = Fields
        /\ Good(r) /\ Shaped(req[r])
    BY DEF LookUpIntegration, At, IInv, Good, Shaped
  <2>2. /\ req[r].op = "csv" /\ req[r].file \in Files
        /\ req[r].row = 0
        /\ req[r].successes \in Seq(Nat) /\ req[r].failures \in Seq(Nat)
    BY <2>1 DEF Shaped, WebhookPC, InRow
  <2>3. /\ DOMAIN req' = Request /\ DOMAIN req'[r] = Fields
        /\ \A s \in Request \ {r} : req'[s] = req[s]
        /\ req'[r].pc = "event" /\ req'[r].op = "csv" /\ req'[r].row = 1
        /\ req'[r].file = req[r].file
        /\ req'[r].successes = req[r].successes /\ req'[r].failures = req[r].failures
    BY <1>2, <2>1, <2>2 DEF Fields
  <2>4. req[r].successes = <<>> /\ req[r].failures = <<>>
    <3>1. Accounted(r) /\ Importing(req[r])
      BY <2>1, <2>2 DEF Good, Importing
    <3>2. OkRows(r) = {}
      BY <2>1, <2>2 DEF OkRows, LastCounted
    <3>3. Len(req[r].successes) = 0 /\ LastCounted(req[r]) = 0
      BY <2>1, <2>2, <3>1, <3>2, FS_EmptySet DEF Accounted, LastCounted
    <3>4. Len(req[r].failures) = 0
      BY <2>2, <3>1, <3>3 DEF Accounted
    <3> QED
      BY <3>3, <3>4, <2>2
  <2>5. 1 \in 0 .. Len(req[r].file.rows)
    <3>1. req[r].file.rows \in Seq(ToSet(req[r].file.rows)) /\ req[r].file.rows # <<>>
      BY <1>2, <2>2, FilesAssumption DEF WellFormed
    <3> QED
      BY <3>1
  <2>6. ASSUME NEW q, DOMAIN q = Fields, q.pc = "event", q.op = "csv", q.row = 1, q.file \in Files,
               1 \in 0 .. Len(q.file.rows), q.successes \in Seq(Nat), q.failures \in Seq(Nat)
        PROVE  Shaped(q)
    BY <2>6 DEF Shaped, CsvPC
  <2>7. Shaped(req'[r])
    BY <2>2, <2>3, <2>5, <2>6
  <2>8. EventRows(req[r]) = {} /\ EventRows(req'[r]) = {}
    BY <2>1, <2>3 DEF EventRows, BeforeEvents
  <2>9. Good(r)'
    BY <1>2, <2>1, <2>3, <2>4, <2>7, <2>8, NothingYet DEF Importing, InRow, Quiet, tables
  <2> QED
    BY <1>2, <2>3, <2>9, Still DEF Quiet, tables
<1> QED
  BY <1>1, <1>2 DEF LookUpIntegration
-----------------------------------------------------------------------------
\* The steps of a row that change no table.
LEMMA NormalizeIInv == ASSUME IInv, NEW r \in Request, Normalize(r) PROVE IInv'
<1>1. /\ Good(r) /\ Shaped(req[r]) /\ DOMAIN req = Request /\ DOMAIN req[r] = Fields
      /\ req[r].pc = "normalize" /\ UNCHANGED <<leads, events, hurt>>
  BY DEF IInv, Good, Shaped, Normalize, At, Quiet, tables
<1>3. /\ DOMAIN req' = Request /\ \A s \in Request \ {r} : req'[s] = req[s]
      /\ SameRow(req[r], req'[r])
  BY <1>1 DEF Normalize, SameRow, Fields
<1> DEFINE pc == req'[r].pc
<1>2. /\ pc \in {"skip", "email", "create", "caught"}
      /\ pc \in {"skip", "email"} <=> req[r].op = "csv"
  BY <1>1 DEF Normalize, Fields
<1> HIDE DEF pc
<1>4. Shaped(req'[r]) /\ Recorded(r)' /\ Accounted(r)'
  <2>1. req[r].pc \in InRow \cup {"audit"} /\ pc \in InRow \cup {"audit"}
    BY <1>1, <1>2 DEF InRow
  <2>2. req[r].op = "webhook" => pc \in WebhookPC
    BY <1>2 DEF WebhookPC, InRow
  <2>3. pc # "audit"
    BY <1>2
  <2> QED
    BY <2>1, <2>2, <2>3, <1>1, <1>3, MovesOn DEF pc
<1>5. Created(r)' /\ Single(r)'
  BY <1>2, <1>3 DEF Created, Single, Importing, SameRow, pc
<1>6. Paired(r)'
  BY <1>1, <1>2, <1>3, StaysPaired DEF SameRow, InRow, pc
<1> QED
  BY <1>1, <1>3, <1>4, <1>5, <1>6, Still DEF Good

LEMMA FindByEmailIInv == ASSUME IInv, NEW r \in Request, FindByEmail(r) PROVE IInv'
<1>1. /\ Good(r) /\ Shaped(req[r]) /\ DOMAIN req = Request /\ DOMAIN req[r] = Fields
      /\ req[r].pc = "email" /\ UNCHANGED <<leads, events, hurt>>
  BY DEF IInv, Good, Shaped, FindByEmail, At, Quiet, tables
<1>2. req[r].op = "csv"
  BY <1>1 DEF Shaped, WebhookPC, InRow
<1>4. /\ DOMAIN req' = Request /\ \A s \in Request \ {r} : req'[s] = req[s]
      /\ SameRow(req[r], req'[r])
      /\ req'[r].inbound = req[r].inbound /\ req'[r].known = LeadsOf(req[r].dealership)
  BY <1>1 DEF FindByEmail, SameRow, Fields
<1>3. /\ req'[r].pc \in {"skip", "phone"}
      /\ req'[r].pc = "phone" => ~ \E l \in LeadsOf(req[r].dealership) :
                                     SameEmail(req[r].inbound.email, l.email)
  BY <1>1 DEF FindByEmail, Fields
<1>5. Shaped(req'[r]) /\ Recorded(r)' /\ Accounted(r)'
  <2>1. req[r].pc \in InRow \cup {"audit"} 
          /\ req'[r].pc \in InRow \cup {"audit"} /\ req'[r].pc # "audit"
    BY <1>1, <1>3 DEF InRow
  <2> QED
    BY <2>1, <1>1, <1>2, <1>4, MovesOn
<1>6. Created(r)'
  BY <1>3, <1>4 DEF Created
<1>7. Single(r)'
  <2>1. req'[r].dealership = req[r].dealership /\ leads' = leads
    BY <1>1, <1>4 DEF SameRow
  <2>2. req'[r].known = {l \in leads' : l.dealership = req'[r].dealership}
    BY <2>1, <1>4 DEF LeadsOf
  <2>3. req'[r].pc = "phone" => \A l \in req'[r].known : ~SameEmail(req'[r].inbound.email, l.email)
    BY <1>3, <1>4
  <2> QED
    BY <2>2, <2>3, <1>3 DEF Single, LeadsOf
<1>8. Paired(r)'
  BY <1>1, <1>3, <1>4, StaysPaired DEF SameRow, InRow
<1> QED
  BY <1>1, <1>4, <1>5, <1>6, <1>7, <1>8, Still DEF Good

LEMMA FindByPhoneIInv == ASSUME IInv, NEW r \in Request, FindByPhone(r) PROVE IInv'
<1>1. /\ Good(r) /\ Shaped(req[r]) /\ req[r].pc = "phone" /\ UNCHANGED <<leads, events, hurt>>
  BY DEF IInv, Good, FindByPhone, At, Quiet, tables
<1>2. req[r].op = "csv"
  BY <1>1 DEF Shaped, WebhookPC, InRow
<1>3. PICK pc : /\ Goto(r, pc) /\ pc \in {"skip", "create"}
                /\ pc = "create" => ~ \E l \in LeadsOf(req[r].dealership) :
                                        SamePhone(req[r].inbound.phone, l.phone)
  BY DEF FindByPhone, PhoneTwin
<1>4. /\ DOMAIN req' = Request /\ \A s \in Request \ {r} : req'[s] = req[s]
      /\ SameRow(req[r], req'[r]) /\ req'[r].pc = pc
      /\ req'[r].inbound = req[r].inbound /\ req'[r].known = req[r].known
  BY <1>3, GotoSets DEF SameRow, Fields
<1>5. Shaped(req'[r]) /\ Recorded(r)' /\ Accounted(r)'
  <2>1. req[r].pc \in InRow \cup {"audit"} /\ pc \in InRow \cup {"audit"} /\ pc # "audit"
    BY <1>1, <1>3 DEF InRow
  <2> QED
    BY <2>1, <1>1, <1>2, <1>4, MovesOn
<1>6. Created(r)'
  BY <1>3, <1>4 DEF Created
<1>7. Single(r)'
  <2>1. /\ req[r].known \subseteq LeadsOf(req[r].dealership)
        /\ \A l \in req[r].known : ~SameEmail(req[r].inbound.email, l.email)
    BY <1>1, <1>2 DEF Good, Single, Importing
  <2>2. req'[r].dealership = req[r].dealership /\ leads' = leads
    BY <1>1, <1>4 DEF SameRow
  <2>3. req'[r].known \subseteq {l \in leads' : l.dealership = req'[r].dealership}
    BY <2>1, <2>2, <1>4 DEF LeadsOf
  <2>4. pc = "create" => \A l \in req[r].known : ~SamePhone(req[r].inbound.phone, l.phone)
    BY <2>1, <1>3
  <2> QED
    BY <2>1, <2>3, <2>4, <1>4 DEF Single, LeadsOf
<1>8. Paired(r)'
  BY <1>1, <1>3, <1>4, StaysPaired DEF SameRow, InRow
<1> QED
  BY <1>1, <1>4, <1>5, <1>6, <1>7, <1>8, Still DEF Good

LEMMA FinishLeadIInv == ASSUME IInv, NEW r \in Request, FinishLead(r) PROVE IInv'
<1>1. /\ Good(r) /\ Shaped(req[r]) /\ req[r].pc = "finish" /\ UNCHANGED <<leads, events, hurt>>
      /\ Goto(r, "done")
  BY DEF IInv, Good, FinishLead, At, Quiet, tables
<1>2. /\ DOMAIN req' = Request /\ \A s \in Request \ {r} : req'[s] = req[s]
      /\ SameRow(req[r], req'[r]) /\ req'[r].pc = "done"
      /\ req'[r].lead = req[r].lead
  BY <1>1, GotoSets DEF SameRow, Fields
<1>3. Shaped(req'[r]) /\ Recorded(r)' /\ Accounted(r)'
  BY <1>1, <1>2, MovesOn DEF InRow, WebhookPC
<1>4. Created(r)'
  <2>1. EventOf(r)' = EventOf(r) /\ req'[r].dealership = req[r].dealership
    BY <1>2 DEF EventOf, SameRow
  <2> QED
    BY <2>1, <1>1, <1>2 DEF Good, Created
<1>5. Single(r)'
  BY <1>2 DEF Single
<1>6. Paired(r)'
  BY <1>1, <1>2, StaysPaired DEF SameRow, InRow
<1> QED
  BY <1>1, <1>2, <1>3, <1>4, <1>5, <1>6, Still DEF Good
LEMMA QueryFailsIInv == ASSUME IInv, NEW r \in Request, QueryFails(r) PROVE IInv'
<1>1. /\ Good(r) /\ Shaped(req[r]) /\ UNCHANGED <<leads, events>> /\ Goto(r, "caught")
      /\ r \in hurt' /\ \A s \in Request \ {r} : s \in hurt' <=> s \in hurt
  BY DEF IInv, Good, QueryFails, tables
<1>2. req[r].pc \in {"email", "phone", "create", "finish", "done", "skip", "audit"}
  BY DEF QueryFails, Guarded
<1>3. /\ DOMAIN req' = Request /\ \A s \in Request \ {r} : req'[s] = req[s]
      /\ SameRow(req[r], req'[r]) /\ req'[r].pc = "caught"
  BY <1>1, GotoSets DEF SameRow, Fields
<1>4. Shaped(req'[r]) /\ Recorded(r)' /\ Accounted(r)'
  <2>1. req[r].pc \in InRow \cup {"audit"} /\ "caught" \in InRow \cup {"audit"}
        /\ "caught" \in WebhookPC
    BY <1>2 DEF InRow, WebhookPC
  <2> QED
    BY <2>1, <1>1, <1>3, MovesOn
<1>5. Created(r)' /\ Single(r)' /\ Paired(r)'
  BY <1>1, <1>3 DEF Created, Single, Paired
<1> QED
  BY <1>1, <1>3, <1>4, <1>5, Still DEF Good

\* A request that has come to its end.
LEMMA EndsIInv ==
  ASSUME IInv, NEW r \in Request, UNCHANGED <<leads, events, hurt>>, Goto(r, "end"),
         req[r].pc \in {"audit", "emit"}
  PROVE  IInv'
<1>1. Good(r) /\ Shaped(req[r])
  BY DEF IInv, Good
<1>2. /\ DOMAIN req' = Request /\ \A s \in Request \ {r} : req'[s] = req[s]
      /\ SameRow(req[r], req'[r]) /\ req'[r].pc = "end"
  BY GotoSets DEF SameRow, Fields
<1>3. \/ req[r].op = "webhook" /\ req[r].pc = "audit"
      \/ req[r].op = "csv" /\ req[r].pc = "emit"
  BY <1>1 DEF Shaped, CsvPC, WebhookPC, InRow
<1>4. ASSUME NEW q, NEW p, Shaped(q), SameRow(q, p), p.pc = "end",
             \/ q.op = "webhook" /\ q.pc = "audit"
             \/ q.op = "csv" /\ q.pc = "emit"
      PROVE  /\ Shaped(p) /\ EventRows(p) = EventRows(q)
             /\ Importing(p) => Importing(q) /\ LastCounted(p) = LastCounted(q)
  <2>1. CASE q.op = "webhook" /\ q.pc = "audit"
    BY <1>4, <2>1 DEF Shaped, SameRow, EventRows, Importing, WebhookPC, BeforeEvents
  <2>2. CASE q.op = "csv" /\ q.pc = "emit"
    BY <1>4, <2>2
       DEF Shaped, SameRow, EventRows, Importing, CsvPC, BeforeEvents, LastCounted
  <2> QED
    BY <1>4, <2>1, <2>2
<1>5. /\ Shaped(req'[r]) /\ EventRows(req'[r]) = EventRows(req[r])
      /\ Importing(req'[r]) => Importing(req[r]) /\ LastCounted(req'[r]) = LastCounted(req[r])
  BY <1>1, <1>2, <1>3, <1>4
<1>6. EventsOf(r)' = EventsOf(r) /\ req[r].pc \notin InRow /\ req'[r].pc \notin InRow
  BY <1>2, <1>3 DEF EventsOf, InRow
<1>7. Recorded(r)'
  BY <1>1, <1>2, <1>5, <1>6 DEF Good, Recorded
<1>8. Accounted(r)'
  <2> SUFFICES ASSUME Importing(req'[r]) PROVE Accounted(r)'
    BY DEF Accounted
  <2>1. Accounted(r) /\ Importing(req[r]) /\ LastCounted(req'[r]) = LastCounted(req[r])
    BY <1>1, <1>5 DEF Good
  <2>2. OkRows(r)' = OkRows(r)
    BY <2>1 DEF OkRows
  <2>3. req'[r].successes = req[r].successes /\ req'[r].failures = req[r].failures
    BY <1>2 DEF SameRow
  <2> QED
    BY <2>1, <2>2, <2>3 DEF Accounted
<1>9. Created(r)' /\ Single(r)'
  BY <1>2 DEF Created, Single
<1>10. Paired(r)'
  BY <1>1, <1>2, <1>3, <1>6, StaysPaired DEF SameRow
<1> QED
  BY <1>2, <1>5, <1>7, <1>8, <1>9, <1>10, Still DEF Good

LEMMA AuditIngestionIInv == ASSUME IInv, NEW r \in Request, AuditIngestion(r) PROVE IInv'
BY EndsIInv DEF AuditIngestion, At

LEMMA EmitCompletedIInv == ASSUME IInv, NEW r \in Request, EmitCompleted(r) PROVE IInv'
BY EndsIInv DEF EmitCompleted, At

-----------------------------------------------------------------------------
\* The steps that write an event. No other request has an event of this one.
LEMMA WrittenEvents ==
  ASSUME NEW r \in Request, EventOf(r) \in DOMAIN events',
         \A e : e # EventOf(r) => (e \in DOMAIN events' <=> e \in DOMAIN events),
         \A e \in DOMAIN events : e # EventOf(r) => events'[e] = events[e]
  PROVE  /\ \A s \in Request \ {r} : EventsOf(s)' = EventsOf(s)
         /\ \A s \in Request \ {r} : \A e \in EventsOf(s) : events'[e] = events[e]
         /\ EventsOf(r)' = EventsOf(r) \cup {EventOf(r)}
<1>1. EventOf(r)[1] = r
  BY DEF EventOf
<1> QED
  BY <1>1 DEF EventsOf

LEMMA CreateEventIInv == ASSUME IInv, NEW r \in Request, CreateEvent(r) PROVE IInv'
<1> DEFINE q == req[r]
           new == [NoEvent EXCEPT !.dealership = q.dealership, !.integration = q.integration]
<1>1. /\ Good(r) /\ Shaped(q) /\ q.pc = "event" /\ UNCHANGED <<leads, hurt>> /\ Goto(r, "normalize")
      /\ events' = [e \in DOMAIN events \cup {EventOf(r)} |->
                      IF e = EventOf(r) THEN new ELSE events[e]]
  BY DEF IInv, Good, CreateEvent, At
<1>2. /\ DOMAIN req' = Request /\ \A s \in Request \ {r} : req'[s] = req[s]
      /\ SameRow(q, req'[r]) /\ req'[r].pc = "normalize"
  BY <1>1, GotoSets DEF SameRow, Fields
<1>3. new.ok = FALSE /\ new.dealership = q.dealership /\ DOMAIN new = DOMAIN NoEvent
  BY DEF NoEvent
<1>4. /\ DOMAIN events' = DOMAIN events \cup {EventOf(r)}
      /\ events'[EventOf(r)] = new
      /\ \A e \in DOMAIN events : e # EventOf(r) => events'[e] = events[e]
  BY <1>1
<1> HIDE DEF new
<1>5. EventShape'
  BY <1>3, <1>4 DEF IInv, EventShape
<1>6. OkEventHasLead'
  BY <1>1, <1>3, <1>4 DEF IInv, OkEventHasLead
<1>7. /\ \A s \in Request \ {r} : EventsOf(s)' = EventsOf(s)
      /\ \A s \in Request \ {r} : \A e \in EventsOf(s) : events'[e] = events[e]
      /\ EventsOf(r)' = EventsOf(r) \cup {EventOf(r)}
  BY <1>4, WrittenEvents
<1>8. q.op \in {"webhook", "csv"} /\ q.row \in Nat /\ q.row # 0
  BY <1>1 DEF Shaped
<1>9. Shaped(req'[r])
  <2>1. ASSUME NEW p, SameRow(q, p), p.pc = "normalize" PROVE Shaped(p)
    BY <2>1, <1>1, <1>8 DEF Shaped, SameRow, CsvPC, WebhookPC, InRow
  <2> QED
    BY <1>2, <2>1
<1>10. EventRows(q) = 1 .. q.row - 1 /\ EventRows(req'[r]) = 1 .. q.row
  BY <1>1, <1>2, <1>8 DEF EventRows, SameRow, BeforeEvents
<1>11. EventOf(r)' = EventOf(r) /\ EventOf(r) \notin EventsOf(r)
  <2>1. q.row \notin 1 .. q.row - 1
    BY <1>8
  <2>2. \A n : <<r, n>> = <<r, q.row>> => n = q.row
    OBVIOUS
  <2>3. EventsOf(r) = {<<r, n>> : n \in EventRows(q)}
    BY <1>1 DEF Good, Recorded
  <2>4. EventOf(r) = <<r, q.row>>
    BY DEF EventOf
  <2> QED
    BY <2>1, <2>2, <2>3, <2>4, <1>2, <1>10 DEF EventOf, SameRow
<1>12. Recorded(r)'
  <2>1. EventsOf(r) = {<<r, n>> : n \in 1 .. q.row - 1}
    BY <1>1, <1>10 DEF Good, Recorded
  <2>2. 1 .. q.row = (1 .. q.row - 1) \cup {q.row}
    BY <1>8
  <2>3. EventsOf(r)' = {<<r, n>> : n \in 1 .. q.row}
    BY <2>1, <2>2, <1>7 DEF EventOf
  <2> QED
    BY <2>3, <1>2, <1>3, <1>4, <1>10, <1>11 DEF Recorded, SameRow
<1>13. Accounted(r)'
  <2> SUFFICES ASSUME q.op = "csv" PROVE Accounted(r)'
    BY <1>2 DEF Accounted, Importing, SameRow
  <2>1. Accounted(r) /\ Importing(q)
    BY <1>1 DEF Good, Importing
  <2>2. LastCounted(req'[r]) = LastCounted(q) /\ LastCounted(q) = q.row - 1
    BY <1>1, <1>2 DEF LastCounted, SameRow
  <2>3. \A n \in 1 .. q.row - 1 : events'[<<r, n>>] = events[<<r, n>>]
    <3> TAKE n \in 1 .. q.row - 1
    <3>1. <<r, n>> \in EventsOf(r)
      BY <1>1, <1>10, EventsHave
    <3> QED
      BY <3>1, <1>4, <1>11 DEF EventsOf
  <2>4. OkRows(r)' = OkRows(r)
    BY <2>2, <2>3 DEF OkRows
  <2> QED
    BY <2>1, <2>2, <2>4, <1>2 DEF Accounted, SameRow
<1>14. Created(r)' /\ Single(r)'
  BY <1>2 DEF Created, Single
<1>15. Paired(r)'
  <2>1. Paired(r) /\ CreatedBy(r)' = CreatedBy(r)
    BY <1>1 DEF Good, CreatedBy
  <2>2. {e \in EventsOf(r)' : events'[e].ok} = {e \in EventsOf(r) : events[e].ok}
    BY <1>3, <1>4, <1>7, <1>11 DEF EventsOf
  <2> QED
    BY <2>1, <2>2, <1>1, <1>2, <1>3, <1>4, <1>11 DEF Paired
<1> QED
  BY <1>1, <1>2, <1>5, <1>6, <1>7, <1>9, <1>12, <1>13, <1>14, <1>15, Alone DEF Good
LEMMA CreateLeadIInv == ASSUME IInv, NEW r \in Request, CreateLead(r) PROVE IInv'
<1> DEFINE q == req[r]
           row == [id |-> EventOf(r), dealership |-> q.dealership, email |-> q.inbound.email,
                   phone |-> q.inbound.phone, source |-> q.inbound.source,
                   status |-> q.inbound.status]
<1>1. /\ Good(r) /\ Shaped(q) /\ q.pc = "create" /\ UNCHANGED <<events, hurt>>
      /\ leads' = leads \cup {row} /\ DOMAIN req = Request /\ DOMAIN q = Fields
      /\ req' = [req EXCEPT ![r] = [@ EXCEPT !.lead = row.id, !.known = {}, !.pc = "finish"]]
  BY DEF IInv, Good, CreateLead, At, Shaped
<1>2. row.id = EventOf(r) /\ row.dealership = q.dealership
  OBVIOUS
<1> HIDE DEF row
<1>3. /\ DOMAIN req' = Request /\ \A s \in Request \ {r} : req'[s] = req[s]
      /\ SameRow(q, req'[r]) /\ req'[r].pc = "finish" /\ req'[r].lead = EventOf(r)
  BY <1>1, <1>2 DEF SameRow, Fields
<1>4. Shaped(req'[r]) /\ Recorded(r)' /\ Accounted(r)'
  <2>1. q.pc \in InRow \cup {"audit"} /\ "finish" \in InRow \cup {"audit"}
        /\ "finish" \in WebhookPC
    BY <1>1 DEF InRow, WebhookPC
  <2> QED
    BY <2>1, <1>1, <1>3, MovesOn
<1>5. EventOf(r)' = EventOf(r) /\ EventsOf(r)' = EventsOf(r) /\ req'[r].dealership = q.dealership
  BY <1>1, <1>3 DEF EventOf, EventsOf, SameRow
<1>6. Created(r)'
  <2>1. row \in leads'
    BY <1>1
  <2> QED
    BY <2>1, <1>2, <1>3, <1>5 DEF Created
<1>7. Single(r)'
  BY <1>3 DEF Single
<1>8. row.id[1] = r
  BY <1>2 DEF EventOf
<1>9. Paired(r)'
  <2>1. CreatedBy(r)' = CreatedBy(r) \cup {row}
    BY <1>1, <1>8 DEF CreatedBy
  <2>2. {l.id : l \in CreatedBy(r)'} = {l.id : l \in CreatedBy(r)} \cup {EventOf(r)}
    BY <2>1, <1>2
  <2>3. Paired(r) /\ q.pc \in InRow
    BY <1>1 DEF Good, InRow
  <2> QED
    BY <2>2, <2>3, <1>1, <1>3, <1>5 DEF Paired
<1>10. EventShape' /\ OkEventHasLead'
  BY <1>1 DEF IInv, EventShape, OkEventHasLead
<1>11. \A s \in Request : EventsOf(s)' = EventsOf(s) /\ (s \in hurt' <=> s \in hurt)
  BY <1>1 DEF EventsOf
<1>12. leads \subseteq leads' /\ \A l \in leads' : l \notin leads => l.id[1] = r
  BY <1>1, <1>8
<1>13. Good(r)'
  BY <1>4, <1>6, <1>7, <1>9 DEF Good
<1> QED
  BY <1>1, <1>3, <1>10, <1>11, <1>12, <1>13, Alone

-----------------------------------------------------------------------------
\* The end of a row: its event is marked, and an import counts it.
LEMMA NextRowFacts ==
  ASSUME NEW q, Shaped(q), q.op = "csv", q.pc \in InRow, NEW success \in BOOLEAN
  PROVE  LET p == NextRow(q, success) IN
         /\ Shaped(p) /\ p.op = "csv" /\ p.pc \in {"event", "emit"}
         /\ EventRows(p) = 1 .. q.row /\ EventRows(q) = 1 .. q.row /\ q.row \in Nat \ {0}
         /\ LastCounted(q) = q.row - 1 /\ LastCounted(p) = q.row
         /\ p.successes = IF success THEN Append(q.successes, q.row) ELSE q.successes
         /\ p.failures = IF success THEN q.failures ELSE Append(q.failures, q.row)
<1> DEFINE c == CountRow(q, success)
           p == NextRow(q, success)
<1>1. /\ DOMAIN q = Fields /\ q.file \in Files /\ q.row \in 0 .. Len(q.file.rows) /\ q.row # 0
      /\ q.successes \in Seq(Nat) /\ q.failures \in Seq(Nat)
      /\ q.pc \notin {"idle", "connect", "limit", "match", "lookup", "event", "emit", "end"}
  BY DEF Shaped, InRow
<1>2. Len(q.file.rows) \in Nat /\ q.row \in Nat \ {0}
  BY <1>1, FilesAssumption
<1>3. /\ DOMAIN c = Fields
      /\ c.op = "csv" /\ c.file = q.file /\ c.row = q.row
      /\ c.successes = IF success THEN Append(q.successes, q.row) ELSE q.successes
      /\ c.failures = IF success THEN q.failures ELSE Append(q.failures, q.row)
  BY <1>1 DEF CountRow, Fields
<1>4. p = [c EXCEPT !.pc = AfterRow(q), !.row = IF AfterRow(q) = "event" THEN @ + 1 ELSE @]
  BY DEF NextRow
<1> HIDE DEF c, p
<1>5. /\ DOMAIN p = Fields
      /\ p.op = "csv" /\ p.file = q.file /\ p.pc = AfterRow(q)
      /\ p.row = IF AfterRow(q) = "event" THEN q.row + 1 ELSE q.row
      /\ p.successes = c.successes /\ p.failures = c.failures
  BY <1>3, <1>4 DEF Fields
<1>6. c.successes \in Seq(Nat) /\ c.failures \in Seq(Nat)
  BY <1>1, <1>2, <1>3
<1>7. \/ p.pc = "emit" /\ p.row = q.row /\ q.row = Len(q.file.rows)
      \/ p.pc = "event" /\ p.row = q.row + 1 /\ p.row \in 1 .. Len(q.file.rows)
  BY <1>1, <1>2, <1>5 DEF AfterRow
<1>8. Shaped(p)
  BY <1>1, <1>2, <1>5, <1>6, <1>7 DEF Shaped, CsvPC
<1>9. EventRows(p) = 1 .. q.row /\ EventRows(q) = 1 .. q.row
  BY <1>1, <1>2, <1>5, <1>7 DEF EventRows, BeforeEvents
<1>10. LastCounted(q) = q.row - 1 /\ LastCounted(p) = q.row
  <2>1. LastCounted(q) = q.row - 1
    BY <1>1 DEF LastCounted
  <2>2. CASE p.pc = "emit" /\ p.row = q.row
    BY <2>1, <2>2 DEF LastCounted
  <2>3. CASE p.pc = "event" /\ p.row = q.row + 1
    BY <2>1, <2>3, <1>2 DEF LastCounted
  <2> QED
    BY <2>2, <2>3, <1>7
<1> QED
  BY <1>2, <1>3, <1>5, <1>7, <1>8, <1>9, <1>10 DEF p

LEMMA ToSetAppend ==
  ASSUME NEW s \in Seq(Nat), NEW n \in Nat
  PROVE  ToSet(Append(s, n)) = ToSet(s) \cup {n} /\ Len(Append(s, n)) = Len(s) + 1
<1> DEFINE t == Append(s, n)
<1>1. /\ t \in Seq(Nat) /\ Len(t) = Len(s) + 1 /\ t[Len(s) + 1] = n
      /\ \A i \in 1 .. Len(s) : t[i] = s[i]
  OBVIOUS
<1>2. /\ DOMAIN s = 1 .. Len(s) /\ DOMAIN t = 1 .. Len(t) /\ Len(s) \in Nat
  BY <1>1
<1> HIDE DEF t
<1>3. DOMAIN t = DOMAIN s \cup {Len(s) + 1}
  BY <1>1, <1>2
<1>4. {t[i] : i \in DOMAIN t} = {s[i] : i \in DOMAIN s} \cup {n}
  BY <1>1, <1>2, <1>3
<1> QED
  BY <1>1, <1>4 DEF ToSet, t
LEMMA MarkedIInv ==
  ASSUME IInv, NEW r \in Request, NEW ok \in BOOLEAN, NEW lead, MarkEvent(r, ok, lead),
         ok => req[r].pc = "done" /\ lead = req[r].lead,
         ~ok => req[r].pc \in {"skip", "caught"},
         req' = [req EXCEPT ![r] = IF req[r].op = "csv" THEN NextRow(req[r], ok)
                                   ELSE [req[r] EXCEPT !.pc = "audit"]]
  PROVE  IInv'
<1> DEFINE q == req[r]
           p == req'[r]
<1>1. /\ Good(r) /\ Shaped(q) /\ DOMAIN q = Fields /\ UNCHANGED <<leads, hurt>>
      /\ EventShape /\ OkEventHasLead /\ DOMAIN req = Request
      /\ events' = [events EXCEPT ![EventOf(r)] = [@ EXCEPT !.ok = ok, !.lead = lead]]
  BY DEF IInv, Good, Shaped, MarkEvent
<1>2. q.pc \in {"skip", "caught", "done"} /\ q.pc \in InRow
  BY DEF InRow
<1>3. q.op \in {"csv", "webhook"}
  BY <1>1, <1>2 DEF Shaped
<1>4. /\ DOMAIN req' = Request /\ \A s \in Request \ {r} : req'[s] = req[s]
      /\ p = IF q.op = "csv" THEN NextRow(q, ok) ELSE [q EXCEPT !.pc = "audit"]
  BY <1>1
<1>5. EventOf(r) \in EventsOf(r) /\ EventOf(r) \in DOMAIN events
  BY <1>1, <1>2, EventsHave DEF EventsOf
<1>6. /\ DOMAIN events' = DOMAIN events
      /\ \A e \in DOMAIN events : e # EventOf(r) => events'[e] = events[e]
      /\ DOMAIN events'[EventOf(r)] = DOMAIN NoEvent
      /\ events'[EventOf(r)].ok = ok /\ events'[EventOf(r)].lead = lead
      /\ events'[EventOf(r)].dealership = events[EventOf(r)].dealership
  <2>1. DOMAIN events[EventOf(r)] = {"dealership", "integration", "ok", "lead"}
    BY <1>1, <1>5, IdleShape DEF EventShape
  <2> QED
    BY <2>1, <1>1, <1>5, IdleShape
<1>7. EventShape'
  BY <1>1, <1>6 DEF EventShape
<1>8. events[EventOf(r)].dealership = q.dealership
  BY <1>1, <1>2 DEF Good, Recorded
<1>9. OkEventHasLead'
  <2>1. ok => \E l \in leads : l.id = lead /\ l.dealership = events'[EventOf(r)].dealership
    BY <1>1, <1>6, <1>8 DEF Good, Created
  <2> QED
    BY <2>1, <1>1, <1>6 DEF OkEventHasLead
<1>10. /\ \A s \in Request \ {r} : EventsOf(s)' = EventsOf(s)
       /\ \A s \in Request \ {r} : \A e \in EventsOf(s) : events'[e] = events[e]
       /\ EventsOf(r)' = EventsOf(r)
  BY <1>5, <1>6, WrittenEvents
<1>11. /\ Shaped(p) /\ EventRows(p) = EventRows(q) /\ p.pc \in {"event", "emit", "audit"}
       /\ p.pc = "audit" => p.row = q.row /\ p.dealership = q.dealership
       /\ Importing(p) => q.op = "csv"
  <2>1. CASE q.op = "csv"
    <3>1. p = NextRow(q, ok)
      BY <1>4, <2>1
    <3> QED
      BY <3>1, <2>1, <1>1, <1>2, NextRowFacts
  <2>2. CASE q.op = "webhook"
    <3>1. DOMAIN p = Fields /\ p.pc = "audit" /\ \A f \in Fields \ {"pc"} : p[f] = q[f]
      BY <1>1, <1>4, <2>2 DEF Fields
    <3>2. /\ p.op = "webhook" /\ p.row = q.row /\ p.dealership = q.dealership
          /\ p.provider = q.provider /\ p.sender = q.sender
      BY <3>1, <2>2 DEF Fields
    <3>3. ASSUME NEW x, NEW y, Shaped(x), x.op = "webhook", x.pc \in InRow, DOMAIN y = Fields,
                 y.op = "webhook", y.row = x.row, y.provider = x.provider,
                 y.sender = x.sender, y.pc = "audit"
          PROVE  Shaped(y) /\ EventRows(y) = EventRows(x)
      BY <3>3 DEF Shaped, EventRows, WebhookPC, InRow, BeforeEvents
    <3> HIDE DEF q, p
    <3>4. Shaped(p) /\ EventRows(p) = EventRows(q)
      BY <3>1, <3>2, <3>3, <2>2, <1>1, <1>2
    <3> QED
      BY <3>1, <3>2, <3>4 DEF Importing
  <2> QED
    BY <2>1, <2>2, <1>3
<1>12. Recorded(r)'
  <2>1. EventsOf(r) = {<<r, n>> : n \in EventRows(q)}
    BY <1>1 DEF Good, Recorded
  <2>2. p.pc = "audit" => EventOf(r)' = EventOf(r)
    BY <1>11 DEF EventOf
  <2>3. p.pc \in InRow \cup {"audit"} => p.pc = "audit"
    BY <1>11 DEF InRow
  <2> QED
    BY <2>1, <2>2, <2>3, <1>6, <1>8, <1>10, <1>11 DEF Recorded
<1>13. Accounted(r)'
  <2> SUFFICES ASSUME q.op = "csv" PROVE Accounted(r)'
    BY <1>11 DEF Accounted
  <2>1. p = NextRow(q, ok)
    BY <1>4
  <2>2. /\ EventRows(q) = 1 .. q.row /\ q.row \in Nat \ {0}
        /\ LastCounted(q) = q.row - 1 /\ LastCounted(p) = q.row
        /\ p.successes = IF ok THEN Append(q.successes, q.row) ELSE q.successes
        /\ p.failures = IF ok THEN q.failures ELSE Append(q.failures, q.row)
    BY <2>1, <1>1, <1>2, NextRowFacts
  <2>3. /\ ToSet(q.successes) = OkRows(r)
        /\ Len(q.successes) = Cardinality(OkRows(r))
        /\ Len(q.successes) + Len(q.failures) = q.row - 1
    <3>1. Accounted(r) /\ Importing(q)
      BY <1>1, <1>2 DEF Good, Importing
    <3> QED
      BY <3>1, <2>2 DEF Accounted
  <2>4. q.successes \in Seq(Nat) /\ q.failures \in Seq(Nat)
    BY <1>1, <1>2 DEF Shaped
  <2>5. EventOf(r) = <<r, q.row>>
    BY DEF EventOf
  <2>6. \A n \in 1 .. q.row - 1 : events'[<<r, n>>] = events[<<r, n>>]
    <3> TAKE n \in 1 .. q.row - 1
    <3>1. n \in 1 .. q.row /\ n # q.row
      BY <2>2
    <3>2. <<r, n>> \in EventsOf(r) /\ <<r, n>> # <<r, q.row>>
      BY <3>1, <2>2, <1>1, EventsHave
    <3> QED
      BY <3>2, <2>5, <1>6 DEF EventsOf
  <2>7. OkRows(r)' = OkRows(r) \cup (IF ok THEN {q.row} ELSE {})
    <3>1. 1 .. q.row = (1 .. q.row - 1) \cup {q.row}
      BY <2>2
    <3>2. events'[<<r, q.row>>].ok = ok
      BY <2>5, <1>6
    <3>3. OkRows(r) = {n \in 1 .. q.row - 1 : events[<<r, n>>].ok}
      BY <2>2 DEF OkRows
    <3>4. OkRows(r)' = {n \in 1 .. q.row : events'[<<r, n>>].ok}
      BY <2>2 DEF OkRows
    <3> HIDE DEF q, p
    <3> QED
      BY <3>1, <3>2, <3>3, <3>4, <2>6
  <2>8. q.row \notin OkRows(r) /\ IsFiniteSet(OkRows(r))
    <3>1. OkRows(r) \subseteq 1 .. q.row - 1
      BY <2>2 DEF OkRows
    <3>2. q.row \notin 1 .. q.row - 1 /\ q.row - 1 \in Int /\ 1 \in Int
      BY <2>2
    <3> QED
      BY <3>1, <3>2, FS_Interval, FS_Subset
  <2>9. Cardinality(OkRows(r) \cup {q.row}) = Cardinality(OkRows(r)) + 1
    BY <2>8, FS_AddElement
  <2>10. Len(q.successes) \in Nat /\ Len(q.failures) \in Nat
    BY <2>4
  <2>11. CASE ok
    <3>1. p.successes = Append(q.successes, q.row) /\ p.failures = q.failures
      BY <2>11, <2>2
    <3>2. /\ ToSet(p.successes) = ToSet(q.successes) \cup {q.row}
          /\ Len(p.successes) = Len(q.successes) + 1
      BY <3>1, <2>2, <2>4, ToSetAppend
    <3>3. OkRows(r)' = OkRows(r) \cup {q.row}
      BY <2>11, <2>7
    <3>4. ToSet(p.successes) = OkRows(r)' /\ Len(p.successes) = Cardinality(OkRows(r)')
      BY <3>2, <3>3, <2>3, <2>9
    <3>5. Len(p.successes) + Len(p.failures) = q.row
      <4>1. q.row \in Nat /\ p.failures = q.failures
        BY <2>2, <3>1
      <4>2. Len(p.successes) = Len(q.successes) + 1
        BY <3>2
      <4> HIDE DEF q, p
      <4> QED
        BY <4>1, <4>2, <2>3, <2>10
    <3> QED
      BY <3>4, <3>5, <2>2 DEF Accounted
  <2>12. CASE ~ok
    <3>1. ToSet(p.successes) = OkRows(r)' /\ Len(p.successes) = Cardinality(OkRows(r)')
      BY <2>12, <2>2, <2>3, <2>7
    <3>2. Len(p.failures) = Len(q.failures) + 1
      BY <2>12, <2>2, <2>4, ToSetAppend
    <3>3. Len(p.successes) + Len(p.failures) = q.row
      <4>1. p.successes = q.successes
        BY <2>12, <2>2
      <4>2. q.row \in Nat
        BY <2>2
      <4> HIDE DEF q, p
      <4> QED
        BY <4>1, <4>2, <3>2, <2>3, <2>10
    <3> QED
      BY <3>1, <3>3, <2>2 DEF Accounted
  <2> QED
    BY <2>11, <2>12
<1>14. Created(r)' /\ Single(r)'
  BY <1>11 DEF Created, Single
<1>15. Paired(r)'
  <2> SUFFICES ASSUME r \notin hurt PROVE Paired(r)'
    BY <1>1 DEF Paired
  <2>1. /\ {l.id : l \in CreatedBy(r)} = {e \in EventsOf(r) : events[e].ok}
             \cup (IF q.pc \in {"finish", "done"} THEN {EventOf(r)} ELSE {})
        /\ ~events[EventOf(r)].ok
    BY <1>1, <1>2 DEF Good, Paired
  <2>2. CreatedBy(r)' = CreatedBy(r)
    BY <1>1 DEF CreatedBy
  <2>3. {e \in EventsOf(r) : events'[e].ok} =
          {e \in EventsOf(r) : events[e].ok} \cup (IF ok THEN {EventOf(r)} ELSE {})
    BY <2>1, <1>5, <1>6 DEF EventsOf
  <2>4. ok <=> q.pc = "done"
    OBVIOUS
  <2>5. p.pc \notin {"finish", "done"} /\ p.pc \notin InRow /\ q.pc # "finish"
    BY <1>2, <1>11 DEF InRow
  <2>6. {l.id : l \in CreatedBy(r)'} = {e \in EventsOf(r)' : events'[e].ok}
    BY <2>1, <2>2, <2>3, <2>4, <2>5, <1>10
  <2> QED
    BY <2>5, <2>6 DEF Paired
<1>16. Good(r)'
  BY <1>11, <1>12, <1>13, <1>14, <1>15 DEF Good
<1> HIDE DEF q, p
<1> QED
  BY <1>1, <1>4, <1>7, <1>9, <1>10, <1>16, Alone

LEMMA SkipRowIInv == ASSUME IInv, NEW r \in Request, SkipRow(r) PROVE IInv'
<1>1. Shaped(req[r]) /\ req[r].pc = "skip"
  BY DEF IInv, Good, SkipRow, At
<1>2. req[r].op = "csv"
  BY <1>1 DEF Shaped, WebhookPC, InRow
<1> QED
  BY <1>1, <1>2, MarkedIInv DEF SkipRow

LEMMA MarkProcessedIInv == ASSUME IInv, NEW r \in Request, MarkProcessed(r) PROVE IInv'
BY MarkedIInv DEF MarkProcessed, At

LEMMA MarkFailedIInv == ASSUME IInv, NEW r \in Request, MarkFailed(r) PROVE IInv'
BY MarkedIInv DEF MarkFailed, At
LEMMA NextIInv == IInv /\ [Next]_vars => IInv'
<1> SUFFICES ASSUME IInv, [Next]_vars PROVE IInv'
  OBVIOUS
<1>1. CASE UNCHANGED vars
  BY <1>1, QuietIInv DEF vars, tables
<1>2. CASE TimePasses
  BY <1>2, QuietIInv DEF TimePasses, tables
<1>3. ASSUME NEW r \in Request, Start(r) \/ Step(r) \/ QueryFails(r) \/ Fault(r) PROVE IInv'
  <2>1. CASE Step(r)
    BY <2>1, CreateIntegrationIInv, EnforceWebhookRateLimitIInv, MatchSecretIInv,
       LookUpIntegrationIInv, CreateEventIInv, NormalizeIInv, FindByEmailIInv, FindByPhoneIInv,
       CreateLeadIInv, FinishLeadIInv, SkipRowIInv, MarkProcessedIInv, MarkFailedIInv,
       AuditIngestionIInv, EmitCompletedIInv DEF Step
  <2> QED
    BY <1>3, <2>1, StartIInv, QueryFailsIInv, ThrowIInv DEF Fault
<1> QED
  BY <1>1, <1>2, <1>3 DEF Next

LEMMA SpecIInv == Spec => []IInv
BY InitIInv, NextIInv, PTL DEF Spec

-----------------------------------------------------------------------------
\* Whatever fails and however many imports and webhooks overlap: an event that
\* counts as processed points at a lead that exists, in the same dealership.
THEOREM ProcessedHasLead == Spec => []OkEventHasLead
<1>1. IInv => OkEventHasLead
  BY DEF IInv
<1> QED
  BY <1>1, SpecIInv, PTL

\* Whatever the file is and whichever rows fail: an import that is answered has
\* one event for each row, and counts as successes those that are processed.
THEOREM ImportsAddUp == Spec => []ImportAccounts
<1>1. ASSUME IInv, NEW r \in Request, Ended(r), req[r].op = "csv"
      PROVE  LET q == req[r]  ok == {n \in DOMAIN q.file.rows : events[<<r, n>>].ok} IN
             /\ EventsOf(r) = {<<r, n>> : n \in DOMAIN q.file.rows}
             /\ Len(q.successes) = Cardinality(ok) /\ ToSet(q.successes) = ok
             /\ Len(q.failures) = Len(q.file.rows) - Cardinality(ok)
  <2> DEFINE q == req[r]
             ok == {n \in DOMAIN q.file.rows : events[<<r, n>>].ok}
  <2>1. Good(r) /\ Shaped(q) /\ q.pc = "end" /\ q.op = "csv"
    BY <1>1 DEF IInv, Good, Ended
  <2>2. /\ q.file \in Files /\ q.row = Len(q.file.rows)
        /\ q.successes \in Seq(Nat) /\ q.failures \in Seq(Nat)
    BY <2>1 DEF Shaped
  <2>3. DOMAIN q.file.rows = 1 .. q.row /\ Len(q.file.rows) = q.row /\ q.row \in Nat
    BY <2>2, FilesAssumption
  <2>4. EventRows(q) = 1 .. q.row /\ LastCounted(q) = q.row
    BY <2>1 DEF EventRows, LastCounted, BeforeEvents
  <2>5. EventsOf(r) = {<<r, n>> : n \in DOMAIN q.file.rows}
    BY <2>1, <2>3, <2>4 DEF Good, Recorded
  <2>6. ok = OkRows(r)
    BY <2>3, <2>4 DEF OkRows
  <2>7. /\ ToSet(q.successes) = ok /\ Len(q.successes) = Cardinality(ok)
        /\ Len(q.successes) + Len(q.failures) = q.row
    BY <2>1, <2>4, <2>6 DEF Good, Accounted, Importing
  <2>8. Len(q.successes) \in Nat /\ Len(q.failures) \in Nat
    BY <2>2
  <2> HIDE DEF q, ok
  <2>9. Len(q.failures) = Len(q.file.rows) - Cardinality(ok)
    BY <2>3, <2>7, <2>8
  <2> QED
    BY <2>5, <2>7, <2>9 DEF q, ok
<1>2. IInv => ImportAccounts
  BY <1>1 DEF ImportAccounts
<1> QED
  BY <1>2, SpecIInv, PTL

\* A request during which no query has failed leaves exactly the leads its
\* processed events point at, whatever other requests do meanwhile.
THEOREM LeadsFollowEvents == Spec => []LeadPerEvent
<1>1. ASSUME IInv, NEW r \in Request, Ended(r), r \notin hurt
      PROVE  {l.id : l \in CreatedBy(r)} = {e \in EventsOf(r) : events[e].ok}
  <2>1. Paired(r) /\ req[r].pc = "end"
    BY <1>1 DEF IInv, Good, Ended
  <2> QED
    BY <2>1, <1>1 DEF Paired
<1>2. IInv => LeadPerEvent
  BY <1>1 DEF LeadPerEvent
<1> QED
  BY <1>2, SpecIInv, PTL

\* A row becomes a lead only if none of the leads that were there when the
\* import looked for it has its email or its phone, however many others import.
THEOREM TwinsAreSkipped == Spec => NoTwinUnlessRaced
<1>1. ASSUME IInv, NEW r \in Request, CreateLead(r), req[r].op = "csv"
      PROVE  \A l \in req[r].known : /\ ~SameEmail(req[r].inbound.email, l.email)
                                     /\ ~SamePhone(req[r].inbound.phone, l.phone)
  <2>1. Single(r) /\ req[r].pc = "create"
    BY <1>1 DEF IInv, Good, CreateLead, At
  <2> QED
    BY <2>1, <1>1 DEF Single, Importing
<1>2. IInv /\ [Next]_vars =>
        [\A r \in Request : CreateLead(r) /\ req[r].op = "csv" =>
           \A l \in req[r].known : /\ ~SameEmail(req[r].inbound.email, l.email)
                                   /\ ~SamePhone(req[r].inbound.phone, l.phone)]_vars
  BY <1>1
<1> QED
  BY <1>2, SpecIInv, PTL DEF Spec, NoTwinUnlessRaced

\* The webhooks use the limiter as it is meant to be used: every step of the
\* integrations is one of the limiter, or leaves it alone.
LEMMA LimitedSteps == IInv /\ [Next]_vars => [LimiterNext]_limiterVars
<1> SUFFICES ASSUME IInv, [Next]_vars PROVE [LimiterNext]_limiterVars
  OBVIOUS
<1>1. CASE UNCHANGED vars
  BY <1>1 DEF vars, clock
<1>2. CASE TimePasses
  BY <1>2 DEF TimePasses, LimiterNext
<1>3. ASSUME NEW r \in Request, EnforceWebhookRateLimit(r) PROVE LimiterNext
  <2> DEFINE k == <<req[r].provider, req[r].sender>>
  <2>1. Shaped(req[r]) /\ req[r].pc = "limit"
    BY <1>3 DEF IInv, Good, EnforceWebhookRateLimit, At
  <2>2. req[r].provider \in Provider /\ req[r].sender \in Sender
    BY <2>1 DEF Shaped, CsvPC, InRow
  <2>3. k \in Key /\ r \in Hit
    BY <2>2, IntegrationsAssumption
  <2>4. Refuse(k) \/ Accept(k, r)
    BY <1>3 DEF EnforceWebhookRateLimit
  <2> HIDE DEF k
  <2> QED
    BY <2>3, <2>4 DEF LimiterNext
<1>4. ASSUME NEW r \in Request, Start(r) \/ Step(r) \/ QueryFails(r) \/ Fault(r),
             ~EnforceWebhookRateLimit(r)
      PROVE  UNCHANGED limiterVars
  BY <1>4 DEF Start, Step, QueryFails, Fault, CreateIntegration, MatchSecret, LookUpIntegration,
     CreateEvent, Normalize, FindByEmail, FindByPhone, CreateLead, FinishLead, SkipRow,
     MarkProcessed, MarkFailed, AuditIngestion, EmitCompleted, MarkEvent, clock
<1> QED
  BY <1>1, <1>2, <1>3, <1>4 DEF Next

\* enforceWebhookRateLimit: the integrations, with all their requests, files and
\* failures, implement the limiter as it is specified by itself.
THEOREM LimiterIsImplemented == Spec => LimiterSpec
<1>1. Init => LimiterInit
  BY DEF Init
<1> QED
  BY <1>1, SpecIInv, LimitedSteps, PTL DEF Spec, LimiterSpec

\* enforceWebhookRateLimit: so the limiter's bound holds of the webhooks, whatever
\* else the system is doing.
THEOREM WebhooksAreLimited == Spec => []Bounded
BY LimiterIsImplemented, RateIsBounded, PTL

-----------------------------------------------------------------------------
(* The lines of a file *)

\* A set of numbers that has zero and, with each number, the next one has all.
LEMMA Induction ==
  ASSUME NEW S, 0 \in S, \A n \in Nat : n \in S => n + 1 \in S
  PROVE  \A n \in Nat : n \in S
<1> SUFFICES ASSUME NEW m \in Nat, m \notin S PROVE FALSE
  OBVIOUS
<1> DEFINE T == {k \in 0 .. m : k \notin S}
           D == {0 .. k : k \in T}
<1>1. IsFiniteSet(0 .. m)
  BY FS_Interval
<1>2. D \subseteq SUBSET (0 .. m) /\ D # {}
  OBVIOUS
<1>3. PICK x \in D : \A y \in D : ~(<<y, x>> \in StrictSubsetOrdering(0 .. m))
  <2>1. FiniteSubsetsOf(0 .. m) = SUBSET (0 .. m)
    BY <1>1, FS_FiniteSubsetsOfFinite
  <2>2. IsWellFoundedOn(StrictSubsetOrdering(0 .. m), FiniteSubsetsOf(0 .. m))
    BY FS_StrictSubsetOrderingWellFounded
  <2>3. IsWellFoundedOn(StrictSubsetOrdering(0 .. m), SUBSET (0 .. m))
    BY <2>1, <2>2
  <2> HIDE DEF D
  <2> QED
    BY <2>3, <1>2, WFMin
<1>4. PICK k \in T : x = 0 .. k
  OBVIOUS
<1>5. k # 0 /\ k \in Nat /\ k <= m
  OBVIOUS
<1>6. k - 1 \in T
  BY <1>5
<1>7. 0 .. (k - 1) \in D
  BY <1>6
<1>8. 0 .. (k - 1) \subseteq 0 .. k /\ 0 .. (k - 1) # 0 .. k
  <2>1. k \in 0 .. k /\ k \notin 0 .. (k - 1)
    BY <1>5
  <2> QED
    BY <2>1, <1>5
<1>9. <<0 .. (k - 1), 0 .. k>> \in StrictSubsetOrdering(0 .. m)
  BY <1>2, <1>5, <1>8 DEF StrictSubsetOrdering
<1> QED
  BY <1>3, <1>4, <1>7, <1>9

-----------------------------------------------------------------------------
(* The recursive functions are what they say *)

ScanDef(f, line, m) ==
  f = [n \in 0 .. m |-> IF n = 0 THEN Scan0 ELSE Scan(f[n - 1], line[n])]

LEMMA ScanExists ==
  ASSUME NEW line, NEW m \in Nat
  PROVE  \E f : ScanDef(f, line, m)
<1> DEFINE S == {k \in Nat : \E f : ScanDef(f, line, k)}
<1>1. 0 \in S
  <2> DEFINE f == [n \in 0 .. 0 |-> Scan0]
  <2>1. f = [n \in 0 .. 0 |-> IF n = 0 THEN Scan0 ELSE Scan(f[n - 1], line[n])]
    OBVIOUS
  <2>2. ScanDef(f, line, 0)
    BY <2>1 DEF ScanDef
  <2> QED
    BY <2>2
<1>2. ASSUME NEW k \in Nat, k \in S PROVE k + 1 \in S
  <2> PICK f : ScanDef(f, line, k)
    BY <1>2
  <2> DEFINE g == [n \in 0 .. k + 1 |-> IF n = k + 1 THEN Scan(f[k], line[k + 1]) ELSE f[n]]
  <2>1. \A n \in 0 .. k : f[n] = IF n = 0 THEN Scan0 ELSE Scan(f[n - 1], line[n])
    BY DEF ScanDef
  <2>2. ASSUME NEW n \in 0 .. k + 1
        PROVE  g[n] = IF n = 0 THEN Scan0 ELSE Scan(g[n - 1], line[n])
    <3>1. CASE n = k + 1
      <4>1. g[n] = Scan(f[k], line[n]) /\ g[n - 1] = f[k] /\ n # 0
        BY <3>1
      <4> QED
        BY <4>1
    <3>2. CASE n \in 0 .. k
      <4>1. g[n] = f[n] /\ (n # 0 => g[n - 1] = f[n - 1])
        BY <3>2
      <4> HIDE DEF g
      <4> QED
        BY <4>1, <3>2, <2>1
    <3> QED
      BY <3>1, <3>2
  <2>3. g = [n \in 0 .. k + 1 |-> g[n]]
    OBVIOUS
  <2> HIDE DEF g
  <2>4. g = [n \in 0 .. k + 1 |-> IF n = 0 THEN Scan0 ELSE Scan(g[n - 1], line[n])]
    BY <2>2, <2>3
  <2>5. ScanDef(g, line, k + 1)
    BY <2>4 DEF ScanDef
  <2> QED
    BY <2>5
<1> HIDE DEF S
<1>3. m \in S
  BY <1>1, <1>2, Induction
<1> QED
  BY <1>3 DEF S

\* What is read of two lines that begin alike is the same so far.
LEMMA ScanPrefix ==
  ASSUME NEW line, NEW other, NEW j \in Nat, NEW k \in Nat, NEW f, NEW g,
         ScanDef(f, line, j), ScanDef(g, other, k), NEW m \in Nat, m <= j, m <= k,
         \A i \in 1 .. m : line[i] = other[i]
  PROVE  f[m] = g[m]
<1> DEFINE S == {n \in Nat : n <= m => f[n] = g[n]}
<1>1. \A n \in 0 .. j : f[n] = IF n = 0 THEN Scan0 ELSE Scan(f[n - 1], line[n])
  BY DEF ScanDef
<1>2. \A n \in 0 .. k : g[n] = IF n = 0 THEN Scan0 ELSE Scan(g[n - 1], other[n])
  BY DEF ScanDef
<1>3. 0 \in S
  BY <1>1, <1>2
<1>4. ASSUME NEW n \in Nat, n \in S PROVE n + 1 \in S
  <2> SUFFICES ASSUME n + 1 <= m PROVE f[n + 1] = g[n + 1]
    OBVIOUS
  <2>1. f[n] = g[n] /\ line[n + 1] = other[n + 1]
    BY <1>4
  <2>2. n + 1 \in 0 .. j /\ n + 1 \in 0 .. k /\ n + 1 # 0 /\ (n + 1) - 1 = n
    OBVIOUS
  <2>3. f[n + 1] = Scan(f[n], line[n + 1]) /\ g[n + 1] = Scan(g[n], other[n + 1])
    BY <1>1, <1>2, <2>2
  <2> QED
    BY <2>1, <2>3
<1> HIDE DEF S
<1>5. m \in S
  BY <1>3, <1>4, Induction
<1> QED
  BY <1>5 DEF S

LEMMA ScannedIs ==
  ASSUME NEW line, Len(line) \in Nat
  PROVE  \E f : ScanDef(f, line, Len(line)) /\ Scanned(line) = f[Len(line)]
<1> DEFINE m == Len(line)
           Right(f) == f = [n \in 0 .. m |-> IF n = 0 THEN Scan0 ELSE Scan(f[n - 1], line[n])]
           s == CHOOSE f : Right(f)
<1>1. \E f : Right(f)
  BY ScanExists DEF ScanDef
<1>2. Right(s)
  BY <1>1
<1>3. Scanned(line) = s[m]
  BY DEF Scanned
<1> QED
  BY <1>2, <1>3 DEF ScanDef

LEMMA ScanEmpty == Scanned(<<>>) = Scan0
<1>1. Len(<<>>) = 0
  OBVIOUS
<1>2. PICK f : ScanDef(f, <<>>, Len(<<>>)) /\ Scanned(<<>>) = f[Len(<<>>)]
  BY <1>1, ScannedIs
<1> QED
  BY <1>1, <1>2 DEF ScanDef

LEMMA ScanAppend ==
  ASSUME NEW S, NEW line \in Seq(S), NEW c \in S
  PROVE  Scanned(Append(line, c)) = Scan(Scanned(line), c)
<1> DEFINE m == Len(line)  more == Append(line, c)
<1>1. m \in Nat /\ Len(more) = m + 1 /\ more[m + 1] = c /\ \A i \in 1 .. m : line[i] = more[i]
  OBVIOUS
<1> HIDE DEF more, m
<1>2. PICK f : ScanDef(f, line, m) /\ Scanned(line) = f[m]
  BY <1>1, ScannedIs DEF m
<1>3. PICK g : ScanDef(g, more, m + 1) /\ Scanned(more) = g[m + 1]
  BY <1>1, ScannedIs
<1>4. f[m] = g[m]
  BY <1>1, <1>2, <1>3, ScanPrefix
<1>5. g[m + 1] = Scan(g[m], more[m + 1])
  BY <1>1, <1>3 DEF ScanDef
<1> QED
  BY <1>1, <1>2, <1>3, <1>4, <1>5 DEF more

DoubleDef(f, cell, m) ==
  f = [n \in 0 .. m |->
         IF n = 0 THEN <<>>
         ELSE IF cell[n] = QUOTE THEN f[n - 1] \o <<QUOTE, QUOTE>> ELSE Append(f[n - 1], cell[n])]

LEMMA DoubleExists ==
  ASSUME NEW cell, NEW m \in Nat
  PROVE  \E f : DoubleDef(f, cell, m)
<1> DEFINE Next1(x, n) == IF cell[n] = QUOTE THEN x \o <<QUOTE, QUOTE>> ELSE Append(x, cell[n])
           S == {k \in Nat : \E f : DoubleDef(f, cell, k)}
<1>1. 0 \in S
  <2> DEFINE f == [n \in 0 .. 0 |-> <<>>]
  <2>1. f = [n \in 0 .. 0 |-> IF n = 0 THEN <<>> ELSE Next1(f[n - 1], n)]
    OBVIOUS
  <2>2. DoubleDef(f, cell, 0)
    BY <2>1 DEF DoubleDef
  <2> QED
    BY <2>2
<1>2. ASSUME NEW k \in Nat, k \in S PROVE k + 1 \in S
  <2> PICK f : DoubleDef(f, cell, k)
    BY <1>2
  <2> DEFINE g == [n \in 0 .. k + 1 |-> IF n = k + 1 THEN Next1(f[k], k + 1) ELSE f[n]]
  <2>1. \A n \in 0 .. k : f[n] = IF n = 0 THEN <<>> ELSE Next1(f[n - 1], n)
    BY DEF DoubleDef
  <2> HIDE DEF Next1
  <2>2. ASSUME NEW n \in 0 .. k + 1
        PROVE  g[n] = IF n = 0 THEN <<>> ELSE Next1(g[n - 1], n)
    <3>1. CASE n = k + 1
      <4>1. g[n] = Next1(f[k], n) /\ g[n - 1] = f[k] /\ n # 0
        BY <3>1
      <4> QED
        BY <4>1
    <3>2. CASE n \in 0 .. k
      <4>1. g[n] = f[n] /\ (n # 0 => g[n - 1] = f[n - 1])
        BY <3>2
      <4> HIDE DEF g
      <4> QED
        BY <4>1, <3>2, <2>1
    <3> QED
      BY <3>1, <3>2
  <2>3. g = [n \in 0 .. k + 1 |-> g[n]]
    OBVIOUS
  <2> HIDE DEF g
  <2>4. g = [n \in 0 .. k + 1 |-> IF n = 0 THEN <<>> ELSE Next1(g[n - 1], n)]
    BY <2>2, <2>3
  <2>5. DoubleDef(g, cell, k + 1)
    BY <2>4 DEF DoubleDef, Next1
  <2> QED
    BY <2>5
<1> HIDE DEF S
<1>3. m \in S
  BY <1>1, <1>2, Induction
<1> QED
  BY <1>3 DEF S

LEMMA DoubledIs ==
  ASSUME NEW cell, Len(cell) \in Nat
  PROVE  \E f : DoubleDef(f, cell, Len(cell)) /\ Doubled(cell) = f[Len(cell)]
<1> DEFINE m == Len(cell)
           Right(f) == f = [n \in 0 .. m |->
             IF n = 0 THEN <<>>
             ELSE IF cell[n] = QUOTE THEN f[n - 1] \o <<QUOTE, QUOTE>> ELSE Append(f[n - 1], cell[n])]
           s == CHOOSE f : Right(f)
<1>1. \E f : Right(f)
  BY DoubleExists DEF DoubleDef
<1>2. Right(s)
  BY <1>1
<1>3. Doubled(cell) = s[m]
  BY DEF Doubled
<1> QED
  BY <1>2, <1>3 DEF DoubleDef

LineDef(f, fields, m) ==
  f = [n \in 1 .. m |-> IF n = 1 THEN Encode(fields[1])
                        ELSE f[n - 1] \o <<COMMA>> \o Encode(fields[n])]

LEMMA LineExists ==
  ASSUME NEW fields, NEW m \in Nat
  PROVE  \E f : LineDef(f, fields, m)
<1> DEFINE Next1(x, n) == x \o <<COMMA>> \o Encode(fields[n])
           S == {k \in Nat : \E f : LineDef(f, fields, k)}
<1>1. 0 \in S
  <2> DEFINE f == [n \in 1 .. 0 |-> Encode(fields[1])]
  <2>1. f = [n \in 1 .. 0 |-> IF n = 1 THEN Encode(fields[1]) ELSE Next1(f[n - 1], n)]
    OBVIOUS
  <2>2. LineDef(f, fields, 0)
    BY <2>1 DEF LineDef
  <2> QED
    BY <2>2
<1>2. ASSUME NEW k \in Nat, k \in S PROVE k + 1 \in S
  <2> PICK f : LineDef(f, fields, k)
    BY <1>2
  <2> DEFINE first == Encode(fields[1])
  <2>1. \A n \in 1 .. k : f[n] = IF n = 1 THEN first ELSE Next1(f[n - 1], n)
    BY DEF LineDef
  <2> HIDE DEF Next1, first
  <2> DEFINE g == [n \in 1 .. k + 1 |-> IF n = 1 THEN first
                                         ELSE IF n = k + 1 THEN Next1(f[k], k + 1) ELSE f[n]]
  <2>2. ASSUME NEW n \in 1 .. k + 1
        PROVE  g[n] = IF n = 1 THEN first ELSE Next1(g[n - 1], n)
    <3>1. CASE n = 1
      BY <3>1
    <3>2. CASE n # 1 /\ n = k + 1
      <4>1. k \in 1 .. k /\ n - 1 = k /\ k # k + 1
        BY <3>2
      <4>2. g[k] = f[k]
        BY <4>1, <2>1
      <4>3. g[n] = Next1(f[k], n)
        BY <3>2
      <4> QED
        BY <4>1, <4>2, <4>3, <3>2
    <3>3. CASE n # 1 /\ n \in 1 .. k
      <4>1. n - 1 \in 1 .. k /\ n - 1 # k + 1 /\ n # k + 1
        BY <3>3
      <4>2. g[n] = f[n] /\ g[n - 1] = f[n - 1]
        BY <4>1, <3>3, <2>1
      <4> HIDE DEF g
      <4> QED
        BY <4>2, <3>3, <2>1
    <3> QED
      BY <3>1, <3>2, <3>3
  <2>3. g = [n \in 1 .. k + 1 |-> g[n]]
    OBVIOUS
  <2> HIDE DEF g
  <2>4. g = [n \in 1 .. k + 1 |-> IF n = 1 THEN first ELSE Next1(g[n - 1], n)]
    BY <2>2, <2>3
  <2>5. LineDef(g, fields, k + 1)
    BY <2>4 DEF LineDef, Next1, first
  <2> QED
    BY <2>5
<1> HIDE DEF S
<1>3. m \in S
  BY <1>1, <1>2, Induction
<1> QED
  BY <1>3 DEF S

LEMMA LineIs ==
  ASSUME NEW fields, Len(fields) \in Nat
  PROVE  \E f : LineDef(f, fields, Len(fields)) /\ EncodeLine(fields) = f[Len(fields)]
<1> DEFINE m == Len(fields)
           Right(f) == f = [n \in 1 .. m |-> IF n = 1 THEN Encode(fields[1])
                                             ELSE f[n - 1] \o <<COMMA>> \o Encode(fields[n])]
           s == CHOOSE f : Right(f)
<1>1. \E f : Right(f)
  BY LineExists DEF LineDef
<1>2. Right(s)
  BY <1>1
<1>3. EncodeLine(fields) = s[m]
  BY DEF EncodeLine
<1> QED
  BY <1>2, <1>3 DEF LineDef

-----------------------------------------------------------------------------
(* What is written is read back *)

LEMMA ConcatAppend ==
  ASSUME NEW S, NEW u \in Seq(S), NEW v \in Seq(S), NEW c \in S
  PROVE  u \o Append(v, c) = Append(u \o v, c) /\ u \o v \in Seq(S) /\ Append(u, c) \in Seq(S)
         /\ u \o <<c>> = Append(u, c)
OBVIOUS

\* The same for a character that is written twice.
Joins(w, x, c) == w \o Append(Append(x, c), c) = Append(Append(w \o x, c), c)

LEMMA ConcatTwo ==
  ASSUME NEW S, NEW u \in Seq(S), NEW v \in Seq(S), NEW c \in S
  PROVE  Joins(u, v, c)
<1> DEFINE e == Append(v, c)
<1>1. e \in Seq(S) /\ u \o e = Append(u \o v, c)
  BY ConcatAppend
<1> HIDE DEF e
<1>2. u \o Append(e, c) = Append(u \o e, c)
  BY <1>1, ConcatAppend
<1>3. u \o Append(e, c) = Append(Append(u \o v, c), c)
  BY <1>1, <1>2
<1> QED
  BY <1>3 DEF e, Joins

LEMMA Beginning ==
  ASSUME NEW S, NEW s \in Seq(S)
  PROVE  /\ SubSeq(s, 1, 0) = <<>>
         /\ SubSeq(s, 1, Len(s)) = s
         /\ \A n \in Nat : n < Len(s) => SubSeq(s, 1, n + 1) = Append(SubSeq(s, 1, n), s[n + 1])
OBVIOUS

Reading(columns, current, inQuotes, escape) ==
  [columns |-> columns, current |-> current, inQuotes |-> inQuotes, escape |-> escape]

LEMMA ScanSteps ==
  ASSUME NEW columns, NEW current, NEW escape
  PROVE  /\ \A c : c # QUOTE =>
              Scan(Reading(columns, current, TRUE, FALSE), c) = Reading(columns, Append(current, c), TRUE, FALSE)
         /\ Scan(Reading(columns, current, TRUE, FALSE), QUOTE) = Reading(columns, current, FALSE, TRUE)
         /\ Scan(Reading(columns, current, FALSE, TRUE), QUOTE)
              = Reading(columns, Append(current, QUOTE), TRUE, FALSE)
         /\ Scan(Reading(columns, current, FALSE, FALSE), QUOTE) = Reading(columns, current, TRUE, FALSE)
         /\ \A c : c \notin {QUOTE, COMMA} =>
              Scan(Reading(columns, current, FALSE, FALSE), c) = Reading(columns, Append(current, c), FALSE, FALSE)
         /\ QUOTE # COMMA =>
              Scan(Reading(columns, current, FALSE, escape), COMMA)
                = Reading(Append(columns, current), <<>>, FALSE, FALSE)
<1>1. \A c : c # QUOTE =>
        Scan(Reading(columns, current, TRUE, FALSE), c) = Reading(columns, Append(current, c), TRUE, FALSE)
  BY DEF Scan, Reading
<1>2. Scan(Reading(columns, current, TRUE, FALSE), QUOTE) = Reading(columns, current, FALSE, TRUE)
  BY DEF Scan, Reading
<1>3. Scan(Reading(columns, current, FALSE, TRUE), QUOTE)
        = Reading(columns, Append(current, QUOTE), TRUE, FALSE)
  BY DEF Scan, Reading
<1>4. Scan(Reading(columns, current, FALSE, FALSE), QUOTE) = Reading(columns, current, TRUE, FALSE)
  BY DEF Scan, Reading
<1>5. \A c : c \notin {QUOTE, COMMA} =>
        Scan(Reading(columns, current, FALSE, FALSE), c) = Reading(columns, Append(current, c), FALSE, FALSE)
  BY DEF Scan, Reading
<1>6. QUOTE # COMMA =>
        Scan(Reading(columns, current, FALSE, escape), COMMA)
          = Reading(Append(columns, current), <<>>, FALSE, FALSE)
  BY DEF Scan, Reading
<1> QED
  BY <1>1, <1>2, <1>3, <1>4, <1>5, <1>6

\* A quoted cell that is read from the beginning of a cell.
LEMMA QuotedRead ==
  ASSUME NEW C, QUOTE \in C, NEW cell \in Seq(C), NEW u \in Seq(C), NEW columns,
         Scanned(u) = Reading(columns, <<>>, FALSE, FALSE)
  PROVE  /\ u \o (<<QUOTE>> \o Doubled(cell) \o <<QUOTE>>) \in Seq(C)
         /\ Scanned(u \o (<<QUOTE>> \o Doubled(cell) \o <<QUOTE>>)) = Reading(columns, cell, FALSE, TRUE)
<1> DEFINE m == Len(cell)  v == Append(u, QUOTE)
<1>0. m \in Nat /\ v \in Seq(C)
  OBVIOUS
<1> PICK d : DoubleDef(d, cell, m) /\ Doubled(cell) = d[m]
  BY <1>0, DoubledIs
<1>1. /\ d[0] = <<>>
      /\ \A n \in Nat : n < m => d[n + 1] = IF cell[n + 1] = QUOTE THEN d[n] \o <<QUOTE, QUOTE>>
                                            ELSE Append(d[n], cell[n + 1])
  <2>1. \A n \in 0 .. m : d[n] = IF n = 0 THEN <<>>
          ELSE IF cell[n] = QUOTE THEN d[n - 1] \o <<QUOTE, QUOTE>> ELSE Append(d[n - 1], cell[n])
    BY DEF DoubleDef
  <2>2. d[0] = <<>>
    BY <2>1, <1>0
  <2> HIDE DEF m
  <2>3. ASSUME NEW n \in Nat, n < m
        PROVE  d[n + 1] = IF cell[n + 1] = QUOTE THEN d[n] \o <<QUOTE, QUOTE>>
                          ELSE Append(d[n], cell[n + 1])
    <3>1. n + 1 \in 0 .. m /\ n + 1 # 0 /\ (n + 1) - 1 = n
      BY <2>3, <1>0
    <3> QED
      BY <3>1, <2>1
  <2> QED
    BY <2>2, <2>3
<1>2. Scanned(v) = Reading(columns, <<>>, TRUE, FALSE)
  <2>1. Scanned(Append(u, QUOTE)) = Scan(Scanned(u), QUOTE)
    BY ScanAppend
  <2> QED
    BY <2>1, ScanSteps
<1> DEFINE Reads(n) == d[n] \in Seq(C)
                   /\ Scanned(v \o d[n]) = Reading(columns, SubSeq(cell, 1, n), TRUE, FALSE)
           S == {n \in Nat : n <= m => Reads(n)}
<1>3. 0 \in S
  <2>1. v \o d[0] = v /\ d[0] \in Seq(C) /\ SubSeq(cell, 1, 0) = <<>>
    BY <1>0, <1>1, Beginning
  <2>2. Reads(0)
    BY <2>1, <1>2
  <2> QED
    BY <2>2
<1>4. ASSUME NEW n \in Nat, n \in S PROVE n + 1 \in S
  <2> SUFFICES ASSUME n + 1 <= m PROVE Reads(n + 1)
    <3> HIDE DEF Reads
    <3> QED
      OBVIOUS
  <2> DEFINE c == cell[n + 1]  so == SubSeq(cell, 1, n)
  <2>1. n < m /\ n <= m /\ c \in C
    BY <1>0
  <2>2. d[n] \in Seq(C) /\ Scanned(v \o d[n]) = Reading(columns, so, TRUE, FALSE)
    BY <2>1, <1>4
  <2>3. SubSeq(cell, 1, n + 1) = Append(so, c)
    BY <2>1, Beginning
  <2>4. v \o d[n] \in Seq(C)
    BY <2>2, <1>0
  <2> HIDE DEF v, so, S
  <2>5. CASE c = QUOTE
    <3>1. d[n + 1] = d[n] \o <<QUOTE, QUOTE>>
      BY <2>5, <2>1, <1>1
    <3>2. d[n + 1] = Append(Append(d[n], QUOTE), QUOTE) /\ d[n + 1] \in Seq(C)
      BY <3>1, <2>2
    <3>3. v \o d[n + 1] = Append(Append(v \o d[n], QUOTE), QUOTE)
      <4> DEFINE x == d[n]
      <4>1. x \in Seq(C) /\ v \in Seq(C) /\ QUOTE \in C
        BY <2>2, <1>0
      <4>2. d[n + 1] = Append(Append(x, QUOTE), QUOTE)
        BY <3>2
      <4> HIDE DEF x
      <4>3. Joins(v, x, QUOTE)
        BY <4>1, ConcatTwo
      <4>4. v \o d[n + 1] = Append(Append(v \o x, QUOTE), QUOTE)
        BY <4>2, <4>3 DEF Joins
      <4> QED
        BY <4>4 DEF x
    <3>4. Append(v \o d[n], QUOTE) \in Seq(C)
      BY <2>4
    <3>5. Scanned(v \o d[n + 1]) = Scan(Scan(Scanned(v \o d[n]), QUOTE), QUOTE)
      BY <2>4, <3>3, <3>4, ScanAppend
    <3> QED
      <4>1. Scan(Scan(Reading(columns, so, TRUE, FALSE), QUOTE), QUOTE)
              = Reading(columns, Append(so, QUOTE), TRUE, FALSE)
        BY ScanSteps
      <4> QED
        BY <4>1, <2>2, <2>3, <2>5, <3>2, <3>5
  <2>6. CASE c # QUOTE
    <3>1. d[n + 1] = Append(d[n], c)
      BY <2>6, <2>1, <1>1
    <3>2. d[n + 1] \in Seq(C) /\ v \o d[n + 1] = Append(v \o d[n], c)
      <4> HIDE DEF c
      <4>1. v \o Append(d[n], c) = Append(v \o d[n], c) /\ Append(d[n], c) \in Seq(C)
        <5>1. c \in C /\ d[n] \in Seq(C) /\ v \in Seq(C)
          BY <2>1, <2>2, <1>0
        <5> DEFINE e == d[n]
        <5> HIDE DEF e
        <5>2. e \in Seq(C)
          BY <5>1 DEF e
        <5>3. v \o Append(e, c) = Append(v \o e, c)
          BY <5>1, <5>2, ConcatAppend
        <5>4. Append(e, c) \in Seq(C)
          BY <5>1, <5>2
        <5> QED
          BY <5>3, <5>4 DEF e
      <4> QED
        BY <4>1, <3>1
    <3>3. Scanned(v \o d[n + 1]) = Scan(Scanned(v \o d[n]), c)
      BY <2>1, <2>4, <3>2, ScanAppend
    <3> QED
      <4>1. Scan(Reading(columns, so, TRUE, FALSE), c) = Reading(columns, Append(so, c), TRUE, FALSE)
        <5> HIDE DEF c
        <5>1. c # QUOTE
          BY <2>6
        <5>2. \A x : x # QUOTE => Scan(Reading(columns, so, TRUE, FALSE), x) = Reading(columns, Append(so, x), TRUE, FALSE)
          BY ScanSteps
        <5> QED
          BY <5>1, <5>2
      <4> QED
        BY <4>1, <2>2, <2>3, <3>2, <3>3
  <2> QED
    BY <2>5, <2>6
<1> HIDE DEF S
<1>5. m \in S
  BY <1>0, <1>3, <1>4, Induction
<1>6. d[m] \in Seq(C) /\ Scanned(v \o d[m]) = Reading(columns, cell, TRUE, FALSE)
  <2>1. Reads(m)
    <3> HIDE DEF Reads
    <3> QED
      BY <1>0, <1>5 DEF S
  <2>2. SubSeq(cell, 1, m) = cell
    BY Beginning
  <2> QED
    BY <2>1, <2>2
<1>7. u \o (<<QUOTE>> \o d[m] \o <<QUOTE>>) = Append(v \o d[m], QUOTE)
  <2> DEFINE e == d[m]
  <2>1. e \in Seq(C)
    BY <1>6
  <2> HIDE DEF e
  <2>2. u \o (<<QUOTE>> \o e \o <<QUOTE>>) = Append(Append(u, QUOTE) \o e, QUOTE)
    BY <2>1
  <2> QED
    BY <2>2 DEF e
<1>8. v \o d[m] \in Seq(C)
  BY <1>0, <1>6
<1> HIDE DEF v, m
<1>9. Scanned(Append(v \o d[m], QUOTE)) = Scan(Reading(columns, cell, TRUE, FALSE), QUOTE)
  BY <1>6, <1>8, ScanAppend
<1>10. Append(v \o d[m], QUOTE) \in Seq(C)
  BY <1>8
<1> QED
  BY <1>7, <1>9, <1>10, ScanSteps

Plain(cell) == {QUOTE, COMMA} \cap ToSet(cell) = {}

\* A cell without quotes and commas, likewise.
LEMMA PlainRead ==
  ASSUME NEW C, NEW cell \in Seq(C), NEW u \in Seq(C), NEW columns,
         Plain(cell),
         Scanned(u) = Reading(columns, <<>>, FALSE, FALSE)
  PROVE  u \o cell \in Seq(C) /\ Scanned(u \o cell) = Reading(columns, cell, FALSE, FALSE)
<1> DEFINE m == Len(cell)
           so(n) == SubSeq(cell, 1, n)
           Reads(n) == so(n) \in Seq(C) /\ Scanned(u \o so(n)) = Reading(columns, so(n), FALSE, FALSE)
           S == {n \in Nat : n <= m => Reads(n)}
<1>0. m \in Nat
  OBVIOUS
<1>1. \A n \in 1 .. m : cell[n] \in C /\ cell[n] \notin {QUOTE, COMMA}
  BY DEF ToSet, Plain
<1>2. Reads(0)
  <2>1. so(0) = <<>>
    BY Beginning
  <2>2. u \o <<>> = u /\ <<>> \in Seq(C)
    OBVIOUS
  <2> HIDE DEF so
  <2> QED
    BY <2>1, <2>2
<1>3. ASSUME NEW n \in Nat, n < m, Reads(n) PROVE Reads(n + 1)
  <2> DEFINE c == cell[n + 1]
  <2>1. c \in C /\ c \notin {QUOTE, COMMA}
    BY <1>0, <1>1, <1>3
  <2>2. so(n + 1) = Append(so(n), c)
    BY <1>3, Beginning
  <2>3. so(n) \in Seq(C) /\ Scanned(u \o so(n)) = Reading(columns, so(n), FALSE, FALSE)
    BY <1>3
  <2> DEFINE e == so(n)
  <2> HIDE DEF so, c
  <2>4. e \in Seq(C) /\ Scanned(u \o e) = Reading(columns, e, FALSE, FALSE)
    BY <2>3
  <2> HIDE DEF e
  <2>5. u \o Append(e, c) = Append(u \o e, c) /\ u \o e \in Seq(C) /\ Append(e, c) \in Seq(C)
    BY <2>1, <2>4
  <2>6. Scanned(Append(u \o e, c)) = Scan(Scanned(u \o e), c)
    BY <2>1, <2>5, ScanAppend
  <2>7. \A x : x \notin {QUOTE, COMMA} =>
          Scan(Reading(columns, e, FALSE, FALSE), x) = Reading(columns, Append(e, x), FALSE, FALSE)
    BY DEF Scan, Reading
  <2>8. Scanned(u \o Append(e, c)) = Reading(columns, Append(e, c), FALSE, FALSE)
    BY <2>1, <2>4, <2>5, <2>6, <2>7
  <2> QED
    BY <2>2, <2>5, <2>8 DEF e
<1> HIDE DEF Reads
<1>4. 0 \in S /\ \A n \in Nat : n \in S => n + 1 \in S
  BY <1>0, <1>2, <1>3
<1> HIDE DEF S
<1>5. m \in S
  BY <1>0, <1>4, Induction
<1>6. Reads(m) /\ so(m) = cell
  BY <1>0, <1>5, Beginning DEF S
<1>7. Scanned(u \o cell) = Reading(columns, cell, FALSE, FALSE)
  BY <1>6 DEF Reads
<1> QED
  BY <1>7

LEMMA CellRead ==
  ASSUME NEW C, QUOTE \in C, NEW cell \in Seq(C), NEW u \in Seq(C), NEW columns,
         Scanned(u) = Reading(columns, <<>>, FALSE, FALSE)
  PROVE  /\ u \o Encode(cell) \in Seq(C)
         /\ \E escape \in BOOLEAN : Scanned(u \o Encode(cell)) = Reading(columns, cell, FALSE, escape)
<1>1. CASE Plain(cell)
  <2>1. Encode(cell) = cell
    BY <1>1 DEF Encode, Plain
  <2>2. u \o cell \in Seq(C) /\ Scanned(u \o cell) = Reading(columns, cell, FALSE, FALSE)
    BY <1>1, PlainRead
  <2> QED
    BY <2>1, <2>2
<1>2. CASE ~Plain(cell)
  <2>1. Encode(cell) = <<QUOTE>> \o Doubled(cell) \o <<QUOTE>>
    BY <1>2 DEF Encode, Plain
  <2>2. /\ u \o (<<QUOTE>> \o Doubled(cell) \o <<QUOTE>>) \in Seq(C)
        /\ Scanned(u \o (<<QUOTE>> \o Doubled(cell) \o <<QUOTE>>)) = Reading(columns, cell, FALSE, TRUE)
    BY QuotedRead
  <2> QED
    BY <2>1, <2>2
<1> QED
  BY <1>1, <1>2

\* parseCsvLine: the cells of every line that was written in the usual way, of any
\* length and with any characters in them, are read back.
THEOREM LinesReadBack ==
  ASSUME QUOTE # COMMA, NEW C, QUOTE \in C, COMMA \in C,
         NEW fields \in Seq(Seq(C)), fields # <<>>
  PROVE  ParseCsvLine(EncodeLine(fields)) = fields
<1> DEFINE m == Len(fields)
           so(n) == SubSeq(fields, 1, n)
<1>0. m \in Nat /\ m >= 1 /\ \A n \in 1 .. m : fields[n] \in Seq(C)
  OBVIOUS
<1> PICK out : LineDef(out, fields, m) /\ EncodeLine(fields) = out[m]
  BY <1>0, LineIs
<1>1. /\ out[1] = Encode(fields[1])
      /\ \A n \in Nat : n >= 1 /\ n < m => out[n + 1] = out[n] \o <<COMMA>> \o Encode(fields[n + 1])
  <2>1. \A n \in 1 .. m : out[n] = IF n = 1 THEN Encode(fields[1])
                                   ELSE out[n - 1] \o <<COMMA>> \o Encode(fields[n])
    BY DEF LineDef
  <2> HIDE DEF m
  <2>2. out[1] = Encode(fields[1])
    BY <2>1, <1>0
  <2>3. ASSUME NEW n \in Nat, n >= 1, n < m
        PROVE  out[n + 1] = out[n] \o <<COMMA>> \o Encode(fields[n + 1])
    <3>1. n + 1 \in 1 .. m /\ n + 1 # 1 /\ (n + 1) - 1 = n
      BY <2>3, <1>0
    <3> QED
      BY <3>1, <2>1
  <2> QED
    BY <2>2, <2>3
<1> DEFINE Reads(n) == /\ out[n] \in Seq(C)
                      /\ \E escape \in BOOLEAN :
                           Scanned(out[n]) = Reading(so(n - 1), fields[n], FALSE, escape)
           S == {n \in Nat : n >= 1 /\ n <= m => Reads(n)}
<1>2. Reads(1)
  <2>1. so(1 - 1) = <<>>
    BY Beginning
  <2>2. Scanned(<<>>) = Reading(<<>>, <<>>, FALSE, FALSE)
    BY ScanEmpty DEF Scan0, Reading
  <2> DEFINE e == Encode(fields[1])
  <2>3. <<>> \o e \in Seq(C)
        /\ \E escape \in BOOLEAN : Scanned(<<>> \o e) = Reading(<<>>, fields[1], FALSE, escape)
    <3>1. <<>> \in Seq(C) /\ fields[1] \in Seq(C)
      BY <1>0
    <3> QED
      BY <3>1, <2>2, CellRead
  <2>4. e \in Seq(C) /\ <<>> \o e = e
    <3>1. CASE Plain(fields[1])
      BY <3>1, <1>0 DEF Encode, Plain
    <3>2. CASE ~Plain(fields[1])
      BY <2>3
    <3> QED
      BY <3>1, <3>2
  <2> QED
    BY <2>1, <2>3, <2>4, <1>1
<1>3. ASSUME NEW n \in Nat, n >= 1, n < m, Reads(n) PROVE Reads(n + 1)
  <2> DEFINE c == fields[n + 1]
  <2>1. c \in Seq(C) /\ out[n + 1] = out[n] \o <<COMMA>> \o Encode(c)
    <3>1. n + 1 \in 1 .. m
      BY <1>0, <1>3
    <3>2. out[n + 1] = out[n] \o <<COMMA>> \o Encode(fields[n + 1])
      BY <1>1, <1>3
    <3> QED
      BY <3>1, <3>2, <1>0
  <2>2. so((n + 1) - 1) = Append(so(n - 1), fields[n])
    <3>1. n - 1 \in Nat /\ n - 1 < m /\ (n - 1) + 1 = n /\ (n + 1) - 1 = n
      BY <1>0, <1>3
    <3>2. SubSeq(fields, 1, (n - 1) + 1) = Append(SubSeq(fields, 1, n - 1), fields[(n - 1) + 1])
      BY <3>1, Beginning
    <3> QED
      BY <3>1, <3>2
  <2> PICK escape \in BOOLEAN : Scanned(out[n]) = Reading(so(n - 1), fields[n], FALSE, escape)
    BY <1>3
  <2>3. out[n] \in Seq(C)
    BY <1>3
  <2> DEFINE columns == so((n + 1) - 1)  u == Append(out[n], COMMA)
  <2> HIDE DEF so, c
  <2>4. Scanned(u) = Scan(Reading(so(n - 1), fields[n], FALSE, escape), COMMA)
    BY <2>3, ScanAppend
  <2>5. Scan(Reading(so(n - 1), fields[n], FALSE, escape), COMMA)
          = Reading(Append(so(n - 1), fields[n]), <<>>, FALSE, FALSE)
    BY ScanSteps
  <2>6. Scanned(u) = Reading(columns, <<>>, FALSE, FALSE) /\ u \in Seq(C)
    <3>1. columns = Append(so(n - 1), fields[n])
      BY <2>2
    <3>2. u \in Seq(C)
      BY <2>3
    <3> HIDE DEF u, columns
    <3> QED
      BY <3>1, <3>2, <2>4, <2>5
  <2> HIDE DEF u, columns
  <2>7. /\ u \o Encode(c) \in Seq(C)
        /\ \E esc \in BOOLEAN : Scanned(u \o Encode(c)) = Reading(columns, c, FALSE, esc)
    BY <2>1, <2>6, CellRead
  <2>8. out[n + 1] = u \o Encode(c)
    BY <2>1, <2>3 DEF u
  <2> QED
    BY <2>7, <2>8 DEF c, columns
<1> HIDE DEF Reads
<1>4. 0 \in S /\ \A n \in Nat : n \in S => n + 1 \in S
  <2>1. ASSUME NEW n \in Nat, n \in S PROVE n + 1 \in S
    <3>1. CASE n = 0
      BY <3>1, <1>2
    <3>2. CASE n >= 1
      BY <3>2, <2>1, <1>0, <1>3
    <3> QED
      BY <3>1, <3>2
  <2> QED
    BY <2>1
<1> HIDE DEF S
<1>5. m \in S
  BY <1>0, <1>4, Induction
<1>6. Reads(m)
  BY <1>0, <1>5 DEF S
<1> PICK escape \in BOOLEAN : Scanned(out[m]) = Reading(so(m - 1), fields[m], FALSE, escape)
  BY <1>6 DEF Reads
<1>7. Append(so(m - 1), fields[m]) = fields
  <2>1. m - 1 \in Nat /\ m - 1 < m /\ (m - 1) + 1 = m
    BY <1>0
  <2>2. SubSeq(fields, 1, (m - 1) + 1) = Append(SubSeq(fields, 1, m - 1), fields[(m - 1) + 1])
    BY <2>1, Beginning
  <2>3. SubSeq(fields, 1, m) = fields
    BY Beginning
  <2> QED
    BY <2>1, <2>2, <2>3
<1> HIDE DEF so, m
<1> QED
  BY <1>7 DEF ParseCsvLine, Reading

\* RoundTrip for the lines of the run.
THEOREM RoundTripsHold == MCSpec => []RoundTrip
<1> DEFINE Kept == cells = <<>> \/ cells \in ShortCell \X ShortCell
<1>1. MCInit => Kept
  BY DEF MCInit
<1>2. Kept /\ [MCNext]_<<vars, cells>> => Kept'
  BY DEF MCNext
<1>3. Kept => RoundTrip
  <2> SUFFICES ASSUME cells \in ShortCell \X ShortCell
               PROVE ParseCsvLine(EncodeLine(cells)) = cells
    BY DEF RoundTrip
  <2>1. ASSUME NEW c \in ShortCell PROVE c \in Seq(Char)
    <3>1. PICK n \in 0 .. 3 : c \in [1 .. n -> Char]
      BY DEF ShortCell
    <3>2. n \in Nat
      OBVIOUS
    <3> QED
      BY <3>1, <3>2
  <2>2. cells \in Seq(Seq(Char)) /\ cells # <<>>
    <3>1. PICK a \in ShortCell, b \in ShortCell : cells = <<a, b>>
      OBVIOUS
    <3>2. a \in Seq(Char) /\ b \in Seq(Char)
      BY <2>1
    <3> QED
      BY <3>1, <3>2
  <2>3. QUOTE \in Char /\ COMMA \in Char /\ QUOTE # COMMA
    BY CsvAssumption DEF Char
  <2> QED
    BY <2>2, <2>3, LinesReadBack
<1> QED
  BY <1>1, <1>2, <1>3, PTL DEF MCSpec
=============================================================================

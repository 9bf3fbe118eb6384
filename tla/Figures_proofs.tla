--------------------------- MODULE Figures_proofs ---------------------------
(***************************************************************************)
(* What is worked out from the tables for a reader.  The score of a lead:   *)
(* what it is for every lead and all evidence, and how it moves along the   *)
(* life of a lead.  The figures of a report: between which true figures      *)
(* they lie, whatever is logged while its queries run.                      *)
(***************************************************************************)
EXTENDS MCLeadScoring, Reports, FiniteSetTheorems, TLAPS

-----------------------------------------------------------------------------
(* The score of a lead *)

\* The engagement points lie between zero and their cap.
LEMMA EngagementRange ==
  ASSUME NEW e \in Evidence
  PROVE  Engagement(e) \in 0 .. 35
BY DEF Evidence, Engagement, EngagementRaw, Points

\* The contact data is worth thirty points at most.
LEMMA ContactabilityRange ==
  ASSUME NEW c \in Contact
  PROVE  Contactability(c) \in 0 .. 30
BY DEF Contact, Contactability, Points

\* Freshness is one of its four brackets.
LEMMA FreshnessRange ==
  ASSUME NEW age \in Int \cup {NoActivity}
  PROVE  Freshness(age) \in {-5, 0, 2, 5}
<1>1. CASE age = NoActivity
  BY <1>1, NoActivityAssumption DEF Freshness
<1>2. CASE age \in Int
  BY <1>2, DayAssumption, NoActivityAssumption DEF Freshness
<1>. QED  BY <1>1, <1>2

\* The parts of the total are whole numbers, and so is the sum that is clamped.
LEMMA PartsInt ==
  ASSUME NEW row \in ScoredLead, NEW e \in Evidence
  PROVE  /\ Contactability(row.contact) \in Int /\ Engagement(e) \in Int
         /\ AppointmentPoints(e) \in Int /\ LEAD_STAGE_SCORES[row.status] \in Int
         /\ Freshness(row.age) \in Int /\ Penalty(e) \in Int
<1>1. Contactability(row.contact) \in Int
  BY ContactabilityRange DEF ScoredLead
<1>2. Engagement(e) \in Int
  BY EngagementRange
<1>3. AppointmentPoints(e) \in Int /\ Penalty(e) \in Int
  BY DEF Evidence, AppointmentPoints, Penalty, Points
<1>4. LEAD_STAGE_SCORES[row.status] \in Int
  BY DEF ScoredLead, LeadStatus, LEAD_STAGE_SCORES
<1>5. Freshness(row.age) \in {-5, 0, 2, 5}
  BY FreshnessRange DEF ScoredLead
<1>. QED  BY <1>1, <1>2, <1>3, <1>4, <1>5

LEMMA UnclampedInt ==
  ASSUME NEW row \in ScoredLead, NEW e \in Evidence
  PROVE  Unclamped(row, e) \in Int
BY PartsInt DEF Unclamped

\* computeScore: the score of every lead lies in the range that
\* lead-scoring.rules.ts declares, whatever the evidence about it.
THEOREM ScoreBounded ==
  ASSUME NEW row \in ScoredLead, NEW e \in Evidence
  PROVE  Score(row, e) \in MIN_LEAD_SCORE .. MAX_LEAD_SCORE
BY UnclampedInt DEF Score, Clamp, MIN_LEAD_SCORE, MAX_LEAD_SCORE

-----------------------------------------------------------------------------
\* Clamping a total keeps the order of two totals.
LEMMA ClampMonotone ==
  ASSUME NEW m \in Int, NEW n \in Int, m =< n
  PROVE  Clamp(m) =< Clamp(n)
BY DEF Clamp, MIN_LEAD_SCORE, MAX_LEAD_SCORE

\* Of two rows and evidences that are equally sold, the one whose parts add up
\* to more has the higher score.
LEMMA ScoreMonotone ==
  ASSUME NEW a \in ScoredLead, NEW e \in Evidence, NEW b \in ScoredLead, NEW f \in Evidence,
         SoldForScore(a) <=> SoldForScore(b), Unclamped(a, e) =< Unclamped(b, f)
  PROVE  Score(a, e) =< Score(b, f)
<1>1. Unclamped(a, e) \in Int /\ Unclamped(b, f) \in Int
  BY UnclampedInt
<1>2. Clamp(Unclamped(a, e)) =< Clamp(Unclamped(b, f))
  BY <1>1, ClampMonotone
<1>. QED  BY <1>2 DEF Score

\* A lead that has just been touched is as fresh as can be.
LEMMA FreshnessTop ==
  ASSUME NEW age \in Int \cup {NoActivity}
  PROVE  Freshness(age) =< Freshness(0)
<1>1. Freshness(age) \in {-5, 0, 2, 5}
  BY FreshnessRange
<1>2. Freshness(0) = 5
  BY DayAssumption, NoActivityAssumption DEF Freshness
<1>. QED  BY <1>1, <1>2

\* A date that grows older is never fresher.
LEMMA FreshnessFalls ==
  ASSUME NEW age \in Int
  PROVE  Freshness(age + 1) =< Freshness(age)
<1>1. age + 1 \in Int /\ age # NoActivity /\ age + 1 # NoActivity
  BY NoActivityAssumption
<1>2. CASE age =< Day
  <2>1. Freshness(age) = 5
    BY <1>1, <1>2, DayAssumption DEF Freshness
  <2>2. Freshness(age + 1) \in {-5, 0, 2, 5}
    BY <1>1, FreshnessRange
  <2>. QED  BY <2>1, <2>2
<1>3. CASE age > Day
  <2>1. Day \in Nat /\ Day > 0
    BY DayAssumption
  <2>. QED  BY <2>1, <1>1, <1>3 DEF Freshness
<1>. QED  BY <1>2, <1>3, DayAssumption

\* The life of a lead stays among the rows and evidences that are scored.
Alive == lead \in ScoredLead /\ evidence \in Evidence

LEMMA AliveInvariant == LifeSpec => []Alive
<1>1. LifeInit => Alive
  BY DEF LifeInit, Alive, ScoredLead, Evidence, Contact, LeadStatus
<1>2. Alive /\ [LifeNext]_lifeVars => Alive'
  <2>. SUFFICES ASSUME Alive, [LifeNext]_lifeVars PROVE Alive'
    OBVIOUS
  <2>1. CASE EditLead
    <3>1. MCContacts \subseteq Contact
      BY DEF MCContacts, Contact
    <3>. QED  BY <2>1, <3>1 DEF EditLead, Alive, ScoredLead, LeadStatus
  <2>2. CASE LogContact
    <3>1. lead' \in ScoredLead
      BY <2>2 DEF LogContact, Alive, ScoredLead
    <3>2. evidence.outbound + 1 \in Nat /\ evidence.calls + 1 \in Nat
      BY DEF Alive, Evidence
    <3>3. evidence' \in Evidence
      <4>1. CASE evidence' = [evidence EXCEPT !.outbound = evidence.outbound + 1]
        BY <4>1, <3>2 DEF Alive, Evidence
      <4>2. CASE evidence' = [evidence EXCEPT !.calls = evidence.calls + 1]
        BY <4>2, <3>2 DEF Alive, Evidence
      <4>3. CASE evidence' = [evidence EXCEPT !.inbound = TRUE]
        BY <4>3 DEF Alive, Evidence
      <4>. QED  BY <2>2, <4>1, <4>2, <4>3 DEF LogContact
    <3>. QED  BY <3>1, <3>3 DEF Alive
  <2>3. CASE KeepAppointments
    BY <2>3 DEF KeepAppointments, Alive, Evidence
  <2>4. CASE TimePasses
    <3>1. lead.age \in Int /\ lead' = [lead EXCEPT !.age = lead.age + 1]
      BY <2>4 DEF TimePasses, Alive, ScoredLead
    <3>2. lead' \in ScoredLead
      BY <3>1 DEF Alive, ScoredLead
    <3>3. evidence' \in Evidence
      BY <2>4 DEF TimePasses, Alive, Evidence
    <3>. QED  BY <3>2, <3>3 DEF Alive
  <2>5. CASE UNCHANGED lifeVars
    BY <2>5 DEF lifeVars, Alive
  <2>. QED  BY <2>1, <2>2, <2>3, <2>4, <2>5 DEF LifeNext
<1>. QED  BY <1>1, <1>2, PTL DEF LifeSpec

\* One more message or call, or the first answer, never costs points.
LEMMA EngagementGrows ==
  ASSUME NEW e \in Evidence
  PROVE  /\ Engagement(e) =< Engagement([e EXCEPT !.outbound = e.outbound + 1])
         /\ Engagement(e) =< Engagement([e EXCEPT !.calls = e.calls + 1])
         /\ Engagement(e) =< Engagement([e EXCEPT !.inbound = TRUE])
<1>1. ASSUME NEW f \in Evidence, e.outbound =< f.outbound, e.calls =< f.calls,
             e.inbound => f.inbound
      PROVE  Engagement(e) =< Engagement(f)
  <2>1. /\ e.outbound \in Nat /\ e.calls \in Nat /\ e.inbound \in BOOLEAN
        /\ f.outbound \in Nat /\ f.calls \in Nat /\ f.inbound \in BOOLEAN
    BY DEF Evidence
  <2>2. EngagementRaw(e) =< EngagementRaw(f)
    BY <1>1, <2>1 DEF EngagementRaw, Points
  <2>3. EngagementRaw(e) \in Int /\ EngagementRaw(f) \in Int
    BY <2>1 DEF EngagementRaw, Points
  <2>. QED  BY <2>2, <2>3 DEF Engagement
<1>2. e.outbound \in Nat /\ e.calls \in Nat
  BY DEF Evidence
<1>3. Engagement(e) =< Engagement([e EXCEPT !.outbound = e.outbound + 1])
  <2>. DEFINE f == [e EXCEPT !.outbound = e.outbound + 1]
  <2>1. /\ f \in Evidence /\ f.outbound = e.outbound + 1
        /\ f.calls = e.calls /\ f.inbound = e.inbound
    BY DEF Evidence
  <2>. HIDE DEF f
  <2>2. Engagement(e) =< Engagement(f)
    BY <2>1, <1>1, <1>2
  <2>. QED  BY <2>2 DEF f
<1>4. Engagement(e) =< Engagement([e EXCEPT !.calls = e.calls + 1])
  <2>. DEFINE f == [e EXCEPT !.calls = e.calls + 1]
  <2>1. /\ f \in Evidence /\ f.outbound = e.outbound
        /\ f.calls = e.calls + 1 /\ f.inbound = e.inbound
    BY DEF Evidence
  <2>. HIDE DEF f
  <2>2. Engagement(e) =< Engagement(f)
    BY <2>1, <1>1, <1>2
  <2>. QED  BY <2>2 DEF f
<1>5. Engagement(e) =< Engagement([e EXCEPT !.inbound = TRUE])
  <2>. DEFINE f == [e EXCEPT !.inbound = TRUE]
  <2>1. /\ f \in Evidence /\ f.outbound = e.outbound
        /\ f.calls = e.calls /\ f.inbound
    BY DEF Evidence
  <2>. HIDE DEF f
  <2>2. Engagement(e) =< Engagement(f)
    BY <2>1, <1>1, <1>2
  <2>. QED  BY <2>2 DEF f
<1>. QED  BY <1>3, <1>4, <1>5

\* computeScore: however many messages and calls there are, and whatever the cap
\* and the clamp take away, one more never makes a lead look worse.
THEOREM ContactHelps == LifeSpec => ContactNeverHurts
<1>1. ASSUME Alive, Alive', LogContact
      PROVE  Score(lead, evidence) =< Score(lead', evidence')
  <2>1. /\ lead' = [lead EXCEPT !.age = 0]
        /\ lead \in ScoredLead /\ lead' \in ScoredLead
        /\ evidence \in Evidence /\ evidence' \in Evidence
    BY <1>1 DEF Alive, LogContact
  <2>2. /\ lead'.status = lead.status /\ lead'.soldAt = lead.soldAt
        /\ lead'.contact = lead.contact /\ lead'.age = 0
    BY <2>1 DEF ScoredLead
  <2>3. Engagement(evidence) =< Engagement(evidence')
    BY <1>1, <2>1, EngagementGrows DEF LogContact
  <2>4. AppointmentPoints(evidence') = AppointmentPoints(evidence)
        /\ Penalty(evidence') = Penalty(evidence)
    <3>1. /\ evidence'.showed = evidence.showed /\ evidence'.upcoming = evidence.upcoming
          /\ evidence'.noShow = evidence.noShow
      BY <1>1, <2>1 DEF LogContact, Evidence
    <3>. QED  BY <3>1 DEF AppointmentPoints, Penalty
  <2>5. Freshness(lead.age) =< Freshness(lead'.age)
    <3>1. lead.age \in Int \cup {NoActivity}
      BY <2>1 DEF ScoredLead
    <3>. QED  BY <3>1, <2>2, FreshnessTop
  <2>6. Unclamped(lead, evidence) =< Unclamped(lead', evidence')
    <3>. DEFINE c == Contactability(lead.contact)
                g == Engagement(evidence)
                h == Engagement(evidence')
                a == AppointmentPoints(evidence)
                s == LEAD_STAGE_SCORES[lead.status]
                f == Freshness(lead.age)
                k == Freshness(lead'.age)
                p == Penalty(evidence)
    <3>1. /\ c \in Int /\ g \in Int /\ a \in Int /\ s \in Int /\ f \in Int /\ p \in Int
          /\ h \in Int /\ k \in Int
      BY <2>1, PartsInt
    <3>2. /\ Unclamped(lead, evidence) = c + g + a + s + f + p
          /\ Unclamped(lead', evidence') = c + h + a + s + k + p
      BY <2>2, <2>4 DEF Unclamped
    <3>3. g =< h /\ f =< k
      BY <2>3, <2>5
    <3>. HIDE DEF c, g, h, a, s, f, k, p
    <3>. QED  BY <3>1, <3>2, <3>3
  <2>7. SoldForScore(lead) <=> SoldForScore(lead')
    BY <2>2 DEF SoldForScore
  <2>. QED  BY <2>1, <2>6, <2>7, ScoreMonotone
<1>2. ASSUME Alive, Alive', LogContact PROVE CurrentScore' >= CurrentScore
  <2>1. Score(lead, evidence) \in Int /\ Score(lead', evidence') \in Int
    BY <1>2, ScoreBounded DEF Alive, MIN_LEAD_SCORE, MAX_LEAD_SCORE
  <2>2. CurrentScore = Score(lead, evidence) /\ CurrentScore' = Score(lead', evidence')
    BY DEF CurrentScore
  <2>3. Score(lead, evidence) =< Score(lead', evidence')
    BY <1>1, <1>2
  <2>. QED  BY <2>1, <2>2, <2>3
<1>3. Alive /\ Alive' /\ [LifeNext]_lifeVars => [LogContact => CurrentScore' >= CurrentScore]_lifeVars
  BY <1>2
<1>. QED  BY <1>3, AliveInvariant, PTL DEF LifeSpec, ContactNeverHurts

\* computeScore: while nobody touches a lead its score can only fall, at every
\* age and whichever appointments pass.
THEOREM IdleScoreFalls == LifeSpec => IdleScoreOnlyFalls
<1>1. ASSUME Alive, Alive', TimePasses
      PROVE  Score(lead', evidence') =< Score(lead, evidence)
  <2>1. /\ lead' = [lead EXCEPT !.age = lead.age + 1] /\ lead.age # NoActivity
        /\ lead \in ScoredLead /\ lead' \in ScoredLead
        /\ evidence \in Evidence /\ evidence' \in Evidence
    BY <1>1 DEF Alive, TimePasses
  <2>2. /\ lead'.status = lead.status /\ lead'.soldAt = lead.soldAt
        /\ lead'.contact = lead.contact /\ lead'.age = lead.age + 1 /\ lead.age \in Int
    BY <2>1 DEF ScoredLead
  <2>3. /\ evidence'.outbound = evidence.outbound /\ evidence'.inbound = evidence.inbound
        /\ evidence'.calls = evidence.calls /\ evidence'.showed = evidence.showed
        /\ evidence'.noShow = evidence.noShow
        /\ evidence'.upcoming => evidence.upcoming
    BY <1>1, <2>1 DEF TimePasses, Evidence
  <2>4. Engagement(evidence') = Engagement(evidence) /\ Penalty(evidence') = Penalty(evidence)
    BY <2>3 DEF Engagement, EngagementRaw, Penalty
  <2>5. AppointmentPoints(evidence') =< AppointmentPoints(evidence)
    BY <2>3 DEF AppointmentPoints, Points
  <2>6. Freshness(lead'.age) =< Freshness(lead.age)
    BY <2>2, FreshnessFalls
  <2>7. Unclamped(lead', evidence') =< Unclamped(lead, evidence)
    <3>. DEFINE c == Contactability(lead.contact)
                g == Engagement(evidence)
                a == AppointmentPoints(evidence)
                b == AppointmentPoints(evidence')
                s == LEAD_STAGE_SCORES[lead.status]
                f == Freshness(lead.age)
                k == Freshness(lead'.age)
                p == Penalty(evidence)
    <3>1. /\ c \in Int /\ g \in Int /\ a \in Int /\ s \in Int /\ f \in Int /\ p \in Int
          /\ b \in Int /\ k \in Int
      BY <2>1, PartsInt
    <3>2. /\ Unclamped(lead, evidence) = c + g + a + s + f + p
          /\ Unclamped(lead', evidence') = c + g + b + s + k + p
      BY <2>2, <2>4 DEF Unclamped
    <3>3. b =< a /\ k =< f
      BY <2>5, <2>6
    <3>. HIDE DEF c, g, a, b, s, f, k, p
    <3>. QED  BY <3>1, <3>2, <3>3
  <2>8. SoldForScore(lead) <=> SoldForScore(lead')
    BY <2>2 DEF SoldForScore
  <2>. QED  BY <2>1, <2>7, <2>8, ScoreMonotone
<1>2. ASSUME Alive, Alive', TimePasses PROVE CurrentScore' =< CurrentScore
  <2>1. CurrentScore = Score(lead, evidence) /\ CurrentScore' = Score(lead', evidence')
    BY DEF CurrentScore
  <2>. QED  BY <2>1, <1>1, <1>2
<1>3. Alive /\ Alive' /\ [LifeNext]_lifeVars => [TimePasses => CurrentScore' =< CurrentScore]_lifeVars
  BY <1>2
<1>. QED  BY <1>3, AliveInvariant, PTL DEF LifeSpec, IdleScoreOnlyFalls

\* buildReasons: for every row and all evidence, what is left out of the
\* explanation is nothing, so its lines add up to the total.
THEOREM ReasonsExplain == LifeSpec => []ReasonsAddUp
<1>1. ASSUME Alive, ~SoldForScore(lead) PROVE ReasonsAddUp
  <2>. DEFINE b == Breakdown(lead, evidence)
              Line(part) == IF part \in Reasons(b) THEN b[part] ELSE 0
  <2>1. /\ b.contactability = Contactability(lead.contact) /\ b.engagement = Engagement(evidence)
        /\ b.appointment = AppointmentPoints(evidence)
        /\ b.stage = LEAD_STAGE_SCORES[lead.status]
        /\ b.freshness = Freshness(lead.age) /\ b.penalty = Penalty(evidence)
        /\ b.total = Score(lead, evidence)
    BY <1>1 DEF Breakdown
  <2>2. b.contactability \in 0 .. 30 /\ b.engagement \in 0 .. 35
    BY <1>1, <2>1, ContactabilityRange, EngagementRange DEF Alive, ScoredLead
  <2>3. b.appointment \in 0 .. 25 /\ b.penalty \in {-10, 0}
    BY <1>1, <2>1 DEF Alive, Evidence, AppointmentPoints, Penalty, Points
  <2>4. b.stage \in 0 .. 20
    BY <1>1, <2>1 DEF Alive, ScoredLead, LeadStatus, LEAD_STAGE_SCORES
  <2>5. b.freshness \in Int
    BY <1>1, <2>1, PartsInt DEF Alive
  <2>6. b.total = Clamp(b.contactability + b.engagement + b.appointment + b.stage
                          + b.freshness + b.penalty)
    BY <1>1, <2>1 DEF Score, Unclamped
  <2>. HIDE DEF b
  <2>7. /\ "contactability" \in Reasons(b) <=> b.contactability > 0
        /\ "engagement" \in Reasons(b) <=> b.engagement > 0
        /\ "appointment" \in Reasons(b) <=> b.appointment > 0
        /\ "stage" \in Reasons(b) <=> b.stage > 0
        /\ "freshness" \in Reasons(b) <=> b.freshness # 0
        /\ "penalty" \in Reasons(b) <=> b.penalty < 0
    BY DEF Reasons
  <2>8. /\ Line("contactability") = b.contactability /\ Line("engagement") = b.engagement
        /\ Line("appointment") = b.appointment /\ Line("stage") = b.stage
        /\ Line("freshness") = b.freshness /\ Line("penalty") = b.penalty
    BY <2>2, <2>3, <2>4, <2>5, <2>7
  <2>. HIDE DEF Line
  <2>9. b.total = Clamp(Line("contactability") + Line("engagement") + Line("appointment")
                          + Line("stage") + Line("freshness") + Line("penalty"))
    BY <2>6, <2>8
  <2>. QED  BY <2>9 DEF ReasonsAddUp, b, Line
<1>2. Alive => ReasonsAddUp
  BY <1>1 DEF ReasonsAddUp
<1>. QED  BY <1>2, AliveInvariant, PTL

-----------------------------------------------------------------------------
(* Sums as the cardinality of their units *)

Units(f) == UNION {{x} \X (1 .. f[x]) : x \in DOMAIN f}

LEMMA UnitsDef ==
  ASSUME NEW f, NEW x, NEW i
  PROVE  <<x, i>> \in Units(f) <=> x \in DOMAIN f /\ i \in 1 .. f[x]
BY DEF Units

LEMMA UnitIsPair ==
  ASSUME NEW f, NEW u \in Units(f)
  PROVE  \E x \in DOMAIN f : \E i \in 1 .. f[x] : u = <<x, i>>
BY DEF Units

\* A finite table of numbers has a finite sum.
LEMMA UnitsFinite ==
  ASSUME NEW K, IsFiniteSet(K), NEW f \in [K -> Nat]
  PROVE  IsFiniteSet(Units(f))
<1> DEFINE T == {{x} \X (1 .. f[x]) : x \in K}
           F == [x \in K |-> {x} \X (1 .. f[x])]
<1>1. F \in Surjection(K, T)
  BY DEF Surjection
<1>2. IsFiniteSet(T)
  BY <1>1, FS_Surjection
<1>3. \A x \in K : IsFiniteSet({x} \X (1 .. f[x]))
  <2> SUFFICES ASSUME NEW x \in K PROVE IsFiniteSet({x} \X (1 .. f[x]))
    OBVIOUS
  <2>1. IsFiniteSet({x})
    BY FS_Singleton
  <2>2. f[x] \in Int /\ 1 \in Int
    OBVIOUS
  <2>3. IsFiniteSet(1 .. f[x])
    BY <2>2, FS_Interval
  <2> QED
    BY <2>1, <2>3, FS_Product
<1>4. \A S \in T : IsFiniteSet(S)
  BY <1>3
<1> HIDE DEF T
<1>5. IsFiniteSet(UNION T)
  BY <1>2, <1>4, FS_UNION
<1> QED
  BY <1>5 DEF T, Units

\* A sum whose terms grow grows.
LEMMA SumGrows ==
  ASSUME NEW K, IsFiniteSet(K), NEW f \in [K -> Nat], NEW g \in [K -> Nat],
         \A x \in K : f[x] <= g[x]
  PROVE  AddedUp(f) <= AddedUp(g) /\ AddedUp(f) \in Nat /\ AddedUp(g) \in Nat
<1>1. Units(f) \subseteq Units(g)
  <2> SUFFICES ASSUME NEW u \in Units(f) PROVE u \in Units(g)
    OBVIOUS
  <2>1. PICK x \in K : \E i \in 1 .. f[x] : u = <<x, i>>
    BY UnitIsPair
  <2>3. PICK i \in 1 .. f[x] : u = <<x, i>>
    BY <2>1
  <2>2. i \in 1 .. g[x]
    OBVIOUS
  <2> QED
    BY <2>3, <2>2, UnitsDef
<1>2. IsFiniteSet(Units(f)) /\ IsFiniteSet(Units(g))
  BY UnitsFinite
<1>3. Cardinality(Units(f)) <= Cardinality(Units(g))
  BY <1>1, <1>2, FS_Subset
<1>4. Cardinality(Units(f)) \in Nat /\ Cardinality(Units(g)) \in Nat
  BY <1>2, FS_CardinalityType
<1> QED
  BY <1>3, <1>4 DEF AddedUp, Units

\* Sets that share nothing, what is in one of them, and how large they are.
Apart(K, S) == \A j, k \in K : j # k => S[j] \cap S[k] = {}
Together(K, S) == UNION {S[k] : k \in K}
Sizes(K, S) == [k \in K |-> Cardinality(S[k])]

\* What lies in exactly one of several finite sets is counted by counting them
\* one by one.
LEMMA SumOfParts ==
  ASSUME NEW K, IsFiniteSet(K), NEW S, \A k \in K : IsFiniteSet(S[k]), Apart(K, S)
  PROVE  /\ IsFiniteSet(Together(K, S))
         /\ AddedUp(Sizes(K, S)) = Cardinality(Together(K, S))
<1> DEFINE U == UNION {S[k] : k \in K}
           c == [k \in K |-> Cardinality(S[k])]
<1>0. \A j, k \in K : j # k => S[j] \cap S[k] = {}
  BY DEF Apart
<1>1. c \in [K -> Nat]
  BY FS_CardinalityType
<1>2. \A k \in K : \E b : b \in Bijection(1 .. c[k], S[k])
  BY FS_CardinalityType DEF ExistsBijection
<1> DEFINE b == [k \in K |-> CHOOSE b : b \in Bijection(1 .. c[k], S[k])]
<1>3. \A k \in K : b[k] \in Bijection(1 .. c[k], S[k])
  BY <1>2
<1> HIDE DEF c, b
<1> DEFINE F == [u \in Units(c) |-> b[u[1]][u[2]]]
<1>4. \A k \in K : \A i \in 1 .. c[k] : <<k, i>> \in Units(c) /\ F[<<k, i>>] = b[k][i] /\ b[k][i] \in S[k]
  <2> SUFFICES ASSUME NEW k \in K, NEW i \in 1 .. c[k]
               PROVE <<k, i>> \in Units(c) /\ F[<<k, i>>] = b[k][i] /\ b[k][i] \in S[k]
    OBVIOUS
  <2>1. <<k, i>> \in Units(c)
    BY <1>1, UnitsDef
  <2>2. b[k][i] \in S[k]
    BY <1>3 DEF Bijection, Injection, Surjection
  <2> QED
    BY <2>1, <2>2
<1>5. \A u \in Units(c) : \E k \in K : \E i \in 1 .. c[k] : u = <<k, i>>
  BY <1>1, UnitIsPair
<1>6. F \in [Units(c) -> U]
  <2>1. ASSUME NEW u \in Units(c) PROVE F[u] \in U
    <3> PICK k \in K : \E i \in 1 .. c[k] : u = <<k, i>>
      BY <1>5
    <3>1. PICK i \in 1 .. c[k] : u = <<k, i>>
      OBVIOUS
    <3>2. F[u] \in S[k]
      BY <3>1, <1>4
    <3> QED
      BY <3>2
  <2> QED
    BY <2>1
<1> HIDE DEF F
<1>7. ASSUME NEW u \in Units(c), NEW v \in Units(c), F[u] = F[v] PROVE u = v
  <2> PICK j \in K : \E i \in 1 .. c[j] : u = <<j, i>>
    BY <1>5
  <2>1. PICK i \in 1 .. c[j] : u = <<j, i>>
    OBVIOUS
  <2> PICK k \in K : \E h \in 1 .. c[k] : v = <<k, h>>
    BY <1>5
  <2>2. PICK h \in 1 .. c[k] : v = <<k, h>>
    OBVIOUS
  <2>3. b[j][i] = b[k][h] /\ b[j][i] \in S[j] /\ b[k][h] \in S[k]
    BY <1>4, <1>7, <2>1, <2>2
  <2>4. j = k
    BY <2>3, <1>0
  <2>5. i = h
    BY <2>3, <2>4, <1>3 DEF Bijection, Injection, IsInjective
  <2> QED
    BY <2>1, <2>2, <2>4, <2>5
<1>8. ASSUME NEW y \in U PROVE \E u \in Units(c) : F[u] = y
  <2>1. PICK k \in K : y \in S[k]
    OBVIOUS
  <2>2. PICK i \in 1 .. c[k] : b[k][i] = y
    BY <2>1, <1>3 DEF Bijection, Surjection
  <2> QED
    BY <2>2, <1>4
<1> HIDE DEF U
<1>9. F \in Bijection(Units(c), U)
  BY <1>6, <1>7, <1>8 DEF Bijection, Injection, Surjection, IsInjective
<1>10. IsFiniteSet(Units(c))
  BY <1>1, UnitsFinite
<1>11. IsFiniteSet(U) /\ Cardinality(U) = Cardinality(Units(c))
  BY <1>9, <1>10, FS_Bijection DEF ExistsBijection
<1> QED
  BY <1>11 DEF U, c, AddedUp, Units, Together, Sizes

-----------------------------------------------------------------------------
(* What the figures are the numbers of *)

FigureNames == Counted \cup {"times_sold"}

FigureSet(f, lg, range, ids) ==
  CASE f = "total" -> ids
    [] f = "set" -> SetIn(lg, range, ids)
    [] f = "showed" -> ShowedIn(lg, range, ids)
    [] f = "sold" -> SoldIn(lg, range, ids)
    [] f = "times_sold" -> MarkedSold(lg, range, ids)

\* The log as its writers keep it: a lead and an appointment are created once.
LogOK(lg) ==
  /\ IsFiniteSet(lg)
  /\ \A e \in lg : e.at \in Nat
  /\ \A e, f \in lg : e.type = f.type /\ e.entity = f.entity
                      /\ e.type \in {"lead_created", "appointment_created"} => e = f

LEMMA FiguresAre ==
  ASSUME NEW lg, NEW q, NEW f \in FigureNames
  PROVE  Figures(lg, q)[f]
           = Cardinality(FigureSet(f, lg, q.range, LeadsIn(lg, q.range, q.filter)))
BY DEF Figures, FigureSet, FigureNames, Counted

\* A longer log and more leads can only add to what is counted.
LEMMA FigureSetGrows ==
  ASSUME NEW old, NEW lg, old \subseteq lg, NEW ids, NEW more, ids \subseteq more,
         NEW range, NEW f \in FigureNames
  PROVE  FigureSet(f, old, range, ids) \subseteq FigureSet(f, lg, range, more)
<1>1. BookingsOf(old, ids) \subseteq BookingsOf(lg, more)
  BY DEF BookingsOf
<1>2. SetIn(old, range, ids) \subseteq SetIn(lg, range, more)
  BY <1>1 DEF SetIn
<1>3. ShowedIn(old, range, ids) \subseteq ShowedIn(lg, range, more)
  BY <1>1 DEF ShowedIn
<1>4. SoldIn(old, range, ids) \subseteq SoldIn(lg, range, more)
  BY DEF SoldIn
<1>5. MarkedSold(old, range, ids) \subseteq MarkedSold(lg, range, more)
  BY DEF MarkedSold
<1> QED
  BY <1>2, <1>3, <1>4, <1>5 DEF FigureSet, FigureNames, Counted

LEMMA LeadsInGrow ==
  ASSUME NEW old, NEW lg, old \subseteq lg, NEW range, NEW filter
  PROVE  LeadsIn(old, range, filter) \subseteq LeadsIn(lg, range, filter)
BY DEF LeadsIn, Created

\* The image of a finite set of events is finite.
LEMMA EntitiesFinite ==
  ASSUME NEW E, IsFiniteSet(E)
  PROVE  IsFiniteSet({e.entity : e \in E})
<1> DEFINE F == [e \in E |-> e.entity]
           T == {e.entity : e \in E}
<1>1. F \in Surjection(E, T)
  BY DEF Surjection
<1>2. IsFiniteSet(T)
  BY <1>1, FS_Surjection
<1> QED
  BY <1>2

LEMMA FigureSetFinite ==
  ASSUME NEW lg, IsFiniteSet(lg), NEW ids, IsFiniteSet(ids), NEW range, NEW f \in FigureNames
  PROVE  IsFiniteSet(FigureSet(f, lg, range, ids))
<1>1. IsFiniteSet(SetIn(lg, range, ids))
  <2> DEFINE E == {b \in BookingsOf(lg, ids) : InRange(b.at, range)}
  <2>1. E \in SUBSET lg
    BY DEF BookingsOf
  <2>2. IsFiniteSet(E)
    BY <2>1, FS_Subset
  <2> QED
    BY <2>2, EntitiesFinite DEF SetIn
<1>2. IsFiniteSet(ShowedIn(lg, range, ids))
  <2> DEFINE E == {b.entity : b \in BookingsOf(lg, ids)}
  <2>1. BookingsOf(lg, ids) \in SUBSET lg
    BY DEF BookingsOf
  <2>2. IsFiniteSet(BookingsOf(lg, ids))
    BY <2>1, FS_Subset
  <2>3. IsFiniteSet(E)
    BY <2>2, EntitiesFinite
  <2>4. ShowedIn(lg, range, ids) \in SUBSET E
    BY DEF ShowedIn
  <2> QED
    BY <2>3, <2>4, FS_Subset
<1>3. SoldIn(lg, range, ids) \in SUBSET ids /\ MarkedSold(lg, range, ids) \in SUBSET lg
  BY DEF SoldIn, MarkedSold
<1>4. IsFiniteSet(SoldIn(lg, range, ids)) /\ IsFiniteSet(MarkedSold(lg, range, ids))
  BY <1>3, FS_Subset
<1> QED
  BY <1>1, <1>2, <1>4 DEF FigureSet, FigureNames, Counted

LEMMA LeadsInFinite ==
  ASSUME NEW lg, IsFiniteSet(lg), NEW range, NEW filter
  PROVE  IsFiniteSet(LeadsIn(lg, range, filter))
<1> DEFINE E == {c \in Created(lg, range) : Matches(c.payload, filter)}
<1>1. E \in SUBSET lg
  BY DEF Created
<1>2. IsFiniteSet(E)
  BY <1>1, FS_Subset
<1> QED
  BY <1>2, EntitiesFinite DEF LeadsIn

\* Leads that are divided divide what is counted of them: nobody's booking is
\* another's, since an appointment is booked once.
LEMMA FigureSetParts ==
  ASSUME NEW lg, LogOK(lg), NEW range, NEW f \in Counted, NEW K, NEW S,
         Apart(K, S)
  PROVE  /\ FigureSet(f, lg, range, Together(K, S))
              = UNION {FigureSet(f, lg, range, S[k]) : k \in K}
         /\ \A j, k \in K : j # k =>
              FigureSet(f, lg, range, S[j]) \cap FigureSet(f, lg, range, S[k]) = {}
<1> DEFINE U == Together(K, S)
<1>1. \A l : l \in U <=> \E k \in K : l \in S[k]
  BY DEF Together
<1>0. \A j, k \in K : j # k => S[j] \cap S[k] = {}
  BY DEF Apart
<1> HIDE DEF U
<1>2. \A a, b \in lg : a.type = "appointment_created" /\ b.type = "appointment_created"
                       /\ a.entity = b.entity => a = b
  BY DEF LogOK
<1>3. CASE f = "total"
  BY <1>3, <1>0 DEF FigureSet, U, Together
<1>4. CASE f = "set"
  <2>1. \A ids : FigureSet(f, lg, range, ids) = SetIn(lg, range, ids)
    BY <1>4 DEF FigureSet
  <2>2. \A ids, x : x \in SetIn(lg, range, ids) <=>
          \E b \in lg : b.type = "appointment_created" /\ b.lead \in ids /\ InRange(b.at, range)
                        /\ x = b.entity
    BY DEF SetIn, BookingsOf
  <2>3. SetIn(lg, range, U) = UNION {SetIn(lg, range, S[k]) : k \in K}
    BY <2>2, <1>1
  <2>4. \A j, k \in K : j # k => SetIn(lg, range, S[j]) \cap SetIn(lg, range, S[k]) = {}
    BY <2>2, <1>2, <1>0
  <2> QED
    BY <2>1, <2>3, <2>4 DEF U
<1>5. CASE f = "showed"
  <2>1. \A ids : FigureSet(f, lg, range, ids) = ShowedIn(lg, range, ids)
    BY <1>5 DEF FigureSet
  <2> DEFINE Shown(x) == \E e \in lg : e.type = "appointment_status_changed" /\ e.entity = x
                                       /\ e.status = "SHOWED" /\ InRange(e.at, range)
  <2>2. \A ids, x : x \in ShowedIn(lg, range, ids) <=>
          Shown(x) /\ \E b \in lg : b.type = "appointment_created" /\ b.lead \in ids
                                    /\ x = b.entity
    BY DEF ShowedIn, BookingsOf
  <2> HIDE DEF Shown
  <2>3. ShowedIn(lg, range, U) = UNION {ShowedIn(lg, range, S[k]) : k \in K}
    BY <2>2, <1>1
  <2>4. \A j, k \in K : j # k => ShowedIn(lg, range, S[j]) \cap ShowedIn(lg, range, S[k]) = {}
    BY <2>2, <1>2, <1>0
  <2> QED
    BY <2>1, <2>3, <2>4 DEF U
<1>6. CASE f = "sold"
  <2>1. \A ids : FigureSet(f, lg, range, ids) = SoldIn(lg, range, ids)
    BY <1>6 DEF FigureSet
  <2>2. \A ids : SoldIn(lg, range, ids) \subseteq ids
    BY DEF SoldIn
  <2>3. SoldIn(lg, range, U) = UNION {SoldIn(lg, range, S[k]) : k \in K}
    BY <1>1 DEF SoldIn
  <2>4. \A j, k \in K : j # k => SoldIn(lg, range, S[j]) \cap SoldIn(lg, range, S[k]) = {}
    BY <2>2, <1>0
  <2> QED
    BY <2>1, <2>3, <2>4 DEF U
<1> QED
  BY <1>3, <1>4, <1>5, <1>6 DEF Counted

-----------------------------------------------------------------------------
(* The log *)

LEMMA LogStep ==
  ASSUME LogOK(log), now \in Nat, LogEvent
  PROVE  log \subseteq log' /\ LogOK(log') /\ UNCHANGED <<now, req, asked>> /\ req.pc # "end"
<1>1. ASSUME NEW e, log' = log \cup {e}, e.at = now,
             \A f \in log : f.type = e.type /\ f.entity = e.entity
                            => e.type \notin {"lead_created", "appointment_created"}
      PROVE  log \subseteq log' /\ LogOK(log')
  <2>1. IsFiniteSet(log')
    BY <1>1, FS_AddElement DEF LogOK
  <2>2. \A f \in log' : f.at \in Nat
    BY <1>1 DEF LogOK
  <2>3. ASSUME NEW f \in log', NEW g \in log', f.type = g.type, f.entity = g.entity,
               f.type \in {"lead_created", "appointment_created"}
        PROVE  f = g
    <3>1. CASE f \in log /\ g \in log
      BY <2>3, <3>1 DEF LogOK
    <3>2. CASE f = e \/ g = e
      BY <2>3, <3>2, <1>1
    <3> QED
      BY <3>1, <3>2, <1>1
  <2> QED
    BY <2>1, <2>2, <2>3, <1>1 DEF LogOK
<1>2. req.pc # "end"
  BY DEF LogEvent
<1>3. CASE \E l \in Lead, p \in LeadPayloads :
             /\ ~\E e \in log : e.type = "lead_created" /\ e.entity = l
             /\ Append1([type |-> "lead_created", entity |-> l, payload |-> p, at |-> now])
  <2> PICK l \in Lead, p \in LeadPayloads :
             /\ ~\E e \in log : e.type = "lead_created" /\ e.entity = l
             /\ Append1([type |-> "lead_created", entity |-> l, payload |-> p, at |-> now])
    BY <1>3
  <2> DEFINE e == [type |-> "lead_created", entity |-> l, payload |-> p, at |-> now]
  <2>1. e.type = "lead_created" /\ e.entity = l /\ e.at = now
    OBVIOUS
  <2>2. Append1(e) /\ \A f \in log : ~(f.type = e.type /\ f.entity = e.entity)
    BY <2>1
  <2> HIDE DEF e
  <2> QED
    BY <2>1, <2>2, <1>1, <1>2 DEF Append1
<1>4. CASE \E a \in Appointment, l \in Lead \cup {NULL} :
             /\ ~\E e \in log : e.type = "appointment_created" /\ e.entity = a
             /\ Append1([type |-> "appointment_created", entity |-> a, lead |-> l, at |-> now])
  <2> PICK a \in Appointment, l \in Lead \cup {NULL} :
             /\ ~\E e \in log : e.type = "appointment_created" /\ e.entity = a
             /\ Append1([type |-> "appointment_created", entity |-> a, lead |-> l, at |-> now])
    BY <1>4
  <2> DEFINE e == [type |-> "appointment_created", entity |-> a, lead |-> l, at |-> now]
  <2>1. e.type = "appointment_created" /\ e.entity = a /\ e.at = now
    OBVIOUS
  <2>2. Append1(e) /\ \A f \in log : ~(f.type = e.type /\ f.entity = e.entity)
    BY <2>1
  <2> HIDE DEF e
  <2> QED
    BY <2>1, <2>2, <1>1, <1>2 DEF Append1
<1>5. CASE \E a \in Appointment : Append1([type |-> "appointment_status_changed", entity |-> a,
                                            status |-> "SHOWED", at |-> now])
  <2> PICK a \in Appointment : Append1([type |-> "appointment_status_changed", entity |-> a,
                                            status |-> "SHOWED", at |-> now])
    BY <1>5
  <2> DEFINE e == [type |-> "appointment_status_changed", entity |-> a,
                   status |-> "SHOWED", at |-> now]
  <2>1. Append1(e) /\ e.at = now /\ e.type \notin {"lead_created", "appointment_created"}
    OBVIOUS
  <2> HIDE DEF e
  <2> QED
    BY <2>1, <1>1, <1>2 DEF Append1
<1>6. CASE \E l \in Lead : Append1([type |-> "lead_status_changed", entity |-> l,
                                     status |-> "SOLD", at |-> now])
  <2> PICK l \in Lead : Append1([type |-> "lead_status_changed", entity |-> l,
                                     status |-> "SOLD", at |-> now])
    BY <1>6
  <2> DEFINE e == [type |-> "lead_status_changed", entity |-> l, status |-> "SOLD", at |-> now]
  <2>1. Append1(e) /\ e.at = now /\ e.type \notin {"lead_created", "appointment_created"}
    OBVIOUS
  <2> HIDE DEF e
  <2> QED
    BY <2>1, <1>1, <1>2 DEF Append1
<1> QED
  BY <1>3, <1>4, <1>5, <1>6 DEF LogEvent

-----------------------------------------------------------------------------
(* What a report has seen, between the log it was asked for and the log there is *)

Hits(lg, q) == {c \in Created(lg, q.range) : Matches(c.payload, q.filter)}

IdsOf(snapshots, q, k) ==
  {s.entity : s \in {t \in snapshots : q.op = "breakdown" => DimensionValue(t, q.dimension) = k}}

GroupFields == {"pc", "ids", "bookings", "showed", "answer"}
RequestFields == {"pc", "query", "leads", "groups", "answer"}

GroupOK(g, old, lg, range) ==
  /\ DOMAIN g = GroupFields
  /\ g.pc \in {"bookings", "shows", "sold", "end"}
  /\ g.pc # "bookings" =>
       BookingsOf(old, g.ids) \subseteq g.bookings /\ g.bookings \subseteq BookingsOf(lg, g.ids)
  /\ g.pc \in {"sold", "end"} =>
       ShowedIn(old, range, g.ids) \subseteq g.showed /\ g.showed \subseteq ShowedIn(lg, range, g.ids)
  /\ g.pc = "end" => \A f \in Counted :
       /\ g.answer[f] \in Nat
       /\ Cardinality(FigureSet(f, old, range, g.ids)) <= g.answer[f]
       /\ g.answer[f] <= Cardinality(FigureSet(f, lg, range, g.ids))

GroupsOK(old, lg) ==
  /\ DOMAIN req.groups = Keys(req.leads, req.query)
  /\ \A k \in DOMAIN req.groups :
       /\ req.groups[k].ids = IdsOf(req.leads, req.query, k)
       /\ GroupOK(req.groups[k], old, lg, req.query.range)

Seen(old, lg) ==
  /\ req.leads \subseteq Hits(lg, req.query)
  /\ LeadsIn(old, req.query.range, req.query.filter) \subseteq LeadIds

Since(old, lg) ==
  /\ old \subseteq lg
  /\ asked = Figures(old, req.query)
  /\ req.pc = "leads" => req.answer = <<>>
  /\ req.pc \in {"groups", "bookings", "sold"} => Seen(old, lg)
  /\ req.pc = "groups" => req.query.op \in {"summary", "breakdown"} /\ GroupsOK(old, lg)
  /\ req.pc \in {"bookings", "sold"} => req.query.op \in Trends
  /\ req.pc = "sold" => req.query.op = "trend_sold"

ReportInv ==
  /\ LogOK(log) /\ now \in Nat
  /\ DOMAIN req = RequestFields
  /\ req.pc \in {"idle", "leads", "groups", "bookings", "sold", "end"}
  /\ req.pc # "idle" => req.query \in Queries
  /\ req.pc \in {"leads", "groups", "bookings", "sold"} => \E old : Since(old, log)
  /\ SummaryBracketed /\ BreakdownAddsUp /\ TrendAddsUp

LEMMA GroupGrows ==
  ASSUME NEW g, NEW old, NEW lg, NEW new, NEW range, lg \subseteq new, IsFiniteSet(new),
         IsFiniteSet(g.ids), GroupOK(g, old, lg, range)
  PROVE  GroupOK(g, old, new, range)
<1>1. BookingsOf(lg, g.ids) \subseteq BookingsOf(new, g.ids)
  BY DEF BookingsOf
<1>2. \A f \in Counted : FigureSet(f, lg, range, g.ids) \subseteq FigureSet(f, new, range, g.ids)
  BY FigureSetGrows DEF FigureNames
<1>3. ShowedIn(lg, range, g.ids) \subseteq ShowedIn(new, range, g.ids)
  BY <1>2 DEF FigureSet, Counted
<1>4. ASSUME NEW f \in Counted
      PROVE  /\ Cardinality(FigureSet(f, lg, range, g.ids)) <= Cardinality(FigureSet(f, new, range, g.ids))
             /\ Cardinality(FigureSet(f, lg, range, g.ids)) \in Nat
             /\ Cardinality(FigureSet(f, new, range, g.ids)) \in Nat
  <2>1. IsFiniteSet(FigureSet(f, new, range, g.ids))
    BY FigureSetFinite DEF FigureNames
  <2>2. FigureSet(f, lg, range, g.ids) \in SUBSET FigureSet(f, new, range, g.ids)
    BY <1>2
  <2>3. IsFiniteSet(FigureSet(f, lg, range, g.ids))
    BY <2>1, <2>2, FS_Subset
  <2> QED
    BY <2>1, <2>2, <2>3, FS_Subset, FS_CardinalityType
<1>5. ASSUME NEW f \in Counted, g.pc = "end"
      PROVE  g.answer[f] <= Cardinality(FigureSet(f, new, range, g.ids))
  BY <1>4, <1>5 DEF GroupOK
<1> QED
  BY <1>1, <1>3, <1>5 DEF GroupOK

\* What was counted for the leads that were found lies between what a summary
\* would have given at the two ends.
LEMMA Bracketed ==
  ASSUME NEW old, old \subseteq log, LogOK(log), asked = Figures(old, req.query),
         Seen(old, log), NEW f \in FigureNames, NEW n \in Nat,
         Cardinality(FigureSet(f, old, req.query.range, LeadIds)) <= n,
         n <= Cardinality(FigureSet(f, log, req.query.range, LeadIds))
  PROVE  asked[f] <= n /\ n <= Figures(log, req.query)[f]
<1> DEFINE range == req.query.range
           first == LeadsIn(old, range, req.query.filter)
           last == LeadsIn(log, range, req.query.filter)
<1>1. first \subseteq LeadIds /\ LeadIds \subseteq last
  BY DEF Seen, LeadIds, Hits, LeadsIn
<1>2. IsFiniteSet(log) /\ IsFiniteSet(old)
  BY FS_Subset DEF LogOK
<1>3. IsFiniteSet(last)
  BY <1>2, LeadsInFinite
<1>4. IsFiniteSet(LeadIds)
  BY <1>1, <1>3, FS_Subset
<1> DEFINE A == FigureSet(f, old, range, first)
           B == FigureSet(f, old, range, LeadIds)
           C == FigureSet(f, log, range, LeadIds)
           D == FigureSet(f, log, range, last)
<1>5. A \in SUBSET B /\ C \in SUBSET D
  BY <1>1, FigureSetGrows
<1>6. IsFiniteSet(B) /\ IsFiniteSet(D)
  BY <1>2, <1>3, <1>4, FigureSetFinite
<1>7. asked[f] = Cardinality(A) /\ Figures(log, req.query)[f] = Cardinality(D)
  BY FiguresAre
<1> HIDE DEF A, B, C, D
<1>8. IsFiniteSet(A) /\ IsFiniteSet(C)
  BY <1>5, <1>6, FS_Subset
<1>9. Cardinality(A) <= Cardinality(B) /\ Cardinality(C) <= Cardinality(D)
  BY <1>5, <1>6, FS_Subset
<1>10. /\ Cardinality(A) \in Nat /\ Cardinality(B) \in Nat
       /\ Cardinality(C) \in Nat /\ Cardinality(D) \in Nat
  BY <1>6, <1>8, FS_CardinalityType
<1>11. Cardinality(B) <= n /\ n <= Cardinality(C)
  BY DEF B, C
<1> QED
  BY <1>7, <1>9, <1>10, <1>11

\* The first event of a lead is its only one.
LEMMA SnapshotsAre ==
  ASSUME LogOK(log), NEW q
  PROVE  Snapshots(q) = Hits(log, q)
<1>1. \A e \in Created(log, q.range) : e \in log /\ e.type = "lead_created" /\ e.at \in Nat
  BY DEF LogOK, Created
<1>2. \A e, f \in Created(log, q.range) : f.entity = e.entity => e = f
  BY <1>1 DEF LogOK
<1>3. \A e, f \in Created(log, q.range) : f.entity = e.entity => e.at <= f.at
  BY <1>1, <1>2
<1> QED
  BY <1>3 DEF Snapshots, Hits

\* The leads that were found are divided among the groups.
LEMMA LeadsDivided ==
  ASSUME LogOK(log), NEW old, Seen(old, log),
         req.query.op \in {"summary", "breakdown"}
  PROVE  LET q == req.query  K == Keys(req.leads, q) IN
         /\ IsFiniteSet(K) /\ IsFiniteSet(req.leads)
         /\ \A k \in K : IsFiniteSet(IdsOf(req.leads, q, k))
         /\ LeadIds = UNION {IdsOf(req.leads, q, k) : k \in K}
         /\ \A j, k \in K : j # k => IdsOf(req.leads, q, j) \cap IdsOf(req.leads, q, k) = {}
<1> DEFINE q == req.query  K == Keys(req.leads, q)
<1>1. /\ \A s \in req.leads : s \in log /\ s.type = "lead_created"
      /\ \A s, t \in req.leads : s.entity = t.entity => s = t
  BY DEF Seen, Hits, Created, LogOK
<1>2. IsFiniteSet(req.leads)
  <2>1. req.leads \in SUBSET log /\ IsFiniteSet(log)
    BY <1>1 DEF LogOK
  <2> QED
    BY <2>1, FS_Subset
<1>3. ASSUME NEW k PROVE IsFiniteSet(IdsOf(req.leads, q, k))
  <2> DEFINE E == {t \in req.leads : q.op = "breakdown" => DimensionValue(t, q.dimension) = k}
  <2>1. E \in SUBSET req.leads
    OBVIOUS
  <2>2. IsFiniteSet(E)
    BY <2>1, <1>2, FS_Subset
  <2> QED
    BY <2>2, EntitiesFinite DEF IdsOf
<1>4. CASE q.op = "summary"
  <2>1. K = {"all"}
    BY <1>4 DEF Keys
  <2>2. IdsOf(req.leads, q, "all") = LeadIds
    BY <1>4 DEF IdsOf, LeadIds
  <2> QED
    BY <2>1, <2>2, <1>2, <1>3, FS_Singleton
<1>5. CASE q.op = "breakdown"
  <2> DEFINE V(s) == DimensionValue(s, q.dimension)
             F == [s \in req.leads |-> V(s)]
  <2>1. K = {V(s) : s \in req.leads}
    BY <1>5 DEF Keys
  <2>2. F \in Surjection(req.leads, K)
    BY <2>1 DEF Surjection
  <2>3. IsFiniteSet(K)
    BY <2>2, <1>2, FS_Surjection
  <2>4. \A k, x : x \in IdsOf(req.leads, q, k) <=> \E s \in req.leads : V(s) = k /\ x = s.entity
    BY <1>5 DEF IdsOf
  <2> HIDE DEF V
  <2>5. LeadIds = UNION {IdsOf(req.leads, q, k) : k \in K}
    BY <2>1, <2>4 DEF LeadIds
  <2>6. \A j, k \in K : j # k => IdsOf(req.leads, q, j) \cap IdsOf(req.leads, q, k) = {}
    BY <2>4, <1>1
  <2> QED
    BY <2>3, <2>5, <2>6, <1>2, <1>3
<1> QED
  BY <1>4, <1>5

\* Nothing is counted twice under one name: as many events as entities.
LEMMA EntityCount ==
  ASSUME NEW E, IsFiniteSet(E), \A e, f \in E : e.entity = f.entity => e = f
  PROVE  Cardinality({e.entity : e \in E}) = Cardinality(E)
<1> DEFINE F == [e \in E |-> e.entity]
           T == {e.entity : e \in E}
<1>1. F \in Bijection(E, T)
  BY DEF Bijection, Injection, Surjection, IsInjective
<1>2. Cardinality(T) = Cardinality(E)
  BY <1>1, FS_Bijection DEF ExistsBijection
<1> QED
  BY <1>2

\* The days of a trend add up to what happened.
LEMMA BucketSum ==
  ASSUME NEW times, IsFiniteSet(times)
  PROVE  AddedUp(Bucketed(times)) = Cardinality(times)
<1> DEFINE K == {DayOf(e.at) : e \in times}
           S == [d \in K |-> {e \in times : DayOf(e.at) = d}]
           F == [e \in times |-> DayOf(e.at)]
<1>1. F \in Surjection(times, K)
  BY DEF Surjection
<1>2. IsFiniteSet(K)
  BY <1>1, FS_Surjection
<1>3. \A k \in K : S[k] \in SUBSET times
  OBVIOUS
<1>4. \A k \in K : IsFiniteSet(S[k])
  BY <1>3, FS_Subset
<1>5. Apart(K, S)
  BY DEF Apart
<1>6. Together(K, S) = times
  <2>1. \A e \in times : DayOf(e.at) \in K /\ e \in S[DayOf(e.at)]
    OBVIOUS
  <2> QED
    BY <1>3, <2>1 DEF Together
<1>7. Bucketed(times) = Sizes(K, S)
  BY DEF Bucketed, Sizes
<1> HIDE DEF K, S
<1> QED
  BY <1>2, <1>4, <1>5, <1>6, <1>7, SumOfParts

\* A later instant is on no earlier day.
LEMMA DaysInOrder ==
  ASSUME NEW m \in Nat, NEW n \in Nat, m <= n
  PROVE  DayOf(m) <= DayOf(n)
BY ReportsAssumption DEF DayOf

-----------------------------------------------------------------------------
(* One lemma for each action *)

Clauses == SummaryBracketed /\ BreakdownAddsUp /\ TrendAddsUp

\* While the log grows what was seen stays between its two states.
LEMMA SinceGrows ==
  ASSUME ReportInv, NEW old, Since(old, log), NEW new, log \subseteq new, LogOK(new)
  PROVE  Since(old, new)
<1>1. Seen(old, log) => Seen(old, new)
  BY DEF Seen, Hits, Created
<1>2. ASSUME req.pc = "groups" PROVE GroupsOK(old, new)
  <2>1. Seen(old, log) /\ GroupsOK(old, log) /\ req.query.op \in {"summary", "breakdown"}
    BY <1>2 DEF Since
  <2>2. LogOK(log) /\ IsFiniteSet(new)
    BY DEF ReportInv, LogOK
  <2>3. \A k \in DOMAIN req.groups : IsFiniteSet(req.groups[k].ids)
    BY <2>1, <2>2, LeadsDivided DEF GroupsOK
  <2>4. \A k \in DOMAIN req.groups : GroupOK(req.groups[k], old, log, req.query.range)
    BY <2>1 DEF GroupsOK
  <2>5. \A k \in DOMAIN req.groups : GroupOK(req.groups[k], old, new, req.query.range)
    BY <2>2, <2>3, <2>4, GroupGrows
  <2> QED
    BY <2>1, <2>5 DEF GroupsOK
<1> QED
  BY <1>1, <1>2 DEF Since

LEMMA LogEventInv ==
  ASSUME ReportInv, LogEvent
  PROVE  ReportInv'
<1>1. log \subseteq log' /\ LogOK(log') /\ UNCHANGED <<now, req, asked>> /\ req.pc # "end"
  BY LogStep DEF ReportInv
<1>2. Clauses'
  <2>1. req'.pc # "end"
    BY <1>1
  <2> QED
    BY <2>1 DEF Clauses, SummaryBracketed, BreakdownAddsUp, TrendAddsUp, Answered
<1>3. ASSUME NEW old, Since(old, log) PROVE Since(old, log)'
  <2>1. Since(old, log')
    BY <1>1, <1>3, SinceGrows
  <2>2. LeadIds' = LeadIds
    BY <1>1 DEF LeadIds
  <2> QED
    BY <1>1, <2>1, <2>2 DEF Since, Seen, GroupsOK
<1>4. LogOK(log)' /\ now' \in Nat
  BY <1>1 DEF ReportInv, LogOK
<1> QED
  BY <1>1, <1>2, <1>3, <1>4 DEF ReportInv, Clauses

LEMMA TickInv ==
  ASSUME ReportInv, Tick
  PROVE  ReportInv'
<1>1. now' = now + 1 /\ UNCHANGED <<log, req, asked>> /\ req.pc # "end"
  BY DEF Tick
<1>2. Clauses'
  <2>1. req'.pc # "end"
    BY <1>1
  <2> QED
    BY <2>1 DEF Clauses, SummaryBracketed, BreakdownAddsUp, TrendAddsUp, Answered
<1>3. ASSUME NEW old, Since(old, log) PROVE Since(old, log)'
  BY <1>1, <1>3 DEF Since, Seen, GroupsOK, LeadIds
<1> QED
  BY <1>1, <1>2, <1>3 DEF ReportInv, Clauses, LogOK

LEMMA AskInv ==
  ASSUME ReportInv, Ask
  PROVE  ReportInv'
<1> PICK q \in Queries : /\ req' = [Idle EXCEPT !.pc = "leads", !.query = q]
                         /\ asked' = Figures(log, q) /\ UNCHANGED <<now, log>>
  BY DEF Ask
<1>1. req' = [pc |-> "leads", query |-> q, leads |-> {}, groups |-> <<>>, answer |-> <<>>]
  BY DEF Idle
<1>2. Clauses'
  <2>1. req'.pc # "end"
    BY <1>1
  <2> QED
    BY <2>1 DEF Clauses, SummaryBracketed, BreakdownAddsUp, TrendAddsUp, Answered
<1>5. req'.pc = "leads" /\ req'.query = q /\ req'.answer = <<>>
  <2> DEFINE r == [pc |-> "leads", query |-> q, leads |-> {}, groups |-> <<>>, answer |-> <<>>]
  <2>1. r.pc = "leads"
    OBVIOUS
  <2>2. r.query = q
    OBVIOUS
  <2>3. r.answer = <<>>
    OBVIOUS
  <2> HIDE DEF r
  <2>4. req' = r
    BY <1>1 DEF r
  <2> QED
    BY <2>1, <2>2, <2>3, <2>4
<1>3. ASSUME NEW old, old = log PROVE Since(old, log)'
  <2>1. req'.pc = "leads" /\ req'.query = q /\ req'.answer = <<>>
    BY <1>5
  <2>2. asked' = Figures(old, q) /\ log' = old
    BY <1>3
  <2> QED
    BY <2>1, <2>2 DEF Since
<1>4. LogOK(log)' /\ now' \in Nat /\ DOMAIN req' = RequestFields
  BY <1>1 DEF ReportInv, LogOK, RequestFields
<1> QED
  BY <1>1, <1>2, <1>3, <1>4 DEF ReportInv, Clauses

LEMMA FindInv ==
  ASSUME ReportInv, GetFilteredLeads
  PROVE  ReportInv'
<1> DEFINE q == req.query
           found == Snapshots(q)
           grouped == q.op \in {"summary", "breakdown"}
<1>0. req.pc = "leads" /\ q \in Queries /\ LogOK(log) /\ DOMAIN req = RequestFields
  BY DEF ReportInv, GetFilteredLeads
<1> PICK old : Since(old, log)
  BY <1>0 DEF ReportInv
<1>1. /\ req'.leads = found /\ req'.query = q /\ req'.answer = <<>>
      /\ req'.pc = IF grouped THEN "groups" ELSE IF found = {} THEN "end" ELSE "bookings"
      /\ grouped => req'.groups = [k \in Keys(found, q) |-> Group(IdsOf(found, q, k))]
      /\ DOMAIN req' = RequestFields /\ UNCHANGED <<now, log, asked>>
  BY <1>0 DEF GetFilteredLeads, RequestFields, Since, IdsOf
<1>2. found = Hits(log, q)
  BY <1>0, SnapshotsAre
<1>3. Seen(old, log)'
  <2>1. LeadIds' = LeadsIn(log, q.range, q.filter)
    BY <1>1, <1>2 DEF LeadIds, LeadsIn, Hits
  <2>2. LeadsIn(old, q.range, q.filter) \subseteq LeadsIn(log, q.range, q.filter)
    BY LeadsInGrow DEF Since
  <2> QED
    BY <2>1, <2>2, <1>1, <1>2 DEF Seen, Hits
<1>4. grouped => GroupsOK(old, log)'
  <2> SUFFICES ASSUME grouped PROVE GroupsOK(old, log)'
    OBVIOUS
  <2>1. \A ids : GroupOK(Group(ids), old, log, q.range) /\ Group(ids).ids = ids
    BY DEF Group, GroupOK, GroupFields
  <2>2. req'.groups = [k \in Keys(found, q) |-> Group(IdsOf(found, q, k))]
    BY <1>1
  <2>3. \A k \in DOMAIN req'.groups :
          req'.groups[k].ids = IdsOf(found, q, k) /\ GroupOK(req'.groups[k], old, log, q.range)
    BY <2>1, <2>2
  <2> QED
    BY <2>2, <2>3, <1>1 DEF GroupsOK
<1>5. q.op \in {"summary", "breakdown"} \cup Trends
  BY <1>0, ReportsAssumption
<1>6. Since(old, log)'
  BY <1>1, <1>3, <1>4, <1>5 DEF Since
<1>7. Clauses'
  <2>1. CASE req'.pc # "end"
    BY <2>1 DEF Clauses, SummaryBracketed, BreakdownAddsUp, TrendAddsUp, Answered
  <2>2. CASE req'.pc = "end"
    <3>1. found = {} /\ q.op \in Trends
      BY <2>2, <1>1, <1>5
    <3>2. LeadIds' = {}
      BY <3>1, <1>1 DEF LeadIds
    <3>3. FigureOf(q.op) \in FigureNames
      BY <3>1 DEF FigureOf, FigureNames, Counted, Trends
    <3> DEFINE f == FigureOf(q.op)
    <3>4. \A lg : FigureSet(f, lg, q.range, {}) = {}
      BY <3>3 DEF FigureSet, FigureNames, Counted, SetIn, ShowedIn, SoldIn, MarkedSold, BookingsOf
    <3>5. LeadsIn(old, q.range, q.filter) = {}
      BY <1>3, <1>1, <3>2 DEF Seen
    <3>6. asked[f] = 0
      <4>1. asked = Figures(old, q)
        BY DEF Since
      <4>2. Figures(old, q)[f] = Cardinality(FigureSet(f, old, q.range, LeadsIn(old, q.range, q.filter)))
        BY <3>3, FiguresAre
      <4> QED
        BY <4>1, <4>2, <3>4, <3>5, FS_EmptySet
    <3>7. LeadsIn(log, q.range, q.filter) = {}
      BY <1>2, <3>1 DEF LeadsIn, Hits
    <3>8. Figures(log, q)[f] = 0
      BY <3>3, <3>4, <3>7, FiguresAre, FS_EmptySet
    <3>9. AddedUp(<<>>) = 0 /\ DOMAIN <<>> = {}
      <4>1. DOMAIN <<>> = {}
        OBVIOUS
      <4>2. UNION {{x} \X (1 .. <<>>[x]) : x \in DOMAIN <<>>} = {}
        BY <4>1
      <4> QED
        BY <4>1, <4>2, FS_EmptySet DEF AddedUp
    <3>10. TrendAddsUp'
      BY <1>1, <3>6, <3>8, <3>9 DEF TrendAddsUp
    <3>11. SummaryBracketed' /\ BreakdownAddsUp'
      BY <1>1, <3>1 DEF SummaryBracketed, BreakdownAddsUp, Answered, Trends
    <3> QED
      BY <3>10, <3>11 DEF Clauses
  <2> QED
    BY <2>1, <2>2
<1>8. LogOK(log)' /\ now' \in Nat
  BY <1>1, <1>0 DEF ReportInv, LogOK
<1>9. req'.pc \in {"groups", "bookings", "end"} /\ req'.query \in Queries
  BY <1>0, <1>1
<1> QED
  BY <1>1, <1>6, <1>7, <1>8, <1>9 DEF ReportInv, Clauses

\* A step of one group: it keeps its leads, and what it counts was true meanwhile.
LEMMA SetGroupInv ==
  ASSUME ReportInv, req.pc = "groups", NEW k \in DOMAIN req.groups, NEW g, SetGroup(k, g),
         g.ids = req.groups[k].ids,
         ASSUME NEW old, Since(old, log) PROVE GroupOK(g, old, log, req.query.range)
  PROVE  ReportInv'
<1>0. /\ req' = [req EXCEPT !.groups[k] = g] /\ UNCHANGED <<now, log, asked>>
      /\ DOMAIN req = RequestFields
  BY DEF SetGroup, ReportInv
<1>1. /\ req'.pc = "groups" /\ req'.query = req.query /\ req'.leads = req.leads
      /\ req'.answer = req.answer /\ DOMAIN req' = RequestFields
      /\ req'.groups = [req.groups EXCEPT ![k] = g]
  BY <1>0 DEF RequestFields
<1>2. Clauses'
  <2>1. req'.pc # "end"
    BY <1>1
  <2> QED
    BY <2>1 DEF Clauses, SummaryBracketed, BreakdownAddsUp, TrendAddsUp, Answered
<1>3. ASSUME NEW old, Since(old, log) PROVE Since(old, log)'
  <2>1. Seen(old, log) /\ GroupsOK(old, log) /\ req.query.op \in {"summary", "breakdown"}
        /\ old \subseteq log /\ asked = Figures(old, req.query)
    BY <1>3 DEF Since
  <2>2. Seen(old, log)'
    BY <2>1, <1>0, <1>1 DEF Seen, LeadIds
  <2>3. GroupOK(g, old, log, req.query.range)
    BY <1>3
  <2>4. \A j \in DOMAIN req.groups :
          /\ req.groups[j].ids = IdsOf(req.leads, req.query, j)
          /\ GroupOK(req.groups[j], old, log, req.query.range)
    BY <2>1 DEF GroupsOK
  <2>5. DOMAIN req'.groups = DOMAIN req.groups
    BY <1>1
  <2>6. \A j \in DOMAIN req.groups : req'.groups[j] = IF j = k THEN g ELSE req.groups[j]
    BY <1>1
  <2>7. \A j \in DOMAIN req.groups :
          /\ req'.groups[j].ids = IdsOf(req.leads, req.query, j)
          /\ GroupOK(req'.groups[j], old, log, req.query.range)
    BY <2>3, <2>4, <2>6
  <2>8. GroupsOK(old, log)'
    BY <2>1, <2>5, <2>7, <1>0, <1>1 DEF GroupsOK
  <2> QED
    BY <2>1, <2>2, <2>8, <1>0, <1>1 DEF Since
<1>4. LogOK(log)' /\ now' \in Nat
  BY <1>0 DEF ReportInv, LogOK
<1>5. req'.query \in Queries
  BY <1>1 DEF ReportInv
<1>6. \E old : Since(old, log)
  BY DEF ReportInv
<1> QED
  BY <1>1, <1>2, <1>3, <1>4, <1>5, <1>6 DEF ReportInv, Clauses

\* The state of a group that is being counted.
LEMMA GroupIs ==
  ASSUME ReportInv, req.pc = "groups", NEW k \in DOMAIN req.groups, NEW old, Since(old, log)
  PROVE  /\ GroupOK(req.groups[k], old, log, req.query.range)
         /\ IsFiniteSet(req.groups[k].ids) /\ old \subseteq log /\ LogOK(log)
<1>1. Seen(old, log) /\ GroupsOK(old, log) /\ old \subseteq log
      /\ req.query.op \in {"summary", "breakdown"}
  BY DEF Since
<1>2. LogOK(log)
  BY DEF ReportInv
<1>3. IsFiniteSet(req.groups[k].ids)
  BY <1>1, <1>2, LeadsDivided DEF GroupsOK
<1> QED
  BY <1>1, <1>2, <1>3 DEF GroupsOK

LEMMA CountBookingsInv ==
  ASSUME ReportInv, NEW k \in DOMAIN req.groups, CountBookings(k)
  PROVE  ReportInv'
<1> DEFINE g == req.groups[k]
           h == [g EXCEPT !.bookings = {b \in Bookings : b.lead \in g.ids}, !.pc = "shows"]
<1>1. req.pc = "groups" /\ g.pc = "bookings" /\ SetGroup(k, h)
  BY DEF CountBookings
<1>2. ASSUME NEW old, Since(old, log)
      PROVE  h.ids = g.ids /\ GroupOK(h, old, log, req.query.range)
  <2>1. GroupOK(g, old, log, req.query.range) /\ old \subseteq log
    BY <1>1, <1>2, GroupIs
  <2>2. DOMAIN g = GroupFields
    BY <2>1 DEF GroupOK
  <2>3. DOMAIN h = GroupFields /\ h.ids = g.ids /\ h.pc = "shows"
        /\ h.bookings = BookingsOf(log, g.ids)
    BY <2>2 DEF GroupFields, Bookings, BookingsOf
  <2>4. BookingsOf(old, g.ids) \subseteq BookingsOf(log, g.ids)
    BY <2>1 DEF BookingsOf
  <2> HIDE DEF h, g
  <2> QED
    BY <2>3, <2>4 DEF GroupOK
<1>3. \E old : Since(old, log)
  BY <1>1 DEF ReportInv
<1>4. h.ids = g.ids
  BY <1>2, <1>3
<1> HIDE DEF h
<1> QED
  BY <1>1, <1>2, <1>4, SetGroupInv

LEMMA CountShowsInv ==
  ASSUME ReportInv, NEW k \in DOMAIN req.groups, CountShows(k)
  PROVE  ReportInv'
<1> DEFINE g == req.groups[k]  range == req.query.range
           h == [g EXCEPT !.showed = Showed(ShowEvents(range), g.bookings), !.pc = "sold"]
<1>1. req.pc = "groups" /\ g.pc = "shows" /\ SetGroup(k, h)
  BY DEF CountShows
<1>2. ASSUME NEW old, Since(old, log)
      PROVE  h.ids = g.ids /\ GroupOK(h, old, log, req.query.range)
  <2>1. GroupOK(g, old, log, range) /\ old \subseteq log
    BY <1>1, <1>2, GroupIs
  <2>2. DOMAIN g = GroupFields /\ BookingsOf(old, g.ids) \subseteq g.bookings
        /\ g.bookings \subseteq BookingsOf(log, g.ids)
    BY <2>1, <1>1 DEF GroupOK
  <2>3. DOMAIN h = GroupFields /\ h.ids = g.ids /\ h.pc = "sold" /\ h.bookings = g.bookings
        /\ h.showed = Showed(ShowEvents(range), g.bookings)
    BY <2>2 DEF GroupFields
  <2>4. Showed(ShowEvents(range), g.bookings) \subseteq ShowedIn(log, range, g.ids)
    BY <2>2 DEF Showed, ShowEvents, ShowedIn
  <2>5. ShowedIn(old, range, g.ids) \subseteq Showed(ShowEvents(range), g.bookings)
    BY <2>1, <2>2 DEF Showed, ShowEvents, ShowedIn
  <2> HIDE DEF h, g
  <2> QED
    BY <2>2, <2>3, <2>4, <2>5 DEF GroupOK
<1>3. \E old : Since(old, log)
  BY <1>1 DEF ReportInv
<1>4. h.ids = g.ids
  BY <1>2, <1>3
<1> HIDE DEF h
<1> QED
  BY <1>1, <1>2, <1>4, SetGroupInv

DuringOf(bookings, range) == {b \in bookings : InRange(b.at, range)}

\* Bookings that were read lie between those of the two logs, and so does their
\* number, since an appointment is booked once.
LEMMA SetCount ==
  ASSUME NEW old, NEW lg, LogOK(lg), old \subseteq lg, NEW ids, NEW range, NEW bookings,
         BookingsOf(old, ids) \subseteq bookings, bookings \subseteq BookingsOf(lg, ids)
  PROVE  /\ IsFiniteSet(DuringOf(bookings, range))
         /\ Cardinality(DuringOf(bookings, range)) \in Nat
         /\ Cardinality(SetIn(old, range, ids)) <= Cardinality(DuringOf(bookings, range))
         /\ Cardinality(DuringOf(bookings, range)) <= Cardinality(SetIn(lg, range, ids))
<1> DEFINE E == DuringOf(bookings, range)
           T == {b.entity : b \in E}
<1>1. E \in SUBSET lg /\ \A b \in E : b.type = "appointment_created"
  BY DEF BookingsOf, DuringOf
<1>2. IsFiniteSet(lg)
  BY DEF LogOK
<1>3. IsFiniteSet(E)
  BY <1>1, <1>2, FS_Subset
<1>4. \A a, b \in E : a.entity = b.entity => a = b
  BY <1>1 DEF LogOK
<1>5. SetIn(old, range, ids) \in SUBSET T /\ T \in SUBSET SetIn(lg, range, ids)
  BY DEF SetIn, DuringOf
<1> HIDE DEF E
<1>6. Cardinality(T) = Cardinality(E)
  BY <1>3, <1>4, EntityCount
<1>7. IsFiniteSet(T)
  BY <1>3, EntitiesFinite
<1>8. IsFiniteSet(SetIn(lg, range, ids))
  <2> DEFINE B == {b \in BookingsOf(lg, ids) : InRange(b.at, range)}
  <2>1. B \in SUBSET lg
    BY DEF BookingsOf
  <2>2. IsFiniteSet(B)
    BY <2>1, <1>2, FS_Subset
  <2> QED
    BY <2>2, EntitiesFinite DEF SetIn
<1> HIDE DEF T
<1>9. Cardinality(SetIn(old, range, ids)) <= Cardinality(T)
      /\ Cardinality(T) <= Cardinality(SetIn(lg, range, ids))
  BY <1>5, <1>7, <1>8, FS_Subset
<1> QED
  BY <1>3, <1>6, <1>9, FS_CardinalityType DEF E

\* What lies between two sets is as many as lie between them.
LEMMA CountBetween ==
  ASSUME NEW A, NEW B, NEW C, A \subseteq B, B \subseteq C, IsFiniteSet(C)
  PROVE  /\ IsFiniteSet(B) /\ Cardinality(B) \in Nat
         /\ Cardinality(A) <= Cardinality(B) /\ Cardinality(B) <= Cardinality(C)
<1>1. B \in SUBSET C /\ A \in SUBSET B
  OBVIOUS
<1>2. IsFiniteSet(B)
  BY <1>1, FS_Subset
<1> QED
  BY <1>1, <1>2, FS_Subset, FS_CardinalityType

LEMMA CountSoldInv ==
  ASSUME ReportInv, NEW k \in DOMAIN req.groups, CountSold(k)
  PROVE  ReportInv'
<1> DEFINE g == req.groups[k]  range == req.query.range
           sold == Sold(SoldEvents(range), g.ids)
           booked == {b \in g.bookings : InRange(b.at, range)}
           answer == [total |-> Cardinality(g.ids), set |-> Cardinality(booked),
                      showed |-> Cardinality(g.showed), sold |-> Cardinality(sold)]
           h == [g EXCEPT !.pc = "end", !.answer = answer]
<1>1. req.pc = "groups" /\ g.pc = "sold" /\ SetGroup(k, h)
  BY DEF CountSold
<1>2. ASSUME NEW old, Since(old, log)
      PROVE  h.ids = g.ids /\ GroupOK(h, old, log, req.query.range)
  <2>1. GroupOK(g, old, log, range) /\ old \subseteq log /\ LogOK(log) /\ IsFiniteSet(g.ids)
        /\ IsFiniteSet(log)
    BY <1>1, <1>2, GroupIs DEF LogOK
  <2>2. DOMAIN g = GroupFields /\ BookingsOf(old, g.ids) \subseteq g.bookings
        /\ g.bookings \subseteq BookingsOf(log, g.ids)
        /\ ShowedIn(old, range, g.ids) \subseteq g.showed
        /\ g.showed \subseteq ShowedIn(log, range, g.ids)
    BY <2>1, <1>1 DEF GroupOK
  <2> HIDE DEF answer, g
  <2>3. DOMAIN h = GroupFields /\ h.ids = g.ids /\ h.pc = "end" /\ h.bookings = g.bookings
        /\ h.showed = g.showed /\ h.answer = answer
    BY <2>2 DEF GroupFields
  <2> HIDE DEF h
  <2>4. /\ answer["total"] = Cardinality(g.ids) /\ answer["set"] = Cardinality(booked)
        /\ answer["showed"] = Cardinality(g.showed) /\ answer["sold"] = Cardinality(sold)
    BY DEF answer
  <2> DEFINE Right(f) == /\ answer[f] \in Nat
                         /\ Cardinality(FigureSet(f, old, range, g.ids)) <= answer[f]
                         /\ answer[f] <= Cardinality(FigureSet(f, log, range, g.ids))
  <2>5. Right("total")
    BY <2>1, <2>4, CountBetween DEF FigureSet
  <2>6. Right("set")
    <3>1. /\ Cardinality(booked) \in Nat
          /\ Cardinality(SetIn(old, range, g.ids)) <= Cardinality(booked)
          /\ Cardinality(booked) <= Cardinality(SetIn(log, range, g.ids))
      <4>1. booked = DuringOf(g.bookings, range)
        BY DEF DuringOf
      <4> HIDE DEF booked, range
      <4> QED
        BY <4>1, <2>1, <2>2, SetCount
    <3>2. \A lg : FigureSet("set", lg, range, g.ids) = SetIn(lg, range, g.ids)
      BY DEF FigureSet
    <3> HIDE DEF booked
    <3> QED
      BY <3>1, <3>2, <2>4
  <2>7. Right("showed")
    <3>1. IsFiniteSet(FigureSet("showed", log, range, g.ids))
      BY <2>1, FigureSetFinite DEF FigureNames, Counted
    <3>2. IsFiniteSet(ShowedIn(log, range, g.ids))
      BY <3>1 DEF FigureSet
    <3>3. /\ Cardinality(g.showed) \in Nat
          /\ Cardinality(ShowedIn(old, range, g.ids)) <= Cardinality(g.showed)
          /\ Cardinality(g.showed) <= Cardinality(ShowedIn(log, range, g.ids))
      BY <3>2, <2>2, CountBetween
    <3>4. \A lg : FigureSet("showed", lg, range, g.ids) = ShowedIn(lg, range, g.ids)
      BY DEF FigureSet
    <3> QED
      BY <3>3, <3>4, <2>4
  <2>8. Right("sold")
    <3>1. sold = SoldIn(log, range, g.ids)
      BY DEF Sold, SoldEvents, SoldIn
    <3>2. SoldIn(old, range, g.ids) \subseteq SoldIn(log, range, g.ids)
      BY <2>1 DEF SoldIn
    <3>3. SoldIn(log, range, g.ids) \subseteq g.ids
      BY DEF SoldIn
    <3>4. IsFiniteSet(SoldIn(log, range, g.ids))
      BY <3>3, <2>1, CountBetween
    <3> HIDE DEF sold
    <3> QED
      BY <3>1, <3>2, <3>4, <2>4, CountBetween DEF FigureSet
  <2>9. \A f \in Counted : Right(f)
    BY <2>5, <2>6, <2>7, <2>8 DEF Counted
  <2> QED
    BY <2>2, <2>3, <2>9 DEF GroupOK
<1>3. \E old : Since(old, log)
  BY <1>1 DEF ReportInv
<1>4. h.ids = g.ids
  BY <1>2, <1>3
<1> HIDE DEF h
<1> QED
  BY <1>1, <1>2, <1>4, SetGroupInv

FigureSizes(f, lg, range, K, S) == [k \in K |-> Cardinality(FigureSet(f, lg, range, S[k]))]

\* The figures of the groups add up to a figure of all the leads.
LEMMA PartsAddUp ==
  ASSUME NEW lg, LogOK(lg), NEW range, NEW f \in Counted, NEW K, IsFiniteSet(K), NEW S,
         \A k \in K : IsFiniteSet(S[k]), Apart(K, S)
  PROVE  AddedUp(FigureSizes(f, lg, range, K, S))
           = Cardinality(FigureSet(f, lg, range, Together(K, S)))
<1> DEFINE P == [k \in K |-> FigureSet(f, lg, range, S[k])]
<1>1. \A k \in K : IsFiniteSet(P[k])
  BY FigureSetFinite DEF LogOK, FigureNames
<1>2. /\ FigureSet(f, lg, range, Together(K, S))
           = UNION {FigureSet(f, lg, range, S[k]) : k \in K}
      /\ \A j, k \in K : j # k =>
           FigureSet(f, lg, range, S[j]) \cap FigureSet(f, lg, range, S[k]) = {}
  BY FigureSetParts
<1>3. Apart(K, P)
  BY <1>2 DEF Apart
<1>4. Sizes(K, P) = FigureSizes(f, lg, range, K, S)
      /\ Together(K, P) = UNION {FigureSet(f, lg, range, S[k]) : k \in K}
  BY DEF Sizes, FigureSizes, Together
<1> HIDE DEF P
<1>5. AddedUp(Sizes(K, P)) = Cardinality(Together(K, P))
  BY <1>1, <1>3, SumOfParts
<1> QED
  BY <1>2, <1>4, <1>5

LEMMA ShorterLog ==
  ASSUME NEW lg, LogOK(lg), NEW old, old \subseteq lg
  PROVE  LogOK(old)
<1>1. IsFiniteSet(old)
  BY FS_Subset DEF LogOK
<1> QED
  BY <1>1 DEF LogOK

LEMMA AnswerGroupsInv ==
  ASSUME ReportInv, AnswerGroups
  PROVE  ReportInv'
<1> DEFINE q == req.query  K == DOMAIN req.groups  range == q.range
<1>0. /\ req.pc = "groups" /\ LogOK(log) /\ DOMAIN req = RequestFields /\ q \in Queries
      /\ \A k \in K : req.groups[k].pc = "end"
      /\ UNCHANGED <<now, log, asked>>
  BY DEF AnswerGroups, ReportInv
<1>1. /\ req'.pc = "end" /\ req'.query = q /\ DOMAIN req' = RequestFields
      /\ req'.answer = [k \in K |-> req.groups[k].answer]
  BY <1>0 DEF AnswerGroups, RequestFields
<1> PICK old : Since(old, log)
  BY <1>0 DEF ReportInv
<1>2. Seen(old, log) /\ GroupsOK(old, log) /\ q.op \in {"summary", "breakdown"}
      /\ old \subseteq log /\ asked = Figures(old, q)
  BY <1>0 DEF Since
<1>3. LogOK(old)
  BY <1>0, <1>2, ShorterLog
<1> DEFINE S == [k \in K |-> req.groups[k].ids]
<1>4. K = Keys(req.leads, q) /\ \A k \in K : S[k] = IdsOf(req.leads, q, k)
      /\ GroupOK(req.groups[k], old, log, range)
  BY <1>2 DEF GroupsOK
<1>5. IsFiniteSet(K) /\ (\A k \in K : IsFiniteSet(S[k])) /\ Apart(K, S)
  BY <1>0, <1>2, <1>4, LeadsDivided DEF Apart
<1>6. LeadIds = Together(K, S)
  <2>1. {S[k] : k \in K} = {IdsOf(req.leads, q, k) : k \in K}
    BY <1>4
  <2>2. LeadIds = UNION {IdsOf(req.leads, q, k) : k \in Keys(req.leads, q)}
    BY <1>0, <1>2, LeadsDivided
  <2> QED
    BY <2>1, <2>2, <1>4 DEF Together
<1>7. \A k \in K : \A f \in Counted :
        /\ req.groups[k].answer[f] \in Nat
        /\ Cardinality(FigureSet(f, old, range, S[k])) <= req.groups[k].answer[f]
        /\ req.groups[k].answer[f] <= Cardinality(FigureSet(f, log, range, S[k]))
  BY <1>0, <1>4 DEF GroupOK
<1>8. ASSUME NEW f \in Counted
      PROVE  /\ asked[f] <= AddedUp([k \in K |-> req.groups[k].answer[f]])
             /\ AddedUp([k \in K |-> req.groups[k].answer[f]]) <= Figures(log, q)[f]
  <2> DEFINE a == [k \in K |-> req.groups[k].answer[f]]
             lo == FigureSizes(f, old, range, K, S)
             hi == FigureSizes(f, log, range, K, S)
  <2>1. \A k \in K : IsFiniteSet(FigureSet(f, old, range, S[k]))
                     /\ IsFiniteSet(FigureSet(f, log, range, S[k]))
    BY <1>0, <1>3, <1>5, FigureSetFinite DEF LogOK, FigureNames
  <2>2. \A k \in K : Cardinality(FigureSet(f, old, range, S[k])) \in Nat
                     /\ Cardinality(FigureSet(f, log, range, S[k])) \in Nat
    BY <2>1, FS_CardinalityType
  <2>3. a \in [K -> Nat] /\ lo \in [K -> Nat] /\ hi \in [K -> Nat]
    BY <2>2, <1>7 DEF FigureSizes
  <2>4. \A k \in K : lo[k] <= a[k] /\ a[k] <= hi[k]
    BY <1>7 DEF FigureSizes
  <2>5. AddedUp(lo) = Cardinality(FigureSet(f, old, range, LeadIds))
    BY <1>3, <1>5, <1>6, PartsAddUp
  <2>6. AddedUp(hi) = Cardinality(FigureSet(f, log, range, LeadIds))
    BY <1>0, <1>5, <1>6, PartsAddUp
  <2> HIDE DEF a, lo, hi
  <2>7. AddedUp(lo) <= AddedUp(a) /\ AddedUp(a) <= AddedUp(hi) /\ AddedUp(a) \in Nat
    BY <2>3, <2>4, <1>5, SumGrows
  <2>8. f \in FigureNames
    BY DEF FigureNames
  <2>9. asked[f] <= AddedUp(a) /\ AddedUp(a) <= Figures(log, req.query)[f]
    BY <1>0, <1>2, <2>5, <2>6, <2>7, <2>8, Bracketed
  <2> QED
    BY <2>9 DEF a
<1>9. BreakdownAddsUp'
  <2> SUFFICES ASSUME NEW f \in Counted
               PROVE LET sum == AddedUp([k \in DOMAIN req'.answer |-> req'.answer[k][f]])
                     IN asked'[f] <= sum /\ sum <= Figures(log', req'.query)[f]
    BY DEF BreakdownAddsUp
  <2>1. [k \in DOMAIN req'.answer |-> req'.answer[k][f]] = [k \in K |-> req.groups[k].answer[f]]
    BY <1>1
  <2> QED
    BY <2>1, <1>0, <1>1, <1>8
<1>10. SummaryBracketed'
  <2> SUFFICES ASSUME q.op = "summary", NEW f \in Counted
               PROVE /\ asked'[f] <= req'.answer["all"][f]
                     /\ req'.answer["all"][f] <= Figures(log', req'.query)[f]
    BY <1>1 DEF SummaryBracketed, Answered
  <2>1. K = {"all"}
    BY <1>4 DEF Keys
  <2>2. S["all"] = LeadIds
    BY <2>1, <1>6 DEF Together
  <2> DEFINE n == req.groups["all"].answer[f]
  <2>3. req'.answer["all"][f] = n
    BY <2>1, <1>1
  <2>4. /\ n \in Nat /\ Cardinality(FigureSet(f, old, range, LeadIds)) <= n
        /\ n <= Cardinality(FigureSet(f, log, range, LeadIds))
    BY <2>1, <2>2, <1>7
  <2>5. f \in FigureNames
    BY DEF FigureNames
  <2> HIDE DEF n
  <2>6. asked[f] <= n /\ n <= Figures(log, req.query)[f]
    BY <1>0, <1>2, <2>4, <2>5, Bracketed
  <2> QED
    BY <2>3, <2>6, <1>0, <1>1
<1>11. TrendAddsUp'
  BY <1>1, <1>2 DEF TrendAddsUp, Answered, Trends
<1>12. LogOK(log)' /\ now' \in Nat
  BY <1>0 DEF ReportInv, LogOK
<1> QED
  BY <1>0, <1>1, <1>9, <1>10, <1>11, <1>12 DEF ReportInv

\* What was found may be counted: it is in the log, and a lead is found once.
LEMMA FoundOnce ==
  ASSUME LogOK(log), NEW old, Seen(old, log)
  PROVE  /\ req.leads \subseteq log /\ IsFiniteSet(req.leads) /\ IsFiniteSet(LeadIds)
         /\ \A e \in req.leads : InRange(e.at, req.query.range)
         /\ Cardinality(LeadIds) = Cardinality(req.leads)
<1>1. /\ \A s \in req.leads : s \in log /\ s.type = "lead_created"
                               /\ InRange(s.at, req.query.range)
      /\ \A s, t \in req.leads : s.entity = t.entity => s = t
  BY DEF Seen, Hits, Created, LogOK
<1>2. req.leads \in SUBSET log /\ IsFiniteSet(log)
  BY <1>1 DEF LogOK
<1>3. IsFiniteSet(req.leads)
  BY <1>2, FS_Subset
<1>4. IsFiniteSet(LeadIds)
  BY <1>3, EntitiesFinite DEF LeadIds
<1>5. Cardinality(LeadIds) = Cardinality(req.leads)
  BY <1>1, <1>3, EntityCount DEF LeadIds
<1> QED
  BY <1>1, <1>2, <1>3, <1>4, <1>5

\* The end of a trend: what it counted was between the two logs, and in its range.
LEMMA TrendEnds ==
  ASSUME ReportInv, req.pc \in {"bookings", "sold"}, NEW old, Since(old, log), NEW times,
         times \subseteq log, \A e \in times : InRange(e.at, req.query.range),
         Cardinality(FigureSet(FigureOf(req.query.op), old, req.query.range, LeadIds))
           <= Cardinality(times),
         Cardinality(times)
           <= Cardinality(FigureSet(FigureOf(req.query.op), log, req.query.range, LeadIds)),
         req' = [req EXCEPT !.pc = "end", !.answer = Bucketed(times)],
         UNCHANGED <<now, log, asked>>
  PROVE  ReportInv'
<1> DEFINE q == req.query  f == FigureOf(q.op)
<1>0. /\ LogOK(log) /\ DOMAIN req = RequestFields /\ q \in Queries /\ now \in Nat
      /\ q.op \in Trends /\ Seen(old, log) /\ old \subseteq log /\ asked = Figures(old, q)
  BY DEF ReportInv, Since
<1>1. /\ req'.pc = "end" /\ req'.query = q /\ DOMAIN req' = RequestFields
      /\ req'.answer = Bucketed(times)
  BY <1>0 DEF RequestFields
<1>2. IsFiniteSet(times) /\ Cardinality(times) \in Nat
  <2>1. IsFiniteSet(log) /\ times \in SUBSET log
    BY <1>0 DEF LogOK
  <2>2. IsFiniteSet(times)
    BY <2>1, FS_Subset
  <2> QED
    BY <2>2, FS_CardinalityType
<1>3. AddedUp(Bucketed(times)) = Cardinality(times)
  BY <1>2, BucketSum
<1>4. f \in FigureNames
  BY <1>0 DEF FigureOf, FigureNames, Counted, Trends
<1>5. asked[f] <= Cardinality(times) /\ Cardinality(times) <= Figures(log, q)[f]
  BY <1>0, <1>2, <1>4, Bracketed
<1>6. ASSUME NEW d \in DOMAIN Bucketed(times)
      PROVE  DayOf(q.range.start) <= d /\ d <= DayOf(q.range.end)
  <2> PICK e \in times : d = DayOf(e.at)
    BY DEF Bucketed
  <2>1. e.at \in Nat /\ q.range.start <= e.at /\ e.at <= q.range.end
    BY <1>0 DEF LogOK, InRange
  <2>2. q.range.start \in Nat /\ q.range.end \in Nat
    BY <1>0, ReportsAssumption
  <2> QED
    BY <2>1, <2>2, DaysInOrder
<1>7. TrendAddsUp'
  BY <1>0, <1>1, <1>3, <1>5, <1>6 DEF TrendAddsUp
<1>8. SummaryBracketed' /\ BreakdownAddsUp'
  BY <1>0, <1>1 DEF SummaryBracketed, BreakdownAddsUp, Answered, Trends
<1>9. LogOK(log)' /\ now' \in Nat
  BY <1>0 DEF LogOK
<1> QED
  BY <1>0, <1>1, <1>7, <1>8, <1>9 DEF ReportInv

LEMMA TrendBookingsInv ==
  ASSUME ReportInv, TrendBookings
  PROVE  ReportInv'
<1> DEFINE q == req.query
           bookings == {b \in Bookings : b.lead \in LeadIds /\ InRange(b.at, q.range)}
<1>0. /\ req.pc = "bookings" /\ LogOK(log) /\ DOMAIN req = RequestFields /\ q \in Queries
      /\ UNCHANGED <<now, log, asked>>
  BY DEF TrendBookings, ReportInv
<1> PICK old : Since(old, log)
  BY <1>0 DEF ReportInv
<1>1. q.op \in Trends /\ Seen(old, log) /\ old \subseteq log
  BY <1>0 DEF Since
<1>2. /\ req.leads \subseteq log /\ IsFiniteSet(req.leads) /\ IsFiniteSet(LeadIds)
      /\ \A e \in req.leads : InRange(e.at, q.range)
      /\ Cardinality(LeadIds) = Cardinality(req.leads)
  BY <1>0, <1>1, FoundOnce
<1>3. CASE q.op = "trend_leads"
  <2>1. req' = [req EXCEPT !.pc = "end", !.answer = Bucketed(req.leads)]
    BY <1>3 DEF TrendBookings
  <2>2. \A lg : FigureSet(FigureOf(q.op), lg, q.range, LeadIds) = LeadIds
    BY <1>3 DEF FigureOf, FigureSet
  <2>3. Cardinality(req.leads) \in Nat
    BY <1>2, FS_CardinalityType
  <2>4. /\ Cardinality(FigureSet(FigureOf(q.op), old, q.range, LeadIds)) <= Cardinality(req.leads)
        /\ Cardinality(req.leads) <= Cardinality(FigureSet(FigureOf(q.op), log, q.range, LeadIds))
    BY <2>2, <2>3, <1>2
  <2> QED
    BY <1>0, <1>2, <2>1, <2>4, TrendEnds
<1>4. CASE q.op = "trend_appointments"
  <2>1. req' = [req EXCEPT !.pc = "end", !.answer = Bucketed(bookings)]
    BY <1>4 DEF TrendBookings
  <2>2. \A lg : FigureSet(FigureOf(q.op), lg, q.range, LeadIds) = SetIn(lg, q.range, LeadIds)
    BY <1>4 DEF FigureOf, FigureSet
  <2>3. bookings = DuringOf(BookingsOf(log, LeadIds), q.range)
    BY DEF Bookings, BookingsOf, DuringOf
  <2>4. bookings \subseteq log /\ \A e \in bookings : InRange(e.at, q.range)
    BY DEF Bookings
  <2>5. BookingsOf(old, LeadIds) \subseteq BookingsOf(log, LeadIds)
    BY <1>1 DEF BookingsOf
  <2> HIDE DEF bookings
  <2>6. /\ Cardinality(SetIn(old, q.range, LeadIds)) <= Cardinality(bookings)
        /\ Cardinality(bookings) <= Cardinality(SetIn(log, q.range, LeadIds))
    BY <1>0, <1>1, <2>3, <2>5, SetCount
  <2>7. /\ Cardinality(FigureSet(FigureOf(q.op), old, q.range, LeadIds)) <= Cardinality(bookings)
        /\ Cardinality(bookings) <= Cardinality(FigureSet(FigureOf(q.op), log, q.range, LeadIds))
    BY <2>2, <2>6
  <2> QED
    BY <1>0, <2>1, <2>4, <2>7, TrendEnds
<1>5. CASE q.op = "trend_sold"
  <2>1. req' = [req EXCEPT !.pc = "sold"]
    BY <1>5 DEF TrendBookings
  <2>2. /\ req'.pc = "sold" /\ req'.query = q /\ req'.leads = req.leads
        /\ DOMAIN req' = RequestFields
    BY <1>0, <2>1 DEF RequestFields
  <2>3. Since(old, log)'
    BY <1>0, <1>1, <1>5, <2>2 DEF Since, Seen, LeadIds
  <2>4. Clauses'
    <3>1. req'.pc # "end"
      BY <2>2
    <3> QED
      BY <3>1 DEF Clauses, SummaryBracketed, BreakdownAddsUp, TrendAddsUp, Answered
  <2>5. LogOK(log)' /\ now' \in Nat
    BY <1>0 DEF ReportInv, LogOK
  <2> QED
    BY <1>0, <2>2, <2>3, <2>4, <2>5 DEF ReportInv, Clauses
<1> QED
  BY <1>1, <1>3, <1>4, <1>5 DEF Trends

LEMMA TrendSoldInv ==
  ASSUME ReportInv, TrendSold
  PROVE  ReportInv'
<1> DEFINE q == req.query
           times == {e \in SoldEvents(q.range) : e.status = "SOLD" /\ e.entity \in LeadIds}
<1>0. /\ req.pc = "sold" /\ LogOK(log) /\ UNCHANGED <<now, log, asked>>
      /\ req' = [req EXCEPT !.pc = "end", !.answer = Bucketed(times)]
  BY DEF TrendSold, ReportInv
<1> PICK old : Since(old, log)
  BY <1>0 DEF ReportInv
<1>1. q.op = "trend_sold" /\ old \subseteq log
  BY <1>0 DEF Since
<1>2. \A lg : FigureSet(FigureOf(q.op), lg, q.range, LeadIds) = MarkedSold(lg, q.range, LeadIds)
  BY <1>1 DEF FigureOf, FigureSet
<1>3. times = MarkedSold(log, q.range, LeadIds)
  BY DEF SoldEvents, MarkedSold
<1>4. times \subseteq log /\ \A e \in times : InRange(e.at, q.range)
  BY DEF SoldEvents
<1> HIDE DEF times
<1>5. IsFiniteSet(times)
  <2>1. IsFiniteSet(log) /\ times \in SUBSET log
    BY <1>0, <1>4 DEF LogOK
  <2> QED
    BY <2>1, FS_Subset
<1>6. MarkedSold(old, q.range, LeadIds) \subseteq times
  BY <1>1, <1>3 DEF MarkedSold
<1>7. /\ Cardinality(MarkedSold(old, q.range, LeadIds)) <= Cardinality(times)
      /\ Cardinality(times) \in Nat
  BY <1>5, <1>6, CountBetween
<1>8. /\ Cardinality(FigureSet(FigureOf(q.op), old, q.range, LeadIds)) <= Cardinality(times)
      /\ Cardinality(times) <= Cardinality(FigureSet(FigureOf(q.op), log, q.range, LeadIds))
  BY <1>2, <1>3, <1>7
<1> QED
  BY <1>0, <1>4, <1>8, TrendEnds

LEMMA ReportInitInv ==
  ASSUME Init
  PROVE  ReportInv
<1>1. DOMAIN req = RequestFields
  BY DEF Init, Idle, RequestFields
<1>2. req.pc = "idle"
  BY DEF Init, Idle
<1>3. LogOK(log) /\ now \in Nat
  BY FS_EmptySet DEF Init, LogOK
<1> QED
  BY <1>1, <1>2, <1>3 DEF ReportInv, SummaryBracketed, BreakdownAddsUp, TrendAddsUp, Answered

LEMMA ReportStepInv ==
  ASSUME ReportInv, [Next]_vars
  PROVE  ReportInv'
<1>1. CASE Tick
  BY <1>1, TickInv
<1>2. CASE LogEvent
  BY <1>2, LogEventInv
<1>3. CASE Ask
  BY <1>3, AskInv
<1>4. CASE GetFilteredLeads
  BY <1>4, FindInv
<1>5. ASSUME NEW k \in DOMAIN req.groups, CountBookings(k) \/ CountShows(k) \/ CountSold(k)
      PROVE  ReportInv'
  BY <1>5, CountBookingsInv, CountShowsInv, CountSoldInv
<1>6. CASE AnswerGroups
  BY <1>6, AnswerGroupsInv
<1>7. CASE TrendBookings
  BY <1>7, TrendBookingsInv
<1>8. CASE TrendSold
  BY <1>8, TrendSoldInv
<1>9. CASE UNCHANGED vars
  BY <1>9 DEF vars, ReportInv, LogOK, Since, Seen, GroupsOK, LeadIds,
              SummaryBracketed, BreakdownAddsUp, TrendAddsUp, Answered
<1> QED
  BY <1>1, <1>2, <1>3, <1>4, <1>5, <1>6, <1>7, <1>8, <1>9 DEF Next

LEMMA ReportsInvariant == Spec => []ReportInv
<1>1. Init => ReportInv
  BY ReportInitInv
<1>2. ReportInv /\ [Next]_vars => ReportInv'
  BY ReportStepInv
<1> QED
  BY <1>1, <1>2, PTL DEF Spec

\* getSummary: each figure of a summary lies between the true one when it was
\* asked for and the true one at the end, whatever is logged while it is counted,
\* for every log, every range and every filter.
THEOREM SummariesAreBracketed == Spec => []SummaryBracketed
<1>1. ReportInv => SummaryBracketed
  BY DEF ReportInv
<1> QED
  BY <1>1, ReportsInvariant, PTL

\* getBreakdown: the figures of the groups add up to figures between those two,
\* however many groups there are and however their queries interleave.
THEOREM BreakdownsAddUp == Spec => []BreakdownAddsUp
<1>1. ReportInv => BreakdownAddsUp
  BY DEF ReportInv
<1> QED
  BY <1>1, ReportsInvariant, PTL

\* getTrends: the days of a trend lie in its range and add up to what happened
\* there.
THEOREM TrendsAddUp == Spec => []TrendAddsUp
<1>1. ReportInv => TrendAddsUp
  BY DEF ReportInv
<1> QED
  BY <1>1, ReportsInvariant, PTL
=============================================================================

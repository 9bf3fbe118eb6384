--------------------------- MODULE MCLeadScoring ---------------------------
(***************************************************************************)
(* The life of one lead, one fact at a time: contact data is filled in,    *)
(* messages and calls are logged, appointments come and are kept or        *)
(* missed, the status moves, time passes. TLC evaluates the score in every *)
(* state and compares it along every step.                                 *)
(***************************************************************************)
EXTENDS LeadScoring

CONSTANTS
  MaxCount,   \* bound on the messages and on the calls that are counted
  MaxAge      \* bound on the age of the last activity

VARIABLES lead, evidence

lifeVars == <<lead, evidence>>

MCContacts ==
  {[phone |-> p, email |-> p, first |-> f, last |-> l, vehicle |-> l] :
      p, f, l \in BOOLEAN}

LifeInit ==
  /\ lead = [status |-> "NEW", soldAt |-> FALSE, age |-> NoActivity,
             contact |-> [phone |-> FALSE, email |-> FALSE, first |-> FALSE,
                          last |-> FALSE, vehicle |-> FALSE]]
  /\ evidence = [outbound |-> 0, inbound |-> FALSE, calls |-> 0,
                 showed |-> FALSE, upcoming |-> FALSE, noShow |-> FALSE]

EditLead ==
  /\ \/ \E c \in MCContacts : lead' = [lead EXCEPT !.contact = c]
     \/ \E s \in LeadStatus : lead' = [lead EXCEPT !.status = s]
     \/ lead' = [lead EXCEPT !.status = "SOLD", !.soldAt = TRUE]
  /\ UNCHANGED evidence

\* A message or a call is added to the lead, which is fresh again.
LogContact ==
  /\ \/ evidence.outbound < MaxCount /\ evidence' = [evidence EXCEPT !.outbound = @ + 1]
     \/ evidence.calls < MaxCount /\ evidence' = [evidence EXCEPT !.calls = @ + 1]
     \/ evidence' = [evidence EXCEPT !.inbound = TRUE]
  /\ lead' = [lead EXCEPT !.age = 0]

KeepAppointments ==
  /\ \E s, u, n \in BOOLEAN :
        evidence' = [evidence EXCEPT !.showed = s, !.upcoming = u, !.noShow = n]
  /\ UNCHANGED lead

\* Time passes: the last activity ages and appointments cease to be ahead.
TimePasses ==
  /\ lead.age # NoActivity /\ lead.age < MaxAge
  /\ lead' = [lead EXCEPT !.age = @ + 1]
  /\ evidence' \in {evidence, [evidence EXCEPT !.upcoming = FALSE]}

LifeNext == EditLead \/ LogContact \/ KeepAppointments \/ TimePasses

LifeSpec == LifeInit /\ [][LifeNext]_lifeVars

-----------------------------------------------------------------------------
CurrentScore == Score(lead, evidence)

\* computeScore: logging a message or a call never makes a lead look worse,
\* although the engagement points are capped and the total is clamped.
ContactNeverHurts == [][LogContact => CurrentScore' >= CurrentScore]_lifeVars

\* computeScore: while nobody touches a lead its score can only fall, so a
\* stored score that was right when it was written is an upper bound.
IdleScoreOnlyFalls == [][TimePasses => CurrentScore' =< CurrentScore]_lifeVars

\* buildReasons: the lines of the explanation add up to the total they are
\* printed with, up to the clamp, for every lead that is not sold.
ReasonsAddUp ==
  LET b == Breakdown(lead, evidence)
      Line(part) == IF part \in Reasons(b) THEN b[part] ELSE 0
  IN ~SoldForScore(lead) =>
       b.total = Clamp(Line("contactability") + Line("engagement") + Line("appointment")
                         + Line("stage") + Line("freshness") + Line("penalty"))

\* lead-scoring.service.spec.ts:26, the worked example of the unit test.
ASSUME UnitTestExample ==
  Score([status |-> "QUALIFIED", soldAt |-> FALSE, age |-> Day - 1,
         contact |-> [phone |-> TRUE, email |-> TRUE, first |-> TRUE,
                      last |-> TRUE, vehicle |-> TRUE]],
        [outbound |-> 2, inbound |-> TRUE, calls |-> 2, showed |-> FALSE,
         upcoming |-> TRUE, noShow |-> TRUE]) = 90
=============================================================================

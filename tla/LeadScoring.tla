---------------------------- MODULE LeadScoring ----------------------------
(***************************************************************************)
(* The lead score of the API: a pure function of one row of the Lead table *)
(* and of the messages, activities and appointments that refer to it       *)
(* (LeadScoringService.computeScore and buildReasons).                     *)
(*                                                                         *)
(* A row is reduced to what the computation tells apart: whether the phone *)
(* has ten digits, whether the e-mail has an "@", whether the names and    *)
(* the vehicle are not blank, and the age of lastActivityAt.               *)
(***************************************************************************)
EXTENDS Integers

CONSTANTS
  Day,          \* units of time in a day
  NoActivity    \* the age of a null lastActivityAt

ASSUME DayAssumption == Day \in Nat \ {0}
ASSUME NoActivityAssumption == NoActivity \notin Int

LeadStatus == {"NEW", "CONTACTED", "QUALIFIED", "APPOINTMENT_SET",
               "NEGOTIATING", "SOLD", "LOST"}

MIN_LEAD_SCORE == 0
MAX_LEAD_SCORE == 100

LEAD_STAGE_SCORES ==
  [NEW |-> 0, CONTACTED |-> 5, QUALIFIED |-> 10, APPOINTMENT_SET |-> 15,
   NEGOTIATING |-> 18, SOLD |-> 20, LOST |-> 0]

\* The contact data of a lead; phone, for instance, says that the column
\* holds at least ten digits.
Contact == [phone : BOOLEAN, email : BOOLEAN, first : BOOLEAN,
            last : BOOLEAN, vehicle : BOOLEAN]

\* What the eight count queries find. A count that is only compared with
\* zero is a Boolean.
Evidence == [outbound : Nat, inbound : BOOLEAN, calls : Nat,
             showed : BOOLEAN, upcoming : BOOLEAN, noShow : BOOLEAN]

\* age is now - lastActivityAt; it is negative for a date in the future.
ScoredLead == [status : LeadStatus, soldAt : BOOLEAN, contact : Contact,
               age : Int \cup {NoActivity}]

-----------------------------------------------------------------------------
Points(condition, n) == IF condition THEN n ELSE 0

Contactability(c) ==
  Points(c.phone, 10) + Points(c.email, 10)
    + (IF c.first /\ c.last THEN 5 ELSE Points(c.first \/ c.last, 3))
    + Points(c.vehicle, 5)

\* A slip: the bonus is paid at exactly three attempts.
EngagementRawAtThree(e) ==
  Points(e.outbound > 0, 12) + Points(e.inbound, 18) + Points(e.calls > 0, 10)
    + Points(e.outbound + e.calls = 3, 5)

EngagementRaw(e) ==
  Points(e.outbound > 0, 12) + Points(e.inbound, 18) + Points(e.calls > 0, 10)
    + Points(e.outbound + e.calls >= 3, 5)

Engagement(e) == IF EngagementRaw(e) > 35 THEN 35 ELSE EngagementRaw(e)

AppointmentPoints(e) == IF e.showed THEN 25 ELSE Points(e.upcoming, 20)

\* A slip: the comparison with fourteen days is turned round.
FreshnessEarlyStale(age) ==
  CASE age = NoActivity -> 0
    [] age \in Int /\ age =< Day -> 5
    [] age \in Int /\ age > Day /\ age =< 3 * Day -> 2
    [] age \in Int /\ age > 3 * Day /\ age =< 14 * Day -> -5
    [] OTHER -> 0

Freshness(age) ==
  CASE age = NoActivity -> 0
    [] age \in Int /\ age =< Day -> 5
    [] age \in Int /\ age > Day /\ age =< 3 * Day -> 2
    [] age \in Int /\ age > 14 * Day -> -5
    [] OTHER -> 0

Penalty(e) == IF e.noShow THEN -10 ELSE 0

Clamp(n) == IF n > MAX_LEAD_SCORE THEN MAX_LEAD_SCORE
            ELSE IF n < MIN_LEAD_SCORE THEN MIN_LEAD_SCORE ELSE n

\* A lead is sold for the score by its status or by its stamp.
SoldForScore(lead) == lead.status = "SOLD" \/ lead.soldAt

Unclamped(lead, e) ==
  Contactability(lead.contact) + Engagement(e) + AppointmentPoints(e)
    + LEAD_STAGE_SCORES[lead.status] + Freshness(lead.age) + Penalty(e)

Score(lead, e) ==
  IF SoldForScore(lead) THEN 100 ELSE Clamp(Unclamped(lead, e))

\* The breakdown returned with the score.
Breakdown(lead, e) ==
  IF SoldForScore(lead)
  THEN [contactability |-> 0, engagement |-> 0, appointment |-> 0,
        stage |-> 20, freshness |-> 0, penalty |-> 0, total |-> 100]
  ELSE [contactability |-> Contactability(lead.contact),
        engagement |-> Engagement(e),
        appointment |-> AppointmentPoints(e),
        stage |-> LEAD_STAGE_SCORES[lead.status],
        freshness |-> Freshness(lead.age),
        penalty |-> Penalty(e),
        total |-> Score(lead, e)]

\* A slip: the line for a stale lead is forgotten.
ReasonsFreshOnly(b) ==
  {part \in {"contactability", "engagement", "appointment", "stage", "freshness"} :
      b[part] > 0}
    \cup {part \in {"penalty"} : b[part] < 0}

\* The parts of the breakdown that get a line in the explanation.
Reasons(b) ==
  {part \in {"contactability", "engagement", "appointment", "stage"} : b[part] > 0}
    \cup {part \in {"freshness"} : b[part] # 0}
    \cup {part \in {"penalty"} : b[part] < 0}
=============================================================================

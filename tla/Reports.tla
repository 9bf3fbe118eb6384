------------------------------- MODULE Reports -------------------------------
(***************************************************************************)
(* Summaries, breakdowns and trends (ReportsService) over the event log of  *)
(* one dealership, which grows while a report is counted: a report is up to *)
(* four queries, and those of the groups of a breakdown interleave.  It     *)
(* writes nothing, so that one request at a time shows all it can do.       *)
(***************************************************************************)
EXTENDS Integers, FiniteSets

CONSTANTS
  Lead, Appointment, Text,   \* Text: sources, statuses, users as they are written
  NULL, UNSET,
  Lower,          \* toLowerCase
  LeadPayloads,   \* what lead_created events carry
  Queries,        \* the reports that are asked for, ranges with their ends
  MaxEvents, MaxTime,
  InstantsPerDay

Dimensions == {"source", "assignedUser", "status"}
Trends == {"trend_leads", "trend_appointments", "trend_sold"}
Fields == Dimensions \cup {"leadType"}

ASSUME ReportsAssumption ==
  /\ LeadPayloads \subseteq [Fields -> Text \cup {NULL}]
  /\ Lower \in [Text -> Text]
  /\ InstantsPerDay \in Nat \ {0}
  /\ Queries \subseteq [op : {"summary", "breakdown"} \cup Trends,
                       range : [start : Nat, end : Nat],
                       filter : [Fields -> Text \cup {UNSET}], dimension : Dimensions]

VARIABLES
  now,
  log,      \* the EventLog table, which is only appended to
  req,      \* the request
  asked     \* history: the true figures when the request arrived

vars == <<now, log, req, asked>>

-----------------------------------------------------------------------------
(* What the reports are meant to count, in a log that stands still *)

InRange(at, range) == range.start <= at /\ at <= range.end

Created(lg, range) == {e \in lg : e.type = "lead_created" /\ InRange(e.at, range)}

\* getFilteredLeads, the filter: the case of a text does not count, but for ids.
Matches(payload, filter) ==
  \A f \in {g \in Fields : filter[g] # UNSET} :
    IF payload[f] = NULL THEN FALSE
    ELSE IF f = "assignedUser" THEN payload[f] = filter[f]
    ELSE Lower[payload[f]] = Lower[filter[f]]

LeadsIn(lg, range, filter) == {e.entity : e \in {c \in Created(lg, range) : Matches(c.payload, filter)}}

BookingsOf(lg, ids) == {e \in lg : e.type = "appointment_created" /\ e.lead \in ids}

SetIn(lg, range, ids) == {e.entity : e \in {b \in BookingsOf(lg, ids) : InRange(b.at, range)}}

ShowedIn(lg, range, ids) ==
  {a \in {b.entity : b \in BookingsOf(lg, ids)} :
     \E e \in lg : e.type = "appointment_status_changed" /\ e.entity = a
                   /\ e.status = "SHOWED" /\ InRange(e.at, range)}

SoldIn(lg, range, ids) ==
  {l \in ids : \E e \in lg : e.type = "lead_status_changed" /\ e.entity = l
                             /\ e.status = "SOLD" /\ InRange(e.at, range)}

MarkedSold(lg, range, ids) ==
  {e \in lg : e.type = "lead_status_changed" /\ e.status = "SOLD" /\ e.entity \in ids
              /\ InRange(e.at, range)}

\* times_sold is what the trend of sold leads counts: a lead may be sold twice.
Figures(lg, q) ==
  LET ids == LeadsIn(lg, q.range, q.filter) IN
  [total |-> Cardinality(ids), set |-> Cardinality(SetIn(lg, q.range, ids)),
   showed |-> Cardinality(ShowedIn(lg, q.range, ids)),
   sold |-> Cardinality(SoldIn(lg, q.range, ids)),
   times_sold |-> Cardinality(MarkedSold(lg, q.range, ids))]

-----------------------------------------------------------------------------
DayOf(at) == at \div InstantsPerDay

\* A group is counted for itself; a summary is a breakdown into one group.
Group(ids) == [pc |-> "bookings", ids |-> ids, bookings |-> {}, showed |-> {}, answer |-> NULL]

Idle == [pc |-> "idle", query |-> NULL, leads |-> {}, groups |-> <<>>, answer |-> <<>>]

Init == now = 0 /\ log = {} /\ req = Idle /\ asked = <<>>

\* After the answer nothing that is logged matters to it.
Tick == req.pc # "end" /\ now < MaxTime /\ now' = now + 1 /\ UNCHANGED <<log, req, asked>>

Append1(e) == log' = log \cup {e} /\ UNCHANGED <<now, req, asked>>

\* The writers of the log, each of which comes after its row, in any order, and
\* may be lost: leads and appointments are created once and change often.
LogEvent ==
  /\ req.pc # "end"
  /\ Cardinality(log) < MaxEvents
  /\ \/ \E l \in Lead, p \in LeadPayloads :
          /\ ~\E e \in log : e.type = "lead_created" /\ e.entity = l
          /\ Append1([type |-> "lead_created", entity |-> l, payload |-> p, at |-> now])
     \/ \E a \in Appointment, l \in Lead \cup {NULL} :
          /\ ~\E e \in log : e.type = "appointment_created" /\ e.entity = a
          /\ Append1([type |-> "appointment_created", entity |-> a, lead |-> l, at |-> now])
     \/ \E a \in Appointment : Append1([type |-> "appointment_status_changed", entity |-> a,
                                        status |-> "SHOWED", at |-> now])
     \/ \E l \in Lead : Append1([type |-> "lead_status_changed", entity |-> l,
                                 status |-> "SOLD", at |-> now])

-----------------------------------------------------------------------------
\* parseDateRange comes before the first query.
Ask ==
  /\ req.pc = "idle"
  /\ \E q \in Queries :
       /\ q.range.start <= q.range.end
       /\ req' = [Idle EXCEPT !.pc = "leads", !.query = q]
       /\ asked' = Figures(log, q)
       /\ UNCHANGED <<now, log>>

\* getLeadDimensionValue.
DimensionValue(snapshot, d) ==
  IF snapshot.payload[d] # NULL THEN snapshot.payload[d]
  ELSE IF d = "assignedUser" THEN "Unassigned" ELSE "Unspecified"

\* getFilteredLeads; the first event of a lead is its snapshot.
Snapshots(q) ==
  {e \in Created(log, q.range) :
     /\ \A f \in Created(log, q.range) : f.entity = e.entity => e.at <= f.at
     /\ Matches(e.payload, q.filter)}

Keys(snapshots, q) ==
  IF q.op = "breakdown" THEN {DimensionValue(s, q.dimension) : s \in snapshots}
  ELSE {"all"}

GetFilteredLeads ==
  LET q == req.query
      found == Snapshots(q)
      idsOf(k) == {s.entity : s \in {t \in found :
                     q.op = "breakdown" => DimensionValue(t, q.dimension) = k}}
  IN
  /\ req.pc = "leads"
  /\ req' = [req EXCEPT !.leads = found,
       !.pc = IF q.op \in {"summary", "breakdown"} THEN "groups"
              ELSE IF found = {} THEN "end" ELSE "bookings",
       !.groups = IF q.op \in {"summary", "breakdown"}
                  THEN [k \in Keys(found, q) |-> Group(idsOf(k))] ELSE <<>>]
  /\ UNCHANGED <<now, log, asked>>

SetGroup(k, group) ==
  /\ req' = [req EXCEPT !.groups[k] = group]
  /\ UNCHANGED <<now, log, asked>>

Bookings == {e \in log : e.type = "appointment_created"}
ShowEvents(range) == {e \in log : e.type = "appointment_status_changed" /\ InRange(e.at, range)}
SoldEvents(range) == {e \in log : e.type = "lead_status_changed" /\ InRange(e.at, range)}

\* computeSummaryForLeadIds and getSummary: all bookings ever, to know whose
\* appointment it is, of which those in the range count as set.
CountBookings(k) ==
  LET g == req.groups[k] IN
  /\ req.pc = "groups" /\ g.pc = "bookings"
  /\ SetGroup(k, [g EXCEPT !.bookings = {b \in Bookings : b.lead \in g.ids}, !.pc = "shows"])

\* A slip: every show counts, though the same appointment is told of twice.
ShowedEvery(events, bookings) ==
  {e \in events : e.status = "SHOWED" /\ \E b \in bookings : b.entity = e.entity}

Showed(events, bookings) ==
  {e.entity : e \in {s \in events : s.status = "SHOWED"
                                    /\ \E b \in bookings : b.entity = s.entity}}

CountShows(k) ==
  LET g == req.groups[k] IN
  /\ req.pc = "groups" /\ g.pc = "shows"
  /\ SetGroup(k, [g EXCEPT !.showed = Showed(ShowEvents(req.query.range), g.bookings),
                           !.pc = "sold"])

\* A slip: the leads that were sold are not those of the report.
SoldAnybody(events, ids) == {e.entity : e \in {s \in events : s.status = "SOLD"}}

Sold(events, ids) == {e.entity : e \in {s \in events : s.status = "SOLD" /\ s.entity \in ids}}

CountSold(k) ==
  LET g == req.groups[k]  range == req.query.range IN
  /\ req.pc = "groups" /\ g.pc = "sold"
  /\ SetGroup(k, [g EXCEPT !.pc = "end", !.answer =
       [total |-> Cardinality(g.ids),
        set |-> Cardinality({b \in g.bookings : InRange(b.at, range)}),
        showed |-> Cardinality(g.showed),
        sold |-> Cardinality(Sold(SoldEvents(range), g.ids))]])

\* Promise.all, and the answer.
AnswerGroups ==
  /\ req.pc = "groups"
  /\ \A k \in DOMAIN req.groups : req.groups[k].pc = "end"
  /\ req' = [req EXCEPT !.pc = "end",
                        !.answer = [k \in DOMAIN req.groups |-> req.groups[k].answer]]
  /\ UNCHANGED <<now, log, asked>>

\* A slip: a day counts once, however much happened on it.
BucketedOnce(times) == [d \in {DayOf(e.at) : e \in times} |-> 1]

\* bucketTimeSeries.
Bucketed(times) == [d \in {DayOf(e.at) : e \in times} |-> Cardinality({e \in times : DayOf(e.at) = d})]

LeadIds == {s.entity : s \in req.leads}

\* getTrends; the bookings are read for every metric, but sold leads are read
\* after them.
TrendBookings ==
  LET q == req.query
      bookings == {b \in Bookings : b.lead \in LeadIds /\ InRange(b.at, q.range)}
  IN
  /\ req.pc = "bookings"
  /\ req' = CASE q.op = "trend_leads" ->
                   [req EXCEPT !.pc = "end", !.answer = Bucketed(req.leads)]
              [] q.op = "trend_appointments" ->
                   [req EXCEPT !.pc = "end", !.answer = Bucketed(bookings)]
              [] q.op = "trend_sold" -> [req EXCEPT !.pc = "sold"]
  /\ UNCHANGED <<now, log, asked>>

TrendSold ==
  /\ req.pc = "sold"
  /\ req' = [req EXCEPT !.pc = "end", !.answer =
       Bucketed({e \in SoldEvents(req.query.range) : e.status = "SOLD" /\ e.entity \in LeadIds})]
  /\ UNCHANGED <<now, log, asked>>

Next ==
  \/ Tick \/ LogEvent \/ Ask \/ GetFilteredLeads
  \/ \E k \in DOMAIN req.groups : CountBookings(k) \/ CountShows(k) \/ CountSold(k)
  \/ AnswerGroups \/ TrendBookings \/ TrendSold

Spec == Init /\ [][Next]_vars

-----------------------------------------------------------------------------
\* The sum of a table of numbers, as the number of its units.
AddedUp(f) == Cardinality(UNION {{x} \X (1 .. f[x]) : x \in DOMAIN f})

Answered(ops) == req.pc = "end" /\ req.query.op \in ops

Counted == {"total", "set", "showed", "sold"}

\* getSummary: whatever is logged while a summary is counted, each of its figures
\* lies between the true one when it was asked for and the true one at the end.
SummaryBracketed ==
  Answered({"summary"}) =>
    \A f \in Counted :
      /\ asked[f] <= req.answer["all"][f]
      /\ req.answer["all"][f] <= Figures(log, req.query)[f]

\* getBreakdown: the figures of its groups, each counted by queries of its own,
\* add up to figures that a summary might have given meanwhile: no lead,
\* booking, show or sale is missed or counted in two groups.
BreakdownAddsUp ==
  Answered({"breakdown"}) =>
    \A f \in Counted :
      LET sum == AddedUp([k \in DOMAIN req.answer |-> req.answer[k][f]])
      IN asked[f] <= sum /\ sum <= Figures(log, req.query)[f]

FigureOf(op) ==
  CASE op = "trend_leads" -> "total" [] op = "trend_appointments" -> "set"
    [] op = "trend_sold" -> "times_sold"

\* getTrends: the days of a trend lie in its range and add up to what is counted
\* over it: the leads or bookings, and every time that one of its leads was
\* marked as sold.
TrendAddsUp ==
  Answered(Trends) =>
    LET f == FigureOf(req.query.op)
        sum == AddedUp(req.answer)
    IN /\ asked[f] <= sum /\ sum <= Figures(log, req.query)[f]
       /\ \A d \in DOMAIN req.answer :
            DayOf(req.query.range.start) <= d /\ d <= DayOf(req.query.range.end)
=============================================================================

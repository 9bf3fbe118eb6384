\* Up to four events, before, between and after the queries of one report.
CONSTANTS
  Lead = {l1, l2}
  Appointment = {a1, a2}
  Text = {"Web", "web", "new"}
  NULL = NULL
  UNSET = UNSET
  Lower <- MCLower
  LeadPayloads <- MCPayloads
  Queries <- MCQueries
  MaxEvents = 4
  MaxTime = 2
  InstantsPerDay = 2
SYMMETRY EntitySymmetry
SPECIFICATION Spec
CHECK_DEADLOCK FALSE
INVARIANTS
  SummaryBracketed
  BreakdownAddsUp
  TrendAddsUp

\* Two requests on one lead, with faults: anything but its creation, while an
\* administrator loses the role, or its creation, while a member leaves.
CONSTANTS
  Day = 1
  NoActivity = NoActivity
  NULL = NULL
  UNSET = UNSET
  admin = admin
  sales = sales
  outsider = outsider
  User = {admin, sales, outsider}
  Member = {admin, sales}
  Platform = {outsider}
  Lead = {l1}
  Source = {src}
  Request = {r1, r2}
  Ops = {"create", "update", "assign", "status", "activity", "rescore"}
  StatusArg = {UNSET, "NEW", "SOLD"}
  AssigneeArg = {UNSET, sales, outsider}
  SourceArg = {src}
  ContactArg <- MCContactArg
  AgeArg = {UNSET}
  RoleOf <- MCRoles
  NewRole = {"SALES"}
  Leaver = {sales}
  InitialRow <- MCRows
  InitialEvidence <- MCInitialEvidence
  Faults = TRUE
SYMMETRY RequestSymmetry
SPECIFICATION MCSpec
CHECK_DEADLOCK FALSE
INVARIANTS
  SoldStampEarned
  AcknowledgedIsAudited
  ScoreSettles
  AssignedInsideDealership
  EventsAudited
PROPERTIES
  ImplementsLedger

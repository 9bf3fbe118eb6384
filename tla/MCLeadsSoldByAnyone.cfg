\* One request, no faults: every route by which a status is written.
CONSTANTS
  Day = 1
  NoActivity = NoActivity
  NULL = NULL
  UNSET = UNSET
  admin = admin
  sales = sales
  outsider = outsider
  User = {admin, sales, outsider}
  Member = {admin, sales}
  Platform = {outsider}
  Lead = {l1}
  Source = {src}
  Request = {r1}
  Ops = {"create", "update", "status"}
  StatusArg = {UNSET, "SOLD"}
  AssigneeArg = {UNSET}
  SourceArg = {src}
  ContactArg <- MCContactArg
  AgeArg = {UNSET}
  RoleOf <- MCRoles
  NewRole = {}
  Leaver = {}
  InitialRow <- MCRows
  InitialEvidence <- MCInitialEvidence
  Faults = FALSE
SPECIFICATION MCSpec
CHECK_DEADLOCK FALSE
INVARIANTS
  OnlyManagementSells

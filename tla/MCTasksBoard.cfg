\* Two overlapping requests of every kind, with faults.
CONSTANTS
  Task = {t1}
  User = {member, outsider}
  Enrolled = {member}
  Lead = {lead}
  Date = {tomorrow}
  Request = {r1, r2}
  NULL = NULL
  UNSET = UNSET
  Ops = {"create", "update", "complete", "snooze"}
  StatusArg = {UNSET, "OPEN", "CANCELED"}
  DateArg = {UNSET, tomorrow}
  AssigneeArg = {UNSET, member, outsider}
  LeadArg = {UNSET, lead, foreignLead}
  InitialTask <- MCOpenOrAbsent
  Faults = TRUE
SYMMETRY RequestSymmetry
SPECIFICATION Spec
CHECK_DEADLOCK FALSE
INVARIANTS
  CompletionAudited
PROPERTIES
  ClosedUnlessRaced

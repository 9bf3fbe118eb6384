\* Two overlapping requests of every kind on one calendar, cut short anywhere.
CONSTANTS
  Day = 1
  NoActivity = NoActivity
  NULL = NULL
  UNSET = UNSET
  lead = lead
  otherLead = otherLead
  foreignLead = foreignLead
  Appointment = {a1}
  Lead = {lead, otherLead}
  Request = {r1, r2}
  Ops = {"create", "update", "confirm", "cancel"}
  StatusArg = {UNSET, "SHOWED"}
  StartArg = {UNSET, 3}
  EndArg = {UNSET, 3, 4}
  LeadArg = {UNSET, otherLead, foreignLead}
  Now = 0
  InitialAppointment <- MCBookedOrAbsent
  Faults = TRUE
SYMMETRY RequestSymmetry
SPECIFICATION Spec
CHECK_DEADLOCK FALSE
INVARIANTS
  WindowUnlessRaced
  ScoreFollowsAppointments
  StatusIsTold
PROPERTIES
  OutcomeStands

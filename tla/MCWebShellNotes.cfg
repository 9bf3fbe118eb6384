\* Notes that are read, cut off, redated and told again, for one who lets nothing
\* else be.
CONSTANTS
  ann = ann
  bob = bob
  d1 = d1
  d2 = d2
  User = {ann}
  Dealership = {d1}
  NULL = NULL
  Memberships <- MCOneMembership
  Role <- MCRole
  Platform = {}
  Filter = {}
  lead = lead
  visit = visit
  text = text
  reply = reply
  notice = notice
  Entity = {lead, visit, text}
  Home <- MCHome
  Kind <- MCKind
  Time = {1, 2}
  Before <- MCNotesBefore
  Visitors = {ann}
  MaxNotes = 2
  MaxActs = 4
SPECIFICATION Spec
CHECK_DEADLOCK FALSE
INVARIANTS
  ReadUnlessRedated

\* Three acts of the user or of the dealership: a switch, a search, an import, a logout, ...
CONSTANTS
  ann = ann
  bob = bob
  d1 = d1
  d2 = d2
  User = {ann, bob}
  Dealership = {d1, d2}
  NULL = NULL
  Memberships <- MCMemberships
  Role <- MCRole
  Platform = {}
  Filter = {"q"}
  lead = lead
  visit = visit
  text = text
  reply = reply
  notice = notice
  Entity = {lead, text, reply, notice}
  Home <- MCHome
  Kind <- MCKind
  Time = {1}
  Before <- MCBefore
  Visitors = {ann, bob}
  MaxNotes = 1
  MaxActs = 3
SPECIFICATION FairSpec
CHECK_DEADLOCK FALSE
INVARIANTS
  ShownIsSelected
  SelectedIsMineUnlessMixed
  NotesAreOwn
  BellIsSelected
PROPERTIES
  ComesToRest

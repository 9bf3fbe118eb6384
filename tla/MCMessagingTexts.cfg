\* What is sent, alone or in bulk, while a call is logged or a text comes in.
\* Requests are cut short anywhere; the carrier's answers are lost, and its
\* reports are lost, late and repeated.
CONSTANTS
  Day = 1
  NoActivity = NoActivity
  NULL = NULL
  l1 = l1
  l2 = l2
  l3 = l3
  phone = phone
  scribble = scribble
  Lead = {l1, l2, l3}
  Foreign = {l3}
  Phone = {phone, scribble}
  Dialable = {phone}
  r1 = r1
  r2 = r2
  Request = {r1, r2}
  OpsOf <- MCOpsOf
  PhoneArg = {NULL, scribble}
  ChannelArg = {"SMS", "EMAIL"}
  DirectionArg = {"OUTBOUND"}
  BulkArg <- MCBulk
  TemplateArg = {"SMS", "EMAIL"}
  InitialLeads <- MCContacts
  Live = TRUE
  Faults = TRUE
SPECIFICATION Spec
CHECK_DEADLOCK FALSE
INVARIANTS
  StatusUnlessMisread
  TextHasRow
  ScoreFollowsMessages
  BulkAccounts
PROPERTIES
  BulkEnds

\* One text and what the carrier reports of it.
CONSTANTS
  Day = 1
  NoActivity = NoActivity
  NULL = NULL
  l1 = l1
  l2 = l2
  l3 = l3
  phone = phone
  scribble = scribble
  Lead = {l1, l2, l3}
  Foreign = {l3}
  Phone = {phone, scribble}
  Dialable = {phone}
  r1 = r1
  r2 = r2
  Request = {r1, r2}
  OpsOf <- MCTextOnly
  PhoneArg = {NULL, scribble}
  ChannelArg = {"SMS", "EMAIL"}
  DirectionArg = {"OUTBOUND"}
  BulkArg <- MCBulk
  TemplateArg = {"SMS", "EMAIL"}
  InitialLeads <- MCContacts
  Live = TRUE
  Faults = FALSE
SPECIFICATION Spec
CHECK_DEADLOCK FALSE
PROPERTIES
  UndeliveredIsFailed

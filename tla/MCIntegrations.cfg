\* Two overlapping imports or webhooks, queries that fail and requests that are
\* lost, and a limit of one webhook in two ticks of the clock.
CONSTANTS
  QUOTE = QUOTE
  COMMA = COMMA
  LETTER = LETTER
  UNSET = UNSET
  NULL = NULL
  Dealership = {d1}
  Provider = {GENERIC}
  Secret = {s1}
  Sender = {ip}
  Name = {site}
  Request = {r1, r2}
  Ops = {"connect", "csv", "webhook"}
  Files <- MCFiles
  Payloads <- MCPayloads
  SourceArg = {UNSET}
  ActiveArg = {UNSET, FALSE}
  InitialIntegrations <- MCConnected
  InitialLeads <- MCLeads
  Key <- MCKeys
  Hit = {r1, r2}
  Window = 2
  Limit = 1
  MaxRows = 2
  MaxTime = 2
  Faults = TRUE
SPECIFICATION MCSpec
CHECK_DEADLOCK FALSE
INVARIANTS
  OkEventHasLead
  ImportAccounts
  LeadPerEvent
  Bounded
  RoundTrip
SYMMETRY RequestSymmetry
PROPERTIES
  NoTwinUnlessRaced

\* Two overlapping requests of every kind, with faults, and an invitation that
\* is open, used, withdrawn or yet to be made, and may lapse at any moment.
CONSTANTS
  boss = boss
  hq = hq
  guest = guest
  north = north
  south = south
  i1 = i1
  secret = secret
  fresh = fresh
  ann = ann
  bob = bob
  tel = tel
  User = {boss, hq, guest}
  Dealership = {north, south}
  Invitation = {i1}
  Password = {secret, fresh}
  Name = {ann, bob}
  Phone = {tel}
  Request = {r1, r2}
  NULL = NULL
  UNSET = UNSET
  PlatformAdmins = {}
  PlatformOperators = {hq}
  Ops = {"invite", "revoke", "setRole", "deactivate", "settings", "appoint", "amend",
         "remove", "found", "alter", "close", "accept", "login", "refresh", "logout", "profile"}
  Target = {guest}
  RoleArg = {"MANAGER"}
  PasswordArg = {fresh}
  NameArg = {UNSET, bob}
  PhoneArg = {UNSET, NULL, tel}
  ActiveArg = {UNSET, FALSE}
  InitialUser <- MCUsers
  InitialMember <- MCMembers
  InitialInvitation <- MCInvitations
  Faults = TRUE
SYMMETRY RequestSymmetry
SPECIFICATION Spec
CHECK_DEADLOCK FALSE
INVARIANTS
  AcceptedIsMember
PROPERTIES
  FinalUnlessRaced
  AdmittedByOpenInvitation
  LogoutSticks
  AdminsOnly

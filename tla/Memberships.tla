----------------------------- MODULE Memberships -----------------------------
(***************************************************************************)
(* Who belongs to which dealership: invitations and sessions (AuthService), *)
(* the team (TeamService), the platform's memberships (UsersService) and    *)
(* dealerships (DealershipsService), one action per round trip.  Nothing    *)
(* here runs in a transaction, except the creation of a dealership.         *)
(***************************************************************************)
EXTENDS Integers

CONSTANTS
  User,          \* everybody who has or may get an account; one email each
  Dealership, Invitation,
  Password, Name, Phone,
  Request,       \* requests, each of which is made at most once
  NULL,          \* a null column, a row that does not exist
  UNSET,         \* a property the payload does not have (undefined)
  PlatformAdmins, PlatformOperators,
  Ops,           \* the operations that are requested
  Target,        \* the users that payloads name
  RoleArg, PasswordArg, NameArg, PhoneArg, ActiveArg,   \* the payloads
  InitialUser, InitialMember, InitialInvitation,
                 \* the tables the system may start with
  Faults         \* may a request be cut short by a fault?

Role == {"ADMIN", "MANAGER", "BDC", "SALES"}
InvitationStatus == {"PENDING", "ACCEPTED", "EXPIRED", "REVOKED"}
DealershipStatus == {"ACTIVE", "INACTIVE"}

\* A session is open while a hash of a refresh token is stored.
UserRow == [password : Password, name : Name, phone : Phone \cup {NULL}, session : BOOLEAN]
MemberRow == [role : Role, isActive : BOOLEAN]
InvitationRow == [email : User, dealership : Dealership, role : Role,
                  status : InvitationStatus]

TeamOps == {"invite", "revoke", "setRole", "deactivate", "settings"}
PlatformOps == {"appoint", "amend", "remove", "found", "alter", "close"}
AllOps == TeamOps \cup PlatformOps \cup {"accept", "login", "refresh", "logout", "profile"}

ASSUME MembershipsAssumption ==
  /\ NULL \notin User \cup Dealership \cup Invitation \cup Name \cup Phone
  /\ NULL \notin Role \cup DealershipStatus
  /\ NULL \notin UserRow /\ NULL \notin MemberRow /\ NULL \notin InvitationRow
  /\ UNSET \notin Name \cup Phone \cup {NULL} /\ UNSET \notin Role /\ UNSET \notin BOOLEAN
  /\ PlatformAdmins \cup PlatformOperators \subseteq User
  /\ Ops \subseteq AllOps /\ Target \subseteq User
  /\ RoleArg \subseteq Role
  /\ PasswordArg \subseteq Password
  /\ NameArg \subseteq Name \cup {NULL, UNSET}
  /\ PhoneArg \subseteq Phone \cup {NULL, UNSET}
  /\ ActiveArg \subseteq BOOLEAN \cup {UNSET}
  /\ InitialUser \subseteq [User -> UserRow \cup {NULL}]
  /\ InitialMember \subseteq [User \X Dealership -> MemberRow \cup {NULL}]
  /\ InitialInvitation \subseteq [Invitation -> InvitationRow \cup {NULL}]
  /\ Faults \in BOOLEAN

VARIABLES
  users, members, invitations, dealerships,   \* the tables
  sources,  \* the dealerships that have their three lead sources
  overdue,  \* invitations whose expiresAt has passed
  req,      \* the requests
  failed,   \* the requests that were answered with an error or lost
  raced,    \* history: invitations used or closed on a reading that was stale
  demoted   \* history: requests whose actor's membership has changed since it was read

tables == <<users, members, invitations, dealerships, sources>>
vars == <<tables, overdue, req, failed, raced, demoted>>

-----------------------------------------------------------------------------
PC == {"idle", "tenant", "invitation", "expire", "user", "saveUser", "upsert", "mark",
       "issue", "close", "profile", "invite", "revoke", "member", "exist", "group",
       "dealership", "status", "end"}

NoArgs == [user |-> NULL, dealership |-> NULL, invitation |-> NULL, role |-> UNSET,
           password |-> UNSET, name |-> UNSET, phone |-> UNSET, active |-> UNSET]

Idle == [pc |-> "idle", op |-> NULL, actor |-> NULL, tenant |-> NULL, role |-> NULL,
         args |-> NoArgs, inv |-> NULL, user |-> NULL]

At(r, pc) == req[r].pc = pc /\ r \notin failed
InFlight(r) == req[r].pc \notin {"idle", "end"} /\ r \notin failed
Goto(r, pc) == req' = [req EXCEPT ![r].pc = pc]
Given(arg, old) == IF arg = UNSET THEN old ELSE arg
Coalesce(arg, old) == IF arg \in {UNSET, NULL} THEN old ELSE arg   \* arg ?? old

StatusOf(active) == IF active THEN "ACTIVE" ELSE "INACTIVE"

IsPlatform(u) == u \in PlatformAdmins \cup PlatformOperators
IsMember(u, d) == members[<<u, d>>] # NULL /\ members[<<u, d>>].isActive
IsAdmin(u, d) == IF IsMember(u, d) THEN members[<<u, d>>].role = "ADMIN" ELSE IsPlatform(u)

\* What getInvitation and listInvitations show of an invitation.
ShownStatus(i) == IF invitations[i].status = "PENDING" /\ i \in overdue
                  THEN "EXPIRED" ELSE invitations[i].status

Throw(r) == /\ failed' = failed \cup {r}
            /\ UNCHANGED <<tables, overdue, req, raced, demoted>>

Init ==
  /\ users \in InitialUser /\ members \in InitialMember /\ invitations \in InitialInvitation
  /\ \A u \in User, d \in Dealership : users[u] = NULL => members[<<u, d>>] = NULL
  /\ \A i \in Invitation : invitations[i] # NULL /\ invitations[i].status = "ACCEPTED"
       => members[<<invitations[i].email, invitations[i].dealership>>] # NULL
  /\ dealerships = [d \in Dealership |->
       IF \E u \in User : members[<<u, d>>] # NULL THEN "ACTIVE" ELSE NULL]
  /\ \A i \in Invitation : invitations[i] # NULL => dealerships[invitations[i].dealership] # NULL
  /\ sources = {d \in Dealership : dealerships[d] # NULL}
  /\ overdue \in SUBSET {i \in Invitation : invitations[i] # NULL}
  /\ req = [r \in Request |-> Idle]
  /\ failed = {} /\ raced = {} /\ demoted = {}

-----------------------------------------------------------------------------
\* A request arrives with an access token of its actor, or with none.
Begin(r, op, actor, tenant, pc, args) ==
  /\ op \in Ops
  /\ At(r, "idle")
  /\ req' = [req EXCEPT ![r] = [Idle EXCEPT !.pc = pc, !.op = op, !.actor = actor,
                                            !.tenant = tenant, !.args = args]]
  /\ UNCHANGED <<tables, overdue, failed, raced, demoted>>

StartPublic(r) ==
  \/ \E i \in Invitation, p \in PasswordArg, n \in NameArg \cap Name :
       /\ invitations[i] # NULL
       /\ Begin(r, "accept", NULL, NULL, "invitation",
                [NoArgs EXCEPT !.invitation = i, !.password = p, !.name = n])
  \/ \E u \in Target, p \in PasswordArg :
       Begin(r, "login", NULL, NULL, "user", [NoArgs EXCEPT !.user = u, !.password = p])
  \/ \E u \in Target : /\ users[u] # NULL
                       /\ Begin(r, "refresh", NULL, NULL, "user", [NoArgs EXCEPT !.user = u])

StartOwn(r) ==
  \E u \in Target :
    /\ users[u] # NULL
    /\ \/ Begin(r, "logout", u, NULL, "close", [NoArgs EXCEPT !.user = u])
       \/ \E n \in NameArg, p \in PhoneArg :
            Begin(r, "profile", u, NULL, "user",
                  [NoArgs EXCEPT !.user = u, !.name = n, !.phone = p])

StartTeam(r) ==
  \E a \in User, d \in Dealership :
    /\ users[a] # NULL
    /\ \/ \E u \in Target, role \in RoleArg :
            \/ Begin(r, "invite", a, d, "tenant", [NoArgs EXCEPT !.user = u, !.role = role])
            \/ Begin(r, "setRole", a, d, "tenant", [NoArgs EXCEPT !.user = u, !.role = role])
       \/ \E i \in Invitation :
            Begin(r, "revoke", a, d, "tenant", [NoArgs EXCEPT !.invitation = i])
       \/ \E u \in Target : Begin(r, "deactivate", a, d, "tenant", [NoArgs EXCEPT !.user = u])
       \/ \E e \in Dealership, s \in BOOLEAN :
            Begin(r, "settings", a, d, "tenant", [NoArgs EXCEPT !.dealership = e, !.active = s])

\* PlatformAdminGuard lets operators in as well; these routes skip the tenant.
StartPlatform(r) ==
  \E a \in PlatformAdmins \cup PlatformOperators, d \in Dealership :
    /\ users[a] # NULL
    /\ \/ \E u \in Target, role \in RoleArg, active \in ActiveArg :
            \/ Begin(r, "appoint", a, NULL, "exist", [NoArgs EXCEPT
                 !.user = u, !.dealership = d, !.role = role, !.active = active])
            \/ Begin(r, "amend", a, NULL, "exist", [NoArgs EXCEPT
                 !.user = u, !.dealership = d, !.role = role, !.active = active])
       \/ \E u \in Target : Begin(r, "remove", a, NULL, "exist", [NoArgs EXCEPT
                 !.user = u, !.dealership = d, !.active = FALSE])
       \/ \E s \in ActiveArg : Begin(r, "found", a, NULL, "group",
                [NoArgs EXCEPT !.dealership = d, !.active = s])
       \/ \E s \in ActiveArg \cap BOOLEAN :
            Begin(r, "alter", a, NULL, "status", [NoArgs EXCEPT !.dealership = d, !.active = s])
       \/ Begin(r, "close", a, NULL, "status",
                [NoArgs EXCEPT !.dealership = d, !.active = FALSE])

-----------------------------------------------------------------------------
\* A slip: a manager passes as well.
MayProceedManager(q, role) == role \in {"ADMIN", "MANAGER"} \/ IsPlatform(q.actor)

\* The tenant guard reads the membership once; who has none and works for the
\* platform passes as an admin. assertAdmin, the guard of the settings and
\* assertSettingsAccess follow without an await.
MayProceed(q, role) ==
  LET a == q.actor IN
  IF q.op = "settings"
  THEN IsPlatform(a) \/ (role = "ADMIN" /\ q.args.dealership = q.tenant)
  ELSE a \in PlatformAdmins \/ role = "ADMIN"

AfterGuard == [invite |-> "invite", revoke |-> "invitation", setRole |-> "member",
               deactivate |-> "member", settings |-> "status"]

TenantGuard(r) ==
  LET q == req[r]
      role == IF IsMember(q.actor, q.tenant) THEN members[<<q.actor, q.tenant>>].role
              ELSE IF IsPlatform(q.actor) THEN "ADMIN" ELSE NULL
  IN
  /\ At(r, "tenant")
  /\ IF role # NULL /\ MayProceed(q, role)
     THEN /\ req' = [req EXCEPT ![r] = [@ EXCEPT !.role = role, !.pc = AfterGuard[q.op]]]
          /\ UNCHANGED <<tables, overdue, failed, raced, demoted>>
     ELSE Throw(r)

Found(q, row) == row # NULL /\ (q.op = "revoke" => row.dealership = q.tenant)

SeeInvitation(r) ==
  LET q == req[r]  i == q.args.invitation IN
  /\ req' = [req EXCEPT ![r] = [@ EXCEPT !.inv = invitations[i], !.pc =
                 IF q.op = "revoke" THEN "revoke"
                 ELSE IF i \in overdue THEN "expire" ELSE "user"]]
  /\ UNCHANGED <<tables, overdue, failed, raced, demoted>>

\* A slip: whether the invitation is still pending is not looked at.
FindInvitationAny(r) ==
  /\ At(r, "invitation")
  /\ IF Found(req[r], invitations[req[r].args.invitation]) THEN SeeInvitation(r) ELSE Throw(r)

\* acceptInvitation looks by token, revokeInvitation by id in its dealership.
FindInvitation(r) ==
  LET row == invitations[req[r].args.invitation] IN
  /\ At(r, "invitation")
  /\ IF Found(req[r], row) /\ row.status = "PENDING" THEN SeeInvitation(r) ELSE Throw(r)

\* An invitation is written by its id alone, whatever has become of it since.
CloseInvitation(r, status) ==
  LET q == req[r]  i == q.args.invitation IN
  /\ invitations' = [invitations EXCEPT ![i].status = status]
  /\ raced' = IF invitations[i] = q.inv /\ ~(q.op = "accept" /\ status = "ACCEPTED" /\ i \in overdue)
              THEN raced ELSE raced \cup {i}
  /\ UNCHANGED <<users, members, dealerships, sources, overdue, demoted>>

\* The answer to who accepts too late is an error, after the write.
ExpireInvitation(r) ==
  /\ At(r, "expire")
  /\ CloseInvitation(r, "EXPIRED")
  /\ failed' = failed \cup {r}
  /\ UNCHANGED req

RevokeInvitation(r) ==
  /\ At(r, "revoke")
  /\ CloseInvitation(r, "REVOKED")
  /\ Goto(r, "end") /\ UNCHANGED failed

\* A slip: the membership is still to come.
MarkAcceptedFirst(r) ==
  /\ At(r, "saveUser") /\ req[r].op = "accept"
  /\ CloseInvitation(r, "ACCEPTED")
  /\ Goto(r, "upsert") /\ UNCHANGED failed

MarkAccepted(r) ==
  /\ At(r, "mark")
  /\ CloseInvitation(r, "ACCEPTED")
  /\ Goto(r, "issue") /\ UNCHANGED failed

InviteUser(r) ==
  LET q == req[r] IN
  /\ At(r, "invite")
  /\ \E i \in Invitation :
        /\ invitations[i] = NULL
        /\ invitations' = [invitations EXCEPT ![i] =
             [email |-> q.args.user, dealership |-> q.tenant, role |-> q.args.role,
              status |-> "PENDING"]]
  /\ Goto(r, "end")
  /\ UNCHANGED <<users, members, dealerships, sources, overdue, failed, raced, demoted>>

-----------------------------------------------------------------------------
\* A slip: a signed refresh token is enough, though the session was closed.
RefusedPassword(op, args, row) ==
  op = "login" /\ (row = NULL \/ row.password # args.password)

\* login compares the password, refresh needs a stored hash. (The library
\* compares as many bytes as all refresh tokens of a user have in common.)
Refused(op, args, row) ==
  \/ op = "login" /\ (row = NULL \/ row.password # args.password)
  \/ op = "refresh" /\ (row = NULL \/ ~row.session)
  \/ op = "profile" /\ row = NULL

AfterUser == [accept |-> "saveUser", login |-> "issue", refresh |-> "issue",
              profile |-> "profile"]

\* The user a request is about: an invitation is for its email.
Subject(q) == IF q.op = "accept" THEN q.inv.email ELSE q.args.user

FindUser(r) ==
  LET q == req[r]  row == users[Subject(q)] IN
  /\ At(r, "user")
  /\ IF Refused(q.op, q.args, row) THEN Throw(r)
     ELSE /\ req' = [req EXCEPT ![r] = [@ EXCEPT !.user = row, !.pc = AfterUser[q.op]]]
          /\ UNCHANGED <<tables, overdue, failed, raced, demoted>>

\* Who accepts gets an account, or a new password and name on the one there is;
\* an account made since the look fails on the unique email.
SaveUser(r) ==
  LET q == req[r]  u == Subject(q)
      row == [password |-> q.args.password, name |-> q.args.name, phone |-> NULL,
              session |-> FALSE]
  IN
  /\ At(r, "saveUser")
  /\ IF q.user = NULL /\ users[u] # NULL THEN Throw(r)
     ELSE /\ users' = [users EXCEPT ![u] = IF q.user = NULL THEN row
                  ELSE [@ EXCEPT !.password = q.args.password, !.name = q.args.name]]
          /\ Goto(r, "upsert")
          /\ UNCHANGED <<members, invitations, dealerships, sources, overdue, failed, raced,
                         demoted>>

\* issueTokens, and the end of refresh, store the hash of the new token.
IssueTokens(r) ==
  /\ At(r, "issue")
  /\ users' = [users EXCEPT ![Subject(req[r])].session = TRUE]
  /\ Goto(r, "end")
  /\ UNCHANGED <<members, invitations, dealerships, sources, overdue, failed, raced, demoted>>

Logout(r) ==
  /\ At(r, "close")
  /\ users' = [users EXCEPT ![Subject(req[r])].session = FALSE]
  /\ Goto(r, "end")
  /\ UNCHANGED <<members, invitations, dealerships, sources, overdue, failed, raced, demoted>>

Profile(args, row) == [name |-> Coalesce(args.name, row.name),
                       phone |-> Given(args.phone, row.phone)]

\* updateCurrentUser writes all columns, those not given from what it has read.
WriteProfile(r) ==
  LET q == req[r]  p == Profile(q.args, q.user) IN
  /\ At(r, "profile")
  /\ users' = [users EXCEPT ![q.args.user] = [@ EXCEPT !.name = p.name, !.phone = p.phone]]
  /\ Goto(r, "end")
  /\ UNCHANGED <<members, invitations, dealerships, sources, overdue, failed, raced, demoted>>

-----------------------------------------------------------------------------
PutMember(u, d, row) ==
  /\ members' = [members EXCEPT ![<<u, d>>] = row]
  /\ demoted' = demoted \cup {s \in Request : InFlight(s) /\ req[s].actor = u
                                              /\ req[s].tenant = d /\ req[s].role # NULL}
  /\ UNCHANGED <<users, invitations, dealerships, sources, overdue>>

\* acceptInvitation: the membership, active again whatever it was.
UpsertMembership(r) ==
  LET q == req[r]  i == q.args.invitation IN
  /\ At(r, "upsert")
  /\ PutMember(q.inv.email, q.inv.dealership, [role |-> q.inv.role, isActive |-> TRUE])
  /\ raced' = IF invitations[i] = q.inv /\ i \notin overdue THEN raced ELSE raced \cup {i}
  /\ Goto(r, "mark") /\ UNCHANGED failed

\* setRole and deactivateMembership; there must be a row to update.
ChangeMembership(r) ==
  LET q == req[r]  old == members[<<q.args.user, q.tenant>>] IN
  /\ At(r, "member") /\ q.op \in {"setRole", "deactivate"}
  /\ IF old = NULL THEN Throw(r)
     ELSE /\ PutMember(q.args.user, q.tenant,
                       IF q.op = "setRole" THEN [old EXCEPT !.role = q.args.role]
                       ELSE [old EXCEPT !.isActive = FALSE])
          /\ Goto(r, "end") /\ UNCHANGED <<failed, raced>>

\* assertUserAndDealershipExist: rows are never deleted, so that the two
\* parallel look-ups answer like one.
AssertExist(r) ==
  LET args == req[r].args IN
  /\ At(r, "exist")
  /\ IF users[args.user] # NULL /\ dealerships[args.dealership] # NULL
     THEN Goto(r, "member") /\ UNCHANGED <<tables, overdue, failed, raced, demoted>>
     ELSE Throw(r)

\* createMembership upserts; updateMembership and deactivateMembership update.
PlatformMembership(r) ==
  LET q == req[r]  args == q.args  old == members[<<args.user, args.dealership>>] IN
  /\ At(r, "member") /\ q.op \in {"appoint", "amend", "remove"}
  /\ IF q.op # "appoint" /\ old = NULL THEN Throw(r)
     ELSE /\ PutMember(args.user, args.dealership,
               IF q.op = "appoint"
               THEN [role |-> args.role, isActive |-> Given(args.active, TRUE)]
               ELSE [role |-> Given(args.role, old.role),
                     isActive |-> Given(args.active, old.isActive)])
          /\ Goto(r, "end") /\ UNCHANGED <<failed, raced>>

\* DealershipsService.create: the group first, in a query of its own.
UpsertGroup(r) ==
  /\ At(r, "group")
  /\ Goto(r, "dealership") /\ UNCHANGED <<tables, overdue, failed, raced, demoted>>

\* The dealership and its lead sources, in one transaction; the slug is unique.
CreateDealership(r) ==
  LET d == req[r].args.dealership IN
  /\ At(r, "dealership")
  /\ IF dealerships[d] # NULL THEN Throw(r)
     ELSE /\ dealerships' = [dealerships EXCEPT ![d] = StatusOf(Given(req[r].args.active, TRUE))]
          /\ sources' = sources \cup {d}
          /\ Goto(r, "end")
          /\ UNCHANGED <<users, members, invitations, overdue, failed, raced, demoted>>

\* update, updateSettings and deactivate.
SetStatus(r) ==
  LET q == req[r]  d == q.args.dealership IN
  /\ At(r, "status")
  /\ IF dealerships[d] = NULL THEN Throw(r)
     ELSE /\ dealerships' = [dealerships EXCEPT ![d] = StatusOf(q.args.active)]
          /\ Goto(r, "end")
          /\ UNCHANGED <<users, members, invitations, sources, overdue, failed, raced, demoted>>

-----------------------------------------------------------------------------
\* Seven days pass.
TimePasses ==
  \E i \in Invitation :
    /\ invitations[i] # NULL /\ i \notin overdue
    /\ overdue' = overdue \cup {i}
    /\ UNCHANGED <<tables, req, failed, raced, demoted>>

Fault(r) == Faults /\ InFlight(r) /\ Throw(r)

Start(r) == StartPublic(r) \/ StartOwn(r) \/ StartTeam(r) \/ StartPlatform(r)

Step(r) ==
  \/ TenantGuard(r) \/ FindInvitation(r) \/ ExpireInvitation(r) \/ RevokeInvitation(r)
  \/ MarkAccepted(r) \/ InviteUser(r) \/ FindUser(r) \/ SaveUser(r) \/ IssueTokens(r)
  \/ Logout(r) \/ WriteProfile(r) \/ UpsertMembership(r) \/ ChangeMembership(r)
  \/ AssertExist(r) \/ PlatformMembership(r) \/ UpsertGroup(r) \/ CreateDealership(r)
  \/ SetStatus(r)

Next == TimePasses \/ \E r \in Request : Start(r) \/ Step(r) \/ Fault(r)

Spec == Init /\ [][Next]_vars /\ \A r \in Request : WF_vars(Step(r))

-----------------------------------------------------------------------------
Args == [user : User \cup {NULL}, dealership : Dealership \cup {NULL},
         invitation : Invitation \cup {NULL}, role : Role \cup {UNSET},
         password : Password \cup {UNSET}, name : Name \cup {NULL, UNSET},
         phone : Phone \cup {NULL, UNSET}, active : BOOLEAN \cup {UNSET}]

RequestState ==
  [pc : PC, op : AllOps \cup {NULL}, actor : User \cup {NULL},
   tenant : Dealership \cup {NULL}, role : Role \cup {NULL}, args : Args,
   inv : InvitationRow \cup {NULL}, user : UserRow \cup {NULL}]

\* Every table and every request is what its columns and fields say.
TypeOK ==
  /\ users \in [User -> UserRow \cup {NULL}]
  /\ members \in [User \X Dealership -> MemberRow \cup {NULL}]
  /\ invitations \in [Invitation -> InvitationRow \cup {NULL}]
  /\ dealerships \in [Dealership -> DealershipStatus \cup {NULL}]
  /\ sources \subseteq Dealership
  /\ overdue \subseteq Invitation
  /\ req \in [Request -> RequestState]
  /\ failed \subseteq Request /\ raced \subseteq Invitation /\ demoted \subseteq Request

\* acceptInvitation: an invitation that says ACCEPTED has made its addressee a
\* member, with an account, wherever the handler was cut short.
AcceptedIsMember ==
  \A i \in Invitation : invitations[i] # NULL /\ invitations[i].status = "ACCEPTED" =>
    LET row == invitations[i] IN
    users[row.email] # NULL /\ members[<<row.email, row.dealership>>] # NULL

\* getInvitation, acceptInvitation, revokeInvitation: what is shown as
\* accepted, revoked or expired stays so, except that one that has lapsed may be
\* revoked, and unless the request that changes it overlapped with another.
FinalUnlessRaced ==
  [][\A i \in Invitation :
       invitations[i] # NULL /\ ShownStatus(i) # "PENDING" /\ i \notin raced' =>
         ShownStatus(i)' \in {ShownStatus(i)} \cup
           (IF ShownStatus(i) = "EXPIRED" THEN {"REVOKED"} ELSE {})]_vars

\* acceptInvitation: who is no member becomes one only when the platform says
\* so, or through an invitation that is open at that moment, unless it was
\* closed between the look and the write: no invitation is used twice.
AdmittedByOpenInvitation ==
  [][\A u \in User, d \in Dealership : ~IsMember(u, d) /\ IsMember(u, d)' =>
       \E r \in Request :
         \/ PlatformMembership(r)
         \/ LET i == req[r].args.invitation IN
            /\ UpsertMembership(r)
            /\ invitations[i].email = u /\ invitations[i].dealership = d
            /\ ShownStatus(i) = "PENDING" \/ i \in raced']_vars

\* logout, refresh: a session that was closed is opened again only by a login,
\* an acceptance, or a refresh that had found it open.
LogoutSticks ==
  [][\A u \in User : users[u] # NULL /\ ~users[u].session /\ users'[u].session =>
       \E r \in Request :
         /\ IssueTokens(r) /\ Subject(req[r]) = u
         /\ req[r].op = "refresh" => req[r].user.session]_vars

\* assertAdmin, assertSettingsAccess: what belongs to a dealership is changed by
\* its admins and the platform; an admin who was demoted meanwhile may finish.
TeamRequest(r) ==
  RevokeInvitation(r) \/ InviteUser(r) \/ ChangeMembership(r)
  \/ (SetStatus(r) /\ req[r].op = "settings")

TouchedBy(q) == IF q.op = "revoke" THEN invitations[q.args.invitation].dealership
                ELSE IF q.op = "settings" THEN q.args.dealership ELSE q.tenant

AdminsOnly ==
  [][\A r \in Request : TeamRequest(r) /\ r \notin demoted =>
       IsAdmin(req[r].actor, TouchedBy(req[r])) \/ IsPlatform(req[r].actor)]_vars
=============================================================================

-------------------------- MODULE Memberships_proofs --------------------------
(***************************************************************************)
(* Proofs about who belongs to which dealership, for any number of users,  *)
(* dealerships, invitations and requests.                                  *)
(***************************************************************************)
EXTENDS Memberships, TLAPS

-----------------------------------------------------------------------------
(***************************************************************************)
(* Where a request is tells what it was asked, which way it goes, and what *)
(* it has found: rows are never deleted, and of an invitation only the     *)
(* status is ever written.                                                 *)
(***************************************************************************)
\* What each operation is asked with.
Legal(op, actor, tenant, args) ==
  /\ op \in {"accept", "revoke"} => args.invitation \in Invitation
  /\ op = "accept" => args.password \in Password /\ args.name \in Name
  /\ op \in {"login", "refresh", "logout", "profile", "invite", "setRole", "deactivate",
             "appoint", "amend", "remove"} => args.user \in User
  /\ op \in {"invite", "setRole", "appoint", "amend"} => args.role \in Role
  /\ op \in {"settings"} \cup PlatformOps => args.dealership \in Dealership
  /\ op \in {"settings", "alter", "close", "remove"} => args.active \in BOOLEAN
  /\ op \in TeamOps => actor \in User /\ tenant \in Dealership

Asked(q) == q.pc # "idle" => Legal(q.op, q.actor, q.tenant, q.args)

\* A handler has its own way.
Routed(q) ==
  /\ q.pc # "idle" => q.op \in AllOps
  /\ q.pc = "tenant" => q.op \in TeamOps
  /\ q.pc = "invitation" => q.op \in {"accept", "revoke"}
  /\ q.pc = "user" => q.op \in {"accept", "login", "refresh", "profile"}
  /\ q.pc \in {"expire", "saveUser", "upsert", "mark"} => q.op = "accept"
  /\ q.pc = "issue" => q.op \in {"accept", "login", "refresh"}
  /\ q.pc = "close" => q.op = "logout"
  /\ q.pc = "profile" => q.op = "profile"
  /\ q.pc = "invite" => q.op = "invite"
  /\ q.pc = "revoke" => q.op = "revoke"
  /\ q.pc = "member" => q.op \in {"setRole", "deactivate", "appoint", "amend", "remove"}
  /\ q.pc = "exist" => q.op \in {"appoint", "amend", "remove"}
  /\ q.pc \in {"group", "dealership"} => q.op = "found"
  /\ q.pc = "status" => q.op \in {"settings", "alter", "close"}

\* Who has looked an invitation up found it pending, and it is for the same
\* address and dealership still.
SawInvitation(q) ==
  q.op \in {"accept", "revoke"} /\ q.pc \notin {"idle", "tenant", "invitation", "end"} =>
    /\ q.inv # NULL /\ q.inv.status = "PENDING"
    /\ invitations[q.args.invitation] # NULL
    /\ invitations[q.args.invitation].email = q.inv.email
    /\ invitations[q.args.invitation].dealership = q.inv.dealership
    /\ q.op = "revoke" => q.inv.dealership = q.tenant

\* The account that was found or saved is there, and so is the membership.
Saw(q) ==
  /\ q.pc = "expire" => q.args.invitation \in overdue
  /\ q.pc = "saveUser" /\ q.user # NULL => users[Subject(q)] # NULL
  /\ q.pc \in {"upsert", "mark", "issue", "close", "profile"} => users[Subject(q)] # NULL
  /\ q.pc = "profile" => q.user # NULL
  /\ q.pc = "mark" => members[<<q.inv.email, q.inv.dealership>>] # NULL
  /\ q.pc = "issue" /\ q.op = "refresh" => q.user.session

Located(q) == Asked(q) /\ Routed(q) /\ SawInvitation(q) /\ Saw(q)

TypeInv == TypeOK /\ \A r \in Request : Located(req[r])

\* What every step does to the tables.
Grows ==
  /\ \A u \in User : users[u] # NULL => users'[u] # NULL
  /\ \A m \in User \X Dealership : members[m] # NULL => members'[m] # NULL
  /\ \A i \in Invitation : invitations[i] # NULL =>
       /\ invitations'[i] # NULL
       /\ invitations'[i].email = invitations[i].email
       /\ invitations'[i].dealership = invitations[i].dealership
  /\ overdue \subseteq overdue'

-----------------------------------------------------------------------------
LEMMA SubjectType ==
  ASSUME TypeInv, NEW r \in Request,
         req[r].pc \in {"user", "saveUser", "upsert", "mark", "issue", "close", "profile"}
  PROVE  Subject(req[r]) \in User
<1>1. req[r] \in RequestState /\ Located(req[r])
  BY DEF TypeInv, TypeOK
<1>2. CASE req[r].op = "accept"
  <2>1. req[r].inv \in InvitationRow
    BY <1>1, <1>2 DEF Located, SawInvitation, RequestState
  <2>. QED  BY <1>2, <2>1 DEF Subject, InvitationRow
<1>3. CASE req[r].op # "accept"
  BY <1>1, <1>3 DEF Located, Routed, Asked, Legal, Subject
<1>. QED  BY <1>2, <1>3

\* Whoever stays where it is stays located.
LEMMA StaysLocated ==
  ASSUME TypeInv, NEW s \in Request, req'[s] = req[s], Grows
  PROVE  Located(req[s])'
<1>1. req[s] \in RequestState /\ Located(req[s])
  BY DEF TypeInv, TypeOK
<1>2. Asked(req[s])' /\ Routed(req[s])'
  BY <1>1 DEF Located, Asked, Routed
<1>3. SawInvitation(req[s])'
  BY <1>1 DEF Located, Asked, Legal, SawInvitation, Grows
<1>4. Saw(req[s])'
  <2>1. Subject(req[s])' = Subject(req[s])
    BY DEF Subject
  <2>2. req[s].pc = "mark" => <<req[s].inv.email, req[s].inv.dealership>> \in User \X Dealership
    BY <1>1 DEF Located, Routed, SawInvitation, RequestState, InvitationRow
  <2>3. overdue \subseteq overdue'
    BY DEF Grows
  <2>. QED  BY <1>1, <2>1, <2>2, <2>3, SubjectType DEF Located, Saw, Grows
<1>. QED  BY <1>2, <1>3, <1>4 DEF Located

\* A request that moves leaves the others where they are.
LEMMA MoveInv ==
  ASSUME TypeInv, NEW r \in Request, \A s \in Request : s # r => req'[s] = req[s],
         Grows, TypeOK', Located(req[r])'
  PROVE  TypeInv' /\ Grows
BY StaysLocated DEF TypeInv

LEMMA StayInv ==
  ASSUME TypeInv, UNCHANGED req, Grows, TypeOK'
  PROVE  TypeInv' /\ Grows
BY StaysLocated DEF TypeInv

LEMMA SameTables ==
  ASSUME UNCHANGED <<tables, overdue>>
  PROVE  Grows /\ UNCHANGED <<users, members, invitations, dealerships, sources, overdue>>
BY DEF Grows, tables

LEMMA ThrowInv ==
  ASSUME TypeInv, NEW r \in Request, Throw(r)
  PROVE  TypeInv' /\ Grows
<1>1. TypeOK'
  BY DEF Throw, TypeInv, TypeOK, tables
<1>2. UNCHANGED req /\ Grows
  BY SameTables DEF Throw
<1>. QED  BY <1>1, <1>2, StayInv

\* What the steps have in common that only take a request elsewhere.
LEMMA GotoEffect ==
  ASSUME TypeInv, NEW r \in Request, NEW pc \in PC, Goto(r, pc)
  PROVE  /\ req' \in [Request -> RequestState]
         /\ req'[r].pc = pc /\ req'[r].op = req[r].op /\ req'[r].actor = req[r].actor
         /\ req'[r].tenant = req[r].tenant /\ req'[r].role = req[r].role
         /\ req'[r].args = req[r].args /\ req'[r].inv = req[r].inv
         /\ req'[r].user = req[r].user
         /\ \A s \in Request : s # r => req'[s] = req[s]
BY DEF Goto, TypeInv, TypeOK, RequestState

LEMMA InitTypeInv == Init => TypeInv
<1>. SUFFICES ASSUME Init PROVE TypeInv
  OBVIOUS
<1>1. NoArgs \in Args
  BY DEF NoArgs, Args
<1>2. Idle \in RequestState
  BY <1>1 DEF Idle, RequestState, PC
<1>3. dealerships \in [Dealership -> DealershipStatus \cup {NULL}]
  BY DEF Init, DealershipStatus
<1>4. TypeOK
  BY <1>2, <1>3, MembershipsAssumption DEF Init, TypeOK
<1>. QED  BY <1>4, MembershipsAssumption
     DEF Init, TypeInv, Located, Asked, Routed, SawInvitation, Saw, Idle

-----------------------------------------------------------------------------
\* A request arrives.
LEMMA BeginInv ==
  ASSUME TypeInv, NEW r \in Request, NEW op, NEW actor \in User \cup {NULL},
         NEW tenant \in Dealership \cup {NULL}, NEW pc \in PC, NEW args \in Args,
         Begin(r, op, actor, tenant, pc, args), pc # "idle", op \in AllOps,
         Legal(op, actor, tenant, args),
         \/ pc = "tenant" /\ op \in TeamOps
         \/ pc = "invitation" /\ op = "accept"
         \/ pc = "user" /\ op \in {"login", "refresh", "profile"}
         \/ pc = "close" /\ op = "logout" /\ users[args.user] # NULL
         \/ pc = "exist" /\ op \in {"appoint", "amend", "remove"}
         \/ pc = "group" /\ op = "found"
         \/ pc = "status" /\ op \in {"alter", "close"}
  PROVE  TypeInv' /\ Grows
<1>. DEFINE new == [Idle EXCEPT !.pc = pc, !.op = op, !.actor = actor, !.tenant = tenant,
                                !.args = args]
<1>1. /\ new.pc = pc /\ new.op = op /\ new.actor = actor /\ new.tenant = tenant
      /\ new.args = args /\ new \in RequestState
  BY DEF Idle, RequestState
<1>2. req' = [req EXCEPT ![r] = new] /\ UNCHANGED <<tables, overdue, failed, raced, demoted>>
  BY DEF Begin
<1>. HIDE DEF new
<1>3. req'[r] = new /\ \A s \in Request : s # r => req'[s] = req[s]
  BY <1>2 DEF TypeInv, TypeOK
<1>4. Grows /\ UNCHANGED <<users, members, invitations, dealerships, sources, overdue>>
  BY <1>2, SameTables
<1>5. TypeOK'
  BY <1>1, <1>2, <1>4 DEF TypeInv, TypeOK
<1>6. Asked(req[r])'
  BY <1>1, <1>3 DEF Asked
<1>7. Routed(req[r])'
  BY <1>1, <1>3 DEF Routed, TeamOps
<1>8. SawInvitation(req[r])'
  BY <1>1, <1>3 DEF SawInvitation
<1>9. Saw(req[r])'
  BY <1>1, <1>3, <1>4 DEF Saw, Subject
<1>. QED  BY <1>3, <1>4, <1>5, <1>6, <1>7, <1>8, <1>9, MoveInv DEF Located

LEMMA StartPublicInv ==
  ASSUME TypeInv, NEW r \in Request, StartPublic(r)
  PROVE  TypeInv' /\ Grows
<1>1. ASSUME NEW i \in Invitation, NEW p \in PasswordArg, NEW n \in NameArg \cap Name,
             Begin(r, "accept", NULL, NULL, "invitation",
                   [NoArgs EXCEPT !.invitation = i, !.password = p, !.name = n])
      PROVE  TypeInv' /\ Grows
  <2>. DEFINE args == [NoArgs EXCEPT !.invitation = i, !.password = p, !.name = n]
  <2>1. /\ args \in Args /\ args.invitation \in Invitation /\ args.password \in Password
        /\ args.name \in Name
    BY MembershipsAssumption DEF NoArgs, Args
  <2>. HIDE DEF args
  <2>2. Begin(r, "accept", NULL, NULL, "invitation", args)
    BY <1>1 DEF args
  <2>. QED  BY <2>1, <2>2, BeginInv DEF PC, AllOps, Legal, PlatformOps, TeamOps
<1>2. ASSUME NEW u \in Target, NEW p \in PasswordArg,
             Begin(r, "login", NULL, NULL, "user", [NoArgs EXCEPT !.user = u, !.password = p])
      PROVE  TypeInv' /\ Grows
  <2>. DEFINE args == [NoArgs EXCEPT !.user = u, !.password = p]
  <2>1. args \in Args /\ args.user \in User
    BY MembershipsAssumption DEF NoArgs, Args
  <2>. HIDE DEF args
  <2>2. Begin(r, "login", NULL, NULL, "user", args)
    BY <1>2 DEF args
  <2>. QED  BY <2>1, <2>2, BeginInv DEF PC, AllOps, Legal, PlatformOps, TeamOps
<1>3. ASSUME NEW u \in Target,
             Begin(r, "refresh", NULL, NULL, "user", [NoArgs EXCEPT !.user = u])
      PROVE  TypeInv' /\ Grows
  <2>. DEFINE args == [NoArgs EXCEPT !.user = u]
  <2>1. args \in Args /\ args.user \in User
    BY MembershipsAssumption DEF NoArgs, Args
  <2>. HIDE DEF args
  <2>2. Begin(r, "refresh", NULL, NULL, "user", args)
    BY <1>3 DEF args
  <2>. QED  BY <2>1, <2>2, BeginInv DEF PC, AllOps, Legal, PlatformOps, TeamOps
<1>. QED  BY <1>1, <1>2, <1>3 DEF StartPublic

LEMMA StartOwnInv ==
  ASSUME TypeInv, NEW r \in Request, StartOwn(r)
  PROVE  TypeInv' /\ Grows
<1>1. ASSUME NEW u \in Target, users[u] # NULL,
             Begin(r, "logout", u, NULL, "close", [NoArgs EXCEPT !.user = u])
      PROVE  TypeInv' /\ Grows
  <2>. DEFINE args == [NoArgs EXCEPT !.user = u]
  <2>1. args \in Args /\ args.user = u /\ u \in User
    BY MembershipsAssumption DEF NoArgs, Args
  <2>. HIDE DEF args
  <2>2. Begin(r, "logout", u, NULL, "close", args)
    BY <1>1 DEF args
  <2>. QED  BY <1>1, <2>1, <2>2, BeginInv DEF PC, AllOps, Legal, PlatformOps, TeamOps
<1>2. ASSUME NEW u \in Target, NEW n \in NameArg, NEW p \in PhoneArg,
             Begin(r, "profile", u, NULL, "user",
                   [NoArgs EXCEPT !.user = u, !.name = n, !.phone = p])
      PROVE  TypeInv' /\ Grows
  <2>. DEFINE args == [NoArgs EXCEPT !.user = u, !.name = n, !.phone = p]
  <2>1. args \in Args /\ args.user \in User /\ u \in User
    BY MembershipsAssumption DEF NoArgs, Args
  <2>. HIDE DEF args
  <2>2. Begin(r, "profile", u, NULL, "user", args)
    BY <1>2 DEF args
  <2>. QED  BY <2>1, <2>2, BeginInv DEF PC, AllOps, Legal, PlatformOps, TeamOps
<1>. QED  BY <1>1, <1>2 DEF StartOwn

LEMMA StartTeamInv ==
  ASSUME TypeInv, NEW r \in Request, StartTeam(r)
  PROVE  TypeInv' /\ Grows
<1>1. PICK a \in User, d \in Dealership :
        \/ \E u \in Target, role \in RoleArg, op \in {"invite", "setRole"} :
             Begin(r, op, a, d, "tenant", [NoArgs EXCEPT !.user = u, !.role = role])
        \/ \E i \in Invitation :
             Begin(r, "revoke", a, d, "tenant", [NoArgs EXCEPT !.invitation = i])
        \/ \E u \in Target : Begin(r, "deactivate", a, d, "tenant", [NoArgs EXCEPT !.user = u])
        \/ \E e \in Dealership, s \in BOOLEAN :
             Begin(r, "settings", a, d, "tenant",
                   [NoArgs EXCEPT !.dealership = e, !.active = s])
  BY DEF StartTeam
<1>2. ASSUME NEW args \in Args, NEW op \in TeamOps, Begin(r, op, a, d, "tenant", args),
             Legal(op, a, d, args)
      PROVE  TypeInv' /\ Grows
  BY <1>2, BeginInv DEF PC, AllOps
<1>3. ASSUME NEW u \in Target, NEW role \in RoleArg, NEW op \in {"invite", "setRole"},
             Begin(r, op, a, d, "tenant", [NoArgs EXCEPT !.user = u, !.role = role])
      PROVE  TypeInv' /\ Grows
  <2>. DEFINE args == [NoArgs EXCEPT !.user = u, !.role = role]
  <2>1. args \in Args /\ args.user \in User /\ args.role \in Role
    BY MembershipsAssumption DEF NoArgs, Args
  <2>. HIDE DEF args
  <2>2. Begin(r, op, a, d, "tenant", args)
    BY <1>3 DEF args
  <2>. QED  BY <1>2, <2>1, <2>2 DEF Legal, PlatformOps, TeamOps
<1>4. ASSUME NEW i \in Invitation,
             Begin(r, "revoke", a, d, "tenant", [NoArgs EXCEPT !.invitation = i])
      PROVE  TypeInv' /\ Grows
  <2>. DEFINE args == [NoArgs EXCEPT !.invitation = i]
  <2>1. args \in Args /\ args.invitation \in Invitation
    BY DEF NoArgs, Args
  <2>. HIDE DEF args
  <2>2. Begin(r, "revoke", a, d, "tenant", args)
    BY <1>4 DEF args
  <2>. QED  BY <1>2, <2>1, <2>2 DEF Legal, PlatformOps, TeamOps
<1>5. ASSUME NEW u \in Target,
             Begin(r, "deactivate", a, d, "tenant", [NoArgs EXCEPT !.user = u])
      PROVE  TypeInv' /\ Grows
  <2>. DEFINE args == [NoArgs EXCEPT !.user = u]
  <2>1. args \in Args /\ args.user \in User
    BY MembershipsAssumption DEF NoArgs, Args
  <2>. HIDE DEF args
  <2>2. Begin(r, "deactivate", a, d, "tenant", args)
    BY <1>5 DEF args
  <2>. QED  BY <1>2, <2>1, <2>2 DEF Legal, PlatformOps, TeamOps
<1>6. ASSUME NEW e \in Dealership, NEW s \in BOOLEAN,
             Begin(r, "settings", a, d, "tenant",
                   [NoArgs EXCEPT !.dealership = e, !.active = s])
      PROVE  TypeInv' /\ Grows
  <2>. DEFINE args == [NoArgs EXCEPT !.dealership = e, !.active = s]
  <2>1. args \in Args /\ args.dealership \in Dealership /\ args.active \in BOOLEAN
    BY DEF NoArgs, Args
  <2>. HIDE DEF args
  <2>2. Begin(r, "settings", a, d, "tenant", args)
    BY <1>6 DEF args
  <2>. QED  BY <1>2, <2>1, <2>2 DEF Legal, PlatformOps, TeamOps
<1>. QED  BY <1>1, <1>3, <1>4, <1>5, <1>6

LEMMA StartPlatformInv ==
  ASSUME TypeInv, NEW r \in Request, StartPlatform(r)
  PROVE  TypeInv' /\ Grows
<1>1. PICK a \in PlatformAdmins \cup PlatformOperators, d \in Dealership :
        \/ \E u \in Target, role \in RoleArg, active \in ActiveArg, op \in {"appoint", "amend"} :
             Begin(r, op, a, NULL, "exist", [NoArgs EXCEPT
               !.user = u, !.dealership = d, !.role = role, !.active = active])
        \/ \E u \in Target : Begin(r, "remove", a, NULL, "exist", [NoArgs EXCEPT
               !.user = u, !.dealership = d, !.active = FALSE])
        \/ \E s \in ActiveArg : Begin(r, "found", a, NULL, "group",
               [NoArgs EXCEPT !.dealership = d, !.active = s])
        \/ \E s \in BOOLEAN, op \in {"alter", "close"} :
             Begin(r, op, a, NULL, "status", [NoArgs EXCEPT !.dealership = d, !.active = s])
  BY DEF StartPlatform
<1>2. a \in User
  BY MembershipsAssumption
<1>3. ASSUME NEW u \in Target, NEW role \in RoleArg, NEW active \in ActiveArg,
             NEW op \in {"appoint", "amend"},
             Begin(r, op, a, NULL, "exist", [NoArgs EXCEPT
               !.user = u, !.dealership = d, !.role = role, !.active = active])
      PROVE  TypeInv' /\ Grows
  <2>. DEFINE args == [NoArgs EXCEPT
                        !.user = u, !.dealership = d, !.role = role, !.active = active]
  <2>1. args \in Args /\ args.user \in User /\ args.role \in Role /\ args.dealership \in Dealership
    BY MembershipsAssumption DEF NoArgs, Args
  <2>. HIDE DEF args
  <2>2. Begin(r, op, a, NULL, "exist", args)
    BY <1>3 DEF args
  <2>. QED  BY <1>2, <2>1, <2>2, BeginInv DEF PC, AllOps, Legal, PlatformOps, TeamOps
<1>4. ASSUME NEW u \in Target,
             Begin(r, "remove", a, NULL, "exist", [NoArgs EXCEPT
               !.user = u, !.dealership = d, !.active = FALSE])
      PROVE  TypeInv' /\ Grows
  <2>. DEFINE args == [NoArgs EXCEPT !.user = u, !.dealership = d, !.active = FALSE]
  <2>1. args \in Args /\ args.user \in User /\ args.dealership \in Dealership
          /\ args.active \in BOOLEAN
    BY MembershipsAssumption DEF NoArgs, Args
  <2>. HIDE DEF args
  <2>2. Begin(r, "remove", a, NULL, "exist", args)
    BY <1>4 DEF args
  <2>. QED  BY <1>2, <2>1, <2>2, BeginInv DEF PC, AllOps, Legal, PlatformOps, TeamOps
<1>5. ASSUME NEW s \in ActiveArg,
             Begin(r, "found", a, NULL, "group", [NoArgs EXCEPT !.dealership = d, !.active = s])
      PROVE  TypeInv' /\ Grows
  <2>. DEFINE args == [NoArgs EXCEPT !.dealership = d, !.active = s]
  <2>1. args \in Args /\ args.dealership \in Dealership
    BY MembershipsAssumption DEF NoArgs, Args
  <2>. HIDE DEF args
  <2>2. Begin(r, "found", a, NULL, "group", args)
    BY <1>5 DEF args
  <2>. QED  BY <1>2, <2>1, <2>2, BeginInv DEF PC, AllOps, Legal, PlatformOps, TeamOps
<1>6. ASSUME NEW s \in BOOLEAN, NEW op \in {"alter", "close"},
             Begin(r, op, a, NULL, "status", [NoArgs EXCEPT !.dealership = d, !.active = s])
      PROVE  TypeInv' /\ Grows
  <2>. DEFINE args == [NoArgs EXCEPT !.dealership = d, !.active = s]
  <2>1. args \in Args /\ args.dealership \in Dealership /\ args.active \in BOOLEAN
    BY DEF NoArgs, Args
  <2>. HIDE DEF args
  <2>2. Begin(r, op, a, NULL, "status", args)
    BY <1>6 DEF args
  <2>. QED  BY <1>2, <2>1, <2>2, BeginInv DEF PC, AllOps, Legal, PlatformOps, TeamOps
<1>. QED  BY <1>1, <1>3, <1>4, <1>5, <1>6

LEMMA StartInv ==
  ASSUME TypeInv, NEW r \in Request, Start(r)
  PROVE  TypeInv' /\ Grows
BY StartPublicInv, StartOwnInv, StartTeamInv, StartPlatformInv DEF Start

-----------------------------------------------------------------------------
\* The guard, and the look-ups.
LEMMA TenantGuardInv ==
  ASSUME TypeInv, NEW r \in Request, TenantGuard(r)
  PROVE  TypeInv' /\ Grows
<1>. DEFINE q == req[r]
            role == IF IsMember(q.actor, q.tenant) THEN members[<<q.actor, q.tenant>>].role
                    ELSE IF IsPlatform(q.actor) THEN "ADMIN" ELSE NULL
            pc == AfterGuard[q.op]
            new == [q EXCEPT !.role = role, !.pc = pc]
<1>1. q \in RequestState /\ Located(q) /\ q.pc = "tenant"
  BY DEF TypeInv, TypeOK, TenantGuard, At
<1>2. q.op \in TeamOps /\ q.actor \in User /\ q.tenant \in Dealership
  BY <1>1 DEF Located, Routed, Asked, Legal
<1>3. role \in Role \cup {NULL}
  BY <1>2 DEF IsMember, TypeInv, TypeOK, MemberRow, Role
<1>4. pc \in PC /\ pc = AfterGuard[q.op]
  BY <1>2 DEF AfterGuard, TeamOps, PC
<1>5. Throw(r) \/ (req' = [req EXCEPT ![r] = new]
                     /\ UNCHANGED <<tables, overdue, failed, raced, demoted>>)
  BY DEF TenantGuard
<1>. HIDE DEF role, pc
<1>6. /\ new \in RequestState /\ new.pc = pc /\ new.op = q.op /\ new.actor = q.actor
      /\ new.tenant = q.tenant /\ new.args = q.args
  BY <1>1, <1>3, <1>4 DEF RequestState
<1>. HIDE DEF new
<1>7. CASE req' = [req EXCEPT ![r] = new] /\ UNCHANGED <<tables, overdue, failed, raced, demoted>>
  <2>1. req'[r] = new /\ \A s \in Request : s # r => req'[s] = req[s]
    BY <1>7 DEF TypeInv, TypeOK
  <2>2. Grows /\ UNCHANGED <<users, members, invitations, dealerships, sources, overdue>>
    BY <1>7, SameTables
  <2>3. TypeOK'
    BY <1>6, <1>7, <2>2 DEF TypeInv, TypeOK
  <2>4. Located(req[r])'
    BY <1>1, <1>2, <1>4, <1>6, <2>1
       DEF Located, Asked, Routed, SawInvitation, Saw, AfterGuard, TeamOps, AllOps
  <2>. QED  BY <2>1, <2>2, <2>3, <2>4, MoveInv
<1>. QED  BY <1>5, <1>7, ThrowInv

LEMMA FindInvitationInv ==
  ASSUME TypeInv, NEW r \in Request, FindInvitation(r)
  PROVE  TypeInv' /\ Grows
<1>. DEFINE q == req[r]
            i == q.args.invitation
            row == invitations[i]
            pc == IF q.op = "revoke" THEN "revoke" ELSE IF i \in overdue THEN "expire" ELSE "user"
            new == [q EXCEPT !.inv = row, !.pc = pc]
<1>1. q \in RequestState /\ Located(q) /\ q.pc = "invitation"
  BY DEF TypeInv, TypeOK, FindInvitation, At
<1>2. q.op \in {"accept", "revoke"} /\ i \in Invitation
  BY <1>1 DEF Located, Routed, Asked, Legal
<1>3. CASE Throw(r)
  BY <1>3, ThrowInv
<1>4. CASE SeeInvitation(r) /\ Found(q, row) /\ row.status = "PENDING"
  <2>1. row \in InvitationRow /\ row # NULL /\ (q.op = "revoke" => row.dealership = q.tenant)
    BY <1>2, <1>4 DEF Found, TypeInv, TypeOK
  <2>2. req' = [req EXCEPT ![r] = new] /\ UNCHANGED <<tables, overdue, failed, raced, demoted>>
    BY <1>4 DEF SeeInvitation
  <2>3. pc \in PC /\ pc \in {"revoke", "expire", "user"} /\ (pc = "revoke" <=> q.op = "revoke")
          /\ (pc = "expire" => i \in overdue)
    BY <1>2 DEF PC
  <2>. HIDE DEF pc
  <2>4. /\ new \in RequestState /\ new.pc = pc /\ new.op = q.op /\ new.actor = q.actor
        /\ new.tenant = q.tenant /\ new.args = q.args /\ new.inv = row
    BY <1>1, <2>1, <2>3 DEF RequestState
  <2>. HIDE DEF new
  <2>5. req'[r] = new /\ \A s \in Request : s # r => req'[s] = req[s]
    BY <2>2 DEF TypeInv, TypeOK
  <2>6. Grows /\ UNCHANGED <<users, members, invitations, dealerships, sources, overdue>>
    BY <2>2, SameTables
  <2>7. TypeOK'
    BY <2>2, <2>4, <2>6 DEF TypeInv, TypeOK
  <2>8. Asked(req[r])' /\ Routed(req[r])' /\ Saw(req[r])'
    BY <1>1, <1>2, <2>3, <2>4, <2>5, <2>6 DEF Located, Asked, Routed, Saw
  <2>9. SawInvitation(req[r])'
    BY <1>4, <2>1, <2>4, <2>5, <2>6 DEF SawInvitation
  <2>. QED  BY <2>5, <2>6, <2>7, <2>8, <2>9, MoveInv DEF Located
<1>. QED  BY <1>3, <1>4 DEF FindInvitation

LEMMA FindUserInv ==
  ASSUME TypeInv, NEW r \in Request, FindUser(r)
  PROVE  TypeInv' /\ Grows
<1>. DEFINE q == req[r]
            row == users[Subject(q)]
            pc == AfterUser[q.op]
            new == [q EXCEPT !.user = row, !.pc = pc]
<1>1. q \in RequestState /\ Located(q) /\ q.pc = "user" /\ Subject(q) \in User
  BY SubjectType DEF TypeInv, TypeOK, FindUser, At
<1>2. q.op \in {"accept", "login", "refresh", "profile"}
  BY <1>1 DEF Located, Routed
<1>3. CASE Throw(r)
  BY <1>3, ThrowInv
<1>4. CASE ~Refused(q.op, q.args, row) /\ req' = [req EXCEPT ![r] = new]
             /\ UNCHANGED <<tables, overdue, failed, raced, demoted>>
  <2>1. row \in UserRow \cup {NULL}
    BY <1>1 DEF TypeInv, TypeOK
  <2>2. /\ pc \in PC
        /\ q.op = "accept" => pc = "saveUser"
        /\ q.op \in {"login", "refresh"} => pc = "issue" /\ row # NULL
        /\ q.op = "refresh" => row.session
        /\ q.op = "profile" => pc = "profile" /\ row # NULL
    BY <1>2, <1>4 DEF AfterUser, PC, Refused
  <2>3. /\ new.pc = pc /\ new.op = q.op /\ new.actor = q.actor /\ new.user = row
        /\ new.tenant = q.tenant /\ new.args = q.args /\ new.inv = q.inv
        /\ new \in RequestState
    BY <1>1, <2>1, <2>2 DEF RequestState
  <2>. HIDE DEF pc, new
  <2>4. req'[r] = new /\ \A s \in Request : s # r => req'[s] = req[s]
    BY <1>4 DEF TypeInv, TypeOK
  <2>5. Grows /\ UNCHANGED <<users, members, invitations, dealerships, sources, overdue>>
    BY <1>4, SameTables
  <2>6. TypeOK'
    BY <1>4, <2>3, <2>5 DEF TypeInv, TypeOK
  <2>7. Asked(req[r])' /\ Routed(req[r])' /\ SawInvitation(req[r])'
    BY <1>1, <1>2, <2>2, <2>3, <2>4, <2>5 DEF Located, Asked, Routed, SawInvitation
  <2>8. Saw(req[r])'
    <3>1. Subject(req[r])' = Subject(q)
      BY <2>3, <2>4 DEF Subject
    <3>. QED  BY <1>2, <2>2, <2>3, <2>4, <2>5, <3>1 DEF Saw
  <2>. QED  BY <2>4, <2>5, <2>6, <2>7, <2>8, MoveInv DEF Located
<1>. QED  BY <1>3, <1>4 DEF FindUser

-----------------------------------------------------------------------------
\* Closing an invitation writes its status alone.
LEMMA CloseEffect ==
  ASSUME TypeInv, NEW r \in Request, NEW status \in InvitationStatus,
         req[r].pc \in {"expire", "revoke", "mark"}, CloseInvitation(r, status)
  PROVE  /\ req[r].args.invitation \in Invitation
         /\ invitations[req[r].args.invitation] \in InvitationRow
         /\ invitations' \in [Invitation -> InvitationRow \cup {NULL}]
         /\ invitations'[req[r].args.invitation]
              = [invitations[req[r].args.invitation] EXCEPT !.status = status]
         /\ \A i \in Invitation : i # req[r].args.invitation => invitations'[i] = invitations[i]
         /\ raced' \subseteq Invitation /\ Grows
         /\ UNCHANGED <<users, members, dealerships, sources, overdue, demoted>>
<1>. DEFINE i == req[r].args.invitation
            row == [invitations[i] EXCEPT !.status = status]
<1>1. i \in Invitation /\ invitations[i] # NULL
  BY DEF TypeInv, Located, Asked, Legal, Routed, SawInvitation
<1>2. invitations[i] \in InvitationRow
  BY <1>1 DEF TypeInv, TypeOK
<1>3. row \in InvitationRow /\ row # NULL /\ row.email = invitations[i].email
        /\ row.dealership = invitations[i].dealership
  BY <1>2, MembershipsAssumption DEF InvitationRow
<1>4. invitations' = [invitations EXCEPT ![i] = row]
  BY DEF CloseInvitation
<1>. HIDE DEF row
<1>5. invitations' \in [Invitation -> InvitationRow \cup {NULL}] /\ invitations'[i] = row
        /\ \A j \in Invitation : j # i => invitations'[j] = invitations[j]
  BY <1>1, <1>3, <1>4 DEF TypeInv, TypeOK
<1>6. UNCHANGED <<users, members, dealerships, sources, overdue, demoted>>
        /\ raced' \subseteq Invitation
  BY <1>1 DEF CloseInvitation, TypeInv, TypeOK
<1>7. Grows
  BY <1>3, <1>5, <1>6 DEF Grows
<1>. QED  BY <1>1, <1>2, <1>5, <1>6, <1>7 DEF row

LEMMA ClosesInv ==
  ASSUME TypeInv, NEW r \in Request,
         ExpireInvitation(r) \/ RevokeInvitation(r) \/ MarkAccepted(r)
  PROVE  TypeInv' /\ Grows
<1>1. CASE ExpireInvitation(r)
  <2>1. CloseInvitation(r, "EXPIRED") /\ req[r].pc = "expire" /\ UNCHANGED req
          /\ failed' = failed \cup {r}
    BY <1>1 DEF ExpireInvitation, At
  <2>2. Grows /\ TypeOK'
    BY <2>1, CloseEffect DEF TypeInv, TypeOK, InvitationStatus
  <2>. QED  BY <2>1, <2>2, StayInv
<1>2. CASE RevokeInvitation(r)
  <2>1. CloseInvitation(r, "REVOKED") /\ req[r].pc = "revoke" /\ Goto(r, "end")
          /\ UNCHANGED failed
    BY <1>2 DEF RevokeInvitation, At
  <2>2. Grows /\ TypeOK'
    BY <2>1, CloseEffect, GotoEffect DEF TypeInv, TypeOK, InvitationStatus, PC
  <2>3. Located(req[r])'
    BY <2>1, GotoEffect DEF TypeInv, Located, Asked, Routed, SawInvitation, Saw, PC
  <2>. QED  BY <2>1, <2>2, <2>3, GotoEffect, MoveInv DEF PC
<1>3. CASE MarkAccepted(r)
  <2>1. CloseInvitation(r, "ACCEPTED") /\ req[r].pc = "mark" /\ Goto(r, "issue")
          /\ UNCHANGED failed
    BY <1>3 DEF MarkAccepted, At
  <2>2. Grows /\ TypeOK' /\ UNCHANGED <<users, members, overdue>>
    BY <2>1, CloseEffect, GotoEffect DEF TypeInv, TypeOK, InvitationStatus, PC
  <2>3. /\ req'[r].pc = "issue" /\ req'[r].op = req[r].op /\ req'[r].actor = req[r].actor
        /\ req'[r].tenant = req[r].tenant /\ req'[r].args = req[r].args
        /\ req'[r].inv = req[r].inv
        /\ \A s \in Request : s # r => req'[s] = req[s]
    BY <2>1, GotoEffect DEF PC
  <2>4. req[r].op = "accept" /\ req[r].args.invitation \in Invitation
    BY <2>1 DEF TypeInv, Located, Routed, Asked, Legal
  <2>5. Asked(req[r])' /\ Routed(req[r])'
    BY <2>1, <2>3 DEF TypeInv, Located, Asked, Routed
  <2>6. SawInvitation(req[r])'
    BY <2>1, <2>2, <2>3, <2>4 DEF TypeInv, Located, SawInvitation, Grows
  <2>7. Saw(req[r])'
    BY <2>1, <2>2, <2>3, <2>4 DEF TypeInv, Located, Saw, Subject
  <2>. QED  BY <2>2, <2>3, <2>5, <2>6, <2>7, MoveInv DEF Located
<1>. QED  BY <1>1, <1>2, <1>3

LEMMA InviteUserInv ==
  ASSUME TypeInv, NEW r \in Request, InviteUser(r)
  PROVE  TypeInv' /\ Grows
<1>. DEFINE q == req[r]
            row == [email |-> q.args.user, dealership |-> q.tenant, role |-> q.args.role,
                    status |-> "PENDING"]
<1>1. PICK i \in Invitation : invitations[i] = NULL
                              /\ invitations' = [invitations EXCEPT ![i] = row]
  BY DEF InviteUser
<1>2. q.pc = "invite" /\ Goto(r, "end")
        /\ UNCHANGED <<users, members, dealerships, sources, overdue, failed, raced, demoted>>
  BY DEF InviteUser, At
<1>3. row \in InvitationRow
  BY <1>2 DEF TypeInv, Located, Routed, Asked, Legal, TeamOps, InvitationRow, InvitationStatus
<1>. HIDE DEF row
<1>4. Grows
  BY <1>1, <1>2 DEF Grows, TypeInv, TypeOK
<1>5. TypeOK'
  BY <1>1, <1>2, <1>3, GotoEffect DEF TypeInv, TypeOK, PC
<1>6. Located(req[r])'
  BY <1>2, GotoEffect DEF TypeInv, Located, Asked, Routed, SawInvitation, Saw, PC
<1>. QED  BY <1>2, <1>4, <1>5, <1>6, GotoEffect, MoveInv DEF PC

-----------------------------------------------------------------------------
\* What the writes to the table of users have in common.
LEMMA UserStep ==
  ASSUME TypeInv, NEW r \in Request, NEW row \in UserRow, NEW pc \in {"upsert", "end"},
         Subject(req[r]) \in User, users' = [users EXCEPT ![Subject(req[r])] = row],
         Goto(r, pc), req[r].pc \in {"saveUser", "issue", "close", "profile"},
         pc = "upsert" => req[r].pc = "saveUser",
         UNCHANGED <<members, invitations, dealerships, sources, overdue, failed, raced,
                     demoted>>
  PROVE  TypeInv' /\ Grows
<1>1. row # NULL
  BY MembershipsAssumption
<1>2. Grows
  BY <1>1 DEF Grows, TypeInv, TypeOK
<1>3. /\ req' \in [Request -> RequestState]
      /\ req'[r].pc = pc /\ req'[r].op = req[r].op /\ req'[r].actor = req[r].actor
      /\ req'[r].tenant = req[r].tenant /\ req'[r].args = req[r].args
      /\ req'[r].inv = req[r].inv
      /\ \A s \in Request : s # r => req'[s] = req[s]
  BY GotoEffect DEF PC
<1>4. TypeOK'
  BY <1>3 DEF TypeInv, TypeOK
<1>5. users'[Subject(req[r])] # NULL
  BY <1>1 DEF TypeInv, TypeOK
<1>6. Asked(req[r])' /\ Routed(req[r])' /\ SawInvitation(req[r])'
  BY <1>3 DEF TypeInv, Located, Asked, Routed, SawInvitation
<1>7. Saw(req[r])'
  <2>1. Subject(req[r])' = Subject(req[r])
    BY <1>3 DEF Subject
  <2>. QED  BY <1>3, <1>5, <2>1 DEF Saw
<1>. QED  BY <1>2, <1>3, <1>4, <1>6, <1>7, MoveInv DEF Located

LEMMA UsersInv ==
  ASSUME TypeInv, NEW r \in Request,
         SaveUser(r) \/ IssueTokens(r) \/ Logout(r) \/ WriteProfile(r)
  PROVE  TypeInv' /\ Grows
<1>. DEFINE q == req[r]
            u == Subject(q)
<1>1. /\ q.pc \in {"saveUser", "issue", "close", "profile"} /\ q \in RequestState
      /\ Located(q) /\ u \in User
  BY SubjectType DEF SaveUser, IssueTokens, Logout, WriteProfile, At, TypeInv, TypeOK
<1>2. users[u] \in UserRow \cup {NULL}
  BY <1>1 DEF TypeInv, TypeOK
<1>3. CASE SaveUser(r)
  <2>. DEFINE row == IF q.user = NULL
                     THEN [password |-> q.args.password, name |-> q.args.name,
                           phone |-> NULL, session |-> FALSE]
                     ELSE [users[u] EXCEPT !.password = q.args.password,
                                           !.name = q.args.name]
  <2>1. q.pc = "saveUser" /\ q.args.password \in Password /\ q.args.name \in Name
    BY <1>1, <1>3 DEF SaveUser, At, Located, Routed, Asked, Legal
  <2>2. q.user # NULL => users[u] \in UserRow
    BY <1>1, <1>2, <2>1 DEF Located, Saw
  <2>3. row \in UserRow
    BY <2>1, <2>2 DEF UserRow
  <2>4. CASE Throw(r)
    BY <2>4, ThrowInv
  <2>5. CASE ~Throw(r)
    <3>1. /\ users' = [users EXCEPT ![u] = row] /\ Goto(r, "upsert")
          /\ UNCHANGED <<members, invitations, dealerships, sources, overdue, failed, raced,
                         demoted>>
      BY <1>3, <2>5 DEF SaveUser
    <3>. HIDE DEF row
    <3>. QED  BY <1>1, <2>1, <2>3, <3>1, UserStep
  <2>. QED  BY <2>4, <2>5
<1>4. CASE ~SaveUser(r)
  <2>1. q.pc \in {"issue", "close", "profile"} /\ users[u] \in UserRow
          /\ (WriteProfile(r) => q.user \in UserRow /\ u = q.args.user)
    BY <1>1, <1>2, <1>4 DEF IssueTokens, Logout, WriteProfile, At, Located, Routed, Saw,
       Subject, RequestState
  <2>2. PICK row \in UserRow : users' = [users EXCEPT ![u] = row]
    <3>1. CASE IssueTokens(r)
      <4>1. [users[u] EXCEPT !.session = TRUE] \in UserRow
        BY <2>1 DEF UserRow
      <4>. QED  BY <3>1, <4>1 DEF IssueTokens
    <3>2. CASE Logout(r)
      <4>1. [users[u] EXCEPT !.session = FALSE] \in UserRow
        BY <2>1 DEF UserRow
      <4>. QED  BY <3>2, <4>1 DEF Logout
    <3>3. CASE WriteProfile(r)
      <4>. DEFINE p == Profile(q.args, q.user)
      <4>1. p.name \in Name /\ p.phone \in Phone \cup {NULL}
        BY <1>1, <2>1, <3>3 DEF Profile, Coalesce, Given, UserRow, RequestState, Args
      <4>2. users' = [users EXCEPT ![u] = [users[u] EXCEPT !.name = p.name, !.phone = p.phone]]
        BY <2>1, <3>3 DEF WriteProfile
      <4>. HIDE DEF p
      <4>3. [users[u] EXCEPT !.name = p.name, !.phone = p.phone] \in UserRow
        BY <2>1, <4>1 DEF UserRow
      <4>. QED  BY <4>2, <4>3
    <3>. QED  BY <1>4, <3>1, <3>2, <3>3
  <2>3. Goto(r, "end") /\ UNCHANGED <<members, invitations, dealerships, sources, overdue,
                                      failed, raced, demoted>>
    BY <1>4 DEF IssueTokens, Logout, WriteProfile
  <2>. QED  BY <1>1, <2>2, <2>3, UserStep
<1>. QED  BY <1>3, <1>4

-----------------------------------------------------------------------------
\* A row of the table of memberships is written, and no other.
LEMMA PutEffect ==
  ASSUME TypeInv, NEW u \in User, NEW d \in Dealership, NEW row \in MemberRow,
         PutMember(u, d, row)
  PROVE  /\ members' \in [User \X Dealership -> MemberRow \cup {NULL}]
         /\ members'[<<u, d>>] = row /\ row # NULL
         /\ \A m \in User \X Dealership : m # <<u, d>> => members'[m] = members[m]
         /\ demoted \subseteq demoted' /\ demoted' \subseteq Request /\ Grows
         /\ UNCHANGED <<users, invitations, dealerships, sources, overdue>>
<1>1. row # NULL /\ <<u, d>> \in User \X Dealership
  BY MembershipsAssumption
<1>2. members' = [members EXCEPT ![<<u, d>>] = row]
        /\ UNCHANGED <<users, invitations, dealerships, sources, overdue>>
  BY DEF PutMember
<1>3. /\ members' \in [User \X Dealership -> MemberRow \cup {NULL}]
      /\ members'[<<u, d>>] = row
      /\ \A m \in User \X Dealership : m # <<u, d>> => members'[m] = members[m]
  BY <1>1, <1>2 DEF TypeInv, TypeOK
<1>4. demoted \subseteq demoted' /\ demoted' \subseteq Request
  BY DEF PutMember, TypeInv, TypeOK
<1>5. Grows
  BY <1>1, <1>2, <1>3 DEF Grows
<1>. QED  BY <1>1, <1>2, <1>3, <1>4, <1>5

\* Who writes a membership, and which.
Putting(r) == UpsertMembership(r) \/ ChangeMembership(r) \/ PlatformMembership(r)

LEMMA PutSplit ==
  ASSUME TypeInv, NEW r \in Request, Putting(r)
  PROVE  \/ Throw(r)
         \/ \E u \in User, d \in Dealership, row \in MemberRow :
              /\ PutMember(u, d, row)
              /\ failed' = failed /\ raced' \subseteq Invitation
              /\ \/ UpsertMembership(r) /\ Goto(r, "mark") /\ req[r].pc = "upsert"
                      /\ u = req[r].inv.email /\ d = req[r].inv.dealership
                 \/ ChangeMembership(r) /\ Goto(r, "end") /\ req[r].pc = "member"
                      /\ members[<<u, d>>] # NULL
                      /\ (row.isActive => members[<<u, d>>].isActive)
                 \/ PlatformMembership(r) /\ Goto(r, "end") /\ req[r].pc = "member"
<1>. DEFINE q == req[r]
<1>1. q \in RequestState /\ Located(q)
  BY DEF TypeInv, TypeOK
<1>2. CASE UpsertMembership(r)
  <2>. DEFINE row == [role |-> q.inv.role, isActive |-> TRUE]
  <2>1. q.pc = "upsert" /\ q.inv \in InvitationRow /\ q.args.invitation \in Invitation
    BY <1>1, <1>2 DEF UpsertMembership, At, Located, Routed, Asked, Legal, SawInvitation,
       RequestState
  <2>2. row \in MemberRow /\ q.inv.email \in User /\ q.inv.dealership \in Dealership
    BY <2>1 DEF InvitationRow, MemberRow
  <2>3. /\ PutMember(q.inv.email, q.inv.dealership, row) /\ Goto(r, "mark")
        /\ failed' = failed /\ raced' \subseteq Invitation
    BY <1>2, <2>1 DEF UpsertMembership, TypeInv, TypeOK
  <2>. HIDE DEF row
  <2>. QED  BY <1>2, <2>1, <2>2, <2>3
<1>3. CASE ChangeMembership(r)
  <2>. DEFINE old == members[<<q.args.user, q.tenant>>]
              row == IF q.op = "setRole" THEN [old EXCEPT !.role = q.args.role]
                     ELSE [old EXCEPT !.isActive = FALSE]
  <2>1. q.pc = "member" /\ q.op \in {"setRole", "deactivate"}
    BY <1>3 DEF ChangeMembership, At
  <2>2. /\ q.args.user \in User /\ q.tenant \in Dealership
        /\ q.op = "setRole" => q.args.role \in Role
    BY <1>1, <2>1 DEF Located, Asked, Legal, TeamOps
  <2>3. CASE Throw(r)
    BY <2>3
  <2>4. CASE ~Throw(r)
    <3>1. /\ old # NULL /\ PutMember(q.args.user, q.tenant, row) /\ Goto(r, "end")
          /\ UNCHANGED <<failed, raced>>
      BY <1>3, <2>4 DEF ChangeMembership
    <3>2. <<q.args.user, q.tenant>> \in User \X Dealership
      BY <2>2
    <3>3. old \in MemberRow
      BY <3>1, <3>2 DEF TypeInv, TypeOK
    <3>4. row \in MemberRow /\ (row.isActive => old.isActive)
      BY <2>1, <2>2, <3>3 DEF MemberRow
    <3>5. raced' \subseteq Invitation
      BY <3>1 DEF TypeInv, TypeOK
    <3>. HIDE DEF row
    <3>. QED  BY <1>3, <2>1, <2>2, <3>1, <3>4, <3>5
  <2>. QED  BY <2>3, <2>4
<1>4. CASE PlatformMembership(r)
  <2>. DEFINE old == members[<<q.args.user, q.args.dealership>>]
              row == IF q.op = "appoint"
                     THEN [role |-> q.args.role, isActive |-> Given(q.args.active, TRUE)]
                     ELSE [role |-> Given(q.args.role, old.role),
                           isActive |-> Given(q.args.active, old.isActive)]
  <2>1. q.pc = "member" /\ q.op \in {"appoint", "amend", "remove"}
    BY <1>4 DEF PlatformMembership, At
  <2>2. /\ q.args \in Args /\ q.args.user \in User /\ q.args.dealership \in Dealership
        /\ q.op = "appoint" => q.args.role \in Role
    BY <1>1, <2>1 DEF Located, Asked, Legal, PlatformOps, RequestState
  <2>3. CASE Throw(r)
    BY <2>3
  <2>4. CASE ~Throw(r)
    <3>1. /\ q.op = "appoint" \/ old # NULL
          /\ PutMember(q.args.user, q.args.dealership, row) /\ Goto(r, "end")
          /\ UNCHANGED <<failed, raced>>
      BY <1>4, <2>4 DEF PlatformMembership
    <3>2. q.op # "appoint" => old \in MemberRow
      BY <2>2, <3>1 DEF TypeInv, TypeOK
    <3>3. row \in MemberRow
      BY <2>1, <2>2, <3>2 DEF MemberRow, Given, Args
    <3>4. raced' \subseteq Invitation
      BY <3>1 DEF TypeInv, TypeOK
    <3>. HIDE DEF row
    <3>. QED  BY <1>4, <2>1, <2>2, <3>1, <3>3, <3>4
  <2>. QED  BY <2>3, <2>4
<1>. QED  BY <1>2, <1>3, <1>4 DEF Putting

LEMMA PuttingInv ==
  ASSUME TypeInv, NEW r \in Request, Putting(r)
  PROVE  TypeInv' /\ Grows
<1>1. CASE Throw(r)
  BY <1>1, ThrowInv
<1>2. CASE ~Throw(r)
  <2>1. PICK u \in User, d \in Dealership, row \in MemberRow, pc \in {"mark", "end"} :
          /\ PutMember(u, d, row) /\ Goto(r, pc) /\ req[r].pc \in {"upsert", "member"}
          /\ failed' = failed /\ raced' \subseteq Invitation
          /\ pc = "mark" => /\ req[r].pc = "upsert" /\ u = req[r].inv.email
                            /\ d = req[r].inv.dealership
    BY <1>2, PutSplit
  <2>2. /\ members' \in [User \X Dealership -> MemberRow \cup {NULL}]
        /\ members'[<<u, d>>] # NULL /\ demoted' \subseteq Request /\ Grows
        /\ UNCHANGED <<users, invitations, dealerships, sources, overdue>>
    <3>1. PutMember(u, d, row)
      BY <2>1
    <3>. QED  BY <3>1, PutEffect
  <2>3. /\ req' \in [Request -> RequestState]
        /\ req'[r].pc = pc /\ req'[r].op = req[r].op /\ req'[r].actor = req[r].actor
        /\ req'[r].tenant = req[r].tenant /\ req'[r].args = req[r].args
        /\ req'[r].inv = req[r].inv
        /\ \A s \in Request : s # r => req'[s] = req[s]
    BY <2>1, GotoEffect DEF PC
  <2>4. TypeOK'
    BY <2>1, <2>2, <2>3 DEF TypeInv, TypeOK
  <2>5. Asked(req[r])' /\ Routed(req[r])' /\ SawInvitation(req[r])'
    BY <2>1, <2>2, <2>3 DEF TypeInv, Located, Asked, Routed, SawInvitation
  <2>6. Saw(req[r])'
    <3>1. Subject(req[r])' = Subject(req[r])
      BY <2>3 DEF Subject
    <3>. QED  BY <2>1, <2>2, <2>3, <3>1 DEF TypeInv, Located, Saw
  <2>. QED  BY <2>2, <2>3, <2>4, <2>5, <2>6, MoveInv DEF Located
<1>. QED  BY <1>1, <1>2

-----------------------------------------------------------------------------
\* The dealerships themselves.
DealershipStep(r) == AssertExist(r) \/ UpsertGroup(r) \/ CreateDealership(r) \/ SetStatus(r)

LEMMA DealershipEffect ==
  ASSUME TypeInv, NEW r \in Request, DealershipStep(r), ~Throw(r)
  PROVE  /\ \/ req[r].pc = "exist" /\ Goto(r, "member")
            \/ req[r].pc = "group" /\ Goto(r, "dealership")
            \/ req[r].pc \in {"dealership", "status"} /\ Goto(r, "end")
         /\ dealerships' \in [Dealership -> DealershipStatus \cup {NULL}]
         /\ sources' \subseteq Dealership
         /\ UNCHANGED <<users, members, invitations, overdue, failed, raced, demoted>>
<1>. DEFINE q == req[r]
<1>1. q \in RequestState /\ Located(q)
  BY DEF TypeInv, TypeOK
<1>2. CASE AssertExist(r) \/ UpsertGroup(r)
  BY <1>2 DEF AssertExist, UpsertGroup, At, tables, TypeInv, TypeOK
<1>3. CASE CreateDealership(r)
  <2>1. q.pc = "dealership" /\ q.args.dealership \in Dealership
    BY <1>1, <1>3 DEF CreateDealership, At, Located, Routed, Asked, Legal, PlatformOps
  <2>. QED  BY <1>3, <2>1 DEF CreateDealership, TypeInv, TypeOK, StatusOf, DealershipStatus
<1>4. CASE SetStatus(r)
  BY <1>4 DEF SetStatus, At, TypeInv, TypeOK, StatusOf, DealershipStatus
<1>. QED  BY <1>2, <1>3, <1>4 DEF DealershipStep

LEMMA DealershipInv ==
  ASSUME TypeInv, NEW r \in Request, DealershipStep(r)
  PROVE  TypeInv' /\ Grows
<1>1. CASE Throw(r)
  BY <1>1, ThrowInv
<1>2. CASE ~Throw(r)
  <2>1. PICK pc \in {"member", "dealership", "end"} :
          /\ Goto(r, pc)
          /\ req[r].pc \in {"exist", "group", "dealership", "status"}
          /\ pc = "member" => req[r].pc = "exist"
          /\ pc = "dealership" => req[r].pc = "group"
    BY <1>2, DealershipEffect
  <2>2. /\ req' \in [Request -> RequestState]
        /\ req'[r].pc = pc /\ req'[r].op = req[r].op /\ req'[r].actor = req[r].actor
        /\ req'[r].tenant = req[r].tenant /\ req'[r].args = req[r].args
        /\ \A s \in Request : s # r => req'[s] = req[s]
    BY <2>1, GotoEffect DEF PC
  <2>3. Grows /\ TypeOK'
    BY <1>2, <2>2, DealershipEffect DEF Grows, TypeInv, TypeOK
  <2>4. Located(req[r])'
    BY <2>1, <2>2 DEF TypeInv, Located, Asked, Routed, SawInvitation, Saw
  <2>. QED  BY <2>2, <2>3, <2>4, MoveInv
<1>. QED  BY <1>1, <1>2

LEMMA TimeInv == TypeInv /\ TimePasses => TypeInv' /\ Grows
<1>. SUFFICES ASSUME TypeInv, TimePasses PROVE TypeInv' /\ Grows
  OBVIOUS
<1>1. Grows /\ TypeOK' /\ UNCHANGED req
  BY DEF TimePasses, tables, Grows, TypeInv, TypeOK
<1>. QED  BY <1>1, StayInv

LEMMA NextTypeInv == TypeInv /\ [Next]_vars => TypeInv' /\ Grows
<1>. SUFFICES ASSUME TypeInv, [Next]_vars PROVE TypeInv' /\ Grows
  OBVIOUS
<1>1. CASE UNCHANGED vars
  <2>1. Grows /\ TypeOK' /\ UNCHANGED req
    BY <1>1 DEF vars, tables, Grows, TypeInv, TypeOK
  <2>. QED  BY <2>1, StayInv
<1>2. ASSUME NEW r \in Request, Step(r) PROVE TypeInv' /\ Grows
  BY <1>2, TenantGuardInv, FindInvitationInv, ClosesInv, InviteUserInv, FindUserInv, UsersInv,
     PuttingInv, DealershipInv DEF Step, Putting, DealershipStep
<1>3. ASSUME NEW r \in Request, Start(r) \/ Fault(r) PROVE TypeInv' /\ Grows
  BY <1>3, StartInv, ThrowInv DEF Fault
<1>. QED  BY <1>1, <1>2, <1>3, TimeInv DEF Next

LEMMA StaysTyped == Spec => []TypeInv
BY InitTypeInv, NextTypeInv, PTL DEF Spec

\* acceptInvitation, revokeInvitation, MembershipsService: in every execution
\* each table and each request is what its columns and fields say.
THEOREM TypeCorrect == Spec => []TypeOK
<1>1. TypeInv => TypeOK
  BY DEF TypeInv
<1>. QED  BY <1>1, StaysTyped, PTL

-----------------------------------------------------------------------------
\* Who writes what.
Closes(r) == ExpireInvitation(r) \/ RevokeInvitation(r) \/ MarkAccepted(r)
Saves(r) == SaveUser(r) \/ IssueTokens(r) \/ Logout(r) \/ WriteProfile(r)

LEMMA Writers ==
  ASSUME [Next]_vars
  PROVE  /\ UNCHANGED invitations \/ \E r \in Request : Closes(r) \/ InviteUser(r)
         /\ UNCHANGED users \/ \E r \in Request : Saves(r)
         /\ UNCHANGED members \/ \E r \in Request : Putting(r)
<1>1. CASE UNCHANGED vars \/ TimePasses
  BY <1>1 DEF vars, tables, TimePasses
<1>2. ASSUME NEW r \in Request, Start(r) PROVE UNCHANGED tables
  BY <1>2 DEF Start, StartPublic, StartOwn, StartTeam, StartPlatform, Begin
<1>3. ASSUME NEW r \in Request, Fault(r) PROVE UNCHANGED tables
  BY <1>3 DEF Fault, Throw
<1>4. ASSUME NEW r \in Request, Step(r)
      PROVE  /\ UNCHANGED invitations \/ Closes(r) \/ InviteUser(r)
             /\ UNCHANGED users \/ Saves(r)
             /\ UNCHANGED members \/ Putting(r)
  <2>1. CASE TenantGuard(r) \/ FindInvitation(r) \/ FindUser(r)
    BY <2>1 DEF TenantGuard, FindInvitation, SeeInvitation, FindUser, Throw, tables
  <2>2. CASE Closes(r)
    BY <2>2 DEF Closes, ExpireInvitation, RevokeInvitation, MarkAccepted, CloseInvitation
  <2>3. CASE InviteUser(r)
    BY <2>3 DEF InviteUser
  <2>4. CASE Saves(r)
    BY <2>4 DEF Saves, SaveUser, IssueTokens, Logout, WriteProfile, Throw, tables
  <2>5. CASE Putting(r)
    BY <2>5 DEF Putting, UpsertMembership, ChangeMembership, PlatformMembership, PutMember,
       Throw, tables
  <2>6. CASE DealershipStep(r)
    BY <2>6 DEF DealershipStep, AssertExist, UpsertGroup, CreateDealership, SetStatus, Throw,
       tables
  <2>. QED  BY <1>4, <2>1, <2>2, <2>3, <2>4, <2>5, <2>6
       DEF Step, Closes, Saves, Putting, DealershipStep
<1>. QED  BY <1>1, <1>2, <1>3, <1>4 DEF Next, tables

\* An invitation is accepted by who has found or made the account, and has made
\* it a member.
LEMMA AcceptedKept ==
  ASSUME TypeInv, AcceptedIsMember, [Next]_vars
  PROVE  AcceptedIsMember'
<1>. SUFFICES ASSUME NEW i \in Invitation, invitations'[i] # NULL,
                     invitations'[i].status = "ACCEPTED"
              PROVE  /\ users'[invitations'[i].email] # NULL
                     /\ members'[<<invitations'[i].email, invitations'[i].dealership>>] # NULL
  BY DEF AcceptedIsMember
<1>1. Grows
  BY NextTypeInv
<1>2. CASE invitations[i] # NULL /\ invitations[i].status = "ACCEPTED"
  <2>1. /\ invitations'[i].email = invitations[i].email
        /\ invitations'[i].dealership = invitations[i].dealership
        /\ invitations[i] \in InvitationRow
    BY <1>1, <1>2 DEF Grows, TypeInv, TypeOK
  <2>2. invitations[i].email \in User /\ invitations[i].dealership \in Dealership
    BY <2>1 DEF InvitationRow
  <2>3. /\ users[invitations[i].email] # NULL
        /\ members[<<invitations[i].email, invitations[i].dealership>>] # NULL
    BY <1>2 DEF AcceptedIsMember
  <2>. QED  BY <1>1, <2>1, <2>2, <2>3 DEF Grows
<1>3. CASE ~(invitations[i] # NULL /\ invitations[i].status = "ACCEPTED")
  <2>1. PICK r \in Request : Closes(r) \/ InviteUser(r)
    BY <1>3, Writers
  <2>2. CASE InviteUser(r)
    BY <1>3, <2>2 DEF InviteUser, TypeInv, TypeOK
  <2>3. CASE ExpireInvitation(r)
    <3>1. CloseInvitation(r, "EXPIRED") /\ req[r].pc = "expire"
      BY <2>3 DEF ExpireInvitation, At
    <3>. QED  BY <1>3, <3>1, CloseEffect DEF InvitationStatus, InvitationRow
  <2>4. CASE RevokeInvitation(r)
    <3>1. CloseInvitation(r, "REVOKED") /\ req[r].pc = "revoke"
      BY <2>4 DEF RevokeInvitation, At
    <3>. QED  BY <1>3, <3>1, CloseEffect DEF InvitationStatus, InvitationRow
  <2>5. CASE MarkAccepted(r)
    <3>1. CloseInvitation(r, "ACCEPTED") /\ req[r].pc = "mark"
      BY <2>5 DEF MarkAccepted, At
    <3>2. /\ i = req[r].args.invitation /\ UNCHANGED <<users, members>>
          /\ invitations[i] \in InvitationRow
      BY <1>3, <3>1, CloseEffect DEF InvitationStatus
    <3>3. /\ invitations'[i].email = invitations[i].email
          /\ invitations'[i].dealership = invitations[i].dealership
      BY <1>1, <3>2, MembershipsAssumption DEF Grows
    <3>4. /\ req[r].op = "accept"
          /\ users[req[r].inv.email] # NULL
          /\ members[<<req[r].inv.email, req[r].inv.dealership>>] # NULL
          /\ invitations[i].email = req[r].inv.email
          /\ invitations[i].dealership = req[r].inv.dealership
      BY <3>1, <3>2 DEF TypeInv, Located, Routed, Saw, SawInvitation, Subject
    <3>. QED  BY <3>2, <3>3, <3>4
  <2>. QED  BY <2>1, <2>2, <2>3, <2>4, <2>5 DEF Closes
<1>. QED  BY <1>2, <1>3

\* acceptInvitation: wherever the handler was cut short, an invitation that says
\* ACCEPTED has made its addressee a member with an account.
THEOREM AcceptedAreMembers == Spec => []AcceptedIsMember
<1>1. Init => AcceptedIsMember
  <2>. SUFFICES ASSUME Init, NEW i \in Invitation, invitations[i] # NULL,
                       invitations[i].status = "ACCEPTED"
                PROVE  /\ users[invitations[i].email] # NULL
                       /\ members[<<invitations[i].email, invitations[i].dealership>>] # NULL
    BY DEF AcceptedIsMember
  <2>1. invitations[i].email \in User /\ invitations[i].dealership \in Dealership
    <3>1. invitations[i] \in InvitationRow
      BY InitTypeInv DEF TypeInv, TypeOK
    <3>. QED  BY <3>1 DEF InvitationRow
  <2>. QED  BY <2>1 DEF Init
<1>. QED  BY <1>1, AcceptedKept, StaysTyped, PTL DEF Spec

-----------------------------------------------------------------------------
\* What is shown as accepted, revoked or expired stays so, unless it is counted
\* as raced; only one that has lapsed may be revoked.
LEMMA FinalKept ==
  ASSUME TypeInv, [Next]_vars, NEW i \in Invitation, invitations[i] # NULL,
         ShownStatus(i) # "PENDING", i \notin raced'
  PROVE  ShownStatus(i)' \in {ShownStatus(i)} \cup
           (IF ShownStatus(i) = "EXPIRED" THEN {"REVOKED"} ELSE {})
<1>1. overdue \subseteq overdue' /\ invitations[i] \in InvitationRow
  BY NextTypeInv DEF Grows, TypeInv, TypeOK
<1>2. CASE invitations'[i] = invitations[i]
  BY <1>1, <1>2 DEF ShownStatus
<1>3. CASE invitations'[i] # invitations[i]
  <2>1. PICK r \in Request : Closes(r) \/ InviteUser(r)
    BY <1>3, Writers
  <2>2. ~InviteUser(r)
    BY <1>3 DEF InviteUser, TypeInv, TypeOK
  <2>3. ASSUME NEW status \in InvitationStatus, CloseInvitation(r, status),
               req[r].pc \in {"expire", "revoke", "mark"}
        PROVE  /\ i = req[r].args.invitation /\ invitations'[i].status = status
               /\ UNCHANGED overdue /\ invitations[i].status = "PENDING" /\ i \in overdue
               /\ ~(req[r].op = "accept" /\ status = "ACCEPTED")
    <3>1. i = req[r].args.invitation /\ UNCHANGED overdue
            /\ invitations'[i] = [invitations[i] EXCEPT !.status = status]
      BY <1>3, <2>3, CloseEffect
    <3>2. invitations'[i].status = status
      BY <1>1, <3>1 DEF InvitationRow
    <3>3. /\ invitations[i] = req[r].inv
          /\ ~(req[r].op = "accept" /\ status = "ACCEPTED" /\ i \in overdue)
      BY <2>3, <3>1 DEF CloseInvitation
    <3>4. req[r].inv.status = "PENDING"
      BY <2>3 DEF TypeInv, Located, Routed, SawInvitation
    <3>5. i \in overdue
      BY <3>3, <3>4 DEF ShownStatus
    <3>. QED  BY <3>1, <3>2, <3>3, <3>4, <3>5
  <2>4. CASE ExpireInvitation(r)
    BY <2>3, <2>4 DEF ExpireInvitation, At, InvitationStatus, ShownStatus
  <2>5. CASE RevokeInvitation(r)
    BY <2>3, <2>5 DEF RevokeInvitation, At, InvitationStatus, ShownStatus
  <2>6. ~MarkAccepted(r)
    <3>1. MarkAccepted(r) => req[r].pc = "mark" /\ req[r].op = "accept"
      BY DEF MarkAccepted, At, TypeInv, Located, Routed
    <3>. QED  BY <2>3, <3>1 DEF MarkAccepted, InvitationStatus
  <2>. QED  BY <2>1, <2>2, <2>4, <2>5, <2>6 DEF Closes
<1>. QED  BY <1>2, <1>3

\* getInvitation, acceptInvitation, revokeInvitation: no step brings back an
\* invitation that is shown as closed, unless requests about it overlapped.
THEOREM ClosedInvitationsStayClosed == Spec => FinalUnlessRaced
<1>1. TypeInv /\ [Next]_vars =>
        [\A i \in Invitation :
           invitations[i] # NULL /\ ShownStatus(i) # "PENDING" /\ i \notin raced' =>
             ShownStatus(i)' \in {ShownStatus(i)} \cup
               (IF ShownStatus(i) = "EXPIRED" THEN {"REVOKED"} ELSE {})]_vars
  BY FinalKept
<1>. QED  BY <1>1, StaysTyped, PTL DEF Spec, FinalUnlessRaced

-----------------------------------------------------------------------------
\* Who is no member becomes one by the platform's word or by an open invitation.
LEMMA Admitted ==
  ASSUME TypeInv, [Next]_vars, NEW u \in User, NEW d \in Dealership,
         ~IsMember(u, d), IsMember(u, d)'
  PROVE  \E r \in Request :
           \/ PlatformMembership(r)
           \/ LET i == req[r].args.invitation IN
              /\ UpsertMembership(r)
              /\ invitations[i].email = u /\ invitations[i].dealership = d
              /\ ShownStatus(i) = "PENDING" \/ i \in raced'
<1>1. members'[<<u, d>>] # members[<<u, d>>]
  BY DEF IsMember
<1>2. PICK r \in Request : Putting(r)
  BY <1>1, Writers
<1>3. ~Throw(r)
  BY <1>1 DEF Throw, tables
<1>4. PICK v \in User, e \in Dealership, row \in MemberRow :
        /\ PutMember(v, e, row)
        /\ \/ UpsertMembership(r) /\ req[r].pc = "upsert"
                /\ v = req[r].inv.email /\ e = req[r].inv.dealership
           \/ members[<<v, e>>] # NULL /\ (row.isActive => members[<<v, e>>].isActive)
           \/ PlatformMembership(r)
  BY <1>2, <1>3, PutSplit
<1>5. v = u /\ e = d /\ members'[<<u, d>>] = row
  BY <1>1, <1>4, PutEffect
<1>6. ~(members[<<v, e>>] # NULL /\ (row.isActive => members[<<v, e>>].isActive))
  BY <1>5 DEF IsMember
<1>7. CASE PlatformMembership(r)
  BY <1>7
<1>8. CASE UpsertMembership(r) /\ req[r].pc = "upsert"
             /\ v = req[r].inv.email /\ e = req[r].inv.dealership
  <2>. DEFINE i == req[r].args.invitation
  <2>1. /\ invitations[i].email = u /\ invitations[i].dealership = d
        /\ req[r].inv.status = "PENDING"
    BY <1>5, <1>8 DEF TypeInv, Located, Routed, SawInvitation
  <2>2. raced' = IF invitations[i] = req[r].inv /\ i \notin overdue THEN raced
                 ELSE raced \cup {i}
    BY <1>8 DEF UpsertMembership
  <2>3. ShownStatus(i) = "PENDING" \/ i \in raced'
    BY <2>1, <2>2 DEF ShownStatus
  <2>. QED  BY <1>8, <2>1, <2>3
<1>. QED  BY <1>4, <1>6, <1>7, <1>8

\* acceptInvitation: in every execution who is no member becomes one through
\* the platform, or through an invitation that is open at that moment, unless it
\* was closed between the look and the write.
THEOREM AdmissionNeedsInvitation == Spec => AdmittedByOpenInvitation
<1>1. TypeInv /\ [Next]_vars =>
        [\A u \in User, d \in Dealership : ~IsMember(u, d) /\ IsMember(u, d)' =>
           \E r \in Request :
             \/ PlatformMembership(r)
             \/ LET i == req[r].args.invitation IN
                /\ UpsertMembership(r)
                /\ invitations[i].email = u /\ invitations[i].dealership = d
                /\ ShownStatus(i) = "PENDING" \/ i \in raced']_vars
  BY Admitted
<1>. QED  BY <1>1, StaysTyped, PTL DEF Spec, AdmittedByOpenInvitation

-----------------------------------------------------------------------------
\* A closed session is opened by who stores a token, and by nobody else.
LEMMA Reopened ==
  ASSUME TypeInv, [Next]_vars, NEW u \in User, users[u] # NULL, ~users[u].session,
         users'[u].session
  PROVE  \E r \in Request :
           /\ IssueTokens(r) /\ Subject(req[r]) = u
           /\ req[r].op = "refresh" => req[r].user.session
<1>1. users'[u] # users[u] /\ users[u] \in UserRow
  BY DEF TypeInv, TypeOK
<1>2. PICK r \in Request : Saves(r)
  BY <1>1, Writers
<1>. DEFINE q == req[r]
<1>3. /\ q.pc \in {"saveUser", "issue", "close", "profile"} /\ Located(q)
      /\ Subject(q) \in User
  BY <1>2, SubjectType DEF Saves, SaveUser, IssueTokens, Logout, WriteProfile, At, TypeInv, TypeOK
<1>4. CASE SaveUser(r)
  <2>1. ~Throw(r)
    BY <1>1 DEF Throw, tables
  <2>2. /\ ~(q.user = NULL /\ users[Subject(q)] # NULL)
        /\ users' = [users EXCEPT ![Subject(q)] =
             IF q.user = NULL
             THEN [password |-> q.args.password, name |-> q.args.name, phone |-> NULL,
                   session |-> FALSE]
             ELSE [users[Subject(q)] EXCEPT !.password = q.args.password,
                                            !.name = q.args.name]]
    BY <1>4, <2>1 DEF SaveUser
  <2>3. Subject(q) = u
    BY <1>1, <1>3, <2>2 DEF TypeInv, TypeOK
  <2>4. users'[u] = [users[u] EXCEPT !.password = q.args.password, !.name = q.args.name]
    BY <2>2, <2>3 DEF TypeInv, TypeOK
  <2>. QED  BY <1>1, <2>4 DEF UserRow
<1>5. CASE IssueTokens(r)
  <2>1. Subject(q) = u
    BY <1>1, <1>3, <1>5 DEF IssueTokens, TypeInv, TypeOK
  <2>2. q.op = "refresh" => q.user.session
    BY <1>3, <1>5 DEF IssueTokens, At, Located, Saw
  <2>. QED  BY <1>5, <2>1, <2>2
<1>6. CASE Logout(r)
  <2>1. users' = [users EXCEPT ![Subject(q)] = [users[Subject(q)] EXCEPT !.session = FALSE]]
    BY <1>6 DEF Logout
  <2>2. Subject(q) = u
    BY <1>1, <1>3, <2>1 DEF TypeInv, TypeOK
  <2>3. users'[u] = [users[u] EXCEPT !.session = FALSE]
    BY <2>1, <2>2 DEF TypeInv, TypeOK
  <2>. QED  BY <1>1, <2>3 DEF UserRow
<1>7. CASE WriteProfile(r)
  <2>. DEFINE p == Profile(q.args, q.user)
  <2>1. users' = [users EXCEPT ![q.args.user] =
                    [users[q.args.user] EXCEPT !.name = p.name, !.phone = p.phone]]
    BY <1>7 DEF WriteProfile
  <2>2. q.op = "profile" /\ q.args.user = Subject(q)
    BY <1>3, <1>7 DEF WriteProfile, At, Located, Routed, Subject
  <2>. HIDE DEF p
  <2>3. q.args.user = u
    BY <1>1, <1>3, <2>1, <2>2 DEF TypeInv, TypeOK
  <2>4. users'[u] = [users[u] EXCEPT !.name = p.name, !.phone = p.phone]
    BY <2>1, <2>3 DEF TypeInv, TypeOK
  <2>. QED  BY <1>1, <2>4 DEF UserRow
<1>. QED  BY <1>2, <1>4, <1>5, <1>6, <1>7 DEF Saves

\* logout, refresh: in every execution a session that was closed is opened again
\* only by a login, an acceptance, or a refresh that had found it open.
THEOREM ClosedSessionsStayClosed == Spec => LogoutSticks
<1>1. TypeInv /\ [Next]_vars =>
        [\A u \in User : users[u] # NULL /\ ~users[u].session /\ users'[u].session =>
           \E r \in Request :
             /\ IssueTokens(r) /\ Subject(req[r]) = u
             /\ req[r].op = "refresh" => req[r].user.session]_vars
  BY Reopened
<1>. QED  BY <1>1, StaysTyped, PTL DEF Spec, LogoutSticks

-----------------------------------------------------------------------------
(***************************************************************************)
(* A request about the team that the guard has let pass: its actor is an   *)
(* admin of that dealership still, or works for the platform, unless the   *)
(* actor's membership has been written since.                              *)
(***************************************************************************)
Passed(q) == q.op \in TeamOps /\ q.pc \notin {"idle", "tenant", "end"}

Entitled(q) ==
  /\ q.role # NULL
  /\ \/ IsPlatform(q.actor)
     \/ IsAdmin(q.actor, q.tenant) /\ (q.op = "settings" => q.args.dealership = q.tenant)

Trusted == \A r \in Request : Passed(req[r]) /\ r \notin failed \cup demoted => Entitled(req[r])

\* An actor who keeps its membership keeps its title.
LEMMA StaysEntitled ==
  ASSUME NEW r \in Request, Entitled(req[r]),
         members'[<<req[r].actor, req[r].tenant>>] = members[<<req[r].actor, req[r].tenant>>],
         req'[r].op = req[r].op, req'[r].actor = req[r].actor, req'[r].tenant = req[r].tenant,
         req'[r].role = req[r].role, req'[r].args = req[r].args
  PROVE  Entitled(req[r])'
BY DEF Entitled, IsAdmin, IsMember, IsPlatform

\* Who moves, and what it keeps.
LEMMA Moves ==
  ASSUME TypeInv, [Next]_vars
  PROVE  /\ failed \subseteq failed'
         /\ demoted \subseteq demoted'
         /\ \A s \in Request :
              \/ req'[s] = req[s]
              \/ ~Passed(req'[s])
              \/ TenantGuard(s)
              \/ /\ Passed(req[s])
                 /\ req'[s].op = req[s].op /\ req'[s].actor = req[s].actor
                 /\ req'[s].tenant = req[s].tenant /\ req'[s].role = req[s].role
                 /\ req'[s].args = req[s].args
<1>1. CASE UNCHANGED vars \/ TimePasses
  BY <1>1 DEF vars, TimePasses
<1>2. ASSUME NEW r \in Request, Start(r) \/ Step(r) \/ Fault(r)
      PROVE  failed \subseteq failed' /\ demoted \subseteq demoted'
  <2>1. CASE Throw(r)
    BY <2>1 DEF Throw
  <2>2. CASE Start(r)
    BY <2>2 DEF Start, StartPublic, StartOwn, StartTeam, StartPlatform, Begin
  <2>3. CASE Step(r) /\ ~Throw(r)
    <3>1. CASE Putting(r)
      BY <2>3, <3>1 DEF Putting, UpsertMembership, ChangeMembership, PlatformMembership, PutMember
    <3>2. CASE Closes(r)
      BY <3>2 DEF Closes, ExpireInvitation, RevokeInvitation, MarkAccepted, CloseInvitation
    <3>3. CASE ~Putting(r) /\ ~Closes(r)
      BY <2>3, <3>3 DEF Step, Putting, Closes, TenantGuard, FindInvitation, SeeInvitation,
         InviteUser, FindUser, SaveUser, IssueTokens, Logout, WriteProfile, AssertExist,
         UpsertGroup, CreateDealership, SetStatus
    <3>. QED  BY <3>1, <3>2, <3>3
  <2>. QED  BY <1>2, <2>1, <2>2, <2>3 DEF Fault
<1>3. ASSUME NEW r \in Request, Start(r) \/ Step(r) \/ Fault(r), NEW s \in Request
      PROVE  \/ req'[s] = req[s]
             \/ ~Passed(req'[s])
             \/ TenantGuard(s)
             \/ /\ Passed(req[s])
                /\ req'[s].op = req[s].op /\ req'[s].actor = req[s].actor
                /\ req'[s].tenant = req[s].tenant /\ req'[s].role = req[s].role
                /\ req'[s].args = req[s].args
  <2>1. req[r] \in RequestState /\ Located(req[r])
    BY DEF TypeInv, TypeOK
  <2>2. ASSUME NEW new, req' = [req EXCEPT ![r] = new]
        PROVE  (s # r => req'[s] = req[s]) /\ req'[r] = new
    BY <2>2 DEF TypeInv, TypeOK
  <2>3. CASE Start(r)
    <3>1. PICK op, actor, tenant, pc, args :
            /\ Begin(r, op, actor, tenant, pc, args)
            /\ op \in TeamOps => pc = "tenant"
      <4>. DEFINE others == {"accept", "login", "refresh", "logout", "profile"} \cup PlatformOps
      <4>0. \A op \in others : op \notin TeamOps
        BY DEF TeamOps, PlatformOps
      <4>1. CASE StartPublic(r)
        <5>1. PICK op, pc, args : op \in others /\ Begin(r, op, NULL, NULL, pc, args)
          BY <4>1 DEF StartPublic
        <5>. QED  BY <4>0, <5>1
      <4>2. CASE StartOwn(r)
        <5>1. PICK op, a, pc, args : op \in others /\ Begin(r, op, a, NULL, pc, args)
          BY <4>2 DEF StartOwn
        <5>. QED  BY <4>0, <5>1
      <4>3. CASE StartTeam(r)
        BY <4>3 DEF StartTeam
      <4>4. CASE StartPlatform(r)
        <5>1. PICK op, a, pc, args : op \in others /\ Begin(r, op, a, NULL, pc, args)
          BY <4>4 DEF StartPlatform, PlatformOps
        <5>. QED  BY <4>0, <5>1
      <4>. QED  BY <2>3, <4>1, <4>2, <4>3, <4>4 DEF Start
    <3>. DEFINE new == [Idle EXCEPT !.pc = pc, !.op = op, !.actor = actor,
                                    !.tenant = tenant, !.args = args]
    <3>2. new.pc = pc /\ new.op = op
      BY DEF Idle
    <3>3. req' = [req EXCEPT ![r] = new]
      BY <3>1 DEF Begin
    <3>. HIDE DEF new
    <3>. QED  BY <2>2, <3>1, <3>2, <3>3 DEF Passed
  <2>4. CASE Throw(r)
    BY <2>4 DEF Throw
  <2>5. ASSUME NEW pc \in PC, Goto(r, pc), req[r].pc \notin {"idle", "tenant", "end"}
        PROVE  /\ s # r => req'[s] = req[s]
               /\ Passed(req'[r]) =>
                    /\ Passed(req[r])
                    /\ req'[r].op = req[r].op /\ req'[r].actor = req[r].actor
                    /\ req'[r].tenant = req[r].tenant /\ req'[r].role = req[r].role
                    /\ req'[r].args = req[r].args
    BY <2>5, GotoEffect DEF Passed
  <2>6. CASE FindInvitation(r) /\ ~Throw(r)
    <3>1. PICK inv, pc : req' = [req EXCEPT ![r] = [req[r] EXCEPT !.inv = inv, !.pc = pc]]
      BY <2>6 DEF FindInvitation, SeeInvitation
    <3>2. req[r].pc = "invitation"
      BY <2>6 DEF FindInvitation, At
    <3>. QED  BY <2>1, <2>2, <3>1, <3>2 DEF Passed, RequestState
  <2>7. CASE FindUser(r) /\ ~Throw(r)
    <3>1. PICK user, pc : req' = [req EXCEPT ![r] = [req[r] EXCEPT !.user = user, !.pc = pc]]
      BY <2>7 DEF FindUser
    <3>2. req[r].pc = "user"
      BY <2>7 DEF FindUser, At
    <3>. QED  BY <2>1, <2>2, <3>1, <3>2 DEF Passed, RequestState
  <2>8. CASE TenantGuard(r) /\ ~Throw(r)
    <3>1. PICK role, pc : req' = [req EXCEPT ![r] = [req[r] EXCEPT !.role = role, !.pc = pc]]
      BY <2>8 DEF TenantGuard
    <3>. QED  BY <2>1, <2>2, <2>8, <3>1
  <2>9. CASE ExpireInvitation(r)
    BY <2>9 DEF ExpireInvitation
  <2>10. CASE /\ Step(r) /\ ~Throw(r) /\ ~ExpireInvitation(r) /\ ~FindInvitation(r)
              /\ ~FindUser(r) /\ ~TenantGuard(r)
    <3>1. PICK pc \in PC : Goto(r, pc) /\ req[r].pc \notin {"idle", "tenant", "end"}
      BY <2>10 DEF Step, At, RevokeInvitation, MarkAccepted, InviteUser, SaveUser, IssueTokens,
         Logout, WriteProfile, UpsertMembership, ChangeMembership, PlatformMembership,
         AssertExist, UpsertGroup, CreateDealership, SetStatus, PC
    <3>. QED  BY <2>5, <3>1
  <2>. QED  BY <1>3, <2>3, <2>4, <2>6, <2>7, <2>8, <2>9, <2>10 DEF Fault
<1>. QED  BY <1>1, <1>2, <1>3 DEF Next

LEMMA GuardEntitles ==
  ASSUME TypeInv, NEW r \in Request, TenantGuard(r), r \notin failed'
  PROVE  Entitled(req[r])'
<1>. DEFINE q == req[r]
            role == IF IsMember(q.actor, q.tenant) THEN members[<<q.actor, q.tenant>>].role
                    ELSE IF IsPlatform(q.actor) THEN "ADMIN" ELSE NULL
            pc == AfterGuard[q.op]
            new == [q EXCEPT !.role = role, !.pc = pc]
<1>1. q \in RequestState
  BY DEF TypeInv, TypeOK
<1>2. role # NULL /\ MayProceed(q, role) /\ req' = [req EXCEPT ![r] = new]
        /\ UNCHANGED members
  BY DEF TenantGuard, Throw, tables
<1>3. \/ IsPlatform(q.actor)
      \/ IsMember(q.actor, q.tenant) /\ role = members[<<q.actor, q.tenant>>].role
  BY <1>2
<1>4. IsPlatform(q.actor)
        \/ (role = "ADMIN" /\ (q.op = "settings" => q.args.dealership = q.tenant))
  BY <1>2 DEF MayProceed, IsPlatform
<1>. HIDE DEF role, pc
<1>5. new.role = role /\ new.op = q.op /\ new.actor = q.actor /\ new.tenant = q.tenant
        /\ new.args = q.args
  BY <1>1 DEF RequestState
<1>. HIDE DEF new
<1>6. req'[r] = new
  BY <1>2 DEF TypeInv, TypeOK
<1>. QED  BY <1>2, <1>3, <1>4, <1>5, <1>6 DEF Entitled, IsAdmin, IsMember, IsPlatform

LEMMA TrustedKept ==
  ASSUME TypeInv, Trusted, [Next]_vars
  PROVE  Trusted'
<1>. SUFFICES ASSUME NEW s \in Request, Passed(req'[s]), s \notin failed' \cup demoted'
              PROVE  Entitled(req[s])'
  BY DEF Trusted, Passed
<1>1. s \notin failed \cup demoted
  BY Moves
<1>2. CASE TenantGuard(s)
  BY <1>2, GuardEntitles
<1>3. CASE ~TenantGuard(s)
  <2>1. /\ Passed(req[s])
        /\ req'[s].op = req[s].op /\ req'[s].actor = req[s].actor
        /\ req'[s].tenant = req[s].tenant /\ req'[s].role = req[s].role
        /\ req'[s].args = req[s].args
    BY <1>3, Moves
  <2>2. Entitled(req[s])
    BY <1>1, <2>1 DEF Trusted
  <2>3. members'[<<req[s].actor, req[s].tenant>>] = members[<<req[s].actor, req[s].tenant>>]
    <3>1. req[s].actor \in User /\ req[s].tenant \in Dealership
      BY <2>1 DEF TypeInv, Located, Asked, Legal, Passed
    <3>2. CASE UNCHANGED members
      BY <3>2
    <3>3. CASE \E r \in Request : Putting(r) /\ ~UNCHANGED members
      <4>1. PICK r \in Request : Putting(r) /\ ~Throw(r)
        BY <3>3 DEF Throw, tables
      <4>2. PICK u \in User, d \in Dealership, row \in MemberRow : PutMember(u, d, row)
        BY <4>1, PutSplit
      <4>3. ~(req[s].actor = u /\ req[s].tenant = d)
        BY <1>1, <2>1, <2>2, <4>2 DEF PutMember, InFlight, Passed, Entitled
      <4>4. /\ <<req[s].actor, req[s].tenant>> \in User \X Dealership
            /\ <<req[s].actor, req[s].tenant>> # <<u, d>>
        BY <3>1, <4>3
      <4>5. \A m \in User \X Dealership : m # <<u, d>> => members'[m] = members[m]
        BY <4>2, PutEffect
      <4>. DEFINE m == <<req[s].actor, req[s].tenant>>
      <4>6. m \in User \X Dealership /\ m # <<u, d>>
        BY <4>4
      <4>. HIDE DEF m
      <4>7. members'[m] = members[m]
        BY <4>5, <4>6
      <4>. QED  BY <4>7 DEF m
    <3>. QED  BY <3>2, <3>3, Writers
  <2>. QED  BY <2>1, <2>2, <2>3, StaysEntitled
<1>. QED  BY <1>2, <1>3

LEMMA StaysTrusted == Spec => []Trusted
<1>1. Init => Trusted
  <2>1. Init => \A r \in Request : req[r].pc = "idle"
    <3>1. Init => req = [r \in Request |-> Idle]
      BY DEF Init
    <3>. QED  BY <3>1 DEF Idle
  <2>. QED  BY <2>1 DEF Trusted, Passed
<1>. QED  BY <1>1, TrustedKept, StaysTyped, PTL DEF Spec

\* assertAdmin, assertSettingsAccess: in every execution what belongs to a
\* dealership is changed by its admins and the platform alone, up to requests
\* whose actor's membership was written after the guard had read it.
THEOREM OnlyAdminsAct == Spec => AdminsOnly
<1>1. ASSUME TypeInv, Trusted, NEW r \in Request, TeamRequest(r), r \notin demoted
      PROVE  IsAdmin(req[r].actor, TouchedBy(req[r])) \/ IsPlatform(req[r].actor)
  <2>1. r \notin failed /\ req[r].pc \in {"revoke", "invite", "member", "status"}
    BY <1>1 DEF TeamRequest, RevokeInvitation, InviteUser, ChangeMembership, SetStatus, At
  <2>2. req[r].op \in TeamOps
    BY <1>1 DEF TeamRequest, RevokeInvitation, InviteUser, ChangeMembership, SetStatus, At,
       TypeInv, Located, Routed, TeamOps
  <2>3. Entitled(req[r])
    BY <1>1, <2>1, <2>2 DEF Trusted, Passed
  <2>4. req[r].op = "revoke" => TouchedBy(req[r]) = req[r].tenant
    BY <1>1, <2>1 DEF TouchedBy, TypeInv, Located, SawInvitation
  <2>. QED  BY <2>3, <2>4 DEF Entitled, TouchedBy
<1>2. TypeInv /\ Trusted /\ [Next]_vars =>
        [\A r \in Request : TeamRequest(r) /\ r \notin demoted =>
           IsAdmin(req[r].actor, TouchedBy(req[r])) \/ IsPlatform(req[r].actor)]_vars
  BY <1>1
<1>. QED  BY <1>2, StaysTyped, StaysTrusted, PTL DEF Spec, AdminsOnly
=============================================================================

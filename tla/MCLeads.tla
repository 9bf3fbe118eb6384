------------------------------ MODULE MCLeads ------------------------------
(***************************************************************************)
(* Small dealerships for TLC: payload sets, rows and symmetry.             *)
(***************************************************************************)
EXTENDS Leads, TLC

CONSTANTS admin, sales, outsider

MCRoles == [u \in User |-> IF u = admin THEN "ADMIN" ELSE "SALES"]

NoEvidence == [outbound |-> 0, inbound |-> FALSE, calls |-> 0, showed |-> FALSE,
               upcoming |-> FALSE, noShow |-> FALSE]

\* A new lead that nobody has contacted, with an e-mail address.
OpenRow == [status |-> "NEW", source |-> NULL, assignee |-> NULL, soldAt |-> FALSE,
            soldBy |-> NULL, contact |-> [NoContact EXCEPT !.email = TRUE],
            age |-> NoActivity, score |-> 10]

MCContactArg == {NoPatch}
MCRows == {NULL, OpenRow}
MCInitialEvidence == {NoEvidence}

RequestSymmetry == Permutations(Request)

-----------------------------------------------------------------------------
(* Two plays.  In one a lead is there, and anything is done to it while roles *)
(* change; in the other it is created, and marked, while members leave.       *)
VARIABLE creating

MCInit ==
  /\ Init
  /\ creating \in BOOLEAN
  /\ \A l \in Lead : leads[l] = NULL <=> creating

StartCreation(r) == (StartCreate(r) \/ StartStatus(r)) /\ req'[r].args.status # "NEW"

StartWork(r) ==
  StartUpdate(r) \/ StartAssign(r) \/ StartStatus(r) \/ StartActivity(r) \/ StartRescore(r)

MCNext ==
  /\ UNCHANGED creating
  /\ \/ creating /\ \E r \in Request : StartCreation(r)
     \/ ~creating /\ \E r \in Request : StartWork(r)
     \/ \E r \in Request : Step(r) \/ Fault(r)
     \/ ~creating /\ \E u \in Member, newRole \in NewRole : SetRole(u, newRole)
     \/ creating /\ \E u \in Leaver : DeactivateMembership(u)

MCSpec == MCInit /\ [][MCNext]_<<vars, creating>>
=============================================================================

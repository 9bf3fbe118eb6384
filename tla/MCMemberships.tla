---------------------------- MODULE MCMemberships ----------------------------
(***************************************************************************)
(* Two dealerships, an admin, a clerk of the platform and a newcomer who    *)
(* may have an account already, for TLC.                                    *)
(***************************************************************************)
EXTENDS Memberships, TLC

CONSTANTS boss, hq, guest, north, south, i1, secret, fresh, ann, bob, tel

Account(session) == [password |-> secret, name |-> ann, phone |-> NULL, session |-> session]
Invited(d, status) == [email |-> guest, dealership |-> d, role |-> "SALES", status |-> status]

MCUsers ==
  {[u \in User |-> IF u = guest THEN row ELSE Account(FALSE)] :
     row \in {NULL, Account(TRUE)}}

\* The newcomer has never been a member, was one, or is an admin.
MCMembers ==
  {[p \in User \X Dealership |->
      IF p = <<boss, north>> THEN [role |-> "ADMIN", isActive |-> TRUE]
      ELSE IF p = <<guest, north>> THEN row ELSE NULL] :
     row \in {NULL, [role |-> "SALES", isActive |-> FALSE],
                    [role |-> "ADMIN", isActive |-> TRUE]}}

MCInvitations ==
  {[i \in Invitation |-> row] :
     row \in {NULL} \cup {Invited(north, s) : s \in {"PENDING", "ACCEPTED", "REVOKED"}}}

RequestSymmetry == Permutations(Request)
=============================================================================

------------------------------ MODULE MCWebShell ------------------------------
(***************************************************************************)
(* Two users and two dealerships, for TLC: ann is an administrator of both,  *)
(* bob a salesperson of the second.                                          *)
(***************************************************************************)
EXTENDS WebShell

CONSTANTS ann, bob, d1, d2, lead, visit, text, reply, notice

MCMemberships == [u \in User |-> IF u = ann THEN <<d1, d2>> ELSE <<d2>>]
MCOneMembership == [u \in User |-> <<d1>>]
MCRole == [u \in User |-> [d \in Dealership |-> IF u = ann THEN "ADMIN" ELSE "SALES"]]
MCHome == [e \in Entity |-> IF e = reply THEN d2 ELSE d1]
MCKind == [e \in Entity |-> CASE e = lead -> "lead" [] e = visit -> "appointment"
                              [] e \in {text, reply} -> "message" [] e = notice -> "import"]

\* A lead is there.
MCBefore == {{[id |-> lead, at |-> 1]}}

\* A lead, its appointment and a text, of one millisecond or one after another.
MCNotesBefore ==
  {{[id |-> visit, at |-> 1], [id |-> lead, at |-> at], [id |-> text, at |-> 2]} : at \in Time}
=============================================================================

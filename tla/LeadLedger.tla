----------------------------- MODULE LeadLedger -----------------------------
(***************************************************************************)
(* What the leads API promises about the columns that a dealership works   *)
(* with: status, assignee and the stamp of a sale. They change one row at  *)
(* a time, in one of four ways, and nothing else that the API does (scores,*)
(* audit, events, reads, failures) can be seen in them.                    *)
(***************************************************************************)
CONSTANTS Lead, User, Member, LeadStatus, NULL

VARIABLE ledger

Nobody == Member \cup {NULL}

Init == ledger \in [Lead -> {NULL} \cup
          [status : LeadStatus, assignee : Nobody, soldAt : {FALSE}, soldBy : {NULL}]]

\* A lead appears, in any status but without a stamp.
Open(l) ==
  /\ ledger[l] = NULL
  /\ \E s \in LeadStatus, a \in Nobody :
       ledger' = [ledger EXCEPT ![l] =
                    [status |-> s, assignee |-> a, soldAt |-> FALSE, soldBy |-> NULL]]

\* Status and assignee are edited; the stamp stays as it is, and the lead is
\* not taken away from anybody without being given to somebody.
Revise(l) ==
  /\ ledger[l] # NULL
  /\ \E s \in LeadStatus, a \in Member \cup {ledger[l].assignee} :
       ledger' = [ledger EXCEPT ![l] = [@ EXCEPT !.status = s, !.assignee = a]]

\* The lead is handed over, or to nobody.
HandOver(l) ==
  /\ ledger[l] # NULL
  /\ \E a \in Nobody : ledger' = [ledger EXCEPT ![l].assignee = a]

\* The status is set by u, a member or not, who becomes the seller if the lead
\* is sold; any other status takes the stamp off, whole.
Mark(l, u) ==
  /\ ledger[l] # NULL
  /\ \E s \in LeadStatus :
       ledger' = [ledger EXCEPT ![l] =
                    [@ EXCEPT !.status = s, !.soldAt = (s = "SOLD"),
                              !.soldBy = IF s = "SOLD" THEN u ELSE NULL]]

Next == \E l \in Lead :
          Open(l) \/ Revise(l) \/ HandOver(l) \/ \E u \in User : Mark(l, u)

Spec == Init /\ [][Next]_ledger
=============================================================================

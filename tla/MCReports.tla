------------------------------ MODULE MCReports ------------------------------
(***************************************************************************)
(* Two leads and two appointments over three instants of two days, for TLC. *)
(***************************************************************************)
EXTENDS Reports, TLC

MCLower == [t \in Text |-> IF t = "Web" THEN "web" ELSE t]

Payload(source) == [source |-> source, assignedUser |-> NULL, status |-> "new", leadType |-> NULL]
MCPayloads == {Payload("Web"), Payload(NULL)}

NoFilter == [f \in Fields |-> UNSET]
FromWeb == [NoFilter EXCEPT !.source = "web"]
Always == [start |-> 0, end |-> MaxTime]
Later == [start |-> 1, end |-> MaxTime]

Query(op, range, filter) == [op |-> op, range |-> range, filter |-> filter, dimension |-> "source"]

MCQueries ==
  {Query("summary", Always, NoFilter), Query("summary", Later, FromWeb),
   Query("breakdown", Always, NoFilter),
   [Query("breakdown", Later, NoFilter) EXCEPT !.dimension = "assignedUser"],
   Query("summary", Always, [NoFilter EXCEPT !.leadType = "web"])}
  \cup {Query(op, Always, FromWeb) : op \in Trends}

EntitySymmetry == Permutations(Lead) \cup Permutations(Appointment)
=============================================================================

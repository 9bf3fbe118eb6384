--------------------------- MODULE MCAppointments ---------------------------
(***************************************************************************)
(* A small calendar for TLC: one or two appointments, two leads and a lead *)
(* of another dealership.                                                  *)
(***************************************************************************)
EXTENDS Appointments, TLC

CONSTANTS lead, otherLead, foreignLead

\* Tomorrow's appointment with the lead.
Booked == [status |-> "SET", start_at |-> 1, end_at |-> 4, lead_id |-> lead]

MCBookedOrAbsent == {Booked, NULL}

RequestSymmetry == Permutations(Request)
=============================================================================

------------------------------ MODULE MCTasks ------------------------------
(***************************************************************************)
(* One or two tasks, a member and a user of another dealership, for TLC.   *)
(***************************************************************************)
EXTENDS Tasks, TLC

OpenTask == [status |-> "OPEN", dueAt |-> NULL, assignee |-> NULL, lead |-> NULL]

MCOpen == {OpenTask}
MCOpenOrAbsent == {OpenTask, NULL}

RequestSymmetry == Permutations(Request)
=============================================================================

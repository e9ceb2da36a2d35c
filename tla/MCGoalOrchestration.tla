------------------------- MODULE MCGoalOrchestration -------------------------
(***************************************************************************)
(* A goal of two tasks, each in a phase of its own, in which one thing      *)
(* fails, and a review goal, of a single task, in which two things do.     *)
(***************************************************************************)
EXTENDS GoalOrchestration

OneEach == <<1, 2>>
FailuresOf == [kind \in Kinds |-> IF kind = "plan" THEN 1 ELSE 2]
=============================================================================

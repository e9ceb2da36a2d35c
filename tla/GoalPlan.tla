------------------------------- MODULE GoalPlan -------------------------------
(***************************************************************************)
(* What the orchestration of a goal promises: its tasks are worked on one  *)
(* after the other, each is launched at most once, the next one begins     *)
(* only when the work on the one before was approved, the goal is          *)
(* completed only when all of it was, and an end is final.                 *)
(***************************************************************************)
EXTENDS Naturals

CONSTANT Tasks       \* the numbers of the tasks, 1 .. N

VARIABLES
    last,            \* the last task of the plan
    progress,        \* of the goal
    current,         \* the task that is worked on, 0 before the first
    started,         \* how often each task was launched
    approved         \* the tasks whose work was approved

planVars == <<last, progress, current, started, approved>>

GoalEnds == {"completed", "failed", "human_required"}

PlanInit ==
    /\ last \in Tasks
    /\ progress = "pending" /\ current = 0
    /\ started = [i \in Tasks |-> 0] /\ approved = {}

\* The first task of a goal, which may have been launched before (a review goal).
BeginPlan ==
    /\ progress = "pending"
    /\ progress' = "running" /\ current' = 1
    /\ started' \in {started, [started EXCEPT ![1] = 1]}
    /\ UNCHANGED <<last, approved>>

LaunchTask ==
    /\ progress = "running" /\ started[current] = 0
    /\ started' = [started EXCEPT ![current] = 1]
    /\ UNCHANGED <<last, progress, current, approved>>

\* The review may approve work also after the goal gave up on it.
ApproveTask ==
    /\ progress # "pending" /\ started[current] = 1
    /\ approved' = approved \cup {current}
    /\ UNCHANGED <<last, progress, current, started>>

NextTask ==
    /\ progress = "running" /\ current \in approved /\ current < last
    /\ current' = current + 1
    /\ UNCHANGED <<last, progress, started, approved>>

EndPlan ==
    /\ progress = "running"
    /\ \/ current \in approved /\ current = last /\ progress' = "completed"
       \/ progress' \in {"failed", "human_required"}
    /\ UNCHANGED <<last, current, started, approved>>

PlanNext == BeginPlan \/ LaunchTask \/ ApproveTask \/ NextTask \/ EndPlan

PlanSpec == PlanInit /\ [][PlanNext]_planVars
=============================================================================

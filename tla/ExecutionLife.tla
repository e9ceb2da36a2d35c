---------------------------- MODULE ExecutionLife ----------------------------
(***************************************************************************)
(* What an execution promises to the rest of Local Review MCP: its record  *)
(* appears once, at most one Codex process is ever launched for it, a      *)
(* passed execution did run, and an outcome is final.                      *)
(***************************************************************************)
EXTENDS Naturals

CONSTANT Executions

VARIABLES
    status,          \* what the record says
    launches         \* how many processes were launched

Statuses == {"none", "running", "passed", "failed"}

LifeTypeOK ==
    /\ status \in [Executions -> Statuses]
    /\ launches \in [Executions -> 0 .. 1]

LifeInit ==
    /\ status = [e \in Executions |-> "none"]
    /\ launches = [e \in Executions |-> 0]

Appear(e) ==
    /\ status[e] = "none"
    /\ status' = [status EXCEPT ![e] = "running"]
    /\ UNCHANGED launches

LaunchProcess(e) ==
    /\ status[e] = "running" /\ launches[e] = 0
    /\ launches' = [launches EXCEPT ![e] = 1]
    /\ UNCHANGED status

\* The outcome; only an execution that ran can pass.
EndLife(e) ==
    /\ status[e] = "running"
    /\ \E s \in {"passed", "failed"} :
        /\ s = "passed" => launches[e] = 1
        /\ status' = [status EXCEPT ![e] = s]
    /\ UNCHANGED launches

LifeNext == \E e \in Executions : Appear(e) \/ LaunchProcess(e) \/ EndLife(e)

LifeSpec == LifeInit /\ [][LifeNext]_<<status, launches>>
=============================================================================

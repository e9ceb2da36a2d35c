------------------------------ MODULE ReviewLoop ------------------------------
(***************************************************************************)
(* What the automatic review of one task promises: executions and reviews  *)
(* take turns, an execution is reviewed only after it passed, another one  *)
(* is started only because the review of the last one asked for it, the    *)
(* work is completed only because that review approved it, and an end is   *)
(* final.                                                                  *)
(***************************************************************************)
EXTENDS Naturals

CONSTANT MaxIterations

Iterations == 1 .. MaxIterations

VARIABLES
    phase,           \* whose turn it is, or how the work ended
    iteration,
    outcome,         \* of the execution of each iteration
    said             \* what the review of each iteration answered

loopVars == <<phase, iteration, outcome, said>>

Outcomes == {"none", "running", "passed", "failed"}
Sayings == {"nothing", "approve", "iterate", "other"}

LoopInit ==
    /\ phase = "executing"
    /\ iteration = 1
    /\ outcome = [i \in Iterations |-> IF i = 1 THEN "running" ELSE "none"]
    /\ said = [i \in Iterations |-> "nothing"]

\* Only the execution of the current iteration is started, and only once.
StartExecution ==
    /\ phase = "executing" /\ outcome[iteration] = "none"
    /\ outcome' = [outcome EXCEPT ![iteration] = "running"]
    /\ UNCHANGED <<phase, iteration, said>>

\* An execution ends in its own time, also when the loop gave up on it.
EndExecution(i) ==
    /\ outcome[i] = "running"
    /\ \E o \in {"passed", "failed"} : outcome' = [outcome EXCEPT ![i] = o]
    /\ UNCHANGED <<phase, iteration, said>>

BeginReview ==
    /\ phase = "executing" /\ outcome[iteration] = "passed"
    /\ phase' = "reviewing"
    /\ UNCHANGED <<iteration, outcome, said>>

\* The answer is given once.
Say ==
    /\ phase = "reviewing" /\ said[iteration] = "nothing"
    /\ \E s \in Sayings : said' = [said EXCEPT ![iteration] = s]
    /\ UNCHANGED <<phase, iteration, outcome>>

\* The next execution, unless the iterations are used up.
Iterate ==
    /\ phase = "reviewing" /\ said[iteration] = "iterate" /\ iteration < MaxIterations
    /\ phase' = "executing"
    /\ iteration' = iteration + 1
    /\ UNCHANGED <<outcome, said>>

EndLoop ==
    /\ \/ phase = "reviewing" /\ said[iteration] = "approve" /\ phase' = "approved"
       \/ phase = "executing" /\ outcome[iteration] # "passed" /\ phase' = "failed"
       \/ phase \in {"executing", "reviewing"} /\ phase' = "human"
    /\ UNCHANGED <<iteration, outcome, said>>

LoopNext ==
    \/ StartExecution \/ BeginReview \/ Say \/ Iterate \/ EndLoop
    \/ \E i \in Iterations : EndExecution(i)

LoopSpec == LoopInit /\ [][LoopNext]_loopVars

LoopTypeOK ==
    /\ phase \in {"executing", "reviewing", "approved", "failed", "human"}
    /\ iteration \in Iterations
    /\ outcome \in [Iterations -> Outcomes]
    /\ said \in [Iterations -> Sayings]

\* The history can be read off at any time: every earlier iteration passed and
\* was answered with a request for the next one, no later one has begun, what was
\* reviewed had passed, and approved work was approved (auto-iteration.ts:613-677).
TurnsTaken ==
    /\ \A i \in Iterations : i < iteration => outcome[i] = "passed" /\ said[i] = "iterate"
    /\ \A i \in Iterations : i > iteration => outcome[i] = "none" /\ said[i] = "nothing"
    /\ \A i \in Iterations : said[i] # "nothing" => outcome[i] = "passed"
    /\ phase = "reviewing" => outcome[iteration] = "passed"
    /\ phase = "approved" => outcome[iteration] = "passed" /\ said[iteration] = "approve"

EndIsFinal ==
    /\ phase \in {"approved", "failed", "human"} => phase' = phase /\ iteration' = iteration
    /\ \A i \in Iterations : said[i] # "nothing" => said'[i] = said[i]
    /\ \A i \in Iterations : outcome[i] \in {"passed", "failed"} => outcome'[i] = outcome[i]
\* An end is final: nothing that advances a loop takes it out of a terminal
\* stage, or gives an iteration another answer (auto-iteration.ts:618-621).
EndsStayFinal == [][EndIsFinal]_loopVars
=============================================================================

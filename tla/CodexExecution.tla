--------------------------- MODULE CodexExecution ---------------------------
(***************************************************************************)
(* One Codex process per execution: the adapter that records an execution, *)
(* launches its process and saves the process id                           *)
(* (codex-execution-adapter.ts), and the completion service that turns the *)
(* end of the process into the outcome of the execution, at once or at the *)
(* next start of the runtime (codex-execution-completion.ts).              *)
(*                                                                         *)
(* A start and an observed exit are cut at every file they write and at    *)
(* the launch, so that the runtime may stop and the process may write or   *)
(* end between any two.  A process outlives the runtime that launched it,  *)
(* but its standard output reaches the log only through that runtime.      *)
(***************************************************************************)
EXTENDS Naturals, FiniteSets

CONSTANTS
    Executions,
    Tasks, TaskOf,   \* the task each execution belongs to
    MaxCrashes,      \* bound: how often the runtime stops
    MaxFaults        \* bound: file operations that fail, probes that do not tell

ASSUME ExecutionAssumption ==
    /\ TaskOf \in [Executions -> Tasks]
    /\ MaxCrashes \in Nat /\ MaxFaults \in Nat

VARIABLES
    record,          \* the ExecutionContext file
    exit,            \* the exit evidence file
    log,             \* turn events in the saved standard output
    process,         \* the operating system's process
    launches,        \* how many processes were ever launched
    did,             \* turn events the process really wrote
    start,           \* the adapter's start in flight
    observer,        \* the completion service's work in flight
    recovering,      \* executions recoverRunningExecutions listed and has yet to visit
    notified,        \* calls of the terminal listener
    crashes, faults

durable == <<record, exit, log>>
world == <<process, launches, did>>
volatile == <<start, observer, recovering>>
bounds == <<crashes, faults>>
executionVars == <<durable, world, volatile, notified, bounds>>

-----------------------------------------------------------------------------
\* torn: the file was created, but the runtime stopped before it was written.
Record == [status: {"none", "torn", "running", "passed", "failed"}, pid: BOOLEAN]
NoRecord == [status |-> "none", pid |-> FALSE]
TurnEvents == {"completed", "failed"}

ExecutionTypeOK ==
    /\ record \in [Executions -> Record]
    /\ exit \in [Executions -> {"missing", "torn", "valid"}]
    /\ log \in [Executions -> SUBSET TurnEvents]
    /\ process \in [Executions -> {"none", "alive", "ended"}]
    /\ launches \in [Executions -> Nat]
    /\ did \in [Executions -> SUBSET TurnEvents]
    /\ start \in [Executions -> {"idle", "create", "launch", "save", "fail", "accepted", "refused"}]
    /\ observer \in [Executions -> {"none", "watching", "settling", "notifying"}]
    /\ recovering \subseteq Executions
    /\ notified \in [Executions -> Nat]
    /\ crashes \in 0 .. MaxCrashes
    /\ faults \in 0 .. MaxFaults

ExecutionInit ==
    /\ record = [e \in Executions |-> NoRecord]
    /\ exit = [e \in Executions |-> "missing"]
    /\ log = [e \in Executions |-> {}]
    /\ process = [e \in Executions |-> "none"]
    /\ launches = [e \in Executions |-> 0]
    /\ did = [e \in Executions |-> {}]
    /\ start = [e \in Executions |-> "idle"]
    /\ observer = [e \in Executions |-> "none"]
    /\ recovering = {}
    /\ notified = [e \in Executions |-> 0]
    /\ crashes = 0 /\ faults = 0

Terminal(e) == record[e].status \in {"passed", "failed"}
Running(e) == record[e].status = "running"

Step(e, from, to) ==
    /\ start[e] = from
    /\ start' = [start EXCEPT ![e] = to]

Fault ==
    /\ faults < MaxFaults
    /\ faults' = faults + 1
    /\ UNCHANGED crashes

-----------------------------------------------------------------------------
(* CodexExecutionAdapter.start *)

\* existing(): an execution that is recorded already is never launched again.
Confirmed(e) == Running(e) /\ record[e].pid

BeginStart(e) ==
    /\ Step(e, "idle", IF record[e].status = "none" THEN "create"
                       ELSE IF Confirmed(e) THEN "accepted" ELSE "refused")
    /\ UNCHANGED <<durable, world, observer, recovering, notified, bounds>>

CreateRecord(e) ==
    /\ Step(e, "create", "launch")
    /\ record' = [record EXCEPT ![e].status = "running"]
    /\ UNCHANGED <<exit, log, world, observer, recovering, notified, bounds>>

\* The exclusive write fails, and may leave a partial file behind.
CreateFails(e) ==
    /\ Step(e, "create", "refused") /\ Fault
    /\ \E s \in {"none", "torn"} : record' = [record EXCEPT ![e].status = s]
    /\ UNCHANGED <<exit, log, world, observer, recovering, notified>>

Launch(e) ==
    /\ Step(e, "launch", "save")
    /\ process' = [process EXCEPT ![e] = "alive"]
    /\ launches' = [launches EXCEPT ![e] = @ + 1]
    /\ UNCHANGED <<durable, did, observer, recovering, notified, bounds>>

\* No executable, no log file, or the process could not be spawned.
LaunchFails(e) ==
    /\ Step(e, "launch", "fail")
    /\ UNCHANGED <<durable, world, observer, recovering, notified, bounds>>

\* The promise of the process's end was made before, so an end is not missed.
SavePid(e) ==
    /\ Step(e, "save", "accepted")
    /\ record' = [record EXCEPT ![e].pid = TRUE]
    /\ observer' = [observer EXCEPT ![e] = "watching"]
    /\ UNCHANGED <<exit, log, world, recovering, notified, bounds>>

\* The process is sent a signal; it ends when it does.
SavePidFails(e) ==
    /\ Step(e, "save", "fail") /\ Fault
    /\ UNCHANGED <<durable, world, observer, recovering, notified>>

RecordFailure(e) ==
    /\ Step(e, "fail", "refused")
    /\ record' = [record EXCEPT ![e].status = "failed"]
    /\ UNCHANGED <<exit, log, world, observer, recovering, notified, bounds>>

RecordFailureFails(e) ==
    /\ Step(e, "fail", "refused") /\ Fault
    /\ UNCHANGED <<durable, world, observer, recovering, notified>>

\* The start's promise settles, and its entry is dropped from inFlight.
EndStart(e) ==
    /\ start[e] \in {"accepted", "refused"}
    /\ start' = [start EXCEPT ![e] = "idle"]
    /\ UNCHANGED <<durable, world, observer, recovering, notified, bounds>>

-----------------------------------------------------------------------------
(* The process *)

Piped(e) == start[e] = "save" \/ observer[e] = "watching"

Emit(e, event) ==
    /\ process[e] = "alive" /\ event \notin did[e]
    /\ did' = [did EXCEPT ![e] = @ \cup {event}]
    /\ UNCHANGED <<durable, process, launches, volatile, notified, bounds>>

\* The runtime copies what the process wrote into the log.
Flush(e) ==
    /\ Piped(e) /\ log[e] # did[e]
    /\ log' = [log EXCEPT ![e] = did[e]]
    /\ UNCHANGED <<record, exit, world, volatile, notified, bounds>>

End(e) ==
    /\ process[e] = "alive"
    /\ process' = [process EXCEPT ![e] = "ended"]
    /\ UNCHANGED <<durable, launches, did, volatile, notified, bounds>>

-----------------------------------------------------------------------------
(* CodexExecutionCompletionService *)

OutcomeVerbatim(e, ended) ==
    IF log[e] = TurnEvents THEN "conflict" ELSE IF log[e] # {} THEN "passed"
    ELSE IF ended THEN "failed" ELSE "running"
OutcomeWithoutConflict(e, ended) ==
    IF "completed" \in log[e] THEN "passed" ELSE IF ended THEN "failed" ELSE "running"
\* terminalEvidence and the end of reconcileOnce: both events are a conflict.
Outcome(e, ended) ==
    IF "failed" \in log[e] THEN "failed"
    ELSE IF "completed" \in log[e] THEN "passed"
    ELSE IF ended THEN "failed" ELSE "running"
\* pass or fail: the record is written, then the listener is told.
Settled(e, outcome) ==
    /\ record' = [record EXCEPT ![e].status = outcome]
    /\ observer' = [observer EXCEPT ![e] = IF outcome = "running" THEN "none" ELSE "notifying"]

\* The streams are flushed; observeProcessExit then saves the evidence first.
SaveExit(e) ==
    /\ observer[e] = "watching" /\ process[e] = "ended"
    /\ log' = [log EXCEPT ![e] = did[e]]
    /\ exit' = [exit EXCEPT ![e] = "valid"]
    /\ observer' = [observer EXCEPT ![e] = IF Running(e) THEN "settling" ELSE "none"]
    /\ UNCHANGED <<record, world, start, recovering, notified, bounds>>

SaveExitFails(e) ==
    /\ observer[e] = "watching" /\ process[e] = "ended" /\ Fault
    /\ log' = [log EXCEPT ![e] = did[e]]
    /\ \E x \in {"missing", "torn"} : exit' = [exit EXCEPT ![e] = x]
    /\ observer' = [observer EXCEPT ![e] = "none"]
    /\ UNCHANGED <<record, world, start, recovering, notified>>

Settle(e) ==
    /\ observer[e] = "settling"
    /\ Settled(e, Outcome(e, TRUE))
    /\ UNCHANGED <<exit, log, world, start, recovering, notified, bounds>>

SettleFails(e) ==
    /\ observer[e] = "settling" /\ Fault
    /\ observer' = [observer EXCEPT ![e] = "none"]
    /\ UNCHANGED <<durable, world, start, recovering, notified>>

Notify(e) ==
    /\ observer[e] = "notifying"
    /\ observer' = [observer EXCEPT ![e] = "none"]
    /\ notified' = [notified EXCEPT ![e] = @ + 1]
    /\ UNCHANGED <<durable, world, start, recovering, bounds>>

\* listExecutions: one torn record hides all executions of its task.
Listable(e) ==
    /\ record[e].status # "none"
    /\ \A f \in Executions : TaskOf[f] = TaskOf[e] => record[f].status # "torn"

\* The runtime stops, perhaps in the middle of a write that is not a rename,
\* and starts again.
TornRecords == {e \in Executions : start[e] = "create"}
TornExits == {e \in Executions : observer[e] = "watching" /\ process[e] = "ended"}
Restart ==
    /\ crashes < MaxCrashes
    /\ crashes' = crashes + 1
    /\ \E torn \in SUBSET TornRecords :
        record' = [e \in Executions |->
            IF e \in torn THEN [record[e] EXCEPT !.status = "torn"] ELSE record[e]]
    /\ \E torn \in SUBSET TornExits :
        exit' = [e \in Executions |-> IF e \in torn THEN "torn" ELSE exit[e]]
    /\ start' = [e \in Executions |-> "idle"]
    /\ observer' = [e \in Executions |-> "none"]
    /\ recovering' = {e \in Executions : Listable(e)'}
    /\ UNCHANGED <<log, world, notified, faults>>

RecoverableByExit(e) == Running(e) /\ record[e].pid /\ exit[e] = "valid"
\* recoverRunningExecutions: the executions reconcile has something to say about.
Recoverable(e) == Running(e) /\ record[e].pid /\ exit[e] # "torn"

RecoverOne(e) ==
    /\ e \in recovering
    /\ recovering' = recovering \ {e}
    /\ IF Recoverable(e) THEN Settled(e, Outcome(e, exit[e] = "valid" \/ process[e] = "ended"))
       ELSE UNCHANGED <<record, observer>>
    /\ UNCHANGED <<exit, log, world, start, notified, bounds>>

\* The probe of the process does not tell, or the record cannot be written.
RecoverFails(e) ==
    /\ e \in recovering /\ Fault
    /\ recovering' = recovering \ {e}
    /\ UNCHANGED <<durable, world, start, observer, notified>>

StartStep(e) ==
    \/ CreateRecord(e) \/ CreateFails(e) \/ Launch(e) \/ LaunchFails(e)
    \/ SavePid(e) \/ SavePidFails(e) \/ RecordFailure(e) \/ RecordFailureFails(e)
ProcessStep(e) == End(e) \/ Flush(e) \/ \E event \in TurnEvents : Emit(e, event)
CompletionStep(e) ==
    \/ SaveExit(e) \/ SaveExitFails(e) \/ Settle(e) \/ SettleFails(e) \/ Notify(e)
    \/ RecoverOne(e) \/ RecoverFails(e)

ExecutionNext ==
    \/ \E e \in Executions : BeginStart(e) \/ EndStart(e) \/ StartStep(e)
                             \/ ProcessStep(e) \/ CompletionStep(e)
    \/ Restart

\* The runtime goes on with what it has begun, and a process it is waiting for
\* is seen to end; no process need ever end, and nothing need ever be started.
CompletionFairness(e) ==
    /\ WF_executionVars(SaveExit(e)) /\ WF_executionVars(Settle(e))
    /\ WF_executionVars(RecoverOne(e))
ExecutionFairness == \A e \in Executions : CompletionFairness(e)

ExecutionSpec == ExecutionInit /\ [][ExecutionNext]_executionVars /\ ExecutionFairness

-----------------------------------------------------------------------------
(* Properties *)

\* An execution is recorded as passed only if its process wrote that the turn
\* was completed, and, when its end was observed, never wrote that it failed.
PassedIsEarned ==
    \A e \in Executions : record[e].status = "passed" =>
        /\ "completed" \in did[e]
        /\ exit[e] = "valid" => "failed" \notin did[e]

\* The end of a process that the runtime watches, or finds ended when it
\* starts, becomes the outcome of its execution, also when the runtime stops
\* in between; only a failing file operation, or a torn file that a stop leaves
\* of its evidence or of a record of its task, keeps the execution running.
Unsettled(e) ==
    /\ Running(e) /\ record[e].pid /\ process[e] = "ended"
    /\ observer[e] # "none" \/ e \in recovering
EndIsSettled ==
    \A e \in Executions : Unsettled(e) ~>
        (Terminal(e) \/ exit[e] = "torn" \/ ~Listable(e) \/ faults > 0)

\* Every execution of the adapter lives as ExecutionLife says.
Life == INSTANCE ExecutionLife WITH
    status <- [e \in Executions |->
        IF record[e].status = "torn" THEN "none" ELSE record[e].status]
ImplementsLife == Life!LifeSpec
=============================================================================

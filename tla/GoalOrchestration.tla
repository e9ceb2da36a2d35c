-------------------------- MODULE GoalOrchestration --------------------------
(***************************************************************************)
(* One goal of GoalOrchestrationService (goal-orchestration.ts): the tasks *)
(* of its phases are launched and reviewed one after the other.            *)
(*                                                                         *)
(* Below it are services with records of their own, and the runtime may    *)
(* stop between any two writes: TaskContext, ControlledActuation, the      *)
(* execution and AutoIteration.  They are kept to what a goal reads of     *)
(* them: ControlledActuation and AutoIteration have modules of their own.  *)
(*                                                                         *)
(* Calls for one goal are served one after the other (serial).  The five   *)
(* records of a task are read at once; only the task and the loop change   *)
(* under the goal, so that these two are read in steps of their own.       *)
(***************************************************************************)
EXTENDS Naturals, FiniteSets

CONSTANTS
    N,               \* the planned tasks are numbered through the phases
    PhaseOf,         \* the phase of each task
    Kinds,           \* "plan": createGoal and startGoal, "review": startReviewGoal
    MaxFailures      \* bound, for each kind: stops of the runtime, and kinds of
                     \* failing reads and writes, together

Tasks == 1 .. N
Phases == {PhaseOf[i] : i \in Tasks}

ASSUME GoalAssumption ==
    /\ N \in Nat \ {0}
    /\ PhaseOf \in [Tasks -> Nat]
    /\ \A i, j \in Tasks : i <= j => PhaseOf[i] <= PhaseOf[j]
    /\ Kinds \subseteq {"plan", "review"}
    /\ MaxFailures \in [Kinds -> Nat]

VARIABLES
    goal,                                      \* the persisted record
    task,                                      \* TaskContext of each task
    authorized, actuation, execution,          \* the records of its launch
    launches, proven,                          \* processes, and saved process ids
    loop,                                      \* AutoIteration of each task
    closing, telling,                          \* its last write, and its listener
    notice,                                    \* the message to the human, in the chat
    calls, flight,                             \* calls that wait, and the one being served
    timer, recovering,
    crashes, faults

lower == <<authorized, actuation, execution, launches, proven>>
auto == <<loop, closing, telling>>
waiting == <<calls, timer, recovering>>
bounds == <<crashes, faults>>
goalVars == <<goal, task, lower, auto, notice, flight, waiting, bounds>>

-----------------------------------------------------------------------------
Ends == {"completed", "failed", "human_required"}
Statuses == {"none", "pending", "running"} \cup Ends
Goal == [status: Statuses, kind: {"plan", "review"}, at: 0 .. N, error: BOOLEAN,
         info: BOOLEAN, phase: [Phases -> Statuses \ {"none"}]]
Places == {"idle", "begin", "read", "launch", "authorize", "reserve", "create", "spawn",
           "spawned", "launched", "unlaunched", "startLoop", "advance", "terminated", "outcome",
           "error", "setTask", "checkpoint", "end", "info", "notify"}
Flight == [at: Places, by: {"call", "timer"}, to: Ends,
           task: {"unread", "none", "torn", "open", "reviewing"} \cup Ends,
           loop: {"unread", "none", "active"} \cup Ends]

NoFlight == [at |-> "idle", by |-> "call", to |-> "failed", task |-> "unread", loop |-> "unread"]

GoalTypeOK ==
    /\ goal \in Goal
    /\ task \in [Tasks -> {"none", "torn", "open", "reviewing"} \cup Ends]
    /\ authorized \subseteq Tasks /\ proven \subseteq Tasks
    /\ actuation \in [Tasks -> {"none", "starting", "started", "failed"}]
    /\ execution \in [Tasks -> {"none", "running", "passed", "failed", "terminated"}]
    /\ launches \in [Tasks -> Nat]
    /\ loop \in [Tasks -> {"none", "active"} \cup Ends]
    /\ closing \subseteq Tasks /\ telling \subseteq Tasks
    /\ notice \in {"none", "waiting", "retryable", "settled"}
    /\ calls \subseteq {"start", "advance", "timer"}
    /\ flight \in Flight
    /\ timer \in BOOLEAN /\ recovering \in BOOLEAN
    /\ crashes \in 0 .. MaxFailures[goal.kind]
    /\ faults \subseteq {"read", "slow", "task", "goal", "launch", "queue"}

\* The execution of a review goal was run and passed outside of any goal.
GoalInit ==
    /\ \E kind \in Kinds :
        LET ran == {i \in Tasks : kind = "review" /\ i = 1} IN
        /\ goal = [status |-> "none", kind |-> kind, at |-> 0, error |-> FALSE, info |-> FALSE,
                   phase |-> [p \in Phases |-> "pending"]]
        /\ task = [i \in Tasks |-> IF i \in ran THEN "open" ELSE "none"]
        /\ execution = [i \in Tasks |-> IF i \in ran THEN "passed" ELSE "none"]
        /\ launches = [i \in Tasks |-> IF i \in ran THEN 1 ELSE 0]
        /\ proven = ran
    /\ authorized = {} /\ actuation = [i \in Tasks |-> "none"]
    /\ loop = [i \in Tasks |-> "none"] /\ closing = {} /\ telling = {}
    /\ notice = "none"
    /\ calls = {} /\ flight = NoFlight /\ timer = FALSE /\ recovering = FALSE
    /\ crashes = 0 /\ faults = {}

-----------------------------------------------------------------------------
(* The flight *)

i0 == goal.at
Last == IF goal.kind = "review" THEN 1 ELSE N

At(place) == flight.at = place
Goto(place) == flight' = [flight EXCEPT !.at = place]
Decide(place, outcome) == flight' = [flight EXCEPT !.at = place, !.to = outcome]
Read == flight' = [flight EXCEPT !.at = "read", !.task = "unread", !.loop = "unread"]
Return == flight' = NoFlight

MayFail == crashes + Cardinality(faults) < MaxFailures[goal.kind]
Fault(kind) ==
    /\ MayFail /\ kind \notin faults
    /\ faults' = faults \cup {kind}
    /\ UNCHANGED crashes

ThrowAway(scheduled) ==
    /\ Return
    /\ timer' = (timer \/ flight.by = "timer")
    /\ UNCHANGED <<calls, recovering>>
\* The call fails.  A call of the timer is scheduled again; others are only logged.
Throw(scheduled) ==
    /\ Return
    /\ timer' = (timer \/ scheduled \/ flight.by = "timer")
    /\ UNCHANGED <<calls, recovering>>

\* serial(): the next call reads the goal as the one before it left it.
Serve(call) ==
    /\ At("idle") /\ call \in calls
    /\ calls' = calls \ {call}
    /\ flight' = [NoFlight EXCEPT !.by = IF call = "timer" THEN "timer" ELSE "call",
         !.at = CASE call = "start" /\ goal.status = "pending" -> "begin"
                  [] call = "start" /\ goal.status = "running" ->
                        IF goal.kind = "review" THEN "startLoop" ELSE "read"
                  [] call # "start" /\ goal.status = "running" -> "read"
                  [] call # "start" /\ goal.status = "human_required" -> "notify"
                  [] OTHER -> "idle"]
    /\ UNCHANGED <<goal, task, lower, auto, notice, timer, recovering, bounds>>

-----------------------------------------------------------------------------
(* createGoal, startGoal and startReviewGoal *)

CreateGoal ==
    /\ goal.status = "none" /\ goal.kind = "plan" /\ At("idle")
    /\ goal' = [goal EXCEPT !.status = "pending"]
    /\ UNCHANGED <<task, lower, auto, notice, flight, waiting, bounds>>

\* The goal is saved as running, and then its loop is started.
CreateReviewGoal ==
    /\ goal.status = "none" /\ goal.kind = "review" /\ At("idle")
    /\ task[1] # "none" /\ execution[1] = "passed"
    /\ goal' = [goal EXCEPT !.status = "running", !.at = 1, !.phase[PhaseOf[1]] = "running"]
    /\ Goto("startLoop")
    /\ UNCHANGED <<task, lower, auto, notice, waiting, bounds>>

Begin ==
    /\ At("begin")
    /\ goal' = [goal EXCEPT !.status = "running", !.at = 1, !.phase[PhaseOf[1]] = "running"]
    /\ Read
    /\ UNCHANGED <<task, lower, auto, notice, waiting, bounds>>

CreateStep == CreateGoal \/ CreateReviewGoal \/ Begin

-----------------------------------------------------------------------------
(* driveTask *)

\* The file of the task is opened before the loop is looked up; only a slow
\* open sees a later state than the loop.
ReadTask ==
    /\ At("read") /\ flight.task = "unread"
    /\ flight' = [flight EXCEPT !.task = task[i0]]
    /\ UNCHANGED bounds
ReadLoop ==
    /\ At("read") /\ flight.loop = "unread"
    /\ flight' = [flight EXCEPT !.loop = loop[i0]]
    /\ IF flight.task = "unread" THEN Fault("slow") ELSE UNCHANGED bounds

Evidence == i0 \in authorized \/ actuation[i0] # "none" \/ execution[i0] # "none"
Reviews == goal.kind = "review"

\* What the records contradict.  A task that ended must have ended as its loop,
\* and one without a loop cannot have ended, nor be under review.
ConflictsAnyhow ==
    \/ flight.task = "none" /\ (Evidence \/ flight.loop # "none")
    \/ flight.task = "torn"
    \/ flight.loop # "none" /\ flight.task \in Ends \cup {"reviewing"} /\ flight.task # flight.loop
Conflicts ==
    \/ flight.task = "none" /\ (Evidence \/ flight.loop # "none")
    \/ flight.task = "torn"
    \/ /\ ~Reviews /\ execution[i0] # "terminated"
       /\ \/ flight.loop # "none" /\ flight.task \in Ends /\ flight.task # flight.loop
          \/ flight.loop # "none" /\ ~(Evidence /\ actuation[i0] \in {"starting", "started"}
                                       /\ execution[i0] # "none" /\ i0 \in authorized)
          \/ flight.loop = "none" /\ flight.task \in Ends \cup {"reviewing"}
          \/ /\ flight.loop = "none" /\ actuation[i0] # "failed"
             /\ \/ execution[i0] # "none" /\ actuation[i0] = "none"
                \/ i0 \notin authorized /\ Evidence
                \/ actuation[i0] # "none" /\ execution[i0] = "none"

Judge ==
    /\ At("read") /\ flight.task # "unread" /\ flight.loop # "unread"
    /\ \/ Conflicts /\ Decide("error", "human_required")
       \/ ~Conflicts /\ execution[i0] = "terminated" /\ Goto("terminated")
       \/ /\ ~Conflicts /\ execution[i0] # "terminated"
          /\ \/ flight.loop # "none" /\ Goto("advance")
             \/ flight.loop = "none" /\ Reviews /\ Goto("startLoop")
             \/ /\ flight.loop = "none" /\ ~Reviews
                /\ IF actuation[i0] = "failed" THEN Decide("setTask", "failed") ELSE Goto("launch")
    /\ UNCHANGED bounds

ReadStep ==
    /\ ReadTask \/ ReadLoop \/ Judge
    /\ UNCHANGED <<goal, task, lower, auto, notice, waiting>>

\* createTaskContext writes the file in place.
CreateTask ==
    /\ At("launch") /\ flight.task = "none"
    /\ task' = [task EXCEPT ![i0] = "open"]
    /\ Goto("authorize")
    /\ UNCHANGED <<goal, lower, auto, notice, waiting, bounds>>

Authorize ==
    /\ At("authorize") \/ (At("launch") /\ flight.task # "none")
    /\ authorized' = authorized \cup {i0}
    /\ Goto("reserve")
    /\ UNCHANGED <<actuation, execution, launches, proven>>

ReserveAnyway ==
    /\ At("reserve")
    /\ actuation' = [actuation EXCEPT ![i0] = "starting"]
    /\ Goto("create")
    /\ UNCHANGED <<authorized, execution, launches, proven>>
\* actuate(): an actuation that was reserved before is never launched again.
Reserve ==
    /\ At("reserve")
    /\ IF actuation[i0] = "none"
       THEN actuation' = [actuation EXCEPT ![i0] = "starting"] /\ Goto("create")
       ELSE IF i0 \in proven
       THEN actuation' = [actuation EXCEPT ![i0] = "started"] /\ Goto("startLoop")
       ELSE UNCHANGED actuation /\ Decide("error", "human_required")
    /\ UNCHANGED <<authorized, execution, launches, proven>>

CreateExecution ==
    /\ At("create")
    /\ execution' = [execution EXCEPT ![i0] = "running"]
    /\ Goto("spawn")
    /\ UNCHANGED <<authorized, actuation, launches, proven>>

Spawn ==
    /\ At("spawn")
    /\ launches' = [launches EXCEPT ![i0] = @ + 1]
    /\ Goto("spawned")
    /\ UNCHANGED <<authorized, actuation, execution, proven>>

SavePid ==
    /\ At("spawned")
    /\ proven' = proven \cup {i0}
    /\ Goto("launched")
    /\ UNCHANGED <<authorized, actuation, execution, launches>>

LaunchFails ==
    /\ At("spawn") \/ At("spawned")
    /\ execution' = [execution EXCEPT ![i0] = "failed"]
    /\ Goto("unlaunched")
    /\ UNCHANGED <<authorized, actuation, launches, proven>>

MarkActuation ==
    /\ At("launched") \/ At("unlaunched")
    /\ actuation' = [actuation EXCEPT ![i0] = IF At("launched") THEN "started" ELSE "failed"]
    /\ IF At("launched") THEN Goto("startLoop") ELSE Decide("setTask", "failed")
    /\ UNCHANGED <<authorized, execution, launches, proven>>

LaunchStep ==
    /\ \/ Authorize \/ Reserve \/ CreateExecution \/ Spawn \/ SavePid \/ LaunchFails
       \/ MarkActuation
    /\ UNCHANGED <<goal, task, auto, notice, waiting, bounds>>

\* start() creates the loop, or advances the one there is.
StartLoop ==
    /\ At("startLoop")
    /\ loop' = [loop EXCEPT ![i0] = IF @ = "none" THEN "active" ELSE @]
    /\ Goto("outcome")
    /\ UNCHANGED <<closing, telling>>

\* A flight of the loop returns it, ended or waiting for something.
AdvanceLoop == At("advance") /\ Goto("outcome") /\ UNCHANGED auto

\* A terminated execution is handed to a human, and so is its loop.
HandOver ==
    /\ At("terminated")
    /\ loop' = [loop EXCEPT ![i0] = IF @ \in Ends THEN @ ELSE "human_required"]
    /\ Decide("setTask", "human_required")
    /\ UNCHANGED <<closing, telling>>

LoopOutcome ==
    /\ At("outcome")
    /\ IF loop[i0] \in Ends THEN Decide("setTask", loop[i0]) ELSE Return
    /\ UNCHANGED auto

LoopStep ==
    /\ StartLoop \/ AdvanceLoop \/ HandOver \/ LoopOutcome
    /\ UNCHANGED <<goal, task, lower, notice, waiting, bounds>>

-----------------------------------------------------------------------------
(* completeTask, finish and notifyHumanRequired *)

SaveError ==
    /\ At("error")
    /\ goal' = [goal EXCEPT !.error = TRUE]
    /\ Goto("setTask")
    /\ UNCHANGED <<task, notice>>

SetTask ==
    /\ At("setTask") /\ task[i0] # "torn"
    /\ task' = [task EXCEPT ![i0] = IF @ = "none" THEN @ ELSE flight.to]
    /\ Goto(IF flight.to = "completed" THEN "checkpoint" ELSE "end")
    /\ UNCHANGED <<goal, notice>>

\* setTaskStatus fails on a task file that does not parse.
SetTornTask ==
    /\ At("setTask") /\ task[i0] = "torn"
    /\ Throw(FALSE)
    /\ UNCHANGED <<goal, task, notice>>

PhasesAdvanced ==
    [goal.phase EXCEPT ![PhaseOf[i0]] = IF PhaseOf[i0] = PhaseOf[i0 + 1] THEN @ ELSE "completed",
                       ![PhaseOf[i0 + 1]] = "running"]
Checkpoint ==
    /\ At("checkpoint")
    /\ \/ /\ i0 < Last
          /\ goal' = [goal EXCEPT !.at = @ + 1, !.phase = PhasesAdvanced]
          /\ Read
       \/ /\ i0 = Last
          /\ goal' = [goal EXCEPT !.status = "completed", !.phase[PhaseOf[i0]] = "completed"]
          /\ Return
    /\ UNCHANGED <<task, notice>>

EndGoal ==
    /\ At("end")
    /\ goal' = [goal EXCEPT !.status = flight.to, !.phase[PhaseOf[i0]] = flight.to]
    /\ IF flight.to = "human_required" THEN Goto("notify") ELSE Return
    /\ UNCHANGED <<task, notice>>

\* What the human is told is composed and saved once.
SaveInfo ==
    /\ At("notify") /\ ~goal.info
    /\ goal' = [goal EXCEPT !.info = TRUE]
    /\ UNCHANGED <<task, notice, flight>>

GoalStep ==
    /\ SaveError \/ SetTask \/ Checkpoint \/ EndGoal \/ SaveInfo
    /\ UNCHANGED <<lower, auto, waiting, bounds>>

EnqueueOnce ==
    /\ At("notify") /\ goal.info
    /\ notice' = IF notice = "none" THEN "waiting" ELSE notice
    /\ Return
    /\ UNCHANGED <<calls, timer, recovering, goal, task>>
\* The message has a fixed id: it is queued once, again only after it certainly
\* was not sent, and looked after by the timer until that is settled.
Enqueue ==
    /\ At("notify") /\ goal.info
    /\ notice' = IF notice \in {"none", "retryable"} THEN "waiting" ELSE notice
    /\ timer' = (timer \/ notice' = "waiting")
    /\ Return
    /\ UNCHANGED <<calls, recovering, goal, task>>

ThrowStep ==
    /\ Enqueue \/ (SetTornTask /\ UNCHANGED notice)
    /\ UNCHANGED <<lower, auto, bounds>>

-----------------------------------------------------------------------------
(* Failing reads and writes *)

\* A failing read or launch is an error of the task: driveTask throws.
DriveFault ==
    /\ \/ flight.at \in {"read", "startLoop", "advance", "terminated"} /\ Fault("read")
       \/ flight.at \in {"launch", "authorize", "reserve", "create", "launched", "unlaunched"}
            /\ Fault("launch")
    /\ Decide("error", "human_required")
    /\ UNCHANGED <<task, notice, waiting>>

TornTask ==
    /\ At("launch") /\ flight.task = "none" /\ Fault("task")
    /\ task' = [task EXCEPT ![i0] = "torn"]
    /\ Decide("error", "human_required")
    /\ UNCHANGED <<notice, waiting>>

\* Nobody retries a status of the task that could not be written, unless the
\* timer made the call.
TaskFault ==
    /\ At("setTask") /\ Fault("task")
    /\ Throw(FALSE)
    /\ UNCHANGED <<task, notice>>

\* update() schedules another call while the goal is running.
UpdateFault ==
    /\ flight.at \in {"begin", "error", "checkpoint", "end"} /\ Fault("goal")
    /\ Throw(goal.status = "running")
    /\ UNCHANGED <<task, notice>>

NotifyFault ==
    /\ At("notify") /\ Fault("queue")
    /\ Throw(TRUE)
    /\ UNCHANGED <<task, notice>>

FaultStep ==
    /\ DriveFault \/ TornTask \/ TaskFault \/ UpdateFault \/ NotifyFault
    /\ UNCHANGED <<goal, lower, auto>>

-----------------------------------------------------------------------------
(* Those who call, and the loops *)

Start ==
    /\ goal.status # "none" /\ "start" \notin calls /\ ~recovering
    /\ calls' = calls \cup {"start"}
    /\ UNCHANGED <<timer, recovering, telling>>

Fire ==
    /\ timer /\ "timer" \notin calls
    /\ timer' = FALSE /\ calls' = calls \cup {"timer"}
    /\ UNCHANGED <<recovering, telling>>

\* onAutoIterationTerminal: only the running goal of that loop is advanced.
Hear(i) ==
    /\ i \in telling
    /\ telling' = telling \ {i}
    /\ calls' = IF goal.status = "running" /\ goal.at = i THEN calls \cup {"advance"} ELSE calls
    /\ UNCHANGED <<timer, recovering>>

\* AutoIteration announces the ended loops again, then the goal is advanced.
Recover ==
    /\ recovering
    /\ recovering' = FALSE
    /\ calls' = IF goal.status \in {"running", "human_required"}
                THEN calls \cup {"advance"} ELSE calls
    /\ telling' = telling \cup {i \in Tasks : loop[i] \in Ends}
    /\ UNCHANGED timer

CallStep ==
    /\ Start \/ Fire \/ Recover \/ \E i \in Tasks : Hear(i)
    /\ UNCHANGED <<goal, task, lower, loop, closing, notice, flight, bounds>>

\* The runtime stops, perhaps while a task file is written in place.
Crash ==
    /\ MayFail
    /\ crashes' = crashes + 1
    /\ \E s \in {"none"} \cup {t \in {"torn"} : At("launch") /\ flight.task = "none"} :
        task' = IF s = "torn" THEN [task EXCEPT ![i0] = s] ELSE task
    /\ flight' = NoFlight /\ calls' = {} /\ timer' = FALSE /\ recovering' = TRUE
    /\ closing' = {} /\ telling' = {}
    /\ UNCHANGED <<goal, lower, loop, notice, faults>>

EndExecution(i) ==
    /\ execution[i] = "running" /\ i \in proven
    /\ \E s \in {"passed", "failed", "terminated"} : execution' = [execution EXCEPT ![i] = s]
    /\ UNCHANGED <<goal, task, authorized, actuation, launches, proven, auto, notice, flight,
                   waiting, bounds>>

\* The loop sets the task under review, and when it ends writes its own file,
\* then the task, and then tells the goal.
LoopReviews(i) ==
    /\ loop[i] = "active" /\ execution[i] = "passed" /\ task[i] = "open"
    /\ task' = [task EXCEPT ![i] = "reviewing"]
    /\ UNCHANGED <<auto, faults>>
LoopEnds(i) ==
    /\ loop[i] = "active" /\ execution[i] # "running"
    /\ \E s \in Ends : /\ s = "completed" => execution[i] = "passed"
                       /\ loop' = [loop EXCEPT ![i] = s]
    /\ closing' = closing \cup {i}
    /\ UNCHANGED <<task, telling, faults>>
LoopCloses(i) ==
    /\ i \in closing
    /\ closing' = closing \ {i} /\ telling' = telling \cup {i}
    /\ \/ /\ task' = [task EXCEPT ![i] = IF @ \in {"none", "torn"} THEN @ ELSE loop[i]]
          /\ UNCHANGED faults
       \/ Fault("task") /\ UNCHANGED task
    /\ UNCHANGED loop
AutoStep ==
    /\ \E i \in Tasks : LoopReviews(i) \/ LoopEnds(i) \/ LoopCloses(i)
    /\ UNCHANGED <<goal, lower, notice, flight, waiting, crashes>>

\* The chat takes the message, or it certainly was not sent.
ChatStep ==
    /\ notice = "waiting"
    /\ notice' \in {"settled", "retryable"}
    /\ UNCHANGED <<goal, task, lower, auto, flight, waiting, bounds>>

Work ==
    \/ \E c \in calls : Serve(c)
    \/ CreateStep \/ ReadStep \/ CreateTask \/ LaunchStep \/ LoopStep \/ GoalStep \/ ThrowStep
GoalNext ==
    \/ Work \/ FaultStep \/ CallStep \/ Crash \/ AutoStep \/ ChatStep
    \/ \E i \in Tasks : EndExecution(i)

\* Calls are served in the order they came, and the timers of the runtime fire.
GoalFairness ==
    /\ WF_goalVars(Work)
    /\ \A c \in {"advance", "timer"} : SF_goalVars(Serve(c))
    /\ WF_goalVars(Fire /\ CallStep)
    /\ WF_goalVars(Recover /\ CallStep)
    /\ \A i \in Tasks : WF_goalVars(Hear(i) /\ CallStep) /\ WF_goalVars(LoopCloses(i) /\ AutoStep)

GoalSafeSpec == GoalInit /\ [][GoalNext]_goalVars
GoalSpec == GoalSafeSpec /\ GoalFairness

-----------------------------------------------------------------------------
(* Properties *)

\* Where nothing failed, a human is called only to a loop that asked for one, to
\* an execution that was terminated, and to a launch that a crash interrupted.
HumanIsEarned ==
    goal.status = "human_required" /\ faults = {} =>
        \/ loop[i0] = "human_required"
        \/ execution[i0] = "terminated"
        \/ crashes > 0 /\ actuation[i0] # "started"

\* The tasks are done in their order, launched once, and left when approved.
ImplementsPlan == INSTANCE GoalPlan WITH
    last <- Last,
    progress <- IF goal.status = "none" THEN "pending" ELSE goal.status,
    current <- goal.at,
    started <- [i \in Tasks |-> IF goal.at = 0 THEN 0 ELSE launches[i]],
    approved <- {i \in Tasks : loop[i] = "completed"}
PlanKept == ImplementsPlan!PlanSpec

\* The end of a loop moves its goal, also when the runtime stops in between,
\* or fails to save the goal.
EndedLoopFollowed ==
    \A i \in Tasks :
        (goal.status = "running" /\ goal.at = i /\ loop[i] \in Ends)
            ~> (goal.status # "running" \/ goal.at # i \/ "task" \in faults)
=============================================================================

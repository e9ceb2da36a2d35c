---------------------- MODULE GoalOrchestration_proofs ----------------------
(***************************************************************************)
(* Proofs about a goal, for any number of tasks and phases, and any number *)
(* of stops and failures.                                                  *)
(***************************************************************************)
EXTENDS GoalOrchestration, TLAPS, FiniteSetTheorems

\* Where the call that is served may be, given the goal.
Where ==
    /\ flight.at \notin {"idle", "begin", "notify"} => goal.status = "running"
    /\ flight.at = "begin" => goal.status = "pending"
    /\ flight.at = "notify" => goal.status = "human_required"
    /\ goal.status = "pending" => goal.kind = "plan"
    /\ goal.at = 0 <=> goal.status \in {"none", "pending"}
    /\ goal.at <= Last
    /\ goal.kind \in Kinds

\* A loop writes the last time when it ended.
Closes == \A i \in closing : loop[i] \in Ends

Types == GoalTypeOK /\ Where /\ Closes

-----------------------------------------------------------------------------
(* Types *)

\* The kinds of failures can be counted.
LEMMA FaultsFinite ==
    ASSUME faults \subseteq {"read", "slow", "task", "goal", "launch", "queue"}
    PROVE  Cardinality(faults) \in Nat
<1>1. IsFiniteSet({"read", "slow", "task", "goal", "launch", "queue"})
    <2>1. IsFiniteSet({"read"})
        BY FS_Singleton
    <2>2. IsFiniteSet({"read"} \cup {"slow"})
        BY <2>1, FS_AddElement
    <2>3. IsFiniteSet({"read"} \cup {"slow"} \cup {"task"})
        BY <2>2, FS_AddElement
    <2>4. IsFiniteSet({"read"} \cup {"slow"} \cup {"task"} \cup {"goal"})
        BY <2>3, FS_AddElement
    <2>5. IsFiniteSet({"read"} \cup {"slow"} \cup {"task"} \cup {"goal"} \cup {"launch"})
        BY <2>4, FS_AddElement
    <2>6. IsFiniteSet({"read"} \cup {"slow"} \cup {"task"} \cup {"goal"} \cup {"launch"} \cup {"queue"})
        BY <2>5, FS_AddElement
    <2>7. {"read", "slow", "task", "goal", "launch", "queue"}
            = {"read"} \cup {"slow"} \cup {"task"} \cup {"goal"} \cup {"launch"} \cup {"queue"}
        OBVIOUS
    <2>. QED
        BY <2>6, <2>7
<1>. QED
    BY <1>1, FS_Subset, FS_CardinalityType

\* Where the flight may go and what it may decide.
LEMMA FlightTypes ==
    ASSUME flight \in Flight, NEW place \in Places, NEW outcome \in Ends
    PROVE  /\ NoFlight \in Flight
           /\ Goto(place) => flight' \in Flight /\ flight'.at = place
           /\ Decide(place, outcome) => flight' \in Flight /\ flight'.at = place
           /\ Read => flight' \in Flight /\ flight'.at = "read"
           /\ Return => flight' \in Flight /\ flight'.at = "idle"
<1>1. NoFlight \in Flight /\ NoFlight.at = "idle"
    BY DEF NoFlight, Flight, Places, Ends
<1>2. Goto(place) => flight' \in Flight /\ flight'.at = place
    BY DEF Goto, Flight
<1>3. Decide(place, outcome) => flight' \in Flight /\ flight'.at = place
    BY DEF Decide, Flight
<1>4. Read => flight' \in Flight /\ flight'.at = "read"
    BY DEF Read, Flight, Places
<1>. QED
    BY <1>1, <1>2, <1>3, <1>4 DEF Return

\* Every step of a goal keeps the types.
LEMMA NextTypes == Types /\ [GoalNext]_goalVars => Types'
<1>. SUFFICES ASSUME Types, [GoalNext]_goalVars PROVE Types'
    OBVIOUS
<1>. USE GoalAssumption DEF Tasks, Ends, i0, At
<1>0. GoalTypeOK /\ Where /\ Closes
    BY DEF Types
<1>f. flight \in Flight /\ goal \in Goal /\ flight.at \in Places
    BY <1>0 DEF GoalTypeOK, Flight
<1>g. /\ \A place \in Places : Goto(place) => flight' \in Flight /\ flight'.at = place
      /\ \A place \in Places, outcome \in Ends :
            Decide(place, outcome) => flight' \in Flight /\ flight'.at = place
      /\ Read => flight' \in Flight /\ flight'.at = "read"
      /\ Return => flight' \in Flight /\ flight'.at = "idle"
    BY <1>f, FlightTypes DEF Places
<1>1. ASSUME NEW c \in calls, Serve(c) PROVE Types'
    <2>1. /\ flight'.at \in {"begin", "startLoop", "read", "notify", "idle"}
          /\ flight' \in Flight
          /\ flight'.at \in {"startLoop", "read"} => goal.status = "running"
          /\ flight'.at = "begin" => goal.status = "pending"
          /\ flight'.at = "notify" => goal.status = "human_required"
        BY <1>0, <1>1 DEF Serve, NoFlight, Flight, Places, GoalTypeOK
    <2>2. calls' \subseteq {"start", "advance", "timer"}
        BY <1>0, <1>1 DEF Serve, GoalTypeOK
    <2>3. UNCHANGED <<goal, task, lower, auto, notice, timer, recovering, bounds>>
        BY <1>1 DEF Serve
    <2>. QED
        BY <1>0, <2>1, <2>2, <2>3 DEF Types, GoalTypeOK, Closes, Where, Last, lower, auto, bounds
<1>2. ASSUME CreateStep PROVE Types'
    <2>1. UNCHANGED <<task, lower, auto, notice, waiting, bounds>>
        BY <1>2 DEF CreateStep, CreateGoal, CreateReviewGoal, Begin
    <2>2. CASE CreateGoal
        <3>1. goal' \in Goal /\ goal'.at = goal.at /\ goal'.kind = "plan" /\ goal'.status = "pending"
            BY <1>f, <2>2 DEF CreateGoal, Goal, Statuses
        <3>. QED
            BY <1>0, <1>f, <2>1, <2>2, <3>1
               DEF CreateGoal, Types, GoalTypeOK, Closes, Where, Last, lower, auto, waiting, bounds
    <2>3. CASE CreateReviewGoal \/ Begin
        <3>1. PhaseOf[1] \in Phases /\ 1 \in 0 .. N
            BY DEF Phases
        <3>2. [goal.phase EXCEPT ![PhaseOf[1]] = "running"] \in [Phases -> Statuses \ {"none"}]
            BY <1>f, <3>1 DEF Goal, Statuses
        <3>a. /\ goal' = [goal EXCEPT !.status = "running", !.at = 1, !.phase[PhaseOf[1]] = "running"]
              /\ Goto("startLoop") \/ Read
            BY <2>3 DEF CreateReviewGoal, Begin
        <3>3. goal' \in Goal /\ goal'.at = 1 /\ goal'.kind = goal.kind /\ goal'.status = "running"
            BY <1>f, <3>a, <3>1, <3>2 DEF Goal, Statuses
        <3>4. flight' \in Flight /\ flight'.at \in {"startLoop", "read"}
            BY <1>g, <3>a DEF Places
        <3>5. Where'
            BY <1>0, <3>3, <3>4 DEF Where, Last
        <3>. QED
            BY <1>0, <2>1, <3>3, <3>4, <3>5 DEF Types, GoalTypeOK, Closes, lower, auto, waiting, bounds
    <2>. QED
        BY <1>2, <2>2, <2>3 DEF CreateStep
<1>t. ASSUME UNCHANGED goal, flight' \in Flight,
             flight'.at \notin {"idle", "begin", "notify"} => goal.status = "running",
             flight'.at \notin {"begin", "notify"} \/ flight'.at = flight.at
      PROVE  Where'
    BY <1>0, <1>t DEF Where, Last
<1>3. ASSUME ReadStep PROVE Types'
    <2>1. /\ flight.at = "read" /\ UNCHANGED <<goal, task, lower, auto, notice, waiting, crashes>>
          /\ faults' \subseteq faults \cup {"slow"}
        BY <1>3 DEF ReadStep, ReadTask, ReadLoop, Judge, Fault, bounds
    <2>2. flight' \in Flight /\ flight'.at \notin {"idle", "begin", "notify"}
        <3>1. goal.at \in Tasks /\ task[goal.at] \in {"none", "torn", "open", "reviewing"} \cup Ends
              /\ loop[goal.at] \in {"none", "active"} \cup Ends
            BY <1>0, <2>1 DEF GoalTypeOK, Where, Goal
        <3>2. CASE ReadTask
            BY <1>f, <3>1, <3>2 DEF ReadTask, Flight
        <3>3. CASE ReadLoop
            BY <1>f, <3>1, <3>3 DEF ReadLoop, Flight
        <3>4. CASE Judge
            BY <1>g, <3>4 DEF Judge, Places
        <3>. QED
            BY <1>3, <3>2, <3>3, <3>4 DEF ReadStep
    <2>3. Where'
        BY <1>0, <1>t, <2>1, <2>2 DEF Where
    <2>. QED
        BY <1>0, <2>1, <2>2, <2>3 DEF Types, GoalTypeOK, Closes, lower, auto, waiting
<1>4. ASSUME CreateTask PROVE Types'
    <2>1. flight' \in Flight /\ flight'.at = "authorize" /\ goal.status = "running"
        BY <1>0, <1>g, <1>4 DEF CreateTask, Places, Where
    <2>2. Where'
        BY <1>4, <1>t, <2>1 DEF CreateTask
    <2>. QED
        BY <1>0, <1>4, <2>1, <2>2 DEF CreateTask, Types, GoalTypeOK, Closes, lower, auto, waiting, bounds
<1>5. ASSUME LaunchStep PROVE Types'
    <2>1. /\ flight.at \in {"authorize", "launch", "reserve", "create", "spawn", "spawned", "launched", "unlaunched"}
          /\ UNCHANGED <<goal, task, auto, notice, waiting, bounds>>
        BY <1>5 DEF LaunchStep, Authorize, Reserve, CreateExecution, Spawn, SavePid, LaunchFails, MarkActuation
    <2>2. goal.status = "running" /\ goal.at \in Tasks
        BY <1>0, <2>1 DEF Where, GoalTypeOK, Goal
    <2> DEFINE Kept == /\ flight' \in Flight /\ flight'.at \notin {"idle", "begin", "notify"}
                      /\ authorized' \subseteq Tasks /\ proven' \subseteq Tasks
                      /\ actuation' \in [Tasks -> {"none", "starting", "started", "failed"}]
                      /\ execution' \in [Tasks -> {"none", "running", "passed", "failed", "terminated"}]
                      /\ launches' \in [Tasks -> Nat]
    <2>3. ASSUME Authorize PROVE Kept
        BY <1>0, <1>g, <2>2, <2>3 DEF Authorize, Places, GoalTypeOK
    <2>4. ASSUME Reserve PROVE Kept
        <3>1. flight' \in Flight /\ flight'.at \in {"create", "startLoop", "error"}
            BY <1>g, <2>4 DEF Reserve, Places
        <3>2. actuation' \in [Tasks -> {"none", "starting", "started", "failed"}]
            <4>1. \/ UNCHANGED actuation
                  \/ actuation' = [actuation EXCEPT ![goal.at] = "starting"]
                  \/ actuation' = [actuation EXCEPT ![goal.at] = "started"]
                BY <2>4 DEF Reserve
            <4>2. actuation \in [Tasks -> {"none", "starting", "started", "failed"}]
                BY <1>0 DEF GoalTypeOK
            <4>. QED
                BY <4>1, <4>2
        <3>. QED
            BY <1>0, <2>4, <3>1, <3>2 DEF Reserve, GoalTypeOK
    <2>5. ASSUME CreateExecution PROVE Kept
        BY <1>0, <1>g, <2>2, <2>5 DEF CreateExecution, Places, GoalTypeOK
    <2>6. ASSUME Spawn PROVE Kept
        <3>1. launches[goal.at] + 1 \in Nat /\ launches \in [Tasks -> Nat]
            BY <1>0, <2>2 DEF GoalTypeOK
        <3>2. launches' \in [Tasks -> Nat]
            BY <2>6, <3>1 DEF Spawn
        <3>3. flight' \in Flight /\ flight'.at = "spawned"
            BY <1>g, <2>6 DEF Spawn, Places
        <3>. QED
            BY <1>0, <2>6, <3>2, <3>3 DEF Spawn, GoalTypeOK
    <2>7. ASSUME SavePid PROVE Kept
        BY <1>0, <1>g, <2>2, <2>7 DEF SavePid, Places, GoalTypeOK
    <2>8. ASSUME LaunchFails PROVE Kept
        BY <1>0, <1>g, <2>2, <2>8 DEF LaunchFails, Places, GoalTypeOK
    <2>9. ASSUME MarkActuation PROVE Kept
        <3>1. flight' \in Flight /\ flight'.at \in {"setTask", "startLoop"}
            BY <1>g, <2>9 DEF MarkActuation, Places
        <3>2. actuation' \in [Tasks -> {"none", "starting", "started", "failed"}]
            BY <1>0, <2>9 DEF MarkActuation, GoalTypeOK
        <3>. QED
            BY <1>0, <2>9, <3>1, <3>2 DEF MarkActuation, GoalTypeOK
    <2>10. Kept
        BY <1>5, <2>3, <2>4, <2>5, <2>6, <2>7, <2>8, <2>9 DEF LaunchStep
    <2>11. Where'
        BY <1>t, <2>1, <2>2, <2>10
    <2>. QED
        BY <1>0, <2>1, <2>10, <2>11 DEF Types, GoalTypeOK, Closes, auto, waiting, bounds
<1>6. ASSUME LoopStep PROVE Types'
    <2>1. /\ flight.at \in {"startLoop", "advance", "terminated", "outcome"}
          /\ UNCHANGED <<goal, task, lower, closing, telling, notice, waiting, bounds>>
        BY <1>6 DEF LoopStep, StartLoop, AdvanceLoop, HandOver, LoopOutcome, auto
    <2>2. /\ goal.status = "running" /\ goal.at \in Tasks
          /\ loop \in [Tasks -> {"none", "active"} \cup Ends] /\ closing \subseteq Tasks
        BY <1>0, <2>1 DEF Where, GoalTypeOK, Goal
    <2> DEFINE Kept == /\ loop' \in [Tasks -> {"none", "active"} \cup Ends] /\ Closes'
                      /\ flight' \in Flight /\ flight'.at \notin {"begin", "notify"}
    <2>3. ASSUME StartLoop PROVE Kept
        BY <1>0, <1>g, <2>2, <2>3 DEF StartLoop, Places, Closes
    <2>4. ASSUME AdvanceLoop PROVE Kept
        BY <1>0, <1>g, <2>2, <2>4 DEF AdvanceLoop, Places, Closes, auto
    <2>5. ASSUME HandOver PROVE Kept
        BY <1>0, <1>g, <2>2, <2>5 DEF HandOver, Places, Closes
    <2>6. ASSUME LoopOutcome PROVE Kept
        BY <1>0, <1>g, <2>2, <2>6 DEF LoopOutcome, Places, Closes, auto
    <2>7. Kept
        BY <1>6, <2>3, <2>4, <2>5, <2>6 DEF LoopStep
    <2>8. Where'
        BY <1>t, <2>1, <2>2, <2>7
    <2>. QED
        BY <1>0, <2>1, <2>7, <2>8 DEF Types, GoalTypeOK, lower, waiting, bounds

<1>7. ASSUME GoalStep PROVE Types'
    <2>1. /\ flight.at \in {"error", "setTask", "checkpoint", "end", "notify"}
          /\ UNCHANGED <<lower, auto, waiting, bounds, notice>>
        BY <1>7 DEF GoalStep, SaveError, SetTask, Checkpoint, EndGoal, SaveInfo
    <2>2. goal.at \in Tasks /\ goal.kind \in {"plan", "review"}
        BY <1>0, <2>1 DEF Where, GoalTypeOK, Goal
    <2>3. CASE SaveError \/ SetTask \/ SaveInfo
        <3>1. goal' \in Goal /\ goal'.at = goal.at /\ goal'.kind = goal.kind /\ goal'.status = goal.status
            BY <1>f, <2>3 DEF SaveError, SetTask, SaveInfo, Goal
        <3>2. task' \in [Tasks -> {"none", "torn", "open", "reviewing"} \cup Ends]
            BY <1>0, <1>f, <2>3 DEF SaveError, SetTask, SaveInfo, GoalTypeOK, Flight
        <3>3. flight' \in Flight /\ (IF flight.at = "notify" THEN flight'.at = "notify"
                                     ELSE flight'.at \in {"setTask", "checkpoint", "end"})
            BY <1>f, <1>g, <2>3 DEF SaveError, SetTask, SaveInfo, Places
        <3>4. Where'
            BY <1>0, <2>1, <3>1, <3>3 DEF Where, Last
        <3>. QED
            BY <1>0, <2>1, <3>1, <3>2, <3>3, <3>4 DEF Types, GoalTypeOK, Closes, lower, auto, waiting, bounds
    <2>4. CASE Checkpoint
        <3>0. Last \in Nat /\ goal.at \in Nat
            BY <2>2 DEF Last
        <3>1. CASE goal.at < Last
            <4>1. goal.at + 1 \in Tasks /\ goal.at + 1 \in 0 .. N /\ goal.at + 1 <= Last
                BY <1>0, <2>2, <3>1 DEF Last
            <4>2. PhasesAdvanced \in [Phases -> Statuses \ {"none"}]
                <5>1. PhaseOf[goal.at] \in Phases /\ PhaseOf[goal.at + 1] \in Phases
                    BY <2>2, <4>1 DEF Phases
                <5>2. goal.phase \in [Phases -> Statuses \ {"none"}]
                    BY <1>f DEF Goal
                <5>3. PICK s : /\ s \in Statuses \ {"none"}
                              /\ PhasesAdvanced = [goal.phase EXCEPT ![PhaseOf[goal.at]] = s,
                                                                     ![PhaseOf[goal.at + 1]] = "running"]
                    BY <5>1, <5>2 DEF PhasesAdvanced, Statuses
                <5>. QED
                    BY <5>1, <5>2, <5>3 DEF Statuses
            <4>3. goal.at # Last
                BY <3>0, <3>1
            <4>4. goal' = [goal EXCEPT !.at = @ + 1, !.phase = PhasesAdvanced] /\ Read /\ UNCHANGED task
                BY <2>4, <4>3 DEF Checkpoint
            <4>5. goal' \in Goal /\ goal'.at = goal.at + 1 /\ goal'.kind = goal.kind /\ goal'.status = goal.status
                BY <1>f, <4>1, <4>2, <4>4 DEF Goal
            <4>6. flight' \in Flight /\ flight'.at = "read"
                BY <1>g, <4>4
            <4>7. goal.status = "running" /\ goal.kind \in Kinds
                BY <1>0, <2>4 DEF Checkpoint, Where
            <4>8. goal'.at # 0 /\ Last' = Last
                BY <2>2, <4>5 DEF Last
            <4>9. Where'
                BY <4>1, <4>5, <4>6, <4>7, <4>8 DEF Where
            <4>. QED
                BY <1>0, <2>1, <4>4, <4>5, <4>6, <4>9 DEF Types, GoalTypeOK, Closes, lower, auto, waiting, bounds
        <3>2. CASE goal.at = Last
            <4>1. ~(goal.at < Last)
                BY <3>0, <3>2
            <4>2. /\ goal' = [goal EXCEPT !.status = "completed", !.phase[PhaseOf[goal.at]] = "completed"]
                  /\ Return /\ UNCHANGED task
                BY <2>4, <4>1 DEF Checkpoint
            <4>3. [goal.phase EXCEPT ![PhaseOf[goal.at]] = "completed"] \in [Phases -> Statuses \ {"none"}]
                BY <1>f, <2>2 DEF Goal, Statuses, Phases
            <4>4. goal' \in Goal /\ goal'.at = goal.at /\ goal'.kind = goal.kind /\ goal'.status = "completed"
                BY <1>f, <4>2, <4>3 DEF Goal, Statuses
            <4>5. flight' \in Flight /\ flight'.at = "idle"
                BY <1>g, <4>2 DEF Places
            <4>6. Where'
                BY <1>0, <2>2, <4>4, <4>5 DEF Where, Last
            <4>. QED
                BY <1>0, <2>1, <4>2, <4>4, <4>5, <4>6 DEF Types, GoalTypeOK, Closes, lower, auto, waiting, bounds
        <3>. QED
            BY <2>4, <3>1, <3>2 DEF Checkpoint
    <2>5. CASE EndGoal
        <3>1. PICK p : /\ p = [goal.phase EXCEPT ![PhaseOf[goal.at]] = flight.to]
                      /\ goal' = [goal EXCEPT !.status = flight.to, !.phase = p]
            BY <1>f, <2>2, <2>5 DEF EndGoal, Goal
        <3>2. flight.to \in Ends
            BY <1>f DEF Flight
        <3>3. p \in [Phases -> Statuses \ {"none"}]
            BY <1>f, <2>2, <3>1, <3>2 DEF Goal, Statuses, Phases
        <3>4. goal' \in Goal /\ goal'.at = goal.at /\ goal'.kind = goal.kind /\ goal'.status = flight.to
            BY <1>f, <3>1, <3>2, <3>3 DEF Goal, Statuses
        <3>5. /\ flight' \in Flight /\ UNCHANGED task
              /\ flight'.at = IF flight.to = "human_required" THEN "notify" ELSE "idle"
            BY <1>g, <2>5 DEF EndGoal, Places
        <3>6. Where'
            BY <1>0, <2>1, <2>2, <3>2, <3>4, <3>5 DEF Where, Last
        <3>. QED
            BY <1>0, <2>1, <3>4, <3>5, <3>6 DEF Types, GoalTypeOK, Closes, lower, auto, waiting, bounds
    <2>. QED
        BY <1>7, <2>3, <2>4, <2>5 DEF GoalStep
<1>8. ASSUME ThrowStep PROVE Types'
    <2>1. /\ flight' \in Flight /\ flight'.at = "idle"
          /\ UNCHANGED <<goal, task, lower, auto, calls, recovering, bounds>>
        BY <1>g, <1>8 DEF ThrowStep, Enqueue, SetTornTask, Throw, Places
    <2>2. timer' \in BOOLEAN /\ notice' \in {"none", "waiting", "retryable", "settled"}
        BY <1>0, <1>8 DEF ThrowStep, Enqueue, SetTornTask, Throw, GoalTypeOK
    <2>3. Where'
        BY <1>t, <2>1
    <2>. QED
        BY <1>0, <2>1, <2>2, <2>3 DEF Types, GoalTypeOK, Closes, lower, auto, bounds
<1>9. ASSUME FaultStep PROVE Types'
    <2>1. UNCHANGED <<goal, lower, auto, notice, calls, recovering, crashes>>
        BY <1>9 DEF FaultStep, DriveFault, TornTask, TaskFault, UpdateFault, NotifyFault, Throw, Fault, waiting
    <2>2. \A kind \in {"read", "task", "goal", "launch", "queue"} :
             Fault(kind) => faults' \subseteq {"read", "slow", "task", "goal", "launch", "queue"}
        BY <1>0 DEF Fault, GoalTypeOK
    <2>3. faults' \subseteq {"read", "slow", "task", "goal", "launch", "queue"}
        BY <1>9, <2>2 DEF FaultStep, DriveFault, TornTask, TaskFault, UpdateFault, NotifyFault
    <2>4. timer' \in BOOLEAN
        <3>1. timer \in BOOLEAN
            BY <1>0 DEF GoalTypeOK
        <3>2. \A b \in BOOLEAN : Throw(b) => timer' \in BOOLEAN
            BY <3>1 DEF Throw
        <3>. QED
            BY <1>9, <3>1, <3>2 DEF FaultStep, DriveFault, TornTask, TaskFault, UpdateFault, NotifyFault, waiting
    <2>5. task' \in [Tasks -> {"none", "torn", "open", "reviewing"} \cup Ends]
        <3>1. task \in [Tasks -> {"none", "torn", "open", "reviewing"} \cup Ends]
            BY <1>0 DEF GoalTypeOK
        <3>2. UNCHANGED task \/ task' = [task EXCEPT ![goal.at] = "torn"]
            BY <1>9 DEF FaultStep, DriveFault, TornTask, TaskFault, UpdateFault, NotifyFault
        <3>. QED
            BY <3>1, <3>2
    <2>6. CASE DriveFault \/ TornTask
        <3>1. flight' \in Flight /\ flight'.at = "error"
            BY <1>g, <2>6 DEF DriveFault, TornTask, Places
        <3>2. flight.at \notin {"idle", "begin", "notify"}
            BY <2>6 DEF DriveFault, TornTask
        <3>. QED
            BY <1>0, <1>t, <2>1, <2>3, <2>4, <2>5, <3>1, <3>2 DEF Types, GoalTypeOK, Closes, Where, lower, auto
    <2>7. CASE TaskFault \/ UpdateFault \/ NotifyFault
        <3>1. flight' = NoFlight
            BY <2>7 DEF TaskFault, UpdateFault, NotifyFault, Throw, Return
        <3>2. flight' \in Flight /\ flight'.at = "idle"
            BY <3>1 DEF NoFlight, Flight, Places
        <3>. QED
            BY <1>0, <1>t, <2>1, <2>3, <2>4, <2>5, <3>2 DEF Types, GoalTypeOK, Closes, lower, auto
    <2>. QED
        BY <1>9, <2>6, <2>7 DEF FaultStep
<1>10. ASSUME CallStep PROVE Types'
    <2>1. UNCHANGED <<goal, task, lower, loop, closing, notice, flight, bounds>>
        BY <1>10 DEF CallStep
    <2>2. calls' \subseteq {"start", "advance", "timer"} /\ telling' \subseteq Tasks
        BY <1>0, <1>10 DEF CallStep, Start, Fire, Hear, Recover, GoalTypeOK
    <2>3. timer' \in BOOLEAN /\ recovering' \in BOOLEAN
        BY <1>0, <1>10 DEF CallStep, Start, Fire, Hear, Recover, GoalTypeOK
    <2>. QED
        BY <1>0, <2>1, <2>2, <2>3 DEF Types, GoalTypeOK, Closes, Where, Last, lower, bounds
<1>11. ASSUME Crash PROVE Types'
    <2>1. /\ flight' = NoFlight /\ calls' = {} /\ timer' = FALSE /\ recovering' = TRUE
          /\ closing' = {} /\ telling' = {} /\ crashes' = crashes + 1
          /\ UNCHANGED <<goal, lower, loop, notice, faults>>
        BY <1>11 DEF Crash
    <2>2. flight' \in Flight /\ flight'.at = "idle"
        BY <2>1 DEF NoFlight, Flight, Places
    <2>3. task' \in [Tasks -> {"none", "torn", "open", "reviewing"} \cup Ends]
        BY <1>0, <1>11 DEF Crash, GoalTypeOK
    <2>4. crashes' \in 0 .. MaxFailures[goal.kind]
        <3>1. crashes + Cardinality(faults) < MaxFailures[goal.kind]
            BY <1>11 DEF Crash, MayFail
        <3>2. Cardinality(faults) \in Nat /\ crashes \in 0 .. MaxFailures[goal.kind]
            BY <1>0, FaultsFinite DEF GoalTypeOK
        <3>3. MaxFailures[goal.kind] \in Nat
            BY <1>0 DEF Where
        <3>. QED
            BY <2>1, <3>1, <3>2, <3>3
    <2>5. Where'
        BY <1>t, <2>1, <2>2
    <2>. QED
        BY <1>0, <2>1, <2>2, <2>3, <2>4, <2>5 DEF Types, GoalTypeOK, Closes, lower
<1>12. ASSUME AutoStep PROVE Types'
    <2>1. UNCHANGED <<goal, lower, notice, flight, waiting, crashes>>
        BY <1>12 DEF AutoStep
    <2>2. /\ task \in [Tasks -> {"none", "torn", "open", "reviewing"} \cup Ends]
          /\ loop \in [Tasks -> {"none", "active"} \cup Ends]
          /\ closing \subseteq Tasks /\ telling \subseteq Tasks
          /\ faults \subseteq {"read", "slow", "task", "goal", "launch", "queue"}
        BY <1>0 DEF GoalTypeOK
    <2>3. PICK i \in Tasks : LoopReviews(i) \/ LoopEnds(i) \/ LoopCloses(i)
        BY <1>12 DEF AutoStep
    <2> DEFINE Kept == /\ task' \in [Tasks -> {"none", "torn", "open", "reviewing"} \cup Ends]
                      /\ loop' \in [Tasks -> {"none", "active"} \cup Ends]
                      /\ closing' \subseteq Tasks /\ telling' \subseteq Tasks /\ Closes'
                      /\ faults' \subseteq {"read", "slow", "task", "goal", "launch", "queue"}
    <2>4. ASSUME LoopReviews(i) PROVE Kept
        BY <1>0, <2>2, <2>4 DEF LoopReviews, auto, Closes
    <2>5. ASSUME LoopEnds(i) PROVE Kept
        <3>1. PICK s \in Ends : loop' = [loop EXCEPT ![i] = s]
            BY <2>5 DEF LoopEnds
        <3>. QED
            BY <1>0, <2>2, <2>5, <3>1 DEF LoopEnds, Closes
    <2>6. ASSUME LoopCloses(i) PROVE Kept
        <3>1. loop[i] \in Ends
            BY <1>0, <2>6 DEF LoopCloses, Closes
        <3>2. task' \in [Tasks -> {"none", "torn", "open", "reviewing"} \cup Ends]
            BY <2>2, <2>6, <3>1 DEF LoopCloses
        <3>3. /\ UNCHANGED loop /\ closing' = closing \ {i} /\ telling' = telling \cup {i}
              /\ faults' \subseteq faults \cup {"task"}
            BY <2>6 DEF LoopCloses, Fault
        <3>. QED
            BY <1>0, <2>2, <3>2, <3>3 DEF Closes
    <2>7. Kept
        BY <2>3, <2>4, <2>5, <2>6
    <2>. QED
        BY <1>0, <2>1, <2>7 DEF Types, GoalTypeOK, Where, Last, lower, waiting
<1>13. ASSUME ChatStep PROVE Types'
    BY <1>0, <1>13 DEF ChatStep, Types, GoalTypeOK, Closes, Where, Last, lower, auto, waiting, bounds
<1>14. ASSUME NEW i \in Tasks, EndExecution(i) PROVE Types'
    BY <1>0, <1>14 DEF EndExecution, Types, GoalTypeOK, Closes, Where, Last, auto, waiting, bounds
<1>15. CASE UNCHANGED goalVars
    BY <1>0, <1>15 DEF goalVars, Types, GoalTypeOK, Closes, Where, Last, lower, auto, waiting, bounds
<1>. QED
    BY <1>1, <1>2, <1>3, <1>4, <1>5, <1>6, <1>7, <1>8, <1>9, <1>10, <1>11, <1>12, <1>13, <1>14, <1>15
       DEF GoalNext, Work

-----------------------------------------------------------------------------
(* The inductive invariant *)

Launching == {"launch", "authorize", "reserve", "create", "spawn", "spawned", "launched", "unlaunched"}
Early == {"idle", "read", "launch", "authorize", "reserve"}

\* Why a human is called.
Earned ==
    \/ faults # {}
    \/ loop[i0] = "human_required"
    \/ execution[i0] = "terminated"
    \/ crashes > 0 /\ actuation[i0] # "started"

\* A task the goal has not come to.
Untouched(i) ==
    /\ task[i] = "none" /\ i \notin authorized /\ actuation[i] = "none" /\ execution[i] = "none"
    /\ launches[i] = 0 /\ i \notin proven /\ loop[i] = "none"

\* The records of a planned task, in the order in which a launch writes them.
Records(i) ==
    /\ task[i] \in {"none", "torn"} => i \notin authorized
    /\ i \notin authorized => actuation[i] = "none"
    /\ actuation[i] = "none" => execution[i] = "none"
    /\ execution[i] = "none" => launches[i] = 0
    /\ launches[i] \in {0, 1}
    /\ i \in proven => launches[i] = 1 /\ actuation[i] \in {"starting", "started"}
    /\ i \notin proven => execution[i] \in {"none", "running", "failed"} /\ actuation[i] # "started"
    /\ loop[i] # "none" => i \in proven /\ (actuation[i] = "started" \/ execution[i] = "terminated")

\* The task of a review goal, which somebody else ran.
Given(i) == task[i] \notin {"none", "torn"} /\ execution[i] = "passed" /\ launches[i] = 1

\* What the task and its loop say of each other.
Told(i) ==
    /\ task[i] = "reviewing" => loop[i] # "none"
    /\ task[i] = "torn" => crashes > 0 \/ faults # {}
    /\ i < goal.at => loop[i] = "completed"
    /\ i > goal.at => loop[i] = "none"

\* A task that ended as its loop, or without one.
Ended(i) ==
    task[i] \in Ends /\ faults = {} /\ goal.kind = "plan" =>
        task[i] = loop[i] \/ execution[i] = "terminated" \/ actuation[i] # "started"

TaskOK(i) ==
    /\ Told(i) /\ Ended(i)
    /\ goal.kind = "plan" => Records(i)
    /\ goal.kind = "review" /\ i = 1 => Given(i)
    /\ i > goal.at /\ (goal.kind = "plan" \/ i # 1) => Untouched(i)

Order == \A i \in Tasks : TaskOK(i)

\* What driveTask has read, and what may have changed under it since.
ReadOK ==
    /\ flight.task # "unread" =>
        /\ flight.task = "none" <=> task[i0] = "none"
        /\ flight.task = "torn" <=> task[i0] = "torn"
        /\ flight.task = "reviewing" => loop[i0] # "none"
        /\ flight.task \in Ends => task[i0] \in Ends
        /\ loop[i0] = "none" => flight.task = task[i0]
    /\ flight.loop = "none" => loop[i0] = "none"
    /\ flight.loop = "active" => loop[i0] # "none"
    /\ flight.loop \in Ends => loop[i0] = flight.loop
    /\ faults = {} /\ flight.loop # "unread" => flight.task # "unread"
    /\ faults = {} /\ flight.task \in Ends /\ goal.kind = "plan" =>
        \/ flight.task = loop[i0] /\ flight.loop \in {"unread", loop[i0]}
        \/ execution[i0] = "terminated" \/ actuation[i0] # "started"
    /\ faults = {} /\ flight.task = "reviewing" => flight.loop # "none"

\* How far a launch has come.
LaunchOK ==
    /\ goal.kind = "plan"
    /\ loop[i0] = "none" /\ task[i0] \notin Ends \cup {"torn"}
    /\ At("launch") => (flight.task = "none" <=> task[i0] = "none")
    /\ At("authorize") => task[i0] # "none"
    /\ flight.at \notin {"launch", "authorize"} => i0 \in authorized
    /\ At("create") => actuation[i0] = "starting" /\ execution[i0] = "none"
    /\ At("spawn") => actuation[i0] = "starting" /\ execution[i0] = "running" /\ launches[i0] = 0
    /\ At("spawned") => /\ actuation[i0] = "starting" /\ execution[i0] = "running"
                        /\ launches[i0] = 1 /\ i0 \notin proven
    /\ At("launched") => actuation[i0] = "starting" /\ i0 \in proven
    /\ At("unlaunched") => actuation[i0] = "starting" /\ execution[i0] = "failed" /\ i0 \notin proven

\* What the flight has decided.
DecidedOK ==
    /\ flight.to = "completed" => loop[i0] = "completed"
    /\ flight.to = "human_required" => Earned
    /\ flight.to = "failed" => loop[i0] = "failed" \/ actuation[i0] = "failed"

FlightOK ==
    /\ At("read") => ReadOK
    /\ flight.at \in Launching => LaunchOK
    /\ At("startLoop") => goal.kind = "review" \/ actuation[i0] = "started"
    /\ flight.at \in {"advance", "outcome"} => loop[i0] # "none"
    /\ At("terminated") => execution[i0] = "terminated"
    /\ At("error") => flight.to = "human_required"
    /\ At("checkpoint") => flight.to = "completed"
    /\ At("end") => flight.to # "completed"
    /\ flight.at \in {"error", "setTask", "checkpoint", "end"} => DecidedOK

\* Where nothing went wrong a launch starts from nothing.
Clean ==
    /\ goal.kind = "plan" /\ goal.status = "running" /\ flight.at \in Early
    /\ crashes = 0 /\ faults = {} /\ loop[i0] = "none"
    => actuation[i0] = "none" /\ task[i0] \notin Ends

Called == goal.status = "human_required" => Earned

IInv == Types /\ Order /\ FlightOK /\ Clean /\ Called

-----------------------------------------------------------------------------
(* Facts that every step uses *)

\* A step adds failures and stops, and never forgets one.
Grown == faults \subseteq faults' /\ (crashes > 0 => crashes' > 0)

\* A step leaves the records of a task as they are.
Same(i) ==
    /\ task'[i] = task[i] /\ actuation'[i] = actuation[i] /\ execution'[i] = execution[i]
    /\ launches'[i] = launches[i] /\ loop'[i] = loop[i]
    /\ i \in authorized' <=> i \in authorized
    /\ i \in proven' <=> i \in proven

LEMMA SameTask ==
    ASSUME NEW i \in Tasks, TaskOK(i), Same(i), Grown, goal'.kind = goal.kind, goal'.at = goal.at
    PROVE  TaskOK(i)'
    BY DEF TaskOK, Told, Ended, Records, Given, Untouched, Same, Grown

\* A step that writes none of the records leaves all of them in order.
LEMMA SameTasks ==
    ASSUME Order, UNCHANGED <<task, lower, loop>>, Grown, goal'.kind = goal.kind, goal'.at = goal.at
    PROVE  Order'
<1>1. ASSUME NEW i \in Tasks PROVE TaskOK(i)'
    <2>1. TaskOK(i)
        BY DEF Order
    <2>2. Same(i)
        BY DEF Same, lower
    <2>. QED
        BY <2>1, <2>2, SameTask
<1>. QED
    BY <1>1 DEF Order

\* A step that writes the records of one task leaves those of the others in order.
LEMMA OtherTasks ==
    ASSUME Order, NEW k \in Tasks, TaskOK(k)', \A i \in Tasks \ {k} : Same(i),
           Grown, goal'.kind = goal.kind, goal'.at = goal.at
    PROVE  Order'
<1>1. ASSUME NEW i \in Tasks PROVE TaskOK(i)'
    <2>1. TaskOK(i)
        BY DEF Order
    <2>. QED
        BY <2>1, SameTask
<1>. QED
    BY <1>1 DEF Order

\* What a goal has come to.
LEMMA AtTask ==
    ASSUME Types
    PROVE  /\ flight \in Flight /\ goal \in Goal
           /\ goal.status \notin {"none", "pending"} => goal.at \in Tasks
           /\ flight.at \notin {"idle", "begin", "notify"} => goal.at \in Tasks /\ goal.status = "running"
           /\ flight.at = "notify" => goal.at \in Tasks
           /\ goal.kind = "review" /\ goal.at \in Tasks => goal.at = 1
           /\ goal.kind \in {"plan", "review"}
           /\ goal.at \in Nat /\ Last \in Nat
    BY GoalAssumption DEF Types, GoalTypeOK, Where, Goal, Tasks, Last

LEMMA Moves ==
    ASSUME flight \in Flight, NEW place, NEW outcome
    PROVE  /\ Goto(place) => /\ flight'.at = place /\ flight'.to = flight.to
                             /\ flight'.task = flight.task /\ flight'.loop = flight.loop
           /\ Decide(place, outcome) => flight'.at = place /\ flight'.to = outcome
           /\ Read => flight'.at = "read" /\ flight'.task = "unread" /\ flight'.loop = "unread"
           /\ Return => flight'.at = "idle"
<1>1. NoFlight.at = "idle"
    BY DEF NoFlight
<1>. QED
    BY <1>1 DEF Goto, Decide, Read, Return, Flight

\* A failure that happens is known.
LEMMA FaultKnown ==
    ASSUME NEW kind, Fault(kind)
    PROVE  faults' # {} /\ faults \subseteq faults' /\ UNCHANGED crashes
    BY DEF Fault

-----------------------------------------------------------------------------
(* Serving a call, and beginning the goal *)

LEMMA ServeKeeps ==
    ASSUME IInv, NEW c \in calls, Serve(c)
    PROVE  Order' /\ FlightOK' /\ Clean' /\ Called'
<1>. USE DEF i0, At
<1>1. /\ flight.at = "idle" /\ flight'.at \in {"begin", "startLoop", "read", "notify", "idle"}
      /\ flight'.at = "startLoop" => goal.kind = "review"
      /\ flight'.at = "read" => flight'.task = "unread" /\ flight'.loop = "unread"
      /\ UNCHANGED <<goal, task, lower, loop, bounds>>
    BY DEF Serve, NoFlight, auto
<1>2. Order'
    BY <1>1, SameTasks DEF IInv, Grown, bounds
<1>3. FlightOK'
    BY <1>1 DEF FlightOK, ReadOK, Launching, Ends
<1>4. Clean'
    BY <1>1 DEF IInv, Clean, Early, lower, bounds
<1>5. Called'
    BY <1>1 DEF IInv, Called, Earned, lower, bounds
<1>. QED
    BY <1>2, <1>3, <1>4, <1>5

LEMMA CreateKeeps ==
    ASSUME IInv, CreateStep
    PROVE  Order' /\ FlightOK' /\ Clean' /\ Called'
<1>. USE GoalAssumption DEF i0, At
<1>0. UNCHANGED <<task, lower, auto, bounds>> /\ Types
    BY DEF CreateStep, CreateGoal, CreateReviewGoal, Begin, IInv
<1>1. CASE CreateGoal
    <2>1. /\ goal'.status = "pending" /\ goal'.kind = goal.kind /\ goal'.at = goal.at
          /\ flight.at = "idle" /\ UNCHANGED flight
        BY <1>0, <1>1, AtTask DEF CreateGoal, Goal
    <2>2. Order'
        BY <1>0, <2>1, SameTasks DEF IInv, Grown, bounds, auto
    <2>. QED
        BY <2>1, <2>2 DEF FlightOK, Launching, Clean, Called
<1>2. CASE CreateReviewGoal \/ Begin
    <2>1. /\ goal'.status = "running" /\ goal'.kind = goal.kind /\ goal'.at = 1 /\ goal.at = 0
          /\ flight'.at = "startLoop" => goal.kind = "review"
          /\ flight'.at = "read" => flight'.task = "unread" /\ flight'.loop = "unread"
          /\ flight'.at \in {"startLoop", "read"}
        <3>1. flight \in Flight /\ goal \in Goal
            BY <1>0, AtTask
        <3>2. CASE CreateReviewGoal
            <4>1. flight'.at = "startLoop"
                BY <3>1, <3>2, Moves DEF CreateReviewGoal
            <4>. QED
                BY <1>0, <3>1, <3>2, <4>1 DEF CreateReviewGoal, Goal, Types, Where
        <3>3. CASE Begin
            <4>1. flight'.at = "read" /\ flight'.task = "unread" /\ flight'.loop = "unread"
                BY <3>1, <3>3, Moves DEF Begin
            <4>. QED
                BY <1>0, <3>1, <3>3, <4>1 DEF Begin, Goal, Types, Where
        <3>. QED
            BY <1>2, <3>2, <3>3
    <2>2. ASSUME NEW i \in Tasks PROVE TaskOK(i)'
        <3>1. TaskOK(i) /\ i > 0 /\ ~(i < 1)
            BY DEF IInv, Order, Tasks
        <3>. QED
            BY <1>0, <2>1, <3>1 DEF TaskOK, Told, Ended, Records, Given, Untouched, lower, auto, bounds, Tasks
    <2>3. FlightOK'
        BY <2>1 DEF FlightOK, ReadOK, Launching, Ends
    <2>4. Clean'
        <3>1. 1 \in Tasks /\ 1 > 0
            BY DEF Tasks
        <3>2. goal.kind = "plan" => Untouched(1)
            BY <2>1, <3>1 DEF IInv, Order, TaskOK
        <3>. QED
            BY <1>0, <2>1, <3>2 DEF Clean, Untouched, lower, auto, Ends
    <2>. QED
        BY <2>1, <2>2, <2>3, <2>4 DEF Order, Called
<1>. QED
    BY <1>1, <1>2 DEF CreateStep

-----------------------------------------------------------------------------
(* Reading the records of a task, and judging them *)

\* A conflict of the records is a reason to call a human.
LEMMA ConflictEarned ==
    ASSUME IInv, At("read"), flight.task # "unread", flight.loop # "unread", Conflicts
    PROVE  Earned
<1>. USE DEF i0, At
<1>1. ReadOK /\ goal.at \in Tasks /\ flight \in Flight
    BY AtTask DEF IInv, FlightOK
<1>2. TaskOK(goal.at) /\ goal.status = "running" /\ goal.kind \in {"plan", "review"}
    BY <1>1, AtTask DEF IInv, Order
<1>3. goal.kind = "plan"
    <2>1. SUFFICES ASSUME goal.kind = "review" PROVE FALSE
        BY <1>2
    <2>2. Given(goal.at)
        BY <1>1, <1>2, <2>1, AtTask DEF IInv, TaskOK
    <2>. QED
        BY <1>1, <2>1, <2>2 DEF Conflicts, Reviews, ReadOK, Given
<1>4. Records(goal.at) /\ Told(goal.at)
    BY <1>2, <1>3 DEF TaskOK
<1>5. crashes = 0 /\ faults = {} /\ loop[goal.at] = "none"
        => actuation[goal.at] = "none" /\ task[goal.at] \notin Ends
    BY <1>2, <1>3 DEF IInv, Clean, Early
<1>6. crashes > 0 \/ crashes = 0
    <2>1. crashes \in Nat
        BY GoalAssumption DEF IInv, Types, GoalTypeOK, Where
    <2>. QED
        BY <2>1
<1>7. CASE flight.task = "none" /\ (Evidence \/ flight.loop # "none")
    <2>1. task[goal.at] = "none"
        BY <1>1, <1>7 DEF ReadOK
    <2>2. loop[goal.at] = "none" /\ ~Evidence
        BY <1>4, <2>1 DEF Records, Evidence
    <2>3. flight.loop = "none"
        BY <1>1, <2>2 DEF ReadOK, Flight, Ends
    <2>. QED
        BY <1>7, <2>2, <2>3
<1>8. CASE flight.task = "torn"
    BY <1>1, <1>4, <1>6, <1>8 DEF ReadOK, Records, Told, Earned
<1>9. CASE execution[goal.at] # "terminated" /\ flight.loop # "none"
    <2>1. loop[goal.at] # "none"
        BY <1>1, <1>9 DEF ReadOK, Flight, Ends
    <2>2. actuation[goal.at] = "started" /\ goal.at \in authorized /\ execution[goal.at] # "none"
        BY <1>4, <1>9, <2>1 DEF Records
    <2>3. faults = {} => ~(flight.task \in Ends /\ flight.task # flight.loop)
        BY <1>1, <1>3, <1>9, <2>2 DEF ReadOK, Ends
    <2>4. Evidence
        BY <2>2 DEF Evidence
    <2>5. ~(flight.task = "none") /\ ~(flight.task = "torn")
        BY <1>1, <1>4, <2>2 DEF ReadOK, Records
    <2>. QED
        BY <1>9, <2>2, <2>3, <2>4, <2>5 DEF Conflicts, Earned
<1>10. CASE execution[goal.at] # "terminated" /\ flight.loop = "none"
    <2>1. loop[goal.at] = "none"
        BY <1>1, <1>10 DEF ReadOK
    <2>2. flight.task \in Ends \cup {"reviewing"} => Earned
        BY <1>1, <1>3, <1>5, <1>6, <1>10, <2>1 DEF ReadOK, Earned, Ends
    <2>3. execution[goal.at] # "none" /\ actuation[goal.at] = "none" => FALSE
        BY <1>4 DEF Records
    <2>4. goal.at \notin authorized /\ Evidence => FALSE
        BY <1>4 DEF Records, Evidence
    <2>5. actuation[goal.at] # "none" /\ execution[goal.at] = "none" => Earned
        BY <1>4, <1>5, <1>6, <2>1 DEF Records, Earned
    <2>. QED
        BY <1>7, <1>8, <1>10, <2>2, <2>3, <2>4, <2>5 DEF Conflicts
<1>. QED
    BY <1>7, <1>8, <1>9, <1>10 DEF Conflicts

LEMMA ReadKeeps ==
    ASSUME IInv, ReadStep
    PROVE  Order' /\ FlightOK' /\ Clean' /\ Called'
<1>. USE DEF i0, At
<1>1. /\ flight.at = "read" /\ UNCHANGED <<goal, task, lower, loop, crashes>>
      /\ faults \subseteq faults'
    BY DEF ReadStep, ReadTask, ReadLoop, Judge, Fault, bounds, auto
<1>2. /\ ReadOK /\ goal.at \in Tasks /\ flight \in Flight /\ goal.status = "running"
      /\ goal.kind \in {"plan", "review"}
    BY <1>1, AtTask DEF IInv, FlightOK
<1>3. TaskOK(goal.at)
    BY <1>2 DEF IInv, Order
<1>4. Order'
    BY <1>1, SameTasks DEF IInv, Grown
<1>5. Called'
    BY <1>1, <1>2 DEF Called
<1>6. faults' = {} => faults = {}
    BY <1>1
<1>7. Clean'
    BY <1>1, <1>6 DEF IInv, Clean, Early, lower
<1>8. CASE ReadTask
    <2>1. /\ flight'.at = "read" /\ flight'.task = task[goal.at] /\ flight'.loop = flight.loop
          /\ flight.task = "unread"
        BY <1>1, <1>2, <1>8 DEF ReadTask, Flight
    <2>2. UNCHANGED faults
        BY <1>8 DEF ReadTask, bounds
    <2>3. faults = {} => flight.loop = "unread"
        BY <1>2, <2>1 DEF ReadOK
    <2>4. /\ task[goal.at] = "reviewing" => loop[goal.at] # "none"
          /\ task[goal.at] \in Ends /\ faults = {} /\ goal.kind = "plan" =>
                task[goal.at] = loop[goal.at] \/ execution[goal.at] = "terminated"
                    \/ actuation[goal.at] # "started"
        BY <1>3 DEF TaskOK, Told, Ended
    <2>5. ReadOK'
        BY <1>1, <1>2, <2>1, <2>2, <2>3, <2>4 DEF ReadOK, lower, Ends
    <2>. QED
        BY <1>4, <1>5, <1>7, <2>1, <2>5 DEF FlightOK, Launching
<1>9. CASE ReadLoop
    <2>1. /\ flight'.at = "read" /\ flight'.task = flight.task /\ flight'.loop = loop[goal.at]
          /\ flight.loop = "unread"
        BY <1>1, <1>2, <1>9 DEF ReadLoop, Flight
    <2>2. flight.task = "unread" => faults' # {}
        BY <1>9 DEF ReadLoop, Fault
    <2>3. loop[goal.at] \in {"none", "active"} \cup Ends
        BY <1>2 DEF IInv, Types, GoalTypeOK
    <2>4. ReadOK'
        BY <1>1, <1>2, <1>6, <2>1, <2>2, <2>3 DEF ReadOK, lower, Ends
    <2>. QED
        BY <1>4, <1>5, <1>7, <2>1, <2>4 DEF FlightOK, Launching
<1>10. CASE Judge
    <2>0. flight.task # "unread" /\ flight.loop # "unread" /\ UNCHANGED faults
        BY <1>10 DEF Judge, bounds
    <2>1. CASE Conflicts /\ Decide("error", "human_required")
        <3>1. flight'.at = "error" /\ flight'.to = "human_required"
            BY <1>2, <2>1, Moves
        <3>2. Earned'
            BY <1>1, <2>0, <2>1, ConflictEarned DEF Earned, lower
        <3>3. FlightOK'
            BY <3>1, <3>2 DEF FlightOK, Launching, DecidedOK
        <3>. QED
            BY <1>4, <1>5, <1>7, <3>3
    <2>2. CASE execution[goal.at] = "terminated" /\ Goto("terminated")
        <3>1. flight'.at = "terminated"
            BY <1>2, <2>2, Moves
        <3>. QED
            BY <1>1, <1>4, <1>5, <1>7, <2>2, <3>1 DEF FlightOK, Launching, lower
    <2>3. CASE flight.loop # "none" /\ Goto("advance")
        <3>1. flight'.at = "advance"
            BY <1>2, <2>3, Moves
        <3>2. loop[goal.at] # "none"
            BY <1>2, <2>0, <2>3 DEF ReadOK, Flight, Ends
        <3>. QED
            BY <1>1, <1>4, <1>5, <1>7, <3>1, <3>2 DEF FlightOK, Launching
    <2>4. CASE Reviews /\ Goto("startLoop")
        <3>1. flight'.at = "startLoop"
            BY <1>2, <2>4, Moves
        <3>. QED
            BY <1>1, <1>4, <1>5, <1>7, <2>4, <3>1 DEF FlightOK, Launching, Reviews
    <2>5. CASE actuation[goal.at] = "failed" /\ Decide("setTask", "failed")
        <3>1. flight'.at = "setTask" /\ flight'.to = "failed"
            BY <1>2, <2>5, Moves
        <3>. QED
            BY <1>1, <1>4, <1>5, <1>7, <2>5, <3>1 DEF FlightOK, Launching, DecidedOK, lower
    <2>6. CASE /\ ~Conflicts /\ execution[goal.at] # "terminated" /\ flight.loop = "none" /\ ~Reviews
               /\ actuation[goal.at] # "failed" /\ Goto("launch")
        <3>1. flight'.at = "launch" /\ flight'.task = flight.task
            BY <1>2, <2>6, Moves
        <3>2. loop[goal.at] = "none" /\ flight.task = task[goal.at]
            BY <1>2, <2>0, <2>6 DEF ReadOK
        <3>3. flight.task \notin Ends \cup {"torn"} /\ goal.kind = "plan"
            BY <1>2, <2>6 DEF Conflicts, Reviews
        <3>4. LaunchOK'
            BY <1>1, <3>1, <3>2, <3>3 DEF LaunchOK
        <3>. QED
            BY <1>4, <1>5, <1>7, <3>1, <3>4 DEF FlightOK
    <2>. QED
        BY <1>10, <2>1, <2>2, <2>3, <2>4, <2>5, <2>6 DEF Judge
<1>. QED
    BY <1>8, <1>9, <1>10 DEF ReadStep

-----------------------------------------------------------------------------
(* Launching a task *)

\* What a launch may use of the task it is at.
LEMMA Launched ==
    ASSUME IInv, flight.at \in Launching
    PROVE  /\ goal.at \in Tasks /\ flight \in Flight /\ goal.status = "running"
           /\ LaunchOK /\ TaskOK(goal.at) /\ Records(goal.at) /\ Told(goal.at)
<1>1. goal.at \in Tasks /\ flight \in Flight /\ goal.status = "running"
    BY AtTask DEF IInv, Launching
<1>2. LaunchOK /\ TaskOK(goal.at)
    BY <1>1 DEF IInv, FlightOK, Order
<1>. QED
    BY <1>1, <1>2 DEF TaskOK, LaunchOK

LEMMA CreateTaskKeeps ==
    ASSUME IInv, CreateTask
    PROVE  Order' /\ FlightOK' /\ Clean' /\ Called'
<1>. USE DEF i0, At
<1>1. /\ flight.at = "launch" /\ flight.task = "none" /\ Goto("authorize")
      /\ task' = [task EXCEPT ![goal.at] = "open"]
      /\ UNCHANGED <<goal, lower, loop, bounds>>
    BY DEF CreateTask, auto
<1>2. /\ goal.at \in Tasks /\ flight \in Flight /\ goal.status = "running"
      /\ LaunchOK /\ TaskOK(goal.at) /\ Records(goal.at)
    BY <1>1, Launched DEF Launching
<1>3. task'[goal.at] = "open" /\ \A i \in Tasks \ {goal.at} : task'[i] = task[i]
    BY <1>1, <1>2 DEF IInv, Types, GoalTypeOK
<1>4. flight'.at = "authorize"
    BY <1>1, <1>2, Moves
<1>5. Order'
    <2>1. TaskOK(goal.at)'
        BY <1>1, <1>2, <1>3
           DEF TaskOK, Told, Ended, Records, LaunchOK, Untouched, Tasks, lower, bounds, Ends
    <2>2. \A i \in Tasks \ {goal.at} : Same(i)
        BY <1>1, <1>3 DEF Same, lower
    <2>. QED
        BY <1>1, <1>2, <2>1, <2>2, OtherTasks DEF IInv, Grown, bounds
<1>6. LaunchOK'
    BY <1>1, <1>2, <1>3, <1>4 DEF LaunchOK, Ends
<1>7. FlightOK'
    BY <1>4, <1>6 DEF FlightOK
<1>8. Clean'
    BY <1>1, <1>3, <1>4 DEF IInv, Clean, Early, lower, bounds, Ends
<1>. QED
    BY <1>1, <1>2, <1>5, <1>7, <1>8 DEF Called

LEMMA LaunchKeeps ==
    ASSUME IInv, LaunchStep
    PROVE  Order' /\ FlightOK' /\ Clean' /\ Called'
<1>. USE DEF i0, At
<1>1. flight.at \in Launching /\ UNCHANGED <<goal, task, loop, bounds>>
    BY DEF LaunchStep, Authorize, Reserve, CreateExecution, Spawn, SavePid, LaunchFails, MarkActuation,
       Launching, auto
<1>2. /\ goal.at \in Tasks /\ flight \in Flight /\ goal.status = "running"
      /\ LaunchOK /\ TaskOK(goal.at) /\ Records(goal.at) /\ Told(goal.at)
    BY <1>1, Launched
<1>3. /\ actuation \in [Tasks -> {"none", "starting", "started", "failed"}]
      /\ execution \in [Tasks -> {"none", "running", "passed", "failed", "terminated"}]
      /\ launches \in [Tasks -> Nat]
    BY DEF IInv, Types, GoalTypeOK
<1>4. Called'
    BY <1>1, <1>2 DEF Called
<1>5. crashes > 0 \/ crashes = 0
    <2>1. crashes \in Nat
        BY GoalAssumption DEF IInv, Types, GoalTypeOK, Where
    <2>. QED
        BY <2>1
<1>6. ASSUME \A i \in Tasks \ {goal.at} : Same(i), Records(goal.at)' PROVE Order'
    <2>1. TaskOK(goal.at)'
        BY <1>1, <1>2, <1>6 DEF TaskOK, Told, Ended, LaunchOK, bounds, Tasks
    <2>. QED
        BY <1>1, <1>2, <1>6, <2>1, OtherTasks DEF IInv, Grown, bounds
<1>7. CASE Authorize
    <2>1. /\ Goto("reserve") /\ authorized' = authorized \cup {goal.at}
          /\ UNCHANGED <<actuation, execution, launches, proven>>
        BY <1>7 DEF Authorize
    <2>2. flight'.at = "reserve" /\ task[goal.at] \notin {"none", "torn"}
        BY <1>2, <1>7, <2>1, Moves DEF LaunchOK, Authorize
    <2>3. Order'
        BY <1>1, <1>2, <1>6, <2>1, <2>2 DEF Same, Records
    <2>4. LaunchOK'
        BY <1>1, <1>2, <2>1, <2>2 DEF LaunchOK
    <2>5. Clean'
        BY <1>1, <1>7, <2>1 DEF IInv, Clean, Early, Authorize, bounds
    <2>. QED
        BY <1>4, <2>2, <2>3, <2>4, <2>5 DEF FlightOK
<1>8. CASE Reserve
    <2>0. flight.at = "reserve" /\ UNCHANGED <<authorized, execution, launches, proven>>
        BY <1>8 DEF Reserve
    <2>1. CASE actuation[goal.at] = "none"
        <3>1. actuation' = [actuation EXCEPT ![goal.at] = "starting"] /\ Goto("create")
            BY <1>8, <2>1 DEF Reserve
        <3>2. /\ actuation'[goal.at] = "starting"
              /\ \A i \in Tasks \ {goal.at} : actuation'[i] = actuation[i]
            BY <1>2, <1>3, <3>1
        <3>3. flight'.at = "create" /\ execution[goal.at] = "none" /\ goal.at \in authorized
            BY <1>2, <2>0, <2>1, <3>1, Moves DEF Records, LaunchOK
        <3>4. Order'
            BY <1>1, <1>2, <1>6, <2>0, <2>1, <3>2, <3>3 DEF Same, Records
        <3>5. LaunchOK'
            BY <1>1, <1>2, <2>0, <3>2, <3>3 DEF LaunchOK
        <3>. QED
            BY <1>4, <3>3, <3>4, <3>5 DEF FlightOK, Clean, Early
    <2>2. CASE actuation[goal.at] # "none" /\ goal.at \in proven
        <3>1. actuation' = [actuation EXCEPT ![goal.at] = "started"] /\ Goto("startLoop")
            BY <1>8, <2>2 DEF Reserve
        <3>2. /\ actuation'[goal.at] = "started"
              /\ \A i \in Tasks \ {goal.at} : actuation'[i] = actuation[i]
            BY <1>2, <1>3, <3>1
        <3>3. flight'.at = "startLoop" /\ goal.at \in authorized
            BY <1>2, <2>0, <3>1, Moves DEF LaunchOK
        <3>4. Order'
            BY <1>1, <1>2, <1>6, <2>0, <2>2, <3>2, <3>3 DEF Same, Records
        <3>. QED
            BY <1>1, <1>4, <3>2, <3>3, <3>4 DEF FlightOK, Launching, Clean, Early
    <2>3. CASE actuation[goal.at] # "none" /\ goal.at \notin proven
        <3>1. UNCHANGED actuation /\ Decide("error", "human_required")
            BY <1>8, <2>3 DEF Reserve
        <3>2. flight'.at = "error" /\ flight'.to = "human_required"
            BY <1>2, <3>1, Moves
        <3>3. Order'
            BY <1>1, <2>0, <3>1, SameTasks DEF IInv, Grown, bounds, lower
        <3>4. Earned'
            BY <1>1, <1>2, <1>5, <2>0, <2>3, <3>1 DEF IInv, Clean, Early, LaunchOK, Records, Earned, bounds
        <3>. QED
            BY <1>4, <3>2, <3>3, <3>4 DEF FlightOK, Launching, DecidedOK, Clean, Early
    <2>. QED
        BY <2>1, <2>2, <2>3
<1>9. CASE CreateExecution
    <2>1. /\ flight.at = "create" /\ execution' = [execution EXCEPT ![goal.at] = "running"]
          /\ Goto("spawn") /\ UNCHANGED <<authorized, actuation, launches, proven>>
        BY <1>9 DEF CreateExecution
    <2>2. /\ execution'[goal.at] = "running"
          /\ \A i \in Tasks \ {goal.at} : execution'[i] = execution[i]
        BY <1>2, <1>3, <2>1
    <2>3. flight'.at = "spawn" /\ actuation[goal.at] = "starting" /\ launches[goal.at] = 0
        BY <1>2, <2>1, Moves DEF LaunchOK, Records
    <2>4. Order'
        BY <1>1, <1>2, <1>6, <2>1, <2>2, <2>3 DEF Same, Records, LaunchOK
    <2>5. LaunchOK'
        BY <1>1, <1>2, <2>1, <2>2, <2>3 DEF LaunchOK
    <2>. QED
        BY <1>4, <2>3, <2>4, <2>5 DEF FlightOK, Clean, Early
<1>10. CASE Spawn
    <2>1. /\ flight.at = "spawn" /\ launches' = [launches EXCEPT ![goal.at] = @ + 1]
          /\ Goto("spawned") /\ UNCHANGED <<authorized, actuation, execution, proven>>
        BY <1>10 DEF Spawn
    <2>2. launches[goal.at] = 0
        BY <1>2, <2>1 DEF LaunchOK
    <2>3. /\ launches'[goal.at] = 1
          /\ \A i \in Tasks \ {goal.at} : launches'[i] = launches[i]
        BY <1>2, <1>3, <2>1, <2>2
    <2>4. /\ flight'.at = "spawned" /\ actuation[goal.at] = "starting"
          /\ execution[goal.at] = "running" /\ goal.at \notin proven
        BY <1>2, <2>1, <2>2, Moves DEF LaunchOK, Records
    <2>5. Order'
        BY <1>1, <1>2, <1>6, <2>1, <2>3, <2>4 DEF Same, Records, LaunchOK
    <2>6. LaunchOK'
        BY <1>1, <1>2, <2>1, <2>3, <2>4 DEF LaunchOK
    <2>. QED
        BY <1>4, <2>4, <2>5, <2>6 DEF FlightOK, Clean, Early
<1>11. CASE SavePid
    <2>1. /\ flight.at = "spawned" /\ proven' = proven \cup {goal.at}
          /\ Goto("launched") /\ UNCHANGED <<authorized, actuation, execution, launches>>
        BY <1>11 DEF SavePid
    <2>2. /\ flight'.at = "launched" /\ actuation[goal.at] = "starting" /\ launches[goal.at] = 1
        BY <1>2, <2>1, Moves DEF LaunchOK
    <2>3. Order'
        BY <1>1, <1>2, <1>6, <2>1, <2>2 DEF Same, Records
    <2>4. LaunchOK'
        BY <1>1, <1>2, <2>1, <2>2 DEF LaunchOK
    <2>. QED
        BY <1>4, <2>2, <2>3, <2>4 DEF FlightOK, Clean, Early
<1>12. CASE LaunchFails
    <2>1. /\ flight.at \in {"spawn", "spawned"} /\ execution' = [execution EXCEPT ![goal.at] = "failed"]
          /\ Goto("unlaunched") /\ UNCHANGED <<authorized, actuation, launches, proven>>
        BY <1>12 DEF LaunchFails
    <2>2. /\ execution'[goal.at] = "failed"
          /\ \A i \in Tasks \ {goal.at} : execution'[i] = execution[i]
        BY <1>2, <1>3, <2>1
    <2>3. /\ flight'.at = "unlaunched" /\ actuation[goal.at] = "starting" /\ goal.at \notin proven
        BY <1>2, <2>1, Moves DEF LaunchOK, Records
    <2>4. Order'
        BY <1>1, <1>2, <1>6, <2>1, <2>2, <2>3 DEF Same, Records, LaunchOK
    <2>5. LaunchOK'
        BY <1>1, <1>2, <2>1, <2>2, <2>3 DEF LaunchOK
    <2>. QED
        BY <1>4, <2>3, <2>4, <2>5 DEF FlightOK, Clean, Early
<1>13. CASE MarkActuation
    <2>0. UNCHANGED <<authorized, execution, launches, proven>> /\ flight.at \in {"launched", "unlaunched"}
        BY <1>13 DEF MarkActuation
    <2>1. CASE flight.at = "launched"
        <3>1. actuation' = [actuation EXCEPT ![goal.at] = "started"] /\ Goto("startLoop")
            BY <1>13, <2>1 DEF MarkActuation
        <3>2. /\ actuation'[goal.at] = "started"
              /\ \A i \in Tasks \ {goal.at} : actuation'[i] = actuation[i]
            BY <1>2, <1>3, <3>1
        <3>3. flight'.at = "startLoop" /\ goal.at \in authorized /\ goal.at \in proven
            BY <1>2, <2>1, <3>1, Moves DEF LaunchOK
        <3>4. Order'
            BY <1>1, <1>2, <1>6, <2>0, <3>2, <3>3 DEF Same, Records
        <3>. QED
            BY <1>1, <1>4, <3>2, <3>3, <3>4 DEF FlightOK, Launching, Clean, Early
    <2>2. CASE flight.at = "unlaunched"
        <3>1. actuation' = [actuation EXCEPT ![goal.at] = "failed"] /\ Decide("setTask", "failed")
            BY <1>13, <2>2 DEF MarkActuation
        <3>2. /\ actuation'[goal.at] = "failed"
              /\ \A i \in Tasks \ {goal.at} : actuation'[i] = actuation[i]
            BY <1>2, <1>3, <3>1
        <3>3. /\ flight'.at = "setTask" /\ flight'.to = "failed"
              /\ goal.at \in authorized /\ goal.at \notin proven /\ execution[goal.at] = "failed"
            BY <1>2, <2>2, <3>1, Moves DEF LaunchOK
        <3>4. Order'
            BY <1>1, <1>2, <1>6, <2>0, <3>2, <3>3 DEF Same, Records, LaunchOK
        <3>. QED
            BY <1>1, <1>4, <3>2, <3>3, <3>4 DEF FlightOK, Launching, DecidedOK, Clean, Early
    <2>. QED
        BY <2>0, <2>1, <2>2
<1>. QED
    BY <1>7, <1>8, <1>9, <1>10, <1>11, <1>12, <1>13 DEF LaunchStep

-----------------------------------------------------------------------------
(* The loop of a task *)

LEMMA LoopKeeps ==
    ASSUME IInv, LoopStep
    PROVE  Order' /\ FlightOK' /\ Clean' /\ Called'
<1>. USE DEF i0, At
<1>1. /\ flight.at \in {"startLoop", "advance", "terminated", "outcome"}
      /\ UNCHANGED <<goal, task, lower, bounds>>
    BY DEF LoopStep, StartLoop, AdvanceLoop, HandOver, LoopOutcome
<1>2. /\ goal.at \in Tasks /\ flight \in Flight /\ goal.status = "running"
      /\ loop \in [Tasks -> {"none", "active"} \cup Ends]
    BY <1>1, AtTask DEF IInv, Types, GoalTypeOK
<1>3. TaskOK(goal.at) /\ goal.kind \in {"plan", "review"}
    BY <1>2, AtTask DEF IInv, Order
<1>4. Called'
    BY <1>1, <1>2 DEF Called
<1>5. ASSUME \A i \in Tasks \ {goal.at} : loop'[i] = loop[i], TaskOK(goal.at)' PROVE Order'
    BY <1>1, <1>2, <1>5, OtherTasks DEF IInv, Grown, Same, bounds, lower
<1>6. CASE StartLoop
    <2>1. /\ flight.at = "startLoop" /\ Goto("outcome")
          /\ loop' = [loop EXCEPT ![goal.at] = IF @ = "none" THEN "active" ELSE @]
        BY <1>6 DEF StartLoop
    <2>2. /\ loop'[goal.at] = IF loop[goal.at] = "none" THEN "active" ELSE loop[goal.at]
          /\ \A i \in Tasks \ {goal.at} : loop'[i] = loop[i]
        BY <1>2, <2>1
    <2>3. flight'.at = "outcome"
        BY <1>2, <2>1, Moves
    <2>4. goal.kind = "review" \/ actuation[goal.at] = "started"
        BY <2>1 DEF IInv, FlightOK
    <2>5. TaskOK(goal.at)'
        BY <1>1, <1>2, <1>3, <2>2, <2>4
           DEF TaskOK, Told, Ended, Records, Given, Untouched, lower, bounds, Ends, Tasks
    <2>. QED
        BY <1>1, <1>4, <1>5, <2>2, <2>3, <2>5 DEF FlightOK, Launching, Clean, Early
<1>7. CASE AdvanceLoop
    <2>1. flight.at = "advance" /\ flight'.at = "outcome" /\ UNCHANGED loop
        BY <1>2, <1>7, Moves DEF AdvanceLoop, auto
    <2>2. Order'
        BY <1>1, <2>1, SameTasks DEF IInv, Grown, bounds
    <2>. QED
        BY <1>1, <1>4, <2>1, <2>2 DEF IInv, FlightOK, Launching, Clean, Early
<1>8. CASE HandOver
    <2>1. /\ flight.at = "terminated" /\ Decide("setTask", "human_required")
          /\ loop' = [loop EXCEPT ![goal.at] = IF @ \in Ends THEN @ ELSE "human_required"]
        BY <1>8 DEF HandOver
    <2>2. /\ loop'[goal.at] = IF loop[goal.at] \in Ends THEN loop[goal.at] ELSE "human_required"
          /\ \A i \in Tasks \ {goal.at} : loop'[i] = loop[i]
        BY <1>2, <2>1
    <2>3. flight'.at = "setTask" /\ flight'.to = "human_required"
        BY <1>2, <2>1, Moves
    <2>4. execution[goal.at] = "terminated"
        BY <2>1 DEF IInv, FlightOK
    <2>5. TaskOK(goal.at)'
        BY <1>1, <1>2, <1>3, <2>2, <2>4
           DEF TaskOK, Told, Ended, Records, Given, Untouched, lower, bounds, Ends, Tasks
    <2>6. Earned'
        BY <1>1, <2>4 DEF Earned, lower
    <2>. QED
        BY <1>1, <1>4, <1>5, <2>2, <2>3, <2>5, <2>6 DEF FlightOK, Launching, DecidedOK, Clean, Early
<1>9. CASE LoopOutcome
    <2>1. UNCHANGED loop /\ flight.at = "outcome" /\ loop[goal.at] # "none"
        BY <1>9 DEF LoopOutcome, auto, IInv, FlightOK
    <2>2. Order'
        BY <1>1, <2>1, SameTasks DEF IInv, Grown, bounds
    <2>3. Clean'
        BY <1>1, <2>1 DEF Clean
    <2>4. CASE loop[goal.at] \in Ends
        <3>1. Decide("setTask", loop[goal.at])
            BY <1>9, <2>4 DEF LoopOutcome
        <3>2. flight'.at = "setTask" /\ flight'.to = loop[goal.at]
            BY <1>2, <3>1, Moves
        <3>. QED
            BY <1>1, <1>4, <2>1, <2>2, <2>3, <3>2 DEF FlightOK, Launching, DecidedOK, Earned, lower
    <2>5. CASE loop[goal.at] \notin Ends
        <3>1. flight'.at = "idle"
            BY <1>2, <1>9, <2>5, Moves DEF LoopOutcome
        <3>. QED
            BY <1>4, <2>2, <2>3, <3>1 DEF FlightOK, Launching
    <2>. QED
        BY <2>4, <2>5
<1>. QED
    BY <1>6, <1>7, <1>8, <1>9 DEF LoopStep

-----------------------------------------------------------------------------
(* Ending a task and the goal *)

\* What the flight decided of a task stays true while only the task is written.
LEMMA DecidedKept ==
    ASSUME DecidedOK, flight'.to = flight.to, UNCHANGED <<lower, loop, bounds>>, goal'.at = goal.at
    PROVE  DecidedOK'
    BY DEF DecidedOK, Earned, lower, bounds, i0

LEMMA GoalKeeps ==
    ASSUME IInv, GoalStep
    PROVE  Order' /\ FlightOK' /\ Clean' /\ Called'
<1>. USE DEF i0, At
<1>1. /\ flight.at \in {"error", "setTask", "checkpoint", "end", "notify"}
      /\ UNCHANGED <<lower, loop, bounds>>
    BY DEF GoalStep, SaveError, SetTask, Checkpoint, EndGoal, SaveInfo, auto
<1>2. /\ goal.at \in Tasks /\ flight \in Flight /\ goal \in Goal /\ goal.kind \in {"plan", "review"}
      /\ task \in [Tasks -> {"none", "torn", "open", "reviewing"} \cup Ends]
      /\ goal.status = IF flight.at = "notify" THEN "human_required" ELSE "running"
    BY <1>1, AtTask DEF IInv, Types, GoalTypeOK, Where
<1>3. TaskOK(goal.at) /\ (flight.at # "notify" => DecidedOK)
    BY <1>1, <1>2 DEF IInv, Order, FlightOK
<1>4. CASE SaveError
    <2>1. /\ flight.at = "error" /\ goal'.at = goal.at /\ goal'.kind = goal.kind
          /\ goal'.status = "running" /\ Goto("setTask") /\ UNCHANGED task
        BY <1>2, <1>4 DEF SaveError, Goal
    <2>2. flight'.at = "setTask" /\ flight'.to = flight.to
        BY <1>2, <2>1, Moves
    <2>3. Order'
        BY <1>1, <2>1, SameTasks DEF IInv, Grown, bounds
    <2>4. DecidedOK'
        BY <1>1, <1>3, <2>1, <2>2, DecidedKept
    <2>. QED
        BY <2>1, <2>2, <2>3, <2>4 DEF FlightOK, Launching, Clean, Early, Called
<1>5. CASE SetTask
    <2>1. /\ flight.at = "setTask" /\ task[goal.at] # "torn" /\ UNCHANGED goal
          /\ task' = [task EXCEPT ![goal.at] = IF @ = "none" THEN @ ELSE flight.to]
          /\ Goto(IF flight.to = "completed" THEN "checkpoint" ELSE "end")
        BY <1>5 DEF SetTask
    <2>2. /\ task'[goal.at] = IF task[goal.at] = "none" THEN "none" ELSE flight.to
          /\ \A i \in Tasks \ {goal.at} : task'[i] = task[i]
        BY <1>2, <2>1
    <2>3. /\ flight'.at = IF flight.to = "completed" THEN "checkpoint" ELSE "end"
          /\ flight'.to = flight.to /\ flight.to \in Ends
        BY <1>2, <2>1, Moves DEF Flight
    <2>4. DecidedOK'
        BY <1>1, <1>3, <2>1, <2>3, DecidedKept
    <2>5. faults = {} => \/ flight.to = loop[goal.at] \/ execution[goal.at] = "terminated"
                         \/ actuation[goal.at] # "started"
        BY <1>3, <2>1, <2>3 DEF DecidedOK, Earned, Ends
    <2>6. TaskOK(goal.at)'
        BY <1>1, <1>2, <1>3, <2>1, <2>2, <2>3, <2>5
           DEF TaskOK, Told, Ended, Records, Given, Untouched, lower, bounds, Ends, Tasks
    <2>7. \A i \in Tasks \ {goal.at} : Same(i)
        BY <1>1, <2>2 DEF Same, lower
    <2>8. Order'
        BY <1>1, <1>2, <2>1, <2>6, <2>7, OtherTasks DEF IInv, Grown, bounds
    <2>. QED
        BY <1>2, <2>1, <2>3, <2>4, <2>8 DEF FlightOK, Launching, Clean, Early, Called
<1>6. CASE Checkpoint
    <2>1. flight.at = "checkpoint" /\ UNCHANGED task /\ loop[goal.at] = "completed"
        BY <1>3, <1>6 DEF Checkpoint, DecidedOK, IInv, FlightOK
    <2>2. goal.at \in Nat /\ Last \in Nat
        BY AtTask DEF IInv
    <2>3. CASE goal.at < Last
        <3>1. goal.at # Last
            BY <2>2, <2>3
        <3>2. goal' = [goal EXCEPT !.at = @ + 1, !.phase = PhasesAdvanced] /\ Read
            BY <1>6, <3>1 DEF Checkpoint
        <3>3. goal'.at = goal.at + 1 /\ goal'.kind = goal.kind /\ goal'.status = "running"
            BY <1>2, <2>1, <3>2 DEF Goal
        <3>4. flight'.at = "read" /\ flight'.task = "unread" /\ flight'.loop = "unread"
            BY <1>2, <3>2, Moves
        <3>5. goal.kind = "plan" /\ goal.at + 1 \in Tasks
            BY GoalAssumption, <1>2, <2>2, <2>3 DEF Last, Tasks
        <3>6. ASSUME NEW i \in Tasks PROVE TaskOK(i)'
            <4>1. TaskOK(i) /\ i \in Nat
                BY DEF IInv, Order, Tasks
            <4>2. /\ i < goal'.at => i < goal.at \/ i = goal.at
                  /\ i > goal'.at => i > goal.at
                BY <2>2, <3>3, <4>1
            <4>. QED
                BY <1>1, <2>1, <3>3, <3>5, <4>1, <4>2
                   DEF TaskOK, Told, Ended, Records, Given, Untouched, lower, bounds
        <3>7. FlightOK'
            BY <3>4 DEF FlightOK, ReadOK, Launching, Ends
        <3>8. Clean'
            <4>1. Untouched(goal.at + 1)
                BY <2>2, <3>5 DEF IInv, Order, TaskOK
            <4>. QED
                BY <1>1, <2>1, <3>3, <4>1 DEF Clean, Untouched, lower, Ends
        <3>. QED
            BY <3>3, <3>6, <3>7, <3>8 DEF Order, Called
    <2>4. CASE goal.at = Last
        <3>1. ~(goal.at < Last)
            BY <2>2, <2>4
        <3>2. /\ goal' = [goal EXCEPT !.status = "completed", !.phase[PhaseOf[goal.at]] = "completed"]
              /\ Return
            BY <1>6, <3>1 DEF Checkpoint
        <3>3. goal'.at = goal.at /\ goal'.kind = goal.kind /\ goal'.status = "completed"
            BY <1>2, <3>2 DEF Goal
        <3>4. flight'.at = "idle"
            BY <1>2, <3>2, Moves
        <3>5. Order'
            BY <1>1, <2>1, <3>3, SameTasks DEF IInv, Grown, bounds
        <3>. QED
            BY <3>3, <3>4, <3>5 DEF FlightOK, Launching, Clean, Called
    <2>. QED
        BY <1>6, <2>3, <2>4 DEF Checkpoint
<1>7. CASE EndGoal
    <2>1. /\ flight.at = "end" /\ UNCHANGED task
          /\ goal'.at = goal.at /\ goal'.kind = goal.kind /\ goal'.status = flight.to
        BY <1>2, <1>7 DEF EndGoal, Goal
    <2>2. flight'.at \in {"notify", "idle"} /\ flight.to # "running"
        BY <1>2, <1>7, Moves DEF EndGoal, Flight, Ends
    <2>3. Order'
        BY <1>1, <2>1, SameTasks DEF IInv, Grown, bounds
    <2>4. Called'
        BY <1>1, <1>3, <2>1 DEF Called, DecidedOK, Earned, lower, bounds
    <2>. QED
        BY <2>1, <2>2, <2>3, <2>4 DEF FlightOK, Launching, Clean
<1>8. CASE SaveInfo
    <2>1. /\ flight.at = "notify" /\ UNCHANGED <<task, flight>>
          /\ goal'.at = goal.at /\ goal'.kind = goal.kind /\ goal'.status = goal.status
        BY <1>2, <1>8 DEF SaveInfo, Goal
    <2>2. Order'
        BY <1>1, <2>1, SameTasks DEF IInv, Grown, bounds
    <2>3. Called'
        BY <1>1, <2>1 DEF IInv, Called, Earned, lower, bounds
    <2>. QED
        BY <2>1, <2>2, <2>3 DEF FlightOK, Launching, Clean, Early
<1>. QED
    BY <1>4, <1>5, <1>6, <1>7, <1>8 DEF GoalStep

LEMMA ThrowKeeps ==
    ASSUME IInv, ThrowStep
    PROVE  Order' /\ FlightOK' /\ Clean' /\ Called'
<1>. USE DEF i0, At
<1>1. UNCHANGED <<goal, task, lower, loop, bounds>> /\ flight' = NoFlight
    BY DEF ThrowStep, Enqueue, SetTornTask, Throw, Return, auto
<1>2. flight'.at = "idle"
    BY <1>1 DEF NoFlight
<1>3. Order'
    BY <1>1, SameTasks DEF IInv, Grown, bounds
<1>4. Called'
    BY <1>1 DEF IInv, Called, Earned, lower, bounds
<1>5. Clean'
    <2>1. CASE Enqueue
        <3>1. goal.status = "human_required"
            BY <2>1 DEF Enqueue, IInv, Types, Where
        <3>. QED
            BY <1>1, <3>1 DEF Clean
    <2>2. CASE SetTornTask
        <3>1. task[goal.at] = "torn" /\ goal.at \in Tasks
            BY <2>2, AtTask DEF SetTornTask, IInv
        <3>2. crashes > 0 \/ faults # {}
            BY <3>1 DEF IInv, Order, TaskOK, Told
        <3>. QED
            BY <1>1, <3>2 DEF Clean, bounds
    <2>. QED
        BY <2>1, <2>2 DEF ThrowStep
<1>. QED
    BY <1>2, <1>3, <1>4, <1>5 DEF FlightOK, Launching

-----------------------------------------------------------------------------
(* What fails *)

LEMMA FaultKeeps ==
    ASSUME IInv, FaultStep
    PROVE  Order' /\ FlightOK' /\ Clean' /\ Called'
<1>. USE DEF i0, At
<1>1. UNCHANGED <<goal, lower, loop, crashes>> /\ faults' # {} /\ faults \subseteq faults'
    BY FaultKnown DEF FaultStep, DriveFault, TornTask, TaskFault, UpdateFault, NotifyFault, auto
<1>2. flight \in Flight
    BY AtTask DEF IInv
<1>3. FlightOK'
    <2>1. CASE DriveFault \/ TornTask
        <3>1. flight'.at = "error" /\ flight'.to = "human_required"
            BY <1>2, <2>1, Moves DEF DriveFault, TornTask
        <3>. QED
            BY <1>1, <3>1 DEF FlightOK, Launching, DecidedOK, Earned
    <2>2. CASE TaskFault \/ UpdateFault \/ NotifyFault
        <3>1. flight'.at = "idle"
            BY <1>2, <2>2, Moves DEF TaskFault, UpdateFault, NotifyFault, Throw
        <3>. QED
            BY <3>1 DEF FlightOK, Launching
    <2>. QED
        BY <2>1, <2>2 DEF FaultStep
<1>4. Order'
    <2>1. CASE TornTask
        <3>1. flight.at = "launch" /\ flight.task = "none" /\ task' = [task EXCEPT ![goal.at] = "torn"]
            BY <2>1 DEF TornTask
        <3>2. goal.at \in Tasks /\ LaunchOK /\ TaskOK(goal.at) /\ Records(goal.at)
            BY <3>1, Launched DEF Launching
        <3>3. task'[goal.at] = "torn" /\ \A i \in Tasks \ {goal.at} : task'[i] = task[i]
            BY <3>1, <3>2 DEF IInv, Types, GoalTypeOK
        <3>4. TaskOK(goal.at)'
            BY <1>1, <3>1, <3>2, <3>3
               DEF TaskOK, Told, Ended, Records, LaunchOK, Untouched, Tasks, lower, Ends
        <3>5. \A i \in Tasks \ {goal.at} : Same(i)
            BY <1>1, <3>3 DEF Same, lower
        <3>. QED
            BY <1>1, <3>2, <3>4, <3>5, OtherTasks DEF IInv, Grown
    <2>2. CASE DriveFault \/ TaskFault \/ UpdateFault \/ NotifyFault
        BY <1>1, <2>2, SameTasks DEF DriveFault, TaskFault, UpdateFault, NotifyFault, IInv, Grown
    <2>. QED
        BY <2>1, <2>2 DEF FaultStep
<1>. QED
    BY <1>1, <1>3, <1>4 DEF Clean, Called, Earned

LEMMA CrashKeeps ==
    ASSUME IInv, Crash
    PROVE  Order' /\ FlightOK' /\ Clean' /\ Called'
<1>. USE DEF i0, At
<1>1. /\ UNCHANGED <<goal, lower, loop, faults>> /\ crashes' = crashes + 1 /\ flight' = NoFlight
      /\ \/ UNCHANGED task
         \/ /\ flight.at = "launch" /\ flight.task = "none"
            /\ task' = [task EXCEPT ![goal.at] = "torn"]
    BY DEF Crash
<1>2. flight'.at = "idle"
    BY <1>1 DEF NoFlight
<1>3. crashes \in Nat
    BY GoalAssumption DEF IInv, Types, GoalTypeOK, Where
<1>4. crashes' > 0 /\ crashes' # 0
    BY <1>1, <1>3
<1>5. Order'
    <2>1. CASE UNCHANGED task
        BY <1>1, <1>4, <2>1, SameTasks DEF IInv, Grown
    <2>2. CASE /\ flight.at = "launch" /\ flight.task = "none"
               /\ task' = [task EXCEPT ![goal.at] = "torn"]
        <3>2. goal.at \in Tasks /\ LaunchOK /\ TaskOK(goal.at) /\ Records(goal.at)
            BY <2>2, Launched DEF Launching
        <3>3. task'[goal.at] = "torn" /\ \A i \in Tasks \ {goal.at} : task'[i] = task[i]
            BY <2>2, <3>2 DEF IInv, Types, GoalTypeOK
        <3>4. TaskOK(goal.at)'
            BY <1>1, <1>4, <2>2, <3>2, <3>3
               DEF TaskOK, Told, Ended, Records, LaunchOK, Untouched, Tasks, lower, Ends
        <3>5. \A i \in Tasks \ {goal.at} : Same(i)
            BY <1>1, <3>3 DEF Same, lower
        <3>. QED
            BY <1>1, <1>4, <3>2, <3>4, <3>5, OtherTasks DEF IInv, Grown
    <2>. QED
        BY <1>1, <2>1, <2>2
<1>6. FlightOK'
    BY <1>2 DEF FlightOK, Launching
<1>7. Called'
    BY <1>1, <1>4 DEF IInv, Called, Earned, lower
<1>. QED
    BY <1>4, <1>5, <1>6, <1>7 DEF Clean

-----------------------------------------------------------------------------
(* The loops and the executions, which change under the goal *)

LEMMA LoopReviewsKeeps ==
    ASSUME IInv, NEW k \in Tasks, LoopReviews(k), UNCHANGED <<goal, lower, flight, crashes>>
    PROVE  Order' /\ FlightOK' /\ Clean' /\ Called'
<1>. USE DEF i0, At
<1>1. /\ loop[k] = "active" /\ task[k] = "open" /\ UNCHANGED <<loop, bounds>>
      /\ task' = [task EXCEPT ![k] = "reviewing"]
    BY DEF LoopReviews, auto, bounds
<1>2. task'[k] = "reviewing" /\ \A i \in Tasks \ {k} : task'[i] = task[i]
    BY <1>1 DEF IInv, Types, GoalTypeOK
<1>3. TaskOK(k) /\ goal.at \in Nat
    BY AtTask DEF IInv, Order
<1>4. k = goal.at
    BY <1>1, <1>3 DEF TaskOK, Told, Tasks
<1>5. Order'
    <2>1. TaskOK(k)'
        BY <1>1, <1>2, <1>3, <1>4 DEF TaskOK, Told, Ended, Records, Given, Untouched, lower, bounds, Ends
    <2>2. \A i \in Tasks \ {k} : Same(i)
        BY <1>1, <1>2 DEF Same, lower
    <2>. QED
        BY <1>1, <2>1, <2>2, OtherTasks DEF IInv, Grown, bounds
<1>6. flight.at = "read" => ReadOK'
    <2>1. SUFFICES ASSUME flight.at = "read" PROVE ReadOK'
        OBVIOUS
    <2>2. ReadOK
        BY <2>1 DEF IInv, FlightOK
    <2>. QED
        BY <1>1, <1>2, <1>4, <2>2 DEF ReadOK, lower, bounds, Ends
<1>7. flight.at \notin Launching
    BY <1>1, <1>4 DEF IInv, FlightOK, LaunchOK
<1>8. FlightOK'
    BY <1>1, <1>6, <1>7 DEF IInv, FlightOK, DecidedOK, Earned, Launching, lower, bounds
<1>9. Clean'
    BY <1>1, <1>4 DEF Clean
<1>10. Called'
    BY <1>1 DEF IInv, Called, Earned, lower, bounds
<1>. QED
    BY <1>5, <1>8, <1>9, <1>10

LEMMA LoopEndsKeeps ==
    ASSUME IInv, NEW k \in Tasks, LoopEnds(k), UNCHANGED <<goal, lower, flight, crashes>>
    PROVE  Order' /\ FlightOK' /\ Clean' /\ Called'
<1>. USE DEF i0, At
<1>1. PICK s \in Ends : loop' = [loop EXCEPT ![k] = s]
    BY DEF LoopEnds
<1>2. loop[k] = "active" /\ UNCHANGED <<task, faults>>
    BY DEF LoopEnds
<1>3. loop'[k] = s /\ \A i \in Tasks \ {k} : loop'[i] = loop[i]
    BY <1>1 DEF IInv, Types, GoalTypeOK
<1>4. TaskOK(k) /\ goal.at \in Nat
    BY AtTask DEF IInv, Order
<1>5. k = goal.at
    BY <1>2, <1>4 DEF TaskOK, Told, Tasks
<1>6. s \in {"completed", "failed", "human_required"}
    BY DEF Ends
<1>7. Order'
    <2>1. TaskOK(k)'
        BY <1>2, <1>3, <1>4, <1>5, <1>6 DEF TaskOK, Told, Ended, Records, Given, Untouched, lower, Ends
    <2>2. \A i \in Tasks \ {k} : Same(i)
        BY <1>2, <1>3 DEF Same, lower
    <2>. QED
        BY <1>2, <2>1, <2>2, OtherTasks DEF IInv, Grown
<1>8. flight.at = "read" => ReadOK'
    <2>1. SUFFICES ASSUME flight.at = "read" PROVE ReadOK'
        OBVIOUS
    <2>2. ReadOK
        BY <2>1 DEF IInv, FlightOK
    <2>. QED
        BY <1>2, <1>3, <1>5, <1>6, <2>2 DEF ReadOK, lower, Ends
<1>9. flight.at \notin Launching
    BY <1>2, <1>5 DEF IInv, FlightOK, LaunchOK
<1>10. Earned => Earned'
    BY <1>2, <1>5 DEF Earned, lower
<1>11. DecidedOK => DecidedOK'
    BY <1>2, <1>5, <1>10 DEF DecidedOK, lower
<1>12. FlightOK'
    BY <1>3, <1>5, <1>6, <1>8, <1>9, <1>11 DEF IInv, FlightOK, Launching, lower
<1>13. Clean'
    BY <1>3, <1>5, <1>6 DEF Clean
<1>14. Called'
    BY <1>10 DEF IInv, Called
<1>. QED
    BY <1>7, <1>12, <1>13, <1>14

LEMMA LoopClosesKeeps ==
    ASSUME IInv, NEW k \in Tasks, LoopCloses(k), UNCHANGED <<goal, lower, flight, crashes>>
    PROVE  Order' /\ FlightOK' /\ Clean' /\ Called'
<1>. USE DEF i0, At
<1>1. /\ loop[k] \in Ends /\ UNCHANGED loop /\ faults \subseteq faults'
      /\ faults' # {} \/ UNCHANGED faults
    BY FaultKnown DEF LoopCloses, IInv, Types, Closes
<1>2. /\ task'[k] \in {task[k], loop[k]}
      /\ task[k] \in {"none", "torn"} => task'[k] = task[k]
      /\ task'[k] = task[k] => UNCHANGED task
      /\ \A i \in Tasks \ {k} : task'[i] = task[i]
    <2>1. task \in [Tasks -> {"none", "torn", "open", "reviewing"} \cup Ends]
        BY DEF IInv, Types, GoalTypeOK
    <2>2. UNCHANGED task
            \/ task' = [task EXCEPT ![k] = IF @ \in {"none", "torn"} THEN @ ELSE loop[k]]
        BY DEF LoopCloses
    <2>3. CASE UNCHANGED task
        BY <2>3
    <2>4. CASE task' = [task EXCEPT ![k] = IF @ \in {"none", "torn"} THEN @ ELSE loop[k]]
        BY <2>1, <2>4
    <2>. QED
        BY <2>2, <2>3, <2>4
<1>3. TaskOK(k) /\ goal.at \in Nat /\ ~(k > goal.at)
    BY <1>1, AtTask DEF IInv, Order, TaskOK, Told, Ends
<1>4. Order'
    <2>1. TaskOK(k)'
        BY <1>1, <1>2, <1>3 DEF TaskOK, Told, Ended, Records, Given, Untouched, lower, Ends
    <2>2. \A i \in Tasks \ {k} : Same(i)
        BY <1>1, <1>2 DEF Same, lower
    <2>. QED
        BY <1>1, <2>1, <2>2, OtherTasks DEF IInv, Grown
<1>5. goal.at = k \/ task'[goal.at] = task[goal.at] \/ goal.at \notin Tasks
    BY <1>2
<1>6. flight.at = "read" => ReadOK'
    <2>1. SUFFICES ASSUME flight.at = "read" PROVE ReadOK'
        OBVIOUS
    <2>2. ReadOK /\ goal.at \in Tasks
        BY <2>1, AtTask DEF IInv, FlightOK
    <2>. QED
        BY <1>1, <1>2, <1>5, <2>2 DEF ReadOK, lower, Ends
<1>7. flight.at \in Launching => LaunchOK'
    <2>1. SUFFICES ASSUME flight.at \in Launching PROVE LaunchOK'
        OBVIOUS
    <2>2. LaunchOK /\ goal.at \in Tasks
        BY <2>1, Launched
    <2>. QED
        BY <1>1, <1>5, <2>2 DEF LaunchOK, lower, Ends
<1>8. Earned => Earned'
    BY <1>1 DEF Earned, lower
<1>9. DecidedOK => DecidedOK'
    BY <1>1, <1>8 DEF DecidedOK, lower
<1>10. FlightOK'
    BY <1>1, <1>6, <1>7, <1>9 DEF IInv, FlightOK, lower
<1>11. Clean'
    <2>1. SUFFICES ASSUME goal.kind = "plan", goal.status = "running", flight.at \in Early, crashes = 0,
                          faults' = {}, loop[goal.at] = "none"
                   PROVE  actuation[goal.at] = "none" /\ task'[goal.at] \notin Ends
        BY <1>1 DEF Clean, lower
    <2>2. faults = {} /\ goal.at \in Tasks
        BY <1>1, <2>1, AtTask DEF IInv
    <2>. QED
        BY <1>1, <1>5, <2>1, <2>2 DEF IInv, Clean, Ends
<1>12. Called'
    BY <1>8 DEF IInv, Called
<1>. QED
    BY <1>4, <1>10, <1>11, <1>12

LEMMA ExecutionKeeps ==
    ASSUME IInv, NEW k \in Tasks, EndExecution(k)
    PROVE  Order' /\ FlightOK' /\ Clean' /\ Called'
<1>. USE DEF i0, At
<1>1. PICK s \in {"passed", "failed", "terminated"} : execution' = [execution EXCEPT ![k] = s]
    BY DEF EndExecution
<1>2. /\ execution[k] = "running" /\ k \in proven
      /\ UNCHANGED <<goal, task, authorized, actuation, launches, proven, loop, flight, bounds>>
    BY DEF EndExecution, auto
<1>3. execution'[k] = s /\ \A i \in Tasks \ {k} : execution'[i] = execution[i]
    BY <1>1 DEF IInv, Types, GoalTypeOK
<1>4. TaskOK(k)
    BY DEF IInv, Order
<1>5. Order'
    <2>1. TaskOK(k)'
        BY <1>2, <1>3, <1>4 DEF TaskOK, Told, Ended, Records, Given, Untouched, bounds
    <2>2. \A i \in Tasks \ {k} : Same(i)
        BY <1>2, <1>3 DEF Same
    <2>. QED
        BY <1>2, <2>1, <2>2, OtherTasks DEF IInv, Grown, bounds
<1>6. goal.at \in Tasks => \/ k = goal.at
                           \/ execution'[goal.at] = execution[goal.at]
    BY <1>3
<1>7. flight.at = "read" => ReadOK'
    <2>1. SUFFICES ASSUME flight.at = "read" PROVE ReadOK'
        OBVIOUS
    <2>2. ReadOK /\ goal.at \in Tasks
        BY <2>1, AtTask DEF IInv, FlightOK
    <2>. QED
        BY <1>2, <1>3, <1>6, <2>2 DEF ReadOK, bounds
<1>8. flight.at \in Launching => LaunchOK'
    <2>1. SUFFICES ASSUME flight.at \in Launching PROVE LaunchOK'
        OBVIOUS
    <2>2. LaunchOK /\ goal.at \in Tasks /\ Records(goal.at)
        BY <2>1, Launched
    <2>. QED
        BY <1>2, <1>3, <1>6, <2>2 DEF LaunchOK, Records, bounds
<1>9. goal.at \in Tasks /\ Earned => Earned'
    BY <1>2, <1>3, <1>6 DEF Earned, bounds
<1>10. goal.at \in Tasks /\ DecidedOK => DecidedOK'
    BY <1>2, <1>9 DEF DecidedOK
<1>11. FlightOK'
    <2>1. flight.at = "terminated" => execution'[goal.at] = "terminated"
        BY <1>2, <1>6, AtTask DEF IInv, FlightOK
    <2>2. flight.at \in {"error", "setTask", "checkpoint", "end"} => goal.at \in Tasks
        BY AtTask DEF IInv
    <2>. QED
        BY <1>2, <1>7, <1>8, <1>10, <2>1, <2>2 DEF IInv, FlightOK
<1>12. Clean'
    BY <1>2 DEF IInv, Clean, bounds
<1>13. Called'
    <2>1. goal.status = "human_required" => goal.at \in Tasks
        BY AtTask DEF IInv
    <2>. QED
        BY <1>2, <1>9, <2>1 DEF IInv, Called
<1>. QED
    BY <1>5, <1>11, <1>12, <1>13

\* The chat, the callers and a stutter touch nothing that the invariant is about.
LEMMA IdleKeeps ==
    ASSUME IInv, ChatStep \/ CallStep \/ UNCHANGED goalVars
    PROVE  Order' /\ FlightOK' /\ Clean' /\ Called'
<1>1. UNCHANGED <<goal, task, lower, loop, flight, bounds>>
    BY DEF ChatStep, CallStep, goalVars, auto
<1>2. Order'
    BY <1>1, SameTasks DEF IInv, Grown, bounds
<1>. QED
    BY <1>1, <1>2 DEF IInv, FlightOK, ReadOK, LaunchOK, DecidedOK, Clean, Called, Earned, i0, At, lower, bounds

-----------------------------------------------------------------------------
(* The theorems *)

LEMMA InitKeeps == GoalInit => IInv
<1>. SUFFICES ASSUME GoalInit PROVE IInv
    OBVIOUS
<1>. USE GoalAssumption DEF Tasks, i0, At
<1>1. PICK kind \in Kinds :
        LET ran == {i \in Tasks : kind = "review" /\ i = 1} IN
        /\ goal = [status |-> "none", kind |-> kind, at |-> 0, error |-> FALSE, info |-> FALSE,
                   phase |-> [p \in Phases |-> "pending"]]
        /\ task = [i \in Tasks |-> IF i \in ran THEN "open" ELSE "none"]
        /\ execution = [i \in Tasks |-> IF i \in ran THEN "passed" ELSE "none"]
        /\ launches = [i \in Tasks |-> IF i \in ran THEN 1 ELSE 0]
        /\ proven = ran
    BY DEF GoalInit
<1>2. /\ authorized = {} /\ actuation = [i \in Tasks |-> "none"]
      /\ loop = [i \in Tasks |-> "none"] /\ closing = {} /\ telling = {}
      /\ notice = "none"
      /\ calls = {} /\ flight = NoFlight /\ timer = FALSE /\ recovering = FALSE
      /\ crashes = 0 /\ faults = {}
    BY DEF GoalInit
<1>3. /\ goal.status = "none" /\ goal.kind = kind /\ goal.at = 0 /\ kind \in {"plan", "review"}
      /\ flight.at = "idle"
    BY <1>1, <1>2 DEF NoFlight
<1>4. goal \in Goal
    BY <1>1, <1>3 DEF Goal, Statuses, Ends
<1>5. flight \in Flight
    BY <1>2 DEF NoFlight, Flight, Places, Ends
<1>6. crashes \in 0 .. MaxFailures[goal.kind]
    BY <1>2, <1>3
<1>7. /\ task \in [Tasks -> {"none", "torn", "open", "reviewing"} \cup Ends]
      /\ execution \in [Tasks -> {"none", "running", "passed", "failed", "terminated"}]
      /\ launches \in [Tasks -> Nat] /\ proven \subseteq Tasks
    BY <1>1
<1>8. GoalTypeOK
    BY <1>2, <1>4, <1>5, <1>6, <1>7 DEF GoalTypeOK
<1>9. Where /\ Closes
    BY <1>2, <1>3 DEF Where, Closes, Last
<1>10. ASSUME NEW i \in Tasks PROVE TaskOK(i)
    BY <1>1, <1>2, <1>3 DEF TaskOK, Told, Ended, Records, Given, Untouched, Ends
<1>11. FlightOK /\ Clean /\ Called
    BY <1>3 DEF FlightOK, Launching, Clean, Called
<1>. QED
    BY <1>8, <1>9, <1>10, <1>11 DEF IInv, Types, Order

\* Every step of a goal keeps the invariant.
LEMMA NextKeeps == IInv /\ [GoalNext]_goalVars => IInv'
<1>. SUFFICES ASSUME IInv, [GoalNext]_goalVars PROVE IInv'
    OBVIOUS
<1>1. Types'
    BY NextTypes DEF IInv
<1>2. ASSUME NEW k \in Tasks, LoopReviews(k) \/ LoopEnds(k) \/ LoopCloses(k),
             UNCHANGED <<goal, lower, flight, crashes>>
      PROVE  Order' /\ FlightOK' /\ Clean' /\ Called'
    BY <1>2, LoopReviewsKeeps, LoopEndsKeeps, LoopClosesKeeps
<1>3. AutoStep => Order' /\ FlightOK' /\ Clean' /\ Called'
    BY <1>2 DEF AutoStep
<1>4. Order' /\ FlightOK' /\ Clean' /\ Called'
    BY <1>3, ServeKeeps, CreateKeeps, ReadKeeps, CreateTaskKeeps, LaunchKeeps, LoopKeeps, GoalKeeps,
       ThrowKeeps, FaultKeeps, CrashKeeps, ExecutionKeeps, IdleKeeps DEF GoalNext, Work
<1>. QED
    BY <1>1, <1>4 DEF IInv

LEMMA InvariantHolds == GoalSafeSpec => []IInv
    BY InitKeeps, NextKeeps, PTL DEF GoalSafeSpec

\* The records of a goal, its tasks and the call that is served have their types.
THEOREM GoalTypeCorrect == GoalSafeSpec => []GoalTypeOK
<1>1. IInv => GoalTypeOK
    BY DEF IInv, Types
<1>. QED
    BY <1>1, InvariantHolds, PTL

\* finish() ends a goal as human_required only for a reason: where nothing failed,
\* the loop asked for a human, the execution was terminated, or a stop of the
\* runtime interrupted the launch of the task.
THEOREM HumansEarned == GoalSafeSpec => []HumanIsEarned
<1>1. IInv => HumanIsEarned
    BY DEF IInv, Called, Earned, HumanIsEarned
<1>. QED
    BY <1>1, InvariantHolds, PTL

-----------------------------------------------------------------------------
(* The plan that a goal keeps *)

Progress == IF goal.status = "none" THEN "pending" ELSE goal.status
Started == [i \in Tasks |-> IF goal.at = 0 THEN 0 ELSE launches[i]]
Approved == {i \in Tasks : loop[i] = "completed"}
PlanStep == [ImplementsPlan!PlanNext]_(ImplementsPlan!planVars)

\* A step that the plan does not see.
Quiet ==
    /\ goal'.kind = goal.kind /\ goal'.at = goal.at /\ Progress' = Progress
    /\ UNCHANGED launches
    /\ \A i \in Tasks : loop'[i] = "completed" <=> loop[i] = "completed"

LEMMA QuietSteps == Quiet => PlanStep
<1>. SUFFICES ASSUME Quiet PROVE UNCHANGED ImplementsPlan!planVars
    BY DEF PlanStep
<1>1. UNCHANGED <<Last, Progress, Started, goal.at>>
    BY DEF Quiet, Last, Started
<1>2. UNCHANGED Approved
    BY DEF Quiet, Approved
<1>. QED
    BY <1>1, <1>2 DEF ImplementsPlan!planVars, Progress, Started, Approved

\* What the plan says of a step, in the words of a goal.
LEMMA PlanWords ==
    ASSUME UNCHANGED Last
    PROVE  \/ /\ Progress = "pending" /\ Progress' = "running" /\ goal'.at = 1
              /\ Started' \in {Started, [Started EXCEPT ![1] = 1]} /\ UNCHANGED Approved
           \/ /\ Progress = "running" /\ Started[goal.at] = 0
              /\ Started' = [Started EXCEPT ![goal.at] = 1]
              /\ UNCHANGED <<Progress, goal.at, Approved>>
           \/ /\ Progress # "pending" /\ Started[goal.at] = 1
              /\ Approved' = Approved \cup {goal.at} /\ UNCHANGED <<Progress, goal.at, Started>>
           \/ /\ Progress = "running" /\ goal.at \in Approved /\ goal.at < Last
              /\ goal'.at = goal.at + 1 /\ UNCHANGED <<Progress, Started, Approved>>
           \/ /\ Progress = "running"
              /\ \/ goal.at \in Approved /\ goal.at = Last /\ Progress' = "completed"
                 \/ Progress' \in {"failed", "human_required"}
              /\ UNCHANGED <<goal.at, Started, Approved>>
           => PlanStep
    BY DEF PlanStep, ImplementsPlan!PlanNext, ImplementsPlan!BeginPlan, ImplementsPlan!LaunchTask,
           ImplementsPlan!ApproveTask, ImplementsPlan!NextTask, ImplementsPlan!EndPlan,
           Progress, Started, Approved

LEMMA BeginSteps ==
    ASSUME IInv, CreateReviewGoal \/ Begin
    PROVE  PlanStep
<1>. USE GoalAssumption DEF i0, At
<1>1. /\ UNCHANGED <<launches, loop>> /\ goal.at = 0 /\ goal \in Goal /\ 1 \in Tasks
      /\ goal.status \in {"none", "pending"}
    BY AtTask DEF CreateReviewGoal, Begin, IInv, Types, Where, lower, auto, Tasks
<1>2. goal'.status = "running" /\ goal'.at = 1 /\ goal'.kind = goal.kind
    BY <1>1 DEF CreateReviewGoal, Begin, Goal
<1>3. Started' \in {Started, [Started EXCEPT ![1] = 1]}
    <2>1. /\ Started = [i \in Tasks |-> 0] /\ Started' = [i \in Tasks |-> launches[i]]
        BY <1>1, <1>2 DEF Started
    <2>2. \A i \in Tasks \ {1} : launches[i] = 0
        BY <1>1 DEF IInv, Order, TaskOK, Untouched, Tasks
    <2>3. launches[1] \in {0, 1}
        BY <1>1, AtTask DEF IInv, Order, TaskOK, Records, Given
    <2>4. CASE launches[1] = 0
        <3>1. \A i \in Tasks : launches[i] = 0
            BY <2>2, <2>4
        <3>. QED
            BY <2>1, <3>1
    <2>5. CASE launches[1] = 1
        <3>1. \A i \in Tasks : launches[i] = IF i = 1 THEN 1 ELSE 0
            BY <2>2, <2>5
        <3>2. [Started EXCEPT ![1] = 1] = [i \in Tasks |-> IF i = 1 THEN 1 ELSE 0]
            BY <1>1, <2>1
        <3>. QED
            BY <2>1, <3>1, <3>2
    <2>. QED
        BY <2>3, <2>4, <2>5
<1>4. UNCHANGED <<Last, Approved>>
    BY <1>1, <1>2 DEF Last, Approved
<1>5. Progress = "pending" /\ Progress' = "running"
    BY <1>1, <1>2 DEF Progress
<1>. QED
    BY <1>2, <1>3, <1>4, <1>5, PlanWords

LEMMA SpawnSteps ==
    ASSUME IInv, Spawn, UNCHANGED <<goal, loop>>
    PROVE  PlanStep
<1>. USE DEF i0, At
<1>1. flight.at = "spawn" /\ launches' = [launches EXCEPT ![goal.at] = @ + 1]
    BY DEF Spawn
<1>2. goal.at \in Tasks /\ goal.at # 0 /\ goal.status = "running" /\ launches[goal.at] = 0
    BY <1>1, Launched DEF Launching, LaunchOK, Tasks
<1>3. launches \in [Tasks -> Nat]
    BY DEF IInv, Types, GoalTypeOK
<1>4. Started[goal.at] = 0 /\ Started' = [Started EXCEPT ![goal.at] = 1]
    BY <1>1, <1>2, <1>3 DEF Started
<1>5. UNCHANGED <<Last, Approved, Progress, goal.at>> /\ Progress = "running"
    BY <1>2 DEF Last, Approved, Progress
<1>. QED
    BY <1>4, <1>5, PlanWords

LEMMA ApproveSteps ==
    ASSUME IInv, NEW k \in Tasks, LoopEnds(k), UNCHANGED <<goal, lower>>
    PROVE  PlanStep
<1>. USE DEF i0, At
<1>1. PICK s \in Ends : loop' = [loop EXCEPT ![k] = s]
    BY DEF LoopEnds
<1>2. loop'[k] = s /\ \A i \in Tasks \ {k} : loop'[i] = loop[i]
    BY <1>1 DEF IInv, Types, GoalTypeOK
<1>3. loop[k] = "active" /\ UNCHANGED launches
    BY DEF LoopEnds, lower
<1>4. CASE s # "completed"
    <2>1. Quiet
        BY <1>2, <1>3, <1>4 DEF Quiet, Progress
    <2>. QED
        BY <2>1, QuietSteps
<1>5. CASE s = "completed"
    <2>1. TaskOK(k) /\ goal.at \in Nat /\ goal.kind \in {"plan", "review"}
        BY AtTask DEF IInv, Order
    <2>2. k = goal.at /\ goal.at # 0
        BY <1>3, <2>1 DEF TaskOK, Told, Tasks
    <2>3. launches[goal.at] = 1
        BY <1>3, <2>1, <2>2, AtTask DEF IInv, TaskOK, Records, Given
    <2>4. Started[goal.at] = 1
        BY <2>2, <2>3 DEF Started
    <2>5. Approved' = Approved \cup {goal.at}
        BY <1>2, <1>5, <2>2 DEF Approved
    <2>6. goal.status \notin {"none", "pending"}
        BY <2>2 DEF IInv, Types, Where
    <2>7. UNCHANGED <<Last, Progress, goal.at, Started>> /\ Progress # "pending"
        BY <1>3, <2>6 DEF Last, Progress, Started
    <2>. QED
        BY <2>4, <2>5, <2>7, PlanWords
<1>. QED
    BY <1>4, <1>5

LEMMA GoalSteps ==
    ASSUME IInv, GoalStep
    PROVE  PlanStep
<1>. USE DEF i0, At
<1>1. /\ flight.at \in {"error", "setTask", "checkpoint", "end", "notify"}
      /\ UNCHANGED <<launches, loop>>
    BY DEF GoalStep, SaveError, SetTask, Checkpoint, EndGoal, SaveInfo, auto, lower
<1>2. /\ goal.at \in Tasks /\ goal.at # 0 /\ flight \in Flight /\ goal \in Goal
      /\ flight.at # "notify" => goal.status = "running"
    BY <1>1, AtTask DEF IInv, Tasks
<1>3. CASE SaveError \/ SetTask \/ SaveInfo
    <2>1. goal'.kind = goal.kind /\ goal'.at = goal.at /\ goal'.status = goal.status
        BY <1>2, <1>3 DEF SaveError, SetTask, SaveInfo, Goal
    <2>2. Quiet
        BY <1>1, <2>1 DEF Quiet, Progress
    <2>. QED
        BY <2>2, QuietSteps
<1>4. CASE Checkpoint
    <2>1. goal.at \in Approved
        BY <1>2, <1>4 DEF Checkpoint, IInv, FlightOK, DecidedOK, Approved
    <2>2. goal.at \in Nat /\ Last \in Nat /\ goal.status = "running"
        BY <1>2, <1>4, AtTask DEF IInv, Checkpoint
    <2>3. CASE goal.at < Last
        <3>1. goal.at # Last
            BY <2>2, <2>3
        <3>2. goal' = [goal EXCEPT !.at = @ + 1, !.phase = PhasesAdvanced]
            BY <1>4, <3>1 DEF Checkpoint
        <3>3. /\ goal'.at = goal.at + 1 /\ goal'.at # 0
              /\ goal'.kind = goal.kind /\ goal'.status = "running"
            BY <1>2, <2>2, <3>2 DEF Goal
        <3>4. UNCHANGED <<Last, Progress, Started, Approved>> /\ Progress = "running"
            BY <1>1, <1>2, <2>2, <3>3 DEF Last, Progress, Started, Approved
        <3>. QED
            BY <2>1, <2>3, <3>3, <3>4, PlanWords
    <2>4. CASE goal.at = Last
        <3>1. ~(goal.at < Last)
            BY <2>2, <2>4
        <3>2. goal' = [goal EXCEPT !.status = "completed", !.phase[PhaseOf[goal.at]] = "completed"]
            BY <1>4, <3>1 DEF Checkpoint
        <3>3. goal'.at = goal.at /\ goal'.kind = goal.kind /\ goal'.status = "completed"
            BY <1>2, <3>2 DEF Goal
        <3>4. /\ UNCHANGED <<Last, goal.at, Started, Approved>>
              /\ Progress = "running" /\ Progress' = "completed"
            BY <1>1, <2>2, <3>3 DEF Last, Progress, Started, Approved
        <3>. QED
            BY <2>1, <2>4, <3>4, PlanWords
    <2>. QED
        BY <1>4, <2>3, <2>4 DEF Checkpoint
<1>5. CASE EndGoal
    <2>1. /\ goal'.at = goal.at /\ goal'.kind = goal.kind /\ goal'.status = flight.to
          /\ flight.at = "end" /\ flight.to \in Ends
        BY <1>2, <1>5 DEF EndGoal, Goal, Flight
    <2>2. flight.to \in {"failed", "human_required"}
        BY <2>1 DEF IInv, FlightOK, Ends
    <2>3. /\ UNCHANGED <<Last, goal.at, Started, Approved>>
          /\ Progress = "running" /\ Progress' \in {"failed", "human_required"}
        BY <1>1, <1>2, <2>1, <2>2 DEF Last, Progress, Started, Approved
    <2>. QED
        BY <2>3, PlanWords
<1>. QED
    BY <1>3, <1>4, <1>5 DEF GoalStep

\* The loop is started or handed over, and none of this completes it.
LEMMA LoopQuiet ==
    ASSUME IInv, LoopStep
    PROVE  Quiet
<1>1. UNCHANGED <<goal, launches>> /\ loop \in [Tasks -> {"none", "active"} \cup Ends]
    BY DEF LoopStep, lower, IInv, Types, GoalTypeOK
<1>2. \A i \in Tasks : loop'[i] = "completed" <=> loop[i] = "completed"
    <2>1. CASE StartLoop
        BY <1>1, <2>1 DEF StartLoop
    <2>2. CASE HandOver
        BY <1>1, <2>2 DEF HandOver, Ends
    <2>3. CASE AdvanceLoop \/ LoopOutcome
        BY <2>3 DEF AdvanceLoop, LoopOutcome, auto
    <2>. QED
        BY <2>1, <2>2, <2>3 DEF LoopStep
<1>. QED
    BY <1>1, <1>2 DEF Quiet, Progress

LEMMA PlanSteps == IInv /\ [GoalNext]_goalVars => PlanStep
<1>. SUFFICES ASSUME IInv, [GoalNext]_goalVars PROVE PlanStep
    OBVIOUS
<1>1. UNCHANGED <<goal, launches, loop>> => PlanStep
    BY QuietSteps DEF Quiet, Progress
<1>2. ASSUME CreateStep PROVE PlanStep
    <2>1. CASE CreateGoal
        <3>1. /\ goal'.kind = goal.kind /\ goal'.at = goal.at
              /\ goal.status = "none" /\ goal'.status = "pending" /\ UNCHANGED <<launches, loop>>
            BY <2>1, AtTask DEF CreateGoal, IInv, Goal, lower, auto
        <3>2. Quiet
            BY <3>1 DEF Quiet, Progress
        <3>. QED
            BY <3>2, QuietSteps
    <2>. QED
        BY <1>2, <2>1, BeginSteps DEF CreateStep
<1>3. ASSUME LaunchStep PROVE PlanStep
    <2>1. UNCHANGED <<goal, loop>>
        BY <1>3 DEF LaunchStep, auto
    <2>2. CASE Spawn
        BY <2>1, <2>2, SpawnSteps
    <2>3. CASE ~Spawn
        <3>1. UNCHANGED launches
            BY <1>3, <2>3 DEF LaunchStep, Authorize, Reserve, CreateExecution, SavePid, LaunchFails, MarkActuation
        <3>. QED
            BY <1>1, <2>1, <3>1
    <2>. QED
        BY <2>2, <2>3
<1>4. ASSUME AutoStep PROVE PlanStep
    <2>1. UNCHANGED <<goal, lower>>
        BY <1>4 DEF AutoStep
    <2>2. PICK k \in Tasks : LoopReviews(k) \/ LoopEnds(k) \/ LoopCloses(k)
        BY <1>4 DEF AutoStep
    <2>3. CASE LoopEnds(k)
        BY <2>1, <2>3, ApproveSteps
    <2>4. CASE LoopReviews(k) \/ LoopCloses(k)
        BY <1>1, <2>1, <2>4 DEF LoopReviews, LoopCloses, lower, auto
    <2>. QED
        BY <2>2, <2>3, <2>4
<1>5. ASSUME \/ \E c \in calls : Serve(c)
             \/ ReadStep \/ CreateTask \/ ThrowStep \/ FaultStep \/ CallStep \/ Crash \/ ChatStep
             \/ \E i \in Tasks : EndExecution(i)
             \/ UNCHANGED goalVars
      PROVE  PlanStep
    <2>1. UNCHANGED <<goal, launches, loop>>
        BY <1>5 DEF Serve, ReadStep, CreateTask, ThrowStep, Enqueue, SetTornTask, FaultStep, CallStep,
           Crash, ChatStep, EndExecution, goalVars, lower, auto
    <2>. QED
        BY <1>1, <2>1
<1>. QED
    BY <1>2, <1>3, <1>4, <1>5, GoalSteps, LoopQuiet, QuietSteps DEF GoalNext, Work

LEMMA PlanBegins == GoalInit => ImplementsPlan!PlanInit
<1>. SUFFICES ASSUME GoalInit PROVE ImplementsPlan!PlanInit
    OBVIOUS
<1>1. goal.status = "none" /\ goal.at = 0 /\ loop = [i \in Tasks |-> "none"]
    BY DEF GoalInit
<1>2. Last \in Tasks
    BY GoalAssumption DEF Last, Tasks
<1>3. {i \in Tasks : loop[i] = "completed"} = {}
    BY <1>1
<1>. QED
    BY <1>1, <1>2, <1>3 DEF ImplementsPlan!PlanInit

\* Whatever the tasks and phases of a goal, and whatever stops and fails, its tasks are
\* worked on in their order, each is launched at most once, the next one begins only
\* when the work on the one before was approved, and an end is final (goal-orchestration.ts,
\* driveTask, completeTask and finish).
THEOREM ImplementsGoalPlan == GoalSafeSpec => PlanKept
BY InitKeeps, NextKeeps, PlanBegins, PlanSteps, PTL
DEF GoalSafeSpec, PlanKept, ImplementsPlan!PlanSpec, PlanStep
==============================================================================

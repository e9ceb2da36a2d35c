------------------------------ MODULE Supervisor ------------------------------
(***************************************************************************)
(* The supervisor of the runtime (supervisor/supervisor.ts) with the       *)
(* health monitor that drives it: it starts the runtime process and then   *)
(* the tunnel, watches both, restarts them a bounded number of times, and  *)
(* stops them.  The tray menu calls it without waiting for earlier calls   *)
(* (supervisor/tray.ts), so that calls overlap in its event loop.          *)
(***************************************************************************)
EXTENDS RuntimeProcess, CloudflareTunnel

CONSTANTS Limits,        \* values of maxRestartAttempts in the settings
          MaxRequests,   \* requests of the user after the start (a bound)
          MaxFaults      \* failures of processes and kills (a bound)

Nobody == "nobody"

ASSUME SupervisorAssumption ==
    /\ "cli" \in Callers /\ Callers \cap {"tick", "exit", Nobody} = {}
    /\ Pids \cup Cids \subseteq Nat \ {0}
    /\ Limits \subseteq Nat /\ MaxRequests \in Nat /\ MaxFaults \in [Limits -> Nat]

VARIABLES sup,           \* the fields of the Supervisor
          tick,          \* the health check under way
          host,          \* the program around it: "starting", "open", "failed", "closed"
          overlapped,    \* a request came that the supervisor does not order (below)
          requests, faults

processVars == <<rp, pm>>
tunnelVars == <<cp, cf, tm>>
loopVars == <<th, news>>
hostVars == <<host, overlapped, requests>>
vars == <<rp, pm, cp, cf, tm, th, news, sup, tick, host, overlapped, requests, faults>>

DegradedThreshold == 3

SupervisorInit ==
    /\ th = [t \in Threads |-> IF t = "cli" THEN [Idle EXCEPT !.op = "start", !.pc = "start"]
                               ELSE Idle]
    /\ news = [t \in Threads |-> "none"]
    /\ ProcessInit /\ CloudInit
    /\ \E limit \in Limits :
          sup = [state |-> "STOPPED", monitoring |-> FALSE, timer |-> FALSE,
                 lifecycle |-> Nobody, recovery |-> Nobody,
                 runtimeStarted |-> FALSE, tunnelStarted |-> FALSE,
                 attempts |-> 0, failures |-> 0, limit |-> limit]
    /\ tick = "none"
    /\ host = "starting" /\ overlapped = FALSE
    /\ requests = 0 /\ faults = 0

Resources == UNCHANGED <<rp, pm, cp, cf, tm, news>>
Local == Resources /\ UNCHANGED <<hostVars, faults>>

At(t, label) == th[t].pc = label

(* HealthMonitor.stop() and start(): a check whose timer was stopped is    *)
(* not delivered, and its flag keeps the next timer from checking.         *)
TimerOff == /\ sup.timer => tick' = IF tick = "asked" THEN "stale" ELSE tick
            /\ ~sup.timer => UNCHANGED tick

(* The call of t is over; a restart goes on with start().                  *)
Over(t) == th' = [th EXCEPT ![t] = IF @.op = "restart" THEN [Idle EXCEPT !.op = "start", !.pc = "start"]
                                   ELSE Idle]
Leave(t) == th' = [th EXCEPT ![t] = Idle]

(***************************************************************************)
(* start()                                                                 *)
(***************************************************************************)
\* the tray menu is there once the first start has succeeded; a signal ends
\* the program at any time, and Exit from the menu is the same stop
Allowed(op) ==
    IF op = "exit" THEN host \in {"starting", "open"} ELSE host = "open"

(* Three kinds of request are not ordered by the supervisor, and can leave *)
(* it in ERROR or STOPPED with a tunnel that runs: one made while another  *)
(* is under way, one made while it gives up (enterError is not recorded as *)
(* a recovery), and a start while it is DEGRADED (a recovery may begin     *)
(* beside the start, which only the states RUNNING and DEGRADED allow).    *)
Unordered(op) ==
    \/ host = "open" /\ \E d \in Callers : ~At(d, "idle")
    \/ \E t \in Threads : th[t].ctx = "error"
    \/ op = "start" /\ sup.state = "DEGRADED"

Request(c, op) ==
    /\ Drained /\ At(c, "idle")
    /\ Allowed(op)
    /\ requests < MaxRequests
    /\ requests' = IF op = "exit" THEN MaxRequests ELSE requests + 1
    /\ host' = IF op = "exit" THEN "closed" ELSE host
    /\ overlapped' = (overlapped \/ Unordered(op))
    /\ th' = [th EXCEPT ![c].op = op, ![c].pc = IF op = "start" THEN "start" ELSE "stop"]
    /\ Resources /\ UNCHANGED <<sup, tick, faults>>

\* what is under way when start() is called
Start(t) ==
    /\ At(t, "start")
    /\ IF sup.state \in {"RUNNING", "STOPPING"} THEN Leave(t)
       ELSE IF sup.lifecycle # Nobody THEN Await(t, "joinLifecycle", <<"lifecycle", sup.lifecycle>>)
       ELSE IF sup.recovery # Nobody THEN Await(t, "joinRecovery", <<"recovery", sup.recovery>>)
       ELSE Goto(t, "begin")
    /\ Local /\ UNCHANGED <<sup, tick>>

StartAgain(t) ==
    /\ At(t, "startAgain")
    /\ IF sup.state = "RUNNING" THEN Leave(t) ELSE Goto(t, "begin")
    /\ Local /\ UNCHANGED <<sup, tick>>

\* startInternal
Begin(t) ==
    /\ At(t, "begin")
    /\ sup' = [sup EXCEPT !.monitoring = TRUE, !.lifecycle = t, !.attempts = 0,
                          !.failures = 0, !.state = "STARTING"]
    /\ th' = [th EXCEPT ![t].ctx = "start", ![t].pc = "spawn"]
    /\ Local /\ UNCHANGED tick

\* startResources
Spawn(t) ==
    /\ At(t, "spawn")
    /\ ProcessStart(t)
    /\ sup' = [sup EXCEPT !.state = "STARTING"]
    /\ UNCHANGED tunnelVars /\ UNCHANGED <<tick, hostVars, faults>>

Started(t) ==
    /\ At(t, "started")
    /\ sup' = [sup EXCEPT !.runtimeStarted = TRUE]
    /\ Goto(t, "health")
    /\ Local /\ UNCHANGED tick

\* waitForHealthy: the twenty probes that follow the start of the process
RuntimeHealthy(t) ==
    /\ Drained /\ At(t, "health")
    /\ RuntimeAnswers
    /\ sup' = [sup EXCEPT !.tunnelStarted = TRUE]
    /\ TunnelStart(t)
    /\ UNCHANGED processVars /\ UNCHANGED <<tick, hostVars, faults>>

RuntimeUnhealthy(t) ==
    /\ Drained /\ At(t, "health")
    /\ IF RuntimeAnswers THEN faults < MaxFaults[sup.limit] /\ faults' = faults + 1 ELSE UNCHANGED faults
    /\ sup' = [sup EXCEPT !.failures = @ + 1, !.state = "DEGRADED"]
    /\ Goto(t, "startFailed")
    /\ Resources /\ UNCHANGED <<tick, hostVars>>

\* both are up: monitoring begins unless a stop has been requested meanwhile
Serving(t) ==
    /\ At(t, "serving")
    /\ sup' = [sup EXCEPT !.attempts = 0, !.failures = 0, !.state = "RUNNING",
                          !.timer = @ \/ sup.monitoring]
    /\ Goto(t, "end")
    /\ Local /\ UNCHANGED tick

StartFailed(t) ==
    /\ At(t, "startFailed")
    /\ th' = [th EXCEPT ![t].ctx = IF @ = "start" THEN "startCleanup" ELSE "recoverCleanup",
                        ![t].pc = "stopTunnel"]
    /\ Local /\ UNCHANGED <<sup, tick>>

(***************************************************************************)
(* stop()                                                                  *)
(***************************************************************************)
Stop(t) ==
    /\ At(t, "stop")
    /\ sup' = [sup EXCEPT !.monitoring = FALSE, !.timer = FALSE]
    /\ TimerOff
    /\ IF sup.state = "STOPPED" THEN Over(t)
       ELSE IF sup.lifecycle # Nobody THEN Await(t, "stopLifecycle", <<"lifecycle", sup.lifecycle>>)
       ELSE Goto(t, "stopAgain")
    /\ Local

StopAtOnce(t) ==
    /\ At(t, "stopAgain")
    /\ Goto(t, "stopGo")
    /\ Local /\ UNCHANGED <<sup, tick>>

StopAgain(t) ==
    /\ At(t, "stopAgain")
    /\ IF sup.recovery # Nobody THEN Await(t, "stopRecovery", <<"recovery", sup.recovery>>)
       ELSE Goto(t, "stopGo")
    /\ Local /\ UNCHANGED <<sup, tick>>

StopGo(t) ==
    /\ At(t, "stopGo")
    /\ sup' = [sup EXCEPT !.state = "STOPPING"]
    /\ th' = [th EXCEPT ![t].ctx = "stop", ![t].pc = "stopTunnel"]
    /\ Local /\ UNCHANGED tick

\* stopResources: the tunnel first, then the process
StopTunnel(t) ==
    /\ At(t, "stopTunnel")
    /\ sup' = [sup EXCEPT !.timer = FALSE, !.tunnelStarted = FALSE]
    /\ TimerOff
    /\ IF sup.tunnelStarted THEN TunnelStop(t)
       ELSE Goto(t, "stopProc") /\ UNCHANGED tunnelVars /\ UNCHANGED news
    /\ UNCHANGED processVars /\ UNCHANGED <<hostVars, faults>>

StopProcess(t) ==
    /\ At(t, "stopProc")
    /\ sup' = [sup EXCEPT !.runtimeStarted = FALSE]
    /\ ProcessStop(t)
    /\ UNCHANGED tunnelVars /\ UNCHANGED <<tick, hostVars, faults>>

(* What follows stopResources in stop(), startInternal, recover and        *)
(* enterError.                                                             *)
StoppedBy(t) ==
    /\ At(t, "stopDone") /\ th[t].ctx = "stop"
    /\ sup' = [sup EXCEPT !.attempts = 0, !.failures = 0,
                          !.state = IF th[t].bad THEN "ERROR" ELSE "STOPPED"]
    /\ IF th[t].bad THEN Leave(t) ELSE Over(t)
    /\ Local /\ UNCHANGED tick

StartCleaned(t) ==
    /\ At(t, "stopDone") /\ th[t].ctx \in {"startCleanup", "error"}
    /\ sup' = [sup EXCEPT !.state = "ERROR"]
    /\ Goto(t, "end")
    /\ Local /\ UNCHANGED tick

\* a recovery whose stop succeeded restarts, unless a stop was requested
Recovering(t) ==
    /\ At(t, "stopDone") /\ th[t].ctx = "recover"
    /\ IF th[t].bad
       THEN th' = [th EXCEPT ![t].ctx = "recoverCleanup", ![t].bad = FALSE, ![t].pc = "stopTunnel"]
       ELSE Goto(t, IF sup.monitoring THEN "spawn" ELSE "end")
    /\ Local /\ UNCHANGED <<sup, tick>>

NotWatched == FALSE
WatchedAgain == sup.timer \/ sup.monitoring

RecoveryFailed(t) ==
    LET over == sup.attempts >= sup.limit
    IN /\ At(t, "stopDone") /\ th[t].ctx = "recoverCleanup"
       /\ sup' = [sup EXCEPT !.state = IF over THEN "ERROR" ELSE "DEGRADED",
                             !.timer = ~over /\ WatchedAgain]
       /\ IF over THEN TimerOff ELSE UNCHANGED tick
       /\ Goto(t, "end")
       /\ Local

\* the lifecycle or the recovery of t is over, those who await it hear of it,
\* and the first start decides whether the program goes on
End(t) ==
    /\ At(t, "end")
    /\ sup' = [sup EXCEPT !.lifecycle = IF @ = t THEN Nobody ELSE @,
                          !.recovery = IF @ = t THEN Nobody ELSE @]
    /\ news' = [u \in Threads |-> IF th[u].on \in {<<"lifecycle", t>>, <<"recovery", t>>}
                                  THEN "ok" ELSE news[u]]
    /\ host' = IF t = "cli" /\ host = "starting"
               THEN IF th[t].ctx = "startCleanup" THEN "failed" ELSE "open"
               ELSE host
    /\ Leave(t)
    /\ UNCHANGED processVars /\ UNCHANGED tunnelVars
    /\ UNCHANGED <<tick, overlapped, requests, faults>>

\* a start that joined another one
Return(t) ==
    /\ At(t, "return")
    /\ Leave(t)
    /\ Local /\ UNCHANGED <<sup, tick>>

(***************************************************************************)
(* Health                                                                  *)
(***************************************************************************)
(* handleHealth with recoverIfAllowed, for the call of thread t, when the  *)
(* fields of the supervisor are s.                                         *)
HandleHealth(t, healthy, running, s) ==
    LET deaf == \/ s.state \notin {"RUNNING", "DEGRADED"}
                \/ ~s.monitoring \/ s.recovery # Nobody
        well == healthy /\ running /\ TunnelHealthy
        failures == IF ~healthy /\ running THEN s.failures + 1 ELSE s.failures
        recover == healthy \/ ~running \/ failures >= DegradedThreshold
        spent == s.attempts >= s.limit
    IN \/ deaf /\ sup' = s /\ UNCHANGED th
       \/ /\ ~deaf /\ well
          /\ sup' = [s EXCEPT !.failures = 0, !.attempts = 0, !.state = "RUNNING"]
          /\ UNCHANGED th
       \/ /\ ~deaf /\ ~well /\ ~recover
          /\ sup' = [s EXCEPT !.failures = failures, !.state = "DEGRADED"]
          /\ UNCHANGED th
       \/ /\ ~deaf /\ ~well /\ recover /\ spent /\ At(t, "idle")
          /\ sup' = [s EXCEPT !.failures = failures, !.state = "DEGRADED"]
          /\ th' = [th EXCEPT ![t].ctx = "error", ![t].pc = "stopTunnel"]
       \/ /\ ~deaf /\ ~well /\ recover /\ ~spent /\ At(t, "idle")
          /\ sup' = [s EXCEPT !.failures = failures, !.state = "DEGRADED",
                              !.attempts = @ + 1, !.recovery = t]
          /\ th' = [th EXCEPT ![t].ctx = "recover", ![t].pc = "stopTunnel"]

\* the interval of the timer
Tick ==
    /\ Drained /\ sup.timer /\ tick = "none" /\ At("tick", "idle")
    /\ tick' = "asked"
    /\ UNCHANGED <<loopVars, processVars, tunnelVars, sup, hostVars, faults>>

Checked ==
    /\ Drained /\ tick # "none"
    /\ tick' = "none"
    /\ IF tick = "asked" THEN HandleHealth("tick", RuntimeAnswers, pm.running, sup)
       ELSE UNCHANGED <<sup, th>>
    /\ Local

\* handleRuntimeExit, the listener of an exit of the child
Unexpected(p) ==
    /\ pm.child = p /\ p \notin pm.expected
    /\ sup.runtimeStarted /\ sup.state \notin {"STOPPED", "STOPPING"}

RuntimeExits(p) ==
    /\ Exited(p)
    /\ IF Unexpected(p)
       THEN HandleHealth("exit", FALSE, FALSE, [sup EXCEPT !.runtimeStarted = FALSE])
       ELSE UNCHANGED <<sup, th>>
    /\ UNCHANGED tunnelVars /\ UNCHANGED <<tick, hostVars, faults>>

(***************************************************************************)
(* The processes and their failures                                        *)
(***************************************************************************)
Fault == faults < MaxFaults[sup.limit] /\ faults' = faults + 1

ProcessOnly == UNCHANGED tunnelVars /\ UNCHANGED <<sup, tick, hostVars>>
TunnelOnly == UNCHANGED processVars /\ UNCHANGED <<sup, tick, hostVars>>

RuntimeSpawned(p) == Spawned(p) /\ ProcessOnly /\ UNCHANGED faults
RuntimeSpawnFails(p) == SpawnError(p) /\ Fault /\ ProcessOnly
RuntimeCrashes(p) == Drained /\ p \notin pm.expected /\ Ends(p) /\ Fault /\ ProcessOnly
RuntimeDies(p) == Drained /\ p \in pm.expected /\ Ends(p) /\ ProcessOnly /\ UNCHANGED faults
RuntimeHangs(p) ==
    /\ Drained /\ rp[p] = "up" /\ rp' = [rp EXCEPT ![p] = "hung"]
    /\ Fault /\ UNCHANGED <<pm, th, news>> /\ ProcessOnly
RuntimeSurvives == StopTimedOut /\ Fault /\ ProcessOnly

CloudReady == RuntimeAnswers /\ TunnelReady /\ TunnelOnly /\ UNCHANGED faults
CloudFails ==
    /\ AttemptTimedOut
    /\ IF RuntimeAnswers THEN Fault ELSE UNCHANGED faults
    /\ TunnelOnly
CloudCrashes(c) == Drained /\ cp[c] = "up" /\ CloudEnds(c) /\ Fault /\ TunnelOnly
CloudDies(c) == Drained /\ cp[c] # "up" /\ CloudEnds(c) /\ TunnelOnly /\ UNCHANGED faults
CloudEvent ==
    /\ AttemptClosed \/ TunnelCloses \/ \E c \in Cids : CloudClosed(c)
    /\ TunnelOnly /\ UNCHANGED faults
CloudSurvives(c) == KillTimedOut(c) /\ Fault /\ TunnelOnly

(***************************************************************************)
(* The whole                                                               *)
(***************************************************************************)
Starting(t) ==
    \/ Start(t) \/ StartAgain(t) \/ Begin(t) \/ Spawn(t) \/ Started(t)
    \/ Serving(t) \/ StartFailed(t)

Stopping(t) ==
    \/ Stop(t) \/ StopAgain(t) \/ StopGo(t) \/ StopTunnel(t) \/ StopProcess(t)
    \/ StoppedBy(t) \/ StartCleaned(t) \/ Recovering(t) \/ RecoveryFailed(t)

Call(t) == th[t].pc \notin Waiting /\ (Starting(t) \/ Stopping(t) \/ End(t) \/ Return(t))

Resumes(t) ==
    /\ Resume(t)
    /\ UNCHANGED <<processVars, tunnelVars, sup, tick, hostVars, faults>>

Health(t) == RuntimeHealthy(t) \/ RuntimeUnhealthy(t)

Calls == \E t \in Threads : Call(t) \/ Resumes(t) \/ Health(t)
Checks == Tick \/ Checked
Processes == \E p \in Pids : RuntimeSpawned(p) \/ RuntimeExits(p) \/ RuntimeDies(p)
Connector == CloudReady \/ CloudFails \/ CloudEvent \/ \E c \in Cids : CloudDies(c)

Breaks ==
    \/ \E p \in Pids : RuntimeSpawnFails(p) \/ RuntimeCrashes(p) \/ RuntimeHangs(p)
    \/ RuntimeSurvives
    \/ \E c \in Cids : CloudCrashes(c) \/ CloudSurvives(c)

Requests == \E c \in Callers, op \in {"start", "stop", "restart", "exit"} : Request(c, op)

Next ==
    \/ Calls
    \/ Drained /\ (Checks \/ Processes \/ Connector \/ Breaks \/ Requests)

Spec == SupervisorInit /\ [][Next]_vars

\* the loop runs what is ready, timers fire, a child that was killed ends
Fair == WF_vars(Calls) /\ WF_vars(Checks) /\ WF_vars(Processes) /\ WF_vars(Connector)

FairSpec == Spec /\ Fair

(***************************************************************************)
(* Properties                                                              *)
(***************************************************************************)
Quiet == \A t \in Threads : th[t].pc = "idle"

(* There is never a second runtime process, even after a stop that timed   *)
(* out: it would find the port taken and share the state directory.  A     *)
(* cloudflared that lives and has not been killed is the one the provider  *)
(* would stop.                                                             *)
OneOfEach ==
    /\ Cardinality(Living) <= 1
    /\ \A c \in Cids : cp[c] = "up" => c = cf.child

(* When no call is under way, a supervisor that says STOPPED has given up  *)
(* the process, the tunnel and the health timer, whatever failed before;   *)
(* one that says ERROR too, but for a process that did not end in time     *)
(* although it was killed.                                                 *)
DownOwnsNothing ==
    Quiet /\ sup.state \in {"STOPPED", "ERROR"} /\ ~overlapped =>
      /\ cf.child = NoCloud /\ ~sup.timer
      /\ pm.child # NoChild => sup.state = "ERROR" /\ pm.child \in pm.expected

Serves ==
    /\ sup.state = "RUNNING" /\ RuntimeAnswers
    /\ cf.state = "REMOTE_READY" /\ cf.child # NoCloud /\ cp[cf.child] = "up"

(* Once processes have stopped failing and users asking, the supervisor    *)
(* serves or says that it does not: a runtime or a tunnel that ended or    *)
(* hangs is noticed in every state, also after a recovery that failed and  *)
(* after requests that overlapped, and after an exit nothing is left       *)
(* serving.                                                                *)
Settles ==
    <>[](\/ Serves /\ (overlapped \/ host # "closed")
         \/ sup.state \in {"STOPPED", "ERROR"})

==============================================================================

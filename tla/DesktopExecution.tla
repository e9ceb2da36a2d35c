-------------------------- MODULE DesktopExecution --------------------------
(***************************************************************************)
(* DesktopCodexBackend: an execution carried out in the user's Codex       *)
(* desktop.  The start operation saves a session and an execution, creates *)
(* the thread or sends to it, saves the binding and hands the turn to an   *)
(* observer, which reads the thread until the turn has ended.  The ends of *)
(* an execution are settled one at a time.                                 *)
(*                                                                         *)
(* A failure before the dispatch fails the execution; a failure after it,  *)
(* or one that leaves the dispatch unknown, leaves it to a human, because  *)
(* nothing is ever sent twice.                                             *)
(***************************************************************************)
EXTENDS InteractiveRecords

OnDesktop(e) == exec[e].backend = "desktop"
Thread(e) == Found("desktop", e) /\ session["desktop"][e].thread

\* the execution is saved only when its turn is known to run
SaveAfterSending(e) ==
    IF e = Initial
    THEN <<"desktop", "session", "send", "bind", "exec", "thread", "watch">>
    ELSE <<"desktop", "session", "base", "bind", "send", "exec", "thread", "watch">>

\* the initial execution creates the thread, a continuation sends to it
Stages(e) ==
    IF e = Initial
    THEN <<"desktop", "session", "exec", "send", "bind", "thread", "watch">>
    ELSE <<"desktop", "session", "exec", "base", "bind", "send", "thread", "watch">>

Following(e, pc) ==
    LET i == CHOOSE j \in DOMAIN Stages(e) : Stages(e)[j] = pc IN Stages(e)[i + 1]

Proceed(e) == Goto(e, Following(e, op[e].pc))

\* the outcome of the start is unknown: the records stay as they are
Unknown(e) == Fault /\ Answer(e, "unknown")

Visible == {t \in Turns : turn[t] # "absent"}

-----------------------------------------------------------------------------
(* startOnce *)

\* the thread of the initial execution may be continued
Continuable ==
    exec[Initial].status = "passed" /\ OnDesktop(Initial) /\ Thread(Initial) /\ Initial \in bound

\* existing: a running execution is observed again, never sent again
Existing(e) ==
    /\ At(e, "desktop") /\ exec[e].status # "none"
    /\ IF Running(e) /\ Thread(e)
       THEN /\ Answer(e, "resolved")
            /\ watch' = [watch EXCEPT ![e].pc = IF @ = "none" THEN "setup" ELSE @]
       ELSE Answer(e, "rejected") /\ UNCHANGED watch
    /\ UNCHANGED <<recordVars, providerVars, job, notified, toldVars>>

\* the desktop is connected, its tools fit, the project or the old thread is found;
\* a failure to come so far lets the initial execution fall back
Connect(e) ==
    /\ At(e, "desktop") /\ exec[e].status = "none"
    /\ IF e # Initial /\ ~Continuable
       THEN Healthy /\ Answer(e, "rejected")
       ELSE \/ Healthy /\ Proceed(e)
            \/ Fault /\ Answer(e, "rejected")
            \/ Fault /\ e = Initial /\ Goto(e, "server")
    /\ UNCHANGED <<recordVars, providerVars, watch, job, notified, told, logged>>

SaveSession(e) ==
    /\ At(e, "session")
    /\ CreateSession("desktop", e)
    /\ Healthy /\ Proceed(e)
    /\ UNCHANGED <<exec, bound, events, providerVars, watch, job, notified, told, logged>>

\* createSession fails, or the update that follows it: then the session failed too
SaveSessionFails(e) ==
    /\ At(e, "session")
    /\ Fault /\ Answer(e, "rejected")
    /\ \/ UNCHANGED session
       \/ session' = [session EXCEPT !["desktop"][e] =
            [n |-> IF @.n = 0 THEN 1 ELSE 2, status |-> "failed", thread |-> FALSE]]
    /\ UNCHANGED <<exec, bound, events, providerVars, watch, job, notified, told, logged>>

SaveExecution(e) ==
    /\ At(e, "exec") /\ exec[e].status = "none"
    /\ \/ Healthy /\ Create(e, "desktop") /\ Proceed(e) /\ UNCHANGED session
       \/ /\ Fault /\ session' = SessionFailed("desktop", e) /\ Answer(e, "rejected")
          /\ UNCHANGED exec
    /\ UNCHANGED <<bound, events, providerVars, watch, job, notified, told, logged>>

\* the execution of another actuation that was refused stands in the way
ExecutionExists(e) ==
    /\ At(e, "exec") /\ exec[e].status # "none"
    /\ session' = Synced("desktop", e, exec[e].status)
    /\ Tell(e) /\ Answer(e, "rejected")
    /\ UNCHANGED <<exec, bound, events, providerVars, watch, job, logged>>

\* captureBaseline, and the one turn the initial execution is known to have completed
Baseline(e) ==
    /\ At(e, "base")
    /\ \/ Healthy /\ events[Initial].completed = 1
            /\ op' = [op EXCEPT ![e].seen = Visible, ![e].pc = Following(e, "base")]
       \/ events[Initial].completed # 1 /\ Healthy /\ op' = [op EXCEPT ![e].pc = "fail"]
       \/ Fault /\ op' = [op EXCEPT ![e].pc = "fail"]
    /\ UNCHANGED <<recordVars, act, providerVars, watch, job, notified, told, logged>>

\* createIfAbsent: after the thread was created, or before anything is sent to it
Bind(e) ==
    /\ At(e, "bind")
    /\ \/ /\ Healthy /\ Proceed(e) /\ bound' = bound \cup {e}
          /\ session' = [session EXCEPT !["desktop"][e].thread = @ \/ e # Initial]
       \/ /\ IF e = Initial THEN Unknown(e) ELSE Fault /\ Goto(e, "fail")
          /\ UNCHANGED <<bound, session>>
    /\ UNCHANGED <<exec, events, providerVars, watch, job, notified, told, logged>>

\* create_thread or send_message_to_thread: sent, refused, or nobody knows
Send(e) ==
    /\ At(e, "send")
    /\ \/ Healthy /\ Dispatched(e) /\ Proceed(e)
       \/ Fault /\ Goto(e, "fail") /\ UNCHANGED providerVars
       \/ Unknown(e) /\ (Dispatched(e) \/ UNCHANGED providerVars)
    /\ UNCHANGED <<recordVars, watch, job, notified, told, logged>>

SaveThread(e) ==
    /\ At(e, "thread")
    /\ \/ /\ Healthy /\ Proceed(e)
          /\ session' = [session EXCEPT !["desktop"][e].thread = TRUE]
       \/ Unknown(e) /\ UNCHANGED session
    /\ UNCHANGED <<exec, bound, events, providerVars, watch, job, notified, told, logged>>

Observe(e) ==
    /\ At(e, "watch")
    /\ \/ /\ Healthy /\ Answer(e, "resolved")
          /\ watch' = [watch EXCEPT ![e] = [pc |-> "read", pin |-> NoTurn, seen |-> op[e].seen]]
       \/ Unknown(e) /\ UNCHANGED watch
    /\ UNCHANGED <<recordVars, providerVars, job, notified, told, logged>>

StartStep(e) ==
    \/ Existing(e) \/ Connect(e) \/ SaveSession(e) \/ SaveSessionFails(e)
    \/ SaveExecution(e) \/ ExecutionExists(e) \/ Baseline(e) \/ Bind(e) \/ Send(e)
    \/ SaveThread(e) \/ Observe(e)

-----------------------------------------------------------------------------
(* the observer: completion-observer.ts, watch, resumeObservation *)

\* the latest new turn of the thread, whoever sent it
LatestTurn(e) ==
    LET new == Visible \ watch[e].seen IN
    IF watch[e].pin # NoTurn THEN {watch[e].pin}
    ELSE IF UserTurn \in new THEN {UserTurn} ELSE new

\* the turn the observer follows: the one it knows, or the only new one
Candidates(e) ==
    IF watch[e].pin # NoTurn THEN {watch[e].pin} ELSE Visible \ watch[e].seen

\* the turn that was saved: the observer remembers it, or the events name one
SavedTurn(e) ==
    IF watch[e].pin # NoTurn THEN watch[e].pin
    ELSE IF Cardinality(events[e].started) = 1 THEN CHOOSE t \in events[e].started : TRUE
    ELSE NoTurn

Restorable(e) == e \in bound /\ Thread(e) /\ SavedTurn(e) # NoTurn

Observing(e, pc) == watch' = [watch EXCEPT ![e].pc = pc]

\* recordTurnStarted
Pinned(e, t) == [events EXCEPT ![e].started = @ \cup {t}]

\* an observation that cannot be restored is given up
ResumeOrForget(e) ==
    /\ watch[e].pc = "setup"
    /\ Healthy
    /\ watch' = [watch EXCEPT ![e] =
            IF Restorable(e) /\ Running(e) THEN [pc |-> "read", pin |-> SavedTurn(e), seen |-> {}]
            ELSE [@ EXCEPT !.pc = "none"]]
    /\ UNCHANGED <<recordVars, act, providerVars, op, job, notified, told, logged>>

Resume(e) ==
    /\ watch[e].pc = "setup"
    /\ \/ /\ Healthy
          /\ watch' = [watch EXCEPT ![e] =
                IF ~Restorable(e) THEN [@ EXCEPT !.pc = "flag"]
                ELSE IF Running(e) THEN [pc |-> "read", pin |-> SavedTurn(e), seen |-> {}]
                ELSE [@ EXCEPT !.pc = "none"]]
       \/ Fault /\ Observing(e, "flag")
    /\ UNCHANGED <<recordVars, act, providerVars, op, job, notified, told, logged>>

\* waitForCompletion: the turn is new and runs, or it has ended
Read(e) ==
    /\ watch[e].pc = "read"
    /\ \E t \in Candidates(e) :
        /\ Candidates(e) = {t}
        /\ ~(turn[t] = "running" /\ watch[e].pin = t)
        /\ watch' = [watch EXCEPT ![e].pin = t,
                ![e].pc = CASE turn[t] = "running" -> "read"
                            [] turn[t] = "completed" -> "complete"
                            [] turn[t] = "failed" -> "fail"]
        /\ events' = IF turn[t] = "completed" THEN events ELSE Pinned(e, t)
    /\ UNCHANGED <<exec, session, bound, act, providerVars, op, job, notified, toldVars>>

\* several new turns, or a read or a reconnection that keeps failing
ReadFails(e) ==
    /\ watch[e].pc = "read"
    /\ \/ Cardinality(Candidates(e)) > 1 /\ Healthy
       \/ Fault
    /\ Observing(e, "flag")
    /\ UNCHANGED <<recordVars, act, providerVars, op, job, notified, told, logged>>

\* monitoringDiagnostic: a human must confirm; if it cannot be saved it is only logged
Flag(e) ==
    /\ watch[e].pc = "flag" /\ job[e].pc = "free"
    /\ Observing(e, "none")
    /\ \/ Healthy /\ exec' = Flagged(e, TRUE) /\ UNCHANGED logged
       \/ Fault /\ logged' = logged \cup {e} /\ UNCHANGED exec
    /\ UNCHANGED <<session, bound, events, act, providerVars, op, job, notified, told>>

\* the observer found the end and queues for the execution
Queue(e) ==
    /\ watch[e].pc \in {"complete", "fail"} /\ job[e].pc = "free"
    /\ job' = [job EXCEPT ![e] =
            [pc |-> "read", kind |-> watch[e].pc, by |-> "watch", turn |-> watch[e].pin]]
    /\ Observing(e, "settling")
    /\ UNCHANGED <<recordVars, act, providerVars, op, notified, toldVars>>

WatchStep(e) == Resume(e) \/ Read(e) \/ ReadFails(e) \/ Flag(e) \/ Queue(e)

-----------------------------------------------------------------------------
(* completeOnce and failOnce, and the manual close *)

Job(e, pc) == job' = [job EXCEPT ![e].pc = pc]

\* the job is done; one that broke off stops the observation
EndJob(e, ok) ==
    /\ job' = [job EXCEPT ![e] = Free]
    /\ watch' = [watch EXCEPT ![e].pc =
            IF ~ok THEN "flag" ELSE IF job[e].by = "watch" THEN "none" ELSE @]

JobRead(e) ==
    /\ job[e].pc = "read"
    /\ Job(e, IF ~Running(e) THEN "tell"
              ELSE IF job[e].kind = "complete" /\ job[e].turn # NoTurn THEN "events"
              ELSE "write")
    /\ UNCHANGED <<recordVars, act, providerVars, op, watch, notified, toldVars>>

\* turn_started when it is new, the messages, turn_completed
JobEvents(e) ==
    /\ job[e].pc = "events"
    /\ \/ /\ Healthy /\ Job(e, "write") /\ UNCHANGED watch
          /\ events' = [Pinned(e, job[e].turn) EXCEPT ![e].completed = IF @ < 2 THEN @ + 1 ELSE 2]
       \/ Fault /\ EndJob(e, FALSE) /\ UNCHANGED events
    /\ UNCHANGED <<exec, session, bound, act, providerVars, op, notified, told, logged>>

\* a completion writes what it decided on; a failure looks once more
JobWrite(e) ==
    /\ job[e].pc = "write"
    /\ Healthy /\ Job(e, "tell")
    /\ exec' = CASE job[e].kind = "complete" -> Settled(e, "passed")
                 [] job[e].kind = "fail" -> IF Running(e) THEN Settled(e, "failed") ELSE exec
                 [] job[e].kind = "close" -> IF Running(e) THEN Settled(e, "terminated") ELSE exec
    /\ watch' = IF job[e].kind = "close" THEN [watch EXCEPT ![e].pc = "none"] ELSE watch
    /\ UNCHANGED <<session, bound, events, act, providerVars, op, notified, told, logged>>

\* a failure that cannot be saved fails the session and is logged
JobWriteFails(e) ==
    /\ OnDesktop(e) /\ job[e].pc = "write" /\ job[e].kind # "close"
    /\ Fault
    /\ IF job[e].kind = "complete"
       THEN EndJob(e, FALSE) /\ UNCHANGED <<session, logged>>
       ELSE /\ EndJob(e, TRUE)
            /\ session' = SessionFailed(exec[e].backend, e)
            /\ logged' = logged \cup {e}
    /\ UNCHANGED <<exec, bound, events, act, providerVars, op, notified, told>>

JobTell(e) ==
    /\ job[e].pc = "tell"
    /\ session' = Synced(exec[e].backend, e, exec[e].status)
    /\ Tell(e) /\ EndJob(e, TRUE)
    /\ UNCHANGED <<exec, bound, events, act, providerVars, op, logged>>

JobStep(e) == JobRead(e) \/ JobEvents(e) \/ JobWrite(e) \/ JobWriteFails(e) \/ JobTell(e)

-----------------------------------------------------------------------------
(* executionAction, and reconcileOrphanedExecutions *)

ManualClose(e) ==
    /\ OnDesktop(e) /\ Running(e) /\ At(e, "idle") /\ job[e].pc = "free"
    /\ session["desktop"][e].n < 2
    /\ job' = [job EXCEPT ![e] =
            [pc |-> "write", kind |-> "close", by |-> "user", turn |-> NoTurn]]
    /\ Spend("manual")
    /\ UNCHANGED <<recordVars, act, providerVars, op, watch, notified, told, logged>>

\* the user asks for the turn that was saved, and for no other
ManualCheck(e) ==
    LET t == SavedTurn(e) IN
    /\ OnDesktop(e) /\ job[e].pc = "free" /\ Spend("manual")
    /\ IF ~Running(e)
       THEN /\ job' = [job EXCEPT ![e] =
                [pc |-> "tell", kind |-> "close", by |-> "user", turn |-> NoTurn]]
            /\ UNCHANGED <<exec, watch>>
       ELSE \/ /\ Restorable(e) /\ turn[t] # "running"
               /\ job' = [job EXCEPT ![e] = [pc |-> "read", by |-> "user", turn |-> t,
                    kind |-> IF turn[t] = "completed" THEN "complete" ELSE "fail"]]
               /\ UNCHANGED <<exec, watch>>
            \/ /\ Restorable(e) /\ turn[t] = "running"
               /\ exec' = Flagged(e, FALSE)
               /\ Observing(e, IF watch[e].pc = "none" THEN "setup" ELSE watch[e].pc)
               /\ UNCHANGED job
            \/ /\ exec' = Flagged(e, TRUE)     \* it cannot be restored or read
               /\ UNCHANGED <<job, watch>>
    /\ UNCHANGED <<session, bound, events, act, providerVars, op, notified, told, logged>>

ManualAction(e) == ManualClose(e) \/ ManualCheck(e)

\* only what still runs is looked at
ReconcileRunning(e) ==
    /\ OnDesktop(e)
    /\ IF Running(e) THEN Observing(e, IF Found("desktop", e) THEN "setup" ELSE "flag")
       ELSE UNCHANGED watch
    /\ UNCHANGED <<recordVars, act, providerVars, op, job, notified, toldVars>>

\* nothing is sent again: what is over is announced, what runs is observed again
ReconcileDesktop(e) ==
    /\ OnDesktop(e)
    /\ \/ /\ Over(e)
          /\ session' = IF Found("desktop", e) THEN Synced("desktop", e, exec[e].status) ELSE session
          /\ Tell(e) /\ UNCHANGED watch
       \/ /\ Running(e)
          /\ Observing(e, IF Found("desktop", e) THEN "setup" ELSE "flag")
          /\ UNCHANGED <<session, notified, told, left>>
    /\ UNCHANGED <<exec, bound, events, act, providerVars, op, job, logged>>
=============================================================================

------------------------- MODULE InteractiveRecords -------------------------
(***************************************************************************)
(* What the two interactive backends share: the durable records of an      *)
(* execution (its context, its sessions, its thread binding, its events),  *)
(* the turns of the provider, and the one start operation, observer and    *)
(* settling job an execution has in memory.                                *)
(*                                                                         *)
(* The provider keeps one thread per goal: the initial execution creates   *)
(* it, the continuation sends its instruction to it, and on the desktop    *)
(* the user may type a turn of his own.  A turn is therefore named by the  *)
(* execution whose instruction it carries, or it is UserTurn.              *)
(*                                                                         *)
(* One update of a record is one step, although the code reads the file    *)
(* and then renames a new one over it.                                     *)
(***************************************************************************)
EXTENDS Naturals, FiniteSets, Sequences

CONSTANTS
    Executions,     \* execution ids
    Initial,        \* the first of them; the others continue its thread
    Actuations,     \* actuation ids, each bound to one execution
    ExecutionOf,    \* [Actuations -> Executions]
    UserTurn,       \* the turn the user types
    NoTurn, NoOne,
    Scenarios       \* which actuations are asked for, and how often what may happen

ASSUME RecordsAssumption ==
    /\ Initial \in Executions
    /\ ExecutionOf \in [Actuations -> Executions]
    /\ NoOne \notin Actuations
    /\ UserTurn \notin Executions /\ NoTurn \notin Executions \cup {UserTurn}
    /\ Scenarios \subseteq [asked: SUBSET Actuations, faults: Nat, crashes: Nat, manual: Nat]

VARIABLES
    exec,       \* the execution contexts
    session,    \* the sessions of each backend
    bound,      \* the executions whose thread binding is saved
    events,     \* the turn events saved for an execution
    act,        \* the actuations: durable status, and where the caller is
    turn,       \* the turns of the provider
    sent,       \* how often the instruction of an execution was dispatched
    op,         \* the start operation in flight
    watch,      \* the observer
    job,        \* the head of the queue that settles an execution
    notified,   \* the executions whose listener has returned (in memory)
    told,       \* what became of the announcement of the end
    logged,     \* the executions of which an outcome reached only the log
    left        \* the faults, crashes and manual actions that may still happen

recordVars == <<exec, session, bound, events>>
providerVars == <<turn, sent>>
memoryVars == <<op, watch, job, notified>>
toldVars == <<told, logged, left>>

Turns == Executions \cup {UserTurn}
Ended == {"passed", "failed", "terminated"}

NoExecution == [status |-> "none", backend |-> "none", pid |-> FALSE, flag |-> FALSE]
NoSession == [n |-> 0, status |-> "none", thread |-> FALSE]
NoEvents == [started |-> {}, completed |-> 0]
Idle == [pc |-> "idle", by |-> NoOne, seen |-> {}]
NoWatch == [pc |-> "none", pin |-> NoTurn, seen |-> {}]
Free == [pc |-> "free", kind |-> "none", by |-> "none", turn |-> NoTurn]

RecordsInit ==
    /\ exec = [e \in Executions |-> NoExecution]
    /\ session = [b \in {"desktop", "server"} |-> [e \in Executions |-> NoSession]]
    /\ bound = {}
    /\ events = [e \in Executions |-> NoEvents]
    /\ \E s \in Scenarios :
        /\ act = [a \in Actuations |->
                [status |-> "none", pc |-> IF a \in s.asked THEN "idle" ELSE "done"]]
        /\ left = [faults |-> s.faults, crashes |-> s.crashes, manual |-> s.manual]
    /\ turn = [t \in Turns |-> "absent"]
    /\ sent = [e \in Executions |-> 0]
    /\ op = [e \in Executions |-> Idle]
    /\ watch = [e \in Executions |-> NoWatch]
    /\ job = [e \in Executions |-> Free]
    /\ notified = {}
    /\ told = [e \in Executions |-> "no"]
    /\ logged = {}

Running(e) == exec[e].status = "running"
Over(e) == exec[e].status \in Ended

Healthy == UNCHANGED left
Spend(what) == left[what] > 0 /\ left' = [left EXCEPT ![what] = @ - 1]
Fault == Spend("faults")

-----------------------------------------------------------------------------
(* Records *)

\* createSession under a fresh id, and "starting"
CreateSession(b, e) ==
    session' = [session EXCEPT ![b][e] =
        [n |-> IF @.n = 0 THEN 1 ELSE 2, status |-> "open", thread |-> FALSE]]

\* sessionForExecution: two sessions that name one execution are none
Found(b, e) == session[b][e].n = 1

Create(e, b) ==
    exec' = [exec EXCEPT ![e] =
        [status |-> "running", backend |-> b, pid |-> FALSE, flag |-> FALSE]]

Settled(e, status) == [exec EXCEPT ![e].status = status]

\* the monitoring summary of a running execution: a human must confirm, or not
Flagged(e, f) == [exec EXCEPT ![e].flag = IF Running(e) THEN f ELSE @]

\* syncTerminalSession, for the session the caller holds
Synced(b, e, status) ==
    [session EXCEPT ![b][e].status =
        IF @ # "none" /\ status \in Ended THEN status ELSE @]

\* a session that no saved execution can settle
SessionFailed(b, e) == Synced(b, e, "failed")

\* notifyTerminal: a listener that fails is called again by a later caller
Tell(e) ==
    IF e \in notified
    THEN UNCHANGED <<notified, told, left>>
    ELSE \/ Healthy /\ told' = [told EXCEPT ![e] = "yes"]
            /\ notified' = notified \cup {e}
         \/ Fault /\ told' = [told EXCEPT ![e] = IF @ = "no" THEN "failed" ELSE @]
            /\ UNCHANGED notified

\* the start operation ends, and with it the call of the actuation
Answer(e, outcome) ==
    /\ op' = [op EXCEPT ![e] = Idle]
    /\ act' = [act EXCEPT ![op[e].by].pc = outcome]

At(e, pc) == op[e].pc = pc
Goto(e, pc) == op' = [op EXCEPT ![e].pc = pc] /\ UNCHANGED act

\* failLaunch: the execution fails, then its session, then the listener is called
FailLaunch(e) ==
    LET b == exec[e].backend IN
    /\ At(e, "fail")
    /\ \/ /\ Healthy /\ Goto(e, "failed")
          /\ exec' = IF Running(e) THEN Settled(e, "failed") ELSE exec
          /\ UNCHANGED <<session, logged>>
       \/ /\ Fault /\ Answer(e, "rejected") /\ logged' = logged \cup {e}
          /\ session' = SessionFailed(b, e) /\ UNCHANGED exec
    /\ UNCHANGED <<bound, events, providerVars, watch, job, notified, told>>

\* the end of a start whose execution is over: "rejected", or unknown to the caller
Announce(e, pc, outcome) ==
    /\ At(e, pc)
    /\ session' = Synced(exec[e].backend, e, exec[e].status)
    /\ Tell(e) /\ Answer(e, outcome)
    /\ UNCHANGED <<exec, bound, events, providerVars, watch, job, logged>>

LaunchStep(e) ==
    FailLaunch(e) \/ Announce(e, "failed", "rejected") \/ Announce(e, "lost", "unknown")

-----------------------------------------------------------------------------
(* The provider *)

Dispatched(e) ==
    /\ turn' = [turn EXCEPT ![e] = "running"]
    /\ sent' = [sent EXCEPT ![e] = @ + 1]

TurnEnds(t) ==
    /\ turn[t] = "running"
    /\ \E outcome \in {"completed", "failed"} :
        /\ t = UserTurn => outcome = "completed"
        /\ turn' = [turn EXCEPT ![t] = outcome]
    /\ UNCHANGED <<recordVars, memoryVars, act, sent, toldVars>>

\* the user types into the desktop thread
UserTypes ==
    /\ turn[UserTurn] = "absent"
    /\ \E e \in Executions : turn[e] # "absent" /\ exec[e].backend = "desktop"
    /\ turn' = [turn EXCEPT ![UserTurn] = "running"]
    /\ UNCHANGED <<recordVars, memoryVars, act, sent, toldVars>>

-----------------------------------------------------------------------------
(* ControlledActuationService.startReserved and recoverExisting, interactive *)

Started(a) ==
    /\ act[a].pc = "resolved"
    /\ act' = [act EXCEPT ![a] = [status |-> "started", pc |-> "done"]]
    /\ UNCHANGED <<recordVars, memoryVars, providerVars, toldVars>>

\* an indeterminate launch keeps "starting" with its error; the loop stops for a human
Uncertain(a) ==
    /\ act[a].pc = "unknown"
    /\ act' = [act EXCEPT ![a].pc = "human"]
    /\ UNCHANGED <<recordVars, memoryVars, providerVars, toldVars>>

MarkFailed(a) ==
    /\ act[a].pc = "rejected"
    /\ act' = [act EXCEPT ![a] = [status |-> "failed", pc |-> "settle"]]
    /\ UNCHANGED <<recordVars, memoryVars, providerVars, toldVars>>

\* a launch that failed keeps the reserved execution terminal, whoever runs it
SettleFailed(a) ==
    LET e == ExecutionOf[a] IN
    /\ act[a].pc = "settle"
    /\ exec' = IF exec[e].status \in {"none", "running"} THEN Settled(e, "failed") ELSE exec
    /\ act' = [act EXCEPT ![a].pc = "done"]
    /\ UNCHANGED <<session, bound, events, memoryVars, providerVars, toldVars>>

\* a process, or hasDesktopLaunchEvidence: the one session of the task and its binding
Evidence(e) ==
    \/ exec[e].pid
    \/ /\ Found("desktop", e) /\ session["desktop"][e].thread /\ e \in bound
       /\ \A f \in Executions \ {e} : session["desktop"][f].n = 0

\* after a restart nothing is launched again: the state is proven, or a human looks
RecoverExisting(a) ==
    LET e == ExecutionOf[a] IN
    /\ act[a].pc = "lost"
    /\ act' = [act EXCEPT ![a] =
        IF @.status = "failed" THEN [@ EXCEPT !.pc = "done"]
        ELSE IF exec[e].status # "none" /\ Evidence(e)
        THEN [status |-> "started", pc |-> "done"]
        ELSE [@ EXCEPT !.pc = "human"]]
    /\ UNCHANGED <<recordVars, memoryVars, providerVars, toldVars>>

ActuationStep(a) ==
    Started(a) \/ Uncertain(a) \/ MarkFailed(a) \/ SettleFailed(a) \/ RecoverExisting(a)
=============================================================================

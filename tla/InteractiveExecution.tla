------------------------ MODULE InteractiveExecution ------------------------
(***************************************************************************)
(* An interactive execution from its actuation to the announcement of its  *)
(* end: the actuation asks, the negotiator chooses between the desktop and *)
(* the app-server, the backend starts the turn and follows it, and the end *)
(* is announced to the loop, which then asks for the continuation.         *)
(*                                                                         *)
(* A crash loses what is in memory.  The restart looks at every execution  *)
(* before anything is started again.                                       *)
(***************************************************************************)
EXTENDS CapabilityNegotiation, ServerExecution

VARIABLE todo   \* the executions the restart has not looked at yet

vars == <<exec, session, bound, events, act, turn, sent, op, watch, job, notified,
          told, logged, left, cap, todo>>

Init ==
    /\ RecordsInit
    /\ cap = NoContext
    /\ todo = {}

\* the loop has heard that the initial execution passed
Reviewed == exec[Initial].status = "passed" /\ told[Initial] = "yes"

\* the thread of the initial execution, which a continuation must name
Continues == IF OnServer(Initial) THEN ServerThread(Initial) ELSE Thread(Initial)

\* actuate: validateTarget, the reservation; an unverified continuation is not tried
Ask(a) ==
    LET e == ExecutionOf[a] IN
    /\ act[a].pc = "idle" /\ todo = {}
    /\ exec[e].status = "none" \/ (Running(e) /\ Evidence(e))
    /\ e # Initial => Reviewed
    /\ act' = [act EXCEPT ![a] =
            IF e = Initial \/ Continues
            THEN [status |-> "starting", pc |-> "called"]
            ELSE [@ EXCEPT !.pc = "human"]]
    /\ UNCHANGED <<recordVars, memoryVars, providerVars, toldVars, cap, todo>>

Answered == \E a \in Actuations : todo = {} /\ ActuationStep(a)

BackendStep(e) ==
    \/ LaunchStep(e) \/ StartStep(e) \/ ServerStartStep(e)
    \/ WatchStep(e) \/ JobStep(e) \/ StreamStep(e)

Reconcile(e) ==
    /\ e \in todo
    /\ todo' = todo \ {e}
    /\ \/ ReconcileDesktop(e) \/ ReconcileServer(e)
       \/ /\ exec[e].backend = "none"
          /\ UNCHANGED <<recordVars, act, memoryVars, providerVars, toldVars>>
    /\ UNCHANGED cap

Acts(e) ==
    /\ ManualAction(e)
    /\ UNCHANGED <<cap, todo>>

\* the app-servers are children of the process and end with it
Crash ==
    /\ Spend("crashes")
    /\ op' = [e \in Executions |-> Idle]
    /\ watch' = [e \in Executions |-> NoWatch]
    /\ job' = [e \in Executions |-> Free]
    /\ notified' = {}
    /\ cap' = NoContext
    /\ act' = [a \in Actuations |->
            IF act[a].pc \in {"idle", "done", "human"} THEN act[a]
            ELSE [act[a] EXCEPT !.pc = "lost"]]
    /\ turn' = [t \in Turns |->
            IF t \in Executions /\ turn[t] = "running" /\ OnServer(t) THEN "failed" ELSE turn[t]]
    /\ todo' = Executions
    /\ UNCHANGED <<recordVars, sent, told, logged>>

\* what the process does of its own accord
HostStep ==
    \/ Answered /\ UNCHANGED <<cap, todo>>
    \/ (\E e \in Executions : BackendStep(e)) /\ UNCHANGED <<cap, todo>>
    \/ \E e \in Executions : Reconcile(e)

\* what users and the provider do
OutsideStep ==
    \/ \E a \in Actuations : Ask(a)
    \/ \E e \in Executions : Acts(e)
    \/ ((\E t \in Turns : TurnEnds(t)) \/ UserTypes) /\ UNCHANGED <<cap, todo>>

Next ==
    \/ HostStep \/ OutsideStep \/ Crash
    \/ (NegotiationStep \/ UserClicks) /\ UNCHANGED todo

\* the process goes on with what it has begun; users and the provider owe nothing
Fairness == WF_vars(HostStep)

Spec == Init /\ [][Next]_vars /\ Fairness

-----------------------------------------------------------------------------
(* Properties *)

TypeOK ==
    /\ exec \in [Executions -> [status: {"none", "running"} \cup Ended,
            backend: {"none", "desktop", "server"}, pid: BOOLEAN, flag: BOOLEAN]]
    /\ bound \subseteq Executions /\ notified \subseteq Executions /\ logged \subseteq Executions
    /\ turn \in [Turns -> {"absent", "running", "completed", "failed"}]
    /\ told \in [Executions -> {"no", "failed", "yes"}]
    /\ todo \subseteq Executions

\* The instruction of an execution reaches a provider at most once: neither a fallback to the
\* other backend, nor a second actuation, nor a restart after any step sends it again
\* ("never resend", desktop-codex-backend.ts and codex_app_server/backend.ts).
DispatchedOnce == \A e \in Executions : sent[e] <= 1

\* An execution passes only on the end of its own turn: a turn the user typed into the same
\* thread, or the turn of the execution it continues, never passes it.
PassedIsOurs == \A e \in Executions : exec[e].status = "passed" => turn[e] = "completed"

\* An execution nobody works on does not stay running unnoticed: its end is found, or it is
\* marked for a human, or its actuation has stopped for one, or the log names it.
Noticed(e) ==
    \/ ~Running(e) \/ exec[e].flag \/ e \in logged
    \/ \E a \in Actuations : ExecutionOf[a] = e /\ act[a].pc = "human"

NoSilentExecution ==
    \A e \in Executions : (Running(e) /\ turn[e] # "running") ~> (Noticed(e) \/ turn[e] = "running")

\* The end of an execution is announced, also when the process dies between the record and the
\* announcement; only where the actuation itself has failed its caller knows already.
Announced ==
    \A e \in Executions : Over(e) ~>
        \/ told[e] # "no" \/ ~Over(e)
        \/ \E a \in Actuations : ExecutionOf[a] = e /\ act[a].status = "failed"

\* Somebody learns of every turn that is over, and then of its execution.
EndsAreNoticed == NoSilentExecution /\ Announced
=============================================================================

-------------------------- MODULE ServerExecution --------------------------
(***************************************************************************)
(* CodexAppServerBackend: an execution carried out by an app-server that   *)
(* is a child of this process.  A turn is live only while this process     *)
(* streams its events, so after a restart a running execution has failed.  *)
(* A turn whose dispatch is unknown ends the execution and is left to a    *)
(* human.  The settling job is the one of DesktopExecution, without its    *)
(* events, which the stream has recorded.                                  *)
(***************************************************************************)
EXTENDS DesktopExecution

OnServer(e) == exec[e].backend = "server"
ServerThread(e) == Found("server", e) /\ session["server"][e].thread

\* resumeContinuation: the completed turn is in the records and at the provider
Verified ==
    /\ exec[Initial].status = "passed" /\ OnServer(Initial) /\ ServerThread(Initial)
    /\ events[Initial].completed = 1 /\ turn[Initial] = "completed"

\* existing: only the stream of this process proves that the turn is live
ServerExisting(e) ==
    /\ At(e, "server") /\ exec[e].status # "none"
    /\ IF Running(e) /\ exec[e].pid /\ ServerThread(e) /\ watch[e].pc # "stream"
       THEN exec' = Settled(e, "failed") /\ Goto(e, "failed")
       ELSE /\ UNCHANGED exec
            /\ Answer(e, IF Running(e) /\ exec[e].pid /\ ServerThread(e)
                         THEN "resolved" ELSE "rejected")
    /\ UNCHANGED <<session, bound, events, providerVars, watch, job, notified, toldVars>>

\* an unverified continuation is not a failed attempt: nothing was sent
ServerAccepts(e) ==
    /\ At(e, "server") /\ exec[e].status = "none"
    /\ IF e # Initial /\ ~Verified
       THEN Healthy /\ Answer(e, "unknown")
       ELSE \/ Healthy /\ IF session["server"][e].n > 0
                          THEN Answer(e, "rejected") ELSE Goto(e, "sSession")
            \/ Fault /\ Answer(e, IF e = Initial THEN "rejected" ELSE "unknown")
    /\ UNCHANGED <<recordVars, providerVars, watch, job, notified, told, logged>>

ServerSession(e) ==
    /\ At(e, "sSession")
    /\ \/ Healthy /\ CreateSession("server", e) /\ Goto(e, "sExec")
       \/ Fault /\ UNCHANGED session /\ Answer(e, "rejected")
    /\ UNCHANGED <<exec, bound, events, providerVars, watch, job, notified, told, logged>>

ServerSaves(e) ==
    /\ At(e, "sExec")
    /\ \/ /\ exec[e].status = "none" /\ Healthy
          /\ Create(e, "server") /\ Goto(e, "sConnect") /\ UNCHANGED session
       \/ /\ IF exec[e].status = "none" THEN Fault ELSE Healthy
          /\ session' = SessionFailed("server", e) /\ Answer(e, "rejected")
          /\ UNCHANGED exec
    /\ UNCHANGED <<bound, events, providerVars, watch, job, notified, told, logged>>

\* the child process is there and its id is saved
ServerConnects(e) ==
    /\ At(e, "sConnect")
    /\ \/ Healthy /\ exec' = [exec EXCEPT ![e].pid = TRUE] /\ Goto(e, "sThread")
       \/ Fault /\ Goto(e, "fail") /\ UNCHANGED exec
    /\ UNCHANGED <<session, bound, events, providerVars, watch, job, notified, told, logged>>

\* the model is validated, the thread started or taken over
ServerStartsThread(e) ==
    /\ At(e, "sThread")
    /\ \/ /\ Healthy /\ Goto(e, "sTurn")
          /\ session' = [session EXCEPT !["server"][e].thread = TRUE]
       \/ Fault /\ Goto(e, "fail") /\ UNCHANGED session
    /\ UNCHANGED <<exec, bound, events, providerVars, watch, job, notified, told, logged>>

\* turn/start: answered, refused, or unknown; then the execution is terminated
ServerSends(e) ==
    /\ At(e, "sTurn")
    /\ \/ /\ Healthy /\ Dispatched(e) /\ Answer(e, "resolved")
          /\ watch' = [watch EXCEPT ![e].pc = "stream"]
          /\ UNCHANGED exec
       \/ Fault /\ Goto(e, "fail") /\ UNCHANGED <<providerVars, exec, watch>>
       \/ /\ Fault /\ Goto(e, "lost")
          /\ exec' = Settled(e, "terminated")
          /\ Dispatched(e) \/ UNCHANGED providerVars
          /\ UNCHANGED watch
    /\ UNCHANGED <<session, bound, events, job, notified, told, logged>>

ServerStartStep(e) ==
    \/ ServerExisting(e) \/ ServerAccepts(e) \/ ServerSession(e) \/ ServerSaves(e)
    \/ ServerConnects(e) \/ ServerStartsThread(e) \/ ServerSends(e)

-----------------------------------------------------------------------------
(* watch *)

\* turn_started says running, whatever the execution says
StreamStarted(e) ==
    /\ watch[e].pc = "stream" /\ turn[e] # "absent"
    /\ e \notin events[e].started
    /\ exec' = Settled(e, "running")
    /\ session' = [session EXCEPT !["server"][e].status = "open"]
    /\ events' = Pinned(e, e)
    /\ UNCHANGED <<bound, act, providerVars, op, watch, job, notified, toldVars>>

StreamJob(e, kind) ==
    /\ job' = [job EXCEPT ![e] = [pc |-> "read", kind |-> kind, by |-> "watch", turn |-> NoTurn]]
    /\ Observing(e, "settling")

\* the end of the turn, or of the stream: then nothing proves how the turn ended
StreamEnds(e) ==
    /\ watch[e].pc = "stream"
    /\ \/ /\ turn[e] = "completed" /\ Healthy
          /\ events' = [events EXCEPT ![e].completed = IF @ < 2 THEN @ + 1 ELSE 2]
          /\ StreamJob(e, "complete")
       \/ turn[e] = "failed" /\ Healthy /\ UNCHANGED events /\ StreamJob(e, "fail")
       \/ Fault /\ UNCHANGED events /\ StreamJob(e, "fail")
    /\ UNCHANGED <<exec, session, bound, act, providerVars, op, notified, told, logged>>

\* a completion that cannot be saved fails the execution; nobody handles a failure that cannot
ServerWriteFails(e) ==
    /\ OnServer(e) /\ job[e].pc = "write"
    /\ Fault
    /\ IF job[e].kind = "complete"
       THEN job' = [job EXCEPT ![e].pc = "read", ![e].kind = "fail"] /\ UNCHANGED <<watch, logged>>
       ELSE EndJob(e, TRUE) /\ logged' = logged \cup {e}
    /\ UNCHANGED <<recordVars, act, providerVars, op, notified, told>>

StreamStep(e) == StreamStarted(e) \/ StreamEnds(e) \/ ServerWriteFails(e)

\* the owner of a running turn is gone
ReconcileServer(e) ==
    /\ OnServer(e)
    /\ exec' = IF Running(e) THEN Settled(e, "failed") ELSE exec
    /\ session' = IF Found("server", e)
                  THEN Synced("server", e, exec'[e].status) ELSE session
    /\ Tell(e)
    /\ UNCHANGED <<bound, events, act, providerVars, op, watch, job, logged>>
=============================================================================

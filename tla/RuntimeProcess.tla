---------------------------- MODULE RuntimeProcess ----------------------------
(***************************************************************************)
(* ProcessManager (supervisor/process-manager.ts): the one child process   *)
(* that runs the MCP runtime.  The manager gives up a child only when its  *)
(* exit has been reported (or it never started); a stop that times out     *)
(* leaves the child, and a later start either adopts it or is refused.     *)
(***************************************************************************)
EXTENDS EventLoop

CONSTANTS Pids       \* runtime processes that can exist at a time (a bound)

VARIABLES rp,        \* rp[p]: the operating system's view of process p
          pm         \* the fields of the ProcessManager

NoChild == 0

(* A process is "new" until its spawn event, "hung" when it lives and does *)
(* not answer, "gone" when it has ended and its exit is not reported yet.  *)
Living == {p \in Pids : rp[p] \in {"new", "up", "hung"}}

RuntimeAnswers == pm.child # NoChild /\ rp[pm.child] = "up"

ProcessInit ==
    /\ rp = [p \in Pids |-> "free"]
    /\ pm = [child |-> NoChild, running |-> FALSE, starting |-> FALSE,
             stopping |-> FALSE, expected |-> {}]

(* start(): waits for a stop, refuses while an earlier child has not gone, *)
(* answers at once when the child runs, joins a start, or spawns.          *)
SpawnRefused == pm.child # NoChild /\ ~pm.running /\ ~pm.starting

ProcessStart(t) ==
    IF pm.stopping
    THEN Await(t, "afterStop", <<"stopping">>) /\ UNCHANGED <<rp, pm, news>>
    ELSE IF SpawnRefused
    THEN Goto(t, "startFailed") /\ UNCHANGED <<rp, pm, news>>
    ELSE IF pm.running
    THEN Goto(t, "started") /\ UNCHANGED <<rp, pm, news>>
    ELSE /\ Await(t, "spawning", <<"starting">>)
         /\ UNCHANGED news
         /\ IF pm.starting
            THEN UNCHANGED <<rp, pm>>
            ELSE \E p \in Pids :
                    /\ rp[p] = "free"
                    /\ \A q \in Pids : rp[q] = "free" => p <= q
                    /\ rp' = [rp EXCEPT ![p] = "new"]
                    /\ pm' = [pm EXCEPT !.child = p, !.starting = TRUE]

AlwaysForgotten(p, ended) == NoChild

(* fail(): the child is kept when its process may still be there.          *)
ChildAfterFail(p, ended) == IF ended THEN NoChild ELSE p

(* The spawn event: a start that was cancelled meanwhile does not hear it. *)
Spawned(p) ==
    /\ Drained
    /\ rp[p] = "new"
    /\ rp' = [rp EXCEPT ![p] = "up"]
    /\ IF pm.starting
       THEN /\ pm' = [pm EXCEPT !.running = TRUE, !.starting = FALSE]
            /\ Settle(<<"starting">>, "ok")
       ELSE UNCHANGED <<pm, news>>
    /\ UNCHANGED th

(* The error event of a child that could not be spawned: it has no pid.    *)
SpawnError(p) ==
    /\ Drained
    /\ rp[p] = "new"
    /\ pm.starting
    /\ rp' = [rp EXCEPT ![p] = "free"]
    /\ pm' = [pm EXCEPT !.child = ChildAfterFail(p, TRUE), !.starting = FALSE]
    /\ Settle(<<"starting">>, "fail")
    /\ UNCHANGED th

(* The process ends, by itself or because it was killed.                   *)
Ends(p) ==
    /\ rp[p] \in {"up", "hung"}
    /\ rp' = [rp EXCEPT ![p] = "gone"]
    /\ UNCHANGED <<pm, th, news>>

(* markExited and the finish of a stop: the child is forgotten, a start    *)
(* that waits for it fails and a stop that waits for it succeeds.          *)
Exited(p) ==
    /\ Drained
    /\ rp[p] = "gone"
    /\ rp' = [rp EXCEPT ![p] = "free"]
    /\ pm' = [pm EXCEPT !.child = IF @ = p THEN NoChild ELSE @,
                        !.running = IF pm.child = p THEN FALSE ELSE @,
                        !.starting = IF pm.child = p THEN FALSE ELSE @,
                        !.stopping = FALSE,
                        !.expected = @ \ {p}]
    /\ news' = [t \in Threads |->
                  IF th[t].on = <<"stopping">> THEN "ok"
                  ELSE IF th[t].on = <<"starting">> THEN "fail" ELSE news[t]]

(* stop(): joins a stop, cancels a start, marks the exit as expected and   *)
(* kills the child once.                                                   *)
ProcessStop(t) ==
    IF pm.stopping
    THEN Await(t, "procStopping", <<"stopping">>) /\ UNCHANGED <<rp, pm, news>>
    ELSE IF pm.child = NoChild
    THEN Goto(t, "stopDone") /\ UNCHANGED <<rp, pm, news>>
    ELSE /\ Await(t, "procStopping", <<"stopping">>)
         /\ pm' = [pm EXCEPT !.child = IF pm.starting THEN ChildAfterFail(@, FALSE) ELSE @,
                             !.starting = FALSE, !.stopping = TRUE,
                             !.expected = @ \cup {pm.child}]
         /\ Settle(<<"starting">>, "fail")
         /\ UNCHANGED rp

(* Five seconds without an exit: the stop fails, the child stays.          *)
StopTimedOut ==
    /\ Drained
    /\ pm.stopping
    /\ pm' = [pm EXCEPT !.stopping = FALSE]
    /\ Settle(<<"stopping">>, "fail")
    /\ UNCHANGED <<rp, th>>

==============================================================================

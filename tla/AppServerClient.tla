--------------------------- MODULE AppServerClient ---------------------------
(***************************************************************************)
(* The connection to one Codex app-server, a child process that is spoken  *)
(* to over its standard streams (codex_app_server/client.ts), and the      *)
(* watchers that follow its turns (backend.ts).  A request is answered     *)
(* under its id at any time; what the server tells of its turns is queued  *)
(* until a watcher asks for it.  Whatever goes wrong on the connection     *)
(* fails all of it.                                                        *)
(*                                                                         *)
(* The handlers of the client run without interruption, so its objects are *)
(* one record, which the operators below change in the order of the calls. *)
(***************************************************************************)
EXTENDS Naturals, Sequences, FiniteSets

CONSTANTS
    Turns,               \* asked for one after the other on this connection
    MaxOdd               \* bound: lines of the server that are no messages, and requests

ASSUME ServerClientAssumption == MaxOdd \in Nat /\ "init" \notin Turns

VARIABLES
    conn,        \* CodexAppServerClient and its AsyncEventQueue
    watching,    \* the watcher of each turn
    child        \* the process and the streams

clientVars == <<conn, watching, child>>

Requests == {"init"} \cup Turns
Open == conn.stage = "open"
Usable(c) == ~c.failed /\ c.stage = "open"

-----------------------------------------------------------------------------
(* AsyncEventQueue *)

PushEvent(c, e) == IF c.ended THEN c ELSE [c EXCEPT !.queue = Append(@, e), !.heard = @ \cup {e.turn}]
EndQueue(c) == [c EXCEPT !.ended = TRUE]

\* next, asking for the end before the values
EndFirst(c) == IF c.ended THEN "end" ELSE IF c.queue # <<>> THEN "value" ELSE "wait"

\* next: what was queued comes before the end
NextOf(c) == IF c.queue # <<>> THEN "value" ELSE IF c.ended THEN "end" ELSE "wait"

-----------------------------------------------------------------------------
(* CodexAppServerClient *)

\* the turn that awaited initialize was not sent
WithoutInit(calls) ==
    [r \in Requests |-> IF r = "init" THEN "failed"
                        ELSE IF calls[r] = "waiting" THEN "not_dispatched" ELSE calls[r]]

RejectPending(calls) ==
    LET known == IF calls["init"] = "pending" THEN WithoutInit(calls) ELSE calls
    IN  [r \in Requests |-> IF known[r] = "pending" THEN "failed" ELSE known[r]]

\* fail: only the first failure counts
Fail(c) ==
    IF c.failed THEN c ELSE EndQueue([c EXCEPT !.failed = TRUE, !.calls = RejectPending(@)])

\* initialize rejects, which fails the client
InitFails(c) == Fail([c EXCEPT !.calls = WithoutInit(@)])

\* request: a destroyed stream refuses the write, and nothing was sent
Request(c, r) == [c EXCEPT !.calls[r] = IF child.destroyed THEN "not_dispatched" ELSE "pending"]

Ask(c, t) == IF Usable(c) THEN Request(c, t) ELSE [c EXCEPT !.calls[t] = "not_dispatched"]

Waiting(c) == {t \in Turns : c.calls[t] = "waiting"}

\* the answer of initialize: the client says that it is initialized, which it may no longer do
InitAnswered(c, ok) ==
    IF ~ok \/ ~Usable(c) \/ child.destroyed THEN InitFails(c)
    ELSE LET known == [c EXCEPT !.calls["init"] = "done"]
         IN  IF Waiting(c) = {} THEN known ELSE Ask(known, CHOOSE t \in Waiting(c) : TRUE)

\* startTurn, which initializes first
TurnAsked(c, t) ==
    CASE c.calls["init"] = "idle" /\ Usable(c) /\ ~child.destroyed ->
           [c EXCEPT !.calls["init"] = "pending", !.calls[t] = "waiting"]
      [] c.calls["init"] = "idle" /\ (~Usable(c) \/ child.destroyed) ->
           InitFails([c EXCEPT !.calls[t] = "waiting"])
      [] c.calls["init"] = "failed" -> [c EXCEPT !.calls[t] = "not_dispatched"]
      [] OTHER -> Ask(c, t)

\* an answer that nobody waits for any more is an error of the protocol
Answer(c, r, ok) ==
    IF c.calls[r] # "pending" THEN Fail(c)
    ELSE IF r = "init" THEN InitAnswered(c, ok)
    ELSE [c EXCEPT !.calls[r] = IF ok THEN "done" ELSE "refused"]

\* handleMessage: requests of the server are refused
HandleMessage(c, line) ==
    CASE line.kind = "answer" -> Answer(c, line.of, line.ok)
      [] line.kind = "event" -> PushEvent(c, [turn |-> line.of, ok |-> line.ok])
      [] line.kind = "request" /\ Usable(c) /\ ~child.destroyed -> c
      [] OTHER -> Fail(c)

\* a timer that takes the request for one that was never sent
TimedOutUnsent(c, r) == [c EXCEPT !.calls[r] = "not_dispatched"]

TimedOut(c, r) == IF r = "init" THEN InitFails(c) ELSE [c EXCEPT !.calls[r] = "failed"]

\* the end of closeOnce, without the queue
FinishCalls(c) == [c EXCEPT !.stage = "closed", !.calls = RejectPending(@)]

Finish(c) ==
    LET rejected == EndQueue([c EXCEPT !.stage = "closed", !.calls = RejectPending(@)])
    IN  IF c.calls["init"] = "pending" THEN Fail(rejected) ELSE rejected

-----------------------------------------------------------------------------
ClientInit ==
    /\ conn = [stage |-> "open", failed |-> FALSE, exit |-> FALSE,
               calls |-> [r \in Requests |-> "idle"],
               queue |-> <<>>, ended |-> FALSE, heard |-> {}]
    /\ watching = [t \in Turns |-> "none"]
    /\ child = [up |-> TRUE, destroyed |-> FALSE, reads |-> <<>>, writes |-> <<>>,
                begun |-> {}, owes |-> {}, told |-> {}, odd |-> 0]

\* a request that has become pending is in the stream, which a process that is gone never reads
Sends(next) ==
    LET new == {r \in Requests : next.calls[r] = "pending" /\ conn.calls[r] # "pending"} IN
    IF new = {} \/ ~child.up THEN child
    ELSE [child EXCEPT !.reads = Append(@, CHOOSE r \in new : TRUE)]

\* the answer of a turn starts its watcher
Watched(next) == [t \in Turns |-> IF next.calls[t] = "done" /\ watching[t] = "none"
                                  THEN "events" ELSE watching[t]]

Becomes(next) == conn' = next /\ watching' = Watched(next) /\ child' = Sends(next)

\* a connection is used again for the turn after a completed one
StartTurn(t) ==
    /\ conn.calls[t] = "idle"
    /\ \A u \in Turns \ {t} : conn.calls[u] = "idle" \/ watching[u] = "completed"
    /\ Becomes(TurnAsked(conn, t))

RequestTimer(r) == conn.calls[r] = "pending" /\ Becomes(TimedOut(conn, r))

HandleLine ==
    /\ child.writes # <<>> /\ conn.stage # "closed"
    /\ LET next == HandleMessage(conn, Head(child.writes)) IN
       /\ conn' = next /\ watching' = Watched(next)
       /\ child' = [Sends(next) EXCEPT !.writes = Tail(@)]

\* the close event comes after the last line
ChildCloses ==
    /\ ~child.up /\ ~conn.exit /\ (child.writes = <<>> \/ conn.stage = "closed")
    /\ conn' = LET known == [conn EXCEPT !.exit = TRUE] IN IF Open THEN Fail(known) ELSE known
    /\ child' = [child EXCEPT !.destroyed = TRUE]
    /\ UNCHANGED watching

\* close, of the backend: a child that has not ended after 5 seconds is killed
Close ==
    /\ Open
    /\ conn' = IF conn.exit THEN Finish(conn) ELSE [conn EXCEPT !.stage = "ending"]
    /\ UNCHANGED <<watching, child>>

EndingTimer ==
    /\ conn.stage = "ending" /\ ~conn.exit
    /\ conn' = [conn EXCEPT !.stage = "killing"]
    /\ UNCHANGED <<watching, child>>

\* it has ended, or has not after 2 more seconds
CloseEnds ==
    /\ conn.stage = "killing" \/ (conn.stage = "ending" /\ conn.exit)
    /\ conn' = Finish(conn)
    /\ UNCHANGED <<watching, child>>

\* watch: the events of other turns are skipped, and the end of the stream proves nothing
Watch(t) ==
    /\ watching[t] = "events" /\ NextOf(conn) # "wait"
    /\ IF NextOf(conn) = "end" THEN watching' = [watching EXCEPT ![t] = "ended"] /\ UNCHANGED conn
       ELSE LET e == Head(conn.queue) IN
            /\ conn' = [conn EXCEPT !.queue = Tail(@)]
            /\ watching' = IF e.turn # t THEN watching
                           ELSE [watching EXCEPT ![t] = IF e.ok THEN "completed" ELSE "failed"]
    /\ UNCHANGED child

-----------------------------------------------------------------------------
(* The app-server *)

Says(line) == child' = [child EXCEPT !.writes = Append(@, line)] /\ UNCHANGED <<conn, watching>>
Written(kind, of, ok) == [kind |-> kind, of |-> of, ok |-> ok]

ServerReads ==
    /\ child.up /\ child.reads # <<>>
    /\ LET r == Head(child.reads) IN
       child' = [child EXCEPT !.reads = Tail(@), !.owes = @ \cup {r},
                              !.begun = IF r \in Turns THEN @ \cup {r} ELSE @]
    /\ UNCHANGED <<conn, watching>>

\* it answers; a turn that it refuses it has not begun
ServerAnswers(r, ok) ==
    /\ child.up /\ r \in child.owes /\ (ok \/ r \notin child.told)
    /\ child' = [child EXCEPT !.owes = @ \ {r}, !.writes = Append(@, Written("answer", r, ok)),
                              !.begun = IF ok THEN @ ELSE @ \ {r}]
    /\ UNCHANGED <<conn, watching>>

ServerTells(t, ok) ==
    /\ child.up /\ t \in child.begun \ child.told
    /\ child' = [child EXCEPT !.told = @ \cup {t}, !.writes = Append(@, Written("event", t, ok))]
    /\ UNCHANGED <<conn, watching>>

ServerIsOdd(kind) ==
    /\ child.up /\ child.odd < MaxOdd
    /\ child' = [child EXCEPT !.odd = @ + 1, !.writes = Append(@, Written(kind, "init", TRUE))]
    /\ UNCHANGED <<conn, watching>>

\* by itself, at the end of its input, or killed
ServerEnds ==
    /\ child.up
    /\ child' = [child EXCEPT !.up = FALSE, !.reads = <<>>]
    /\ UNCHANGED <<conn, watching>>

ServerStep ==
    \/ ServerReads \/ ServerEnds
    \/ \E ok \in BOOLEAN : (\E r \in Requests : ServerAnswers(r, ok)) \/ (\E t \in Turns : ServerTells(t, ok))
    \/ \E kind \in {"request", "garbage"} : ServerIsOdd(kind)

ClientNext ==
    \/ \E t \in Turns : StartTurn(t) \/ Watch(t)
    \/ \E r \in Requests : RequestTimer(r)
    \/ HandleLine \/ ChildCloses \/ Close \/ EndingTimer \/ CloseEnds
    \/ ServerStep

\* What is due on the event loop runs: timers, watchers and the steps of close.
ClientFairness ==
    /\ WF_clientVars(EndingTimer) /\ WF_clientVars(CloseEnds)
    /\ \A t \in Turns : WF_clientVars(Watch(t))
    /\ \A r \in Requests : WF_clientVars(RequestTimer(r))

-----------------------------------------------------------------------------
(* Properties *)

\* A turn that was reported as not dispatched has not begun and never will: the
\* backend fails its execution as one that may safely be repeated.
NotDispatchedIsTrue ==
    \A t \in Turns : conn.calls[t] = "not_dispatched" =>
        t \notin child.begun /\ \A i \in DOMAIN child.reads : child.reads[i] # t

\* A watcher gives a turn up for lost only when its end was not received: an end
\* that came before the failure of the connection is still seen.
EndIsSeen == \A t \in Turns : watching[t] = "ended" => t \notin conn.heard

\* What became of a turn is not misreported, neither that it was sent nor its end.
TurnsToldTruly == NotDispatchedIsTrue /\ EndIsSeen

\* A connection that fails or is closed, which is for good, leaves no caller and
\* no watcher waiting.
ConnectionReleasesAll ==
    []<>(Usable(conn) \/ /\ \A r \in Requests : conn.calls[r] \notin {"waiting", "pending"}
                         /\ \A t \in Turns : watching[t] # "events")
=============================================================================

--------------------------- MODULE CloudflareTunnel ---------------------------
(***************************************************************************)
(* TunnelManager over CloudflareTunnelProvider (tunnel/manager.ts,         *)
(* tunnel/cloudflare.ts): a cloudflared child per attempt, first with the  *)
(* default protocol and then with HTTP/2.  An attempt succeeds when the    *)
(* public address answers, which takes a runtime that answers.  A child    *)
(* that is given up is killed, and abandoned if it does not end in time.   *)
(***************************************************************************)
EXTENDS EventLoop

CONSTANTS Cids       \* cloudflared processes that can exist at a time (a bound)

VARIABLES cp,        \* cp[c]: the operating system's view of process c
          cf,        \* the fields of the provider
          tm         \* the state of the TunnelManager

NoCloud == 0
LastAttempt == 2     \* protocols: "auto", then "http2"

(* A process is "up", then "killed" or "gone" (its close is not reported   *)
(* yet); it is "lost" when it outlives the time given to its kill.         *)
CloudInit ==
    /\ cp = [c \in Cids |-> "free"]
    /\ cf = [child |-> NoCloud, state |-> "STOPPED", starting |-> FALSE,
             cancelled |-> FALSE, attempt |-> 0, dying |-> NoCloud]
    /\ tm = "LOCAL_ONLY"

FreeCloud(c) == cp[c] = "free" /\ \A d \in Cids : cp[d] = "free" => c <= d

(* status(): a failed provider demotes the manager.                        *)
TunnelView ==
    IF tm \in {"REMOTE_STARTING", "REMOTE_READY"} /\ cf.state = "REMOTE_ERROR"
    THEN "REMOTE_ERROR" ELSE tm

TunnelHealthy == TunnelView \notin {"REMOTE_ERROR", "STOPPED"}

(* start(): a tunnel that is up answers at once, a start under way is      *)
(* joined (a cancelled one too), else the first attempt begins.            *)
TunnelStart(t) ==
    IF cf.state = "REMOTE_READY" /\ cf.child # NoCloud
    THEN /\ Goto(t, "serving")
         /\ tm' = "REMOTE_READY"
         /\ UNCHANGED <<cp, cf, news>>
    ELSE /\ Await(t, "tunnelling", <<"tunnel">>)
         /\ tm' = "REMOTE_STARTING"
         /\ UNCHANGED news
         /\ IF cf.starting
            THEN UNCHANGED <<cp, cf>>
            ELSE \E c \in Cids :
                    /\ FreeCloud(c)
                    /\ cp' = [cp EXCEPT ![c] = "up"]
                    /\ cf' = [child |-> c, state |-> "REMOTE_STARTING", starting |-> TRUE,
                              cancelled |-> FALSE, attempt |-> 1, dying |-> NoCloud]

Attempting == cf.starting /\ ~cf.cancelled /\ cf.dying = NoCloud /\ cf.child # NoCloud

(* ready(): registered, and the public address answered.                   *)
TunnelReady ==
    /\ Drained
    /\ Attempting
    /\ cp[cf.child] = "up"
    /\ cf' = [cf EXCEPT !.state = "REMOTE_READY", !.starting = FALSE, !.attempt = 0]
    /\ tm' = "REMOTE_READY"
    /\ Settle(<<"tunnel">>, "ok")
    /\ UNCHANGED <<cp, th>>

(* The loop over the protocols after an attempt failed: `ps` is the table  *)
(* of processes, in which the child of the failed attempt is settled.      *)
NextAttempt(ps) ==
    IF cf.cancelled
    THEN /\ cf' = [cf EXCEPT !.starting = FALSE, !.attempt = 0, !.dying = NoCloud]
         /\ cp' = ps
         /\ tm' = "REMOTE_ERROR"
         /\ Settle(<<"tunnel">>, "fail")
    ELSE IF cf.attempt < LastAttempt
    THEN \E c \in Cids :
            /\ FreeCloud(c)
            /\ cp' = [ps EXCEPT ![c] = "up"]
            /\ cf' = [cf EXCEPT !.child = c, !.attempt = @ + 1, !.dying = NoCloud]
            /\ UNCHANGED <<tm, news>>
    ELSE /\ cf' = [cf EXCEPT !.child = NoCloud, !.state = "REMOTE_ERROR",
                             !.starting = FALSE, !.attempt = 0, !.dying = NoCloud]
         /\ cp' = ps
         /\ tm' = "REMOTE_ERROR"
         /\ Settle(<<"tunnel">>, "fail")

(* The child of an attempt ends by itself.                                 *)
AttemptClosed ==
    /\ Drained
    /\ Attempting
    /\ cp[cf.child] = "gone"
    /\ NextAttempt([cp EXCEPT ![cf.child] = "free"])
    /\ UNCHANGED th

(* The time of an attempt is over: its child is killed before the next one. *)
AttemptTimedOut ==
    /\ Drained
    /\ Attempting
    /\ cp[cf.child] = "up"
    /\ cp' = [cp EXCEPT ![cf.child] = "killed"]
    /\ cf' = [cf EXCEPT !.child = NoCloud, !.dying = cf.child]
    /\ UNCHANGED <<tm, news, th>>

(* cloudflared ends, by itself or because it was killed.                   *)
CloudEnds(c) ==
    /\ cp[c] \in {"up", "killed", "lost"}
    /\ cp' = [cp EXCEPT ![c] = IF cp[c] = "lost" THEN "free" ELSE "gone"]
    /\ UNCHANGED <<cf, tm, th, news>>

(* terminate() resolves: the killed child has ended, or its time is over.  *)
Terminated(c, after) ==
    /\ Drained
    /\ IF cf.dying = c
       THEN NextAttempt([cp EXCEPT ![c] = after])
       ELSE /\ cp' = [cp EXCEPT ![c] = after]
            /\ Settle(<<"closed", c>>, "ok")
            /\ tm' = IF \E t \in Threads : th[t].on = <<"closed", c>> THEN "STOPPED" ELSE tm
            /\ UNCHANGED cf
    /\ UNCHANGED th

CloudClosed(c) == cp[c] = "gone" /\ c # cf.child /\ Terminated(c, "free")
KillTimedOut(c) == cp[c] = "killed" /\ Terminated(c, "lost")

(* The child of a tunnel that was up closes.                               *)
TunnelCloses ==
    /\ Drained
    /\ cf.child # NoCloud /\ ~cf.starting
    /\ cp[cf.child] = "gone"
    /\ cp' = [cp EXCEPT ![cf.child] = "free"]
    /\ cf' = [cf EXCEPT !.child = NoCloud, !.state = "REMOTE_ERROR"]
    /\ UNCHANGED <<tm, news, th>>

(* stop(): cancels a start, forgets the child and terminates it.  A start  *)
(* that is killing the child of a failed attempt ends only with that.      *)
Given == cf.child
Rejecting == cf.starting /\ cf.dying = NoCloud

TunnelStop(t) ==
    /\ cf' = [cf EXCEPT !.child = NoCloud, !.state = "STOPPED",
                        !.cancelled = cf.starting,
                        !.starting = cf.starting /\ ~Rejecting,
                        !.attempt = IF Rejecting THEN 0 ELSE @]
    /\ IF Rejecting THEN Settle(<<"tunnel">>, "fail") ELSE UNCHANGED news
    /\ IF Given = NoCloud
       THEN Goto(t, "stopProc") /\ tm' = "STOPPED" /\ UNCHANGED cp
       ELSE /\ Await(t, "tunnelStopping", <<"closed", Given>>)
            /\ cp' = [cp EXCEPT ![Given] = IF @ = "up" THEN "killed" ELSE @]
            /\ tm' = IF Rejecting THEN "REMOTE_ERROR" ELSE tm

==============================================================================

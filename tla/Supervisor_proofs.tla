-------------------------- MODULE Supervisor_proofs --------------------------
(***************************************************************************)
(* Proofs about the supervisor, for any callers, processes, settings and   *)
(* bounds.                                                                 *)
(*                                                                         *)
(* OneOfEach needs that whatever lives is the child of its manager, also   *)
(* after a stop that timed out, and that the provider of the tunnel has no *)
(* child to forget when it begins an attempt: one that is not starting has *)
(* a child only when the tunnel is up, and one that is killing the child   *)
(* of a failed attempt has given it up already.                            *)
(*                                                                         *)
(* DownOwnsNothing needs to know where each call is and what it awaits,    *)
(* that one thread at a time works on the process and the tunnel, and that *)
(* its place tells the state of the supervisor and what is released; all   *)
(* of it only as long as the user's requests are those it orders.          *)
(***************************************************************************)
EXTENDS Supervisor, TLAPS, FiniteSetTheorems

ProcessTypes ==
    /\ rp \in [Pids -> {"free", "new", "up", "hung", "gone"}]
    /\ pm \in [child : Pids \cup {NoChild}, running : BOOLEAN, starting : BOOLEAN,
               stopping : BOOLEAN, expected : SUBSET (Pids \cup {NoChild})]

\* Whatever lives, or has not been reported to have ended, is the child of the manager.
ChildLives == \A p \in Pids : rp[p] # "free" => p = pm.child

CloudTypes ==
    /\ cp \in [Cids -> {"free", "up", "killed", "gone", "lost"}]
    /\ cf \in [child : Cids \cup {NoCloud}, state : {"STOPPED", "REMOTE_STARTING", "REMOTE_READY", "REMOTE_ERROR"},
               starting : BOOLEAN, cancelled : BOOLEAN, attempt : Nat, dying : Cids \cup {NoCloud}]
    /\ tm \in {"LOCAL_ONLY", "REMOTE_STARTING", "REMOTE_READY", "REMOTE_ERROR", "STOPPED"}

\* A cloudflared that was not killed is the child of the provider, and the only one.
CloudLives ==
    /\ cf.child # NoCloud => cp[cf.child] \in {"up", "gone"}
    /\ \A c \in Cids : cp[c] = "up" => c = cf.child
    /\ cf.dying # NoCloud => cf.starting /\ cf.child = NoCloud
    /\ ~cf.starting /\ cf.child # NoCloud => cf.state = "REMOTE_READY"
    /\ cf.starting /\ cf.cancelled => cf.child = NoCloud /\ cf.dying # NoCloud

ChildrenInv == ProcessTypes /\ ChildLives /\ CloudTypes /\ CloudLives

LEMMA NobodyIsZero == 0 \notin Pids /\ 0 \notin Cids
BY SupervisorAssumption

-----------------------------------------------------------------------------
(* The runtime process *)

LEMMA ProcessStartKeeps ==
    ASSUME ProcessTypes, ChildLives, NEW t, ProcessStart(t) PROVE ProcessTypes' /\ ChildLives'
<1>1. CASE UNCHANGED <<rp, pm>>
    BY <1>1 DEF ProcessTypes, ChildLives
<1>2. CASE ~UNCHANGED <<rp, pm>>
    <2>1. PICK p \in Pids : rp[p] = "free" /\ rp' = [rp EXCEPT ![p] = "new"]
                            /\ pm' = [pm EXCEPT !.child = p, !.starting = TRUE]
        BY <1>2 DEF ProcessStart
    <2>2. pm.child = NoChild
        BY <1>2 DEF ProcessStart, SpawnRefused
    <2>3. ProcessTypes'
        BY <2>1 DEF ProcessTypes
    <2>4. ChildLives'
        BY <2>1, <2>2, NobodyIsZero DEF ProcessTypes, ChildLives, NoChild
    <2>. QED
        BY <2>3, <2>4
<1>. QED
    BY <1>1, <1>2

LEMMA ProcessStopKeeps ==
    ASSUME ProcessTypes, ChildLives, NEW t, ProcessStop(t) PROVE ProcessTypes' /\ ChildLives'
<1>1. CASE UNCHANGED <<rp, pm>>
    BY <1>1 DEF ProcessTypes, ChildLives
<1>2. CASE ~UNCHANGED <<rp, pm>>
    <2>1. /\ UNCHANGED rp
          /\ pm' = [pm EXCEPT !.child = IF pm.starting THEN ChildAfterFail(@, FALSE) ELSE @,
                              !.starting = FALSE, !.stopping = TRUE, !.expected = @ \cup {pm.child}]
        BY <1>2 DEF ProcessStop
    <2>2. pm'.child = pm.child
        BY <2>1 DEF ProcessTypes, ChildAfterFail
    <2>3. ProcessTypes'
        BY <2>1, <2>2 DEF ProcessTypes, ChildAfterFail
    <2>. QED
        BY <2>1, <2>2, <2>3 DEF ChildLives
<1>. QED
    BY <1>1, <1>2

LEMMA ProcessEventKeeps ==
    ASSUME ProcessTypes, ChildLives, NEW p \in Pids,
           \/ Spawned(p) \/ SpawnError(p) \/ Ends(p) \/ Exited(p) \/ StopTimedOut
           \/ rp[p] = "up" /\ rp' = [rp EXCEPT ![p] = "hung"] /\ UNCHANGED pm
    PROVE  ProcessTypes' /\ ChildLives'
<1>. USE DEF ProcessTypes, ChildLives
<1>1. CASE Spawned(p)
    <2>1. rp' = [rp EXCEPT ![p] = "up"] /\ pm' \in {pm, [pm EXCEPT !.running = TRUE, !.starting = FALSE]}
        BY <1>1 DEF Spawned
    <2>2. ProcessTypes'
        BY <2>1
    <2>3. pm'.child = pm.child /\ rp[p] # "free"
        BY <1>1, <2>1 DEF Spawned
    <2>4. ChildLives'
        BY <2>1, <2>3
    <2>. QED
        BY <2>2, <2>4
<1>2. CASE SpawnError(p)
    BY <1>2 DEF SpawnError, ChildAfterFail
<1>3. CASE Ends(p)
    BY <1>3 DEF Ends
<1>4. CASE Exited(p)
    <2>1. ProcessTypes'
        BY <1>4 DEF Exited
    <2>2. ChildLives'
        BY <1>4 DEF Exited
    <2>. QED
        BY <2>1, <2>2
<1>5. CASE StopTimedOut
    BY <1>5 DEF StopTimedOut
<1>6. CASE rp[p] = "up" /\ rp' = [rp EXCEPT ![p] = "hung"] /\ UNCHANGED pm
    BY <1>6
<1>. QED
    BY <1>1, <1>2, <1>3, <1>4, <1>5, <1>6

-----------------------------------------------------------------------------
(* The tunnel *)

LEMMA TunnelStartKeeps ==
    ASSUME CloudTypes, CloudLives, NEW t, TunnelStart(t) PROVE CloudTypes' /\ CloudLives'
<1>1. tm' \in {"REMOTE_READY", "REMOTE_STARTING"}
    BY DEF TunnelStart
<1>2. CASE UNCHANGED <<cp, cf>>
    BY <1>1, <1>2 DEF CloudTypes, CloudLives
<1>3. CASE ~UNCHANGED <<cp, cf>>
    <2>1. PICK c \in Cids : cp' = [cp EXCEPT ![c] = "up"] /\
            cf' = [child |-> c, state |-> "REMOTE_STARTING", starting |-> TRUE,
                   cancelled |-> FALSE, attempt |-> 1, dying |-> NoCloud]
        BY <1>3 DEF TunnelStart
    <2>2. ~(cf.state = "REMOTE_READY" /\ cf.child # NoCloud)
        BY <1>3 DEF TunnelStart
    <2>3. cf.starting => UNCHANGED <<cp, cf>>
        BY <2>2 DEF TunnelStart
    <2>4. cf.child = NoCloud
        BY <1>3, <2>2, <2>3 DEF CloudLives
    <2>5. CloudTypes'
        BY <1>1, <2>1 DEF CloudTypes
    <2>6. \A d \in Cids : cp[d] # "up"
        BY <2>4, NobodyIsZero DEF CloudLives, NoCloud
    <2>7. CloudLives'
        BY <2>1, <2>6 DEF CloudTypes, CloudLives
    <2>. QED
        BY <2>5, <2>7
<1>. QED
    BY <1>2, <1>3

LEMMA NextAttemptKeeps ==
    ASSUME CloudTypes, CloudLives, cf.starting,
           NEW d \in Cids, NEW s \in {"free", "lost"}, NextAttempt([cp EXCEPT ![d] = s]),
           \A c \in Cids : c # d => cp[c] # "up",
           cf.cancelled => cf.child = NoCloud
    PROVE  CloudTypes' /\ CloudLives'
<1>1. CASE cf.cancelled
    <2>1. /\ cf' = [cf EXCEPT !.starting = FALSE, !.attempt = 0, !.dying = NoCloud]
          /\ cp' = [cp EXCEPT ![d] = s] /\ tm' = "REMOTE_ERROR"
        BY <1>1 DEF NextAttempt
    <2>. QED
        BY <1>1, <2>1 DEF CloudTypes, CloudLives
<1>2. CASE ~cf.cancelled /\ cf.attempt < LastAttempt
    <2>1. PICK c \in Cids :
            /\ cp' = [[cp EXCEPT ![d] = s] EXCEPT ![c] = "up"]
            /\ cf' = [cf EXCEPT !.child = c, !.attempt = @ + 1, !.dying = NoCloud]
            /\ UNCHANGED tm
        BY <1>2 DEF NextAttempt
    <2>2. \A e \in Cids : cp'[e] = IF e = c THEN "up" ELSE IF e = d THEN s ELSE cp[e]
        BY <2>1 DEF CloudTypes
    <2>3. cp' \in [Cids -> {"free", "up", "killed", "gone", "lost"}]
        BY <2>1 DEF CloudTypes
    <2>4. cf.attempt + 1 \in Nat
        BY DEF CloudTypes
    <2>5. CloudTypes'
        BY <2>1, <2>3, <2>4 DEF CloudTypes
    <2>6. CloudLives'
        BY <1>2, <2>1, <2>2 DEF CloudTypes, CloudLives
    <2>. QED
        BY <2>5, <2>6
<1>3. CASE ~cf.cancelled /\ ~(cf.attempt < LastAttempt)
    <2>1. /\ cf' = [cf EXCEPT !.child = NoCloud, !.state = "REMOTE_ERROR",
                              !.starting = FALSE, !.attempt = 0, !.dying = NoCloud]
          /\ cp' = [cp EXCEPT ![d] = s] /\ tm' = "REMOTE_ERROR"
        BY <1>3 DEF NextAttempt
    <2>. QED
        BY <1>3, <2>1 DEF CloudTypes, CloudLives
<1>. QED
    BY <1>1, <1>2, <1>3

LEMMA TerminatedKeeps ==
    ASSUME CloudTypes, CloudLives, NEW c \in Cids, c # cf.child, NEW s \in {"free", "lost"}, Terminated(c, s)
    PROVE  CloudTypes' /\ CloudLives'
<1>1. CASE cf.dying = c
    <2>1. cf.starting /\ cf.child = NoCloud /\ NextAttempt([cp EXCEPT ![c] = s])
        BY <1>1, NobodyIsZero DEF Terminated, CloudLives, NoCloud
    <2>2. \A d \in Cids : cp[d] # "up"
        BY <2>1, NobodyIsZero DEF CloudLives, NoCloud
    <2>. QED
        BY <2>1, <2>2, NextAttemptKeeps
<1>2. CASE cf.dying # c
    <2>1. cp' = [cp EXCEPT ![c] = s] /\ UNCHANGED cf /\ tm' \in {"STOPPED", tm}
        BY <1>2 DEF Terminated
    <2>. QED
        BY <2>1 DEF CloudTypes, CloudLives
<1>. QED
    BY <1>1, <1>2

LEMMA TunnelEventKeeps ==
    ASSUME CloudTypes, CloudLives, NEW c \in Cids,
           \/ TunnelReady \/ AttemptClosed \/ AttemptTimedOut \/ TunnelCloses
           \/ CloudEnds(c) \/ CloudClosed(c) \/ KillTimedOut(c)
    PROVE  CloudTypes' /\ CloudLives'
<1>1. CASE TunnelReady
    BY <1>1 DEF TunnelReady, Attempting, CloudTypes, CloudLives
<1>2. CASE AttemptClosed
    <2>1. cf.starting /\ ~cf.cancelled /\ cf.child \in Cids /\ NextAttempt([cp EXCEPT ![cf.child] = "free"])
        BY <1>2 DEF AttemptClosed, Attempting, CloudTypes
    <2>2. \A d \in Cids : d # cf.child => cp[d] # "up"
        BY DEF CloudLives
    <2>. QED
        BY <2>1, <2>2, NextAttemptKeeps
<1>3. CASE AttemptTimedOut
    BY <1>3 DEF AttemptTimedOut, Attempting, CloudTypes, CloudLives
<1>4. CASE TunnelCloses
    BY <1>4 DEF TunnelCloses, CloudTypes, CloudLives
<1>5. CASE CloudEnds(c)
    BY <1>5 DEF CloudEnds, CloudTypes, CloudLives
<1>6. CASE CloudClosed(c)
    BY <1>6, TerminatedKeeps DEF CloudClosed
<1>7. CASE KillTimedOut(c)
    <2>1. c # cf.child
        BY <1>7, NobodyIsZero DEF KillTimedOut, CloudLives, NoCloud
    <2>. QED
        BY <1>7, <2>1, TerminatedKeeps DEF KillTimedOut
<1>. QED
    BY <1>1, <1>2, <1>3, <1>4, <1>5, <1>6, <1>7

LEMMA TunnelStopKeeps ==
    ASSUME CloudTypes, CloudLives, NEW t, TunnelStop(t) PROVE CloudTypes' /\ CloudLives'
<1>1. cf' = [cf EXCEPT !.child = NoCloud, !.state = "STOPPED", !.cancelled = cf.starting,
                       !.starting = cf.starting /\ ~Rejecting,
                       !.attempt = IF Rejecting THEN 0 ELSE @]
    BY DEF TunnelStop
<1>2. (cf.child = NoCloud /\ UNCHANGED cp) \/ (cf.child # NoCloud /\ cp' = [cp EXCEPT ![cf.child] = IF @ = "up" THEN "killed" ELSE @])
    BY DEF TunnelStop, Given
<1>3. tm' \in {"STOPPED", "REMOTE_ERROR", tm}
    BY DEF TunnelStop
<1>4. cp' \in [Cids -> {"free", "up", "killed", "gone", "lost"}] /\ tm' \in {"LOCAL_ONLY", "REMOTE_STARTING", "REMOTE_READY", "REMOTE_ERROR", "STOPPED"}
    BY <1>2, <1>3 DEF CloudTypes
<1>5. CloudTypes'
    BY <1>1, <1>4 DEF CloudTypes, Rejecting
<1>6. \A c \in Cids : cp'[c] # "up"
    BY <1>2, NobodyIsZero DEF CloudTypes, CloudLives, NoCloud
<1>7. /\ cf'.child = NoCloud /\ cf'.dying = cf.dying /\ cf'.cancelled = cf.starting
      /\ cf'.starting = (cf.starting /\ cf.dying # NoCloud)
    BY <1>1 DEF CloudTypes, Rejecting
<1>8. CloudLives'
    BY <1>6, <1>7 DEF CloudLives, CloudTypes
<1>. QED
    BY <1>5, <1>8

-----------------------------------------------------------------------------
(* Both *)

LEMMA ChildrenStart == SupervisorInit => ChildrenInv
<1>. SUFFICES ASSUME SupervisorInit PROVE ChildrenInv
    OBVIOUS
<1>1. ProcessTypes /\ ChildLives
    BY DEF SupervisorInit, ProcessInit, ProcessTypes, ChildLives
<1>2. CloudTypes /\ CloudLives
    BY DEF SupervisorInit, CloudInit, CloudTypes, CloudLives
<1>. QED
    BY <1>1, <1>2 DEF ChildrenInv

LEMMA ChildrenKept == ChildrenInv /\ [Next]_vars => ChildrenInv'
<1>. SUFFICES ASSUME ChildrenInv, [Next]_vars PROVE ChildrenInv'
    OBVIOUS
<1>0. /\ UNCHANGED <<rp, pm>> => ProcessTypes' /\ ChildLives'
      /\ UNCHANGED <<cp, cf, tm>> => CloudTypes' /\ CloudLives'
    BY DEF ChildrenInv, ProcessTypes, ChildLives, CloudTypes, CloudLives
<1>. USE DEF processVars, tunnelVars
<1>1. ASSUME NEW t \in Threads, Call(t) \/ Resumes(t) \/ Health(t) PROVE ChildrenInv'
    <2>1. CASE Spawn(t)
        BY <1>0, <2>1, ProcessStartKeeps DEF Spawn, ChildrenInv
    <2>2. CASE StopProcess(t)
        BY <1>0, <2>2, ProcessStopKeeps DEF StopProcess, ChildrenInv
    <2>3. CASE RuntimeHealthy(t)
        BY <1>0, <2>3, TunnelStartKeeps DEF RuntimeHealthy, ChildrenInv
    <2>4. CASE StopTunnel(t)
        BY <1>0, <2>4, TunnelStopKeeps DEF StopTunnel, ChildrenInv
    <2>5. CASE UNCHANGED <<rp, pm, cp, cf, tm>>
        BY <1>0, <2>5 DEF ChildrenInv
    <2>6. Spawn(t) \/ StopProcess(t) \/ RuntimeHealthy(t) \/ StopTunnel(t) \/ UNCHANGED <<rp, pm, cp, cf, tm>>
        BY <1>1 DEF Call, Starting, Stopping, End, Return, Start, StartAgain, Begin, Started, Serving,
            StartFailed, Stop, StopAgain, StopGo, StoppedBy, StartCleaned, Recovering, RecoveryFailed,
            Resumes, Health, RuntimeUnhealthy, Local, Resources
    <2>. QED
        BY <2>1, <2>2, <2>3, <2>4, <2>5, <2>6
<1>2. CASE Checks \/ Requests \/ UNCHANGED vars
    BY <1>0, <1>2 DEF Checks, Tick, Checked, Requests, Request, Local, Resources, vars, ChildrenInv
<1>3. ASSUME NEW p \in Pids,
             \/ RuntimeSpawned(p) \/ RuntimeExits(p) \/ RuntimeDies(p) \/ RuntimeSpawnFails(p)
             \/ RuntimeCrashes(p) \/ RuntimeHangs(p)
      PROVE  ChildrenInv'
    BY <1>0, <1>3, ProcessEventKeeps DEF RuntimeSpawned, RuntimeExits, RuntimeDies, RuntimeSpawnFails,
        RuntimeCrashes, RuntimeHangs, ProcessOnly, ChildrenInv
<1>4. CASE RuntimeSurvives
    <2>1. ProcessTypes' /\ ChildLives'
        BY <1>4 DEF RuntimeSurvives, StopTimedOut, ChildrenInv, ProcessTypes, ChildLives
    <2>. QED
        BY <1>0, <1>4, <2>1 DEF RuntimeSurvives, ProcessOnly, ChildrenInv
<1>5. ASSUME NEW c \in Cids, CloudDies(c) \/ CloudCrashes(c) \/ CloudSurvives(c) \/ (CloudClosed(c) /\ TunnelOnly)
      PROVE  ChildrenInv'
    BY <1>0, <1>5, TunnelEventKeeps DEF CloudDies, CloudCrashes, CloudSurvives, TunnelOnly, ChildrenInv
<1>6. ASSUME TunnelReady \/ AttemptClosed \/ AttemptTimedOut \/ TunnelCloses, TunnelOnly PROVE ChildrenInv'
    <2>1. cf.child \in Cids
        BY <1>6 DEF TunnelReady, AttemptClosed, AttemptTimedOut, TunnelCloses, Attempting, ChildrenInv, CloudTypes
    <2>. QED
        BY <1>0, <1>6, <2>1, TunnelEventKeeps DEF TunnelOnly, ChildrenInv
<1>7. CASE Connector
    <2>1. CASE CloudReady \/ CloudFails
        BY <1>6, <2>1 DEF CloudReady, CloudFails
    <2>2. CASE CloudEvent
        BY <1>5, <1>6, <2>2 DEF CloudEvent
    <2>3. CASE \E c \in Cids : CloudDies(c)
        BY <1>5, <2>3
    <2>. QED
        BY <1>7, <2>1, <2>2, <2>3 DEF Connector
<1>8. CASE Calls
    BY <1>1, <1>8 DEF Calls
<1>9. CASE Processes
    BY <1>3, <1>9 DEF Processes
<1>10. CASE Breaks
    BY <1>3, <1>4, <1>5, <1>10 DEF Breaks
<1>. QED
    BY <1>2, <1>7, <1>8, <1>9, <1>10 DEF Next

\* Whatever the callers ask and whatever fails, also after a stop that timed out,
\* at most one runtime process lives, and a cloudflared that was not killed is the
\* one the provider would stop (process-manager.ts:96-107, cloudflare.ts:120-139).
THEOREM AlwaysOneOfEach == FairSpec => []OneOfEach
<1>1. ChildrenInv => OneOfEach
    <2>. SUFFICES ASSUME ChildrenInv PROVE OneOfEach
        OBVIOUS
    <2>1. Living \subseteq {pm.child}
        BY DEF ChildrenInv, ChildLives, Living
    <2>2. IsFiniteSet({pm.child}) /\ Cardinality({pm.child}) = 1
        BY FS_Singleton
    <2>3. Cardinality(Living) <= 1
        BY <2>1, <2>2, FS_Subset
    <2>. QED
        BY <2>3 DEF OneOfEach, ChildrenInv, CloudLives
<1>. QED
    BY <1>1, ChildrenStart, ChildrenKept, PTL DEF FairSpec, Spec

-----------------------------------------------------------------------------
(***************************************************************************)
(* DownOwnsNothing needs to know where each thread is and what it awaits   *)
(* (Threading), and, while the requests of the user are ordered, that one  *)
(* thread at a time works on the resources and its place tells the state   *)
(* of the supervisor (StateTells) and what has been released (Releases).   *)
(***************************************************************************)
StopPcs == {"stopTunnel", "tunnelStopping", "stopProc", "procStopping", "stopDone"}
AfterTunnel == StopPcs \ {"stopTunnel"}
StartPcs == {"spawn", "afterStop", "spawning", "started", "health", "tunnelling", "serving", "startFailed"}
FreePcs == {"idle", "start", "joinLifecycle", "joinRecovery", "startAgain", "begin", "return",
            "stop", "stopLifecycle", "stopRecovery", "stopAgain", "stopGo"}

Lifecycle == {"start", "startCleanup"}
Recovery == {"recover", "recoverCleanup"}

\* Where a thread can be, by what it works on.
Fits(t, pc, ctx) ==
    /\ ctx \in Lifecycle \cup Recovery \cup {"none", "stop", "error"}
    /\ ctx = "none" => pc \in FreePcs
    /\ ctx = "start" => pc \in StartPcs \cup {"end"}
    /\ ctx \in {"startCleanup", "recoverCleanup", "error"} => pc \in StopPcs \cup {"end"}
    /\ ctx = "recover" => pc \in StopPcs \cup StartPcs \cup {"end"}
    /\ ctx = "stop" => pc \in StopPcs
    /\ t \in Callers => ctx \notin Recovery \cup {"error"}
    /\ t \notin Callers => ctx \notin Lifecycle \cup {"stop"} /\ (ctx = "none" => pc = "idle")

Joins == {"joinLifecycle", "joinRecovery", "stopLifecycle", "stopRecovery"}
Services == {"afterStop", "spawning", "tunnelling", "tunnelStopping", "procStopping"}

\* The promise that is awaited at a place.
Hears(pc, on) ==
    /\ pc \notin Joins \cup Services => on = NoPromise
    /\ pc \in {"procStopping", "afterStop"} => on = <<"stopping">>
    /\ pc = "spawning" => on = <<"starting">>
    /\ pc = "tunnelling" => on = <<"tunnel">>
    /\ pc = "tunnelStopping" => \E c \in Cids : on = <<"closed", c>>
    /\ pc \in {"joinRecovery", "stopRecovery"} => \E u \in Threads : on = <<"recovery", u>>
    /\ pc \in {"joinLifecycle", "stopLifecycle"} => \E u \in Threads : on = <<"lifecycle", u>>

Fields == {"op", "pc", "ctx", "on", "bad"}
NewsTypes == news \in [Threads -> {"none", "ok", "fail"}]
ThreadTypes ==
    /\ DOMAIN th = Threads
    /\ \A t \in Threads :
        /\ DOMAIN th[t] = Fields /\ th[t].bad \in BOOLEAN
        /\ Fits(t, th[t].pc, th[t].ctx)
        /\ Hears(th[t].pc, th[t].on)
        /\ th[t].pc \notin Joins \cup Services => news[t] = "none"

\* A call that runs keeps the loop to itself.
OneRuns == \A t, u \in Threads : th[t].pc \notin Waiting /\ th[u].pc \notin Waiting => t = u

Threading == NewsTypes /\ ThreadTypes /\ OneRuns

SupFields(s) ==
    s \in [state : {"STOPPED", "STARTING", "RUNNING", "DEGRADED", "STOPPING", "ERROR"},
           monitoring : BOOLEAN, timer : BOOLEAN,
           lifecycle : Threads \cup {Nobody}, recovery : Threads \cup {Nobody},
           runtimeStarted : BOOLEAN, tunnelStarted : BOOLEAN,
           attempts : Nat, failures : Nat, limit : Limits]
SupTypes == SupFields(sup)

\* A stop of the process goes on as long as a call waits for it.
Stops ==
    /\ pm.stopping => pm.child # NoChild /\ pm.child \in pm.expected /\ ~pm.starting
    /\ pm.starting => pm.child # NoChild
    /\ pm.stopping => \E t \in Threads : th[t].pc = "procStopping" /\ news[t] = "none"
    /\ \A t \in Threads : th[t].pc = "procStopping" /\ news[t] = "none" => pm.stopping

\* A tunnel that is not started has no child, or one that is given up.
Released ==
    /\ ~sup.tunnelStarted => cf.child = NoCloud /\ (cf.starting => cf.cancelled)
    /\ tick = "asked" => sup.timer

Base == ChildrenInv /\ Threading /\ SupTypes /\ Stops /\ Released

-----------------------------------------------------------------------------
(* The order of the calls, unless the user breaks it *)

Ctx(t) == th[t].ctx
Works(t) == Ctx(t) # "none"
NoneWorks == \A t \in Threads : ~Works(t)

Recorded ==
    /\ \A t \in Threads : sup.lifecycle = t <=> Ctx(t) \in Lifecycle
    /\ \A t \in Threads : sup.recovery = t <=> Ctx(t) \in Recovery

\* Only two threads that give up can work at the same time.
OneWorks ==
    /\ \A t, u \in Threads : Works(t) /\ Works(u) => t = u \/ (Ctx(t) = "error" /\ Ctx(u) = "error")
    /\ \A t \in Threads, c \in Callers : Ctx(t) = "error" => At(c, "idle")
    /\ \A t \in Threads : Ctx(t) = "error" => sup.attempts >= sup.limit

\* A stop may be requested while the first start is under way.
Leads(c, d) == Ctx(c) \in Lifecycle /\ th[d].pc \in {"stop", "stopLifecycle"}
OneCalls ==
    \A c, d \in Callers : ~At(c, "idle") /\ ~At(d, "idle") => c = d \/ Leads(c, d) \/ Leads(d, c)
FirstStart ==
    host = "starting" =>
        /\ Ctx("cli") \in Lifecycle \/ At("cli", "begin") \/ (At("cli", "start") /\ sup.state = "STOPPED")
        /\ \A c \in Callers : c # "cli" => At(c, "idle")

\* A call that waited for another one goes on when nothing is under way.
TurnOf(t) ==
    /\ th[t].pc \notin {"joinLifecycle", "afterStop", "return"}
    /\ th[t].pc \in {"joinRecovery", "stopRecovery"} /\ news[t] = "none" =>
        th[t].on = <<"recovery", sup.recovery>> /\ sup.recovery # Nobody
    /\ th[t].pc = "stopLifecycle" /\ news[t] = "none" =>
        th[t].on = <<"lifecycle", sup.lifecycle>> /\ sup.lifecycle # Nobody
    /\ th[t].pc \in Joins /\ news[t] # "none" => NoneWorks
    /\ th[t].pc \in {"startAgain", "begin", "stopGo"} => NoneWorks
    /\ th[t].pc = "stopAgain" => \A u \in Threads : Works(u) => Ctx(u) \in Recovery
    /\ th[t].pc = "start" => sup.state # "DEGRADED"
    /\ th[t].pc = "begin" => ~sup.tunnelStarted
    /\ th[t].pc = "startAgain" \/ (th[t].pc = "joinRecovery" /\ news[t] # "none") =>
        sup.state = "RUNNING" \/ ~sup.tunnelStarted
TakesTurns == \A t \in Threads : TurnOf(t)

\* The state says what is under way.
StateFits(t) ==
    /\ Ctx(t) = "start" =>
        /\ th[t].pc = "end" => sup.state = "RUNNING"
        /\ th[t].pc = "startFailed" =>
            sup.state = "STARTING" \/ (sup.state = "DEGRADED" /\ ~sup.tunnelStarted)
        /\ th[t].pc \notin {"end", "startFailed"} => sup.state = "STARTING"
        /\ th[t].pc \in {"spawn", "spawning", "started", "health"} => ~sup.tunnelStarted
    /\ Ctx(t) = "startCleanup" =>
        /\ th[t].pc = "end" => sup.state = "ERROR"
        /\ th[t].pc # "end" => \/ sup.state = "STARTING"
                               \/ sup.state = "DEGRADED" /\ ~sup.tunnelStarted /\ th[t].pc # "tunnelStopping"
    /\ Ctx(t) = "recover" =>
        /\ th[t].pc \in StopPcs \cup {"spawn"} => sup.state = "DEGRADED"
        /\ th[t].pc = "startFailed" => sup.state \in {"STARTING", "DEGRADED"}
        /\ th[t].pc = "end" => sup.state = "RUNNING" \/ (sup.state = "DEGRADED" /\ ~sup.tunnelStarted)
        /\ th[t].pc \in StartPcs \ {"spawn", "startFailed"} => sup.state = "STARTING"
    /\ Ctx(t) = "recoverCleanup" =>
        /\ th[t].pc = "end" => sup.state \in {"DEGRADED", "ERROR"} /\ ~sup.tunnelStarted
        /\ th[t].pc # "end" => sup.state \in {"STARTING", "DEGRADED"}
    /\ Ctx(t) = "stop" => sup.state = "STOPPING"
    /\ Ctx(t) = "error" => sup.state \in {"DEGRADED", "ERROR"}
StateTells ==
    /\ NoneWorks => sup.state \in {"STOPPED", "RUNNING", "DEGRADED", "ERROR"}
    /\ \A t \in Threads : StateFits(t)

\* What a stop has released by then.
ReleasedBy(t) ==
    /\ th[t].pc \in AfterTunnel => ~sup.timer /\ ~sup.tunnelStarted
    /\ th[t].pc = "stopDone" => pm.child = NoChild \/ (th[t].bad /\ pm.child \in pm.expected)
    /\ th[t].pc = "procStopping" /\ news[t] = "ok" => pm.child = NoChild
    /\ th[t].pc = "procStopping" /\ news[t] = "fail" => pm.child = NoChild \/ pm.child \in pm.expected
Releases == \A t \in Threads : ReleasedBy(t)

Down ==
    sup.state \in {"STOPPED", "ERROR"} =>
        /\ ~sup.tunnelStarted /\ ~sup.timer
        /\ pm.child # NoChild => sup.state = "ERROR" /\ pm.child \in pm.expected

Turns == Recorded /\ OneWorks /\ OneCalls /\ FirstStart /\ TakesTurns
Ordered == Turns /\ StateTells /\ Releases /\ Down
SupervisorInv == Base /\ (~overlapped => Ordered)

-----------------------------------------------------------------------------
(* Threads *)

LEMMA CallersAndTimers ==
    /\ "cli" \in Callers /\ Callers \subseteq Threads /\ "tick" \in Threads /\ "exit" \in Threads
    /\ "tick" \notin Callers /\ "exit" \notin Callers /\ Nobody \notin Threads
    /\ \A t \in Threads : t \in Callers \/ t = "tick" \/ t = "exit"
BY SupervisorAssumption DEF Threads, Nobody

LEMMA WaitingPlaces ==
    /\ DOMAIN After = Joins \cup Services
    /\ Waiting = Joins \cup Services \cup {"idle", "health"}
BY DEF After, Waiting, Joins, Services

LEMMA GoesOn ==
    /\ \A r \in {"ok", "fail"} :
        /\ After["joinRecovery"][r] = "startAgain" /\ After["stopLifecycle"][r] = "stopAgain"
        /\ After["stopRecovery"][r] = "stopGo" /\ After["tunnelStopping"][r] = "stopProc"
        /\ After["procStopping"][r] = "stopDone" /\ After["joinLifecycle"][r] = "return"
    /\ After["spawning"]["ok"] = "started" /\ After["spawning"]["fail"] = "startFailed"
    /\ After["tunnelling"]["ok"] = "serving" /\ After["tunnelling"]["fail"] = "startFailed"
    /\ After["afterStop"]["ok"] = "spawn" /\ After["afterStop"]["fail"] = "startFailed"
BY DEF After

\* Promises of different kinds differ.
LEMMA PromisesDiffer ==
    ASSUME NEW t, NEW u, NEW c
    PROVE  /\ <<"recovery", t>> \notin {NoPromise, <<"starting">>, <<"stopping">>, <<"tunnel">>, <<"closed", c>>, <<"lifecycle", u>>}
           /\ <<"lifecycle", t>> \notin {NoPromise, <<"starting">>, <<"stopping">>, <<"tunnel">>, <<"closed", c>>}
           /\ <<"closed", c>> \notin {NoPromise, <<"starting">>, <<"stopping">>, <<"tunnel">>}
           /\ <<"starting">> \notin {NoPromise, <<"stopping">>, <<"tunnel">>}
           /\ <<"stopping">> \notin {NoPromise, <<"tunnel">>} /\ <<"tunnel">> # NoPromise
           /\ <<"recovery", t>> = <<"recovery", u>> => t = u
           /\ <<"lifecycle", t>> = <<"lifecycle", u>> => t = u
BY DEF NoPromise

\* A step of one thread: what becomes of it, and that the others stay.
Others(t) == \A u \in Threads \ {t} : th'[u] = th[u]
Becomes(t, pc, ctx, on) ==
    /\ DOMAIN th' = Threads /\ DOMAIN th'[t] = Fields /\ th'[t].bad \in BOOLEAN
    /\ th'[t].pc = pc /\ th'[t].ctx = ctx /\ th'[t].on = on

LEMMA GotoBecomes ==
    ASSUME ThreadTypes, NEW t \in Threads, NEW pc, Goto(t, pc)
    PROVE  Others(t) /\ Becomes(t, pc, th[t].ctx, th[t].on) /\ th'[t].bad = th[t].bad
BY DEF Goto, ThreadTypes, Fields, Others, Becomes

LEMMA AwaitBecomes ==
    ASSUME ThreadTypes, NEW t \in Threads, NEW pc, NEW promise, Await(t, pc, promise)
    PROVE  Others(t) /\ Becomes(t, pc, th[t].ctx, promise) /\ th'[t].bad = th[t].bad
BY DEF Await, ThreadTypes, Fields, Others, Becomes

LEMMA WorkBecomes ==
    ASSUME ThreadTypes, NEW t \in Threads, NEW pc, NEW ctx,
           th' = [th EXCEPT ![t].ctx = ctx, ![t].pc = pc]
    PROVE  Others(t) /\ Becomes(t, pc, ctx, th[t].on) /\ th'[t].bad = th[t].bad
BY DEF ThreadTypes, Fields, Others, Becomes

LEMMA LeaveBecomes ==
    ASSUME ThreadTypes, NEW t \in Threads, Leave(t)
    PROVE  Others(t) /\ Becomes(t, "idle", "none", NoPromise)
BY DEF Leave, Idle, ThreadTypes, Fields, Others, Becomes

LEMMA OverBecomes ==
    ASSUME ThreadTypes, NEW t \in Threads, Over(t)
    PROVE  Others(t) /\ (Becomes(t, "idle", "none", NoPromise) \/ Becomes(t, "start", "none", NoPromise))
BY DEF Over, Idle, ThreadTypes, Fields, Others, Becomes

LEMMA ResumeBecomes ==
    ASSUME ThreadTypes, NEW t \in Threads, Resume(t)
    PROVE  /\ Others(t) /\ Becomes(t, After[th[t].pc][news[t]], th[t].ctx, NoPromise)
           /\ th[t].pc = "procStopping" /\ news[t] = "fail" => th'[t].bad
           /\ th[t].bad => th'[t].bad
<1>1. DOMAIN th' = Threads /\ Others(t)
    BY DEF Resume, ThreadTypes, Others
<1>2. /\ DOMAIN th'[t] = Fields /\ th'[t].pc = After[th[t].pc][news[t]]
      /\ th'[t].ctx = th[t].ctx /\ th'[t].on = NoPromise
    BY DEF Resume, ThreadTypes, Fields
<1>3. th'[t].bad = (th[t].bad \/ (th[t].pc = "procStopping" /\ news[t] = "fail"))
    BY DEF Resume, ThreadTypes, Fields
<1>4. th'[t].bad \in BOOLEAN
    BY <1>3 DEF ThreadTypes
<1>. QED
    BY <1>1, <1>2, <1>3, <1>4 DEF Becomes

\* News reach only those who wait for a process or the tunnel.
Told == NewsTypes' /\ \A u \in Threads : news'[u] = news[u] \/ th[u].pc \in Services
Heard == NewsTypes' /\ \A u \in Threads : news'[u] # news[u] => th[u].pc \in Joins \cup Services

LEMMA SettleTells ==
    ASSUME NewsTypes, ThreadTypes, NEW promise, NEW r \in {"ok", "fail"}, Settle(promise, r),
           promise \in {<<"starting">>, <<"stopping">>, <<"tunnel">>} \cup {<<"closed", c>> : c \in Cids}
    PROVE  /\ Told
           /\ \A u \in Threads : news'[u] = IF th[u].on = promise THEN r ELSE news[u]
<1>1. \A u \in Threads : news'[u] = IF th[u].on = promise THEN r ELSE news[u]
    BY DEF Settle
<1>2. NewsTypes'
    BY DEF Settle, NewsTypes
<1>3. ASSUME NEW u \in Threads, th[u].on = promise PROVE th[u].pc \in Services
    <2>1. promise # NoPromise /\ \A v : promise # <<"recovery", v>> /\ promise # <<"lifecycle", v>>
        BY PromisesDiffer
    <2>. QED
        BY <1>3, <2>1 DEF ThreadTypes, Hears, Joins
<1>. QED
    BY <1>1, <1>2, <1>3 DEF Told

LEMMA SameTells == NewsTypes /\ UNCHANGED news => Told
BY DEF NewsTypes, Told

LEMMA ThreadStep ==
    ASSUME Threading, NEW t \in Threads, NEW pc, NEW ctx, NEW on,
           Others(t), Becomes(t, pc, ctx, on), Fits(t, pc, ctx), Hears(pc, on),
           th[t].pc \notin Waiting \/ Paused,
           NewsTypes', \A u \in Threads \ {t} : news'[u] # news[u] => th[u].pc \in Joins \cup Services,
           pc \notin Joins \cup Services => news'[t] = "none"
    PROVE  Threading'
<1>1. ThreadTypes'
    BY DEF Threading, ThreadTypes, Others, Becomes
<1>2. \A u \in Threads \ {t} : th'[u].pc \in Waiting
    BY DEF Threading, OneRuns, Paused, Others
<1>. QED
    BY <1>1, <1>2 DEF Threading, OneRuns

LEMMA ThreadsStay ==
    ASSUME Threading, UNCHANGED th, Heard
    PROVE  Threading'
BY DEF Threading, ThreadTypes, OneRuns, Heard

\* Where a thread is tells what it works on.
LEMMA PlaceTells ==
    ASSUME ThreadTypes, NEW t \in Threads
    PROVE  /\ th[t].pc \in FreePcs <=> ~Works(t)
           /\ Works(t) <=> th[t].pc \in StopPcs \cup StartPcs \cup {"end"}
           /\ th[t].pc \in StopPcs \cup StartPcs \cup {"end"} \cup FreePcs
           /\ t \notin Callers /\ ~Works(t) => th[t].pc = "idle"
BY DEF ThreadTypes, Fits, Works, Ctx, Lifecycle, Recovery, FreePcs, StopPcs, StartPcs

-----------------------------------------------------------------------------
(* Steps of a thread that works on the resources *)

\* The record of the supervisor, but for what such a step may change.
SameRecord ==
    /\ sup'.lifecycle = sup.lifecycle /\ sup'.recovery = sup.recovery
    /\ sup'.limit = sup.limit /\ host' = host

\* What is under way is called the same.
Continues(t, ctx) ==
    /\ ctx \in Lifecycle <=> Ctx(t) \in Lifecycle
    /\ ctx \in Recovery <=> Ctx(t) \in Recovery
    /\ ctx = "stop" <=> Ctx(t) = "stop"
    /\ ctx = "error" <=> Ctx(t) = "error"

LEMMA WorkerTurns ==
    ASSUME Base, Turns, NEW t \in Threads, NEW pc, NEW ctx, NEW on,
           Works(t), th[t].pc \notin Waiting \/ Paused,
           Others(t), Becomes(t, pc, ctx, on), Fits(t, pc, ctx), Continues(t, ctx), pc # "afterStop",
           Told, SameRecord, sup'.attempts = sup.attempts \/ Ctx(t) # "error"
    PROVE  Turns'
<1>0. Threading /\ ThreadTypes /\ SupTypes
    BY DEF Base, Threading
<1>1. /\ Ctx(t)' = ctx /\ At(t, pc)' /\ Works(t)' /\ pc \notin FreePcs
      /\ \A u \in Threads \ {t} : Ctx(u)' = Ctx(u) /\ th'[u] = th[u] /\ (Works(u)' <=> Works(u))
    <2>1. Ctx(t)' = ctx /\ At(t, pc)'
        BY DEF Becomes, Ctx, At
    <2>2. ctx # "none"
        BY <1>0 DEF Continues, Works, Ctx, ThreadTypes, Fits, Lifecycle, Recovery
    <2>3. pc \notin FreePcs
        BY <2>2 DEF Fits, FreePcs, StartPcs, StopPcs, Lifecycle, Recovery
    <2>. QED
        BY <2>1, <2>2, <2>3 DEF Others, Works, Ctx
<1>2. th[t].pc \notin FreePcs /\ ~NoneWorks
    BY <1>0, PlaceTells DEF NoneWorks
<1>3. \A u \in Threads \ {t} : th[u].pc \notin {"start", "startAgain", "begin", "stop", "stopAgain", "stopGo", "return"}
    BY <1>0, WaitingPlaces DEF Threading, OneRuns, Paused, Joins, Services
<1>4. Recorded'
    <2>1. \A u \in Threads : (Ctx(u) \in Lifecycle)' <=> Ctx(u) \in Lifecycle
        BY <1>1 DEF Continues
    <2>2. \A u \in Threads : (Ctx(u) \in Recovery)' <=> Ctx(u) \in Recovery
        BY <1>1 DEF Continues
    <2>. QED
        BY <2>1, <2>2 DEF Turns, Recorded, SameRecord, Lifecycle, Recovery
<1>5. OneWorks'
    <2>1. \A u \in Threads : (Ctx(u)' = "error" <=> Ctx(u) = "error") /\ (Works(u)' => Works(u))
        BY <1>1 DEF Continues
    <2>2. \A c \in Callers : At(c, "idle") => At(c, "idle")'
        BY <1>1, <1>2, CallersAndTimers DEF At, FreePcs
    <2>3. (\E u \in Threads : Ctx(u) = "error") => sup'.attempts = sup.attempts
        BY DEF Turns, OneWorks, Works
    <2>4. \A u, v \in Threads : Works(u)' /\ Works(v)' => u = v \/ (Ctx(u)' = "error" /\ Ctx(v)' = "error")
        BY <2>1 DEF Turns, OneWorks
    <2>5. \A u \in Threads, c \in Callers : Ctx(u)' = "error" => At(c, "idle")'
        BY <2>1, <2>2 DEF Turns, OneWorks
    <2>6. \A u \in Threads : Ctx(u)' = "error" => sup'.attempts >= sup'.limit
        BY <2>1, <2>3 DEF Turns, OneWorks, SameRecord
    <2>. QED
        BY <2>4, <2>5, <2>6 DEF OneWorks
<1>6. OneCalls' /\ FirstStart'
    <2>1. \A c, d \in Callers : ~At(c, "idle")' => ~At(c, "idle")
        BY <1>1, <1>2, CallersAndTimers DEF At, FreePcs
    <2>2. \A c, d \in Callers : Leads(c, d) => Leads(c, d)'
        BY <1>1, <1>2, CallersAndTimers DEF Leads, FreePcs, Continues
    <2>3. OneCalls'
        BY <2>1, <2>2 DEF Turns, OneCalls
    <2>4. \A c \in Callers : At(c, "idle") => At(c, "idle")'
        BY <1>1, <1>2, CallersAndTimers DEF At, FreePcs
    <2>5. host = "starting" => Ctx("cli") \in Lifecycle
        BY <1>2, <1>3, CallersAndTimers DEF Turns, FirstStart, At, FreePcs
    <2>6. Ctx("cli") \in Lifecycle => Ctx("cli")' \in Lifecycle
        BY <1>1, CallersAndTimers DEF Continues
    <2>7. FirstStart'
        BY <2>4, <2>5, <2>6 DEF Turns, FirstStart, SameRecord, Lifecycle
    <2>. QED
        BY <2>3, <2>7
<1>7. ASSUME NEW u \in Threads PROVE TurnOf(u)'
    <2>0. TurnOf(u)
        BY DEF Turns, TakesTurns
    <2>1. CASE u = t
        <3>1. At(u, pc)' /\ pc \notin FreePcs /\ pc # "afterStop"
            BY <1>1, <2>1
        <3>. QED
            BY <3>1 DEF TurnOf, FreePcs, At, Joins
    <2>2. CASE u # t
        <3>1. th'[u] = th[u] /\ (th[u].pc \in Joins => news'[u] = news[u])
            BY <1>1, <2>2 DEF Told, Joins, Services
        <3>2. th[u].pc \in Joins => news[u] = "none"
            BY <1>2, <2>0 DEF TurnOf
        <3>. QED
            BY <1>3, <2>0, <2>2, <3>1, <3>2 DEF TurnOf, SameRecord, Joins
    <2>. QED
        BY <2>1, <2>2
<1>. QED
    BY <1>4, <1>5, <1>6, <1>7 DEF Turns, TakesTurns

\* The others do not work, unless they give up as t does.
LEMMA WorkerFits ==
    ASSUME Base, Turns, StateTells, NEW t \in Threads, Works(t), Works(t)', Others(t), Base',
           Ctx(t)' = "error" <=> Ctx(t) = "error",
           StateFits(t)', ReleasedBy(t)',
           \A u \in Threads \ {t} : Ctx(t) = "error" /\ Ctx(u) = "error" => ReleasedBy(u)'
    PROVE  StateTells' /\ Releases'
<1>1. ~NoneWorks'
    BY DEF NoneWorks
<1>2. ASSUME NEW u \in Threads \ {t} PROVE StateFits(u)' /\ ReleasedBy(u)'
    <2>1. Ctx(u)' = Ctx(u) /\ th'[u] = th[u]
        BY DEF Others, Ctx
    <2>2. CASE Works(u)
        <3>1. Ctx(t) = "error" /\ Ctx(u) = "error"
            BY <2>2 DEF Turns, OneWorks
        <3>2. sup'.state \in {"DEGRADED", "ERROR"}
            BY <3>1 DEF StateFits
        <3>. QED
            BY <2>1, <3>1, <3>2 DEF StateFits
    <2>3. CASE ~Works(u)
        <3>1. th[u].pc \in FreePcs /\ Ctx(u)' = "none"
            BY <2>1, <2>3, PlaceTells DEF Works, Base, Threading
        <3>. QED
            BY <2>1, <3>1 DEF StateFits, ReleasedBy, FreePcs, AfterTunnel, StopPcs
    <2>. QED
        BY <2>2, <2>3
<1>. QED
    BY <1>1, <1>2 DEF StateTells, Releases

\* A step of one thread that waits for nothing of the process, now or then.
LEMMA ThreadOnly ==
    ASSUME Base, NEW t \in Threads, NEW pc, NEW ctx, NEW on,
           Others(t), Becomes(t, pc, ctx, on), Fits(t, pc, ctx), Hears(pc, on),
           th[t].pc \notin Joins \cup Services, th[t].pc \notin Waiting \/ Paused,
           pc # "procStopping", UNCHANGED <<pm, news>>
    PROVE  Threading' /\ Stops'
<1>1. Threading /\ ThreadTypes /\ Told
    BY SameTells DEF Base, Threading
<1>2. news'[t] = "none"
    BY <1>1 DEF ThreadTypes
<1>3. Threading'
    BY <1>1, <1>2, ThreadStep DEF Told
<1>4. th[t].pc # "procStopping" /\ \A u \in Threads \ {t} : th'[u].pc = th[u].pc
    BY DEF Services, Others
<1>5. Stops'
    BY <1>4 DEF Base, Stops, Becomes
<1>. QED
    BY <1>3, <1>5

\* A step of a thread that works and leaves the process and the tunnel alone.
LEMMA LocalWork ==
    ASSUME Base, NEW t \in Threads, NEW pc, NEW ctx, NEW on,
           Works(t), Others(t), Becomes(t, pc, ctx, on), Fits(t, pc, ctx), Hears(pc, on), Continues(t, ctx),
           th[t].pc \notin Joins \cup Services, th[t].pc \notin Waiting \/ Paused,
           pc \notin {"procStopping", "afterStop"}, UNCHANGED <<pm, news>>, ChildrenInv',
           SupTypes', Released', SameRecord, sup'.attempts = sup.attempts \/ Ctx(t) # "error",
           Ordered => /\ StateFits(t)' /\ ReleasedBy(t)' /\ Down'
                      /\ Ctx(t) = "error" => sup'.timer = sup.timer /\ sup'.tunnelStarted = sup.tunnelStarted
    PROVE  Base' /\ (Ordered => Ordered')
<1>1. Threading' /\ Stops' /\ Told
    BY ThreadOnly, SameTells DEF Base, Threading
<1>2. Base'
    BY <1>1 DEF Base
<1>3. ASSUME Ordered PROVE Ordered'
    <2>1. Turns'
        BY <1>1, <1>3, WorkerTurns DEF Ordered
    <2>2. Works(t)' /\ (Ctx(t)' = "error" <=> Ctx(t) = "error")
        BY DEF Continues, Becomes, Ctx, Works, Fits, Lifecycle, Recovery, Base, Threading, ThreadTypes
    <2>3. ASSUME NEW u \in Threads \ {t}, Ctx(t) = "error", Ctx(u) = "error" PROVE ReleasedBy(u)'
        BY <1>3, <2>3 DEF Ordered, Releases, ReleasedBy, Others
    <2>4. StateTells' /\ Releases'
        BY <1>2, <1>3, <2>2, <2>3, WorkerFits DEF Ordered
    <2>. QED
        BY <1>3, <2>1, <2>4 DEF Ordered
<1>. QED
    BY <1>2, <1>3

LEMMA StartedKeeps ==
    ASSUME Base, ChildrenInv', NEW t \in Threads, Started(t) PROVE Base' /\ (Ordered => Ordered')
<1>. USE DEF StartPcs, StopPcs, FreePcs, Joins, Services
<1>1. ThreadTypes /\ th[t].pc = "started"
    BY DEF Started, At, Base, Threading
<1>2. Others(t) /\ Becomes(t, "health", th[t].ctx, NoPromise)
    BY <1>1, GotoBecomes DEF Started, ThreadTypes, Hears
<1>3. Works(t) /\ Ctx(t) \in {"start", "recover"} /\ Fits(t, "health", th[t].ctx)
    BY <1>1 DEF ThreadTypes, Fits, Works, Ctx, Lifecycle, Recovery
<1>4. /\ sup' = [sup EXCEPT !.runtimeStarted = TRUE] /\ UNCHANGED <<pm, news, cf, tick, host>>
      /\ SupTypes
    BY DEF Started, Local, Resources, hostVars, Base
<1>5. /\ SupTypes' /\ sup'.state = sup.state /\ sup'.tunnelStarted = sup.tunnelStarted /\ sup'.timer = sup.timer
      /\ sup'.attempts = sup.attempts /\ SameRecord
    BY <1>4 DEF SupTypes, SupFields, SameRecord
<1>6. Released'
    BY <1>4, <1>5 DEF Base, Released
<1>7. ASSUME Ordered PROVE StateFits(t)' /\ ReleasedBy(t)' /\ Down'
    <2>1. StateFits(t) /\ Down
        BY <1>7 DEF Ordered, StateTells
    <2>2. StateFits(t)'
        BY <1>1, <1>2, <1>3, <1>5, <2>1 DEF StateFits, Becomes, Ctx
    <2>3. ReleasedBy(t)'
        BY <1>2 DEF ReleasedBy, Becomes, AfterTunnel
    <2>4. Down'
        BY <1>4, <1>5, <2>1 DEF Down
    <2>. QED
        BY <2>2, <2>3, <2>4
<1>8. Hears("health", NoPromise) /\ Continues(t, th[t].ctx)
    BY DEF Hears, Continues, Ctx
<1>9. th[t].pc \notin Joins \cup Services /\ th[t].pc \notin Waiting
    BY <1>1, WaitingPlaces
<1>. QED
    BY <1>2, <1>3, <1>4, <1>5, <1>6, <1>7, <1>8, <1>9, LocalWork

\* The probes failed: what may still start is the tunnel of an earlier start.
LEMMA RuntimeUnhealthyKeeps ==
    ASSUME Base, ChildrenInv', NEW t \in Threads, RuntimeUnhealthy(t) PROVE Base' /\ (Ordered => Ordered')
<1>. USE DEF StartPcs, StopPcs, FreePcs, Joins, Services
<1>1. ThreadTypes /\ th[t].pc = "health" /\ Paused
    BY DEF RuntimeUnhealthy, At, Base, Threading, Drained
<1>2. Others(t) /\ Becomes(t, "startFailed", th[t].ctx, NoPromise)
    BY <1>1, GotoBecomes DEF RuntimeUnhealthy, ThreadTypes, Hears
<1>3. Works(t) /\ Ctx(t) \in {"start", "recover"} /\ Fits(t, "startFailed", th[t].ctx)
    BY <1>1 DEF ThreadTypes, Fits, Works, Ctx, Lifecycle, Recovery
<1>4. /\ sup' = [sup EXCEPT !.failures = @ + 1, !.state = "DEGRADED"]
      /\ UNCHANGED <<pm, news, cf, tick, host>> /\ SupTypes
    BY DEF RuntimeUnhealthy, Resources, hostVars, Base
<1>5. /\ SupTypes' /\ sup'.state = "DEGRADED" /\ sup'.tunnelStarted = sup.tunnelStarted /\ sup'.timer = sup.timer
      /\ sup'.attempts = sup.attempts /\ SameRecord
    <2>1. sup.failures + 1 \in Nat
        BY <1>4 DEF SupTypes, SupFields
    <2>. QED
        BY <1>4, <2>1 DEF SupTypes, SupFields, SameRecord
<1>6. Released'
    BY <1>4, <1>5 DEF Base, Released
<1>7. ASSUME Ordered PROVE StateFits(t)' /\ ReleasedBy(t)' /\ Down'
    <2>1. StateFits(t)
        BY <1>7 DEF Ordered, StateTells
    <2>2. StateFits(t)'
        BY <1>1, <1>2, <1>3, <1>5, <2>1 DEF StateFits, Becomes, Ctx
    <2>3. ReleasedBy(t)'
        BY <1>2 DEF ReleasedBy, Becomes, AfterTunnel
    <2>4. Down'
        BY <1>5 DEF Down
    <2>. QED
        BY <2>2, <2>3, <2>4
<1>8. Hears("startFailed", NoPromise) /\ Continues(t, th[t].ctx)
    BY DEF Hears, Continues, Ctx
<1>9. th[t].pc \notin Joins \cup Services
    BY <1>1
<1>. QED
    BY <1>1, <1>2, <1>3, <1>4, <1>5, <1>6, <1>7, <1>8, <1>9, LocalWork

LEMMA ServingKeeps ==
    ASSUME Base, ChildrenInv', NEW t \in Threads, Serving(t) PROVE Base' /\ (Ordered => Ordered')
<1>. USE DEF StartPcs, StopPcs, FreePcs, Joins, Services
<1>1. ThreadTypes /\ th[t].pc = "serving"
    BY DEF Serving, At, Base, Threading
<1>2. Others(t) /\ Becomes(t, "end", th[t].ctx, NoPromise)
    BY <1>1, GotoBecomes DEF Serving, ThreadTypes, Hears
<1>3. Works(t) /\ Ctx(t) \in {"start", "recover"} /\ Fits(t, "end", th[t].ctx)
    BY <1>1 DEF ThreadTypes, Fits, Works, Ctx, Lifecycle, Recovery
<1>4. /\ sup' = [sup EXCEPT !.attempts = 0, !.failures = 0, !.state = "RUNNING",
                            !.timer = sup.timer \/ sup.monitoring]
      /\ UNCHANGED <<pm, news, cf, tick, host>> /\ SupTypes
    BY DEF Serving, Local, Resources, hostVars, Base
<1>5. /\ SupTypes' /\ sup'.state = "RUNNING" /\ sup'.tunnelStarted = sup.tunnelStarted /\ SameRecord
    BY <1>4 DEF SupTypes, SupFields, SameRecord
<1>6. sup.timer => sup'.timer
    BY <1>4 DEF SupTypes, SupFields
<1>7. Released'
    BY <1>4, <1>5, <1>6 DEF Base, Released
<1>8. StateFits(t)' /\ ReleasedBy(t)' /\ Down'
    BY <1>2, <1>3, <1>5 DEF StateFits, ReleasedBy, AfterTunnel, Down, Becomes, Ctx
<1>9. Hears("end", NoPromise) /\ Continues(t, th[t].ctx) /\ Ctx(t) # "error"
    BY <1>3 DEF Hears, Continues, Ctx
<1>10. th[t].pc \notin Joins \cup Services /\ th[t].pc \notin Waiting
    BY <1>1, WaitingPlaces
<1>. QED
    BY <1>2, <1>3, <1>4, <1>5, <1>7, <1>8, <1>9, <1>10, LocalWork

LEMMA StartFailedKeeps ==
    ASSUME Base, ChildrenInv', NEW t \in Threads, StartFailed(t) PROVE Base' /\ (Ordered => Ordered')
<1>. USE DEF StartPcs, StopPcs, FreePcs, Joins, Services
<1>. DEFINE ctx == IF th[t].ctx = "start" THEN "startCleanup" ELSE "recoverCleanup"
<1>1. ThreadTypes /\ th[t].pc = "startFailed"
    BY DEF StartFailed, At, Base, Threading
<1>2. th' = [th EXCEPT ![t].ctx = ctx, ![t].pc = "stopTunnel"]
    BY <1>1 DEF StartFailed, ThreadTypes
<1>3. Others(t) /\ Becomes(t, "stopTunnel", ctx, NoPromise)
    <2>1. th[t].on = NoPromise
        BY <1>1 DEF ThreadTypes, Hears
    <2>. HIDE DEF ctx
    <2>2. Others(t) /\ Becomes(t, "stopTunnel", ctx, th[t].on)
        BY <1>1, <1>2, WorkBecomes
    <2>. QED
        BY <2>1, <2>2
<1>4. Works(t) /\ Ctx(t) \in {"start", "recover"} /\ Fits(t, "stopTunnel", ctx) /\ Continues(t, ctx)
    BY <1>1 DEF ThreadTypes, Fits, Works, Ctx, Lifecycle, Recovery, Continues
<1>5. UNCHANGED <<pm, news, cf, tick, host, sup>>
    BY DEF StartFailed, Local, Resources, hostVars
<1>6. SupTypes' /\ Released' /\ SameRecord /\ sup'.attempts = sup.attempts
    BY <1>5 DEF Base, Released, SupTypes, SupFields, SameRecord
<1>7. ASSUME Ordered PROVE StateFits(t)' /\ ReleasedBy(t)' /\ Down'
    <2>1. StateFits(t) /\ Down
        BY <1>7 DEF Ordered, StateTells
    <2>2. StateFits(t)'
        BY <1>1, <1>3, <1>4, <1>5, <2>1 DEF StateFits, Becomes, Ctx
    <2>3. ReleasedBy(t)' /\ Down'
        BY <1>3, <1>5, <2>1 DEF ReleasedBy, Becomes, AfterTunnel, Down
    <2>. QED
        BY <2>2, <2>3
<1>8. Hears("stopTunnel", NoPromise) /\ th[t].pc \notin Joins \cup Services /\ th[t].pc \notin Waiting
    BY <1>1, WaitingPlaces DEF Hears
<1>9. Ctx(t) # "error"
    BY <1>4
<1>. HIDE DEF ctx
<1>. QED
    BY <1>3, <1>4, <1>5, <1>6, <1>7, <1>8, <1>9, LocalWork

\* Whatever could not be stopped was at least killed.
LEMMA StartCleanedKeeps ==
    ASSUME Base, ChildrenInv', NEW t \in Threads, StartCleaned(t) PROVE Base' /\ (Ordered => Ordered')
<1>. USE DEF StartPcs, StopPcs, FreePcs, Joins, Services
<1>1. ThreadTypes /\ th[t].pc = "stopDone" /\ Ctx(t) \in {"startCleanup", "error"}
    BY DEF StartCleaned, At, Base, Threading, Ctx
<1>2. Others(t) /\ Becomes(t, "end", th[t].ctx, NoPromise)
    BY <1>1, GotoBecomes DEF StartCleaned, ThreadTypes, Hears
<1>3. Works(t) /\ Fits(t, "end", th[t].ctx)
    BY <1>1 DEF ThreadTypes, Fits, Works, Ctx, Lifecycle, Recovery
<1>4. /\ sup' = [sup EXCEPT !.state = "ERROR"]
      /\ UNCHANGED <<pm, news, cf, tick, host>> /\ SupTypes
    BY DEF StartCleaned, Local, Resources, hostVars, Base
<1>5. /\ SupTypes' /\ sup'.state = "ERROR" /\ sup'.tunnelStarted = sup.tunnelStarted /\ sup'.timer = sup.timer
      /\ sup'.attempts = sup.attempts /\ SameRecord
    BY <1>4 DEF SupTypes, SupFields, SameRecord
<1>6. Released'
    BY <1>4, <1>5 DEF Base, Released
<1>7. ASSUME Ordered PROVE StateFits(t)' /\ ReleasedBy(t)' /\ Down'
    <2>1. ReleasedBy(t)
        BY <1>7 DEF Ordered, Releases
    <2>2. StateFits(t)' /\ ReleasedBy(t)'
        BY <1>1, <1>2, <1>5 DEF StateFits, ReleasedBy, AfterTunnel, Becomes, Ctx
    <2>3. Down'
        BY <1>1, <1>4, <1>5, <2>1 DEF ReleasedBy, AfterTunnel, Down
    <2>. QED
        BY <2>2, <2>3
<1>8. Hears("end", NoPromise) /\ Continues(t, th[t].ctx)
    BY DEF Hears, Continues, Ctx
<1>9. th[t].pc \notin Joins \cup Services /\ th[t].pc \notin Waiting
    BY <1>1, WaitingPlaces
<1>. QED
    BY <1>2, <1>3, <1>4, <1>5, <1>6, <1>7, <1>8, <1>9, LocalWork

LEMMA RecoveringKeeps ==
    ASSUME Base, ChildrenInv', NEW t \in Threads, Recovering(t) PROVE Base' /\ (Ordered => Ordered')
<1>. USE DEF StartPcs, StopPcs, FreePcs, Joins, Services
<1>1. ThreadTypes /\ th[t].pc = "stopDone" /\ Ctx(t) = "recover" /\ th[t].on = NoPromise
    BY DEF Recovering, At, Base, Threading, Ctx, ThreadTypes, Hears
<1>2. PICK pc \in {"stopTunnel", "spawn", "end"}, ctx \in Recovery : Others(t) /\ Becomes(t, pc, ctx, NoPromise)
                /\ (pc = "stopTunnel" <=> ctx = "recoverCleanup")
    <2>1. CASE th[t].bad
        <3>1. th' = [th EXCEPT ![t].ctx = "recoverCleanup", ![t].bad = FALSE, ![t].pc = "stopTunnel"]
            BY <2>1 DEF Recovering
        <3>2. Others(t) /\ Becomes(t, "stopTunnel", "recoverCleanup", NoPromise)
            BY <1>1, <3>1 DEF ThreadTypes, Fields, Others, Becomes
        <3>. QED
            BY <3>2 DEF Recovery
    <2>2. CASE ~th[t].bad
        <3>1. PICK pc \in {"spawn", "end"} : Goto(t, pc)
            BY <2>2 DEF Recovering
        <3>2. Others(t) /\ Becomes(t, pc, "recover", NoPromise)
            BY <1>1, <3>1, GotoBecomes DEF Ctx
        <3>. QED
            BY <3>1, <3>2 DEF Recovery
    <2>. QED
        BY <2>1, <2>2
<1>3. Works(t) /\ Fits(t, pc, ctx) /\ Continues(t, ctx) /\ Ctx(t) # "error"
    BY <1>1, <1>2 DEF ThreadTypes, Fits, Works, Ctx, Lifecycle, Recovery, Continues
<1>4. UNCHANGED <<pm, news, cf, tick, host, sup>>
    BY DEF Recovering, Local, Resources, hostVars
<1>5. SupTypes' /\ Released' /\ SameRecord /\ sup'.attempts = sup.attempts
    BY <1>4 DEF Base, Released, SupTypes, SupFields, SameRecord
<1>6. ASSUME Ordered PROVE StateFits(t)' /\ ReleasedBy(t)' /\ Down'
    <2>1. StateFits(t) /\ ReleasedBy(t) /\ Down
        BY <1>6 DEF Ordered, StateTells, Releases
    <2>2. sup.state = "DEGRADED" /\ ~sup.tunnelStarted
        BY <1>1, <2>1 DEF StateFits, ReleasedBy, AfterTunnel
    <2>3. StateFits(t)'
        BY <1>2, <1>4, <2>2 DEF StateFits, Becomes, Ctx, Recovery
    <2>4. ReleasedBy(t)' /\ Down'
        BY <1>2, <1>4, <2>1 DEF ReleasedBy, Becomes, AfterTunnel, Down
    <2>. QED
        BY <2>3, <2>4
<1>7. Hears(pc, NoPromise) /\ th[t].pc \notin Joins \cup Services /\ th[t].pc \notin Waiting /\ pc \notin {"procStopping", "afterStop"}
    BY <1>1, <1>2, WaitingPlaces DEF Hears
<1>. QED
    BY <1>2, <1>3, <1>4, <1>5, <1>6, <1>7, LocalWork

LEMMA RecoveryFailedKeeps ==
    ASSUME Base, ChildrenInv', NEW t \in Threads, RecoveryFailed(t) PROVE Base' /\ (Ordered => Ordered')
<1>. USE DEF StartPcs, StopPcs, FreePcs, Joins, Services
<1>. DEFINE over == sup.attempts >= sup.limit
<1>1. ThreadTypes /\ th[t].pc = "stopDone" /\ Ctx(t) = "recoverCleanup"
    BY DEF RecoveryFailed, At, Base, Threading, Ctx
<1>2. Others(t) /\ Becomes(t, "end", th[t].ctx, NoPromise)
    BY <1>1, GotoBecomes DEF RecoveryFailed, ThreadTypes, Hears
<1>3. Works(t) /\ Fits(t, "end", th[t].ctx)
    BY <1>1 DEF ThreadTypes, Fits, Works, Ctx, Lifecycle, Recovery
<1>4. /\ sup' = [sup EXCEPT !.state = IF over THEN "ERROR" ELSE "DEGRADED", !.timer = ~over /\ WatchedAgain]
      /\ UNCHANGED <<pm, news, cf, host>> /\ SupTypes
      /\ IF over THEN TimerOff ELSE UNCHANGED tick
    BY DEF RecoveryFailed, Local, Resources, hostVars, Base
<1>5. /\ SupTypes' /\ sup'.tunnelStarted = sup.tunnelStarted
      /\ sup'.state = (IF over THEN "ERROR" ELSE "DEGRADED") /\ (over => ~sup'.timer)
      /\ ~over /\ sup.timer => sup'.timer
      /\ sup'.attempts = sup.attempts /\ SameRecord
    BY <1>4 DEF SupTypes, SupFields, SameRecord, WatchedAgain
<1>6. Released'
    BY <1>4, <1>5 DEF Base, Released, TimerOff
<1>7. ASSUME Ordered PROVE StateFits(t)' /\ ReleasedBy(t)' /\ Down'
    <2>1. ReleasedBy(t)
        BY <1>7 DEF Ordered, Releases
    <2>2. StateFits(t)' /\ ReleasedBy(t)'
        BY <1>1, <1>2, <1>5, <2>1 DEF StateFits, ReleasedBy, AfterTunnel, Becomes, Ctx
    <2>3. Down'
        BY <1>1, <1>4, <1>5, <2>1 DEF ReleasedBy, AfterTunnel, Down
    <2>. QED
        BY <2>2, <2>3
<1>8. Hears("end", NoPromise) /\ Continues(t, th[t].ctx) /\ Ctx(t) # "error"
    BY <1>1 DEF Hears, Continues, Ctx
<1>9. th[t].pc \notin Joins \cup Services /\ th[t].pc \notin Waiting
    BY <1>1, WaitingPlaces
<1>. QED
    BY <1>2, <1>3, <1>4, <1>5, <1>6, <1>7, <1>8, <1>9, LocalWork

\* A step of a thread that works and may start or stop the process or the tunnel.
LEMMA ServiceWork ==
    ASSUME Base, NEW t \in Threads, NEW pc, NEW ctx, NEW on,
           Works(t), Others(t), Becomes(t, pc, ctx, on), Fits(t, pc, ctx), Hears(pc, on), Continues(t, ctx),
           th[t].pc \notin Waiting \/ Paused, Told, news'[t] = "none", ChildrenInv', Stops',
           SupTypes', Released', SameRecord, sup'.attempts = sup.attempts,
           Ordered => /\ StateFits(t)' /\ ReleasedBy(t)' /\ Down' /\ pc # "afterStop"
                      /\ \A u \in Threads \ {t} : Ctx(t) = "error" /\ Ctx(u) = "error" => ReleasedBy(u)'
    PROVE  Base' /\ (Ordered => Ordered')
<1>1. Threading'
    <2>1. \A u \in Threads \ {t} : news'[u] # news[u] => th[u].pc \in Joins \cup Services
        BY DEF Told
    <2>. QED
        BY <2>1, ThreadStep DEF Base, Told
<1>2. Base'
    BY <1>1 DEF Base
<1>3. ASSUME Ordered PROVE Ordered'
    <2>1. Turns'
        BY <1>3, WorkerTurns DEF Ordered
    <2>2. Works(t)' /\ (Ctx(t)' = "error" <=> Ctx(t) = "error")
        BY DEF Continues, Becomes, Ctx, Works, Fits, Lifecycle, Recovery, Base, Threading, ThreadTypes
    <2>3. StateTells' /\ Releases'
        BY <1>2, <1>3, <2>2, WorkerFits DEF Ordered
    <2>. QED
        BY <1>3, <2>1, <2>3 DEF Ordered
<1>. QED
    BY <1>2, <1>3

LEMMA SpawnKeeps ==
    ASSUME Base, ChildrenInv', NEW t \in Threads, Spawn(t) PROVE Base' /\ (Ordered => Ordered')
<1>. USE DEF StartPcs, StopPcs, FreePcs, Joins, Services
<1>1. /\ Threading /\ ThreadTypes /\ NewsTypes /\ Stops /\ th[t].pc = "spawn"
      /\ th[t].on = NoPromise /\ news[t] = "none" /\ UNCHANGED news /\ Told
    BY SameTells DEF Spawn, ProcessStart, At, Base, Threading, ThreadTypes, Hears
<1>2. PICK pc, on :
        /\ pc \in {"afterStop", "startFailed", "started", "spawning"}
        /\ Others(t) /\ Becomes(t, pc, th[t].ctx, on) /\ Hears(pc, on)
        /\ pc = "afterStop" => pm.stopping
    <2>1. CASE pm.stopping
        <3>1. Others(t) /\ Becomes(t, "afterStop", th[t].ctx, <<"stopping">>)
            BY <1>1, <2>1, AwaitBecomes DEF Spawn, ProcessStart
        <3>. QED
            BY <2>1, <3>1 DEF Hears
    <2>2. CASE \E pc \in {"startFailed", "started"} : Goto(t, pc)
        <3>1. PICK pc \in {"startFailed", "started"} : Goto(t, pc)
            BY <2>2
        <3>2. Others(t) /\ Becomes(t, pc, th[t].ctx, NoPromise)
            BY <1>1, <3>1, GotoBecomes
        <3>. QED
            BY <3>1, <3>2 DEF Hears
    <2>3. CASE Await(t, "spawning", <<"starting">>)
        <3>1. Others(t) /\ Becomes(t, "spawning", th[t].ctx, <<"starting">>)
            BY <1>1, <2>3, AwaitBecomes
        <3>. QED
            BY <3>1 DEF Hears
    <2>. QED
        BY <2>1, <2>2, <2>3 DEF Spawn, ProcessStart
<1>3. Works(t) /\ Ctx(t) \in {"start", "recover"} /\ Fits(t, pc, th[t].ctx) /\ Continues(t, th[t].ctx)
    BY <1>1, <1>2 DEF ThreadTypes, Fits, Works, Ctx, Lifecycle, Recovery, Continues
<1>4. /\ sup' = [sup EXCEPT !.state = "STARTING"] /\ UNCHANGED <<cf, tick, host>> /\ SupTypes
    BY DEF Spawn, tunnelVars, hostVars, Base
<1>5. /\ SupTypes' /\ sup'.state = "STARTING" /\ sup'.tunnelStarted = sup.tunnelStarted /\ sup'.timer = sup.timer
      /\ sup'.attempts = sup.attempts /\ SameRecord
    BY <1>4 DEF SupTypes, SupFields, SameRecord
<1>6. Released'
    BY <1>4, <1>5 DEF Base, Released
<1>7. Stops'
    <2>1. \A u \in Threads : th'[u].pc = "procStopping" <=> th[u].pc = "procStopping"
        BY <1>1, <1>2 DEF Others, Becomes
    <2>2. CASE UNCHANGED pm
        BY <1>1, <2>1, <2>2 DEF Stops
    <2>3. CASE ~UNCHANGED pm
        <3>1. PICK p \in Pids : pm' = [pm EXCEPT !.child = p, !.starting = TRUE]
            BY <2>3 DEF Spawn, ProcessStart
        <3>2. ~pm.stopping
            BY <2>3 DEF Spawn, ProcessStart
        <3>3. p # NoChild
            BY NobodyIsZero DEF NoChild
        <3>4. pm'.child = p /\ pm'.starting /\ ~pm'.stopping
            BY <3>1, <3>2 DEF Base, ChildrenInv, ProcessTypes
        <3>. QED
            BY <1>1, <2>1, <3>2, <3>3, <3>4 DEF Stops
    <2>. QED
        BY <2>2, <2>3
<1>8. ASSUME Ordered PROVE StateFits(t)' /\ ReleasedBy(t)' /\ Down' /\ pc # "afterStop"
    <2>1. StateFits(t)
        BY <1>8 DEF Ordered, StateTells
    <2>2. ~pm.stopping
        <3>1. SUFFICES ASSUME pm.stopping PROVE FALSE
            OBVIOUS
        <3>2. PICK u \in Threads : th[u].pc = "procStopping"
            BY <1>1, <3>1 DEF Stops
        <3>3. Works(u)
            BY <1>1, <3>2, PlaceTells
        <3>. QED
            BY <1>1, <1>3, <1>8, <3>2, <3>3 DEF Ordered, Turns, OneWorks
    <2>3. pc # "afterStop"
        BY <1>2, <2>2
    <2>4. StateFits(t)'
        BY <1>1, <1>2, <1>3, <1>5, <2>1, <2>3 DEF StateFits, Becomes, Ctx
    <2>5. ReleasedBy(t)' /\ Down'
        BY <1>2, <1>5 DEF ReleasedBy, Becomes, AfterTunnel, Down
    <2>. QED
        BY <2>3, <2>4, <2>5
<1>9. Ctx(t) # "error" /\ th[t].pc \notin Waiting
    BY <1>1, <1>3, WaitingPlaces
<1>. QED
    BY <1>1, <1>2, <1>3, <1>5, <1>6, <1>7, <1>8, <1>9, ServiceWork

LEMMA RuntimeHealthyKeeps ==
    ASSUME Base, ChildrenInv', NEW t \in Threads, RuntimeHealthy(t) PROVE Base' /\ (Ordered => Ordered')
<1>. USE DEF StartPcs, StopPcs, FreePcs, Joins, Services
<1>1. /\ Threading /\ ThreadTypes /\ NewsTypes /\ Stops /\ th[t].pc = "health" /\ Paused
      /\ th[t].on = NoPromise /\ news[t] = "none" /\ UNCHANGED <<news, pm>> /\ Told
    BY SameTells DEF RuntimeHealthy, TunnelStart, At, Base, Threading, ThreadTypes, Hears, Drained, processVars
<1>2. PICK pc, on :
        pc \in {"serving", "tunnelling"} /\ Others(t) /\ Becomes(t, pc, th[t].ctx, on) /\ Hears(pc, on)
    <2>1. CASE Goto(t, "serving")
        <3>1. Others(t) /\ Becomes(t, "serving", th[t].ctx, NoPromise)
            BY <1>1, <2>1, GotoBecomes
        <3>. QED
            BY <3>1 DEF Hears
    <2>2. CASE Await(t, "tunnelling", <<"tunnel">>)
        <3>1. Others(t) /\ Becomes(t, "tunnelling", th[t].ctx, <<"tunnel">>)
            BY <1>1, <2>2, AwaitBecomes
        <3>. QED
            BY <3>1 DEF Hears
    <2>. QED
        BY <2>1, <2>2 DEF RuntimeHealthy, TunnelStart
<1>3. Works(t) /\ Ctx(t) \in {"start", "recover"} /\ Fits(t, pc, th[t].ctx) /\ Continues(t, th[t].ctx)
    BY <1>1, <1>2 DEF ThreadTypes, Fits, Works, Ctx, Lifecycle, Recovery, Continues
<1>4. /\ sup' = [sup EXCEPT !.tunnelStarted = TRUE] /\ UNCHANGED <<tick, host>> /\ SupTypes
    BY DEF RuntimeHealthy, hostVars, Base
<1>5. /\ SupTypes' /\ sup'.state = sup.state /\ sup'.tunnelStarted /\ sup'.timer = sup.timer
      /\ sup'.attempts = sup.attempts /\ SameRecord
    BY <1>4 DEF SupTypes, SupFields, SameRecord
<1>6. Released'
    BY <1>4, <1>5 DEF Base, Released
<1>7. Stops'
    <2>1. \A u \in Threads : th'[u].pc = "procStopping" <=> th[u].pc = "procStopping"
        BY <1>1, <1>2 DEF Others, Becomes
    <2>. QED
        BY <1>1, <2>1 DEF Stops
<1>8. ASSUME Ordered PROVE StateFits(t)' /\ ReleasedBy(t)' /\ Down'
    <2>1. StateFits(t)
        BY <1>8 DEF Ordered, StateTells
    <2>2. sup.state = "STARTING"
        BY <1>1, <1>3, <2>1 DEF StateFits
    <2>3. StateFits(t)'
        BY <1>2, <1>3, <1>5, <2>2 DEF StateFits, Becomes, Ctx
    <2>4. ReleasedBy(t)' /\ Down'
        BY <1>2, <1>5, <2>2 DEF ReleasedBy, Becomes, AfterTunnel, Down
    <2>. QED
        BY <2>3, <2>4
<1>9. Ctx(t) # "error" /\ pc # "afterStop"
    BY <1>2, <1>3
<1>. QED
    BY <1>1, <1>2, <1>3, <1>5, <1>6, <1>7, <1>8, <1>9, ServiceWork

LEMMA StopTunnelKeeps ==
    ASSUME Base, ChildrenInv', NEW t \in Threads, StopTunnel(t) PROVE Base' /\ (Ordered => Ordered')
<1>. USE DEF StartPcs, StopPcs, FreePcs, Joins, Services
<1>1. /\ Threading /\ ThreadTypes /\ NewsTypes /\ Stops /\ th[t].pc = "stopTunnel"
      /\ th[t].on = NoPromise /\ news[t] = "none" /\ UNCHANGED <<pm, host>>
    BY DEF StopTunnel, At, Base, Threading, ThreadTypes, Hears, processVars, hostVars
<1>2. Told /\ news'[t] = "none" /\ \A u \in Threads : th[u].pc = "procStopping" => news'[u] = news[u]
    <2>1. CASE UNCHANGED news
        BY <1>1, <2>1, SameTells
    <2>2. CASE Settle(<<"tunnel">>, "fail")
        BY <1>1, <2>2, SettleTells, PromisesDiffer DEF ThreadTypes, Hears
    <2>. QED
        BY <2>1, <2>2 DEF StopTunnel, TunnelStop
<1>3. PICK pc, on :
        pc \in {"stopProc", "tunnelStopping"} /\ Others(t) /\ Becomes(t, pc, th[t].ctx, on) /\ Hears(pc, on)
        /\ (pc = "tunnelStopping" => sup.tunnelStarted)
    <2>1. CASE Goto(t, "stopProc")
        <3>1. Others(t) /\ Becomes(t, "stopProc", th[t].ctx, NoPromise)
            BY <1>1, <2>1, GotoBecomes
        <3>. QED
            BY <3>1 DEF Hears
    <2>2. CASE sup.tunnelStarted /\ Given \in Cids /\ Await(t, "tunnelStopping", <<"closed", Given>>)
        <3>1. Others(t) /\ Becomes(t, "tunnelStopping", th[t].ctx, <<"closed", Given>>)
            BY <1>1, <2>2, AwaitBecomes
        <3>. QED
            BY <2>2, <3>1 DEF Hears
    <2>3. Given \in Cids \cup {NoCloud}
        BY DEF Given, Base, ChildrenInv, CloudTypes
    <2>. QED
        BY <2>1, <2>2, <2>3 DEF StopTunnel, TunnelStop
<1>4. Works(t) /\ Ctx(t) # "start" /\ Fits(t, pc, th[t].ctx) /\ Continues(t, th[t].ctx)
    BY <1>1, <1>3 DEF ThreadTypes, Fits, Works, Ctx, Lifecycle, Recovery, Continues
<1>5. sup' = [sup EXCEPT !.timer = FALSE, !.tunnelStarted = FALSE] /\ TimerOff /\ SupTypes
    BY DEF StopTunnel, Base
<1>6. /\ SupTypes' /\ sup'.state = sup.state /\ ~sup'.tunnelStarted /\ ~sup'.timer
      /\ sup'.attempts = sup.attempts /\ SameRecord
    BY <1>1, <1>5 DEF SupTypes, SupFields, SameRecord
<1>7. Released'
    <2>1. tick' # "asked"
        BY <1>5 DEF TimerOff, Base, Released
    <2>2. cf'.child = NoCloud /\ (cf'.starting => cf'.cancelled)
        <3>1. CASE sup.tunnelStarted
            BY <3>1 DEF StopTunnel, TunnelStop, Base, ChildrenInv, CloudTypes
        <3>2. CASE ~sup.tunnelStarted
            BY <3>2 DEF StopTunnel, tunnelVars, Base, Released
        <3>. QED
            BY <3>1, <3>2
    <2>. QED
        BY <1>6, <2>1, <2>2 DEF Released
<1>8. Stops'
    <2>1. \A u \in Threads : th'[u].pc = "procStopping" <=> th[u].pc = "procStopping"
        BY <1>1, <1>3 DEF Others, Becomes
    <2>. QED
        BY <1>1, <1>2, <2>1 DEF Stops
<1>9. ASSUME Ordered PROVE StateFits(t)' /\ ReleasedBy(t)' /\ Down'
    <2>1. StateFits(t) /\ Down
        BY <1>9 DEF Ordered, StateTells
    <2>2. StateFits(t)'
        BY <1>1, <1>3, <1>4, <1>6, <2>1 DEF StateFits, Becomes, Ctx
    <2>3. ReleasedBy(t)' /\ Down'
        BY <1>1, <1>3, <1>6, <2>1 DEF ReleasedBy, Becomes, AfterTunnel, Down
    <2>. QED
        BY <2>2, <2>3
<1>10. ASSUME Ordered, NEW u \in Threads \ {t} PROVE ReleasedBy(u)'
    <2>1. ReleasedBy(u) /\ th'[u] = th[u]
        BY <1>3, <1>10 DEF Ordered, Releases, Others
    <2>. QED
        BY <1>1, <1>2, <1>6, <2>1 DEF ReleasedBy
<1>11. pc # "afterStop" /\ th[t].pc \notin Waiting
    BY <1>1, <1>3, WaitingPlaces
<1>. QED
    BY <1>2, <1>3, <1>4, <1>6, <1>7, <1>8, <1>9, <1>10, <1>11, ServiceWork

LEMMA StopProcessKeeps ==
    ASSUME Base, ChildrenInv', NEW t \in Threads, StopProcess(t) PROVE Base' /\ (Ordered => Ordered')
<1>. USE DEF StartPcs, StopPcs, FreePcs, Joins, Services
<1>1. /\ Threading /\ ThreadTypes /\ NewsTypes /\ Stops /\ th[t].pc = "stopProc"
      /\ th[t].on = NoPromise /\ news[t] = "none" /\ UNCHANGED <<cf, tick, host>>
      /\ pm \in [child : Pids \cup {NoChild}, running : BOOLEAN, starting : BOOLEAN,
                 stopping : BOOLEAN, expected : SUBSET (Pids \cup {NoChild})]
    BY DEF StopProcess, At, Base, Threading, ThreadTypes, Hears, tunnelVars, hostVars, ChildrenInv, ProcessTypes
<1>2. Told /\ news'[t] = "none" /\ \A u \in Threads : th[u].pc = "procStopping" => news'[u] = news[u]
    <2>1. CASE UNCHANGED news
        BY <1>1, <2>1, SameTells
    <2>2. CASE Settle(<<"starting">>, "fail")
        BY <1>1, <2>2, SettleTells, PromisesDiffer DEF ThreadTypes, Hears
    <2>. QED
        BY <2>1, <2>2 DEF StopProcess, ProcessStop
<1>3. /\ pm'.child = pm.child /\ pm.expected \subseteq pm'.expected
      /\ UNCHANGED pm \/ (/\ pm'.stopping /\ ~pm'.starting /\ pm.child # NoChild /\ pm.child \in pm'.expected
                          /\ Await(t, "procStopping", <<"stopping">>))
    <2>1. CASE UNCHANGED pm
        BY <2>1
    <2>2. CASE ~UNCHANGED pm
        <3>1. /\ Await(t, "procStopping", <<"stopping">>) /\ pm.child # NoChild
              /\ pm' = [pm EXCEPT !.child = IF pm.starting THEN ChildAfterFail(@, FALSE) ELSE @,
                                  !.starting = FALSE, !.stopping = TRUE, !.expected = @ \cup {pm.child}]
            BY <2>2 DEF StopProcess, ProcessStop
        <3>2. pm'.child = pm.child /\ pm'.stopping /\ ~pm'.starting /\ pm'.expected = pm.expected \cup {pm.child}
            BY <1>1, <3>1 DEF ChildAfterFail
        <3>. QED
            BY <3>1, <3>2
    <2>. QED
        BY <2>1, <2>2
<1>4. PICK pc, on :
        pc \in {"stopDone", "procStopping"} /\ Others(t) /\ Becomes(t, pc, th[t].ctx, on) /\ Hears(pc, on)
        /\ (pc = "stopDone" => pm.child = NoChild /\ UNCHANGED pm) /\ (pc = "procStopping" => pm'.stopping)
    <2>1. CASE Goto(t, "stopDone") /\ pm.child = NoChild /\ UNCHANGED pm
        <3>1. Others(t) /\ Becomes(t, "stopDone", th[t].ctx, NoPromise)
            BY <1>1, <2>1, GotoBecomes
        <3>. QED
            BY <2>1, <3>1 DEF Hears
    <2>2. CASE Await(t, "procStopping", <<"stopping">>) /\ pm'.stopping
        <3>1. Others(t) /\ Becomes(t, "procStopping", th[t].ctx, <<"stopping">>)
            BY <1>1, <2>2, AwaitBecomes
        <3>. QED
            BY <2>2, <3>1 DEF Hears
    <2>. QED
        BY <1>1, <2>1, <2>2 DEF StopProcess, ProcessStop
<1>5. Works(t) /\ Ctx(t) # "start" /\ Fits(t, pc, th[t].ctx) /\ Continues(t, th[t].ctx)
    BY <1>1, <1>4 DEF ThreadTypes, Fits, Works, Ctx, Lifecycle, Recovery, Continues
<1>6. sup' = [sup EXCEPT !.runtimeStarted = FALSE] /\ SupTypes
    BY DEF StopProcess, Base
<1>7. /\ SupTypes' /\ sup'.state = sup.state /\ sup'.tunnelStarted = sup.tunnelStarted /\ sup'.timer = sup.timer
      /\ sup'.attempts = sup.attempts /\ SameRecord
    BY <1>1, <1>6 DEF SupTypes, SupFields, SameRecord
<1>8. Released'
    BY <1>1, <1>7 DEF Base, Released
<1>9. Stops'
    <2>1. \A u \in Threads \ {t} : (th'[u].pc = "procStopping" <=> th[u].pc = "procStopping")
        BY <1>4 DEF Others
    <2>2. th[t].pc # "procStopping" /\ (th'[t].pc = "procStopping" => pm'.stopping)
        BY <1>1, <1>4 DEF Becomes
    <2>3. CASE UNCHANGED pm
        BY <1>1, <1>2, <2>1, <2>2, <2>3 DEF Stops
    <2>4. CASE ~UNCHANGED pm
        <3>1. th'[t].pc = "procStopping" /\ news'[t] = "none"
            BY <1>2, <1>4, <2>4 DEF Becomes
        <3>. QED
            BY <1>3, <2>4, <3>1 DEF Stops
    <2>. QED
        BY <2>3, <2>4
<1>10. ASSUME Ordered PROVE StateFits(t)' /\ ReleasedBy(t)' /\ Down'
    <2>1. StateFits(t) /\ ReleasedBy(t) /\ Down
        BY <1>10 DEF Ordered, StateTells, Releases
    <2>2. StateFits(t)'
        BY <1>1, <1>4, <1>5, <1>7, <2>1 DEF StateFits, Becomes, Ctx
    <2>3. ReleasedBy(t)' /\ Down'
        BY <1>1, <1>2, <1>3, <1>4, <1>7, <2>1 DEF ReleasedBy, Becomes, AfterTunnel, Down
    <2>. QED
        BY <2>2, <2>3
<1>11. ASSUME Ordered, NEW u \in Threads \ {t} PROVE ReleasedBy(u)'
    <2>1. ReleasedBy(u) /\ th'[u] = th[u]
        BY <1>4, <1>11 DEF Ordered, Releases, Others
    <2>. QED
        BY <1>2, <1>3, <1>7, <2>1 DEF ReleasedBy
<1>12. pc # "afterStop" /\ th[t].pc \notin Waiting
    BY <1>1, <1>4, WaitingPlaces
<1>. QED
    BY <1>2, <1>4, <1>5, <1>7, <1>8, <1>9, <1>10, <1>11, <1>12, ServiceWork

\* A thread that works hears of the process or the tunnel.
LEMMA WorkerResumes ==
    ASSUME Base, ChildrenInv', NEW t \in Threads, Resumes(t), Works(t) PROVE Base' /\ (Ordered => Ordered')
<1>. USE DEF StartPcs, StopPcs, FreePcs, Joins, Services
<1>1. /\ Threading /\ ThreadTypes /\ NewsTypes /\ Stops /\ Paused
      /\ news[t] \in {"ok", "fail"} /\ news' = [news EXCEPT ![t] = "none"]
      /\ th[t].pc \in Services /\ UNCHANGED <<pm, cf, sup, tick, host>>
    <2>1. Threading /\ ThreadTypes /\ NewsTypes /\ Stops
        BY DEF Base, Threading
    <2>2. th[t].pc \notin Joins
        BY <2>1, PlaceTells
    <2>. QED
        BY <2>1, <2>2 DEF Resumes, Resume, ThreadTypes, NewsTypes, processVars, tunnelVars, hostVars
<1>2. Told /\ news'[t] = "none" /\ \A u \in Threads \ {t} : news'[u] = news[u]
    BY <1>1 DEF NewsTypes, Told
<1>. DEFINE pc == After[th[t].pc][news[t]]
<1>3. /\ th[t].pc = "afterStop" => pc \in {"spawn", "startFailed"}
      /\ th[t].pc = "spawning" => pc \in {"started", "startFailed"}
      /\ th[t].pc = "tunnelling" => pc \in {"serving", "startFailed"}
      /\ th[t].pc = "tunnelStopping" => pc = "stopProc"
      /\ th[t].pc = "procStopping" => pc = "stopDone"
    BY <1>1, GoesOn
<1>. HIDE DEF pc
<1>4. /\ Others(t) /\ Becomes(t, pc, th[t].ctx, NoPromise)
      /\ th[t].pc = "procStopping" /\ news[t] = "fail" => th'[t].bad
    BY <1>1, ResumeBecomes DEF pc, Resumes
<1>5. /\ pc \in {"spawn", "startFailed", "started", "serving", "stopProc", "stopDone"}
      /\ pc \in {"stopProc", "stopDone"} <=> th[t].pc \in {"tunnelStopping", "procStopping"}
      /\ Hears(pc, NoPromise)
    BY <1>1, <1>3 DEF Hears
<1>6. Fits(t, pc, th[t].ctx) /\ Continues(t, th[t].ctx)
    BY <1>1, <1>5 DEF ThreadTypes, Fits, Works, Ctx, Lifecycle, Recovery, Continues
<1>7. SupTypes' /\ Released' /\ SameRecord /\ sup'.attempts = sup.attempts
    BY <1>1 DEF Base, Released, SupTypes, SupFields, SameRecord
<1>8. Stops'
    <2>1. \A u \in Threads : th'[u].pc = "procStopping" /\ news'[u] = "none" <=> th[u].pc = "procStopping" /\ news[u] = "none"
        BY <1>1, <1>2, <1>4, <1>5 DEF Others, Becomes
    <2>. QED
        BY <1>1, <2>1 DEF Stops
<1>9. ASSUME Ordered PROVE StateFits(t)' /\ ReleasedBy(t)' /\ Down'
    <2>1. StateFits(t) /\ ReleasedBy(t) /\ Down /\ th[t].pc # "afterStop"
        BY <1>9 DEF Ordered, StateTells, Releases, Turns, TakesTurns, TurnOf
    <2>2. StateFits(t)'
        <3>1. Ctx(t)' = Ctx(t) /\ th'[t].pc = pc /\ sup' = sup
            BY <1>1, <1>4 DEF Becomes, Ctx
        <3>2. pc # "spawn"
            BY <1>1, <1>3, <1>5, <2>1
        <3>. QED
            BY <1>1, <1>3, <1>5, <1>6, <2>1, <3>1, <3>2 DEF StateFits, Fits, Ctx
    <2>3. ReleasedBy(t)' /\ Down'
        BY <1>1, <1>3, <1>4, <1>5, <2>1 DEF ReleasedBy, Becomes, AfterTunnel, Down
    <2>. QED
        BY <2>2, <2>3
<1>10. ASSUME Ordered, NEW u \in Threads \ {t} PROVE ReleasedBy(u)'
    <2>1. ReleasedBy(u) /\ th'[u] = th[u]
        BY <1>4, <1>10 DEF Ordered, Releases, Others
    <2>. QED
        BY <1>1, <1>2, <2>1 DEF ReleasedBy
<1>11. pc # "afterStop"
    BY <1>5
<1>. QED
    BY <1>1, <1>2, <1>4, <1>5, <1>6, <1>7, <1>8, <1>9, <1>10, <1>11, ServiceWork

-----------------------------------------------------------------------------
(* Steps of a call that has not begun to work *)

LEMMA FreeCaller ==
    ASSUME ThreadTypes, NEW t \in Threads, th[t].pc \in FreePcs, th[t].pc # "idle"
    PROVE  t \in Callers /\ ~Works(t) /\ th[t].ctx = "none"
BY PlaceTells DEF Works, Ctx

LEMMA CallerTurns ==
    ASSUME Base, Ordered, NEW t \in Callers, NEW pc, NEW on,
           ~Works(t), ~At(t, "idle"), ~At(t, "begin"),
           Others(t), Becomes(t, pc, "none", on), pc \in FreePcs,
           SameRecord, sup'.state = sup.state, sup'.tunnelStarted = sup.tunnelStarted,
           sup'.attempts = sup.attempts, sup'.timer => sup.timer, UNCHANGED pm,
           \A u \in Threads \ {t} : news'[u] = news[u],
           pc \in {"idle", "stopLifecycle"} \/ th[t].pc \notin {"stop", "stopLifecycle"} \/ sup.lifecycle = Nobody,
           At(t, "start") /\ sup.state = "STOPPED" => pc = "begin",
           TurnOf(t)'
    PROVE  Ordered'
<1>0. Threading /\ ThreadTypes /\ t \in Threads
    BY CallersAndTimers DEF Base, Threading
<1>1. /\ \A u \in Threads : Ctx(u)' = Ctx(u) /\ (Works(u)' <=> Works(u))
      /\ \A u \in Threads \ {t} : th'[u] = th[u]
      /\ th'[t].pc = pc
    BY <1>0 DEF Others, Becomes, Ctx, Works
<1>2. (NoneWorks)' <=> NoneWorks
    BY <1>1 DEF NoneWorks
<1>3. Recorded'
    BY <1>1 DEF Ordered, Turns, Recorded, SameRecord, Lifecycle, Recovery
<1>4. OneWorks'
    <2>1. \A u \in Threads : Ctx(u) # "error"
        BY DEF Ordered, Turns, OneWorks
    <2>. QED
        BY <1>1, <2>1 DEF Ordered, Turns, OneWorks
<1>5. OneCalls'
    <2>1. ASSUME NEW d \in Callers, d # t, ~At(d, "idle") PROVE Leads(d, t) /\ sup.lifecycle # Nobody
        <3>1. Leads(d, t)
            BY <2>1 DEF Ordered, Turns, OneCalls, Leads, Works, Lifecycle
        <3>2. sup.lifecycle = d
            BY <3>1, CallersAndTimers DEF Leads, Ordered, Turns, Recorded
        <3>. QED
            BY <3>1, <3>2, CallersAndTimers
    <2>2. ASSUME NEW d \in Callers, d # t, ~At(d, "idle"), pc # "idle" PROVE Leads(d, t)'
        <3>1. Leads(d, t) /\ pc = "stopLifecycle"
            BY <2>1, <2>2 DEF Leads
        <3>. QED
            BY <1>1, <3>1, CallersAndTimers DEF Leads
    <2>3. ASSUME NEW c \in Callers, NEW d \in Callers, ~At(c, "idle")', ~At(d, "idle")', c # d, c # t, d # t
          PROVE  Leads(c, d)' \/ Leads(d, c)'
        <3>1. ~At(c, "idle") /\ ~At(d, "idle") /\ th'[c].pc = th[c].pc /\ th'[d].pc = th[d].pc
            BY <1>1, <2>3, CallersAndTimers DEF At
        <3>2. Leads(c, d) \/ Leads(d, c)
            BY <2>3, <3>1 DEF Ordered, Turns, OneCalls
        <3>. QED
            BY <1>1, <3>1, <3>2, CallersAndTimers DEF Leads
    <2>4. \A d \in Callers : d # t => (At(d, "idle")' <=> At(d, "idle"))
        BY <1>1, CallersAndTimers DEF At
    <2>5. At(t, pc)'
        BY <1>1 DEF At
    <2>. QED
        BY <2>2, <2>3, <2>4, <2>5 DEF OneCalls, At
<1>6. FirstStart'
    <2>1. SUFFICES ASSUME host = "starting" PROVE FirstStart'
        BY DEF FirstStart, SameRecord
    <2>2. t = "cli" /\ pc = "begin"
        <3>1. t = "cli"
            BY <2>1 DEF Ordered, Turns, FirstStart
        <3>2. Ctx("cli") \notin Lifecycle
            BY <3>1 DEF Works, Lifecycle
        <3>. QED
            BY <2>1, <3>1, <3>2 DEF Ordered, Turns, FirstStart
    <2>3. \A c \in Callers : c # "cli" => At(c, "idle")'
        BY <1>1, <2>1, <2>2, CallersAndTimers DEF Ordered, Turns, FirstStart, At
    <2>. QED
        BY <1>1, <2>2, <2>3 DEF FirstStart, At
<1>7. TakesTurns'
    <2>1. ASSUME NEW u \in Threads, u # t PROVE TurnOf(u)'
        <3>1. TurnOf(u) /\ th'[u] = th[u] /\ news'[u] = news[u]
            BY <1>1, <2>1 DEF Ordered, Turns, TakesTurns
        <3>2. (\A v \in Threads : Works(v) => Ctx(v) \in Recovery) => \A v \in Threads : Works(v)' => Ctx(v)' \in Recovery
            BY <1>1
        <3>. QED
            BY <1>2, <3>1, <3>2 DEF TurnOf, SameRecord, Recovery
    <2>. QED
        BY <2>1 DEF TakesTurns
<1>8. StateTells'
    <2>1. ASSUME NEW u \in Threads PROVE StateFits(u)'
        <3>1. StateFits(u)
            BY DEF Ordered, StateTells
        <3>2. Works(u) => th'[u] = th[u]
            BY <1>1
        <3>. QED
            BY <1>1, <3>1, <3>2 DEF StateFits, Works
    <2>. QED
        BY <1>2, <2>1 DEF Ordered, StateTells
<1>9. Releases'
    <2>1. ASSUME NEW u \in Threads, u # t PROVE ReleasedBy(u)'
        BY <1>1, <2>1 DEF Ordered, Releases, ReleasedBy
    <2>2. ReleasedBy(t)'
        BY <1>1 DEF ReleasedBy, FreePcs, AfterTunnel, StopPcs
    <2>. QED
        BY <2>1, <2>2 DEF Releases
<1>10. Down'
    BY DEF Ordered, Down
<1>. QED
    BY <1>3, <1>4, <1>5, <1>6, <1>7, <1>8, <1>9, <1>10 DEF Ordered, Turns

\* A call that finds another one under way waits for it, or begins alone.
LEMMA StartKeeps ==
    ASSUME Base, ChildrenInv', NEW t \in Threads, Start(t) PROVE Base' /\ (Ordered => Ordered')
<1>. USE DEF StartPcs, StopPcs, FreePcs, Joins, Services
<1>1. /\ Threading /\ ThreadTypes /\ th[t].pc = "start" /\ th[t].on = NoPromise /\ news[t] = "none"
      /\ UNCHANGED <<pm, news, cf, tick, host, sup>> /\ SupTypes
    BY DEF Start, At, Base, Threading, ThreadTypes, Hears, Local, Resources, hostVars
<1>2. t \in Callers /\ ~Works(t) /\ th[t].ctx = "none" /\ th[t].pc \notin Waiting
    BY <1>1, FreeCaller, WaitingPlaces
<1>3. PICK pc, on :
        /\ Others(t) /\ Becomes(t, pc, "none", on)
        /\ \/ pc = "idle" /\ on = NoPromise /\ sup.state \in {"RUNNING", "STOPPING"}
           \/ pc = "joinLifecycle" /\ on = <<"lifecycle", sup.lifecycle>> /\ sup.lifecycle # Nobody
           \/ pc = "joinRecovery" /\ on = <<"recovery", sup.recovery>> /\ sup.recovery # Nobody
           \/ pc = "begin" /\ on = NoPromise /\ sup.lifecycle = Nobody /\ sup.recovery = Nobody
              /\ sup.state \notin {"RUNNING", "STOPPING"}
    <2>1. CASE Leave(t) /\ sup.state \in {"RUNNING", "STOPPING"}
        BY <1>1, <2>1, LeaveBecomes
    <2>2. CASE Await(t, "joinLifecycle", <<"lifecycle", sup.lifecycle>>) /\ sup.lifecycle # Nobody
        BY <1>1, <1>2, <2>2, AwaitBecomes
    <2>3. CASE Await(t, "joinRecovery", <<"recovery", sup.recovery>>) /\ sup.recovery # Nobody
        BY <1>1, <1>2, <2>3, AwaitBecomes
    <2>4. CASE Goto(t, "begin") /\ sup.lifecycle = Nobody /\ sup.recovery = Nobody /\ sup.state \notin {"RUNNING", "STOPPING"}
        BY <1>1, <1>2, <2>4, GotoBecomes
    <2>. QED
        BY <2>1, <2>2, <2>3, <2>4 DEF Start
<1>4. Hears(pc, on) /\ Fits(t, pc, "none") /\ pc # "procStopping" /\ pc \in FreePcs
    BY <1>1, <1>2, <1>3 DEF Hears, Fits, Lifecycle, Recovery, SupTypes, SupFields
<1>5. Threading' /\ Stops'
    BY <1>1, <1>2, <1>3, <1>4, ThreadOnly
<1>6. Base' /\ SameRecord
    BY <1>1, <1>5 DEF Base, SupTypes, SupFields, Released, SameRecord
<1>7. ASSUME Ordered PROVE Ordered'
    <2>1. TurnOf(t)
        BY <1>7 DEF Ordered, Turns, TakesTurns
    <2>2. sup.lifecycle = Nobody
        <3>1. SUFFICES ASSUME sup.lifecycle # Nobody PROVE FALSE
            OBVIOUS
        <3>2. PICK u \in Threads : sup.lifecycle = u
            BY <1>1, <3>1 DEF SupTypes, SupFields
        <3>3. Ctx(u) \in Lifecycle
            BY <1>7, <3>2 DEF Ordered, Turns, Recorded
        <3>4. u \in Callers /\ ~At(u, "idle") /\ u # t
            BY <1>1, <1>2, <3>3 DEF ThreadTypes, Fits, Ctx, At, Lifecycle
        <3>. QED
            BY <1>1, <1>2, <1>7, <3>3, <3>4 DEF Ordered, Turns, OneCalls, Leads, At, Works, Lifecycle
    <2>3. ASSUME sup.recovery = Nobody, sup.state \notin {"RUNNING", "STOPPING"} PROVE NoneWorks /\ ~sup.tunnelStarted
        <3>1. ASSUME NEW u \in Threads, Works(u) PROVE FALSE
            <4>1. Ctx(u) \notin Lifecycle \cup Recovery
                BY <1>7, <2>2, <2>3, CallersAndTimers DEF Ordered, Turns, Recorded
            <4>2. Ctx(u) # "error"
                BY <1>1, <1>2, <1>7 DEF Ordered, Turns, OneWorks, At
            <4>3. Ctx(u) # "stop"
                BY <1>7, <2>3 DEF Ordered, StateTells, StateFits
            <4>. QED
                BY <1>1, <3>1, <4>1, <4>2, <4>3 DEF ThreadTypes, Fits, Works, Ctx
        <3>2. NoneWorks
            BY <3>1 DEF NoneWorks
        <3>3. sup.state \in {"STOPPED", "ERROR"}
            BY <1>1, <1>7, <2>1, <2>3, <3>2 DEF Ordered, StateTells, TurnOf
        <3>. QED
            BY <1>7, <3>2, <3>3 DEF Ordered, Down
    <2>4. pc # "joinLifecycle"
        BY <1>3, <2>2
    <2>5. TurnOf(t)'
        <3>1. pc = "begin" => NoneWorks' /\ ~sup'.tunnelStarted
            BY <1>1, <1>2, <1>3, <2>3 DEF NoneWorks, Works, Ctx, Becomes, Others
        <3>. QED
            BY <1>1, <1>3, <2>4, <3>1 DEF TurnOf, Becomes
    <2>6. sup.state = "STOPPED" => pc = "begin"
        <3>1. SUFFICES ASSUME sup.state = "STOPPED", pc = "joinRecovery" PROVE FALSE
            BY <1>3, <2>4
        <3>2. PICK u \in Threads : sup.recovery = u
            BY <1>1, <1>3, <3>1 DEF SupTypes, SupFields
        <3>3. Ctx(u) \in Recovery /\ StateFits(u)
            BY <1>7, <3>2 DEF Ordered, Turns, Recorded, StateTells
        <3>4. th[u].pc \in StopPcs \cup StartPcs \cup {"end"}
            BY <1>1, <3>3 DEF ThreadTypes, Fits, Ctx, Recovery
        <3>. QED
            BY <3>1, <3>3, <3>4 DEF StateFits, Recovery
    <2>7. ~At(t, "idle") /\ ~At(t, "begin")
        BY <1>1 DEF At
    <2>. QED
        BY <1>1, <1>2, <1>3, <1>4, <1>6, <1>7, <2>2, <2>5, <2>6, <2>7, CallerTurns
<1>. QED
    BY <1>6, <1>7

LEMMA StartAgainKeeps ==
    ASSUME Base, ChildrenInv', NEW t \in Threads, StartAgain(t) \/ Return(t) PROVE Base' /\ (Ordered => Ordered')
<1>. USE DEF StartPcs, StopPcs, FreePcs, Joins, Services
<1>1. /\ Threading /\ ThreadTypes /\ th[t].pc \in {"startAgain", "return"} /\ th[t].on = NoPromise /\ news[t] = "none"
      /\ UNCHANGED <<pm, news, cf, tick, host, sup>> /\ SupTypes
    BY DEF StartAgain, Return, At, Base, Threading, ThreadTypes, Hears, Local, Resources, hostVars
<1>2. t \in Callers /\ ~Works(t) /\ th[t].ctx = "none" /\ th[t].pc \notin Waiting
    BY <1>1, FreeCaller, WaitingPlaces
<1>3. PICK pc \in {"idle", "begin"} :
        /\ Others(t) /\ Becomes(t, pc, "none", NoPromise)
        /\ pc = "begin" => sup.state # "RUNNING" /\ th[t].pc = "startAgain"
    <2>1. CASE Leave(t)
        BY <1>1, <2>1, LeaveBecomes
    <2>2. CASE Goto(t, "begin") /\ sup.state # "RUNNING" /\ th[t].pc = "startAgain"
        BY <1>1, <1>2, <2>2, GotoBecomes
    <2>. QED
        BY <2>1, <2>2 DEF StartAgain, Return, At
<1>4. Hears(pc, NoPromise) /\ Fits(t, pc, "none") /\ pc # "procStopping" /\ pc \in FreePcs
    BY <1>2, <1>3 DEF Hears, Fits, Lifecycle, Recovery
<1>5. Threading' /\ Stops'
    BY <1>1, <1>2, <1>3, <1>4, ThreadOnly
<1>6. Base' /\ SameRecord
    BY <1>1, <1>5 DEF Base, SupTypes, SupFields, Released, SameRecord
<1>7. ASSUME Ordered PROVE Ordered'
    <2>1. TurnOf(t)
        BY <1>7 DEF Ordered, Turns, TakesTurns
    <2>2. TurnOf(t)'
        <3>1. pc = "begin" => NoneWorks' /\ ~sup'.tunnelStarted
            BY <1>1, <1>2, <1>3, <2>1 DEF TurnOf, NoneWorks, Works, Ctx, Becomes, Others
        <3>. QED
            BY <1>1, <1>3, <3>1 DEF TurnOf, Becomes
    <2>3. ~At(t, "idle") /\ ~At(t, "begin") /\ ~At(t, "start")
        BY <1>1 DEF At
    <2>. QED
        BY <1>1, <1>2, <1>3, <1>4, <1>6, <1>7, <2>2, <2>3, CallerTurns
<1>. QED
    BY <1>6, <1>7

LEMMA StopKeeps ==
    ASSUME Base, ChildrenInv', NEW t \in Threads, Stop(t) PROVE Base' /\ (Ordered => Ordered')
<1>. USE DEF StartPcs, StopPcs, FreePcs, Joins, Services
<1>1. /\ Threading /\ ThreadTypes /\ th[t].pc = "stop" /\ th[t].on = NoPromise /\ news[t] = "none"
      /\ UNCHANGED <<pm, news, cf, host>> /\ SupTypes
      /\ sup' = [sup EXCEPT !.monitoring = FALSE, !.timer = FALSE] /\ TimerOff
    BY DEF Stop, At, Base, Threading, ThreadTypes, Hears, Local, Resources, hostVars
<1>2. t \in Callers /\ ~Works(t) /\ th[t].ctx = "none" /\ th[t].pc \notin Waiting
    BY <1>1, FreeCaller, WaitingPlaces
<1>3. PICK pc, on :
        /\ Others(t) /\ Becomes(t, pc, "none", on)
        /\ \/ pc \in {"idle", "start"} /\ on = NoPromise /\ sup.state = "STOPPED"
           \/ pc = "stopLifecycle" /\ on = <<"lifecycle", sup.lifecycle>> /\ sup.lifecycle # Nobody
           \/ pc = "stopAgain" /\ on = NoPromise /\ sup.lifecycle = Nobody
    <2>1. CASE Over(t) /\ sup.state = "STOPPED"
        BY <1>1, <2>1, OverBecomes
    <2>2. CASE Await(t, "stopLifecycle", <<"lifecycle", sup.lifecycle>>) /\ sup.lifecycle # Nobody
        BY <1>1, <1>2, <2>2, AwaitBecomes
    <2>3. CASE Goto(t, "stopAgain") /\ sup.lifecycle = Nobody
        BY <1>1, <1>2, <2>3, GotoBecomes
    <2>. QED
        BY <2>1, <2>2, <2>3 DEF Stop
<1>4. Hears(pc, on) /\ Fits(t, pc, "none") /\ pc # "procStopping" /\ pc \in FreePcs
    BY <1>1, <1>2, <1>3 DEF Hears, Fits, Lifecycle, Recovery, SupTypes, SupFields
<1>5. Threading' /\ Stops'
    BY <1>1, <1>2, <1>3, <1>4, ThreadOnly
<1>6. /\ SupTypes' /\ SameRecord /\ sup'.state = sup.state /\ sup'.tunnelStarted = sup.tunnelStarted
      /\ sup'.attempts = sup.attempts /\ ~sup'.timer
    BY <1>1 DEF SupTypes, SupFields, SameRecord
<1>7. Released'
    BY <1>1, <1>6 DEF Base, Released, TimerOff
<1>8. Base'
    BY <1>5, <1>6, <1>7 DEF Base
<1>9. ASSUME Ordered PROVE Ordered'
    <2>1. sup.state = "STOPPED" => sup.lifecycle = Nobody
        <3>1. SUFFICES ASSUME sup.state = "STOPPED", sup.lifecycle # Nobody PROVE FALSE
            OBVIOUS
        <3>2. PICK u \in Threads : sup.lifecycle = u
            BY <1>1, <3>1 DEF SupTypes, SupFields
        <3>3. Ctx(u) \in Lifecycle /\ StateFits(u)
            BY <1>9, <3>2 DEF Ordered, Turns, Recorded, StateTells
        <3>. QED
            BY <3>1, <3>3 DEF StateFits, Lifecycle
    <2>2. ASSUME sup.lifecycle = Nobody, NEW u \in Threads, Works(u) PROVE Ctx(u) \in Recovery
        <3>1. Ctx(u) \notin Lifecycle
            BY <1>9, <2>2, CallersAndTimers DEF Ordered, Turns, Recorded
        <3>2. Ctx(u) # "error"
            BY <1>1, <1>2, <1>9 DEF Ordered, Turns, OneWorks, At
        <3>3. Ctx(u) # "stop"
            <4>1. SUFFICES ASSUME Ctx(u) = "stop" PROVE FALSE
                OBVIOUS
            <4>2. u \in Callers /\ ~At(u, "idle") /\ u # t
                BY <1>1, <1>2, <4>1 DEF ThreadTypes, Fits, Ctx, At, Lifecycle, Recovery
            <4>. QED
                BY <1>1, <1>2, <1>9, <4>1, <4>2 DEF Ordered, Turns, OneCalls, Leads, At, Ctx, Lifecycle
        <3>. QED
            BY <1>1, <2>2, <3>1, <3>2, <3>3 DEF ThreadTypes, Fits, Works, Ctx
    <2>3. TurnOf(t)'
        <3>1. pc = "stopAgain" => \A u \in Threads : Works(u)' => Ctx(u)' \in Recovery
            BY <1>2, <1>3, <2>2 DEF Works, Ctx, Becomes, Others
        <3>2. Recovery' = Recovery
            BY DEF Recovery
        <3>. QED
            BY <1>1, <1>3, <1>6, <3>1, <3>2 DEF TurnOf, Becomes, SameRecord
    <2>4. ~At(t, "idle") /\ ~At(t, "begin") /\ ~At(t, "start")
        BY <1>1 DEF At
    <2>5. pc \in {"idle", "stopLifecycle"} \/ sup.lifecycle = Nobody
        BY <1>3, <2>1
    <2>. QED
        BY <1>1, <1>2, <1>3, <1>4, <1>6, <1>8, <1>9, <2>3, <2>4, <2>5, CallerTurns
<1>. QED
    BY <1>8, <1>9

\* A stop waits for the recovery under way, so that it works alone.
LEMMA StopAgainKeeps ==
    ASSUME Base, ChildrenInv', NEW t \in Threads, StopAgain(t) PROVE Base' /\ (Ordered => Ordered')
<1>. USE DEF StartPcs, StopPcs, FreePcs, Joins, Services
<1>1. /\ Threading /\ ThreadTypes /\ th[t].pc = "stopAgain" /\ th[t].on = NoPromise /\ news[t] = "none"
      /\ UNCHANGED <<pm, news, cf, tick, host, sup>> /\ SupTypes
    BY DEF StopAgain, At, Base, Threading, ThreadTypes, Hears, Local, Resources, hostVars
<1>2. t \in Callers /\ ~Works(t) /\ th[t].ctx = "none" /\ th[t].pc \notin Waiting
    BY <1>1, FreeCaller, WaitingPlaces
<1>3. PICK pc, on :
        /\ Others(t) /\ Becomes(t, pc, "none", on)
        /\ \/ pc = "stopRecovery" /\ on = <<"recovery", sup.recovery>> /\ sup.recovery # Nobody
           \/ pc = "stopGo" /\ on = NoPromise /\ sup.recovery = Nobody
    <2>1. CASE Await(t, "stopRecovery", <<"recovery", sup.recovery>>) /\ sup.recovery # Nobody
        BY <1>1, <1>2, <2>1, AwaitBecomes
    <2>2. CASE Goto(t, "stopGo") /\ sup.recovery = Nobody
        BY <1>1, <1>2, <2>2, GotoBecomes
    <2>. QED
        BY <2>1, <2>2 DEF StopAgain
<1>4. Hears(pc, on) /\ Fits(t, pc, "none") /\ pc # "procStopping" /\ pc \in FreePcs
    BY <1>1, <1>2, <1>3 DEF Hears, Fits, Lifecycle, Recovery, SupTypes, SupFields
<1>5. Threading' /\ Stops'
    BY <1>1, <1>2, <1>3, <1>4, ThreadOnly
<1>6. Base' /\ SameRecord
    BY <1>1, <1>5 DEF Base, SupTypes, SupFields, Released, SameRecord
<1>7. ASSUME Ordered PROVE Ordered'
    <2>1. TurnOf(t)
        BY <1>7 DEF Ordered, Turns, TakesTurns
    <2>2. sup.recovery = Nobody => NoneWorks
        BY <1>1, <1>7, <2>1, CallersAndTimers DEF TurnOf, Ordered, Turns, Recorded, NoneWorks
    <2>3. TurnOf(t)'
        <3>1. pc = "stopGo" => NoneWorks'
            BY <1>2, <1>3, <2>2 DEF NoneWorks, Works, Ctx, Becomes, Others
        <3>. QED
            BY <1>1, <1>3, <3>1 DEF TurnOf, Becomes
    <2>4. ~At(t, "idle") /\ ~At(t, "begin") /\ ~At(t, "start")
        BY <1>1 DEF At
    <2>. QED
        BY <1>1, <1>2, <1>3, <1>4, <1>6, <1>7, <2>3, <2>4, CallerTurns
<1>. QED
    BY <1>6, <1>7

\* A call that waited for another one goes on.
LEMMA CallerResumes ==
    ASSUME Base, ChildrenInv', NEW t \in Threads, Resumes(t), ~Works(t) PROVE Base' /\ (Ordered => Ordered')
<1>. USE DEF StartPcs, StopPcs, FreePcs, Joins, Services
<1>1. /\ Threading /\ ThreadTypes /\ NewsTypes /\ Stops /\ Paused
      /\ news[t] \in {"ok", "fail"} /\ news' = [news EXCEPT ![t] = "none"]
      /\ th[t].pc \in Joins /\ UNCHANGED <<pm, cf, sup, tick, host>> /\ SupTypes
    <2>1. Threading /\ ThreadTypes /\ NewsTypes /\ Stops /\ SupTypes
        BY DEF Base, Threading
    <2>2. th[t].pc \notin Services
        BY <2>1, PlaceTells
    <2>. QED
        BY <2>1, <2>2 DEF Resumes, Resume, ThreadTypes, NewsTypes, processVars, tunnelVars, hostVars
<1>2. NewsTypes' /\ news'[t] = "none" /\ \A u \in Threads \ {t} : news'[u] = news[u]
    BY <1>1 DEF NewsTypes
<1>3. t \in Callers /\ ~Works(t) /\ th[t].ctx = "none"
    BY <1>1, FreeCaller
<1>. DEFINE pc == After[th[t].pc][news[t]]
<1>4. /\ th[t].pc = "joinLifecycle" => pc = "return"
      /\ th[t].pc = "joinRecovery" => pc = "startAgain"
      /\ th[t].pc = "stopLifecycle" => pc = "stopAgain"
      /\ th[t].pc = "stopRecovery" => pc = "stopGo"
    BY <1>1, GoesOn
<1>. HIDE DEF pc
<1>5. Others(t) /\ Becomes(t, pc, "none", NoPromise)
    BY <1>1, <1>3, ResumeBecomes DEF pc, Resumes
<1>6. pc \in {"return", "startAgain", "stopAgain", "stopGo"} /\ Hears(pc, NoPromise) /\ Fits(t, pc, "none")
    BY <1>1, <1>3, <1>4 DEF Hears, Fits, Lifecycle, Recovery
<1>7. Threading'
    BY <1>1, <1>2, <1>5, <1>6, ThreadStep
<1>8. Stops'
    <2>1. \A u \in Threads : th'[u].pc = "procStopping" /\ news'[u] = "none" <=> th[u].pc = "procStopping" /\ news[u] = "none"
        BY <1>1, <1>2, <1>5, <1>6 DEF Others, Becomes
    <2>. QED
        BY <1>1, <2>1 DEF Stops
<1>9. Base' /\ SameRecord
    BY <1>1, <1>7, <1>8 DEF Base, SupTypes, SupFields, Released, SameRecord
<1>10. ASSUME Ordered PROVE Ordered'
    <2>1. TurnOf(t)
        BY <1>10 DEF Ordered, Turns, TakesTurns
    <2>2. NoneWorks
        BY <1>1, <2>1 DEF TurnOf
    <2>3. TurnOf(t)'
        <3>1. NoneWorks' /\ \A u \in Threads : ~Works(u)'
            BY <1>5, <2>2 DEF NoneWorks, Works, Ctx, Becomes, Others
        <3>2. pc # "return"
            BY <1>1, <1>4, <1>6, <2>1 DEF TurnOf
        <3>3. pc = "startAgain" => sup.state = "RUNNING" \/ ~sup.tunnelStarted
            BY <1>1, <1>4, <2>1 DEF TurnOf
        <3>4. th'[t].pc = pc /\ sup' = sup
            BY <1>1, <1>5 DEF Becomes
        <3>. QED
            BY <1>6, <3>1, <3>2, <3>3, <3>4 DEF TurnOf
    <2>4. sup.lifecycle = Nobody
        <3>1. SUFFICES ASSUME sup.lifecycle # Nobody PROVE FALSE
            OBVIOUS
        <3>2. PICK u \in Threads : sup.lifecycle = u
            BY <1>1, <3>1 DEF SupTypes, SupFields
        <3>. QED
            BY <1>10, <2>2, <3>2 DEF Ordered, Turns, Recorded, NoneWorks, Works, Lifecycle
    <2>5. ~At(t, "idle") /\ ~At(t, "begin") /\ ~At(t, "start")
        BY <1>1 DEF At
    <2>6. pc \in FreePcs
        BY <1>6
    <2>. QED
        BY <1>1, <1>2, <1>3, <1>5, <1>9, <1>10, <2>3, <2>4, <2>5, <2>6, CallerTurns
<1>. QED
    BY <1>9, <1>10

-----------------------------------------------------------------------------
(* Work begins and ends *)

LEMMA Alone ==
    ASSUME ThreadTypes, Ordered, NEW t \in Callers, ~At(t, "idle"), NoneWorks \/ Ctx(t) = "stop"
    PROVE  /\ \A u \in Threads \ {t} : At(u, "idle") /\ ~Works(u)
           /\ sup.lifecycle \notin Threads /\ sup.recovery \notin Threads
           /\ host = "starting" => t = "cli" /\ (At(t, "begin") \/ At(t, "start"))
<1>1. ASSUME NEW u \in Threads \ {t} PROVE ~Works(u)
    BY CallersAndTimers DEF Ordered, Turns, OneWorks, NoneWorks, Works
<1>2. \A u \in Threads : Ctx(u) \notin Lifecycle \cup Recovery
    BY <1>1 DEF NoneWorks, Works, Lifecycle, Recovery
<1>3. ASSUME NEW u \in Threads \ {t} PROVE At(u, "idle")
    <2>1. CASE u \in Callers
        BY <1>2, <2>1, CallersAndTimers DEF Ordered, Turns, OneCalls, Leads
    <2>2. CASE u \notin Callers
        BY <1>1, <2>2, PlaceTells DEF At
    <2>. QED
        BY <2>1, <2>2
<1>4. sup.lifecycle \notin Threads /\ sup.recovery \notin Threads
    BY <1>2 DEF Ordered, Turns, Recorded
<1>5. host = "starting" => t = "cli" /\ (At(t, "begin") \/ At(t, "start"))
    BY <1>2, CallersAndTimers DEF Ordered, Turns, FirstStart
<1>. QED
    BY <1>1, <1>3, <1>4, <1>5

\* The step of a thread when all others are idle.
LEMMA AloneTurns ==
    ASSUME ThreadTypes, NEW t \in Threads, NEW pc, NEW ctx, NEW on,
           \A u \in Threads \ {t} : At(u, "idle") /\ ~Works(u),
           Others(t), Becomes(t, pc, ctx, on), Fits(t, pc, ctx),
           sup'.lifecycle = IF ctx \in Lifecycle THEN t ELSE Nobody,
           sup'.recovery = IF ctx \in Recovery THEN t ELSE Nobody,
           ctx = "error" => sup'.attempts >= sup'.limit,
           ctx = "none" => sup'.state \in {"STOPPED", "RUNNING", "DEGRADED", "ERROR"},
           FirstStart', TurnOf(t)', StateFits(t)', ReleasedBy(t)', Down'
    PROVE  Ordered'
<1>1. /\ \A u \in Threads \ {t} : th'[u].pc = "idle" /\ th'[u].ctx = "none" /\ Ctx(u)' = "none" /\ ~Works(u)'
      /\ th'[t].pc = pc /\ th'[t].ctx = ctx /\ Ctx(t)' = ctx
    BY DEF Others, Becomes, At, Works, Ctx
<1>2. "none" \notin Lifecycle \cup Recovery /\ Nobody \notin Threads
    BY CallersAndTimers DEF Lifecycle, Recovery
<1>3. Recorded'
    BY <1>1, <1>2 DEF Recorded, Lifecycle, Recovery
<1>4. OneWorks'
    <2>1. ctx = "error" => t \notin Callers
        BY DEF Fits
    <2>2. ASSUME NEW u \in Threads, NEW c \in Callers, Ctx(u)' = "error" PROVE At(c, "idle")'
        BY <1>1, <2>1, <2>2, CallersAndTimers DEF At
    <2>. QED
        BY <1>1, <2>2 DEF OneWorks
<1>5. OneCalls'
    BY <1>1, CallersAndTimers DEF OneCalls, At
<1>6. TakesTurns'
    <2>1. ASSUME NEW u \in Threads \ {t} PROVE TurnOf(u)'
        BY <1>1 DEF TurnOf, Joins
    <2>. QED
        BY <2>1 DEF TakesTurns
<1>7. StateTells'
    <2>1. ASSUME NEW u \in Threads \ {t} PROVE StateFits(u)'
        BY <1>1 DEF StateFits
    <2>2. NoneWorks' => ctx = "none"
        BY <1>1 DEF NoneWorks, Works
    <2>. QED
        BY <2>1, <2>2 DEF StateTells
<1>8. Releases'
    <2>1. ASSUME NEW u \in Threads \ {t} PROVE ReleasedBy(u)'
        BY <1>1 DEF ReleasedBy, AfterTunnel, StopPcs
    <2>. QED
        BY <2>1 DEF Releases
<1>. QED
    BY <1>3, <1>4, <1>5, <1>6, <1>7, <1>8 DEF Ordered, Turns

LEMMA BeginKeeps ==
    ASSUME Base, ChildrenInv', NEW t \in Threads, Begin(t) \/ StopGo(t) PROVE Base' /\ (Ordered => Ordered')
<1>. USE DEF StartPcs, StopPcs, FreePcs, Joins, Services
<1>1. /\ Threading /\ ThreadTypes /\ th[t].pc \in {"begin", "stopGo"} /\ th[t].on = NoPromise /\ news[t] = "none"
      /\ UNCHANGED <<pm, news, cf, tick, host>> /\ SupTypes
    BY DEF Begin, StopGo, At, Base, Threading, ThreadTypes, Hears, Local, Resources, hostVars
<1>2. t \in Callers /\ ~Works(t) /\ th[t].ctx = "none" /\ th[t].pc \notin Waiting
    BY <1>1, FreeCaller, WaitingPlaces
<1>3. PICK pc, ctx :
        /\ Others(t) /\ Becomes(t, pc, ctx, NoPromise)
        /\ \/ /\ pc = "spawn" /\ ctx = "start" /\ th[t].pc = "begin"
              /\ sup' = [sup EXCEPT !.monitoring = TRUE, !.lifecycle = t, !.attempts = 0,
                                    !.failures = 0, !.state = "STARTING"]
           \/ /\ pc = "stopTunnel" /\ ctx = "stop" /\ th[t].pc = "stopGo"
              /\ sup' = [sup EXCEPT !.state = "STOPPING"]
    <2>1. CASE Begin(t)
        <3>1. th' = [th EXCEPT ![t].ctx = "start", ![t].pc = "spawn"]
            BY <2>1 DEF Begin
        <3>2. Others(t) /\ Becomes(t, "spawn", "start", NoPromise)
            BY <1>1, <3>1, WorkBecomes
        <3>. QED
            BY <2>1, <3>2 DEF Begin, At
    <2>2. CASE StopGo(t)
        <3>1. th' = [th EXCEPT ![t].ctx = "stop", ![t].pc = "stopTunnel"]
            BY <2>2 DEF StopGo
        <3>2. Others(t) /\ Becomes(t, "stopTunnel", "stop", NoPromise)
            BY <1>1, <3>1, WorkBecomes
        <3>. QED
            BY <2>2, <3>2 DEF StopGo, At
    <2>. QED
        BY <2>1, <2>2
<1>4. Hears(pc, NoPromise) /\ Fits(t, pc, ctx) /\ pc # "procStopping"
    BY <1>2, <1>3 DEF Hears, Fits, Lifecycle, Recovery
<1>5. Threading' /\ Stops'
    BY <1>1, <1>2, <1>3, <1>4, ThreadOnly
<1>6. /\ SupTypes' /\ sup'.tunnelStarted = sup.tunnelStarted /\ sup'.timer = sup.timer
      /\ sup'.recovery = sup.recovery /\ sup'.lifecycle = (IF ctx = "start" THEN t ELSE sup.lifecycle)
      /\ sup'.state = (IF ctx = "start" THEN "STARTING" ELSE "STOPPING")
    <2>1. CASE ctx = "start"
        <3>1. sup' = [sup EXCEPT !.monitoring = TRUE, !.lifecycle = t, !.attempts = 0,
                                 !.failures = 0, !.state = "STARTING"]
            BY <1>3, <2>1
        <3>2. SupTypes'
            BY <1>1, <3>1 DEF SupTypes, SupFields
        <3>. QED
            BY <1>1, <2>1, <3>1, <3>2 DEF SupTypes, SupFields
    <2>2. CASE ctx = "stop"
        <3>1. sup' = [sup EXCEPT !.state = "STOPPING"]
            BY <1>3, <2>2
        <3>2. SupTypes'
            BY <1>1, <3>1 DEF SupTypes, SupFields
        <3>. QED
            BY <1>1, <2>2, <3>1, <3>2 DEF SupTypes, SupFields
    <2>. QED
        BY <1>3, <2>1, <2>2
<1>7. Released'
    BY <1>1, <1>6 DEF Base, Released
<1>8. Base'
    BY <1>5, <1>6, <1>7 DEF Base
<1>9. ASSUME Ordered PROVE Ordered'
    <2>1. TurnOf(t) /\ ~At(t, "idle")
        BY <1>1, <1>9 DEF Ordered, Turns, TakesTurns, At
    <2>2. NoneWorks /\ (ctx = "start" => ~sup.tunnelStarted)
        BY <1>1, <1>3, <2>1 DEF TurnOf
    <2>3. /\ \A u \in Threads \ {t} : At(u, "idle") /\ ~Works(u)
          /\ sup.lifecycle = Nobody /\ sup.recovery = Nobody
          /\ host = "starting" => t = "cli" /\ ctx = "start"
        BY <1>1, <1>2, <1>3, <1>9, <2>1, <2>2, Alone DEF SupTypes, SupFields, At
    <2>4. FirstStart'
        BY <1>1, <1>3, <2>3, CallersAndTimers DEF FirstStart, Becomes, Others, Ctx, At, Lifecycle
    <2>5. TurnOf(t)' /\ ReleasedBy(t)'
        BY <1>3 DEF TurnOf, ReleasedBy, AfterTunnel, Becomes
    <2>6. StateFits(t)' /\ Down'
        BY <1>3, <1>6, <2>2 DEF StateFits, Down, Becomes, Ctx
    <2>7. ctx \in {"start", "stop"}
        BY <1>3
    <2>. QED
        BY <1>1, <1>3, <1>4, <1>6, <2>3, <2>4, <2>5, <2>6, <2>7, AloneTurns DEF Lifecycle, Recovery
<1>. QED
    BY <1>8, <1>9

LEMMA StoppedByKeeps ==
    ASSUME Base, ChildrenInv', NEW t \in Threads, StoppedBy(t) PROVE Base' /\ (Ordered => Ordered')
<1>. USE DEF StartPcs, StopPcs, FreePcs, Joins, Services
<1>1. /\ Threading /\ ThreadTypes /\ th[t].pc = "stopDone" /\ Ctx(t) = "stop" /\ th[t].on = NoPromise /\ news[t] = "none"
      /\ UNCHANGED <<pm, news, cf, tick, host>> /\ SupTypes /\ th[t].bad \in BOOLEAN
      /\ sup' = [sup EXCEPT !.attempts = 0, !.failures = 0, !.state = IF th[t].bad THEN "ERROR" ELSE "STOPPED"]
    BY DEF StoppedBy, At, Ctx, Base, Threading, ThreadTypes, Hears, Local, Resources, hostVars
<1>2. t \in Callers /\ Works(t) /\ th[t].pc \notin Waiting
    BY <1>1, WaitingPlaces DEF ThreadTypes, Fits, Ctx, Works
<1>3. PICK pc \in {"idle", "start"} :
        Others(t) /\ Becomes(t, pc, "none", NoPromise) /\ (pc = "start" => ~th[t].bad)
    <2>1. CASE th[t].bad /\ Leave(t)
        BY <1>1, <2>1, LeaveBecomes
    <2>2. CASE ~th[t].bad /\ Over(t)
        BY <1>1, <2>2, OverBecomes
    <2>. QED
        BY <2>1, <2>2 DEF StoppedBy
<1>4. Hears(pc, NoPromise) /\ Fits(t, pc, "none") /\ pc # "procStopping"
    BY <1>2, <1>3 DEF Hears, Fits, Lifecycle, Recovery
<1>5. Threading' /\ Stops'
    BY <1>1, <1>2, <1>3, <1>4, ThreadOnly
<1>6. /\ SupTypes' /\ sup'.tunnelStarted = sup.tunnelStarted /\ sup'.timer = sup.timer
      /\ sup'.recovery = sup.recovery /\ sup'.lifecycle = sup.lifecycle
      /\ sup'.state = (IF th[t].bad THEN "ERROR" ELSE "STOPPED")
    BY <1>1 DEF SupTypes, SupFields
<1>7. Released'
    BY <1>1, <1>6 DEF Base, Released
<1>8. Base'
    BY <1>5, <1>6, <1>7 DEF Base
<1>9. ASSUME Ordered PROVE Ordered'
    <2>1. ReleasedBy(t) /\ ~At(t, "idle")
        BY <1>1, <1>9 DEF Ordered, Releases, At
    <2>2. /\ \A u \in Threads \ {t} : At(u, "idle") /\ ~Works(u)
          /\ sup.lifecycle = Nobody /\ sup.recovery = Nobody /\ host # "starting"
        BY <1>1, <1>2, <1>9, <2>1, Alone DEF SupTypes, SupFields, At
    <2>3. FirstStart'
        BY <1>1, <2>2 DEF FirstStart
    <2>4. TurnOf(t)' /\ ReleasedBy(t)' /\ StateFits(t)'
        BY <1>3, <1>6 DEF TurnOf, ReleasedBy, StateFits, AfterTunnel, Becomes, Ctx
    <2>5. Down'
        BY <1>1, <1>6, <2>1 DEF ReleasedBy, AfterTunnel, Down
    <2>. QED
        BY <1>1, <1>3, <1>4, <1>6, <2>2, <2>3, <2>4, <2>5, AloneTurns DEF Lifecycle, Recovery
<1>. QED
    BY <1>8, <1>9

\* Those who waited for the work go on, and find nothing under way.
LEMMA EndKeeps ==
    ASSUME Base, ChildrenInv', NEW t \in Threads, End(t) PROVE Base' /\ (Ordered => Ordered')
<1>. USE DEF StartPcs, StopPcs, FreePcs, Joins, Services
<1>1. /\ Threading /\ ThreadTypes /\ NewsTypes /\ Stops /\ th[t].pc = "end" /\ th[t].on = NoPromise /\ news[t] = "none"
      /\ UNCHANGED <<pm, cf, tick>> /\ SupTypes
      /\ sup' = [sup EXCEPT !.lifecycle = IF @ = t THEN Nobody ELSE @, !.recovery = IF @ = t THEN Nobody ELSE @]
      /\ Leave(t)
    BY DEF End, At, Base, Threading, ThreadTypes, Hears, processVars, tunnelVars
<1>2. Works(t) /\ th[t].pc \notin Waiting
    BY <1>1, WaitingPlaces, PlaceTells
<1>3. Others(t) /\ Becomes(t, "idle", "none", NoPromise)
    BY <1>1, LeaveBecomes
<1>4. \A u \in Threads : news'[u] = IF th[u].on = <<"lifecycle", t>> \/ th[u].on = <<"recovery", t>> THEN "ok" ELSE news[u]
    BY DEF End
<1>5. NewsTypes'
    BY <1>1 DEF End, NewsTypes
<1>6. ASSUME NEW u \in Threads PROVE news'[u] = news[u] \/ (th[u].pc \in Joins /\ th[u].on # NoPromise)
    <2>1. SUFFICES ASSUME th[u].on = <<"lifecycle", t>> \/ th[u].on = <<"recovery", t>>
                   PROVE  th[u].pc \in Joins /\ th[u].on # NoPromise
        BY <1>4
    <2>2. th[u].on \notin {NoPromise, <<"starting">>, <<"stopping">>, <<"tunnel">>} /\ \A c : th[u].on # <<"closed", c>>
        BY <2>1, PromisesDiffer
    <2>. QED
        BY <1>1, <2>2 DEF ThreadTypes, Hears
<1>7. Threading'
    <2>1. news'[t] = "none"
        BY <1>1, <1>6
    <2>2. Fits(t, "idle", "none") /\ Hears("idle", NoPromise)
        BY DEF Fits, Hears, Lifecycle, Recovery
    <2>3. \A u \in Threads \ {t} : news'[u] # news[u] => th[u].pc \in Joins \cup Services
        BY <1>6
    <2>. QED
        BY <1>1, <1>2, <1>3, <1>5, <2>1, <2>2, <2>3, ThreadStep
<1>8. Stops'
    <2>1. \A u \in Threads : th'[u].pc = "procStopping" /\ news'[u] = "none" <=> th[u].pc = "procStopping" /\ news[u] = "none"
        BY <1>1, <1>3, <1>6 DEF Others, Becomes
    <2>. QED
        BY <1>1, <2>1 DEF Stops
<1>9. /\ SupTypes' /\ sup'.state = sup.state /\ sup'.tunnelStarted = sup.tunnelStarted /\ sup'.timer = sup.timer
      /\ sup'.attempts = sup.attempts /\ sup'.limit = sup.limit
      /\ sup'.lifecycle = (IF sup.lifecycle = t THEN Nobody ELSE sup.lifecycle)
      /\ sup'.recovery = (IF sup.recovery = t THEN Nobody ELSE sup.recovery)
    BY <1>1 DEF SupTypes, SupFields
<1>10. Base'
    BY <1>1, <1>7, <1>8, <1>9 DEF Base, Released
<1>11. ASSUME Ordered PROVE Ordered'
    <2>1. /\ Ctx(t)' = "none" /\ th'[t].pc = "idle" /\ ~Works(t)'
          /\ \A u \in Threads \ {t} : th'[u] = th[u] /\ Ctx(u)' = Ctx(u) /\ (Works(u)' <=> Works(u))
        BY <1>3 DEF Becomes, Others, Ctx, Works
    <2>2. StateFits(t) /\ Ctx(t) \in Lifecycle \cup Recovery \cup {"error"}
        BY <1>1, <1>2, <1>11 DEF Ordered, StateTells, ThreadTypes, Fits, Ctx, Works
    <2>3. Recorded'
        BY <1>9, <1>11, <2>1, CallersAndTimers DEF Ordered, Turns, Recorded, Lifecycle, Recovery
    <2>4. OneWorks'
        <3>1. \A c \in Callers : At(c, "idle") => At(c, "idle")'
            BY <2>1, CallersAndTimers DEF At
        <3>2. \A u \in Threads : Works(u)' => Works(u) /\ Ctx(u)' = Ctx(u)
            BY <2>1
        <3>3. \A u \in Threads : Ctx(u)' = "error" => Ctx(u) = "error"
            BY <2>1
        <3>. QED
            BY <1>9, <1>11, <3>1, <3>2, <3>3 DEF Ordered, Turns, OneWorks
    <2>5. OneCalls'
        <3>1. \A c \in Callers : ~At(c, "idle")' => c # t /\ ~At(c, "idle")
            BY <2>1, CallersAndTimers DEF At
        <3>2. \A c, d \in Callers : c # t /\ d # t /\ Leads(c, d) => Leads(c, d)'
            BY <2>1, CallersAndTimers DEF Leads, Lifecycle
        <3>. QED
            BY <1>11, <3>1, <3>2 DEF Ordered, Turns, OneCalls
    <2>6. FirstStart'
        <3>1. SUFFICES ASSUME host' = "starting" PROVE FirstStart'
            BY DEF FirstStart
        <3>2. host = "starting" /\ t # "cli"
            BY <3>1 DEF End
        <3>3. \A c \in Callers : c # "cli" => At(c, "idle")'
            BY <1>11, <2>1, <3>2, CallersAndTimers DEF Ordered, Turns, FirstStart, At
        <3>. QED
            BY <1>9, <1>11, <2>1, <3>2, <3>3, CallersAndTimers DEF Ordered, Turns, FirstStart, At, Lifecycle
    <2>7. TakesTurns'
        <3>1. ASSUME NEW u \in Threads, u # t PROVE TurnOf(u)'
            <4>1. TurnOf(u) /\ th'[u] = th[u] /\ (th[u].pc \notin Waiting => FALSE)
                BY <1>1, <1>2, <1>11, <2>1, <3>1 DEF Ordered, Turns, TakesTurns, Threading, OneRuns
            <4>2. ~NoneWorks
                BY <1>2 DEF NoneWorks
            <4>3. th[u].pc \in Joins => news[u] = "none"
                BY <4>1, <4>2 DEF TurnOf
            <4>4. ASSUME th[u].pc \in Joins, news'[u] # "none" PROVE NoneWorks'
                <5>1. u \in Callers /\ ~At(u, "idle")
                    BY <1>1, <4>4, FreeCaller DEF At
                <5>2. ASSUME NEW v \in Threads, Works(v)' PROVE FALSE
                    <6>1. Works(v) /\ v # t
                        BY <2>1, <5>2
                    <6>. QED
                        BY <1>2, <1>11, <5>1, <6>1 DEF Ordered, Turns, OneWorks
                <5>. QED
                    BY <5>2 DEF NoneWorks
            <4>5. ASSUME th[u].pc \in {"joinRecovery", "stopRecovery"}
                  PROVE  IF sup.recovery = t THEN news'[u] = "ok" ELSE news'[u] = "none"
                <5>1. th[u].on = <<"recovery", sup.recovery>>
                    BY <4>1, <4>3, <4>5 DEF TurnOf
                <5>2. th[u].on # <<"lifecycle", t>> /\ (th[u].on = <<"recovery", t>> <=> sup.recovery = t)
                    BY <5>1, PromisesDiffer
                <5>. QED
                    BY <1>4, <4>3, <4>5, <5>2
            <4>6. ASSUME th[u].pc = "stopLifecycle"
                  PROVE  IF sup.lifecycle = t THEN news'[u] = "ok" ELSE news'[u] = "none"
                <5>1. th[u].on = <<"lifecycle", sup.lifecycle>>
                    BY <4>1, <4>3, <4>6 DEF TurnOf
                <5>2. th[u].on # <<"recovery", t>> /\ (th[u].on = <<"lifecycle", t>> <=> sup.lifecycle = t)
                    BY <5>1, PromisesDiffer
                <5>. QED
                    BY <1>4, <4>3, <4>6, <5>2
            <4>7. sup.recovery = t => sup.state = "RUNNING" \/ ~sup.tunnelStarted
                BY <1>1, <1>11, <2>2 DEF Ordered, Turns, Recorded, StateFits, Recovery
            <4>8. th[u].pc \notin {"start", "startAgain", "begin", "return", "stopGo", "stopAgain", "joinLifecycle", "afterStop"}
                BY <4>1, WaitingPlaces DEF TurnOf
            <4>. QED
                BY <1>9, <4>1, <4>3, <4>4, <4>5, <4>6, <4>7, <4>8 DEF TurnOf
        <3>2. TurnOf(t)'
            BY <2>1 DEF TurnOf
        <3>. QED
            BY <3>1, <3>2 DEF TakesTurns
    <2>8. StateTells'
        <3>1. ASSUME NEW u \in Threads PROVE StateFits(u)'
            <4>1. StateFits(u)
                BY <1>11 DEF Ordered, StateTells
            <4>. QED
                BY <1>9, <2>1, <4>1 DEF StateFits
        <3>2. sup.state \in {"RUNNING", "DEGRADED", "ERROR"}
            BY <1>1, <2>2 DEF StateFits, Lifecycle, Recovery
        <3>. QED
            BY <1>9, <3>1, <3>2 DEF StateTells
    <2>9. Releases'
        <3>1. ASSUME NEW u \in Threads, u # t PROVE ReleasedBy(u)'
            <4>1. ReleasedBy(u) /\ th'[u] = th[u] /\ (th[u].pc = "procStopping" => news'[u] = news[u])
                BY <1>6, <1>11, <2>1, <3>1 DEF Ordered, Releases
            <4>. QED
                BY <1>1, <1>9, <4>1 DEF ReleasedBy
        <3>2. ReleasedBy(t)'
            BY <2>1 DEF ReleasedBy, AfterTunnel
        <3>. QED
            BY <3>1, <3>2 DEF Releases
    <2>10. Down'
        BY <1>1, <1>9, <1>11 DEF Ordered, Down
    <2>. QED
        BY <2>3, <2>4, <2>5, <2>6, <2>7, <2>8, <2>9, <2>10 DEF Ordered, Turns
<1>. QED
    BY <1>10, <1>11

-----------------------------------------------------------------------------
(* What happens outside, while no call runs *)

LEMMA PromiseTells ==
    ASSUME ThreadTypes, NEW u \in Threads
    PROVE  /\ th[u].on = <<"stopping">> <=> th[u].pc \in {"procStopping", "afterStop"}
           /\ th[u].on = <<"starting">> <=> th[u].pc = "spawning"
           /\ th[u].on = <<"tunnel">> <=> th[u].pc = "tunnelling"
           /\ \A c : th[u].on = <<"closed", c>> => th[u].pc = "tunnelStopping"
<1>1. Hears(th[u].pc, th[u].on)
    BY DEF ThreadTypes
<1>2. CASE th[u].pc \notin Joins \cup Services
    BY <1>1, <1>2, PromisesDiffer DEF Hears, Services
<1>3. CASE th[u].pc \in {"joinRecovery", "stopRecovery"}
    <2>1. PICK v \in Threads : th[u].on = <<"recovery", v>>
        BY <1>1, <1>3 DEF Hears
    <2>. QED
        BY <1>3, <2>1, PromisesDiffer
<1>4. CASE th[u].pc \in {"joinLifecycle", "stopLifecycle"}
    <2>1. PICK v \in Threads : th[u].on = <<"lifecycle", v>>
        BY <1>1, <1>4 DEF Hears
    <2>. QED
        BY <1>4, <2>1, PromisesDiffer
<1>5. CASE th[u].pc = "tunnelStopping"
    <2>1. PICK c \in Cids : th[u].on = <<"closed", c>>
        BY <1>1, <1>5 DEF Hears
    <2>. QED
        BY <1>5, <2>1, PromisesDiffer
<1>6. CASE th[u].pc \in {"procStopping", "afterStop", "spawning", "tunnelling"}
    BY <1>1, <1>6, PromisesDiffer DEF Hears
<1>. QED
    BY <1>2, <1>3, <1>4, <1>5, <1>6 DEF Joins, Services

\* The order of the calls does not depend on the process and the tunnel.
LEMMA OutsideKeeps ==
    ASSUME Base, ChildrenInv', UNCHANGED <<th, host>>, SupTypes',
           \/ UNCHANGED sup
           \/ sup' = [sup EXCEPT !.runtimeStarted = FALSE],
           Told, Stops', Released', Ordered => Releases' /\ Down'
    PROVE  Base' /\ (Ordered => Ordered')
<1>1. /\ SameRecord /\ sup'.state = sup.state /\ sup'.tunnelStarted = sup.tunnelStarted
      /\ sup'.attempts = sup.attempts /\ sup'.timer = sup.timer
    BY DEF SameRecord, Base, SupTypes, SupFields
<1>2. Heard
    BY DEF Told, Heard
<1>3. Base'
    BY <1>2, ThreadsStay DEF Base
<1>4. ASSUME Ordered PROVE Ordered'
    <2>1. \A u \in Threads : Ctx(u)' = Ctx(u) /\ (Works(u)' <=> Works(u))
        BY DEF Ctx, Works
    <2>2. NoneWorks' <=> NoneWorks
        BY <2>1 DEF NoneWorks
    <2>3. Recorded' /\ OneWorks' /\ OneCalls' /\ FirstStart'
        BY <1>1, <1>4 DEF Ordered, Turns, Recorded, OneWorks, OneCalls, FirstStart, SameRecord, Ctx, Works, At, Leads
    <2>4. ASSUME NEW u \in Threads PROVE TurnOf(u)'
        <3>1. TurnOf(u) /\ (th[u].pc \in Joins => news'[u] = news[u])
            BY <1>4 DEF Ordered, Turns, TakesTurns, Told, Joins, Services
        <3>. QED
            BY <1>1, <2>1, <2>2, <3>1 DEF TurnOf, SameRecord, Joins, Recovery
    <2>5. StateTells'
        BY <1>1, <1>4, <2>2 DEF Ordered, StateTells, StateFits, Ctx
    <2>. QED
        BY <1>4, <2>3, <2>4, <2>5 DEF Ordered, Turns, TakesTurns
<1>. QED
    BY <1>3, <1>4

\* What an event of the process or the tunnel leaves alone.
Spares ==
    /\ UNCHANGED <<th, sup, tick, host>>
    /\ pm'.child \in {pm.child, NoChild} /\ pm'.expected = pm.expected
    /\ pm'.stopping = pm.stopping /\ (pm.stopping => UNCHANGED pm)
    /\ pm'.starting => pm.starting /\ pm'.child = pm.child
    /\ \A u \in Threads : th[u].pc = "procStopping" => news'[u] = news[u]

LEMMA EventKeeps ==
    ASSUME Base, ChildrenInv', Spares, Told, ~sup.tunnelStarted => Released'
    PROVE  Base' /\ (Ordered => Ordered')
<1>1. SupTypes' /\ Released'
    BY DEF Base, Released, Spares, SupTypes, SupFields
<1>2. Stops'
    BY DEF Base, Stops, Spares
<1>3. ASSUME Ordered PROVE Releases' /\ Down'
    <2>1. Releases'
        BY <1>3 DEF Ordered, Releases, ReleasedBy, Spares
    <2>2. Down'
        BY <1>3 DEF Ordered, Down, Spares
    <2>. QED
        BY <2>1, <2>2
<1>. QED
    BY <1>1, <1>2, <1>3, OutsideKeeps DEF Spares

LEMMA ProcessEvents ==
    ASSUME Base, ChildrenInv', NEW p \in Pids,
           \/ RuntimeSpawned(p) \/ RuntimeSpawnFails(p) \/ RuntimeCrashes(p) \/ RuntimeDies(p) \/ RuntimeHangs(p)
    PROVE  Base' /\ (Ordered => Ordered')
<1>1. /\ NewsTypes /\ ThreadTypes /\ ProcessTypes /\ UNCHANGED <<th, sup, tick, host, cf>>
      /\ \/ Spawned(p) \/ SpawnError(p) \/ UNCHANGED <<pm, news>>
    BY DEF Base, Threading, ChildrenInv, RuntimeSpawned, RuntimeSpawnFails, RuntimeCrashes, RuntimeDies,
        RuntimeHangs, Spawned, SpawnError, Ends, ProcessOnly, tunnelVars, hostVars
<1>2. Released'
    BY <1>1 DEF Base, Released
<1>3. CASE UNCHANGED <<pm, news>>
    <2>1. Told /\ Spares
        BY <1>1, <1>3, SameTells DEF Spares, Base, Stops
    <2>. QED
        BY <1>2, <2>1, EventKeeps
<1>4. ASSUME NEW r \in {"ok", "fail"}, Settle(<<"starting">>, r),
             pm'.child \in {pm.child, NoChild}, pm'.expected = pm.expected, pm'.stopping = pm.stopping,
             ~pm'.starting, pm.starting
      PROVE  Base' /\ (Ordered => Ordered')
    <2>1. Told /\ \A u \in Threads : news'[u] = IF th[u].on = <<"starting">> THEN r ELSE news[u]
        BY <1>1, <1>4, SettleTells
    <2>2. ~pm.stopping
        BY <1>4 DEF Base, Stops
    <2>3. \A u \in Threads : th[u].pc = "procStopping" => news'[u] = news[u]
        BY <1>1, <2>1, PromiseTells
    <2>4. Spares
        BY <1>1, <1>4, <2>2, <2>3 DEF Spares
    <2>. QED
        BY <1>2, <2>1, <2>4, EventKeeps
<1>5. CASE Spawned(p)
    <2>1. CASE pm.starting
        BY <1>1, <1>4, <1>5, <2>1 DEF Spawned, ProcessTypes
    <2>2. CASE ~pm.starting
        BY <1>3, <1>5, <2>2 DEF Spawned
    <2>. QED
        BY <2>1, <2>2
<1>6. CASE SpawnError(p)
    BY <1>1, <1>4, <1>6 DEF SpawnError, ProcessTypes, ChildAfterFail
<1>. QED
    BY <1>1, <1>3, <1>5, <1>6

\* A stop of the process whose time is over fails, and leaves the child.
LEMMA SurvivesKeeps ==
    ASSUME Base, ChildrenInv', RuntimeSurvives PROVE Base' /\ (Ordered => Ordered')
<1>1. /\ NewsTypes /\ ThreadTypes /\ ProcessTypes /\ Stops /\ UNCHANGED <<th, sup, tick, host, cf>> /\ pm.stopping
      /\ pm' = [pm EXCEPT !.stopping = FALSE] /\ Settle(<<"stopping">>, "fail")
    BY DEF Base, Threading, ChildrenInv, RuntimeSurvives, StopTimedOut, ProcessOnly, tunnelVars, hostVars
<1>2. /\ pm'.child = pm.child /\ pm'.expected = pm.expected /\ ~pm'.stopping /\ pm'.starting = pm.starting
      /\ pm.child \in pm.expected
    BY <1>1 DEF ProcessTypes, Stops
<1>3. Told /\ \A u \in Threads : news'[u] = IF th[u].on = <<"stopping">> THEN "fail" ELSE news[u]
    BY <1>1, SettleTells
<1>4. \A u \in Threads : th[u].pc = "procStopping" => news'[u] = "fail"
    BY <1>1, <1>3, PromiseTells
<1>5. Stops'
    BY <1>1, <1>2, <1>4 DEF Stops
<1>6. Released' /\ SupTypes'
    BY <1>1 DEF Base, Released, SupTypes, SupFields
<1>7. ASSUME Ordered PROVE Releases' /\ Down'
    <2>1. Releases'
        BY <1>1, <1>2, <1>4, <1>7 DEF Ordered, Releases, ReleasedBy
    <2>2. Down'
        BY <1>1, <1>2, <1>7 DEF Ordered, Down
    <2>. QED
        BY <2>1, <2>2
<1>. QED
    BY <1>1, <1>3, <1>5, <1>6, <1>7, OutsideKeeps

LEMMA NextAttemptTells ==
    ASSUME NewsTypes, ThreadTypes, NEW ps, NextAttempt(ps)
    PROVE  /\ Told /\ \A u \in Threads : th[u].pc = "procStopping" => news'[u] = news[u]
           /\ cf.cancelled => cf' = [cf EXCEPT !.starting = FALSE, !.attempt = 0, !.dying = NoCloud]
<1>1. CASE UNCHANGED news
    BY <1>1, SameTells DEF NextAttempt
<1>2. CASE Settle(<<"tunnel">>, "fail")
    <2>1. Told /\ \A u \in Threads : news'[u] = IF th[u].on = <<"tunnel">> THEN "fail" ELSE news[u]
        BY <1>2, SettleTells
    <2>. QED
        BY <2>1, PromiseTells DEF NextAttempt
<1>. QED
    BY <1>1, <1>2 DEF NextAttempt

\* A tunnel that was given up does not come back.
LEMMA TunnelEvents ==
    ASSUME Base, ChildrenInv',
           Connector \/ \E c \in Cids : CloudCrashes(c) \/ CloudSurvives(c)
    PROVE  Base' /\ (Ordered => Ordered')
<1>1. /\ NewsTypes /\ ThreadTypes /\ CloudTypes /\ Stops
      /\ ~sup.tunnelStarted => cf.child = NoCloud /\ (cf.starting => cf.cancelled)
      /\ tick = "asked" => sup.timer
    BY DEF Base, Threading, ChildrenInv, Released
<1>2. ASSUME TunnelOnly, UNCHANGED th, Told, \A u \in Threads : th[u].pc = "procStopping" => news'[u] = news[u],
             \/ sup.tunnelStarted \/ UNCHANGED cf
             \/ cf.cancelled /\ cf' = [cf EXCEPT !.starting = FALSE, !.attempt = 0, !.dying = NoCloud]
      PROVE  Base' /\ (Ordered => Ordered')
    <2>1. Spares
        BY <1>1, <1>2 DEF Spares, TunnelOnly, processVars, hostVars, Stops
    <2>2. ~sup.tunnelStarted => Released'
        BY <1>1, <1>2 DEF Released, TunnelOnly, hostVars, CloudTypes
    <2>. QED
        BY <1>2, <2>1, <2>2, EventKeeps
<1>3. ASSUME Attempting PROVE sup.tunnelStarted
    BY <1>1, <1>3 DEF Attempting
<1>4. ASSUME UNCHANGED <<th, news, cf>>, TunnelOnly PROVE Base' /\ (Ordered => Ordered')
    BY <1>1, <1>2, <1>4, SameTells
<1>5. ASSUME AttemptClosed, TunnelOnly PROVE Base' /\ (Ordered => Ordered')
    <2>1. /\ Told /\ \A u \in Threads : th[u].pc = "procStopping" => news'[u] = news[u]
          /\ UNCHANGED th
        BY <1>1, <1>5, NextAttemptTells DEF AttemptClosed
    <2>. QED
        BY <1>2, <1>3, <1>5, <2>1 DEF AttemptClosed
<1>6. ASSUME NEW c \in Cids, NEW after, Terminated(c, after), TunnelOnly PROVE Base' /\ (Ordered => Ordered')
    <2>1. CASE cf.dying = c
        <3>1. /\ Told /\ \A u \in Threads : th[u].pc = "procStopping" => news'[u] = news[u]
              /\ cf.cancelled => cf' = [cf EXCEPT !.starting = FALSE, !.attempt = 0, !.dying = NoCloud]
            BY <1>1, <1>6, <2>1, NextAttemptTells DEF Terminated
        <3>2. ~sup.tunnelStarted => cf.cancelled
            BY <1>1, <2>1, NobodyIsZero DEF Base, ChildrenInv, CloudLives, NoCloud
        <3>. QED
            BY <1>2, <1>6, <3>1, <3>2 DEF Terminated
    <2>2. CASE cf.dying # c
        <3>1. Settle(<<"closed", c>>, "ok") /\ UNCHANGED <<cf, th>>
            BY <1>6, <2>2 DEF Terminated
        <3>2. Told /\ \A u \in Threads : news'[u] = IF th[u].on = <<"closed", c>> THEN "ok" ELSE news[u]
            BY <1>1, <3>1, SettleTells
        <3>3. \A u \in Threads : th[u].pc = "procStopping" => news'[u] = news[u]
            BY <1>1, <3>2, PromiseTells
        <3>. QED
            BY <1>2, <1>6, <3>1, <3>2, <3>3
    <2>. QED
        BY <2>1, <2>2
<1>7. CASE CloudReady
    <2>1. Told /\ \A u \in Threads : news'[u] = IF th[u].on = <<"tunnel">> THEN "ok" ELSE news[u]
        BY <1>1, <1>7, SettleTells DEF CloudReady, TunnelReady
    <2>2. \A u \in Threads : th[u].pc = "procStopping" => news'[u] = news[u]
        BY <1>1, <2>1, PromiseTells
    <2>. QED
        BY <1>2, <1>3, <1>7, <2>1, <2>2 DEF CloudReady, TunnelReady
<1>8. CASE CloudFails
    <2>1. Told
        BY <1>1, <1>8, SameTells DEF CloudFails, AttemptTimedOut
    <2>. QED
        BY <1>2, <1>3, <1>8, <2>1 DEF CloudFails, AttemptTimedOut
<1>9. CASE CloudEvent
    <2>1. CASE TunnelCloses
        <3>1. Told
            BY <1>1, <2>1, SameTells DEF TunnelCloses
        <3>. QED
            BY <1>1, <1>2, <1>9, <2>1, <3>1 DEF CloudEvent, TunnelCloses
    <2>2. CASE \E c \in Cids : CloudClosed(c)
        BY <1>6, <1>9, <2>2 DEF CloudEvent, CloudClosed
    <2>. QED
        BY <1>5, <1>9, <2>1, <2>2 DEF CloudEvent
<1>10. ASSUME NEW c \in Cids, CloudDies(c) \/ CloudCrashes(c) PROVE Base' /\ (Ordered => Ordered')
    BY <1>4, <1>10 DEF CloudDies, CloudCrashes, CloudEnds
<1>11. ASSUME NEW c \in Cids, CloudSurvives(c) PROVE Base' /\ (Ordered => Ordered')
    BY <1>6, <1>11 DEF CloudSurvives, KillTimedOut
<1>. QED
    BY <1>7, <1>8, <1>9, <1>10, <1>11 DEF Connector

-----------------------------------------------------------------------------
(* Health *)

\* The handler of a failed check and of an exit finds at most others that give up.
LEMMA HealthAlone ==
    ASSUME Base, Ordered, Drained, sup.state \in {"RUNNING", "DEGRADED"}, sup.recovery = Nobody,
           sup.timer \/ ~pm.stopping
    PROVE  /\ \A u \in Threads : Works(u) => Ctx(u) = "error"
           /\ \A c \in Callers : At(c, "idle")
           /\ host # "starting" /\ sup.lifecycle = Nobody
           /\ sup.timer => NoneWorks
<1>0. /\ Threading /\ ThreadTypes /\ SupTypes /\ Stops /\ NewsTypes
      /\ \A u \in Threads : th[u].pc \in Joins \cup Services \cup {"idle", "health"} /\ news[u] = "none"
    BY WaitingPlaces DEF Base, Threading, Drained, Paused
<1>1. \A u \in Threads : Ctx(u) \notin Recovery
    BY CallersAndTimers DEF Ordered, Turns, Recorded
<1>2. ASSUME NEW u \in Threads, Works(u) PROVE Ctx(u) = "error" /\ ~sup.timer
    <2>1. StateFits(u) /\ ReleasedBy(u) /\ Fits(u, th[u].pc, Ctx(u))
        BY <1>0 DEF Ordered, StateTells, Releases, ThreadTypes, Ctx
    <2>2. th[u].pc \in {"afterStop", "spawning", "health", "tunnelling", "tunnelStopping", "procStopping"}
        BY <1>0, <1>2, PlaceTells DEF FreePcs, Joins, Services
    <2>3. Ctx(u) # "stop"
        BY <2>1 DEF StateFits
    <2>4. Ctx(u) # "start"
        <3>1. th[u].pc \notin {"end", "startFailed"}
            BY <2>2
        <3>. QED
            BY <2>1, <3>1 DEF StateFits
    <2>5. Ctx(u) # "startCleanup"
        <3>1. SUFFICES ASSUME Ctx(u) = "startCleanup" PROVE FALSE
            OBVIOUS
        <3>2. th[u].pc \in {"tunnelStopping", "procStopping"}
            BY <2>1, <2>2, <3>1 DEF Fits, StopPcs
        <3>3. th[u].pc = "procStopping"
            BY <2>1, <3>1, <3>2 DEF StateFits
        <3>4. pm.stopping /\ ~sup.timer
            BY <1>0, <2>1, <3>3 DEF Stops, ReleasedBy, AfterTunnel, StopPcs
        <3>. QED
            BY <3>4
    <2>6. Ctx(u) = "error"
        BY <1>1, <1>2, <2>1, <2>3, <2>4, <2>5 DEF Fits, Works, Lifecycle
    <2>7. th[u].pc \in AfterTunnel
        BY <2>1, <2>2, <2>6 DEF Fits, AfterTunnel, StopPcs
    <2>. QED
        BY <2>1, <2>6, <2>7 DEF ReleasedBy
<1>3. sup.lifecycle = Nobody
    BY <1>0, <1>2 DEF Ordered, Turns, Recorded, Works, SupTypes, SupFields, Lifecycle
<1>4. ASSUME NEW c \in Callers PROVE At(c, "idle")
    <2>0. c \in Threads
        BY CallersAndTimers
    <2>1. ~Works(c)
        BY <1>0, <1>2, <2>0 DEF ThreadTypes, Fits, Ctx
    <2>2. th[c].pc \in Joins \cup {"idle"}
        BY <1>0, <2>0, <2>1, PlaceTells DEF FreePcs, Joins, Services
    <2>3. TurnOf(c) /\ news[c] = "none"
        BY <1>0, <2>0 DEF Ordered, Turns, TakesTurns
    <2>. QED
        BY <1>3, <2>2, <2>3 DEF TurnOf, Joins, At
<1>5. host # "starting"
    BY <1>2, <1>4, CallersAndTimers DEF Ordered, Turns, FirstStart, Works, Lifecycle, At
<1>. QED
    BY <1>2, <1>3, <1>4, <1>5 DEF NoneWorks

\* What the handler does, but for the counter of failures: it listens, or it does not.
HealthResult(t, s) ==
    \/ sup' = s /\ UNCHANGED th
    \/ /\ sup.state \in {"RUNNING", "DEGRADED"} /\ sup.recovery = Nobody
       /\ \E failures \in Nat :
            \/ /\ sup.timer /\ UNCHANGED th
               /\ \/ sup' = [s EXCEPT !.failures = failures, !.attempts = 0, !.state = "RUNNING"]
                  \/ sup' = [s EXCEPT !.failures = failures, !.state = "DEGRADED"]
            \/ /\ sup.attempts >= sup.limit /\ At(t, "idle")
               /\ sup' = [s EXCEPT !.failures = failures, !.state = "DEGRADED"]
               /\ th' = [th EXCEPT ![t].ctx = "error", ![t].pc = "stopTunnel"]
            \/ /\ ~(sup.attempts >= sup.limit) /\ At(t, "idle")
               /\ sup' = [s EXCEPT !.failures = failures, !.state = "DEGRADED",
                                   !.attempts = @ + 1, !.recovery = t]
               /\ th' = [th EXCEPT ![t].ctx = "recover", ![t].pc = "stopTunnel"]

LEMMA HealthResults ==
    ASSUME SupTypes, NEW t, NEW healthy \in BOOLEAN, NEW running \in BOOLEAN, NEW s,
           s = sup \/ s = [sup EXCEPT !.runtimeStarted = FALSE],
           sup.timer \/ (~healthy /\ ~running), HandleHealth(t, healthy, running, s)
    PROVE  HealthResult(t, s)
<1>1. /\ s.state = sup.state /\ s.recovery = sup.recovery /\ s.attempts = sup.attempts /\ s.limit = sup.limit
      /\ s.failures \in Nat
    BY DEF SupTypes, SupFields
<1>. DEFINE failures == IF ~healthy /\ running THEN s.failures + 1 ELSE s.failures
<1>2. 0 \in Nat /\ failures \in Nat
    BY <1>1
<1>3. \/ sup' = s /\ UNCHANGED th
      \/ /\ sup.state \in {"RUNNING", "DEGRADED"} /\ sup.recovery = Nobody
         /\ \/ /\ sup.timer /\ UNCHANGED th
               /\ \/ sup' = [s EXCEPT !.failures = 0, !.attempts = 0, !.state = "RUNNING"]
                  \/ sup' = [s EXCEPT !.failures = failures, !.state = "DEGRADED"]
            \/ /\ sup.attempts >= sup.limit /\ At(t, "idle")
               /\ sup' = [s EXCEPT !.failures = failures, !.state = "DEGRADED"]
               /\ th' = [th EXCEPT ![t].ctx = "error", ![t].pc = "stopTunnel"]
            \/ /\ ~(sup.attempts >= sup.limit) /\ At(t, "idle")
               /\ sup' = [s EXCEPT !.failures = failures, !.state = "DEGRADED",
                                   !.attempts = @ + 1, !.recovery = t]
               /\ th' = [th EXCEPT ![t].ctx = "recover", ![t].pc = "stopTunnel"]
    BY <1>1 DEF HandleHealth
<1>. HIDE DEF failures
<1>. QED
    BY <1>2, <1>3 DEF HealthResult

\* The process as the handler finds it: as it was, or just gone.
JustGone ==
    /\ pm'.child = NoChild /\ ~pm'.stopping /\ ~pm'.starting
    /\ \A u \in Threads : th[u].pc = "procStopping" => news'[u] = "ok"

LEMMA HealthKeeps ==
    ASSUME Base, ChildrenInv', NEW t \in {"tick", "exit"}, NEW s,
           s = sup \/ s = [sup EXCEPT !.runtimeStarted = FALSE],
           HealthResult(t, s), Drained, UNCHANGED <<cf, host>>, tick' \in {"none", tick},
           Told, UNCHANGED <<pm, news>> \/ JustGone,
           sup.timer \/ ~pm.stopping
    PROVE  Base' /\ (Ordered => Ordered')
<1>. USE DEF StartPcs, StopPcs, FreePcs, Joins, Services
<1>1. /\ Threading /\ ThreadTypes /\ NewsTypes /\ Stops /\ SupTypes /\ t \in Threads /\ t \notin Callers /\ Paused
      /\ SupFields(s) /\ s.state = sup.state /\ s.timer = sup.timer /\ s.lifecycle = sup.lifecycle
      /\ s.recovery = sup.recovery /\ s.tunnelStarted = sup.tunnelStarted
      /\ s.attempts = sup.attempts /\ s.limit = sup.limit
    <2>1. Threading /\ ThreadTypes /\ NewsTypes /\ Stops /\ SupTypes /\ t \in Threads /\ t \notin Callers /\ Paused
        BY CallersAndTimers DEF Base, Threading, Drained
    <2>2. SupFields(s)
        BY <2>1 DEF SupTypes, SupFields
    <2>. QED
        BY <2>1, <2>2 DEF SupTypes, SupFields
<1>2. ASSUME SupTypes', sup'.timer = sup.timer, sup'.tunnelStarted = sup.tunnelStarted PROVE Released'
    BY <1>2 DEF Base, Released
<1>3. ASSUME \A u \in Threads : th'[u].pc = "procStopping" <=> th[u].pc = "procStopping" PROVE Stops'
    <2>1. CASE UNCHANGED <<pm, news>>
        BY <1>1, <1>3, <2>1 DEF Stops
    <2>2. CASE JustGone
        BY <1>1, <1>3, <2>2 DEF Stops, JustGone
    <2>. QED
        BY <2>1, <2>2
<1>4. ASSUME NEW u \in Threads, ReleasedBy(u), th'[u] = th[u],
             sup'.timer = sup.timer, sup'.tunnelStarted = sup.tunnelStarted
      PROVE  ReleasedBy(u)'
    <2>1. CASE UNCHANGED <<pm, news>>
        BY <1>4, <2>1 DEF ReleasedBy
    <2>2. CASE JustGone
        BY <1>4, <2>2 DEF ReleasedBy, JustGone
    <2>. QED
        BY <2>1, <2>2
<1>5. CASE sup' = s /\ UNCHANGED th
    <2>1. SupTypes' /\ sup'.timer = sup.timer /\ sup'.tunnelStarted = sup.tunnelStarted /\ sup'.state = sup.state
        BY <1>1, <1>5 DEF SupTypes, SupFields
    <2>2. Stops' /\ Released'
        BY <1>2, <1>3, <1>5, <2>1
    <2>3. ASSUME Ordered PROVE Releases' /\ Down'
        <3>1. Releases'
            BY <1>4, <1>5, <2>1, <2>3 DEF Ordered, Releases
        <3>2. Down'
            BY <2>1, <2>3 DEF Ordered, Down, JustGone
        <3>. QED
            BY <3>1, <3>2
    <2>. QED
        BY <1>5, <2>1, <2>2, <2>3, OutsideKeeps
<1>6. ASSUME sup.state \in {"RUNNING", "DEGRADED"}, sup.recovery = Nobody, sup.timer, UNCHANGED th,
             NEW failures \in Nat,
             \/ sup' = [s EXCEPT !.failures = failures, !.attempts = 0, !.state = "RUNNING"]
             \/ sup' = [s EXCEPT !.failures = failures, !.state = "DEGRADED"]
      PROVE  Base' /\ (Ordered => Ordered')
    <2>1. /\ SupTypes' /\ sup'.timer = sup.timer /\ sup'.tunnelStarted = sup.tunnelStarted
          /\ sup'.state \in {"RUNNING", "DEGRADED"} /\ sup'.recovery = Nobody /\ sup'.lifecycle = sup.lifecycle
        <3>1. CASE sup' = [s EXCEPT !.failures = failures, !.attempts = 0, !.state = "RUNNING"]
            BY <1>1, <1>6, <3>1 DEF SupTypes, SupFields
        <3>2. CASE sup' = [s EXCEPT !.failures = failures, !.state = "DEGRADED"]
            BY <1>1, <1>6, <3>2 DEF SupTypes, SupFields
        <3>. QED
            BY <1>6, <3>1, <3>2
    <2>2. Stops' /\ Released'
        BY <1>2, <1>3, <1>6, <2>1
    <2>3. Threading'
        BY <1>1, <1>6, ThreadsStay DEF Told, Heard
    <2>4. ASSUME Ordered PROVE Ordered'
        <3>1. NoneWorks /\ (\A c \in Callers : At(c, "idle")) /\ host # "starting" /\ sup.lifecycle = Nobody
            BY <1>6, <2>4, HealthAlone
        <3>2. \A u \in Threads : At(u, "idle") /\ ~Works(u)
            BY <1>1, <3>1, PlaceTells DEF NoneWorks, At
        <3>3. Others(t) /\ Becomes(t, "idle", "none", th[t].on) /\ Fits(t, "idle", "none")
            BY <1>1, <1>6, <3>2 DEF Others, Becomes, ThreadTypes, At, Works, Ctx, Fits, Lifecycle, Recovery
        <3>4. FirstStart'
            BY <3>1 DEF FirstStart
        <3>5. TurnOf(t)' /\ StateFits(t)' /\ ReleasedBy(t)' /\ Down'
            BY <2>1, <3>3 DEF Becomes, TurnOf, StateFits, ReleasedBy, AfterTunnel, Ctx, Down
        <3>. QED
            BY <1>1, <2>1, <3>1, <3>2, <3>3, <3>4, <3>5, AloneTurns DEF Lifecycle, Recovery
    <2>. QED
        BY <2>1, <2>2, <2>3, <2>4 DEF Base
<1>7. ASSUME sup.state \in {"RUNNING", "DEGRADED"}, sup.recovery = Nobody, At(t, "idle"), NEW failures \in Nat,
             NEW ctx \in {"error", "recover"}, th' = [th EXCEPT ![t].ctx = ctx, ![t].pc = "stopTunnel"],
             ctx = "error" <=> sup.attempts >= sup.limit,
             sup' = IF ctx = "error" THEN [s EXCEPT !.failures = failures, !.state = "DEGRADED"]
                    ELSE [s EXCEPT !.failures = failures, !.state = "DEGRADED", !.attempts = @ + 1, !.recovery = t]
      PROVE  Base' /\ (Ordered => Ordered')
    <2>1. /\ th[t].on = NoPromise /\ th[t].pc = "idle" /\ Ctx(t) = "none" /\ ~Works(t)
        BY <1>1, <1>7, PlaceTells DEF At, ThreadTypes, Hears, Works
    <2>2. Others(t) /\ Becomes(t, "stopTunnel", ctx, NoPromise)
        BY <1>1, <1>7, <2>1, WorkBecomes
    <2>3. Fits(t, "stopTunnel", ctx) /\ Hears("stopTunnel", NoPromise)
        BY <1>1, <1>7 DEF Fits, Hears, Lifecycle, Recovery
    <2>4. Threading'
        <3>1. \A u \in Threads \ {t} : news'[u] # news[u] => th[u].pc \in Joins \cup Services
            BY DEF Told
        <3>2. news'[t] = "none"
            BY <1>1, <2>1 DEF Told, Drained
        <3>. QED
            BY <1>1, <1>7, <2>1, <2>2, <2>3, <3>1, <3>2, ThreadStep DEF Told
    <2>5. /\ SupTypes' /\ sup'.timer = sup.timer /\ sup'.tunnelStarted = sup.tunnelStarted
          /\ sup'.state = "DEGRADED" /\ sup'.lifecycle = sup.lifecycle /\ sup'.limit = sup.limit
          /\ sup'.recovery = (IF ctx = "error" THEN Nobody ELSE t)
          /\ ctx = "error" => sup'.attempts = sup.attempts
        <3>1. CASE ctx = "error"
            BY <1>1, <1>7, <3>1 DEF SupTypes, SupFields
        <3>2. CASE ctx = "recover"
            <4>1. sup.attempts + 1 \in Nat
                BY <1>1 DEF SupTypes, SupFields
            <4>. QED
                BY <1>1, <1>7, <3>2, <4>1 DEF SupTypes, SupFields
        <3>. QED
            BY <3>1, <3>2
    <2>6. Stops' /\ Released'
        BY <1>2, <1>3, <2>1, <2>2, <2>5 DEF Others, Becomes
    <2>7. Base'
        BY <2>4, <2>5, <2>6 DEF Base
    <2>8. TurnOf(t)' /\ StateFits(t)' /\ ReleasedBy(t)' /\ Down'
        BY <1>7, <2>2, <2>5 DEF Becomes, TurnOf, StateFits, ReleasedBy, AfterTunnel, Ctx, Down
    <2>9. ASSUME Ordered PROVE Ordered'
        <3>1. /\ \A u \in Threads : Works(u) => Ctx(u) = "error"
              /\ \A c \in Callers : At(c, "idle")
              /\ host # "starting" /\ sup.lifecycle = Nobody
            BY <1>7, <2>9, HealthAlone
        <3>2. FirstStart'
            BY <3>1 DEF FirstStart
        <3>3. CASE ctx = "recover"
            <4>1. \A u \in Threads : ~Works(u)
                BY <1>7, <2>9, <3>1, <3>3 DEF Ordered, Turns, OneWorks
            <4>2. \A u \in Threads \ {t} : At(u, "idle") /\ ~Works(u)
                BY <1>1, <3>1, <4>1, PlaceTells DEF At
            <4>. QED
                BY <1>1, <2>2, <2>3, <2>5, <2>8, <3>1, <3>2, <3>3, <4>2, AloneTurns DEF Lifecycle, Recovery
        <3>4. CASE ctx = "error"
            <4>1. /\ \A u \in Threads \ {t} : th'[u] = th[u] /\ Ctx(u)' = Ctx(u) /\ (Works(u)' <=> Works(u))
                  /\ Ctx(t)' = "error" /\ Works(t)' /\ th'[t].pc = "stopTunnel"
                BY <2>2, <3>4 DEF Others, Becomes, Ctx, Works
            <4>2. \A u \in Threads : Works(u)' => Ctx(u)' = "error"
                BY <3>1, <4>1
            <4>3. \A u \in Threads : Ctx(u)' \notin Lifecycle \cup Recovery
                BY <4>2 DEF Works, Lifecycle, Recovery
            <4>4. Recorded'
                BY <2>5, <3>1, <3>4, <4>3, CallersAndTimers DEF Recorded
            <4>5. \A c \in Callers : At(c, "idle")'
                BY <1>1, <3>1, <4>1, CallersAndTimers DEF At
            <4>6. OneWorks'
                BY <1>7, <2>5, <3>4, <4>2, <4>5 DEF OneWorks
            <4>7. OneCalls'
                BY <4>5 DEF OneCalls
            <4>8. TakesTurns'
                <5>1. ASSUME NEW u \in Threads, u # t PROVE TurnOf(u)'
                    <6>1. At(u, "idle") \/ Works(u)
                        BY <1>1, <3>1, PlaceTells DEF At
                    <6>2. At(u, "idle") \/ th[u].pc \in StopPcs \cup {"end"}
                        BY <1>1, <3>1, <6>1 DEF ThreadTypes, Fits, Ctx
                    <6>. QED
                        BY <4>1, <5>1, <6>2 DEF TurnOf, At
                <5>. QED
                    BY <2>8, <5>1 DEF TakesTurns
            <4>9. StateTells'
                <5>1. ASSUME NEW u \in Threads, u # t PROVE StateFits(u)'
                    <6>1. Ctx(u)' \in {"none", "error"}
                        BY <4>2, <5>1 DEF Works
                    <6>. QED
                        BY <2>5, <6>1 DEF StateFits
                <5>2. ~NoneWorks'
                    BY <1>1, <4>1 DEF NoneWorks
                <5>. QED
                    BY <2>8, <5>1, <5>2 DEF StateTells
            <4>10. Releases'
                <5>1. ASSUME NEW u \in Threads, u # t PROVE ReleasedBy(u)'
                    BY <1>4, <2>5, <2>9, <4>1, <5>1 DEF Ordered, Releases
                <5>. QED
                    BY <2>8, <5>1 DEF Releases
            <4>. QED
                BY <2>8, <3>2, <4>4, <4>6, <4>7, <4>8, <4>9, <4>10 DEF Ordered, Turns
        <3>. QED
            BY <3>3, <3>4
    <2>. QED
        BY <2>7, <2>9
<1>. QED
    BY <1>5, <1>6, <1>7 DEF HealthResult

LEMMA ChecksKeep ==
    ASSUME Base, ChildrenInv', Checks PROVE Base' /\ (Ordered => Ordered')
<1>1. /\ NewsTypes /\ ThreadTypes /\ ProcessTypes /\ SupTypes /\ Told /\ (tick = "asked" => sup.timer)
      /\ UNCHANGED <<pm, news, cf, host>> /\ Drained
    BY SameTells DEF Base, Threading, ChildrenInv, Released, Checks, Tick, Checked, Local, Resources,
        loopVars, processVars, tunnelVars, hostVars
<1>2. CASE UNCHANGED <<th, sup>> /\ (tick' = "asked" => sup.timer)
    <2>1. Stops' /\ Released' /\ SupTypes'
        BY <1>1, <1>2 DEF Base, Stops, Released, SupTypes
    <2>2. Ordered => Releases' /\ Down'
        BY <1>1, <1>2 DEF Ordered, Releases, ReleasedBy, Down
    <2>. QED
        BY <1>1, <1>2, <2>1, <2>2, OutsideKeeps
<1>3. CASE /\ sup.timer /\ tick' = "none"
           /\ HandleHealth("tick", RuntimeAnswers, pm.running, sup)
    <2>1. RuntimeAnswers \in BOOLEAN /\ pm.running \in BOOLEAN
        BY <1>1 DEF RuntimeAnswers, ProcessTypes
    <2>2. HealthResult("tick", sup)
        BY <1>1, <1>3, <2>1, HealthResults
    <2>. QED
        BY <1>1, <1>3, <2>2, HealthKeeps
<1>. QED
    BY <1>1, <1>2, <1>3 DEF Checks, Tick, Checked, loopVars

\* The child is forgotten, and a stop that waits for it succeeds.
LEMMA ExitKeeps ==
    ASSUME Base, ChildrenInv', NEW p \in Pids, RuntimeExits(p) PROVE Base' /\ (Ordered => Ordered')
<1>1. /\ NewsTypes /\ ThreadTypes /\ ProcessTypes /\ Stops /\ SupTypes /\ Drained /\ rp[p] = "gone"
      /\ p = pm.child /\ UNCHANGED <<cf, tick, host>>
    BY DEF Base, Threading, ChildrenInv, ChildLives, RuntimeExits, Exited, tunnelVars, hostVars
<1>2. /\ pm'.child = NoChild /\ ~pm'.stopping /\ ~pm'.starting
      /\ news' = [u \in Threads |-> IF th[u].on = <<"stopping">> THEN "ok"
                                    ELSE IF th[u].on = <<"starting">> THEN "fail" ELSE news[u]]
    BY <1>1 DEF RuntimeExits, Exited, ProcessTypes
<1>3. Told
    <2>1. NewsTypes'
        BY <1>1, <1>2 DEF NewsTypes
    <2>2. \A u \in Threads : news'[u] = news[u] \/ th[u].pc \in Services
        BY <1>1, <1>2, PromiseTells DEF Services
    <2>. QED
        BY <2>1, <2>2 DEF Told
<1>4. JustGone
    BY <1>1, <1>2, PromiseTells DEF JustGone
<1>5. CASE UNCHANGED <<th, sup>>
    <2>1. Stops' /\ Released' /\ SupTypes'
        BY <1>1, <1>4, <1>5 DEF Base, Stops, Released, SupTypes, JustGone
    <2>2. Ordered => Releases' /\ Down'
        BY <1>4, <1>5 DEF Ordered, Releases, ReleasedBy, Down, JustGone
    <2>. QED
        BY <1>1, <1>3, <1>5, <2>1, <2>2, OutsideKeeps
<1>6. CASE /\ Unexpected(p)
           /\ HandleHealth("exit", FALSE, FALSE, [sup EXCEPT !.runtimeStarted = FALSE])
    <2>1. ~pm.stopping
        BY <1>1, <1>6 DEF Unexpected, Stops
    <2>2. HealthResult("exit", [sup EXCEPT !.runtimeStarted = FALSE])
        BY <1>1, <1>6, HealthResults
    <2>. QED
        BY <1>1, <1>3, <1>4, <2>1, <2>2, HealthKeeps
<1>. QED
    BY <1>5, <1>6 DEF RuntimeExits

-----------------------------------------------------------------------------
(* The requests of the user *)

LEMMA RequestKeeps ==
    ASSUME Base, ChildrenInv', NEW c \in Callers, NEW op \in {"start", "stop", "restart", "exit"}, Request(c, op)
    PROVE  Base' /\ ((~overlapped => Ordered) => (~overlapped' => Ordered'))
<1>. USE DEF StartPcs, StopPcs, FreePcs, Joins, Services
<1>1. /\ Threading /\ ThreadTypes /\ NewsTypes /\ c \in Threads /\ th[c].pc = "idle" /\ th[c].on = NoPromise
      /\ UNCHANGED <<pm, news, cf, sup, tick>> /\ Drained /\ Paused
      /\ Allowed(op) /\ overlapped' = (overlapped \/ Unordered(op)) /\ host' = IF op = "exit" THEN "closed" ELSE host
      /\ th' = [th EXCEPT ![c].op = op, ![c].pc = IF op = "start" THEN "start" ELSE "stop"]
    BY CallersAndTimers DEF Request, At, Base, Threading, ThreadTypes, Hears, Resources, Drained
<1>2. th[c].ctx = "none" /\ ~Works(c)
    BY <1>1, PlaceTells DEF Works, Ctx
<1>3. PICK pc \in {"start", "stop"} :
        Others(c) /\ Becomes(c, pc, "none", NoPromise) /\ (pc = "start" <=> op = "start")
    BY <1>1, <1>2 DEF ThreadTypes, Fields, Others, Becomes
<1>4. Hears(pc, NoPromise) /\ Fits(c, pc, "none") /\ pc # "procStopping"
    BY <1>3 DEF Hears, Fits, Lifecycle, Recovery
<1>5. Threading' /\ Stops'
    BY <1>1, <1>3, <1>4, ThreadOnly
<1>6. Base'
    BY <1>1, <1>5 DEF Base, SupTypes, Released
<1>7. ASSUME Ordered, ~Unordered(op) PROVE Ordered'
    <2>1. /\ \A u \in Threads : Ctx(u)' = Ctx(u) /\ (Works(u)' <=> Works(u))
          /\ \A u \in Threads \ {c} : th'[u] = th[u]
          /\ th'[c].pc = pc
        BY <1>2, <1>3 DEF Others, Becomes, Ctx, Works
    <2>2. NoneWorks' <=> NoneWorks
        BY <2>1 DEF NoneWorks
    <2>3. \A u \in Threads : Ctx(u) # "error"
        BY <1>7 DEF Unordered, Ctx
    <2>4. \/ /\ host = "open" /\ \A d \in Callers : At(d, "idle")
          \/ /\ host = "starting" /\ op = "exit" /\ c # "cli" /\ Ctx("cli") \in Lifecycle
             /\ \A d \in Callers : d # "cli" => At(d, "idle")
        <3>1. CASE host = "open"
            BY <1>7, <3>1 DEF Unordered
        <3>2. CASE host = "starting" /\ op = "exit"
            <4>1. ~At("cli", "begin") /\ ~At("cli", "start")
                BY <1>1, WaitingPlaces, CallersAndTimers DEF Paused, At
            <4>2. Ctx("cli") \in Lifecycle /\ \A d \in Callers : d # "cli" => At(d, "idle")
                BY <1>7, <3>2, <4>1 DEF Ordered, Turns, FirstStart
            <4>3. c # "cli"
                BY <1>2, <4>2 DEF Works, Lifecycle
            <4>. QED
                BY <3>2, <4>2, <4>3
        <3>. QED
            BY <1>1, <3>1, <3>2 DEF Allowed
    <2>5. Recorded' /\ OneWorks'
        BY <1>1, <1>7, <2>1, <2>3 DEF Ordered, Turns, Recorded, OneWorks
    <2>6. OneCalls'
        <3>1. ASSUME NEW d \in Callers, d # c, ~At(d, "idle")' PROVE Leads(d, c)'
            <4>1. ~At(d, "idle")
                BY <2>1, <3>1, CallersAndTimers DEF At
            <4>2. d = "cli" /\ op = "exit" /\ Ctx(d) \in Lifecycle
                BY <2>4, <4>1
            <4>3. pc = "stop"
                BY <1>3, <4>2
            <4>. QED
                BY <2>1, <4>2, <4>3, CallersAndTimers DEF Leads, Lifecycle
        <3>2. ASSUME NEW d \in Callers, NEW e \in Callers, d # c, e # c, ~At(d, "idle")', ~At(e, "idle")' PROVE d = e
            <4>1. ~At(d, "idle") /\ ~At(e, "idle")
                BY <2>1, <3>2, CallersAndTimers DEF At
            <4>. QED
                BY <2>4, <4>1
        <3>. QED
            BY <3>1, <3>2 DEF OneCalls
    <2>7. FirstStart'
        BY <1>1, <2>4 DEF FirstStart
    <2>8. TakesTurns'
        <3>1. ASSUME NEW u \in Threads, u # c PROVE TurnOf(u)'
            <4>1. TurnOf(u) /\ th'[u] = th[u] /\ th[u].pc \notin {"startAgain", "begin", "stopGo", "stopAgain"}
                BY <1>1, <1>7, <2>1, <3>1, WaitingPlaces DEF Ordered, Turns, TakesTurns, Paused
            <4>. QED
                BY <1>1, <2>2, <4>1 DEF TurnOf
        <3>2. pc = "start" => sup.state # "DEGRADED"
            BY <1>3, <1>7 DEF Unordered
        <3>3. TurnOf(c)'
            BY <1>1, <2>1, <3>2 DEF TurnOf
        <3>. QED
            BY <3>1, <3>3 DEF TakesTurns
    <2>9. StateTells'
        <3>1. ASSUME NEW u \in Threads PROVE StateFits(u)'
            <4>1. StateFits(u) /\ (Works(u) => th'[u] = th[u])
                BY <1>2, <1>7, <2>1 DEF Ordered, StateTells
            <4>. QED
                BY <1>1, <2>1, <4>1 DEF StateFits, Works
        <3>. QED
            BY <1>1, <1>7, <2>2, <3>1 DEF Ordered, StateTells
    <2>10. Releases'
        <3>1. ASSUME NEW u \in Threads, u # c PROVE ReleasedBy(u)'
            BY <1>1, <1>7, <2>1, <3>1 DEF Ordered, Releases, ReleasedBy
        <3>2. ReleasedBy(c)'
            BY <2>1 DEF ReleasedBy, AfterTunnel
        <3>. QED
            BY <3>1, <3>2 DEF Releases
    <2>11. Down'
        BY <1>1, <1>7 DEF Ordered, Down
    <2>. QED
        BY <2>5, <2>6, <2>7, <2>8, <2>9, <2>10, <2>11 DEF Ordered, Turns
<1>. QED
    BY <1>1, <1>6, <1>7

-----------------------------------------------------------------------------
(* The whole *)

LEMMA OrderStarts == SupervisorInit => SupervisorInv
<1>. SUFFICES ASSUME SupervisorInit PROVE SupervisorInv
    OBVIOUS
<1>. USE DEF StartPcs, StopPcs, FreePcs, Joins, Services
<1>1. /\ news = [t \in Threads |-> "none"]
      /\ th = [t \in Threads |-> IF t = "cli" THEN [Idle EXCEPT !.op = "start", !.pc = "start"] ELSE Idle]
      /\ tick = "none" /\ host = "starting"
      /\ pm.child = NoChild /\ ~pm.stopping /\ ~pm.starting /\ cf.child = NoCloud /\ ~cf.starting
    BY DEF SupervisorInit, ProcessInit, CloudInit
<1>2. \A t \in Threads : /\ th[t].pc = (IF t = "cli" THEN "start" ELSE "idle")
                         /\ th[t].ctx = "none" /\ th[t].on = NoPromise /\ th[t].bad = FALSE
                         /\ DOMAIN th[t] = Fields /\ news[t] = "none"
    BY <1>1 DEF Idle, Fields
<1>3. PICK limit \in Limits :
        sup = [state |-> "STOPPED", monitoring |-> FALSE, timer |-> FALSE,
               lifecycle |-> Nobody, recovery |-> Nobody,
               runtimeStarted |-> FALSE, tunnelStarted |-> FALSE,
               attempts |-> 0, failures |-> 0, limit |-> limit]
    BY DEF SupervisorInit
<1>4. /\ sup.state = "STOPPED" /\ ~sup.timer /\ ~sup.tunnelStarted /\ sup.lifecycle = Nobody /\ sup.recovery = Nobody
      /\ SupTypes
    BY <1>3 DEF SupTypes, SupFields
<1>5. \A t \in Threads : Fits(t, th[t].pc, th[t].ctx) /\ Hears(th[t].pc, th[t].on) /\ ~Works(t) /\ Ctx(t) = "none"
    BY <1>2, CallersAndTimers DEF Fits, Hears, Works, Ctx, Lifecycle, Recovery
<1>6. Threading
    <2>1. NewsTypes /\ DOMAIN th = Threads
        BY <1>1 DEF NewsTypes
    <2>2. ThreadTypes
        BY <1>2, <1>5, <2>1 DEF ThreadTypes
    <2>3. OneRuns
        BY <1>2, WaitingPlaces DEF OneRuns
    <2>. QED
        BY <2>1, <2>2, <2>3 DEF Threading
<1>7. Base
    BY <1>1, <1>2, <1>4, <1>6, ChildrenStart DEF Base, Stops, Released
<1>8. Turns
    <2>1. Recorded
        BY <1>4, <1>5, CallersAndTimers DEF Recorded, Lifecycle, Recovery
    <2>2. OneWorks
        BY <1>5 DEF OneWorks
    <2>3. OneCalls /\ FirstStart
        BY <1>2, <1>4, CallersAndTimers DEF OneCalls, FirstStart, At
    <2>4. TakesTurns
        BY <1>2, <1>4 DEF TakesTurns, TurnOf
    <2>. QED
        BY <2>1, <2>2, <2>3, <2>4 DEF Turns
<1>9. StateTells /\ Releases /\ Down
    BY <1>1, <1>2, <1>4, <1>5 DEF StateTells, StateFits, Releases, ReleasedBy, AfterTunnel, Down
<1>. QED
    BY <1>7, <1>8, <1>9 DEF SupervisorInv, Ordered

LEMMA OrderKept == SupervisorInv /\ [Next]_vars => SupervisorInv'
<1>. SUFFICES ASSUME SupervisorInv, [Next]_vars PROVE SupervisorInv'
    OBVIOUS
<1>1. Base /\ ChildrenInv' /\ (~overlapped => Ordered)
    BY ChildrenKept DEF SupervisorInv, Base
<1>2. ASSUME UNCHANGED overlapped, Base' /\ (Ordered => Ordered') PROVE SupervisorInv'
    BY <1>1, <1>2 DEF SupervisorInv
<1>3. ASSUME NEW t \in Threads, Call(t) PROVE SupervisorInv'
    <2>1. UNCHANGED overlapped
        BY <1>3 DEF Call, Starting, Stopping, Start, StartAgain, Begin, Spawn, Started, Serving, StartFailed,
            Stop, StopAgain, StopGo, StopTunnel, StopProcess, StoppedBy, StartCleaned, Recovering, RecoveryFailed,
            End, Return, Local, hostVars
    <2>2. CASE Starting(t)
        BY <1>1, <1>2, <2>1, <2>2, StartKeeps, StartAgainKeeps, BeginKeeps, SpawnKeeps, StartedKeeps,
            ServingKeeps, StartFailedKeeps DEF Starting
    <2>3. CASE Stopping(t)
        BY <1>1, <1>2, <2>1, <2>3, StopKeeps, StopAgainKeeps, BeginKeeps, StopTunnelKeeps, StopProcessKeeps,
            StoppedByKeeps, StartCleanedKeeps, RecoveringKeeps, RecoveryFailedKeeps DEF Stopping
    <2>4. CASE End(t) \/ Return(t)
        BY <1>1, <1>2, <2>1, <2>4, EndKeeps, StartAgainKeeps
    <2>. QED
        BY <1>3, <2>2, <2>3, <2>4 DEF Call
<1>4. ASSUME NEW t \in Threads, Resumes(t) PROVE SupervisorInv'
    <2>1. UNCHANGED overlapped
        BY <1>4 DEF Resumes, hostVars
    <2>. QED
        BY <1>1, <1>2, <1>4, <2>1, WorkerResumes, CallerResumes
<1>5. ASSUME NEW t \in Threads, Health(t) PROVE SupervisorInv'
    <2>1. UNCHANGED overlapped
        BY <1>5 DEF Health, RuntimeHealthy, RuntimeUnhealthy, hostVars
    <2>. QED
        BY <1>1, <1>2, <1>5, <2>1, RuntimeHealthyKeeps, RuntimeUnhealthyKeeps DEF Health
<1>6. CASE Checks
    <2>1. UNCHANGED overlapped
        BY <1>6 DEF Checks, Tick, Checked, Local, hostVars
    <2>. QED
        BY <1>1, <1>2, <1>6, <2>1, ChecksKeep
<1>7. CASE Processes \/ Connector \/ Breaks
    <2>1. ASSUME NEW p \in Pids, \/ RuntimeSpawned(p) \/ RuntimeSpawnFails(p) \/ RuntimeCrashes(p)
                                 \/ RuntimeDies(p) \/ RuntimeHangs(p)
          PROVE  SupervisorInv'
        <3>1. UNCHANGED overlapped
            BY <2>1 DEF RuntimeSpawned, RuntimeSpawnFails, RuntimeCrashes, RuntimeDies, RuntimeHangs, ProcessOnly, hostVars
        <3>. QED
            BY <1>1, <1>2, <2>1, <3>1, ProcessEvents
    <2>2. ASSUME NEW p \in Pids, RuntimeExits(p) PROVE SupervisorInv'
        <3>1. UNCHANGED overlapped
            BY <2>2 DEF RuntimeExits, hostVars
        <3>. QED
            BY <1>1, <1>2, <2>2, <3>1, ExitKeeps
    <2>3. CASE RuntimeSurvives
        <3>1. UNCHANGED overlapped
            BY <2>3 DEF RuntimeSurvives, ProcessOnly, hostVars
        <3>. QED
            BY <1>1, <1>2, <2>3, <3>1, SurvivesKeeps
    <2>4. CASE Connector \/ \E c \in Cids : CloudCrashes(c) \/ CloudSurvives(c)
        <3>1. UNCHANGED overlapped
            BY <2>4 DEF Connector, CloudReady, CloudFails, CloudEvent, CloudDies, CloudCrashes, CloudSurvives,
                TunnelOnly, hostVars
        <3>. QED
            BY <1>1, <1>2, <2>4, <3>1, TunnelEvents
    <2>. QED
        BY <1>7, <2>1, <2>2, <2>3, <2>4 DEF Processes, Breaks
<1>8. CASE Requests
    BY <1>1, <1>8, RequestKeeps DEF Requests, SupervisorInv
<1>9. CASE UNCHANGED vars
    <2>1. UNCHANGED <<th, sup, host, news, pm, cf, tick, overlapped>>
        BY <1>9 DEF vars
    <2>2. Told /\ Stops' /\ Released' /\ SupTypes' /\ (Ordered => Releases' /\ Down')
        BY <1>1, <2>1, SameTells DEF Base, Threading, Stops, Released, SupTypes, Ordered, Releases, ReleasedBy, Down
    <2>. QED
        BY <1>1, <1>2, <2>1, <2>2, OutsideKeeps
<1>. QED
    BY <1>3, <1>4, <1>5, <1>6, <1>7, <1>8, <1>9 DEF Next, Calls

\* Whatever fails, and in whatever order, as long as the user's requests are those
\* that the supervisor orders: a supervisor that says STOPPED or ERROR with no call
\* under way owns no tunnel, no timer and no process, but for one that a stop has
\* killed and not seen end (supervisor.ts:148-169, 284-298, 359-383).
THEOREM DownAlwaysOwnsNothing == FairSpec => []DownOwnsNothing
<1>1. SupervisorInv => DownOwnsNothing
    BY DEF SupervisorInv, Ordered, Base, Released, Down, DownOwnsNothing
<1>. QED
    BY <1>1, OrderStarts, OrderKept, PTL DEF FairSpec, Spec
==============================================================================

----------------------------- MODULE DesktopLink -----------------------------
(***************************************************************************)
(* The runtime's link to Codex Desktop (desktop-ipc-client.ts, desktop-    *)
(* ipc-observer.ts, desktop-sync-state.ts) and what rests on it: the tools *)
(* pipe a hook hands over (desktop-tools-pipe-handoff.ts), the pipe that   *)
(* an execution is given (desktop-tools-pipe-resolver.ts) and the one-shot *)
(* opening of a thread (desktop-thread-activator.ts).                      *)
(*                                                                         *)
(* A state change runs through all of them in one turn of the event loop,  *)
(* so they are one record; the order of the calls is the order in which    *)
(* the operators are applied.                                              *)
(***************************************************************************)
EXTENDS Naturals, Sequences, FiniteSets, TLC

CONSTANTS
    Announced,              \* the messages of Desktop
    MaxDesktops,            \* the Desktops started, one pipe each: 1 .. MaxDesktops
    Links                   \* per behaviour: how often a connection breaks or hangs, Desktop
                            \* announces and its hook calls, and the pipe the runtime has
                            \* inherited: [drops, messages, posts, inherited]

CONSTANT Nil

Sockets == {1, 2}  \* at most two at a time: a close comes long before the next reconnect
Pipes == 1 .. MaxDesktops

ASSUME DesktopAssumption ==
    /\ \A m \in Announced : m.kind \in {"result", "news", "refused", "stray", "bad", "torn"}
    /\ Nil \notin Sockets
    /\ MaxDesktops \in Nat /\ \A l \in Links : {l.drops, l.messages, l.posts} \subseteq Nat

VARIABLES host,     \* the objects of the runtime
          wire,     \* the connection: sockets, messages in flight, calls of the hook
          desktop   \* Codex Desktop and what is left of the bounds

desktopVars == <<host, wire, desktop>>

-----------------------------------------------------------------------------
(* DesktopToolsPipeHandoff *)

Discard(h) == [h EXCEPT !.pending = Nil]

Promote(h) ==
    [Discard(h) EXCEPT !.capability = [pipe |-> h.pending.pipe, owner |-> h.owner], !.accepted = TRUE]

OwnerMoved(h) == h.seen /\ h.seenOwner # Nil /\ h.owner # h.seenOwner

\* a disconnect that leaves what is pending to its timer
OfflineKeepsPending(h) == [h EXCEPT !.capability = Nil, !.seen = FALSE, !.seenOwner = Nil]

\* observeDesktopState: a capability lives as long as the owner it was bound to
ObserveOffline(h) == [Discard(h) EXCEPT !.capability = Nil, !.seen = FALSE, !.seenOwner = Nil]

ObserveOnline(h) ==
    LET kept == IF h.capability # Nil /\ h.capability.owner # h.owner
                THEN [h EXCEPT !.capability = Nil] ELSE h
        next == IF kept.pending = Nil THEN kept
                ELSE IF kept.pending.late \/ OwnerMoved(h) THEN Discard(kept)
                ELSE IF h.owner # Nil THEN Promote(kept)
                ELSE kept
    IN  [next EXCEPT !.seen = TRUE, !.seenOwner = h.owner]

ObserveHandoff(h) == IF h.online THEN ObserveOnline(h) ELSE ObserveOffline(h)

Accept(h, p) == [Discard(h) EXCEPT !.capability = [pipe |-> p, owner |-> h.owner], !.accepted = TRUE]

PendingSince(h, p) == h.pending # Nil /\ h.pending.pipe = p /\ ~h.pending.late

PipeFor(h) == IF h.online /\ h.owner # Nil /\ h.capability # Nil /\ h.capability.owner = h.owner
              THEN h.capability.pipe ELSE Nil

HandoffPending(h) == PipeFor(h) = Nil /\ h.online /\ h.pending # Nil /\ ~h.pending.late

\* DesktopToolsPipeResolver.resolve: once a pipe was handed over, never the inherited one
Resolved(h) ==
    IF PipeFor(h) # Nil THEN PipeFor(h)
    ELSE IF h.accepted \/ ~h.online THEN Nil ELSE h.inherited

-----------------------------------------------------------------------------
(* DesktopThreadActivator: the attempts that still await the bindings, and *)
(* whether the generation they started in is still the current one         *)

NextGeneration(h) == [h EXCEPT !.attempts = {"stale" : a \in @}]

ObserveActivation(h) ==
    IF h.disposed THEN h
    ELSE IF ~h.online THEN [NextGeneration(h) EXCEPT !.tried = FALSE]
    ELSE IF h.owner # Nil THEN [NextGeneration(h) EXCEPT !.tried = TRUE]
    ELSE IF h.tried \/ ~HandoffPending(h) THEN h
    ELSE [h EXCEPT !.tried = TRUE, !.attempts = @ \cup {"current"}]

\* without a look at the generation once the bindings are read
MayOpenInAny(h, a) == ~h.disposed /\ h.online /\ h.owner = Nil /\ HandoffPending(h)

MayOpen(h, a) ==
    /\ a = "current" /\ ~h.disposed
    /\ h.online /\ h.owner = Nil /\ HandoffPending(h)

\* stagePending, with the listener of its lifecycle event
Stage(h, p) ==
    IF PendingSince(h, p) THEN h
    ELSE ObserveActivation([h EXCEPT !.capability = Nil, !.pending = [pipe |-> p, late |-> FALSE]])

-----------------------------------------------------------------------------
(* DesktopSyncStateStore: every change is handed to its listener *)

Notify(h) == IF h.disposed THEN h ELSE ObserveActivation(ObserveHandoff(h))

\* a store that holds on to what it was told before
KeepEvidence(h) == h

Forget(h) == [h EXCEPT !.conversation = Nil, !.owner = Nil]

GoOnline(h) == IF h.online THEN h ELSE Notify([Forget(h) EXCEPT !.online = TRUE])

GoOffline(h) ==
    IF ~h.online /\ h.conversation = Nil /\ h.owner = Nil THEN h
    ELSE Notify([Forget(h) EXCEPT !.online = FALSE])

OrElse(new, old) == IF new # Nil THEN new ELSE old

Evidence(h, m) == [h EXCEPT !.conversation = OrElse(m.conversation, @), !.owner = OrElse(m.owner, @)]

\* applyEvent notifies always, applyInitializeResult only when it was told something
Learn(h, m) ==
    IF m.kind = "result" /\ m.conversation = Nil /\ m.owner = Nil THEN h ELSE Notify(Evidence(h, m))

-----------------------------------------------------------------------------
(* DesktopIPCClient *)

FreeSocket(old) == CHOOSE s \in Sockets : s \notin old

Connect(h, old) ==
    IF ~h.running \/ h.socket # Nil THEN h
    ELSE [h EXCEPT !.socket = FreeSocket(old), !.dialing = TRUE]

ScheduleReconnect(h) == IF h.running THEN [h EXCEPT !.retry = TRUE] ELSE h

\* a reconnect only after a connection that stood
DisconnectOpen(h, s) ==
    IF h.socket # s THEN h
    ELSE LET left == [h EXCEPT !.socket = Nil, !.dialing = FALSE, !.asked = FALSE, !.connected = FALSE]
         IN  IF h.connected THEN ScheduleReconnect(GoOffline(left)) ELSE left

\* the events of a socket that is no longer the current one change nothing
Disconnect(h, s) ==
    IF h.socket # s THEN h
    ELSE LET left == [h EXCEPT !.socket = Nil, !.dialing = FALSE, !.asked = FALSE, !.connected = FALSE]
         IN  ScheduleReconnect(IF h.connected THEN GoOffline(left) ELSE left)

Handle(h, m, s) ==
    CASE m.kind = "bad" -> h
      [] m.kind \in {"stray", "refused", "result"} /\ (m.kind = "stray" \/ ~h.asked) -> h
      [] m.kind = "refused" /\ h.asked -> Disconnect([h EXCEPT !.asked = FALSE], s)
      [] m.kind = "result" /\ h.asked -> Learn([h EXCEPT !.asked = FALSE], m)
      [] OTHER -> Learn(h, m)

\* handleData: the frames of a chunk are handled to the end, also after one of
\* them has disconnected; a header that cannot be read loses the whole chunk
HandleData(h, chunk) ==
    LET after[i \in 0 .. Len(chunk)] ==
          IF i = 0 THEN h ELSE Handle(after[i - 1], chunk[i], h.socket)
    IN  IF \E i \in DOMAIN chunk : chunk[i].kind = "torn" THEN h ELSE after[Len(chunk)]

-----------------------------------------------------------------------------
DesktopInit ==
    /\ \E l \in Links :
         desktop = [up |-> FALSE, starts |-> 0] @@ l
    /\ host = [running |-> FALSE, socket |-> Nil, dialing |-> FALSE, connected |-> FALSE,
                 asked |-> FALSE, retry |-> FALSE,
                 online |-> FALSE, conversation |-> Nil, owner |-> Nil,
                 capability |-> Nil, pending |-> Nil, accepted |-> FALSE, seen |-> FALSE, seenOwner |-> Nil,
                 inherited |-> desktop.inherited, tried |-> FALSE, attempts |-> {}, disposed |-> FALSE]
    /\ wire = [old |-> {}, inbox |-> <<>>, said |-> {Nil}, posts |-> {}, handed |-> {}, opened |-> 0]

\* startApp, at its end
StartObserver ==
    /\ ~host.running /\ ~host.disposed /\ wire.old = {}
    /\ host' = Connect([host EXCEPT !.running = TRUE], wire.old)
    /\ UNCHANGED <<wire, desktop>>

\* the close of the server: cleanupDesktopToolsPipeLifecycle, then the observer
StopObserver ==
    /\ ~host.disposed
    /\ host' = [Forget(Discard(NextGeneration(host))) EXCEPT
                   !.disposed = TRUE, !.capability = Nil, !.running = FALSE, !.retry = FALSE,
                   !.dialing = FALSE, !.asked = FALSE, !.socket = Nil, !.connected = FALSE, !.online = FALSE]
    /\ wire' = [wire EXCEPT !.old = IF host.socket = Nil THEN @ ELSE @ \cup {host.socket},
                            !.inbox = <<>>, !.posts = {}]
    /\ UNCHANGED desktop

\* the connect event: the store goes online before the request is written
Connected ==
    /\ host.dialing /\ desktop.up
    /\ host' = [GoOnline([host EXCEPT !.dialing = FALSE, !.connected = TRUE]) EXCEPT !.asked = TRUE]
    /\ wire' = [wire EXCEPT !.inbox = <<>>, !.said = {Nil}, !.handed = {}, !.opened = 0]
    /\ UNCHANGED desktop

LosesLine(closing) ==
    /\ host' = Disconnect(host, host.socket)
    /\ wire' = [wire EXCEPT !.old = IF closing THEN @ \cup {host.socket} ELSE @, !.inbox = <<>>]

\* an error or the connect timer: disconnect, then destroy, whose close comes later
DialFails == host.dialing /\ LosesLine(TRUE)

\* end, error or close of an open connection
LineEnds == host.connected /\ \E closing \in BOOLEAN : LosesLine(closing)

Drops == desktop.drops > 0 /\ desktop' = [desktop EXCEPT !.drops = @ - 1] /\ (DialFails \/ LineEnds)

DesktopGone == ~desktop.up /\ (DialFails \/ LineEnds) /\ UNCHANGED desktop

OldCloses(s) ==
    /\ s \in wire.old
    /\ host' = Disconnect(host, s)
    /\ wire' = [wire EXCEPT !.old = @ \ {s}]
    /\ UNCHANGED desktop

\* the timer of scheduleReconnect
Reconnect ==
    /\ host.retry /\ wire.old # Sockets
    /\ host' = Connect([host EXCEPT !.retry = FALSE], wire.old)
    /\ UNCHANGED <<wire, desktop>>

ReceiveData ==
    /\ host.connected
    /\ \E n \in 1 .. Len(wire.inbox) :
         LET next == HandleData(host, SubSeq(wire.inbox, 1, n)) IN
         /\ host' = next
         /\ wire' = [wire EXCEPT
              !.inbox = IF next.connected THEN SubSeq(@, n + 1, Len(@)) ELSE <<>>,
              !.old = IF next.connected THEN @ ELSE @ \cup {host.socket}]
    /\ UNCHANGED desktop

\* POST of the launcher route, once its body is read: the server of a disposed
\* runtime has no calls left
TakeHandoff(p) ==
    /\ p \in wire.posts
    /\ LET next == IF ~host.online THEN host
                   ELSE IF host.owner = Nil THEN Stage(host, p) ELSE Accept(host, p)
       IN  host' = next
    /\ wire' = [wire EXCEPT !.posts = @ \ {p}, !.handed = IF host.online THEN @ \cup {p} ELSE @]
    /\ UNCHANGED desktop

TimePasses ==
    /\ host.pending # Nil /\ ~host.pending.late
    /\ host' = [host EXCEPT !.pending.late = TRUE]
    /\ UNCHANGED <<wire, desktop>>

\* the timer of schedulePendingExpiry
PendingExpires ==
    /\ host.pending # Nil /\ host.pending.late
    /\ host' = Discard(host)
    /\ UNCHANGED <<wire, desktop>>

\* the bindings are read: there is one to open, or there is none
Activate(a) ==
    /\ a \in host.attempts
    /\ host' = [host EXCEPT !.attempts = @ \ {a}]
    /\ wire' = [wire EXCEPT !.opened = IF MayOpen(host, a) THEN @ + 1 ELSE @]
    /\ UNCHANGED desktop

NothingToOpen(a) ==
    /\ a \in host.attempts
    /\ host' = [host EXCEPT !.attempts = @ \ {a}]
    /\ UNCHANGED <<wire, desktop>>

-----------------------------------------------------------------------------
(* Codex Desktop: it starts, announces, runs its hook and ends *)

DesktopStarts ==
    /\ ~desktop.up /\ desktop.starts < MaxDesktops
    /\ desktop' = [desktop EXCEPT !.up = TRUE, !.starts = @ + 1]
    /\ UNCHANGED <<host, wire>>

DesktopEnds ==
    /\ desktop.up
    /\ desktop' = [desktop EXCEPT !.up = FALSE]
    /\ UNCHANGED <<host, wire>>

Announces ==
    /\ desktop.up /\ host.connected /\ desktop.messages > 0
    /\ \E m \in Announced :
         wire' = [wire EXCEPT !.inbox = Append(@, m), !.said = @ \cup {m.conversation, m.owner}]
    /\ desktop' = [desktop EXCEPT !.messages = @ - 1]
    /\ UNCHANGED host

HookPosts ==
    /\ desktop.up /\ desktop.posts > 0 /\ ~host.disposed
    /\ wire' = [wire EXCEPT !.posts = @ \cup {desktop.starts}]
    /\ desktop' = [desktop EXCEPT !.posts = @ - 1]
    /\ UNCHANGED host

LinkStep ==
    \/ Connected \/ Drops \/ DesktopGone \/ Reconnect \/ ReceiveData
    \/ TimePasses \/ PendingExpires
    \/ \E s \in Sockets : OldCloses(s)
    \/ \E p \in Pipes : TakeHandoff(p)
    \/ \E a \in {"current", "stale"} : Activate(a) \/ NothingToOpen(a)

DesktopNext ==
    \/ LinkStep \/ StartObserver \/ StopObserver
    \/ DesktopStarts \/ DesktopEnds \/ Announces \/ HookPosts

\* The event loop runs what is due: the events of the sockets and the timers.
DesktopFairness ==
    /\ WF_desktopVars(Connected) /\ WF_desktopVars(DesktopGone)
    /\ WF_desktopVars(Reconnect \/ \E s \in Sockets : OldCloses(s))

-----------------------------------------------------------------------------
(* Properties *)

\* What a runtime that is connected says of Desktop was announced on this
\* connection: nothing of an earlier Desktop or of a refused connection is left.
EvidenceIsCurrent ==
    /\ host.online = host.connected
    /\ host.online => {host.conversation, host.owner} \subseteq wire.said

\* The pipe an execution is given was handed over since the connection came up,
\* or it is the inherited one of a runtime that was never handed any.
PipeOfConnection ==
    LET p == Resolved(host) IN
    p # Nil => p \in wire.handed \/ (p = host.inherited /\ ~host.accepted)

\* A connection opens a thread at most once, and none after the runtime has ended.
ActivatedOnce == wire.opened <= 1

\* What the runtime knows of Desktop, the pipe it hands out and the thread it
\* opens belong to the connection there is, and not to one before it.
OnlyThisConnection == EvidenceIsCurrent /\ PipeOfConnection /\ ActivatedOnce

\* A runtime whose connection is gone connects again as long as Desktop runs.
Reconnects == []<>(host.connected \/ ~desktop.up \/ ~host.running)
=============================================================================

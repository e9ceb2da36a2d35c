-------------------------- MODULE ExtensionDelivery --------------------------
(***************************************************************************)
(* The durable command service of Local Review MCP                         *)
(* (control-plane/extension-delivery.ts).  It keeps one command per        *)
(* physical delivery id, leases a command to exactly one browser document  *)
(* at a time, and records at most one receipt per command.                 *)
(*                                                                         *)
(* Every operation runs inside one exclusive queue and writes the whole    *)
(* state to disk before it changes memory, so one operation is one atomic  *)
(* action and a crash of the runtime loses only the in-memory waiters.     *)
(*                                                                         *)
(* Abstractions.  A physical id is the number of the command in creation   *)
(* order, which is also the order of the code's Map.  A lease deadline is  *)
(* kept as the ticks left before it; the message is determined by the key; *)
(* errors are kept as the classes the code distinguishes.                  *)
(***************************************************************************)
EXTENDS Integers, FiniteSets

CONSTANTS
    Conversations,     \* ChatGPT conversations
    Owners,            \* (client, document, navigation epoch) triples that claim
    ConversationOf,    \* the conversation each owner has open
    ReviewKeys,        \* logical ids that name a ReviewDelivery
    NoticeKeys,        \* logical ids "goal-human-required-..."
    FailureKeys,       \* logical ids of an Execution's failure notification
    NoKey,             \* an absent logical_delivery_id
    NoOwner,           \* the owner of an absent lease or receipt
    Callers,           \* callers that can wait in awaitResult
    MaxCommands,       \* bound: commands ever created
    MaxDeliveries,     \* MAX_DELIVERIES, the capacity of the durable queue
    LeaseTicks         \* EXTENSION_DELIVERY_LEASE_MS, in ticks

Keys == ReviewKeys \cup NoticeKeys \cup FailureKeys
Ids == 1 .. MaxCommands

ASSUME OwnersAssumption ==
    /\ Conversations # {}
    /\ ConversationOf \in [Owners -> Conversations]
    /\ NoOwner \notin Owners
ASSUME KeysAssumption ==
    /\ NoKey \notin Keys
    /\ ReviewKeys \cap (NoticeKeys \cup FailureKeys) = {}
    /\ NoticeKeys \cap FailureKeys = {}
ASSUME BoundsAssumption ==
    /\ MaxCommands \in Nat
    /\ MaxDeliveries \in Nat \ {0}
    /\ LeaseTicks \in Nat \ {0}

VARIABLES
    deliveries,   \* [Ids -> Command]: the two Maps of the service
    saved,        \* [Keys -> Copy]: extension_transport of a review or execution
    settled,      \* review keys whose ReviewDelivery says "delivered"
    waiting,      \* [Callers -> id each caller waits for, 0 if none]
    nextId,       \* the next physical id
    origin        \* history: the key each command was created under

vars == <<deliveries, saved, settled, waiting, nextId, origin>>

-----------------------------------------------------------------------------
(* Data *)

\* "retryable" is a not_sent whose error proves that nothing was submitted,
\* "refused" any other not_sent, "timed_out" the service's own ambiguous receipt.
AckOutcomes == {"sent", "retryable", "refused", "ambiguous"}
Outcomes == AckOutcomes \cup {"timed_out"}
Final == {"sent", "refused"}              \* final: neither ambiguous nor retryable
Unknown == {"ambiguous", "timed_out"}

\* retryableNotSent: the receipt proves that nothing was submitted.
RetryableNotSentOrDoubtful(receipt) == receipt.outcome \in {"retryable"} \cup Unknown
RetryableNotSentAnyFailure(receipt) == receipt.outcome \in {"retryable", "refused"}
RetryableNotSent(receipt) == receipt.outcome = "retryable"

StatusOf(outcome) ==
    CASE outcome = "sent" -> "delivered"
      [] outcome \in {"retryable", "refused"} -> "failed"
      [] OTHER -> "ambiguous"

Phases == {"queued", "leased", "delivered", "failed", "ambiguous"}
Places == {"nowhere", "queue", "archive"}
RecoveryErrors == {"navigation_failed", "unreachable"}  \* unreachable: NOT_FOUND, AUTH_REQUIRED

Leases == [owner: Owners, left: 0 .. LeaseTicks]
NoLease == [owner |-> NoOwner, left |-> 0]
Receipts == [owner: Owners, outcome: Outcomes]
NoReceipt == [owner |-> NoOwner, outcome |-> "none"]

Command == [at: Places, key: Keys \cup {NoKey}, conv: Conversations,
            phase: Phases, lease: Leases \cup {NoLease},
            receipt: Receipts \cup {NoReceipt},
            recovery: RecoveryErrors \cup {"none"}]

NewCommand(k, c) ==
    [at |-> "queue", key |-> k, conv |-> c, phase |-> "queued",
     lease |-> NoLease, receipt |-> NoReceipt, recovery |-> "none"]

\* An id that is in neither Map: never used, deleted or evicted.
Absent == NewCommand(NoKey, CHOOSE c \in Conversations : TRUE)
Nowhere == [Absent EXCEPT !.at = "nowhere"]

Copies == [id: Ids, receipt: Receipts]
NoCopy == [id |-> 0, receipt |-> NoReceipt]

First(S) == CHOOSE d \in S : \A e \in S : d <= e

InQueue(f) == {d \in Ids : f[d].at = "queue"}
HasReceipt(r) == r.receipt # NoReceipt
Terminal(r) == r.phase \in {"delivered", "failed", "ambiguous"}
Waited == {waiting[w] : w \in Callers} \ {0}

\* getByLogicalDeliveryId: memory first, then the archived notifications,
\* then the copy kept with the Execution or the ReviewDelivery.
Known(k) == {d \in Ids : deliveries[d].at # "nowhere" /\ deliveries[d].key = k}
ReceiptOf(k) ==
    IF Known(k) # {} THEN deliveries[First(Known(k))].receipt ELSE saved[k].receipt

TypeOK ==
    /\ deliveries \in [Ids -> Command]
    /\ saved \in [Keys -> Copies \cup {NoCopy}]
    /\ settled \in SUBSET ReviewKeys
    /\ waiting \in [Callers -> Ids \cup {0}]
    /\ nextId \in 1 .. MaxCommands + 1
    /\ origin \in [Ids -> Keys \cup {NoKey}]

Init ==
    /\ deliveries = [d \in Ids |-> Nowhere]
    /\ saved = [k \in Keys |-> NoCopy]
    /\ settled = {}
    /\ waiting = [w \in Callers |-> 0]
    /\ nextId = 1
    /\ origin = [d \in Ids |-> NoKey]

-----------------------------------------------------------------------------
(* enqueue *)

\* A candidate of the eviction loop: it has a definite receipt, nobody waits
\* for it, and its result stays reachable somewhere else if it has a key.
Evictable(f, d) ==
    /\ f[d].at = "queue"
    /\ HasReceipt(f[d]) /\ f[d].receipt.outcome \notin Unknown
    /\ d \notin Waited
    /\ \/ f[d].key = NoKey
       \/ f[d].key \in NoticeKeys \cup FailureKeys /\ f[d].receipt.outcome \in Final
       \/ f[d].key \in settled /\ f[d].phase = "delivered"

\* What the eviction of v leaves in the Maps and in the record that owns its key.
Evicted(f, v) ==
    IF f[v].key \in NoticeKeys THEN [f EXCEPT ![v].at = "archive"]
                               ELSE [f EXCEPT ![v] = Nowhere]
SavedNowhere(f, v) == saved
SavedWith(f, v) ==
    IF f[v].key \in ReviewKeys \cup FailureKeys
    THEN [saved EXCEPT ![f[v].key] = [id |-> v, receipt |-> f[v].receipt]]
    ELSE saved

\* Make room when the queue is full, then append the new command.
Append(f, k, c) ==
    LET full == Cardinality(InQueue(f)) >= MaxDeliveries
        victims == {d \in Ids : Evictable(f, d)}
        v == First(victims)
        room == IF full THEN Evicted(f, v) ELSE f
    IN  /\ nextId <= MaxCommands
        /\ full => victims # {}                 \* else "queue is full"
        /\ deliveries' = [room EXCEPT ![nextId] = NewCommand(k, c)]
        /\ saved' = IF full THEN SavedWith(f, v) ELSE saved
        /\ nextId' = nextId + 1
        /\ origin' = [origin EXCEPT ![nextId] = k]
        /\ UNCHANGED <<settled, waiting>>

\* A command for a key nothing is known of, or an unkeyed command.
EnqueueNew(k, c) ==
    /\ k # NoKey => Known(k) = {} /\ saved[k] = NoCopy
    /\ Append(deliveries, k, c)

\* The earlier command of this key is proved unsent: it gives up the key, and
\* the retry gets a fresh physical id that late acknowledgements cannot reach.
EnqueueRetry(k, c) ==
    \E d \in Known(k) :
        /\ deliveries[d].conv = c
        /\ RetryableNotSent(deliveries[d].receipt)
        /\ Append([deliveries EXCEPT ![d].key = NoKey], k, c)

\* The runtime stops, or the final write fails, after the copy was saved with
\* its record and before the command left the queue (a Restart may follow).
EvictionInterrupted ==
    /\ Cardinality(InQueue(deliveries)) >= MaxDeliveries
    /\ \E d \in Ids :
        /\ Evictable(deliveries, d)
        /\ \A e \in Ids : Evictable(deliveries, e) => d <= e
        /\ saved' = SavedWith(deliveries, d)
    /\ UNCHANGED <<deliveries, settled, waiting, nextId, origin>>

-----------------------------------------------------------------------------
(* claim *)

OwnLive(o) ==
    {d \in InQueue(deliveries) : /\ deliveries[d].phase = "leased"
                                 /\ deliveries[d].lease.owner = o
                                 /\ deliveries[d].lease.left > 0}

\* Every expired lease of the claimed conversation returns to the queue.
Requeued(o) ==
    [d \in Ids |->
        IF /\ deliveries[d].at = "queue" /\ deliveries[d].phase = "leased"
           /\ deliveries[d].conv = ConversationOf[o] /\ deliveries[d].lease.left = 0
        THEN [deliveries[d] EXCEPT !.phase = "queued", !.lease = NoLease]
        ELSE deliveries[d]]

Claimable(f, o) ==
    {d \in InQueue(f) : /\ f[d].phase = "queued"
                        /\ f[d].conv = ConversationOf[o]
                        /\ f[d].recovery = "none" \/ f[d].key \in NoticeKeys}

Grant(f, d, o) ==
    [f EXCEPT ![d].phase = "leased",
              ![d].lease = [owner |-> o, left |-> LeaseTicks]]

\* The command a claim of o returns, 0 for none.
Granted(o) ==
    IF OwnLive(o) # {} THEN First(OwnLive(o))
    ELSE LET open == Claimable(Requeued(o), o)
         IN  IF open = {} THEN 0 ELSE First(open)

AfterClaim(o) ==
    IF OwnLive(o) # {} THEN deliveries
    ELSE IF Granted(o) = 0 THEN Requeued(o)
    ELSE Grant(Requeued(o), Granted(o), o)

Claim(o) ==
    /\ deliveries' = AfterClaim(o)
    /\ UNCHANGED <<saved, settled, waiting, nextId, origin>>

-----------------------------------------------------------------------------
(* acknowledge, awaitResult, expire *)

Wake(d) == waiting' = [w \in Callers |-> IF waiting[w] = d THEN 0 ELSE waiting[w]]

FinishKeepingLease(d, o, outcome) ==
    deliveries' = [deliveries EXCEPT ![d].phase = StatusOf(outcome),
                                     ![d].receipt = [owner |-> o, outcome |-> outcome]]
Finish(d, o, outcome) ==
    deliveries' = [deliveries EXCEPT ![d].phase = StatusOf(outcome),
                                     ![d].lease = NoLease,
                                     ![d].receipt = [owner |-> o, outcome |-> outcome]]

\* The lease owner proves the result.  The deadline is not consulted.
AckFirst(d, o, outcome) ==
    /\ deliveries[d].at = "queue" /\ ~ HasReceipt(deliveries[d])
    /\ deliveries[d].phase = "leased" /\ deliveries[d].lease.owner = o
    /\ Finish(d, o, outcome)

\* A timeout receipt still yields to the owner it was recorded for.
AckLateFromAnyone(d, o, outcome) ==
    /\ deliveries[d].at = "queue" /\ deliveries[d].receipt.outcome = "timed_out"
    /\ Finish(d, o, outcome)
AckLate(d, o, outcome) ==
    /\ deliveries[d].at = "queue"
    /\ deliveries[d].receipt = [owner |-> o, outcome |-> "timed_out"]
    /\ Finish(d, o, outcome)

\* The status of the bridge's answer: 200 when the receipt was recorded or is
\* the same one again, 404 for an unknown command, 409 otherwise.
ReceiptById(d) ==
    IF deliveries[d].at # "nowhere" THEN deliveries[d].receipt
    ELSE IF \E k \in Keys : saved[k].id = d
         THEN saved[CHOOSE k \in Keys : saved[k].id = d].receipt ELSE NoReceipt
Found(d) == deliveries[d].at # "nowhere" \/ \E k \in Keys : saved[k].id = d
RecordableWhileLeased(d, o) ==
    deliveries[d].at = "queue" /\ deliveries[d].phase = "leased" /\ deliveries[d].lease.owner = o
Recordable(d, o) ==
    /\ deliveries[d].at = "queue"
    /\ \/ deliveries[d].receipt = [owner |-> o, outcome |-> "timed_out"]
       \/ deliveries[d].phase = "leased" /\ deliveries[d].lease.owner = o
AckAnswer(d, o, outcome) ==
    CASE ~ Found(d) -> 404
      [] Found(d) /\ (\/ Recordable(d, o)
                      \/ ReceiptById(d) = [owner |-> o, outcome |-> outcome]) -> 200
      [] OTHER -> 409

Acknowledge(d, o, outcome) ==
    /\ AckFirst(d, o, outcome) \/ AckLate(d, o, outcome)
    /\ Wake(d)
    /\ UNCHANGED <<saved, settled, nextId, origin>>

\* A caller registers for a result that is not there yet.
AwaitResult(w, d) ==
    /\ waiting[w] = 0 /\ d < nextId
    /\ ReceiptById(d) = NoReceipt
    /\ waiting' = [waiting EXCEPT ![w] = d]
    /\ UNCHANGED <<deliveries, saved, settled, nextId, origin>>

\* Its timer fires first.
WaitTimeout(w) ==
    /\ waiting[w] # 0
    /\ waiting' = [waiting EXCEPT ![w] = 0]
    /\ UNCHANGED <<deliveries, saved, settled, nextId, origin>>

\* A command nobody claimed is deleted; waiters keep waiting for their timers.
ExpireQueued(d) ==
    /\ deliveries[d].at = "queue" /\ deliveries[d].phase = "queued"
    /\ deliveries' = [deliveries EXCEPT ![d] = Nowhere]
    /\ UNCHANGED <<saved, settled, waiting, nextId, origin>>

\* A leased command may have been sent: it retires as ambiguous.
ExpireLeased(d) ==
    /\ deliveries[d].at = "queue" /\ deliveries[d].phase = "leased"
    /\ Finish(d, deliveries[d].lease.owner, "timed_out")
    /\ Wake(d)
    /\ UNCHANGED <<saved, settled, nextId, origin>>

Expire(d) == ExpireQueued(d) \/ ExpireLeased(d)

ReportRecoveryFailure(d, code) ==
    /\ deliveries[d].at = "queue" /\ deliveries[d].phase = "queued"
    /\ deliveries[d].recovery \in {"none", "navigation_failed"}
    /\ deliveries' = [deliveries EXCEPT ![d].recovery = code]
    /\ UNCHANGED <<saved, settled, waiting, nextId, origin>>

-----------------------------------------------------------------------------
(* The surroundings *)

\* ReviewDeliveryService.markDelivered, after the dispatch returned a receipt.
SettleReview(k) ==
    /\ k \notin settled /\ ReceiptOf(k).outcome = "sent"
    /\ settled' = settled \cup {k}
    /\ UNCHANGED <<deliveries, saved, waiting, nextId, origin>>

Aged(lease) == [lease EXCEPT !.left = IF @ > 0 THEN @ - 1 ELSE 0]

\* Time passes: every running lease comes closer to its deadline.
Tick ==
    /\ deliveries' = [d \in Ids |-> [deliveries[d] EXCEPT !.lease = Aged(@)]]
    /\ UNCHANGED <<saved, settled, waiting, nextId, origin>>

\* The runtime restarts from the file: only the waiters are gone.
Restart ==
    /\ waiting' = [w \in Callers |-> 0]
    /\ UNCHANGED <<deliveries, saved, settled, nextId, origin>>

Next ==
    \/ \E k \in Keys \cup {NoKey}, c \in Conversations : EnqueueNew(k, c)
    \/ \E k \in Keys, c \in Conversations : EnqueueRetry(k, c)
    \/ EvictionInterrupted
    \/ \E o \in Owners : Claim(o)
    \/ \E d \in Ids, o \in Owners, outcome \in AckOutcomes : Acknowledge(d, o, outcome)
    \/ \E w \in Callers, d \in Ids : AwaitResult(w, d)
    \/ \E w \in Callers : WaitTimeout(w)
    \/ \E d \in Ids : Expire(d)
    \/ \E d \in Ids, code \in RecoveryErrors : ReportRecoveryFailure(d, code)
    \/ \E k \in ReviewKeys : SettleReview(k)
    \/ Tick
    \/ Restart

Spec == Init /\ [][Next]_vars
-----------------------------------------------------------------------------
(* Safety *)

\* The persisted state is one that restore() accepts: leases belong to leased
\* commands, receipts to terminal ones, no key is claimed by two commands, and
\* an archived notification is final.  A state outside it would keep every
\* later start of the service unavailable.
Restorable ==
    /\ \A d \in Ids : LET r == deliveries[d] IN r.at # "nowhere" =>
        /\ (r.phase = "leased") <=> (r.lease # NoLease)
        /\ Terminal(r) <=> HasReceipt(r)
        /\ HasReceipt(r) => StatusOf(r.receipt.outcome) = r.phase
        /\ r.at = "archive" => r.key \in NoticeKeys /\ r.receipt.outcome \in Final
    /\ \A d, e \in Ids :
        /\ deliveries[d].at # "nowhere" /\ deliveries[e].at # "nowhere"
        /\ deliveries[d].key = deliveries[e].key /\ deliveries[d].key # NoKey
        => d = e

\* A command loses its key to a retry only when its receipt proves that
\* nothing was sent: two commands of one key are never both possibly sent.
RetryFenced ==
    \A d \in InQueue(deliveries) :
        deliveries[d].key # origin[d] =>
            /\ deliveries[d].key = NoKey
            /\ deliveries[d].receipt.outcome = "retryable"

TargetKept ==
    \A d \in InQueue(deliveries) :
        LET r == deliveries[d] IN
        /\ r.lease # NoLease => ConversationOf[r.lease.owner] = r.conv
        /\ HasReceipt(r) => ConversationOf[r.receipt.owner] = r.conv

OneLeasePerOwner ==
    \A d, e \in InQueue(deliveries) :
        /\ deliveries[d].phase = "leased" /\ deliveries[e].phase = "leased"
        /\ deliveries[d].lease.owner = deliveries[e].lease.owner
        => d = e

\* A command is leased to, and its result taken from, only documents that show
\* its conversation, and a document never holds two leases, however claims,
\* expiries and requeueings interleave: the page has one composer.
LeasesFit == TargetKept /\ OneLeasePerOwner

\* Nobody waits for a command whose receipt is already there: the receipt
\* either is seen at registration or wakes the waiter.
NoLostWakeup ==
    \A w \in Callers : waiting[w] # 0 => ReceiptById(waiting[w]) = NoReceipt

\* A final result stays reachable through its key for ever, across eviction,
\* archiving and restarts, so a repeated enqueue returns it and sends nothing;
\* a result that may hide a sent message is never forgotten either.
ResultKept ==
    [][\A k \in Keys :
        /\ ReceiptOf(k).outcome \in Final => ReceiptOf(k)' = ReceiptOf(k)
        /\ ReceiptOf(k).outcome \in Unknown => ReceiptOf(k)'.outcome # "none"]_vars

\* A receipt never changes, except that the owner of a timed-out lease may
\* still report what happened.
ReceiptStable ==
    [][\A d \in Ids : LET old == deliveries[d].receipt new == deliveries'[d].receipt IN
        old # NoReceipt /\ deliveries'[d].at # "nowhere" =>
            new = old \/ (old.outcome = "timed_out" /\ new.owner = old.owner)]_vars

\* A live lease stays with its owner until its deadline or its receipt: no
\* claim, recovery report or eviction takes the command away before that.
LiveLeaseKept ==
    [][\A d \in InQueue(deliveries) :
        deliveries[d].phase = "leased" /\ deliveries[d].lease.left > 0 =>
            LET r == deliveries'[d] IN
                \/ r.phase = "leased" /\ r.lease.owner = deliveries[d].lease.owner
                \/ HasReceipt(r) /\ r.receipt.owner = deliveries[d].lease.owner]_vars

-----------------------------------------------------------------------------
(* A statement of the documentation that the code does not keep *)

\* docs/reliable-extension-delivery.md: "the saved `ambiguous` outcome is
\* never promoted to `delivered`".
AmbiguousNeverPromoted ==
    [][\A d \in Ids :
        deliveries[d].phase = "ambiguous" => deliveries'[d].phase # "delivered"]_vars
=============================================================================

---------------------- MODULE ExtensionTransport_proofs ----------------------
(***************************************************************************)
(* Proofs about the durable command service (ExtensionDelivery), and then  *)
(* about the transport over it, for any conversations, keys, documents,    *)
(* navigations, capacity and lease length.                                 *)
(*                                                                         *)
(* The service.  Its safety invariants are not inductive one by one: that  *)
(* a document never gets a second lease needs that leases stay inside      *)
(* their conversation, that receipts are stable needs that a fresh id was  *)
(* never used, and everything needs the types.  IInv collects what is      *)
(* needed: every command is well formed on its own (CommandOK) and the     *)
(* commands fit together (Sound).  Most actions replace commands by        *)
(* commands that promise less (Reduces); only Grant and the insertion of a *)
(* new command do not, and have a lemma of their own.  The same steps,     *)
(* seen from the other side, say what a step does to a receipt and a live  *)
(* lease (Evolves) and to the result behind a key (NextKeepsResult).       *)
(*                                                                         *)
(* The transport.  With one browser a message is posted at most once, its  *)
(* receipt tells the truth, and the transport implements                   *)
(* AtMostOnceDelivery.  A command may be posted only by the document whose *)
(* submit is recorded in the worker (an entry), answered for by it (an     *)
(* acknowledgement), or answered for as ambiguous in the service (PageOK). *)
(* As long as an entry or an unrecorded acknowledgement exists, the        *)
(* service still holds the lease for its document (EntryOK, AckOK); a      *)
(* claim is asked only with neither (TaskOK).  So a command that is        *)
(* claimed again was never armed, and the command of a key that is retried *)
(* or forgotten never was posted (NameOK).  Two browsers would lack what   *)
(* TaskOK says: each flushes only its own outbox before it claims.         *)
(***************************************************************************)
EXTENDS ExtensionTransport, TLAPS, FiniteSetTheorems, WellFoundedInduction

-----------------------------------------------------------------------------
(* The durable command service                                             *)

\* A nonempty set of ids has a first element: the eviction loop and the claim
\* find a command whenever there is one.
LEMMA FirstIsMember ==
    ASSUME NEW S \in SUBSET Ids, S # {}
    PROVE  First(S) \in S /\ \A e \in S : First(S) <= e
<1>. DEFINE R == OpToRel(<, Nat)
<1>1. S \subseteq Nat
    BY BoundsAssumption DEF Ids
<1>2. PICK m \in S : \A e \in S : ~ (<<e, m>> \in R)
    <2>. HIDE DEF R
    <2>1. IsWellFoundedOn(R, Nat)
        BY NatLessThanWellFounded DEF R
    <2>. QED
        BY <1>1, <2>1, WFMin
<1>3. \A e \in S : m <= e
    <2>. SUFFICES ASSUME NEW e \in S PROVE m <= e
        OBVIOUS
    <2>1. m \in Nat /\ e \in Nat
        BY <1>1
    <2>2. ~ (e < m)
        BY <1>2, <2>1 DEF OpToRel
    <2>. QED
        BY <2>1, <2>2
<1>. QED
    BY <1>3 DEF First

\* What holds of every single command.
CommandOK(r) ==
    /\ r \in Command
    /\ r.at # "nowhere" =>
        /\ (r.phase = "leased") <=> (r.lease # NoLease)
        /\ Terminal(r) <=> HasReceipt(r)
        /\ HasReceipt(r) => StatusOf(r.receipt.outcome) = r.phase
        /\ r.at = "archive" => r.key \in NoticeKeys /\ r.receipt.outcome \in Final
        /\ r.lease # NoLease => ConversationOf[r.lease.owner] = r.conv
        /\ HasReceipt(r) => ConversationOf[r.receipt.owner] = r.conv

\* A command some document is at work on.
LeasedIn(r) == r.at = "queue" /\ r.phase = "leased"

\* What holds of the commands together; n is the next fresh id.
Sound(f, n) ==
    /\ f \in [Ids -> Command]
    /\ \A d \in Ids : CommandOK(f[d])
    /\ \A d, e \in Ids :
        /\ f[d].at # "nowhere" /\ f[e].at # "nowhere"
        /\ f[d].key = f[e].key /\ f[d].key # NoKey
        => d = e
    /\ \A d, e \in Ids :
        LeasedIn(f[d]) /\ LeasedIn(f[e]) /\ f[d].lease.owner = f[e].lease.owner => d = e
    /\ \A d \in Ids : d >= n => f[d] = Nowhere

\* No command of f has key k.
Free(f, k) == \A d \in Ids : f[d].at # "nowhere" => f[d].key # k

\* s promises no more than r: no new command, key or lease appears.
Reduces(r, s) ==
    /\ CommandOK(s)
    /\ s.at # "nowhere" => r.at # "nowhere" /\ s.key \in {r.key, NoKey}
    /\ LeasedIn(s) => LeasedIn(r) /\ s.lease.owner = r.lease.owner
    /\ r = Nowhere => s = Nowhere

\* Replacing commands by reduced ones keeps the state sound.
LEMMA ReducedIsSound ==
    ASSUME NEW f, NEW n, Sound(f, n), NEW g \in [Ids -> Command],
           \A d \in Ids : Reduces(f[d], g[d])
    PROVE  Sound(g, n)
BY DEF Sound, Reduces

\* A command that enqueue creates is well formed.
LEMMA NewCommandOK ==
    ASSUME NEW k \in Keys \cup {NoKey}, NEW c \in Conversations
    PROVE  CommandOK(NewCommand(k, c))
BY OwnersAssumption DEF CommandOK, NewCommand, Command, Places, Phases, NoLease, NoReceipt, Terminal, HasReceipt

\* So is the record of an id that is in neither Map.
LEMMA NowhereOK == CommandOK(Nowhere) /\ Nowhere.at = "nowhere"
BY OwnersAssumption DEF CommandOK, Nowhere, Absent, NewCommand, Command, Places, Phases, NoLease, NoReceipt, Terminal, HasReceipt

\* Leases and receipts are never mistaken for their absence.
LEMMA LeaseValues ==
    ASSUME NEW o \in Owners
    PROVE  /\ [owner |-> o, left |-> LeaseTicks] \in Leases
           /\ [owner |-> o, left |-> LeaseTicks] # NoLease
           /\ \A x \in AckOutcomes \cup {"timed_out"} :
                /\ [owner |-> o, outcome |-> x] \in Receipts
                /\ [owner |-> o, outcome |-> x] # NoReceipt
BY OwnersAssumption, BoundsAssumption DEF Leases, NoLease, Receipts, NoReceipt, AckOutcomes, Outcomes

\* An expired lease returns to the queue (claim).
LEMMA RequeueReduces ==
    ASSUME NEW r, CommandOK(r), LeasedIn(r)
    PROVE  Reduces(r, [r EXCEPT !.phase = "queued", !.lease = NoLease])
BY NowhereOK DEF Reduces, CommandOK, Command, LeasedIn, Phases, Terminal, HasReceipt

\* Time keeps the owner of a lease.
LEMMA AgedLease ==
    ASSUME NEW l \in Leases \cup {NoLease}
    PROVE  /\ Aged(l) \in Leases \cup {NoLease}
           /\ Aged(l).owner = l.owner
           /\ Aged(l) = NoLease <=> l = NoLease
<1>1. CASE l = NoLease
    BY <1>1 DEF Aged, NoLease
<1>2. CASE l \in Leases
    BY <1>2, BoundsAssumption, OwnersAssumption DEF Aged, Leases, NoLease
<1>. QED
    BY <1>1, <1>2

\* Time passes for a command.
LEMMA AgedReduces ==
    ASSUME NEW r, CommandOK(r)
    PROVE  Reduces(r, [r EXCEPT !.lease = Aged(@)])
<1>. DEFINE s == [r EXCEPT !.lease = Aged(@)]
<1>1. /\ r \in Command /\ r.lease \in Leases \cup {NoLease}
      /\ s \in Command /\ s.lease = Aged(r.lease)
      /\ s.at = r.at /\ s.key = r.key /\ s.conv = r.conv /\ s.phase = r.phase
      /\ s.receipt = r.receipt
    BY AgedLease DEF CommandOK, Command
<1>2. CommandOK(s)
    BY <1>1, AgedLease DEF CommandOK, Terminal, HasReceipt
<1>3. r.lease = NoLease => s = r
    BY <1>1, AgedLease DEF Command
<1>4. r = Nowhere => r.lease = NoLease
    BY DEF Nowhere, Absent, NewCommand
<1>. QED
    BY <1>1, <1>2, <1>3, <1>4, AgedLease DEF Reduces, LeasedIn

\* A command gets its receipt (acknowledge, expire).
LEMMA FinishReduces ==
    ASSUME NEW r, CommandOK(r), r.at = "queue", NEW o \in Owners,
           ConversationOf[o] = r.conv, NEW x \in AckOutcomes \cup {"timed_out"}
    PROVE  Reduces(r, [r EXCEPT !.phase = StatusOf(x), !.lease = NoLease,
                                !.receipt = [owner |-> o, outcome |-> x]])
BY NowhereOK, LeaseValues DEF Reduces, CommandOK, Command, LeasedIn, StatusOf, Phases, Terminal, HasReceipt, AckOutcomes, NoReceipt

\* A command proved unsent gives up its key (enqueue).
LEMMA DropKeyReduces ==
    ASSUME NEW r, CommandOK(r), r.at = "queue"
    PROVE  Reduces(r, [r EXCEPT !.key = NoKey])
BY NowhereOK DEF Reduces, CommandOK, Command, LeasedIn, Terminal, HasReceipt

\* A command is deleted (enqueue, expire).
LEMMA NowhereReduces ==
    ASSUME NEW r
    PROVE  Reduces(r, Nowhere)
BY NowhereOK DEF Reduces, LeasedIn

\* A final notification moves to the archive (enqueue).
LEMMA ArchiveReduces ==
    ASSUME NEW r, CommandOK(r), r.at = "queue", HasReceipt(r),
           r.key \in NoticeKeys, r.receipt.outcome \in Final
    PROVE  Reduces(r, [r EXCEPT !.at = "archive"])
BY NowhereOK DEF Reduces, CommandOK, Command, LeasedIn, Terminal, HasReceipt, Places

\* A recovery failure is recorded (reportRecoveryFailure).
LEMMA RecoveryReduces ==
    ASSUME NEW r, CommandOK(r), r.at = "queue", NEW x \in RecoveryErrors
    PROVE  Reduces(r, [r EXCEPT !.recovery = x])
BY NowhereOK DEF Reduces, CommandOK, Command, LeasedIn, Terminal, HasReceipt

\* A command that does not change.
LEMMA SameReduces ==
    ASSUME NEW r, CommandOK(r)
    PROVE  Reduces(r, r)
BY DEF Reduces, Command, CommandOK

\* One command is replaced.
LEMMA UpdateIsSound ==
    ASSUME NEW f, NEW n, Sound(f, n), NEW d \in Ids, NEW s, Reduces(f[d], s)
    PROVE  Sound([f EXCEPT ![d] = s], n)
<1>. DEFINE g == [f EXCEPT ![d] = s]
<1>1. g \in [Ids -> Command]
    BY DEF Sound, Reduces, CommandOK
<1>2. ASSUME NEW e \in Ids PROVE Reduces(f[e], g[e])
    BY SameReduces DEF Sound
<1>. QED
    BY <1>1, <1>2, ReducedIsSound

\* A free command of the conversation is leased to a document that holds none.
LEMMA GrantIsSound ==
    ASSUME NEW f, NEW n, Sound(f, n), NEW d \in Ids, NEW o \in Owners,
           f[d].at = "queue", f[d].phase = "queued", f[d].conv = ConversationOf[o],
           \A e \in Ids : LeasedIn(f[e]) => f[e].lease.owner # o
    PROVE  Sound(Grant(f, d, o), n)
<1>. DEFINE s == [f[d] EXCEPT !.phase = "leased", !.lease = [owner |-> o, left |-> LeaseTicks]]
            g == [f EXCEPT ![d] = s]
<1>1. f[d] \in Command /\ f \in [Ids -> Command] /\ CommandOK(f[d])
    BY DEF Sound
<1>2. Grant(f, d, o) = g
    BY <1>1 DEF Grant
<1>3. /\ s \in Command /\ s.at = "queue" /\ s.key = f[d].key /\ s.phase = "leased"
      /\ s.conv = f[d].conv /\ s.receipt = f[d].receipt
      /\ s.lease = [owner |-> o, left |-> LeaseTicks]
    BY <1>1, LeaseValues DEF Command, Phases
<1>4. CommandOK(s)
    BY <1>1, <1>3, LeaseValues DEF CommandOK, Terminal, HasReceipt
<1>5. \A e \in Ids : e >= n => g[e] = Nowhere
    BY <1>1, NowhereOK DEF Sound
<1>6. g \in [Ids -> Command] /\ \A e \in Ids : CommandOK(g[e])
    BY <1>1, <1>3, <1>4 DEF Sound
<1>. QED
    BY <1>1, <1>2, <1>3, <1>5, <1>6 DEF Sound, LeasedIn

\* A new command takes the next id.
LEMMA InsertIsSound ==
    ASSUME NEW f, NEW n \in Ids, Sound(f, n),
           NEW k \in Keys \cup {NoKey}, NEW c \in Conversations,
           k # NoKey => \A e \in Ids : f[e].at # "nowhere" => f[e].key # k
    PROVE  Sound([f EXCEPT ![n] = NewCommand(k, c)], n + 1)
<1>. DEFINE s == NewCommand(k, c)
            g == [f EXCEPT ![n] = s]
<1>1. /\ CommandOK(s) /\ s \in Command /\ ~ LeasedIn(s) /\ s.key = k
    BY NewCommandOK DEF NewCommand, LeasedIn, CommandOK
<1>2. f \in [Ids -> Command]
    BY DEF Sound
<1>3. g \in [Ids -> Command] /\ g[n] = s /\ \A e \in Ids : e # n => g[e] = f[e]
    BY <1>1, <1>2
<1>4. \A e \in Ids : e >= n + 1 => g[e] = Nowhere
    <2>1. \A e \in Ids : e >= n + 1 => e # n /\ e >= n
        BY BoundsAssumption DEF Ids
    <2>. QED
        BY <1>3, <2>1 DEF Sound
<1>. HIDE DEF g, s
<1>. QED
    BY <1>1, <1>3, <1>4 DEF Sound, g, s

\* An eviction keeps the state sound, takes no key from another command and
\* saves a proper copy.
LEMMA EvictedIsSound ==
    ASSUME NEW f, NEW n, Sound(f, n), TypeOK, NEW v \in Ids, Evictable(f, v)
    PROVE  /\ Sound(Evicted(f, v), n)
           /\ \A e \in Ids : Evicted(f, v)[e].at # "nowhere" =>
                                f[e].at # "nowhere" /\ f[e].key = Evicted(f, v)[e].key
           /\ SavedWith(f, v) \in [Keys -> Copies \cup {NoCopy}]
<1>1. f \in [Ids -> Command] /\ CommandOK(f[v]) /\ f[v] \in Command
    BY DEF Sound
<1>2. f[v].at = "queue" /\ HasReceipt(f[v]) /\ f[v].receipt \in Receipts
    BY <1>1 DEF Evictable, HasReceipt, Command
<1>3. SavedWith(f, v) \in [Keys -> Copies \cup {NoCopy}]
    BY <1>2 DEF SavedWith, TypeOK, Copies, Keys
<1>4. CASE f[v].key \in NoticeKeys
    <2>1. f[v].receipt.outcome \in Final
        BY <1>4, KeysAssumption DEF Evictable, TypeOK, Keys
    <2>2. Evicted(f, v) = [f EXCEPT ![v] = [f[v] EXCEPT !.at = "archive"]]
        BY <1>1, <1>4 DEF Evicted
    <2>3. Reduces(f[v], [f[v] EXCEPT !.at = "archive"])
        BY <1>1, <1>2, <1>4, <2>1, ArchiveReduces
    <2>4. Sound(Evicted(f, v), n)
        <3>. DEFINE s == [f[v] EXCEPT !.at = "archive"]
        <3>1. Evicted(f, v) = [f EXCEPT ![v] = s] /\ Reduces(f[v], s)
            BY <2>2, <2>3
        <3>. HIDE DEF s
        <3>. QED
            BY <3>1, UpdateIsSound
    <2>. QED
        BY <1>1, <1>2, <1>3, <2>2, <2>4 DEF Command
<1>5. CASE f[v].key \notin NoticeKeys
    <2>1. Evicted(f, v) = [f EXCEPT ![v] = Nowhere]
        BY <1>5 DEF Evicted
    <2>2. Sound(Evicted(f, v), n)
        <3>1. Reduces(f[v], Nowhere)
            BY NowhereReduces
        <3>. QED
            BY <2>1, <3>1, UpdateIsSound
    <2>. QED
        BY <1>1, <1>3, <2>1, <2>2, NowhereOK
<1>. QED
    BY <1>4, <1>5

\* The inductive invariant.
IInv == TypeOK /\ Sound(deliveries, nextId)

\* Making room and appending a command keeps the inductive invariant, when no
\* other command has its key.
LEMMA AppendKeepsIInv ==
    ASSUME TypeOK, NEW f, Sound(f, nextId),
           NEW k \in Keys \cup {NoKey}, NEW c \in Conversations, Append(f, k, c),
           k # NoKey => Free(f, k)
    PROVE  IInv'
<1>. DEFINE full == Cardinality(InQueue(f)) >= MaxDeliveries
            victims == {d \in Ids : Evictable(f, d)}
            v == First(victims)
            room == IF full THEN Evicted(f, v) ELSE f
<1>1. nextId \in Ids
    BY BoundsAssumption DEF TypeOK, Append, Ids
<1>2. full => v \in Ids /\ Evictable(f, v)
    BY FirstIsMember DEF Append
<1>3. /\ Sound(room, nextId)
      /\ \A e \in Ids : room[e].at # "nowhere" => f[e].at # "nowhere" /\ f[e].key = room[e].key
      /\ saved' \in [Keys -> Copies \cup {NoCopy}]
    <2>1. CASE full
        <3>1. room = Evicted(f, v) /\ saved' = SavedWith(f, v)
            BY <2>1 DEF Append
        <3>. HIDE DEF v, room
        <3>. QED
            BY <1>2, <2>1, <3>1, EvictedIsSound
    <2>2. CASE ~ full
        BY <2>2 DEF Append, TypeOK
    <2>. QED
        BY <2>1, <2>2
<1>4. deliveries' = [room EXCEPT ![nextId] = NewCommand(k, c)] /\ nextId' = nextId + 1
    BY DEF Append
<1>5. Sound(deliveries', nextId')
    <2>. HIDE DEF room
    <2>. QED
        BY <1>1, <1>3, <1>4, InsertIsSound DEF Free
<1>6. TypeOK'
    <2>1. deliveries' \in [Ids -> Command]
        BY <1>5 DEF Sound
    <2>2. nextId' \in 1 .. MaxCommands + 1
        BY <1>1, <1>4, BoundsAssumption DEF Ids
    <2>. QED
        BY <1>1, <1>3, <2>1, <2>2 DEF TypeOK, Append
<1>. QED
    BY <1>5, <1>6 DEF IInv

\* After requeueing, a document without a live lease holds no lease at all.
LEMMA RequeuedIsSound ==
    ASSUME IInv, NEW o \in Owners
    PROVE  /\ Sound(Requeued(o), nextId)
           /\ OwnLive(o) = {} => \A e \in Ids : LeasedIn(Requeued(o)[e]) => Requeued(o)[e].lease.owner # o
<1>1. ASSUME NEW d \in Ids
      PROVE  CommandOK(deliveries[d]) /\ Reduces(deliveries[d], Requeued(o)[d])
    BY RequeueReduces, SameReduces DEF IInv, Sound, Requeued, LeasedIn
<1>2. Requeued(o) \in [Ids -> Command]
    BY <1>1 DEF Reduces, CommandOK, Requeued
<1>3. Sound(Requeued(o), nextId)
    BY <1>1, <1>2, ReducedIsSound DEF IInv
<1>4. ASSUME OwnLive(o) = {}, NEW e \in Ids, LeasedIn(Requeued(o)[e]), Requeued(o)[e].lease.owner = o
      PROVE  FALSE
    <2>1. deliveries[e] \in Command /\ LeasedIn(deliveries[e]) /\ deliveries[e].lease.owner = o
        BY <1>1, <1>4 DEF Reduces, CommandOK
    <2>2. deliveries[e].lease \in Leases /\ deliveries[e].conv = ConversationOf[o]
        BY <1>1, <2>1, OwnersAssumption DEF CommandOK, LeasedIn, Command, NoLease
    <2>3. deliveries[e].lease.left = 0
        BY <1>4, <2>1, <2>2, BoundsAssumption DEF OwnLive, InQueue, LeasedIn, Leases
    <2>4. Requeued(o)[e].phase = "queued"
        BY <2>1, <2>2, <2>3 DEF Requeued, LeasedIn, Command
    <2>. QED
        BY <1>4, <2>4 DEF LeasedIn
<1>. QED
    BY <1>3, <1>4

\* A claim keeps the state sound, whatever it returns.
LEMMA ClaimIsSound ==
    ASSUME IInv, NEW o \in Owners
    PROVE  Sound(AfterClaim(o), nextId)
<1>1. CASE OwnLive(o) # {}
    BY <1>1 DEF AfterClaim, IInv
<1>2. CASE OwnLive(o) = {} /\ Claimable(Requeued(o), o) = {}
    BY <1>2, RequeuedIsSound DEF AfterClaim, Granted
<1>3. CASE OwnLive(o) = {} /\ Claimable(Requeued(o), o) # {}
    <2>. DEFINE f == Requeued(o)
                d == First(Claimable(f, o))
    <2>1. d \in Claimable(f, o) /\ d \in Ids
        BY <1>3, FirstIsMember DEF Claimable, InQueue
    <2>2. /\ f[d].at = "queue" /\ f[d].phase = "queued" /\ f[d].conv = ConversationOf[o]
        BY <2>1 DEF Claimable, InQueue
    <2>3. AfterClaim(o) = Grant(f, d, o)
        BY <1>3, <2>1, BoundsAssumption DEF AfterClaim, Granted, Ids
    <2>. HIDE DEF f, d
    <2>4. Sound(f, nextId) /\ \A e \in Ids : LeasedIn(f[e]) => f[e].lease.owner # o
        BY <1>3, RequeuedIsSound DEF f
    <2>. QED
        BY <2>1, <2>2, <2>3, <2>4, GrantIsSound
<1>. QED
    BY <1>1, <1>2, <1>3

\* A receipt keeps the state sound.
LEMMA FinishIsSound ==
    ASSUME IInv, NEW d \in Ids, NEW o \in Owners, NEW x \in AckOutcomes \cup {"timed_out"},
           deliveries[d].at = "queue", ConversationOf[o] = deliveries[d].conv, Finish(d, o, x)
    PROVE  Sound(deliveries', nextId)
<1>. DEFINE r == deliveries[d]
            s == [r EXCEPT !.phase = StatusOf(x), !.lease = NoLease,
                           !.receipt = [owner |-> o, outcome |-> x]]
<1>1. Sound(deliveries, nextId) /\ CommandOK(r) /\ deliveries \in [Ids -> Command]
    BY DEF IInv, Sound
<1>2. deliveries' = [deliveries EXCEPT ![d] = s]
    BY <1>1 DEF Finish
<1>3. Reduces(r, s)
    BY <1>1, FinishReduces
<1>. HIDE DEF s
<1>. QED
    BY <1>1, <1>2, <1>3, UpdateIsSound

\* A retry appends to a queue in which the earlier command, proved unsent, has
\* given up the key.
LEMMA RetryFreesKey ==
    ASSUME IInv, NEW k \in Keys, NEW c \in Conversations, EnqueueRetry(k, c)
    PROVE  \E f \in [Ids -> Command], e \in Ids :
            /\ Sound(f, nextId) /\ Append(f, k, c) /\ Free(f, k)
            /\ deliveries[e].at = "queue" /\ deliveries[e].key = k
            /\ deliveries[e].receipt.outcome = "retryable"
            /\ f = [deliveries EXCEPT ![e] = [deliveries[e] EXCEPT !.key = NoKey]]
<1>0. /\ TypeOK /\ Sound(deliveries, nextId) /\ deliveries \in [Ids -> Command]
      /\ \A e \in Ids : CommandOK(deliveries[e])
    BY DEF IInv, Sound
<1>1. PICK d \in Known(k) :
        /\ RetryableNotSent(deliveries[d].receipt)
        /\ Append([deliveries EXCEPT ![d].key = NoKey], k, c)
    BY DEF EnqueueRetry
<1>. DEFINE s == [deliveries[d] EXCEPT !.key = NoKey]
            f == [deliveries EXCEPT ![d] = s]
<1>2. /\ d \in Ids /\ deliveries[d].at # "nowhere" /\ deliveries[d].key = k
      /\ deliveries[d].receipt.outcome = "retryable"
    BY <1>1 DEF Known, RetryableNotSent
<1>3. deliveries[d].at = "queue"
    BY <1>0, <1>2 DEF CommandOK, Command, Places, Final
<1>4. Reduces(deliveries[d], s) /\ s.key = NoKey
    BY <1>0, <1>2, <1>3, DropKeyReduces DEF CommandOK, Command
<1>5. Append(f, k, c)
    BY <1>0, <1>1
<1>6. Sound(f, nextId)
    <2>. HIDE DEF s
    <2>. QED
        BY <1>0, <1>2, <1>4, UpdateIsSound
<1>7. ASSUME NEW e \in Ids, f[e].at # "nowhere" PROVE f[e].key # k
    <2>1. CASE e = d
        BY <1>0, <1>2, <1>4, <2>1, KeysAssumption
    <2>2. CASE e # d
        BY <1>0, <1>2, <1>7, <2>2, KeysAssumption DEF Sound
    <2>. QED
        BY <2>1, <2>2
<1>8. f = [deliveries EXCEPT ![d] = [deliveries[d] EXCEPT !.key = NoKey]] /\ f \in [Ids -> Command]
    BY <1>6 DEF Sound
<1>. HIDE DEF f
<1>. QED
    BY <1>2, <1>3, <1>5, <1>6, <1>7, <1>8 DEF Free

\* The inductive invariant holds in the empty service.
LEMMA InitIInv == Init => IInv
<1>. SUFFICES ASSUME Init PROVE IInv
    OBVIOUS
<1>1. Nowhere \in Command /\ CommandOK(Nowhere) /\ Nowhere.at = "nowhere"
    BY NowhereOK DEF CommandOK
<1>2. TypeOK
    BY <1>1, BoundsAssumption DEF Init, TypeOK
<1>3. Sound(deliveries, nextId)
    BY <1>1, <1>2 DEF Init, TypeOK, Sound, LeasedIn
<1>. QED
    BY <1>2, <1>3 DEF IInv

\* Every step of the service keeps the inductive invariant.
LEMMA NextIInv == IInv /\ [Next]_vars => IInv'
<1>. SUFFICES ASSUME IInv, [Next]_vars PROVE IInv'
    OBVIOUS
<1>0. /\ TypeOK /\ Sound(deliveries, nextId) /\ deliveries \in [Ids -> Command]
      /\ \A d \in Ids : CommandOK(deliveries[d])
    BY DEF IInv, Sound
<1>a. ASSUME Sound(deliveries', nextId), waiting' \in [Callers -> Ids \cup {0}],
             UNCHANGED <<saved, settled, nextId, origin>>
      PROVE  IInv'
    BY <1>0, <1>a DEF IInv, TypeOK, Sound
<1>b. ASSUME NEW d \in Ids, Wake(d) PROVE waiting' \in [Callers -> Ids \cup {0}]
    BY <1>0, <1>b DEF Wake, TypeOK
<1>c. waiting \in [Callers -> Ids \cup {0}]
    BY <1>0 DEF TypeOK
<1>1. ASSUME NEW k \in Keys \cup {NoKey}, NEW c \in Conversations, EnqueueNew(k, c)
      PROVE  IInv'
    BY <1>0, <1>1, AppendKeepsIInv DEF EnqueueNew, Known, Free
<1>2. ASSUME NEW k \in Keys, NEW c \in Conversations, EnqueueRetry(k, c)
      PROVE  IInv'
    <2>1. PICK f \in [Ids -> Command] : Sound(f, nextId) /\ Append(f, k, c) /\ Free(f, k)
        BY <1>2, RetryFreesKey
    <2>. QED
        BY <1>0, <2>1, AppendKeepsIInv
<1>3. ASSUME EvictionInterrupted PROVE IInv'
    <2>1. PICK v \in Ids : Evictable(deliveries, v) /\ saved' = SavedWith(deliveries, v)
        BY <1>3 DEF EvictionInterrupted
    <2>2. saved' \in [Keys -> Copies \cup {NoCopy}]
        BY <1>0, <2>1, EvictedIsSound
    <2>. QED
        BY <1>0, <1>3, <2>2 DEF EvictionInterrupted, IInv, TypeOK, Sound
<1>4. ASSUME NEW o \in Owners, Claim(o) PROVE IInv'
    BY <1>4, <1>a, <1>c, ClaimIsSound DEF Claim
<1>5. ASSUME NEW d \in Ids, NEW o \in Owners, NEW x \in AckOutcomes, Acknowledge(d, o, x)
      PROVE  IInv'
    <2>1. deliveries[d].at = "queue" /\ Finish(d, o, x) /\ ConversationOf[o] = deliveries[d].conv
        BY <1>0, <1>5, OwnersAssumption, LeaseValues
           DEF Acknowledge, AckFirst, AckLate, CommandOK, NoLease, NoReceipt, HasReceipt
    <2>2. Sound(deliveries', nextId)
        BY <2>1, FinishIsSound
    <2>. QED
        BY <1>5, <2>2, <1>a, <1>b DEF Acknowledge
<1>6. ASSUME NEW w \in Callers, NEW d \in Ids, AwaitResult(w, d) PROVE IInv'
    BY <1>0, <1>6 DEF AwaitResult, IInv, TypeOK, Sound
<1>7. ASSUME NEW w \in Callers, WaitTimeout(w) PROVE IInv'
    BY <1>0, <1>7 DEF WaitTimeout, IInv, TypeOK, Sound
<1>8. ASSUME NEW d \in Ids, Expire(d) PROVE IInv'
    <2>1. CASE ExpireQueued(d)
        <3>1. Reduces(deliveries[d], Nowhere) /\ deliveries' = [deliveries EXCEPT ![d] = Nowhere]
            BY <2>1, NowhereReduces DEF ExpireQueued
        <3>2. Sound(deliveries', nextId)
            BY <1>0, <3>1, UpdateIsSound
        <3>. QED
            BY <1>a, <1>c, <2>1, <3>2 DEF ExpireQueued
    <2>2. CASE ExpireLeased(d)
        <3>1. /\ deliveries[d].at = "queue" /\ deliveries[d].lease.owner \in Owners
              /\ ConversationOf[deliveries[d].lease.owner] = deliveries[d].conv
            BY <1>0, <2>2 DEF ExpireLeased, CommandOK, Command, Leases
        <3>2. Sound(deliveries', nextId)
            BY <2>2, <3>1, FinishIsSound DEF ExpireLeased
        <3>. QED
            BY <2>2, <3>2, <1>a, <1>b DEF ExpireLeased
    <2>. QED
        BY <1>8, <2>1, <2>2 DEF Expire
<1>9. ASSUME NEW d \in Ids, NEW x \in RecoveryErrors, ReportRecoveryFailure(d, x) PROVE IInv'
    <2>. DEFINE s == [deliveries[d] EXCEPT !.recovery = x]
    <2>1. Reduces(deliveries[d], s) /\ deliveries' = [deliveries EXCEPT ![d] = s]
        BY <1>0, <1>9, RecoveryReduces DEF ReportRecoveryFailure
    <2>. HIDE DEF s
    <2>2. Sound(deliveries', nextId)
        BY <1>0, <2>1, UpdateIsSound
    <2>. QED
        BY <1>9, <1>a, <1>c, <2>2 DEF ReportRecoveryFailure
<1>10. ASSUME NEW k \in ReviewKeys, SettleReview(k) PROVE IInv'
    BY <1>0, <1>10 DEF SettleReview, IInv, TypeOK, Sound
<1>11. ASSUME Tick PROVE IInv'
    <2>1. \A d \in Ids : Reduces(deliveries[d], deliveries'[d])
        BY <1>0, <1>11, AgedReduces DEF Tick
    <2>2. deliveries' \in [Ids -> Command]
        BY <1>11, <2>1 DEF Tick, Reduces, CommandOK
    <2>3. Sound(deliveries', nextId)
        BY <1>0, <2>1, <2>2, ReducedIsSound
    <2>. QED
        BY <1>11, <1>a, <1>c, <2>3 DEF Tick
<1>12. ASSUME Restart PROVE IInv'
    BY <1>0, <1>12 DEF Restart, IInv, TypeOK, Sound
<1>13. CASE UNCHANGED vars
    BY <1>0, <1>13 DEF vars, IInv, TypeOK, Sound
<1>. QED
    BY <1>1, <1>2, <1>3, <1>4, <1>5, <1>6, <1>7, <1>8, <1>9, <1>10, <1>11, <1>12, <1>13 DEF Next

\* The inductive invariant holds in every reachable state of the service.
THEOREM Invariance == Spec => []IInv
    BY InitIInv, NextIInv, PTL DEF Spec

\* Every state of the service is a state of its schema.
THEOREM TypeCorrect == Spec => []TypeOK
    BY Invariance, PTL DEF IInv

\* The file the service writes is always one its next start accepts: leases and
\* receipts fit the phases, and no key names two commands.
THEOREM AlwaysRestorable == Spec => []Restorable
<1>1. IInv => Restorable
    BY DEF IInv, Sound, CommandOK, Restorable
<1>. QED
    BY <1>1, Invariance, PTL

\* A command is leased to, and answered by, documents of its conversation only,
\* and no document ever holds two leases.
THEOREM LeasesAlwaysFit == Spec => []LeasesFit
<1>1. IInv => TargetKept
    BY DEF IInv, Sound, CommandOK, TargetKept, InQueue
<1>2. IInv => OneLeasePerOwner
    BY DEF IInv, Sound, LeasedIn, OneLeasePerOwner, InQueue
<1>. QED
    BY <1>1, <1>2, Invariance, PTL DEF LeasesFit

-----------------------------------------------------------------------------
\* What one step may do to the receipt and the live lease of a command.
Evolves(r, s) ==
    /\ r.receipt # NoReceipt /\ s.at # "nowhere" =>
          s.receipt = r.receipt \/ (r.receipt.outcome = "timed_out" /\ s.receipt.owner = r.receipt.owner)
    /\ LeasedIn(r) /\ r.lease.left > 0 =>
          \/ s.phase = "leased" /\ s.lease.owner = r.lease.owner
          \/ HasReceipt(s) /\ s.receipt.owner = r.lease.owner

\* A command that does not change evolves.
LEMMA SameEvolves == \A r : Evolves(r, r)
BY DEF Evolves, LeasedIn

\* A first receipt, or the answer of the owner of a timed-out lease.
LEMMA FinishEvolves ==
    ASSUME NEW r, CommandOK(r), r.at = "queue", NEW o \in Owners, NEW x \in AckOutcomes \cup {"timed_out"},
           \/ ~ HasReceipt(r) /\ r.lease.owner = o
           \/ r.receipt = [owner |-> o, outcome |-> "timed_out"]
    PROVE  Evolves(r, [r EXCEPT !.phase = StatusOf(x), !.lease = NoLease,
                                !.receipt = [owner |-> o, outcome |-> x]])
<1>. DEFINE s == [r EXCEPT !.phase = StatusOf(x), !.lease = NoLease,
                           !.receipt = [owner |-> o, outcome |-> x]]
<1>1. s.receipt = [owner |-> o, outcome |-> x] /\ s.receipt # NoReceipt
    BY LeaseValues DEF CommandOK, Command
<1>2. CASE ~ HasReceipt(r) /\ r.lease.owner = o
    BY <1>1, <1>2 DEF Evolves, HasReceipt
<1>3. CASE r.receipt = [owner |-> o, outcome |-> "timed_out"]
    <2>1. ~ LeasedIn(r)
        BY <1>3, LeaseValues DEF CommandOK, LeasedIn, Terminal, HasReceipt
    <2>. QED
        BY <1>1, <1>3, <2>1 DEF Evolves
<1>. QED
    BY <1>2, <1>3

\* An enqueue changes no receipt and takes no live lease, eviction included.
LEMMA AppendEvolves ==
    ASSUME TypeOK, NEW f, Sound(f, nextId),
           NEW k \in Keys \cup {NoKey}, NEW c \in Conversations, Append(f, k, c), NEW d \in Ids
    PROVE  Evolves(f[d], deliveries'[d])
<1>. DEFINE full == Cardinality(InQueue(f)) >= MaxDeliveries
            v == First({e \in Ids : Evictable(f, e)})
            room == IF full THEN Evicted(f, v) ELSE f
<1>1. /\ nextId \in Ids /\ f \in [Ids -> Command]
      /\ deliveries' = [room EXCEPT ![nextId] = NewCommand(k, c)]
    BY BoundsAssumption DEF TypeOK, Append, Ids, Sound
<1>2. full => v \in Ids /\ Evictable(f, v)
    BY FirstIsMember DEF Append
<1>3. room \in [Ids -> Command]
    <2>. HIDE DEF v
    <2>. QED
        BY <1>1, <1>2, EvictedIsSound DEF Sound
<1>4. CASE d = nextId
    <2>1. f[d] = Nowhere
        BY <1>1, <1>4, BoundsAssumption DEF Sound, Ids
    <2>. QED
        BY <2>1 DEF Evolves, Nowhere, Absent, NewCommand, LeasedIn
<1>5. CASE d # nextId /\ full /\ d = v
    <2>1. deliveries'[d] = Evicted(f, v)[v]
        BY <1>1, <1>3, <1>5
    <2>2. f[d] \in Command /\ HasReceipt(f[d]) /\ ~ LeasedIn(f[d])
        BY <1>2, <1>5 DEF Evictable, Sound, CommandOK, Terminal, LeasedIn
    <2>3. Evicted(f, v)[v] = Nowhere \/ Evicted(f, v)[v] = [f[v] EXCEPT !.at = "archive"]
        BY <1>1, <1>2, <1>5 DEF Evicted
    <2>. HIDE DEF v
    <2>4. CASE Evicted(f, v)[v] = Nowhere
        BY <2>1, <2>2, <2>4, NowhereOK DEF Evolves
    <2>5. CASE Evicted(f, v)[v] = [f[v] EXCEPT !.at = "archive"]
        BY <1>5, <2>1, <2>2, <2>5 DEF Evolves, Command
    <2>. QED
        BY <2>3, <2>4, <2>5
<1>6. CASE d # nextId /\ (full => d # v)
    <2>1. room[d] = f[d]
        BY <1>1, <1>2, <1>6 DEF Evicted
    <2>. HIDE DEF room
    <2>2. deliveries'[d] = f[d]
        BY <1>1, <1>3, <1>6, <2>1
    <2>. QED
        BY <2>2, SameEvolves
<1>. QED
    BY <1>4, <1>5, <1>6

\* Neither does a claim of any document.
LEMMA ClaimEvolves ==
    ASSUME IInv, NEW o \in Owners, NEW d \in Ids
    PROVE  Evolves(deliveries[d], AfterClaim(o)[d])
<1>. DEFINE r == deliveries[d]
            q == Requeued(o)[d]
<1>1. r \in Command /\ deliveries \in [Ids -> Command]
    BY DEF IInv, Sound
<1>2. /\ q.receipt = r.receipt
      /\ LeasedIn(r) /\ r.lease.left > 0 => q = r
      /\ q \in Command
    <2>1. q \in Command
        BY RequeuedIsSound DEF Sound
    <2>2. \/ q = r
          \/ q = [r EXCEPT !.phase = "queued", !.lease = NoLease] /\ ~ (r.lease.left > 0)
        BY DEF Requeued
    <2>. HIDE DEF q, r
    <2>3. q.receipt = r.receipt
        BY <1>1, <2>2 DEF Command
    <2>4. LeasedIn(r) /\ r.lease.left > 0 => q = r
        BY <2>2
    <2>. QED
        BY <2>1, <2>3, <2>4
<1>3. Evolves(r, q)
    BY <1>2 DEF Evolves, LeasedIn
<1>4. CASE AfterClaim(o) = deliveries
    BY <1>4, SameEvolves
<1>5. CASE AfterClaim(o) = Requeued(o)
    BY <1>3, <1>5
<1>6. CASE /\ Claimable(Requeued(o), o) # {}
           /\ AfterClaim(o) = Grant(Requeued(o), First(Claimable(Requeued(o), o)), o)
    <2>. DEFINE g == First(Claimable(Requeued(o), o))
    <2>1. g \in Ids /\ Requeued(o)[g].phase = "queued" /\ Requeued(o) \in [Ids -> Command]
        <3>1. g \in Claimable(Requeued(o), o)
            BY <1>6, FirstIsMember DEF Claimable, InQueue
        <3>. QED
            BY <3>1, RequeuedIsSound DEF Claimable, InQueue, Sound
    <2>2. CASE d # g
        BY <1>3, <1>6, <2>1, <2>2 DEF Grant
    <2>3. CASE d = g
        <3>1. AfterClaim(o)[d].receipt = q.receipt
            BY <1>2, <1>6, <2>1, <2>3 DEF Grant, Command
        <3>2. ~ (LeasedIn(r) /\ r.lease.left > 0)
            BY <1>2, <2>1, <2>3 DEF LeasedIn
        <3>. QED
            BY <1>2, <3>1, <3>2 DEF Evolves
    <2>. QED
        BY <2>2, <2>3
<1>. QED
    BY <1>4, <1>5, <1>6 DEF AfterClaim, Granted

\* Every step of the service lets every command evolve.
LEMMA NextEvolves ==
    ASSUME IInv, [Next]_vars, NEW d \in Ids
    PROVE  Evolves(deliveries[d], deliveries'[d])
<1>0. /\ TypeOK /\ Sound(deliveries, nextId) /\ deliveries \in [Ids -> Command]
      /\ CommandOK(deliveries[d]) /\ deliveries[d] \in Command
    BY DEF IInv, Sound
<1>1. ASSUME NEW k \in Keys \cup {NoKey}, NEW c \in Conversations, EnqueueNew(k, c)
      PROVE  Evolves(deliveries[d], deliveries'[d])
    BY <1>0, <1>1, AppendEvolves DEF EnqueueNew
<1>2. ASSUME NEW k \in Keys, NEW c \in Conversations, EnqueueRetry(k, c)
      PROVE  Evolves(deliveries[d], deliveries'[d])
    <2>1. PICK f \in [Ids -> Command], e \in Ids :
            /\ Sound(f, nextId) /\ Append(f, k, c)
            /\ f = [deliveries EXCEPT ![e] = [deliveries[e] EXCEPT !.key = NoKey]]
        BY <1>2, RetryFreesKey
    <2>2. Evolves(f[d], deliveries'[d])
        BY <1>0, <2>1, AppendEvolves
    <2>3. /\ f[d].receipt = deliveries[d].receipt /\ f[d].lease = deliveries[d].lease
          /\ f[d].at = deliveries[d].at /\ f[d].phase = deliveries[d].phase
        BY <1>0, <2>1 DEF Command
    <2>. QED
        BY <2>2, <2>3 DEF Evolves, LeasedIn
<1>3. ASSUME NEW o \in Owners, Claim(o) PROVE Evolves(deliveries[d], deliveries'[d])
    BY <1>3, ClaimEvolves DEF Claim
<1>4. ASSUME NEW e \in Ids, NEW o \in Owners, NEW x \in AckOutcomes, Acknowledge(e, o, x)
      PROVE  Evolves(deliveries[d], deliveries'[d])
    <2>1. CASE d = e
        <3>1. /\ deliveries[d].at = "queue" /\ Finish(d, o, x)
              /\ \/ ~ HasReceipt(deliveries[d]) /\ deliveries[d].lease.owner = o
                 \/ deliveries[d].receipt = [owner |-> o, outcome |-> "timed_out"]
            BY <1>4, <2>1 DEF Acknowledge, AckFirst, AckLate
        <3>2. deliveries'[d] = [deliveries[d] EXCEPT !.phase = StatusOf(x), !.lease = NoLease,
                                    !.receipt = [owner |-> o, outcome |-> x]]
            BY <1>0, <3>1 DEF Finish
        <3>3. Evolves(deliveries[d], [deliveries[d] EXCEPT !.phase = StatusOf(x), !.lease = NoLease,
                                    !.receipt = [owner |-> o, outcome |-> x]])
            BY <1>0, <3>1, FinishEvolves, ZenonT(30)
        <3>. QED
            BY <3>2, <3>3, Zenon
    <2>2. CASE d # e
        BY <1>0, <1>4, <2>2, SameEvolves DEF Acknowledge, AckFirst, AckLate, Finish
    <2>. QED
        BY <2>1, <2>2
<1>5. ASSUME NEW e \in Ids, Expire(e) PROVE Evolves(deliveries[d], deliveries'[d])
    <2>1. CASE d # e
        BY <1>0, <1>5, <2>1, SameEvolves DEF Expire, ExpireQueued, ExpireLeased, Finish
    <2>2. CASE d = e /\ ExpireQueued(e)
        BY <1>0, <2>2, NowhereOK DEF ExpireQueued, Evolves, LeasedIn
    <2>3. CASE d = e /\ ExpireLeased(e)
        BY <1>0, <2>3, FinishEvolves
           DEF ExpireLeased, Finish, CommandOK, Command, Leases, Terminal, HasReceipt
    <2>. QED
        BY <1>5, <2>1, <2>2, <2>3 DEF Expire
<1>6. ASSUME NEW e \in Ids, NEW x \in RecoveryErrors, ReportRecoveryFailure(e, x)
      PROVE  Evolves(deliveries[d], deliveries'[d])
    BY <1>0, <1>6 DEF ReportRecoveryFailure, Evolves, LeasedIn, Command
<1>7. ASSUME Tick PROVE Evolves(deliveries[d], deliveries'[d])
    <2>1. deliveries'[d] = [deliveries[d] EXCEPT !.lease = Aged(@)]
        BY <1>7 DEF Tick
    <2>. QED
        BY <1>0, <2>1, AgedLease DEF Evolves, LeasedIn, Command
<1>8. ASSUME UNCHANGED deliveries PROVE Evolves(deliveries[d], deliveries'[d])
    BY <1>8, SameEvolves
<1>. QED
    BY <1>1, <1>2, <1>3, <1>4, <1>5, <1>6, <1>7, <1>8
       DEF Next, EvictionInterrupted, AwaitResult, WaitTimeout, SettleReview, Restart, vars

\* A receipt never changes, unless the owner of a timed-out lease answers late.
THEOREM ReceiptsStable == Spec => ReceiptStable
<1>1. IInv /\ [Next]_vars =>
        [\A d \in Ids : LET old == deliveries[d].receipt new == deliveries'[d].receipt IN
            old # NoReceipt /\ deliveries'[d].at # "nowhere" =>
                new = old \/ (old.outcome = "timed_out" /\ new.owner = old.owner)]_vars
    BY NextEvolves DEF Evolves
<1>. QED
    BY <1>1, Invariance, PTL DEF Spec, ReceiptStable

\* A live lease stays with its owner until its deadline or its receipt.
THEOREM LiveLeasesKept == Spec => LiveLeaseKept
<1>1. IInv /\ [Next]_vars =>
        [\A d \in InQueue(deliveries) :
            deliveries[d].phase = "leased" /\ deliveries[d].lease.left > 0 =>
                LET r == deliveries'[d] IN
                    \/ r.phase = "leased" /\ r.lease.owner = deliveries[d].lease.owner
                    \/ HasReceipt(r) /\ r.receipt.owner = deliveries[d].lease.owner]_vars
    BY NextEvolves DEF Evolves, LeasedIn, InQueue
<1>. QED
    BY <1>1, Invariance, PTL DEF Spec, LiveLeaseKept

-----------------------------------------------------------------------------
(* A key leaves a command only on the proof that nothing was sent. *)

\* A queued command that is no longer named by the key it was created under.
Fenced(r, k) == r.at = "queue" /\ r.key # k => r.key = NoKey /\ r.receipt.outcome = "retryable"

\* The commands that are in the queue after an Append.
LEMMA AppendKeepsOthers ==
    ASSUME TypeOK, NEW f, Sound(f, nextId),
           NEW k \in Keys \cup {NoKey}, NEW c \in Conversations, Append(f, k, c),
           NEW d \in Ids, deliveries'[d].at = "queue"
    PROVE  \/ deliveries'[d].key = k /\ origin'[d] = k
           \/ deliveries'[d] = f[d] /\ origin'[d] = origin[d]
<1>. DEFINE full == Cardinality(InQueue(f)) >= MaxDeliveries
            v == First({e \in Ids : Evictable(f, e)})
            room == IF full THEN Evicted(f, v) ELSE f
<1>1. /\ nextId \in Ids /\ f \in [Ids -> Command] /\ origin' = [origin EXCEPT ![nextId] = k]
      /\ deliveries' = [room EXCEPT ![nextId] = NewCommand(k, c)]
      /\ origin \in [Ids -> Keys \cup {NoKey}]
    BY BoundsAssumption DEF TypeOK, Append, Ids, Sound
<1>2. full => v \in Ids /\ Evictable(f, v)
    BY FirstIsMember DEF Append
<1>3. room \in [Ids -> Command] /\ (room[d] = f[d] \/ room[d].at # "queue")
    <2>1. CASE full
        <3>1. Evicted(f, v)[d] = f[d] \/ Evicted(f, v)[d].at # "queue"
            <4>. HIDE DEF v
            <4>. QED
                BY <1>1, <1>2, <2>1, NowhereOK DEF Evicted, Command
        <3>2. Evicted(f, v) \in [Ids -> Command]
            BY <1>2, <2>1, EvictedIsSound DEF Sound
        <3>. QED
            BY <2>1, <3>1, <3>2
    <2>2. CASE ~ full
        BY <1>1, <2>2
    <2>. QED
        BY <2>1, <2>2
<1>. HIDE DEF room
<1>4. CASE d = nextId
    BY <1>1, <1>3, <1>4 DEF NewCommand
<1>5. CASE d # nextId
    BY <1>1, <1>3, <1>5
<1>. QED
    BY <1>4, <1>5

\* A receipt changes neither the place nor the key of any command.
LEMMA FinishKeepsKey ==
    ASSUME NEW d \in Ids, NEW e \in Ids, NEW o, NEW x, deliveries \in [Ids -> Command], Finish(e, o, x)
    PROVE  deliveries'[d].at = deliveries[d].at /\ deliveries'[d].key = deliveries[d].key
<1>1. CASE d = e
    <2>1. deliveries'[d] = [deliveries[d] EXCEPT !.phase = StatusOf(x), !.lease = NoLease,
                                    !.receipt = [owner |-> o, outcome |-> x]]
        BY <1>1 DEF Finish
    <2>. QED
        BY <2>1 DEF Command
<1>2. CASE d # e
    BY <1>2 DEF Finish
<1>. QED
    BY <1>1, <1>2

\* Actions other than an enqueue and the expiry of an unclaimed command leave
\* the place and the key of every command alone.
LEMMA PlacesKept ==
    ASSUME IInv, NEW d \in Ids,
           \/ \E o \in Owners : Claim(o)
           \/ \E e \in Ids, o \in Owners, x \in AckOutcomes : Acknowledge(e, o, x)
           \/ \E e \in Ids : ExpireLeased(e)
           \/ \E e \in Ids, x \in RecoveryErrors : ReportRecoveryFailure(e, x)
           \/ Tick
           \/ UNCHANGED deliveries
    PROVE  deliveries'[d].at = deliveries[d].at /\ deliveries'[d].key = deliveries[d].key
<1>0. deliveries \in [Ids -> Command] /\ deliveries[d] \in Command
    BY DEF IInv, Sound
<1>1. ASSUME NEW o \in Owners, Claim(o)
      PROVE  deliveries'[d].at = deliveries[d].at /\ deliveries'[d].key = deliveries[d].key
    <2>1. /\ Requeued(o) \in [Ids -> Command]
          /\ Requeued(o)[d].at = deliveries[d].at /\ Requeued(o)[d].key = deliveries[d].key
        BY <1>0, RequeuedIsSound DEF Requeued, Sound, Command
    <2>2. PICK e : \/ AfterClaim(o) = deliveries
                  \/ AfterClaim(o) = Requeued(o)
                  \/ AfterClaim(o) = Grant(Requeued(o), e, o)
        BY DEF AfterClaim
    <2>. QED
        BY <1>0, <1>1, <2>1, <2>2 DEF Claim, Grant, Command
<1>2. ASSUME NEW e \in Ids, NEW o \in Owners, NEW x \in AckOutcomes, Acknowledge(e, o, x)
      PROVE  deliveries'[d].at = deliveries[d].at /\ deliveries'[d].key = deliveries[d].key
    BY <1>0, <1>2, FinishKeepsKey DEF Acknowledge, AckFirst, AckLate
<1>3. ASSUME NEW e \in Ids, ExpireLeased(e)
      PROVE  deliveries'[d].at = deliveries[d].at /\ deliveries'[d].key = deliveries[d].key
    BY <1>0, <1>3, FinishKeepsKey DEF ExpireLeased
<1>4. ASSUME NEW e \in Ids, NEW x \in RecoveryErrors, ReportRecoveryFailure(e, x)
      PROVE  deliveries'[d].at = deliveries[d].at /\ deliveries'[d].key = deliveries[d].key
    BY <1>0, <1>4 DEF ReportRecoveryFailure, Command
<1>5. CASE Tick
    BY <1>0, <1>5 DEF Tick, Command
<1>. QED
    BY <1>1, <1>2, <1>3, <1>4, <1>5

\* Actions other than an enqueue leave keys alone.
LEMMA KeysKept ==
    ASSUME IInv, NEW d \in Ids, deliveries'[d].at = "queue",
           \/ \E o \in Owners : Claim(o)
           \/ \E e \in Ids, o \in Owners, x \in AckOutcomes : Acknowledge(e, o, x)
           \/ \E e \in Ids : Expire(e)
           \/ \E e \in Ids, x \in RecoveryErrors : ReportRecoveryFailure(e, x)
           \/ Tick
           \/ UNCHANGED deliveries
    PROVE  deliveries[d].at = "queue" /\ deliveries'[d].key = deliveries[d].key
<1>0. deliveries \in [Ids -> Command]
    BY DEF IInv, Sound
<1>1. ASSUME NEW e \in Ids, ExpireQueued(e)
      PROVE  deliveries[d].at = "queue" /\ deliveries'[d].key = deliveries[d].key
    BY <1>0, <1>1, NowhereOK DEF ExpireQueued
<1>. QED
    BY <1>1, PlacesKept DEF Expire

\* Every step keeps the retries fenced.
LEMMA NextFenced ==
    ASSUME IInv, [Next]_vars, RetryFenced
    PROVE  RetryFenced'
<1>. SUFFICES ASSUME NEW d \in Ids PROVE Fenced(deliveries'[d], origin'[d])
    BY DEF Fenced, RetryFenced, InQueue
<1>. SUFFICES ASSUME deliveries'[d].at = "queue" PROVE Fenced(deliveries'[d], origin'[d])
    BY DEF Fenced
<1>0. /\ TypeOK /\ Sound(deliveries, nextId) /\ deliveries \in [Ids -> Command]
      /\ \A e \in Ids : Fenced(deliveries[e], origin[e])
    BY DEF IInv, Sound, Fenced, RetryFenced, InQueue
<1>1. ASSUME NEW k \in Keys \cup {NoKey}, NEW c \in Conversations, EnqueueNew(k, c)
      PROVE  Fenced(deliveries'[d], origin'[d])
    <2>1. \/ deliveries'[d].key = k /\ origin'[d] = k
          \/ deliveries'[d] = deliveries[d] /\ origin'[d] = origin[d]
        BY <1>0, <1>1, AppendKeepsOthers DEF EnqueueNew
    <2>. QED
        BY <1>0, <2>1 DEF Fenced
<1>2. ASSUME NEW k \in Keys, NEW c \in Conversations, EnqueueRetry(k, c)
      PROVE  Fenced(deliveries'[d], origin'[d])
    <2>1. PICK f \in [Ids -> Command], e \in Ids :
            /\ Sound(f, nextId) /\ Append(f, k, c) /\ deliveries[e].receipt.outcome = "retryable"
            /\ f = [deliveries EXCEPT ![e] = [deliveries[e] EXCEPT !.key = NoKey]]
        BY <1>2, RetryFreesKey
    <2>2. \/ deliveries'[d].key = k /\ origin'[d] = k
          \/ deliveries'[d] = f[d] /\ origin'[d] = origin[d]
        BY <1>0, <2>1, AppendKeepsOthers
    <2>3. Fenced(f[d], origin[d])
        BY <1>0, <2>1 DEF Fenced, Command
    <2>. QED
        BY <2>2, <2>3 DEF Fenced
<1>3. ASSUME UNCHANGED origin, deliveries[d].at = "queue", deliveries'[d].key = deliveries[d].key
      PROVE  Fenced(deliveries'[d], origin'[d])
    <2>1. CASE deliveries[d].key = origin[d]
        BY <1>3, <2>1 DEF Fenced
    <2>2. CASE deliveries[d].key # origin[d]
        <3>1. deliveries[d].key = NoKey /\ deliveries[d].receipt.outcome = "retryable"
            BY <1>0, <1>3, <2>2 DEF Fenced
        <3>2. deliveries[d].receipt # NoReceipt
            BY <3>1 DEF NoReceipt
        <3>3. deliveries'[d].receipt = deliveries[d].receipt
            BY <3>1, <3>2, NextEvolves DEF Evolves
        <3>. QED
            BY <1>3, <3>1, <3>3 DEF Fenced
    <2>. QED
        BY <2>1, <2>2
<1>. QED
    BY <1>1, <1>2, <1>3, KeysKept
       DEF Next, EvictionInterrupted, Claim, Acknowledge, AwaitResult, WaitTimeout, Expire,
           ExpireQueued, ExpireLeased, ReportRecoveryFailure, SettleReview, Tick, Restart, vars

\* Two commands of one key are never both possibly sent: the earlier one was
\* proved unsent before it lost its key to the retry.
THEOREM RetriesFenced == Spec => []RetryFenced
<1>1. Init => RetryFenced
    BY NowhereOK DEF Init, RetryFenced, InQueue
<1>2. IInv /\ RetryFenced /\ [Next]_vars => RetryFenced'
    BY NextFenced
<1>. QED
    BY <1>1, <1>2, Invariance, PTL DEF Spec

-----------------------------------------------------------------------------
(* The result of a logical delivery is never lost: it stays reachable through *)
(* its key, in the queue, in the archive or with the record that owns it.     *)

\* The result of a command may be relied upon: it is final, or it may hide a
\* sent message.
Told(r) == r.receipt.outcome \in Final \cup Unknown

\* An enqueue keeps the result of every key of f, in the Maps or with the
\* record that owns the key (extension-delivery.ts:366-397).
LEMMA AppendKeepsResult ==
    ASSUME TypeOK, NEW f, Sound(f, nextId),
           NEW k \in Keys \cup {NoKey}, NEW c \in Conversations, Append(f, k, c),
           k # NoKey => Free(f, k),
           NEW d \in Ids, NEW j \in Keys, f[d].at # "nowhere", f[d].key = j
    PROVE  \/ deliveries'[d].at # "nowhere" /\ deliveries'[d].key = j
           \/ Free(deliveries', j) /\ saved'[j].receipt = f[d].receipt
<1>. DEFINE full == Cardinality(InQueue(f)) >= MaxDeliveries
            v == First({e \in Ids : Evictable(f, e)})
            room == IF full THEN Evicted(f, v) ELSE f
<1>1. /\ nextId \in Ids /\ f \in [Ids -> Command]
      /\ deliveries' = [room EXCEPT ![nextId] = NewCommand(k, c)]
      /\ full => saved' = SavedWith(f, v)
      /\ saved \in [Keys -> Copies \cup {NoCopy}]
    BY BoundsAssumption DEF TypeOK, Append, Ids, Sound
<1>2. full => v \in Ids /\ Evictable(f, v)
    BY FirstIsMember DEF Append
<1>3. room \in [Ids -> Command]
    <2>. HIDE DEF v
    <2>. QED
        BY <1>1, <1>2, EvictedIsSound DEF Sound
<1>4. d # nextId /\ j # k
    <2>1. f[nextId] = Nowhere
        BY <1>1, BoundsAssumption DEF Sound, Ids
    <2>2. d # nextId
        BY <2>1, NowhereOK
    <2>3. j # k
        BY KeysAssumption DEF Free
    <2>. QED
        BY <2>2, <2>3
<1>5. CASE full /\ d = v /\ j \in NoticeKeys
    <2>. HIDE DEF v
    <2>1. Evicted(f, v) = [f EXCEPT ![v].at = "archive"]
        BY <1>5 DEF Evicted
    <2>2. room[d].at = "archive" /\ room[d].key = j
        BY <1>1, <1>5, <2>1 DEF Command
    <2>. HIDE DEF room
    <2>. QED
        BY <1>1, <1>3, <1>4, <2>2
<1>6. CASE full /\ d = v /\ j \notin NoticeKeys
    <2>. HIDE DEF v
    <2>1. room = [f EXCEPT ![v] = Nowhere]
        BY <1>5, <1>6 DEF Evicted
    <2>2. saved' = [saved EXCEPT ![j] = [id |-> v, receipt |-> f[v].receipt]]
        BY <1>1, <1>6 DEF SavedWith, Keys
    <2>3. Free(room, j)
        BY <1>1, <1>6, <2>1, NowhereOK, KeysAssumption DEF Sound, Free
    <2>4. Free(deliveries', j)
        <3>. HIDE DEF room
        <3>. QED
            BY <1>1, <1>3, <1>4, <2>3 DEF Free, NewCommand
    <2>. QED
        BY <1>1, <1>6, <2>2, <2>4
<1>7. CASE full => d # v
    <2>1. room[d] = f[d]
        BY <1>1, <1>2, <1>7 DEF Evicted
    <2>. HIDE DEF room
    <2>. QED
        BY <1>1, <1>3, <1>4, <2>1
<1>. QED
    BY <1>5, <1>6, <1>7

\* An enqueue for another key leaves a key without commands, and the copy kept
\* with its record, as they are.
LEMMA AppendKeepsCopy ==
    ASSUME TypeOK, NEW f, Sound(f, nextId),
           NEW k \in Keys \cup {NoKey}, NEW c \in Conversations, Append(f, k, c),
           NEW j \in Keys, j # k, Free(f, j)
    PROVE  Free(deliveries', j) /\ saved'[j] = saved[j]
<1>. DEFINE full == Cardinality(InQueue(f)) >= MaxDeliveries
            v == First({e \in Ids : Evictable(f, e)})
            room == IF full THEN Evicted(f, v) ELSE f
<1>1. /\ nextId \in Ids /\ f \in [Ids -> Command]
      /\ deliveries' = [room EXCEPT ![nextId] = NewCommand(k, c)]
      /\ saved' = IF full THEN SavedWith(f, v) ELSE saved
      /\ saved \in [Keys -> Copies \cup {NoCopy}]
    BY BoundsAssumption DEF TypeOK, Append, Ids, Sound
<1>2. full => v \in Ids /\ Evictable(f, v)
    BY FirstIsMember DEF Append
<1>. HIDE DEF v
<1>3. room \in [Ids -> Command] /\ Free(room, j)
    <2>1. CASE full
        <3>1. /\ Sound(Evicted(f, v), nextId)
              /\ \A e \in Ids : Evicted(f, v)[e].at # "nowhere" =>
                                   f[e].at # "nowhere" /\ f[e].key = Evicted(f, v)[e].key
            BY <1>2, <2>1, EvictedIsSound
        <3>2. Free(Evicted(f, v), j)
            BY <3>1 DEF Free
        <3>. QED
            BY <2>1, <3>1, <3>2 DEF Sound
    <2>2. CASE ~ full
        BY <1>1, <2>2
    <2>. QED
        BY <2>1, <2>2
<1>4. saved'[j] = saved[j]
    <2>1. full => f[v].key # j
        BY <1>2 DEF Free, Evictable
    <2>. QED
        BY <1>1, <2>1 DEF SavedWith
<1>. HIDE DEF room
<1>5. Free(deliveries', j)
    BY <1>1, <1>3 DEF Free, NewCommand
<1>. QED
    BY <1>4, <1>5

\* A step keeps the relied-upon result of a command reachable through its key.
LEMMA NextKeepsResult ==
    ASSUME IInv, [Next]_vars, NEW d \in Ids, NEW j \in Keys,
           deliveries[d].at # "nowhere", deliveries[d].key = j, Told(deliveries[d])
    PROVE  \/ deliveries'[d].at # "nowhere" /\ deliveries'[d].key = j
           \/ Free(deliveries', j) /\ saved'[j].receipt = deliveries[d].receipt
<1>. DEFINE Kept == \/ deliveries'[d].at # "nowhere" /\ deliveries'[d].key = j
                    \/ Free(deliveries', j) /\ saved'[j].receipt = deliveries[d].receipt
<1>0. /\ TypeOK /\ Sound(deliveries, nextId) /\ deliveries \in [Ids -> Command]
      /\ CommandOK(deliveries[d]) /\ deliveries[d] \in Command
    BY DEF IInv, Sound
<1>1. ASSUME NEW k \in Keys \cup {NoKey}, NEW c \in Conversations, EnqueueNew(k, c)
      PROVE  Kept
    <2>1. Append(deliveries, k, c) /\ (k # NoKey => Free(deliveries, k))
        BY <1>1 DEF EnqueueNew, Known, Free
    <2>. QED
        BY <1>0, <2>1, AppendKeepsResult
<1>2. ASSUME NEW k \in Keys, NEW c \in Conversations, EnqueueRetry(k, c)
      PROVE  Kept
    <2>1. PICK f \in [Ids -> Command], e \in Ids :
            /\ Sound(f, nextId) /\ Append(f, k, c) /\ Free(f, k)
            /\ deliveries[e].receipt.outcome = "retryable"
            /\ f = [deliveries EXCEPT ![e] = [deliveries[e] EXCEPT !.key = NoKey]]
        BY <1>2, RetryFreesKey
    <2>2. d # e
        BY <2>1 DEF Told, Final, Unknown
    <2>3. f[d] = deliveries[d]
        BY <1>0, <2>1, <2>2
    <2>4. f[d].at # "nowhere" /\ f[d].key = j
        BY <2>3
    <2>5. \/ deliveries'[d].at # "nowhere" /\ deliveries'[d].key = j
          \/ Free(deliveries', j) /\ saved'[j].receipt = f[d].receipt
        BY <1>0, <2>1, <2>4, AppendKeepsResult
    <2>. QED
        BY <2>3, <2>5
<1>3. ASSUME NEW e \in Ids, ExpireQueued(e) PROVE Kept
    <2>1. d # e
        BY <1>0, <1>3 DEF ExpireQueued, CommandOK, Terminal, HasReceipt, Told, Final, Unknown, NoReceipt
    <2>. QED
        BY <1>0, <1>3, <2>1 DEF ExpireQueued
<1>. QED
    BY <1>1, <1>2, <1>3, PlacesKept
       DEF Next, Expire, EvictionInterrupted, AwaitResult, WaitTimeout, SettleReview, Restart, vars

\* While a key has no command, the copy kept with its record does not change,
\* and no command is created for it again.
LEMMA NextKeepsCopy ==
    ASSUME IInv, [Next]_vars, NEW j \in Keys, Free(deliveries, j), saved[j] # NoCopy
    PROVE  Free(deliveries', j) /\ saved'[j] = saved[j]
<1>0. TypeOK /\ Sound(deliveries, nextId) /\ deliveries \in [Ids -> Command]
    BY DEF IInv, Sound
<1>1. ASSUME NEW k \in Keys \cup {NoKey}, NEW c \in Conversations, EnqueueNew(k, c)
      PROVE  Free(deliveries', j) /\ saved'[j] = saved[j]
    <2>1. j # k /\ Append(deliveries, k, c)
        BY <1>1, KeysAssumption DEF EnqueueNew
    <2>. QED
        BY <1>0, <2>1, AppendKeepsCopy
<1>2. ASSUME NEW k \in Keys, NEW c \in Conversations, EnqueueRetry(k, c)
      PROVE  Free(deliveries', j) /\ saved'[j] = saved[j]
    <2>1. PICK f \in [Ids -> Command], e \in Ids :
            /\ Sound(f, nextId) /\ Append(f, k, c)
            /\ deliveries[e].at = "queue" /\ deliveries[e].key = k
            /\ f = [deliveries EXCEPT ![e] = [deliveries[e] EXCEPT !.key = NoKey]]
        BY <1>2, RetryFreesKey
    <2>2. j # k
        BY <2>1 DEF Free
    <2>3. Free(f, j)
        BY <1>0, <2>1, KeysAssumption DEF Free, Command
    <2>. QED
        BY <1>0, <2>1, <2>2, <2>3, AppendKeepsCopy
<1>3. ASSUME EvictionInterrupted
      PROVE  Free(deliveries', j) /\ saved'[j] = saved[j]
    <2>1. PICK v \in Ids : Evictable(deliveries, v) /\ saved' = SavedWith(deliveries, v)
        BY <1>3 DEF EvictionInterrupted
    <2>2. deliveries[v].key # j
        BY <2>1 DEF Free, Evictable
    <2>. QED
        BY <1>0, <1>3, <2>1, <2>2 DEF EvictionInterrupted, SavedWith, TypeOK
<1>4. ASSUME NEW e \in Ids, ExpireQueued(e)
      PROVE  Free(deliveries', j) /\ saved'[j] = saved[j]
    BY <1>0, <1>4, NowhereOK DEF ExpireQueued, Free
<1>5. ASSUME UNCHANGED saved,
             \A d \in Ids : deliveries'[d].at = deliveries[d].at /\ deliveries'[d].key = deliveries[d].key
      PROVE  Free(deliveries', j) /\ saved'[j] = saved[j]
    BY <1>5 DEF Free
<1>6. ASSUME \/ \E o \in Owners : Claim(o)
             \/ \E e \in Ids, o \in Owners, x \in AckOutcomes : Acknowledge(e, o, x)
             \/ \E e \in Ids : ExpireLeased(e)
             \/ \E e \in Ids, x \in RecoveryErrors : ReportRecoveryFailure(e, x)
             \/ Tick
      PROVE  Free(deliveries', j) /\ saved'[j] = saved[j]
    <2>1. UNCHANGED saved
        BY <1>6 DEF Claim, Acknowledge, ExpireLeased, ReportRecoveryFailure, Tick
    <2>. QED
        BY <1>5, <1>6, <2>1, PlacesKept
<1>. QED
    BY <1>1, <1>2, <1>3, <1>4, <1>5, <1>6
       DEF Next, Expire, AwaitResult, WaitTimeout, SettleReview, Restart, vars

\* The one command of a key is the command its lookup finds.
LEMMA OneKnown ==
    ASSUME NEW f, NEW n, Sound(f, n), NEW k \in Keys, NEW d \in Ids, f[d].at # "nowhere", f[d].key = k
    PROVE  LET known == {e \in Ids : f[e].at # "nowhere" /\ f[e].key = k}
           IN  known # {} /\ First(known) = d
<1>. DEFINE known == {e \in Ids : f[e].at # "nowhere" /\ f[e].key = k}
<1>1. known # {} /\ known \in SUBSET Ids /\ \A e \in known : e = d
    BY KeysAssumption DEF Sound
<1>2. First(known) \in known
    <2>. HIDE DEF known
    <2>. QED
        BY <1>1, FirstIsMember
<1>. QED
    BY <1>1, <1>2

\* What the lookup of a key returns, now and after a step.
LEMMA Lookup ==
    ASSUME IInv, [Next]_vars, NEW k \in Keys
    PROVE  /\ \A d \in Ids : deliveries[d].at # "nowhere" /\ deliveries[d].key = k
                                => ReceiptOf(k) = deliveries[d].receipt
           /\ \A d \in Ids : deliveries'[d].at # "nowhere" /\ deliveries'[d].key = k
                                => ReceiptOf(k)' = deliveries'[d].receipt
           /\ Free(deliveries, k) => ReceiptOf(k) = saved[k].receipt
           /\ Free(deliveries', k) => ReceiptOf(k)' = saved'[k].receipt
<1>1. Sound(deliveries, nextId) /\ Sound(deliveries', nextId')
    BY NextIInv DEF IInv
<1>2. ASSUME NEW d \in Ids, deliveries[d].at # "nowhere", deliveries[d].key = k
      PROVE  ReceiptOf(k) = deliveries[d].receipt
    BY <1>1, <1>2, OneKnown DEF ReceiptOf, Known
<1>3. ASSUME NEW d \in Ids, deliveries'[d].at # "nowhere", deliveries'[d].key = k
      PROVE  ReceiptOf(k)' = deliveries'[d].receipt
    BY <1>1, <1>3, OneKnown DEF ReceiptOf, Known
<1>4. Free(deliveries, k) => ReceiptOf(k) = saved[k].receipt
    BY DEF Free, ReceiptOf, Known
<1>5. Free(deliveries', k) => ReceiptOf(k)' = saved'[k].receipt
    BY DEF Free, ReceiptOf, Known
<1>. QED
    BY <1>2, <1>3, <1>4, <1>5

\* A final result stays reachable through its key for ever, so that a repeated
\* enqueue returns it and sends nothing, and a result that may hide a sent
\* message is never forgotten (extension-delivery.ts:360-397).
THEOREM ResultsKept == Spec => ResultKept
<1>1. ASSUME IInv, [Next]_vars, NEW k \in Keys, ReceiptOf(k).outcome \in Final \cup Unknown
      PROVE  /\ ReceiptOf(k).outcome \in Final => ReceiptOf(k)' = ReceiptOf(k)
             /\ ReceiptOf(k).outcome \in Unknown => ReceiptOf(k)'.outcome # "none"
    <2>1. CASE Free(deliveries, k)
        <3>1. saved[k] # NoCopy /\ ReceiptOf(k) = saved[k].receipt
            BY <1>1, <2>1, Lookup DEF NoCopy, NoReceipt, Final, Unknown
        <3>2. ReceiptOf(k)' = ReceiptOf(k)
            BY <1>1, <2>1, <3>1, NextKeepsCopy, Lookup
        <3>. QED
            BY <1>1, <3>2 DEF Unknown
    <2>2. CASE ~ Free(deliveries, k)
        <3>1. PICK d \in Ids : deliveries[d].at # "nowhere" /\ deliveries[d].key = k
            BY <2>2 DEF Free
        <3>2. ReceiptOf(k) = deliveries[d].receipt /\ Told(deliveries[d])
            BY <1>1, <3>1, Lookup DEF Told
        <3>3. CASE Free(deliveries', k) /\ saved'[k].receipt = deliveries[d].receipt
            <4>1. ReceiptOf(k)' = ReceiptOf(k)
                BY <1>1, <3>2, <3>3, Lookup
            <4>. QED
                BY <1>1, <4>1 DEF Unknown
        <3>4. CASE deliveries'[d].at # "nowhere" /\ deliveries'[d].key = k
            <4>1. ReceiptOf(k)' = deliveries'[d].receipt
                BY <1>1, <3>4, Lookup
            <4>2. deliveries[d].receipt # NoReceipt
                BY <3>2 DEF Told, NoReceipt, Final, Unknown
            <4>3. \/ deliveries'[d].receipt = deliveries[d].receipt
                  \/ /\ deliveries[d].receipt.outcome = "timed_out"
                     /\ deliveries'[d].receipt.owner = deliveries[d].receipt.owner
                BY <1>1, <3>4, <4>2, NextEvolves DEF Evolves
            <4>4. /\ deliveries[d].receipt \in Receipts \cup {NoReceipt}
                  /\ deliveries'[d].receipt \in Receipts \cup {NoReceipt}
                <5>1. Sound(deliveries, nextId) /\ Sound(deliveries', nextId')
                    BY <1>1, NextIInv DEF IInv
                <5>. QED
                    BY <5>1 DEF Sound, Command
            <4>5. deliveries[d].receipt.owner \in Owners
                BY <4>2, <4>4 DEF Receipts
            <4>6. CASE deliveries'[d].receipt = deliveries[d].receipt
                BY <1>1, <3>2, <4>1, <4>6 DEF Unknown
            <4>7. CASE /\ deliveries[d].receipt.outcome = "timed_out"
                       /\ deliveries'[d].receipt.owner = deliveries[d].receipt.owner
                <5>1. deliveries'[d].receipt # NoReceipt
                    BY <4>5, <4>7, OwnersAssumption DEF NoReceipt
                <5>2. deliveries'[d].receipt.outcome # "none"
                    BY <4>4, <5>1 DEF Receipts, Outcomes, AckOutcomes
                <5>. QED
                    BY <3>2, <4>1, <4>7, <5>2 DEF Final
            <4>. QED
                BY <4>3, <4>6, <4>7
        <3>. QED
            BY <1>1, <3>1, <3>2, <3>3, <3>4, NextKeepsResult
    <2>. QED
        BY <2>1, <2>2
<1>2. IInv /\ [Next]_vars =>
        [\A k \in Keys :
            /\ ReceiptOf(k).outcome \in Final => ReceiptOf(k)' = ReceiptOf(k)
            /\ ReceiptOf(k).outcome \in Unknown => ReceiptOf(k)'.outcome # "none"]_vars
    BY <1>1
<1>. QED
    BY <1>2, Invariance, PTL DEF Spec, ResultKept

-----------------------------------------------------------------------------
(* The transport                                                           *)

\* One extension installation is paired with the runtime.
OneBrowser == \A b, c \in Clients : b = c

Armed(d, i) == page[d].pc = "armed" /\ page[d].cmd = i
NobodyArmed(i) == \A d \in Documents : ~ Armed(d, i)

\* The service keeps the command for this document: its lease, or its late answer.
Held(i, o) ==
    /\ deliveries[i].at = "queue"
    /\ \/ deliveries[i].phase = "leased" /\ deliveries[i].lease.owner = o
       \/ deliveries[i].receipt = [owner |-> o, outcome |-> "timed_out"]

\* What an outcome says of the page.
Truthful(outcome, i) ==
    /\ outcome = "sent" => posted[i] = 1
    /\ outcome \in {"retryable", "refused"} => posted[i] = 0

\* A task is served for the document that waits for it; it asks for a claim only with
\* nothing in flight and nothing to acknowledge.
TaskOK(c) ==
    LET t == task[c] IN
    /\ t.step # "idle" => t.goal # "none"
    /\ t.step # "idle" /\ t.doc # NoDocument =>
        /\ ClientOf[t.doc] = c
        /\ page[t.doc].pc \in {"closed", IF t.goal = "claim" THEN "claiming" ELSE "acking"}
    /\ t.step \in {"claim", "record"} =>
        t.goal = "claim" /\ inFlight[c] = {} /\ outbox[c] = {}
    /\ t.goal = "claim" => t.doc # NoDocument
    /\ t.step = "record" => t.cmd # 0 /\ Held(t.cmd, OwnerOf(t.doc)) /\ posted[t.cmd] = 0
                            /\ NobodyArmed(t.cmd)
    /\ t.step \in {"flush", "remove"} /\ t.goal # "ack" /\ ~ t.blocked =>
        \A e \in inFlight[c] : e.phase = "claimed"
    /\ t.step = "remove" =>
        /\ t.ack \in outbox[c]
        /\ deliveries[t.ack.id].at = "queue" =>
            deliveries[t.ack.id].receipt = [owner |-> t.ack.owner, outcome |-> t.ack.outcome]

\* One command is in flight at a time; the service keeps it for its document.
EntryOK(c, e) ==
    /\ ClientOf[e.owner.doc] = c
    /\ \A f \in inFlight[c] : f = e
    /\ \A a \in outbox[c] : a.id # e.id
    /\ Held(e.id, e.owner)
    /\ e.phase = "claimed" => posted[e.id] = 0 /\ NobodyArmed(e.id)

\* An acknowledgement is true, and the service still waits for it or has recorded it.
AckOK(c, a) ==
    /\ a.id < nextId
    /\ \A b \in outbox[c] : b.id = a.id => b = a
    /\ Truthful(a.outcome, a.id)
    /\ a.outcome # "ambiguous" => NobodyArmed(a.id)
    /\ deliveries[a.id].at = "queue" =>
        \/ Held(a.id, a.owner)
        \/ deliveries[a.id].receipt = [owner |-> a.owner, outcome |-> a.outcome]
    /\ deliveries[a.id].at # "queue" => a.outcome # "ambiguous"

Submitting(d) == \E e \in Owned(ClientOf[d], d) : e.phase = "submitting"
InDoubt(i) ==
    \/ \E c \in Clients : \E a \in outbox[c] : a.id = i /\ a.outcome = "ambiguous"
    \/ deliveries[i].at = "queue" /\ deliveries[i].receipt.outcome = "ambiguous"

PageOK(d) ==
    LET p == page[d] IN
    /\ p.pc \in {"holding", "arming", "armed", "acking"} => p.cmd # 0
    /\ p.pc = "acking" => p.outcome \in AckOutcomes
    /\ p.pc \in {"holding", "arming"} => \A e \in Owned(ClientOf[d], d) : e.phase = "claimed"
    /\ p.pc = "armed" =>
        /\ posted[p.cmd] = 0
        /\ Submitting(d) \/ InDoubt(p.cmd)
        /\ \A b \in Documents : Armed(b, p.cmd) => b = d
    /\ p.pc = "acking" /\ Owned(ClientOf[d], d) # {} => Truthful(p.outcome, p.cmd)

\* What was posted is accounted for: by the worker, or by a receipt that allows it.
Answered(i) ==
    \/ \E c \in Clients : \E e \in inFlight[c] : e.id = i /\ e.phase = "submitting"
    \/ \E c \in Clients : \E a \in outbox[c] : a.id = i
    \/ deliveries[i].at # "nowhere" /\ deliveries[i].receipt.outcome \in {"sent", "ambiguous"}

CommandTrue(i) ==
    /\ posted[i] \in 0 .. 1
    /\ deliveries[i].at # "nowhere" =>
        /\ Truthful(deliveries[i].receipt.outcome, i)
        /\ deliveries[i].receipt.outcome = "retryable" => NobodyArmed(i)
    /\ posted[i] > 0 /\ deliveries[i].at # "nowhere" => Answered(i)
    /\ i >= nextId => posted[i] = 0

\* A command goes by the key it was created under, its result is saved under that key, or
\* its message was never posted and never will be.
NameOK(i) ==
    origin[i] # NoKey =>
        \/ deliveries[i].at # "nowhere" /\ deliveries[i].key = origin[i]
        \/ saved[origin[i]].id = i
        \/ deliveries[i].at = "nowhere" /\ posted[i] = 0
        \/ deliveries[i].at # "nowhere" /\ deliveries[i].receipt.outcome = "retryable"
SavedOK == \A k \in Keys : saved[k] # NoCopy => Known(k) = {}

WorkerTypes ==
    /\ inFlight \in [Clients -> SUBSET Entries]
    /\ outbox \in [Clients -> SUBSET Acks]
    /\ task \in [Clients -> Task]
PageTypes ==
    /\ page \in [Documents -> Page]
    /\ epoch \in [Documents -> 0 .. MaxEpoch]
    /\ registered \in [Documents -> 0 .. MaxEpoch]
    /\ posted \in [Ids -> Nat]

TasksOK == \A c \in Clients : TaskOK(c)
EntriesOK == \A c \in Clients : \A e \in inFlight[c] : EntryOK(c, e)
AcksOK == \A c \in Clients : \A a \in outbox[c] : AckOK(c, a)
PagesOK == \A d \in Documents : PageOK(d)
CommandsTrue == \A i \in Ids : CommandTrue(i)
NamesOK == RetryFenced /\ SavedOK /\ \A i \in Ids : NameOK(i)

TInv == IInv /\ WorkerTypes /\ PageTypes /\ TasksOK /\ EntriesOK /\ AcksOK /\ PagesOK
        /\ CommandsTrue /\ NamesOK

-----------------------------------------------------------------------------
(* What the invariant says at a glance *)

LEMMA OwnersAre ==
    ASSUME PageTypes, NEW d \in Documents
    PROVE  /\ OwnerOf(d) \in Owners /\ OwnerOf(d).doc = d /\ OwnerOf(d).epoch = page[d].epoch
           /\ \A b \in Documents : OwnerOf(b) = OwnerOf(d) => b = d
BY TransportAssumption DEF PageTypes, Page, OwnerOf

LEMMA PlacedFacts ==
    ASSUME IInv, NEW i \in Ids
    PROVE  /\ deliveries[i] \in Command /\ CommandOK(deliveries[i])
           /\ nextId \in Nat /\ i \in Nat
           /\ deliveries[i].at # "nowhere" => i < nextId
           /\ i >= nextId => deliveries[i] = Nowhere
<1>1. CommandOK(deliveries[i]) /\ nextId \in Nat /\ i \in Nat /\ (i >= nextId => deliveries[i] = Nowhere)
    BY BoundsAssumption DEF IInv, Sound, TypeOK, Ids
<1>. QED
    BY <1>1, NowhereOK DEF CommandOK

\* A command that is held has no receipt but that of the time limit, and is not fresh.
LEMMA HeldFacts ==
    ASSUME IInv, NEW i \in Ids, NEW o, Held(i, o)
    PROVE  /\ deliveries[i].at = "queue" /\ i < nextId
           /\ deliveries[i].phase # "queued"
           /\ deliveries[i].receipt.outcome \in {"none", "timed_out"}
<1>1. CommandOK(deliveries[i])
    BY PlacedFacts
<1>2. i < nextId
    BY PlacedFacts DEF Held
<1>3. deliveries[i].phase = "leased" => deliveries[i].receipt = NoReceipt
    BY <1>1 DEF CommandOK, Held, Terminal, HasReceipt
<1>4. deliveries[i].receipt.outcome = "timed_out" => deliveries[i].phase = "ambiguous"
    BY <1>1 DEF CommandOK, Held, Terminal, HasReceipt, NoReceipt, StatusOf
<1>5. deliveries[i].receipt.outcome \in {"none", "timed_out"} /\ deliveries[i].phase # "queued"
    BY <1>3, <1>4 DEF Held, NoReceipt
<1>. QED
    BY <1>2, <1>5 DEF Held

LEMMA EntryFacts ==
    ASSUME TInv, NEW c \in Clients, NEW e \in inFlight[c]
    PROVE  /\ e \in Entries /\ e.id \in Ids /\ e.owner \in Owners /\ EntryOK(c, e)
           /\ deliveries[e.id].at = "queue" /\ e.id < nextId
           /\ deliveries[e.id].receipt.outcome \in {"none", "timed_out"}
<1>1. e \in Entries /\ EntryOK(c, e)
    BY DEF TInv, WorkerTypes, EntriesOK
<1>. QED
    BY <1>1, HeldFacts DEF TInv, EntryOK, Entries

LEMMA AckFacts ==
    ASSUME TInv, NEW c \in Clients, NEW a \in outbox[c]
    PROVE  a \in Acks /\ a.id \in Ids /\ a.owner \in Owners /\ a.outcome \in AckOutcomes /\ AckOK(c, a)
BY DEF TInv, WorkerTypes, AcksOK, Acks

LEMMA PageFacts ==
    ASSUME TInv, NEW d \in Documents
    PROVE  /\ page[d] \in Page /\ PageOK(d) /\ ClientOf[d] \in Clients
           /\ page[d].pc \in {"holding", "arming", "armed", "acking"} => page[d].cmd \in Ids
BY TransportAssumption DEF TInv, PageTypes, PagesOK, PageOK, Page

LEMMA ArmedFacts ==
    ASSUME TInv, OneBrowser, NEW d \in Documents, NEW i, Armed(d, i)
    PROVE  /\ i \in Ids /\ posted[i] = 0 /\ i < nextId
           /\ deliveries[i].at = "queue"
           /\ deliveries[i].receipt.outcome \in {"none", "timed_out", "ambiguous"}
           /\ \A c \in Clients : \A e \in inFlight[c] : e.id = i => e.owner = OwnerOf(d) /\ e.phase = "submitting"
           /\ \A c \in Clients : \A a \in outbox[c] : a.id = i => a.outcome = "ambiguous"
<1>1. i \in Ids /\ PageOK(d) /\ ClientOf[d] \in Clients /\ posted[i] = 0
    BY PageFacts DEF Armed, PageOK
<1>2. CASE Submitting(d)
    <2>1. PICK e \in inFlight[ClientOf[d]] : e.id = i /\ e.owner = OwnerOf(d) /\ e.phase = "submitting"
        BY <1>2 DEF Submitting, Owned, Armed
    <2>2. EntryOK(ClientOf[d], e)
        BY <1>1, EntryFacts
    <2>. QED
        BY <1>1, <2>1, <2>2, EntryFacts DEF OneBrowser, EntryOK
<1>3. CASE InDoubt(i)
    <2>1. ASSUME NEW c \in Clients, NEW a \in outbox[c], a.id = i, a.outcome = "ambiguous"
          PROVE  /\ deliveries[i].at = "queue" /\ i < nextId
                 /\ deliveries[i].receipt.outcome \in {"none", "timed_out", "ambiguous"}
        <3>1. AckOK(c, a) /\ deliveries[i].at = "queue"
            BY <2>1, AckFacts DEF AckOK
        <3>2. CASE Held(i, a.owner)
            BY <1>1, <3>2, HeldFacts DEF TInv
        <3>3. CASE deliveries[i].receipt = [owner |-> a.owner, outcome |-> "ambiguous"]
            BY <1>1, <2>1, <3>1, <3>3 DEF AckOK
        <3>. QED
            BY <2>1, <3>1, <3>2, <3>3 DEF AckOK
    <2>2. ASSUME deliveries[i].at = "queue", deliveries[i].receipt.outcome = "ambiguous"
          PROVE  i < nextId
        BY <1>1, <2>2, PlacedFacts DEF TInv
    <2>3. ASSUME NEW c \in Clients, NEW a \in outbox[c], a.id = i PROVE a.outcome = "ambiguous"
        BY <2>3, AckFacts DEF AckOK, NobodyArmed
    <2>4. ASSUME NEW c \in Clients, NEW e \in inFlight[c], e.id = i PROVE FALSE
        <3>1. EntryOK(c, e) /\ deliveries[i].receipt.outcome # "ambiguous"
            BY <2>4, EntryFacts
        <3>. QED
            BY <1>3, <2>4, <3>1 DEF InDoubt, EntryOK, OneBrowser
    <2>. QED
        BY <1>1, <1>3, <2>1, <2>2, <2>3, <2>4 DEF InDoubt
<1>4. Submitting(d) \/ InDoubt(i)
    BY <1>1 DEF PageOK, Armed
<1>5. ASSUME NEW c \in Clients, NEW a \in outbox[c], a.id = i PROVE a.outcome = "ambiguous"
    BY <1>5, AckFacts DEF AckOK, NobodyArmed
<1>. QED
    BY <1>1, <1>2, <1>3, <1>4, <1>5

-----------------------------------------------------------------------------
(* Steps that let the service alone and make pages only calmer *)

ServiceUnchanged == deliveries' = deliveries /\ nextId' = nextId

\* The document waits no more for anything it holds, or nothing has changed for it.
Calmer(d) == page'[d] = page[d] \/ page'[d].pc \in {"idle", "claiming", "closed"}

\* Entries are dropped only before a submit.
Drops(c) ==
    /\ inFlight'[c] \subseteq inFlight[c]
    /\ \A e \in inFlight[c] : e \in inFlight'[c] \/ e.phase = "claimed"

LEMMA CalmerKeeps ==
    ASSUME TInv, ServiceUnchanged, UNCHANGED <<outbox, posted>>,
           \A d \in Documents : Calmer(d), \A c \in Clients : Drops(c)
    PROVE  EntriesOK' /\ AcksOK' /\ PagesOK' /\ CommandsTrue'
<1>. USE DEF ServiceUnchanged
<1>1. \A d \in Documents : \A i : Armed(d, i)' => Armed(d, i)
    BY DEF Calmer, Armed
<1>2. \A i : NobodyArmed(i) => NobodyArmed(i)'
    BY <1>1 DEF NobodyArmed
<1>3. \A i, o : Held(i, o)' = Held(i, o)
    BY DEF Held
<1>4. EntriesOK'
    BY <1>2, <1>3 DEF TInv, EntriesOK, EntryOK, Drops
<1>5. AcksOK'
    BY <1>2, <1>3 DEF TInv, AcksOK, AckOK, Truthful
<1>6. CommandsTrue'
    BY <1>2 DEF TInv, CommandsTrue, CommandTrue, Truthful, Answered, Drops
<1>7. ASSUME NEW d \in Documents PROVE PageOK(d)'
    <2>1. CASE page'[d].pc \in {"idle", "claiming", "closed"}
        BY <2>1 DEF PageOK
    <2>2. CASE page'[d] = page[d]
        <3>1. PageOK(d) /\ ClientOf[d] \in Clients
            BY PageFacts
        <3>2. /\ Owned(ClientOf[d], d)' \subseteq Owned(ClientOf[d], d)
              /\ Submitting(d) => Submitting(d)'
            BY <2>2, <3>1 DEF Owned, OwnerOf, Drops, Submitting
        <3>3. InDoubt(page[d].cmd) => InDoubt(page[d].cmd)'
            BY <2>2 DEF InDoubt
        <3>. QED
            BY <1>1, <2>2, <3>1, <3>2, <3>3 DEF PageOK, Truthful
    <2>. QED
        BY <2>1, <2>2 DEF Calmer
<1>. QED
    BY <1>4, <1>5, <1>6, <1>7 DEF PagesOK

\* Tasks care only for the documents they serve.
LEMMA TasksKept ==
    ASSUME TInv, ServiceUnchanged, UNCHANGED <<inFlight, outbox, task, posted>>,
           \A d \in Documents :
                \/ page'[d].pc = "closed" /\ OwnerOf(d)' = OwnerOf(d)
                \/ page'[d] = page[d]
                \/ page[d].pc \notin {"closed", "claiming", "acking"},
           \A i : NobodyArmed(i) => NobodyArmed(i)'
    PROVE  TasksOK'
<1>1. \A i, o : Held(i, o)' = Held(i, o)
    BY DEF Held, ServiceUnchanged
<1>2. ASSUME NEW c \in Clients PROVE TaskOK(c)'
    <2>. DEFINE t == task[c]
    <2>1. t \in Task /\ TaskOK(c)
        BY DEF TInv, WorkerTypes, TasksOK
    <2>2. CASE t.step # "idle" /\ t.doc # NoDocument
        <3>1. t.doc \in Documents /\ page[t.doc].pc \in {"closed", "claiming", "acking"}
            BY <2>1, <2>2 DEF Task, TaskOK
        <3>2. \/ page'[t.doc].pc = "closed" /\ OwnerOf(t.doc)' = OwnerOf(t.doc)
              \/ page'[t.doc] = page[t.doc] /\ OwnerOf(t.doc)' = OwnerOf(t.doc)
            BY <3>1 DEF OwnerOf
        <3>. QED
            BY <1>1, <2>1, <3>2 DEF TaskOK, ServiceUnchanged
    <2>3. CASE ~(t.step # "idle" /\ t.doc # NoDocument)
        BY <1>1, <2>1, <2>3 DEF TaskOK, ServiceUnchanged
    <2>. QED
        BY <2>2, <2>3
<1>. QED
    BY <1>2 DEF TasksOK

\* Whether names are in order does not depend on workers and pages.
LEMMA NamesKept ==
    ASSUME TInv, UNCHANGED <<vars, posted>> PROVE IInv' /\ NamesOK'
<1>1. IInv'
    BY NextIInv DEF TInv
<1>2. NamesOK'
    BY DEF TInv, NamesOK, RetryFenced, InQueue, SavedOK, Known, NameOK, vars
<1>. QED
    BY <1>1, <1>2

-----------------------------------------------------------------------------
(* The content script *)

LEMMA PageTypesKept ==
    ASSUME PageTypes, NEW d \in Documents, PageStep(d) PROVE PageTypes'
<1>. USE TransportAssumption DEF PageTypes
<1>1. page[d] \in Page /\ PageAt("idle") \in Page
    BY DEF Page, PageAt
<1>2. ASSUME NEW x \in AckOutcomes, GiveUp(d, x) PROVE page' \in [Documents -> Page]
    BY <1>1, <1>2 DEF GiveUp, Page, AckOutcomes
<1>3. CASE Open(d) \/ Poll(d)
    BY <1>1, <1>3 DEF Open, Poll, Page, PageAt
<1>4. CASE InsertPrompt(d)
    <2>1. page' = [page EXCEPT ![d].pc = "arming"] => page' \in [Documents -> Page]
        BY <1>1 DEF Page
    <2>. QED
        BY <1>2, <1>4, <2>1 DEF InsertPrompt, AckOutcomes
<1>5. CASE NotClicked(d)
    BY <1>2, <1>5 DEF NotClicked, AckOutcomes
<1>6. CASE Click(d)
    <2>1. page' \in [Documents -> Page]
        BY <1>2, <1>6 DEF Click, AckOutcomes
    <2>2. posted' \in [Ids -> Nat]
        BY <1>6 DEF Click, Ids
    <2>. QED
        BY <1>6, <2>1, <2>2 DEF Click
<1>7. CASE Navigate(d) \/ Register(d) \/ CloseDocument(d)
    <2>1. [PageAt("closed") EXCEPT !.epoch = page[d].epoch] \in Page
        BY <1>1 DEF Page, PageAt
    <2>. QED
        BY <1>7, <2>1 DEF Navigate, Register, CloseDocument
<1>. QED
    BY <1>3, <1>4, <1>5, <1>6, <1>7 DEF PageStep

\* A page that opens, polls, navigates or is closed.
LEMMA CalmPageSteps ==
    ASSUME TInv, NEW d \in Documents,
           Open(d) \/ Poll(d) \/ Navigate(d) \/ Register(d) \/ CloseDocument(d)
    PROVE  TasksOK' /\ EntriesOK' /\ AcksOK' /\ PagesOK' /\ CommandsTrue'
<1>1. page[d] \in Page /\ page \in [Documents -> Page] /\ epoch[d] \in 0 .. MaxEpoch
    BY DEF TInv, PageTypes
<1>2. UNCHANGED <<vars, workerVars, posted>>
    BY DEF Open, Poll, Navigate, Register, CloseDocument
<1>3. ASSUME NEW b \in Documents
      PROVE  /\ Calmer(b)
             /\ \/ page'[b].pc = "closed" /\ OwnerOf(b)' = OwnerOf(b)
                \/ page'[b] = page[b]
                \/ page[b].pc \notin {"closed", "claiming", "acking"}
    BY <1>1 DEF Calmer, Open, Poll, Navigate, Register, CloseDocument, PageAt, Page, OwnerOf
<1>4. \A i : NobodyArmed(i) => NobodyArmed(i)'
    BY <1>3 DEF Calmer, NobodyArmed, Armed
<1>5. ServiceUnchanged /\ \A c \in Clients : Drops(c)
    BY <1>2 DEF ServiceUnchanged, vars, workerVars, Drops
<1>. QED
    BY <1>2, <1>3, <1>4, <1>5, CalmerKeeps, TasksKept DEF workerVars

\* What a document reports about a command that was not posted before.
LEMMA PageMoves ==
    ASSUME TInv, OneBrowser, NEW d \in Documents, InsertPrompt(d) \/ NotClicked(d)
    PROVE  TasksOK' /\ EntriesOK' /\ AcksOK' /\ PagesOK' /\ CommandsTrue'
<1>1. /\ page[d] \in Page /\ page \in [Documents -> Page] /\ PageOK(d) /\ ClientOf[d] \in Clients
      /\ page[d].pc \in {"holding", "armed"} /\ page[d].cmd \in Ids
    BY PageFacts DEF TInv, PageTypes, InsertPrompt, NotClicked
<1>2. UNCHANGED <<vars, workerVars, epoch, registered, posted>>
    BY DEF InsertPrompt, NotClicked
<1>3. /\ page'[d].pc \in {"arming", "acking"} /\ page'[d].cmd = page[d].cmd
      /\ page'[d].epoch = page[d].epoch
      /\ page'[d].pc = "acking" => page'[d].outcome \in {"retryable", "refused"}
      /\ page'[d].pc = "arming" => page[d].pc = "holding"
      /\ \A b \in Documents \ {d} : page'[b] = page[b]
    BY <1>1 DEF InsertPrompt, NotClicked, GiveUp, Page
<1>4. \A b \in Documents : \A i : Armed(b, i)' => Armed(b, i)
    BY <1>3 DEF Armed
<1>5. \A i : NobodyArmed(i) => NobodyArmed(i)'
    BY <1>4 DEF NobodyArmed
<1>6. ServiceUnchanged /\ \A i, o : Held(i, o)' = Held(i, o)
    BY <1>2 DEF ServiceUnchanged, vars, Held
<1>7. UNCHANGED <<inFlight, outbox, task, deliveries, nextId, posted>>
    BY <1>2 DEF workerVars, vars
<1>8. TasksOK'
    BY <1>1, <1>3, <1>5, <1>6, <1>7, TasksKept
<1>9. EntriesOK' /\ AcksOK'
    BY <1>5, <1>6, <1>7 DEF TInv, EntriesOK, EntryOK, AcksOK, AckOK, Truthful
<1>10. CommandsTrue'
    BY <1>5, <1>7 DEF TInv, CommandsTrue, CommandTrue, Truthful, Answered
<1>11. posted[page[d].cmd] = 0 \/ Owned(ClientOf[d], d) = {}
    <2>1. CASE page[d].pc = "armed"
        BY <1>1, <2>1 DEF PageOK
    <2>2. ASSUME page[d].pc = "holding", NEW e \in Owned(ClientOf[d], d)
          PROVE  posted[page[d].cmd] = 0
        <3>1. e \in inFlight[ClientOf[d]] /\ e.id = page[d].cmd /\ e.phase = "claimed"
            BY <1>1, <2>2 DEF PageOK, Owned
        <3>. QED
            BY <1>1, <3>1, EntryFacts DEF EntryOK
    <2>. QED
        BY <1>1, <2>1, <2>2
<1>12. ASSUME NEW b \in Documents PROVE PageOK(b)'
    <2>1. PageOK(b) /\ (b # d => page'[b] = page[b])
        BY <1>3, PageFacts
    <2>2. Owned(ClientOf[b], b)' = Owned(ClientOf[b], b)
        BY <1>3, <1>7, <2>1 DEF Owned, OwnerOf
    <2>3. CASE b = d
        BY <1>1, <1>3, <1>7, <1>11, <2>1, <2>2, <2>3 DEF PageOK, Truthful, AckOutcomes
    <2>4. CASE b # d
        <3>1. InDoubt(page[b].cmd) => InDoubt(page[b].cmd)'
            BY <1>7, <2>1, <2>4 DEF InDoubt
        <3>. QED
            BY <1>4, <1>7, <2>1, <2>2, <2>4, <3>1 DEF PageOK, Truthful, Submitting
    <2>. QED
        BY <2>3, <2>4
<1>. QED
    BY <1>8, <1>9, <1>10, <1>12 DEF PagesOK

\* The click: no entry still to submit, no definite acknowledgement, no claim under way
\* and no definite receipt can be of the command that is posted.
LEMMA ClickKeeps ==
    ASSUME TInv, OneBrowser, NEW d \in Documents, Click(d)
    PROVE  TasksOK' /\ EntriesOK' /\ AcksOK' /\ PagesOK' /\ CommandsTrue'
<1>0. PICK i \in Ids : i = page[d].cmd
    BY PageFacts DEF Click
<1>1. /\ page[d] \in Page /\ page \in [Documents -> Page] /\ ClientOf[d] \in Clients
      /\ page[d].pc = "armed" /\ page[d].cmd = i /\ Armed(d, i)
      /\ posted \in [Ids -> Nat] /\ i # 0
    BY <1>0, PageFacts, PlacedFacts DEF TInv, PageTypes, Click, Armed, Ids
<1>2. /\ posted[i] = 0 /\ i < nextId /\ deliveries[i].at = "queue"
      /\ deliveries[i].receipt.outcome \in {"none", "timed_out", "ambiguous"}
      /\ \A c \in Clients : \A e \in inFlight[c] : e.id = i => e.owner = OwnerOf(d) /\ e.phase = "submitting"
      /\ \A c \in Clients : \A a \in outbox[c] : a.id = i => a.outcome = "ambiguous"
    BY <1>1, ArmedFacts
<1>3. UNCHANGED <<inFlight, outbox, task, deliveries, nextId>>
    BY DEF Click, vars, workerVars
<1>4. /\ page'[d].pc = "acking" /\ page'[d].cmd = i /\ page'[d].epoch = page[d].epoch
      /\ \/ page'[d].outcome = "sent" /\ posted'[i] = 1
         \/ page'[d].outcome = "ambiguous" /\ posted'[i] \in 0 .. 1
      /\ \A b \in Documents \ {d} : page'[b] = page[b]
      /\ \A j \in Ids \ {i} : posted'[j] = posted[j]
    <2>1. CASE GiveUp(d, "sent") /\ posted' = [posted EXCEPT ![page[d].cmd] = @ + 1]
        BY <1>1, <1>2, <2>1 DEF GiveUp, Page
    <2>2. CASE GiveUp(d, "ambiguous") /\ posted' = [posted EXCEPT ![page[d].cmd] = @ + 1]
        BY <1>1, <1>2, <2>2 DEF GiveUp, Page
    <2>3. CASE GiveUp(d, "ambiguous") /\ UNCHANGED posted
        BY <1>1, <1>2, <2>3 DEF GiveUp, Page
    <2>. QED
        BY <2>1, <2>2, <2>3 DEF Click
<1>5. \A b \in Documents : \A j : Armed(b, j)' => Armed(b, j)
    BY <1>4 DEF Armed
<1>6. /\ \A j : NobodyArmed(j) => NobodyArmed(j)'
      /\ ~ NobodyArmed(i)
      /\ \A j, o : Held(j, o)' = Held(j, o)
    BY <1>1, <1>3, <1>5 DEF NobodyArmed, Held
<1>7. \A j \in Ids : \A x : Truthful(x, j) /\ j # i => Truthful(x, j)'
    BY <1>4 DEF Truthful
<1>8. ASSUME NEW c \in Clients PROVE TaskOK(c)'
    <2>1. task[c] \in Task /\ TaskOK(c)
        BY DEF TInv, WorkerTypes, TasksOK
    <2>2. ASSUME task[c].step # "idle", task[c].doc # NoDocument
          PROVE  /\ page'[task[c].doc] = page[task[c].doc] /\ OwnerOf(task[c].doc)' = OwnerOf(task[c].doc)
        BY <1>1, <1>3, <1>4, <2>1, <2>2 DEF Task, TaskOK, OwnerOf
    <2>3. task[c].step = "record" => posted'[task[c].cmd] = posted[task[c].cmd]
        <3>1. task[c].step = "record" => task[c].cmd \in Ids /\ task[c].cmd # i
            BY <1>6, <2>1 DEF Task, TaskOK
        <3>. QED
            BY <1>4, <3>1
    <2>4. task[c].step = "record" => task[c].doc # NoDocument
        BY <2>1 DEF TaskOK
    <2>. QED
        BY <1>3, <1>6, <2>1, <2>2, <2>3, <2>4 DEF TaskOK
<1>9. ASSUME NEW c \in Clients, NEW e \in inFlight[c] PROVE EntryOK(c, e)'
    <2>1. EntryOK(c, e) /\ e.id \in Ids
        BY EntryFacts
    <2>2. e.phase = "claimed" => posted'[e.id] = 0
        BY <1>4, <1>6, <2>1 DEF EntryOK
    <2>. QED
        BY <1>3, <1>6, <2>1, <2>2 DEF EntryOK
<1>10. ASSUME NEW c \in Clients, NEW a \in outbox[c] PROVE AckOK(c, a)'
    <2>1. AckOK(c, a) /\ a.id \in Ids
        BY AckFacts
    <2>2. Truthful(a.outcome, a.id)'
        BY <1>2, <1>7, <2>1 DEF AckOK, Truthful
    <2>. QED
        BY <1>3, <1>6, <2>1, <2>2 DEF AckOK
<1>11. ASSUME NEW j \in Ids PROVE CommandTrue(j)'
    <2>1. CommandTrue(j)
        BY DEF TInv, CommandsTrue
    <2>2. CASE j # i
        <3>1. Answered(j) => Answered(j)'
            BY <1>3 DEF Answered
        <3>. QED
            BY <1>3, <1>4, <1>6, <2>1, <2>2, <3>1 DEF CommandTrue, Truthful
    <2>3. CASE j = i
        <3>1. Submitting(d) \/ InDoubt(i)
            BY <1>1, PageFacts DEF PageOK
        <3>2. Answered(i)'
            <4>1. CASE Submitting(d)
                BY <1>1, <1>3, <4>1 DEF Submitting, Owned, Answered
            <4>2. CASE InDoubt(i)
                BY <1>3, <4>2 DEF InDoubt, Answered
            <4>. QED
                BY <3>1, <4>1, <4>2
        <3>. QED
            BY <1>1, <1>2, <1>3, <1>4, <1>6, <2>1, <2>3, <3>2, PlacedFacts DEF CommandTrue, Truthful, TInv
    <2>. QED
        BY <2>2, <2>3
<1>12. ASSUME NEW b \in Documents PROVE PageOK(b)'
    <2>1. PageOK(b) /\ ClientOf[b] \in Clients
        BY PageFacts
    <2>2. Owned(ClientOf[b], b)' = Owned(ClientOf[b], b)
        <3>1. page'[b].cmd = page[b].cmd /\ page'[b].epoch = page[b].epoch
            BY <1>1, <1>4
        <3>. QED
            BY <1>3, <3>1 DEF Owned, OwnerOf
    <2>3. CASE b = d
        BY <1>1, <1>4, <2>3 DEF PageOK, Truthful, AckOutcomes
    <2>4. CASE b # d
        <3>1. page'[b] = page[b]
            BY <1>4, <2>4
        <3>2. InDoubt(page[b].cmd) => InDoubt(page[b].cmd)'
            BY <1>3, <3>1 DEF InDoubt
        <3>3. page[b].pc = "armed" => posted'[page[b].cmd] = 0
            <4>1. page[b].pc = "armed" => page[b].cmd \in Ids /\ page[b].cmd # i
                BY <1>1, <2>1, <2>4, PageFacts DEF PageOK, Armed
            <4>. QED
                BY <1>4, <2>1, <4>1 DEF PageOK
        <3>4. ASSUME Owned(ClientOf[b], b) # {} PROVE page[b].cmd \in Ids /\ page[b].cmd # i
            <4>1. PICK e \in inFlight[ClientOf[b]] : e.id = page[b].cmd /\ e.owner = OwnerOf(b)
                BY <3>4 DEF Owned
            <4>. QED
                BY <1>2, <2>1, <2>4, <4>1, EntryFacts, OwnersAre DEF TInv
        <3>. QED
            BY <1>5, <1>7, <2>1, <2>2, <3>1, <3>2, <3>3, <3>4 DEF PageOK, Submitting
    <2>. QED
        BY <2>3, <2>4
<1>. QED
    BY <1>3, <1>8, <1>9, <1>10, <1>11, <1>12 DEF TasksOK, EntriesOK, AcksOK, PagesOK, CommandsTrue

-----------------------------------------------------------------------------
(* The background worker *)

\* With one browser there is one task; a worker that is idle promises nothing.
LEMMA IdleTasks ==
    ASSUME TInv, OneBrowser, NEW c \in Clients,
           \/ task' = [task EXCEPT ![c] = NoTask]
           \/ Idle(c) /\ task' = task
    PROVE  TasksOK'
<1>1. task \in [Clients -> Task] /\ TaskOK(c)
    BY DEF TInv, WorkerTypes, TasksOK
<1>2. TaskOK(c)'
    BY <1>1 DEF TaskOK, Idle, NoTask
<1>. QED
    BY <1>2 DEF TasksOK, OneBrowser

\* No task, and how long a task's lease can last.
LEMMA NoTaskTyped == NoTask \in Task /\ 0 \in 0 .. LeaseTicks
<1>1. 0 \in 0 .. LeaseTicks
    BY BoundsAssumption
<1>2. FALSE \in BOOLEAN
    OBVIOUS
<1>. QED
    BY <1>1, <1>2 DEF NoTask, Task

\* The answer to a document leaves the page idle, or changes nothing.
LEMMA ReplyPages ==
    ASSUME PageTypes, WorkerTypes, NEW c \in Clients, NEW next \in Page, Reply(c, next)
    PROVE  /\ task' = [task EXCEPT ![c] = NoTask] /\ task' \in [Clients -> Task]
           /\ page' \in [Documents -> Page]
           /\ \A d \in Documents :
                \/ page'[d] = page[d]
                \/ d = task[c].doc /\ page[d].pc # "closed" /\ page'[d] = next
<1>1. NoTask \in Task
    BY NoTaskTyped
<1>. QED
    BY <1>1 DEF Reply, PageTypes, WorkerTypes, Task

LEMMA RefusePages ==
    ASSUME PageTypes, WorkerTypes, NEW c \in Clients, Refuse(c)
    PROVE  /\ task' = [task EXCEPT ![c] = NoTask] /\ task' \in [Clients -> Task]
           /\ page' \in [Documents -> Page]
           /\ \A d \in Documents : Calmer(d)
<1>1. PageAt("idle") \in Page /\ PageAt("idle").pc = "idle"
    BY TransportAssumption DEF PageAt, Page
<1>. QED
    BY <1>1, ReplyPages DEF Refuse, Calmer

\* An acknowledgement made of an entry.
LEMMA QueuedAcks ==
    ASSUME WorkerTypes, NEW c \in Clients, NEW S \in SUBSET inFlight[c],
           NEW x \in AckOutcomes, QueueAck(c, S, x)
    PROVE  /\ inFlight' \in [Clients -> SUBSET Entries]
           /\ outbox' \in [Clients -> SUBSET Acks]
           /\ inFlight'[c] = inFlight[c] \ S
           /\ outbox'[c] = outbox[c] \cup {[id |-> e.id, owner |-> e.owner, outcome |-> x] : e \in S}
           /\ \A b \in Clients \ {c} : inFlight'[b] = inFlight[b] /\ outbox'[b] = outbox[b]
<1>1. \A e \in S : [id |-> e.id, owner |-> e.owner, outcome |-> x] \in Acks
    BY DEF WorkerTypes, Entries, Acks
<1>. QED
    BY <1>1 DEF WorkerTypes, QueueAck

\* What became of an entry is queued, and is true: whoever owns the command cannot post
\* it any more, unless the outcome is in doubt.
LEMMA QueueAckKeeps ==
    ASSUME TInv, OneBrowser, ServiceUnchanged, UNCHANGED posted,
           NEW c \in Clients, NEW S \in SUBSET inFlight[c], NEW x \in AckOutcomes,
           QueueAck(c, S, x), UNCHANGED page,
           \A e \in S : Truthful(x, e.id) /\ (x # "ambiguous" => NobodyArmed(e.id))
    PROVE  EntriesOK' /\ AcksOK' /\ PagesOK' /\ CommandsTrue'
<1>. DEFINE AckOf(e) == [id |-> e.id, owner |-> e.owner, outcome |-> x]
<1>1. /\ inFlight'[c] = inFlight[c] \ S
      /\ outbox'[c] = outbox[c] \cup {AckOf(e) : e \in S}
      /\ Clients = {c}
    BY QueuedAcks DEF OneBrowser, TInv
<1>2. /\ \A j : NobodyArmed(j) <=> NobodyArmed(j)'
      /\ \A j, o : Held(j, o)' = Held(j, o)
      /\ \A y, j : Truthful(y, j)' = Truthful(y, j)
    BY DEF NobodyArmed, Armed, Held, ServiceUnchanged, Truthful
<1>3. \A e \in inFlight[c] : EntryOK(c, e) /\ e.id < nextId /\ deliveries[e.id].at = "queue"
    BY EntryFacts
<1>4. \A e, f \in inFlight[c] : e = f
    BY <1>3 DEF EntryOK
<1>5. ASSUME NEW e \in inFlight'[c] PROVE EntryOK(c, e)'
    <2>1. outbox'[c] = outbox[c] /\ inFlight'[c] = inFlight[c]
        BY <1>1, <1>4, <1>5
    <2>. QED
        BY <1>2, <1>3, <1>5, <2>1 DEF EntryOK, ServiceUnchanged
<1>6. ASSUME NEW a \in outbox'[c] PROVE AckOK(c, a)'
    <2>1. CASE a \in outbox[c]
        <3>1. AckOK(c, a) /\ \A e \in S : e.id # a.id
            BY <1>3, <2>1, AckFacts DEF EntryOK
        <3>. QED
            BY <1>1, <1>2, <3>1 DEF AckOK, ServiceUnchanged
    <2>2. CASE a \notin outbox[c]
        <3>1. PICK e \in S : a = AckOf(e)
            BY <1>1, <1>6, <2>2
        <3>2. \A b \in outbox[c] : b.id # a.id
            BY <1>3, <3>1 DEF EntryOK
        <3>3. \A b \in outbox'[c] : b.id = a.id => b = a
            BY <1>1, <1>4, <3>1, <3>2
        <3>4. Held(a.id, a.owner) /\ a.id < nextId /\ deliveries[a.id].at = "queue"
            BY <1>3, <3>1 DEF EntryOK
        <3>. QED
            BY <1>2, <3>1, <3>3, <3>4 DEF AckOK, ServiceUnchanged
    <2>. QED
        BY <2>1, <2>2
<1>7. \A j : InDoubt(j) => InDoubt(j)'
    BY <1>1 DEF InDoubt, ServiceUnchanged
<1>8. ASSUME NEW d \in Documents PROVE PageOK(d)'
    <2>1. PageOK(d) /\ ClientOf[d] = c
        BY <1>1, PageFacts
    <2>2. Owned(c, d)' = Owned(c, d) \ S
        BY <1>1 DEF Owned, OwnerOf
    <2>3. ASSUME page[d].pc = "armed", Submitting(d) PROVE Submitting(d)' \/ InDoubt(page[d].cmd)'
        <3>1. PICK e \in inFlight[c] : e \in Owned(c, d) /\ e.phase = "submitting"
            BY <2>1, <2>3 DEF Submitting, Owned
        <3>2. CASE e \notin S
            BY <2>1, <2>2, <3>1, <3>2 DEF Submitting
        <3>3. CASE e \in S
            <4>1. Armed(d, e.id) /\ e.id = page[d].cmd
                BY <2>3, <3>1 DEF Armed, Owned
            <4>2. x = "ambiguous"
                BY <3>3, <4>1 DEF NobodyArmed
            <4>3. AckOf(e) \in outbox'[c] /\ AckOf(e).id = page[d].cmd
                BY <1>1, <3>3, <4>1
            <4>. QED
                BY <4>2, <4>3 DEF InDoubt
        <3>. QED
            BY <3>2, <3>3
    <2>. QED
        BY <1>2, <1>7, <2>1, <2>2, <2>3 DEF PageOK, Armed
<1>9. ASSUME NEW j \in Ids PROVE CommandTrue(j)'
    <2>1. Answered(j) => Answered(j)'
        <3>1. ASSUME NEW e \in inFlight[c], e.id = j, e.phase = "submitting" PROVE Answered(j)'
            <4>1. CASE e \in S
                <5>1. AckOf(e) \in outbox'[c] /\ AckOf(e).id = j
                    BY <1>1, <3>1, <4>1
                <5>. QED
                    BY <5>1 DEF Answered
            <4>2. CASE e \notin S
                BY <1>1, <3>1, <4>2 DEF Answered
            <4>. QED
                BY <4>1, <4>2
        <3>. QED
            BY <1>1, <3>1 DEF Answered, ServiceUnchanged
    <2>. QED
        BY <1>2, <2>1 DEF TInv, CommandsTrue, CommandTrue, ServiceUnchanged
<1>. QED
    BY <1>1, <1>5, <1>6, <1>8, <1>9 DEF EntriesOK, AcksOK, PagesOK, CommandsTrue

\* Everything but the names and the service's own invariant.
DeliveryParts ==
    WorkerTypes /\ PageTypes /\ TasksOK /\ EntriesOK /\ AcksOK /\ PagesOK /\ CommandsTrue

\* What nobody waits for any longer is idle.
LEMMA SuspendKeeps ==
    ASSUME TInv, OneBrowser, NEW c \in Clients, Suspend(c) PROVE DeliveryParts'
<1>1. UNCHANGED <<deliveries, nextId, inFlight, outbox, epoch, registered, posted>>
    BY DEF Suspend, vars
<1>2. WorkerTypes'
    BY <1>1, NoTaskTyped DEF TInv, WorkerTypes, Suspend
<1>3. PageAt("idle") \in Page /\ PageAt("idle").pc = "idle"
    BY TransportAssumption DEF PageAt, Page
<1>4. PageTypes'
    BY <1>1, <1>3 DEF TInv, PageTypes, Suspend
<1>5. \A d \in Documents : Calmer(d)
    BY <1>3 DEF Suspend, Calmer
<1>6. TasksOK'
    BY IdleTasks DEF Suspend
<1>. QED
    BY <1>1, <1>2, <1>4, <1>5, <1>6, CalmerKeeps DEF DeliveryParts, ServiceUnchanged, Drops

\* A task begins: a lost submit becomes an ambiguous acknowledgement.
LEMMA PrepareKeeps ==
    ASSUME TInv, OneBrowser, NEW c \in Clients, NEW goal, NEW d, Prepare(c, goal, d),
           UNCHANGED <<vars, pageVars>>,
           \/ goal = "recover" /\ d = NoDocument
           \/ goal = "claim" /\ d \in Documents /\ ClientOf[d] = c /\ page[d].pc = "claiming"
    PROVE  DeliveryParts'
<1>1. ServiceUnchanged /\ UNCHANGED <<page, epoch, registered, posted>>
    BY DEF vars, pageVars, ServiceUnchanged
<1>2. /\ QueueAck(c, LostSubmits(c), "ambiguous") /\ LostSubmits(c) \in SUBSET inFlight[c]
      /\ \A e \in LostSubmits(c) : Truthful("ambiguous", e.id)
    BY DEF Prepare, LostResult, LostSubmits, Truthful
<1>3. /\ inFlight' \in [Clients -> SUBSET Entries] /\ outbox' \in [Clients -> SUBSET Acks]
      /\ inFlight'[c] = inFlight[c] \ LostSubmits(c)
    BY <1>2, QueuedAcks DEF TInv, AckOutcomes
<1>4. EntriesOK' /\ AcksOK' /\ PagesOK' /\ CommandsTrue'
    BY <1>1, <1>2, QueueAckKeeps DEF AckOutcomes
<1>. DEFINE live == \E e \in inFlight[c] : e.left > 0
            t == [NoTask EXCEPT !.step = "flush", !.goal = goal, !.doc = d, !.blocked = live]
<1>5. task \in [Clients -> Task] /\ task' = [task EXCEPT ![c] = t] /\ task'[c] = t
    BY DEF TInv, WorkerTypes, Prepare
<1>6. live \in BOOLEAN
    OBVIOUS
<1>7. t \in Task /\ t.step = "flush" /\ t.goal = goal /\ t.doc = d /\ t.blocked = live
    <2>. HIDE DEF live
    <2>. QED
        BY <1>6, NoTaskTyped DEF Task, NoTask
<1>8. ~ t.blocked => \A e \in inFlight'[c] : e.phase = "claimed"
    <2>1. \A e \in inFlight[c] : e \in Entries
        BY EntryFacts
    <2>2. \A e \in inFlight[c] : e.left > 0 \/ e.left = 0
        BY <2>1, BoundsAssumption DEF Entries
    <2>. QED
        BY <1>3, <1>7, <2>1, <2>2 DEF LostSubmits, Entries
<1>9. TaskOK(c)'
    <2>. HIDE DEF t, live
    <2>. QED
        BY <1>1, <1>5, <1>7, <1>8, TransportAssumption DEF TaskOK
<1>10. WorkerTypes' /\ PageTypes'
    BY <1>1, <1>3, <1>5, <1>7 DEF WorkerTypes, PageTypes, TInv
<1>. QED
    BY <1>4, <1>9, <1>10 DEF TasksOK, OneBrowser, DeliveryParts

\* A result is queued for the service.
LEMMA ReceiveAckKeeps ==
    ASSUME TInv, OneBrowser, NEW c \in Clients, NEW d \in Documents, ReceiveAck(c, d)
    PROVE  DeliveryParts'
<1>1. ServiceUnchanged /\ UNCHANGED <<epoch, registered, posted>>
    BY DEF ReceiveAck, vars, ServiceUnchanged
<1>2. /\ page[d] \in Page /\ PageOK(d) /\ page[d].pc = "acking" /\ ClientOf[d] = c
      /\ page[d].outcome \in AckOutcomes
    BY PageFacts DEF ReceiveAck, PageOK
<1>3. CASE UNCHANGED workerVars /\ page' = [page EXCEPT ![d] = PageAt("idle")]
    <2>1. PageAt("idle") \in Page /\ PageAt("idle").pc = "idle"
        BY TransportAssumption DEF PageAt, Page
    <2>2. WorkerTypes' /\ PageTypes'
        BY <1>1, <1>3, <2>1 DEF TInv, WorkerTypes, PageTypes, workerVars
    <2>3. \A b \in Documents : Calmer(b)
        BY <1>3, <2>1 DEF TInv, PageTypes, Calmer
    <2>4. TasksOK'
        BY <1>3, IdleTasks DEF ReceiveAck, workerVars
    <2>. QED
        BY <1>1, <1>3, <2>2, <2>3, <2>4, CalmerKeeps DEF DeliveryParts, Drops, workerVars
<1>4. CASE /\ QueueAck(c, Owned(c, d), page[d].outcome)
           /\ task' = [task EXCEPT ![c] = [NoTask EXCEPT !.step = "flush", !.goal = "ack", !.doc = d]]
           /\ UNCHANGED page
    <2>1. Owned(c, d) \in SUBSET inFlight[c]
        BY DEF Owned
    <2>2. ASSUME NEW e \in Owned(c, d)
          PROVE  Truthful(page[d].outcome, e.id) /\ NobodyArmed(e.id)
        <3>1. e \in inFlight[c] /\ e.id = page[d].cmd /\ e.owner = OwnerOf(d)
            BY DEF Owned
        <3>2. Truthful(page[d].outcome, e.id)
            BY <1>2, <3>1 DEF PageOK
        <3>3. ASSUME NEW b \in Documents, Armed(b, e.id) PROVE FALSE
            <4>1. OwnerOf(d) = OwnerOf(b)
                BY <3>1, <3>3, ArmedFacts
            <4>. QED
                BY <1>2, <3>3, <4>1 DEF OwnerOf, Armed
        <3>. QED
            BY <3>2, <3>3 DEF NobodyArmed
    <2>3. EntriesOK' /\ AcksOK' /\ PagesOK' /\ CommandsTrue'
        BY <1>1, <1>2, <1>4, <2>1, <2>2, QueueAckKeeps
    <2>. DEFINE t == [NoTask EXCEPT !.step = "flush", !.goal = "ack", !.doc = d]
    <2>4. t \in Task /\ t.step = "flush" /\ t.goal = "ack" /\ t.doc = d
        BY NoTaskTyped DEF Task, NoTask
    <2>5. task'[c] = t /\ task' \in [Clients -> Task]
        BY <1>4, <2>4 DEF TInv, WorkerTypes
    <2>6. TaskOK(c)'
        <3>. HIDE DEF t
        <3>. QED
            BY <1>2, <1>4, <2>4, <2>5 DEF TaskOK
    <2>7. WorkerTypes' /\ PageTypes'
        BY <1>1, <1>2, <1>4, <2>1, <2>5, QueuedAcks DEF TInv, WorkerTypes, PageTypes
    <2>. QED
        BY <2>3, <2>6, <2>7 DEF TasksOK, OneBrowser, DeliveryParts
<1>. QED
    BY <1>3, <1>4 DEF ReceiveAck

\* The submit is made durable: nobody else may post this command.
LEMMA SubmitStartedKeeps ==
    ASSUME TInv, OneBrowser, NEW c \in Clients, NEW d \in Documents, SubmitStarted(c, d)
    PROVE  DeliveryParts'
<1>1. ServiceUnchanged /\ UNCHANGED <<outbox, task, epoch, registered, posted>>
    BY DEF SubmitStarted, vars, ServiceUnchanged
<1>2. /\ page[d] \in Page /\ PageOK(d) /\ page[d].pc = "arming" /\ ClientOf[d] = c
      /\ page[d].cmd # 0 /\ page \in [Documents -> Page]
    BY PageFacts DEF SubmitStarted, PageOK, TInv, PageTypes
<1>3. TasksOK'
    BY <1>1, IdleTasks DEF SubmitStarted
<1>4. CASE page' = [page EXCEPT ![d] = PageAt("idle")] /\ UNCHANGED inFlight
    <2>1. PageAt("idle") \in Page /\ PageAt("idle").pc = "idle"
        BY TransportAssumption DEF PageAt, Page
    <2>2. WorkerTypes' /\ PageTypes'
        BY <1>1, <1>4, <2>1 DEF TInv, WorkerTypes, PageTypes
    <2>3. \A b \in Documents : Calmer(b)
        BY <1>2, <1>4, <2>1 DEF Calmer
    <2>. QED
        BY <1>1, <1>3, <1>4, <2>2, <2>3, CalmerKeeps DEF DeliveryParts, Drops
<1>5. ASSUME \E e \in Owned(c, d) : e.left > 0,
             inFlight' = [inFlight EXCEPT ![c] =
                 {IF e \in Owned(c, d) THEN [e EXCEPT !.phase = "submitting"] ELSE e : e \in @}],
             page' = [page EXCEPT ![d].pc = "armed"]
      PROVE  DeliveryParts'
    <2>1. PICK e \in inFlight[c] : e \in Owned(c, d) /\ e.id = page[d].cmd /\ e.owner = OwnerOf(d)
        BY <1>5 DEF Owned
    <2>2. /\ e \in Entries /\ EntryOK(c, e) /\ e.id \in Ids /\ e.phase = "claimed"
          /\ posted[e.id] = 0 /\ NobodyArmed(e.id) /\ deliveries[e.id].receipt.outcome # "retryable"
          /\ inFlight[c] = {e}
        <3>1. e \in Entries /\ EntryOK(c, e) /\ e.id \in Ids
              /\ deliveries[e.id].receipt.outcome # "retryable"
            BY EntryFacts
        <3>2. e.phase = "claimed"
            BY <1>2, <2>1 DEF PageOK
        <3>3. inFlight[c] = {e}
            BY <3>1 DEF EntryOK
        <3>. QED
            BY <3>1, <3>2, <3>3 DEF EntryOK
    <2>. DEFINE s == [e EXCEPT !.phase = "submitting"]
    <2>3. s \in Entries /\ s.id = e.id /\ s.owner = e.owner /\ s.phase = "submitting"
        BY <2>2 DEF Entries
    <2>4. inFlight'[c] = {s} /\ inFlight' \in [Clients -> SUBSET Entries]
        BY <1>5, <2>1, <2>2, <2>3 DEF TInv, WorkerTypes
    <2>5. /\ page'[d] = [page[d] EXCEPT !.pc = "armed"] /\ page' \in [Documents -> Page]
          /\ \A b \in Documents \ {d} : page'[b] = page[b]
          /\ \A b \in Documents : page'[b].cmd = page[b].cmd /\ page'[b].epoch = page[b].epoch
          /\ page'[d].pc = "armed"
        BY <1>2, <1>5 DEF Page
    <2>6. WorkerTypes' /\ PageTypes'
        BY <1>1, <2>4, <2>5 DEF TInv, WorkerTypes, PageTypes
    <2>7. \A b \in Documents : OwnerOf(b)' = OwnerOf(b)
        BY <2>5 DEF OwnerOf
    <2>8. \A j : j # e.id /\ NobodyArmed(j) => NobodyArmed(j)'
        BY <2>1, <2>5 DEF NobodyArmed, Armed
    <2>9. \A j, o : Held(j, o)' = Held(j, o)
        BY <1>1 DEF Held, ServiceUnchanged
    <2>10. EntryOK(c, s)'
        BY <1>1, <2>2, <2>3, <2>4, <2>9 DEF EntryOK
    <2>11. ASSUME NEW a \in outbox[c] PROVE AckOK(c, a)'
        <3>1. AckOK(c, a) /\ a.id # e.id
            BY <2>2, AckFacts DEF EntryOK
        <3>. QED
            BY <1>1, <2>8, <2>9, <3>1 DEF AckOK, Truthful, ServiceUnchanged
    <2>12. ASSUME NEW j \in Ids PROVE CommandTrue(j)'
        <3>1. CommandTrue(j)
            BY DEF TInv, CommandsTrue
        <3>2. Answered(j) => Answered(j)'
            BY <1>1, <2>2, <2>4 DEF Answered, OneBrowser, ServiceUnchanged
        <3>. QED
            BY <1>1, <2>2, <2>8, <3>1, <3>2 DEF CommandTrue, Truthful, ServiceUnchanged
    <2>13. ASSUME NEW b \in Documents PROVE PageOK(b)'
        <3>1. PageOK(b) /\ ClientOf[b] = c /\ OwnerOf(b).doc = b
            BY PageFacts DEF OneBrowser, OwnerOf
        <3>2. CASE b = d
            <4>1. Submitting(b)'
                BY <1>2, <2>1, <2>3, <2>4, <2>5, <2>7, <3>2 DEF Submitting, Owned
            <4>2. \A x \in Documents : Armed(x, page[d].cmd)' => x = d
                BY <2>1, <2>2, <2>5 DEF NobodyArmed, Armed
            <4>. QED
                BY <1>1, <1>2, <2>1, <2>2, <2>5, <3>2, <4>1, <4>2 DEF PageOK
        <3>3. CASE b # d
            <4>1. page'[b] = page[b]
                BY <2>5, <3>3
            <4>2. e.owner # OwnerOf(b) /\ Owned(c, b)' = {}
                <5>1. OwnerOf(d).doc = d
                    BY DEF OwnerOf
                <5>2. e.owner # OwnerOf(b)
                    BY <2>1, <3>1, <3>3, <5>1
                <5>3. s.owner # OwnerOf(b)'
                    BY <2>3, <2>7, <5>2
                <5>. QED
                    BY <2>4, <5>2, <5>3 DEF Owned
            <4>3. ~ Submitting(b)
                BY <2>2, <3>1, <4>2 DEF Submitting, Owned
            <4>4. InDoubt(page[b].cmd) => InDoubt(page[b].cmd)'
                BY <1>1, <4>1 DEF InDoubt, ServiceUnchanged
            <4>5. ASSUME page[b].pc = "armed", NEW x \in Documents, Armed(x, page[b].cmd)' PROVE x = b
                <5>1. page[b].cmd # e.id
                    BY <2>2, <4>5 DEF NobodyArmed, Armed
                <5>2. Armed(x, page[b].cmd)
                    BY <2>1, <2>5, <4>1, <4>5, <5>1 DEF Armed
                <5>. QED
                    BY <3>1, <4>5, <5>2 DEF PageOK
            <4>. QED
                BY <1>1, <3>1, <4>1, <4>2, <4>3, <4>4, <4>5 DEF PageOK
        <3>. QED
            BY <3>2, <3>3
    <2>14. \A b \in Clients : b = c
        BY DEF OneBrowser
    <2>15. EntriesOK' /\ AcksOK'
        BY <1>1, <2>4, <2>10, <2>11, <2>14 DEF EntriesOK, AcksOK
    <2>. QED
        BY <1>3, <2>6, <2>12, <2>13, <2>15 DEF DeliveryParts, PagesOK, CommandsTrue
<1>. QED
    BY <1>4, <1>5 DEF SubmitStarted

\* A recorded acknowledgement leaves the outbox: its command is answered for by the
\* receipt, or is gone with a definite one.
LEMMA RemoveAckKeeps ==
    ASSUME TInv, OneBrowser, NEW c \in Clients, RemoveAck(c) PROVE DeliveryParts'
<1>. DEFINE t == task[c]
<1>1. /\ ServiceUnchanged /\ UNCHANGED <<inFlight, page, epoch, registered, posted>>
      /\ t \in Task /\ TaskOK(c) /\ t.step = "remove" /\ t.ack \in outbox[c] /\ AckOK(c, t.ack)
      /\ task \in [Clients -> Task] /\ outbox \in [Clients -> SUBSET Acks]
      /\ \A b \in Clients : b = c
    BY AckFacts DEF RemoveAck, vars, pageVars, ServiceUnchanged, TInv, WorkerTypes, TasksOK, TaskOK, OneBrowser
<1>2. PICK a \in outbox[c] : a = t.ack
    BY <1>1
<1>3. /\ outbox'[c] = outbox[c] \ {a} /\ outbox' \in [Clients -> SUBSET Acks]
      /\ AckOK(c, a) /\ a.id \in Ids /\ a.outcome \in AckOutcomes
      /\ deliveries[a.id].at = "queue" => deliveries[a.id].receipt = [owner |-> a.owner, outcome |-> a.outcome]
    <2>1. AckOK(c, a) /\ a.id \in Ids /\ a.outcome \in AckOutcomes
        BY AckFacts
    <2>2. {x \in outbox[c] : x.id # t.ack.id} = outbox[c] \ {a}
        BY <1>2, <2>1 DEF AckOK
    <2>3. outbox' = [outbox EXCEPT ![c] = {x \in outbox[c] : x.id # t.ack.id}]
        BY DEF RemoveAck
    <2>4. deliveries[a.id].at = "queue" => deliveries[a.id].receipt = [owner |-> a.owner, outcome |-> a.outcome]
        BY <1>1, <1>2 DEF TaskOK
    <2>5. outbox' \in [Clients -> SUBSET Acks]
        BY <1>1, <2>2, <2>3
    <2>6. outbox'[c] = outbox[c] \ {a}
        BY <1>1, <2>2, <2>3
    <2>. QED
        BY <2>1, <2>4, <2>5, <2>6
<1>. DEFINE u == [t EXCEPT !.step = "flush", !.ack = NoAck]
<1>4. /\ u \in Task /\ u.step = "flush" /\ u.goal = t.goal /\ u.doc = t.doc /\ u.blocked = t.blocked
      /\ task'[c] = u /\ task' \in [Clients -> Task]
    <2>1. u \in Task /\ u.step = "flush" /\ u.goal = t.goal /\ u.doc = t.doc /\ u.blocked = t.blocked
        BY <1>1 DEF Task
    <2>2. task' = [task EXCEPT ![c] = u]
        BY <1>1 DEF RemoveAck, Task
    <2>. QED
        BY <1>1, <2>1, <2>2
<1>5. TaskOK(c)'
    <2>. HIDE DEF u
    <2>. QED
        BY <1>1, <1>4 DEF TaskOK
<1>6. /\ \A j : NobodyArmed(j) <=> NobodyArmed(j)'
      /\ \A j, o : Held(j, o)' = Held(j, o)
      /\ \A y, j : Truthful(y, j)' = Truthful(y, j)
    BY <1>1 DEF NobodyArmed, Armed, Held, ServiceUnchanged, Truthful
<1>7. EntriesOK'
    BY <1>1, <1>3, <1>6 DEF TInv, EntriesOK, EntryOK
<1>8. AcksOK'
    BY <1>1, <1>3, <1>6 DEF TInv, AcksOK, AckOK, ServiceUnchanged
<1>9. \A j : InDoubt(j) => InDoubt(j)'
    <2>1. ASSUME a.outcome = "ambiguous"
          PROVE  deliveries[a.id].at = "queue" /\ deliveries[a.id].receipt.outcome = "ambiguous"
        BY <1>3, <2>1 DEF AckOK
    <2>. QED
        BY <1>1, <1>3, <2>1 DEF InDoubt, ServiceUnchanged
<1>10. PagesOK'
    BY <1>1, <1>6, <1>9 DEF TInv, PagesOK, PageOK, Submitting, Owned, OwnerOf, Armed
<1>11. ASSUME NEW j \in Ids PROVE CommandTrue(j)'
    <2>1. CommandTrue(j) /\ CommandOK(deliveries[j])
        BY PlacedFacts DEF TInv, CommandsTrue
    <2>2. ASSUME posted[j] > 0, deliveries[j].at # "nowhere", a.id = j
          PROVE  deliveries[j].receipt.outcome \in {"sent", "ambiguous"}
        <3>1. CASE deliveries[j].at = "queue"
            <4>1. deliveries[j].receipt.outcome = a.outcome
                BY <1>3, <2>2, <3>1
            <4>2. posted[j] # 0
                BY <2>2
            <4>. QED
                BY <1>3, <2>1, <2>2, <4>1, <4>2 DEF CommandTrue, Truthful, AckOutcomes
        <3>2. CASE deliveries[j].at = "archive"
            <4>1. deliveries[j].receipt.outcome \in {"sent", "refused"}
                BY <2>1, <3>2 DEF CommandOK, Final
            <4>2. posted[j] # 0
                BY <2>2
            <4>. QED
                BY <2>1, <2>2, <4>1, <4>2 DEF CommandTrue, Truthful
        <3>. QED
            BY <2>1, <2>2, <3>1, <3>2 DEF CommandOK, Command, Places
    <2>3. posted[j] > 0 /\ deliveries[j].at # "nowhere" /\ Answered(j) => Answered(j)'
        BY <1>1, <1>3, <2>2 DEF Answered, ServiceUnchanged
    <2>. QED
        BY <1>1, <1>6, <2>1, <2>3 DEF CommandTrue, ServiceUnchanged
<1>12. WorkerTypes' /\ PageTypes'
    BY <1>1, <1>3, <1>4 DEF TInv, WorkerTypes, PageTypes
<1>. QED
    BY <1>1, <1>5, <1>7, <1>8, <1>10, <1>11, <1>12 DEF DeliveryParts, TasksOK, CommandsTrue

\* Nothing is left to flush; only claims that were never submitted are dropped.
LEMMA FlushedKeeps ==
    ASSUME TInv, OneBrowser, NEW c \in Clients, Flushed(c) PROVE DeliveryParts'
<1>. DEFINE t == task[c]
<1>1. /\ ServiceUnchanged /\ UNCHANGED <<outbox, epoch, registered, posted>>
      /\ t \in Task /\ TaskOK(c) /\ t.step = "flush" /\ outbox[c] = {}
      /\ task \in [Clients -> Task] /\ inFlight \in [Clients -> SUBSET Entries]
      /\ \A b \in Clients : b = c
    BY DEF Flushed, vars, ServiceUnchanged, TInv, WorkerTypes, TasksOK, OneBrowser
<1>2. CASE /\ Refuse(c)
           /\ \/ UNCHANGED inFlight
              \/ /\ inFlight' = [inFlight EXCEPT ![c] = {}]
                 /\ \A e \in inFlight[c] : e.phase = "claimed"
    <2>1. /\ task' = [task EXCEPT ![c] = NoTask] /\ task' \in [Clients -> Task]
          /\ page' \in [Documents -> Page] /\ \A d \in Documents : Calmer(d)
        BY <1>2, RefusePages DEF TInv
    <2>2. WorkerTypes' /\ PageTypes'
        BY <1>1, <1>2, <2>1 DEF TInv, WorkerTypes, PageTypes
    <2>3. TasksOK'
        BY <2>1, IdleTasks
    <2>4. \A b \in Clients : Drops(b)
        BY <1>1, <1>2 DEF Drops
    <2>. QED
        BY <1>1, <2>1, <2>2, <2>3, <2>4, CalmerKeeps DEF DeliveryParts
<1>3. CASE /\ inFlight' = [inFlight EXCEPT ![c] = {}] /\ \A e \in inFlight[c] : e.phase = "claimed"
           /\ task' = [task EXCEPT ![c].step = "claim"] /\ UNCHANGED page /\ t.goal = "claim"
    <2>. DEFINE u == [t EXCEPT !.step = "claim"]
    <2>1. /\ u \in Task /\ u.step = "claim" /\ u.goal = "claim" /\ u.doc = t.doc
          /\ task'[c] = u /\ task' \in [Clients -> Task]
        BY <1>1, <1>3 DEF Task
    <2>2. inFlight' \in [Clients -> SUBSET Entries] /\ inFlight'[c] = {} /\ outbox'[c] = {}
        BY <1>1, <1>3
    <2>3. WorkerTypes' /\ PageTypes'
        BY <1>1, <1>3, <2>1, <2>2 DEF TInv, WorkerTypes, PageTypes
    <2>4. TaskOK(c)'
        <3>. HIDE DEF u
        <3>. QED
            BY <1>1, <1>3, <2>1, <2>2 DEF TaskOK
    <2>5. \A b \in Clients : Drops(b)
        BY <1>1, <1>3, <2>2 DEF Drops
    <2>6. \A d \in Documents : Calmer(d)
        BY <1>3 DEF Calmer
    <2>. QED
        BY <1>1, <2>3, <2>4, <2>5, <2>6, CalmerKeeps DEF DeliveryParts, TasksOK
<1>4. t.goal \in {"claim", "recover", "ack"}
    BY <1>1 DEF Task, TaskOK
<1>5. t.goal # "ack" /\ ~ t.blocked => \A e \in inFlight[c] : e.phase = "claimed"
    BY <1>1 DEF TaskOK
<1>6. CASE t.goal = "ack" \/ t.blocked
    <2>1. Refuse(c) /\ UNCHANGED inFlight
        BY <1>6, Zenon DEF Flushed
    <2>. QED
        BY <1>2, <2>1
<1>7. CASE ~ (t.goal = "ack" \/ t.blocked)
    <2>1. inFlight' = [inFlight EXCEPT ![c] = {}]
        BY <1>7, Zenon DEF Flushed
    <2>2. \/ t.goal = "recover" /\ Refuse(c)
          \/ t.goal # "recover" /\ task' = [task EXCEPT ![c].step = "claim"] /\ UNCHANGED page
        BY <1>7, Zenon DEF Flushed
    <2>3. \A e \in inFlight[c] : e.phase = "claimed"
        BY <1>5, <1>7
    <2>4. CASE t.goal = "recover"
        BY <1>2, <2>1, <2>2, <2>3, <2>4
    <2>5. CASE t.goal # "recover"
        BY <1>3, <1>4, <1>7, <2>1, <2>2, <2>3, <2>5
    <2>. QED
        BY <2>4, <2>5
<1>. QED
    BY <1>6, <1>7

\* The lease becomes durable and the document holds the message.
LEMMA RecordClaimKeeps ==
    ASSUME TInv, OneBrowser, NEW c \in Clients, RecordClaim(c) PROVE DeliveryParts'
<1>. DEFINE t == task[c]
<1>1. /\ ServiceUnchanged /\ UNCHANGED <<outbox, epoch, registered, posted>>
      /\ t \in Task /\ TaskOK(c) /\ t.step = "record"
      /\ task \in [Clients -> Task] /\ inFlight \in [Clients -> SUBSET Entries]
      /\ page \in [Documents -> Page] /\ \A b \in Clients : b = c
    BY DEF RecordClaim, vars, ServiceUnchanged, TInv, WorkerTypes, PageTypes, TasksOK, OneBrowser
<1>2. CASE Refuse(c) /\ UNCHANGED inFlight
    <2>1. /\ task' = [task EXCEPT ![c] = NoTask] /\ task' \in [Clients -> Task]
          /\ page' \in [Documents -> Page] /\ \A d \in Documents : Calmer(d)
        BY <1>2, RefusePages DEF TInv
    <2>2. WorkerTypes' /\ PageTypes'
        BY <1>1, <1>2, <2>1 DEF TInv, WorkerTypes, PageTypes
    <2>3. TasksOK'
        BY <2>1, IdleTasks
    <2>4. \A b \in Clients : Drops(b)
        BY <1>2 DEF Drops
    <2>. QED
        BY <1>1, <2>1, <2>2, <2>3, <2>4, CalmerKeeps DEF DeliveryParts
<1>3. PICK d \in Documents : d = t.doc
    BY <1>1 DEF TaskOK, Task
<1>4. PICK i \in Ids : i = t.cmd
    BY <1>1 DEF TaskOK, Task
<1>5. /\ inFlight[c] = {} /\ outbox[c] = {} /\ Held(i, OwnerOf(d)) /\ posted[i] = 0 /\ NobodyArmed(i)
      /\ ClientOf[d] = c /\ page[d].pc \in {"closed", "claiming"} /\ page[d] \in Page /\ i # 0
    BY <1>1, <1>3, <1>4, TransportAssumption DEF TaskOK
<1>e. PICK e : e = [id |-> i, owner |-> OwnerOf(d), left |-> t.left, phase |-> "claimed"]
    OBVIOUS
<1>. DEFINE p == [page[d] EXCEPT !.pc = "holding", !.cmd = i]
<1>6. ASSUME inFlight' = [inFlight EXCEPT ![c] = @ \cup {e}], Reply(c, p)
      PROVE  DeliveryParts'
    <2>1. /\ e \in Entries /\ e.id = i /\ e.owner = OwnerOf(d) /\ e.phase = "claimed"
          /\ e.owner.doc = d
        BY <1>1, <1>e, OwnersAre DEF TInv, Entries, Task
    <2>2. p \in Page /\ p.pc = "holding" /\ p.cmd = i /\ p.epoch = page[d].epoch
        BY <1>5 DEF Page
    <2>. HIDE DEF p
    <2>3. inFlight'[c] = {e} /\ inFlight' \in [Clients -> SUBSET Entries]
        BY <1>1, <1>5, <1>6, <2>1
    <2>4. /\ task' = [task EXCEPT ![c] = NoTask] /\ task' \in [Clients -> Task]
          /\ page' \in [Documents -> Page]
          /\ \A b \in Documents : page'[b] = page[b] \/ (b = d /\ page'[b] = p)
        BY <1>3, <1>6, <2>2, ReplyPages DEF TInv
    <2>5. TasksOK'
        BY <2>4, IdleTasks
    <2>6. WorkerTypes' /\ PageTypes'
        BY <1>1, <2>3, <2>4 DEF TInv, WorkerTypes, PageTypes
    <2>7. \A b \in Documents : OwnerOf(b)' = OwnerOf(b)
        BY <2>2, <2>4 DEF OwnerOf
    <2>8. \A b \in Documents : \A j : Armed(b, j)' => Armed(b, j)
        BY <2>2, <2>4 DEF Armed
    <2>9. /\ \A j : NobodyArmed(j) => NobodyArmed(j)'
          /\ \A j, o : Held(j, o)' = Held(j, o)
          /\ \A x, j : Truthful(x, j)' = Truthful(x, j)
        BY <1>1, <2>8 DEF Held, ServiceUnchanged, Truthful, NobodyArmed
    <2>10. EntriesOK'
        <3>1. EntryOK(c, e)'
            BY <1>1, <1>5, <2>1, <2>3, <2>9 DEF EntryOK
        <3>. QED
            BY <1>1, <2>3, <3>1 DEF EntriesOK
    <2>11. AcksOK'
        BY <1>1, <1>5 DEF AcksOK
    <2>12. CommandsTrue'
        <3>1. \A j \in Ids : Answered(j) => Answered(j)'
            BY <1>1, <1>5 DEF Answered, ServiceUnchanged
        <3>. QED
            BY <1>1, <2>9, <3>1 DEF TInv, CommandsTrue, CommandTrue, ServiceUnchanged
    <2>13. ASSUME NEW b \in Documents PROVE PageOK(b)'
        <3>1. PageOK(b) /\ ClientOf[b] = c
            BY <1>1, PageFacts
        <3>2. \A f \in Owned(c, b)' : f = e
            BY <2>3 DEF Owned
        <3>3. ~ Submitting(b)
            BY <1>5, <3>1 DEF Submitting, Owned
        <3>4. CASE page'[b] = page[b]
            <4>1. Owned(c, b)' # {} => b = d
                <5>1. ASSUME Owned(c, b)' # {} PROVE e.owner = OwnerOf(b)
                    BY <2>7, <3>2, <5>1 DEF Owned
                <5>. QED
                    BY <2>1, <5>1 DEF OwnerOf
            <4>2. page[b].pc = "acking" => Owned(c, b)' = {}
                BY <1>5, <4>1
            <4>3. InDoubt(page[b].cmd) => InDoubt(page[b].cmd)'
                BY <1>1, <3>4 DEF InDoubt, ServiceUnchanged
            <4>. QED
                BY <1>1, <2>1, <2>8, <3>1, <3>2, <3>3, <3>4, <4>2, <4>3 DEF PageOK
        <3>5. CASE page'[b] = p
            BY <1>5, <2>1, <2>2, <3>1, <3>2, <3>5 DEF PageOK
        <3>. QED
            BY <2>4, <3>4, <3>5
    <2>. QED
        BY <2>5, <2>6, <2>10, <2>11, <2>12, <2>13 DEF DeliveryParts, PagesOK
<1>. QED
    BY <1>2, <1>3, <1>4, <1>e, <1>6 DEF RecordClaim

-----------------------------------------------------------------------------
(* Requests to the service *)

\* A step of the service after which every command goes by the same key in the same
\* place, and every proof that nothing was sent still stands.
LEMMA StaysNamed ==
    ASSUME TInv, [Next]_vars, UNCHANGED <<saved, origin, posted>>,
           \A i \in Ids :
                /\ deliveries'[i].at = deliveries[i].at /\ deliveries'[i].key = deliveries[i].key
                /\ deliveries[i].receipt.outcome = "retryable" => deliveries'[i].receipt.outcome = "retryable"
    PROVE  IInv' /\ NamesOK'
<1>1. IInv' /\ RetryFenced'
    BY NextIInv, NextFenced DEF TInv, NamesOK
<1>2. SavedOK'
    BY DEF TInv, NamesOK, SavedOK, Known
<1>3. \A i \in Ids : NameOK(i)'
    BY DEF TInv, NamesOK, NameOK
<1>. QED
    BY <1>1, <1>2, <1>3 DEF NamesOK

\* What recording a receipt does.
LEMMA Records ==
    ASSUME TInv, NEW i \in Ids, NEW o \in Owners, NEW x \in AckOutcomes, Acknowledge(i, o, x)
    PROVE  /\ [Next]_vars /\ UNCHANGED <<nextId, saved, origin>>
           /\ deliveries[i].at = "queue" /\ deliveries'[i].at = "queue"
           /\ deliveries'[i].key = deliveries[i].key
           /\ deliveries'[i].receipt = [owner |-> o, outcome |-> x]
           /\ deliveries[i].receipt.outcome \in {"none", "timed_out"}
           /\ \A j \in Ids \ {i} : deliveries'[j] = deliveries[j]
<1>1. deliveries \in [Ids -> Command] /\ deliveries[i] \in Command
    BY DEF TInv, IInv, Sound
<1>2. Finish(i, o, x) /\ deliveries[i].at = "queue"
      /\ deliveries[i].receipt.outcome \in {"none", "timed_out"}
    BY DEF Acknowledge, AckFirst, AckLate, HasReceipt, NoReceipt
<1>. DEFINE s == [deliveries[i] EXCEPT !.phase = StatusOf(x), !.lease = NoLease,
                                       !.receipt = [owner |-> o, outcome |-> x]]
<1>3. deliveries' = [deliveries EXCEPT ![i] = s]
    BY <1>1, <1>2 DEF Finish, Command
<1>4. s.at = "queue" /\ s.key = deliveries[i].key /\ s.receipt = [owner |-> o, outcome |-> x]
    BY <1>1, <1>2 DEF Command
<1>5. [Next]_vars /\ UNCHANGED <<nextId, saved, origin>>
    BY DEF Next, Acknowledge
<1>. QED
    BY <1>1, <1>2, <1>3, <1>4, <1>5

\* The service handles an acknowledgement: it records a truth, or does nothing.
LEMMA ServiceAckKeeps ==
    ASSUME TInv, OneBrowser, NEW c \in Clients, NEW a \in outbox[c],
           ServiceAck(a) \/ UNCHANGED vars,
           UNCHANGED <<inFlight, outbox, posted>>, \A d \in Documents : Calmer(d)
    PROVE  IInv' /\ EntriesOK' /\ AcksOK' /\ PagesOK' /\ CommandsTrue' /\ NamesOK'
<1>1. /\ a \in Acks /\ a.id \in Ids /\ a.owner \in Owners /\ a.outcome \in AckOutcomes /\ AckOK(c, a)
      /\ \A b \in Clients : b = c
    BY AckFacts DEF OneBrowser
<1>2. CASE UNCHANGED vars
    <2>1. ServiceUnchanged /\ \A b \in Clients : Drops(b)
        BY <1>2 DEF ServiceUnchanged, vars, Drops
    <2>. QED
        BY <1>2, <2>1, CalmerKeeps, NamesKept
<1>3. ASSUME Acknowledge(a.id, a.owner, a.outcome)
      PROVE  IInv' /\ EntriesOK' /\ AcksOK' /\ PagesOK' /\ CommandsTrue' /\ NamesOK'
    <2>1. PICK i \in Ids : i = a.id
        BY <1>1
    <2>2. PICK o \in Owners, x \in AckOutcomes : o = a.owner /\ x = a.outcome
        BY <1>1
    <2>3. /\ [Next]_vars /\ UNCHANGED <<nextId, saved, origin>>
          /\ deliveries[i].at = "queue" /\ deliveries'[i].at = "queue"
          /\ deliveries'[i].key = deliveries[i].key
          /\ deliveries'[i].receipt = [owner |-> o, outcome |-> x]
          /\ deliveries[i].receipt.outcome \in {"none", "timed_out"}
          /\ \A j \in Ids \ {i} : deliveries'[j] = deliveries[j]
        BY <1>1, <1>3, <2>1, <2>2, Records
    <2>4. IInv' /\ NamesOK'
        BY <2>3, StaysNamed
    <2>5. \A b \in Documents : \A j : Armed(b, j)' => Armed(b, j)
        BY DEF Calmer, Armed
    <2>6. /\ \A j : NobodyArmed(j) => NobodyArmed(j)'
          /\ \A y, j : Truthful(y, j)' = Truthful(y, j)
          /\ \A j \in Ids \ {i} : \A w : Held(j, w)' = Held(j, w)
        BY <2>3, <2>5 DEF NobodyArmed, Truthful, Held
    <2>7. ASSUME NEW e \in inFlight[c] PROVE EntryOK(c, e)'
        <3>1. EntryOK(c, e) /\ e.id \in Ids /\ e.id # i
            BY <1>1, <2>1, EntryFacts DEF EntryOK
        <3>. QED
            BY <2>6, <3>1 DEF EntryOK
    <2>8. ASSUME NEW b \in outbox[c] PROVE AckOK(c, b)'
        <3>1. AckOK(c, b) /\ b.id \in Ids
            BY AckFacts
        <3>2. CASE b.id = i
            <4>1. b = a
                BY <1>1, <2>1, <3>2 DEF AckOK
            <4>. QED
                BY <2>1, <2>2, <2>3, <2>6, <3>1, <3>2, <4>1 DEF AckOK
        <3>3. CASE b.id # i
            <4>1. deliveries'[b.id] = deliveries[b.id] /\ \A w : Held(b.id, w)' = Held(b.id, w)
                BY <2>3, <2>6, <3>1, <3>3
            <4>. QED
                BY <2>3, <2>6, <3>1, <4>1 DEF AckOK
        <3>. QED
            BY <3>2, <3>3
    <2>9. \A j \in Ids : InDoubt(j) => InDoubt(j)'
        BY <2>3 DEF InDoubt
    <2>10. ASSUME NEW d \in Documents PROVE PageOK(d)'
        <3>1. PageOK(d) /\ (page[d].pc = "armed" => page[d].cmd \in Ids)
            BY PageFacts
        <3>2. CASE page'[d].pc \in {"idle", "claiming", "closed"}
            BY <3>2 DEF PageOK
        <3>3. CASE page'[d] = page[d]
            <4>1. Owned(ClientOf[d], d)' = Owned(ClientOf[d], d)
                BY <3>3 DEF Owned, OwnerOf
            <4>. QED
                BY <2>5, <2>6, <2>9, <3>1, <3>3, <4>1 DEF PageOK, Submitting
        <3>. QED
            BY <3>2, <3>3 DEF Calmer
    <2>11. ASSUME NEW j \in Ids PROVE CommandTrue(j)'
        <3>1. CommandTrue(j)
            BY DEF TInv, CommandsTrue
        <3>2. CASE j = i
            <4>1. Truthful(x, j) /\ (x # "ambiguous" => NobodyArmed(j))
                BY <1>1, <2>1, <2>2, <3>2 DEF AckOK
            <4>2. Answered(j)'
                BY <2>1, <3>2 DEF Answered
            <4>. QED
                BY <2>3, <2>6, <3>1, <3>2, <4>1, <4>2 DEF CommandTrue
        <3>3. CASE j # i
            <4>1. deliveries'[j] = deliveries[j]
                BY <2>3, <3>3
            <4>2. Answered(j) => Answered(j)'
                BY <4>1 DEF Answered
            <4>. QED
                BY <2>3, <2>6, <3>1, <4>1, <4>2 DEF CommandTrue
        <3>. QED
            BY <3>2, <3>3
    <2>. QED
        BY <1>1, <2>4, <2>7, <2>8, <2>10, <2>11 DEF EntriesOK, AcksOK, PagesOK, CommandsTrue
<1>. QED
    BY <1>2, <1>3 DEF ServiceAck

\* An acknowledgement is answered: the worker removes it next, or gives up.
LEMMA PostAckKeeps ==
    ASSUME TInv, OneBrowser, NEW c \in Clients, PostAck(c) \/ PostAckLost(c) PROVE TInv'
<1>1. /\ UNCHANGED <<inFlight, outbox, epoch, registered, posted>>
      /\ task \in [Clients -> Task] /\ task[c] \in Task /\ TaskOK(c) /\ task[c].step = "flush"
      /\ \A b \in Clients : b = c
    BY DEF PostAck, PostAckLost, TInv, WorkerTypes, TasksOK, OneBrowser
<1>2. ASSUME NEW a \in outbox[c], ServiceAck(a) \/ UNCHANGED vars, Refuse(c)
      PROVE  TInv'
    <2>1. /\ task' = [task EXCEPT ![c] = NoTask] /\ task' \in [Clients -> Task]
          /\ page' \in [Documents -> Page] /\ \A d \in Documents : Calmer(d)
        BY <1>2, RefusePages DEF TInv
    <2>2. WorkerTypes' /\ PageTypes'
        BY <1>1, <2>1 DEF TInv, WorkerTypes, PageTypes
    <2>3. TasksOK'
        BY <2>1, IdleTasks
    <2>. QED
        BY <1>1, <1>2, <2>1, <2>2, <2>3, ServiceAckKeeps DEF TInv
<1>3. ASSUME NEW a \in outbox[c], ServiceAck(a), AckAnswer(a.id, a.owner, a.outcome) = 200,
             task' = [task EXCEPT ![c].step = "remove", ![c].ack = a], UNCHANGED page
      PROVE  TInv'
    <2>1. a \in Acks /\ a.id \in Ids /\ a.owner \in Owners /\ a.outcome \in AckOutcomes
        BY AckFacts
    <2>. DEFINE u == [task[c] EXCEPT !.step = "remove", !.ack = a]
    <2>2. /\ u \in Task /\ u.step = "remove" /\ u.goal = task[c].goal /\ u.doc = task[c].doc
          /\ u.blocked = task[c].blocked /\ u.ack = a
          /\ task'[c] = u /\ task' \in [Clients -> Task]
        <3>1. /\ u \in Task /\ u.step = "remove" /\ u.goal = task[c].goal /\ u.doc = task[c].doc
              /\ u.blocked = task[c].blocked /\ u.ack = a
            BY <1>1, <2>1 DEF Task
        <3>2. task' = [[task EXCEPT ![c].step = "remove"] EXCEPT ![c].ack = a]
            BY <1>3
        <3>3. [task EXCEPT ![c].step = "remove"] = [task EXCEPT ![c] = [task[c] EXCEPT !.step = "remove"]]
            BY <1>1 DEF Task
        <3>4. task' = [task EXCEPT ![c] = u]
            BY <1>1, <3>2, <3>3 DEF Task
        <3>. QED
            BY <1>1, <3>1, <3>4
    <2>3. deliveries'[a.id].at = "queue" =>
            deliveries'[a.id].receipt = [owner |-> a.owner, outcome |-> a.outcome]
        <3>1. CASE Recordable(a.id, a.owner)
            BY <1>3, <2>1, <3>1, Records DEF ServiceAck
        <3>2. CASE ~ Recordable(a.id, a.owner)
            <4>1. deliveries' = deliveries
                BY <1>3, <3>2 DEF ServiceAck, vars
            <4>2. ReceiptById(a.id) = [owner |-> a.owner, outcome |-> a.outcome]
                BY <1>3, <3>2 DEF AckAnswer
            <4>. QED
                BY <4>1, <4>2 DEF ReceiptById
        <3>. QED
            BY <3>1, <3>2
    <2>4. TaskOK(c)'
        <3>. HIDE DEF u
        <3>. QED
            BY <1>1, <1>3, <2>2, <2>3 DEF TaskOK
    <2>5. WorkerTypes' /\ PageTypes'
        BY <1>1, <1>3, <2>2 DEF TInv, WorkerTypes, PageTypes
    <2>6. \A d \in Documents : Calmer(d)
        BY <1>3 DEF Calmer
    <2>7. IInv' /\ EntriesOK' /\ AcksOK' /\ PagesOK' /\ CommandsTrue' /\ NamesOK'
        BY <1>1, <1>3, <2>6, ServiceAckKeeps
    <2>. QED
        BY <1>1, <2>4, <2>5, <2>7 DEF TInv, TasksOK
<1>4. ASSUME PostAck(c) PROVE TInv'
    <2>1. PICK a \in outbox[c] : /\ ServiceAck(a)
                                 /\ IF AckAnswer(a.id, a.owner, a.outcome) = 200
                                    THEN /\ task' = [task EXCEPT ![c].step = "remove", ![c].ack = a]
                                         /\ UNCHANGED page
                                    ELSE Refuse(c)
        BY <1>4 DEF PostAck
    <2>. QED
        BY <1>2, <1>3, <2>1
<1>5. ASSUME PostAckLost(c) PROVE TInv'
    BY <1>2, <1>5 DEF PostAckLost
<1>. QED
    BY <1>4, <1>5

\* A claim moves no command, receipt or key, and what it grants is leased to the document
\* and has no receipt.
LEMMA ClaimFacts ==
    ASSUME IInv, NEW o \in Owners
    PROVE  /\ \A i \in Ids : /\ AfterClaim(o)[i].at = deliveries[i].at
                             /\ AfterClaim(o)[i].key = deliveries[i].key
                             /\ AfterClaim(o)[i].receipt = deliveries[i].receipt
           /\ Granted(o) \in Ids \cup {0}
           /\ Granted(o) # 0 =>
                LET r == AfterClaim(o)[Granted(o)] IN
                /\ r.at = "queue" /\ r.phase = "leased" /\ r.lease.owner = o
                /\ r.lease.left \in 0 .. LeaseTicks /\ r.receipt = NoReceipt
<1>. DEFINE f == Requeued(o)
            S == Claimable(f, o)
<1>1. deliveries \in [Ids -> Command] /\ \A i \in Ids : CommandOK(deliveries[i])
    BY DEF IInv, Sound
<1>2. \A i \in Ids : f[i].at = deliveries[i].at /\ f[i].key = deliveries[i].key
                     /\ f[i].receipt = deliveries[i].receipt
    BY <1>1 DEF Requeued, Command
<1>3. Sound(f, nextId) /\ f \in [Ids -> Command] /\ \A i \in Ids : CommandOK(f[i])
    BY RequeuedIsSound DEF Sound
<1>4. 0 \notin Ids
    BY DEF Ids
<1>5. CASE OwnLive(o) # {}
    <2>1. OwnLive(o) \in SUBSET Ids
        BY DEF OwnLive, InQueue
    <2>2. PICK g \in Ids : g = Granted(o) /\ g \in OwnLive(o)
        BY <1>5, <2>1, FirstIsMember DEF Granted
    <2>3. AfterClaim(o) = deliveries
        BY <1>5 DEF AfterClaim
    <2>4. /\ deliveries[g].at = "queue" /\ deliveries[g].phase = "leased" /\ deliveries[g].lease.owner = o
          /\ CommandOK(deliveries[g]) /\ deliveries[g] \in Command
        BY <1>1, <2>2 DEF OwnLive, InQueue
    <2>5. deliveries[g].lease.left \in 0 .. LeaseTicks /\ deliveries[g].receipt = NoReceipt
        BY <2>4, OwnersAssumption DEF CommandOK, Terminal, HasReceipt, Command, Leases, NoLease
    <2>. QED
        BY <2>2, <2>3, <2>4, <2>5
<1>6. CASE OwnLive(o) = {} /\ S = {}
    BY <1>2, <1>6 DEF Granted, AfterClaim
<1>7. CASE OwnLive(o) = {} /\ S # {}
    <2>1. S \in SUBSET Ids
        BY DEF Claimable, InQueue
    <2>2. PICK g \in Ids : g = First(S) /\ g \in S
        BY <1>7, <2>1, FirstIsMember
    <2>3. Granted(o) = g
        BY <1>7, <2>2 DEF Granted
    <2>. DEFINE l == [owner |-> o, left |-> LeaseTicks]
                s == [f[g] EXCEPT !.phase = "leased", !.lease = l]
    <2>4. AfterClaim(o) = [f EXCEPT ![g] = s]
        BY <1>3, <1>4, <1>7, <2>3 DEF AfterClaim, Grant, Command
    <2>5. f[g].at = "queue" /\ f[g].phase = "queued" /\ f[g].receipt = NoReceipt
        BY <1>3, <2>2 DEF Claimable, InQueue, CommandOK, Terminal, HasReceipt
    <2>6. /\ s.at = f[g].at /\ s.key = f[g].key /\ s.receipt = f[g].receipt
          /\ s.phase = "leased" /\ s.lease = l
        BY <1>3 DEF Command
    <2>7. \A i \in Ids : i # g => AfterClaim(o)[i] = f[i]
        BY <1>3, <2>4
    <2>8. AfterClaim(o)[g] = s
        BY <1>3, <2>4
    <2>. HIDE DEF f, s
    <2>. QED
        BY <1>2, <2>3, <2>5, <2>6, <2>7, <2>8, BoundsAssumption
<1>. QED
    BY <1>5, <1>6, <1>7

\* The state when a claim is asked: nothing is in flight, and no command without a receipt
\* was posted or can be.
LEMMA NothingInFlight ==
    ASSUME TInv, OneBrowser, NEW c \in Clients, task[c].step = "claim"
    PROVE  /\ task[c] \in Task /\ TaskOK(c)
           /\ \A b \in Clients : b = c /\ inFlight[b] = {} /\ outbox[b] = {}
           /\ \A i \in Ids : deliveries[i].at = "queue" /\ deliveries[i].receipt = NoReceipt =>
                posted[i] = 0 /\ NobodyArmed(i)
<1>1. task[c] \in Task /\ TaskOK(c) /\ \A b \in Clients : b = c /\ inFlight[b] = {} /\ outbox[b] = {}
    <2>1. task[c] \in Task /\ TaskOK(c)
        BY DEF TInv, WorkerTypes, TasksOK
    <2>2. inFlight[c] = {} /\ outbox[c] = {}
        BY <2>1 DEF TaskOK
    <2>. QED
        BY <2>1, <2>2 DEF OneBrowser
<1>2. ASSUME NEW i \in Ids, deliveries[i].at = "queue", deliveries[i].receipt = NoReceipt
      PROVE  posted[i] = 0 /\ NobodyArmed(i)
    <2>1. NoReceipt.outcome = "none"
        BY DEF NoReceipt
    <2>2. ~ Answered(i) /\ ~ InDoubt(i)
        BY <1>1, <1>2, <2>1 DEF Answered, InDoubt
    <2>3. posted[i] = 0
        BY <1>2, <2>2 DEF TInv, CommandsTrue, CommandTrue
    <2>4. ASSUME NEW d \in Documents, Armed(d, i) PROVE FALSE
        <3>1. Submitting(d)
            BY <2>2, <2>4, PageFacts DEF PageOK, Armed
        <3>. QED
            BY <1>1, <3>1, TransportAssumption DEF Submitting, Owned
    <2>. QED
        BY <2>3, <2>4 DEF NobodyArmed
<1>. QED
    BY <1>1, <1>2

\* The service grants a lease, or none, when nothing is in flight.
LEMMA ClaimKeeps ==
    ASSUME TInv, OneBrowser, NEW c \in Clients, task[c].step = "claim", NEW o \in Owners,
           Claim(o) \/ UNCHANGED vars,
           UNCHANGED <<inFlight, outbox, posted>>, \A d \in Documents : Calmer(d)
    PROVE  IInv' /\ EntriesOK' /\ AcksOK' /\ PagesOK' /\ CommandsTrue' /\ NamesOK'
<1>1. \A b \in Clients : b = c /\ inFlight[b] = {} /\ outbox[b] = {}
    BY NothingInFlight
<1>2. CASE UNCHANGED vars
    <2>1. ServiceUnchanged /\ \A b \in Clients : Drops(b)
        BY <1>2 DEF ServiceUnchanged, vars, Drops
    <2>. QED
        BY <1>2, <2>1, CalmerKeeps, NamesKept
<1>3. CASE Claim(o)
    <2>1. [Next]_vars /\ UNCHANGED <<nextId, saved, origin>>
        BY <1>3 DEF Claim, Next
    <2>2. \A i \in Ids : deliveries'[i].at = deliveries[i].at /\ deliveries'[i].key = deliveries[i].key
                         /\ deliveries'[i].receipt = deliveries[i].receipt
        BY <1>3, ClaimFacts DEF Claim, TInv
    <2>3. IInv' /\ NamesOK'
        BY <2>1, <2>2, StaysNamed
    <2>4. EntriesOK' /\ AcksOK'
        BY <1>1 DEF EntriesOK, AcksOK
    <2>5. \A b \in Documents : \A j : Armed(b, j)' => Armed(b, j)
        BY DEF Calmer, Armed
    <2>6. \A j \in Ids : InDoubt(j) => InDoubt(j)'
        BY <2>2 DEF InDoubt
    <2>7. ASSUME NEW d \in Documents PROVE PageOK(d)'
        <3>1. PageOK(d) /\ (page[d].pc = "armed" => page[d].cmd \in Ids)
            BY PageFacts
        <3>2. CASE page'[d].pc \in {"idle", "claiming", "closed"}
            BY <3>2 DEF PageOK
        <3>3. CASE page'[d] = page[d]
            <4>1. Owned(ClientOf[d], d)' = Owned(ClientOf[d], d)
                BY <3>3 DEF Owned, OwnerOf
            <4>. QED
                BY <2>5, <2>6, <3>1, <3>3, <4>1 DEF PageOK, Submitting, Truthful
        <3>. QED
            BY <3>2, <3>3 DEF Calmer
    <2>8. ASSUME NEW j \in Ids PROVE CommandTrue(j)'
        <3>1. Answered(j) => Answered(j)'
            BY <1>1, <2>2 DEF Answered
        <3>2. NobodyArmed(j) => NobodyArmed(j)'
            BY <2>5 DEF NobodyArmed
        <3>. QED
            BY <2>1, <2>2, <3>1, <3>2 DEF TInv, CommandsTrue, CommandTrue, Truthful
    <2>. QED
        BY <2>3, <2>4, <2>7, <2>8 DEF PagesOK, CommandsTrue
<1>. QED
    BY <1>2, <1>3

LEMMA PostClaimKeeps ==
    ASSUME TInv, OneBrowser, NEW c \in Clients, PostClaim(c) \/ PostClaimLost(c) PROVE TInv'
<1>1. /\ UNCHANGED <<inFlight, outbox, epoch, registered, posted>> /\ task[c].step = "claim"
      /\ task \in [Clients -> Task] /\ task[c] \in Task /\ TaskOK(c)
      /\ \A b \in Clients : b = c /\ inFlight[b] = {} /\ outbox[b] = {}
    <2>1. UNCHANGED <<inFlight, outbox, epoch, registered, posted>> /\ task[c].step = "claim"
        BY DEF PostClaim, PostClaimLost
    <2>. QED
        BY <2>1, NothingInFlight DEF TInv, WorkerTypes
<1>2. PICK d \in Documents : d = task[c].doc /\ OwnerOf(d) \in Owners
    BY <1>1, OwnersAre DEF TInv, Task, TaskOK
<1>3. PICK o \in Owners : o = OwnerOf(d)
    BY <1>2
<1>4. ASSUME Claim(o) \/ UNCHANGED vars, Refuse(c) PROVE TInv'
    <2>1. /\ task' = [task EXCEPT ![c] = NoTask] /\ task' \in [Clients -> Task]
          /\ page' \in [Documents -> Page] /\ \A b \in Documents : Calmer(b)
        BY <1>4, RefusePages DEF TInv
    <2>2. WorkerTypes' /\ PageTypes'
        BY <1>1, <2>1 DEF TInv, WorkerTypes, PageTypes
    <2>3. TasksOK'
        BY <2>1, IdleTasks
    <2>. QED
        BY <1>1, <1>4, <2>1, <2>2, <2>3, ClaimKeeps DEF TInv
<1>5. PICK i, left : i = Granted(o) /\ left = AfterClaim(o)[i].lease.left
    OBVIOUS
<1>. DEFINE u == [task[c] EXCEPT !.step = "record", !.cmd = i, !.left = left]
<1>6. ASSUME Claim(o), i # 0, UNCHANGED page, task' = [task EXCEPT ![c] = u]
      PROVE  TInv'
    <2>1. /\ i \in Ids /\ AfterClaim(o)[i].at = "queue" /\ AfterClaim(o)[i].phase = "leased"
          /\ AfterClaim(o)[i].lease.owner = o /\ AfterClaim(o)[i].receipt = NoReceipt
          /\ left \in 0 .. LeaseTicks
          /\ deliveries[i].at = "queue" /\ deliveries[i].receipt = NoReceipt
          /\ deliveries' = AfterClaim(o)
        BY <1>5, <1>6, ClaimFacts DEF TInv, Claim
    <2>2. posted[i] = 0 /\ NobodyArmed(i)
        BY <1>1, <2>1, NothingInFlight
    <2>3. Held(i, o)' /\ NobodyArmed(i)'
        BY <1>6, <2>1, <2>2 DEF Held, NobodyArmed, Armed
    <2>4. /\ u \in Task /\ u.step = "record" /\ u.goal = "claim" /\ u.doc = d /\ u.cmd = i
        BY <1>1, <1>2, <2>1 DEF Task, TaskOK
    <2>5. task'[c] = u /\ task' \in [Clients -> Task]
        BY <1>1, <1>6, <2>4
    <2>6. OwnerOf(d)' = o
        BY <1>3, <1>6 DEF OwnerOf
    <2>7. ClientOf[d] = c /\ page[d].pc \in {"closed", "claiming"} /\ i # 0
        BY <1>1, <1>2, <2>1, TransportAssumption DEF TaskOK, Ids
    <2>8. TaskOK(c)'
        <3>. HIDE DEF u
        <3>. QED
            BY <1>1, <1>2, <1>6, <2>2, <2>3, <2>4, <2>5, <2>6, <2>7, TransportAssumption DEF TaskOK
    <2>9. WorkerTypes' /\ PageTypes'
        BY <1>1, <1>6, <2>5 DEF TInv, WorkerTypes, PageTypes
    <2>10. \A b \in Documents : Calmer(b)
        BY <1>6 DEF Calmer
    <2>11. IInv' /\ EntriesOK' /\ AcksOK' /\ PagesOK' /\ CommandsTrue' /\ NamesOK'
        BY <1>1, <1>6, <2>10, ClaimKeeps
    <2>. QED
        BY <1>1, <2>8, <2>9, <2>11 DEF TInv, TasksOK
<1>7. ASSUME PostClaim(c) PROVE TInv'
    <2>1. Claim(o) /\ IF i = 0 THEN Refuse(c)
                      ELSE /\ task' = [task EXCEPT ![c].step = "record", ![c].cmd = i, ![c].left = left]
                           /\ UNCHANGED page
        BY <1>2, <1>3, <1>5, <1>7 DEF PostClaim
    <2>2. i # 0 => task' = [task EXCEPT ![c] = u]
        <3>1. [task EXCEPT ![c].step = "record"] = [task EXCEPT ![c] = [task[c] EXCEPT !.step = "record"]]
            BY <1>1 DEF Task
        <3>2. [task EXCEPT ![c].step = "record", ![c].cmd = i]
                = [task EXCEPT ![c] = [task[c] EXCEPT !.step = "record", !.cmd = i]]
            BY <1>1, <3>1 DEF Task
        <3>3. [task EXCEPT ![c].step = "record", ![c].cmd = i, ![c].left = left] = [task EXCEPT ![c] = u]
            BY <1>1, <3>2 DEF Task
        <3>. QED
            BY <2>1, <3>3
    <2>. QED
        BY <1>4, <1>6, <2>1, <2>2
<1>8. ASSUME PostClaimLost(c) PROVE TInv'
    BY <1>2, <1>3, <1>4, <1>8 DEF PostClaimLost
<1>. QED
    BY <1>7, <1>8

-----------------------------------------------------------------------------
(* The service's other callers, and time *)

\* Time passes for entries and tasks as for leases.
LEMMA AgedRecords ==
    /\ \A e \in Entries : /\ Aged(e) \in Entries /\ Aged(e).id = e.id
                          /\ Aged(e).owner = e.owner /\ Aged(e).phase = e.phase
    /\ \A t \in Task : /\ Aged(t) \in Task /\ Aged(t).step = t.step /\ Aged(t).goal = t.goal
                       /\ Aged(t).doc = t.doc /\ Aged(t).blocked = t.blocked
                       /\ Aged(t).ack = t.ack /\ Aged(t).cmd = t.cmd
<1>1. \A n \in 0 .. LeaseTicks : (IF n > 0 THEN n - 1 ELSE 0) \in 0 .. LeaseTicks
    BY BoundsAssumption
<1>. QED
    BY <1>1 DEF Aged, Entries, Task

LEMMA TickKeeps ==
    ASSUME TInv, TickAll PROVE TInv'
<1>1. [Next]_vars /\ UNCHANGED <<nextId, saved, origin, outbox, page, epoch, registered, posted>>
    BY DEF TickAll, Tick, Next, pageVars
<1>2. ASSUME NEW i \in Ids
      PROVE  /\ deliveries'[i].at = deliveries[i].at /\ deliveries'[i].key = deliveries[i].key
             /\ deliveries'[i].receipt = deliveries[i].receipt
             /\ deliveries'[i].phase = deliveries[i].phase
             /\ deliveries'[i].lease.owner = deliveries[i].lease.owner
    <2>1. deliveries[i] \in Command /\ deliveries'[i] = [deliveries[i] EXCEPT !.lease = Aged(@)]
        BY DEF TInv, IInv, Sound, TickAll, Tick
    <2>2. Aged(deliveries[i].lease).owner = deliveries[i].lease.owner
        BY <2>1, AgedLease DEF Command
    <2>. QED
        BY <2>1, <2>2 DEF Command
<1>3. IInv' /\ NamesOK'
    BY <1>1, <1>2, StaysNamed
<1>4. /\ \A j \in Ids : \A o : Held(j, o)' = Held(j, o)
      /\ \A j : NobodyArmed(j)' = NobodyArmed(j)
      /\ \A x, j : Truthful(x, j)' = Truthful(x, j)
    BY <1>1, <1>2 DEF Held, NobodyArmed, Armed, Truthful
<1>5. ASSUME NEW c \in Clients
      PROVE  /\ inFlight'[c] = {Aged(e) : e \in inFlight[c]} /\ inFlight[c] \subseteq Entries
             /\ task'[c] = Aged(task[c]) /\ task[c] \in Task /\ TaskOK(c)
    BY DEF TickAll, TInv, WorkerTypes, TasksOK
<1>6. WorkerTypes' /\ PageTypes'
    <2>1. inFlight' \in [Clients -> SUBSET Entries]
        BY <1>5, AgedRecords DEF TickAll
    <2>2. task' \in [Clients -> Task]
        BY <1>5, AgedRecords DEF TickAll
    <2>. QED
        BY <1>1, <2>1, <2>2 DEF TInv, WorkerTypes, PageTypes
<1>7. ASSUME NEW c \in Clients PROVE TaskOK(c)'
    <2>1. /\ task'[c].step = task[c].step /\ task'[c].goal = task[c].goal /\ task'[c].doc = task[c].doc
          /\ task'[c].blocked = task[c].blocked /\ task'[c].ack = task[c].ack /\ task'[c].cmd = task[c].cmd
        BY <1>5, AgedRecords
    <2>i. PICK i : i = task[c].cmd
        OBVIOUS
    <2>2. task[c].step = "record" => \A o : Held(i, o)' = Held(i, o)
        <3>1. task[c].step = "record" => i \in Ids
            BY <1>5, <2>i DEF TaskOK, Task
        <3>. QED
            BY <1>4, <3>1
    <2>3. inFlight[c] = {} => inFlight'[c] = {}
        BY <1>5
    <2>4. (\A e \in inFlight[c] : e.phase = "claimed") => \A e \in inFlight'[c] : e.phase = "claimed"
        BY <1>5, AgedRecords
    <2>5. task[c].step = "remove" =>
            /\ deliveries'[task[c].ack.id].at = deliveries[task[c].ack.id].at
            /\ deliveries'[task[c].ack.id].receipt = deliveries[task[c].ack.id].receipt
        BY <1>2, <1>5, AckFacts DEF TaskOK
    <2>6. \A d \in Documents : OwnerOf(d)' = OwnerOf(d)
        BY <1>1 DEF OwnerOf
    <2>7. task[c].step = "record" => task[c].doc \in Documents /\ task[c].doc # NoDocument
        BY <1>5 DEF TaskOK, Task
    <2>8. \A d \in Documents : OwnerOf(d)' = OwnerOf(d) /\ page'[d] = page[d]
        BY <1>1, <2>6
    <2>. QED
        BY <1>1, <1>4, <1>5, <2>1, <2>i, <2>2, <2>3, <2>4, <2>5, <2>7, <2>8 DEF TaskOK
<1>8. ASSUME NEW c \in Clients, NEW f \in inFlight'[c] PROVE EntryOK(c, f)'
    <2>1. PICK e \in inFlight[c] : f = Aged(e) /\ f.id = e.id /\ f.owner = e.owner /\ f.phase = e.phase
        BY <1>5, AgedRecords
    <2>2. EntryOK(c, e) /\ e.id \in Ids
        BY EntryFacts
    <2>3. \A g \in inFlight'[c] : g = f
        BY <1>5, <2>1, <2>2 DEF EntryOK
    <2>. QED
        BY <1>1, <1>4, <2>1, <2>2, <2>3 DEF EntryOK
<1>9. ASSUME NEW c \in Clients, NEW a \in outbox[c] PROVE AckOK(c, a)'
    BY <1>1, <1>2, <1>4, AckFacts DEF AckOK
<1>10. \A j \in Ids : (InDoubt(j) => InDoubt(j)') /\ (Answered(j) => Answered(j)')
    <2>1. ASSUME NEW c \in Clients, NEW e \in inFlight[c], e.phase = "submitting"
          PROVE  \E f \in inFlight'[c] : f.id = e.id /\ f.phase = "submitting"
        BY <1>5, <2>1, AgedRecords
    <2>. QED
        BY <1>1, <1>2, <2>1 DEF InDoubt, Answered
<1>11. ASSUME NEW j \in Ids PROVE CommandTrue(j)'
    BY <1>1, <1>2, <1>4, <1>10 DEF TInv, CommandsTrue, CommandTrue
<1>12. ASSUME NEW d \in Documents PROVE PageOK(d)'
    <2>1. PageOK(d) /\ ClientOf[d] \in Clients /\ (page[d].pc = "armed" => page[d].cmd \in Ids)
        BY PageFacts
    <2>2. OwnerOf(d)' = OwnerOf(d)
        BY <1>1 DEF OwnerOf
    <2>3. ASSUME NEW f \in Owned(ClientOf[d], d)'
          PROVE  \E e \in Owned(ClientOf[d], d) : e.phase = f.phase
        <3>1. f \in inFlight'[ClientOf[d]] /\ f.id = page[d].cmd /\ f.owner = OwnerOf(d)
            BY <1>1, <2>2, <2>3 DEF Owned
        <3>. QED
            BY <1>5, <2>1, <3>1, AgedRecords DEF Owned
    <2>4. Submitting(d) => Submitting(d)'
        <3>1. ASSUME NEW e \in Owned(ClientOf[d], d), e.phase = "submitting" PROVE Submitting(d)'
            <4>1. Aged(e) \in Owned(ClientOf[d], d)' /\ Aged(e).phase = "submitting"
                BY <1>1, <1>5, <2>1, <2>2, <3>1, AgedRecords DEF Owned
            <4>. QED
                BY <4>1 DEF Submitting
        <3>. QED
            BY <3>1 DEF Submitting
    <2>5. \A b \in Documents : \A j : Armed(b, j)' = Armed(b, j)
        BY <1>1 DEF Armed
    <2>. QED
        BY <1>1, <1>4, <1>10, <2>1, <2>3, <2>4, <2>5 DEF PageOK
<1>. QED
    BY <1>1, <1>3, <1>6, <1>7, <1>8, <1>9, <1>11, <1>12
       DEF TInv, TasksOK, EntriesOK, AcksOK, PagesOK, CommandsTrue

\* What an append to f leaves: the new command, and in place of an evicted one v its
\* archived or saved copy.
Appended(f, v, k, c) ==
    /\ nextId \in Ids /\ nextId' = nextId + 1 /\ origin' = [origin EXCEPT ![nextId] = k]
    /\ deliveries'[nextId] = NewCommand(k, c)
    /\ \A i \in Ids \ {nextId, v} : deliveries'[i] = f[i]
    /\ v = 0 => saved' = saved
    /\ v # 0 => /\ v \in Ids /\ v # nextId /\ Evictable(f, v) /\ saved' = SavedWith(f, v)
                /\ deliveries'[v] = IF f[v].key \in NoticeKeys THEN [f[v] EXCEPT !.at = "archive"]
                                    ELSE Nowhere

LEMMA AppendShape ==
    ASSUME TypeOK, NEW f, Sound(f, nextId), NEW k \in Keys, NEW c \in Conversations, Append(f, k, c)
    PROVE  \E v \in Ids \cup {0} : Appended(f, v, k, c)
<1>. DEFINE full == Cardinality(InQueue(f)) >= MaxDeliveries
            w == First({d \in Ids : Evictable(f, d)})
            room == IF full THEN Evicted(f, w) ELSE f
<1>1. /\ nextId \in Ids /\ f \in [Ids -> Command] /\ f[nextId] = Nowhere /\ 0 \notin Ids
      /\ nextId' = nextId + 1 /\ origin' = [origin EXCEPT ![nextId] = k]
      /\ deliveries' = [room EXCEPT ![nextId] = NewCommand(k, c)]
      /\ saved' = IF full THEN SavedWith(f, w) ELSE saved
    BY BoundsAssumption DEF TypeOK, Append, Ids, Sound
<1>2. CASE full
    <2>1. PICK v \in Ids : v = w /\ Evictable(f, v)
        BY <1>2, FirstIsMember DEF Append
    <2>2. v # nextId
        BY <1>1, <2>1, NowhereOK DEF Evictable
    <2>3. room = Evicted(f, v)
        BY <1>2, <2>1
    <2>4. /\ room \in [Ids -> Command] /\ \A i \in Ids \ {v} : room[i] = f[i]
          /\ room[v] = IF f[v].key \in NoticeKeys THEN [f[v] EXCEPT !.at = "archive"] ELSE Nowhere
        <3>1. room \in [Ids -> Command]
            BY <2>1, <2>3, EvictedIsSound DEF Sound
        <3>. QED
            BY <1>1, <2>1, <2>3, <3>1 DEF Evicted
    <2>5. saved' = SavedWith(f, v)
        BY <1>1, <1>2, <2>1
    <2>. HIDE DEF room
    <2>6. deliveries'[nextId] = NewCommand(k, c) /\ \A i \in Ids \ {nextId} : deliveries'[i] = room[i]
        BY <1>1, <2>4
    <2>7. Appended(f, v, k, c)
        BY <1>1, <2>1, <2>2, <2>4, <2>5, <2>6 DEF Appended
    <2>. QED
        BY <2>7
<1>3. CASE ~ full
    <2>1. room = f /\ saved' = saved
        BY <1>1, <1>3
    <2>2. deliveries'[nextId] = NewCommand(k, c) /\ \A i \in Ids \ {nextId} : deliveries'[i] = f[i]
        BY <1>1, <2>1
    <2>3. Appended(f, 0, k, c)
        BY <1>1, <2>1, <2>2 DEF Appended
    <2>. QED
        BY <2>3
<1>. QED
    BY <1>2, <1>3

\* The state an enqueue appends to: the retried command has given up its key.
Freed(f, k) ==
    /\ Sound(f, nextId)
    /\ saved[k] = NoCopy
    /\ \A i \in Ids :
        /\ f[i].at = deliveries[i].at /\ f[i].phase = deliveries[i].phase
        /\ f[i].lease = deliveries[i].lease /\ f[i].receipt = deliveries[i].receipt
        /\ f[i].key # deliveries[i].key =>
            f[i].key = NoKey /\ deliveries[i].key = k /\ f[i].receipt.outcome = "retryable"
        /\ f[i].at # "nowhere" => f[i].key # k

LEMMA EnqueueShape ==
    ASSUME IInv, SavedOK, NEW k \in Keys, NEW c \in Conversations, EnqueueNew(k, c) \/ EnqueueRetry(k, c)
    PROVE  \E f : \E v \in Ids \cup {0} : Freed(f, k) /\ Appended(f, v, k, c)
<1>0. TypeOK /\ Sound(deliveries, nextId) /\ deliveries \in [Ids -> Command] /\ NoKey # k
      /\ \A i \in Ids : CommandOK(deliveries[i])
    BY KeysAssumption DEF IInv, Sound
<1>1. CASE EnqueueNew(k, c)
    <2>1. Freed(deliveries, k)
        BY <1>0, <1>1 DEF Freed, EnqueueNew, Known
    <2>. QED
        BY <1>0, <1>1, <2>1, AppendShape DEF EnqueueNew
<1>2. CASE EnqueueRetry(k, c)
    <2>1. PICK d \in Known(k) : /\ RetryableNotSent(deliveries[d].receipt)
                                /\ Append([deliveries EXCEPT ![d].key = NoKey], k, c)
        BY <1>2 DEF EnqueueRetry
    <2>. DEFINE s == [deliveries[d] EXCEPT !.key = NoKey]
                f == [deliveries EXCEPT ![d] = s]
    <2>2. d \in Ids /\ deliveries[d].at # "nowhere" /\ deliveries[d].key = k
        BY DEF Known
    <2>3. deliveries[d].at = "queue"
        BY <1>0, <2>1, <2>2 DEF CommandOK, Command, Places, RetryableNotSent, Final
    <2>4. Append(f, k, c) /\ Reduces(deliveries[d], s)
        BY <1>0, <2>1, <2>2, <2>3, DropKeyReduces
    <2>5. Sound(f, nextId)
        <3>. HIDE DEF s
        <3>. QED
            BY <1>0, <2>2, <2>4, UpdateIsSound
    <2>6. /\ s.key = NoKey /\ s.at = deliveries[d].at /\ s.phase = deliveries[d].phase
          /\ s.lease = deliveries[d].lease /\ s.receipt = deliveries[d].receipt
          /\ s.receipt.outcome = "retryable" /\ deliveries[d].key = k
        BY <1>0, <2>1, <2>2 DEF Command, RetryableNotSent, Known
    <2>7. f[d] = s /\ \A i \in Ids \ {d} : f[i] = deliveries[i]
        BY <1>0, <2>2
    <2>8. saved[k] = NoCopy
        BY <2>2 DEF SavedOK, Known
    <2>9. \A i \in Ids : f[i].at # "nowhere" => f[i].key # k
        <3>. HIDE DEF f, s
        <3>. QED
            BY <1>0, <2>2, <2>6, <2>7 DEF Sound
    <2>10. Freed(f, k)
        <3>. HIDE DEF f, s
        <3>. QED
            BY <2>5, <2>6, <2>7, <2>8, <2>9 DEF Freed
    <2>11. \E v \in Ids \cup {0} : Appended(f, v, k, c)
        <3>. HIDE DEF f
        <3>. QED
            BY <1>0, <2>4, <2>5, AppendShape
    <2>. QED
        BY <2>10, <2>11
<1>. QED
    BY <1>1, <1>2

\* What a call of the runtime may do to one command: keep it, give it up as timed out,
\* drop it when it was never claimed or has a definite receipt, or create it.
Kept(i) ==
    /\ deliveries'[i].at = deliveries[i].at /\ deliveries'[i].receipt = deliveries[i].receipt
    /\ \A o : Held(i, o) => Held(i, o)'
GivenUp(i) ==
    /\ deliveries[i].at = "queue" /\ deliveries[i].receipt = NoReceipt
    /\ deliveries'[i].at = "queue" /\ deliveries'[i].receipt.outcome = "timed_out"
    /\ \A o : Held(i, o) => Held(i, o)'
Dropped(i) ==
    /\ deliveries[i].at = "queue"
    /\ \/ deliveries[i].phase = "queued" /\ deliveries'[i].at = "nowhere"
       \/ /\ HasReceipt(deliveries[i]) /\ deliveries[i].receipt.outcome \notin Unknown
          /\ \/ deliveries'[i].at = "nowhere"
             \/ deliveries'[i].at = "archive" /\ deliveries'[i].receipt = deliveries[i].receipt
Created(i) == i = nextId /\ deliveries'[i].receipt = NoReceipt

LEMMA ServiceCallKeeps ==
    ASSUME TInv, OneBrowser, UNCHANGED <<workerVars, pageVars>>, nextId' \in {nextId, nextId + 1},
           \A i \in Ids : Kept(i) \/ GivenUp(i) \/ Dropped(i) \/ Created(i)
    PROVE  DeliveryParts'
<1>1. UNCHANGED <<inFlight, outbox, task, page, epoch, registered, posted>> /\ nextId \in Nat
    BY DEF workerVars, pageVars, TInv, IInv, TypeOK
<1>2. /\ \A j : NobodyArmed(j)' = NobodyArmed(j)
      /\ \A x, j : Truthful(x, j)' = Truthful(x, j)
      /\ NoReceipt.outcome = "none"
    BY <1>1 DEF NobodyArmed, Armed, Truthful, NoReceipt
<1>3. ASSUME NEW i \in Ids, NEW o, Held(i, o) PROVE Held(i, o)'
    <2>1. /\ i # nextId /\ deliveries[i].phase # "queued"
          /\ deliveries[i].receipt.outcome \in {"none", "timed_out"} /\ CommandOK(deliveries[i])
        BY <1>1, <1>3, HeldFacts, PlacedFacts DEF TInv
    <2>2. ~ Dropped(i)
        BY <2>1 DEF Dropped, CommandOK, Command, Receipts, Outcomes, AckOutcomes, HasReceipt, NoReceipt, Unknown
    <2>. QED
        BY <1>3, <2>1, <2>2 DEF Kept, GivenUp, Created
<1>4. ASSUME NEW c \in Clients, NEW a \in outbox[c]
      PROVE  /\ AckOK(c, a)'
             /\ deliveries[a.id].at # "queue" \/ deliveries[a.id].receipt = [owner |-> a.owner, outcome |-> a.outcome]
                  => (deliveries'[a.id].at = "queue"
                       => deliveries'[a.id].receipt = [owner |-> a.owner, outcome |-> a.outcome])
    <2>1. AckOK(c, a) /\ a.id \in Ids /\ a.id # nextId /\ a.outcome \in AckOutcomes /\ a.outcome # "none"
        BY <1>1, AckFacts DEF AckOK, AckOutcomes
    <2>2. a.id < nextId'
        BY <1>1, <2>1 DEF AckOK, Ids
    <2>3. CASE Kept(a.id)
        BY <1>1, <1>2, <2>1, <2>2, <2>3 DEF AckOK, Kept
    <2>4. CASE GivenUp(a.id)
        BY <1>1, <1>2, <2>1, <2>2, <2>4 DEF AckOK, GivenUp
    <2>5. CASE Dropped(a.id)
        <3>1. deliveries'[a.id].at # "queue"
            BY <2>5 DEF Dropped
        <3>2. CommandOK(deliveries[a.id]) /\ ~ (deliveries[a.id].at = "queue" /\ Held(a.id, a.owner))
            BY <1>3, <2>1, <3>1, PlacedFacts DEF Held, TInv
        <3>3. deliveries[a.id].at = "queue" /\ deliveries[a.id].receipt = [owner |-> a.owner, outcome |-> a.outcome]
            BY <2>1, <2>5, <3>2 DEF AckOK, Dropped
        <3>4. a.outcome # "ambiguous"
            BY <1>2, <2>1, <2>5, <3>2, <3>3 DEF Dropped, CommandOK, Terminal, HasReceipt, Unknown
        <3>. QED
            BY <1>1, <1>2, <2>1, <2>2, <3>1, <3>4 DEF AckOK
    <2>. QED
        BY <2>1, <2>3, <2>4, <2>5 DEF Created
<1>5. \A i \in Ids : InDoubt(i) => InDoubt(i)'
    <2>1. ASSUME NEW i \in Ids, deliveries[i].at = "queue", deliveries[i].receipt.outcome = "ambiguous"
          PROVE  Kept(i)
        <3>1. i # nextId /\ CommandOK(deliveries[i])
            BY <1>1, <2>1, PlacedFacts DEF TInv
        <3>2. ~ Dropped(i)
            BY <1>2, <2>1, <3>1 DEF Dropped, CommandOK, Terminal, HasReceipt, Unknown
        <3>. QED
            BY <1>2, <2>1, <3>1, <3>2 DEF GivenUp, Created
    <2>. QED
        BY <1>1, <2>1 DEF InDoubt, Kept
<1>6. ASSUME NEW i \in Ids PROVE CommandTrue(i)'
    <2>1. CommandTrue(i)
        BY DEF TInv, CommandsTrue
    <2>2. i >= nextId' => i >= nextId
        BY <1>1 DEF Ids
    <2>3. CASE Kept(i)
        <3>1. Answered(i) => Answered(i)'
            BY <1>1, <2>3 DEF Answered, Kept
        <3>. QED
            BY <1>1, <1>2, <2>1, <2>2, <2>3, <3>1 DEF CommandTrue, Kept
    <2>4. CASE GivenUp(i)
        <3>1. Answered(i) => Answered(i)'
            BY <1>1, <1>2, <2>4 DEF Answered, GivenUp
        <3>. QED
            BY <1>1, <1>2, <2>1, <2>2, <2>4, <3>1 DEF CommandTrue, GivenUp, Truthful
    <2>5. CASE Dropped(i)
        <3>1. deliveries'[i].at # "nowhere" => (Answered(i) => Answered(i)')
            BY <1>1, <2>5 DEF Answered, Dropped
        <3>. QED
            BY <1>1, <1>2, <2>1, <2>2, <2>5, <3>1 DEF CommandTrue, Dropped
    <2>6. CASE Created(i)
        <3>1. posted[i] = 0
            BY <1>1, <2>1, <2>6 DEF CommandTrue, Created
        <3>. QED
            BY <1>1, <1>2, <2>6, <3>1 DEF CommandTrue, Created, Truthful
    <2>. QED
        BY <2>3, <2>4, <2>5, <2>6
<1>7. ASSUME NEW c \in Clients PROVE TaskOK(c)'
    <2>1. task[c] \in Task /\ TaskOK(c)
        BY DEF TInv, WorkerTypes, TasksOK
    <2>2. task[c].step = "record" => Held(task[c].cmd, OwnerOf(task[c].doc))'
        <3>1. PICK i, o : i = task[c].cmd /\ o = OwnerOf(task[c].doc)
            OBVIOUS
        <3>2. task[c].step = "record" => Held(i, o)'
            BY <1>3, <2>1, <3>1 DEF TaskOK, Task
        <3>3. i = task'[c].cmd /\ o = OwnerOf(task[c].doc)'
            BY <1>1, <3>1 DEF OwnerOf
        <3>. QED
            BY <1>1, <3>2, <3>3
    <2>3. task[c].step = "remove" => (deliveries'[task[c].ack.id].at = "queue" =>
            deliveries'[task[c].ack.id].receipt = [owner |-> task[c].ack.owner, outcome |-> task[c].ack.outcome])
        BY <1>4, <2>1 DEF TaskOK
    <2>4. \A d \in Documents : OwnerOf(d)' = OwnerOf(d)
        BY <1>1 DEF OwnerOf
    <2>. QED
        BY <1>1, <1>2, <2>1, <2>2, <2>3 DEF TaskOK
<1>8. ASSUME NEW c \in Clients, NEW e \in inFlight[c] PROVE EntryOK(c, e)'
    <2>1. EntryOK(c, e) /\ e.id \in Ids
        BY EntryFacts
    <2>. QED
        BY <1>1, <1>2, <1>3, <2>1 DEF EntryOK
<1>9. ASSUME NEW d \in Documents PROVE PageOK(d)'
    <2>1. PageOK(d) /\ (page[d].pc = "armed" => page[d].cmd \in Ids)
        BY PageFacts
    <2>2. Owned(ClientOf[d], d)' = Owned(ClientOf[d], d) /\ \A b, j : Armed(b, j)' = Armed(b, j)
        BY <1>1 DEF Owned, OwnerOf, Armed
    <2>. QED
        BY <1>1, <1>2, <1>5, <2>1, <2>2 DEF PageOK, Submitting
<1>10. WorkerTypes' /\ PageTypes'
    BY <1>1 DEF TInv, WorkerTypes, PageTypes
<1>. QED
    BY <1>1, <1>4, <1>6, <1>7, <1>8, <1>9, <1>10
       DEF DeliveryParts, TasksOK, EntriesOK, AcksOK, PagesOK, CommandsTrue

\* A command nobody has claimed since it was created or requeued was never posted.
LEMMA QueuedUnposted ==
    ASSUME TInv, NEW i \in Ids, deliveries[i].at = "queue", deliveries[i].phase = "queued"
    PROVE  posted[i] = 0 /\ deliveries[i].receipt = NoReceipt
<1>1. deliveries[i].receipt = NoReceipt /\ NoReceipt.outcome = "none"
    BY PlacedFacts DEF TInv, CommandOK, Terminal, HasReceipt, NoReceipt
<1>2. \A o : ~ Held(i, o)
    BY <1>1 DEF Held, NoReceipt
<1>3. ~ Answered(i)
    <2>1. ASSUME NEW c \in Clients, NEW e \in inFlight[c], e.id = i PROVE FALSE
        BY <1>2, <2>1, EntryFacts DEF EntryOK
    <2>2. ASSUME NEW c \in Clients, NEW a \in outbox[c], a.id = i PROVE FALSE
        <3>1. AckOK(c, a) /\ a.outcome \in AckOutcomes
            BY AckFacts
        <3>2. deliveries[i].receipt = [owner |-> a.owner, outcome |-> a.outcome]
            BY <1>2, <2>2, <3>1 DEF AckOK
        <3>3. deliveries[i].receipt.outcome = a.outcome
            BY <3>2
        <3>. QED
            BY <1>1, <3>1, <3>3 DEF AckOutcomes
    <2>. QED
        BY <1>1, <2>1, <2>2 DEF Answered
<1>. QED
    BY <1>1, <1>3 DEF TInv, CommandsTrue, CommandTrue

\* Creating a command, and evicting one for it, leaves every name in order.
LEMMA EnqueueNames ==
    ASSUME TInv, NEW k \in Keys, NEW f, NEW v \in Ids \cup {0},
           NEW c \in Conversations, Freed(f, k), Appended(f, v, k, c), UNCHANGED posted
    PROVE  SavedOK' /\ \A i \in Ids : NameOK(i)'
<1>1. /\ saved \in [Keys -> Copies \cup {NoCopy}] /\ NoKey \notin Keys /\ NoCopy.id = 0 /\ 0 \notin Ids
      /\ origin \in [Ids -> Keys \cup {NoKey}]
      /\ ReviewKeys \cap NoticeKeys = {} /\ FailureKeys \cap NoticeKeys = {}
    BY KeysAssumption DEF TInv, IInv, TypeOK, NoCopy, Ids
<1>2. /\ nextId \in Ids /\ deliveries'[nextId].key = k /\ deliveries'[nextId].at = "queue"
      /\ origin' = [origin EXCEPT ![nextId] = k] /\ saved[k] = NoCopy
      /\ \A i \in Ids \ {nextId, v} : deliveries'[i] = f[i]
    BY DEF Appended, NewCommand, Freed
<1>3. \A i \in Ids : /\ f[i].at = deliveries[i].at /\ f[i].receipt = deliveries[i].receipt
                     /\ f[i].key # deliveries[i].key => f[i].key = NoKey /\ f[i].receipt.outcome = "retryable"
                     /\ f[i].at # "nowhere" => f[i].key # k
    BY DEF Freed
\* Another copy is saved only for the victim, and its key had none.
<1>4. ASSUME NEW x \in Keys, saved'[x] # saved[x]
      PROVE  /\ v \in Ids /\ f[v].key = x /\ x \in ReviewKeys \cup FailureKeys /\ x # k
             /\ saved[x] = NoCopy /\ saved'[x].id = v /\ deliveries'[v] = Nowhere
             /\ deliveries[v].key = x
    <2>1. v # 0 /\ saved' = SavedWith(f, v) /\ v \in Ids /\ f[v].at = "queue"
        BY <1>4 DEF Appended, Evictable
    <2>2. f[v].key = x /\ x \in ReviewKeys \cup FailureKeys /\ saved'[x] = [id |-> v, receipt |-> f[v].receipt]
        BY <1>1, <1>4, <2>1 DEF SavedWith
    <2>3. x # k /\ deliveries[v].key = x /\ deliveries[v].at # "nowhere"
        BY <1>1, <1>3, <2>1, <2>2
    <2>4. saved[x] = NoCopy
        BY <2>1, <2>3 DEF TInv, NamesOK, SavedOK, Known
    <2>5. deliveries'[v] = Nowhere
        BY <1>1, <2>1, <2>2 DEF Appended
    <2>. QED
        BY <2>1, <2>2, <2>3, <2>4, <2>5
<1>5. SavedOK'
    <2>. SUFFICES ASSUME NEW x \in Keys, saved'[x] # NoCopy,
                         NEW j \in Ids, deliveries'[j].at # "nowhere", deliveries'[j].key = x
                  PROVE  FALSE
        BY DEF SavedOK, Known
    <2>1. CASE j = nextId
        BY <1>2, <1>4, <2>1
    <2>2. CASE j = v /\ j # nextId
        <3>1. f[v].key = x /\ f[v].key \in NoticeKeys /\ f[v].at = "queue"
            BY <1>1, <2>2, NowhereOK DEF Appended, Evictable, Freed, Sound, Command
        <3>2. deliveries[v].key = x /\ deliveries[v].at = "queue"
            BY <1>1, <1>3, <2>2, <3>1
        <3>3. saved[x] = NoCopy
            BY <2>2, <3>2 DEF TInv, NamesOK, SavedOK, Known
        <3>. QED
            BY <1>1, <1>4, <3>1, <3>3
    <2>3. CASE j # v /\ j # nextId
        <3>1. f[j].key = x /\ f[j].at # "nowhere" /\ deliveries[j].key = x /\ deliveries[j].at # "nowhere"
            BY <1>1, <1>2, <1>3, <2>3
        <3>2. saved[x] = NoCopy
            BY <3>1 DEF TInv, NamesOK, SavedOK, Known
        <3>3. v \in Ids /\ f[v].key = x /\ deliveries[v].key = x
            BY <1>4, <3>2
        <3>4. f[v].at # "nowhere"
            BY <1>1, <3>3 DEF Appended, Evictable
        <3>. QED
            BY <1>1, <2>3, <3>1, <3>3, <3>4 DEF Freed, Sound
    <2>. QED
        BY <2>1, <2>2, <2>3
<1>6. ASSUME NEW i \in Ids PROVE NameOK(i)'
    <2>1. NameOK(i)
        BY DEF TInv, NamesOK
    <2>2. CASE i = nextId
        BY <1>1, <1>2, <2>2 DEF NameOK
    <2>3. CASE i = v /\ i # nextId
        <3>1. /\ f[i].at = "queue" /\ deliveries[i].at = "queue" /\ Evictable(f, i) /\ saved' = SavedWith(f, i)
              /\ deliveries'[i] = IF f[i].key \in NoticeKeys THEN [f[i] EXCEPT !.at = "archive"] ELSE Nowhere
              /\ origin'[i] = origin[i] /\ f[i] \in Command
            BY <1>1, <1>2, <1>3, <2>3 DEF Appended, Evictable, Freed, Sound
        <3>2. CASE deliveries[i].receipt.outcome = "retryable"
            <4>1. posted[i] = 0
                BY <3>1, <3>2 DEF TInv, CommandsTrue, CommandTrue, Truthful
            <4>2. f[i].key \notin NoticeKeys
                <5>1. f[i].receipt.outcome = "retryable" /\ HasReceipt(f[i])
                    BY <1>3, <3>1, <3>2 DEF Evictable
                <5>2. f[i].key = NoKey \/ f[i].key \in settled
                    BY <3>1, <5>1 DEF Evictable, Final
                <5>. QED
                    BY <1>1, <5>2 DEF TInv, IInv, TypeOK, Keys
            <4>3. deliveries'[i].at = "nowhere"
                BY <3>1, <4>2, NowhereOK
            <4>. QED
                BY <4>1, <4>3 DEF NameOK
        <3>3. CASE deliveries[i].receipt.outcome # "retryable"
            <4>1. f[i].key = origin[i]
                BY <1>3, <3>1, <3>3 DEF TInv, NamesOK, RetryFenced, InQueue
            <4>2. CASE f[i].key \in NoticeKeys
                BY <3>1, <4>1, <4>2 DEF NameOK, Command
            <4>3. CASE f[i].key \in ReviewKeys \cup FailureKeys
                BY <1>1, <3>1, <4>1, <4>3 DEF NameOK, SavedWith, Keys
            <4>. QED
                BY <1>1, <3>1, <4>1, <4>2, <4>3 DEF Command, Keys, NameOK
        <3>. QED
            BY <3>2, <3>3
    <2>4. CASE i # v /\ i # nextId
        <3>1. deliveries'[i] = f[i] /\ origin'[i] = origin[i]
            BY <1>1, <1>2, <2>4
        <3>2. saved[origin[i]].id = i /\ origin[i] \in Keys => saved'[origin[i]].id = i
            BY <1>1, <1>4
        <3>. QED
            BY <1>1, <1>3, <2>1, <3>1, <3>2 DEF NameOK
    <2>. QED
        BY <2>2, <2>3, <2>4
<1>. QED
    BY <1>5, <1>6

LEMMA ServiceStepKeeps ==
    ASSUME TInv, OneBrowser, ServiceStep PROVE TInv'
<1>1. UNCHANGED <<workerVars, pageVars>> /\ UNCHANGED posted /\ deliveries \in [Ids -> Command]
      /\ (\A i \in Ids : CommandOK(deliveries[i])) /\ NoReceipt.outcome = "none"
    BY DEF ServiceStep, pageVars, TInv, IInv, Sound, NoReceipt
<1>2. ASSUME [Next]_vars, nextId' \in {nextId, nextId + 1},
             \A i \in Ids : Kept(i) \/ GivenUp(i) \/ Dropped(i) \/ Created(i),
             SavedOK', \A i \in Ids : NameOK(i)'
      PROVE  TInv'
    <2>1. IInv' /\ RetryFenced'
        BY <1>2, NextIInv, NextFenced DEF TInv, NamesOK
    <2>. QED
        BY <1>1, <1>2, <2>1, ServiceCallKeeps DEF DeliveryParts, TInv, NamesOK
<1>3. ASSUME NEW i \in Ids, NEW code \in RecoveryErrors, ReportRecoveryFailure(i, code) PROVE TInv'
    <2>1. [Next]_vars /\ UNCHANGED <<nextId, saved, origin>>
        BY <1>3 DEF Next, ReportRecoveryFailure
    <2>2. ASSUME NEW j \in Ids
          PROVE  /\ deliveries'[j].at = deliveries[j].at /\ deliveries'[j].key = deliveries[j].key
                 /\ deliveries'[j].receipt = deliveries[j].receipt
                 /\ deliveries'[j].phase = deliveries[j].phase /\ deliveries'[j].lease = deliveries[j].lease
        BY <1>1, <1>3 DEF ReportRecoveryFailure, Command
    <2>3. \A j \in Ids : Kept(j)
        BY <2>2 DEF Kept, Held
    <2>4. NamesOK'
        BY <1>1, <2>1, <2>2, StaysNamed
    <2>. QED
        BY <1>2, <2>1, <2>3, <2>4 DEF NamesOK
<1>4. ASSUME NEW i \in Ids, ExpireQueued(i) PROVE TInv'
    <2>1. [Next]_vars /\ UNCHANGED <<nextId, saved, origin>>
        BY <1>4 DEF Next, Expire, ExpireQueued
    <2>2. /\ deliveries'[i] = Nowhere /\ \A j \in Ids \ {i} : deliveries'[j] = deliveries[j]
          /\ deliveries[i].at = "queue" /\ deliveries[i].phase = "queued" /\ Nowhere.at = "nowhere"
        BY <1>1, <1>4, NowhereOK DEF ExpireQueued
    <2>3. \A j \in Ids : Kept(j) \/ Dropped(j)
        BY <2>2 DEF Kept, Held, Dropped
    <2>4. SavedOK'
        BY <2>1, <2>2 DEF TInv, NamesOK, SavedOK, Known
    <2>5. \A j \in Ids : NameOK(j)'
        <3>1. posted[i] = 0
            BY <2>2, QueuedUnposted
        <3>. QED
            BY <1>1, <2>1, <2>2, <3>1 DEF TInv, NamesOK, NameOK
    <2>. QED
        BY <1>2, <2>1, <2>3, <2>4, <2>5
<1>5. ASSUME NEW i \in Ids, ExpireLeased(i) PROVE TInv'
    <2>1. [Next]_vars /\ UNCHANGED <<nextId, saved, origin>>
        BY <1>5 DEF Next, Expire, ExpireLeased
    <2>. DEFINE o == deliveries[i].lease.owner
                s == [deliveries[i] EXCEPT !.phase = StatusOf("timed_out"), !.lease = NoLease,
                                           !.receipt = [owner |-> o, outcome |-> "timed_out"]]
    <2>2. deliveries[i].at = "queue" /\ deliveries[i].phase = "leased" /\ deliveries[i].receipt = NoReceipt
        BY <1>1, <1>5 DEF ExpireLeased, CommandOK, Terminal, HasReceipt
    <2>3. deliveries' = [deliveries EXCEPT ![i] = s]
        BY <1>1, <1>5 DEF ExpireLeased, Finish, Command
    <2>4. /\ s.at = "queue" /\ s.key = deliveries[i].key
          /\ s.receipt = [owner |-> o, outcome |-> "timed_out"]
        BY <1>1, <2>2 DEF Command
    <2>5. /\ deliveries'[i].at = "queue" /\ deliveries'[i].key = deliveries[i].key
          /\ deliveries'[i].receipt = [owner |-> o, outcome |-> "timed_out"]
          /\ \A j \in Ids \ {i} : deliveries'[j] = deliveries[j]
        <3>. HIDE DEF s
        <3>. QED
            BY <1>1, <2>3, <2>4
    <2>6. GivenUp(i)
        BY <1>1, <2>2, <2>5 DEF GivenUp, Held
    <2>7. \A j \in Ids \ {i} : Kept(j)
        BY <2>5 DEF Kept, Held
    <2>8. NamesOK'
        BY <1>1, <2>1, <2>2, <2>5, StaysNamed
    <2>. QED
        BY <1>2, <2>1, <2>6, <2>7, <2>8 DEF NamesOK
<1>6. ASSUME NEW k \in Keys, NEW c \in Conversations, EnqueueNew(k, c) \/ EnqueueRetry(k, c) PROVE TInv'
    <2>1. [Next]_vars
        BY <1>6 DEF Next
    <2>0. \E f : \E v \in Ids \cup {0} : Freed(f, k) /\ Appended(f, v, k, c)
        BY <1>6, EnqueueShape DEF TInv, NamesOK
    <2>6. PICK f : \E v \in Ids \cup {0} : Freed(f, k) /\ Appended(f, v, k, c)
        BY <2>0
    <2>2. PICK v \in Ids \cup {0} : Freed(f, k) /\ Appended(f, v, k, c)
        BY <2>6
    <2>3. SavedOK' /\ \A i \in Ids : NameOK(i)'
        BY <1>1, <2>2, EnqueueNames
    <2>4. nextId' = nextId + 1 /\ nextId \in Ids
        BY <2>2 DEF Appended
    <2>5. ASSUME NEW i \in Ids PROVE Kept(i) \/ GivenUp(i) \/ Dropped(i) \/ Created(i)
        <3>1. /\ f[i].at = deliveries[i].at /\ f[i].phase = deliveries[i].phase
              /\ f[i].lease = deliveries[i].lease /\ f[i].receipt = deliveries[i].receipt
            BY <2>2 DEF Freed
        <3>2. CASE i = nextId
            BY <2>2, <3>2 DEF Appended, Created, NewCommand
        <3>3. CASE i # nextId /\ i = v
            <4>1. /\ Evictable(f, i) /\ i # 0
                  /\ deliveries'[i] = IF f[i].key \in NoticeKeys THEN [f[i] EXCEPT !.at = "archive"] ELSE Nowhere
                BY <2>2, <3>3 DEF Appended, Ids
            <4>2. /\ f[i].at = "queue" /\ f[i].receipt # NoReceipt /\ f[i].receipt.outcome \notin Unknown
                  /\ f[i] \in Command
                BY <2>2, <4>1 DEF Evictable, HasReceipt, Freed, Sound
            <4>3. \/ deliveries'[i].at = "nowhere"
                  \/ deliveries'[i].at = "archive" /\ deliveries'[i].receipt = f[i].receipt
                BY <4>1, <4>2, NowhereOK DEF Command
            <4>. QED
                BY <3>1, <4>2, <4>3 DEF Dropped, HasReceipt
        <3>4. CASE i # nextId /\ i # v
            <4>1. deliveries'[i] = f[i]
                BY <2>2, <3>4 DEF Appended
            <4>. QED
                BY <3>1, <4>1 DEF Kept, Held
        <3>. QED
            BY <3>2, <3>3, <3>4
    <2>. QED
        BY <1>2, <2>1, <2>3, <2>4, <2>5
<1>. QED
    BY <1>3, <1>4, <1>5, <1>6 DEF ServiceStep, Expire

LEMMA PageStepKeeps ==
    ASSUME TInv, OneBrowser, NEW d \in Documents, PageStep(d) PROVE TInv'
<1>1. UNCHANGED <<vars, workerVars>>
    BY DEF PageStep, Open, Poll, InsertPrompt, NotClicked, Click, Navigate, Register, CloseDocument
<1>2. PageTypes' /\ WorkerTypes'
    BY <1>1, PageTypesKept DEF TInv, WorkerTypes, workerVars
<1>3. TasksOK' /\ EntriesOK' /\ AcksOK' /\ PagesOK' /\ CommandsTrue'
    BY CalmPageSteps, PageMoves, ClickKeeps DEF PageStep
<1>4. CASE UNCHANGED posted
    BY <1>1, <1>2, <1>3, <1>4, NamesKept DEF TInv
<1>5. CASE Click(d)
    <2>1. /\ IInv' /\ UNCHANGED <<deliveries, saved, origin>>
        BY <1>1, NextIInv DEF TInv, vars
    <2>2. RetryFenced' /\ SavedOK'
        BY <2>1 DEF TInv, NamesOK, RetryFenced, InQueue, SavedOK, Known
    <2>3. ASSUME NEW i \in Ids PROVE NameOK(i)'
        <3>1. NameOK(i) /\ posted \in [Ids -> Nat] /\ Armed(d, page[d].cmd)
            BY <1>5 DEF TInv, NamesOK, PageTypes, Armed, Click
        <3>2. CASE i = page[d].cmd
            BY <2>1, <3>1, <3>2, ArmedFacts DEF NameOK
        <3>3. CASE i # page[d].cmd
            <4>1. posted'[i] = posted[i]
                BY <1>5, <3>1, <3>3 DEF Click
            <4>. QED
                BY <2>1, <3>1, <4>1 DEF NameOK
        <3>. QED
            BY <3>2, <3>3
    <2>. QED
        BY <1>2, <1>3, <2>1, <2>2, <2>3 DEF TInv, NamesOK
<1>. QED
    BY <1>4, <1>5 DEF PageStep, Open, Poll, InsertPrompt, NotClicked, Navigate, Register, CloseDocument

LEMMA WorkerStepKeeps ==
    ASSUME TInv, OneBrowser, NEW c \in Clients, WorkerStep(c) PROVE TInv'
<1>1. CASE PostAck(c) \/ PostAckLost(c)
    BY <1>1, PostAckKeeps
<1>2. CASE PostClaim(c) \/ PostClaimLost(c)
    BY <1>2, PostClaimKeeps
<1>3. ASSUME DeliveryParts', UNCHANGED <<vars, posted>> PROVE TInv'
    BY <1>3, NamesKept DEF TInv, DeliveryParts
<1>4. ASSUME NEW d \in Documents, BeginClaim(c, d) PROVE TInv'
    <2>1. DeliveryParts'
        BY <1>4, PrepareKeeps DEF BeginClaim
    <2>. QED
        BY <1>3, <1>4, <2>1 DEF BeginClaim, pageVars
<1>5. CASE BeginRecovery(c)
    <2>1. DeliveryParts'
        BY <1>5, PrepareKeeps DEF BeginRecovery
    <2>. QED
        BY <1>3, <1>5, <2>1 DEF BeginRecovery, pageVars
<1>6. ASSUME NEW d \in Documents, SubmitStarted(c, d) PROVE TInv'
    BY <1>3, <1>6, SubmitStartedKeeps DEF SubmitStarted
<1>7. ASSUME NEW d \in Documents, ReceiveAck(c, d) PROVE TInv'
    BY <1>3, <1>7, ReceiveAckKeeps DEF ReceiveAck
<1>8. CASE RemoveAck(c)
    BY <1>3, <1>8, RemoveAckKeeps DEF RemoveAck, pageVars
<1>9. CASE Flushed(c)
    BY <1>3, <1>9, FlushedKeeps DEF Flushed
<1>10. CASE RecordClaim(c)
    BY <1>3, <1>10, RecordClaimKeeps DEF RecordClaim
<1>11. CASE Suspend(c)
    BY <1>3, <1>11, SuspendKeeps DEF Suspend
<1>. QED
    BY <1>1, <1>2, <1>4, <1>5, <1>6, <1>7, <1>8, <1>9, <1>10, <1>11 DEF WorkerStep

-----------------------------------------------------------------------------
(* The theorems *)

LEMMA InitTInv == TransportInit => TInv
<1>. SUFFICES ASSUME TransportInit PROVE TInv
    OBVIOUS
<1>. USE DEF TransportInit
<1>1. IInv /\ (\A i \in Ids : deliveries[i] = Nowhere /\ origin[i] = NoKey) /\ \A k \in Keys : saved[k] = NoCopy
    BY InitIInv DEF Init
<1>2. WorkerTypes
    BY NoTaskTyped DEF WorkerTypes
<1>3. PageTypes
    <2>1. PageAt("unopened") \in Page /\ 0 \in 0 .. MaxEpoch
        BY TransportAssumption DEF PageAt, Page
    <2>. QED
        BY <2>1 DEF PageTypes
<1>4. TasksOK /\ EntriesOK /\ AcksOK
    BY DEF TasksOK, EntriesOK, AcksOK, TaskOK, NoTask
<1>5. PagesOK
    BY DEF PagesOK, PageOK, PageAt
<1>6. CommandsTrue /\ NamesOK
    BY <1>1, NowhereOK DEF CommandsTrue, CommandTrue, NamesOK, RetryFenced, InQueue, SavedOK, NameOK
<1>. QED
    BY <1>1, <1>2, <1>3, <1>4, <1>5, <1>6 DEF TInv

LEMMA NextTInv == TInv /\ OneBrowser /\ [TransportNext]_transportVars => TInv'
<1>. SUFFICES ASSUME TInv, OneBrowser, [TransportNext]_transportVars PROVE TInv'
    OBVIOUS
<1>1. CASE TransportNext
    BY <1>1, WorkerStepKeeps, PageStepKeeps, ServiceStepKeeps, TickKeeps DEF TransportNext
<1>2. CASE UNCHANGED transportVars
    <2>1. UNCHANGED <<vars, posted>> /\ ServiceUnchanged /\ UNCHANGED <<inFlight, outbox, task, page, epoch, registered>>
        BY <1>2 DEF transportVars, vars, workerVars, pageVars, ServiceUnchanged
    <2>2. IInv' /\ NamesOK'
        BY <2>1, NamesKept
    <2>3. EntriesOK' /\ AcksOK' /\ PagesOK' /\ CommandsTrue'
        BY <2>1, CalmerKeeps DEF Calmer, Drops
    <2>4. TasksOK'
        BY <2>1, TasksKept DEF NobodyArmed, Armed
    <2>. QED
        BY <2>1, <2>2, <2>3, <2>4 DEF TInv, WorkerTypes, PageTypes
<1>. QED
    BY <1>1, <1>2

THEOREM TransportInvariance == ASSUME OneBrowser PROVE TransportSpec => []TInv
<1>1. TInv /\ [TransportNext]_transportVars => TInv'
    BY NextTInv
<1>. QED
    BY <1>1, InitTInv, PTL DEF TransportSpec

\* Every state of the service, of the worker's storage and of the pages is one of its schema.
THEOREM TransportTypeCorrect == ASSUME OneBrowser PROVE TransportSpec => []TransportTypeOK
<1>1. TInv => TransportTypeOK
    BY DEF TInv, IInv, WorkerTypes, PageTypes, TransportTypeOK
<1>. QED
    BY <1>1, TransportInvariance, PTL

\* The messages of one logical delivery are all of the one command it is known by.
LEMMA OnePosted ==
    ASSUME TInv, NEW k \in Keys, NEW i \in Ids, origin[i] = k, posted[i] > 0
    PROVE  /\ posted[i] = 1 /\ PostedFor(k) = {i}
           /\ \/ deliveries[i].at # "nowhere" /\ deliveries[i].key = k
              \/ Known(k) = {} /\ saved[k].id = i
<1>. DEFINE Place(j) == \/ deliveries[j].at # "nowhere" /\ deliveries[j].key = k
                        \/ Known(k) = {} /\ saved[k].id = j
<1>1. ASSUME NEW j \in Ids, origin[j] = k, posted[j] > 0 PROVE Place(j) /\ posted[j] = 1
    <2>1. NameOK(j) /\ CommandTrue(j) /\ k # NoKey /\ 0 \notin Ids /\ posted[j] = 1
        BY <1>1, KeysAssumption DEF TInv, NamesOK, CommandsTrue, CommandTrue, Ids
    <2>2. saved[k].id = j => Known(k) = {}
        BY <2>1 DEF TInv, NamesOK, SavedOK, NoCopy
    <2>. QED
        BY <1>1, <2>1, <2>2 DEF NameOK, CommandTrue, Truthful
<1>2. ASSUME NEW j \in Ids, origin[j] = k, posted[j] > 0 PROVE j = i
    <2>1. Place(i) /\ Place(j)
        BY <1>1, <1>2
    <2>2. k # NoKey
        BY KeysAssumption
    <2>. QED
        BY <2>1, <2>2 DEF TInv, IInv, Sound, Known
<1>. QED
    BY <1>1, <1>2 DEF PostedFor

LEMMA CountPosted ==
    ASSUME TInv, NEW k \in Keys
    PROVE  TimesShown(k) = IF \E i \in Ids : origin[i] = k /\ posted[i] > 0 THEN 1 ELSE 0
<1>1. ASSUME NEW i \in Ids, origin[i] = k, posted[i] > 0 PROVE TimesShown(k) = 1
    BY <1>1, OnePosted, FS_Singleton DEF TimesShown
<1>2. CASE \A i \in Ids : ~(origin[i] = k /\ posted[i] > 0)
    <2>1. PostedFor(k) = {}
        BY <1>2 DEF PostedFor
    <2>. QED
        BY <1>2, <2>1, FS_EmptySet DEF TimesShown
<1>. QED
    BY <1>1, <1>2

\* A message is posted once at most, and exactly where its receipt says so.
THEOREM AlwaysPostedAsReported == ASSUME OneBrowser PROVE TransportSpec => []PostedAsReported
<1>1. ASSUME TInv PROVE PostedAsReported
    <2>1. AtMostOnePost
        <3>1. ASSUME NEW k \in Keys PROVE Cardinality(PostedFor(k)) <= 1
            BY <1>1, <3>1, CountPosted DEF TimesShown
        <3>2. ASSUME NEW k \in Keys, NEW i \in PostedFor(k) PROVE posted[i] = 1
            BY <1>1, <3>2, OnePosted DEF PostedFor
        <3>. QED
            BY <3>1, <3>2 DEF AtMostOnePost
    <2>2. ASSUME NEW i \in InQueue(deliveries)
          PROVE  /\ deliveries[i].phase = "delivered" => posted[i] = 1
                 /\ deliveries[i].phase = "failed" => posted[i] = 0
        <3>1. i \in Ids /\ deliveries[i].at = "queue" /\ CommandOK(deliveries[i]) /\ CommandTrue(i)
            BY <1>1, <2>2, PlacedFacts DEF InQueue, TInv, CommandsTrue
        <3>2. deliveries[i].phase \in {"delivered", "failed"} =>
                StatusOf(deliveries[i].receipt.outcome) = deliveries[i].phase
            BY <3>1 DEF CommandOK, Terminal
        <3>. QED
            BY <3>1, <3>2 DEF CommandTrue, Truthful, StatusOf
    <2>. QED
        BY <2>1, <2>2 DEF PostedAsReported, ReceiptTruthful
<1>2. TInv => PostedAsReported
    BY <1>1
<1>. QED
    BY <1>2, TransportInvariance, PTL

-----------------------------------------------------------------------------
(* The transport implements AtMostOnceDelivery *)

\* The command i is the one its key k is known by.
GoesBy(i, k) == deliveries[i].at # "nowhere" /\ deliveries[i].key = k

\* What the promise sees of the state.
Views == \A k \in Keys :
    /\ TimesShown(k) = IF \E i \in Ids : origin[i] = k /\ posted[i] > 0 THEN 1 ELSE 0
    /\ \A i \in Ids : GoesBy(i, k) => ReceiptOf(k) = deliveries[i].receipt
    /\ (\A i \in Ids : ~ GoesBy(i, k)) => ReceiptOf(k) = saved[k].receipt

LEMMA ViewsHold == TInv => Views
<1>. SUFFICES ASSUME TInv, NEW k \in Keys
              PROVE  /\ \A i \in Ids : GoesBy(i, k) => ReceiptOf(k) = deliveries[i].receipt
                     /\ (\A i \in Ids : ~ GoesBy(i, k)) => ReceiptOf(k) = saved[k].receipt
    BY CountPosted DEF Views
<1>1. ASSUME NEW i \in Ids, GoesBy(i, k) PROVE ReceiptOf(k) = deliveries[i].receipt
    <2>1. i \in Known(k) /\ Known(k) \in SUBSET Ids
        BY <1>1 DEF GoesBy, Known
    <2>2. First(Known(k)) \in Known(k)
        BY <2>1, FirstIsMember
    <2>3. First(Known(k)) = i
        BY <1>1, <2>2, KeysAssumption DEF GoesBy, Known, TInv, IInv, Sound
    <2>. QED
        BY <2>1, <2>3 DEF ReceiptOf
<1>2. (\A i \in Ids : ~ GoesBy(i, k)) => Known(k) = {}
    BY DEF GoesBy, Known
<1>. QED
    BY <1>1, <1>2 DEF ReceiptOf

LEMMA SameKnowing ==
    ASSUME Views, Views', NEW k \in Keys, saved'[k].receipt = saved[k].receipt,
           \A i \in Ids : /\ GoesBy(i, k)' <=> GoesBy(i, k)
                          /\ GoesBy(i, k) => deliveries'[i].receipt = deliveries[i].receipt
    PROVE  Knowing(k)' = Knowing(k)
<1>1. ReceiptOf(k)' = ReceiptOf(k)
    BY DEF Views
<1>. QED
    BY <1>1 DEF Knowing

LEMMA SameCount ==
    ASSUME Views, Views', NEW k \in Keys,
           \A i \in Ids : origin'[i] = k /\ posted'[i] > 0 <=> origin[i] = k /\ posted[i] > 0
    PROVE  TimesShown(k)' = TimesShown(k)
BY DEF Views

Delivers == [Promise!DeliveryNext]_<<[k \in Keys |-> TimesShown(k)], [k \in Keys |-> Knowing(k)]>>

\* What the promise allows to happen to one logical delivery.
Moves(k) ==
    \/ /\ TimesShown(k)' = TimesShown(k)
       /\ \/ Knowing(k)' = Knowing(k)
          \/ Knowing(k) \in {"nothing", "unknown"} /\ Knowing(k)' = "delivered" /\ TimesShown(k) = 1
          \/ Knowing(k) \in {"nothing", "unknown"} /\ Knowing(k)' \in {"unsent", "refused"} /\ TimesShown(k) = 0
          \/ Knowing(k) = "nothing" /\ Knowing(k)' = "unknown"
          \/ Knowing(k) = "unsent" /\ Knowing(k)' = "nothing"
    \/ /\ TimesShown(k) = 0 /\ TimesShown(k)' = 1
       /\ Knowing(k) \in {"nothing", "unknown"} /\ Knowing(k)' = Knowing(k)

LEMMA NoMove ==
    ASSUME \A j \in Keys : TimesShown(j)' = TimesShown(j) /\ Knowing(j)' = Knowing(j) PROVE Delivers
BY DEF Delivers

LEMMA OneMove ==
    ASSUME NEW k \in Keys, Moves(k),
           \A j \in Keys \ {k} : TimesShown(j)' = TimesShown(j) /\ Knowing(j)' = Knowing(j)
    PROVE  Delivers
<1>1. CASE TimesShown(k)' = TimesShown(k) /\ Knowing(k)' = Knowing(k)
    BY <1>1, NoMove
<1>2. CASE TimesShown(k) # TimesShown(k)'
    <2>1. Promise!Show(k)
        BY <1>2 DEF Moves, Promise!Show
    <2>. QED
        BY <2>1 DEF Delivers, Promise!DeliveryNext
<1>3. CASE TimesShown(k)' = TimesShown(k) /\ Knowing(k)' = "delivered" /\ Knowing(k) \in {"nothing", "unknown"}
    <2>1. Promise!LearnDelivered(k)
        BY <1>3 DEF Moves, Promise!LearnDelivered
    <2>. QED
        BY <2>1 DEF Delivers, Promise!DeliveryNext
<1>4. CASE TimesShown(k)' = TimesShown(k) /\ Knowing(k)' \in {"unsent", "refused"} /\ Knowing(k) \in {"nothing", "unknown"}
    <2>1. PICK r \in {"unsent", "refused"} : Knowing(k)' = r
        BY <1>4
    <2>2. [j \in Keys |-> Knowing(j)]' = [[j \in Keys |-> Knowing(j)] EXCEPT ![k] = r]
        BY <2>1
    <2>3. Promise!LearnNotSent(k)
        BY <1>4, <2>1, <2>2 DEF Moves, Promise!LearnNotSent
    <2>. QED
        BY <2>3 DEF Delivers, Promise!DeliveryNext
<1>5. CASE TimesShown(k)' = TimesShown(k) /\ Knowing(k) = "nothing" /\ Knowing(k)' = "unknown"
    <2>1. Promise!LoseTrack(k)
        BY <1>5 DEF Promise!LoseTrack
    <2>. QED
        BY <2>1 DEF Delivers, Promise!DeliveryNext
<1>6. CASE TimesShown(k)' = TimesShown(k) /\ Knowing(k) = "unsent" /\ Knowing(k)' = "nothing"
    <2>1. Promise!Retry(k)
        BY <1>6 DEF Promise!Retry
    <2>. QED
        BY <2>1 DEF Delivers, Promise!DeliveryNext
<1>. QED
    BY <1>1, <1>2, <1>3, <1>4, <1>5, <1>6 DEF Moves

\* A step after which every command goes by the same key in the same place with the same receipt.
LEMMA QuietDelivers ==
    ASSUME TInv, TInv', UNCHANGED <<saved, origin, posted>>,
           \A i \in Ids : /\ deliveries'[i].at = deliveries[i].at /\ deliveries'[i].key = deliveries[i].key
                          /\ deliveries'[i].receipt = deliveries[i].receipt
    PROVE  Delivers
<1>1. Views /\ Views'
    BY ViewsHold, PTL
<1>2. ASSUME NEW j \in Keys PROVE TimesShown(j)' = TimesShown(j) /\ Knowing(j)' = Knowing(j)
    <2>1. \A i \in Ids : GoesBy(i, j)' = GoesBy(i, j)
        BY DEF GoesBy
    <2>. QED
        BY <1>1, <2>1, SameKnowing, SameCount
<1>. QED
    BY <1>2, NoMove

\* The receipt of the command i of key k changes, and nothing else the promise sees.
LEMMA ReceiptDelivers ==
    ASSUME TInv, TInv', UNCHANGED <<saved, origin, posted>>, NEW i \in Ids,
           deliveries[i].at = "queue", deliveries'[i].at = "queue",
           deliveries'[i].key = deliveries[i].key,
           \A j \in Ids \ {i} : deliveries'[j] = deliveries[j],
           \/ /\ deliveries[i].receipt.outcome \in {"none", "timed_out"}
              /\ deliveries'[i].receipt.outcome \in AckOutcomes
           \/ /\ deliveries[i].receipt.outcome = "none"
              /\ deliveries'[i].receipt.outcome = "timed_out"
    PROVE  Delivers
<1>1. Views /\ Views'
    BY ViewsHold, PTL
<1>2. \A k : /\ (\A j \in Ids : GoesBy(j, k)' <=> GoesBy(j, k))
             /\ \A j \in Ids : GoesBy(j, k) /\ ~ GoesBy(i, k) => deliveries'[j].receipt = deliveries[j].receipt
    BY DEF GoesBy
<1>3. ASSUME NEW k \in Keys PROVE TimesShown(k)' = TimesShown(k)
    BY <1>1, SameCount
<1>4. ASSUME NEW k \in Keys, ~ GoesBy(i, k) PROVE Knowing(k)' = Knowing(k)
    BY <1>1, <1>2, <1>4, SameKnowing
<1>5. CASE deliveries[i].key \notin Keys
    BY <1>3, <1>4, <1>5, NoMove DEF GoesBy
<1>6. ASSUME deliveries[i].key \in Keys PROVE Delivers
    <2>1. PICK k \in Keys : k = deliveries[i].key
        BY <1>6
    <2>2. GoesBy(i, k) /\ GoesBy(i, k)' /\ \A j \in Keys \ {k} : ~ GoesBy(i, j)
        BY <2>1 DEF GoesBy
    <2>3. ReceiptOf(k) = deliveries[i].receipt /\ ReceiptOf(k)' = deliveries'[i].receipt
        BY <1>1, <2>2 DEF Views
    <2>4. origin[i] = k
        BY <2>1, KeysAssumption DEF TInv, NamesOK, RetryFenced, InQueue
    <2>5. TimesShown(k) = IF posted[i] > 0 THEN 1 ELSE 0
        <3>1. ASSUME NEW j \in Ids, origin[j] = k, posted[j] > 0 PROVE j = i
            BY <2>1, <2>2, <3>1, OnePosted, KeysAssumption DEF GoesBy, Known, TInv, IInv, Sound
        <3>. QED
            BY <1>1, <2>4, <3>1 DEF Views
    <2>6. Truthful(deliveries'[i].receipt.outcome, i)
        BY DEF TInv, CommandsTrue, CommandTrue, Truthful
    <2>7. posted[i] \in 0 .. 1
        BY DEF TInv, CommandsTrue, CommandTrue
    <2>8. Knowing(k) \in {"nothing", "unknown"} /\ (deliveries[i].receipt.outcome = "none" => Knowing(k) = "nothing")
        BY <2>3 DEF Knowing, Unknown
    <2>9. CASE deliveries'[i].receipt.outcome = "sent"
        <3>1. Knowing(k)' = "delivered"
            BY <2>3, <2>9 DEF Knowing, Unknown
        <3>2. TimesShown(k) = 1
            BY <2>5, <2>6, <2>9 DEF Truthful
        <3>. QED
            BY <1>3, <1>4, <2>2, <2>8, <3>1, <3>2, OneMove DEF Moves
    <2>10. CASE deliveries'[i].receipt.outcome \in {"retryable", "refused"}
        <3>1. Knowing(k)' \in {"unsent", "refused"}
            BY <2>3, <2>10 DEF Knowing, Unknown
        <3>2. TimesShown(k) = 0
            BY <2>5, <2>6, <2>10 DEF Truthful
        <3>. QED
            BY <1>3, <1>4, <2>2, <2>8, <3>1, <3>2, OneMove DEF Moves
    <2>11. CASE deliveries'[i].receipt.outcome \in Unknown
        <3>1. Knowing(k)' = "unknown"
            BY <2>3, <2>11 DEF Knowing, Unknown
        <3>. QED
            BY <1>3, <1>4, <2>2, <2>8, <3>1, OneMove DEF Moves
    <2>. QED
        BY <2>9, <2>10, <2>11 DEF AckOutcomes, Unknown
<1>. QED
    BY <1>5, <1>6

\* The message appears in the chat.
LEMMA ClickDelivers ==
    ASSUME TInv, TInv', OneBrowser, NEW d \in Documents, Click(d) PROVE Delivers
<1>1. Views /\ Views'
    BY ViewsHold, PTL
<1>2. UNCHANGED <<deliveries, saved, origin>> /\ posted \in [Ids -> Nat]
    BY DEF Click, vars, TInv, PageTypes
<1>3. PICK i \in Ids : i = page[d].cmd
    BY PageFacts DEF Click
<1>4. /\ deliveries[i].at = "queue" /\ posted[i] = 0
      /\ deliveries[i].receipt.outcome \in {"none", "timed_out", "ambiguous"}
    BY <1>3, ArmedFacts DEF Armed, Click
<1>5. /\ \A j \in Ids \ {i} : posted'[j] = posted[j]
      /\ posted'[i] \in {0, 1}
    BY <1>2, <1>3, <1>4 DEF Click
<1>6. ASSUME NEW k \in Keys PROVE Knowing(k)' = Knowing(k)
    BY <1>1, <1>2, SameKnowing DEF GoesBy
<1>7. ASSUME NEW k \in Keys, origin[i] # k PROVE TimesShown(k)' = TimesShown(k)
    BY <1>1, <1>2, <1>5, <1>7, SameCount
<1>8. CASE origin[i] \notin Keys \/ posted'[i] = 0
    <2>1. ASSUME NEW k \in Keys PROVE TimesShown(k)' = TimesShown(k)
        BY <1>1, <1>2, <1>4, <1>5, <1>7, <1>8, SameCount
    <2>. QED
        BY <1>6, <2>1, NoMove
<1>9. ASSUME origin[i] \in Keys, posted'[i] = 1 PROVE Delivers
    <2>1. PICK k \in Keys : k = origin[i]
        BY <1>9
    <2>2. GoesBy(i, k)
        BY <1>4, <2>1 DEF GoesBy, TInv, NamesOK, RetryFenced, InQueue
    <2>3. Knowing(k) \in {"nothing", "unknown"}
        BY <1>1, <1>4, <2>2 DEF Views, Knowing, Unknown
    <2>4. TimesShown(k) = 0
        <3>1. ASSUME NEW j \in Ids, origin[j] = k, posted[j] > 0 PROVE FALSE
            BY <1>4, <2>1, <2>2, <3>1, OnePosted, KeysAssumption DEF GoesBy, Known, TInv, IInv, Sound
        <3>. QED
            BY <1>1, <3>1 DEF Views
    <2>5. TimesShown(k)' = 1
        BY <1>1, <1>2, <1>9, <2>1 DEF Views
    <2>. QED
        BY <1>6, <1>7, <2>1, <2>3, <2>4, <2>5, OneMove DEF Moves
<1>. QED
    BY <1>5, <1>8, <1>9

\* The service creates, retries, gives up or forgets a command.
LEMMA EnqueueDelivers ==
    ASSUME TInv, TInv', NEW k \in Keys, NEW f, NEW v \in Ids \cup {0}, NEW c \in Conversations,
           Freed(f, k), Appended(f, v, k, c), UNCHANGED posted
    PROVE  Delivers
<1>1. Views /\ Views'
    BY ViewsHold, PTL
<1>0. PICK n \in Ids : n = nextId
    BY DEF Appended
<1>2. /\ deliveries'[n].key = k /\ deliveries'[n].at = "queue"
      /\ deliveries'[n].receipt = NoReceipt /\ origin' = [origin EXCEPT ![n] = k]
      /\ saved[k] = NoCopy /\ NoCopy.receipt = NoReceipt /\ NoReceipt.outcome = "none"
      /\ deliveries[n].at = "nowhere" /\ posted[n] = 0
      /\ origin \in [Ids -> Keys \cup {NoKey}] /\ saved \in [Keys -> Copies \cup {NoCopy}]
      /\ NoKey \notin Keys /\ 0 \notin Ids /\ f \in [Ids -> Command]
    BY <1>0, NowhereOK, KeysAssumption DEF Appended, NewCommand, Freed, NoCopy, NoReceipt, Ids, Sound,
       TInv, IInv, TypeOK, CommandsTrue, CommandTrue
<1>3. ASSUME NEW j \in Keys PROVE TimesShown(j)' = TimesShown(j)
    <2>1. \A i \in Ids : origin'[i] = j /\ posted'[i] > 0 <=> origin[i] = j /\ posted[i] > 0
        BY <1>2
    <2>. QED
        BY <1>1, <2>1, SameCount
\* The key that gets the new command was new, or its command proved that nothing was sent.
<1>4. Knowing(k) \in {"nothing", "unsent"} /\ Knowing(k)' = "nothing"
    <2>1. ASSUME NEW i \in Ids, GoesBy(i, k) PROVE Knowing(k) = "unsent"
        <3>1. deliveries[i].receipt.outcome = "retryable"
            BY <2>1 DEF GoesBy, Freed
        <3>. QED
            BY <1>1, <2>1, <3>1 DEF Views, Knowing, Unknown
    <2>2. ASSUME \A i \in Ids : ~ GoesBy(i, k) PROVE Knowing(k) = "nothing"
        BY <1>1, <1>2, <2>2 DEF Views, Knowing, Unknown
    <2>3. GoesBy(n, k)'
        BY <1>2 DEF GoesBy
    <2>4. ReceiptOf(k)' = NoReceipt
        BY <1>1, <1>2, <2>3 DEF Views
    <2>5. Knowing(k)' = "nothing"
        BY <1>2, <2>4 DEF Knowing, Unknown
    <2>. QED
        BY <2>1, <2>2, <2>5
\* What is known of the other keys is the same, of that of an evicted command too.
<1>5. ASSUME NEW j \in Keys \ {k} PROVE Knowing(j)' = Knowing(j)
    <2>1. ~ GoesBy(n, j) /\ ~ GoesBy(n, j)'
        BY <1>2, <1>5 DEF GoesBy
    <2>2. \A i \in Ids : /\ f[i].receipt = deliveries[i].receipt
                         /\ f[i].at # "nowhere" /\ f[i].key = j <=> GoesBy(i, j)
        BY <1>2, <1>5 DEF GoesBy, Freed
    <2>3. ASSUME NEW i \in Ids \ {n, v}
          PROVE  (GoesBy(i, j)' <=> GoesBy(i, j)) /\ deliveries'[i].receipt = deliveries[i].receipt
        BY <1>0, <2>2 DEF GoesBy, Appended
    <2>4. v # 0 => /\ v \in Ids \ {n} /\ f[v].at = "queue" /\ saved' = SavedWith(f, v)
                   /\ deliveries'[v] = IF f[v].key \in NoticeKeys THEN [f[v] EXCEPT !.at = "archive"] ELSE Nowhere
        BY <1>0 DEF Appended, Evictable
    <2>5. CASE v # 0 /\ GoesBy(v, j) /\ j \notin NoticeKeys
        <3>1. f[v].key = j /\ j \in ReviewKeys \cup FailureKeys /\ deliveries'[v].at = "nowhere"
            BY <2>2, <2>4, <2>5, NowhereOK DEF Keys
        <3>2. saved'[j].receipt = deliveries[v].receipt
            BY <1>2, <2>2, <2>4, <2>5, <3>1 DEF SavedWith
        <3>3. ASSUME NEW i \in Ids PROVE ~ GoesBy(i, j)'
            <4>1. CASE i \in {n, v}
                BY <2>1, <3>1, <4>1 DEF GoesBy
            <4>2. CASE i \notin {n, v}
                BY <1>2, <2>2, <2>3, <2>4, <2>5, <4>2 DEF Freed, Sound
            <4>. QED
                BY <4>1, <4>2
        <3>4. ReceiptOf(j)' = ReceiptOf(j)
            BY <1>1, <2>4, <2>5, <3>2, <3>3 DEF Views
        <3>. QED
            BY <3>4 DEF Knowing
    <2>6. CASE ~(v # 0 /\ GoesBy(v, j) /\ j \notin NoticeKeys)
        <3>1. saved'[j] = saved[j]
            <4>1. v # 0 /\ f[v].key = j => j \in NoticeKeys
                BY <2>2, <2>4, <2>6
            <4>. QED
                BY <1>2, <2>4, <4>1, KeysAssumption DEF Appended, SavedWith
        <3>2. v # 0 => /\ GoesBy(v, j)' <=> GoesBy(v, j)
                       /\ GoesBy(v, j) => deliveries'[v].receipt = deliveries[v].receipt
            <4>1. CASE v # 0 /\ f[v].key \in NoticeKeys
                <5>1. /\ deliveries'[v].key = f[v].key /\ deliveries'[v].at = "archive"
                      /\ deliveries'[v].receipt = f[v].receipt
                    BY <1>2, <2>4, <4>1 DEF Command
                <5>. QED
                    BY <2>2, <2>4, <4>1, <5>1 DEF GoesBy
            <4>2. CASE v # 0 /\ f[v].key \notin NoticeKeys
                BY <2>2, <2>4, <2>6, <4>2, NowhereOK DEF GoesBy
            <4>. QED
                BY <4>1, <4>2
        <3>. QED
            <4>1. ASSUME NEW i \in Ids
                  PROVE  /\ GoesBy(i, j)' <=> GoesBy(i, j)
                         /\ GoesBy(i, j) => deliveries'[i].receipt = deliveries[i].receipt
                <5>1. CASE i = n
                    BY <2>1, <5>1
                <5>2. CASE i = v
                    BY <1>2, <3>2, <5>2
                <5>3. CASE i \notin {n, v}
                    BY <2>3, <5>3
                <5>. QED
                    BY <5>1, <5>2, <5>3
            <4>. QED
                BY <1>1, <3>1, <4>1, SameKnowing
    <2>. QED
        BY <2>5, <2>6
<1>. QED
    BY <1>3, <1>4, <1>5, OneMove DEF Moves

LEMMA ServiceDelivers ==
    ASSUME TInv, TInv', OneBrowser, ServiceStep PROVE Delivers
<1>1. /\ UNCHANGED posted /\ deliveries \in [Ids -> Command] /\ NoReceipt.outcome = "none"
      /\ \A i \in Ids : CommandOK(deliveries[i])
    BY DEF ServiceStep, pageVars, TInv, IInv, Sound, NoReceipt
<1>2. ASSUME NEW i \in Ids, NEW code \in RecoveryErrors, ReportRecoveryFailure(i, code) PROVE Delivers
    <2>1. ASSUME NEW j \in Ids
          PROVE  /\ deliveries'[j].at = deliveries[j].at /\ deliveries'[j].key = deliveries[j].key
                 /\ deliveries'[j].receipt = deliveries[j].receipt
        BY <1>1, <1>2 DEF ReportRecoveryFailure, Command
    <2>. QED
        BY <1>1, <1>2, <2>1, QuietDelivers DEF ReportRecoveryFailure
<1>3. ASSUME NEW i \in Ids, ExpireQueued(i) PROVE Delivers
    <2>1. /\ deliveries'[i].at = "nowhere" /\ \A j \in Ids \ {i} : deliveries'[j] = deliveries[j]
          /\ UNCHANGED <<saved, origin, nextId>> /\ deliveries[i].at = "queue"
        BY <1>1, <1>3, NowhereOK DEF ExpireQueued
    <2>2. posted[i] = 0 /\ deliveries[i].receipt = NoReceipt
        BY <1>3, QueuedUnposted DEF ExpireQueued
    <2>3. Views /\ Views'
        BY ViewsHold, PTL
    <2>4. ASSUME NEW k \in Keys PROVE TimesShown(k)' = TimesShown(k)
        BY <1>1, <2>1, <2>3, SameCount
    <2>5. ASSUME NEW k \in Keys PROVE Knowing(k)' = Knowing(k)
        <3>1. CASE ~ GoesBy(i, k)
            <4>1. ASSUME NEW j \in Ids
                  PROVE  /\ GoesBy(j, k)' <=> GoesBy(j, k)
                         /\ GoesBy(j, k) => deliveries'[j].receipt = deliveries[j].receipt
                BY <2>1, <3>1 DEF GoesBy
            <4>. QED
                BY <2>1, <2>3, <4>1, SameKnowing
        <3>2. CASE GoesBy(i, k)
            <4>1. saved[k] = NoCopy /\ k # NoKey
                BY <3>2, KeysAssumption DEF GoesBy, TInv, NamesOK, SavedOK, Known
            <4>2. ASSUME NEW j \in Ids PROVE ~ GoesBy(j, k)'
                BY <2>1, <3>2, <4>1 DEF GoesBy, TInv, IInv, Sound
            <4>3. ReceiptOf(k)' = ReceiptOf(k)
                BY <2>1, <2>2, <2>3, <3>2, <4>1, <4>2 DEF Views, NoCopy
            <4>. QED
                BY <4>3 DEF Knowing
        <3>. QED
            BY <3>1, <3>2
    <2>. QED
        BY <2>4, <2>5, NoMove
<1>4. ASSUME NEW i \in Ids, ExpireLeased(i) PROVE Delivers
    <2>. DEFINE o == deliveries[i].lease.owner
                s == [deliveries[i] EXCEPT !.phase = StatusOf("timed_out"), !.lease = NoLease,
                                           !.receipt = [owner |-> o, outcome |-> "timed_out"]]
    <2>1. /\ deliveries[i].at = "queue" /\ deliveries[i].receipt = NoReceipt
          /\ UNCHANGED <<saved, origin>>
        BY <1>1, <1>4 DEF ExpireLeased, CommandOK, Terminal, HasReceipt
    <2>2. deliveries' = [deliveries EXCEPT ![i] = s]
        BY <1>1, <1>4 DEF ExpireLeased, Finish, Command
    <2>3. s.at = "queue" /\ s.key = deliveries[i].key /\ s.receipt.outcome = "timed_out"
        BY <1>1, <2>1 DEF Command
    <2>4. /\ deliveries'[i].at = "queue" /\ deliveries'[i].key = deliveries[i].key
          /\ deliveries'[i].receipt.outcome = "timed_out"
          /\ \A j \in Ids \ {i} : deliveries'[j] = deliveries[j]
        <3>. HIDE DEF s
        <3>. QED
            BY <1>1, <2>2, <2>3
    <2>. QED
        BY <1>1, <2>1, <2>4, ReceiptDelivers
<1>5. ASSUME NEW k \in Keys, NEW c \in Conversations, EnqueueNew(k, c) \/ EnqueueRetry(k, c) PROVE Delivers
    <2>1. \E f : \E v \in Ids \cup {0} : Freed(f, k) /\ Appended(f, v, k, c)
        BY <1>5, EnqueueShape DEF TInv, NamesOK
    <2>. QED
        BY <1>1, <2>1, EnqueueDelivers
<1>. QED
    BY <1>2, <1>3, <1>4, <1>5 DEF ServiceStep, Expire

LEMMA NextDelivers ==
    ASSUME TInv, TInv', OneBrowser, [TransportNext]_transportVars PROVE Delivers
<1>1. ASSUME UNCHANGED <<vars, posted>> PROVE Delivers
    BY <1>1, QuietDelivers DEF vars
<1>2. ASSUME NEW c \in Clients, WorkerStep(c) PROVE Delivers
    <2>1. UNCHANGED posted
        BY <1>2 DEF WorkerStep, BeginClaim, SubmitStarted, ReceiveAck, BeginRecovery, PostAck, PostAckLost,
                    RemoveAck, Flushed, PostClaim, PostClaimLost, RecordClaim, Suspend, pageVars
    <2>2. ASSUME NEW a \in outbox[c], Acknowledge(a.id, a.owner, a.outcome) PROVE Delivers
        <3>1. PICK i \in Ids, o \in Owners, x \in AckOutcomes : i = a.id /\ o = a.owner /\ x = a.outcome
            BY AckFacts
        <3>2. /\ UNCHANGED <<nextId, saved, origin>>
              /\ deliveries[i].at = "queue" /\ deliveries'[i].at = "queue"
              /\ deliveries'[i].key = deliveries[i].key
              /\ deliveries'[i].receipt = [owner |-> o, outcome |-> x]
              /\ deliveries[i].receipt.outcome \in {"none", "timed_out"}
              /\ \A j \in Ids \ {i} : deliveries'[j] = deliveries[j]
            BY <2>2, <3>1, Records
        <3>. QED
            BY <2>1, <3>2, ReceiptDelivers
    <2>3. ASSUME NEW a \in outbox[c], ServiceAck(a) \/ UNCHANGED vars PROVE Delivers
        BY <1>1, <2>1, <2>2, <2>3 DEF ServiceAck
    <2>4. ASSUME NEW o \in Owners, Claim(o) PROVE Delivers
        <3>1. \A i \in Ids : /\ deliveries'[i].at = deliveries[i].at
                             /\ deliveries'[i].key = deliveries[i].key
                             /\ deliveries'[i].receipt = deliveries[i].receipt
            BY <2>4, ClaimFacts DEF Claim, TInv
        <3>. QED
            BY <2>1, <2>4, <3>1, QuietDelivers DEF Claim
    <2>5. CASE PostAck(c) \/ PostAckLost(c)
        BY <2>3, <2>5 DEF PostAck, PostAckLost
    <2>6. CASE PostClaim(c) \/ PostClaimLost(c)
        <3>1. OwnerOf(task[c].doc) \in Owners
            BY <2>6, NothingInFlight, OwnersAre DEF PostClaim, PostClaimLost, TaskOK, Task, TInv
        <3>2. Claim(OwnerOf(task[c].doc)) \/ UNCHANGED vars
            BY <2>6 DEF PostClaim, PostClaimLost
        <3>. QED
            BY <1>1, <2>1, <2>4, <3>1, <3>2
    <2>7. CASE ~(PostAck(c) \/ PostAckLost(c) \/ PostClaim(c) \/ PostClaimLost(c))
        <3>1. UNCHANGED vars
            BY <1>2, <2>7 DEF WorkerStep, BeginClaim, SubmitStarted, ReceiveAck, BeginRecovery,
                              RemoveAck, Flushed, RecordClaim, Suspend
        <3>. QED
            BY <1>1, <2>1, <3>1
    <2>. QED
        BY <2>5, <2>6, <2>7
<1>3. ASSUME NEW d \in Documents, PageStep(d) PROVE Delivers
    <2>1. CASE Click(d)
        BY <2>1, ClickDelivers
    <2>2. CASE ~ Click(d)
        BY <1>1, <1>3, <2>2 DEF PageStep, Open, Poll, InsertPrompt, NotClicked, Navigate, Register, CloseDocument
    <2>. QED
        BY <2>1, <2>2
<1>4. ASSUME TickAll PROVE Delivers
    <2>1. ASSUME NEW i \in Ids
          PROVE  /\ deliveries'[i].at = deliveries[i].at /\ deliveries'[i].key = deliveries[i].key
                 /\ deliveries'[i].receipt = deliveries[i].receipt
        BY <1>4 DEF TickAll, Tick, TInv, IInv, Sound, Command
    <2>. QED
        BY <1>4, <2>1, QuietDelivers DEF TickAll, Tick, pageVars
<1>. QED
    BY <1>1, <1>2, <1>3, <1>4, ServiceDelivers DEF TransportNext, transportVars, pageVars

LEMMA InitDelivers == TransportInit => Promise!DeliveryInit
<1>. SUFFICES ASSUME TransportInit PROVE Promise!DeliveryInit
    OBVIOUS
<1>1. Views
    BY InitTInv, ViewsHold
<1>2. ASSUME NEW k \in Keys PROVE TimesShown(k) = 0
    BY <1>1 DEF Views, TransportInit
<1>3. ASSUME NEW k \in Keys PROVE Knowing(k) = "nothing"
    <2>1. ReceiptOf(k) = NoReceipt
        BY <1>1, NowhereOK DEF Views, GoesBy, TransportInit, Init, NoCopy
    <2>. QED
        BY <2>1 DEF Knowing, NoReceipt, Unknown
<1>. QED
    BY <1>2, <1>3 DEF Promise!DeliveryInit

\* The transport keeps the promise of AtMostOnceDelivery: the message of a logical delivery
\* appears once, only while nothing definite is known of it; what is learnt of it is true
\* and stays known; only a proof that nothing was sent allows a retry.
THEOREM TransportDelivers == ASSUME OneBrowser PROVE TransportSpec => AtMostOnce
<1>1. TInv /\ TInv' /\ [TransportNext]_transportVars => Delivers
    BY NextDelivers
<1>. QED
    BY <1>1, InitDelivers, TransportInvariance, PTL DEF TransportSpec, AtMostOnce, Promise!DeliverySpec, Delivers
==============================================================================

------------------------- MODULE ReviewVerdict_proofs -------------------------
(***************************************************************************)
(* Proofs about reviews collected over the extension, for any reviews,     *)
(* tool calls and pages, any capacity of the queue and any crashes.        *)
(*                                                                         *)
(* The argument rests on one fact, ReceiptsKept: a receipt of a review     *)
(* never changes once the service has recorded it, be it still in the      *)
(* queue or in the archive.  It holds because a review has one watch in    *)
(* the queue (QueueOK), whose lease ends with its acknowledgement.  So the *)
(* answer a collector settles with (AnswerOK) and the page a decision was  *)
(* proved by (VerdictOK) stay true, whatever comes later.                  *)
(***************************************************************************)
EXTENDS ReviewVerdict, TLAPS, SequenceTheorems, WellFoundedInduction

\* A search that finds something finds a member.
LEMMA SmallestIsMember ==
    ASSUME NEW S \in SUBSET Nat, S # {}
    PROVE  Min(S) \in S
<1>. DEFINE R == OpToRel(<, Nat)
<1>1. PICK m \in S : \A e \in S : ~ (<<e, m>> \in R)
    <2>. HIDE DEF R
    <2>1. IsWellFoundedOn(R, Nat)
        BY NatLessThanWellFounded DEF R
    <2>. QED
        BY <2>1, WFMin
<1>2. \A e \in S : m <= e
    <2>. SUFFICES ASSUME NEW e \in S PROVE m <= e
        OBVIOUS
    <2>1. m \in Nat /\ e \in Nat
        OBVIOUS
    <2>2. ~ (e < m)
        BY <1>1, <2>1 DEF OpToRel
    <2>. QED
        BY <2>1, <2>2
<1>. QED
    BY <1>2 DEF Min

LEMMA VictimIsMember ==
    ASSUME NEW n \in Nat, Len(queue) = n, Victim > 0
    PROVE  Victim \in 1 .. n /\ Evictable(queue[Victim])
<1>. DEFINE I == {i \in 1 .. n : Evictable(queue[i])}
<1>1. Victim = IF I # {} THEN Min(I) ELSE 0
  BY DEF Victim, SelectInSeq
<1>2. I \in SUBSET Nat /\ I # {}
  BY <1>1
<1> QED BY <1>1, <1>2, SmallestIsMember

LEMMA GrantedIsMember ==
    ASSUME NEW p, NEW n \in Nat, Len(queue) = n, DOMAIN queue = 1 .. n, Granted(p) # 0
    PROVE  Granted(p) \in 1 .. n
<1>1. CASE Own(p) > 0
  <2>. DEFINE I == {i \in 1 .. n : queue[i].phase = "leased" /\ queue[i].left > 0 /\ queue[i].page = p}
  <2>1. Own(p) = IF I # {} THEN Min(I) ELSE 0
    BY DEF Own, SelectInSeq
  <2>2. I \in SUBSET Nat /\ I # {}
    BY <1>1, <2>1
  <2> QED BY <1>1, <2>1, <2>2, SmallestIsMember DEF Granted
<1>2. CASE ~ (Own(p) > 0)
  <2>. DEFINE I == {i \in 1 .. n : Claimable(Requeue(p)[i])}
  <2>0. Len(Requeue(p)) = n
    BY DEF Requeue
  <2>1. Granted(p) = IF I # {} THEN Min(I) ELSE 0
    BY <1>2, <2>0 DEF Granted, SelectInSeq
  <2>2. I \in SUBSET Nat /\ I # {}
    BY <1>2, <2>1
  <2> QED BY <1>2, <2>1, <2>2, SmallestIsMember
<1> QED BY <1>1, <1>2

-----------------------------------------------------------------------------
(* The invariant *)

Watches == [review: Reviews, phase: {"queued", "leased"} \cup Terminal, page: Pages \cup {NoPage},
            left: Nat, receipt: Receipts \cup {NoReceipt}, barred: BOOLEAN]
Results == [status: {"none", "TIMEOUT", "FAILED", "COMPLETED"}, page: Pages \cup {NoPage}]
Collectors == [pc: {"idle", "enqueue", "await", "waiting", "settle", "close"},
               receipt: Receipts \cup {NoReceipt, FailedReceipt}]

\* A review has one watch, and a receipt that was archived for it while its
\* watch is still there is the one the watch has.
QueueOK ==
    /\ queue \in Seq(Watches) /\ archive \in [Reviews -> Receipts \cup {NoReceipt}]
    /\ \A i, j \in DOMAIN queue : queue[i].review = queue[j].review => i = j
    /\ \A i \in DOMAIN queue : archive[queue[i].review] \in {NoReceipt, queue[i].receipt}

LoopOK ==
    /\ asked \subseteq Reviews
    /\ result \in [Reviews -> Results]
    /\ request \in [Reviews -> {"requested", "reviewing", "completed"}]
    /\ collector \in [Reviews -> Collectors]
    /\ stage \in [Reviews -> {"none", "completion", "verdict", "ended"}]

\* What the worker claims, records and acknowledges names reviews and pages.
WorkerOK ==
    /\ inFlight \subseteq [review: Reviews, page: Pages, left: Nat]
    /\ outbox \in Seq([review: Reviews, page: Pages, status: Terminal])
    /\ task \in [step: {"idle", "flush", "remove", "claim", "record"},
                 goal: {"none", "claim", "recover", "ack"}, page: Pages \cup {NoPage},
                 review: Reviews \cup {"none"}, left: Nat]
    /\ task.goal = "claim" => task.page \in Pages
    /\ task.step \in {"claim", "record"} => task.goal = "claim"
    /\ task.step = "record" => task.review \in Reviews
    /\ task.step = "remove" => outbox # <<>>

PagesOK ==
    /\ page \in [Pages -> [pc: {"idle", "gone", "claiming", "scanning", "acking"},
                           review: Reviews \cup {"none"}, status: Terminal \cup {"none"}]]
    /\ \A p \in Pages :
        /\ page[p].pc \in {"scanning", "acking"} => page[p].review \in Reviews
        /\ page[p].pc = "acking" => page[p].status \in Terminal
    /\ chat \in [Reviews -> {"thinking", "answered", "twofold", "too_long"}]

\* The collector holds no completed receipt but the one that is recorded.
AnswerOK(r) ==
    /\ collector[r].receipt.status = "completed" => ReceiptOf(r) = collector[r].receipt
    /\ result[r].status = "COMPLETED" =>
            ReceiptOf(r) = [page |-> result[r].page, status |-> "completed"]
    /\ request[r] = "completed" => result[r].status = "COMPLETED"

VerdictTypes ==
    /\ calls \subseteq Calls
    /\ record \in [Reviews -> [calls: SUBSET Calls, evidence: Calls \cup {NoCall},
                               proof: Pages \cup {NoPage}, confirmed: BOOLEAN]]
    /\ op \in [Reviews -> [kind: {"none", "accept", "evidence"},
                           call: Calls \cup {NoCall}, page: Pages \cup {NoPage}]]
    /\ waiter \in [Reviews -> {"none", "registered", "unconfirmed", "woken", "asleep",
                               "signalled", "gone", "timeout"}]
    /\ age \in [Reviews -> 0 .. ConfirmTicks]
    /\ decision \in [Reviews -> Calls \cup {NoCall}]
    /\ evOutbox \subseteq [call: Calls, page: Pages]

\* A page proves for good, not only while it has a lease.
Proof(r, p) == p = DeliveryPage \/ ReceiptOf(r) = [page |-> p, status |-> "completed"]

\* The operation that runs on a record has checked what it is about to save, and
\* nothing else has been saved since; the verdict the loop read is the recorded one.
VerdictOK(r) ==
    /\ op[r].kind # "none" => op[r].call \in Calls
    /\ op[r].kind = "evidence" =>
            op[r].page \in Pages /\ record[r].evidence = NoCall /\ Proof(r, op[r].page)
    /\ record[r].evidence # NoCall => Proof(r, record[r].proof)
    /\ record[r].confirmed <=> record[r].evidence \in record[r].calls
    /\ decision[r] # NoCall => record[r].confirmed /\ record[r].evidence = decision[r]
    /\ waiter[r] \in {"unconfirmed", "asleep"} => ~record[r].confirmed

CompletionInv ==
    QueueOK /\ LoopOK /\ WorkerOK /\ PagesOK /\ \A r \in Reviews : AnswerOK(r)
VerdictInv == CompletionInv /\ VerdictTypes /\ \A r \in Reviews : VerdictOK(r)

-----------------------------------------------------------------------------
(* What the service says of a review, and how its steps change that *)

\* The watch of a review is the one entry that names it.
Receiving ==
    /\ \A i \in DOMAIN queue :
        /\ Queued(queue[i].review) /\ Entry(queue[i].review) = queue[i]
        /\ ReceiptOf(queue[i].review) = queue[i].receipt
    /\ \A r : ~Queued(r) => ReceiptOf(r) = archive[r]
    /\ \A r : Queued(r) => \E i \in DOMAIN queue : queue[i].review = r

LEMMA WatchIsUnique == QueueOK => Receiving
<1> SUFFICES ASSUME QueueOK PROVE Receiving
  OBVIOUS
<1>1. ASSUME NEW i \in DOMAIN queue
      PROVE  /\ Queued(queue[i].review) /\ Entry(queue[i].review) = queue[i]
             /\ ReceiptOf(queue[i].review) = queue[i].receipt
  <2>1. At(queue[i].review) = {i}
    BY DEF At, QueueOK
  <2>2. (CHOOSE j \in At(queue[i].review) : TRUE) = i
    BY <2>1
  <2> QED BY <2>1, <2>2 DEF Queued, Entry, ReceiptOf
<1> QED BY <1>1 DEF Receiving, Queued, ReceiptOf, At

\* What a step may do to the receipts.
SameReceipts == \A r \in Reviews : ReceiptOf(r)' = ReceiptOf(r)
ReceiptsKept == \A r \in Reviews : ReceiptOf(r) # NoReceipt => ReceiptOf(r)' = ReceiptOf(r)

\* Leases come and go, which no receipt depends on.
LEMMA LeasesOnly ==
    ASSUME QueueOK, queue' \in Seq(Watches), archive' = archive, DOMAIN queue' = DOMAIN queue,
           \A i \in DOMAIN queue : queue'[i].review = queue[i].review
                                   /\ queue'[i].receipt = queue[i].receipt
    PROVE  QueueOK' /\ SameReceipts
<1>1. QueueOK'
  BY DEF QueueOK
<1>2. Receiving /\ Receiving'
  <2>1. (QueueOK => Receiving)'
    BY WatchIsUnique, PTL
  <2> QED BY <1>1, <2>1, WatchIsUnique
<1>3. ASSUME NEW r \in Reviews PROVE ReceiptOf(r)' = ReceiptOf(r)
  <2>1. CASE Queued(r)
    BY <1>2, <2>1 DEF Receiving
  <2>2. CASE ~Queued(r)
    <3>1. ~Queued(r)'
      BY <2>2 DEF Queued, At
    <3> QED BY <1>2, <2>2, <3>1 DEF Receiving
  <2> QED BY <2>1, <2>2
<1> QED BY <1>1, <1>3 DEF SameReceipts

\* A new receipt goes to a watch that had none.
LEMMA AckRecords ==
    ASSUME QueueOK, NEW a, a \in [review: Reviews, page: Pages, status: Terminal],
           RecordAck(a), archive' = archive
    PROVE  /\ QueueOK' /\ ReceiptsKept
           /\ AckIsNew(a) => ReceiptOf(a.review)' = AckReceipt(a)
<1>0. Receiving
  BY WatchIsUnique
<1>1. CASE ~AckIsNew(a)
  <2>1. QueueOK' /\ SameReceipts
    BY <1>1, LeasesOnly DEF RecordAck, QueueOK
  <2> QED BY <1>1, <2>1 DEF SameReceipts, ReceiptsKept
<1>2. CASE AckIsNew(a)
  <2>1. PICK i \in DOMAIN queue : queue[i].review = a.review
    BY <1>0, <1>2 DEF AckIsNew, LiveOwner, Receiving
  <2>2. At(a.review) = {i} /\ queue[i].receipt = NoReceipt
    BY <1>0, <1>2, <2>1 DEF At, QueueOK, AckIsNew, Receiving
  <2>3. AckReceipt(a) \in Receipts
    BY DEF AckReceipt, Receipts
  <2>. DEFINE new == [queue[i] EXCEPT !.phase = a.status, !.page = NoPage, !.left = 0,
                                      !.receipt = AckReceipt(a)]
  <2>4. queue' = [j \in DOMAIN queue |-> IF j # i THEN queue[j] ELSE new]
    BY <1>2, <2>2 DEF RecordAck
  <2>5. new \in Watches /\ new.review = a.review /\ new.receipt = AckReceipt(a)
    <3>1. queue[i] \in Watches
      BY LenProperties DEF QueueOK
    <3>2. a.status \in Terminal /\ 0 \in Nat
      OBVIOUS
    <3> QED BY <2>1, <2>3, <3>1, <3>2 DEF Watches
  <2>. HIDE DEF new
  <2>6. queue' \in Seq(Watches) /\ DOMAIN queue' = DOMAIN queue
    BY <2>4, <2>5, LenProperties, SeqDef DEF QueueOK
  <2>7. QueueOK'
    BY <2>1, <2>2, <2>4, <2>5, <2>6 DEF QueueOK
  <2>8. Receiving'
    <3>1. (QueueOK => Receiving)'
      BY WatchIsUnique, PTL
    <3> QED BY <2>7, <3>1
  <2>9. ReceiptOf(a.review)' = AckReceipt(a)
    BY <2>1, <2>4, <2>5, <2>6, <2>8 DEF Receiving
  <2>10. ASSUME NEW r \in Reviews, ReceiptOf(r) # NoReceipt PROVE ReceiptOf(r)' = ReceiptOf(r)
    <3>1. r # a.review
      BY <1>2, <2>10 DEF AckIsNew
    <3>2. CASE Queued(r)
      <4>1. PICK j \in DOMAIN queue : queue[j].review = r
        BY <1>0, <3>2 DEF Receiving
      <4>2. queue'[j] = queue[j]
        BY <2>1, <2>4, <3>1, <4>1
      <4>3. ReceiptOf(r) = queue[j].receipt
        BY <1>0, <4>1 DEF Receiving
      <4>4. ReceiptOf(r)' = queue'[j].receipt
        BY <2>6, <2>8, <4>1, <4>2 DEF Receiving
      <4> QED BY <4>2, <4>3, <4>4
    <3>3. CASE ~Queued(r)
      <4>1. ~Queued(r)'
        BY <2>1, <2>4, <2>5, <2>6, <3>1, <3>3 DEF Queued, At
      <4> QED BY <1>0, <2>8, <3>3, <4>1 DEF Receiving
    <3> QED BY <3>2, <3>3
  <2> QED BY <2>7, <2>9, <2>10 DEF ReceiptsKept
<1> QED BY <1>1, <1>2

\* A review that the service does not know yet gets a watch without a receipt.
LEMMA AppendKeeps ==
    ASSUME QueueOK, NEW r \in Reviews, ~Known(r), queue' = Append(queue, Watch(r)),
           archive' = archive
    PROVE  QueueOK' /\ SameReceipts
<1>0. Receiving
  BY WatchIsUnique
<1>1. Watch(r) \in Watches /\ Watch(r).review = r /\ Watch(r).receipt = NoReceipt
  BY DEF Watch, Watches
<1>2. /\ queue' \in Seq(Watches) /\ Len(queue) \in Nat /\ DOMAIN queue = 1 .. Len(queue)
      /\ DOMAIN queue' = 1 .. Len(queue) + 1
      /\ \A i \in DOMAIN queue : queue'[i] = queue[i]
      /\ queue'[Len(queue) + 1] = Watch(r)
  BY <1>1, AppendProperties, LenProperties DEF QueueOK
<1>3. \A i \in DOMAIN queue : queue[i].review # r
  BY <1>0 DEF Known, Receiving
<1>4. archive[r] = NoReceipt
  BY DEF Known
<1>5. QueueOK'
  BY <1>1, <1>2, <1>3, <1>4 DEF QueueOK
<1>6. Receiving'
  <2>1. (QueueOK => Receiving)'
    BY WatchIsUnique, PTL
  <2> QED BY <1>5, <2>1
<1>7. ASSUME NEW s \in Reviews PROVE ReceiptOf(s)' = ReceiptOf(s)
  <2>1. CASE s = r
    <3>1. ReceiptOf(s) = NoReceipt
      BY <1>0, <1>4, <2>1 DEF Known, Receiving
    <3>2. ReceiptOf(s)' = NoReceipt
      BY <1>1, <1>2, <1>6, <2>1 DEF Receiving
    <3> QED BY <3>1, <3>2
  <2>2. CASE s # r /\ Queued(s)
    <3>1. PICK i \in DOMAIN queue : queue[i].review = s
      BY <1>0, <2>2 DEF Receiving
    <3>2. i \in DOMAIN queue' /\ queue'[i] = queue[i]
      BY <1>2
    <3>3. ReceiptOf(s) = queue[i].receipt
      BY <1>0, <3>1 DEF Receiving
    <3>4. ReceiptOf(s)' = queue'[i].receipt
      BY <1>6, <3>1, <3>2 DEF Receiving
    <3> QED BY <3>2, <3>3, <3>4
  <2>3. CASE s # r /\ ~Queued(s)
    <3>1. ~Queued(s)'
      BY <1>1, <1>2, <2>3 DEF Queued, At
    <3> QED BY <1>0, <1>6, <2>3, <3>1 DEF Receiving
  <2> QED BY <2>1, <2>2, <2>3
<1> QED BY <1>5, <1>7 DEF SameReceipts

\* A receipt that is archived while its watch is still there is the one of the watch.
LEMMA ArchiveKeeps ==
    ASSUME QueueOK, NEW v \in DOMAIN queue, queue' = queue, archive' = Archived(queue[v])
    PROVE  QueueOK' /\ SameReceipts
<1>0. Receiving
  BY WatchIsUnique
<1>1. queue[v] \in Watches
  BY LenProperties DEF QueueOK
<1>2. /\ archive' \in [Reviews -> Receipts \cup {NoReceipt}]
      /\ archive'[queue[v].review] = queue[v].receipt
      /\ \A r : r # queue[v].review => archive'[r] = archive[r]
  BY <1>1 DEF Archived, QueueOK, Watches
<1>3. QueueOK'
  BY <1>2 DEF QueueOK
<1>4. Receiving'
  <2>1. (QueueOK => Receiving)'
    BY WatchIsUnique, PTL
  <2> QED BY <1>3, <2>1
<1>5. ASSUME NEW r \in Reviews PROVE ReceiptOf(r)' = ReceiptOf(r)
  <2>1. CASE Queued(r)
    BY <1>0, <1>4, <2>1 DEF Receiving
  <2>2. CASE ~Queued(r)
    <3>1. ~Queued(r)' /\ r # queue[v].review
      BY <1>0, <2>2 DEF Queued, At, Receiving
    <3> QED BY <1>0, <1>2, <1>4, <2>2, <3>1 DEF Receiving
  <2> QED BY <2>1, <2>2
<1> QED BY <1>3, <1>5 DEF SameReceipts

\* What is left of the queue when one watch leaves it.
LeftWithout(v, rest, n) ==
    /\ rest \in Seq(Watches) /\ n \in Nat /\ Len(rest) = n - 1
    /\ \A i \in 1 .. n - 1 : \E j \in DOMAIN queue :
            j # v /\ rest[i] = queue[j] /\ j = IF i < v THEN i ELSE i + 1
    /\ \A j \in DOMAIN queue : j # v => \E i \in 1 .. n - 1 : rest[i] = queue[j]

LEMMA RemoveFacts ==
    ASSUME QueueOK, NEW v \in DOMAIN queue, NEW rest, rest = RemoveAt(queue, v)
    PROVE  LeftWithout(v, rest, Len(queue))
<1>. DEFINE n == Len(queue)
<1>1. n \in Nat /\ DOMAIN queue = 1 .. n /\ v \in 1 .. n /\ \A i \in 1 .. n : queue[i] \in Watches
  BY LenProperties DEF QueueOK
<1>. DEFINE before == SubSeq(queue, 1, v - 1)
            after == SubSeq(queue, v + 1, n)
<1>2. /\ before \in Seq(Watches) /\ Len(before) = v - 1
      /\ \A i \in 1 .. v - 1 : before[i] = queue[i]
  <2>1. 1 \in Int /\ v - 1 \in Int /\ (v - 1) - 1 + 1 = v - 1 /\ (1 > v - 1 => v - 1 = 0)
    BY <1>1
  <2>2. \A i \in 1 .. v - 1 : queue[i] \in Watches /\ 1 + i - 1 = i
    BY <1>1
  <2> QED BY <2>1, <2>2, SubSeqProperties
<1>3. /\ after \in Seq(Watches) /\ Len(after) = n - v
      /\ \A i \in 1 .. n - v : after[i] = queue[v + i]
  <2>1. v + 1 \in Int /\ n \in Int /\ n - (v + 1) + 1 = n - v /\ (v + 1 > n => n - v = 0)
    BY <1>1
  <2>2. \A i \in v + 1 .. n : queue[i] \in Watches
    BY <1>1
  <2>3. \A i \in 1 .. n - v : (v + 1) + i - 1 = v + i
    BY <1>1
  <2> QED BY <2>1, <2>2, <2>3, SubSeqProperties
<1>. HIDE DEF before, after
<1>4. /\ rest \in Seq(Watches) /\ Len(rest) = n - 1
      /\ \A i \in 1 .. v - 1 : rest[i] = queue[i]
      /\ \A i \in v .. n - 1 : rest[i] = queue[i + 1]
  <2>1. rest = before \o after
    BY DEF RemoveAt, before, after
  <2>2. /\ rest \in Seq(Watches) /\ Len(rest) = (v - 1) + (n - v)
        /\ \A i \in 1 .. (v - 1) + (n - v) : rest[i] =
                IF i <= v - 1 THEN before[i] ELSE after[i - (v - 1)]
    BY <1>2, <1>3, <2>1, ConcatProperties
  <2>3. (v - 1) + (n - v) = n - 1
    BY <1>1
  <2>5. \A i \in 1 .. v - 1 : rest[i] = queue[i]
    <3> SUFFICES ASSUME NEW i \in 1 .. v - 1 PROVE rest[i] = queue[i]
      OBVIOUS
    <3>1. i \in 1 .. n - 1 /\ i <= v - 1
      BY <1>1
    <3> QED BY <1>2, <2>2, <2>3, <3>1
  <2>6. ASSUME NEW i \in v .. n - 1 PROVE rest[i] = queue[i + 1]
    <3>1. /\ i \in 1 .. n - 1 /\ ~(i <= v - 1) /\ i - (v - 1) \in 1 .. n - v
          /\ v + (i - (v - 1)) = i + 1
      BY <1>1
    <3>2. rest[i] = after[i - (v - 1)]
      BY <2>2, <2>3, <3>1
    <3> QED BY <1>3, <3>1, <3>2
  <2> QED BY <2>2, <2>3, <2>5, <2>6
<1>. HIDE DEF n
<1>5. \A i \in 1 .. n - 1 : \E j \in DOMAIN queue : j # v /\ rest[i] = queue[j]
                                /\ j = IF i < v THEN i ELSE i + 1
  BY <1>1, <1>4
<1>6. \A j \in DOMAIN queue : j # v => \E i \in 1 .. n - 1 : rest[i] = queue[j]
  <2> SUFFICES ASSUME NEW j \in 1 .. n, j # v PROVE \E i \in 1 .. n - 1 : rest[i] = queue[j]
    BY <1>1, <1>4
  <2>1. CASE j < v
    BY <1>1, <1>4, <2>1
  <2>2. CASE j > v
    <3>1. j - 1 \in v .. n - 1 /\ (j - 1) + 1 = j /\ j - 1 \in 1 .. n - 1
      BY <1>1, <2>2
    <3> QED BY <1>4, <3>1
  <2> QED BY <1>1, <2>1, <2>2
<1>7. LeftWithout(v, rest, n)
  BY <1>1, <1>4, <1>5, <1>6 DEF LeftWithout
<1> QED BY <1>7 DEF n

\* A watch that leaves the queue for a new one, when its receipt is archived,
\* leaves no trace of it.
LEMMA EvictKeeps ==
    ASSUME QueueOK, NEW v \in DOMAIN queue, NEW r \in Reviews, ~Known(r),
           queue' = Append(RemoveAt(queue, v), Watch(r)), archive' = Archived(queue[v])
    PROVE  QueueOK' /\ SameReceipts
<1>0. Receiving
  BY WatchIsUnique
<1>1. PICK n : n = Len(queue)
  OBVIOUS
<1>2. PICK w : w = queue[v]
  OBVIOUS
<1>3. PICK rest : rest = RemoveAt(queue, v)
  OBVIOUS
<1>4. /\ rest \in Seq(Watches) /\ n \in Nat /\ Len(rest) = n - 1
      /\ \A i \in 1 .. n - 1 : \E j \in DOMAIN queue :
            j # v /\ rest[i] = queue[j] /\ j = IF i < v THEN i ELSE i + 1
      /\ \A j \in DOMAIN queue : j # v => \E i \in 1 .. n - 1 : rest[i] = queue[j]
  <2>1. LeftWithout(v, rest, Len(queue))
    BY <1>3, RemoveFacts
  <2>2. LeftWithout(v, rest, n)
    BY <1>1, <2>1
  <2> QED BY <2>2 DEF LeftWithout
<1>5. DOMAIN queue = 1 .. n /\ v \in 1 .. n /\ w \in Watches /\ \A i \in 1 .. n : queue[i] \in Watches
  BY <1>1, <1>2, LenProperties DEF QueueOK
<1>6. Watch(r) \in Watches /\ Watch(r).review = r /\ Watch(r).receipt = NoReceipt
  BY DEF Watch, Watches
<1>7. /\ queue' \in Seq(Watches) /\ DOMAIN queue' = 1 .. n
      /\ \A i \in 1 .. n - 1 : queue'[i] = rest[i]
      /\ queue'[n] = Watch(r)
  <2>1. /\ queue' \in Seq(Watches) /\ Len(queue') = (n - 1) + 1
        /\ \A i \in 1 .. n - 1 : queue'[i] = rest[i]
        /\ queue'[(n - 1) + 1] = Watch(r)
    BY <1>3, <1>4, <1>6, AppendProperties
  <2>2. (n - 1) + 1 = n
    BY <1>4
  <2> QED BY <2>1, <2>2, LenProperties
<1>8. /\ archive' \in [Reviews -> Receipts \cup {NoReceipt}]
      /\ archive'[w.review] = w.receipt
      /\ \A s : s # w.review => archive'[s] = archive[s]
  BY <1>2, <1>5 DEF Archived, QueueOK, Watches
<1>9. /\ \A i \in DOMAIN queue : queue[i].review # r
      /\ w.review # r /\ archive[r] = NoReceipt
  BY <1>0, <1>2 DEF Known, Receiving
<1>10. ASSUME NEW i \in 1 .. n - 1
       PROVE  /\ queue'[i].review # w.review /\ queue'[i].review # r
              /\ \E j \in DOMAIN queue : queue'[i] = queue[j]
  <2>1. PICK j \in DOMAIN queue : j # v /\ rest[i] = queue[j]
    BY <1>4
  <2>2. queue'[i] = queue[j] /\ queue[j].review # queue[v].review
    BY <1>7, <2>1 DEF QueueOK
  <2> QED BY <1>2, <1>9, <2>2
<1>11. QueueOK'
  <2>1. ASSUME NEW i \in 1 .. n, NEW j \in 1 .. n, queue'[i].review = queue'[j].review PROVE i = j
    <3>1. CASE i = n \/ j = n
      BY <1>5, <1>6, <1>7, <1>10, <2>1, <3>1
    <3>2. CASE i # n /\ j # n
      <4>1. i \in 1 .. n - 1 /\ j \in 1 .. n - 1
        BY <1>4, <3>2
      <4>2. PICK k \in DOMAIN queue : rest[i] = queue[k] /\ k = IF i < v THEN i ELSE i + 1
        BY <1>4, <4>1
      <4>3. PICK l \in DOMAIN queue : rest[j] = queue[l] /\ l = IF j < v THEN j ELSE j + 1
        BY <1>4, <4>1
      <4>4. k = l
        <5>1. queue[k].review = queue[l].review
          BY <1>7, <2>1, <4>1, <4>2, <4>3
        <5> QED BY <5>1 DEF QueueOK
      <4> QED BY <1>5, <4>1, <4>2, <4>3, <4>4
    <3> QED BY <3>1, <3>2
  <2>2. ASSUME NEW i \in 1 .. n PROVE archive'[queue'[i].review] \in {NoReceipt, queue'[i].receipt}
    <3>1. CASE i = n
      BY <1>6, <1>7, <1>8, <1>9, <3>1
    <3>2. CASE i # n
      <4>1. i \in 1 .. n - 1
        BY <1>4, <3>2
      <4>2. PICK k \in DOMAIN queue : queue'[i] = queue[k]
        BY <1>10, <4>1
      <4>3. archive'[queue'[i].review] = archive[queue'[i].review]
        BY <1>8, <1>10, <4>1
      <4>4. archive[queue[k].review] \in {NoReceipt, queue[k].receipt}
        BY DEF QueueOK
      <4> QED BY <4>2, <4>3, <4>4
    <3> QED BY <3>1, <3>2
  <2> QED BY <1>7, <1>8, <2>1, <2>2 DEF QueueOK
<1>12. Receiving'
  <2>1. (QueueOK => Receiving)'
    BY WatchIsUnique, PTL
  <2> QED BY <1>11, <2>1
<1>13. ASSUME NEW s \in Reviews PROVE ReceiptOf(s)' = ReceiptOf(s)
  <2>1. CASE s = w.review
    <3>0. ASSUME NEW i \in DOMAIN queue' PROVE queue'[i].review # s
      <4>1. CASE i = n
        BY <1>6, <1>7, <1>9, <2>1, <4>1
      <4>2. CASE i # n
        <5>1. i \in 1 .. n - 1
          BY <1>4, <1>7, <4>2
        <5> QED BY <1>10, <2>1, <5>1
      <4> QED BY <4>1, <4>2
    <3>1. ~Queued(s)'
      BY <3>0 DEF Queued, At
    <3>2. ReceiptOf(s)' = w.receipt
      BY <1>8, <1>12, <2>1, <3>1 DEF Receiving
    <3> QED BY <1>0, <1>2, <2>1, <3>2 DEF Receiving
  <2>2. CASE s # w.review /\ Queued(s)
    <3>1. PICK j \in DOMAIN queue : queue[j].review = s
      BY <1>0, <2>2 DEF Receiving
    <3>2. PICK i \in 1 .. n - 1 : rest[i] = queue[j]
      BY <1>2, <1>4, <2>2, <3>1
    <3>3. i \in DOMAIN queue' /\ queue'[i] = queue[j]
      BY <1>4, <1>7, <3>2
    <3>4. ReceiptOf(s) = queue[j].receipt
      BY <1>0, <3>1 DEF Receiving
    <3>5. ReceiptOf(s)' = queue'[i].receipt
      BY <1>12, <3>1, <3>3 DEF Receiving
    <3> QED BY <3>3, <3>4, <3>5
  <2>3. CASE s = r
    <3>0. n \in DOMAIN queue' /\ queue'[n].review = s /\ queue'[n].receipt = NoReceipt
      BY <1>4, <1>5, <1>6, <1>7, <2>3
    <3>1. ReceiptOf(s)' = NoReceipt
      BY <1>12, <3>0 DEF Receiving
    <3>2. ReceiptOf(s) = NoReceipt
      BY <1>0, <1>9, <2>3 DEF Known, Receiving
    <3> QED BY <3>1, <3>2
  <2>4. CASE s # r /\ s # w.review /\ ~Queued(s)
    <3>1. ~Queued(s)'
      <4> SUFFICES ASSUME NEW i \in 1 .. n, queue'[i].review = s PROVE FALSE
        BY <1>7 DEF Queued, At
      <4>1. i # n
        BY <1>6, <1>7, <2>4
      <4>2. PICK k \in DOMAIN queue : queue'[i] = queue[k]
        <5>1. i \in 1 .. n - 1
          BY <1>4, <4>1
        <5> QED BY <1>10, <5>1
      <4> QED BY <1>0, <2>4, <4>2 DEF Receiving
    <3>2. ReceiptOf(s)' = archive'[s]
      BY <1>12, <3>1 DEF Receiving
    <3> QED BY <1>0, <1>8, <2>4, <3>2 DEF Receiving
  <2> QED BY <2>1, <2>2, <2>3, <2>4
<1> QED BY <1>11, <1>13 DEF SameReceipts

\* A claim leases a watch, and puts expired ones back.
LEMMA ClaimsLease ==
    ASSUME QueueOK, NEW p \in Pages
    PROVE  /\ ClaimQueue(p) \in Seq(Watches) /\ DOMAIN ClaimQueue(p) = DOMAIN queue
           /\ \A i \in DOMAIN queue : ClaimQueue(p)[i].review = queue[i].review
                                      /\ ClaimQueue(p)[i].receipt = queue[i].receipt
<1>1. PICK n \in Nat : n = Len(queue) /\ DOMAIN queue = 1 .. n /\ \A i \in 1 .. n : queue[i] \in Watches
  BY LenProperties DEF QueueOK
<1>2. PICK q : q = Requeue(p)
  OBVIOUS
<1>3. /\ q \in [1 .. n -> Watches]
      /\ \A i \in 1 .. n : q[i].review = queue[i].review /\ q[i].receipt = queue[i].receipt
  <2>1. ASSUME NEW i \in 1 .. n
        PROVE  Requeued(queue[i]) \in Watches /\ Requeued(queue[i]).review = queue[i].review
               /\ Requeued(queue[i]).receipt = queue[i].receipt
    BY <1>1 DEF Requeued, Watches
  <2>2. PICK own : own = Own(p)
    OBVIOUS
  <2>3. q = [i \in 1 .. n |-> IF Expired(queue[i]) /\ (own = 0 \/ i < own)
                              THEN Requeued(queue[i]) ELSE queue[i]]
    BY <1>1, <1>2, <2>2 DEF Requeue
  <2> QED BY <1>1, <2>1, <2>3
<1>4. q \in Seq(Watches) /\ DOMAIN q = 1 .. n
  BY <1>3, SeqDef
<1>5. CASE ClaimQueue(p) = q
  BY <1>1, <1>3, <1>4, <1>5
<1>6. CASE ClaimQueue(p) # q
  <2>1. PICK g : g = Granted(p)
    OBVIOUS
  <2>2. g # 0 /\ ClaimQueue(p) = [q EXCEPT ![g] =
            [@ EXCEPT !.phase = "leased", !.page = p, !.left = LeaseTicks]]
    BY <1>2, <1>6, <2>1 DEF ClaimQueue
  <2>3. g \in 1 .. n
    BY <1>1, <2>1, <2>2, GrantedIsMember
  <2>4. PICK w : w = [q[g] EXCEPT !.phase = "leased", !.page = p, !.left = LeaseTicks]
    OBVIOUS
  <2>5. w \in Watches /\ w.review = q[g].review /\ w.receipt = q[g].receipt
    BY <1>3, <2>3, <2>4, CompletionAssumption DEF Watches
  <2>6. ClaimQueue(p) = [q EXCEPT ![g] = w]
    BY <2>2, <2>4
  <2>7. /\ ClaimQueue(p) \in [1 .. n -> Watches]
        /\ \A i \in 1 .. n : ClaimQueue(p)[i] = IF i = g THEN w ELSE q[i]
    BY <1>3, <2>3, <2>5, <2>6
  <2> QED BY <1>1, <1>3, <2>3, <2>5, <2>7, SeqDef
<1> QED BY <1>5, <1>6

LEMMA QuietService ==
    ASSUME QueueOK, UNCHANGED serviceVars
    PROVE  QueueOK' /\ SameReceipts
BY LeasesOnly DEF serviceVars, QueueOK

LEMMA AnswersKept ==
    ASSUME CompletionInv, ReceiptsKept, UNCHANGED <<result, request, collector>>
    PROVE  \A r \in Reviews : AnswerOK(r)'
<1> SUFFICES ASSUME NEW r \in Reviews PROVE AnswerOK(r)'
  OBVIOUS
<1>1. AnswerOK(r) /\ (ReceiptOf(r) # NoReceipt => ReceiptOf(r)' = ReceiptOf(r))
  BY DEF CompletionInv, ReceiptsKept
<1>2. \A x : x.status = "completed" => x # NoReceipt
  BY DEF NoReceipt
<1> QED BY <1>1, <1>2 DEF AnswerOK

-----------------------------------------------------------------------------
(* Every step of the completion keeps the invariant *)

LEMMA CollectorQueue ==
    ASSUME CompletionInv, NEW r \in Reviews, CollectorStep(r)
    PROVE  QueueOK' /\ SameReceipts
<1>0. QueueOK
  BY DEF CompletionInv
<1>1. CASE UNCHANGED serviceVars
  BY <1>0, <1>1, QuietService
<1>2. PICK n \in Nat : n = Len(queue) /\ DOMAIN queue = 1 .. n
  BY <1>0, LenProperties DEF QueueOK
<1>3. CASE Enqueue(r)
  <2>1. CASE ~Known(r) /\ queue' = Append(queue, Watch(r)) /\ archive' = archive
    BY <1>0, <2>1, AppendKeeps
  <2>2. CASE ~Known(r) /\ Victim > 0 /\ archive' = Archived(queue[Victim])
             /\ queue' = Append(RemoveAt(queue, Victim), Watch(r))
    BY <1>0, <1>2, <2>2, VictimIsMember, EvictKeeps
  <2> QED BY <1>1, <1>3, <2>1, <2>2 DEF Enqueue, serviceVars
<1>4. CASE EnqueueFails(r)
  <2>1. CASE Victim > 0 /\ archive' = Archived(queue[Victim]) /\ queue' = queue
    BY <1>0, <1>2, <2>1, VictimIsMember, ArchiveKeeps
  <2> QED BY <1>1, <1>4, <2>1 DEF EnqueueFails, serviceVars
<1>5. CASE ~(Enqueue(r) \/ EnqueueFails(r))
  BY <1>1, <1>5 DEF CollectorStep, Collect, AwaitResult, WaitTimeout, SaveResult, SaveResultFails,
        SettleRequest, ReviewCompleted, CollectFailed
<1> QED BY <1>3, <1>4, <1>5

LEMMA CollectorLoop ==
    ASSUME CompletionInv, NEW r \in Reviews, CollectorStep(r)
    PROVE  LoopOK'
<1>0. /\ QueueOK /\ LoopOK
      /\ ReceiptOf(r) \in Receipts \cup {NoReceipt}
  <2>1. QueueOK /\ LoopOK
    BY DEF CompletionInv
  <2>2. ReceiptOf(r) \in Receipts \cup {NoReceipt}
    <3>1. Receiving
      BY <2>1, WatchIsUnique
    <3>2. CASE Queued(r)
      <4>1. PICK i \in DOMAIN queue : queue[i].review = r
        BY <3>1, <3>2 DEF Receiving
      <4>2. queue[i] \in Watches
        BY <2>1, LenProperties DEF QueueOK
      <4> QED BY <3>1, <4>1, <4>2 DEF Receiving, Watches
    <3>3. CASE ~Queued(r)
      BY <2>1, <3>1, <3>3 DEF Receiving, QueueOK
    <3> QED BY <3>2, <3>3
  <2> QED BY <2>1, <2>2
<1>1. \A pc \in {"idle", "enqueue", "await", "waiting", "settle", "close"} :
      \A x \in Receipts \cup {NoReceipt, FailedReceipt} :
        Goto(r, pc, x) => collector' \in [Reviews -> Collectors]
  BY <1>0 DEF Goto, LoopOK, Collectors
<1>2. CASE Collect(r)
  BY <1>0, <1>1, <1>2 DEF Collect, LoopOK
<1>3. CASE Enqueue(r)
  BY <1>0, <1>1, <1>3 DEF Enqueue, LoopOK
<1>4. CASE EnqueueFails(r)
  BY <1>0, <1>1, <1>4 DEF EnqueueFails, LoopOK
<1>5. CASE AwaitResult(r)
  BY <1>0, <1>1, <1>5 DEF AwaitResult, LoopOK
<1>6. CASE WaitTimeout(r)
  BY <1>0, <1>1, <1>6 DEF WaitTimeout, LoopOK
<1>7. CASE SaveResult(r)
  <2>1. ResultFor(collector[r].receipt) \in Results
    <3>1. collector[r].receipt \in Receipts \cup {NoReceipt, FailedReceipt}
      BY <1>0 DEF LoopOK, Collectors
    <3>2. collector[r].receipt.page \in Pages \cup {NoPage}
      BY <3>1 DEF Receipts, NoReceipt, FailedReceipt
    <3> QED BY <3>2 DEF ResultFor, Results
  <2> QED BY <1>0, <1>1, <1>7, <2>1 DEF SaveResult, LoopOK
<1>8. CASE SaveResultFails(r)
  BY <1>0, <1>1, <1>8 DEF SaveResultFails, LoopOK
<1>9. CASE SettleRequest(r)
  BY <1>0, <1>1, <1>9 DEF SettleRequest, LoopOK
<1>10. CASE ReviewCompleted(r)
  BY <1>0, <1>10 DEF ReviewCompleted, LoopOK
<1>11. CASE CollectFailed(r)
  BY <1>0, <1>11 DEF CollectFailed, LoopOK
<1> QED BY <1>2, <1>3, <1>4, <1>5, <1>6, <1>7, <1>8, <1>9, <1>10, <1>11 DEF CollectorStep

LEMMA CollectorAnswers ==
    ASSUME CompletionInv, NEW r \in Reviews, CollectorStep(r), SameReceipts
    PROVE  \A s \in Reviews : AnswerOK(s)'
<1>0. LoopOK /\ \A s \in Reviews : AnswerOK(s)
  BY DEF CompletionInv
<1>1. \A s \in Reviews : ReceiptOf(s)' = ReceiptOf(s)
  BY DEF SameReceipts
<1>2. NoReceipt.status # "completed" /\ FailedReceipt.status # "completed"
  BY DEF NoReceipt, FailedReceipt
<1> SUFFICES ASSUME NEW s \in Reviews PROVE AnswerOK(s)'
  OBVIOUS
<1>a. AnswerOK(s) /\ AnswerOK(r) /\ ReceiptOf(s)' = ReceiptOf(s)
  BY <1>0, <1>1
<1>3. CASE Collect(r)
  BY <1>0, <1>2, <1>a, <1>3 DEF Collect, Goto, LoopOK, AnswerOK
<1>4. CASE Enqueue(r)
  BY <1>0, <1>2, <1>a, <1>4 DEF Enqueue, Goto, LoopOK, AnswerOK
<1>5. CASE EnqueueFails(r)
  BY <1>0, <1>2, <1>a, <1>5 DEF EnqueueFails, Goto, LoopOK, AnswerOK
<1>6. CASE AwaitResult(r)
  BY <1>0, <1>2, <1>a, <1>6 DEF AwaitResult, Goto, LoopOK, AnswerOK
<1>7. CASE WaitTimeout(r)
  BY <1>0, <1>2, <1>a, <1>7 DEF WaitTimeout, Goto, LoopOK, AnswerOK
<1>8. CASE SaveResult(r)
  <2>1. /\ s # r => result'[s] = result[s]
        /\ Kept(r) => result'[r] = result[r]
        /\ ~Kept(r) => result'[r] = ResultFor(collector[r].receipt)
        /\ collector'[s] \in {collector[s], [pc |-> "close", receipt |-> NoReceipt]}
        /\ request' = request
    BY <1>0, <1>8 DEF SaveResult, Goto, LoopOK
  <2>2. ~Kept(r) /\ result'[r].status = "COMPLETED" =>
            ReceiptOf(r) = [page |-> result'[r].page, status |-> "completed"]
    <3> SUFFICES ASSUME ~Kept(r), result'[r].status = "COMPLETED"
                 PROVE  ReceiptOf(r) = [page |-> result'[r].page, status |-> "completed"]
      OBVIOUS
    <3>1. collector[r].receipt \in Receipts \cup {NoReceipt, FailedReceipt}
      BY <1>0 DEF LoopOK, Collectors
    <3>2. collector[r].receipt.status = "completed" /\ result'[r].page = collector[r].receipt.page
      BY <2>1 DEF ResultFor
    <3>3. collector[r].receipt = [page |-> collector[r].receipt.page, status |-> "completed"]
      BY <1>2, <3>1, <3>2 DEF Receipts
    <3> QED BY <1>a, <3>2, <3>3 DEF AnswerOK
  <2> QED BY <1>2, <1>a, <2>1, <2>2 DEF AnswerOK, Kept
<1>9. CASE SaveResultFails(r)
  BY <1>0, <1>2, <1>a, <1>9 DEF SaveResultFails, Goto, LoopOK, AnswerOK
<1>10. CASE SettleRequest(r)
  BY <1>0, <1>2, <1>a, <1>10 DEF SettleRequest, Goto, LoopOK, AnswerOK
<1>11. CASE ReviewCompleted(r)
  BY <1>0, <1>a, <1>11 DEF ReviewCompleted, LoopOK, AnswerOK
<1>12. CASE CollectFailed(r)
  BY <1>0, <1>a, <1>12 DEF CollectFailed, LoopOK, AnswerOK
<1> QED BY <1>3, <1>4, <1>5, <1>6, <1>7, <1>8, <1>9, <1>10, <1>11, <1>12 DEF CollectorStep

\* What a step of the completion does: the invariant holds, and receipts stay.
Keeps == CompletionInv' /\ ReceiptsKept

LEMMA CollectorKeeps ==
    ASSUME CompletionInv, NEW r \in Reviews, CollectorStep(r)
    PROVE  Keeps
<1>1. QueueOK' /\ SameReceipts /\ LoopOK' /\ \A s \in Reviews : AnswerOK(s)'
  BY CollectorQueue, CollectorLoop, CollectorAnswers
<1>2. UNCHANGED <<workerVars, pageVars>>
  BY DEF CollectorStep, Collect, Enqueue, EnqueueFails, AwaitResult, WaitTimeout, SaveResult,
         SaveResultFails, SettleRequest, ReviewCompleted, CollectFailed
<1>3. WorkerOK' /\ PagesOK'
  BY <1>2 DEF CompletionInv, WorkerOK, PagesOK, workerVars, pageVars
<1> QED BY <1>1, <1>3 DEF Keeps, CompletionInv, SameReceipts, ReceiptsKept

\* The worker answers a page that is still there: that it may poll again, or that
\* it has a lease.
LEMMA Replied ==
    ASSUME PagesOK, NEW p \in Pages \cup {NoPage}, NEW next, Reply(p, next), chat' = chat,
           \/ next = PageAt("idle")
           \/ \E r \in Reviews : next = [PageAt("scanning") EXCEPT !.review = r]
    PROVE  PagesOK'
<1>1. /\ next \in [pc: {"idle", "gone", "claiming", "scanning", "acking"},
                   review: Reviews \cup {"none"}, status: Terminal \cup {"none"}]
      /\ next.pc \in {"idle", "scanning"} /\ (next.pc = "scanning" => next.review \in Reviews)
  BY DEF PageAt
<1>2. CASE p = NoPage \/ page[p].pc = "gone"
  BY <1>2 DEF PagesOK, Reply
<1>3. CASE ~(p = NoPage \/ page[p].pc = "gone")
  <2>1. p \in Pages /\ page' = [page EXCEPT ![p] = next]
    BY <1>3 DEF Reply
  <2> QED BY <1>1, <2>1 DEF PagesOK
<1> QED BY <1>2, <1>3

LEMMA IdleTask ==
    ASSUME WorkerOK, task' = NoTask, inFlight' = inFlight, outbox' = outbox
    PROVE  WorkerOK'
BY DEF WorkerOK, NoTask

\* Steps of the worker that the service does not see.
LEMMA QuietWorker ==
    ASSUME CompletionInv, UNCHANGED <<serviceVars, loopVars>>, WorkerOK', PagesOK'
    PROVE  Keeps
<1>1. QueueOK' /\ SameReceipts
  BY QuietService DEF CompletionInv
<1>2. LoopOK' /\ ReceiptsKept
  BY <1>1 DEF CompletionInv, LoopOK, loopVars, SameReceipts, ReceiptsKept
<1>3. \A r \in Reviews : AnswerOK(r)'
  BY <1>2, AnswersKept DEF loopVars
<1> QED BY <1>1, <1>2, <1>3 DEF Keeps, CompletionInv

LEMMA PollsKeep ==
    ASSUME CompletionInv, NEW p \in Pages, BeginClaim(p) \/ ReceiveAck(p)
    PROVE  Keeps
<1>0. WorkerOK /\ PagesOK /\ NoTask.step = "idle"
  BY DEF CompletionInv, NoTask
<1>1. CASE BeginClaim(p)
  <2>1. WorkerOK'
    BY <1>0, <1>1 DEF BeginClaim, WorkerOK, NoTask
  <2>2. PagesOK'
    BY <1>0, <1>1 DEF BeginClaim, PagesOK
  <2> QED BY <1>1, <2>1, <2>2, QuietWorker DEF BeginClaim
<1>2. CASE ReceiveAck(p)
  <2>1. CASE /\ outbox' = Append(outbox, AckOf(p)) /\ inFlight' = Unleased(p)
             /\ task' = [NoTask EXCEPT !.step = "flush", !.goal = "ack", !.page = p]
             /\ page' = page
    <3>1. AckOf(p) \in [review: Reviews, page: Pages, status: Terminal]
      BY <1>0, <1>2 DEF ReceiveAck, AckOf, PagesOK
    <3>2. outbox' \in Seq([review: Reviews, page: Pages, status: Terminal])
      BY <1>0, <2>1, <3>1, AppendProperties DEF WorkerOK
    <3>3. inFlight' \subseteq inFlight
      BY <2>1 DEF Unleased
    <3>4. WorkerOK'
      BY <1>0, <2>1, <3>2, <3>3 DEF WorkerOK, NoTask
    <3>5. PagesOK'
      BY <1>0, <1>2, <2>1 DEF PagesOK, ReceiveAck
    <3> QED BY <1>2, <3>4, <3>5, QuietWorker DEF ReceiveAck
  <2>2. CASE Reply(p, PageAt("idle")) /\ UNCHANGED workerVars
    <3>1. WorkerOK'
      BY <1>0, <2>2 DEF WorkerOK, workerVars
    <3>2. PagesOK'
      BY <1>0, <1>2, <2>2, Replied DEF ReceiveAck
    <3> QED BY <1>2, <3>1, <3>2, QuietWorker DEF ReceiveAck
  <2> QED BY <1>2, <2>1, <2>2 DEF ReceiveAck
<1> QED BY <1>1, <1>2

LEMMA PostAckKeeps ==
    ASSUME CompletionInv, PostAck \/ PostLost
    PROVE  Keeps
<1>0. QueueOK /\ LoopOK /\ WorkerOK /\ PagesOK /\ outbox # <<>>
  BY DEF CompletionInv, PostAck, PostLost
<1>1. PICK a \in [review: Reviews, page: Pages, status: Terminal] : a = Head(outbox)
  BY <1>0, HeadTailProperties DEF WorkerOK
<1>2. WorkerOK' /\ PagesOK'
  <2>1. CASE Refuse
    <3>1. task' = NoTask /\ Reply(task.page, PageAt("idle")) /\ task.page \in Pages \cup {NoPage}
      BY <1>0, <2>1 DEF Refuse, Finish, WorkerOK
    <3>2. inFlight' = inFlight /\ outbox' = outbox /\ chat' = chat
      BY DEF PostAck, PostLost
    <3> QED BY <1>0, <3>1, <3>2, Replied, IdleTask
  <2>2. CASE PostAck /\ task' = [task EXCEPT !.step = "remove"] /\ UNCHANGED page
    BY <1>0, <2>2 DEF PostAck, WorkerOK, PagesOK
  <2> QED BY <2>1, <2>2 DEF PostAck, PostLost
<1>3. UNCHANGED <<archive, asked, result, request, stage>>
  BY DEF PostAck, PostLost
<1>4. CASE UNCHANGED <<queue, collector>>
  BY <1>2, <1>3, <1>4, QuietWorker DEF serviceVars, loopVars
<1>5. CASE RecordAck(a)
  <2>1. QueueOK' /\ ReceiptsKept /\ (AckIsNew(a) => ReceiptOf(a.review)' = AckReceipt(a))
    BY <1>0, <1>3, <1>5, AckRecords
  <2>2. CASE UNCHANGED collector
    <3>1. LoopOK'
      BY <1>0, <1>3, <2>2 DEF LoopOK
    <3>2. \A r \in Reviews : AnswerOK(r)'
      BY <1>3, <2>1, <2>2, AnswersKept
    <3> QED BY <1>2, <2>1, <3>1, <3>2 DEF Keeps, CompletionInv
  <2>3. CASE AckIsNew(a) /\ Goto(a.review, "settle", AckReceipt(a))
    <3>1. AckReceipt(a) \in Receipts
      BY DEF AckReceipt, Receipts
    <3>2. LoopOK'
      BY <1>0, <1>3, <2>3, <3>1 DEF Goto, LoopOK, Collectors
    <3>3. ASSUME NEW r \in Reviews PROVE AnswerOK(r)'
      <4>1. AnswerOK(r) /\ (ReceiptOf(r) # NoReceipt => ReceiptOf(r)' = ReceiptOf(r))
        BY <2>1 DEF CompletionInv, ReceiptsKept
      <4>2. \A x : x.status = "completed" => x # NoReceipt
        BY DEF NoReceipt
      <4>3. collector'[r].receipt = IF r = a.review THEN AckReceipt(a) ELSE collector[r].receipt
        BY <1>0, <2>3 DEF Goto, LoopOK
      <4>4. r = a.review => ReceiptOf(r)' = AckReceipt(a)
        BY <2>1, <2>3
      <4> QED BY <1>3, <4>1, <4>2, <4>3, <4>4 DEF AnswerOK
    <3> QED BY <1>2, <2>1, <3>2, <3>3 DEF Keeps, CompletionInv
  <2> QED BY <1>5, <2>2, <2>3 DEF RecordAck
<1> QED BY <1>1, <1>4, <1>5 DEF PostAck, PostLost

LEMMA TasksKeep ==
    ASSUME CompletionInv, BeginRecovery \/ RemoveAck \/ Flushed \/ RecordClaim \/ Suspend
    PROVE  Keeps
<1>0. WorkerOK /\ PagesOK /\ task.page \in Pages \cup {NoPage}
  BY DEF CompletionInv, WorkerOK
<1>. UNCHANGED <<serviceVars, loopVars>> /\ chat' = chat
  BY DEF BeginRecovery, RemoveAck, Flushed, RecordClaim, Suspend, pageVars
<1>1. CASE BeginRecovery
  <2>1. WorkerOK'
    BY <1>0, <1>1 DEF BeginRecovery, WorkerOK, NoTask
  <2>2. PagesOK'
    BY <1>0, <1>1 DEF BeginRecovery, PagesOK, pageVars
  <2> QED BY <2>1, <2>2, QuietWorker
<1>2. CASE RemoveAck
  <2>1. outbox' \in Seq([review: Reviews, page: Pages, status: Terminal])
    BY <1>0, <1>2, HeadTailProperties DEF RemoveAck, WorkerOK
  <2>2. WorkerOK'
    BY <1>0, <1>2, <2>1 DEF RemoveAck, WorkerOK
  <2>3. PagesOK'
    BY <1>0, <1>2 DEF RemoveAck, PagesOK, pageVars
  <2> QED BY <2>2, <2>3, QuietWorker
<1>3. CASE Flushed
  <2>1. inFlight' \subseteq inFlight /\ outbox' = outbox
    BY <1>3 DEF Flushed
  <2>2. CASE task.goal = "claim"
    <3>1. WorkerOK'
      BY <1>0, <1>3, <2>1, <2>2 DEF Flushed, WorkerOK
    <3>2. PagesOK'
      BY <1>0, <1>3, <2>2 DEF Flushed, PagesOK
    <3> QED BY <3>1, <3>2, QuietWorker
  <2>3. CASE task.goal # "claim"
    <3>1. task' = NoTask /\ Reply(task.page, PageAt("idle"))
      BY <1>3, <2>3 DEF Flushed, Refuse, Finish
    <3>2. WorkerOK'
      BY <1>0, <2>1, <3>1 DEF WorkerOK, NoTask
    <3>3. PagesOK'
      BY <1>0, <3>1, Replied
    <3> QED BY <3>2, <3>3, QuietWorker
  <2> QED BY <2>2, <2>3
<1>4. CASE RecordClaim
  <2>1. CASE Refuse /\ UNCHANGED inFlight
    <3>1. task' = NoTask /\ Reply(task.page, PageAt("idle")) /\ outbox' = outbox
      BY <1>4, <2>1 DEF RecordClaim, Refuse, Finish
    <3>2. WorkerOK' /\ PagesOK'
      BY <1>0, <2>1, <3>1, Replied, IdleTask
    <3> QED BY <3>2, QuietWorker
  <2>2. CASE task.left # 0
    <3>1. /\ inFlight' = {e \in inFlight : e.review # task.review}
                \cup {[review |-> task.review, page |-> task.page, left |-> task.left]}
          /\ task' = NoTask /\ outbox' = outbox
          /\ Reply(task.page, [PageAt("scanning") EXCEPT !.review = task.review])
      BY <1>4, <2>2 DEF RecordClaim, Finish
    <3>2. task.review \in Reviews /\ task.page \in Pages /\ task.left \in Nat
      BY <1>0, <1>4 DEF RecordClaim, WorkerOK
    <3>3. inFlight' \subseteq [review: Reviews, page: Pages, left: Nat]
      BY <1>0, <3>1, <3>2 DEF WorkerOK
    <3>4. WorkerOK'
      BY <1>0, <3>1, <3>3 DEF WorkerOK, NoTask
    <3>5. PagesOK'
      BY <1>0, <3>1, <3>2, Replied
    <3> QED BY <3>4, <3>5, QuietWorker
  <2> QED BY <1>4, <2>1, <2>2 DEF RecordClaim
<1>5. CASE Suspend
  <2>1. task' = NoTask /\ Reply(task.page, PageAt("idle")) /\ inFlight' = inFlight /\ outbox' = outbox
    BY <1>5 DEF Suspend
  <2>2. WorkerOK' /\ PagesOK'
    BY <1>0, <2>1, Replied, IdleTask
  <2> QED BY <2>2, QuietWorker
<1> QED BY <1>1, <1>2, <1>3, <1>4, <1>5

\* Steps that change the queue, but only leases in it.
LEMMA LeasesKeep ==
    ASSUME CompletionInv, UNCHANGED <<archive, loopVars>>, WorkerOK', PagesOK',
           queue' \in Seq(Watches), DOMAIN queue' = DOMAIN queue,
           \A i \in DOMAIN queue : queue'[i].review = queue[i].review
                                   /\ queue'[i].receipt = queue[i].receipt
    PROVE  Keeps
<1>1. QueueOK' /\ SameReceipts
  BY LeasesOnly DEF CompletionInv
<1>2. LoopOK' /\ ReceiptsKept
  BY <1>1 DEF CompletionInv, LoopOK, loopVars, SameReceipts, ReceiptsKept
<1>3. \A r \in Reviews : AnswerOK(r)'
  BY <1>2, AnswersKept DEF loopVars
<1> QED BY <1>1, <1>2, <1>3 DEF Keeps, CompletionInv

LEMMA ClaimKeeps ==
    ASSUME CompletionInv, PostClaim \/ ClaimLost
    PROVE  Keeps
<1>0. QueueOK /\ WorkerOK /\ PagesOK /\ task.page \in Pages
  BY DEF CompletionInv, WorkerOK, PostClaim, ClaimLost
<1>1. PICK q : q = ClaimQueue(task.page)
  OBVIOUS
<1>2. /\ q \in Seq(Watches) /\ DOMAIN q = DOMAIN queue
      /\ \A i \in DOMAIN queue : q[i].review = queue[i].review /\ q[i].receipt = queue[i].receipt
  BY <1>0, <1>1, ClaimsLease
<1>3. queue' \in {q, queue} /\ UNCHANGED <<archive, loopVars>> /\ inFlight' = inFlight
      /\ outbox' = outbox /\ chat' = chat
  BY <1>1 DEF PostClaim, ClaimLost
<1>4. WorkerOK' /\ PagesOK'
  <2>1. CASE Refuse
    <3>1. task' = NoTask /\ Reply(task.page, PageAt("idle"))
      BY <2>1 DEF Refuse, Finish
    <3> QED BY <1>0, <1>3, <3>1, Replied, IdleTask
  <2>2. CASE PostClaim /\ Granted(task.page) # 0
    <3>1. PICK g : g = Granted(task.page)
      OBVIOUS
    <3>2. PICK n \in Nat : n = Len(queue) /\ DOMAIN queue = 1 .. n
      BY <1>0, LenProperties DEF QueueOK
    <3>3. g \in DOMAIN queue
      BY <2>2, <3>1, <3>2, GrantedIsMember
    <3>4. q[g] \in Watches
      BY <1>2, <3>3, LenProperties
    <3>5. /\ task' = [task EXCEPT !.step = "record", !.review = q[g].review, !.left = q[g].left]
          /\ page' = page /\ task.step = "claim"
      BY <1>1, <2>2, <3>1 DEF PostClaim
    <3>6. WorkerOK'
      BY <1>0, <1>3, <3>4, <3>5 DEF WorkerOK, Watches
    <3>7. PagesOK'
      BY <1>0, <1>3, <3>5 DEF PagesOK
    <3> QED BY <3>6, <3>7
  <2> QED BY <2>1, <2>2 DEF PostClaim, ClaimLost
<1>5. /\ queue' \in Seq(Watches) /\ DOMAIN queue' = DOMAIN queue
      /\ \A i \in DOMAIN queue : queue'[i].review = queue[i].review
                                 /\ queue'[i].receipt = queue[i].receipt
  BY <1>0, <1>2, <1>3 DEF QueueOK
<1> QED BY <1>3, <1>4, <1>5, LeasesKeep

LEMMA PagesKeep ==
    ASSUME CompletionInv, NEW p \in Pages, PageStep(p)
    PROVE  Keeps
<1>0. WorkerOK /\ PagesOK
  BY DEF CompletionInv
<1>1. WorkerOK'
  BY <1>0 DEF PageStep, Scan, Leave, WorkerOK, workerVars
<1>2. CASE Scan(p)
  <2>1. Scanned(page[p].review) \in Terminal \cup {"pending"}
    BY <1>0, <1>2 DEF Scan, Scanned, PagesOK, Terminal
  <2>2. PagesOK'
    BY <1>0, <1>2, <2>1 DEF Scan, PagesOK, PageAt
  <2> QED BY <1>1, <1>2, <2>2, QuietWorker DEF Scan
<1>3. CASE Leave(p)
  <2>1. PagesOK'
    BY <1>0, <1>3 DEF Leave, PagesOK, PageAt
  <2> QED BY <1>1, <1>3, <2>1, QuietWorker DEF Leave
<1> QED BY <1>2, <1>3 DEF PageStep

LEMMA OthersKeep ==
    ASSUME CompletionInv, NEW r \in Reviews, ReportRecoveryFailure(r) \/ Answer(r)
    PROVE  Keeps
<1>0. QueueOK /\ WorkerOK /\ PagesOK
  BY DEF CompletionInv
<1>1. WorkerOK'
  BY <1>0 DEF ReportRecoveryFailure, Answer, WorkerOK, workerVars
<1>2. CASE ReportRecoveryFailure(r)
  <2>1. PagesOK'
    BY <1>0, <1>2 DEF ReportRecoveryFailure, PagesOK, pageVars
  <2>2. PICK s : s = At(r)
    OBVIOUS
  <2>3. queue' = [i \in DOMAIN queue |-> [queue[i] EXCEPT !.barred = @ \/ i \in s]]
    BY <1>2, <2>2 DEF ReportRecoveryFailure
  <2>4. ASSUME NEW i \in DOMAIN queue
        PROVE  /\ queue'[i] \in Watches /\ queue'[i].review = queue[i].review
               /\ queue'[i].receipt = queue[i].receipt
    <3>1. queue[i] \in Watches
      BY <1>0, LenProperties DEF QueueOK
    <3>2. PICK b \in BOOLEAN : b = (queue[i].barred \/ i \in s)
      OBVIOUS
    <3>3. queue'[i] = [queue[i] EXCEPT !.barred = b]
      BY <2>3, <3>2
    <3> QED BY <3>1, <3>3 DEF Watches
  <2>5. queue' \in Seq(Watches) /\ DOMAIN queue' = DOMAIN queue
    BY <1>0, <2>3, <2>4, LenProperties, SeqDef DEF QueueOK
  <2> QED BY <1>1, <1>2, <2>1, <2>4, <2>5, LeasesKeep DEF ReportRecoveryFailure
<1>3. CASE Answer(r)
  <2>1. PagesOK'
    BY <1>0, <1>3 DEF Answer, PagesOK
  <2> QED BY <1>1, <1>3, <2>1, QuietWorker DEF Answer
<1> QED BY <1>2, <1>3

LEMMA TickKeeps ==
    ASSUME CompletionInv, Tick
    PROVE  Keeps
<1>0. QueueOK /\ WorkerOK /\ PagesOK
  BY DEF CompletionInv
<1>1. \A e : e.left \in Nat => (IF e.left = 0 THEN 0 ELSE e.left - 1) \in Nat
  OBVIOUS
<1>2. ASSUME NEW i \in DOMAIN queue
      PROVE  /\ Aged(queue[i]) \in Watches /\ Aged(queue[i]).review = queue[i].review
             /\ Aged(queue[i]).receipt = queue[i].receipt
  <2>1. queue[i] \in Watches
    BY <1>0, LenProperties DEF QueueOK
  <2> QED BY <1>1, <2>1 DEF Aged, Watches
<1>3. queue' = [i \in DOMAIN queue |-> Aged(queue[i])]
  BY DEF Tick
<1>4. queue' \in Seq(Watches) /\ DOMAIN queue' = DOMAIN queue
  BY <1>0, <1>2, <1>3, LenProperties, SeqDef DEF QueueOK
<1>5. inFlight' \subseteq [review: Reviews, page: Pages, left: Nat]
  <2> SUFFICES ASSUME NEW e \in inFlight PROVE Aged(e) \in [review: Reviews, page: Pages, left: Nat]
    BY DEF Tick
  <2>1. e \in [review: Reviews, page: Pages, left: Nat]
    BY <1>0 DEF WorkerOK
  <2> QED BY <1>1, <2>1 DEF Aged
<1>6. WorkerOK'
  <2>1. /\ task' \in [step: {"idle", "flush", "remove", "claim", "record"},
                      goal: {"none", "claim", "recover", "ack"}, page: Pages \cup {NoPage},
                      review: Reviews \cup {"none"}, left: Nat]
        /\ task'.step = task.step /\ task'.goal = task.goal /\ task'.page = task.page
        /\ task'.review = task.review
    BY <1>0, <1>1 DEF Tick, Aged, WorkerOK
  <2>2. outbox' = outbox
    BY DEF Tick
  <2> QED BY <1>0, <1>5, <2>1, <2>2 DEF WorkerOK
<1>7. PagesOK'
  BY <1>0 DEF Tick, PagesOK, pageVars
<1> QED BY <1>2, <1>3, <1>4, <1>6, <1>7, LeasesKeep DEF Tick

-----------------------------------------------------------------------------
(* The verdicts *)

LEMMA ProofsStay ==
    ASSUME ReceiptsKept, NEW r \in Reviews, NEW p, Proof(r, p)
    PROVE  Proof(r, p)'
<1>1. ReceiptOf(r) = [page |-> p, status |-> "completed"] => ReceiptOf(r) # NoReceipt
  BY DEF NoReceipt
<1> QED BY <1>1 DEF Proof, ReceiptsKept

\* The completion changes no verdict, and what proved one still does.
LEMMA CompletionLeavesVerdicts ==
    ASSUME VerdictInv, Keeps, UNCHANGED verdictOnly
    PROVE  VerdictInv'
<1>1. VerdictTypes'
  BY DEF VerdictInv, VerdictTypes, verdictOnly
<1>2. ASSUME NEW r \in Reviews PROVE VerdictOK(r)'
  <2>1. VerdictOK(r) /\ ReceiptsKept
    BY DEF VerdictInv, Keeps
  <2>2. \A p : Proof(r, p) => Proof(r, p)'
    BY <2>1, ProofsStay
  <2>3. /\ op[r].kind = "evidence" => Proof(r, op[r].page)'
        /\ record[r].evidence # NoCall => Proof(r, record[r].proof)'
    <3>1. PICK x, y : x = op[r].page /\ y = record[r].proof
      OBVIOUS
    <3>2. op' = op /\ record' = record
      BY DEF verdictOnly
    <3>3. /\ op[r].kind = "evidence" => Proof(r, x)'
          /\ record[r].evidence # NoCall => Proof(r, y)'
      BY <2>1, <2>2, <3>1 DEF VerdictOK
    <3> QED BY <3>1, <3>2, <3>3 DEF Proof
  <2> QED BY <2>1, <2>3 DEF VerdictOK, verdictOnly
<1> QED BY <1>1, <1>2 DEF VerdictInv, Keeps

LEMMA CompletionStepKeeps ==
    ASSUME VerdictInv, CompletionStep
    PROVE  VerdictInv'
<1>1. UNCHANGED verdictOnly /\ CompletionInv
  BY DEF CompletionStep, VerdictInv
<1>2. Keeps
  <2>1. ASSUME NEW r \in Reviews, CollectorStep(r) \/ ReportRecoveryFailure(r) \/ Answer(r)
        PROVE  Keeps
    BY <1>1, <2>1, CollectorKeeps, OthersKeep
  <2>2. CASE WorkerStep
    BY <1>1, <2>2, PollsKeep, TasksKeep, PostAckKeeps, ClaimKeeps DEF WorkerStep
  <2>3. ASSUME NEW p \in Pages, PageStep(p) PROVE Keeps
    BY <1>1, <2>3, PagesKeep
  <2>4. CASE Tick
    BY <1>1, <2>4, TickKeeps
  <2> QED BY <2>1, <2>2, <2>3, <2>4 DEF CompletionStep
<1> QED BY <1>1, <1>2, CompletionLeavesVerdicts

\* A step of the verdicts leaves the completion alone.
LEMMA CompletionStays ==
    ASSUME CompletionInv, UNCHANGED completionVars
    PROVE  Keeps
<1>1. UNCHANGED <<serviceVars, loopVars>>
  BY DEF completionVars
<1>2. WorkerOK' /\ PagesOK'
  BY DEF completionVars, workerVars, pageVars, CompletionInv, WorkerOK, PagesOK
<1> QED BY <1>1, <1>2, QuietWorker

\* What is proved for one review of a step that changes that one only.
LEMMA OneVerdict ==
    ASSUME VerdictInv, Keeps, NEW r \in Reviews, VerdictTypes', VerdictOK(r)',
           \A s \in Reviews \ {r} :
                /\ op'[s] = op[s] /\ record'[s] = record[s] /\ waiter'[s] = waiter[s]
                /\ decision'[s] = decision[s]
    PROVE  VerdictInv'
<1> SUFFICES ASSUME NEW s \in Reviews, s # r PROVE VerdictOK(s)'
  BY DEF VerdictInv, Keeps
<1>1. VerdictOK(s) /\ ReceiptsKept
  BY DEF VerdictInv, Keeps
<1>2. \A p : Proof(s, p) => Proof(s, p)'
  BY <1>1, ProofsStay
<1>3. PICK x, y : x = op[s].page /\ y = record[s].proof
  OBVIOUS
<1>4. /\ op[s].kind = "evidence" => Proof(s, x)'
      /\ record[s].evidence # NoCall => Proof(s, y)'
  BY <1>1, <1>2, <1>3 DEF VerdictOK
<1>5. /\ op[s].kind = "evidence" => Proof(s, op[s].page)'
      /\ record[s].evidence # NoCall => Proof(s, record[s].proof)'
  BY <1>3, <1>4 DEF Proof
<1> QED BY <1>1, <1>5 DEF VerdictOK

LEMMA CallsKeep ==
    ASSUME VerdictInv, NEW r \in Reviews,
           (\E c \in Calls : r = ReviewOf[c] /\ BeginAccept(c)) \/ SaveAccept(r)
    PROVE  VerdictInv'
<1>0. VerdictTypes /\ VerdictOK(r) /\ Keeps /\ NoCall \notin Calls
  <2>1. UNCHANGED completionVars
    BY DEF BeginAccept, SaveAccept
  <2> QED BY <2>1, CompletionStays, VerdictAssumption DEF VerdictInv
<1>a. \A p : Proof(r, p) => Proof(r, p)'
  BY <1>0, ProofsStay DEF Keeps
<1>1. CASE \E c \in Calls : r = ReviewOf[c] /\ BeginAccept(c)
  <2>1. PICK c \in Calls : r = ReviewOf[c] /\ BeginAccept(c)
    BY <1>1
  <2>2. PICK o : o = [NoOp EXCEPT !.kind = "accept", !.call = c] /\ op' = [op EXCEPT ![r] = o]
    BY <2>1 DEF BeginAccept
  <2>3. /\ o \in [kind: {"none", "accept", "evidence"}, call: Calls \cup {NoCall},
                   page: Pages \cup {NoPage}]
        /\ o.kind = "accept" /\ o.call = c
    BY <2>2 DEF NoOp
  <2>4. /\ op' \in [Reviews -> [kind: {"none", "accept", "evidence"},
                                call: Calls \cup {NoCall}, page: Pages \cup {NoPage}]]
        /\ op'[r] = o /\ \A s \in Reviews \ {r} : op'[s] = op[s]
    BY <1>0, <2>2, <2>3 DEF VerdictTypes
  <2>5. UNCHANGED <<record, waiter, decision>>
    BY <2>1 DEF BeginAccept
  <2>6. record[r].evidence # NoCall => Proof(r, record[r].proof)'
    <3>1. PICK y : y = record[r].proof
      OBVIOUS
    <3>2. record[r].evidence # NoCall => Proof(r, y)'
      BY <1>0, <1>a, <3>1 DEF VerdictOK
    <3> QED BY <2>5, <3>1, <3>2 DEF Proof
  <2>7. VerdictOK(r)'
    BY <1>0, <2>3, <2>4, <2>5, <2>6 DEF VerdictOK
  <2>8. VerdictTypes'
    BY <1>0, <2>1, <2>4 DEF BeginAccept, VerdictTypes
  <2> QED BY <1>0, <2>4, <2>5, <2>7, <2>8, OneVerdict
<1>2. CASE SaveAccept(r)
  <2>1. op[r].call \in Calls /\ op[r].kind = "accept"
    BY <1>0, <1>2 DEF SaveAccept, VerdictOK
  <2>2. PICK rec : rec = Confirmed([record[r] EXCEPT !.calls = @ \cup {op[r].call}])
    OBVIOUS
  <2>3. /\ rec \in [calls: SUBSET Calls, evidence: Calls \cup {NoCall},
                    proof: Pages \cup {NoPage}, confirmed: BOOLEAN]
        /\ rec.calls = record[r].calls \cup {op[r].call} /\ rec.evidence = record[r].evidence
        /\ rec.proof = record[r].proof /\ (rec.confirmed <=> rec.evidence \in rec.calls)
    <3>1. record[r] \in [calls: SUBSET Calls, evidence: Calls \cup {NoCall},
                         proof: Pages \cup {NoPage}, confirmed: BOOLEAN]
      BY <1>0 DEF VerdictTypes
    <3>2. PICK b \in BOOLEAN : b = (record[r].evidence \in record[r].calls \cup {op[r].call})
      <4>1. (record[r].evidence \in record[r].calls \cup {op[r].call}) \in BOOLEAN
        OBVIOUS
      <4> QED BY <4>1, Zenon
    <3>3. rec = [record[r] EXCEPT !.calls = @ \cup {op[r].call}, !.confirmed = b]
      BY <2>2, <3>1, <3>2 DEF Confirmed
    <3>4. rec = [calls |-> record[r].calls \cup {op[r].call}, evidence |-> record[r].evidence,
                 proof |-> record[r].proof, confirmed |-> b]
      BY <3>1, <3>3
    <3> QED BY <2>1, <3>1, <3>2, <3>4
  <2>4. /\ record' = [record EXCEPT ![r] = rec] /\ op' = [op EXCEPT ![r] = NoOp]
        /\ waiter' = [waiter EXCEPT ![r] = Woken(waiter[r])]
        /\ UNCHANGED <<calls, age, decision, evOutbox>>
    <3>1. record' = [record EXCEPT ![r] = rec]
      BY <1>2, <2>2 DEF SaveAccept
    <3> QED BY <1>2, <3>1 DEF SaveAccept, Wake
  <2>5. Woken(waiter[r]) \in {"none", "registered", "woken", "signalled", "gone", "timeout"}
    BY <1>0 DEF Woken, VerdictTypes
  <2>6. VerdictTypes'
    BY <1>0, <2>3, <2>4, <2>5 DEF VerdictTypes, NoOp
  <2>7. /\ record'[r] = rec /\ op'[r] = NoOp /\ waiter'[r] = Woken(waiter[r])
        /\ \A s \in Reviews \ {r} :
            op'[s] = op[s] /\ record'[s] = record[s] /\ waiter'[s] = waiter[s]
    BY <1>0, <2>4 DEF VerdictTypes
  <2>8. rec.evidence # NoCall => Proof(r, record[r].proof)'
    <3>1. PICK y : y = record[r].proof
      OBVIOUS
    <3>2. rec.evidence # NoCall => Proof(r, y)'
      BY <1>0, <1>a, <2>3, <3>1 DEF VerdictOK
    <3> QED BY <2>3, <2>7, <3>1, <3>2 DEF Proof
  <2>9. VerdictOK(r)'
    BY <1>0, <2>3, <2>4, <2>5, <2>7, <2>8 DEF VerdictOK, NoOp
  <2> QED BY <1>0, <2>4, <2>6, <2>7, <2>9, OneVerdict
<1> QED BY <1>1, <1>2

LEMMA EvidenceBegins ==
    ASSUME VerdictInv, NEW e \in evOutbox, BeginEvidence(e)
    PROVE  VerdictInv'
<1>0. VerdictTypes /\ Keeps /\ e \in [call: Calls, page: Pages]
  <2>1. UNCHANGED completionVars
    BY DEF BeginEvidence
  <2> QED BY <2>1, CompletionStays DEF VerdictInv, VerdictTypes
<1>1. PICK r \in Reviews : r = ReviewOf[e.call]
  BY <1>0, VerdictAssumption
<1>2. VerdictOK(r) /\ \A p : Proof(r, p) => Proof(r, p)'
  BY <1>0, ProofsStay DEF Keeps, VerdictInv
<1>3. PICK o : o = [kind |-> "evidence", call |-> e.call, page |-> e.page]
  OBVIOUS
<1>4. op' = [op EXCEPT ![r] = o] /\ UNCHANGED <<calls, record, waiter, age, decision, evOutbox>>
      /\ Fits(r, e)
  BY <1>1, <1>3 DEF BeginEvidence
<1>5. /\ o \in [kind: {"none", "accept", "evidence"}, call: Calls \cup {NoCall},
                page: Pages \cup {NoPage}]
      /\ o.kind = "evidence" /\ o.call = e.call /\ o.page = e.page
  BY <1>0, <1>3
<1>6. /\ op' \in [Reviews -> [kind: {"none", "accept", "evidence"},
                              call: Calls \cup {NoCall}, page: Pages \cup {NoPage}]]
      /\ op'[r] = o /\ \A s \in Reviews \ {r} : op'[s] = op[s]
  BY <1>0, <1>4, <1>5 DEF VerdictTypes
<1>7. VerdictTypes'
  BY <1>0, <1>4, <1>6 DEF VerdictTypes
<1>8. VerdictOK(r)'
  <2>1. PICK x, y : x = e.page /\ y = record[r].proof
    OBVIOUS
  <2>2. Proof(r, x)' /\ (record[r].evidence # NoCall => Proof(r, y)')
    <3>1. Proof(r, x)
      BY <1>4, <2>1 DEF Fits, Proves, Proof
    <3> QED BY <1>2, <2>1, <3>1 DEF VerdictOK
  <2>3. Proof(r, op[r].page)' /\ (record[r].evidence # NoCall => Proof(r, record[r].proof)')
    BY <1>4, <1>5, <1>6, <2>1, <2>2 DEF Proof
  <2> QED BY <1>0, <1>2, <1>4, <1>5, <1>6, <2>3 DEF VerdictOK, Fits
<1> QED BY <1>0, <1>4, <1>6, <1>7, <1>8, OneVerdict

LEMMA EvidenceSaved ==
    ASSUME VerdictInv, NEW r \in Reviews, SaveEvidence(r)
    PROVE  VerdictInv'
<1>0. VerdictTypes /\ VerdictOK(r) /\ Keeps /\ NoCall \notin Calls
  <2>1. UNCHANGED completionVars
    BY DEF SaveEvidence
  <2> QED BY <2>1, CompletionStays, VerdictAssumption DEF VerdictInv
<1>1. PICK k, p : k = op[r].call /\ p = op[r].page
  OBVIOUS
<1>2. k \in Calls /\ p \in Pages /\ record[r].evidence = NoCall /\ Proof(r, p)'
  BY <1>0, <1>1, ProofsStay DEF SaveEvidence, VerdictOK, Keeps
<1>3. PICK rec : rec = Confirmed([record[r] EXCEPT !.evidence = k, !.proof = p])
  OBVIOUS
<1>4. /\ rec \in [calls: SUBSET Calls, evidence: Calls \cup {NoCall},
                  proof: Pages \cup {NoPage}, confirmed: BOOLEAN]
      /\ rec.calls = record[r].calls /\ rec.evidence = k /\ rec.proof = p
      /\ rec.confirmed <=> k \in record[r].calls
  <2>1. record[r] \in [calls: SUBSET Calls, evidence: Calls \cup {NoCall},
                       proof: Pages \cup {NoPage}, confirmed: BOOLEAN]
    BY <1>0 DEF VerdictTypes
  <2>2. PICK b \in BOOLEAN : b = (k \in record[r].calls)
    <3>1. (k \in record[r].calls) \in BOOLEAN
      OBVIOUS
    <3> QED BY <3>1, Zenon
  <2>3. rec = [record[r] EXCEPT !.evidence = k, !.proof = p, !.confirmed = b]
    BY <1>3, <2>1, <2>2 DEF Confirmed
  <2>4. rec = [calls |-> record[r].calls, evidence |-> k, proof |-> p, confirmed |-> b]
    BY <2>1, <2>3
  <2> QED BY <1>2, <2>1, <2>2, <2>4
<1>5. /\ record' = [record EXCEPT ![r] = rec] /\ op' = [op EXCEPT ![r] = NoOp]
      /\ waiter' = [waiter EXCEPT ![r] = Woken(waiter[r])]
      /\ UNCHANGED <<calls, age, decision>> /\ evOutbox' \subseteq evOutbox
  <2>1. record' = [record EXCEPT ![r] = rec]
    BY <1>1, <1>3 DEF SaveEvidence
  <2> QED BY <2>1 DEF SaveEvidence, Wake, Answered
<1>6. Woken(waiter[r]) \in {"none", "registered", "woken", "signalled", "gone", "timeout"}
  BY <1>0 DEF Woken, VerdictTypes
<1>7. VerdictTypes'
  BY <1>0, <1>4, <1>5, <1>6 DEF VerdictTypes, NoOp
<1>8. /\ record'[r] = rec /\ op'[r] = NoOp /\ waiter'[r] = Woken(waiter[r])
      /\ \A s \in Reviews \ {r} :
            op'[s] = op[s] /\ record'[s] = record[s] /\ waiter'[s] = waiter[s]
  BY <1>0, <1>5 DEF VerdictTypes
<1>9. VerdictOK(r)'
  <2>1. Proof(r, record[r].proof)'
    BY <1>2, <1>4, <1>8 DEF Proof
  <2>2. decision[r] = NoCall
    BY <1>0, <1>2 DEF VerdictOK
  <2> QED BY <1>0, <1>4, <1>5, <1>6, <1>8, <2>1, <2>2 DEF VerdictOK, NoOp
<1> QED BY <1>0, <1>5, <1>7, <1>8, <1>9, OneVerdict

LEMMA OutboxKeeps ==
    ASSUME VerdictInv,
           \/ \E e \in evOutbox : RepeatEvidence(e) \/ ExpireEvidence(e)
           \/ \E p \in Pages, c \in Calls : ReadEvidence(p, c)
           \/ VerdictTick
    PROVE  VerdictInv'
<1>1. /\ UNCHANGED completionVars /\ UNCHANGED <<calls, record, op, waiter, decision>>
  BY DEF RepeatEvidence, ExpireEvidence, ReadEvidence, VerdictTick
<1>2. Keeps
  BY <1>1, CompletionStays DEF VerdictInv
<1>3. VerdictTypes'
  <2>1. evOutbox' \subseteq [call: Calls, page: Pages]
    BY DEF RepeatEvidence, ExpireEvidence, ReadEvidence, VerdictTick, VerdictInv, VerdictTypes
  <2>2. age' \in [Reviews -> 0 .. ConfirmTicks]
    <3>1. CASE VerdictTick
      BY <3>1, VerdictAssumption DEF VerdictTick, VerdictInv, VerdictTypes
    <3>2. CASE ~VerdictTick
      BY <3>2 DEF RepeatEvidence, ExpireEvidence, ReadEvidence, VerdictInv, VerdictTypes
    <3> QED BY <3>1, <3>2
  <2> QED BY <1>1, <2>1, <2>2 DEF VerdictInv, VerdictTypes
<1>4. ASSUME NEW r \in Reviews PROVE VerdictOK(r)'
  <2>1. VerdictOK(r) /\ \A p : Proof(r, p) => Proof(r, p)'
    BY <1>2, ProofsStay DEF VerdictInv, Keeps
  <2>2. PICK x, y : x = op[r].page /\ y = record[r].proof
    OBVIOUS
  <2>3. /\ op[r].kind = "evidence" => Proof(r, x)'
        /\ record[r].evidence # NoCall => Proof(r, y)'
    BY <2>1, <2>2 DEF VerdictOK
  <2>4. /\ op[r].kind = "evidence" => Proof(r, op[r].page)'
        /\ record[r].evidence # NoCall => Proof(r, record[r].proof)'
    BY <1>1, <2>2, <2>3 DEF Proof
  <2> QED BY <1>1, <2>1, <2>4 DEF VerdictOK
<1> QED BY <1>2, <1>3, <1>4 DEF VerdictInv, Keeps

LEMMA WaitingKeeps ==
    ASSUME VerdictInv, NEW r \in Reviews,
           Register(r) \/ ReadRecord(r) \/ Sleep(r) \/ WindowEnds(r)
    PROVE  VerdictInv'
<1>0. /\ UNCHANGED completionVars /\ UNCHANGED <<calls, record, op, age, evOutbox>>
      /\ VerdictTypes /\ VerdictOK(r)
  BY DEF Register, ReadRecord, Sleep, WindowEnds, VerdictInv
<1>1. Keeps
  BY <1>0, CompletionStays DEF VerdictInv
<1>2. /\ waiter' \in [Reviews -> {"none", "registered", "unconfirmed", "woken", "asleep",
                                  "signalled", "gone", "timeout"}]
      /\ \A s \in Reviews \ {r} : waiter'[s] = waiter[s]
      /\ waiter'[r] \in {"unconfirmed", "asleep"} => ~record[r].confirmed
  <2>1. PICK w : waiter' = [waiter EXCEPT ![r] = w]
    BY DEF Register, ReadRecord, Sleep, WindowEnds
  <2>2. waiter'[r] = w
    BY <1>0, <2>1 DEF VerdictTypes
  <2>3. /\ w \in {"none", "registered", "unconfirmed", "woken", "asleep", "signalled", "gone", "timeout"}
        /\ w \in {"unconfirmed", "asleep"} => ~record[r].confirmed
    <3>1. CASE Register(r) \/ WindowEnds(r)
      <4>1. w \in {"registered", "signalled"}
        BY <1>0, <2>2, <3>1 DEF Register, WindowEnds, VerdictTypes
      <4> QED BY <4>1
    <3>2. CASE ReadRecord(r)
      <4>1. w = IF record[r].confirmed THEN "gone" ELSE "unconfirmed"
        BY <1>0, <2>2, <3>2 DEF ReadRecord, VerdictTypes
      <4> QED BY <4>1
    <3>3. CASE Sleep(r)
      <4>1. /\ waiter[r] \in {"unconfirmed", "woken"}
            /\ w = CASE ~InTime(r) -> "timeout"
                     [] InTime(r) /\ waiter[r] = "woken" -> "signalled"
                     [] InTime(r) /\ waiter[r] = "unconfirmed" -> "asleep"
        BY <1>0, <2>2, <3>3 DEF Sleep, VerdictTypes
      <4>2. CASE ~InTime(r)
        BY <4>1, <4>2
      <4>3. CASE InTime(r) /\ waiter[r] = "woken"
        BY <4>1, <4>3
      <4>4. CASE InTime(r) /\ waiter[r] = "unconfirmed"
        BY <1>0, <4>1, <4>4 DEF VerdictOK
      <4> QED BY <4>1, <4>2, <4>3, <4>4
    <3> QED BY <3>1, <3>2, <3>3
  <2> QED BY <1>0, <2>1, <2>2, <2>3 DEF VerdictTypes
<1>3. /\ decision' \in [Reviews -> Calls \cup {NoCall}]
      /\ \A s \in Reviews \ {r} : decision'[s] = decision[s]
      /\ decision'[r] = decision[r] \/ (record[r].confirmed /\ decision'[r] = record[r].evidence)
  <2>1. CASE decision' = decision
    BY <1>0, <2>1 DEF VerdictTypes
  <2>2. CASE record[r].confirmed /\ decision' = [decision EXCEPT ![r] = record[r].evidence]
    BY <1>0, <2>2 DEF VerdictTypes
  <2>3. CASE ~record[r].confirmed /\ decision' = [decision EXCEPT ![r] = decision[r]]
    BY <1>0, <2>3 DEF VerdictTypes
  <2> QED BY <2>1, <2>2, <2>3 DEF Register, ReadRecord, Sleep, WindowEnds
<1>4. VerdictTypes'
  BY <1>0, <1>2, <1>3 DEF VerdictTypes
<1>5. VerdictOK(r)'
  <2>1. \A p : Proof(r, p) => Proof(r, p)'
    BY <1>1, ProofsStay DEF Keeps
  <2>2. PICK x, y : x = op[r].page /\ y = record[r].proof
    OBVIOUS
  <2>3. /\ op[r].kind = "evidence" => Proof(r, x)'
        /\ record[r].evidence # NoCall => Proof(r, y)'
    BY <1>0, <2>1, <2>2 DEF VerdictOK
  <2>4. /\ op[r].kind = "evidence" => Proof(r, op[r].page)'
        /\ record[r].evidence # NoCall => Proof(r, record[r].proof)'
    BY <1>0, <2>2, <2>3 DEF Proof
  <2> QED BY <1>0, <1>2, <1>3, <2>4 DEF VerdictOK
<1> QED BY <1>0, <1>1, <1>2, <1>3, <1>4, <1>5, OneVerdict

LEMMA DecideKeeps ==
    ASSUME VerdictInv, NEW r \in Reviews, Decide(r)
    PROVE  VerdictInv'
<1>1. /\ UNCHANGED <<serviceVars, asked, result, request, collector, workerVars, pageVars>>
      /\ stage' = [stage EXCEPT ![r] = "ended"] /\ UNCHANGED verdictOnly
  BY DEF Decide
<1>2. CompletionInv
  BY DEF VerdictInv
<1>3. QueueOK' /\ SameReceipts
  BY <1>1, <1>2, QuietService DEF CompletionInv
<1>4. LoopOK' /\ WorkerOK' /\ PagesOK' /\ ReceiptsKept
  BY <1>1, <1>2, <1>3 DEF CompletionInv, LoopOK, WorkerOK, PagesOK, workerVars, pageVars,
        SameReceipts, ReceiptsKept
<1>5. \A s \in Reviews : AnswerOK(s)'
  BY <1>1, <1>2, <1>4, AnswersKept
<1>6. Keeps
  BY <1>3, <1>4, <1>5 DEF Keeps, CompletionInv
<1> QED BY <1>1, <1>6, CompletionLeavesVerdicts

\* A restart forgets who waits and what was about to be saved, and nothing else.
LEMMA CrashKeeps ==
    ASSUME VerdictInv, VerdictCrash
    PROVE  VerdictInv'
<1>1. /\ UNCHANGED <<serviceVars, asked, result, request, stage, workerVars, pageVars>>
      /\ UNCHANGED <<calls, record, age, evOutbox>>
      /\ collector' = [r \in Reviews |-> CollectorAt("idle")]
      /\ op' = [r \in Reviews |-> NoOp]
  BY DEF VerdictCrash
<1>2. CompletionInv /\ VerdictTypes
  BY DEF VerdictInv
<1>3. QueueOK' /\ SameReceipts
  BY <1>1, <1>2, QuietService DEF CompletionInv
<1>4. LoopOK' /\ WorkerOK' /\ PagesOK'
  <2>1. CollectorAt("idle") \in Collectors
    BY DEF CollectorAt, Collectors
  <2> QED BY <1>1, <1>2, <2>1 DEF CompletionInv, LoopOK, WorkerOK, PagesOK, workerVars, pageVars
<1>5. ASSUME NEW r \in Reviews PROVE AnswerOK(r)'
  <2>1. AnswerOK(r) /\ ReceiptOf(r)' = ReceiptOf(r)
    BY <1>2, <1>3 DEF CompletionInv, SameReceipts
  <2>2. collector'[r].receipt.status # "completed"
    BY <1>1 DEF CollectorAt, NoReceipt
  <2> QED BY <1>1, <2>1, <2>2 DEF AnswerOK
<1>6. VerdictTypes'
  <2>1. NoOp \in [kind: {"none", "accept", "evidence"}, call: Calls \cup {NoCall},
                  page: Pages \cup {NoPage}]
    BY DEF NoOp
  <2>2. decision' \in [Reviews -> Calls \cup {NoCall}]
    BY <1>2 DEF VerdictCrash, VerdictTypes
  <2>3. waiter' \in [Reviews -> {"none", "registered", "unconfirmed", "woken", "asleep",
                                 "signalled", "gone", "timeout"}]
    BY <1>2 DEF VerdictCrash, VerdictTypes
  <2> QED BY <1>1, <1>2, <2>1, <2>2, <2>3 DEF VerdictTypes
<1>7. ASSUME NEW r \in Reviews PROVE VerdictOK(r)'
  <2>1. VerdictOK(r) /\ ReceiptsKept
    BY <1>3 DEF VerdictInv, SameReceipts, ReceiptsKept
  <2>2. PICK y : y = record[r].proof
    OBVIOUS
  <2>3. record[r].evidence # NoCall => Proof(r, y)'
    BY <2>1, <2>2, ProofsStay DEF VerdictOK
  <2>4. record[r].evidence # NoCall => Proof(r, record[r].proof)'
    BY <1>1, <2>2, <2>3 DEF Proof
  <2>5. op'[r].kind = "none"
    BY <1>1 DEF NoOp
  <2>6. decision'[r] \in {decision[r], NoCall} /\ waiter'[r] \in {waiter[r], "none"}
    BY DEF VerdictCrash
  <2> QED BY <1>1, <2>1, <2>4, <2>5, <2>6 DEF VerdictOK
<1> QED BY <1>3, <1>4, <1>5, <1>6, <1>7 DEF VerdictInv, CompletionInv

-----------------------------------------------------------------------------
(* The theorems *)

LEMMA VerdictStarts == VerdictInit => VerdictInv
<1> SUFFICES ASSUME VerdictInit PROVE VerdictInv
  OBVIOUS
<1>1. QueueOK
  BY DEF VerdictInit, CompletionInit, QueueOK, Archived
<1>2. LoopOK
  <2>1. NoResult \in Results /\ CollectorAt("idle") \in Collectors
    BY DEF NoResult, Results, CollectorAt, Collectors
  <2> QED BY <2>1 DEF VerdictInit, CompletionInit, LoopOK
<1>3. WorkerOK
  BY DEF VerdictInit, CompletionInit, WorkerOK, NoTask
<1>4. PagesOK
  BY DEF VerdictInit, CompletionInit, PagesOK, PageAt
<1>5. \A r \in Reviews : AnswerOK(r)
  BY DEF VerdictInit, CompletionInit, AnswerOK, NoResult, CollectorAt, NoReceipt
<1>6. VerdictTypes
  <2>1. evOutbox \subseteq [call: Calls, page: Pages]
    BY DEF VerdictInit
  <2>2. /\ NoRecord \in [calls: SUBSET Calls, evidence: Calls \cup {NoCall},
                         proof: Pages \cup {NoPage}, confirmed: BOOLEAN]
        /\ NoOp \in [kind: {"none", "accept", "evidence"}, call: Calls \cup {NoCall},
                     page: Pages \cup {NoPage}]
    BY DEF NoRecord, NoOp
  <2> QED BY <2>1, <2>2, VerdictAssumption DEF VerdictInit, VerdictTypes
<1>7. \A r \in Reviews : VerdictOK(r)
  BY VerdictAssumption DEF VerdictInit, VerdictOK, NoOp, NoRecord
<1> QED BY <1>1, <1>2, <1>3, <1>4, <1>5, <1>6, <1>7 DEF VerdictInv, CompletionInv

\* The invariant holds whatever the worker, the pages, the chat and the restarts do.
THEOREM VerdictInvariance == VerdictSpec => []VerdictInv
<1>1. VerdictInv /\ [VerdictNext]_verdictVars => VerdictInv'
  <2> SUFFICES ASSUME VerdictInv, [VerdictNext]_verdictVars PROVE VerdictInv'
    OBVIOUS
  <2>1. CASE CompletionStep
    BY <2>1, CompletionStepKeeps
  <2>2. CASE EvidenceStep
    BY <2>2, EvidenceBegins, OutboxKeeps DEF EvidenceStep
  <2>3. CASE VerdictCrash
    BY <2>3, CrashKeeps
  <2>4. CASE VerdictTick
    BY <2>4, OutboxKeeps
  <2>5. ASSUME NEW c \in Calls, BeginAccept(c) PROVE VerdictInv'
    <3>1. ReviewOf[c] \in Reviews
      BY VerdictAssumption
    <3> QED BY <2>5, <3>1, CallsKeep
  <2>6. ASSUME NEW r \in Reviews, VerdictStep(r) PROVE VerdictInv'
    BY <2>6, CallsKeep, EvidenceSaved, WaitingKeeps, DecideKeeps DEF VerdictStep
  <2>7. CASE UNCHANGED verdictVars
    BY <2>7, CompletionStays, CompletionLeavesVerdicts DEF verdictVars, VerdictInv
  <2> QED BY <2>1, <2>2, <2>3, <2>4, <2>5, <2>6, <2>7 DEF VerdictNext
<1> QED BY <1>1, VerdictStarts, PTL DEF VerdictSpec

\* Every variable keeps its type, the fields of a watch and of a record included.
THEOREM VerdictTypeCorrect == VerdictSpec => []VerdictTypeOK
<1>1. VerdictInv => VerdictTypeOK
  <2> SUFFICES ASSUME VerdictInv PROVE VerdictTypeOK
    OBVIOUS
  <2>1. PICK n \in Nat : DOMAIN queue = 1 .. n /\ \A i \in 1 .. n : queue[i] \in Watches
    BY DEF VerdictInv, CompletionInv, QueueOK
  <2>2. \A i \in DOMAIN queue :
            /\ queue[i].review \in Reviews /\ queue[i].phase \in {"queued", "leased"} \cup Terminal
            /\ queue[i].receipt \in Receipts \cup {NoReceipt}
    BY <2>1 DEF Watches
  <2>3. archive \in [Reviews -> Receipts \cup {NoReceipt}]
    BY DEF VerdictInv, CompletionInv, QueueOK
  <2>4. \A r \in Reviews : result[r].status \in {"none", "TIMEOUT", "FAILED", "COMPLETED"}
    BY DEF VerdictInv, CompletionInv, LoopOK, Results
  <2>5. asked \subseteq Reviews /\ request \in [Reviews -> {"requested", "reviewing", "completed"}]
    BY DEF VerdictInv, CompletionInv, LoopOK
  <2>6. stage \in [Reviews -> {"none", "completion", "verdict", "ended"}]
    BY DEF VerdictInv, CompletionInv, LoopOK
  <2>7. outbox \in Seq([review: Reviews, page: Pages, status: Terminal])
    BY DEF VerdictInv, CompletionInv, WorkerOK
  <2>8. CompletionTypeOK
    BY <2>2, <2>3, <2>4, <2>5, <2>6, <2>7 DEF CompletionTypeOK
  <2> QED BY <2>8 DEF VerdictInv, VerdictTypes, VerdictTypeOK
<1> QED BY <1>1, VerdictInvariance, PTL

\* A completed Review Result is the answer that the page's receipt reports, and a
\* request is completed only with such a result: also after timeouts, a restart
\* between the two writes and the eviction of the watch.
THEOREM AlwaysTruthful == VerdictSpec => []AnswerTruthful
<1>1. VerdictInv => AnswerTruthful
  BY DEF VerdictInv, CompletionInv, AnswerOK, AnswerTruthful
<1> QED BY <1>1, VerdictInvariance, PTL

\* The loop acts only on an accepted call that the recorded evidence names, and the
\* evidence comes from the page that delivered the review or gave its answer.
THEOREM AlwaysProved == VerdictSpec => []DecisionIsProved
<1>1. VerdictInv => DecisionIsProved
  BY DEF VerdictInv, VerdictOK, Proof, DecisionIsProved
<1> QED BY <1>1, VerdictInvariance, PTL

\* No loop sleeps through its verdict.
THEOREM NeverMissed == VerdictSpec => []NoVerdictMissed
<1>1. VerdictInv => NoVerdictMissed
  BY DEF VerdictInv, VerdictOK, NoVerdictMissed
<1> QED BY <1>1, VerdictInvariance, PTL
==============================================================================

--------------------------- MODULE ReviewCompletion ---------------------------
(***************************************************************************)
(* The way of ChatGPT's answer from the page to the Review Result: the     *)
(* loop's collector (review-completion-router.ts and the extension         *)
(* adapter), the durable queue of watches (extension-review-completion.ts),*)
(* the completion half of the background worker with its own in-flight     *)
(* list and acknowledgement outbox (background.js), and the pages of the   *)
(* conversation that read the answer (content.js, fiber.js).               *)
(*                                                                         *)
(* One conversation and one browser.  A page is one document at one        *)
(* navigation epoch: a navigation, reload or closing makes it gone.  A     *)
(* review has one watch, so a review names its watch.                      *)
(***************************************************************************)
EXTENDS Naturals, SequencesExt

CONSTANTS
    Reviews,         \* review requests whose delivery was confirmed
    Pages,
    NoPage,
    MaxCompletions,  \* 100 in the code
    LeaseTicks,      \* bound: a lease of 30 seconds, in ticks
    MaxCrashes,      \* bound: restarts of the runtime
    MaxFaults        \* bound: failed writes of the runtime

ASSUME CompletionAssumption ==
    /\ NoPage \notin Pages
    /\ {MaxCompletions, LeaseTicks} \subseteq Nat \ {0}
    /\ {MaxCrashes, MaxFaults} \subseteq Nat

VARIABLES
    asked,       \* the reviews the loops collect
    queue,       \* the persisted watches, in the order of their creation
    archive,     \* extension_transport of the Review Results
    result,      \* the Review Result of each review
    request,     \* the status of each review request
    collector,   \* collectOnce of each review
    stage,       \* the stage of the loop of each review
    inFlight,    \* completionInFlight of the worker, durable
    outbox,      \* completionAckOutbox of the worker, durable
    task,        \* the running task of the worker's serial queue
    page,        \* the completion poll of each page
    chat,        \* what a page can read of each answer
    crashes, faults

serviceVars == <<queue, archive>>
loopVars == <<asked, result, request, collector, stage>>
workerVars == <<inFlight, outbox, task>>
pageVars == <<page, chat>>
budgetVars == <<crashes, faults>>
completionVars == <<serviceVars, loopVars, workerVars, pageVars, budgetVars>>

-----------------------------------------------------------------------------
Terminal == {"completed", "failed", "ambiguous"}
Receipts == [page: Pages, status: Terminal]
NoReceipt == [page |-> NoPage, status |-> "none"]

Watch(r) == [review |-> r, phase |-> "queued", page |-> NoPage, left |-> 0,
             receipt |-> NoReceipt, barred |-> FALSE]
NoResult == [status |-> "none", page |-> NoPage]
NoTask == [step |-> "idle", goal |-> "none", page |-> NoPage, review |-> "none", left |-> 0]
PageAt(pc) == [pc |-> pc, review |-> "none", status |-> "none"]
CollectorAt(pc) == [pc |-> pc, receipt |-> NoReceipt]

CompletionTypeOK ==
    /\ asked \subseteq Reviews
    /\ \A i \in DOMAIN queue :
        /\ queue[i].review \in Reviews /\ queue[i].phase \in {"queued", "leased"} \cup Terminal
        /\ queue[i].receipt \in Receipts \cup {NoReceipt}
    /\ archive \in [Reviews -> Receipts \cup {NoReceipt}]
    /\ \A r \in Reviews : result[r].status \in {"none", "TIMEOUT", "FAILED", "COMPLETED"}
    /\ request \in [Reviews -> {"requested", "reviewing", "completed"}]
    /\ stage \in [Reviews -> {"none", "completion", "verdict", "ended"}]
    /\ outbox \in Seq([review: Reviews, page: Pages, status: Terminal])

CompletionInit ==
    /\ asked \in SUBSET Reviews
    /\ queue = <<>> /\ archive = [r \in Reviews |-> NoReceipt]
    /\ result = [r \in Reviews |-> NoResult]
    /\ request = [r \in Reviews |-> "requested"]
    /\ collector = [r \in Reviews |-> CollectorAt("idle")]
    /\ stage = [r \in Reviews |-> IF r \in asked THEN "completion" ELSE "none"]
    /\ inFlight = {} /\ outbox = <<>> /\ task = NoTask
    /\ page \in [Pages -> {PageAt("idle"), PageAt("gone")}]
    /\ chat = [r \in Reviews |-> "thinking"]
    /\ crashes \in 0 .. MaxCrashes /\ faults \in 0 .. MaxFaults

-----------------------------------------------------------------------------
(* The service *)

At(r) == {i \in DOMAIN queue : queue[i].review = r}
Queued(r) == At(r) # {}
Entry(r) == queue[CHOOSE i \in At(r) : TRUE]
\* get and getByReviewRequestId: the queue first, then the archived transports.
ReceiptOf(r) == IF Queued(r) THEN Entry(r).receipt ELSE archive[r]
Known(r) == Queued(r) \/ archive[r] # NoReceipt
Waiting(r) == collector[r].pc = "waiting"

\* A completed watch may leave the queue once its content is the Review Result
\* and nobody waits for it.
Evictable(w) ==
    /\ w.phase = "completed" /\ ~Waiting(w.review)
    /\ result[w.review] = [status |-> "COMPLETED", page |-> w.receipt.page]
Victim == SelectInSeq(queue, Evictable)

Full == Len(queue) >= MaxCompletions
ArchivedNothing(w) == archive
\* The receipt is published in the Review Result before it leaves the queue.
Archived(w) == [archive EXCEPT ![w.review] = w.receipt]

Goto(r, pc, receipt) == collector' = [collector EXCEPT ![r] = [pc |-> pc, receipt |-> receipt]]
FailedReceipt == [page |-> NoPage, status |-> "failed"]

Enqueue(r) ==
    /\ collector[r].pc = "enqueue"
    /\ \/ Known(r) /\ Goto(r, "await", NoReceipt) /\ UNCHANGED serviceVars
       \/ /\ ~Known(r) /\ ~Full
          /\ queue' = Append(queue, Watch(r))
          /\ Goto(r, "await", NoReceipt) /\ UNCHANGED archive
       \/ /\ ~Known(r) /\ Full /\ Victim > 0
          /\ archive' = Archived(queue[Victim])
          /\ queue' = Append(RemoveAt(queue, Victim), Watch(r))
          /\ Goto(r, "await", NoReceipt)
       \/ /\ ~Known(r) /\ Full /\ Victim = 0     \* the queue is full
          /\ Goto(r, "settle", FailedReceipt) /\ UNCHANGED serviceVars
    /\ UNCHANGED <<asked, result, request, stage, workerVars, pageVars, budgetVars>>

\* The queue cannot be written, perhaps after a receipt was archived; the
\* adapter reports every error as a failed completion.
EnqueueFails(r) ==
    /\ collector[r].pc = "enqueue" /\ ~Known(r) /\ faults < MaxFaults
    /\ faults' = faults + 1
    /\ archive' = IF Full /\ Victim > 0 THEN Archived(queue[Victim]) ELSE archive
    /\ Goto(r, "settle", FailedReceipt)
    /\ UNCHANGED <<queue, asked, result, request, stage, workerVars, pageVars, crashes>>

\* awaitResult looks for the receipt and registers the waiter in one turn.
AwaitResult(r) ==
    /\ collector[r].pc = "await"
    /\ IF ReceiptOf(r) # NoReceipt THEN Goto(r, "settle", ReceiptOf(r))
       ELSE Goto(r, "waiting", NoReceipt)
    /\ UNCHANGED <<serviceVars, asked, result, request, stage, workerVars, pageVars, budgetVars>>

\* After two minutes: no receipt.
WaitTimeout(r) ==
    /\ Waiting(r)
    /\ Goto(r, "settle", NoReceipt)
    /\ UNCHANGED <<serviceVars, asked, result, request, stage, workerVars, pageVars, budgetVars>>

\* claim: expired leases go back to the queue up to the caller's own live one,
\* which is returned; otherwise the first watch the page may have is leased.
Expired(w) == w.phase = "leased" /\ w.left = 0
Requeued(w) == [w EXCEPT !.phase = "queued", !.page = NoPage]
Own(p) == SelectInSeq(queue, LAMBDA w : w.phase = "leased" /\ w.left > 0 /\ w.page = p)
Requeue(p) ==
    [i \in DOMAIN queue |-> IF Expired(queue[i]) /\ (Own(p) = 0 \/ i < Own(p))
                            THEN Requeued(queue[i]) ELSE queue[i]]
Claimable(w) == w.phase = "queued" /\ ~w.barred
Granted(p) == IF Own(p) > 0 THEN Own(p) ELSE SelectInSeq(Requeue(p), Claimable)
ClaimQueue(p) ==
    IF Own(p) > 0 \/ Granted(p) = 0 THEN Requeue(p)
    ELSE [Requeue(p) EXCEPT ![Granted(p)] =
            [@ EXCEPT !.phase = "leased", !.page = p, !.left = LeaseTicks]]

\* reportRecoveryFailure: a page that needs a login, or is not there, bars the
\* watch from being claimed, for good.
ReportRecoveryFailure(r) ==
    /\ Queued(r) /\ Entry(r).receipt = NoReceipt /\ ~Entry(r).barred
    /\ queue' = [i \in DOMAIN queue |-> [queue[i] EXCEPT !.barred = @ \/ i \in At(r)]]
    /\ UNCHANGED <<archive, loopVars, workerVars, pageVars, budgetVars>>

\* acknowledge: the same receipt again is accepted, another one never; a new
\* one only from the owner of the live lease.
LiveOwner(a) == /\ Queued(a.review) /\ Entry(a.review).phase = "leased"
                /\ Entry(a.review).left > 0 /\ Entry(a.review).page = a.page
AckReceipt(a) == [page |-> a.page, status |-> a.status]
AckIsNew(a) == ReceiptOf(a.review) = NoReceipt /\ LiveOwner(a)
AckAccepted(a) == AckIsNew(a) \/ ReceiptOf(a.review) = AckReceipt(a)
RecordAck(a) ==
    IF ~AckIsNew(a) THEN UNCHANGED <<queue, collector>>
    ELSE /\ queue' = [i \in DOMAIN queue |-> IF i \notin At(a.review) THEN queue[i]
                ELSE [queue[i] EXCEPT !.phase = a.status, !.page = NoPage, !.left = 0,
                                      !.receipt = AckReceipt(a)]]
         /\ IF Waiting(a.review) THEN Goto(a.review, "settle", AckReceipt(a))
            ELSE UNCHANGED collector

-----------------------------------------------------------------------------
(* The loop and the completion router *)

\* The stage review_completion: a result that is missing or timed out is
\* collected; the router marks the request while it waits.
Collect(r) ==
    /\ stage[r] = "completion" /\ collector[r].pc = "idle"
    /\ result[r].status \in {"none", "TIMEOUT"}
    /\ request' = [request EXCEPT ![r] = "reviewing"]
    /\ Goto(r, "enqueue", NoReceipt)
    /\ UNCHANGED <<serviceVars, asked, result, stage, workerVars, pageVars, budgetVars>>

ResultFor(receipt) ==
    CASE receipt.status = "completed" -> [status |-> "COMPLETED", page |-> receipt.page]
      [] receipt.status = "none"      -> [status |-> "TIMEOUT", page |-> NoPage]
      [] OTHER                        -> [status |-> "FAILED", page |-> NoPage]

\* createReviewResult: a completed result is kept, another one replaced.
Kept(r) == result[r].status = "COMPLETED"
SaveResult(r) ==
    /\ collector[r].pc = "settle"
    /\ result' = [result EXCEPT ![r] = IF Kept(r) THEN @ ELSE ResultFor(collector[r].receipt)]
    /\ Goto(r, "close", NoReceipt)
    /\ UNCHANGED <<serviceVars, asked, request, stage, workerVars, pageVars, budgetVars>>
SaveResultFails(r) ==
    /\ collector[r].pc = "settle" /\ faults < MaxFaults
    /\ faults' = faults + 1
    /\ Goto(r, "idle", NoReceipt)
    /\ UNCHANGED <<serviceVars, asked, result, request, stage, workerVars, pageVars, crashes>>

SettleRequest(r) ==
    /\ collector[r].pc = "close"
    /\ request' = [request EXCEPT ![r] =
            IF result[r].status = "COMPLETED" THEN "completed" ELSE "requested"]
    /\ Goto(r, "idle", NoReceipt)
    /\ UNCHANGED <<serviceVars, asked, result, stage, workerVars, pageVars, budgetVars>>

\* What the loop makes of the result; a timeout is collected again.
ReviewCompleted(r) ==
    /\ stage[r] = "completion" /\ collector[r].pc = "idle" /\ result[r].status = "COMPLETED"
    /\ request' = [request EXCEPT ![r] = "completed"]
    /\ stage' = [stage EXCEPT ![r] = "verdict"]
    /\ UNCHANGED <<serviceVars, asked, result, collector, workerVars, pageVars, budgetVars>>
CollectFailed(r) ==
    /\ stage[r] = "completion" /\ collector[r].pc = "idle" /\ result[r].status = "FAILED"
    /\ request' = [request EXCEPT ![r] = "requested"]
    /\ stage' = [stage EXCEPT ![r] = "ended"]
    /\ UNCHANGED <<serviceVars, asked, result, collector, workerVars, pageVars, budgetVars>>

-----------------------------------------------------------------------------
(* The worker *)

Idle == task.step = "idle"
Reply(p, next) == page' = IF p = NoPage \/ page[p].pc = "gone" THEN page
                          ELSE [page EXCEPT ![p] = next]
Finish(next) == task' = NoTask /\ Reply(task.page, next)
Refuse == Finish(PageAt("idle"))

\* An idle page polls; while it waits it may be left.
BeginClaim(p) ==
    /\ Idle /\ page[p].pc = "idle"
    /\ page' = [page EXCEPT ![p].pc = "claiming"]
    /\ task' = [NoTask EXCEPT !.step = "flush", !.goal = "claim", !.page = p]
    /\ UNCHANGED <<serviceVars, loopVars, inFlight, outbox, chat, budgetVars>>

\* The recovery alarm flushes and drops what expired.
BeginRecovery ==
    /\ Idle /\ (outbox # <<>> \/ \E e \in inFlight : e.left = 0)
    /\ task' = [NoTask EXCEPT !.step = "flush", !.goal = "recover"]
    /\ UNCHANGED <<serviceVars, loopVars, inFlight, outbox, pageVars, budgetVars>>

\* The outbox is posted in order; the first refusal ends the flush, and the
\* refused entry stays where it is.
PostAck ==
    /\ task.step = "flush" /\ outbox # <<>>
    /\ RecordAck(Head(outbox))
    /\ IF AckAccepted(Head(outbox)) THEN task' = [task EXCEPT !.step = "remove"] /\ UNCHANGED page
       ELSE Refuse
    /\ UNCHANGED <<archive, asked, result, request, stage, inFlight, outbox, chat, budgetVars>>

\* The request or its answer is lost, or the service cannot write its queue.
PostLost ==
    /\ task.step = "flush" /\ outbox # <<>>
    /\ RecordAck(Head(outbox)) \/ UNCHANGED <<queue, collector>>
    /\ Refuse
    /\ UNCHANGED <<archive, asked, result, request, stage, inFlight, outbox, chat, budgetVars>>

RemoveAck ==
    /\ task.step = "remove"
    /\ outbox' = Tail(outbox)
    /\ task' = [task EXCEPT !.step = "flush"]
    /\ UNCHANGED <<serviceVars, loopVars, inFlight, pageVars, budgetVars>>

Flushed ==
    /\ task.step = "flush" /\ outbox = <<>>
    /\ inFlight' = IF task.goal = "ack" THEN inFlight ELSE {e \in inFlight : e.left > 0}
    /\ IF task.goal = "claim" THEN task' = [task EXCEPT !.step = "claim"] /\ UNCHANGED page
       ELSE Refuse
    /\ UNCHANGED <<serviceVars, loopVars, outbox, chat, budgetVars>>

PostClaim ==
    /\ task.step = "claim"
    /\ queue' = ClaimQueue(task.page)
    /\ IF Granted(task.page) = 0 THEN Refuse
       ELSE LET w == ClaimQueue(task.page)[Granted(task.page)] IN
            /\ task' = [task EXCEPT !.step = "record", !.review = w.review, !.left = w.left]
            /\ UNCHANGED page
    /\ UNCHANGED <<archive, loopVars, inFlight, outbox, chat, budgetVars>>

ClaimLost ==
    /\ task.step = "claim"
    /\ queue' = ClaimQueue(task.page) \/ UNCHANGED queue
    /\ Refuse
    /\ UNCHANGED <<archive, loopVars, inFlight, outbox, chat, budgetVars>>

\* The lease is saved, in the place of an older one of the same watch, before
\* the page learns of it.
RecordClaim ==
    /\ task.step = "record"
    /\ IF task.left = 0 THEN Refuse /\ UNCHANGED inFlight
       ELSE /\ inFlight' = {e \in inFlight : e.review # task.review}
                    \cup {[review |-> task.review, page |-> task.page, left |-> task.left]}
            /\ Finish([PageAt("scanning") EXCEPT !.review = task.review])
    /\ UNCHANGED <<serviceVars, loopVars, outbox, chat, budgetVars>>

\* completion_ack: the lease of this page must be live; the acknowledgement is
\* saved in one commit with the removal of the lease, then flushed.  A page
\* sends it once, so the handler's branch for a repeated one is left out.
AckOf(p) == [review |-> page[p].review, page |-> p, status |-> page[p].status]
OwnLeases(p) == {e \in inFlight : e.review = page[p].review /\ e.page = p /\ e.left > 0}
Unleased(p) == inFlight \ OwnLeases(p)
ReceiveAck(p) ==
    /\ Idle /\ page[p].pc = "acking"
    /\ \/ /\ OwnLeases(p) # {}
          /\ outbox' = Append(outbox, AckOf(p)) /\ inFlight' = Unleased(p)
          /\ task' = [NoTask EXCEPT !.step = "flush", !.goal = "ack", !.page = p]
          /\ UNCHANGED page
       \/ /\ OwnLeases(p) = {}
          /\ Reply(p, PageAt("idle")) /\ UNCHANGED workerVars
    /\ UNCHANGED <<serviceVars, loopVars, chat, budgetVars>>

Suspend ==
    /\ ~Idle
    /\ task' = NoTask
    /\ Reply(task.page, PageAt("idle"))
    /\ UNCHANGED <<serviceVars, loopVars, inFlight, outbox, chat, budgetVars>>

-----------------------------------------------------------------------------
(* The pages, and time *)

\* completionFiberScan: nothing is reported while the answer is being written
\* or its text cannot be read; two candidates are ambiguous.
Scanned(r) ==
    CASE chat[r] = "thinking" -> "pending"
      [] chat[r] = "answered" -> "completed"
      [] chat[r] = "twofold"  -> "ambiguous"
      [] chat[r] = "too_long" -> "failed"
Scan(p) ==
    /\ page[p].pc = "scanning"
    /\ LET seen == Scanned(page[p].review) IN
       page' = [page EXCEPT ![p] = IF seen = "pending" THEN PageAt("idle")
                                   ELSE [@ EXCEPT !.pc = "acking", !.status = seen]]
    /\ UNCHANGED <<serviceVars, loopVars, workerVars, chat, budgetVars>>

\* ChatGPT finishes its answer; the user may make a second one of it.
Answer(r) ==
    /\ r \in asked /\ chat[r] = "thinking"
    /\ \E c \in {"answered", "twofold", "too_long"} : chat' = [chat EXCEPT ![r] = c]
    /\ UNCHANGED <<serviceVars, loopVars, workerVars, page, budgetVars>>

\* Navigation, reload or closing: the poll ends, what was sent is on its way.
Leave(p) ==
    /\ page[p].pc # "gone"
    /\ page' = [page EXCEPT ![p] = PageAt("gone")]
    /\ UNCHANGED <<serviceVars, loopVars, workerVars, chat, budgetVars>>

Aged(e) == [e EXCEPT !.left = IF @ = 0 THEN 0 ELSE @ - 1]
Tick ==
    /\ \/ \E i \in DOMAIN queue : queue[i].left > 0
       \/ \E e \in inFlight : e.left > 0
       \/ task.left > 0
    /\ queue' = [i \in DOMAIN queue |-> Aged(queue[i])]
    /\ inFlight' = {Aged(e) : e \in inFlight}
    /\ task' = Aged(task)
    /\ UNCHANGED <<archive, loopVars, outbox, pageVars, budgetVars>>

CollectorStep(r) ==
    \/ Collect(r) \/ Enqueue(r) \/ EnqueueFails(r) \/ AwaitResult(r) \/ WaitTimeout(r)
    \/ SaveResult(r) \/ SaveResultFails(r) \/ SettleRequest(r)
    \/ ReviewCompleted(r) \/ CollectFailed(r)
WorkerStep ==
    \/ \E p \in Pages : BeginClaim(p) \/ ReceiveAck(p)
    \/ BeginRecovery \/ PostAck \/ PostLost \/ RemoveAck \/ Flushed
    \/ PostClaim \/ ClaimLost \/ RecordClaim \/ Suspend
PageStep(p) == Scan(p) \/ Leave(p)
=============================================================================

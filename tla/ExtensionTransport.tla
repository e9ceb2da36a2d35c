-------------------------- MODULE ExtensionTransport --------------------------
(***************************************************************************)
(* One command on its way from the command service to a ChatGPT page:      *)
(* the service (ExtensionDelivery), the extension's background worker      *)
(* (background.js) with its durable in-flight list and acknowledgement     *)
(* outbox, and the content script of every open document (content.js).     *)
(*                                                                         *)
(* A worker runs one task of its serial delivery queue at a time; a task   *)
(* is cut into steps at each request to the service and at each commit to  *)
(* chrome.storage, so the worker can be suspended, a request or its answer *)
(* lost, a page navigated or closed, and time pass between any two.        *)
(* Waiters, eviction and reviews are the business of ExtensionDelivery.    *)
(***************************************************************************)
EXTENDS ExtensionDelivery

CONSTANTS
    Clients,      \* extension installations (client_id)
    Documents,    \* content documents, one per page load
    ClientOf,     \* the installation each document belongs to
    NoDocument,   \* no document: a task started by the recovery alarm
    MaxEpoch      \* bound: navigations inside one document

ASSUME TransportAssumption ==
    /\ ClientOf \in [Documents -> Clients]
    /\ NoDocument \notin Documents
    /\ MaxEpoch \in Nat
    /\ Owners = [doc: Documents, epoch: 0 .. MaxEpoch]

VARIABLES
    inFlight,     \* deliveryInFlight of each worker, durable
    outbox,       \* deliveryAckOutbox of each worker, durable
    task,         \* the running task of each worker's serial queue
    page,         \* the delivery poll of each document
    epoch,        \* navigationEpoch of each document
    registered,   \* the epoch each worker has registered for a document
    posted        \* messages ChatGPT really got, per physical command

workerVars == <<inFlight, outbox, task>>
pageVars == <<page, epoch, registered, posted>>
transportVars == <<vars, workerVars, pageVars>>

-----------------------------------------------------------------------------
Acks == [id: Ids, owner: Owners, outcome: AckOutcomes]
NoAck == [id |-> 0, owner |-> NoOwner, outcome |-> "none"]
Entries == [id: Ids, owner: Owners, left: 0 .. LeaseTicks, phase: {"claimed", "submitting"}]

\* blocked: a live in-flight entry was there when the task began.
Task == [step: {"idle", "flush", "remove", "claim", "record"},
         goal: {"none", "claim", "recover", "ack"},
         doc: Documents \cup {NoDocument}, blocked: BOOLEAN,
         ack: Acks \cup {NoAck}, cmd: Ids \cup {0}, left: 0 .. LeaseTicks]
NoTask == [step |-> "idle", goal |-> "none", doc |-> NoDocument, blocked |-> FALSE,
           ack |-> NoAck, cmd |-> 0, left |-> 0]

Page == [pc: {"unopened", "idle", "claiming", "holding", "arming", "armed", "acking", "closed"},
         epoch: 0 .. MaxEpoch, cmd: Ids \cup {0}, outcome: AckOutcomes \cup {"none"}]
PageAt(pc) == [pc |-> pc, epoch |-> 0, cmd |-> 0, outcome |-> "none"]

OwnerOf(d) == [doc |-> d, epoch |-> page[d].epoch]
Idle(c) == task[c].step = "idle"

TransportTypeOK ==
    /\ TypeOK
    /\ inFlight \in [Clients -> SUBSET Entries]
    /\ outbox \in [Clients -> SUBSET Acks]
    /\ task \in [Clients -> Task]
    /\ page \in [Documents -> Page]
    /\ epoch \in [Documents -> 0 .. MaxEpoch]
    /\ registered \in [Documents -> 0 .. MaxEpoch]
    /\ posted \in [Ids -> Nat]

TransportInit ==
    /\ Init
    /\ inFlight = [c \in Clients |-> {}]
    /\ outbox = [c \in Clients |-> {}]
    /\ task = [c \in Clients |-> NoTask]
    /\ page = [d \in Documents |-> PageAt("unopened")]
    /\ epoch = [d \in Documents |-> 0]
    /\ registered = [d \in Documents |-> 0]
    /\ posted = [i \in Ids |-> 0]

-----------------------------------------------------------------------------
(* The background worker *)

\* The task ends; the document that asked for it, if still there, gets its answer.
Reply(c, next) ==
    /\ task' = [task EXCEPT ![c] = NoTask]
    /\ page' = IF task[c].doc = NoDocument \/ page[task[c].doc].pc = "closed" THEN page
               ELSE [page EXCEPT ![task[c].doc] = next]
Refuse(c) == Reply(c, PageAt("idle"))

\* authorizeDocument: the request does not come from a superseded navigation.
Authorized(d) == page[d].epoch >= registered[d]

LostSubmitsForgotten(c) == {}
LostSubmits(c) == {e \in inFlight[c] : e.left = 0 /\ e.phase = "submitting"}

\* queueDeliveryAck: the entries move from the in-flight list to the outbox in
\* one commit.
QueueAck(c, entries, outcome) ==
    /\ inFlight' = [inFlight EXCEPT ![c] = @ \ entries]
    /\ outbox' = [outbox EXCEPT ![c] = @ \cup
            {[id |-> e.id, owner |-> e.owner, outcome |-> outcome] : e \in entries}]

\* The status reported for a submit whose result was lost.
LostResultNotSent == "retryable"
LostResult == "ambiguous"

\* prepareDeliveryClaim: a submit whose result never came becomes an ambiguous
\* acknowledgement before anything else may be claimed.
Prepare(c, goal, d) ==
    /\ QueueAck(c, LostSubmits(c), LostResult)
    /\ task' = [task EXCEPT ![c] = [NoTask EXCEPT !.step = "flush", !.goal = goal, !.doc = d,
                                                  !.blocked = \E e \in inFlight[c] : e.left > 0]]

\* delivery_claim from a document, or the one-minute recovery alarm.
BeginClaim(c, d) ==
    /\ Idle(c) /\ ClientOf[d] = c /\ page[d].pc = "claiming" /\ Authorized(d)
    /\ Prepare(c, "claim", d)
    /\ UNCHANGED <<vars, pageVars>>

BeginRecovery(c) ==
    /\ Idle(c)
    /\ Prepare(c, "recover", NoDocument)
    /\ UNCHANGED <<vars, pageVars>>

\* flushDeliveryAcks: POST /delivery/ack, then drop the entry only on success.
ServiceAck(a) ==
    IF Recordable(a.id, a.owner) THEN Acknowledge(a.id, a.owner, a.outcome)
    ELSE UNCHANGED vars

PostAck(c) ==
    /\ task[c].step = "flush"
    /\ \E a \in outbox[c] :
        /\ ServiceAck(a)
        /\ IF AckAnswer(a.id, a.owner, a.outcome) = 200
           THEN /\ task' = [task EXCEPT ![c].step = "remove", ![c].ack = a]
                /\ UNCHANGED page
           ELSE Refuse(c)
    /\ UNCHANGED <<inFlight, outbox, epoch, registered, posted>>

\* The bridge is unreachable, or its answer is lost after the service acted.
PostAckLost(c) ==
    /\ task[c].step = "flush"
    /\ \E a \in outbox[c] : ServiceAck(a) \/ UNCHANGED vars
    /\ Refuse(c)
    /\ UNCHANGED <<inFlight, outbox, epoch, registered, posted>>

RemoveAckForgotten(c) ==
    /\ task[c].step = "remove"
    /\ task' = [task EXCEPT ![c].step = "flush", ![c].ack = NoAck]
    /\ UNCHANGED <<vars, inFlight, outbox, pageVars>>
RemoveAck(c) ==
    /\ task[c].step = "remove"
    /\ outbox' = [outbox EXCEPT ![c] = {a \in @ : a.id # task[c].ack.id}]
    /\ task' = [task EXCEPT ![c].step = "flush", ![c].ack = NoAck]
    /\ UNCHANGED <<vars, inFlight, pageVars>>

\* Nothing is left to flush: an acknowledgement task is done, a claim goes on
\* unless a live command was in flight, after dropping the expired entries.
Flushed(c) ==
    /\ task[c].step = "flush" /\ outbox[c] = {}
    /\ IF task[c].goal = "ack" \/ task[c].blocked
       THEN Refuse(c) /\ UNCHANGED inFlight
       ELSE /\ inFlight' = [inFlight EXCEPT ![c] = {}]
            /\ IF task[c].goal = "recover" THEN Refuse(c)
               ELSE task' = [task EXCEPT ![c].step = "claim"] /\ UNCHANGED page
    /\ UNCHANGED <<vars, outbox, epoch, registered, posted>>

\* POST /delivery/claim: the service leases, or returns the lease it granted.
PostClaim(c) ==
    /\ task[c].step = "claim"
    /\ LET o == OwnerOf(task[c].doc)  i == Granted(o) IN
        /\ Claim(o)
        /\ IF i = 0 THEN Refuse(c)
           ELSE /\ task' = [task EXCEPT ![c].step = "record", ![c].cmd = i,
                                        ![c].left = AfterClaim(o)[i].lease.left]
                /\ UNCHANGED page
    /\ UNCHANGED <<inFlight, outbox, epoch, registered, posted>>

PostClaimLost(c) ==
    /\ task[c].step = "claim"
    /\ Claim(OwnerOf(task[c].doc)) \/ UNCHANGED vars
    /\ Refuse(c)
    /\ UNCHANGED <<inFlight, outbox, epoch, registered, posted>>

\* The lease is made durable before the page gets the message.
RecordClaim(c) ==
    /\ task[c].step = "record"
    /\ LET d == task[c].doc IN
       IF task[c].left = 0 THEN Refuse(c) /\ UNCHANGED inFlight
       ELSE /\ inFlight' = [inFlight EXCEPT ![c] = @ \cup
                    {[id |-> task[c].cmd, owner |-> OwnerOf(d), left |-> task[c].left,
                      phase |-> "claimed"]}]
            /\ Reply(c, [page[d] EXCEPT !.pc = "holding", !.cmd = task[c].cmd])
    /\ UNCHANGED <<vars, outbox, epoch, registered, posted>>

\* delivery_submit_started: the durable boundary before the click.
Owned(c, d) == {e \in inFlight[c] : e.id = page[d].cmd /\ e.owner = OwnerOf(d)}

SubmitStarted(c, d) ==
    /\ Idle(c) /\ ClientOf[d] = c /\ page[d].pc = "arming"
    /\ IF Authorized(d) /\ \E e \in Owned(c, d) : e.left > 0
       THEN /\ inFlight' = [inFlight EXCEPT ![c] =
                    {IF e \in Owned(c, d) THEN [e EXCEPT !.phase = "submitting"] ELSE e : e \in @}]
            /\ page' = [page EXCEPT ![d].pc = "armed"]
       ELSE page' = [page EXCEPT ![d] = PageAt("idle")] /\ UNCHANGED inFlight
    /\ UNCHANGED <<vars, outbox, task, epoch, registered, posted>>

\* delivery_ack: queued durably, leaving the in-flight list, then flushed.  A
\* result the worker already answered for is only flushed, whatever it says.
AlreadyQueued(c, d) ==
    /\ \A e \in inFlight[c] : e.id # page[d].cmd
    /\ \E a \in outbox[c] : a.id = page[d].cmd
ReceiveAck(c, d) ==
    /\ Idle(c) /\ ClientOf[d] = c /\ page[d].pc = "acking"
    /\ IF Authorized(d) /\ (Owned(c, d) # {} \/ AlreadyQueued(c, d))
       THEN /\ QueueAck(c, Owned(c, d), page[d].outcome)
            /\ task' = [task EXCEPT ![c] =
                    [NoTask EXCEPT !.step = "flush", !.goal = "ack", !.doc = d]]
            /\ UNCHANGED page
       ELSE /\ page' = [page EXCEPT ![d] = PageAt("idle")]
            /\ UNCHANGED workerVars
    /\ UNCHANGED <<vars, epoch, registered, posted>>

\* The MV3 worker is suspended or the browser restarts it: the task and every
\* request waiting for an answer are gone, the storage is not.
Suspend(c) ==
    /\ \/ ~ Idle(c)
       \/ \E d \in Documents : ClientOf[d] = c /\ page[d].pc \in {"claiming", "arming", "acking"}
    /\ task' = [task EXCEPT ![c] = NoTask]
    /\ page' = [d \in Documents |->
                  IF ClientOf[d] = c /\ page[d].pc \in {"claiming", "arming", "acking"}
                  THEN PageAt("idle") ELSE page[d]]
    /\ UNCHANGED <<vars, inFlight, outbox, epoch, registered, posted>>

-----------------------------------------------------------------------------
(* The content script *)

Current(d) == page[d].epoch = epoch[d]

Open(d) ==
    /\ page[d].pc = "unopened"
    /\ page' = [page EXCEPT ![d] = PageAt("idle")]
    /\ UNCHANGED <<vars, workerVars, epoch, registered, posted>>

\* pollDelivery up to the claim: the document is ready and registered.
Poll(d) ==
    /\ page[d].pc = "idle"
    /\ registered' = [registered EXCEPT ![d] = epoch[d]]
    /\ page' = [page EXCEPT ![d] = [PageAt("claiming") EXCEPT !.epoch = epoch[d]]]
    /\ UNCHANGED <<vars, workerVars, epoch, posted>>

GiveUp(d, outcome) == page' = [page EXCEPT ![d].pc = "acking", ![d].outcome = outcome]

\* The message arrived: insert it, or report why nothing was submitted.
InsertPrompt(d) ==
    /\ page[d].pc = "holding"
    /\ \/ ~ Current(d) /\ GiveUp(d, "retryable")      \* identity changed before send
       \/ Current(d) /\ GiveUp(d, "retryable")        \* composer_busy
       \/ Current(d) /\ GiveUp(d, "refused")          \* composer refused the message
       \/ Current(d) /\ page' = [page EXCEPT ![d].pc = "arming"]
    /\ UNCHANGED <<vars, workerVars, epoch, registered, posted>>

\* The last check before the click.
NotClicked(d) ==
    /\ page[d].pc = "armed"
    /\ GiveUp(d, "retryable")        \* identity changed, or send control unavailable
    /\ UNCHANGED <<vars, workerVars, epoch, registered, posted>>

\* The click, after which ChatGPT may or may not take the message, and the page
\* may or may not see a stable message id.
Click(d) ==
    /\ page[d].pc = "armed" /\ Current(d)
    /\ \/ /\ posted' = [posted EXCEPT ![page[d].cmd] = @ + 1]
          /\ GiveUp(d, "sent") \/ GiveUp(d, "ambiguous")
       \/ GiveUp(d, "ambiguous") /\ UNCHANGED posted
    /\ UNCHANGED <<vars, workerVars, epoch, registered>>

\* routeChanged: the epoch moves at once, the worker learns of it later.
Navigate(d) ==
    /\ page[d].pc \notin {"unopened", "closed"} /\ epoch[d] < MaxEpoch
    /\ epoch' = [epoch EXCEPT ![d] = @ + 1]
    /\ UNCHANGED <<vars, workerVars, page, registered, posted>>

Register(d) ==
    /\ page[d].pc # "closed" /\ registered[d] < epoch[d]
    /\ registered' = [registered EXCEPT ![d] = epoch[d]]
    /\ UNCHANGED <<vars, workerVars, page, epoch, posted>>

\* The tab is closed or reloaded, perhaps while the worker serves its request;
\* a reload is another document.
CloseDocument(d) ==
    /\ page[d].pc \notin {"unopened", "closed"}
    /\ page' = [page EXCEPT ![d] = [PageAt("closed") EXCEPT !.epoch = page[d].epoch]]
    /\ UNCHANGED <<vars, workerVars, epoch, registered, posted>>

-----------------------------------------------------------------------------
(* The service's other callers, and time *)

ServiceStep ==
    /\ \/ \E k \in Keys, c \in Conversations : EnqueueNew(k, c) \/ EnqueueRetry(k, c)
       \/ \E i \in Ids : Expire(i)
       \/ \E i \in Ids, code \in RecoveryErrors : ReportRecoveryFailure(i, code)
    /\ UNCHANGED <<workerVars, pageVars>>

\* One clock for the service and the browser on the same machine.
TickAll ==
    /\ Tick
    /\ inFlight' = [c \in Clients |-> {Aged(e) : e \in inFlight[c]}]
    /\ task' = [c \in Clients |-> Aged(task[c])]
    /\ UNCHANGED <<outbox, pageVars>>

WorkerStep(c) ==
    \/ \E d \in Documents : BeginClaim(c, d) \/ SubmitStarted(c, d) \/ ReceiveAck(c, d)
    \/ BeginRecovery(c)
    \/ PostAck(c) \/ PostAckLost(c) \/ RemoveAck(c) \/ Flushed(c)
    \/ PostClaim(c) \/ PostClaimLost(c) \/ RecordClaim(c)
    \/ Suspend(c)

PageStep(d) ==
    \/ Open(d) \/ Poll(d) \/ InsertPrompt(d) \/ NotClicked(d) \/ Click(d)
    \/ Navigate(d) \/ Register(d) \/ CloseDocument(d)

TransportNext ==
    \/ \E c \in Clients : WorkerStep(c)
    \/ \E d \in Documents : PageStep(d)
    \/ ServiceStep
    \/ TickAll

TransportSpec == TransportInit /\ [][TransportNext]_transportVars

-----------------------------------------------------------------------------
(* Safety *)

PostedFor(k) == {i \in Ids : origin[i] = k /\ posted[i] > 0}

\* The message of one logical delivery is posted to the conversation at most
\* once, whatever is retried, lost, suspended, navigated or timed out.
AtMostOnePost ==
    \A k \in Keys : /\ Cardinality(PostedFor(k)) <= 1
                    /\ \A i \in PostedFor(k) : posted[i] = 1

\* A receipt tells the truth about the page: delivered means posted, a failed
\* delivery was not posted and never will be.
ReceiptTruthful ==
    \A i \in InQueue(deliveries) :
        /\ deliveries[i].phase = "delivered" => posted[i] = 1
        /\ deliveries[i].phase = "failed" => posted[i] = 0

\* A message is posted once at most, and exactly where its receipt says so.
PostedAsReported == AtMostOnePost /\ ReceiptTruthful

\* The transport implements the at-most-once delivery it promises: the message
\* is shown once, and the runtime's knowledge of it is what the receipts say.
TimesShown(k) == Cardinality(PostedFor(k))
Knowing(k) ==
    CASE ReceiptOf(k).outcome = "sent"      -> "delivered"
      [] ReceiptOf(k).outcome = "retryable" -> "unsent"
      [] ReceiptOf(k).outcome = "refused"   -> "refused"
      [] ReceiptOf(k).outcome \in Unknown   -> "unknown"
      [] OTHER                              -> "nothing"

Promise == INSTANCE AtMostOnceDelivery WITH
    shown <- [k \in Keys |-> TimesShown(k)],
    known <- [k \in Keys |-> Knowing(k)]
AtMostOnce == Promise!DeliverySpec

-----------------------------------------------------------------------------
(* Liveness *)

\* The serial queue is served in order and the recovery alarm fires every
\* minute; the bridge answers and a commit succeeds again and again; time
\* passes.  Nothing is assumed of the page.
TransportFairness ==
    /\ \A c \in Clients :
        /\ SF_transportVars(BeginRecovery(c))
        /\ SF_transportVars(PostAck(c))
        /\ SF_transportVars(RemoveAck(c))
        /\ WF_transportVars(Flushed(c) \/ PostClaim(c) \/ RecordClaim(c))
    /\ WF_transportVars(TickAll)

LiveTransportSpec == TransportSpec /\ TransportFairness

\* Every submit that was armed is eventually answered for in the service, as
\* sent, not sent or ambiguous, whatever happens to the page and the worker.
SubmitAnswered ==
    \A i \in Ids :
        (\E c \in Clients : \E e \in inFlight[c] : e.id = i /\ e.phase = "submitting")
            ~> (ReceiptById(i) # NoReceipt)

\* No acknowledgement stays in an outbox, where it would block every claim.
OutboxDrains == \A c \in Clients : outbox[c] # {} ~> outbox[c] = {}

\* What has become of a message reaches the service: neither a submit nor an
\* acknowledgement of it is stuck in a worker.
OutcomesArrive == SubmitAnswered /\ OutboxDrains
=============================================================================

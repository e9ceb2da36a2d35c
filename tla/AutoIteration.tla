---------------------------- MODULE AutoIteration ----------------------------
(***************************************************************************)
(* The automatic review of one task (auto-iteration.ts): an execution that *)
(* passed is reviewed by ChatGPT, and the verdict ends the loop or begins  *)
(* the next execution.                                                     *)
(*                                                                         *)
(* A loop is a checkpoint in one file; the review request, its routing,    *)
(* delivery and result, the authorization and the actuation are records of *)
(* other services.  A flight advances the loop by one durable write at a   *)
(* time, and the runtime may stop between any two.  Whoever wants the loop *)
(* advanced while a flight is active joins that flight.                    *)
(*                                                                         *)
(* The chat is AtMostOnceDelivery, which ExtensionTransport implements.    *)
(* Executions end as CodexExecution says: once, after their process id was *)
(* saved, with one notification that a stop of the runtime may swallow.    *)
(***************************************************************************)
EXTENDS Naturals, FiniteSets

CONSTANTS
    MaxIterations,       \* max_iterations of the loop
    MaxDeliveryAttempts, \* REVIEW_DELIVERY_MAX_ATTEMPTS, 10 in the code
    MaxCollectAttempts,  \* 5 in the code
    MaxInfraRetries,     \* 6 in the code
    LegacyReviews,       \* iterations whose request predates the verdict tool
    MaxCrashes,          \* bound: how often the runtime stops
    MaxFaults,           \* bound: reads and writes that fail
    MaxFailures          \* bound: both together

ASSUME LoopAssumption ==
    /\ {MaxIterations, MaxDeliveryAttempts, MaxCollectAttempts} \subseteq Nat \ {0}
    /\ {MaxInfraRetries, MaxCrashes, MaxFaults, MaxFailures} \subseteq Nat
    /\ LegacyReviews \subseteq 1 .. MaxIterations

Iterations == 1 .. MaxIterations
\* The review of an iteration, and the one follow-up that may ask for a verdict.
Rounds == Iterations \X BOOLEAN

VARIABLES
    loop, task,                               \* the checkpoint and TaskContext
    request, routing, delivery, result,       \* the records of each round
    authorized, actuation,                    \* the store of controlled actuation
    execution, launches, proven,              \* execution records, processes, saved ids
    queued, shown, known,                     \* the extension's commands and the chat
    answer,                                   \* the verdict of each round
    notice,                                   \* the failure was announced in the chat
    flight,                                   \* the active flight and who waits for it
    following,                                \* notifications that look a second time
    telling,                                  \* notifications on their way
    timer, infra, recovering,
    crashes, faults

records == <<request, routing, delivery, result>>
work == <<authorized, actuation, execution, launches, proven>>
chat == <<queued, shown, known, answer, notice>>
waiting == <<following, telling, timer, infra, recovering>>
bounds == <<crashes, faults>>
autoVars == <<loop, task, records, work, chat, flight, waiting, bounds>>

-----------------------------------------------------------------------------
ReviewStages == {"review_request", "routing", "delivery", "review_completion", "verdict"}
Ends == {"completed", "failed", "human_required"}
Stages == {"none", "execution", "actuation"} \cup ReviewStages \cup Ends
Places == {"idle", "step", "waiting", "close", "announce", "dispatch", "await", "undelivered",
           "collect", "judge", "uncollected",
           "create", "spawn", "spawned", "launched", "unlaunched", "actuated", "refused"}
Loop == [stage: Stages, iteration: Iterations, recovery: BOOLEAN,
         ids: SUBSET {"request", "routing", "delivery", "result", "authorization"},
         collected: Nat, retry: {"none", "later", "due"},
         reason: {"none", "execution_failed", "actuation_failed"}]
Delivery == [status: {"none", "pending", "delivering", "delivered", "failed", "ambiguous"},
             attempts: Nat, retryable: BOOLEAN]
\* "human" is a verdict that asks for one, or none that can be read.
Answers == {"none", "approve", "iterate", "human", "missing"}

NoLoop == [stage |-> "none", iteration |-> 1, recovery |-> FALSE, ids |-> {},
           collected |-> 0, retry |-> "none", reason |-> "none"]
NoDelivery == [status |-> "none", attempts |-> 0, retryable |-> FALSE]
NoFlight == [at |-> "idle", by |-> {}, heard |-> {}]

Chat == INSTANCE AtMostOnceDelivery WITH Keys <- Rounds

AutoTypeOK ==
    /\ loop \in Loop
    /\ task \in {"running", "reviewing"} \cup Ends
    /\ request \in [Rounds -> {"none", "requested", "reviewing", "completed"}]
    /\ routing \subseteq Rounds
    /\ delivery \in [Rounds -> Delivery]
    /\ result \in [Rounds -> {"none", "TIMEOUT", "FAILED", "COMPLETED"}]
    /\ authorized \subseteq Iterations
    /\ actuation \in [Iterations -> {"none", "starting", "started", "failed"}]
    /\ execution \in [Iterations -> {"none", "running", "passed", "failed"}]
    /\ launches \in [Iterations -> Nat]
    /\ proven \subseteq Iterations
    /\ queued \subseteq Rounds
    /\ Chat!DeliveryTypeOK
    /\ answer \in [Rounds -> Answers]
    /\ notice \in BOOLEAN /\ timer \in BOOLEAN /\ recovering \in BOOLEAN
    /\ flight \in [at: Places, by: SUBSET {"timer", "recover"}, heard: SUBSET Iterations]
    /\ following \subseteq Iterations /\ telling \subseteq Iterations
    /\ infra \in 0 .. MaxInfraRetries
    /\ crashes \in 0 .. MaxCrashes /\ faults \in 0 .. MaxFaults

\* The goal orchestration has launched the first execution.
AutoInit ==
    /\ loop = NoLoop /\ task = "running"
    /\ request = [r \in Rounds |-> "none"] /\ routing = {}
    /\ delivery = [r \in Rounds |-> NoDelivery]
    /\ result = [r \in Rounds |-> "none"]
    /\ authorized = {1} /\ proven = {1}
    /\ actuation = [i \in Iterations |-> IF i = 1 THEN "started" ELSE "none"]
    /\ execution = [i \in Iterations |-> IF i = 1 THEN "running" ELSE "none"]
    /\ launches = [i \in Iterations |-> IF i = 1 THEN 1 ELSE 0]
    /\ queued = {} /\ Chat!DeliveryInit
    /\ answer = [r \in Rounds |-> "none"]
    /\ notice = FALSE
    /\ flight = NoFlight
    /\ following = {} /\ telling = {} /\ timer = FALSE /\ infra = 0 /\ recovering = FALSE
    /\ crashes = 0 /\ faults = 0

-----------------------------------------------------------------------------
(* The flight *)

i0 == loop.iteration
Round == <<loop.iteration, loop.recovery>>
Alive == loop.stage \notin Ends \cup {"none"}
ByText(r) == r[2] \/ r[1] \in LegacyReviews

At(place) == flight.at = place
Goto(place) == flight' = [flight EXCEPT !.at = place]
\* advanceOnce at the handler of a stage, with no retry to wait for.  A review is
\* handled only while its execution is recorded as passed.
Handles(stage) ==
    /\ At("step") /\ loop.stage = stage /\ loop.retry = "none"
    /\ stage \in ReviewStages => execution[i0] = "passed"
SetLoop(patched) == loop' = patched /\ UNCHANGED task
Stay == UNCHANGED <<loop, task>>

Fault ==
    /\ faults < MaxFaults /\ crashes + faults < MaxFailures
    /\ faults' = faults + 1
    /\ UNCHANGED crashes

\* serial(): start a flight, or join the active one.
Enter(by, heard) ==
    flight' = [at |-> IF At("idle") THEN "step" ELSE flight.at,
               by |-> flight.by \cup by, heard |-> flight.heard \cup heard]

FollowNobody(heard) == following
\* Notifications that waited for the flight look at the loop once more.
Follow(heard) == following \cup heard

\* The flight returns the loop.
Return ==
    /\ flight' = NoFlight
    /\ following' = Follow(flight.heard)
    /\ infra' = IF "timer" \in flight.by THEN 0 ELSE infra

\* The flight fails.  A transient failure is retried by a timer, if a timer or
\* the recovery waited for the flight; nobody else retries.
Throw(transient) ==
    LET again == transient /\ "timer" \in flight.by /\ infra < MaxInfraRetries /\ Alive IN
    /\ flight' = NoFlight
    /\ infra' = IF again THEN infra + 1 ELSE infra
    /\ timer' = (timer \/ again \/ (transient /\ "recover" \in flight.by))
    /\ UNCHANGED <<loop, task, following, telling, recovering>>

Finished ==
    /\ At("step") /\ loop.stage \in Ends
    /\ flight' = NoFlight
    /\ following' = Follow(flight.heard)
    /\ timer' = FALSE /\ infra' = 0
    /\ UNCHANGED <<telling, recovering>> /\ Stay

WaitForRetry ==
    /\ At("step") /\ Alive /\ loop.retry = "later"
    /\ timer' = TRUE
    /\ Return
    /\ UNCHANGED <<telling, recovering>> /\ Stay

EndWait ==
    /\ At("step") /\ Alive /\ loop.retry = "due"
    /\ SetLoop([loop EXCEPT !.retry = "none"])
    /\ timer' = FALSE
    /\ UNCHANGED <<flight, following, telling, infra, recovering>>

\* The execution is read, and the flight returns; it may end in between.
WaitForExecution ==
    /\ Handles("execution") /\ execution[i0] = "running"
    /\ Goto("waiting") /\ Stay
    /\ UNCHANGED waiting
ReturnWaiting ==
    /\ At("waiting")
    /\ Return
    /\ UNCHANGED <<timer, telling, recovering>> /\ Stay

\* Steps that only return or wait.
FlightStep ==
    /\ Finished \/ WaitForRetry \/ EndWait \/ WaitForExecution \/ ReturnWaiting
    /\ UNCHANGED <<records, work, chat, bounds>>

-----------------------------------------------------------------------------
(* Ends of the loop *)

End(stage, reason) ==
    /\ SetLoop([loop EXCEPT !.stage = stage, !.reason = reason])
    /\ Goto("close")
HumanRequired == End("human_required", "none")

\* The loop is written before its task, and a failed write of the task is only
\* logged.
Close ==
    /\ At("close")
    /\ task' = loop.stage
    /\ Goto(IF loop.reason = "execution_failed" THEN "announce" ELSE "step")
    /\ UNCHANGED <<loop, records, work, chat, waiting, bounds>>

CloseFails ==
    /\ At("close") /\ Fault
    /\ Goto(IF loop.reason = "execution_failed" THEN "announce" ELSE "step")
    /\ UNCHANGED <<loop, task, records, work, chat, waiting>>

\* enqueueExecutionFailureNotification, under an id that makes it idempotent.
Announce ==
    /\ At("announce")
    /\ notice' = TRUE
    /\ Goto("step")
    /\ UNCHANGED <<loop, task, records, work, queued, shown, known, answer, waiting, bounds>>

AnnounceFails ==
    /\ At("announce") /\ Fault
    /\ Goto("step")
    /\ UNCHANGED <<loop, task, records, work, chat, waiting>>

EndStep == Close \/ CloseFails \/ Announce \/ AnnounceFails

-----------------------------------------------------------------------------
(* advanceExecution, advanceReviewRequest and advanceRouting *)

ExecutionEndedAnyhow ==
    /\ Handles("execution") /\ execution[i0] \in {"passed", "failed"}
    /\ SetLoop([loop EXCEPT !.stage = "review_request"])
    /\ UNCHANGED <<flight, records>>
ExecutionEnded ==
    /\ Handles("execution")
    /\ \/ /\ execution[i0] = "passed"
          /\ SetLoop([loop EXCEPT !.stage = "review_request"]) /\ UNCHANGED flight
       \/ execution[i0] = "failed" /\ End("failed", "execution_failed")
    /\ UNCHANGED records

\* The id of a record is saved in the loop before the record is created.
IdOf == [review_request |-> "request", routing |-> "routing", delivery |-> "delivery"]
SaveId(stage) ==
    /\ Handles(stage) /\ IdOf[stage] \notin loop.ids
    /\ SetLoop([loop EXCEPT !.ids = @ \cup {IdOf[stage]}])
    /\ UNCHANGED <<flight, records>>
Identified(stage) == Handles(stage) /\ IdOf[stage] \in loop.ids

CreateRequest ==
    /\ Identified("review_request") /\ request[Round] = "none"
    /\ request' = [request EXCEPT ![Round] = "requested"]
    /\ UNCHANGED <<flight, routing, delivery, result>> /\ Stay

ReviewRequested ==
    /\ Identified("review_request") /\ request[Round] # "none"
    /\ IF task = "reviewing" THEN SetLoop([loop EXCEPT !.stage = "routing"])
       ELSE task' = "reviewing" /\ UNCHANGED loop
    /\ UNCHANGED <<flight, records>>

CreateRouting ==
    /\ Identified("routing") /\ Round \notin routing
    /\ routing' = routing \cup {Round}
    /\ UNCHANGED <<flight, request, delivery, result>> /\ Stay

Routed ==
    /\ Identified("routing") /\ Round \in routing
    /\ SetLoop([loop EXCEPT !.stage = "delivery"])
    /\ UNCHANGED <<flight, records>>

RequestStep ==
    /\ \/ ExecutionEnded \/ CreateRequest \/ ReviewRequested \/ CreateRouting \/ Routed
       \/ \E stage \in DOMAIN IdOf : SaveId(stage)
    /\ UNCHANGED <<work, chat, waiting, bounds>>

-----------------------------------------------------------------------------
(* advanceDelivery, with BrowserRouter, the delivery adapter and the broker *)

SetDelivery(d) == delivery' = [delivery EXCEPT ![Round] = d]
InStage == Identified("delivery") /\ UNCHANGED <<request, routing, result>>
D == delivery[Round]
Retryable == D.status = "failed" /\ D.retryable
Exhausted == D.attempts >= MaxDeliveryAttempts

CreateDelivery ==
    /\ InStage /\ D.status = "none"
    /\ SetDelivery([D EXCEPT !.status = "pending"])
    /\ UNCHANGED <<flight, queued, known>> /\ Stay

Delivered ==
    /\ InStage /\ D.status = "delivered"
    /\ SetLoop([loop EXCEPT !.stage = "review_completion"])
    /\ UNCHANGED <<flight, delivery, queued, known>>

\* The budget also counts before an attempt: a saved failure outlives a restart.
MayAttempt == D.status = "pending" \/ (Retryable /\ ~Exhausted)

Undeliverable ==
    /\ InStage /\ D.status \in {"failed", "ambiguous"} /\ ~MayAttempt
    /\ HumanRequired
    /\ UNCHANGED <<delivery, queued, known>>

BeginAttempt ==
    /\ InStage /\ MayAttempt
    /\ SetDelivery([status |-> "delivering", attempts |-> D.attempts + 1, retryable |-> FALSE])
    /\ Goto("dispatch") /\ Stay
    /\ UNCHANGED <<queued, known>>

\* A delivery that was under way when the runtime stopped is resumed.
ResumeDelivery ==
    /\ InStage /\ D.status = "delivering"
    /\ Goto("dispatch") /\ Stay
    /\ UNCHANGED <<delivery, queued, known>>

\* The command is queued, or found; one that was certainly not sent is retried.
Dispatch ==
    /\ At("dispatch")
    /\ queued' = queued \cup {Round}
    /\ known' = [known EXCEPT ![Round] = IF @ = "unsent" THEN "nothing" ELSE @]
    /\ Goto("await") /\ Stay
    /\ UNCHANGED records

\* The extension is not there, or does not reach the conversation in time.
DispatchFails ==
    /\ \/ At("dispatch") /\ known[Round] # "delivered"
       \/ At("await") /\ known[Round] = "nothing"
    /\ \E again \in BOOLEAN : SetDelivery([D EXCEPT !.status = "failed", !.retryable = again])
    /\ Goto("undelivered") /\ Stay
    /\ UNCHANGED <<request, routing, result, queued, known>>

\* What the receipt says.  Without one the delivery may be tried again: the
\* command is the same one, and the extension sends it once.
Receive ==
    /\ At("await") /\ known[Round] # "nothing"
    /\ \E s \in CASE known[Round] = "delivered" -> {"delivered"}
                  [] known[Round] = "unknown" -> {"failed", "ambiguous"}
                  [] OTHER -> {"failed"} :
        SetDelivery([D EXCEPT !.status = s,
                              !.retryable = s = "failed" /\ known[Round] # "refused"])
    /\ Goto(IF known[Round] = "delivered" THEN "step" ELSE "undelivered") /\ Stay
    /\ UNCHANGED <<request, routing, result, queued, known>>

RetryLater == SetLoop([loop EXCEPT !.retry = "later"]) /\ Goto("step")
\* retryDelivery, or the end.
Undelivered ==
    /\ At("undelivered")
    /\ IF Retryable /\ ~Exhausted THEN RetryLater ELSE HumanRequired
    /\ UNCHANGED <<records, queued, known>>

DeliveryStep ==
    /\ \/ CreateDelivery \/ Delivered \/ Undeliverable \/ BeginAttempt \/ ResumeDelivery
       \/ Dispatch \/ DispatchFails \/ Receive \/ Undelivered
    /\ UNCHANGED <<work, shown, answer, notice, waiting, bounds>>

-----------------------------------------------------------------------------
(* advanceReviewCompletion, with ReviewCompletionRouter *)

SetRequest(status) ==
    /\ request' = [request EXCEPT ![Round] = status]
    /\ UNCHANGED <<routing, delivery, result>>

\* A result that timed out is collected anew.
Collect ==
    /\ Handles("review_completion") /\ result[Round] \in {"none", "TIMEOUT"}
    /\ SetRequest("reviewing")
    /\ Goto("collect") /\ Stay
    /\ UNCHANGED answer

TextAnswers == Answers \ {"none"}
\* The answer of a review by text is what the collected text says.
Collected ==
    /\ At("collect")
    /\ \E s \in {"TIMEOUT", "FAILED", "COMPLETED"} :
        /\ result' = [result EXCEPT ![Round] = s]
        /\ IF s = "COMPLETED" /\ ByText(Round)
           THEN \E a \in TextAnswers : answer' = [answer EXCEPT ![Round] = a]
           ELSE UNCHANGED answer
    /\ Goto("judge") /\ Stay
    /\ UNCHANGED <<request, routing, delivery>>

Judges(s) ==
    /\ At("judge") \/ (Handles("review_completion") /\ s # "TIMEOUT")
    /\ result[Round] = s
    /\ UNCHANGED answer
StatusFor(s) == IF s = "COMPLETED" THEN "completed" ELSE "requested"

\* Also repairs the request of a result that was saved before a stop.
SettleRequest ==
    \E s \in {"TIMEOUT", "FAILED", "COMPLETED"} :
        /\ Judges(s) /\ request[Round] # StatusFor(s)
        /\ SetRequest(StatusFor(s))
        /\ UNCHANGED flight /\ Stay
Settles(s) == Judges(s) /\ request[Round] = StatusFor(s) /\ UNCHANGED records

SaveResultId ==
    /\ Settles("COMPLETED") /\ "result" \notin loop.ids
    /\ SetLoop([loop EXCEPT !.ids = @ \cup {"result"}])
    /\ UNCHANGED flight

ReviewCompleted ==
    /\ Settles("COMPLETED") /\ "result" \in loop.ids
    /\ SetLoop([loop EXCEPT !.stage = "verdict"])
    /\ Goto("step")

CollectFailed == Settles("FAILED") /\ HumanRequired

CountTimeout ==
    /\ Settles("TIMEOUT")
    /\ SetLoop([loop EXCEPT !.collected = @ + 1])
    /\ Goto("uncollected")

CollectsAgain == loop.collected < MaxCollectAttempts
\* retryReview
Uncollected ==
    /\ At("uncollected")
    /\ IF CollectsAgain THEN RetryLater ELSE HumanRequired
    /\ UNCHANGED <<records, answer>>

CompletionStep ==
    /\ \/ Collect \/ Collected \/ SettleRequest \/ SaveResultId \/ ReviewCompleted
       \/ CollectFailed \/ CountTimeout \/ Uncollected
    /\ UNCHANGED <<work, queued, shown, known, notice, waiting, bounds>>

-----------------------------------------------------------------------------
(* advanceVerdict *)

FollowsAlways(r) == answer[r] \in {"missing", "human"}
\* A verdict given by the tool that is not confirmed in time needs a human; text
\* that holds no verdict at all is asked for once more.
Follows(r) == answer[r] = "missing" /\ ~loop.recovery
Approve ==
    /\ Handles("verdict") /\ answer[Round] = "approve"
    /\ End("completed", "none")

NeedsHuman ==
    /\ Handles("verdict")
    /\ \/ answer[Round] \in {"none", "human", "missing"} /\ ~Follows(Round)
       \/ answer[Round] = "iterate" /\ loop.iteration = MaxIterations
    /\ HumanRequired

RecoverVerdict ==
    /\ Handles("verdict") /\ Follows(Round)
    /\ SetLoop([loop EXCEPT !.stage = "review_request", !.recovery = TRUE,
                            !.ids = {"request", "routing", "delivery"}, !.collected = 0])
    /\ UNCHANGED flight

NextIteration ==
    /\ Handles("verdict") /\ answer[Round] = "iterate" /\ loop.iteration < MaxIterations
    /\ SetLoop([loop EXCEPT !.stage = "actuation", !.iteration = @ + 1, !.recovery = FALSE,
                            !.ids = {}, !.collected = 0])
    /\ UNCHANGED flight

VerdictStep ==
    /\ Approve \/ NeedsHuman \/ RecoverVerdict \/ NextIteration
    /\ UNCHANGED <<records, work, chat, waiting, bounds>>

-----------------------------------------------------------------------------
(* advanceActuation, with ControlledActuation and the adapter *)

SetExecution(status) == execution' = [execution EXCEPT ![i0] = status]
SetActuation(status) == actuation' = [actuation EXCEPT ![i0] = status]

Authorize ==
    /\ Handles("actuation") /\ i0 \notin authorized
    /\ authorized' = authorized \cup {i0}
    /\ UNCHANGED <<flight, actuation, execution, launches, proven>> /\ Stay

SaveAuthorization ==
    /\ Handles("actuation") /\ i0 \in authorized /\ "authorization" \notin loop.ids
    /\ SetLoop([loop EXCEPT !.ids = @ \cup {"authorization"}])
    /\ UNCHANGED <<flight, work>>
MayActuate == Handles("actuation") /\ "authorization" \in loop.ids

ActuationHadFailed ==
    /\ MayActuate /\ actuation[i0] = "failed"
    /\ End("failed", "actuation_failed")
    /\ UNCHANGED work

Reserve ==
    /\ MayActuate /\ actuation[i0] = "none"
    /\ SetActuation("starting")
    /\ Goto("create") /\ Stay
    /\ UNCHANGED <<authorized, execution, launches, proven>>

RejoinLaunching ==
    /\ MayActuate /\ actuation[i0] \in {"starting", "started"}
    /\ Goto(IF i0 \in proven THEN "actuated" ELSE "create")
    /\ UNCHANGED work /\ Stay

\* recoverExisting: an actuation that was reserved is never launched again.
Rejoin ==
    /\ MayActuate /\ actuation[i0] \in {"starting", "started"}
    /\ IF i0 \in proven THEN SetActuation("started") /\ Goto("actuated")
       ELSE Goto("refused") /\ UNCHANGED actuation
    /\ UNCHANGED <<authorized, execution, launches, proven>> /\ Stay

CreateExecution ==
    /\ At("create")
    /\ SetExecution("running")
    /\ Goto("spawn") /\ Stay
    /\ UNCHANGED <<authorized, actuation, launches, proven>>

Spawn ==
    /\ At("spawn")
    /\ launches' = [launches EXCEPT ![i0] = @ + 1]
    /\ Goto("spawned") /\ Stay
    /\ UNCHANGED <<authorized, actuation, execution, proven>>

SavePid ==
    /\ At("spawned")
    /\ proven' = proven \cup {i0}
    /\ Goto("launched") /\ Stay
    /\ UNCHANGED <<authorized, actuation, execution, launches>>

\* Nothing was spawned, or the process id could not be saved.
LaunchFails ==
    /\ At("spawn") \/ At("spawned")
    /\ SetExecution("failed")
    /\ Goto("unlaunched") /\ Stay
    /\ UNCHANGED <<authorized, actuation, launches, proven>>

MarkActuation ==
    /\ At("launched") \/ At("unlaunched")
    /\ SetActuation(IF At("launched") THEN "started" ELSE "failed")
    /\ Goto(IF At("launched") THEN "actuated" ELSE "refused") /\ Stay
    /\ UNCHANGED <<authorized, execution, launches, proven>>

Actuated ==
    /\ At("actuated")
    /\ SetLoop([loop EXCEPT !.stage = "execution"])
    /\ Goto("step")
    /\ UNCHANGED work

Refused ==
    /\ At("refused")
    /\ IF execution[i0] = "failed" THEN End("failed", "actuation_failed") ELSE HumanRequired
    /\ UNCHANGED work

ActuationStep ==
    /\ \/ Authorize \/ SaveAuthorization \/ ActuationHadFailed \/ Reserve \/ Rejoin
       \/ CreateExecution \/ Spawn \/ SavePid \/ LaunchFails \/ MarkActuation
       \/ Actuated \/ Refused
    /\ UNCHANGED <<records, chat, waiting, bounds>>

-----------------------------------------------------------------------------
(* Failing reads and writes *)

\* The adapter fails, and cannot record it either.
LaunchFault ==
    /\ flight.at \in {"create", "spawn", "spawned"}
    /\ Goto("unlaunched") /\ Stay
    /\ UNCHANGED waiting

\* advanceActuation hands every failure to a human, transient or not.
ActuationFault ==
    /\ loop.stage = "actuation"
    /\ flight.at \in {"step", "launched", "unlaunched", "actuated", "refused"}
    /\ HumanRequired
    /\ UNCHANGED waiting

\* The other handlers do so with a failure that is not transient.
ReviewFault ==
    /\ loop.stage \in ReviewStages /\ ~At("idle") /\ loop.retry = "none"
    /\ HumanRequired
    /\ UNCHANGED waiting

FlightFault ==
    /\ flight.at = "step" \/ (loop.stage \in ReviewStages /\ ~At("idle"))
    /\ \E transient \in BOOLEAN : Throw(transient)

FaultStep ==
    /\ LaunchFault \/ ActuationFault \/ ReviewFault \/ FlightFault
    /\ Fault
    /\ UNCHANGED <<records, work, chat>>

-----------------------------------------------------------------------------
(* Those who want the loop advanced *)

\* start() reads the execution before it writes the loop.
StartLoop ==
    /\ loop.stage = "none" /\ ~recovering
    /\ \E s \in {"execution"} \cup {t \in {"review_request"} : execution[1] = "passed"} :
        SetLoop([loop EXCEPT !.stage = s])
    /\ Enter({}, {})
    /\ UNCHANGED <<waiting, notice, bounds>>

Advance ==
    /\ Alive /\ At("idle") /\ ~recovering
    /\ Enter({}, {}) /\ Stay
    /\ UNCHANGED <<waiting, notice, bounds>>

\* onExecutionTerminal: only the loop that waits for this execution is advanced.
Hear(i) ==
    /\ i \in telling
    /\ telling' = telling \ {i}
    /\ IF Alive /\ i = i0 THEN Enter({}, {i}) ELSE UNCHANGED flight
    /\ UNCHANGED <<following, timer, infra, recovering, notice, bounds>> /\ Stay

\* advanceNotifiedLoop: the flight it waited for may have read the execution
\* before it ended.
FollowUp(i) ==
    /\ i \in following
    /\ following' = following \ {i}
    /\ IF loop.stage = "execution" /\ i = i0 /\ execution[i] # "running"
       THEN Enter({}, {}) ELSE UNCHANGED flight
    /\ UNCHANGED <<telling, timer, infra, recovering, notice, bounds>> /\ Stay

Fire ==
    /\ timer
    /\ timer' = FALSE
    /\ Enter({"timer"}, {}) /\ Stay
    /\ UNCHANGED <<following, telling, infra, recovering, notice, bounds>>

\* The time of retry_at comes.
Tick ==
    /\ loop.retry = "later"
    /\ SetLoop([loop EXCEPT !.retry = "due"])
    /\ UNCHANGED <<flight, waiting, notice, bounds>>

RecoverAlive ==
    /\ recovering
    /\ recovering' = FALSE
    /\ IF Alive THEN Enter({"recover"}, {}) ELSE UNCHANGED flight
    /\ UNCHANGED <<following, telling, timer, infra, notice, bounds>> /\ Stay
\* At the next start an unfinished loop goes on, and a failed execution is
\* announced again, as long as that can be queued.
Recover ==
    /\ recovering
    /\ recovering' = FALSE
    /\ IF Alive THEN Enter({"recover"}, {}) ELSE UNCHANGED flight
    /\ \/ notice' = (notice \/ loop.reason = "execution_failed") /\ UNCHANGED bounds
       \/ loop.reason = "execution_failed" /\ Fault /\ UNCHANGED notice
    /\ UNCHANGED <<following, telling, timer, infra>> /\ Stay

Crash ==
    /\ crashes < MaxCrashes /\ crashes + faults < MaxFailures
    /\ crashes' = crashes + 1
    /\ flight' = NoFlight
    /\ following' = {} /\ telling' = {} /\ timer' = FALSE /\ infra' = 0
    /\ recovering' = TRUE
    /\ UNCHANGED <<notice, faults>> /\ Stay

Calls == UNCHANGED <<records, work, queued, shown, known, answer>>
CallStep ==
    /\ \/ StartLoop \/ Advance \/ Fire \/ Tick \/ Recover \/ Crash
       \/ \E i \in Iterations : Hear(i) \/ FollowUp(i)
    /\ Calls

-----------------------------------------------------------------------------
(* The executions and the chat *)

EndExecution(i) ==
    /\ execution[i] = "running" /\ i \in proven
    /\ \E s \in {"passed", "failed"} : execution' = [execution EXCEPT ![i] = s]
    /\ telling' = telling \cup {i}
    /\ UNCHANGED <<loop, task, records, authorized, actuation, launches, proven, chat,
                   flight, following, timer, infra, recovering, bounds>>

ChatStep(r) ==
    /\ r \in queued
    /\ Chat!Show(r) \/ Chat!LearnDelivered(r) \/ Chat!LearnNotSent(r) \/ Chat!LoseTrack(r)
    /\ UNCHANGED <<loop, task, records, work, queued, answer, notice, flight, waiting, bounds>>

\* A verdict submitted with the tool counts for the review that is under way,
\* once its delivery is confirmed.
SubmitVerdict ==
    /\ loop.stage \in {"delivery", "review_completion", "verdict"} /\ ~ByText(Round)
    /\ D.status \in {"delivering", "delivered"} /\ known[Round] = "delivered"
    /\ answer[Round] = "none"
    /\ \E a \in {"approve", "iterate", "human"} : answer' = [answer EXCEPT ![Round] = a]
    /\ UNCHANGED <<loop, task, records, work, queued, shown, known, notice, flight, waiting, bounds>>

Work ==
    \/ FlightStep \/ EndStep \/ RequestStep \/ DeliveryStep \/ CompletionStep
    \/ VerdictStep \/ ActuationStep
AutoNext ==
    \/ Work \/ FaultStep \/ CallStep \/ SubmitVerdict
    \/ \E i \in Iterations : EndExecution(i)
    \/ \E r \in Rounds : ChatStep(r)

\* A flight goes on: every request it waits for ends, with a timeout if need be.
\* Timers fire, and notifications and the recovery at the start are not dropped
\* while the runtime lives.  Nobody need call start or advance, and neither
\* executions nor the chat need ever do anything.
AutoFairness ==
    /\ WF_autoVars(Work) /\ WF_autoVars(Fire /\ Calls) /\ WF_autoVars(Tick /\ Calls)
    /\ WF_autoVars(Recover /\ Calls)
    /\ \A i \in Iterations : WF_autoVars(Hear(i) /\ Calls) /\ WF_autoVars(FollowUp(i) /\ Calls)

AutoSpec == AutoInit /\ [][AutoNext]_autoVars /\ AutoFairness

-----------------------------------------------------------------------------
(* Properties *)

\* The runtime may stop or fail between counting an attempt and giving up, and
\* each attempt of a delivery is bounded all the same: an attempt is counted
\* before it is made, and the budget is checked again when a saved failure is
\* resumed (auto-iteration.ts:889-895).
DeliveryBudget == \A r \in Rounds : delivery[r].attempts <= MaxDeliveryAttempts

\* Whatever advances the loop, no execution of it is spawned twice, and none but
\* the first without an authorization (auto-iteration.ts:1148-1215).
NoSecondLaunch ==
    \A i \in Iterations : launches[i] <= 1 /\ (launches[i] = 1 => i \in authorized)

\* What ChatGPT said of an iteration, over the review and its follow-up.
Said(i) ==
    LET a == IF answer[<<i, FALSE>>] = "missing" THEN answer[<<i, TRUE>>] ELSE answer[<<i, FALSE>>]
    IN  CASE a = "none" -> "nothing"
          [] a \in {"approve", "iterate"} -> a
          [] OTHER -> "other"
Phase ==
    CASE loop.stage \in {"none", "execution", "actuation"} -> "executing"
      [] loop.stage \in ReviewStages -> "reviewing"
      [] loop.stage = "completed" -> "approved"
      [] loop.stage = "human_required" -> "human"
      [] OTHER -> "failed"

Abstract == INSTANCE ReviewLoop
    WITH phase <- Phase, iteration <- loop.iteration, outcome <- execution,
         said <- [i \in Iterations |-> Said(i)]
\* The checkpoint with all its records takes the turns that ReviewLoop promises
\* (auto-iteration.ts:613-677).
ImplementsLoop == Abstract!LoopSpec

\* An execution that ended is picked up, although its notification may join a
\* flight that had already read it as running (auto-iteration.ts:1303-1324).  No
\* failing read or write is assumed: after one the loop waits for the next call.
ExecutionPickedUp ==
    loop.stage = "execution" /\ execution[loop.iteration] \in {"passed", "failed"}
        ~> loop.stage # "execution" \/ faults > 0

\* Every review comes to an end: retries are bounded, timers come back after a
\* restart, and only one follow-up is asked (auto-iteration.ts:613-1108).  No
\* failing read or write is assumed.
ReviewEnds == loop.stage \in ReviewStages ~> loop.stage \notin ReviewStages \/ faults > 0

\* A failed execution is announced in the chat, also if the runtime stopped
\* between saving the failure and queueing the announcement
\* (auto-iteration.ts:545-552, 1326-1374), and no write of it fails.
FailureAnnounced == loop.reason = "execution_failed" ~> notice \/ faults > 0

\* Nothing the loop waits for is left behind: an execution that ended, a review
\* or an announcement that a stop of the runtime has interrupted.
LoopMovesOn == ExecutionPickedUp /\ ReviewEnds /\ FailureAnnounced
=============================================================================

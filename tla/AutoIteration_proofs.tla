------------------------- MODULE AutoIteration_proofs -------------------------
(***************************************************************************)
(* Proofs about AutoIteration for any number of iterations, any budgets    *)
(* and any number of stops and failures.                                   *)
(*                                                                         *)
(* That no execution is spawned twice needs to know where a flight is: at  *)
(* "create" or "spawn" only between a reservation and its launch, and that *)
(* what is not reserved was not launched (Launched).  That deliveries stay *)
(* within their budget needs that a pending one was never tried (Tried).   *)
(* Most actions only move the flight and write the checkpoint without      *)
(* touching iteration or authorization; Moves says so, once, and Launched  *)
(* then survives them together (MovesKeepLaunched).                        *)
(*                                                                         *)
(* That the checkpoint takes the turns of the abstract ReviewLoop needs    *)
(* to know that a flight is only where its stage leads it (PlacesFit),     *)
(* that what is reviewed has passed and no later iteration has begun       *)
(* (Reviewed), and that an answer that was told is the recorded one        *)
(* (Answered).  Each action is then a turn, or leaves the abstract state.  *)
(***************************************************************************)
EXTENDS AutoIteration, TLAPS

Flights == [at: Places, by: SUBSET {"timer", "recover"}, heard: SUBSET Iterations]

\* The conjuncts of AutoTypeOK, by what changes together.
LoopTypes == loop \in Loop /\ task \in {"running", "reviewing"} \cup Ends /\ flight \in Flights
WaitTypes ==
    /\ following \subseteq Iterations /\ telling \subseteq Iterations
    /\ timer \in BOOLEAN /\ recovering \in BOOLEAN /\ infra \in 0 .. MaxInfraRetries
RecordTypes ==
    /\ request \in [Rounds -> {"none", "requested", "reviewing", "completed"}]
    /\ routing \subseteq Rounds
    /\ delivery \in [Rounds -> Delivery]
    /\ result \in [Rounds -> {"none", "TIMEOUT", "FAILED", "COMPLETED"}]
WorkTypes ==
    /\ authorized \subseteq Iterations
    /\ actuation \in [Iterations -> {"none", "starting", "started", "failed"}]
    /\ execution \in [Iterations -> {"none", "running", "passed", "failed"}]
    /\ launches \in [Iterations -> Nat]
    /\ proven \subseteq Iterations
ChatTypes ==
    /\ queued \subseteq Rounds
    /\ shown \in [Rounds -> 0 .. 1] /\ known \in [Rounds -> Chat!Knowledge]
    /\ answer \in [Rounds -> Answers] /\ notice \in BOOLEAN
BoundTypes == crashes \in 0 .. MaxCrashes /\ faults \in 0 .. MaxFaults

LEMMA TypesTogether ==
    AutoTypeOK <=>
        LoopTypes /\ WaitTypes /\ RecordTypes /\ WorkTypes /\ ChatTypes /\ BoundTypes
BY DEF AutoTypeOK, LoopTypes, WaitTypes, RecordTypes, WorkTypes, ChatTypes, BoundTypes,
       Flights, Chat!DeliveryTypeOK

\* A loop is closed only at its end.
Closing == flight.at \in {"close", "announce"} => loop.stage \in Ends

Launching == {"create", "spawn"}
Launched ==
    /\ flight.at \in Launching =>
        actuation[i0] # "none" /\ launches[i0] = 0 /\ i0 \in authorized
    /\ "authorization" \in loop.ids => i0 \in authorized
    /\ \A i \in Iterations : actuation[i] = "none" => launches[i] = 0
    /\ NoSecondLaunch

Tried ==
    /\ \A r \in Rounds :
        delivery[r].status \in {"none", "pending"} => delivery[r].attempts = 0
    /\ DeliveryBudget

IInv == AutoTypeOK /\ Closing /\ Launched /\ Tried

USE DEF At, Goto, Stay, SetLoop, records, work, chat, waiting, bounds

-----------------------------------------------------------------------------
(* Steps that only move the flight and write the checkpoint *)

Moves ==
    /\ LoopTypes' /\ Closing'
    /\ loop'.iteration = loop.iteration
    /\ "authorization" \in loop'.ids => "authorization" \in loop.ids
    /\ flight'.at \in Launching => flight'.at = flight.at

LEMMA MovesKeepLaunched ==
    ASSUME Launched, Moves, UNCHANGED <<authorized, actuation, launches>>
    PROVE  Launched'
BY DEF Launched, Moves, NoSecondLaunch, Launching, i0

LEMMA RoundIsRound == LoopTypes => Round \in Rounds /\ i0 \in Iterations
BY DEF LoopTypes, Loop, Round, Rounds, i0

LEMMA EndMoves ==
    ASSUME LoopTypes,
           NEW stage \in Ends, NEW reason \in {"none", "execution_failed", "actuation_failed"},
           End(stage, reason)
    PROVE  Moves
BY DEF LoopTypes, Moves, Closing, End, Loop, Stages, Ends, Flights, Places, Launching

LEMMA GotoMoves ==
    ASSUME LoopTypes, NEW place \in Places \ ({"close", "announce"} \cup Launching),
           Goto(place), Stay
    PROVE  Moves
BY DEF LoopTypes, Moves, Closing, Flights, Launching

LEMMA FlightMoves ==
    ASSUME LoopTypes, Closing, FlightStep PROVE Moves
<1>. USE DEF LoopTypes, Moves, Closing, FlightStep, Flights, Launching, Places
<1>1. CASE Finished \/ WaitForRetry \/ ReturnWaiting
    BY <1>1 DEF Finished, WaitForRetry, ReturnWaiting, Return, NoFlight
<1>2. CASE EndWait
    BY <1>2 DEF EndWait, Loop
<1>3. CASE WaitForExecution
    BY <1>3 DEF WaitForExecution
<1>. QED
    BY <1>1, <1>2, <1>3

LEMMA FlightKeepsWaitTypes ==
    ASSUME LoopTypes, WaitTypes, FlightStep PROVE WaitTypes'
<1>. USE DEF WaitTypes, FlightStep
<1>1. flight.heard \subseteq Iterations
    BY DEF LoopTypes, Flights
<1>2. following' \subseteq Iterations
    BY <1>1 DEF Finished, WaitForRetry, EndWait, WaitForExecution, ReturnWaiting, Return, Follow
<1>3. infra' \in {0, infra}
    BY DEF Finished, WaitForRetry, EndWait, WaitForExecution, ReturnWaiting, Return
<1>4. infra' \in 0 .. MaxInfraRetries
    BY <1>3, LoopAssumption
<1>5. timer' \in BOOLEAN /\ UNCHANGED <<telling, recovering>>
    BY DEF Finished, WaitForRetry, EndWait, WaitForExecution, ReturnWaiting
<1>. QED
    BY <1>2, <1>4, <1>5

LEMMA EndStepMoves ==
    ASSUME LoopTypes, Closing, EndStep PROVE Moves
<1>. USE DEF LoopTypes, Moves, Closing, Flights, Places, Launching
<1>1. CASE Close
    BY <1>1 DEF Close
<1>2. CASE CloseFails
    BY <1>2 DEF CloseFails
<1>3. CASE Announce \/ AnnounceFails
    BY <1>3 DEF Announce, AnnounceFails
<1>. QED
    BY <1>1, <1>2, <1>3 DEF EndStep

LEMMA RequestMoves ==
    ASSUME LoopTypes, Closing, RequestStep PROVE Moves
<1>. USE DEF Handles, Identified
<1>1. CASE ExecutionEnded
    <2>1. CASE End("failed", "execution_failed")
        BY <2>1, EndMoves DEF Ends
    <2>2. CASE ~End("failed", "execution_failed")
        BY <1>1, <2>2 DEF ExecutionEnded, LoopTypes, Moves, Closing, Loop, Stages, ReviewStages
    <2>. QED
        BY <2>1, <2>2
<1>2. CASE ReviewRequested \/ Routed
    BY <1>2 DEF ReviewRequested, Routed, LoopTypes, Moves, Closing, Loop, Stages, ReviewStages
<1>3. CASE CreateRequest \/ CreateRouting
    BY <1>3 DEF CreateRequest, CreateRouting, LoopTypes, Moves, Closing
<1>4. ASSUME NEW stage \in DOMAIN IdOf, SaveId(stage) PROVE Moves
    <2>1. IdOf[stage] \in {"request", "routing", "delivery"}
        BY DEF IdOf
    <2>. QED
        BY <1>4, <2>1 DEF SaveId, LoopTypes, Moves, Closing, Loop
<1>. QED
    BY <1>1, <1>2, <1>3, <1>4 DEF RequestStep

LEMMA DeliveryMoves ==
    ASSUME LoopTypes, Closing, DeliveryStep PROVE Moves
<1>. USE DEF Handles, Identified, InStage
<1>1. CASE CreateDelivery
    BY <1>1 DEF CreateDelivery, LoopTypes, Moves, Closing
<1>2. CASE Delivered
    BY <1>2 DEF Delivered, LoopTypes, Moves, Closing, Loop, Stages, ReviewStages
<1>3. CASE Undeliverable \/ (Undelivered /\ HumanRequired)
    BY <1>3, EndMoves DEF Undeliverable, HumanRequired, Ends
<1>4. CASE BeginAttempt \/ ResumeDelivery \/ Dispatch \/ DispatchFails \/ Receive
    <2>1. /\ Goto("dispatch") \/ Goto("await") \/ Goto("undelivered") \/ Goto("step")
          /\ Stay
        BY <1>4 DEF BeginAttempt, ResumeDelivery, Dispatch, DispatchFails, Receive
    <2>. QED
        BY <2>1, GotoMoves DEF Places, Launching
<1>5. CASE Undelivered /\ RetryLater
    BY <1>5 DEF RetryLater, LoopTypes, Moves, Closing, Loop, Flights, Places, Launching
<1>. QED
    BY <1>1, <1>2, <1>3, <1>4, <1>5 DEF DeliveryStep, Undelivered

LEMMA CompletionMoves ==
    ASSUME LoopTypes, Closing, CompletionStep PROVE Moves
<1>. USE DEF Handles, Judges, Settles
<1>1. CASE Collect \/ Collected
    <2>1. (Goto("collect") \/ Goto("judge")) /\ Stay
        BY <1>1 DEF Collect, Collected
    <2>. QED
        BY <2>1, GotoMoves DEF Places, Launching
<1>2. CASE SettleRequest
    BY <1>2 DEF SettleRequest, LoopTypes, Moves, Closing
<1>3. CASE SaveResultId
    BY <1>3 DEF SaveResultId, LoopTypes, Moves, Closing, Loop
<1>4. CASE ReviewCompleted
    BY <1>4 DEF ReviewCompleted, LoopTypes, Moves, Closing, Loop, Stages, ReviewStages,
                Flights, Places, Launching
<1>5. CASE CollectFailed \/ (Uncollected /\ HumanRequired)
    BY <1>5, EndMoves DEF CollectFailed, HumanRequired, Ends
<1>6. CASE CountTimeout
    BY <1>6 DEF CountTimeout, LoopTypes, Moves, Closing, Loop, Flights, Places, Launching
<1>7. CASE Uncollected /\ RetryLater
    BY <1>7 DEF RetryLater, LoopTypes, Moves, Closing, Loop, Flights, Places, Launching
<1>. QED
    BY <1>1, <1>2, <1>3, <1>4, <1>5, <1>6, <1>7 DEF CompletionStep, Uncollected

LEMMA FaultMoves ==
    ASSUME LoopTypes, Closing, FaultStep PROVE Moves
<1>1. CASE LaunchFault
    BY <1>1, GotoMoves DEF LaunchFault, Places, Launching
<1>2. CASE ActuationFault \/ ReviewFault
    BY <1>2, EndMoves DEF ActuationFault, ReviewFault, HumanRequired, Ends
<1>3. CASE FlightFault
    BY <1>3 DEF FlightFault, Throw, NoFlight, LoopTypes, Moves, Closing, Flights, Places,
                Launching
<1>. QED
    BY <1>1, <1>2, <1>3 DEF FaultStep

LEMMA FaultKeepsWaitTypes ==
    ASSUME WaitTypes, FaultStep PROVE WaitTypes'
<1>1. CASE LaunchFault \/ ActuationFault \/ ReviewFault
    BY <1>1 DEF WaitTypes, LaunchFault, ActuationFault, ReviewFault
<1>2. CASE FlightFault
    <2>1. infra' \in 0 .. MaxInfraRetries
        BY <1>2, LoopAssumption DEF WaitTypes, FlightFault, Throw
    <2>2. timer' \in BOOLEAN /\ UNCHANGED <<following, telling, recovering>>
        BY <1>2 DEF WaitTypes, FlightFault, Throw
    <2>. QED
        BY <2>1, <2>2 DEF WaitTypes
<1>. QED
    BY <1>1, <1>2 DEF FaultStep

LEMMA EnterMoves ==
    ASSUME LoopTypes, Closing, NEW by \in SUBSET {"timer", "recover"},
           NEW heard \in SUBSET Iterations,
           Enter(by, heard) \/ UNCHANGED flight, Stay
    PROVE  Moves
<1>1. CASE Enter(by, heard)
    <2>1. flight' \in Flights
        BY <1>1 DEF Enter, LoopTypes, Flights, Places
    <2>2. flight'.at = flight.at \/ flight'.at = "step"
        BY <1>1 DEF Enter
    <2>. QED
        BY <2>1, <2>2 DEF LoopTypes, Moves, Closing, Launching
<1>2. CASE UNCHANGED flight
    BY <1>2 DEF LoopTypes, Moves, Closing
<1>. QED
    BY <1>1, <1>2

\* Somebody wants the loop advanced.
LEMMA CallMoves ==
    ASSUME LoopTypes, Closing, CallStep PROVE Moves
<1>1. CASE StartLoop
    <2>1. flight'.at \in {flight.at, "step"} /\ flight' \in Flights
        BY <1>1 DEF StartLoop, Enter, LoopTypes, Flights, Places
    <2>2. loop' \in Loop /\ loop'.iteration = loop.iteration /\ loop'.ids = loop.ids
        BY <1>1 DEF StartLoop, LoopTypes, Loop, Stages, ReviewStages
    <2>3. loop.stage \notin Ends
        BY <1>1 DEF StartLoop, Ends
    <2>. QED
        BY <1>1, <2>1, <2>2, <2>3 DEF StartLoop, LoopTypes, Moves, Closing, Launching
<1>2. CASE Advance \/ Fire \/ Recover
    <2>1. \E by \in SUBSET {"timer", "recover"} : Enter(by, {}) \/ UNCHANGED flight
        BY <1>2 DEF Advance, Fire, Recover
    <2>2. Stay
        BY <1>2 DEF Advance, Fire, Recover
    <2>. QED
        BY <2>1, <2>2, EnterMoves
<1>3. CASE Tick
    BY <1>3 DEF Tick, LoopTypes, Moves, Closing, Loop
<1>4. CASE Crash
    BY <1>4 DEF Crash, NoFlight, LoopTypes, Moves, Closing, Flights, Places, Launching
<1>5. ASSUME NEW i \in Iterations, Hear(i) \/ FollowUp(i) PROVE Moves
    <2>1. \E heard \in SUBSET Iterations : Enter({}, heard) \/ UNCHANGED flight
        BY <1>5 DEF Hear, FollowUp
    <2>. QED
        BY <1>5, <2>1, EnterMoves DEF Hear, FollowUp
<1>. QED
    BY <1>1, <1>2, <1>3, <1>4, <1>5 DEF CallStep

LEMMA CallKeepsWaitTypes ==
    ASSUME WaitTypes, CallStep PROVE WaitTypes'
<1>. USE DEF WaitTypes
<1>1. CASE StartLoop \/ Advance \/ Tick
    BY <1>1 DEF StartLoop, Advance, Tick
<1>2. CASE Fire \/ Recover
    BY <1>2 DEF Fire, Recover
<1>3. CASE Crash
    <2>1. infra' \in 0 .. MaxInfraRetries
        BY <1>3, LoopAssumption DEF Crash
    <2>. QED
        BY <1>3, <2>1 DEF Crash
<1>4. ASSUME NEW i \in Iterations, Hear(i) \/ FollowUp(i) PROVE WaitTypes'
    BY <1>4 DEF Hear, FollowUp
<1>. QED
    BY <1>1, <1>2, <1>3, <1>4 DEF CallStep

-----------------------------------------------------------------------------
(* The next iteration, and its launch *)

LEMMA VerdictKeepsLaunched ==
    ASSUME LoopTypes, Closing, Launched, VerdictStep
    PROVE  LoopTypes' /\ Closing' /\ Launched'
<1>1. CASE Approve \/ NeedsHuman
    <2>1. Moves
        BY <1>1, EndMoves DEF Approve, NeedsHuman, HumanRequired, Ends
    <2>. QED
        BY <2>1, MovesKeepLaunched DEF VerdictStep, Moves
<1>2. CASE RecoverVerdict
    <2>1. Moves
        BY <1>2 DEF RecoverVerdict, Handles, LoopTypes, Moves, Closing, Loop, Stages, ReviewStages
    <2>. QED
        BY <2>1, MovesKeepLaunched DEF VerdictStep, Moves
<1>3. CASE NextIteration
    <2>1. loop.iteration + 1 \in Iterations
        BY <1>3, LoopAssumption DEF NextIteration, LoopTypes, Loop, Iterations
    <2>2. loop' \in Loop /\ loop'.ids = {}
        BY <1>3, <2>1 DEF NextIteration, LoopTypes, Loop, Stages
    <2>3. flight.at = "step" /\ UNCHANGED <<flight, task, authorized, actuation, launches>>
        BY <1>3 DEF NextIteration, Handles, VerdictStep
    <2>4. LoopTypes' /\ Closing'
        BY <2>2, <2>3 DEF LoopTypes, Closing
    <2>. QED
        BY <2>2, <2>3, <2>4 DEF Launched, Launching, NoSecondLaunch
<1>. QED
    BY <1>1, <1>2, <1>3 DEF VerdictStep

\* Reserve is the only way to "create" and "spawn", and it needs an actuation
\* that was never reserved.
LEMMA ActuationKeepsLaunched ==
    ASSUME LoopTypes, WorkTypes, Closing, Launched, ActuationStep
    PROVE  LoopTypes' /\ WorkTypes' /\ Closing' /\ Launched'
<1>0. i0 \in Iterations
    BY RoundIsRound
<1>. USE DEF Handles, MayActuate
<1>1. CASE Authorize
    <2>1. Moves
        BY <1>1 DEF Authorize, LoopTypes, Moves, Closing
    <2>2. WorkTypes' /\ authorized \subseteq authorized' /\ UNCHANGED <<actuation, launches, loop, flight>>
        BY <1>0, <1>1 DEF Authorize, WorkTypes
    <2>. QED
        BY <2>1, <2>2 DEF Moves, Launched, NoSecondLaunch, i0
<1>2. CASE SaveAuthorization
    <2>1. loop' \in Loop /\ i0' = i0 /\ i0 \in authorized
        BY <1>2 DEF SaveAuthorization, LoopTypes, Loop, i0
    <2>2. UNCHANGED <<flight, task, work>> /\ flight.at = "step"
        BY <1>2 DEF SaveAuthorization
    <2>. QED
        BY <2>1, <2>2 DEF LoopTypes, WorkTypes, Closing, Launched, NoSecondLaunch, Launching
<1>3. CASE ActuationHadFailed \/ Refused
    <2>1. Moves /\ UNCHANGED work
        BY <1>3, EndMoves DEF ActuationHadFailed, Refused, HumanRequired, Ends
    <2>. QED
        BY <2>1, MovesKeepLaunched DEF Moves, WorkTypes
<1>4. CASE Actuated
    <2>1. Moves /\ UNCHANGED work
        BY <1>4 DEF Actuated, LoopTypes, Moves, Closing, Loop, Stages, Flights, Places, Launching
    <2>. QED
        BY <2>1, MovesKeepLaunched DEF Moves, WorkTypes
<1>5. CASE Reserve
    <2>1. LoopTypes' /\ Closing' /\ UNCHANGED loop /\ flight'.at = "create"
        BY <1>5 DEF Reserve, LoopTypes, Closing, Flights, Places
    <2>2. WorkTypes' /\ actuation' = [actuation EXCEPT ![i0] = "starting"]
        BY <1>5 DEF Reserve, SetActuation, WorkTypes
    <2>3. launches[i0] = 0 /\ i0 \in authorized /\ UNCHANGED <<launches, authorized>>
        BY <1>0, <1>5 DEF Reserve, Launched
    <2>. QED
        BY <1>0, <2>1, <2>2, <2>3 DEF Launched, NoSecondLaunch, WorkTypes, i0
<1>6. CASE Rejoin \/ MarkActuation
    <2>1. Moves
        BY <1>6, GotoMoves DEF Rejoin, MarkActuation, Places, Launching
    <2>2. WorkTypes' /\ UNCHANGED <<authorized, launches>>
        BY <1>6 DEF Rejoin, MarkActuation, SetActuation, WorkTypes
    <2>3. \/ UNCHANGED actuation
          \/ \E s \in {"started", "failed"} : actuation' = [actuation EXCEPT ![i0] = s]
        BY <1>6 DEF Rejoin, MarkActuation, SetActuation
    <2>4. \A i \in Iterations : actuation'[i] = "none" => actuation[i] = "none"
        BY <2>3 DEF WorkTypes
    <2>5. flight'.at \notin Launching /\ UNCHANGED loop
        BY <1>6 DEF Rejoin, MarkActuation, LoopTypes, Flights, Launching
    <2>. QED
        BY <2>1, <2>2, <2>4, <2>5 DEF Moves, Launched, NoSecondLaunch, i0
<1>7. CASE CreateExecution
    <2>1. LoopTypes' /\ Closing' /\ UNCHANGED loop
        BY <1>7 DEF CreateExecution, LoopTypes, Closing, Flights, Places
    <2>2. WorkTypes' /\ UNCHANGED <<authorized, actuation, launches>>
        BY <1>7 DEF CreateExecution, SetExecution, WorkTypes
    <2>3. flight.at \in Launching
        BY <1>7 DEF CreateExecution, Launching
    <2>. QED
        BY <2>1, <2>2, <2>3 DEF Launched, NoSecondLaunch, i0
<1>8. CASE Spawn
    <2>1. LoopTypes' /\ Closing' /\ UNCHANGED loop /\ flight'.at = "spawned"
        BY <1>8 DEF Spawn, LoopTypes, Closing, Flights, Places
    <2>2. flight.at \in Launching /\ UNCHANGED <<authorized, actuation, execution, proven>>
        BY <1>8 DEF Spawn, Launching
    <2>3. launches' = [launches EXCEPT ![i0] = 1]
        BY <1>0, <1>8, <2>2 DEF Spawn, Launched, WorkTypes
    <2>4. WorkTypes'
        BY <2>2, <2>3 DEF WorkTypes
    <2>. QED
        BY <1>0, <2>1, <2>2, <2>3, <2>4 DEF Launched, NoSecondLaunch, Launching, WorkTypes, i0
<1>9. CASE SavePid \/ LaunchFails
    <2>1. Moves
        BY <1>9, GotoMoves DEF SavePid, LaunchFails, Places, Launching
    <2>2. WorkTypes' /\ UNCHANGED <<authorized, actuation, launches>>
        BY <1>0, <1>9 DEF SavePid, LaunchFails, SetExecution, WorkTypes
    <2>. QED
        BY <2>1, <2>2, MovesKeepLaunched DEF Moves
<1>. QED
    BY <1>1, <1>2, <1>3, <1>4, <1>5, <1>6, <1>7, <1>8, <1>9 DEF ActuationStep

-----------------------------------------------------------------------------
(* The records and the chat *)

LEMMA RequestKeepsRecords ==
    ASSUME LoopTypes, RecordTypes, RequestStep PROVE RecordTypes' /\ UNCHANGED delivery
<1>1. CASE CreateRequest
    BY <1>1 DEF CreateRequest, RecordTypes
<1>2. CASE CreateRouting
    BY <1>2, RoundIsRound DEF CreateRouting, RecordTypes
<1>3. CASE ExecutionEnded \/ ReviewRequested \/ Routed \/ \E stage \in DOMAIN IdOf : SaveId(stage)
    BY <1>3 DEF ExecutionEnded, ReviewRequested, Routed, SaveId, RecordTypes
<1>. QED
    BY <1>1, <1>2, <1>3 DEF RequestStep

LEMMA CompletionKeepsRecords ==
    ASSUME LoopTypes, RecordTypes, ChatTypes, CompletionStep
    PROVE  RecordTypes' /\ ChatTypes' /\ UNCHANGED delivery
<1>. USE DEF SetRequest
<1>1. CASE Collect
    BY <1>1 DEF Collect, CompletionStep, RecordTypes, ChatTypes
<1>2. CASE Collected
    BY <1>2 DEF Collected, CompletionStep, RecordTypes, ChatTypes, TextAnswers
<1>3. CASE SettleRequest
    BY <1>3 DEF SettleRequest, Judges, StatusFor, CompletionStep, RecordTypes, ChatTypes
<1>4. CASE SaveResultId \/ ReviewCompleted \/ CollectFailed \/ CountTimeout \/ Uncollected
    BY <1>4 DEF SaveResultId, ReviewCompleted, CollectFailed, CountTimeout, Uncollected, Settles,
                Judges, CompletionStep, RecordTypes, ChatTypes
<1>. QED
    BY <1>1, <1>2, <1>3, <1>4 DEF CompletionStep

LEMMA SetDeliveryIsSound ==
    ASSUME LoopTypes, RecordTypes, Tried, NEW d \in Delivery, SetDelivery(d),
           UNCHANGED <<request, routing, result>>,
           d.attempts <= MaxDeliveryAttempts,
           d.status \in {"none", "pending"} => d.attempts = 0
    PROVE  RecordTypes' /\ Tried'
<1>1. Round \in Rounds
    BY RoundIsRound
<1>2. delivery' = [delivery EXCEPT ![Round] = d]
    BY DEF SetDelivery
<1>. HIDE DEF Round
<1>. QED
    BY <1>1, <1>2 DEF RecordTypes, Tried, DeliveryBudget

LEMMA DeliveryKeepsRecords ==
    ASSUME LoopTypes, RecordTypes, Tried, DeliveryStep PROVE RecordTypes' /\ Tried'
<1>1. D \in Delivery /\ D.attempts <= MaxDeliveryAttempts
      /\ (D.status \in {"none", "pending"} => D.attempts = 0)
    BY RoundIsRound DEF D, RecordTypes, Tried, DeliveryBudget
<1>. USE DEF InStage
<1>2. CASE CreateDelivery
    <2>. DEFINE d == [D EXCEPT !.status = "pending"]
    <2>1. d \in Delivery /\ d.attempts = 0
        BY <1>1, <1>2 DEF CreateDelivery, Delivery
    <2>2. SetDelivery(d) /\ UNCHANGED <<request, routing, result>>
        BY <1>2 DEF CreateDelivery
    <2>. HIDE DEF d
    <2>. QED
        BY <2>1, <2>2, SetDeliveryIsSound, LoopAssumption
<1>3. CASE BeginAttempt
    <2>. DEFINE d == [status |-> "delivering", attempts |-> D.attempts + 1, retryable |-> FALSE]
    <2>1. D.attempts < MaxDeliveryAttempts
        BY <1>1, <1>3, LoopAssumption DEF BeginAttempt, MayAttempt, Exhausted, Delivery
    <2>2. d \in Delivery /\ d.attempts <= MaxDeliveryAttempts /\ d.status = "delivering"
        BY <1>1, <2>1, LoopAssumption DEF Delivery
    <2>3. SetDelivery(d) /\ UNCHANGED <<request, routing, result>>
        BY <1>3 DEF BeginAttempt
    <2>. HIDE DEF d
    <2>. QED
        BY <2>2, <2>3, SetDeliveryIsSound
<1>4. CASE DispatchFails \/ Receive
    <2>1. PICK s \in {"delivered", "failed", "ambiguous"}, b \in BOOLEAN :
            SetDelivery([D EXCEPT !.status = s, !.retryable = b])
        BY <1>4 DEF DispatchFails, Receive
    <2>. DEFINE d == [D EXCEPT !.status = s, !.retryable = b]
    <2>2. d \in Delivery /\ d.attempts = D.attempts /\ d.status = s
        BY <1>1 DEF Delivery
    <2>3. UNCHANGED <<request, routing, result>>
        BY <1>4 DEF DispatchFails, Receive
    <2>. HIDE DEF d
    <2>. QED
        BY <1>1, <2>1, <2>2, <2>3, SetDeliveryIsSound DEF d
<1>5. CASE Delivered \/ Undeliverable \/ ResumeDelivery \/ Dispatch \/ Undelivered
    BY <1>5 DEF Delivered, Undeliverable, ResumeDelivery, Dispatch, Undelivered, RecordTypes, Tried,
                DeliveryBudget
<1>. QED
    BY <1>2, <1>3, <1>4, <1>5 DEF DeliveryStep

LEMMA DeliveryKeepsChat ==
    ASSUME LoopTypes, ChatTypes, DeliveryStep PROVE ChatTypes'
<1>1. CASE Dispatch
    <2>1. queued' \subseteq Rounds
        BY <1>1, RoundIsRound DEF Dispatch, ChatTypes
    <2>2. known' \in [Rounds -> Chat!Knowledge]
        BY <1>1 DEF Dispatch, ChatTypes, Chat!Knowledge
    <2>. QED
        BY <2>1, <2>2 DEF DeliveryStep, ChatTypes
<1>2. CASE ~Dispatch
    BY <1>2 DEF DeliveryStep, CreateDelivery, Delivered, Undeliverable, BeginAttempt, ResumeDelivery,
                DispatchFails, Receive, Undelivered, InStage, ChatTypes
<1>. QED
    BY <1>1, <1>2

LEMMA ChatKeepsTypes ==
    ASSUME ChatTypes, NEW r \in Rounds, ChatStep(r) PROVE ChatTypes'
<1>1. shown' \in [Rounds -> 0 .. 1]
    BY DEF ChatStep, ChatTypes, Chat!Show, Chat!LearnDelivered, Chat!LearnNotSent, Chat!LoseTrack
<1>2. known' \in [Rounds -> Chat!Knowledge]
    BY DEF ChatStep, ChatTypes, Chat!Show, Chat!LearnDelivered, Chat!LearnNotSent, Chat!LoseTrack,
           Chat!Knowledge
<1>. QED
    BY <1>1, <1>2 DEF ChatStep, ChatTypes

LEMMA FaultKeepsBounds ==
    ASSUME BoundTypes, Fault PROVE BoundTypes'
BY LoopAssumption DEF BoundTypes, Fault

-----------------------------------------------------------------------------
(* The invariant *)

LEMMA AutoInitially == AutoInit => IInv
<1>. SUFFICES ASSUME AutoInit PROVE IInv
    OBVIOUS
<1>. USE DEF AutoInit
<1>1. 1 \in Iterations
    BY LoopAssumption DEF Iterations
<1>2. LoopTypes
    BY <1>1 DEF LoopTypes, NoLoop, Loop, Stages, NoFlight, Flights, Places
<1>3. WaitTypes /\ BoundTypes
    <2>1. infra \in 0 .. MaxInfraRetries /\ BoundTypes
        BY LoopAssumption DEF BoundTypes
    <2>. QED
        BY <2>1 DEF WaitTypes
<1>4. RecordTypes /\ Tried
    BY LoopAssumption DEF RecordTypes, Tried, DeliveryBudget, NoDelivery, Delivery
<1>5. WorkTypes
    BY <1>1 DEF WorkTypes
<1>6. ChatTypes
    <2>1. shown \in [Rounds -> 0 .. 1]
        BY DEF Chat!DeliveryInit
    <2>2. known \in [Rounds -> Chat!Knowledge]
        BY DEF Chat!DeliveryInit, Chat!Knowledge
    <2>3. answer \in [Rounds -> Answers]
        BY DEF Answers
    <2>. QED
        BY <2>1, <2>2, <2>3 DEF ChatTypes
<1>7. Closing /\ Launched
    BY DEF Closing, NoFlight, Launched, Launching, NoLoop, NoSecondLaunch, i0
<1>. QED
    BY <1>2, <1>3, <1>4, <1>5, <1>6, <1>7, TypesTogether DEF IInv

\* A group of actions changes few parts of the state; the others are kept.
LEMMA AutoStep == IInv /\ [AutoNext]_autoVars => IInv'
<1>. SUFFICES ASSUME IInv, [AutoNext]_autoVars PROVE IInv'
    OBVIOUS
<1>. DEFINE Parts == /\ LoopTypes /\ WaitTypes /\ RecordTypes /\ WorkTypes /\ ChatTypes /\ BoundTypes
                     /\ Closing /\ Launched /\ Tried
<1>1. Parts
    BY TypesTogether DEF IInv
<1>2. Parts' => IInv'
    BY DEF IInv, AutoTypeOK, LoopTypes, WaitTypes, RecordTypes, WorkTypes, ChatTypes, BoundTypes,
           Flights, Chat!DeliveryTypeOK
<1>. SUFFICES Parts'
    BY <1>2
<1>3. /\ UNCHANGED <<following, telling, timer, infra, recovering>> => WaitTypes'
      /\ UNCHANGED <<request, routing, delivery, result>> => RecordTypes' /\ Tried'
      /\ UNCHANGED delivery => Tried'
      /\ UNCHANGED <<authorized, actuation, execution, launches, proven>> => WorkTypes'
      /\ UNCHANGED <<queued, shown, known, answer, notice>> => ChatTypes'
      /\ UNCHANGED <<crashes, faults>> => BoundTypes'
    BY <1>1 DEF WaitTypes, RecordTypes, Tried, DeliveryBudget, WorkTypes, ChatTypes, BoundTypes
<1>4. Moves /\ UNCHANGED <<authorized, actuation, launches>> => LoopTypes' /\ Closing' /\ Launched'
    BY <1>1, MovesKeepLaunched DEF Moves
<1>5. CASE FlightStep
    BY <1>1, <1>3, <1>4, <1>5, FlightMoves, FlightKeepsWaitTypes DEF FlightStep
<1>6. CASE EndStep
    <2>1. Moves /\ UNCHANGED <<records, work, waiting>>
        BY <1>1, <1>6, EndStepMoves DEF EndStep, Close, CloseFails, Announce, AnnounceFails
    <2>2. ChatTypes'
        BY <1>1, <1>6 DEF EndStep, Close, CloseFails, Announce, AnnounceFails, ChatTypes
    <2>3. BoundTypes'
        BY <1>1, <1>3, <1>6, FaultKeepsBounds DEF EndStep, Close, CloseFails, Announce, AnnounceFails
    <2>. QED
        BY <1>3, <1>4, <2>1, <2>2, <2>3
<1>7. CASE RequestStep
    BY <1>1, <1>3, <1>4, <1>7, RequestMoves, RequestKeepsRecords DEF RequestStep
<1>8. CASE DeliveryStep
    BY <1>1, <1>3, <1>4, <1>8, DeliveryMoves, DeliveryKeepsRecords, DeliveryKeepsChat DEF DeliveryStep
<1>9. CASE CompletionStep
    BY <1>1, <1>3, <1>4, <1>9, CompletionMoves, CompletionKeepsRecords DEF CompletionStep
<1>10. CASE VerdictStep
    BY <1>1, <1>3, <1>10, VerdictKeepsLaunched DEF VerdictStep
<1>11. CASE ActuationStep
    BY <1>1, <1>3, <1>11, ActuationKeepsLaunched DEF ActuationStep
<1>12. CASE FaultStep
    BY <1>1, <1>3, <1>4, <1>12, FaultMoves, FaultKeepsWaitTypes, FaultKeepsBounds DEF FaultStep
<1>13. CASE CallStep
    <2>1. Moves /\ WaitTypes' /\ UNCHANGED <<records, work>>
        BY <1>1, <1>13, CallMoves, CallKeepsWaitTypes DEF CallStep, Calls
    <2>2. ChatTypes'
        BY <1>1, <1>13 DEF CallStep, Calls, StartLoop, Advance, Fire, Tick, Recover, Crash, Hear, FollowUp,
                           ChatTypes, Fault
    <2>3. ASSUME Crash PROVE BoundTypes'
        <3>1. crashes' \in 0 .. MaxCrashes
            BY <1>1, <2>3, LoopAssumption DEF Crash, BoundTypes
        <3>. QED
            BY <1>1, <2>3, <3>1 DEF Crash, BoundTypes
    <2>4. BoundTypes'
        BY <1>1, <1>3, <1>13, <2>3, FaultKeepsBounds DEF CallStep, StartLoop, Advance, Fire, Tick, Recover,
                           Hear, FollowUp
    <2>. QED
        BY <1>3, <1>4, <2>1, <2>2, <2>4
<1>14. CASE SubmitVerdict
    <2>1. ChatTypes'
        BY <1>1, <1>14 DEF SubmitVerdict, ChatTypes, Answers
    <2>. QED
        BY <1>1, <1>3, <1>4, <1>14, <2>1 DEF SubmitVerdict, Moves, LoopTypes, Closing
<1>15. ASSUME NEW i \in Iterations, EndExecution(i) PROVE Parts'
    <2>1. WaitTypes' /\ WorkTypes'
        BY <1>1, <1>15 DEF EndExecution, WaitTypes, WorkTypes
    <2>. QED
        BY <1>1, <1>3, <1>4, <1>15, <2>1 DEF EndExecution, Moves, LoopTypes, Closing
<1>16. ASSUME NEW r \in Rounds, ChatStep(r) PROVE Parts'
    BY <1>1, <1>3, <1>4, <1>16, ChatKeepsTypes DEF ChatStep, Moves, LoopTypes, Closing
<1>17. CASE UNCHANGED autoVars
    BY <1>1, <1>3, <1>4, <1>17 DEF autoVars, Moves, LoopTypes, Closing
<1>. QED
    BY <1>5, <1>6, <1>7, <1>8, <1>9, <1>10, <1>11, <1>12, <1>13, <1>14, <1>15, <1>16, <1>17
    DEF AutoNext, Work

LEMMA AutoAlways == AutoSpec => []IInv
BY AutoInitially, AutoStep, PTL DEF AutoSpec

\* Type correctness of the checkpoint and all records it leads to.
THEOREM AutoTypeCorrect == AutoSpec => []AutoTypeOK
BY AutoAlways, PTL DEF IInv

\* Whatever stops and fails, no delivery is tried more often than
\* REVIEW_DELIVERY_MAX_ATTEMPTS (auto-iteration.ts:721-731, 889-895).
THEOREM DeliveriesInBudget == AutoSpec => []DeliveryBudget
BY AutoAlways, PTL DEF IInv, Tried

\* Whatever stops and fails, no execution of the loop is spawned twice, and none
\* without an authorization (auto-iteration.ts:1148-1215).
THEOREM NeverSecondLaunch == AutoSpec => []NoSecondLaunch
BY AutoAlways, PTL DEF IInv, Launched

-----------------------------------------------------------------------------
(* The places of a flight, and what ImplementsLoop needs of the records *)

DeliveryPlaces == {"dispatch", "await", "undelivered"}
CompletionPlaces == {"collect", "judge", "uncollected"}
LaunchPlaces == {"create", "spawn", "spawned", "launched", "unlaunched"}
ActuationPlaces == LaunchPlaces \cup {"actuated", "refused"}

\* The places of a handler are visited in its stage.
PlacesFit ==
    /\ flight.at \in DeliveryPlaces => loop.stage = "delivery"
    /\ flight.at \in CompletionPlaces => loop.stage = "review_completion"
    /\ flight.at \in ActuationPlaces => loop.stage = "actuation"

\* What is under review has passed, and a loop starts at its first iteration.
Reviewed ==
    /\ loop.stage \in ReviewStages => execution[i0] = "passed"
    /\ loop.stage = "none" => loop.iteration = 1

\* Only what was reserved can run, only what was saved can pass, and what failed
\* to launch was not saved.
Actuations ==
    /\ \A i \in Iterations :
        /\ actuation[i] = "none" => execution[i] = "none" /\ i \notin proven
        /\ execution[i] = "passed" => i \in proven
        /\ actuation[i] = "failed" => i \notin proven
    /\ flight.at \in LaunchPlaces => actuation[i0] = "starting"
    /\ flight.at \in LaunchPlaces \ {"launched"} => i0 \notin proven
    /\ flight.at = "create" => execution[i0] = "none"
    /\ flight.at \in {"spawn", "spawned"} => execution[i0] = "running"

\* An answer by text comes with the completed result, a follow-up is asked only
\* after the first review held none, and later rounds have not begun.
Answered ==
    /\ \A r \in Rounds : ByText(r) /\ answer[r] # "none" => result[r] = "COMPLETED"
    /\ flight.at = "collect" => result[Round] \in {"none", "TIMEOUT"}
    /\ loop.recovery => answer[<<i0, FALSE>>] = "missing"
    /\ \A i \in Iterations :
        i > i0 \/ (i = i0 /\ ~loop.recovery) => answer[<<i, TRUE>>] = "none"

RInv == PlacesFit /\ Reviewed /\ Actuations /\ Answered

\* A step that the abstract loop does not see.
Quiet ==
    /\ loop'.iteration = loop.iteration /\ loop'.recovery = loop.recovery
    /\ Phase' = Phase
    /\ loop'.stage = "none" => loop.stage = "none"
    /\ UNCHANGED <<actuation, execution, proven, answer, result>>
    /\ PlacesFit'
    /\ flight'.at \in LaunchPlaces => flight'.at = flight.at
    /\ flight'.at = "collect" => result[Round] \in {"none", "TIMEOUT"}

LEMMA ReviewingIs == ASSUME LoopTypes PROVE Phase = "reviewing" <=> loop.stage \in ReviewStages
BY DEF LoopTypes, Loop, Stages, Ends, ReviewStages, Phase

LEMMA QuietSteps ==
    ASSUME LoopTypes, LoopTypes', RInv, Quiet
    PROVE  RInv' /\ UNCHANGED Abstract!loopVars
<1>. USE DEF Quiet
<1>1. i0' = i0 /\ Round' = Round
    BY DEF i0, Round
<1>2. Reviewed'
    <2>1. loop'.stage \in ReviewStages => loop.stage \in ReviewStages
        BY DEF LoopTypes, Loop, Stages, Ends, ReviewStages, Phase
    <2>. QED
        BY <1>1, <2>1 DEF RInv, Reviewed
<1>3. Actuations'
    BY <1>1 DEF RInv, Actuations, LaunchPlaces
<1>4. Answered'
    <2>1. (\A r \in Rounds : ByText(r) /\ answer[r] # "none" => result[r] = "COMPLETED")'
        BY DEF RInv, Answered, ByText
    <2>2. (flight.at = "collect" => result[Round] \in {"none", "TIMEOUT"})'
        BY <1>1
    <2>3. (loop.recovery => answer[<<i0, FALSE>>] = "missing")'
        BY <1>1 DEF RInv, Answered
    <2>4. (\A i \in Iterations :
            i > i0 \/ (i = i0 /\ ~loop.recovery) => answer[<<i, TRUE>>] = "none")'
        BY <1>1 DEF RInv, Answered
    <2>. QED
        BY <2>1, <2>2, <2>3, <2>4 DEF Answered
<1>5. UNCHANGED Abstract!loopVars
    BY DEF Abstract!loopVars, Said
<1>. QED
    BY <1>2, <1>3, <1>4, <1>5 DEF RInv

\* The end of a loop, in a stage where it may end so.
LEMMA EndSteps ==
    ASSUME LoopTypes, RInv, UNCHANGED <<actuation, execution, proven, answer, result>>,
           NEW stage, NEW reason, End(stage, reason), Alive,
           \/ stage = "human_required"
           \/ stage = "failed" /\ loop.stage \notin ReviewStages /\ execution[i0] # "passed"
           \/ stage = "completed" /\ loop.stage \in ReviewStages /\ answer[Round] = "approve"
    PROVE  RInv' /\ Abstract!EndLoop
<1>1. /\ loop'.stage = stage /\ loop'.iteration = loop.iteration /\ loop'.recovery = loop.recovery
      /\ flight'.at = "close"
    BY DEF End, LoopTypes, Loop, Flights
<1>2. i0' = i0 /\ Round' = Round
    BY <1>1 DEF i0, Round
<1>3. stage \in Ends /\ loop.stage \notin Ends
    BY DEF Ends, Alive
<1>4. PlacesFit' /\ Reviewed'
    BY <1>1, <1>3 DEF PlacesFit, Reviewed, DeliveryPlaces, CompletionPlaces, ActuationPlaces,
                      LaunchPlaces, ReviewStages, Ends
<1>5. Actuations'
    BY <1>1, <1>2 DEF RInv, Actuations, LaunchPlaces
<1>6. Answered'
    <2>1. (\A r \in Rounds : ByText(r) /\ answer[r] # "none" => result[r] = "COMPLETED")'
        BY DEF RInv, Answered, ByText
    <2>. QED
        BY <1>1, <1>2, <2>1 DEF RInv, Answered
<1>7. Phase' = CASE stage = "completed" -> "approved"
                 [] stage = "human_required" -> "human"
                 [] OTHER -> "failed"
    BY <1>1 DEF Phase, ReviewStages
<1>8. Phase = IF loop.stage \in ReviewStages THEN "reviewing" ELSE "executing"
    BY DEF Phase, LoopTypes, Loop, Stages, Alive, Ends, ReviewStages
<1>9. UNCHANGED <<loop.iteration, execution, [i \in Iterations |-> Said(i)]>>
    BY <1>1 DEF Said
<1>10. ASSUME stage = "completed" PROVE Said(i0) = "approve"
    BY <1>10, RoundIsRound DEF RInv, Answered, Said, Round, LoopTypes, Loop, i0
<1>11. i0 \in Iterations
    BY RoundIsRound
<1>. QED
    BY <1>4, <1>5, <1>6, <1>7, <1>8, <1>9, <1>10, <1>11 DEF RInv, Abstract!EndLoop, i0

\* What the abstract loop does at a step.
Turn == [Abstract!LoopNext]_(Abstract!loopVars)

LEMMA FlightTurns ==
    ASSUME LoopTypes, LoopTypes', RInv, FlightStep \/ EndStep PROVE RInv' /\ Turn
<1>1. loop'.iteration = loop.iteration /\ loop'.recovery = loop.recovery /\ loop'.stage = loop.stage
    BY DEF FlightStep, Finished, WaitForRetry, EndWait, WaitForExecution, ReturnWaiting, LoopTypes, Loop,
           EndStep, Close, CloseFails, Announce, AnnounceFails
<1>2. flight'.at \in {"step", "idle", "waiting", "announce"}
    BY DEF FlightStep, Finished, WaitForRetry, EndWait, WaitForExecution, ReturnWaiting, LoopTypes, Loop,
           EndStep, Close, CloseFails, Announce, AnnounceFails, Return, NoFlight, Flights
<1>3. UNCHANGED <<actuation, execution, proven, answer, result>>
    BY DEF FlightStep, EndStep, Close, CloseFails, Announce, AnnounceFails
<1>4. PlacesFit' /\ flight'.at \notin LaunchPlaces
    BY <1>2 DEF PlacesFit, DeliveryPlaces, CompletionPlaces, ActuationPlaces, LaunchPlaces
<1>5. Phase' = Phase
    BY <1>1 DEF Phase
<1>. QED
    BY <1>1, <1>2, <1>3, <1>4, <1>5, QuietSteps DEF Quiet, Turn

\* A step of the review that goes on with it.
LEMMA ReviewGoesOn ==
    ASSUME LoopTypes, LoopTypes', RInv, loop.stage \in ReviewStages, loop'.stage \in ReviewStages,
           loop'.iteration = loop.iteration, loop'.recovery = loop.recovery, PlacesFit',
           UNCHANGED <<actuation, execution, proven, answer, result>>,
           flight'.at = "collect" => result[Round] \in {"none", "TIMEOUT"}
    PROVE  RInv' /\ Turn
<1>1. Phase' = Phase
    BY DEF Phase, ReviewStages
<1>2. flight'.at \notin LaunchPlaces
    BY DEF PlacesFit, ActuationPlaces, ReviewStages
<1>3. loop'.stage # "none"
    BY DEF ReviewStages
<1>. QED
    BY <1>1, <1>2, <1>3, QuietSteps DEF Quiet, Turn

\* It begins with an execution that passed.
LEMMA ReviewBegins ==
    ASSUME LoopTypes, LoopTypes', RInv, loop.stage \in {"none", "execution"}, execution[i0] = "passed",
           loop' = [loop EXCEPT !.stage = "review_request"], flight'.at \in {"step", flight.at},
           UNCHANGED <<actuation, execution, proven, answer, result>>
    PROVE  RInv' /\ Turn
<1>1. loop'.stage = "review_request" /\ loop'.iteration = loop.iteration /\ loop'.recovery = loop.recovery
    BY DEF LoopTypes, Loop
<1>2. i0' = i0 /\ Round' = Round
    BY <1>1 DEF i0, Round
<1>3. flight'.at \notin DeliveryPlaces \cup CompletionPlaces \cup ActuationPlaces
    BY DEF RInv, PlacesFit, DeliveryPlaces, CompletionPlaces, ActuationPlaces, LaunchPlaces
<1>4. PlacesFit' /\ Reviewed' /\ Actuations'
    BY <1>1, <1>2, <1>3 DEF RInv, PlacesFit, Reviewed, Actuations, ActuationPlaces, LaunchPlaces
<1>5. Answered'
    <2>1. (\A r \in Rounds : ByText(r) /\ answer[r] # "none" => result[r] = "COMPLETED")'
        BY DEF RInv, Answered, ByText
    <2>2. flight'.at # "collect"
        BY <1>3 DEF CompletionPlaces
    <2>. QED
        BY <1>1, <1>2, <2>1, <2>2 DEF RInv, Answered
<1>6. Phase = "executing" /\ Phase' = "reviewing"
    BY <1>1 DEF Phase, ReviewStages
<1>7. UNCHANGED <<loop.iteration, execution, [i \in Iterations |-> Said(i)]>>
    BY <1>1 DEF Said
<1>8. Abstract!BeginReview
    BY <1>6, <1>7 DEF Abstract!BeginReview, i0
<1>. QED
    BY <1>4, <1>5, <1>8 DEF RInv, Turn, Abstract!LoopNext

LEMMA RequestTurns ==
    ASSUME LoopTypes, LoopTypes', RInv, RequestStep PROVE RInv' /\ Turn
<1>0. UNCHANGED <<actuation, execution, proven, answer>> /\ flight.at = "step"
    BY DEF RequestStep, ExecutionEnded, CreateRequest, ReviewRequested, CreateRouting, Routed, SaveId,
           Identified, Handles
<1>1. CASE ExecutionEnded
    <2>1. loop.stage = "execution" /\ UNCHANGED result
        BY <1>1 DEF ExecutionEnded, Handles
    <2>2. CASE execution[i0] = "passed"
        <3>1. loop' = [loop EXCEPT !.stage = "review_request"] /\ UNCHANGED flight
            BY <1>1, <2>2 DEF ExecutionEnded
        <3>. QED
            BY <1>0, <2>1, <2>2, <3>1, ReviewBegins
    <2>3. CASE execution[i0] # "passed"
        <3>1. End("failed", "execution_failed")
            BY <1>1, <2>3 DEF ExecutionEnded
        <3>2. Alive /\ loop.stage \notin ReviewStages
            BY <2>1 DEF Alive, Ends, ReviewStages
        <3>. QED
            BY <1>0, <2>1, <2>3, <3>1, <3>2, EndSteps DEF Turn, Abstract!LoopNext
    <2>. QED
        BY <2>2, <2>3
<1>2. CASE ~ExecutionEnded
    <2>1. /\ loop.stage \in ReviewStages /\ loop'.stage \in ReviewStages
          /\ loop'.iteration = loop.iteration /\ loop'.recovery = loop.recovery
        BY <1>2 DEF RequestStep, CreateRequest, ReviewRequested, CreateRouting, Routed, SaveId,
                    Identified, Handles, IdOf, LoopTypes, Loop, ReviewStages
    <2>2. UNCHANGED <<flight, result>>
        BY <1>2 DEF RequestStep, CreateRequest, ReviewRequested, CreateRouting, Routed, SaveId
    <2>3. PlacesFit'
        BY <1>0, <2>2 DEF PlacesFit, DeliveryPlaces, CompletionPlaces, ActuationPlaces, LaunchPlaces
    <2>. QED
        BY <1>0, <2>1, <2>2, <2>3, ReviewGoesOn
<1>. QED
    BY <1>1, <1>2

LEMMA DeliveryTurns ==
    ASSUME LoopTypes, LoopTypes', RInv, DeliveryStep PROVE RInv' /\ Turn
<1>1. loop.stage = "delivery" /\ UNCHANGED <<actuation, execution, proven, answer, result>>
    BY DEF DeliveryStep, CreateDelivery, Delivered, Undeliverable, BeginAttempt, ResumeDelivery, Dispatch,
           DispatchFails, Receive, Undelivered, InStage, Identified, Handles, RInv, PlacesFit, DeliveryPlaces
<1>2. CASE HumanRequired
    <2>1. Alive
        BY <1>1 DEF Alive, Ends
    <2>. QED
        BY <1>1, <1>2, <2>1, EndSteps DEF HumanRequired, Turn, Abstract!LoopNext
<1>3. CASE ~HumanRequired
    <2>1. /\ loop'.stage \in {"delivery", "review_completion"}
          /\ loop'.iteration = loop.iteration /\ loop'.recovery = loop.recovery
        BY <1>1, <1>3 DEF DeliveryStep, CreateDelivery, Delivered, Undeliverable, BeginAttempt,
            ResumeDelivery, Dispatch, DispatchFails, Receive, Undelivered, RetryLater, LoopTypes, Loop
    <2>2. \/ flight'.at \in {"step", "dispatch", "await", "undelivered"} /\ loop'.stage = "delivery"
          \/ flight'.at = "step"
        BY <1>1, <1>3 DEF DeliveryStep, CreateDelivery, Delivered, Undeliverable, BeginAttempt, InStage,
            ResumeDelivery, Dispatch, DispatchFails, Receive, Undelivered, RetryLater, LoopTypes, Loop,
            Flights, Identified, Handles
    <2>3. PlacesFit' /\ flight'.at # "collect"
        BY <2>2 DEF PlacesFit, DeliveryPlaces, CompletionPlaces, ActuationPlaces, LaunchPlaces
    <2>4. loop.stage \in ReviewStages /\ loop'.stage \in ReviewStages
        BY <1>1, <2>1 DEF ReviewStages
    <2>. QED
        BY <1>1, <2>1, <2>3, <2>4, ReviewGoesOn
<1>. QED
    BY <1>2, <1>3

\* The verdict of a round is heard once, or it is missing and asked for again.
LEMMA AnswerTurns ==
    ASSUME LoopTypes, RInv, ChatTypes, loop.stage \in ReviewStages,
           UNCHANGED <<loop, actuation, execution, proven>>, PlacesFit', flight'.at \notin LaunchPlaces,
           flight'.at = "collect" => UNCHANGED <<flight, result>>,
           answer[Round] = "none", NEW a \in TextAnswers, answer' = [answer EXCEPT ![Round] = a],
           a = "missing" => ByText(Round),
           \/ UNCHANGED result /\ ~ByText(Round)
           \/ result \in [Rounds -> {"none", "TIMEOUT", "FAILED", "COMPLETED"}]
              /\ result' = [result EXCEPT ![Round] = "COMPLETED"]
    PROVE  RInv' /\ Turn
<1>1. Round \in Rounds /\ i0 \in Iterations /\ i0' = i0 /\ Round' = Round
    BY RoundIsRound DEF i0, Round
<1>2. Reviewed' /\ Actuations'
    BY <1>1 DEF RInv, Reviewed, Actuations, LaunchPlaces
<1>3. answer \in [Rounds -> Answers] /\ loop.recovery \in BOOLEAN
    BY DEF ChatTypes, LoopTypes, Loop
<1>4. \A r \in Rounds : answer'[r] = IF r = Round THEN a ELSE answer[r]
    BY <1>1, <1>3
<1>5. \A i \in Iterations : <<i, TRUE>> \in Rounds /\ <<i, FALSE>> \in Rounds
    BY DEF Rounds
<1>6. Answered'
    <2>1. (\A r \in Rounds : ByText(r) /\ answer[r] # "none" => result[r] = "COMPLETED")'
        BY <1>1, <1>4 DEF RInv, Answered, ByText
    <2>2. loop.recovery => <<i0, FALSE>> # Round
        BY DEF Round
    <2>3. (loop.recovery => answer[<<i0, FALSE>>] = "missing")'
        BY <1>1, <1>4, <1>5, <2>2 DEF RInv, Answered
    <2>4. \A i \in Iterations : i > i0 \/ (i = i0 /\ ~loop.recovery) => <<i, TRUE>> # Round
        <3>1. MaxIterations \in Nat
            BY LoopAssumption
        <3>2. \A i \in Iterations : i > i0 => i # i0
            BY <1>1, <3>1 DEF Iterations
        <3>. QED
            BY <3>2 DEF Round, i0
    <2>5. (\A i \in Iterations :
            i > i0 \/ (i = i0 /\ ~loop.recovery) => answer[<<i, TRUE>>] = "none")'
        BY <1>1, <1>4, <1>5, <2>4 DEF RInv, Answered
    <2>6. (flight.at = "collect" => result[Round] \in {"none", "TIMEOUT"})'
        BY <1>1 DEF RInv, Answered
    <2>. QED
        BY <2>1, <2>3, <2>5, <2>6 DEF Answered
<1>7. Phase = "reviewing" /\ UNCHANGED <<Phase, loop.iteration, execution>>
    BY DEF Phase, ReviewStages
<1>8. \A i \in Iterations : i # i0 => Said(i)' = Said(i)
    BY <1>1, <1>4, <1>5 DEF Said, Round, i0
<1>9. Said(i0) = "nothing"
    BY <1>1, <1>3, <1>5 DEF RInv, Answered, Said, Round, i0
<1>10. \E s \in Abstract!Sayings : [i \in Iterations |-> Said(i)]' = [[i \in Iterations |-> Said(i)] EXCEPT ![i0] = s]
    <2>. DEFINE s == Said(i0)'
    <2>1. s \in Abstract!Sayings
        BY DEF Said, Abstract!Sayings
    <2>2. \A i \in Iterations : Said(i)' = IF i = i0 THEN s ELSE Said(i)
        BY <1>1, <1>8
    <2>. QED
        BY <1>1, <2>1, <2>2
<1>11. Abstract!Say
    BY <1>1, <1>7, <1>9, <1>10 DEF Abstract!Say, i0
<1>. QED
    BY <1>2, <1>6, <1>11 DEF RInv, Turn, Abstract!LoopNext

LEMMA CollectedTurns ==
    ASSUME LoopTypes, RecordTypes, ChatTypes, RInv, Collected,
           UNCHANGED <<actuation, execution, proven>>
    PROVE  RInv' /\ Turn
<1>0. Round \in Rounds /\ UNCHANGED loop /\ flight.at = "collect" /\ flight'.at = "judge"
    BY RoundIsRound DEF Collected, LoopTypes, Flights
<1>1. loop.stage = "review_completion" /\ loop.stage \in ReviewStages
    BY <1>0 DEF RInv, PlacesFit, CompletionPlaces, ReviewStages
<1>2. PlacesFit' /\ flight'.at \notin LaunchPlaces /\ flight'.at # "collect"
    BY <1>0, <1>1 DEF PlacesFit, DeliveryPlaces, CompletionPlaces, ActuationPlaces, LaunchPlaces
<1>3. PICK s \in {"TIMEOUT", "FAILED", "COMPLETED"} :
        /\ result' = [result EXCEPT ![Round] = s]
        /\ IF s = "COMPLETED" /\ ByText(Round)
           THEN \E a \in TextAnswers : answer' = [answer EXCEPT ![Round] = a]
           ELSE UNCHANGED answer
    BY DEF Collected
<1>4. ByText(Round) => answer[Round] = "none"
    BY <1>0 DEF RInv, Answered
<1>5. CASE s = "COMPLETED" /\ ByText(Round)
    BY <1>0, <1>1, <1>2, <1>3, <1>4, <1>5, AnswerTurns DEF RecordTypes
<1>6. CASE ~(s = "COMPLETED" /\ ByText(Round))
    <2>1. UNCHANGED answer /\ i0' = i0 /\ Round' = Round
        BY <1>0, <1>3, <1>6 DEF i0, Round
    <2>2. \A r \in Rounds : r # Round => result'[r] = result[r]
        BY <1>3 DEF RecordTypes
    <2>3. result'[Round] = s
        BY <1>0, <1>3 DEF RecordTypes
    <2>4. (\A r \in Rounds : ByText(r) /\ answer[r] # "none" => result[r] = "COMPLETED")'
        <3>. SUFFICES ASSUME NEW r \in Rounds, ByText(r), answer[r] # "none"
                      PROVE  result'[r] = "COMPLETED"
            BY <2>1 DEF ByText
        <3>. QED
            BY <1>4, <2>2 DEF RInv, Answered
    <2>5. Answered'
        BY <1>0, <1>2, <2>1, <2>4 DEF RInv, Answered
    <2>6. Reviewed' /\ Actuations'
        BY <1>0, <1>2, <2>1 DEF RInv, Reviewed, Actuations, LaunchPlaces
    <2>7. UNCHANGED Abstract!loopVars
        BY <1>0, <2>1 DEF Abstract!loopVars, Said, Phase
    <2>. QED
        BY <1>2, <2>5, <2>6, <2>7 DEF RInv, Turn
<1>. QED
    BY <1>5, <1>6

LEMMA CompletionTurns ==
    ASSUME LoopTypes, LoopTypes', RecordTypes, ChatTypes, RInv, CompletionStep PROVE RInv' /\ Turn
<1>1. /\ loop.stage = "review_completion" /\ loop.stage \in ReviewStages /\ loop.stage \notin Ends
      /\ UNCHANGED <<actuation, execution, proven>>
    BY DEF CompletionStep, Collect, Collected, SettleRequest, SaveResultId, ReviewCompleted, CollectFailed,
           CountTimeout, Uncollected, Settles, Judges, Handles, RInv, PlacesFit, CompletionPlaces,
           ReviewStages, Ends
<1>2. CASE Collected
    BY <1>1, <1>2, CollectedTurns
<1>3. CASE ~Collected /\ HumanRequired
    <2>1. Alive /\ UNCHANGED <<answer, result>>
        BY <1>1, <1>3 DEF Alive, Ends, CompletionStep, Collect, SettleRequest, SaveResultId,
            ReviewCompleted, CollectFailed, CountTimeout, Uncollected, Settles, Judges, SetRequest
    <2>. QED
        BY <1>1, <1>3, <2>1, EndSteps DEF HumanRequired, Turn, Abstract!LoopNext
<1>4. CASE ~Collected /\ ~HumanRequired
    <2>1. UNCHANGED <<answer, result>>
        BY <1>4 DEF CompletionStep, Collect, SettleRequest, SaveResultId, ReviewCompleted, CollectFailed,
                    CountTimeout, Uncollected, Settles, Judges, SetRequest
    <2>2. /\ loop'.stage \in {"review_completion", "verdict"}
          /\ loop'.iteration = loop.iteration /\ loop'.recovery = loop.recovery
        BY <1>1, <1>4 DEF CompletionStep, Collect, SettleRequest, SaveResultId, ReviewCompleted,
            CollectFailed, CountTimeout, Uncollected, RetryLater, LoopTypes, Loop
    <2>3. flight'.at = "step" \/ (flight'.at \in CompletionPlaces /\ loop'.stage = "review_completion")
        BY <1>1, <1>4 DEF CompletionStep, Collect, SettleRequest, SaveResultId, ReviewCompleted,
            CollectFailed, CountTimeout, Uncollected, RetryLater, Settles, Judges, Handles, LoopTypes,
            Loop, Flights, CompletionPlaces
    <2>4. PlacesFit'
        BY <2>3 DEF PlacesFit, DeliveryPlaces, CompletionPlaces, ActuationPlaces, LaunchPlaces
    <2>5. flight'.at = "collect" => result[Round] \in {"none", "TIMEOUT"}
        BY <1>1, <1>4 DEF CompletionStep, Collect, SettleRequest, SaveResultId, ReviewCompleted,
            CollectFailed, CountTimeout, Uncollected, RetryLater, Settles, Judges, Handles, LoopTypes, Flights
    <2>6. loop'.stage \in ReviewStages
        BY <2>2 DEF ReviewStages
    <2>. QED
        BY <1>1, <2>1, <2>2, <2>4, <2>5, <2>6, ReviewGoesOn
<1>. QED
    BY <1>2, <1>3, <1>4

LEMMA VerdictTurns ==
    ASSUME LoopTypes, RInv, VerdictStep PROVE RInv' /\ Turn
<1>1. /\ loop.stage = "verdict" /\ flight.at = "step"
      /\ UNCHANGED <<actuation, execution, proven, answer, result>>
    BY DEF VerdictStep, Approve, NeedsHuman, RecoverVerdict, NextIteration, Handles
<1>2. i0 \in Iterations /\ Alive /\ loop.stage \in ReviewStages /\ loop.recovery \in BOOLEAN
    BY <1>1, RoundIsRound DEF Alive, Ends, ReviewStages, LoopTypes, Loop
<1>3. CASE Approve
    BY <1>1, <1>2, <1>3, EndSteps DEF Approve, Turn, Abstract!LoopNext
<1>4. CASE NeedsHuman
    BY <1>1, <1>2, <1>4, EndSteps DEF NeedsHuman, HumanRequired, Turn, Abstract!LoopNext
<1>5. (\A r \in Rounds : ByText(r) /\ answer[r] # "none" => result[r] = "COMPLETED")'
    BY <1>1 DEF RInv, Answered, ByText
<1>6. ASSUME UNCHANGED flight PROVE PlacesFit'
    BY <1>1, <1>6 DEF PlacesFit, DeliveryPlaces, CompletionPlaces, ActuationPlaces, LaunchPlaces
<1>7. ASSUME UNCHANGED flight PROVE Actuations'
    BY <1>1, <1>7 DEF RInv, Actuations, LaunchPlaces
<1>8. CASE RecoverVerdict
    <2>1. loop'.stage = "review_request" /\ loop'.iteration = loop.iteration /\ loop'.recovery
        BY <1>8 DEF RecoverVerdict, LoopTypes, Loop
    <2>2. answer[<<i0, FALSE>>] = "missing" /\ UNCHANGED flight
        BY <1>2, <1>8 DEF RecoverVerdict, Follows, Round, i0
    <2>3. i0' = i0
        BY <2>1 DEF i0
    <2>4. Answered'
        BY <1>1, <1>5, <2>1, <2>2, <2>3 DEF RInv, Answered
    <2>5. Reviewed'
        BY <1>1, <1>2, <2>1, <2>3 DEF RInv, Reviewed
    <2>6. UNCHANGED Abstract!loopVars
        BY <1>1, <1>2, <2>1 DEF Abstract!loopVars, Said, Phase, ReviewStages
    <2>. QED
        BY <1>6, <1>7, <2>2, <2>4, <2>5, <2>6 DEF RInv, Turn
<1>9. CASE NextIteration
    <2>1. /\ loop'.stage = "actuation" /\ loop'.iteration = loop.iteration + 1 /\ loop'.recovery = FALSE
          /\ UNCHANGED flight
        BY <1>9 DEF NextIteration, LoopTypes, Loop
    <2>2. i0' = i0 + 1
        BY <2>1 DEF i0
    <2>3. MaxIterations \in Nat
        BY LoopAssumption
    <2>4. \A i \in Iterations : i > i0' \/ i = i0' => i > i0
        BY <1>2, <2>2, <2>3 DEF Iterations
    <2>5. (\A i \in Iterations :
            i > i0 \/ (i = i0 /\ ~loop.recovery) => answer[<<i, TRUE>>] = "none")'
        BY <1>1, <2>4 DEF RInv, Answered
    <2>6. Answered'
        BY <1>1, <1>5, <2>1, <2>5 DEF Answered
    <2>7. Reviewed'
        BY <2>1 DEF Reviewed, ReviewStages
    <2>8. Phase = "reviewing" /\ Phase' = "executing" /\ UNCHANGED <<execution, [i \in Iterations |-> Said(i)]>>
        BY <1>1, <1>2, <2>1 DEF Phase, ReviewStages, Said
    <2>9. Said(i0) = "iterate" /\ i0 < MaxIterations
        BY <1>2, <1>9 DEF NextIteration, RInv, Answered, Said, Round, i0
    <2>10. Abstract!Iterate
        BY <1>2, <2>1, <2>8, <2>9 DEF Abstract!Iterate, i0
    <2>. QED
        BY <1>6, <1>7, <2>1, <2>6, <2>7, <2>10 DEF RInv, Turn, Abstract!LoopNext
<1>. QED
    BY <1>3, <1>4, <1>8, <1>9 DEF VerdictStep

LEMMA ActuationTurns ==
    ASSUME LoopTypes, LoopTypes', WorkTypes, RInv, ActuationStep PROVE RInv' /\ Turn
<1>1. /\ loop.stage = "actuation" /\ Alive /\ i0 \in Iterations /\ UNCHANGED <<answer, result>>
      /\ loop.stage \notin ReviewStages /\ Phase = "executing"
    BY RoundIsRound DEF ActuationStep, Authorize, SaveAuthorization, ActuationHadFailed, Reserve, Rejoin,
        CreateExecution, Spawn, SavePid, LaunchFails, MarkActuation, Actuated, Refused, MayActuate, Handles,
        RInv, PlacesFit, ActuationPlaces, LaunchPlaces, Alive, Ends, ReviewStages, Phase
<1>2. ASSUME UNCHANGED loop, flight'.at \in ActuationPlaces \cup {"step"}, Actuations'
      PROVE  /\ RInv' /\ UNCHANGED <<Phase, loop.iteration, [i \in Iterations |-> Said(i)]>>
             /\ UNCHANGED execution => Turn
    <2>1. PlacesFit' /\ Reviewed'
        BY <1>1, <1>2 DEF RInv, PlacesFit, Reviewed, DeliveryPlaces, CompletionPlaces, ActuationPlaces,
                          LaunchPlaces
    <2>2. flight'.at # "collect" /\ i0' = i0
        BY <1>2 DEF ActuationPlaces, LaunchPlaces, i0
    <2>3. Answered'
        BY <1>1, <1>2, <2>2 DEF RInv, Answered, ByText
    <2>4. UNCHANGED <<Phase, loop.iteration, [i \in Iterations |-> Said(i)]>>
        BY <1>1, <1>2 DEF Phase, Said
    <2>. QED
        BY <1>2, <2>1, <2>3, <2>4 DEF RInv, Turn, Abstract!loopVars
<1>3. CASE Authorize \/ SaveAuthorization
    <2>1. flight'.at = "step" /\ UNCHANGED <<actuation, execution, proven>>
        BY <1>3 DEF Authorize, SaveAuthorization, MayActuate, Handles
    <2>2. loop'.stage = loop.stage /\ loop'.iteration = loop.iteration /\ loop'.recovery = loop.recovery
        BY <1>3 DEF Authorize, SaveAuthorization, LoopTypes, Loop
    <2>3. PlacesFit' /\ Phase' = Phase
        BY <2>1, <2>2 DEF PlacesFit, DeliveryPlaces, CompletionPlaces, ActuationPlaces, LaunchPlaces, Phase
    <2>. QED
        BY <1>1, <2>1, <2>2, <2>3, QuietSteps DEF Quiet, Turn, LaunchPlaces
<1>4. CASE ActuationHadFailed
    <2>1. execution[i0] # "passed"
        BY <1>1, <1>4 DEF ActuationHadFailed, RInv, Actuations
    <2>. QED
        BY <1>1, <1>4, <2>1, EndSteps DEF ActuationHadFailed, Turn, Abstract!LoopNext
<1>5. CASE Refused
    BY <1>1, <1>5, EndSteps DEF Refused, HumanRequired, Turn, Abstract!LoopNext
<1>6. CASE Reserve
    <2>1. UNCHANGED <<loop, execution, proven>> /\ flight'.at = "create" /\ i0' = i0
        BY <1>6 DEF Reserve, LoopTypes, Flights, i0
    <2>2. \A i \in Iterations : actuation'[i] = IF i = i0 THEN "starting" ELSE actuation[i]
        BY <1>1, <1>6 DEF Reserve, SetActuation, WorkTypes
    <2>3. actuation[i0] = "none"
        BY <1>6 DEF Reserve
    <2>4. Actuations'
        BY <1>1, <2>1, <2>2, <2>3 DEF RInv, Actuations, LaunchPlaces
    <2>. QED
        BY <1>2, <2>1, <2>4 DEF ActuationPlaces, LaunchPlaces
<1>7. CASE Rejoin
    <2>1. UNCHANGED <<loop, execution, proven>> /\ flight'.at \in {"actuated", "refused"} /\ i0' = i0
        BY <1>7 DEF Rejoin, LoopTypes, Flights, i0
    <2>2. UNCHANGED actuation \/ (\A i \in Iterations : actuation'[i] = IF i = i0 THEN "started" ELSE actuation[i])
        BY <1>1, <1>7 DEF Rejoin, SetActuation, WorkTypes
    <2>3. Actuations'
        BY <1>1, <2>1, <2>2 DEF RInv, Actuations, LaunchPlaces
    <2>. QED
        BY <1>2, <2>1, <2>3 DEF ActuationPlaces, LaunchPlaces
<1>8. CASE CreateExecution \/ LaunchFails
    <2>1. /\ UNCHANGED <<loop, actuation, proven>> /\ i0' = i0 /\ flight.at \in LaunchPlaces \ {"launched"}
          /\ flight'.at = IF flight.at = "create" THEN "spawn" ELSE "unlaunched"
        BY <1>8 DEF CreateExecution, LaunchFails, LoopTypes, Flights, i0, LaunchPlaces
    <2>. DEFINE s == IF flight.at = "create" THEN "running" ELSE "failed"
    <2>2. /\ execution' = [execution EXCEPT ![i0] = s]
          /\ \A i \in Iterations : execution'[i] = IF i = i0 THEN s ELSE execution[i]
        BY <1>1, <1>8 DEF CreateExecution, LaunchFails, SetExecution, WorkTypes
    <2>3. Actuations'
        BY <1>1, <2>1, <2>2 DEF RInv, Actuations, LaunchPlaces
    <2>4. RInv' /\ UNCHANGED <<Phase, loop.iteration, [i \in Iterations |-> Said(i)]>>
        BY <1>2, <2>1, <2>3 DEF ActuationPlaces, LaunchPlaces
    <2>5. CASE CreateExecution
        <3>1. execution[i0] = "none" /\ s = "running"
            BY <2>5 DEF CreateExecution, RInv, Actuations
        <3>2. Abstract!StartExecution
            BY <1>1, <2>2, <2>4, <3>1 DEF Abstract!StartExecution, i0
        <3>. QED
            BY <2>4, <3>2 DEF Turn, Abstract!LoopNext
    <2>6. CASE LaunchFails
        <3>1. execution[i0] = "running" /\ s = "failed"
            BY <2>6 DEF LaunchFails, RInv, Actuations
        <3>2. Abstract!EndExecution(i0)
            BY <2>2, <2>4, <3>1 DEF Abstract!EndExecution
        <3>3. i0 \in Abstract!Iterations
            BY <1>1 DEF Abstract!Iterations, Iterations
        <3>. QED
            BY <2>4, <3>2, <3>3 DEF Turn, Abstract!LoopNext
    <2>. QED
        BY <1>8, <2>5, <2>6
<1>9. CASE Spawn
    <2>1. UNCHANGED <<loop, actuation, execution, proven>> /\ flight'.at = "spawned" /\ i0' = i0
        BY <1>9 DEF Spawn, LoopTypes, Flights, i0
    <2>2. Actuations'
        BY <1>9, <2>1 DEF Spawn, RInv, Actuations, LaunchPlaces
    <2>. QED
        BY <1>2, <2>1, <2>2 DEF ActuationPlaces, LaunchPlaces
<1>10. CASE SavePid
    <2>1. UNCHANGED <<loop, actuation, execution>> /\ flight'.at = "launched" /\ i0' = i0
        BY <1>10 DEF SavePid, LoopTypes, Flights, i0
    <2>2. proven' = proven \cup {i0} /\ actuation[i0] = "starting"
        BY <1>10 DEF SavePid, RInv, Actuations, LaunchPlaces
    <2>3. Actuations'
        BY <2>1, <2>2 DEF RInv, Actuations, LaunchPlaces
    <2>. QED
        BY <1>2, <2>1, <2>3 DEF ActuationPlaces, LaunchPlaces
<1>11. CASE MarkActuation
    <2>1. UNCHANGED <<loop, execution, proven>> /\ flight'.at \in {"actuated", "refused"} /\ i0' = i0
        BY <1>11 DEF MarkActuation, LoopTypes, Flights, i0
    <2>2. PICK s \in {"started", "failed"} :
            /\ \A i \in Iterations : actuation'[i] = IF i = i0 THEN s ELSE actuation[i]
            /\ s = "failed" => flight.at = "unlaunched"
        BY <1>1, <1>11 DEF MarkActuation, SetActuation, WorkTypes
    <2>3. Actuations'
        BY <1>1, <2>1, <2>2 DEF RInv, Actuations, LaunchPlaces
    <2>. QED
        BY <1>2, <2>1, <2>3 DEF ActuationPlaces, LaunchPlaces
<1>12. CASE Actuated
    <2>1. /\ loop'.stage = "execution" /\ loop'.iteration = loop.iteration /\ loop'.recovery = loop.recovery
          /\ flight'.at = "step" /\ UNCHANGED <<actuation, execution, proven>>
        BY <1>12 DEF Actuated, LoopTypes, Loop, Flights
    <2>2. PlacesFit'
        BY <2>1 DEF PlacesFit, DeliveryPlaces, CompletionPlaces, ActuationPlaces, LaunchPlaces
    <2>3. Phase' = Phase
        BY <1>1, <2>1 DEF Phase, ReviewStages
    <2>. QED
        BY <1>1, <2>1, <2>2, <2>3, QuietSteps DEF Quiet, Turn, LaunchPlaces
<1>. QED
    BY <1>3, <1>4, <1>5, <1>6, <1>7, <1>8, <1>9, <1>10, <1>11, <1>12 DEF ActuationStep

LEMMA FaultTurns ==
    ASSUME LoopTypes, LoopTypes', RInv, FaultStep PROVE RInv' /\ Turn
<1>0. UNCHANGED <<actuation, execution, proven, answer, result>>
    BY DEF FaultStep
<1>1. CASE LaunchFault
    <2>1. UNCHANGED loop /\ flight.at \in LaunchPlaces \ {"launched"} /\ flight'.at = "unlaunched"
        BY <1>1 DEF LaunchFault, LaunchPlaces, LoopTypes, Flights
    <2>2. i0' = i0 /\ flight'.at \in LaunchPlaces \ {"launched"} /\ loop.stage = "actuation"
        BY <2>1 DEF i0, LaunchPlaces, ActuationPlaces, RInv, PlacesFit
    <2>3. PlacesFit' /\ Reviewed'
        BY <1>0, <2>1, <2>2 DEF RInv, PlacesFit, Reviewed, DeliveryPlaces, CompletionPlaces
    <2>4. Actuations'
        BY <1>0, <2>1, <2>2 DEF RInv, Actuations
    <2>5. Answered'
        BY <1>0, <2>1, <2>2 DEF RInv, Answered, ByText
    <2>6. UNCHANGED Abstract!loopVars
        BY <1>0, <2>1 DEF Abstract!loopVars, Said, Phase
    <2>. QED
        BY <2>3, <2>4, <2>5, <2>6 DEF RInv, Turn
<1>2. CASE ActuationFault \/ ReviewFault
    <2>1. Alive
        BY <1>2 DEF ActuationFault, ReviewFault, Alive, ReviewStages, Ends
    <2>. QED
        BY <1>0, <1>2, <2>1, EndSteps DEF ActuationFault, ReviewFault, HumanRequired, Turn, Abstract!LoopNext
<1>3. CASE FlightFault
    <2>1. UNCHANGED loop /\ flight'.at = "idle"
        BY <1>3 DEF FlightFault, Throw, NoFlight
    <2>2. PlacesFit' /\ Phase' = Phase
        BY <2>1 DEF PlacesFit, DeliveryPlaces, CompletionPlaces, ActuationPlaces, LaunchPlaces, Phase
    <2>. QED
        BY <1>0, <2>1, <2>2, QuietSteps DEF Quiet, Turn, LaunchPlaces
<1>. QED
    BY <1>1, <1>2, <1>3 DEF FaultStep

LEMMA CallTurns ==
    ASSUME LoopTypes, LoopTypes', RInv, CallStep PROVE RInv' /\ Turn
<1>0. UNCHANGED <<actuation, execution, proven, answer, result>>
    BY DEF CallStep, Calls
<1>1. flight'.at \in {flight.at, "step", "idle"}
    BY DEF CallStep, StartLoop, Advance, Fire, Tick, Recover, Crash, Hear, FollowUp, Enter, NoFlight
<1>2. CASE StartLoop /\ loop' = [loop EXCEPT !.stage = "review_request"]
    <2>1. flight.at = "idle" \/ flight'.at = flight.at
        BY <1>2 DEF StartLoop, Enter
    <2>2. flight'.at \in {"step", flight.at}
        BY <1>2 DEF StartLoop, Enter
    <2>3. loop.stage = "none" /\ (execution[1] = "passed" \/ loop'.stage = "execution")
        BY <1>2 DEF StartLoop, LoopTypes, Loop
    <2>4. execution[i0] = "passed"
        BY <1>2, <2>3 DEF RInv, Reviewed, i0, LoopTypes, Loop
    <2>. QED
        BY <1>0, <1>2, <2>2, <2>3, <2>4, ReviewBegins
<1>3. CASE ~(StartLoop /\ loop' = [loop EXCEPT !.stage = "review_request"])
    <2>1. /\ loop'.iteration = loop.iteration /\ loop'.recovery = loop.recovery
          /\ loop'.stage = loop.stage \/ (loop.stage = "none" /\ loop'.stage = "execution")
        BY <1>3 DEF CallStep, StartLoop, Advance, Fire, Tick, Recover, Crash, Hear, FollowUp, LoopTypes, Loop
    <2>2. PlacesFit'
        BY <1>1, <2>1 DEF RInv, PlacesFit, DeliveryPlaces, CompletionPlaces, ActuationPlaces, LaunchPlaces
    <2>3. Phase' = Phase
        BY <2>1 DEF Phase, ReviewStages
    <2>4. flight'.at \in LaunchPlaces \cup {"collect"} => flight'.at = flight.at
        BY <1>1 DEF LaunchPlaces
    <2>. QED
        BY <1>0, <2>1, <2>2, <2>3, <2>4, QuietSteps DEF Quiet, Turn, RInv, Answered
<1>. QED
    BY <1>2, <1>3

LEMMA EndExecutionTurns ==
    ASSUME LoopTypes, WorkTypes, RInv, NEW i \in Iterations, EndExecution(i) PROVE RInv' /\ Turn
<1>1. UNCHANGED <<loop, flight, actuation, proven, answer, result>> /\ execution[i] = "running"
    BY DEF EndExecution
<1>2. PICK s \in {"passed", "failed"} : execution' = [execution EXCEPT ![i] = s]
    BY DEF EndExecution
<1>3. \A j \in Iterations : execution'[j] = IF j = i THEN s ELSE execution[j]
    BY <1>2 DEF WorkTypes
<1>4. i0 \in Iterations /\ i0' = i0 /\ i \in proven
    BY <1>1, RoundIsRound DEF i0, EndExecution
<1>5. PlacesFit' /\ Reviewed'
    BY <1>1, <1>3, <1>4 DEF RInv, PlacesFit, Reviewed
<1>6. Actuations'
    BY <1>1, <1>3, <1>4 DEF RInv, Actuations, LaunchPlaces
<1>7. Answered'
    BY <1>1, <1>4 DEF RInv, Answered, ByText, Round
<1>8. UNCHANGED <<Phase, loop.iteration, [j \in Iterations |-> Said(j)]>>
    BY <1>1 DEF Phase, Said
<1>9. Abstract!EndExecution(i) /\ i \in Abstract!Iterations
    BY <1>1, <1>2, <1>8 DEF Abstract!EndExecution, Abstract!Iterations, Iterations
<1>. QED
    BY <1>5, <1>6, <1>7, <1>9 DEF RInv, Turn, Abstract!LoopNext

LEMMA VerdictIsHeard ==
    ASSUME LoopTypes, ChatTypes, RInv, SubmitVerdict PROVE RInv' /\ Turn
<1>1. /\ loop.stage \in ReviewStages /\ ~ByText(Round) /\ answer[Round] = "none"
      /\ UNCHANGED <<loop, flight, actuation, execution, proven, result>>
    BY DEF SubmitVerdict, ReviewStages
<1>2. PICK a \in {"approve", "iterate", "human"} : answer' = [answer EXCEPT ![Round] = a]
    BY DEF SubmitVerdict
<1>3. a \in TextAnswers /\ a # "missing"
    BY DEF TextAnswers, Answers
<1>4. PlacesFit' /\ flight'.at \notin LaunchPlaces
    BY <1>1 DEF RInv, PlacesFit, ActuationPlaces, ReviewStages
<1>. QED
    BY <1>1, <1>2, <1>3, <1>4, AnswerTurns

LEMMA TurnsInitially == AutoInit => RInv /\ Abstract!LoopInit
<1>. SUFFICES ASSUME AutoInit PROVE RInv /\ Abstract!LoopInit
    OBVIOUS
<1>. USE DEF AutoInit
<1>1. loop.stage = "none" /\ loop.iteration = 1 /\ loop.recovery = FALSE /\ flight.at = "idle"
    BY DEF NoLoop, NoFlight
<1>2. PlacesFit /\ Reviewed
    BY <1>1 DEF PlacesFit, Reviewed, DeliveryPlaces, CompletionPlaces, ActuationPlaces, LaunchPlaces,
                ReviewStages
<1>3. Actuations
    BY <1>1 DEF Actuations, LaunchPlaces
<1>4. Answered
    BY <1>1 DEF Answered, Rounds
<1>5. Phase = "executing" /\ \A i \in Iterations : Said(i) = "nothing"
    BY <1>1 DEF Phase, ReviewStages, Said, Rounds
<1>6. Abstract!LoopInit
    BY <1>1, <1>5 DEF Abstract!LoopInit, Abstract!Iterations, Iterations
<1>. QED
    BY <1>2, <1>3, <1>4, <1>6 DEF RInv

\* Every step of the checkpoint and its records is a turn of the loop, or none.
LEMMA TurnsStep == IInv /\ IInv' /\ RInv /\ [AutoNext]_autoVars => RInv' /\ Turn
<1>. SUFFICES ASSUME IInv, IInv', RInv, [AutoNext]_autoVars PROVE RInv' /\ Turn
    OBVIOUS
<1>1. LoopTypes /\ RecordTypes /\ WorkTypes /\ ChatTypes
    BY TypesTogether DEF IInv
<1>2. LoopTypes'
    BY DEF IInv, AutoTypeOK, LoopTypes, Flights
<1>3. CASE FlightStep \/ EndStep
    BY <1>1, <1>2, <1>3, FlightTurns
<1>4. CASE RequestStep
    BY <1>1, <1>2, <1>4, RequestTurns
<1>5. CASE DeliveryStep
    BY <1>1, <1>2, <1>5, DeliveryTurns
<1>6. CASE CompletionStep
    BY <1>1, <1>2, <1>6, CompletionTurns
<1>7. CASE VerdictStep
    BY <1>1, <1>7, VerdictTurns
<1>8. CASE ActuationStep
    BY <1>1, <1>2, <1>8, ActuationTurns
<1>9. CASE FaultStep
    BY <1>1, <1>2, <1>9, FaultTurns
<1>10. CASE CallStep
    BY <1>1, <1>2, <1>10, CallTurns
<1>11. CASE SubmitVerdict
    BY <1>1, <1>11, VerdictIsHeard
<1>12. ASSUME NEW i \in Iterations, EndExecution(i) PROVE RInv' /\ Turn
    BY <1>1, <1>12, EndExecutionTurns
<1>13. CASE UNCHANGED autoVars \/ \E r \in Rounds : ChatStep(r)
    <2>1. UNCHANGED <<loop, flight, actuation, execution, proven, answer, result>>
        BY <1>13 DEF autoVars, ChatStep
    <2>2. PlacesFit' /\ Phase' = Phase
        BY <2>1 DEF RInv, PlacesFit, Phase
    <2>3. flight'.at = "collect" => result[Round] \in {"none", "TIMEOUT"}
        BY <2>1 DEF RInv, Answered
    <2>. QED
        BY <1>1, <1>2, <2>1, <2>2, <2>3, QuietSteps DEF Quiet, Turn
<1>. QED
    BY <1>3, <1>4, <1>5, <1>6, <1>7, <1>8, <1>9, <1>10, <1>11, <1>12, <1>13 DEF AutoNext, Work

\* Whatever stops and fails, and whoever calls, the checkpoint with all its records
\* takes the turns that ReviewLoop promises: execution, review, verdict, the next
\* iteration or the end (auto-iteration.ts:613-677).
THEOREM ImplementsReviewLoop == AutoSpec => ImplementsLoop
BY AutoInitially, AutoStep, TurnsInitially, TurnsStep, PTL
DEF AutoSpec, ImplementsLoop, Abstract!LoopSpec, Turn

-----------------------------------------------------------------------------
(* What the abstract loop keeps, read off the checkpoint and its records.   *)
(* TurnsTaken together with the types is inductive as it stands: an answer  *)
(* is given only while reviewing, when the execution has passed, and the    *)
(* next iteration has not begun before Iterate.                             *)

LInv == Abstract!LoopTypeOK /\ Abstract!TurnsTaken

LEMMA LoopInitially == Abstract!LoopInit => LInv
<1>. SUFFICES ASSUME Abstract!LoopInit PROVE LInv
    OBVIOUS
<1>1. 1 \in Abstract!Iterations /\ Abstract!Iterations \subseteq Nat
    BY LoopAssumption DEF Abstract!Iterations
<1>2. Abstract!LoopTypeOK
    BY <1>1 DEF Abstract!LoopInit, Abstract!LoopTypeOK, Abstract!Outcomes, Abstract!Sayings
<1>3. Abstract!TurnsTaken
    BY <1>1 DEF Abstract!LoopInit, Abstract!TurnsTaken, Abstract!Iterations
<1>. QED
    BY <1>2, <1>3 DEF LInv

LEMMA LoopStep == LInv /\ Turn => LInv'
<1>. SUFFICES ASSUME LInv, Turn PROVE LInv'
    OBVIOUS
<1>. USE DEF LInv, Abstract!LoopTypeOK, Abstract!Outcomes, Abstract!Sayings
<1>1. CASE Abstract!StartExecution
    BY <1>1 DEF Abstract!StartExecution, Abstract!TurnsTaken, Abstract!Iterations
<1>2. CASE Abstract!BeginReview
    BY <1>2 DEF Abstract!BeginReview, Abstract!TurnsTaken
<1>3. CASE Abstract!Say
    BY <1>3 DEF Abstract!Say, Abstract!TurnsTaken, Abstract!Iterations
<1>4. CASE Abstract!Iterate
    <2>0. MaxIterations \in Nat
        BY LoopAssumption
    <2>1. Abstract!LoopTypeOK'
        BY <1>4, <2>0 DEF Abstract!Iterate, Abstract!Iterations
    <2>2. \A i \in Abstract!Iterations : i < loop.iteration' => i < loop.iteration \/ i = loop.iteration
        BY <1>4, <2>0 DEF Abstract!Iterate, Abstract!Iterations
    <2>3. \A i \in Abstract!Iterations : i > loop.iteration' => i > loop.iteration
        BY <1>4, <2>0 DEF Abstract!Iterate, Abstract!Iterations
    <2>4. Abstract!TurnsTaken'
        BY <1>4, <2>2, <2>3 DEF Abstract!Iterate, Abstract!TurnsTaken
    <2>. QED
        BY <2>1, <2>4
<1>5. CASE Abstract!EndLoop
    BY <1>5 DEF Abstract!EndLoop, Abstract!TurnsTaken
<1>6. ASSUME NEW i \in Abstract!Iterations, Abstract!EndExecution(i) PROVE LInv'
    BY <1>6 DEF Abstract!EndExecution, Abstract!TurnsTaken
<1>7. CASE UNCHANGED Abstract!loopVars
    BY <1>7 DEF Abstract!loopVars, Abstract!TurnsTaken
<1>. QED
    BY <1>1, <1>2, <1>3, <1>4, <1>5, <1>6, <1>7 DEF Turn, Abstract!LoopNext

LEMMA EndsKept == LInv /\ Turn => [Abstract!EndIsFinal]_(Abstract!loopVars)
<1>. SUFFICES ASSUME LInv, Abstract!LoopNext PROVE Abstract!EndIsFinal
    BY DEF Turn
<1>. USE DEF Abstract!EndIsFinal, LInv, Abstract!LoopTypeOK, Abstract!Iterations
<1>1. CASE Abstract!StartExecution \/ Abstract!BeginReview \/ Abstract!Iterate \/ Abstract!EndLoop
    BY <1>1 DEF Abstract!StartExecution, Abstract!BeginReview, Abstract!Iterate, Abstract!EndLoop
<1>2. CASE Abstract!Say
    BY <1>2 DEF Abstract!Say
<1>3. ASSUME NEW i \in Abstract!Iterations, Abstract!EndExecution(i) PROVE Abstract!EndIsFinal
    BY <1>3 DEF Abstract!EndExecution
<1>. QED
    BY <1>1, <1>2, <1>3 DEF Abstract!LoopNext

\* Whatever the number of iterations, and whatever stops and fails, every earlier
\* execution passed and was answered with a request for the next one, no later one
\* has begun, and approved work was approved (auto-iteration.ts:613-677).
THEOREM TurnsAlwaysTaken == AutoSpec => []Abstract!TurnsTaken
<1>1. LInv => Abstract!TurnsTaken
    BY DEF LInv
<1>. QED
    BY <1>1, AutoInitially, AutoStep, TurnsInitially, TurnsStep, LoopInitially, LoopStep, PTL DEF AutoSpec

\* No step of the checkpoint or its records takes a loop out of a terminal stage,
\* or changes an answer or the outcome of an execution (auto-iteration.ts:618-621).
THEOREM EndsAreFinal == AutoSpec => Abstract!EndsStayFinal
BY AutoInitially, AutoStep, TurnsInitially, TurnsStep, LoopInitially, LoopStep, EndsKept, PTL
DEF AutoSpec, Abstract!EndsStayFinal
==============================================================================

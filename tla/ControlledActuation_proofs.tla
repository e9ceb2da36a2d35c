---------------------- MODULE ControlledActuation_proofs ----------------------
(***************************************************************************)
(* Proofs about executions and their actuation, for any executions, any    *)
(* authorizations of them and any number of stops and failures.            *)
(*                                                                         *)
(* One invariant per execution carries them (ExecutionOK): where the start *)
(* of an execution is tells what its record says and whether a process was *)
(* launched (StartOK), who may still write an outcome (WriterOK), and what *)
(* the evidence in the files says of the process (EvidenceOK).             *)
(***************************************************************************)
EXTENDS ControlledActuation, TLAPS

Starting == {"create", "launch", "save", "fail"}

\* What is not recorded was not launched, and what has a process id was.
StartOK(e) ==
    /\ record[e].status \in {"none", "torn"} => launches[e] = 0 /\ ~record[e].pid
    /\ record[e].pid => launches[e] = 1
    /\ launches[e] \in 0 .. 1
    /\ start[e] = "create" => record[e].status = "none"
    /\ start[e] \in {"launch", "save", "fail"} => Running(e) /\ ~record[e].pid
    /\ start[e] = "launch" => launches[e] = 0
    /\ start[e] = "save" => launches[e] = 1

\* One writer of the outcome: the start, the observer or the recovery.
WriterOK(e) ==
    /\ observer[e] \in {"watching", "settling"} => Running(e) /\ record[e].pid
    /\ e \in recovering =>
        record[e].status # "none" /\ start[e] \notin Starting /\ observer[e] = "none"

\* The log holds nothing that the process did not write; saved exit evidence means that
\* the process has ended and that the log is complete.
EvidenceOK(e) ==
    /\ log[e] \subseteq did[e]
    /\ process[e] = "none" <=> launches[e] = 0
    /\ did[e] # {} => launches[e] = 1
    /\ exit[e] = "valid" => process[e] = "ended" /\ log[e] = did[e]
    /\ observer[e] = "settling" => exit[e] = "valid"
    /\ record[e].status = "passed" =>
        "completed" \in did[e] /\ (exit[e] = "valid" => "failed" \notin did[e])

ExecutionOK(e) == StartOK(e) /\ WriterOK(e) /\ EvidenceOK(e)
ExecutionInv == ExecutionTypeOK /\ \A e \in Executions : ExecutionOK(e)

\* A request for an execution changes nothing of it by itself.
OnlyRequests == UNCHANGED <<durable, world, volatile, notified>> /\ crashes' = crashes
                /\ faults' \in 0 .. MaxFaults

USE DEF durable, world, volatile, bounds, Running, Step, Fault

-----------------------------------------------------------------------------
(* A step of one execution leaves the others alone *)

Touches(e) ==
    /\ ExecutionTypeOK'
    /\ \A f \in Executions \ {e} :
        /\ record'[f] = record[f] /\ exit'[f] = exit[f] /\ log'[f] = log[f]
        /\ process'[f] = process[f] /\ launches'[f] = launches[f] /\ did'[f] = did[f]
        /\ start'[f] = start[f] /\ observer'[f] = observer[f]
        /\ f \in recovering' <=> f \in recovering

LEMMA TouchedKeeps ==
    ASSUME ExecutionInv, NEW e \in Executions, Touches(e), ExecutionOK(e)'
    PROVE  ExecutionInv'
<1>1. ASSUME NEW f \in Executions PROVE ExecutionOK(f)'
    <2>1. CASE f = e
        BY <2>1
    <2>2. CASE f # e
        BY <2>2 DEF ExecutionInv, ExecutionOK, Touches, StartOK, WriterOK, EvidenceOK
    <2>. QED
        BY <2>1, <2>2
<1>. QED
    BY <1>1 DEF ExecutionInv, Touches

LEMMA BeginStartOK ==
    ASSUME ExecutionTypeOK, NEW e \in Executions, ExecutionOK(e), BeginStart(e)
    PROVE  Touches(e) /\ ExecutionOK(e)'
BY DEF BeginStart, Touches, ExecutionTypeOK, Record, Confirmed, Starting,
       ExecutionOK, StartOK, WriterOK, EvidenceOK

LEMMA EndStartOK ==
    ASSUME ExecutionTypeOK, NEW e \in Executions, ExecutionOK(e), EndStart(e)
    PROVE  Touches(e) /\ ExecutionOK(e)'
BY DEF EndStart, Touches, ExecutionTypeOK, Starting,
       ExecutionOK, StartOK, WriterOK, EvidenceOK

LEMMA CreateOK ==
    ASSUME ExecutionTypeOK, NEW e \in Executions, ExecutionOK(e), CreateRecord(e) \/ CreateFails(e)
    PROVE  Touches(e) /\ ExecutionOK(e)'
<1>1. PICK s \in {"none", "torn", "running"} :
        /\ record' = [record EXCEPT ![e].status = s]
        /\ start' = [start EXCEPT ![e] = IF s = "running" THEN "launch" ELSE "refused"]
        /\ start[e] = "create"
        /\ UNCHANGED <<exit, log, world, observer, recovering, notified>>
        /\ crashes' = crashes /\ faults' \in 0 .. MaxFaults
    BY ExecutionAssumption DEF CreateRecord, CreateFails, ExecutionTypeOK
<1>2. Touches(e)
    BY <1>1 DEF Touches, ExecutionTypeOK, Record
<1>3. record'[e].status = s /\ record'[e].pid = record[e].pid
    BY <1>1 DEF ExecutionTypeOK, Record
<1>. QED
    BY <1>1, <1>2, <1>3 DEF ExecutionTypeOK, Starting, ExecutionOK, StartOK, WriterOK, EvidenceOK

LEMMA LaunchOK ==
    ASSUME ExecutionTypeOK, NEW e \in Executions, ExecutionOK(e), Launch(e) \/ LaunchFails(e)
    PROVE  Touches(e) /\ ExecutionOK(e)'
BY DEF Launch, LaunchFails, Touches, ExecutionTypeOK, Starting,
       ExecutionOK, StartOK, WriterOK, EvidenceOK

LEMMA SavePidOK ==
    ASSUME ExecutionTypeOK, NEW e \in Executions, ExecutionOK(e), SavePid(e) \/ SavePidFails(e)
    PROVE  Touches(e) /\ ExecutionOK(e)'
<1>1. CASE SavePid(e)
    BY <1>1 DEF SavePid, Touches, ExecutionTypeOK, Record, Starting,
                ExecutionOK, StartOK, WriterOK, EvidenceOK
<1>2. CASE SavePidFails(e)
    BY <1>2, ExecutionAssumption DEF SavePidFails, Touches, ExecutionTypeOK, Starting,
                ExecutionOK, StartOK, WriterOK, EvidenceOK
<1>. QED
    BY <1>1, <1>2

LEMMA FailureOK ==
    ASSUME ExecutionTypeOK, NEW e \in Executions, ExecutionOK(e),
           RecordFailure(e) \/ RecordFailureFails(e)
    PROVE  Touches(e) /\ ExecutionOK(e)'
<1>1. CASE RecordFailure(e)
    BY <1>1 DEF RecordFailure, Touches, ExecutionTypeOK, Record, Starting,
                ExecutionOK, StartOK, WriterOK, EvidenceOK
<1>2. CASE RecordFailureFails(e)
    BY <1>2, ExecutionAssumption DEF RecordFailureFails, Touches, ExecutionTypeOK, Starting,
                ExecutionOK, StartOK, WriterOK, EvidenceOK
<1>. QED
    BY <1>1, <1>2

LEMMA ProcessOK ==
    ASSUME ExecutionTypeOK, NEW e \in Executions, ExecutionOK(e), ProcessStep(e)
    PROVE  Touches(e) /\ ExecutionOK(e)'
<1>1. CASE End(e)
    BY <1>1 DEF End, Touches, ExecutionTypeOK, Starting,
                ExecutionOK, StartOK, WriterOK, EvidenceOK
<1>2. CASE Flush(e)
    BY <1>2 DEF Flush, Piped, Touches, ExecutionTypeOK, Starting,
                ExecutionOK, StartOK, WriterOK, EvidenceOK
<1>3. ASSUME NEW event \in TurnEvents, Emit(e, event)
      PROVE  Touches(e) /\ ExecutionOK(e)'
    <2>1. did'[e] = did[e] \cup {event} /\ process[e] = "alive"
        BY <1>3 DEF Emit, ExecutionTypeOK
    <2>2. Touches(e)
        BY <1>3 DEF Emit, Touches, ExecutionTypeOK
    <2>. QED
        BY <1>3, <2>1, <2>2 DEF Emit, ExecutionTypeOK, Starting, ExecutionOK, StartOK, WriterOK, EvidenceOK
<1>. QED
    BY <1>1, <1>2, <1>3 DEF ProcessStep

\* What reconcile makes of complete or partial evidence.
LEMMA SettledOK ==
    ASSUME ExecutionTypeOK, NEW e \in Executions, ExecutionOK(e), NEW ended \in BOOLEAN,
           Running(e), record[e].pid, Settled(e, Outcome(e, ended)),
           UNCHANGED <<exit, log, world, start, notified, bounds>>,
           recovering' = recovering \ {e},
           observer[e] \in {"none", "settling"}
    PROVE  Touches(e) /\ ExecutionOK(e)'
<1>. DEFINE outcome == Outcome(e, ended)
<1>1. /\ outcome \in {"passed", "failed", "running"}
      /\ outcome = "passed" => "completed" \in log[e] /\ "failed" \notin log[e]
    BY DEF Outcome
<1>2. /\ record'[e] = [record[e] EXCEPT !.status = outcome]
      /\ observer'[e] = IF outcome = "running" THEN "none" ELSE "notifying"
    BY DEF Settled, ExecutionTypeOK
<1>3. record'[e].status = outcome /\ record'[e].pid
    BY <1>2 DEF ExecutionTypeOK, Record
<1>4. Touches(e)
    BY <1>1 DEF Settled, Touches, ExecutionTypeOK, Record
<1>. HIDE DEF outcome
<1>. QED
    BY <1>1, <1>2, <1>3, <1>4
       DEF ExecutionTypeOK, Starting, ExecutionOK, StartOK, WriterOK, EvidenceOK

LEMMA CompletionOK ==
    ASSUME ExecutionTypeOK, NEW e \in Executions, ExecutionOK(e), CompletionStep(e)
    PROVE  Touches(e) /\ ExecutionOK(e)'
<1>. USE DEF Touches, ExecutionTypeOK, Starting, ExecutionOK, StartOK, WriterOK, EvidenceOK
<1>1. CASE SaveExit(e)
    BY <1>1 DEF SaveExit
<1>2. CASE SaveExitFails(e)
    BY <1>2, ExecutionAssumption DEF SaveExitFails
<1>3. CASE Settle(e)
    <2>1. e \notin recovering /\ recovering' = recovering \ {e}
        BY <1>3 DEF Settle
    <2>. QED
        BY <1>3, <2>1, SettledOK DEF Settle
<1>4. CASE SettleFails(e)
    BY <1>4, ExecutionAssumption DEF SettleFails
<1>5. CASE Notify(e)
    BY <1>5 DEF Notify
<1>6. CASE RecoverOne(e)
    <2>1. CASE Recoverable(e)
        <3>1. Settled(e, Outcome(e, exit[e] = "valid" \/ process[e] = "ended"))
            BY <1>6, <2>1 DEF RecoverOne
        <3>2. (exit[e] = "valid" \/ process[e] = "ended") \in BOOLEAN /\ observer[e] = "none"
            BY <1>6 DEF RecoverOne
        <3>. QED
            BY <1>6, <2>1, <3>1, <3>2, SettledOK DEF RecoverOne, Recoverable
    <2>2. CASE ~Recoverable(e)
        BY <1>6, <2>2 DEF RecoverOne
    <2>. QED
        BY <2>1, <2>2
<1>7. CASE RecoverFails(e)
    BY <1>7, ExecutionAssumption DEF RecoverFails
<1>. QED
    BY <1>1, <1>2, <1>3, <1>4, <1>5, <1>6, <1>7 DEF CompletionStep

-----------------------------------------------------------------------------
(* A stop, and the invariant of the executions *)

LEMMA RestartOK ==
    ASSUME ExecutionInv, Restart PROVE ExecutionInv'
<1>1. PICK torn \in SUBSET TornRecords :
        record' = [e \in Executions |->
            IF e \in torn THEN [record[e] EXCEPT !.status = "torn"] ELSE record[e]]
    BY DEF Restart
<1>2. PICK tornExits \in SUBSET TornExits :
        exit' = [e \in Executions |-> IF e \in tornExits THEN "torn" ELSE exit[e]]
    BY DEF Restart
<1>3. /\ start' = [e \in Executions |-> "idle"]
      /\ observer' = [e \in Executions |-> "none"]
      /\ UNCHANGED <<log, process, launches, did, notified, faults>>
      /\ crashes' = crashes + 1 /\ crashes < MaxCrashes
    BY DEF Restart
<1>4. recovering' \subseteq Executions /\ \A e \in recovering' : record'[e].status # "none"
    BY DEF Restart, Listable
<1>5. ExecutionTypeOK'
    BY <1>1, <1>2, <1>3, <1>4, ExecutionAssumption DEF ExecutionInv, ExecutionTypeOK, Record
<1>6. ASSUME NEW e \in Executions PROVE ExecutionOK(e)'
    <2>1. /\ record'[e].pid = record[e].pid
          /\ record'[e].status = IF e \in torn THEN "torn" ELSE record[e].status
        BY <1>1 DEF ExecutionInv, ExecutionTypeOK, Record
    <2>2. e \in torn => start[e] = "create"
        BY DEF TornRecords
    <2>3. exit'[e] \in {exit[e], "torn"} /\ start'[e] = "idle" /\ observer'[e] = "none"
        BY <1>2, <1>3
    <2>4. ExecutionOK(e)
        BY DEF ExecutionInv
    <2>5. /\ process'[e] = process[e] /\ launches'[e] = launches[e]
          /\ did'[e] = did[e] /\ log'[e] = log[e]
          /\ e \in recovering' => record'[e].status # "none"
        BY <1>3, <1>4
    <2>6. StartOK(e)'
        BY <2>1, <2>2, <2>3, <2>4, <2>5 DEF ExecutionOK, StartOK
    <2>7. WriterOK(e)'
        BY <2>1, <2>2, <2>3, <2>4, <2>5 DEF ExecutionOK, WriterOK, Starting
    <2>8. EvidenceOK(e)'
        BY <2>1, <2>2, <2>3, <2>4, <2>5 DEF ExecutionOK, EvidenceOK
    <2>. QED
        BY <2>6, <2>7, <2>8 DEF ExecutionOK
<1>. QED
    BY <1>5, <1>6 DEF ExecutionInv

LEMMA RequestsOK ==
    ASSUME ExecutionInv, OnlyRequests PROVE ExecutionInv'
<1>1. ExecutionTypeOK'
    BY DEF OnlyRequests, ExecutionInv, ExecutionTypeOK
<1>2. ASSUME NEW e \in Executions PROVE ExecutionOK(e)'
    BY DEF OnlyRequests, ExecutionInv, ExecutionOK, StartOK, WriterOK, EvidenceOK
<1>. QED
    BY <1>1, <1>2 DEF ExecutionInv

LEMMA ExecutionInitOK == ExecutionInit => ExecutionInv
<1>1. ASSUME ExecutionInit PROVE ExecutionTypeOK
    BY <1>1, ExecutionAssumption DEF ExecutionInit, ExecutionTypeOK, Record, NoRecord
<1>2. ASSUME ExecutionInit, NEW e \in Executions PROVE ExecutionOK(e)
    BY <1>2 DEF ExecutionInit, NoRecord, ExecutionOK, StartOK, WriterOK, EvidenceOK, Starting
<1>. QED
    BY <1>1, <1>2 DEF ExecutionInv

\* What an action of ControlledActuation does to the executions.
ExecutionPart ==
    \/ \E e \in Executions : BeginStart(e) \/ EndStart(e) \/ StartStep(e)
                             \/ ProcessStep(e) \/ CompletionStep(e)
    \/ Restart
    \/ OnlyRequests

LEMMA PartsOK ==
    ASSUME ExecutionInv, ExecutionPart PROVE ExecutionInv'
<1>1. ASSUME NEW e \in Executions,
             BeginStart(e) \/ EndStart(e) \/ StartStep(e) \/ ProcessStep(e) \/ CompletionStep(e)
      PROVE  Touches(e) /\ ExecutionOK(e)'
    <2>1. ExecutionTypeOK /\ ExecutionOK(e)
        BY DEF ExecutionInv
    <2>2. CASE StartStep(e)
        BY <2>1, <2>2, CreateOK, LaunchOK, SavePidOK, FailureOK DEF StartStep
    <2>. QED
        BY <1>1, <2>1, <2>2, BeginStartOK, EndStartOK, ProcessOK, CompletionOK
<1>. QED
    BY <1>1, TouchedKeeps, RestartOK, RequestsOK DEF ExecutionPart

LEMMA ActionsAreParts ==
    ASSUME ExecutionTypeOK, [ActuationNext]_actuationVars PROVE ExecutionPart
<1>. USE ActuationAssumption, ExecutionAssumption
     DEF OnlyRequests, executionVars, storeVars, actuationVars, ExecutionTypeOK
<1>1. ASSUME NEW a \in Actuations, Authorize(a) \/ Actuate(a) \/ ActuateStep(a)
      PROVE  OnlyRequests \/ BeginStart(ExecutionOf[a])
    BY <1>1 DEF Authorize, Actuate, ActuateStep, Validate, Revalidate, Reserve, ReserveFails,
                StartOrJoin, MarkStarted, MarkFailed, MarkFails, Recover
<1>2. ASSUME NEW e \in Executions, Resolve(e) \/ BackgroundStep(e)
      PROVE  EndStart(e) \/ StartStep(e) \/ ProcessStep(e) \/ CompletionStep(e)
    BY <1>2 DEF Resolve, BackgroundStep
<1>3. CASE RestartAll
    BY <1>3 DEF RestartAll, ExecutionPart
<1>4. CASE UNCHANGED actuationVars
    BY <1>4 DEF ExecutionPart
<1>. QED
    BY <1>1, <1>2, <1>3, <1>4 DEF ActuationNext, ExecutionPart

LEMMA ExecutionInvariant == ActuationSpec => []ExecutionInv
<1>1. ActuationInit => ExecutionInv
    BY ExecutionInitOK DEF ActuationInit
<1>2. ExecutionInv /\ [ActuationNext]_actuationVars => ExecutionInv'
    BY PartsOK, ActionsAreParts DEF ExecutionInv
<1>. QED
    BY <1>1, <1>2, PTL DEF ActuationSpec

\* An execution is recorded as passed only on complete evidence that it has completed its
\* turn: whatever stops between the exit, its evidence and the record.
THEOREM AlwaysEarned == ActuationSpec => []PassedIsEarned
<1>1. ExecutionInv => PassedIsEarned
    BY DEF ExecutionInv, ExecutionOK, EvidenceOK, PassedIsEarned
<1>. QED
    BY <1>1, ExecutionInvariant, PTL

-----------------------------------------------------------------------------
(* Executions live as ExecutionLife says *)

Status(e) == IF record[e].status = "torn" THEN "none" ELSE record[e].status
Lives == Life!LifeNext \/ UNCHANGED <<[e \in Executions |-> Status(e)], launches>>

LEMMA SameStatusLives ==
    ASSUME \A e \in Executions : Status(e)' = Status(e), UNCHANGED launches
    PROVE  Lives
BY DEF Lives

\* The status of one execution changes, and that of no other.
LEMMA OneStatus ==
    ASSUME ExecutionTypeOK, NEW e \in Executions, NEW status \in Life!Statuses,
           record' = [record EXCEPT ![e].status = status]
    PROVE  [f \in Executions |-> Status(f)'] = [[f \in Executions |-> Status(f)] EXCEPT ![e] = status]
<1>1. record'[e].status = status /\ \A f \in Executions \ {e} : record'[f] = record[f]
    BY DEF ExecutionTypeOK, Record
<1>2. status # "torn"
    BY DEF Life!Statuses
<1>3. ASSUME NEW f \in Executions PROVE Status(f)' = IF f = e THEN status ELSE Status(f)
    BY <1>1, <1>2 DEF Status
<1>. QED
    BY <1>3

LEMMA OutcomeLives ==
    ASSUME ExecutionTypeOK, NEW e \in Executions, NEW ended \in BOOLEAN, ExecutionOK(e),
           Running(e), record[e].pid, Settled(e, Outcome(e, ended)), UNCHANGED launches
    PROVE  Lives
<1>1. Outcome(e, ended) \in {"passed", "failed", "running"}
    BY DEF Outcome
<1>2. record' = [record EXCEPT ![e].status = Outcome(e, ended)]
    BY DEF Settled
<1>3. launches[e] = 1 /\ Status(e) = "running"
    BY DEF ExecutionOK, StartOK, Status
<1>. DEFINE status == [f \in Executions |-> Status(f)]
<1>4. status' = [status EXCEPT ![e] = Outcome(e, ended)]
    BY <1>1, <1>2, OneStatus DEF Life!Statuses
<1>5. CASE Outcome(e, ended) = "running"
    BY <1>3, <1>4, <1>5 DEF Lives
<1>6. CASE Outcome(e, ended) # "running"
    <2>1. Life!EndLife(e)
        BY <1>1, <1>3, <1>4, <1>6 DEF Life!EndLife, Status
    <2>. QED
        BY <2>1 DEF Lives, Life!LifeNext
<1>. QED
    BY <1>5, <1>6

LEMMA StartLives ==
    ASSUME ExecutionTypeOK, NEW e \in Executions, ExecutionOK(e),
           BeginStart(e) \/ EndStart(e) \/ StartStep(e)
    PROVE  Lives
<1>. DEFINE status == [f \in Executions |-> Status(f)]
<1>1. CASE CreateRecord(e)
    <2>1. status' = [status EXCEPT ![e] = "running"] /\ Status(e) = "none"
        BY <1>1, OneStatus DEF CreateRecord, Life!Statuses, ExecutionOK, StartOK, Status
    <2>2. Life!Appear(e)
        BY <1>1, <2>1 DEF Life!Appear, CreateRecord, Status
    <2>. QED
        BY <2>2 DEF Lives, Life!LifeNext
<1>2. CASE CreateFails(e)
    <2>1. \A f \in Executions : Status(f)' = Status(f)
        BY <1>2 DEF CreateFails, ExecutionTypeOK, Record, ExecutionOK, StartOK, Status
    <2>. QED
        BY <1>2, <2>1, SameStatusLives DEF CreateFails
<1>3. CASE Launch(e)
    <2>1. Life!LaunchProcess(e)
        BY <1>3 DEF Life!LaunchProcess, Launch, ExecutionTypeOK, ExecutionOK, StartOK, Status
    <2>. QED
        BY <2>1 DEF Lives, Life!LifeNext
<1>4. CASE SavePid(e)
    <2>1. \A f \in Executions : Status(f)' = Status(f)
        BY <1>4 DEF SavePid, ExecutionTypeOK, Record, Status
    <2>. QED
        BY <1>4, <2>1, SameStatusLives DEF SavePid
<1>5. CASE RecordFailure(e)
    <2>1. status' = [status EXCEPT ![e] = "failed"] /\ Status(e) = "running"
        BY <1>5, OneStatus DEF RecordFailure, Life!Statuses, ExecutionOK, StartOK, Status
    <2>2. Life!EndLife(e)
        BY <1>5, <2>1 DEF Life!EndLife, RecordFailure, Status
    <2>. QED
        BY <2>2 DEF Lives, Life!LifeNext
<1>6. CASE BeginStart(e) \/ EndStart(e) \/ LaunchFails(e) \/ SavePidFails(e) \/ RecordFailureFails(e)
    <2>1. UNCHANGED <<record, launches>>
        BY <1>6 DEF BeginStart, EndStart, LaunchFails, SavePidFails, RecordFailureFails
    <2>. QED
        BY <2>1, SameStatusLives DEF Status
<1>. QED
    BY <1>1, <1>2, <1>3, <1>4, <1>5, <1>6 DEF StartStep

LEMMA EndLives ==
    ASSUME ExecutionTypeOK, NEW e \in Executions, ExecutionOK(e),
           ProcessStep(e) \/ CompletionStep(e)
    PROVE  Lives
<1>1. CASE Settle(e)
    BY <1>1, OutcomeLives DEF Settle, ExecutionOK, WriterOK
<1>2. CASE RecoverOne(e) /\ Recoverable(e)
    <2>1. (exit[e] = "valid" \/ process[e] = "ended") \in BOOLEAN
        OBVIOUS
    <2>. QED
        BY <1>2, <2>1, OutcomeLives DEF RecoverOne, Recoverable
<1>3. CASE ~(Settle(e) \/ (RecoverOne(e) /\ Recoverable(e)))
    <2>1. UNCHANGED <<record, launches>>
        BY <1>3 DEF ProcessStep, End, Flush, Emit, CompletionStep, SaveExit, SaveExitFails,
                    SettleFails, Notify, RecoverOne, RecoverFails
    <2>. QED
        BY <2>1, SameStatusLives DEF Status
<1>. QED
    BY <1>1, <1>2, <1>3

LEMMA RestartLives ==
    ASSUME ExecutionInv, Restart PROVE Lives
<1>1. PICK torn \in SUBSET TornRecords :
        record' = [e \in Executions |->
            IF e \in torn THEN [record[e] EXCEPT !.status = "torn"] ELSE record[e]]
    BY DEF Restart
<1>2. ASSUME NEW e \in Executions PROVE Status(e)' = Status(e)
    BY <1>1 DEF TornRecords, ExecutionInv, ExecutionTypeOK, Record, ExecutionOK, StartOK, Status
<1>3. UNCHANGED launches
    BY DEF Restart
<1>. QED
    BY <1>2, <1>3, SameStatusLives

\* Every execution lives as ExecutionLife says: its record appears once, at most one process
\* is ever launched for it, only one that was launched can pass, and an outcome is final.
THEOREM ExecutionsLive == ActuationSpec => ImplementsLife
<1>1. ActuationInit => Life!LifeInit
    BY DEF ActuationInit, ExecutionInit, NoRecord, Life!LifeInit
<1>2. ExecutionInv /\ [ActuationNext]_actuationVars =>
        [Life!LifeNext]_<<[e \in Executions |-> Status(e)], launches>>
    <2>1. SUFFICES ASSUME ExecutionInv, [ActuationNext]_actuationVars PROVE Lives
        BY DEF Lives
    <2>2. ExecutionPart
        BY <2>1, ActionsAreParts DEF ExecutionInv
    <2>3. CASE OnlyRequests
        BY <2>3, SameStatusLives DEF OnlyRequests, Status
    <2>4. ASSUME NEW e \in Executions PROVE ExecutionTypeOK /\ ExecutionOK(e)
        BY <2>1 DEF ExecutionInv
    <2>. QED
        BY <2>1, <2>2, <2>3, <2>4, StartLives, EndLives, RestartLives DEF ExecutionPart
<1>. QED
    BY <1>1, <1>2, ExecutionInvariant, PTL
       DEF ActuationSpec, ImplementsLife, Life!LifeSpec, Status

-----------------------------------------------------------------------------
(* Authorizations and actuations *)

StoreTypes ==
    /\ authorization \in [Actuations -> {"none", "authorized", "consumed"}]
    /\ actuation \in [Actuations -> {"none", "starting", "started", "failed"}]
    /\ flight \in [Actuations -> {"idle", "validate", "revalidate", "reserve", "start",
                                  "waiting", "succeed", "fail", "recover"}]

\* An actuation is recorded exactly when its authorization is consumed; a request that has
\* reserved goes on with an actuation that is starting, and one that was told of a start
\* finds the process id in the record.
RequestOK(a) ==
    /\ actuation[a] # "none" <=> authorization[a] = "consumed"
    /\ flight[a] \in {"validate", "reserve"} => authorization[a] # "none"
    /\ flight[a] \in {"start", "waiting", "succeed", "fail"} => actuation[a] # "none"
    /\ flight[a] = "succeed" => record[ExecutionOf[a]].pid
    /\ actuation[a] = "started" => record[ExecutionOf[a]].pid

Reserved(e) == \E a \in Actuations : ExecutionOf[a] = e /\ actuation[a] # "none"

\* Nothing is begun for an execution that nobody has reserved.
BegunOK(e) ==
    /\ start[e] = "accepted" => record[e].pid
    /\ start[e] # "idle" \/ launches[e] > 0 => Reserved(e)

ActuationInv ==
    /\ ExecutionInv
    /\ StoreTypes
    /\ \A a \in Actuations : RequestOK(a)
    /\ \A e \in Executions : BegunOK(e)

\* A process id stays, and so does a reservation.
PidsStay == \A e \in Executions : record[e].pid => record'[e].pid
ReservationsStay == \A a \in Actuations : actuation[a] # "none" => actuation'[a] # "none"

LEMMA PartsKeepPids ==
    ASSUME ExecutionInv, ExecutionPart PROVE PidsStay
<1>1. ASSUME NEW e \in Executions, NEW s, record' = [record EXCEPT ![e].status = s]
      PROVE  PidsStay
    BY <1>1 DEF PidsStay, ExecutionInv, ExecutionTypeOK, Record
<1>2. ASSUME NEW e \in Executions, record' = [record EXCEPT ![e].pid = TRUE]
      PROVE  PidsStay
    BY <1>2 DEF PidsStay, ExecutionInv, ExecutionTypeOK, Record
<1>3. CASE UNCHANGED record
    BY <1>3 DEF PidsStay
<1>4. CASE Restart
    BY <1>4 DEF Restart, PidsStay, ExecutionInv, ExecutionTypeOK, Record
<1>5. CASE OnlyRequests
    BY <1>3, <1>5 DEF OnlyRequests
<1>6. ASSUME NEW e \in Executions,
             BeginStart(e) \/ EndStart(e) \/ StartStep(e) \/ ProcessStep(e) \/ CompletionStep(e)
      PROVE  \/ UNCHANGED record \/ record' = [record EXCEPT ![e].pid = TRUE]
             \/ \E s : record' = [record EXCEPT ![e].status = s]
    <2>1. CASE BeginStart(e) \/ EndStart(e) \/ ProcessStep(e)
        BY <2>1 DEF BeginStart, EndStart, ProcessStep, End, Flush, Emit
    <2>2. CASE StartStep(e)
        BY <2>2 DEF StartStep, CreateRecord, CreateFails, Launch, LaunchFails, SavePid,
                    SavePidFails, RecordFailure, RecordFailureFails
    <2>3. CASE CompletionStep(e)
        BY <2>3 DEF CompletionStep, SaveExit, SaveExitFails, Settle, SettleFails, Notify,
                    RecoverOne, RecoverFails, Settled
    <2>. QED
        BY <1>6, <2>1, <2>2, <2>3
<1>. QED
    BY <1>1, <1>2, <1>3, <1>4, <1>5, <1>6 DEF ExecutionPart

\* What the executions do by themselves is accepted only with a process id, and begins
\* nothing.
PartBegins(e) ==
    /\ start'[e] = "accepted" => start[e] = "accepted" \/ record'[e].pid
    /\ start'[e] # "idle" => start[e] # "idle"
    /\ launches'[e] > 0 => launches[e] > 0 \/ start[e] # "idle"

LEMMA PartsBegin ==
    ASSUME ExecutionInv, NEW e \in Executions, NEW f \in Executions,
           EndStart(f) \/ StartStep(f) \/ ProcessStep(f) \/ CompletionStep(f)
    PROVE  PartBegins(e)
<1>. USE DEF ExecutionInv, ExecutionTypeOK, PartBegins
<1>1. CASE EndStart(f)
    BY <1>1 DEF EndStart
<1>2. CASE StartStep(f)
    <2>1. CASE CreateRecord(f) \/ CreateFails(f)
        BY <2>1 DEF CreateRecord, CreateFails
    <2>2. CASE Launch(f) \/ LaunchFails(f)
        BY <2>2 DEF Launch, LaunchFails
    <2>3. CASE SavePid(f) \/ SavePidFails(f)
        BY <2>3 DEF SavePid, SavePidFails, Record
    <2>4. CASE RecordFailure(f) \/ RecordFailureFails(f)
        BY <2>4 DEF RecordFailure, RecordFailureFails
    <2>. QED
        BY <1>2, <2>1, <2>2, <2>3, <2>4 DEF StartStep
<1>3. CASE ProcessStep(f) \/ CompletionStep(f)
    <2>1. UNCHANGED <<start, launches>>
        BY <1>3 DEF ProcessStep, End, Flush, Emit, CompletionStep, SaveExit, SaveExitFails,
                    Settle, SettleFails, Notify, RecoverOne, RecoverFails
    <2>. QED
        BY <2>1
<1>. QED
    BY <1>1, <1>2, <1>3

LEMMA RequestStepOK ==
    ASSUME ActuationInv, NEW a \in Actuations, PidsStay,
           Authorize(a) \/ Actuate(a) \/ ActuateStep(a)
    PROVE  StoreTypes' /\ ReservationsStay /\ \A b \in Actuations : RequestOK(b)'
<1>. USE ActuationAssumption
     DEF Go, SetStatus, StoreTypes, RequestOK, ReservationsStay, PidsStay, storeVars, ActuationInv
<1>1. CASE Authorize(a)
    BY <1>1 DEF Authorize
<1>2. CASE Actuate(a)
    BY <1>2 DEF Actuate
<1>3. CASE Validate(a) \/ Revalidate(a)
    BY <1>3 DEF Validate, Revalidate
<1>4. CASE Reserve(a)
    BY <1>4 DEF Reserve
<1>5. CASE ReserveFails(a) \/ MarkFails(a)
    BY <1>5 DEF ReserveFails, MarkFails
<1>6. CASE StartOrJoin(a)
    BY <1>6 DEF StartOrJoin
<1>7. CASE MarkStarted(a) \/ MarkFailed(a)
    BY <1>7 DEF MarkStarted, MarkFailed
<1>8. CASE Recover(a)
    BY <1>8 DEF Recover, LaunchProven
<1>. QED
    BY <1>1, <1>2, <1>3, <1>4, <1>5, <1>6, <1>7, <1>8 DEF ActuateStep

LEMMA BackgroundOK ==
    ASSUME ActuationInv, PidsStay,
           \/ \E e \in Executions : Resolve(e) \/ BackgroundStep(e)
           \/ RestartAll
           \/ UNCHANGED actuationVars
    PROVE  StoreTypes' /\ ReservationsStay /\ \A b \in Actuations : RequestOK(b)'
<1>. USE ActuationAssumption
     DEF StoreTypes, RequestOK, ReservationsStay, PidsStay, storeVars, actuationVars, ActuationInv
<1>1. ASSUME NEW e \in Executions, Resolve(e)
      PROVE  StoreTypes' /\ ReservationsStay /\ \A b \in Actuations : RequestOK(b)'
    BY <1>1 DEF Resolve, Answer, BegunOK
<1>2. ASSUME NEW e \in Executions, BackgroundStep(e)
      PROVE  StoreTypes' /\ ReservationsStay /\ \A b \in Actuations : RequestOK(b)'
    BY <1>2 DEF BackgroundStep
<1>3. CASE RestartAll
    BY <1>3 DEF RestartAll
<1>4. CASE UNCHANGED actuationVars
    BY <1>4
<1>. QED
    BY <1>1, <1>2, <1>3, <1>4

LEMMA BegunStays ==
    ASSUME ActuationInv, [ActuationNext]_actuationVars, PidsStay, ReservationsStay,
           NEW e \in Executions
    PROVE  BegunOK(e)'
<1>. USE ActuationAssumption, ExecutionAssumption
     DEF ActuationInv, executionVars, actuationVars
<1>1. Reserved(e) => Reserved(e)'
    BY DEF Reserved, ReservationsStay
<1>2. ASSUME PartBegins(e) PROVE BegunOK(e)'
    BY <1>1, <1>2 DEF PartBegins, BegunOK, PidsStay, ExecutionInv, ExecutionTypeOK
<1>3. ASSUME NEW f \in Executions, Resolve(f) \/ BackgroundStep(f) PROVE BegunOK(e)'
    BY <1>2, <1>3, PartsBegin DEF Resolve, BackgroundStep
<1>4. CASE RestartAll
    BY <1>2, <1>4 DEF RestartAll, Restart, PartBegins
<1>5. CASE OnlyRequests
    BY <1>2, <1>5 DEF OnlyRequests, PartBegins
<1>6. ASSUME NEW a \in Actuations, BeginStart(ExecutionOf[a]), StartOrJoin(a)
      PROVE  BegunOK(e)'
    <2>1. CASE ExecutionOf[a] = e
        <3>1. Reserved(e)
            BY <1>6, <2>1 DEF StartOrJoin, Go, RequestOK, Reserved
        <3>. QED
            BY <1>1, <1>6, <2>1, <3>1 DEF BeginStart, BegunOK, Confirmed, ExecutionInv, ExecutionTypeOK
    <2>2. CASE ExecutionOf[a] # e
        BY <1>2, <1>6, <2>2 DEF BeginStart, PartBegins, ExecutionInv, ExecutionTypeOK
    <2>. QED
        BY <2>1, <2>2
<1>7. ASSUME NEW a \in Actuations, Authorize(a) \/ Actuate(a) \/ ActuateStep(a)
      PROVE  OnlyRequests \/ (StartOrJoin(a) /\ BeginStart(ExecutionOf[a]))
    BY <1>7 DEF Authorize, Actuate, ActuateStep, Validate, Revalidate, Reserve, ReserveFails,
                StartOrJoin, MarkStarted, MarkFailed, MarkFails, Recover, OnlyRequests,
                storeVars, ExecutionInv, ExecutionTypeOK
<1>8. CASE UNCHANGED actuationVars
    BY <1>2, <1>8 DEF PartBegins
<1>. QED
    BY <1>3, <1>4, <1>5, <1>6, <1>7, <1>8 DEF ActuationNext

LEMMA ActuationInvariant == ActuationSpec => []ActuationInv
<1>1. ActuationInit => ActuationInv
    <2>1. SUFFICES ASSUME ActuationInit PROVE ActuationInv
        OBVIOUS
    <2>2. StoreTypes /\ \A a \in Actuations : RequestOK(a)
        BY <2>1, ActuationAssumption DEF ActuationInit, StoreTypes, RequestOK
    <2>3. \A e \in Executions : BegunOK(e)
        BY <2>1 DEF ActuationInit, ExecutionInit, BegunOK
    <2>. QED
        BY <2>1, <2>2, <2>3, ExecutionInitOK DEF ActuationInit, ActuationInv
<1>2. ActuationInv /\ [ActuationNext]_actuationVars => ActuationInv'
    <2>1. SUFFICES ASSUME ActuationInv, [ActuationNext]_actuationVars PROVE ActuationInv'
        OBVIOUS
    <2>2. ExecutionInv' /\ PidsStay
        BY <2>1, ActionsAreParts, PartsOK, PartsKeepPids DEF ActuationInv, ExecutionInv
    <2>3. StoreTypes' /\ ReservationsStay /\ \A b \in Actuations : RequestOK(b)'
        BY <2>1, <2>2, RequestStepOK, BackgroundOK DEF ActuationNext
    <2>4. \A e \in Executions : BegunOK(e)'
        BY <2>1, <2>2, <2>3, BegunStays
    <2>. QED
        BY <2>2, <2>3, <2>4 DEF ActuationInv
<1>. QED
    BY <1>1, <1>2, PTL DEF ActuationSpec

\* The executions, the store and the requests stay well typed.
THEOREM ActuationTypeCorrect == ActuationSpec => []ActuationTypeOK
<1>1. ActuationInv => ActuationTypeOK
    BY DEF ActuationInv, ExecutionInv, StoreTypes, ActuationTypeOK
<1>. QED
    BY <1>1, ActuationInvariant, PTL

\* No process is launched without an authorization that was consumed for it, and an actuation
\* is recorded as started only if its process was launched and is known.
THEOREM AlwaysReal == ActuationSpec => []StartedIsReal
<1>1. ASSUME ActuationInv PROVE StartedIsReal
    <2>1. ASSUME NEW e \in Executions, launches[e] > 0
          PROVE  \E a \in Actuations : ExecutionOf[a] = e /\ authorization[a] = "consumed"
                                       /\ actuation[a] # "none"
        BY <1>1, <2>1 DEF ActuationInv, BegunOK, Reserved, RequestOK
    <2>2. ASSUME NEW a \in Actuations, actuation[a] = "started"
          PROVE  launches[ExecutionOf[a]] = 1 /\ record[ExecutionOf[a]].pid
        BY <1>1, <2>2, ActuationAssumption
           DEF ActuationInv, RequestOK, ExecutionInv, ExecutionOK, StartOK
    <2>. QED
        BY <2>1, <2>2 DEF StartedIsReal
<1>. QED
    BY <1>1, ActuationInvariant, PTL
==============================================================================

-------------------------- MODULE ControlledActuation --------------------------
(***************************************************************************)
(* The authorization of executions and their launch                        *)
(* (controlled-actuation.ts), on top of the adapter and the completion     *)
(* service of CodexExecution, for authorizations in batch mode.            *)
(*                                                                         *)
(* actuate() reads the store, then the execution's record, then reserves   *)
(* in the store, then starts the adapter, then writes the store: the       *)
(* runtime may stop, and requests for other actuations of the same         *)
(* execution may run, between any two.  Requests for one actuation share   *)
(* one flight, and starts of one execution share one start of the adapter. *)
(***************************************************************************)
EXTENDS CodexExecution

CONSTANTS
    Actuations,
    ExecutionOf      \* the execution each actuation is meant to start

ASSUME ActuationAssumption == ExecutionOf \in [Actuations -> Executions]

VARIABLES
    authorization,   \* status in the authorization store, durable
    actuation,       \* status in the same store, durable
    flight           \* the request in flight, by its next step

storeVars == <<authorization, actuation>>
actuationVars == <<executionVars, storeVars, flight>>

-----------------------------------------------------------------------------
ActuationTypeOK ==
    /\ ExecutionTypeOK
    /\ authorization \in [Actuations -> {"none", "authorized", "consumed"}]
    /\ actuation \in [Actuations -> {"none", "starting", "started", "failed"}]
    /\ flight \in [Actuations -> {"idle", "validate", "revalidate", "reserve", "start",
                                  "waiting", "succeed", "fail", "recover"}]

ActuationInit ==
    /\ ExecutionInit
    /\ authorization = [a \in Actuations |-> "none"]
    /\ actuation = [a \in Actuations |-> "none"]
    /\ flight = [a \in Actuations |-> "idle"]

Go(a, from, to) ==
    /\ flight[a] = from
    /\ flight' = [flight EXCEPT ![a] = to]

\* validateTarget on the record of the execution: one that is running without
\* a process id was launched or not, nobody knows.
Absent(e) == record[e].status = "none"
TargetOK(e) == Absent(e) \/ Confirmed(e)
TargetMayHaveEnded(e) == TargetOK(e) \/ Terminal(e)

Authorize(a) ==
    /\ authorization[a] = "none" /\ TargetOK(ExecutionOf[a])
    /\ authorization' = [authorization EXCEPT ![a] = "authorized"]
    /\ UNCHANGED <<executionVars, actuation, flight>>

\* actuateOnce up to the first look at the target.
Actuate(a) ==
    /\ authorization[a] # "none"
    /\ Go(a, "idle", IF actuation[a] = "none" THEN "validate" ELSE "revalidate")
    /\ UNCHANGED <<executionVars, storeVars>>

Validate(a) ==
    /\ Go(a, "validate", IF TargetOK(ExecutionOf[a]) THEN "reserve" ELSE "idle")
    /\ UNCHANGED <<executionVars, storeVars>>

Revalidate(a) ==
    /\ Go(a, "revalidate", IF TargetMayHaveEnded(ExecutionOf[a]) THEN "recover" ELSE "idle")
    /\ UNCHANGED <<executionVars, storeVars>>

\* reserveActuation: the authorization is consumed and the actuation recorded
\* in one write, before anything is launched.  An actuation that was recorded
\* after the first look is recovered instead.
Reserve(a) ==
    /\ Go(a, "reserve", IF actuation[a] = "none" THEN "start" ELSE "revalidate")
    /\ authorization' = [authorization EXCEPT ![a] = "consumed"]
    /\ actuation' = [actuation EXCEPT ![a] = IF @ = "none" THEN "starting" ELSE @]
    /\ UNCHANGED executionVars

ReserveFails(a) ==
    /\ Go(a, "reserve", "idle") /\ Fault
    /\ UNCHANGED <<durable, world, volatile, notified, storeVars>>

\* adapter.start: a start in flight is joined, whatever the record says by now.
StartOrJoin(a) ==
    /\ Go(a, "start", "waiting")
    /\ IF start[ExecutionOf[a]] = "idle" THEN BeginStart(ExecutionOf[a])
       ELSE UNCHANGED executionVars
    /\ UNCHANGED storeVars

\* The adapter's promise settles for everyone who waits for it.
Answer(e) == IF start[e] = "accepted" THEN "succeed" ELSE "fail"
ResolveOne(e) ==
    /\ EndStart(e)
    /\ \E a \in Actuations : ExecutionOf[a] = e /\ flight[a] = "waiting"
            /\ flight' = [flight EXCEPT ![a] = Answer(e)]
    /\ UNCHANGED storeVars
Resolve(e) ==
    /\ EndStart(e)
    /\ flight' = [a \in Actuations |->
            IF ExecutionOf[a] = e /\ flight[a] = "waiting" THEN Answer(e) ELSE flight[a]]
    /\ UNCHANGED storeVars

\* setActuationStatus: only an actuation that is starting changes.
SetStatus(a, status) ==
    actuation' = [actuation EXCEPT ![a] = IF @ = "starting" THEN status ELSE @]

MarkStarted(a) ==
    /\ Go(a, "succeed", "idle")
    /\ SetStatus(a, "started")
    /\ UNCHANGED <<executionVars, authorization>>

MarkFailed(a) ==
    /\ Go(a, "fail", "idle")
    /\ SetStatus(a, "failed")
    /\ UNCHANGED <<executionVars, authorization>>

MarkFails(a) ==
    /\ Go(a, "succeed", "idle") \/ Go(a, "fail", "idle") \/ Go(a, "recover", "idle")
    /\ Fault
    /\ UNCHANGED <<durable, world, volatile, notified, storeVars>>

NotAbsent(e) == ~Absent(e)
LaunchProven(e) == record[e].pid
\* recoverExisting: an actuation is never launched a second time, but one whose
\* execution has a process id is known to have been started.
Recover(a) ==
    /\ Go(a, "recover", "idle")
    /\ IF actuation[a] # "failed" /\ LaunchProven(ExecutionOf[a]) THEN SetStatus(a, "started")
       ELSE UNCHANGED actuation
    /\ UNCHANGED <<executionVars, authorization>>

RestartAll ==
    /\ Restart
    /\ flight' = [a \in Actuations |-> "idle"]
    /\ UNCHANGED storeVars

ActuateStep(a) ==
    \/ Validate(a) \/ Revalidate(a) \/ Reserve(a) \/ ReserveFails(a) \/ StartOrJoin(a)
    \/ MarkStarted(a) \/ MarkFailed(a) \/ MarkFails(a) \/ Recover(a)
BackgroundStep(e) ==
    /\ StartStep(e) \/ ProcessStep(e) \/ CompletionStep(e)
    /\ UNCHANGED <<storeVars, flight>>

ActuationNext ==
    \/ \E a \in Actuations : Authorize(a) \/ Actuate(a) \/ ActuateStep(a)
    \/ \E e \in Executions : Resolve(e) \/ BackgroundStep(e)
    \/ RestartAll

\* A request that was begun goes on, and every start of the adapter ends.
ActuationFairness ==
    /\ \A a \in Actuations : WF_actuationVars(ActuateStep(a))
    /\ \A e \in Executions : /\ WF_actuationVars(Resolve(e))
                            /\ WF_actuationVars(StartStep(e) /\ UNCHANGED <<storeVars, flight>>)
                            /\ WF_actuationVars(SaveExit(e) /\ UNCHANGED <<storeVars, flight>>)
                            /\ WF_actuationVars(Settle(e) /\ UNCHANGED <<storeVars, flight>>)
                            /\ WF_actuationVars(RecoverOne(e) /\ UNCHANGED <<storeVars, flight>>)

ActuationSpec == ActuationInit /\ [][ActuationNext]_actuationVars /\ ActuationFairness

-----------------------------------------------------------------------------
(* Properties *)

\* A process is launched only for an actuation that has consumed its authorization, and
\* an actuation is recorded as started only if its process was launched and is known.
StartedIsReal ==
    /\ \A e \in Executions : launches[e] > 0 =>
        \E a \in Actuations : ExecutionOf[a] = e /\ authorization[a] = "consumed"
                               /\ actuation[a] # "none"
    /\ \A a \in Actuations : actuation[a] = "started" =>
        launches[ExecutionOf[a]] = 1 /\ record[ExecutionOf[a]].pid

\* A request in flight ends: the caller gets an answer.
RequestEnds == \A a \in Actuations : flight[a] # "idle" ~> flight[a] = "idle"

\* Nobody is left hanging: not the caller of a request, and no execution whose
\* process has ended (EndIsSettled, CodexExecution).
NothingHangs == RequestEnds /\ EndIsSettled
=============================================================================

--------------------------- MODULE GoalSubmission ---------------------------
(***************************************************************************)
(* One submission of a goal, of one correlation key: the tool call of the  *)
(* chat (PendingGoalSubmissionService.accept) and the page evidence that   *)
(* says which conversation made it (receiveIdentityEvidence) arrive in any *)
(* order, any number of times, while the runtime starts, works or stops.   *)
(* When both are there the submission is claimed, and the goal is checked, *)
(* created and started (GoalSubmissionService.submitGoal).                 *)
(*                                                                         *)
(* Three files are kept: the submissions, the inbox of the evidence, and   *)
(* the correlations.  Every operation on the first runs alone (exclusive), *)
(* but a call is made of several, and others get in between.               *)
(***************************************************************************)
EXTENDS Naturals, FiniteSets

CONSTANTS
    Conversations,
    NoConversation,
    IdentityTTL,     \* PENDING_GOAL_SUBMISSION_TTL_MS
    EvidenceTTL,     \* IDENTITY_EVIDENCE_TTL_MS
    MaxTries,        \* retries of a claim before it is put off
    MaxTime,         \* bound: of the clock
    MaxCrashes,      \* bound: how often the runtime stops
    MaxFaults        \* bound: kinds of failing operations

ASSUME SubmissionAssumption ==
    /\ NoConversation \notin Conversations
    /\ {IdentityTTL, EvidenceTTL, MaxTries, MaxTime, MaxCrashes, MaxFaults} \subseteq Nat
    /\ 0 < IdentityTTL /\ IdentityTTL < EvidenceTTL

VARIABLES
    file, record,            \* the submission as saved, and in memory
    inbox,                   \* the evidence that waits, which is always saved
    known, knownFile,        \* the conversation of the key, in memory and as saved
    up, usable, restored,    \* the start of the runtime
    accepting, receiving, recovering,   \* calls that are under way
    waiter, expiry,          \* awaitCorrelation, and the expiry timer
    resolver,                \* the resolution that is scheduled or put off
    goals, owner, launch,    \* what became of the goal
    now, crashes, faults

calls == <<accepting, receiving, recovering>>
runtime == <<up, usable, restored>>
correlation == <<known, knownFile>>
outcome == <<goals, owner, launch>>
bounds == <<now, crashes, faults>>
submissionVars == <<file, record, inbox, correlation, runtime, calls, waiter, expiry,
                    resolver, outcome, bounds>>

-----------------------------------------------------------------------------
Terminal == {"started", "failed", "indeterminate"}
States == {"absent", "pending_identity", "starting"} \cup Terminal
Absent == [state |-> "absent", until |-> 0]
Empty == [conversation |-> NoConversation, until |-> 0]
Known == Conversations \cup {NoConversation}
Unscheduled == [at |-> "idle", tries |-> 0]

SubmissionTypeOK ==
    /\ file \in [state : States, until : Nat] /\ record \in [state : States, until : Nat]
    /\ inbox \in [conversation : Known, until : Nat]
    /\ known \in Known /\ knownFile \in Known
    /\ up \in {"down", "starting", "ready"} /\ usable \in BOOLEAN /\ restored \in BOOLEAN
    /\ accepting \in {"no", "accept", "replay", "schedule"}
    /\ receiving \in [at : {"no", "put", "replay", "kick"}, conversation : Known]
    /\ recovering \in {"no", "list", "replay", "schedule"}
    /\ waiter \in BOOLEAN /\ expiry \in BOOLEAN
    /\ resolver \in [at : {"idle", "claim", "later", "preflight", "create", "start", "evidence",
                           "started", "failed", "indeterminate"}, tries : 0 .. MaxTries]
    /\ goals \in Nat /\ owner \in Known
    /\ launch \in {"none", "started", "failed"}
    /\ now \in 0 .. MaxTime /\ crashes \in 0 .. MaxCrashes
    /\ faults \subseteq {"transient", "hard", "submit"}

SubmissionInit ==
    /\ file = Absent /\ record = Absent /\ inbox = Empty
    /\ known = NoConversation /\ knownFile = NoConversation
    /\ up = "down" /\ usable = TRUE /\ restored = FALSE
    /\ accepting = "no" /\ recovering = "no"
    /\ receiving = [at |-> "no", conversation |-> NoConversation]
    /\ waiter = FALSE /\ expiry = FALSE /\ resolver = Unscheduled
    /\ goals = 0 /\ owner = NoConversation /\ launch = "none"
    /\ now = 0 /\ crashes = 0 /\ faults = {}

-----------------------------------------------------------------------------
Pending == record.state = "pending_identity"
Expired(r) == r.state = "pending_identity" /\ r.until <= now
Live == inbox.conversation # NoConversation /\ inbox.until > now

NoTimer(state) == FALSE
Timer(state) == state = "pending_identity"

Save(state) ==
    /\ record' = [record EXCEPT !.state = state]
    /\ file' = record'
Unsaved == UNCHANGED <<file, record>>

Fails(kind) ==
    /\ Cardinality(faults \cup {kind}) <= MaxFaults
    /\ faults' = faults \cup {kind}
    /\ UNCHANGED <<now, crashes>>

\* What scheduleResolve does when nothing is scheduled for the key.
Scheduled == IF resolver = Unscheduled THEN [at |-> "claim", tries |-> 0] ELSE resolver

\* ConversationCorrelationRegistry.observe: what could not be saved is kept in memory.
ObserveConversation(c) ==
    /\ known' = c
    /\ \/ knownFile' = c /\ UNCHANGED bounds
       \/ Fails("hard") /\ UNCHANGED knownFile

\* replayEvidence: what the inbox holds becomes the correlation of the key.  The
\* conflict it would throw for cannot arise: a put is refused when another
\* conversation is known, and only what was put becomes known.
Replay ==
    /\ IF record # Absent /\ Live
       THEN ObserveConversation(inbox.conversation)
       ELSE UNCHANGED <<correlation, bounds>>
    /\ waiter' = (waiter /\ known' = NoConversation)
    /\ resolver' = IF waiter /\ known' # NoConversation THEN Scheduled ELSE resolver

\* scheduleIdentityResolution
AwaitIdentity ==
    /\ resolver' = IF known # NoConversation THEN Scheduled ELSE resolver
    /\ waiter' = (waiter \/ known = NoConversation)

-----------------------------------------------------------------------------
(* The start of the runtime *)

RestoredPending(state) == IF state = "starting" THEN "pending_identity" ELSE state
\* A claimed submission may have created its goal: it is not started again.
RestoredState(state) == IF state = "starting" THEN "indeterminate" ELSE state

Restore ==
    /\ record' = [file EXCEPT !.state = IF Expired(file) THEN "failed" ELSE RestoredState(@)]
    /\ restored' = TRUE
    /\ expiry' = Timer(record'.state)
    /\ \/ file' = record' /\ UNCHANGED bounds
       \/ file # record' /\ Fails("hard") /\ UNCHANGED file

Start ==
    /\ up = "down"
    /\ up' = "starting" /\ usable' = TRUE
    /\ Restore
    /\ UNCHANGED <<inbox, correlation, calls, waiter, resolver, outcome>>

\* The file could not be read.  The runtime goes on without goals, and the
\* next call reads it again.
StartUnrestored ==
    /\ up = "down" /\ Fails("transient")
    /\ up' = "starting" /\ usable' = FALSE
    /\ UNCHANGED <<file, record, inbox, correlation, restored, calls, waiter, expiry, resolver,
                   outcome>>

RestoreLate ==
    /\ up # "down" /\ ~restored
    /\ accepting = "accept" \/ receiving.at = "put"
    /\ Restore
    /\ UNCHANGED <<inbox, correlation, up, usable, calls, waiter, resolver, outcome>>

\* The bridge takes evidence, and the server calls, long before this.
BecomeReady ==
    /\ up = "starting"
    /\ up' = "ready"
    /\ recovering' = IF usable THEN "list" ELSE "no"
    /\ UNCHANGED <<file, record, inbox, correlation, usable, restored, accepting, receiving,
                   waiter, expiry, resolver, outcome, bounds>>

\* recoverOnce, and its retry
RecoverList ==
    /\ recovering = "list"
    /\ \/ /\ IF Expired(record) THEN Save("failed") ELSE Unsaved
          /\ recovering' = IF record'.state = "pending_identity" THEN "replay" ELSE "no"
          /\ UNCHANGED bounds
       \/ Fails("transient") /\ Unsaved /\ UNCHANGED recovering
    /\ UNCHANGED <<inbox, correlation, runtime, accepting, receiving, waiter, expiry, resolver,
                   outcome>>
RecoverReplay ==
    /\ recovering = "replay"
    /\ Replay
    /\ recovering' = "schedule"
    /\ UNCHANGED <<file, record, inbox, runtime, accepting, receiving, expiry, outcome>>
RecoverSchedule ==
    /\ recovering = "schedule"
    /\ AwaitIdentity
    /\ recovering' = "no"
    /\ UNCHANGED <<file, record, inbox, correlation, runtime, accepting, receiving, expiry,
                   outcome, bounds>>

-----------------------------------------------------------------------------
(* accept *)

Call ==
    /\ up # "down" /\ accepting = "no"
    /\ accepting' = "accept"
    /\ UNCHANGED <<file, record, inbox, correlation, runtime, receiving, recovering, waiter,
                   expiry, resolver, outcome, bounds>>

\* The first call of a key is accepted when the browser is there, and a repeated
\* one answered with what was accepted.
Accept ==
    /\ accepting = "accept" /\ restored
    /\ \/ /\ \/ record = Absent /\ now + IdentityTTL <= MaxTime
                /\ record' = [state |-> "pending_identity", until |-> now + IdentityTTL]
                /\ file' = record'
             \/ Expired(record) /\ Save("failed")
             \/ record # Absent /\ ~Expired(record) /\ Unsaved
          /\ accepting' = IF record'.state = "pending_identity" THEN "replay" ELSE "no"
          /\ expiry' = Timer(record'.state)
       \/ record = Absent /\ Unsaved /\ accepting' = "no" /\ UNCHANGED expiry
    /\ UNCHANGED <<inbox, correlation, runtime, receiving, recovering, waiter, resolver, outcome,
                   bounds>>
AcceptFails ==
    /\ accepting = "accept" /\ restored
    /\ Fails("hard")
    /\ accepting' = "no"
    /\ UNCHANGED <<file, record, inbox, correlation, runtime, receiving, recovering, waiter,
                   expiry, resolver, outcome>>

AcceptWithoutReplay ==
    /\ accepting = "replay"
    /\ accepting' = "schedule"
    /\ UNCHANGED <<file, record, inbox, correlation, runtime, receiving, recovering, waiter,
                   expiry, resolver, outcome, bounds>>
AcceptReplay ==
    /\ accepting = "replay"
    /\ Replay
    /\ accepting' = "schedule"
    /\ UNCHANGED <<file, record, inbox, runtime, receiving, recovering, expiry, outcome>>
AcceptSchedule ==
    /\ accepting = "schedule"
    /\ AwaitIdentity
    /\ accepting' = "no"
    /\ UNCHANGED <<file, record, inbox, correlation, runtime, receiving, recovering, expiry,
                   outcome, bounds>>

-----------------------------------------------------------------------------
(* receiveIdentityEvidence *)

EvidenceArrives(c) ==
    /\ up # "down" /\ receiving.at = "no"
    /\ receiving' = [at |-> "put", conversation |-> c]
    /\ UNCHANGED <<file, record, inbox, correlation, runtime, accepting, recovering, waiter,
                   expiry, resolver, outcome, bounds>>

Forget == receiving' = [at |-> "no", conversation |-> NoConversation]

\* IdentityEvidenceInbox.put: what is there is neither replaced nor extended.
Put ==
    inbox' = IF Live THEN inbox
             ELSE [conversation |-> receiving.conversation, until |-> now + EvidenceTTL]
ReceivePut ==
    /\ receiving.at = "put" /\ restored
    /\ IF \/ known \notin {NoConversation, receiving.conversation}
          \/ Live /\ inbox.conversation # receiving.conversation
       THEN Forget /\ UNCHANGED <<inbox, bounds>>
       ELSE \/ Put /\ receiving' = [receiving EXCEPT !.at = "replay"] /\ UNCHANGED bounds
            \/ Fails("hard") /\ Forget /\ UNCHANGED inbox
    /\ UNCHANGED <<file, record, correlation, runtime, accepting, recovering, waiter, expiry,
                   resolver, outcome>>
ReceiveReplay ==
    /\ receiving.at = "replay"
    /\ Replay
    /\ receiving' = [receiving EXCEPT !.at = "kick"]
    /\ UNCHANGED <<file, record, inbox, runtime, accepting, recovering, expiry, outcome>>
\* The acknowledgement says that the evidence is durable.
ReceiveKick ==
    /\ receiving.at = "kick"
    /\ resolver' = IF Pending THEN Scheduled ELSE resolver
    /\ Forget
    /\ UNCHANGED <<file, record, inbox, correlation, runtime, accepting, recovering, waiter,
                   expiry, outcome, bounds>>

-----------------------------------------------------------------------------
(* resolve *)

ClaimUnsaved == record' = [record EXCEPT !.state = "starting"] /\ UNCHANGED file
ClaimSaved == Save("starting")
Claim ==
    /\ resolver.at = "claim"
    /\ \/ ~Pending /\ Unsaved /\ resolver' = Unscheduled /\ UNCHANGED expiry
       \/ Expired(record) /\ Save("failed") /\ resolver' = Unscheduled /\ expiry' = FALSE
       \/ /\ Pending /\ ~Expired(record) /\ known = NoConversation
          /\ Unsaved /\ resolver' = Unscheduled /\ UNCHANGED expiry
       \/ /\ Pending /\ ~Expired(record) /\ known # NoConversation
          /\ ClaimSaved
          /\ resolver' = [at |-> "preflight", tries |-> 0] /\ expiry' = FALSE
    /\ owner' = IF resolver'.at = "preflight" THEN known ELSE owner
    /\ UNCHANGED <<inbox, correlation, runtime, calls, waiter, goals, launch, bounds>>

\* A file that is locked is tried again, and then once more later; another
\* failure gives up, and leaves the submission to its expiry.
ClaimFails ==
    /\ resolver.at = "claim" /\ Pending
    /\ \/ /\ Fails("transient")
          /\ resolver' = IF known = NoConversation THEN Unscheduled
                         ELSE IF Expired(record) THEN Unscheduled
                         ELSE IF resolver.tries < MaxTries
                         THEN [resolver EXCEPT !.tries = @ + 1]
                         ELSE [at |-> "later", tries |-> 0]
       \/ Fails("hard") /\ resolver' = Unscheduled
    /\ UNCHANGED <<file, record, inbox, correlation, runtime, calls, waiter, expiry, outcome>>
ResolveLater ==
    /\ resolver.at = "later"
    /\ resolver' = [at |-> "claim", tries |-> 0]
    /\ UNCHANGED <<file, record, inbox, correlation, runtime, calls, waiter, expiry, outcome,
                   bounds>>

\* checkGoalPreflight: the workspace, the runtime, the Desktop and the connector.
Preflight ==
    /\ resolver.at = "preflight"
    /\ \/ up = "ready" /\ usable /\ resolver' = [resolver EXCEPT !.at = "create"]
       \/ resolver' = [resolver EXCEPT !.at = "failed"]
    /\ UNCHANGED <<outcome, bounds>>
CreateGoal ==
    /\ resolver.at = "create"
    /\ goals' = goals + 1
    /\ resolver' = [resolver EXCEPT !.at = "start"]
    /\ UNCHANGED <<owner, launch, bounds>>
StartGoal ==
    /\ resolver.at = "start"
    /\ launch' \in {"none", "started", "failed"}
    /\ resolver' = [resolver EXCEPT !.at = "evidence"]
    /\ UNCHANGED <<goals, owner, bounds>>
\* getStartEvidence: only what is recorded of the launch counts.
ByEvidence == IF launch = "none" THEN "indeterminate" ELSE launch
ReadEvidence ==
    /\ resolver.at = "evidence"
    /\ resolver' = [resolver EXCEPT !.at = ByEvidence]
    /\ UNCHANGED <<outcome, bounds>>
SubmitFails ==
    /\ resolver.at \in {"create", "start", "evidence"} /\ Fails("submit")
    /\ launch' \in IF resolver.at = "start" THEN {"none", "started", "failed"} ELSE {launch}
    /\ resolver' = [resolver EXCEPT !.at = "indeterminate"]
    /\ UNCHANGED <<goals, owner>>
Submit ==
    /\ Preflight \/ CreateGoal \/ StartGoal \/ ReadEvidence \/ SubmitFails
    /\ UNCHANGED <<file, record, inbox, correlation, runtime, calls, waiter, expiry>>

\* finishStarted and finishTerminal.  An outcome that cannot be saved becomes
\* indeterminate, and when that cannot be saved either it stays starting.
Finish ==
    /\ resolver.at \in Terminal
    /\ \/ /\ IF record.state = "starting" THEN Save(resolver.at) ELSE Unsaved
          /\ resolver' = Unscheduled /\ UNCHANGED bounds
       \/ /\ Fails("hard") /\ Unsaved
          /\ resolver' = IF resolver.at = "started" THEN [resolver EXCEPT !.at = "indeterminate"]
                         ELSE Unscheduled
    /\ UNCHANGED <<inbox, correlation, runtime, calls, waiter, expiry, outcome>>

-----------------------------------------------------------------------------
(* Time and failures *)

\* The expiry timer is not set again when the failure cannot be saved.
Expire ==
    /\ expiry /\ record.until <= now
    /\ expiry' = FALSE
    /\ \/ (IF Pending THEN Save("failed") ELSE Unsaved) /\ UNCHANGED bounds
       \/ Fails("hard") /\ Unsaved
    /\ UNCHANGED <<inbox, correlation, runtime, calls, waiter, resolver, outcome>>
WaiterTimeout ==
    /\ waiter /\ record.until <= now
    /\ waiter' = FALSE
    /\ resolver' = IF known # NoConversation THEN Scheduled ELSE resolver
    /\ UNCHANGED <<file, record, inbox, correlation, runtime, calls, expiry, outcome, bounds>>
Tick ==
    /\ now < MaxTime
    /\ now' = now + 1
    /\ UNCHANGED <<file, record, inbox, correlation, runtime, calls, waiter, expiry, resolver,
                   outcome, crashes, faults>>

RuntimeStops ==
    /\ up # "down" /\ crashes < MaxCrashes
    /\ crashes' = crashes + 1
    /\ up' = "down" /\ usable' = TRUE /\ restored' = FALSE
    /\ record' = Absent /\ known' = knownFile
    /\ accepting' = "no" /\ recovering' = "no" /\ Forget
    /\ waiter' = FALSE /\ expiry' = FALSE /\ resolver' = Unscheduled
    /\ launch' \in IF resolver.at = "start" THEN {"none", "started", "failed"} ELSE {launch}
    /\ UNCHANGED <<file, inbox, knownFile, goals, owner, now, faults>>

Startup == Start \/ BecomeReady \/ RecoverList \/ RecoverReplay \/ RecoverSchedule
Calls == RestoreLate \/ Accept \/ AcceptReplay \/ AcceptSchedule
Receives == ReceivePut \/ ReceiveReplay \/ ReceiveKick
Resolution == Claim \/ ResolveLater \/ Submit \/ Finish
Timers == Expire \/ WaiterTimeout
SubmissionNext ==
    \/ Startup \/ StartUnrestored
    \/ Call \/ Calls \/ AcceptFails
    \/ (\E c \in Conversations : EvidenceArrives(c)) \/ Receives
    \/ Resolution \/ ClaimFails
    \/ Timers \/ Tick \/ RuntimeStops

SubmissionSafeSpec == SubmissionInit /\ [][SubmissionNext]_submissionVars
\* The runtime is started again, its timers fire, its files and the submission return.
SubmissionSpec ==
    /\ SubmissionSafeSpec
    /\ WF_submissionVars(Startup)
    /\ WF_submissionVars(Resolution)
    /\ WF_submissionVars(Timers)
    /\ WF_submissionVars(Tick)

-----------------------------------------------------------------------------
(* Properties *)

\* A submission starts at most one goal, whatever is retried or restarted, and
\* it does so for the conversation whose evidence is on record.
OneGoal ==
    /\ goals <= 1
    /\ goals > 0 /\ known # NoConversation => owner = known \/ "hard" \in faults

\* What is reported as failed, or still waits, has nothing running: the chat may
\* submit it again.  That holds of the file as well, which a restart reads.
FailedIsSafe ==
    \A r \in {file, record} :
        r.state \in {"pending_identity", "failed"} => launch # "started"

\* Submitting again starts nothing twice: what was started is one goal, and what
\* is not reported as started has none.
StartedOnce == OneGoal /\ FailedIsSafe

\* Evidence that was acknowledged is never forgotten by a submission that waits
\* for it: the resolution is under way, or put off.
Quiet == up = "ready" /\ usable /\ accepting = "no" /\ receiving.at = "no" /\ recovering = "no"
NoLostEvidence ==
    Quiet /\ Pending /\ ~Expired(record) /\ Live /\ "hard" \notin faults => resolver # Unscheduled

\* A submission is settled, also after a restart, unless its end cannot be saved
\* or the runtime started without being able to read it.
SubmissionSettles ==
    (file.state \in {"pending_identity", "starting"})
        ~> (file.state \in Terminal \/ "hard" \in faults \/ ~usable)
=============================================================================

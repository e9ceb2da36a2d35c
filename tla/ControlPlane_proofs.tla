------------------------- MODULE ControlPlane_proofs -------------------------
(***************************************************************************)
(* Proofs about two components of the control plane, which share no state: *)
(* the submission of a goal, and the interactive execution.                *)
(*                                                                         *)
(* One submission, for any conversations, any lifetimes and any number of  *)
(* calls, stops and failures.  Its invariant says what a runtime that has  *)
(* not read its files yet may do (Unread), what the saved and the          *)
(* remembered state of the submission say of its goal (Tried), why the     *)
(* conversation of the key never changes (Identified), and who will see to *)
(* evidence that a submission waits for (AwaitedBy).                       *)
(*                                                                         *)
(* Interactive executions, for any executions, actuations and scenarios.   *)
(* Their invariant says of each execution what its start may assume at the *)
(* place it is at (OpOK), that something was dispatched for it only when   *)
(* its record exists (SentOK), and that the observer, the saved events and *)
(* the settling job know no turn but its own (WatchOK, EventsOK, JobOK);   *)
(* and of the negotiation that the initial execution is given away once in *)
(* the life of a process (CapOK).  A step moves one execution, so that one *)
(* lemma per step says what it keeps of that one (Kept).                   *)
(***************************************************************************)
EXTENDS GoalSubmission, InteractiveExecution, TLAPS, FiniteSetTheorems

-----------------------------------------------------------------------------
(* The submission of a goal *)


Working ==
    {"preflight", "create", "start", "evidence"} \cup {"started", "failed", "indeterminate"}
Waits == {"absent", "pending_identity"}

\* Nothing is resolved before the file was read, and a runtime without goals is
\* the only one that has not read it.
Unread ==
    /\ up = "down" => ~restored
    /\ up # "down" /\ usable => restored
    /\ ~restored =>
        /\ record = Absent /\ resolver = Unscheduled /\ ~waiter /\ ~expiry
        /\ accepting \in {"no", "accept"} /\ receiving.at \in {"no", "put"}
        /\ recovering = "no"

\* What waits was never tried, what failed did not start, and a resolution that
\* works has claimed the submission in memory and in the file.
Tried ==
    /\ restored /\ record = Absent => file.state = "absent"
    /\ file.state \in Waits => goals = 0 /\ launch = "none"
    /\ record.state = "pending_identity" => goals = 0 /\ launch = "none"
    /\ "failed" \in {file.state, record.state} => launch # "started"
    /\ resolver.at \in Working => record.state = "starting" /\ file.state = "starting"
    /\ resolver.at \in {"preflight", "create"} => goals = 0
    /\ resolver.at \in {"preflight", "create", "start"} => launch = "none"
    /\ resolver.at = "started" => launch = "started"
    /\ resolver.at = "failed" => launch # "started"
    /\ goals <= 1

\* The inbox never holds another conversation than the one that is known, and a
\* goal is owned by that one.
Identified ==
    /\ known # NoConversation => inbox.conversation = known
    /\ knownFile \in {NoConversation, known}
    /\ "hard" \notin faults => knownFile = known
    /\ resolver.at \in Working => known # NoConversation /\ owner = known
    /\ goals > 0 /\ "hard" \notin faults => known # NoConversation /\ owner = known

\* While a submission waits, live evidence is known or about to be replayed, and
\* what is known is resolved, put off or about to be scheduled.
Starting == up # "ready" \/ ~usable
Replaying == Starting \/ accepting = "replay" \/ receiving.at = "replay"
             \/ recovering \in {"list", "replay"}
Scheduling == Replaying \/ accepting = "schedule" \/ receiving.at = "kick"
              \/ recovering = "schedule"
AwaitedBy ==
    Pending /\ ~Expired(record) /\ "hard" \notin faults =>
        /\ Live /\ known = NoConversation => Replaying
        /\ known # NoConversation /\ resolver = Unscheduled => Scheduling

SubmissionInv == SubmissionTypeOK /\ Unread /\ Tried /\ Identified /\ AwaitedBy

USE DEF calls, runtime, correlation, outcome, bounds, Pending, Expired, Live, Timer, Save, Unsaved,
        Fails, Scheduled, AwaitIdentity, Forget, Put, Absent, Unscheduled, Empty, Known

-----------------------------------------------------------------------------
(* One lemma per part of the invariant: every step preserves it *)

\* The types of the flags are apart from the others: they are proved another way.
Flags == usable \in BOOLEAN /\ restored \in BOOLEAN /\ waiter \in BOOLEAN /\ expiry \in BOOLEAN
Types ==
    /\ file \in [state : States, until : Nat] /\ record \in [state : States, until : Nat]
    /\ inbox \in [conversation : Known, until : Nat]
    /\ known \in Known /\ knownFile \in Known
    /\ up \in {"down", "starting", "ready"}
    /\ accepting \in {"no", "accept", "replay", "schedule"}
    /\ receiving \in [at : {"no", "put", "replay", "kick"}, conversation : Known]
    /\ recovering \in {"no", "list", "replay", "schedule"}
    /\ resolver \in [at : {"idle", "claim", "later"} \cup Working, tries : 0 .. MaxTries]
    /\ goals \in Nat /\ owner \in Known
    /\ launch \in {"none", "started", "failed"}
    /\ now \in 0 .. MaxTime /\ crashes \in 0 .. MaxCrashes
    /\ faults \subseteq {"transient", "hard", "submit"}

\* Every flag stays a flag.
LEMMA NextFlags == Flags /\ [SubmissionNext]_submissionVars => Flags'
<1> SUFFICES ASSUME Flags, [SubmissionNext]_submissionVars PROVE Flags'
  OBVIOUS
<1>1. CASE Start
  BY <1>1, Zenon DEF Start, Restore, RestoredState, Flags
<1>2. CASE StartUnrestored
  BY <1>2, Zenon DEF StartUnrestored, Flags
<1>3. CASE BecomeReady
  BY <1>3, Zenon DEF BecomeReady, Flags
<1>4. CASE RecoverList
  BY <1>4, Zenon DEF RecoverList, Flags
<1>5. CASE RecoverReplay
  BY <1>5, Zenon DEF RecoverReplay, Replay, ObserveConversation, Flags
<1>6. CASE RecoverSchedule
  BY <1>6, Zenon DEF RecoverSchedule, Flags
<1>7. CASE Call
  BY <1>7, Zenon DEF Call, Flags
<1>8. CASE RestoreLate
  BY <1>8, Zenon DEF RestoreLate, Restore, RestoredState, Flags
<1>9. CASE Accept
  BY <1>9, Zenon DEF Accept, Flags
<1>10. CASE AcceptReplay
  BY <1>10, Zenon DEF AcceptReplay, Replay, ObserveConversation, Flags
<1>11. CASE AcceptSchedule
  BY <1>11, Zenon DEF AcceptSchedule, Flags
<1>12. CASE AcceptFails
  BY <1>12, Zenon DEF AcceptFails, Flags
<1>13. CASE ReceivePut
  BY <1>13, Zenon DEF ReceivePut, Flags
<1>14. CASE ReceiveReplay
  BY <1>14, Zenon DEF ReceiveReplay, Replay, ObserveConversation, Flags
<1>15. CASE ReceiveKick
  BY <1>15, Zenon DEF ReceiveKick, Flags
<1>16. CASE Claim
  BY <1>16, Zenon DEF Claim, ClaimSaved, Flags
<1>17. CASE ClaimFails
  BY <1>17, Zenon DEF ClaimFails, Flags
<1>18. CASE ResolveLater
  BY <1>18, Zenon DEF ResolveLater, Flags
<1>19. CASE Submit
  BY <1>19, Zenon DEF Submit, Preflight, CreateGoal, StartGoal, ReadEvidence, ByEvidence,
                      SubmitFails, Flags
<1>20. CASE Finish
  BY <1>20, Zenon DEF Finish, Flags
<1>21. CASE Expire
  BY <1>21, Zenon DEF Expire, Flags
<1>22. CASE WaiterTimeout
  BY <1>22, Zenon DEF WaiterTimeout, Flags
<1>23. CASE Tick
  BY <1>23, Zenon DEF Tick, Flags
<1>24. CASE RuntimeStops
  BY <1>24, Zenon DEF RuntimeStops, Flags
<1>25. ASSUME NEW c \in Conversations, EvidenceArrives(c) PROVE Flags'
  BY <1>25, Zenon DEF EvidenceArrives, Flags
<1>26. CASE UNCHANGED submissionVars
  BY <1>26 DEF submissionVars, Flags
<1>27. QED
  BY <1>1, <1>2, <1>3, <1>4, <1>5, <1>6, <1>7, <1>8, <1>9, <1>10, <1>11, <1>12, <1>13,
     <1>14, <1>15, <1>16, <1>17, <1>18, <1>19, <1>20, <1>21, <1>22, <1>23, <1>24, <1>25,
     <1>26 DEF SubmissionNext, Startup, Calls, Receives, Resolution, Timers

\* What a replay does to the correlation, the waiter and the resolution.
LEMMA ReplayTypes ==
    ASSUME Types, Flags, Replay
    PROVE  /\ known' \in Known /\ knownFile' \in Known
           /\ resolver' \in [at : {"idle", "claim", "later"} \cup Working, tries : 0 .. MaxTries]
           /\ now' = now /\ crashes' = crashes
           /\ faults' \subseteq {"transient", "hard", "submit"}
<1>1. known' \in Known /\ knownFile' \in Known
  BY DEF Types, Replay, ObserveConversation
<1>2. resolver' \in [at : {"idle", "claim", "later"} \cup Working, tries : 0 .. MaxTries]
  BY SubmissionAssumption DEF Types, Replay
<1>3. now' = now /\ crashes' = crashes /\ faults' \subseteq {"transient", "hard", "submit"}
  BY DEF Types, Replay, ObserveConversation
<1> QED BY <1>1, <1>2, <1>3

\* Every step keeps the types.
LEMMA NextTypes == Types /\ Flags /\ [SubmissionNext]_submissionVars => Types'
<1> SUFFICES ASSUME Types /\ Flags, [SubmissionNext]_submissionVars PROVE Types'
  OBVIOUS
<1>1. CASE Start
  BY <1>1, SubmissionAssumption DEF Start, Restore, RestoredState, Types, Working, Flags,
                                    States, Terminal
<1>2. CASE StartUnrestored
  BY <1>2, SubmissionAssumption DEF StartUnrestored, Types, Working, Flags, States, Terminal
<1>3. CASE BecomeReady
  BY <1>3, SubmissionAssumption DEF BecomeReady, Types, Working, Flags, States, Terminal
<1>4. CASE RecoverList
  BY <1>4, SubmissionAssumption DEF RecoverList, Types, Working, Flags, States, Terminal
<1>5. CASE RecoverReplay
  BY <1>5, ReplayTypes DEF RecoverReplay, Types
<1>6. CASE RecoverSchedule
  BY <1>6, SubmissionAssumption DEF RecoverSchedule, Types, Working, Flags, States, Terminal
<1>7. CASE Call
  BY <1>7, SubmissionAssumption DEF Call, Types, Working, Flags, States, Terminal
<1>8. CASE RestoreLate
  BY <1>8, SubmissionAssumption DEF RestoreLate, Restore, RestoredState, Types, Working,
                                    Flags, States, Terminal
<1>9. CASE Accept
  BY <1>9, SubmissionAssumption DEF Accept, Types, Working, Flags, States, Terminal
<1>10. CASE AcceptReplay
  BY <1>10, ReplayTypes DEF AcceptReplay, Types
<1>11. CASE AcceptSchedule
  BY <1>11, SubmissionAssumption DEF AcceptSchedule, Types, Working, Flags, States, Terminal
<1>12. CASE AcceptFails
  BY <1>12, SubmissionAssumption DEF AcceptFails, Types, Working, Flags, States, Terminal
<1>13. CASE ReceivePut
  BY <1>13, SubmissionAssumption DEF ReceivePut, Types, Working, Flags, States, Terminal
<1>14. CASE ReceiveReplay
  BY <1>14, ReplayTypes DEF ReceiveReplay, Types
<1>15. CASE ReceiveKick
  BY <1>15, SubmissionAssumption DEF ReceiveKick, Types, Working, Flags, States, Terminal
<1>16. CASE Claim
  BY <1>16, SubmissionAssumption DEF Claim, ClaimSaved, Types, Working, Flags, States,
                                     Terminal
<1>17. CASE ClaimFails
  BY <1>17, SubmissionAssumption DEF ClaimFails, Types, Working, Flags, States, Terminal
<1>18. CASE ResolveLater
  BY <1>18, SubmissionAssumption DEF ResolveLater, Types, Working, Flags, States, Terminal
<1>19. CASE Submit
  BY <1>19, SubmissionAssumption DEF Submit, Preflight, CreateGoal, StartGoal, ReadEvidence,
                                     ByEvidence, SubmitFails, Types, Working, Flags, States,
                                     Terminal
<1>20. CASE Finish
  BY <1>20, SubmissionAssumption DEF Finish, Types, Working, Flags, States, Terminal
<1>21. CASE Expire
  BY <1>21, SubmissionAssumption DEF Expire, Types, Working, Flags, States, Terminal
<1>22. CASE WaiterTimeout
  BY <1>22, SubmissionAssumption DEF WaiterTimeout, Types, Working, Flags, States, Terminal
<1>23. CASE Tick
  BY <1>23, SubmissionAssumption DEF Tick, Types, Working, Flags, States, Terminal
<1>24. CASE RuntimeStops
  BY <1>24, SubmissionAssumption DEF RuntimeStops, Types, Working, Flags, States, Terminal
<1>25. ASSUME NEW c \in Conversations, EvidenceArrives(c) PROVE Types'
  BY <1>25, SubmissionAssumption DEF EvidenceArrives, Types, Working, Flags, States, Terminal
<1>26. CASE UNCHANGED submissionVars
  BY <1>26 DEF submissionVars, Types, Working, Flags, States, Terminal
<1>27. QED
  BY <1>1, <1>2, <1>3, <1>4, <1>5, <1>6, <1>7, <1>8, <1>9, <1>10, <1>11, <1>12, <1>13,
     <1>14, <1>15, <1>16, <1>17, <1>18, <1>19, <1>20, <1>21, <1>22, <1>23, <1>24, <1>25,
     <1>26 DEF SubmissionNext, Startup, Calls, Receives, Resolution, Timers

\* A runtime that has not read its files resolves nothing.
LEMMA NextUnread == SubmissionTypeOK /\ Unread /\ [SubmissionNext]_submissionVars => Unread'
<1> SUFFICES ASSUME SubmissionTypeOK /\ Unread, [SubmissionNext]_submissionVars PROVE Unread'
  OBVIOUS
<1>1. CASE Start
  BY <1>1 DEF Start, Restore, RestoredState, Unread, SubmissionTypeOK
<1>2. CASE StartUnrestored
  BY <1>2 DEF StartUnrestored, Unread, SubmissionTypeOK
<1>3. CASE BecomeReady
  BY <1>3 DEF BecomeReady, Unread, SubmissionTypeOK
<1>4. CASE RecoverList
  BY <1>4 DEF RecoverList, Unread, SubmissionTypeOK
<1>5. CASE RecoverReplay
  BY <1>5 DEF RecoverReplay, Replay, ObserveConversation, Unread, SubmissionTypeOK
<1>6. CASE RecoverSchedule
  BY <1>6 DEF RecoverSchedule, Unread, SubmissionTypeOK
<1>7. CASE Call
  BY <1>7 DEF Call, Unread, SubmissionTypeOK
<1>8. CASE RestoreLate
  BY <1>8 DEF RestoreLate, Restore, RestoredState, Unread, SubmissionTypeOK
<1>9. CASE Accept
  BY <1>9 DEF Accept, Unread, SubmissionTypeOK
<1>10. CASE AcceptReplay
  BY <1>10 DEF AcceptReplay, Replay, ObserveConversation, Unread, SubmissionTypeOK
<1>11. CASE AcceptSchedule
  BY <1>11 DEF AcceptSchedule, Unread, SubmissionTypeOK
<1>12. CASE AcceptFails
  BY <1>12 DEF AcceptFails, Unread, SubmissionTypeOK
<1>13. CASE ReceivePut
  BY <1>13 DEF ReceivePut, Unread, SubmissionTypeOK
<1>14. CASE ReceiveReplay
  BY <1>14 DEF ReceiveReplay, Replay, ObserveConversation, Unread, SubmissionTypeOK
<1>15. CASE ReceiveKick
  BY <1>15 DEF ReceiveKick, Unread, SubmissionTypeOK
<1>16. CASE Claim
  BY <1>16 DEF Claim, ClaimSaved, Unread, SubmissionTypeOK
<1>17. CASE ClaimFails
  BY <1>17 DEF ClaimFails, Unread, SubmissionTypeOK
<1>18. CASE ResolveLater
  BY <1>18 DEF ResolveLater, Unread, SubmissionTypeOK
<1>19. CASE Submit
  BY <1>19 DEF Submit, Preflight, CreateGoal, StartGoal, ReadEvidence, ByEvidence,
               SubmitFails, Unread, SubmissionTypeOK
<1>20. CASE Finish
  BY <1>20 DEF Finish, Unread, SubmissionTypeOK
<1>21. CASE Expire
  BY <1>21 DEF Expire, Unread, SubmissionTypeOK
<1>22. CASE WaiterTimeout
  BY <1>22 DEF WaiterTimeout, Unread, SubmissionTypeOK
<1>23. CASE Tick
  BY <1>23 DEF Tick, Unread, SubmissionTypeOK
<1>24. CASE RuntimeStops
  BY <1>24 DEF RuntimeStops, Unread, SubmissionTypeOK
<1>25. ASSUME NEW c \in Conversations, EvidenceArrives(c) PROVE Unread'
  BY <1>25 DEF EvidenceArrives, Unread, SubmissionTypeOK
<1>26. CASE UNCHANGED submissionVars
  BY <1>26 DEF submissionVars, Unread, SubmissionTypeOK
<1>27. QED
  BY <1>1, <1>2, <1>3, <1>4, <1>5, <1>6, <1>7, <1>8, <1>9, <1>10, <1>11, <1>12, <1>13,
     <1>14, <1>15, <1>16, <1>17, <1>18, <1>19, <1>20, <1>21, <1>22, <1>23, <1>24, <1>25,
     <1>26 DEF SubmissionNext, Startup, Calls, Receives, Resolution, Timers

\* What is saved and remembered keeps telling what was tried.
LEMMA NextTried ==
    SubmissionTypeOK /\ Unread /\ Tried /\ [SubmissionNext]_submissionVars => Tried'
<1> SUFFICES ASSUME SubmissionTypeOK /\ Unread /\ Tried, [SubmissionNext]_submissionVars
    PROVE Tried'
  OBVIOUS
<1>1. CASE Start
  BY <1>1 DEF Start, Restore, RestoredState, Tried, Unread, Waits, Working, Terminal,
              States, SubmissionTypeOK
<1>2. CASE StartUnrestored
  BY <1>2 DEF StartUnrestored, Tried, Unread, Waits, Working, Terminal, States,
              SubmissionTypeOK
<1>3. CASE BecomeReady
  BY <1>3 DEF BecomeReady, Tried, Unread, Waits, Working, Terminal, States, SubmissionTypeOK
<1>4. CASE RecoverList
  BY <1>4 DEF RecoverList, Tried, Unread, Waits, Working, Terminal, States, SubmissionTypeOK
<1>5. CASE RecoverReplay
  BY <1>5 DEF RecoverReplay, Replay, ObserveConversation, Tried, Unread, Waits, Working, Terminal,
              States, SubmissionTypeOK
<1>6. CASE RecoverSchedule
  BY <1>6 DEF RecoverSchedule, Tried, Unread, Waits, Working, Terminal, States,
              SubmissionTypeOK
<1>7. CASE Call
  BY <1>7 DEF Call, Tried, Unread, Waits, Working, Terminal, States, SubmissionTypeOK
<1>8. CASE RestoreLate
  BY <1>8 DEF RestoreLate, Restore, RestoredState, Tried, Unread, Waits, Working, Terminal,
              States, SubmissionTypeOK
<1>9. CASE Accept
  BY <1>9 DEF Accept, Tried, Unread, Waits, Working, Terminal, States, SubmissionTypeOK
<1>10. CASE AcceptReplay
  BY <1>10 DEF AcceptReplay, Replay, ObserveConversation, Tried, Unread, Waits, Working, Terminal,
               States, SubmissionTypeOK
<1>11. CASE AcceptSchedule
  BY <1>11 DEF AcceptSchedule, Tried, Unread, Waits, Working, Terminal, States,
               SubmissionTypeOK
<1>12. CASE AcceptFails
  BY <1>12 DEF AcceptFails, Tried, Unread, Waits, Working, Terminal, States,
               SubmissionTypeOK
<1>13. CASE ReceivePut
  BY <1>13 DEF ReceivePut, Tried, Unread, Waits, Working, Terminal, States, SubmissionTypeOK
<1>14. CASE ReceiveReplay
  BY <1>14 DEF ReceiveReplay, Replay, ObserveConversation, Tried, Unread, Waits, Working, Terminal,
               States, SubmissionTypeOK
<1>15. CASE ReceiveKick
  BY <1>15 DEF ReceiveKick, Tried, Unread, Waits, Working, Terminal, States,
               SubmissionTypeOK
<1>16. CASE Claim
  BY <1>16 DEF Claim, ClaimSaved, Tried, Unread, Waits, Working, Terminal, States,
               SubmissionTypeOK
<1>17. CASE ClaimFails
  BY <1>17 DEF ClaimFails, Tried, Unread, Waits, Working, Terminal, States, SubmissionTypeOK
<1>18. CASE ResolveLater
  BY <1>18 DEF ResolveLater, Tried, Unread, Waits, Working, Terminal, States,
               SubmissionTypeOK
<1>19. CASE Submit
  BY <1>19 DEF Submit, Preflight, CreateGoal, StartGoal, ReadEvidence, ByEvidence,
               SubmitFails, Tried, Unread, Waits, Working, Terminal, States,
               SubmissionTypeOK
<1>20. CASE Finish
  BY <1>20 DEF Finish, Tried, Unread, Waits, Working, Terminal, States, SubmissionTypeOK
<1>21. CASE Expire
  BY <1>21 DEF Expire, Tried, Unread, Waits, Working, Terminal, States, SubmissionTypeOK
<1>22. CASE WaiterTimeout
  BY <1>22 DEF WaiterTimeout, Tried, Unread, Waits, Working, Terminal, States,
               SubmissionTypeOK
<1>23. CASE Tick
  BY <1>23 DEF Tick, Tried, Unread, Waits, Working, Terminal, States, SubmissionTypeOK
<1>24. CASE RuntimeStops
  BY <1>24 DEF RuntimeStops, Tried, Unread, Waits, Working, Terminal, States, SubmissionTypeOK
<1>25. ASSUME NEW c \in Conversations, EvidenceArrives(c) PROVE Tried'
  BY <1>25 DEF EvidenceArrives, Tried, Unread, Waits, Working, Terminal, States, SubmissionTypeOK
<1>26. CASE UNCHANGED submissionVars
  BY <1>26 DEF submissionVars, Tried, Unread, Waits, Working, Terminal, States,
               SubmissionTypeOK
<1>27. QED
  BY <1>1, <1>2, <1>3, <1>4, <1>5, <1>6, <1>7, <1>8, <1>9, <1>10, <1>11, <1>12, <1>13,
     <1>14, <1>15, <1>16, <1>17, <1>18, <1>19, <1>20, <1>21, <1>22, <1>23, <1>24, <1>25,
     <1>26 DEF SubmissionNext, Startup, Calls, Receives, Resolution, Timers

\* A replay makes nothing else known than what is.
LEMMA ReplayIdentifies ==
    ASSUME SubmissionTypeOK, Identified, Replay
    PROVE  /\ known # NoConversation => known' = known
           /\ known' # NoConversation => inbox.conversation = known'
           /\ knownFile' \in {NoConversation, known'}
           /\ "hard" \notin faults' => "hard" \notin faults /\ knownFile' = known'
           /\ resolver'.at \in Working => resolver.at \in Working
<1>1. resolver'.at \in Working => resolver.at \in Working
  BY DEF Replay, Working
<1>2. CASE record # Absent /\ Live
  BY <1>1, <1>2 DEF Replay, ObserveConversation, Identified, SubmissionTypeOK
<1>3. CASE ~(record # Absent /\ Live)
  BY <1>1, <1>3 DEF Replay, Identified
<1> QED BY <1>2, <1>3

\* The conversation of the key does not change.
LEMMA NextIdentified ==
    SubmissionTypeOK /\ Tried /\ Identified /\ [SubmissionNext]_submissionVars => Identified'
<1> SUFFICES ASSUME SubmissionTypeOK /\ Tried /\ Identified, [SubmissionNext]_submissionVars
    PROVE Identified'
  OBVIOUS
<1>1. CASE Start
  BY <1>1 DEF Start, Restore, RestoredState, Identified, Tried, Waits, Working,
              SubmissionTypeOK
<1>2. CASE StartUnrestored
  BY <1>2 DEF StartUnrestored, Identified, Tried, Waits, Working, SubmissionTypeOK
<1>3. CASE BecomeReady
  BY <1>3 DEF BecomeReady, Identified, Tried, Waits, Working, SubmissionTypeOK
<1>4. CASE RecoverList
  BY <1>4 DEF RecoverList, Identified, Tried, Waits, Working, SubmissionTypeOK
<1>5. CASE RecoverReplay
  BY <1>5, ReplayIdentifies DEF RecoverReplay, Identified
<1>6. CASE RecoverSchedule
  BY <1>6 DEF RecoverSchedule, Identified, Tried, Waits, Working, SubmissionTypeOK
<1>7. CASE Call
  BY <1>7 DEF Call, Identified, Tried, Waits, Working, SubmissionTypeOK
<1>8. CASE RestoreLate
  BY <1>8 DEF RestoreLate, Restore, RestoredState, Identified, Tried, Waits, Working,
              SubmissionTypeOK
<1>9. CASE Accept
  BY <1>9 DEF Accept, Identified, Tried, Waits, Working, SubmissionTypeOK
<1>10. CASE AcceptReplay
  BY <1>10, ReplayIdentifies DEF AcceptReplay, Identified
<1>11. CASE AcceptSchedule
  BY <1>11 DEF AcceptSchedule, Identified, Tried, Waits, Working, SubmissionTypeOK
<1>12. CASE AcceptFails
  BY <1>12 DEF AcceptFails, Identified, Tried, Waits, Working, SubmissionTypeOK
<1>13. CASE ReceivePut
  BY <1>13 DEF ReceivePut, Identified, Tried, Waits, Working, SubmissionTypeOK
<1>14. CASE ReceiveReplay
  BY <1>14, ReplayIdentifies DEF ReceiveReplay, Identified
<1>15. CASE ReceiveKick
  BY <1>15 DEF ReceiveKick, Identified, Tried, Waits, Working, SubmissionTypeOK
<1>16. CASE Claim
  BY <1>16 DEF Claim, ClaimSaved, Identified, Tried, Waits, Working, SubmissionTypeOK
<1>17. CASE ClaimFails
  BY <1>17 DEF ClaimFails, Identified, Tried, Waits, Working, SubmissionTypeOK
<1>18. CASE ResolveLater
  BY <1>18 DEF ResolveLater, Identified, Tried, Waits, Working, SubmissionTypeOK
<1>19. CASE Submit
  BY <1>19 DEF Submit, Preflight, CreateGoal, StartGoal, ReadEvidence, ByEvidence,
               SubmitFails, Identified, Tried, Waits, Working, SubmissionTypeOK
<1>20. CASE Finish
  BY <1>20 DEF Finish, Identified, Tried, Waits, Working, SubmissionTypeOK
<1>21. CASE Expire
  BY <1>21 DEF Expire, Identified, Tried, Waits, Working, SubmissionTypeOK
<1>22. CASE WaiterTimeout
  BY <1>22 DEF WaiterTimeout, Identified, Tried, Waits, Working, SubmissionTypeOK
<1>23. CASE Tick
  BY <1>23 DEF Tick, Identified, Tried, Waits, Working, SubmissionTypeOK
<1>24. CASE RuntimeStops
  BY <1>24 DEF RuntimeStops, Identified, Tried, Waits, Working, SubmissionTypeOK
<1>25. ASSUME NEW c \in Conversations, EvidenceArrives(c) PROVE Identified'
  BY <1>25 DEF EvidenceArrives, Identified, Tried, Waits, Working, SubmissionTypeOK
<1>26. CASE UNCHANGED submissionVars
  BY <1>26 DEF submissionVars, Identified, Tried, Waits, Working, SubmissionTypeOK
<1>27. QED
  BY <1>1, <1>2, <1>3, <1>4, <1>5, <1>6, <1>7, <1>8, <1>9, <1>10, <1>11, <1>12, <1>13,
     <1>14, <1>15, <1>16, <1>17, <1>18, <1>19, <1>20, <1>21, <1>22, <1>23, <1>24, <1>25,
     <1>26 DEF SubmissionNext, Startup, Calls, Receives, Resolution, Timers

\* Somebody sees to the evidence.
LEMMA NextAwaited ==
    SubmissionTypeOK /\ Unread /\ Tried /\ AwaitedBy /\ [SubmissionNext]_submissionVars => AwaitedBy'
<1> SUFFICES ASSUME SubmissionTypeOK /\ Unread /\ Tried /\ AwaitedBy, [SubmissionNext]_submissionVars
    PROVE AwaitedBy'
  OBVIOUS
<1>1. CASE Start
  BY <1>1 DEF Start, Restore, RestoredState, AwaitedBy, Starting, Replaying, Scheduling,
              Unread, Tried, Working, SubmissionTypeOK
<1>2. CASE StartUnrestored
  BY <1>2 DEF StartUnrestored, AwaitedBy, Starting, Replaying, Scheduling, Unread, Tried,
              Working, SubmissionTypeOK
<1>3. CASE BecomeReady
  BY <1>3 DEF BecomeReady, AwaitedBy, Starting, Replaying, Scheduling, Unread, Tried,
              Working, SubmissionTypeOK
<1>4. CASE RecoverList
  BY <1>4 DEF RecoverList, AwaitedBy, Starting, Replaying, Scheduling, Unread, Tried,
              Working, SubmissionTypeOK
<1>5. CASE RecoverReplay
  BY <1>5 DEF RecoverReplay, Replay, ObserveConversation, AwaitedBy, Starting, Replaying,
              Scheduling, Unread, Tried, Working, SubmissionTypeOK
<1>6. CASE RecoverSchedule
  BY <1>6 DEF RecoverSchedule, AwaitedBy, Starting, Replaying, Scheduling, Unread, Tried,
              Working, SubmissionTypeOK
<1>7. CASE Call
  BY <1>7 DEF Call, AwaitedBy, Starting, Replaying, Scheduling, Unread, Tried, Working,
              SubmissionTypeOK
<1>8. CASE RestoreLate
  BY <1>8 DEF RestoreLate, Restore, RestoredState, AwaitedBy, Starting, Replaying,
              Scheduling, Unread, Tried, Working, SubmissionTypeOK
<1>9. CASE Accept
  BY <1>9 DEF Accept, AwaitedBy, Starting, Replaying, Scheduling, Unread, Tried, Working,
              SubmissionTypeOK
<1>10. CASE AcceptReplay
  BY <1>10 DEF AcceptReplay, Replay, ObserveConversation, AwaitedBy, Starting, Replaying,
               Scheduling, Unread, Tried, Working, SubmissionTypeOK
<1>11. CASE AcceptSchedule
  BY <1>11 DEF AcceptSchedule, AwaitedBy, Starting, Replaying, Scheduling, Unread, Tried,
               Working, SubmissionTypeOK
<1>12. CASE AcceptFails
  BY <1>12 DEF AcceptFails, AwaitedBy, Starting, Replaying, Scheduling, Unread, Tried,
               Working, SubmissionTypeOK
<1>13. CASE ReceivePut
  BY <1>13 DEF ReceivePut, AwaitedBy, Starting, Replaying, Scheduling, Unread, Tried,
               Working, SubmissionTypeOK
<1>14. CASE ReceiveReplay
  BY <1>14 DEF ReceiveReplay, Replay, ObserveConversation, AwaitedBy, Starting, Replaying,
               Scheduling, Unread, Tried, Working, SubmissionTypeOK
<1>15. CASE ReceiveKick
  BY <1>15 DEF ReceiveKick, AwaitedBy, Starting, Replaying, Scheduling, Unread, Tried,
               Working, SubmissionTypeOK
<1>16. CASE Claim
  BY <1>16 DEF Claim, ClaimSaved, AwaitedBy, Starting, Replaying, Scheduling, Unread, Tried,
               Working, SubmissionTypeOK
<1>17. CASE ClaimFails
  BY <1>17 DEF ClaimFails, AwaitedBy, Starting, Replaying, Scheduling, Unread, Tried,
               Working, SubmissionTypeOK
<1>18. CASE ResolveLater
  BY <1>18 DEF ResolveLater, AwaitedBy, Starting, Replaying, Scheduling, Unread, Tried,
               Working, SubmissionTypeOK
<1>19. CASE Submit
  BY <1>19 DEF Submit, Preflight, CreateGoal, StartGoal, ReadEvidence, ByEvidence,
               SubmitFails, AwaitedBy, Starting, Replaying, Scheduling, Unread, Tried,
               Working, SubmissionTypeOK
<1>20. CASE Finish
  BY <1>20 DEF Finish, AwaitedBy, Starting, Replaying, Scheduling, Unread, Tried, Working,
               Terminal,
                     States, SubmissionTypeOK
<1>21. CASE Expire
  BY <1>21 DEF Expire, AwaitedBy, Starting, Replaying, Scheduling, Unread, Tried, Working,
               SubmissionTypeOK
<1>22. CASE WaiterTimeout
  BY <1>22 DEF WaiterTimeout, AwaitedBy, Starting, Replaying, Scheduling, Unread, Tried,
               Working, SubmissionTypeOK
<1>23. CASE Tick
  BY <1>23 DEF Tick, AwaitedBy, Starting, Replaying, Scheduling, Unread, Tried, Working,
               SubmissionTypeOK
<1>24. CASE RuntimeStops
  BY <1>24 DEF RuntimeStops, AwaitedBy, Starting, Replaying, Scheduling, Unread, Tried, Working,
               SubmissionTypeOK
<1>25. ASSUME NEW c \in Conversations, EvidenceArrives(c) PROVE AwaitedBy'
  BY <1>25 DEF EvidenceArrives, AwaitedBy, Starting, Replaying, Scheduling, Unread, Tried, Working,
               SubmissionTypeOK
<1>26. CASE UNCHANGED submissionVars
  BY <1>26 DEF submissionVars, AwaitedBy, Starting, Replaying, Scheduling, Unread, Tried,
               Working, SubmissionTypeOK
<1>27. QED
  BY <1>1, <1>2, <1>3, <1>4, <1>5, <1>6, <1>7, <1>8, <1>9, <1>10, <1>11, <1>12, <1>13,
     <1>14, <1>15, <1>16, <1>17, <1>18, <1>19, <1>20, <1>21, <1>22, <1>23, <1>24, <1>25,
     <1>26 DEF SubmissionNext, Startup, Calls, Receives, Resolution, Timers

-----------------------------------------------------------------------------
(* The theorems *)

LEMMA TypesTogether == SubmissionTypeOK <=> Types /\ Flags
BY DEF SubmissionTypeOK, Types, Flags, Working

LEMMA SubmissionStarts == SubmissionInit => SubmissionInv
<1> SUFFICES ASSUME SubmissionInit PROVE SubmissionInv
  OBVIOUS
<1>1. SubmissionTypeOK
  <2>1. Types
    BY SubmissionAssumption DEF SubmissionInit, Types, States
  <2>2. Flags
    BY Zenon DEF SubmissionInit, Flags
  <2> QED BY <2>1, <2>2, TypesTogether
<1>2. Unread
  BY DEF SubmissionInit, Unread
<1>3. Tried /\ Identified /\ AwaitedBy
  BY DEF SubmissionInit, Tried, Working, Identified, AwaitedBy
<1> QED BY <1>1, <1>2, <1>3 DEF SubmissionInv

\* The calls, the evidence and the restarts keep every variable within its type, for
\* any lifetimes and bounds; the parts below need it.
THEOREM SubmissionTypeCorrect == SubmissionSafeSpec => []SubmissionTypeOK
<1>1. SubmissionInit => SubmissionTypeOK
  BY SubmissionStarts DEF SubmissionInv
<1>2. SubmissionTypeOK /\ [SubmissionNext]_submissionVars => SubmissionTypeOK'
  <2>1. (SubmissionTypeOK <=> Types /\ Flags)'
    BY TypesTogether, PTL
  <2> QED BY <2>1, TypesTogether, NextTypes, NextFlags
<1> QED BY <1>1, <1>2, PTL DEF SubmissionSafeSpec

\* Whatever the order of calls, evidence, stops and failures, the invariant holds.
THEOREM SubmissionInvariance == SubmissionSafeSpec => []SubmissionInv
<1>1. SubmissionInv /\ [SubmissionNext]_submissionVars => SubmissionInv'
  <2> SUFFICES ASSUME SubmissionInv, [SubmissionNext]_submissionVars PROVE SubmissionInv'
    OBVIOUS
  <2>1. (SubmissionTypeOK <=> Types /\ Flags)'
    BY TypesTogether, PTL
  <2>2. SubmissionTypeOK'
    BY <2>1, TypesTogether, NextTypes, NextFlags DEF SubmissionInv
  <2>3. Unread' /\ Tried' /\ Identified' /\ AwaitedBy'
    BY NextUnread, NextTried, NextIdentified, NextAwaited DEF SubmissionInv
  <2> QED BY <2>2, <2>3 DEF SubmissionInv
<1> QED BY <1>1, SubmissionStarts, PTL DEF SubmissionSafeSpec

\* A submission starts at most one goal, for the conversation whose evidence is on
\* record, and what is reported as failed or still waits has nothing running: so
\* the chat may submit it again, and nothing is started twice.
THEOREM AlwaysStartedOnce == SubmissionSafeSpec => []StartedOnce
<1>1. SubmissionInv => OneGoal
  BY DEF SubmissionInv, Tried, Identified, OneGoal, SubmissionTypeOK
<1>2. SubmissionInv => FailedIsSafe
  BY DEF SubmissionInv, Tried, Waits, FailedIsSafe
<1> QED BY <1>1, <1>2, SubmissionInvariance, PTL DEF StartedOnce

\* Acknowledged evidence is never forgotten by a submission that waits for it:
\* when every call is over, its resolution is under way or put off.
THEOREM NeverLostEvidence == SubmissionSafeSpec => []NoLostEvidence
<1>1. SubmissionInv => NoLostEvidence
  BY DEF SubmissionInv, AwaitedBy, NoLostEvidence, Quiet, Starting, Replaying, Scheduling
<1> QED BY <1>1, SubmissionInvariance, PTL

-----------------------------------------------------------------------------
(* The interactive execution: its invariant *)

\* Where a start operation may be.  Before the send nothing was dispatched for the execution.
Saved == {"base", "send", "thread", "watch", "bind"}
Launching == {"sConnect", "sThread", "sTurn"}
OpPlaces == Saved \cup Launching \cup
    {"idle", "desktop", "session", "exec", "server", "sSession", "sExec", "fail", "failed", "lost"}

Unsent(e) == {"base", "send"} \cup Launching \cup (IF e = Initial THEN {} ELSE {"bind"})
AfterSend(e) == {"thread", "watch"} \cup (IF e = Initial THEN {"bind"} ELSE {})

WatchPlaces == {"none", "setup", "read", "flag", "complete", "fail", "settling", "stream"}
Kinds == {"complete", "fail", "close"}

ExecTypes == exec \in [Executions -> [status: {"none", "running"} \cup Ended,
                backend: {"none", "desktop", "server"}, pid: BOOLEAN, flag: BOOLEAN]]
EventTypes == events \in [Executions -> [started: SUBSET Turns, completed: 0 .. 2]]
TurnTypes == turn \in [Turns -> {"absent", "running", "completed", "failed"}]
SentTypes == sent \in [Executions -> Nat]
OpTypes == op \in [Executions -> [pc: OpPlaces, by: Actuations \cup {NoOne}, seen: SUBSET Turns]]
WatchTypes ==
    watch \in [Executions -> [pc: WatchPlaces, pin: Turns \cup {NoTurn}, seen: SUBSET Turns]]
JobTypes ==
    job \in [Executions -> [pc: {"free", "read", "events", "write", "tell"},
                kind: Kinds \cup {"none"}, by: {"none", "watch", "user"},
                turn: Turns \cup {NoTurn}]]
ToldTypes == told \in [Executions -> {"no", "failed", "yes"}]
CapTypes ==
    cap \in [owner: Actuations \cup {NoOne}, at: {"none", "desktop", "choice", "started"},
        st: Open \cup {"none", "fallback", "recovered"}, action: {"none", "recheck", "standalone"}]
SetTypes ==
    /\ bound \subseteq Executions /\ notified \subseteq Executions
    /\ logged \subseteq Executions /\ todo \subseteq Executions

Typed ==
    /\ ExecTypes /\ EventTypes /\ TurnTypes /\ SentTypes /\ OpTypes
    /\ WatchTypes /\ JobTypes /\ ToldTypes /\ CapTypes /\ SetTypes

\* What was dispatched for an execution, and the turn the provider has of it.
SentOK(e) ==
    /\ sent[e] \in {0, 1}
    /\ sent[e] = 0 <=> turn[e] = "absent"
    /\ sent[e] = 1 => exec[e].status # "none"

OpOK(e) ==
    /\ op[e].pc \in Unsent(e) => sent[e] = 0
    /\ op[e].pc \in Saved \cup Launching => exec[e].status # "none"
    /\ op[e].pc \in AfterSend(e) => sent[e] = 1
    /\ e = Initial => op[e].pc # "base"
    /\ e \notin op[e].seen

\* The observer follows the turn of its execution.
WatchOK(e) ==
    /\ watch[e].pin \in {NoTurn, e}
    /\ watch[e].pin = e \/ watch[e].pc = "read" => sent[e] = 1
    /\ watch[e].pc = "complete" => turn[e] = "completed"
    /\ e \notin watch[e].seen

EventsOK(e) == events[e].started \subseteq {e} /\ (e \in events[e].started => sent[e] = 1)

JobOK(e) ==
    /\ job[e].turn \in {NoTurn, e}
    /\ job[e].pc # "free" => job[e].kind \in Kinds
    /\ job[e].kind = "complete" /\ job[e].pc # "tell" => turn[e] = "completed"
    /\ job[e].pc = "events" => job[e].kind = "complete" /\ job[e].turn = e

PassedOK(e) == exec[e].status = "passed" => turn[e] = "completed"

Ours(e) == SentOK(e) /\ OpOK(e) /\ WatchOK(e) /\ EventsOK(e) /\ JobOK(e) /\ PassedOK(e)

\* The initial execution is given away once in the life of a process.
CapOK ==
    /\ cap.at # "none" => cap.owner # NoOne
    /\ cap.at # "started" => op[Initial].pc = "idle"

ExecutionInv == Typed /\ CapOK /\ \A e \in Executions : Ours(e)

-----------------------------------------------------------------------------
(* What the moves of the parts do *)

SameFor(e) ==
    /\ exec'[e] = exec[e] /\ events'[e] = events[e] /\ turn'[e] = turn[e]
    /\ sent'[e] = sent[e] /\ op'[e] = op[e] /\ watch'[e] = watch[e] /\ job'[e] = job[e]

Kept(e) ==
    /\ Typed' /\ Ours(e)' /\ (op[e].pc = "idle" => op'[e].pc = "idle")
    /\ \A f \in Executions \ {e} : SameFor(f)

\* Nothing an execution is about changed.
LEMMA SameKeeps == ASSUME NEW e, SameFor(e), Ours(e) PROVE Ours(e)'
<1>1. SentOK(e)'  BY DEF SameFor, Ours, SentOK
<1>2. OpOK(e)'  BY DEF SameFor, Ours, OpOK, Unsent, AfterSend
<1>3. WatchOK(e)'  BY DEF SameFor, Ours, WatchOK
<1>4. EventsOK(e)'  BY DEF SameFor, Ours, EventsOK
<1>5. JobOK(e)'  BY DEF SameFor, Ours, JobOK
<1>6. PassedOK(e)'  BY DEF SameFor, Ours, PassedOK
<1> QED  BY <1>1, <1>2, <1>3, <1>4, <1>5, <1>6 DEF Ours

\* The places a start goes through, in its order.
LEMMA Order ==
    ASSUME NEW e
    PROVE  /\ Following(e, "desktop") = "session" /\ Following(e, "session") = "exec"
           /\ Following(e, "thread") = "watch"
           /\ e = Initial =>
                /\ Following(e, "exec") = "send" /\ Following(e, "send") = "bind"
                /\ Following(e, "bind") = "thread"
           /\ e # Initial =>
                /\ Following(e, "exec") = "base" /\ Following(e, "base") = "bind"
                /\ Following(e, "bind") = "send" /\ Following(e, "send") = "thread"
<1>1. CASE e = Initial
  <2>0. /\ Stages(e) = <<"desktop", "session", "exec", "send", "bind", "thread", "watch">>
        /\ DOMAIN Stages(e) = 1 .. 7
    BY <1>1 DEF Stages
  <2>1. \A pc : (CHOOSE j \in DOMAIN Stages(e) : Stages(e)[j] = pc) =
                 (CHOOSE j \in 1 .. 7 : Stages(e)[j] = pc)
    BY <2>0
  <2> DEFINE At7(pc) == CHOOSE j \in 1 .. 7 : Stages(e)[j] = pc
  <2>2. At7("desktop") = 1 /\ At7("session") = 2 /\ At7("exec") = 3
    BY <2>0
  <2>3. At7("send") = 4 /\ At7("bind") = 5 /\ At7("thread") = 6
    BY <2>0
  <2> QED  BY <1>1, <2>0, <2>1, <2>2, <2>3 DEF Following
<1>2. CASE e # Initial
  <2>0. /\ Stages(e) =
              <<"desktop", "session", "exec", "base", "bind", "send", "thread", "watch">>
        /\ DOMAIN Stages(e) = 1 .. 8
    BY <1>2 DEF Stages
  <2>1. \A pc : (CHOOSE j \in DOMAIN Stages(e) : Stages(e)[j] = pc) =
                 (CHOOSE j \in 1 .. 8 : Stages(e)[j] = pc)
    BY <2>0
  <2> DEFINE At8(pc) == CHOOSE j \in 1 .. 8 : Stages(e)[j] = pc
  <2>2. At8("desktop") = 1 /\ At8("session") = 2 /\ At8("exec") = 3 /\ At8("base") = 4
    BY <2>0
  <2>3. At8("bind") = 5 /\ At8("send") = 6 /\ At8("thread") = 7
    BY <2>0
  <2> QED  BY <1>2, <2>0, <2>1, <2>2, <2>3 DEF Following
<1> QED  BY <1>1, <1>2

LEMMA GotoMoves ==
    ASSUME OpTypes, NEW e \in Executions, NEW pc \in OpPlaces, Goto(e, pc)
    PROVE  /\ OpTypes' /\ op'[e].pc = pc /\ op'[e].seen = op[e].seen
           /\ \A f \in Executions \ {e} : op'[f] = op[f]
<1>1. op' = [op EXCEPT ![e].pc = pc]
  BY DEF Goto
<1> QED  BY <1>1 DEF OpTypes

LEMMA AnswerMoves ==
    ASSUME OpTypes, NEW e \in Executions, NEW answer, Answer(e, answer)
    PROVE  /\ OpTypes' /\ op'[e] = Idle
           /\ \A f \in Executions \ {e} : op'[f] = op[f]
<1>1. op' = [op EXCEPT ![e] = Idle]
  BY DEF Answer
<1>2. Idle \in [pc: OpPlaces, by: Actuations \cup {NoOne}, seen: SUBSET Turns]
  BY DEF Idle, OpPlaces
<1> QED  BY <1>1, <1>2 DEF OpTypes

LEMMA SettledMoves ==
    ASSUME ExecTypes, NEW e \in Executions, NEW s \in {"none", "running"} \cup Ended,
           exec' = Settled(e, s)
    PROVE  /\ ExecTypes' /\ exec'[e].status = s /\ exec'[e].backend = exec[e].backend
           /\ \A f \in Executions \ {e} : exec'[f] = exec[f]
  BY DEF Settled, ExecTypes

LEMMA FlaggedMoves ==
    ASSUME ExecTypes, NEW e \in Executions, NEW b \in BOOLEAN, exec' = Flagged(e, b)
    PROVE  /\ ExecTypes' /\ exec'[e].status = exec[e].status
           /\ \A f \in Executions \ {e} : exec'[f] = exec[f]
<1>1. exec' = [exec EXCEPT ![e].flag = IF Running(e) THEN b ELSE @]
  BY DEF Flagged
<1>2. CASE Running(e)
  BY <1>1, <1>2 DEF ExecTypes
<1>3. CASE ~Running(e)
  BY <1>1, <1>3 DEF ExecTypes
<1> QED  BY <1>2, <1>3

LEMMA CreateMoves ==
    ASSUME ExecTypes, NEW e \in Executions, NEW b \in {"desktop", "server"}, Create(e, b)
    PROVE  /\ ExecTypes' /\ exec'[e].status = "running"
           /\ \A f \in Executions \ {e} : exec'[f] = exec[f]
  BY DEF Create, ExecTypes

LEMMA DispatchMoves ==
    ASSUME TurnTypes, SentTypes, NEW e \in Executions, Dispatched(e)
    PROVE  /\ TurnTypes' /\ SentTypes' /\ turn'[e] = "running" /\ sent'[e] = sent[e] + 1
           /\ \A f \in Executions \ {e} : turn'[f] = turn[f] /\ sent'[f] = sent[f]
  BY DEF Dispatched, TurnTypes, SentTypes, Turns

LEMMA ObservingMoves ==
    ASSUME WatchTypes, NEW e \in Executions, NEW pc \in WatchPlaces, Observing(e, pc)
    PROVE  /\ WatchTypes' /\ watch'[e].pc = pc
           /\ watch'[e].pin = watch[e].pin /\ watch'[e].seen = watch[e].seen
           /\ \A f \in Executions \ {e} : watch'[f] = watch[f]
  BY DEF Observing, WatchTypes

LEMMA JobMoves ==
    ASSUME JobTypes, NEW e \in Executions,
           NEW pc \in {"free", "read", "events", "write", "tell"}, Job(e, pc)
    PROVE  /\ JobTypes' /\ job'[e].pc = pc
           /\ job'[e].kind = job[e].kind /\ job'[e].turn = job[e].turn
           /\ \A f \in Executions \ {e} : job'[f] = job[f]
  BY DEF Job, JobTypes

LEMMA EndJobMoves ==
    ASSUME JobTypes, WatchTypes, NEW e \in Executions, NEW ok \in BOOLEAN, EndJob(e, ok)
    PROVE  /\ JobTypes' /\ WatchTypes' /\ job'[e] = Free
           /\ watch'[e].pc \in {"flag", "none", watch[e].pc}
           /\ watch'[e].pin = watch[e].pin /\ watch'[e].seen = watch[e].seen
           /\ \A f \in Executions \ {e} : watch'[f] = watch[f] /\ job'[f] = job[f]
<1>1. Free \in [pc: {"free", "read", "events", "write", "tell"}, kind: Kinds \cup {"none"},
                by: {"none", "watch", "user"}, turn: Turns \cup {NoTurn}]
  BY DEF Free
<1>2. JobTypes' /\ job'[e] = Free /\ \A f \in Executions \ {e} : job'[f] = job[f]
  BY <1>1 DEF EndJob, JobTypes
<1>3. \E pc \in {"flag", "none", watch[e].pc} : watch' = [watch EXCEPT ![e].pc = pc]
  <2>1. CASE ~ok
    BY <2>1 DEF EndJob
  <2>2. CASE ok /\ job[e].by = "watch"
    BY <2>2 DEF EndJob
  <2>3. CASE ok /\ job[e].by # "watch"
    BY <2>3 DEF EndJob
  <2> QED  BY <2>1, <2>2, <2>3
<1>4. PICK pc \in {"flag", "none", watch[e].pc} : watch' = [watch EXCEPT ![e].pc = pc]
  BY <1>3
<1>5. pc \in WatchPlaces
  BY DEF WatchTypes, WatchPlaces
<1>6. /\ WatchTypes' /\ watch'[e].pc = pc
      /\ watch'[e].pin = watch[e].pin /\ watch'[e].seen = watch[e].seen
      /\ \A f \in Executions \ {e} : watch'[f] = watch[f]
  BY <1>4, <1>5 DEF WatchTypes
<1> QED  BY <1>2, <1>6

LEMMA TellMoves ==
    ASSUME ToldTypes, SetTypes, NEW e \in Executions, Tell(e)
    PROVE  ToldTypes' /\ notified' \subseteq Executions
<1>1. notified' \subseteq Executions
  BY DEF Tell, SetTypes
<1>2. ToldTypes'
  <2>1. CASE UNCHANGED told
    BY <2>1 DEF ToldTypes
  <2>2. CASE told' = [told EXCEPT ![e] = "yes"]
    BY <2>2 DEF ToldTypes
  <2>3. CASE told' = [told EXCEPT ![e] = IF @ = "no" THEN "failed" ELSE @]
    BY <2>3 DEF ToldTypes
  <2> QED  BY <2>1, <2>2, <2>3 DEF Tell
<1> QED  BY <1>1, <1>2

-----------------------------------------------------------------------------
(* The start operation on the desktop *)

Records == <<exec, events, turn, sent, watch, job>>

\* A step that only moves the start operation.
LEMMA OpKeeps ==
    ASSUME Typed, NEW e \in Executions, Ours(e), UNCHANGED <<Records, cap, todo>>,
           SetTypes', ToldTypes', OpTypes', OpOK(e)', op[e].pc = "idle" => op'[e].pc = "idle",
           \A f \in Executions \ {e} : op'[f] = op[f]
    PROVE  Kept(e)
<1>1. Typed'
  BY DEF Records, Typed, ExecTypes, EventTypes, TurnTypes, SentTypes, WatchTypes, JobTypes, CapTypes
<1>2. Ours(e)'
  BY DEF Records, Ours, SentOK, WatchOK, EventsOK, JobOK, PassedOK
<1>3. \A f \in Executions \ {e} : SameFor(f)
  BY DEF Records, SameFor
<1> QED  BY <1>1, <1>2, <1>3 DEF Kept

\* The answer of a start leaves nothing in flight.
LEMMA AnswerIsIdle ==
    ASSUME OpTypes, NEW e \in Executions, NEW answer, Answer(e, answer)
    PROVE  OpOK(e)' /\ op'[e].pc = "idle"
<1>1. op'[e] = Idle
  BY AnswerMoves
<1> QED  BY <1>1 DEF OpOK, Idle, Unsent, AfterSend, Saved, Launching

LEMMA AnswerKeeps ==
    ASSUME Typed, NEW e \in Executions, Ours(e), UNCHANGED <<Records, cap, todo>>,
           SetTypes', ToldTypes', NEW answer, Answer(e, answer)
    PROVE  Kept(e)
<1>1. /\ OpTypes' /\ OpOK(e)' /\ op'[e].pc = "idle"
      /\ \A f \in Executions \ {e} : op'[f] = op[f]
  BY AnswerMoves, AnswerIsIdle DEF Typed
<1> QED  BY <1>1, OpKeeps

\* Going on to a place that promises no more than the place the start is at.
LEMMA GotoKeeps ==
    ASSUME Typed, NEW e \in Executions, Ours(e), UNCHANGED <<Records, cap, todo>>,
           SetTypes', ToldTypes', NEW pc \in OpPlaces, Goto(e, pc), op[e].pc # "idle",
           pc \in Unsent(e) => sent[e] = 0,
           pc \in Saved \cup Launching => exec[e].status # "none",
           pc \in AfterSend(e) => sent[e] = 1,
           e = Initial => pc # "base"
    PROVE  Kept(e)
<1>1. /\ OpTypes' /\ op'[e].pc = pc /\ op'[e].seen = op[e].seen
      /\ \A f \in Executions \ {e} : op'[f] = op[f]
  BY GotoMoves DEF Typed
<1>2. OpOK(e)'
  BY <1>1 DEF Records, Ours, OpOK, Unsent, AfterSend
<1> QED  BY <1>1, <1>2, OpKeeps

\* what no start operation promises anything about
LEMMA Harmless ==
    ASSUME NEW e, NEW pc \in {"idle", "desktop", "session", "exec", "server", "sSession",
                              "sExec", "fail", "failed", "lost"}
    PROVE  /\ pc \in OpPlaces /\ pc \notin Unsent(e) /\ pc \notin Saved \cup Launching
           /\ pc \notin AfterSend(e) /\ pc # "base"
  BY DEF OpPlaces, Unsent, Saved, Launching, AfterSend

LEMMA PlainKeeps ==
    ASSUME Typed, NEW e \in Executions, Ours(e), UNCHANGED <<Records, cap, todo>>,
           SetTypes', ToldTypes', op[e].pc # "idle",
           NEW pc \in {"idle", "desktop", "session", "exec", "server", "sSession",
                       "sExec", "fail", "failed", "lost"}, Goto(e, pc)
    PROVE  Kept(e)
<1>1. /\ pc \in OpPlaces /\ pc \notin Unsent(e) /\ pc \notin Saved \cup Launching
      /\ pc \notin AfterSend(e) /\ pc # "base"
  BY Harmless
<1> QED  BY <1>1, GotoKeeps

LEMMA ConnectKeeps ==
    ASSUME Typed, NEW e \in Executions, Ours(e), Connect(e), UNCHANGED <<cap, todo>>
    PROVE  Kept(e)
<1>1. /\ UNCHANGED <<Records, cap, todo>> /\ op[e].pc = "desktop"
      /\ ToldTypes' /\ SetTypes'
  BY DEF Connect, Records, recordVars, providerVars, At, Typed, ToldTypes, SetTypes
<1>2. \/ Answer(e, "rejected") \/ Goto(e, "session") \/ Goto(e, "server")
  BY <1>1, Order DEF Connect, Proceed
<1> QED  BY <1>1, <1>2, AnswerKeeps, PlainKeeps

LEMMA SessionKeeps ==
    ASSUME Typed, NEW e \in Executions, Ours(e), SaveSession(e) \/ SaveSessionFails(e),
           UNCHANGED <<cap, todo>>
    PROVE  Kept(e)
<1>1. /\ UNCHANGED <<Records, cap, todo>> /\ op[e].pc = "session"
      /\ ToldTypes' /\ SetTypes'
  BY DEF SaveSession, SaveSessionFails, Records, providerVars, At, Typed, ToldTypes, SetTypes
<1>2. \/ Answer(e, "rejected") \/ Goto(e, "exec")
  BY <1>1, Order DEF SaveSession, SaveSessionFails, Proceed
<1> QED  BY <1>1, <1>2, AnswerKeeps, PlainKeeps

LEMMA ExistsKeeps ==
    ASSUME Typed, NEW e \in Executions, Ours(e), ExecutionExists(e), UNCHANGED <<cap, todo>>
    PROVE  Kept(e)
<1>1. UNCHANGED <<Records, cap, todo>> /\ logged' = logged /\ bound' = bound
  BY DEF ExecutionExists, Records, providerVars
<1>2. Tell(e) /\ Answer(e, "rejected")
  BY DEF ExecutionExists
<1>3. ToldTypes' /\ SetTypes'
  BY <1>1, <1>2, TellMoves DEF Typed, SetTypes
<1> QED  BY <1>1, <1>2, <1>3, AnswerKeeps

LEMMA AnnounceKeeps ==
    ASSUME Typed, NEW e \in Executions, Ours(e), NEW pc, NEW answer, Announce(e, pc, answer),
           UNCHANGED <<cap, todo>>
    PROVE  Kept(e)
<1>1. UNCHANGED <<Records, cap, todo>> /\ logged' = logged /\ bound' = bound
  BY DEF Announce, Records, providerVars
<1>2. Tell(e) /\ Answer(e, answer)
  BY DEF Announce
<1>3. ToldTypes' /\ SetTypes'
  BY <1>1, <1>2, TellMoves DEF Typed, SetTypes
<1> QED  BY <1>1, <1>2, <1>3, AnswerKeeps

LEMMA BindKeeps ==
    ASSUME Typed, NEW e \in Executions, Ours(e), Bind(e), UNCHANGED <<cap, todo>>
    PROVE  Kept(e)
<1>1. UNCHANGED <<Records, cap, todo>> /\ op[e].pc = "bind"
  BY DEF Bind, Records, providerVars, At
<1>2. ToldTypes' /\ SetTypes'
  BY DEF Bind, Typed, ToldTypes, SetTypes
<1>3. exec[e].status # "none" /\ (e = Initial => sent[e] = 1) /\ (e # Initial => sent[e] = 0)
  BY <1>1 DEF Ours, OpOK, Saved, Unsent, AfterSend
<1>4. CASE Answer(e, "unknown")
  BY <1>1, <1>2, <1>4, AnswerKeeps
<1>5. CASE Goto(e, "fail")
  BY <1>1, <1>2, <1>5, PlainKeeps
<1>6. CASE e = Initial /\ Goto(e, "thread")
  <2>1. "thread" \in OpPlaces /\ "thread" \notin Unsent(e) /\ "thread" # "base"
    BY DEF OpPlaces, Saved, Unsent, Launching
  <2> QED  BY <1>1, <1>2, <1>3, <1>6, <2>1, GotoKeeps
<1>7. CASE e # Initial /\ Goto(e, "send")
  <2>1. "send" \in OpPlaces /\ "send" \notin AfterSend(e) /\ "send" # "base"
    BY DEF OpPlaces, Saved, AfterSend
  <2> QED  BY <1>1, <1>2, <1>3, <1>7, <2>1, GotoKeeps
<1> QED  BY <1>1, <1>4, <1>5, <1>6, <1>7, Order DEF Bind, Proceed, Unknown

LEMMA ThreadKeeps ==
    ASSUME Typed, NEW e \in Executions, Ours(e), SaveThread(e), UNCHANGED <<cap, todo>>
    PROVE  Kept(e)
<1>1. UNCHANGED <<Records, cap, todo>> /\ op[e].pc = "thread"
  BY DEF SaveThread, Records, providerVars, At
<1>2. ToldTypes' /\ SetTypes'
  BY DEF SaveThread, Typed, ToldTypes, SetTypes
<1>3. exec[e].status # "none" /\ sent[e] = 1
  BY <1>1 DEF Ours, OpOK, Saved, AfterSend
<1>4. CASE Answer(e, "unknown")
  BY <1>1, <1>2, <1>4, AnswerKeeps
<1>5. CASE Goto(e, "watch")
  <2>1. "watch" \in OpPlaces /\ "watch" \notin Unsent(e) /\ "watch" # "base"
    BY DEF OpPlaces, Saved, Unsent, Launching
  <2> QED  BY <1>1, <1>2, <1>3, <1>5, <2>1, GotoKeeps
<1> QED  BY <1>1, <1>4, <1>5, Order DEF SaveThread, Proceed, Unknown

\* What the thread shows before the send does not hold the turn that is still to be sent.
LEMMA BaselineKeeps ==
    ASSUME Typed, NEW e \in Executions, Ours(e), Baseline(e), UNCHANGED <<cap, todo>>
    PROVE  Kept(e)
<1>1. UNCHANGED <<Records, cap, todo>> /\ op[e].pc = "base" /\ ToldTypes' /\ SetTypes'
  BY DEF Baseline, Records, recordVars, providerVars, At, Typed, ToldTypes, SetTypes
<1>2. e # Initial /\ exec[e].status # "none" /\ sent[e] = 0
  BY <1>1 DEF Ours, OpOK, Saved, Unsent
<1>3. e \notin Visible /\ Visible \subseteq Turns
  BY <1>2 DEF Ours, SentOK, Visible
<1>4. CASE op' = [op EXCEPT ![e].pc = "fail"]
  <2>2. /\ OpTypes' /\ op'[e].pc = "fail" /\ op'[e].seen = op[e].seen
        /\ \A f \in Executions \ {e} : op'[f] = op[f]
    BY <1>4 DEF Typed, OpTypes, OpPlaces
  <2>3. OpOK(e)'
    BY <2>2 DEF Ours, OpOK, Saved, Launching, Unsent, AfterSend
  <2> QED  BY <1>1, <2>2, <2>3, OpKeeps
<1>5. CASE op' = [op EXCEPT ![e].seen = Visible, ![e].pc = Following(e, "base")]
  <2>1. op' = [op EXCEPT ![e].seen = Visible, ![e].pc = "bind"]
    BY <1>2, <1>5, Order
  <2>2. /\ OpTypes' /\ op'[e].pc = "bind" /\ op'[e].seen = Visible
        /\ \A f \in Executions \ {e} : op'[f] = op[f]
    BY <1>3, <2>1 DEF Typed, OpTypes, OpPlaces, Saved
  <2>3. OpOK(e)'
    BY <1>1, <1>2, <1>3, <2>2 DEF Records, OpOK, Saved, Launching, Unsent, AfterSend
  <2> QED  BY <1>1, <2>2, <2>3, OpKeeps
<1> QED  BY <1>4, <1>5 DEF Baseline

\* A step that only moves the start operation and the execution record.
LEMMA ExecKeeps ==
    ASSUME Typed, NEW e \in Executions, Ours(e),
           UNCHANGED <<events, turn, sent, watch, job, cap, todo>>,
           SetTypes', ToldTypes', OpTypes', ExecTypes', OpOK(e)',
           op[e].pc = "idle" => op'[e].pc = "idle",
           exec[e].status # "none" => exec'[e].status # "none",
           exec'[e].status = "passed" => exec[e].status = "passed" \/ turn[e] = "completed",
           \A f \in Executions \ {e} : op'[f] = op[f] /\ exec'[f] = exec[f]
    PROVE  Kept(e)
<1>1. Typed'
  BY DEF Typed, EventTypes, TurnTypes, SentTypes, WatchTypes, JobTypes, CapTypes
<1>2. SentOK(e)' /\ WatchOK(e)' /\ EventsOK(e)' /\ JobOK(e)' /\ PassedOK(e)'
  BY DEF Ours, SentOK, WatchOK, EventsOK, JobOK, PassedOK
<1>3. \A f \in Executions \ {e} : SameFor(f)
  BY DEF SameFor
<1> QED  BY <1>1, <1>2, <1>3 DEF Kept, Ours

\* A step of the start that takes it to a place nothing is promised about.
LEMMA PlainOp ==
    ASSUME NEW e \in Executions, Ours(e), op'[e].seen = op[e].seen,
           op'[e].pc \in {"idle", "desktop", "session", "exec", "server", "sSession",
                          "sExec", "fail", "failed", "lost"}
    PROVE  OpOK(e)'
<1>1. /\ op'[e].pc \notin Unsent(e) /\ op'[e].pc \notin Saved \cup Launching
      /\ op'[e].pc \notin AfterSend(e) /\ op'[e].pc # "base"
  BY DEF Unsent, Saved, Launching, AfterSend
<1>2. e \notin op'[e].seen
  BY DEF Ours, OpOK
<1> QED  BY <1>1, <1>2 DEF OpOK, Unsent, AfterSend

LEMMA SaveExecutionKeeps ==
    ASSUME Typed, NEW e \in Executions, Ours(e), SaveExecution(e), UNCHANGED <<cap, todo>>
    PROVE  Kept(e)
<1>1. /\ UNCHANGED <<events, turn, sent, watch, job, cap, todo>>
      /\ op[e].pc = "exec" /\ exec[e].status = "none" /\ ToldTypes' /\ SetTypes'
  BY DEF SaveExecution, providerVars, At, Typed, ToldTypes, SetTypes
<1>2. sent[e] = 0
  BY <1>1 DEF Ours, SentOK
<1>3. CASE Answer(e, "rejected") /\ UNCHANGED exec
  BY <1>1, <1>3, AnswerKeeps DEF Records
<1>4. CASE Create(e, "desktop") /\ Proceed(e)
  <2>1. /\ ExecTypes' /\ exec'[e].status = "running"
        /\ \A f \in Executions \ {e} : exec'[f] = exec[f]
    BY <1>4, CreateMoves DEF Typed
  <2>2. PICK pc \in {"base", "send"} : Goto(e, pc) /\ (e = Initial => pc # "base")
    BY <1>1, <1>4, Order DEF Proceed
  <2>3. pc \in OpPlaces
    BY DEF OpPlaces, Saved
  <2>4. /\ OpTypes' /\ op'[e].pc = pc /\ op'[e].seen = op[e].seen
        /\ \A f \in Executions \ {e} : op'[f] = op[f]
    BY <2>2, <2>3, GotoMoves DEF Typed
  <2>5. pc \notin AfterSend(e)
    BY DEF AfterSend
  <2>6. e \notin op[e].seen
    BY DEF Ours, OpOK
  <2>7. OpOK(e)'
    BY <1>1, <1>2, <2>1, <2>2, <2>4, <2>5, <2>6 DEF OpOK, AfterSend
  <2> QED  BY <1>1, <2>1, <2>4, <2>7, ExecKeeps
<1> QED  BY <1>3, <1>4 DEF SaveExecution

LEMMA FailLaunchKeeps ==
    ASSUME Typed, NEW e \in Executions, Ours(e), FailLaunch(e), UNCHANGED <<cap, todo>>
    PROVE  Kept(e)
<1>1. /\ UNCHANGED <<events, turn, sent, watch, job, cap, todo>>
      /\ op[e].pc = "fail" /\ ToldTypes' /\ SetTypes'
  BY DEF FailLaunch, providerVars, At, Typed, ToldTypes, SetTypes
<1>2. CASE Answer(e, "rejected") /\ UNCHANGED exec
  BY <1>1, <1>2, AnswerKeeps DEF Records
<1>3. CASE Goto(e, "failed") /\ exec' = IF Running(e) THEN Settled(e, "failed") ELSE exec
  <2>1. /\ OpTypes' /\ op'[e].pc = "failed" /\ op'[e].seen = op[e].seen
        /\ \A f \in Executions \ {e} : op'[f] = op[f]
    BY <1>3, GotoMoves DEF Typed, OpPlaces
  <2>2. OpOK(e)'
    BY <2>1, PlainOp
  <2>3. CASE Running(e) /\ exec' = Settled(e, "failed")
    <3>1. /\ ExecTypes' /\ exec'[e].status = "failed"
          /\ \A f \in Executions \ {e} : exec'[f] = exec[f]
      BY <2>3, SettledMoves DEF Typed, Ended
    <3> QED  BY <1>1, <2>1, <2>2, <3>1, ExecKeeps
  <2>4. CASE exec' = exec
    <3>1. ExecTypes'
      BY <2>4 DEF Typed, ExecTypes
    <3> QED  BY <1>1, <2>1, <2>2, <2>4, <3>1, ExecKeeps
  <2> QED  BY <1>3, <2>3, <2>4
<1> QED  BY <1>2, <1>3 DEF FailLaunch

\* A step that dispatches, for which nothing was dispatched before.
LEMMA DispatchKeeps ==
    ASSUME Typed, NEW e \in Executions, Ours(e), Dispatched(e), sent[e] = 0,
           exec'[e].status \in {"running", "terminated", exec[e].status},
           exec'[e].status # "none", watch'[e].pc \in {watch[e].pc, "stream"},
           watch'[e].pin = watch[e].pin, watch'[e].seen = watch[e].seen,
           UNCHANGED <<events, job, cap, todo>>,
           SetTypes', ToldTypes', OpTypes', ExecTypes', WatchTypes', OpOK(e)',
           op[e].pc = "idle" => op'[e].pc = "idle",
           \A f \in Executions \ {e} :
                op'[f] = op[f] /\ exec'[f] = exec[f] /\ watch'[f] = watch[f]
    PROVE  Kept(e)
<1>1. /\ TurnTypes' /\ SentTypes' /\ turn'[e] = "running" /\ sent'[e] = 1
      /\ \A f \in Executions \ {e} : turn'[f] = turn[f] /\ sent'[f] = sent[f]
  BY DispatchMoves DEF Typed
<1>2. Typed'
  BY <1>1 DEF Typed, EventTypes, JobTypes, CapTypes
<1>3. turn[e] = "absent"
  BY DEF Ours, SentOK
<1>4. SentOK(e)' /\ EventsOK(e)'
  BY <1>1 DEF SentOK, Ours, EventsOK
<1>5. WatchOK(e)'
  BY <1>1, <1>3 DEF Ours, WatchOK
<1>6. JobOK(e)'
  BY <1>1, <1>3 DEF Ours, JobOK
<1>7. PassedOK(e)'
  BY <1>1, <1>3 DEF Ours, PassedOK
<1>8. \A f \in Executions \ {e} : SameFor(f)
  BY <1>1 DEF SameFor
<1> QED  BY <1>2, <1>4, <1>5, <1>6, <1>7, <1>8 DEF Kept, Ours

LEMMA SendKeeps ==
    ASSUME Typed, NEW e \in Executions, Ours(e), Send(e), UNCHANGED <<cap, todo>>
    PROVE  Kept(e)
<1>1. /\ UNCHANGED <<exec, events, watch, job, cap, todo>>
      /\ op[e].pc = "send" /\ ToldTypes' /\ SetTypes'
  BY DEF Send, recordVars, At, Typed, ToldTypes, SetTypes
<1>2. sent[e] = 0 /\ exec[e].status # "none" /\ e \notin op[e].seen
  BY <1>1 DEF Ours, OpOK, Saved, Unsent
<1>3. CASE Goto(e, "fail") /\ UNCHANGED providerVars
  BY <1>1, <1>3, PlainKeeps DEF Records, providerVars
<1>4. CASE Answer(e, "unknown") /\ UNCHANGED providerVars
  BY <1>1, <1>4, AnswerKeeps DEF Records, providerVars
<1>5. ExecTypes' /\ WatchTypes'
  BY <1>1 DEF Typed, ExecTypes, WatchTypes
<1>6. CASE Answer(e, "unknown") /\ Dispatched(e)
  <2>1. /\ OpTypes' /\ OpOK(e)' /\ op'[e].pc = "idle"
        /\ \A f \in Executions \ {e} : op'[f] = op[f]
    BY <1>6, AnswerMoves, AnswerIsIdle DEF Typed
  <2> QED  BY <1>1, <1>2, <1>5, <1>6, <2>1, DispatchKeeps
<1>7. CASE Proceed(e) /\ Dispatched(e)
  <2>1. PICK pc \in {"bind", "thread"} : Goto(e, pc) /\ pc \in AfterSend(e)
    BY <1>1, <1>7, Order DEF Proceed, AfterSend
  <2>2. pc \in OpPlaces /\ pc \notin Unsent(e) /\ pc # "base"
    BY <2>1 DEF OpPlaces, Saved, Unsent, Launching, AfterSend
  <2>3. /\ OpTypes' /\ op'[e].pc = pc /\ op'[e].seen = op[e].seen
        /\ \A f \in Executions \ {e} : op'[f] = op[f]
    BY <2>1, <2>2, GotoMoves DEF Typed
  <2>4. sent'[e] = 1
    BY <1>2, <1>7, DispatchMoves DEF Typed
  <2>5. OpOK(e)'
    BY <1>1, <1>2, <2>2, <2>3, <2>4 DEF OpOK, Unsent
  <2> QED  BY <1>1, <1>2, <1>5, <1>7, <2>3, <2>5, DispatchKeeps
<1> QED  BY <1>3, <1>4, <1>6, <1>7 DEF Send, Unknown

\* A step that moves the observer, and answers the start or leaves it alone.
LEMMA WatchKeeps ==
    ASSUME Typed, NEW e \in Executions, Ours(e), UNCHANGED <<exec, turn, sent, job, cap, todo>>,
           SetTypes', ToldTypes', OpTypes', OpOK(e)', WatchTypes', WatchOK(e)',
           EventTypes', EventsOK(e)',
           op[e].pc = "idle" => op'[e].pc = "idle",
           \A f \in Executions \ {e} :
                op'[f] = op[f] /\ watch'[f] = watch[f] /\ events'[f] = events[f]
    PROVE  Kept(e)
<1>1. Typed'
  BY DEF Typed, ExecTypes, TurnTypes, SentTypes, JobTypes, CapTypes
<1>2. SentOK(e)' /\ JobOK(e)' /\ PassedOK(e)'
  BY DEF Ours, SentOK, JobOK, PassedOK
<1>3. \A f \in Executions \ {e} : SameFor(f)
  BY DEF SameFor
<1> QED  BY <1>1, <1>2, <1>3 DEF Kept, Ours

LEMMA ObserveKeeps ==
    ASSUME Typed, NEW e \in Executions, Ours(e), Observe(e), UNCHANGED <<cap, todo>>
    PROVE  Kept(e)
<1>1. /\ UNCHANGED <<exec, events, turn, sent, job, cap, todo>> /\ op[e].pc = "watch"
      /\ ToldTypes' /\ SetTypes' /\ EventTypes'
  BY DEF Observe, recordVars, providerVars, At, Typed, ToldTypes, SetTypes, EventTypes
<1>2. sent[e] = 1 /\ e \notin op[e].seen
  BY <1>1 DEF Ours, OpOK, AfterSend
<1>3. CASE Answer(e, "unknown") /\ UNCHANGED watch
  BY <1>1, <1>3, AnswerKeeps DEF Records
<1>4. CASE /\ Answer(e, "resolved")
           /\ watch' = [watch EXCEPT ![e] = [pc |-> "read", pin |-> NoTurn, seen |-> op[e].seen]]
  <2>1. /\ OpTypes' /\ OpOK(e)' /\ op'[e].pc = "idle"
        /\ \A f \in Executions \ {e} : op'[f] = op[f]
    BY <1>4, AnswerMoves, AnswerIsIdle DEF Typed
  <2>2. PICK w : w = [pc |-> "read", pin |-> NoTurn, seen |-> op[e].seen]
    OBVIOUS
  <2>3. /\ w \in [pc: WatchPlaces, pin: Turns \cup {NoTurn}, seen: SUBSET Turns]
        /\ w.pc = "read" /\ w.pin = NoTurn /\ w.seen = op[e].seen
    BY <2>2 DEF Typed, OpTypes, WatchPlaces
  <2>4. watch' = [watch EXCEPT ![e] = w]
    BY <1>4, <2>2
  <2>5. /\ WatchTypes' /\ watch'[e] = w
        /\ \A f \in Executions \ {e} : watch'[f] = watch[f]
    BY <2>3, <2>4 DEF Typed, WatchTypes
  <2>6. WatchOK(e)'
    BY <1>1, <1>2, <2>3, <2>5 DEF WatchOK
  <2>7. EventsOK(e)'
    BY <1>1 DEF Ours, EventsOK
  <2> QED  BY <1>1, <2>1, <2>5, <2>6, <2>7, WatchKeeps
<1> QED  BY <1>3, <1>4 DEF Observe, Unknown

\* What the observer knows does not change when it is only moved on.
LEMMA WatchPlain ==
    ASSUME NEW e, Ours(e), watch'[e].pin = watch[e].pin, watch'[e].seen = watch[e].seen,
           watch'[e].pc \in {watch[e].pc, "none", "setup", "flag", "fail", "settling", "stream"},
           sent'[e] = sent[e], turn'[e] = turn[e]
    PROVE  WatchOK(e)'
<1>1. WatchOK(e)
  BY DEF Ours
<1> QED  BY <1>1 DEF WatchOK

LEMMA ExistingKeeps ==
    ASSUME Typed, NEW e \in Executions, Ours(e), Existing(e), UNCHANGED <<cap, todo>>
    PROVE  Kept(e)
<1>1. /\ UNCHANGED <<exec, events, turn, sent, job, cap, todo>> /\ op[e].pc = "desktop"
      /\ ToldTypes' /\ SetTypes' /\ EventTypes'
  BY DEF Existing, recordVars, providerVars, toldVars, At, Typed, ToldTypes, SetTypes, EventTypes
<1>2. CASE Answer(e, "rejected") /\ UNCHANGED watch
  BY <1>1, <1>2, AnswerKeeps DEF Records
<1>3. CASE /\ Answer(e, "resolved")
           /\ watch' = [watch EXCEPT ![e].pc = IF @ = "none" THEN "setup" ELSE @]
  <2>1. /\ OpTypes' /\ OpOK(e)' /\ op'[e].pc = "idle"
        /\ \A f \in Executions \ {e} : op'[f] = op[f]
    BY <1>3, AnswerMoves, AnswerIsIdle DEF Typed
  <2>2. PICK pc \in {watch[e].pc, "setup"} : watch' = [watch EXCEPT ![e].pc = pc]
    BY <1>3
  <2>3. pc \in WatchPlaces
    BY DEF Typed, WatchTypes, WatchPlaces
  <2>4. Observing(e, pc)
    BY <2>2 DEF Observing
  <2>5. /\ WatchTypes' /\ watch'[e].pc = pc
        /\ watch'[e].pin = watch[e].pin /\ watch'[e].seen = watch[e].seen
        /\ \A f \in Executions \ {e} : watch'[f] = watch[f]
    BY <2>3, <2>4, ObservingMoves DEF Typed
  <2>6. WatchOK(e)'
    BY <1>1, <2>5, WatchPlain
  <2>7. EventsOK(e)'
    BY <1>1 DEF Ours, EventsOK
  <2> QED  BY <1>1, <2>1, <2>5, <2>6, <2>7, WatchKeeps
<1> QED  BY <1>2, <1>3 DEF Existing

LEMMA StartKeeps ==
    ASSUME Typed, NEW e \in Executions, Ours(e), StartStep(e) \/ LaunchStep(e),
           UNCHANGED <<cap, todo>>
    PROVE  Kept(e)
  BY ExistingKeeps, ConnectKeeps, SessionKeeps, SaveExecutionKeeps, ExistsKeeps, BaselineKeeps,
     BindKeeps, SendKeeps, ThreadKeeps, ObserveKeeps, FailLaunchKeeps, AnnounceKeeps
  DEF StartStep, LaunchStep

-----------------------------------------------------------------------------
(* The start operation on the app-server *)

LEMMA ServerExistingKeeps ==
    ASSUME Typed, NEW e \in Executions, Ours(e), ServerExisting(e), UNCHANGED <<cap, todo>>
    PROVE  Kept(e)
<1>1. /\ UNCHANGED <<events, turn, sent, watch, job, cap, todo>>
      /\ op[e].pc = "server" /\ ToldTypes' /\ SetTypes'
  BY DEF ServerExisting, providerVars, toldVars, At, Typed, ToldTypes, SetTypes
<1>2. CASE UNCHANGED exec /\ \E answer : Answer(e, answer)
  BY <1>1, <1>2, AnswerKeeps DEF Records
<1>3. CASE exec' = Settled(e, "failed") /\ Goto(e, "failed")
  <2>1. /\ OpTypes' /\ op'[e].pc = "failed" /\ op'[e].seen = op[e].seen
        /\ \A f \in Executions \ {e} : op'[f] = op[f]
    BY <1>3, GotoMoves DEF Typed, OpPlaces
  <2>2. OpOK(e)'
    BY <2>1, PlainOp
  <2>3. /\ ExecTypes' /\ exec'[e].status = "failed"
        /\ \A f \in Executions \ {e} : exec'[f] = exec[f]
    BY <1>3, SettledMoves DEF Typed, Ended
  <2> QED  BY <1>1, <2>1, <2>2, <2>3, ExecKeeps
<1> QED  BY <1>2, <1>3 DEF ServerExisting

LEMMA ServerAcceptsKeeps ==
    ASSUME Typed, NEW e \in Executions, Ours(e), ServerAccepts(e), UNCHANGED <<cap, todo>>
    PROVE  Kept(e)
<1>1. /\ UNCHANGED <<Records, cap, todo>> /\ op[e].pc = "server" /\ ToldTypes' /\ SetTypes'
  BY DEF ServerAccepts, Records, recordVars, providerVars, At, Typed, ToldTypes, SetTypes
<1>2. (\E answer : Answer(e, answer)) \/ Goto(e, "sSession")
  BY DEF ServerAccepts
<1> QED  BY <1>1, <1>2, AnswerKeeps, PlainKeeps

LEMMA ServerSessionKeeps ==
    ASSUME Typed, NEW e \in Executions, Ours(e), ServerSession(e), UNCHANGED <<cap, todo>>
    PROVE  Kept(e)
<1>1. /\ UNCHANGED <<Records, cap, todo>> /\ op[e].pc = "sSession" /\ ToldTypes' /\ SetTypes'
  BY DEF ServerSession, Records, providerVars, At, Typed, ToldTypes, SetTypes
<1>2. Answer(e, "rejected") \/ Goto(e, "sExec")
  BY DEF ServerSession
<1> QED  BY <1>1, <1>2, AnswerKeeps, PlainKeeps

\* Going on before the send, when the execution was saved and nothing was sent.
LEMMA UnsentOp ==
    ASSUME NEW e \in Executions, Ours(e), op'[e].seen = op[e].seen,
           op'[e].pc \in Launching, exec'[e].status # "none", sent[e] = 0, sent' = sent
    PROVE  OpOK(e)'
<1>1. op'[e].pc \notin AfterSend(e) /\ op'[e].pc # "base"
  BY DEF AfterSend, Launching
<1>2. e \notin op'[e].seen
  BY DEF Ours, OpOK
<1> QED  BY <1>1, <1>2 DEF OpOK, AfterSend

LEMMA ServerSavesKeeps ==
    ASSUME Typed, NEW e \in Executions, Ours(e), ServerSaves(e), UNCHANGED <<cap, todo>>
    PROVE  Kept(e)
<1>1. /\ UNCHANGED <<events, turn, sent, watch, job, cap, todo>>
      /\ op[e].pc = "sExec" /\ ToldTypes' /\ SetTypes'
  BY DEF ServerSaves, providerVars, At, Typed, ToldTypes, SetTypes
<1>2. CASE Answer(e, "rejected") /\ UNCHANGED exec
  BY <1>1, <1>2, AnswerKeeps DEF Records
<1>3. CASE exec[e].status = "none" /\ Create(e, "server") /\ Goto(e, "sConnect")
  <2>1. /\ ExecTypes' /\ exec'[e].status = "running"
        /\ \A f \in Executions \ {e} : exec'[f] = exec[f]
    BY <1>3, CreateMoves DEF Typed
  <2>2. /\ OpTypes' /\ op'[e].pc = "sConnect" /\ op'[e].seen = op[e].seen
        /\ \A f \in Executions \ {e} : op'[f] = op[f]
    BY <1>3, GotoMoves DEF Typed, OpPlaces, Launching
  <2>3. sent[e] = 0
    BY <1>3 DEF Ours, SentOK
  <2>4. OpOK(e)'
    BY <1>1, <2>1, <2>2, <2>3, UnsentOp DEF Launching
  <2> QED  BY <1>1, <2>1, <2>2, <2>4, ExecKeeps
<1> QED  BY <1>2, <1>3 DEF ServerSaves

LEMMA ServerConnectsKeeps ==
    ASSUME Typed, NEW e \in Executions, Ours(e), ServerConnects(e), UNCHANGED <<cap, todo>>
    PROVE  Kept(e)
<1>1. /\ UNCHANGED <<events, turn, sent, watch, job, cap, todo>>
      /\ op[e].pc = "sConnect" /\ ToldTypes' /\ SetTypes'
  BY DEF ServerConnects, providerVars, At, Typed, ToldTypes, SetTypes
<1>2. CASE Goto(e, "fail") /\ UNCHANGED exec
  BY <1>1, <1>2, PlainKeeps DEF Records
<1>3. CASE exec' = [exec EXCEPT ![e].pid = TRUE] /\ Goto(e, "sThread")
  <2>1. /\ ExecTypes' /\ exec'[e].status = exec[e].status
        /\ \A f \in Executions \ {e} : exec'[f] = exec[f]
    BY <1>3 DEF Typed, ExecTypes
  <2>2. /\ OpTypes' /\ op'[e].pc = "sThread" /\ op'[e].seen = op[e].seen
        /\ \A f \in Executions \ {e} : op'[f] = op[f]
    BY <1>3, GotoMoves DEF Typed, OpPlaces, Launching
  <2>3. sent[e] = 0 /\ exec[e].status # "none"
    BY <1>1 DEF Ours, OpOK, Unsent, Launching
  <2>4. OpOK(e)'
    BY <1>1, <2>1, <2>2, <2>3, UnsentOp DEF Launching
  <2> QED  BY <1>1, <2>1, <2>2, <2>4, ExecKeeps
<1> QED  BY <1>2, <1>3 DEF ServerConnects

LEMMA ServerStartsThreadKeeps ==
    ASSUME Typed, NEW e \in Executions, Ours(e), ServerStartsThread(e), UNCHANGED <<cap, todo>>
    PROVE  Kept(e)
<1>1. /\ UNCHANGED <<Records, cap, todo>> /\ op[e].pc = "sThread" /\ ToldTypes' /\ SetTypes'
  BY DEF ServerStartsThread, Records, providerVars, At, Typed, ToldTypes, SetTypes
<1>2. CASE Goto(e, "fail")
  BY <1>1, <1>2, PlainKeeps
<1>3. CASE Goto(e, "sTurn")
  <2>1. sent[e] = 0 /\ exec[e].status # "none"
    BY <1>1 DEF Ours, OpOK, Unsent, Launching
  <2>2. "sTurn" \in OpPlaces /\ "sTurn" \notin AfterSend(e) /\ "sTurn" # "base"
    BY DEF OpPlaces, Launching, AfterSend
  <2> QED  BY <1>1, <1>3, <2>1, <2>2, GotoKeeps
<1> QED  BY <1>2, <1>3 DEF ServerStartsThread

LEMMA ServerSendsKeeps ==
    ASSUME Typed, NEW e \in Executions, Ours(e), ServerSends(e), UNCHANGED <<cap, todo>>
    PROVE  Kept(e)
<1>1. /\ UNCHANGED <<events, job, cap, todo>> /\ op[e].pc = "sTurn" /\ ToldTypes' /\ SetTypes'
  BY DEF ServerSends, At, Typed, ToldTypes, SetTypes
<1>2. sent[e] = 0 /\ exec[e].status # "none"
  BY <1>1 DEF Ours, OpOK, Unsent, Launching
<1>3. CASE Goto(e, "fail") /\ UNCHANGED <<providerVars, exec, watch>>
  BY <1>1, <1>3, PlainKeeps DEF Records, providerVars
<1>4. CASE /\ Dispatched(e) /\ Answer(e, "resolved") /\ UNCHANGED exec
           /\ watch' = [watch EXCEPT ![e].pc = "stream"]
  <2>1. /\ OpTypes' /\ OpOK(e)' /\ op'[e].pc = "idle"
        /\ \A f \in Executions \ {e} : op'[f] = op[f]
    BY <1>4, AnswerMoves, AnswerIsIdle DEF Typed
  <2>2. /\ WatchTypes' /\ watch'[e].pc = "stream"
        /\ watch'[e].pin = watch[e].pin /\ watch'[e].seen = watch[e].seen
        /\ \A f \in Executions \ {e} : watch'[f] = watch[f]
    BY <1>4, ObservingMoves DEF Typed, Observing, WatchPlaces
  <2>3. ExecTypes'
    BY <1>4 DEF Typed, ExecTypes
  <2> QED  BY <1>1, <1>2, <1>4, <2>1, <2>2, <2>3, DispatchKeeps
<1>5. CASE /\ Goto(e, "lost") /\ exec' = Settled(e, "terminated") /\ UNCHANGED watch
           /\ Dispatched(e) \/ UNCHANGED providerVars
  <2>1. /\ OpTypes' /\ op'[e].pc = "lost" /\ op'[e].seen = op[e].seen
        /\ \A f \in Executions \ {e} : op'[f] = op[f]
    BY <1>5, GotoMoves DEF Typed, OpPlaces
  <2>2. OpOK(e)'
    BY <2>1, PlainOp
  <2>3. /\ ExecTypes' /\ exec'[e].status = "terminated"
        /\ \A f \in Executions \ {e} : exec'[f] = exec[f]
    BY <1>5, SettledMoves DEF Typed, Ended
  <2>4. WatchTypes'
    BY <1>5 DEF Typed, WatchTypes
  <2>5. CASE Dispatched(e)
    BY <1>1, <1>2, <1>5, <2>1, <2>2, <2>3, <2>4, <2>5, DispatchKeeps
  <2>6. CASE UNCHANGED providerVars
    BY <1>1, <1>5, <2>1, <2>2, <2>3, <2>6, ExecKeeps DEF providerVars
  <2> QED  BY <1>5, <2>5, <2>6
<1> QED  BY <1>3, <1>4, <1>5 DEF ServerSends

LEMMA ServerStartKeeps ==
    ASSUME Typed, NEW e \in Executions, Ours(e), ServerStartStep(e), UNCHANGED <<cap, todo>>
    PROVE  Kept(e)
  BY ServerExistingKeeps, ServerAcceptsKeeps, ServerSessionKeeps, ServerSavesKeeps,
     ServerConnectsKeeps, ServerStartsThreadKeeps, ServerSendsKeeps DEF ServerStartStep

-----------------------------------------------------------------------------
(* The observer, the stream and the job that settles an execution *)

\* The turn that was saved is the turn of the execution.
LEMMA SavedIsOurs ==
    ASSUME Typed, NEW e \in Executions, Ours(e), SavedTurn(e) # NoTurn
    PROVE  SavedTurn(e) = e /\ sent[e] = 1
<1>1. watch[e].pin \in {NoTurn, e} /\ (watch[e].pin = e => sent[e] = 1)
  BY DEF Ours, WatchOK
<1>2. CASE watch[e].pin # NoTurn
  BY <1>1, <1>2 DEF SavedTurn
<1>3. CASE watch[e].pin = NoTurn
  <2>1. Cardinality(events[e].started) = 1
    BY <1>3 DEF SavedTurn
  <2>2. events[e].started # {}
    BY <2>1, FS_EmptySet
  <2>3. events[e].started = {e} /\ sent[e] = 1
    BY <2>2 DEF Ours, EventsOK
  <2>4. (CHOOSE t \in {e} : TRUE) = e
    OBVIOUS
  <2> QED  BY <1>3, <2>1, <2>3, <2>4 DEF SavedTurn
<1> QED  BY <1>2, <1>3

\* The turn the observer finds alone is the turn of its execution.
LEMMA FoundIsOurs ==
    ASSUME Typed, NEW e \in Executions, Ours(e), watch[e].pc = "read",
           NEW t, Candidates(e) = {t}
    PROVE  t = e /\ sent[e] = 1 /\ turn[e] \in {"running", "completed", "failed"}
<1>1. /\ watch[e].pin \in {NoTurn, e} /\ sent[e] = 1 /\ e \notin watch[e].seen
  BY DEF Ours, WatchOK
<1>2. turn[e] \in {"running", "completed", "failed"} /\ e \in Turns
  BY <1>1 DEF Ours, SentOK, Typed, TurnTypes, Turns
<1>3. CASE watch[e].pin # NoTurn
  BY <1>1, <1>2, <1>3 DEF Candidates
<1>4. CASE watch[e].pin = NoTurn
  <2>1. e \in Visible
    BY <1>2 DEF Visible
  <2> QED  BY <1>1, <1>2, <1>4, <2>1 DEF Candidates
<1> QED  BY <1>3, <1>4

\* A step that only moves the observer.
LEMMA ObserverKeeps ==
    ASSUME Typed, NEW e \in Executions, Ours(e),
           UNCHANGED <<exec, turn, sent, op, job, events, cap, todo>>,
           SetTypes', ToldTypes', WatchTypes', WatchOK(e)',
           \A f \in Executions \ {e} : watch'[f] = watch[f]
    PROVE  Kept(e)
<1>1. OpTypes' /\ EventTypes'
  BY DEF Typed, OpTypes, EventTypes
<1>2. OpOK(e)' /\ EventsOK(e)'
  BY DEF Ours, OpOK, EventsOK, Unsent, AfterSend
<1> QED  BY <1>1, <1>2, WatchKeeps

LEMMA ObservingKeeps ==
    ASSUME Typed, NEW e \in Executions, Ours(e),
           UNCHANGED <<exec, turn, sent, op, job, events, cap, todo>>,
           SetTypes', ToldTypes',
           NEW pc \in {watch[e].pc, "none", "setup", "flag", "fail", "settling", "stream"},
           Observing(e, pc)
    PROVE  Kept(e)
<1>1. pc \in WatchPlaces
  BY DEF Typed, WatchTypes, WatchPlaces
<1>2. /\ WatchTypes' /\ watch'[e].pc = pc
      /\ watch'[e].pin = watch[e].pin /\ watch'[e].seen = watch[e].seen
      /\ \A f \in Executions \ {e} : watch'[f] = watch[f]
  BY <1>1, ObservingMoves DEF Typed
<1>3. WatchOK(e)'
  BY <1>2, WatchPlain
<1> QED  BY <1>2, <1>3, ObserverKeeps

LEMMA ResumeKeeps ==
    ASSUME Typed, NEW e \in Executions, Ours(e), Resume(e), UNCHANGED <<cap, todo>>
    PROVE  Kept(e)
<1>1. /\ UNCHANGED <<exec, turn, sent, op, job, events, cap, todo>> /\ ToldTypes' /\ SetTypes'
  BY DEF Resume, recordVars, providerVars, Typed, ToldTypes, SetTypes
<1>2. CASE \E pc \in {"flag", "none"} : watch' = [watch EXCEPT ![e].pc = pc]
  BY <1>1, <1>2, ObservingKeeps DEF Observing
<1>3. CASE /\ Restorable(e)
           /\ watch' = [watch EXCEPT ![e] = [pc |-> "read", pin |-> SavedTurn(e), seen |-> {}]]
  <2>1. SavedTurn(e) = e /\ sent[e] = 1
    BY <1>3, SavedIsOurs DEF Restorable
  <2>2. PICK w : w = [pc |-> "read", pin |-> e, seen |-> {}]
    OBVIOUS
  <2>3. /\ w \in [pc: WatchPlaces, pin: Turns \cup {NoTurn}, seen: SUBSET Turns]
        /\ w.pc = "read" /\ w.pin = e /\ w.seen = {}
    BY <2>2 DEF Turns, WatchPlaces
  <2>4. watch' = [watch EXCEPT ![e] = w]
    BY <1>3, <2>1, <2>2
  <2>5. /\ WatchTypes' /\ watch'[e] = w /\ \A f \in Executions \ {e} : watch'[f] = watch[f]
    BY <2>3, <2>4 DEF Typed, WatchTypes
  <2>6. WatchOK(e)'
    BY <1>1, <2>1, <2>3, <2>5 DEF WatchOK
  <2> QED  BY <1>1, <2>5, <2>6, ObserverKeeps
<1>4. watch[e].pc = "setup"
  BY DEF Resume
<1> QED  BY <1>2, <1>3 DEF Resume, Observing

LEMMA PinnedMoves ==
    ASSUME EventTypes, NEW e \in Executions, NEW t \in Turns, events' = Pinned(e, t)
    PROVE  /\ EventTypes' /\ events'[e].started = events[e].started \cup {t}
           /\ \A f \in Executions \ {e} : events'[f] = events[f]
  BY DEF Pinned, EventTypes

LEMMA ReadKeeps ==
    ASSUME Typed, NEW e \in Executions, Ours(e), Read(e), UNCHANGED <<cap, todo>>
    PROVE  Kept(e)
<1>1. /\ UNCHANGED <<exec, turn, sent, op, job, cap, todo>> /\ ToldTypes' /\ SetTypes'
  BY DEF Read, providerVars, toldVars, Typed, ToldTypes, SetTypes
<1>2. PICK t \in Candidates(e) :
        /\ Candidates(e) = {t}
        /\ watch' = [watch EXCEPT ![e].pin = t,
                ![e].pc = CASE turn[t] = "running" -> "read"
                            [] turn[t] = "completed" -> "complete"
                            [] turn[t] = "failed" -> "fail"]
        /\ events' = IF turn[t] = "completed" THEN events ELSE Pinned(e, t)
  BY DEF Read
<1>3. watch[e].pc = "read"
  BY DEF Read
<1>4. /\ t = e /\ sent[e] = 1 /\ turn[e] \in {"running", "completed", "failed"} /\ e \in Turns
  BY <1>2, <1>3, FoundIsOurs DEF Turns
<1>5. PICK pc \in {"read", "complete", "fail"} :
        /\ watch' = [watch EXCEPT ![e].pin = e, ![e].pc = pc]
        /\ pc = "complete" => turn[e] = "completed"
  <2>1. CASE turn[e] = "running"
    BY <1>2, <1>4, <2>1
  <2>2. CASE turn[e] = "completed"
    BY <1>2, <1>4, <2>2
  <2>3. CASE turn[e] = "failed"
    BY <1>2, <1>4, <2>3
  <2> QED  BY <1>4, <2>1, <2>2, <2>3
<1>6. /\ WatchTypes' /\ watch'[e].pin = e /\ watch'[e].pc = pc /\ watch'[e].seen = watch[e].seen
      /\ \A f \in Executions \ {e} : watch'[f] = watch[f]
  BY <1>4, <1>5 DEF Typed, WatchTypes, WatchPlaces
<1>7. WatchOK(e)'
  BY <1>1, <1>4, <1>5, <1>6 DEF Ours, WatchOK
<1>8. /\ EventTypes' /\ \A f \in Executions \ {e} : events'[f] = events[f]
      /\ events'[e].started \in {events[e].started, events[e].started \cup {e}}
  <2>1. CASE events' = events
    BY <2>1 DEF Typed, EventTypes
  <2>2. CASE events' = Pinned(e, e)
    BY <1>4, <2>2, PinnedMoves DEF Typed
  <2> QED  BY <1>2, <1>4, <2>1, <2>2
<1>9. EventsOK(e)'
  BY <1>1, <1>4, <1>8 DEF Ours, EventsOK
<1>10. OpTypes' /\ OpOK(e)'
  BY <1>1 DEF Typed, OpTypes, Ours, OpOK, Unsent, AfterSend
<1> QED  BY <1>1, <1>6, <1>7, <1>8, <1>9, <1>10, WatchKeeps

\* A step that moves neither the start operation nor the turns.
LEMMA SettlingKeeps ==
    ASSUME Typed, NEW e \in Executions, Ours(e), UNCHANGED <<turn, sent, op, cap, todo>>,
           SetTypes', ToldTypes', ExecTypes', EventTypes', WatchTypes', JobTypes',
           EventsOK(e)', WatchOK(e)', JobOK(e)',
           exec[e].status # "none" => exec'[e].status # "none",
           exec'[e].status = "passed" => exec[e].status = "passed" \/ turn[e] = "completed",
           \A f \in Executions \ {e} :
                /\ exec'[f] = exec[f] /\ events'[f] = events[f]
                /\ watch'[f] = watch[f] /\ job'[f] = job[f]
    PROVE  Kept(e)
<1>1. Typed'
  BY DEF Typed, TurnTypes, SentTypes, OpTypes, CapTypes
<1>2. SentOK(e)' /\ OpOK(e)' /\ PassedOK(e)'
  BY DEF Ours, SentOK, OpOK, PassedOK, Unsent, AfterSend
<1>3. \A f \in Executions \ {e} : SameFor(f)
  BY DEF SameFor
<1> QED  BY <1>1, <1>2, <1>3 DEF Kept, Ours

\* The records of an execution stay, and what a job may say of it is said again.
LEMMA JobKeeps ==
    ASSUME Typed, NEW e \in Executions, Ours(e),
           UNCHANGED <<exec, events, turn, sent, op, cap, todo>>,
           SetTypes', ToldTypes', WatchTypes', JobTypes', WatchOK(e)', JobOK(e)',
           \A f \in Executions \ {e} : watch'[f] = watch[f] /\ job'[f] = job[f]
    PROVE  Kept(e)
<1>1. ExecTypes' /\ EventTypes' /\ EventsOK(e)'
  BY DEF Typed, ExecTypes, EventTypes, Ours, EventsOK
<1> QED  BY <1>1, SettlingKeeps

LEMMA FlagKeeps ==
    ASSUME Typed, NEW e \in Executions, Ours(e), Flag(e), UNCHANGED <<cap, todo>>
    PROVE  Kept(e)
<1>1. /\ UNCHANGED <<events, turn, sent, op, job, cap, todo>> /\ ToldTypes' /\ SetTypes'
  BY DEF Flag, providerVars, Typed, ToldTypes, SetTypes
<1>2. /\ WatchTypes' /\ watch'[e].pc = "none"
      /\ watch'[e].pin = watch[e].pin /\ watch'[e].seen = watch[e].seen
      /\ \A f \in Executions \ {e} : watch'[f] = watch[f]
  BY ObservingMoves DEF Flag, Typed, WatchPlaces
<1>3. WatchOK(e)'
  BY <1>1, <1>2, WatchPlain
<1>4. /\ ExecTypes' /\ exec'[e].status = exec[e].status
      /\ \A f \in Executions \ {e} : exec'[f] = exec[f]
  <2>1. CASE exec' = exec
    BY <2>1 DEF Typed, ExecTypes
  <2>2. CASE exec' = Flagged(e, TRUE)
    BY <2>2, FlaggedMoves DEF Typed
  <2> QED  BY <2>1, <2>2 DEF Flag
<1>5. EventTypes' /\ JobTypes' /\ EventsOK(e)' /\ JobOK(e)'
  BY <1>1 DEF Typed, EventTypes, JobTypes, Ours, EventsOK, JobOK
<1> QED  BY <1>1, <1>2, <1>3, <1>4, <1>5, SettlingKeeps

LEMMA ReadFailsKeeps ==
    ASSUME Typed, NEW e \in Executions, Ours(e), ReadFails(e), UNCHANGED <<cap, todo>>
    PROVE  Kept(e)
<1>1. /\ UNCHANGED <<exec, turn, sent, op, job, events, cap, todo>> /\ ToldTypes' /\ SetTypes'
  BY DEF ReadFails, recordVars, providerVars, Typed, ToldTypes, SetTypes
<1> QED  BY <1>1, ObservingKeeps DEF ReadFails

\* A new job, and what it is about.
LEMMA NewJob ==
    ASSUME JobTypes, NEW e \in Executions, NEW pc \in {"read", "write", "tell"},
           NEW kind \in Kinds, NEW by \in {"watch", "user"}, NEW t \in {NoTurn, e},
           job' = [job EXCEPT ![e] = [pc |-> pc, kind |-> kind, by |-> by, turn |-> t]],
           kind = "complete" /\ pc # "tell" => turn'[e] = "completed"
    PROVE  /\ JobTypes' /\ JobOK(e)' /\ \A f \in Executions \ {e} : job'[f] = job[f]
<1>1. PICK j : j = [pc |-> pc, kind |-> kind, by |-> by, turn |-> t]
  OBVIOUS
<1>2. /\ j \in [pc: {"free", "read", "events", "write", "tell"}, kind: Kinds \cup {"none"},
                by: {"none", "watch", "user"}, turn: Turns \cup {NoTurn}]
      /\ j.pc = pc /\ j.kind = kind /\ j.turn = t
  BY <1>1 DEF Turns
<1>3. job' = [job EXCEPT ![e] = j]
  BY <1>1
<1>4. JobTypes' /\ job'[e] = j /\ \A f \in Executions \ {e} : job'[f] = job[f]
  BY <1>2, <1>3 DEF JobTypes
<1>5. JobOK(e)'
  BY <1>2, <1>4 DEF JobOK
<1> QED  BY <1>4, <1>5

LEMMA QueueKeeps ==
    ASSUME Typed, NEW e \in Executions, Ours(e), Queue(e), UNCHANGED <<cap, todo>>
    PROVE  Kept(e)
<1>1. /\ UNCHANGED <<exec, events, turn, sent, op, cap, todo>> /\ ToldTypes' /\ SetTypes'
  BY DEF Queue, recordVars, providerVars, toldVars, Typed, ToldTypes, SetTypes
<1>2. /\ WatchTypes' /\ watch'[e].pc = "settling"
      /\ watch'[e].pin = watch[e].pin /\ watch'[e].seen = watch[e].seen
      /\ \A f \in Executions \ {e} : watch'[f] = watch[f]
  BY ObservingMoves DEF Queue, Typed, WatchPlaces
<1>3. WatchOK(e)'
  BY <1>1, <1>2, WatchPlain
<1>4. /\ watch[e].pin \in {NoTurn, e}
      /\ watch[e].pc = "complete" => turn[e] = "completed"
  BY DEF Ours, WatchOK
<1>5. /\ watch[e].pc \in {"complete", "fail"} /\ watch[e].pc \in Kinds
      /\ job' = [job EXCEPT ![e] =
            [pc |-> "read", kind |-> watch[e].pc, by |-> "watch", turn |-> watch[e].pin]]
  BY DEF Queue, Kinds
<1>6. PICK kind \in Kinds, t \in {NoTurn, e} : kind = watch[e].pc /\ t = watch[e].pin
  BY <1>4, <1>5
<1>7. /\ JobTypes' /\ JobOK(e)' /\ \A f \in Executions \ {e} : job'[f] = job[f]
  BY <1>1, <1>4, <1>5, <1>6, NewJob DEF Typed
<1> QED  BY <1>1, <1>2, <1>3, <1>7, JobKeeps

LEMMA WatchStepKeeps ==
    ASSUME Typed, NEW e \in Executions, Ours(e), WatchStep(e), UNCHANGED <<cap, todo>>
    PROVE  Kept(e)
  BY ResumeKeeps, ReadKeeps, ReadFailsKeeps, FlagKeeps, QueueKeeps DEF WatchStep

LEMMA JobReadKeeps ==
    ASSUME Typed, NEW e \in Executions, Ours(e), JobRead(e), UNCHANGED <<cap, todo>>
    PROVE  Kept(e)
<1>1. /\ UNCHANGED <<exec, events, turn, sent, op, watch, cap, todo>> /\ ToldTypes' /\ SetTypes'
  BY DEF JobRead, recordVars, providerVars, toldVars, Typed, ToldTypes, SetTypes
<1>2. PICK pc \in {"free", "read", "events", "write", "tell"} :
        /\ Job(e, pc) /\ pc \in {"tell", "events", "write"}
        /\ pc = "events" => job[e].kind = "complete" /\ job[e].turn # NoTurn
  BY DEF JobRead
<1>3. /\ JobTypes' /\ job'[e].pc = pc /\ job'[e].kind = job[e].kind /\ job'[e].turn = job[e].turn
      /\ \A f \in Executions \ {e} : job'[f] = job[f]
  BY <1>2, JobMoves DEF Typed
<1>4. job[e].pc = "read"
  BY DEF JobRead
<1>5. JobOK(e)'
  BY <1>1, <1>2, <1>3, <1>4 DEF Ours, JobOK
<1>6. WatchTypes' /\ WatchOK(e)'
  BY <1>1 DEF Typed, WatchTypes, Ours, WatchOK
<1> QED  BY <1>1, <1>3, <1>5, <1>6, JobKeeps

\* What the end of a job leaves behind.
LEMMA EndJobLeaves ==
    ASSUME Typed, NEW e \in Executions, Ours(e), NEW ok \in BOOLEAN, EndJob(e, ok),
           UNCHANGED <<turn, sent>>
    PROVE  /\ JobTypes' /\ WatchTypes' /\ JobOK(e)' /\ WatchOK(e)'
           /\ \A f \in Executions \ {e} : watch'[f] = watch[f] /\ job'[f] = job[f]
<1>1. /\ JobTypes' /\ WatchTypes' /\ job'[e] = Free
      /\ watch'[e].pc \in {"flag", "none", watch[e].pc}
      /\ watch'[e].pin = watch[e].pin /\ watch'[e].seen = watch[e].seen
      /\ \A f \in Executions \ {e} : watch'[f] = watch[f] /\ job'[f] = job[f]
  BY EndJobMoves DEF Typed
<1>2. JobOK(e)'
  BY <1>1 DEF JobOK, Free
<1>3. WatchOK(e)'
  BY <1>1, WatchPlain
<1> QED  BY <1>1, <1>2, <1>3

LEMMA JobEventsKeeps ==
    ASSUME Typed, NEW e \in Executions, Ours(e), JobEvents(e), UNCHANGED <<cap, todo>>
    PROVE  Kept(e)
<1>1. /\ UNCHANGED <<exec, turn, sent, op, cap, todo>> /\ ToldTypes' /\ SetTypes' /\ ExecTypes'
  BY DEF JobEvents, providerVars, Typed, ToldTypes, SetTypes, ExecTypes
<1>2. job[e].kind = "complete" /\ job[e].turn = e /\ turn[e] = "completed"
  BY DEF JobEvents, Ours, JobOK
<1>3. CASE EndJob(e, FALSE) /\ UNCHANGED events
  BY <1>1, <1>3, EndJobLeaves, JobKeeps
<1>4. CASE /\ Job(e, "write") /\ UNCHANGED watch
           /\ events' = [Pinned(e, job[e].turn) EXCEPT
                            ![e].completed = IF @ < 2 THEN @ + 1 ELSE 2]
  <2>1. /\ JobTypes' /\ job'[e].pc = "write" /\ job'[e].kind = job[e].kind
        /\ job'[e].turn = job[e].turn /\ \A f \in Executions \ {e} : job'[f] = job[f]
    BY <1>4, JobMoves DEF Typed
  <2>2. JobOK(e)'
    BY <1>1, <1>2, <2>1 DEF Ours, JobOK, Kinds
  <2>3. WatchTypes' /\ WatchOK(e)'
    BY <1>1, <1>4 DEF Typed, WatchTypes, Ours, WatchOK
  <2>4. PICK p : p = Pinned(e, e)
    OBVIOUS
  <2>5. /\ p \in [Executions -> [started: SUBSET Turns, completed: 0 .. 2]]
        /\ p[e].started = events[e].started \cup {e}
        /\ \A f \in Executions \ {e} : p[f] = events[f]
    BY <2>4 DEF Pinned, Typed, EventTypes, Turns
  <2>6. PICK n \in 0 .. 2 : n = IF p[e].completed < 2 THEN p[e].completed + 1 ELSE 2
    BY <2>5
  <2>7. events' = [p EXCEPT ![e].completed = n]
    BY <1>2, <1>4, <2>4, <2>6
  <2>8. /\ EventTypes' /\ events'[e].started = events[e].started \cup {e}
        /\ \A f \in Executions \ {e} : events'[f] = events[f]
    BY <2>5, <2>7 DEF EventTypes
  <2>9. EventsOK(e)'
    BY <1>1, <1>2, <2>8 DEF Ours, EventsOK, SentOK
  <2> QED  BY <1>1, <1>4, <2>1, <2>2, <2>3, <2>8, <2>9, SettlingKeeps
<1> QED  BY <1>3, <1>4 DEF JobEvents

LEMMA JobWriteKeeps ==
    ASSUME Typed, NEW e \in Executions, Ours(e), JobWrite(e), UNCHANGED <<cap, todo>>
    PROVE  Kept(e)
<1>1. /\ UNCHANGED <<events, turn, sent, op, cap, todo>> /\ ToldTypes' /\ SetTypes' /\ EventTypes'
  BY DEF JobWrite, providerVars, Typed, ToldTypes, SetTypes, EventTypes
<1>2. /\ job[e].kind \in Kinds /\ job[e].pc = "write"
      /\ job[e].kind = "complete" => turn[e] = "completed"
  BY DEF JobWrite, Ours, JobOK
<1>3. /\ JobTypes' /\ job'[e].pc = "tell" /\ job'[e].kind = job[e].kind
      /\ job'[e].turn = job[e].turn /\ \A f \in Executions \ {e} : job'[f] = job[f]
  BY JobMoves DEF JobWrite, Typed
<1>4. JobOK(e)'
  BY <1>1, <1>2, <1>3 DEF Ours, JobOK
<1>5. /\ WatchTypes' /\ WatchOK(e)' /\ \A f \in Executions \ {e} : watch'[f] = watch[f]
  <2>1. CASE watch' = watch
    BY <1>1, <2>1 DEF Typed, WatchTypes, Ours, WatchOK
  <2>2. CASE watch' = [watch EXCEPT ![e].pc = "none"]
    <3>1. /\ WatchTypes' /\ watch'[e].pc = "none"
          /\ watch'[e].pin = watch[e].pin /\ watch'[e].seen = watch[e].seen
          /\ \A f \in Executions \ {e} : watch'[f] = watch[f]
      BY <2>2, ObservingMoves DEF Typed, Observing, WatchPlaces
    <3> QED  BY <1>1, <3>1, WatchPlain
  <2> QED  BY <2>1, <2>2 DEF JobWrite
<1>6. /\ ExecTypes' /\ (exec[e].status # "none" => exec'[e].status # "none")
      /\ exec'[e].status = "passed" => exec[e].status = "passed" \/ turn[e] = "completed"
      /\ \A f \in Executions \ {e} : exec'[f] = exec[f]
  <2>1. \/ exec' = exec
        \/ exec' = Settled(e, "failed") \/ exec' = Settled(e, "terminated")
        \/ exec' = Settled(e, "passed") /\ job[e].kind = "complete"
    <3>1. CASE job[e].kind = "complete"
      BY <3>1 DEF JobWrite
    <3>2. CASE job[e].kind = "fail"
      BY <3>2 DEF JobWrite
    <3>3. CASE job[e].kind = "close"
      BY <3>3 DEF JobWrite
    <3> QED  BY <1>2, <3>1, <3>2, <3>3 DEF Kinds
  <2>2. CASE exec' = exec
    <3>1. ExecTypes'
      BY <2>2 DEF Typed, ExecTypes
    <3> QED  BY <2>2, <3>1
  <2>3. CASE exec' = Settled(e, "failed")
    BY <2>3, SettledMoves DEF Typed, Ended
  <2>4. CASE exec' = Settled(e, "terminated")
    BY <2>4, SettledMoves DEF Typed, Ended
  <2>5. CASE exec' = Settled(e, "passed") /\ job[e].kind = "complete"
    <3>1. /\ ExecTypes' /\ exec'[e].status = "passed"
          /\ \A f \in Executions \ {e} : exec'[f] = exec[f]
      BY <2>5, SettledMoves DEF Typed, Ended
    <3> QED  BY <1>2, <2>5, <3>1
  <2> QED  BY <2>1, <2>2, <2>3, <2>4, <2>5
<1>7. EventsOK(e)'
  BY <1>1 DEF Ours, EventsOK
<1> QED  BY <1>1, <1>3, <1>4, <1>5, <1>6, <1>7, SettlingKeeps

LEMMA JobWriteFailsKeeps ==
    ASSUME Typed, NEW e \in Executions, Ours(e), JobWriteFails(e), UNCHANGED <<cap, todo>>
    PROVE  Kept(e)
<1>1. /\ UNCHANGED <<exec, events, turn, sent, op, cap, todo>> /\ ToldTypes' /\ SetTypes'
  BY DEF JobWriteFails, providerVars, Typed, ToldTypes, SetTypes
<1>2. EndJob(e, FALSE) \/ EndJob(e, TRUE)
  BY DEF JobWriteFails
<1> QED  BY <1>1, <1>2, EndJobLeaves, JobKeeps

LEMMA JobTellKeeps ==
    ASSUME Typed, NEW e \in Executions, Ours(e), JobTell(e), UNCHANGED <<cap, todo>>
    PROVE  Kept(e)
<1>1. UNCHANGED <<exec, events, turn, sent, op, cap, todo>> /\ logged' = logged /\ bound' = bound
  BY DEF JobTell, providerVars
<1>2. ToldTypes' /\ SetTypes'
  BY <1>1, TellMoves DEF JobTell, Typed, SetTypes
<1>3. EndJob(e, TRUE)
  BY DEF JobTell
<1> QED  BY <1>1, <1>2, <1>3, EndJobLeaves, JobKeeps

LEMMA JobStepKeeps ==
    ASSUME Typed, NEW e \in Executions, Ours(e), JobStep(e), UNCHANGED <<cap, todo>>
    PROVE  Kept(e)
  BY JobReadKeeps, JobEventsKeeps, JobWriteKeeps, JobWriteFailsKeeps, JobTellKeeps DEF JobStep

LEMMA StreamStartedKeeps ==
    ASSUME Typed, NEW e \in Executions, Ours(e), StreamStarted(e), UNCHANGED <<cap, todo>>
    PROVE  Kept(e)
<1>1. /\ UNCHANGED <<turn, sent, op, watch, job, cap, todo>> /\ ToldTypes' /\ SetTypes'
      /\ WatchTypes' /\ JobTypes' /\ turn[e] # "absent"
  BY DEF StreamStarted, providerVars, toldVars, Typed, ToldTypes, SetTypes, WatchTypes, JobTypes
<1>2. /\ ExecTypes' /\ exec'[e].status = "running"
      /\ \A f \in Executions \ {e} : exec'[f] = exec[f]
  BY SettledMoves DEF StreamStarted, Typed
<1>3. /\ EventTypes' /\ events'[e].started = events[e].started \cup {e}
      /\ \A f \in Executions \ {e} : events'[f] = events[f]
  BY PinnedMoves DEF StreamStarted, Typed, Turns
<1>4. EventsOK(e)'
  BY <1>1, <1>3 DEF Ours, EventsOK, SentOK
<1>5. WatchOK(e)' /\ JobOK(e)'
  BY <1>1 DEF Ours, WatchOK, JobOK
<1> QED  BY <1>1, <1>2, <1>3, <1>4, <1>5, SettlingKeeps

LEMMA StreamEndsKeeps ==
    ASSUME Typed, NEW e \in Executions, Ours(e), StreamEnds(e), UNCHANGED <<cap, todo>>
    PROVE  Kept(e)
<1>1. /\ UNCHANGED <<exec, turn, sent, op, cap, todo>> /\ ToldTypes' /\ SetTypes' /\ ExecTypes'
  BY DEF StreamEnds, providerVars, Typed, ToldTypes, SetTypes, ExecTypes
<1>2. PICK kind \in {"complete", "fail"} :
        StreamJob(e, kind) /\ (kind = "complete" => turn[e] = "completed")
  BY DEF StreamEnds
<1>3. /\ WatchTypes' /\ watch'[e].pc = "settling"
      /\ watch'[e].pin = watch[e].pin /\ watch'[e].seen = watch[e].seen
      /\ \A f \in Executions \ {e} : watch'[f] = watch[f]
  BY <1>2, ObservingMoves DEF StreamJob, Typed, WatchPlaces
<1>4. WatchOK(e)'
  BY <1>1, <1>3, WatchPlain
<1>5. /\ JobTypes' /\ JobOK(e)' /\ \A f \in Executions \ {e} : job'[f] = job[f]
  BY <1>1, <1>2, NewJob DEF StreamJob, Typed, Kinds
<1>6. /\ EventTypes' /\ events'[e].started = events[e].started
      /\ \A f \in Executions \ {e} : events'[f] = events[f]
  <2>1. CASE events' = events
    BY <2>1 DEF Typed, EventTypes
  <2>2. CASE events' = [events EXCEPT ![e].completed = IF @ < 2 THEN @ + 1 ELSE 2]
    <3>1. PICK n \in 0 .. 2 :
            n = IF events[e].completed < 2 THEN events[e].completed + 1 ELSE 2
      BY DEF Typed, EventTypes
    <3>2. events' = [events EXCEPT ![e].completed = n]
      BY <2>2, <3>1
    <3> QED  BY <3>2 DEF Typed, EventTypes
  <2> QED  BY <2>1, <2>2 DEF StreamEnds
<1>7. EventsOK(e)'
  BY <1>1, <1>6 DEF Ours, EventsOK
<1> QED  BY <1>1, <1>3, <1>4, <1>5, <1>6, <1>7, SettlingKeeps

LEMMA ServerWriteFailsKeeps ==
    ASSUME Typed, NEW e \in Executions, Ours(e), ServerWriteFails(e), UNCHANGED <<cap, todo>>
    PROVE  Kept(e)
<1>1. /\ UNCHANGED <<exec, events, turn, sent, op, cap, todo>> /\ ToldTypes' /\ SetTypes'
  BY DEF ServerWriteFails, recordVars, providerVars, Typed, ToldTypes, SetTypes
<1>2. CASE EndJob(e, TRUE)
  BY <1>1, <1>2, EndJobLeaves, JobKeeps
<1>3. CASE job' = [job EXCEPT ![e].pc = "read", ![e].kind = "fail"] /\ UNCHANGED watch
  <2>1. /\ JobTypes' /\ job'[e].pc = "read" /\ job'[e].kind = "fail"
        /\ job'[e].turn = job[e].turn /\ \A f \in Executions \ {e} : job'[f] = job[f]
    BY <1>3 DEF Typed, JobTypes, Kinds
  <2>2. JobOK(e)'
    BY <2>1 DEF Ours, JobOK, Kinds
  <2>3. WatchTypes' /\ WatchOK(e)'
    BY <1>1, <1>3 DEF Typed, WatchTypes, Ours, WatchOK
  <2> QED  BY <1>1, <1>3, <2>1, <2>2, <2>3, JobKeeps
<1> QED  BY <1>2, <1>3 DEF ServerWriteFails

LEMMA StreamStepKeeps ==
    ASSUME Typed, NEW e \in Executions, Ours(e), StreamStep(e), UNCHANGED <<cap, todo>>
    PROVE  Kept(e)
  BY StreamStartedKeeps, StreamEndsKeeps, ServerWriteFailsKeeps DEF StreamStep

-----------------------------------------------------------------------------
(* Users, the provider, the restart *)

LEMMA ManualCloseKeeps ==
    ASSUME Typed, NEW e \in Executions, Ours(e), ManualClose(e), UNCHANGED <<cap, todo>>
    PROVE  Kept(e)
<1>1. /\ UNCHANGED <<exec, events, turn, sent, op, watch, cap, todo>> /\ ToldTypes' /\ SetTypes'
  BY DEF ManualClose, recordVars, providerVars, Typed, ToldTypes, SetTypes
<1>2. /\ JobTypes' /\ JobOK(e)' /\ \A f \in Executions \ {e} : job'[f] = job[f]
  BY NewJob DEF ManualClose, Typed, Kinds
<1>3. WatchTypes' /\ WatchOK(e)'
  BY <1>1 DEF Typed, WatchTypes, Ours, WatchOK
<1> QED  BY <1>1, <1>2, <1>3, JobKeeps

LEMMA ManualCheckKeeps ==
    ASSUME Typed, NEW e \in Executions, Ours(e), ManualCheck(e), UNCHANGED <<cap, todo>>
    PROVE  Kept(e)
<1> DEFINE t == SavedTurn(e)
<1>1. /\ UNCHANGED <<events, turn, sent, op, cap, todo>> /\ ToldTypes' /\ SetTypes'
  BY DEF ManualCheck, providerVars, Typed, ToldTypes, SetTypes
<1>2. Restorable(e) => t = e
  BY SavedIsOurs DEF Restorable
<1> HIDE DEF t
<1>3. CASE /\ UNCHANGED <<exec, watch>>
           /\ \/ job' = [job EXCEPT ![e] =
                    [pc |-> "tell", kind |-> "close", by |-> "user", turn |-> NoTurn]]
              \/ /\ Restorable(e)
                 /\ job' = [job EXCEPT ![e] = [pc |-> "read", by |-> "user", turn |-> t,
                       kind |-> IF turn[t] = "completed" THEN "complete" ELSE "fail"]]
  <2>1. PICK pc \in {"read", "tell"}, kind \in Kinds, u \in {NoTurn, e} :
          /\ job' = [job EXCEPT ![e] = [pc |-> pc, kind |-> kind, by |-> "user", turn |-> u]]
          /\ kind = "complete" => turn[e] = "completed"
    <3>1. CASE job' = [job EXCEPT ![e] =
                [pc |-> "tell", kind |-> "close", by |-> "user", turn |-> NoTurn]]
      BY <3>1 DEF Kinds
    <3>2. CASE /\ Restorable(e)
               /\ job' = [job EXCEPT ![e] = [pc |-> "read", by |-> "user", turn |-> t,
                      kind |-> IF turn[t] = "completed" THEN "complete" ELSE "fail"]]
      <4>1. CASE turn[t] = "completed"
        BY <1>2, <3>2, <4>1 DEF Kinds
      <4>2. CASE turn[t] # "completed"
        BY <1>2, <3>2, <4>2 DEF Kinds
      <4> QED  BY <4>1, <4>2
    <3> QED  BY <1>3, <3>1, <3>2
  <2>2. /\ JobTypes' /\ JobOK(e)' /\ \A f \in Executions \ {e} : job'[f] = job[f]
    BY <1>1, <2>1, NewJob DEF Typed
  <2>3. WatchTypes' /\ WatchOK(e)'
    BY <1>1, <1>3 DEF Typed, WatchTypes, Ours, WatchOK
  <2> QED  BY <1>1, <1>3, <2>2, <2>3, JobKeeps
<1>4. CASE /\ UNCHANGED job /\ \E b \in BOOLEAN : exec' = Flagged(e, b)
           /\ \/ UNCHANGED watch
              \/ Observing(e, IF watch[e].pc = "none" THEN "setup" ELSE watch[e].pc)
  <2>1. /\ ExecTypes' /\ exec'[e].status = exec[e].status
        /\ \A f \in Executions \ {e} : exec'[f] = exec[f]
    BY <1>4, FlaggedMoves DEF Typed
  <2>2. WatchTypes' /\ WatchOK(e)' /\ \A f \in Executions \ {e} : watch'[f] = watch[f]
    <3>1. CASE UNCHANGED watch
      BY <1>1, <3>1 DEF Typed, WatchTypes, Ours, WatchOK
    <3>2. CASE Observing(e, IF watch[e].pc = "none" THEN "setup" ELSE watch[e].pc)
      <4>1. PICK pc \in {watch[e].pc, "setup"} : Observing(e, pc)
        BY <3>2
      <4>2. pc \in WatchPlaces
        BY DEF Typed, WatchTypes, WatchPlaces
      <4>3. /\ WatchTypes' /\ watch'[e].pc = pc
            /\ watch'[e].pin = watch[e].pin /\ watch'[e].seen = watch[e].seen
            /\ \A f \in Executions \ {e} : watch'[f] = watch[f]
        BY <4>1, <4>2, ObservingMoves DEF Typed
      <4> QED  BY <1>1, <4>3, WatchPlain
    <3> QED  BY <1>4, <3>1, <3>2
  <2>3. EventTypes' /\ JobTypes' /\ EventsOK(e)' /\ JobOK(e)'
    BY <1>1, <1>4 DEF Typed, EventTypes, JobTypes, Ours, EventsOK, JobOK
  <2> QED  BY <1>1, <1>4, <2>1, <2>2, <2>3, SettlingKeeps
<1> QED  BY <1>3, <1>4 DEF ManualCheck, t

\* The execution is looked at after a restart.
LEMMA ReconcileDesktopKeeps ==
    ASSUME Typed, NEW e \in Executions, Ours(e), ReconcileDesktop(e), UNCHANGED cap,
           todo' = todo \ {e}
    PROVE  Kept(e)
<1>1. /\ UNCHANGED <<exec, events, turn, sent, op, job, cap>> /\ logged' = logged
      /\ bound' = bound
  BY DEF ReconcileDesktop, providerVars
<1>2. ToldTypes' /\ SetTypes'
  BY <1>1, TellMoves DEF ReconcileDesktop, Typed, SetTypes, ToldTypes
<1>3. WatchTypes' /\ WatchOK(e)' /\ \A f \in Executions \ {e} : watch'[f] = watch[f]
  <2>1. CASE UNCHANGED watch
    BY <1>1, <2>1 DEF Typed, WatchTypes, Ours, WatchOK
  <2>2. CASE \E pc \in {"setup", "flag"} : Observing(e, pc)
    <3>1. PICK pc \in {"setup", "flag"} : Observing(e, pc)
      BY <2>2
    <3>2. /\ WatchTypes' /\ watch'[e].pc = pc
          /\ watch'[e].pin = watch[e].pin /\ watch'[e].seen = watch[e].seen
          /\ \A f \in Executions \ {e} : watch'[f] = watch[f]
      BY <3>1, ObservingMoves DEF Typed, WatchPlaces
    <3> QED  BY <1>1, <3>2, WatchPlain
  <2> QED  BY <2>1, <2>2 DEF ReconcileDesktop
<1>4. Typed'
  BY <1>1, <1>2, <1>3 DEF Typed, ExecTypes, EventTypes, TurnTypes, SentTypes, OpTypes, JobTypes,
                          CapTypes
<1>5. SentOK(e)' /\ OpOK(e)' /\ EventsOK(e)' /\ JobOK(e)' /\ PassedOK(e)'
  BY <1>1 DEF Ours, SentOK, OpOK, EventsOK, JobOK, PassedOK, Unsent, AfterSend
<1>6. \A f \in Executions \ {e} : SameFor(f)
  BY <1>1, <1>3 DEF SameFor
<1> QED  BY <1>1, <1>3, <1>4, <1>5, <1>6 DEF Kept, Ours

LEMMA ReconcileServerKeeps ==
    ASSUME Typed, NEW e \in Executions, Ours(e), ReconcileServer(e), UNCHANGED cap,
           todo' = todo \ {e}
    PROVE  Kept(e)
<1>1. /\ UNCHANGED <<events, turn, sent, op, watch, job, cap>> /\ logged' = logged
      /\ bound' = bound
  BY DEF ReconcileServer, providerVars
<1>2. ToldTypes' /\ SetTypes'
  BY <1>1, TellMoves DEF ReconcileServer, Typed, SetTypes, ToldTypes
<1>3. /\ ExecTypes' /\ exec'[e].status \in {"failed", exec[e].status}
      /\ \A f \in Executions \ {e} : exec'[f] = exec[f]
  <2>1. CASE exec' = exec
    BY <2>1 DEF Typed, ExecTypes
  <2>2. CASE exec' = Settled(e, "failed")
    BY <2>2, SettledMoves DEF Typed, Ended
  <2> QED  BY <2>1, <2>2 DEF ReconcileServer
<1>4. Typed'
  BY <1>1, <1>2, <1>3 DEF Typed, EventTypes, TurnTypes, SentTypes, OpTypes, WatchTypes, JobTypes,
                          CapTypes
<1>5. WatchOK(e)' /\ EventsOK(e)' /\ JobOK(e)'
  BY <1>1 DEF Ours, WatchOK, EventsOK, JobOK
<1>6. SentOK(e)' /\ OpOK(e)' /\ PassedOK(e)'
  BY <1>1, <1>3 DEF Ours, SentOK, OpOK, PassedOK, Unsent, AfterSend
<1>7. \A f \in Executions \ {e} : SameFor(f)
  BY <1>1, <1>3 DEF SameFor
<1> QED  BY <1>1, <1>4, <1>5, <1>6, <1>7 DEF Kept, Ours

\* The failure of a start is recorded on the execution whoever runs it.
LEMMA SettleFailedKeeps ==
    ASSUME Typed, NEW e \in Executions, Ours(e), UNCHANGED <<cap, todo>>,
           NEW a \in Actuations, ExecutionOf[a] = e, SettleFailed(a)
    PROVE  Kept(e)
<1>1. /\ UNCHANGED <<events, turn, sent, op, watch, job, cap, todo>> /\ ToldTypes' /\ SetTypes'
      /\ OpTypes'
  BY DEF SettleFailed, memoryVars, providerVars, toldVars, Typed, ToldTypes, SetTypes, OpTypes
<1>2. /\ ExecTypes' /\ exec'[e].status \in {"failed", exec[e].status}
      /\ \A f \in Executions \ {e} : exec'[f] = exec[f]
  <2>1. CASE exec' = exec
    BY <2>1 DEF Typed, ExecTypes
  <2>2. CASE exec' = Settled(e, "failed")
    BY <2>2, SettledMoves DEF Typed, Ended
  <2> QED  BY <2>1, <2>2 DEF SettleFailed
<1>3. OpOK(e)'
  BY <1>1, <1>2 DEF Ours, OpOK, Unsent, AfterSend
<1> QED  BY <1>1, <1>2, <1>3, ExecKeeps

\* One execution was moved and the negotiation was not.
LEMMA OneMoved ==
    ASSUME ExecutionInv, NEW e \in Executions, Kept(e), UNCHANGED cap
    PROVE  ExecutionInv'
<1>1. Typed' /\ Ours(e)'
  BY DEF Kept
<1>2. ASSUME NEW f \in Executions \ {e} PROVE Ours(f)'
  BY SameKeeps DEF Kept, ExecutionInv
<1>3. CapOK'
  <2>1. op[Initial].pc = "idle" => op'[Initial].pc = "idle"
    BY RecordsAssumption DEF Kept, SameFor
  <2> QED  BY <2>1 DEF ExecutionInv, CapOK
<1> QED  BY <1>1, <1>2, <1>3 DEF ExecutionInv

\* Nothing the invariant is about was moved.
LEMMA NoneMoved ==
    ASSUME ExecutionInv, UNCHANGED <<Records, op, told, cap>>, SetTypes'
    PROVE  ExecutionInv'
<1>1. Typed'
  BY DEF Records, ExecutionInv, Typed, ExecTypes, EventTypes, TurnTypes, SentTypes, OpTypes,
         WatchTypes, JobTypes, ToldTypes, CapTypes
<1>2. ASSUME NEW f \in Executions PROVE Ours(f)'
  BY SameKeeps DEF Records, SameFor, ExecutionInv
<1>3. CapOK'
  BY DEF ExecutionInv, CapOK
<1> QED  BY <1>1, <1>2, <1>3 DEF ExecutionInv

LEMMA BackendKeeps ==
    ASSUME ExecutionInv, NEW e \in Executions, BackendStep(e), UNCHANGED <<cap, todo>>
    PROVE  ExecutionInv'
<1>1. Typed /\ Ours(e)
  BY DEF ExecutionInv
<1>2. Kept(e)
  BY <1>1, StartKeeps, ServerStartKeeps, WatchStepKeeps, JobStepKeeps, StreamStepKeeps
  DEF BackendStep
<1> QED  BY <1>2, OneMoved

LEMMA ActuationKeeps ==
    ASSUME ExecutionInv, NEW a \in Actuations, ActuationStep(a), UNCHANGED <<cap, todo>>
    PROVE  ExecutionInv'
<1>1. CASE SettleFailed(a)
  <2>1. ExecutionOf[a] \in Executions
    BY RecordsAssumption
  <2>2. PICK e \in Executions : e = ExecutionOf[a]
    BY <2>1
  <2>3. Kept(e)
    BY <1>1, <2>2, SettleFailedKeeps DEF ExecutionInv
  <2> QED  BY <2>3, OneMoved
<1>2. CASE Started(a) \/ Uncertain(a) \/ MarkFailed(a) \/ RecoverExisting(a)
  <2>1. UNCHANGED <<Records, op, told, cap>> /\ SetTypes'
    BY <1>2 DEF Started, Uncertain, MarkFailed, RecoverExisting, Records, recordVars, memoryVars,
                providerVars, toldVars, ExecutionInv, Typed, SetTypes
  <2> QED  BY <2>1, NoneMoved
<1> QED  BY <1>1, <1>2 DEF ActuationStep

LEMMA AskKeeps ==
    ASSUME ExecutionInv, NEW a \in Actuations, Ask(a)
    PROVE  ExecutionInv'
<1>1. UNCHANGED <<Records, op, told, cap>> /\ SetTypes'
  BY DEF Ask, Records, recordVars, memoryVars, providerVars, toldVars, ExecutionInv, Typed, SetTypes
<1> QED  BY <1>1, NoneMoved

LEMMA ActsKeeps ==
    ASSUME ExecutionInv, NEW e \in Executions, Acts(e)
    PROVE  ExecutionInv'
<1>1. Kept(e)
  BY ManualCloseKeeps, ManualCheckKeeps DEF Acts, ManualAction, ExecutionInv
<1> QED  BY <1>1, OneMoved DEF Acts

LEMMA ReconcileKeeps ==
    ASSUME ExecutionInv, NEW e \in Executions, Reconcile(e)
    PROVE  ExecutionInv'
<1>1. UNCHANGED cap /\ todo' = todo \ {e} /\ Typed /\ Ours(e)
  BY DEF Reconcile, ExecutionInv
<1>2. CASE ReconcileDesktop(e) \/ ReconcileServer(e)
  <2>1. Kept(e)
    BY <1>1, <1>2, ReconcileDesktopKeeps, ReconcileServerKeeps
  <2> QED  BY <1>1, <2>1, OneMoved
<1>3. CASE UNCHANGED <<recordVars, act, memoryVars, providerVars, toldVars>>
  <2>1. UNCHANGED <<Records, op, told, cap>> /\ SetTypes'
    BY <1>1, <1>3 DEF Records, recordVars, memoryVars, providerVars, toldVars, Typed, SetTypes
  <2> QED  BY <2>1, NoneMoved
<1> QED  BY <1>2, <1>3 DEF Reconcile

\* The start of the initial execution begins when none is in flight.
LEMMA NegotiationKeeps ==
    ASSUME ExecutionInv, NegotiationStep \/ UserClicks, UNCHANGED todo
    PROVE  ExecutionInv'
<1>1. /\ UNCHANGED <<Records, told>> /\ SetTypes'
  BY DEF NegotiationStep, UserClicks, Negotiate, Route, Ready, NotReady, Chosen, AfkTimeout,
         RecheckDesktop, SelectStandalone, Restored, GiveTo, WaitAgain, Negotiating, Records,
         recordVars, providerVars, toldVars, ExecutionInv, Typed, SetTypes
<1>2. Typed /\ CapOK
  BY DEF ExecutionInv
<1>3. CASE UNCHANGED <<op, cap>>
  BY <1>1, <1>3, NoneMoved
<1> DEFINE Given(e) == \E first \in {"desktop", "server"}, a \in Actuations \cup {NoOne} :
                op' = [op EXCEPT ![e] = [pc |-> first, by |-> a, seen |-> {}]]
<1>4. ASSUME NEW e \in Executions, Given(e)
      PROVE  OpTypes' /\ OpOK(e)' /\ \A f \in Executions \ {e} : op'[f] = op[f]
  <2>1. PICK first \in {"desktop", "server"}, a \in Actuations \cup {NoOne} :
            op' = [op EXCEPT ![e] = [pc |-> first, by |-> a, seen |-> {}]]
    BY <1>4
  <2>2. PICK o : o = [pc |-> first, by |-> a, seen |-> {}]
    OBVIOUS
  <2>3. /\ o \in [pc: OpPlaces, by: Actuations \cup {NoOne}, seen: SUBSET Turns]
        /\ o.pc = first /\ o.seen = {}
    BY <2>2 DEF OpPlaces
  <2>4. op' = [op EXCEPT ![e] = o]
    BY <2>1, <2>2
  <2>5. OpTypes' /\ op'[e] = o /\ \A f \in Executions \ {e} : op'[f] = op[f]
    BY <1>2, <2>3, <2>4 DEF Typed, OpTypes
  <2>6. OpOK(e)'
    BY <2>3, <2>5 DEF OpOK, Unsent, AfterSend, Saved, Launching
  <2> QED  BY <2>5, <2>6
<1>5. ASSUME OpTypes', CapTypes', CapOK', \A e \in Executions : OpOK(e)'
      PROVE  ExecutionInv'
  <2>1. Typed'
    BY <1>1, <1>2, <1>5 DEF Records, Typed, ExecTypes, EventTypes, TurnTypes, SentTypes,
         WatchTypes, JobTypes, ToldTypes
  <2>2. ASSUME NEW f \in Executions PROVE Ours(f)'
    BY <1>1, <1>5 DEF Records, ExecutionInv, Ours, SentOK, WatchOK, EventsOK, JobOK, PassedOK
  <2> QED  BY <1>5, <2>1, <2>2 DEF ExecutionInv
<1>6. ASSUME NEW e \in Executions, Given(e) PROVE \A f \in Executions : OpOK(f)'
  <2>1. OpOK(e)' /\ \A f \in Executions \ {e} : op'[f] = op[f]
    BY <1>4, <1>6
  <2>2. ASSUME NEW f \in Executions \ {e} PROVE OpOK(f)'
    BY <1>1, <2>1 DEF Records, ExecutionInv, Ours, OpOK, Unsent, AfterSend
  <2> QED  BY <2>1, <2>2
<1>7. ASSUME UNCHANGED op PROVE OpTypes' /\ \A f \in Executions : OpOK(f)'
  BY <1>1, <1>2, <1>7 DEF Records, ExecutionInv, Ours, OpOK, Unsent, AfterSend, Typed, OpTypes
<1>8. ASSUME NEW a \in Actuations, Route(a) PROVE ExecutionInv'
  <2>1. PICK e \in Executions : e = ExecutionOf[a]
    BY RecordsAssumption
  <2>2. e # Initial /\ UNCHANGED cap
    BY <1>8, <2>1 DEF Route
  <2>3. Given(e)
    BY <1>8, <2>1 DEF Route
  <2>4. OpTypes' /\ (\A f \in Executions : OpOK(f)') /\ op'[Initial] = op[Initial]
    BY <1>4, <1>6, <2>2, <2>3, RecordsAssumption
  <2>5. CapTypes' /\ CapOK'
    BY <1>2, <2>2, <2>4 DEF Typed, CapTypes, CapOK
  <2> QED  BY <1>5, <2>4, <2>5
<1>9. ASSUME NEW first \in {"desktop", "server"}, GiveTo(first), Waiting PROVE ExecutionInv'
  <2>1. cap' = [cap EXCEPT !.at = "started", !.action = "none"]
    BY <1>9 DEF GiveTo
  <2>2. CapTypes' /\ cap'.at = "started" /\ cap'.owner = cap.owner
    BY <1>2, <2>1 DEF Typed, CapTypes
  <2>3. CapOK'
    BY <1>2, <1>9, <2>2 DEF CapOK, Waiting
  <2>4. cap.owner \in Actuations \cup {NoOne}
    BY <1>2 DEF Typed, CapTypes
  <2>5. Given(Initial)
    BY <1>9, <2>4 DEF GiveTo
  <2> QED  BY <1>4, <1>5, <1>6, <2>2, <2>3, <2>5, RecordsAssumption
<1> HIDE DEF Given
<1>10. ASSUME NEW a \in Actuations, Negotiate(a) PROVE ExecutionInv'
  <2>1. CASE UNCHANGED cap
    BY <1>3, <1>10, <2>1 DEF Negotiate
  <2>2. CASE /\ cap.owner = NoOne
             /\ cap' = [owner |-> a, at |-> "desktop", st |-> "pending", action |-> "none"]
    <3>1. CapTypes' /\ cap'.owner = a /\ UNCHANGED op
      BY <1>10, <2>2 DEF CapTypes, Open, Negotiate
    <3>2. op[Initial].pc = "idle" /\ a # NoOne
      BY <1>2, <2>2, RecordsAssumption DEF CapOK
    <3>3. CapOK'
      BY <3>1, <3>2 DEF CapOK
    <3> QED  BY <1>5, <1>7, <3>1, <3>3
  <2> QED  BY <1>10, <2>1, <2>2 DEF Negotiate
<1>11. ASSUME UNCHANGED op, CapTypes', cap'.owner = cap.owner, Waiting,
              cap'.at \in {"desktop", "choice"}
       PROVE  ExecutionInv'
  <2>1. CapOK'
    BY <1>2, <1>11 DEF CapOK, Waiting
  <2> QED  BY <1>5, <1>7, <1>11, <2>1
<1>12. CASE UserClicks
  <2>1. UNCHANGED op /\ Waiting
    BY <1>12 DEF UserClicks, RecheckDesktop, SelectStandalone, Restored
  <2>2. \E st \in Open \cup {"fallback", "recovered"},
           action \in {"none", "recheck", "standalone"} :
            cap' = [cap EXCEPT !.st = st, !.action = action]
    BY <1>12 DEF UserClicks, RecheckDesktop, SelectStandalone, Restored, Open
  <2>3. CapTypes' /\ cap'.owner = cap.owner /\ cap'.at = cap.at
    BY <1>2, <2>2 DEF Typed, CapTypes
  <2> QED  BY <1>11, <2>1, <2>3 DEF Waiting
<1>13. CASE NotReady \/ (Waiting /\ WaitAgain)
  <2>1. UNCHANGED op /\ Waiting
    BY <1>13 DEF NotReady, WaitAgain, Waiting
  <2>2. CapTypes' /\ cap'.owner = cap.owner /\ cap'.at \in {"desktop", "choice"}
    <3>1. CASE NotReady
      BY <1>2, <3>1 DEF Typed, CapTypes, NotReady, Open
    <3>2. CASE WaitAgain
      BY <1>2, <3>2 DEF Typed, CapTypes, WaitAgain, Open
    <3> QED  BY <1>13, <3>1, <3>2
  <2> QED  BY <1>11, <2>1, <2>2
<1>14. CASE Ready \/ Chosen \/ AfkTimeout
  BY <1>9, <1>13, <1>14 DEF Ready, Chosen, AfkTimeout, Waiting
<1> QED  BY <1>8, <1>10, <1>12, <1>13, <1>14 DEF NegotiationStep

\* A turn of the provider ends: what is completed stays completed, and nothing is absent again.
LEMMA TurnsKeep ==
    ASSUME ExecutionInv, TurnTypes', UNCHANGED <<exec, events, sent, op, watch, job, told, cap>>,
           SetTypes',
           \A e \in Executions : /\ turn[e] = "absent" <=> turn'[e] = "absent"
                                 /\ turn[e] = "completed" => turn'[e] = "completed"
    PROVE  ExecutionInv'
<1>1. Typed'
  BY DEF ExecutionInv, Typed, ExecTypes, EventTypes, SentTypes, OpTypes, WatchTypes, JobTypes,
         ToldTypes, CapTypes
<1>2. ASSUME NEW e \in Executions PROVE Ours(e)'
  <2>1. Ours(e) /\ (turn[e] = "absent" <=> turn'[e] = "absent")
        /\ (turn[e] = "completed" => turn'[e] = "completed")
    BY DEF ExecutionInv
  <2>2. SentOK(e)' /\ WatchOK(e)' /\ EventsOK(e)' /\ PassedOK(e)'
    BY <2>1 DEF Ours, SentOK, WatchOK, EventsOK, PassedOK
  <2>3. OpOK(e)'
    BY <2>1 DEF Ours, OpOK, Unsent, AfterSend
  <2>4. JobOK(e)'
    BY <2>1 DEF Ours, JobOK
  <2> QED  BY <2>2, <2>3, <2>4 DEF Ours
<1>3. CapOK'
  BY DEF ExecutionInv, CapOK
<1> QED  BY <1>1, <1>2, <1>3 DEF ExecutionInv

LEMMA ProviderKeeps ==
    ASSUME ExecutionInv, (\E t \in Turns : TurnEnds(t)) \/ UserTypes, UNCHANGED <<cap, todo>>
    PROVE  ExecutionInv'
<1>1. UNCHANGED <<exec, events, sent, op, watch, job, told, cap>> /\ SetTypes'
  BY DEF TurnEnds, UserTypes, recordVars, memoryVars, toldVars, ExecutionInv, Typed, SetTypes
<1>2. PICK t \in Turns, s \in {"running", "completed", "failed"} :
        /\ turn' = [turn EXCEPT ![t] = s]
        /\ turn[t] = "running" \/ t = UserTurn
  BY DEF TurnEnds, UserTypes, Turns
<1>3. TurnTypes'
  BY <1>2 DEF ExecutionInv, Typed, TurnTypes
<1>4. ASSUME NEW e \in Executions
      PROVE  /\ turn[e] = "absent" <=> turn'[e] = "absent"
             /\ turn[e] = "completed" => turn'[e] = "completed"
  <2>1. e \in Turns /\ e # UserTurn
    BY RecordsAssumption DEF Turns
  <2> QED  BY <1>2, <2>1 DEF ExecutionInv, Typed, TurnTypes
<1> QED  BY <1>1, <1>3, <1>4, TurnsKeep

LEMMA CrashKeepsExecutions ==
    ASSUME ExecutionInv, Crash
    PROVE  ExecutionInv'
<1>0. Typed
  BY DEF ExecutionInv
<1>1. UNCHANGED <<exec, events, sent, told>>
  BY DEF Crash, recordVars
<1>2. SetTypes'
  BY <1>0 DEF Crash, recordVars, Typed, SetTypes
<1>3. /\ Idle \in [pc: OpPlaces, by: Actuations \cup {NoOne}, seen: SUBSET Turns]
      /\ NoWatch \in [pc: WatchPlaces, pin: Turns \cup {NoTurn}, seen: SUBSET Turns]
      /\ Free \in [pc: {"free", "read", "events", "write", "tell"}, kind: Kinds \cup {"none"},
                   by: {"none", "watch", "user"}, turn: Turns \cup {NoTurn}]
  BY DEF Idle, NoWatch, Free, OpPlaces, WatchPlaces
<1>4. /\ op' = [e \in Executions |-> Idle] /\ watch' = [e \in Executions |-> NoWatch]
      /\ job' = [e \in Executions |-> Free] /\ cap' = NoContext
  BY DEF Crash
<1>5. OpTypes' /\ WatchTypes' /\ JobTypes'
  BY <1>3, <1>4 DEF OpTypes, WatchTypes, JobTypes
<1>6. CapTypes' /\ CapOK'
  BY <1>4, RecordsAssumption DEF NoContext, CapTypes, CapOK, Idle
<1>7. turn' = [t \in Turns |->
            IF t \in Executions /\ turn[t] = "running" /\ OnServer(t) THEN "failed" ELSE turn[t]]
  BY DEF Crash
<1>8. TurnTypes'
  BY <1>0, <1>7 DEF Typed, TurnTypes
<1>9. Typed'
  BY <1>0, <1>1, <1>2, <1>5, <1>6, <1>8 DEF Typed, ExecTypes, EventTypes, SentTypes, ToldTypes
<1>10. ASSUME NEW e \in Executions PROVE Ours(e)'
  <2>1. /\ turn[e] = "absent" <=> turn'[e] = "absent"
        /\ turn[e] = "completed" => turn'[e] = "completed"
    BY <1>7 DEF Turns
  <2>2. Ours(e)
    BY DEF ExecutionInv
  <2>3. SentOK(e)' /\ EventsOK(e)' /\ PassedOK(e)'
    BY <1>1, <2>1, <2>2 DEF Ours, SentOK, EventsOK, PassedOK
  <2>4. OpOK(e)'
    BY <1>4 DEF OpOK, Idle, Unsent, AfterSend, Saved, Launching
  <2>5. WatchOK(e)'
    BY <1>4, RecordsAssumption DEF WatchOK, NoWatch, Turns
  <2>6. JobOK(e)'
    BY <1>4 DEF JobOK, Free
  <2> QED  BY <2>3, <2>4, <2>5, <2>6 DEF Ours
<1> QED  BY <1>6, <1>9, <1>10 DEF ExecutionInv

LEMMA ExecutionsBegin == Init => ExecutionInv
<1> SUFFICES ASSUME Init PROVE ExecutionInv
  OBVIOUS
<1>1. /\ exec = [e \in Executions |-> NoExecution] /\ events = [e \in Executions |-> NoEvents]
      /\ turn = [t \in Turns |-> "absent"] /\ sent = [e \in Executions |-> 0]
      /\ op = [e \in Executions |-> Idle] /\ watch = [e \in Executions |-> NoWatch]
      /\ job = [e \in Executions |-> Free] /\ told = [e \in Executions |-> "no"]
      /\ bound = {} /\ notified = {} /\ logged = {} /\ cap = NoContext /\ todo = {}
  BY DEF Init, RecordsInit
<1>2. /\ NoExecution \in [status: {"none", "running"} \cup Ended,
                backend: {"none", "desktop", "server"}, pid: BOOLEAN, flag: BOOLEAN]
      /\ NoEvents \in [started: SUBSET Turns, completed: 0 .. 2]
  BY DEF NoExecution, NoEvents
<1>3. /\ Idle \in [pc: OpPlaces, by: Actuations \cup {NoOne}, seen: SUBSET Turns]
      /\ NoWatch \in [pc: WatchPlaces, pin: Turns \cup {NoTurn}, seen: SUBSET Turns]
      /\ Free \in [pc: {"free", "read", "events", "write", "tell"}, kind: Kinds \cup {"none"},
                   by: {"none", "watch", "user"}, turn: Turns \cup {NoTurn}]
  BY DEF Idle, NoWatch, Free, OpPlaces, WatchPlaces
<1>4. ExecTypes /\ EventTypes /\ TurnTypes /\ SentTypes
  BY <1>1, <1>2 DEF ExecTypes, EventTypes, TurnTypes, SentTypes
<1>5. OpTypes /\ WatchTypes /\ JobTypes /\ ToldTypes /\ SetTypes
  BY <1>1, <1>3 DEF OpTypes, WatchTypes, JobTypes, ToldTypes, SetTypes
<1>6. CapTypes /\ CapOK
  BY <1>1, RecordsAssumption DEF CapTypes, CapOK, NoContext, Idle
<1>7. ASSUME NEW e \in Executions PROVE Ours(e)
  <2>1. SentOK(e) /\ EventsOK(e) /\ PassedOK(e)
    BY <1>1 DEF SentOK, EventsOK, PassedOK, NoExecution, NoEvents, Turns
  <2>2. OpOK(e)
    BY <1>1 DEF OpOK, Idle, Unsent, AfterSend, Saved, Launching
  <2>3. WatchOK(e)
    BY <1>1, RecordsAssumption DEF WatchOK, NoWatch, Turns
  <2>4. JobOK(e)
    BY <1>1 DEF JobOK, Free
  <2> QED  BY <2>1, <2>2, <2>3, <2>4 DEF Ours
<1> QED  BY <1>4, <1>5, <1>6, <1>7 DEF ExecutionInv, Typed

LEMMA ExecutionsGoOn == ExecutionInv /\ [Next]_vars => ExecutionInv'
<1> SUFFICES ASSUME ExecutionInv, [Next]_vars PROVE ExecutionInv'
  OBVIOUS
<1>1. CASE HostStep
  <2>1. CASE Answered /\ UNCHANGED <<cap, todo>>
    BY <2>1, ActuationKeeps DEF Answered
  <2>2. CASE (\E e \in Executions : BackendStep(e)) /\ UNCHANGED <<cap, todo>>
    BY <2>2, BackendKeeps
  <2>3. CASE \E e \in Executions : Reconcile(e)
    BY <2>3, ReconcileKeeps
  <2> QED  BY <1>1, <2>1, <2>2, <2>3 DEF HostStep
<1>2. CASE OutsideStep
  BY <1>2, AskKeeps, ActsKeeps, ProviderKeeps DEF OutsideStep
<1>3. CASE Crash
  BY <1>3, CrashKeepsExecutions
<1>4. CASE (NegotiationStep \/ UserClicks) /\ UNCHANGED todo
  BY <1>4, NegotiationKeeps
<1>5. CASE UNCHANGED vars
  <2>1. UNCHANGED <<Records, op, told, cap>> /\ SetTypes'
    BY <1>5 DEF vars, Records, ExecutionInv, Typed, SetTypes
  <2> QED  BY <2>1, NoneMoved
<1> QED  BY <1>1, <1>2, <1>3, <1>4, <1>5 DEF Next

\* What the records, the provider and the parts in memory may look like, for any number of
\* executions and actuations.
THEOREM ExecutionTypeCorrect == Spec => []TypeOK
<1>1. ExecutionInv => TypeOK
  BY DEF ExecutionInv, Typed, ExecTypes, SetTypes, TurnTypes, ToldTypes, TypeOK
<1> QED  BY <1>1, ExecutionsBegin, ExecutionsGoOn, PTL DEF Spec

\* No fallback, second actuation, restart or retry ever dispatches an instruction again.
THEOREM NeverSentTwice == Spec => []DispatchedOnce
<1>1. ExecutionInv => DispatchedOnce
  BY DEF ExecutionInv, Ours, SentOK, DispatchedOnce
<1> QED  BY <1>1, ExecutionsBegin, ExecutionsGoOn, PTL DEF Spec

\* Only the end of its own turn passes an execution, whoever else writes into its thread.
THEOREM OnlyItsTurnPasses == Spec => []PassedIsOurs
<1>1. ExecutionInv => PassedIsOurs
  BY DEF ExecutionInv, Ours, PassedOK, PassedIsOurs
<1> QED  BY <1>1, ExecutionsBegin, ExecutionsGoOn, PTL DEF Spec
=============================================================================

---------------------------- MODULE ReviewVerdict ----------------------------
(***************************************************************************)
(* The verdict ChatGPT gives by calling the tool submit_review_verdict,    *)
(* over ReviewCompletion: the record of each review that collects the      *)
(* authenticated tool calls and the evidence the extension read from the   *)
(* page (review-verdict-submission.ts), the worker's evidence outbox       *)
(* (background.js), and the loop that waits for a confirmed verdict until  *)
(* a deadline after its review was completed (auto-iteration.ts).          *)
(*                                                                         *)
(* A call is one tool call in the chat: its correlation key names it, and  *)
(* the same call is made again when its answer is lost.                    *)
(***************************************************************************)
EXTENDS ReviewCompletion

CONSTANTS
    Calls,           \* tool calls ChatGPT may make, by their correlation keys
    ReviewOf,        \* the review each call names
    NoCall,
    DeliveryPage,    \* the page whose receipt proves the delivery
    ConfirmTicks     \* bound: the confirmation window of 120 seconds, in ticks

ASSUME VerdictAssumption ==
    /\ NoCall \notin Calls /\ ReviewOf \in [Calls -> Reviews]
    /\ DeliveryPage \in Pages
    /\ ConfirmTicks \in Nat \ {0}

VARIABLES
    calls,       \* the tool calls ChatGPT makes in this chat
    record,      \* the durable verdict record of each review
    op,          \* the operation of each record's serial queue
    waiter,      \* awaitConfirmed of each loop
    age,         \* ticks since the review was completed
    decision,    \* the call whose verdict the loop acted on
    evOutbox     \* identityEvidenceOutbox of the worker, durable

verdictOnly == <<calls, record, op, waiter, age, decision, evOutbox>>
verdictVars == <<completionVars, verdictOnly>>

-----------------------------------------------------------------------------
NoRecord == [calls |-> {}, evidence |-> NoCall, proof |-> NoPage, confirmed |-> FALSE]
NoOp == [kind |-> "none", call |-> NoCall, page |-> NoPage]

VerdictTypeOK ==
    /\ CompletionTypeOK
    /\ calls \subseteq Calls
    /\ record \in [Reviews -> [calls: SUBSET Calls, evidence: Calls \cup {NoCall},
                               proof: Pages \cup {NoPage}, confirmed: BOOLEAN]]
    /\ op \in [Reviews -> [kind: {"none", "accept", "evidence"},
                           call: Calls \cup {NoCall}, page: Pages \cup {NoPage}]]
    /\ waiter \in [Reviews -> {"none", "registered", "unconfirmed", "woken", "asleep",
                               "signalled", "gone", "timeout"}]
    /\ age \in [Reviews -> 0 .. ConfirmTicks]
    /\ decision \in [Reviews -> Calls \cup {NoCall}]
    /\ evOutbox \subseteq [call: Calls, page: Pages]

VerdictInit ==
    /\ CompletionInit
    /\ calls \in SUBSET Calls
    /\ record = [r \in Reviews |-> NoRecord]
    /\ op = [r \in Reviews |-> NoOp]
    /\ waiter = [r \in Reviews |-> "none"]
    /\ age = [r \in Reviews |-> 0]
    /\ decision = [r \in Reviews |-> NoCall]
    /\ evOutbox \in {{}} \cup {{e} : e \in [call: calls, page: Pages]}

-----------------------------------------------------------------------------
(* The verdict record *)

\* binding: the loop is at a stage of this review.
Active(r) == stage[r] \in {"completion", "verdict"}
\* assertUnexpired: the window begins with the completed result.
InTime(r) == result[r].status = "COMPLETED" => age[r] < ConfirmTicks

ProvesByLease(r, p) == p = DeliveryPage \/ (Queued(r) /\ Entry(r).page = p)
                       \/ ReceiptOf(r) = [page |-> p, status |-> "completed"]
\* A page proves a call if it holds the delivery receipt or the completed
\* receipt of this very review; a lease alone proves nothing.
Proves(r, p) == p = DeliveryPage \/ ReceiptOf(r) = [page |-> p, status |-> "completed"]

\* confirm: the evidence chooses among the calls that were accepted.
Confirmed(rec) == [rec EXCEPT !.confirmed = rec.evidence \in rec.calls]

\* accept: a repeated call changes nothing; after the evidence chose, only its
\* call is accepted.
Accepts(r, c) ==
    /\ c \notin record[r].calls /\ ~record[r].confirmed
    /\ Active(r) /\ InTime(r)
    /\ record[r].evidence \in {NoCall, c}
BeginAccept(c) ==
    LET r == ReviewOf[c] IN
    /\ op[r].kind = "none" /\ c \in calls /\ Accepts(r, c)
    /\ op' = [op EXCEPT ![r] = [NoOp EXCEPT !.kind = "accept", !.call = c]]
    /\ UNCHANGED <<completionVars, calls, record, waiter, age, decision, evOutbox>>

\* The record is written some time after the checks; then the loop is woken.
Woken(w) == CASE w = "unconfirmed" -> "woken" [] w = "asleep" -> "signalled" [] OTHER -> w
WakenSleepers(r) == waiter' = [waiter EXCEPT ![r] = IF @ = "asleep" THEN "signalled" ELSE @]
Wake(r) == waiter' = [waiter EXCEPT ![r] = Woken(@)]
SaveAccept(r) ==
    /\ op[r].kind = "accept"
    /\ record' = [record EXCEPT ![r] = Confirmed([record[r] EXCEPT !.calls = @ \cup {op[r].call}])]
    /\ op' = [op EXCEPT ![r] = NoOp]
    /\ Wake(r)
    /\ UNCHANGED <<completionVars, calls, age, decision, evOutbox>>

\* POST /identity-evidence: the first proved evidence is kept, the same again is
\* accepted, all else refused; a refused one stays in the outbox, beside the
\* others, until it expires, which is longer than the window.
Fits(r, e) ==
    /\ record[r].evidence = NoCall
    /\ Active(r) /\ InTime(r) /\ Proves(r, e.page)
Repeats(r, e) ==
    /\ record[r].evidence = e.call /\ record[r].proof = e.page
    /\ record[r].confirmed \/ (Active(r) /\ InTime(r))
Posted(e) == op[ReviewOf[e.call]].kind = "none"
BeginEvidence(e) ==
    LET r == ReviewOf[e.call] IN
    /\ Posted(e) /\ Fits(r, e)
    /\ op' = [op EXCEPT ![r] = [kind |-> "evidence", call |-> e.call, page |-> e.page]]
    /\ UNCHANGED <<completionVars, calls, record, waiter, age, decision, evOutbox>>
\* The answer 202 takes the proof from the outbox, unless it is lost.
Answered(r) == evOutbox' \in {evOutbox, {e \in evOutbox : e.call # op[r].call}}
SaveEvidence(r) ==
    /\ op[r].kind = "evidence"
    /\ record' = [record EXCEPT ![r] =
            Confirmed([@ EXCEPT !.evidence = op[r].call, !.proof = op[r].page])]
    /\ op' = [op EXCEPT ![r] = NoOp]
    /\ Answered(r) /\ Wake(r)
    /\ UNCHANGED <<completionVars, calls, age, decision>>
RepeatEvidence(e) ==
    /\ Posted(e) /\ Repeats(ReviewOf[e.call], e)
    /\ evOutbox' = evOutbox \ {e}
    /\ UNCHANGED <<completionVars, calls, record, op, waiter, age, decision>>
ExpireEvidence(e) ==
    /\ stage[ReviewOf[e.call]] = "ended"
    /\ evOutbox' = evOutbox \ {e}
    /\ UNCHANGED <<completionVars, calls, record, op, waiter, age, decision>>

\* publishEvidence: a page that shows the call hands it to the worker, which
\* keeps one proof per correlation key.
ReadEvidence(p, c) ==
    /\ page[p].pc # "gone" /\ c \in calls /\ Active(ReviewOf[c])
    /\ \A e \in evOutbox : e.call # c
    /\ evOutbox' = evOutbox \cup {[call |-> c, page |-> p]}
    /\ UNCHANGED <<completionVars, calls, record, op, waiter, age, decision>>

-----------------------------------------------------------------------------
(* The loop waits for the verdict *)

\* awaitConfirmed registers, reads the record, and sleeps until it is woken or
\* the window ends; it was woken already if the record changed since it read it.
Register(r) ==
    /\ stage[r] = "verdict" /\ waiter[r] \in {"none", "signalled"}
    /\ waiter' = [waiter EXCEPT ![r] = "registered"]
    /\ UNCHANGED <<completionVars, calls, record, op, age, decision, evOutbox>>
ReadRecord(r) ==
    /\ waiter[r] = "registered"
    /\ waiter' = [waiter EXCEPT ![r] = IF record[r].confirmed THEN "gone" ELSE "unconfirmed"]
    /\ decision' = [decision EXCEPT ![r] = IF record[r].confirmed THEN record[r].evidence ELSE @]
    /\ UNCHANGED <<completionVars, calls, record, op, age, evOutbox>>
Sleep(r) ==
    /\ waiter[r] \in {"unconfirmed", "woken"}
    /\ waiter' = [waiter EXCEPT ![r] = CASE ~InTime(r) -> "timeout"
                                       [] InTime(r) /\ @ = "woken" -> "signalled"
                                       [] InTime(r) /\ @ = "unconfirmed" -> "asleep"]
    /\ UNCHANGED <<completionVars, calls, record, op, age, decision, evOutbox>>
WindowEnds(r) ==
    /\ waiter[r] = "asleep" /\ ~InTime(r)
    /\ waiter' = [waiter EXCEPT ![r] = "signalled"]
    /\ UNCHANGED <<completionVars, calls, record, op, age, decision, evOutbox>>

\* The loop acts on the verdict, or needs a human.
Decide(r) ==
    /\ stage[r] = "verdict" /\ waiter[r] \in {"gone", "timeout"}
    /\ stage' = [stage EXCEPT ![r] = "ended"]
    /\ UNCHANGED <<serviceVars, asked, result, request, collector, workerVars, pageVars, budgetVars>>
    /\ UNCHANGED verdictOnly

\* A restart loses the waiter, the operations in progress and the verdict the
\* loop had read but not saved.
VerdictCrash ==
    /\ crashes < MaxCrashes
    /\ crashes' = crashes + 1
    /\ collector' = [r \in Reviews |-> CollectorAt("idle")]
    /\ op' = [r \in Reviews |-> NoOp]
    /\ waiter' = [r \in Reviews |-> IF stage[r] = "ended" THEN waiter[r] ELSE "none"]
    /\ decision' = [r \in Reviews |-> IF stage[r] = "ended" THEN decision[r] ELSE NoCall]
    /\ UNCHANGED <<serviceVars, asked, result, request, stage, workerVars, pageVars, faults,
                   calls, record, age, evOutbox>>

VerdictTick ==
    /\ \E r \in Reviews : result[r].status = "COMPLETED" /\ age[r] < ConfirmTicks /\ stage[r] # "ended"
    /\ age' = [r \in Reviews |-> IF result[r].status = "COMPLETED" /\ age[r] < ConfirmTicks
                                 THEN age[r] + 1 ELSE age[r]]
    /\ UNCHANGED <<completionVars, calls, record, op, waiter, decision, evOutbox>>

-----------------------------------------------------------------------------
VerdictStep(r) ==
    \/ SaveAccept(r) \/ SaveEvidence(r)
    \/ Register(r) \/ ReadRecord(r) \/ Sleep(r) \/ WindowEnds(r) \/ Decide(r)
EvidenceStep ==
    \/ \E e \in evOutbox : BeginEvidence(e) \/ RepeatEvidence(e) \/ ExpireEvidence(e)
    \/ \E p \in Pages, c \in Calls : ReadEvidence(p, c)
CompletionStep ==
    /\ \/ \E r \in Reviews : CollectorStep(r) \/ ReportRecoveryFailure(r) \/ Answer(r)
       \/ WorkerStep
       \/ \E p \in Pages : PageStep(p)
       \/ Tick
    /\ UNCHANGED verdictOnly

VerdictNext ==
    \/ CompletionStep \/ EvidenceStep \/ VerdictCrash \/ VerdictTick
    \/ \E c \in Calls : BeginAccept(c)
    \/ \E r \in Reviews : VerdictStep(r)

VerdictSpec == VerdictInit /\ [][VerdictNext]_verdictVars

-----------------------------------------------------------------------------
(* Properties *)

\* A completed Review Result is the answer the page's receipt reports, also
\* after earlier timeouts, a restart between the two writes and the eviction of
\* the watch (extension-review-completion.ts:358-374).
AnswerTruthful ==
    \A r \in Reviews :
        /\ result[r].status = "COMPLETED" =>
                ReceiptOf(r) = [page |-> result[r].page, status |-> "completed"]
        /\ request[r] = "completed" => result[r].status = "COMPLETED"

\* Evidence is recorded only from the page that delivered the review or whose
\* answer is its receipt, and stays proved when the watch is evicted; the loop
\* acts only on an accepted call that such evidence names, and on no other than
\* the one that stays recorded (review-verdict-submission.ts:147-164, 249-255).
DecisionIsProved ==
    \A r \in Reviews :
        /\ record[r].evidence # NoCall =>
               \/ record[r].proof = DeliveryPage
               \/ ReceiptOf(r) = [page |-> record[r].proof, status |-> "completed"]
        /\ decision[r] # NoCall =>
               /\ record[r].confirmed /\ record[r].evidence = decision[r]
               /\ decision[r] \in record[r].calls

\* No loop sleeps through its verdict, whether it is confirmed before, during
\* or after the registration, by the call or by the evidence, or across a
\* restart (review-verdict-submission.ts:191-215).
NoVerdictMissed == \A r \in Reviews : waiter[r] = "asleep" => ~record[r].confirmed
=============================================================================

---------------------------- MODULE BrowserWorker ----------------------------
(***************************************************************************)
(* The worker that posts a review request into a ChatGPT conversation and  *)
(* reads the answer (browser-worker/), with the client that calls it over  *)
(* HTTP and the adapters that say what a result means (browser-worker-     *)
(* client.ts, browser-worker-delivery-adapter.ts).                         *)
(*                                                                         *)
(* One review request: it is posted in up to three calls, of which a next  *)
(* one is made when the last one failed in a way that may be retried, and  *)
(* then collected.  Every call has a handler and a page of its own; the    *)
(* worker goes on with a call that its client has given up.                *)
(***************************************************************************)
EXTENDS Naturals, Sequences, FiniteSets, SequencesExt

CONSTANTS
    Posts, Collects,     \* the calls, the posts in order
    WorkerScenes         \* per behaviour: the messages that are in the conversation before, whether
                         \* the worker is stopped, how many steps of the browser fail, how many
                         \* messages the assistant answers and how many somebody else writes

ASSUME BrowserWorkerAssumption ==
    /\ Posts \subseteq Nat /\ Collects \subseteq Nat /\ Posts \cap Collects = {}
    /\ \A s \in WorkerScenes :
         /\ s.stops \in BOOLEAN /\ {s.failures, s.answers, s.others} \subseteq Nat
         /\ s.earlier \in Seq([role : {"user", "assistant"}, text : 0 .. 2])

VARIABLES
    worker,      \* BrowserWorker and its BrowserProfileManager
    handler,     \* of each call: where its handler is, and what it knows
    call,        \* what the client was told
    chat,        \* the conversation, as its pages show it
    left         \* what is left of the bounds

workerVars == <<worker, handler, call, chat, left>>

Calls == Posts \cup Collects

Message(role, text) == [role |-> role, text |-> text]
Final == 2               \* a text is empty (0), begun (1) or final

\* the messages an assistant still writes: the page says so
Writing == {i \in DOMAIN chat : chat[i].role = "assistant" /\ chat[i].text < Final}

RequestAt == SelectInSeq(chat, LAMBDA m : m.role = "request")
UserMessages == Cardinality({i \in DOMAIN chat : chat[i].role \in {"user", "request"}})

\* targetAssistant: the first message of the assistant after the request
AnswerAt ==
    IF RequestAt = 0 THEN 0
    ELSE LET after == {i \in DOMAIN chat : i > RequestAt /\ chat[i].role = "assistant"}
         IN  IF after = {} THEN 0 ELSE CHOOSE i \in after : \A j \in after : i <= j

BrowserFails == left.failures > 0 /\ left' = [left EXCEPT !.failures = @ - 1]
Works == UNCHANGED left

\* misled: how often a call took its page for what it was not (history: no guard reads it)
Idle == [at |-> "idle", page |-> "none", click |-> "none", before |-> 0,
         found |-> 0, text |-> 0, stable |-> 0, result |-> "none", misled |-> 0]
MisledIf(h, wrong) == handler[h].misled + IF wrong THEN 1 ELSE 0

WorkerScene(s) ==
    /\ chat = s.earlier
    /\ left = [stops |-> s.stops, failures |-> s.failures, answers |-> s.answers,
               others |-> s.others]

WorkerInit ==
    /\ \E s \in WorkerScenes : WorkerScene(s)
    /\ worker = [status |-> "stopped", listens |-> FALSE, context |-> "none", live |-> 0, strayed |-> FALSE]
    /\ handler = [h \in Calls |-> Idle] /\ call = [h \in Calls |-> "idle"]

-----------------------------------------------------------------------------
(* BrowserWorker and BrowserProfileManager: start and stop *)

OfWorker == UNCHANGED <<handler, call, chat>>

StartWorker ==
    /\ worker.status = "stopped" /\ ~worker.strayed /\ \A h \in Calls : call[h] = "idle"
    /\ worker' = [worker EXCEPT !.status = "starting", !.context = "opening"]
    /\ OfWorker /\ Works

\* initializeInternal: the browser is there, or it could not be launched
Launched ==
    /\ worker.context = "opening"
    /\ \/ Works /\ worker' = [worker EXCEPT !.context = "open", !.live = @ + 1]
       \/ BrowserFails /\ worker' = [worker EXCEPT !.context = "none",
                                            !.status = IF @ = "starting" THEN "failed" ELSE @]
    /\ OfWorker

\* only the server is closed
KeepBrowser(w) == w

CloseBrowser(w) == [w EXCEPT !.context = "none", !.live = IF w.context = "open" THEN @ - 1 ELSE @]

\* listenServer: the port may be taken, and then closeResources
Listens ==
    /\ worker.status = "starting" /\ worker.context = "open"
    /\ \/ Works /\ worker' = [worker EXCEPT !.status = "ready", !.listens = TRUE]
       \/ BrowserFails /\ worker' = [CloseBrowser(worker) EXCEPT !.status = "failed"]
    /\ OfWorker

\* stop: first the browser with its pages, and then the server
StopWorker ==
    /\ left.stops /\ worker.status = "ready" /\ worker.context # "opening"
    /\ worker' = [CloseBrowser(worker) EXCEPT !.status = "stopping"]
    /\ handler' = [h \in Calls |-> [handler[h] EXCEPT !.page = IF @ = "open" THEN "gone" ELSE @]]
    /\ UNCHANGED <<call, chat>> /\ Works

\* closeServer takes no more calls, and waits for those at work
ServerCloses ==
    /\ worker.status = "stopping" /\ worker.listens
    /\ worker' = [worker EXCEPT !.listens = FALSE]
    /\ OfWorker /\ Works

Stopped ==
    /\ worker.status = "stopping" /\ ~worker.listens
    /\ \A h \in Calls : handler[h].at \in {"idle", "done"}
    /\ worker' = [worker EXCEPT !.status = "stopped"]
    /\ OfWorker /\ Works

WorkerStep == StartWorker \/ Launched \/ Listens \/ StopWorker \/ ServerCloses \/ Stopped

-----------------------------------------------------------------------------
(* BrowserWorkerClient, and what its adapters take for worth another call *)

Retryable == {"SUBMIT_FAILED", "COMPOSER_NOT_FOUND", "TIMEOUT", "UNAVAILABLE"}

MayPost(h) == \A g \in Posts : g < h => call[g] \in Retryable
MayCollect == \E g \in Posts : call[g] = "SUBMITTED"

CallWorker(h) ==
    /\ call[h] = "idle" /\ worker.status # "starting" /\ \A g \in Calls : call[g] # "asked"
    /\ IF h \in Posts THEN MayPost(h) ELSE MayCollect
    /\ IF worker.listens
       THEN /\ call' = [call EXCEPT ![h] = "asked"]
            /\ handler' = [handler EXCEPT ![h].at = "context"]
       ELSE call' = [call EXCEPT ![h] = "UNAVAILABLE"] /\ UNCHANGED handler
    /\ UNCHANGED <<worker, chat>> /\ Works

\* the timer of the client
GivesUp(h) ==
    /\ call[h] = "asked"
    /\ call' = [call EXCEPT ![h] = "TIMEOUT"]
    /\ UNCHANGED <<worker, handler, chat>> /\ Works

-----------------------------------------------------------------------------
(* The handlers *)

At(h, place) == handler[h].at = place /\ handler[h].page # "gone"
Proceeds(h, place) == handler' = [handler EXCEPT ![h].at = place]
OfHandler == UNCHANGED <<worker, call, chat>>

\* the finally of a handler closes its page
Ends(h, result) == handler' = [handler EXCEPT ![h].at = "answer", ![h].result = result]
FailureOf(h) == IF h \in Posts THEN "SUBMIT_FAILED" ELSE "FAILED"
KeptPage(h) == handler[h].page
ClosedPage(h) == "none"

\* the page opens at the conversation; one that did not get there is closed at once
Navigates(h) ==
    \/ /\ Works
       /\ handler' = [handler EXCEPT ![h].page = "open", ![h].at = IF h \in Posts THEN "inspect" ELSE "poll"]
    \/ /\ BrowserFails
       /\ \E failed \in {"AUTH_REQUIRED", "CONVERSATION_NOT_FOUND", "SUBMIT_FAILED"} :
            Ends(h, IF h \in Posts THEN failed ELSE "FAILED")

\* initialize: the context that is there; one that is being launched is joined
Opens(h) ==
    /\ At(h, "context")
    /\ IF worker.context = "open" THEN Navigates(h) /\ UNCHANGED worker
       ELSE /\ Proceeds(h, "joined") /\ Works
            /\ IF worker.context = "none"
               THEN worker' = [worker EXCEPT !.context = "opening", !.strayed = TRUE] ELSE UNCHANGED worker
    /\ UNCHANGED <<call, chat>>

\* one who joined a launch that failed waits for the next one
JoinedLaunched(h) == worker.context = "open" /\ Navigates(h)

JoinedEnds(h) ==
    \/ worker.context = "open" /\ Navigates(h)
    \/ worker.context = "none" /\ Ends(h, FailureOf(h)) /\ Works

Joined(h) == At(h, "joined") /\ JoinedEnds(h) /\ OfHandler

\* whatever is asked of a page whose browser is closed fails
PageGone(h) ==
    /\ handler[h].page = "gone" /\ handler[h].at \notin {"answer", "done"}
    /\ Ends(h, FailureOf(h))
    /\ OfHandler /\ Works

\* a client that has given up is told nothing
Answers(h) ==
    /\ handler[h].at = "answer"
    /\ handler' = [handler EXCEPT ![h] = [Idle EXCEPT !.at = "done", !.page = ClosedPage(h),
                                              !.click = handler[h].click, !.found = handler[h].found,
                                              !.misled = handler[h].misled]]
    /\ call' = IF call[h] = "asked" THEN [call EXCEPT ![h] = handler[h].result] ELSE call
    /\ UNCHANGED <<worker, chat>> /\ Works

-----------------------------------------------------------------------------
(* ChatGPTInteraction.submitMessage *)

\* the composer is located, and the user messages are counted: when that fails, it has counted none
Inspects(h) ==
    /\ At(h, "inspect")
    /\ \/ Works /\ handler' = [handler EXCEPT ![h].at = "click", ![h].before = UserMessages]
       \/ /\ BrowserFails
          /\ handler' = [handler EXCEPT ![h].at = "click", ![h].before = 0,
                                        ![h].misled = MisledIf(h, UserMessages > 0)]
       \/ BrowserFails /\ \E failed \in {"AUTH_REQUIRED", "COMPOSER_NOT_FOUND"} : Ends(h, failed)
    /\ OfHandler

\* filled, read again, the button is enabled, and clicked: which may throw and have reached the page
Clicks(h) ==
    /\ At(h, "click")
    /\ \/ Works /\ handler' = [handler EXCEPT ![h].at = "confirm", ![h].click = "pending"]
       \/ BrowserFails /\ \E reached \in {"none", "pending"} :
            handler' = [handler EXCEPT ![h].at = "answer", ![h].result = "SUBMIT_FAILED", ![h].click = reached]
    /\ OfHandler

\* the click is enough
Clicked(h) == TRUE

\* the composer is empty once its page has posted, or there is one more message
Accepted(h) == handler[h].click = "posted" \/ UserMessages > handler[h].before

\* it is asked again and again for 2 seconds; what fails shows nothing new, unless it is the value
\* of the composer: its text, read instead, is empty
Confirms(h) ==
    /\ At(h, "confirm")
    /\ \/ Works /\ Ends(h, IF Accepted(h) THEN "SUBMITTED" ELSE "SUBMIT_FAILED")
       \/ BrowserFails /\ Ends(h, "SUBMIT_FAILED")
       \/ /\ BrowserFails
          /\ handler' = [handler EXCEPT ![h].at = "answer", ![h].result = "SUBMITTED",
                                        ![h].misled = MisledIf(h, ~Accepted(h))]
    /\ OfHandler

PostStep(h) == Inspects(h) \/ Clicks(h) \/ Confirms(h)

-----------------------------------------------------------------------------
(* ChatGPTCompletionDetector.waitForCompletion: a poll reads the messages, *)
(* and then whether the page still writes                                  *)

Polls(h) ==
    /\ At(h, "poll")
    /\ \/ /\ Works
          /\ handler' = [handler EXCEPT ![h].at = "look", ![h].before = AnswerAt,
                                        ![h].found = IF AnswerAt = 0 THEN 0 ELSE chat[AnswerAt].text]
       \/ BrowserFails /\ Ends(h, "FAILED")
    /\ OfHandler

\* also while it is being written
SameText(h, writing) ==
    IF handler[h].found = 0 THEN 0 ELSE IF handler[h].found = handler[h].text THEN handler[h].stable + 1 ELSE 1

\* stablePolls
SameFinished(h, writing) ==
    IF handler[h].found = 0 \/ writing THEN 0
    ELSE IF handler[h].found = handler[h].text THEN handler[h].stable + 1 ELSE 1

Looked(h, writing, misled) ==
    handler' = [handler EXCEPT ![h].text = handler[h].found, ![h].stable = SameFinished(h, writing),
                               ![h].at = IF SameFinished(h, writing) >= 2 THEN "extract" ELSE "poll",
                               ![h].misled = misled]

\* what writes and cannot be told to be visible is taken for hidden
Looks(h) ==
    /\ At(h, "look")
    /\ \/ Works /\ Looked(h, Writing # {}, handler[h].misled)
       \/ BrowserFails /\ Looked(h, FALSE, MisledIf(h, Writing # {}))
       \/ BrowserFails /\ Ends(h, "FAILED")
    /\ OfHandler

DetectionTimesOut(h) == At(h, "poll") /\ Ends(h, "TIMEOUT") /\ OfHandler /\ Works

\* ChatGPTResultExtractor.extract looks for the request again
Extracts(h) ==
    /\ At(h, "extract")
    /\ LET index == handler[h].before IN
       \/ /\ Works /\ RequestAt # 0 /\ RequestAt < index /\ chat[index].text > 0
          /\ handler' = [handler EXCEPT ![h].at = "answer", ![h].result = "COMPLETED", ![h].found = chat[index].text]
       \/ BrowserFails /\ Ends(h, "FAILED")
    /\ OfHandler

CollectStep(h) == Polls(h) \/ Looks(h) \/ DetectionTimesOut(h) \/ Extracts(h)

HandlerStep(h) ==
    \/ Opens(h) \/ Joined(h) \/ PageGone(h) \/ Answers(h)
    \/ PostStep(h) \/ CollectStep(h)

-----------------------------------------------------------------------------
(* ChatGPT *)

OfChat == UNCHANGED <<worker, call, left>>

\* what was clicked is posted at once, later, also when it was given up, or never
ChatPosts(h) ==
    /\ handler[h].click = "pending"
    /\ chat' = Append(chat, Message("request", Final))
    /\ handler' = [handler EXCEPT ![h].click = "posted"]
    /\ OfChat

\* somebody else writes into the conversation; a call that has counted will count one more
OthersWrite ==
    /\ left.others > 0 /\ left' = [left EXCEPT !.others = @ - 1]
    /\ chat' = Append(chat, Message("user", Final))
    /\ handler' = [h \in Calls |-> [handler[h] EXCEPT
                      !.misled = MisledIf(h, handler[h].at \in {"click", "confirm"})]]
    /\ UNCHANGED <<worker, call>>

ChatAnswers ==
    /\ left.answers > 0 /\ left' = [left EXCEPT !.answers = @ - 1]
    /\ chat # <<>> /\ Last(chat).role # "assistant"
    /\ chat' = Append(chat, Message("assistant", 0))
    /\ UNCHANGED <<worker, handler, call>>

ChatWrites ==
    /\ \E i \in Writing : chat' = [chat EXCEPT ![i].text = @ + 1]
    /\ UNCHANGED handler /\ OfChat

WorkerNext ==
    \/ WorkerStep \/ OthersWrite \/ ChatAnswers \/ ChatWrites
    \/ \E h \in Calls : CallWorker(h) \/ GivesUp(h) \/ HandlerStep(h) \/ ChatPosts(h)

\* The steps of a handler and of a start or stop come in turn; the browser answers
\* what is asked of it within its own timeouts, and a detection ends with its deadline.
WorkerFairness ==
    /\ WF_workerVars(Launched) /\ WF_workerVars(ServerCloses) /\ WF_workerVars(Stopped)
    /\ \A h \in Calls : WF_workerVars(HandlerStep(h))
    /\ \A h \in Collects : SF_workerVars(DetectionTimesOut(h))

-----------------------------------------------------------------------------
(* Properties *)

\* What the worker reports is so, as long as its page does not mislead it: a request that
\* was submitted is in the conversation, and what was collected is the whole text of its
\* first answer.  A post is misled by one failing read that counts as none or as empty, or
\* by a message of somebody else after its count; a collection by no less than two failing
\* looks at whether the page still writes.
ReportsAreTrue ==
    /\ \A h \in Posts : call[h] = "SUBMITTED" /\ handler[h].misled = 0 => RequestAt # 0
    /\ \A h \in Collects : call[h] = "COMPLETED" /\ handler[h].misled < 2 => handler[h].found = Final

\* Nothing is left open: a worker that has stopped or failed to start has no browser,
\* unless a call that came in during the stop launched one; a handler that is done has no page.
NothingLeftOpen ==
    /\ worker.status \in {"stopped", "failed"} /\ ~worker.strayed => worker.live = 0
    /\ \A h \in Calls : handler[h].at = "done" => handler[h].page = "none"

\* Every call is carried to its end, also one that its client has given up, and a
\* stop that waits for the calls at work comes to its end.
CallsEnd ==
    []<>(worker.status # "stopping" /\ \A h \in Calls : handler[h].at \in {"idle", "done"})
=============================================================================

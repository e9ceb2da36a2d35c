# Local Review MCP in TLA+

Local Review MCP connects a ChatGPT conversation with a local Codex agent. A
goal submitted in ChatGPT starts a Codex execution; when it ends, its result is
delivered into the conversation as a review request, ChatGPT answers with a
verdict, and the runtime approves, asks a human, or starts the next iteration.
All of it runs unattended, across restarts of the runtime, a browser extension
whose worker is suspended at any moment, pages that navigate, and processes
that die half way. This directory holds the specifications of that protocol,
the instances TLC checks and the theorems TLAPS proves.

## The system

| part | state it keeps | operations | hard behaviour | what makes it correct |
|---|---|---|---|---|
| durable command service (`control-plane/extension-delivery.ts`) | commands with lease and receipt, archived notices, waiters | enqueue, claim, acknowledge, awaitResult, expire, reportRecoveryFailure | leases expire under a working page; capacity; retries beside late acknowledgements | one lease per document, stable receipts, results never lost, file always restorable |
| extension worker (`extension/background.js`) | in-flight list and acknowledgement outbox in chrome.storage, a serial queue | claim, submit started, acknowledge, recovery alarm | suspension between any two awaits, lost requests and answers | outbox drains, armed submits are answered for |
| content script (`extension/content.js`, `chatgpt-dom.js`) | poll state, navigation epoch | poll, insert, click, report | navigation or closing during every await | a message is posted at most once and the report is true |
| execution adapter and completion (`codex-execution-*.ts`) | records, processes, exit files | start, observe exit, recover | exit before the process id is saved; torn files; restart | one launch, an earned outcome that stays, every end found |
| controlled actuation (`controlled-actuation.ts`) | authorizations and actuations | authorize, actuate, recover | crash around the launch of a process; two requests for one execution | a launch is authorized, "started" is true, nobody waits for ever |
| automatic iteration (`auto-iteration.ts`) with the review records (`context/*`) | one loop record per task, flights, timers | start, advance, execution terminal, recover | crash between a record and its checkpoint; retries; notifications | budgets, one launch per iteration, turns taken in order, progress |
| goal orchestration (`goal-orchestration.ts`) | goals with tasks, phases and retry counters | create, drive, recover, terminal of a loop | several records read one after the other while the loop runs on | the plan is kept, a human is called only with cause |
| goal submission (`pending-goal-submission.ts`, identity inbox) | submissions, evidence | accept, resolve, start, expire, recover | evidence and tool calls in any order, repeated, for two conversations | one goal per submission, no evidence lost, settled in the end |
| review completion and verdicts (`extension-review-completion.ts`, `review-verdict-submission.ts`) | watches, receipts, verdict calls and their evidence | collect, report, submit, confirm, await | answer of the wrong turn, evidence before the call, eviction | the answer is the recorded one, a verdict is proved and never missed |
| interactive executions (`desktop-codex/*`, `backends/codex_app_server/*`, `capability-negotiation.ts`) | sessions, turns, bindings, negotiation contexts | dispatch, bind, observe, fall back, reconcile | a lost answer to the call that starts a turn; foreign turns in the thread | one dispatch, own turns only, every end noticed |
| OAuth and grants (`auth/*`) | clients, codes, pairs, grants, migration marker | register, exchange, rotate, grant, revoke, migrate | writes that fail one by one, stops between them | a code is exchanged once, what was issued stays, revocation holds |
| workspace edit (`workspace/edit.ts`) | queue per file, helper process | edit | another writer between read and commit | no edit overwrites another |
| connections of the host (`desktop-sync/*`, `client.ts`, `browser-worker/*`) | sockets, pending requests, turns, pages | connect, request, observe, post, stop | reconnection, late answers, ends at any moment | nothing of an earlier connection is used, callers are released, nothing stays open |
| supervisor and tunnel (`supervisor/*`, `tunnel/*`) | desired state, process, tunnel, timers | start, stop, restart, exit, monitor | overlapping requests, kills that do not take | one runtime and one tunnel, down owns nothing |
| loop control, configuration, diagnostics, launcher, scripts | — | — | — | not modelled: pure functions, parsing, reporting, user interface |

How they interact: `AutoIteration` drives everything through durable records;
it calls the actuation service, the review services and the browser router,
which calls the extension adapter, whose broker enqueues a command and waits
for its receipt. Extension and runtime talk only over HTTP requests the
extension starts (claim, ack, completion), so the runtime never knows whether a
claimed command is still being worked on. A terminal execution calls back into
the loop, and the end of a loop into its goal. All services of the runtime live
in one Node process; each keeps its state in files written by rename and
serialises its own operations. The supervisor runs outside and starts, watches
and stops that process.

## The modules

A handler that runs inside its service's exclusive queue and writes its file
before it changes memory is one action; any other handler is cut at its awaits
that let something else happen: requests, storage commits, durable writes,
process starts. `Restart` loses what is in memory. Failing operations and stops
are counted by bounds that the configurations name.

**Delivery.** `ExtensionDelivery` is the command service. `deliveries` stands
for the two Maps (`at` tells which), `saved` for the copy that eviction writes
into the owning review or execution, `settled` for reviews whose delivery record
says delivered. `EvictionInterrupted` is the stop between that copy and the
queue's own write. A lease deadline is a number of ticks; `Tick` ages all.
`ExtensionTransport` extends it with the worker and the pages: a worker runs one
task of its serial queue at a time, cut at every request and commit (`flush`,
`remove`, `claim`, `record`), which is where `Suspend` can hit; `PostAckLost`
and `PostClaimLost` lose the request or only its answer; `Navigate` moves the
epoch at once while the worker hears of it later (`Register`); `posted` counts
what ChatGPT really got. `AtMostOnceDelivery` is the abstract promise.

**Executions.** `ExecutionLife` is the abstract life of an execution record:
created, running, one outcome that stays. `CodexExecution` is the batch adapter
and the completion service: its actions are the stretches between two file
operations of `start`, of the exit observer and of the recovery; what a process
writes is abstracted to the turn events that decide its outcome and to whether
they were flushed. `ControlledActuation` extends it: an authorization is used
once to reserve an actuation, a reservation once to start an execution, and a
request that finds a start under way joins it.

**Interactive executions.** `InteractiveRecords` holds what the two backends
share (execution, actuation, session; one update of a record is one step),
`CapabilityNegotiation` the choice of the backend with its timer and the user's
decision, `DesktopExecution` and `ServerExecution` the two backends from the
dispatch of a turn to its settlement, `InteractiveExecution` composes them with
actuation, notification and restarts.

**The loop.** `ReviewLoop` is what the automatic review promises: executions and
reviews take turns, and each turn is earned by the one before. `AutoIteration`
is the loop of one task: `loop` is the checkpoint of `auto-iterations.json`,
`task` the status of its TaskContext, and `request`, `routing`, `delivery` and
`result` the records of the review services per *round* (the review of an
iteration, or the follow-up that asks for a verdict). A *flight* is the promise
that `serial()` keeps per loop. Every action performs one durable write.
Iterations in `LegacyReviews` are answered in the text of the review. Below the
loop, the chat is `AtMostOnceDelivery` and executions end as `CodexExecution`
says, so the layers are checked one at a time.

**Goals.** `GoalPlan` is what a goal keeps of its plan. `GoalOrchestration` runs
the tasks of a goal: a drive reads task, actuation and loop in three steps, and
writes the goal; listeners, timers and the recovery start drives.
`GoalSubmission` is the submission with the identity inbox: evidence, tool calls,
the resolution of both, the start of the goal in two writes, expiry and the two
clean-ups at a start.

**Reviews.** `ReviewCompletion` is the service that collects answers: a queue of
watches with leases, receipts, eviction into the results, workers and pages that
scan, report and are suspended. `ReviewVerdict` extends it with the verdict
calls, the page evidence that names them and the wait of the loop.

**Connections and workspaces.** `InstanceOAuth` is the authorization server with
its files and the migration at each start; `WorkspaceEdit` the queue of edits of
a file with the helper process; `InstanceAccess` joins them with grants and
calls. `DesktopLink` is the connection to Codex Desktop with its sockets, hooks
and activations; `FrameParser` the parser of that connection, fed with chunks;
`AppServerClient` the client of the app-server with its process, timers, turns and
watchers; `BrowserWorker` the worker with its browser, client, post and
detection. `HostConnections` lets each behaviour exercise one of them (`used`),
since they share no state.

**Processes.** `EventLoop` models what Node runs next: jobs that are ready,
timers that may fire, exit events. `RuntimeProcess` and `CloudflareTunnel` are the
two processes with the managers' calls, and `Supervisor` composes them with its
own calls, monitor timer and restarts.

| abstract specification | implemented by | in run | proved |
|---|---|---|---|
| `AtMostOnceDelivery` | `ExtensionTransport` | `transport_promise` | `TransportDelivers` (one browser) |
| `ExecutionLife` | `CodexExecution` within `ControlledActuation` | `actuation` | `ExecutionsLive` |
| `ReviewLoop` | `AutoIteration` | `loop` | `ImplementsReviewLoop` |
| `GoalPlan` | `GoalOrchestration` | `goal` | no |

`*_proofs` modules hold the theorems; `MC*` modules hold the instances that need
definitions, the other runs take the module itself.

## What the runs check

| run | checks | instance |
|---|---|---|
| `delivery` | `Restorable`, `ReceiptStable`, `ResultKept`: whatever a sequence of calls writes, the next start accepts it; a receipt changes only by the late answer of its owner; a result that somebody needs is in the queue or copied out | 3 documents in 2 conversations, a review and a failure notice, 3 commands in a queue of 2, leases of 2 ticks, one caller that waits |
| `delivery_promotion` | `AmbiguousNeverPromoted` is violated (see divergences) | 2 documents, 1 review |
| `transport_safety` | `PostedAsReported`: a message is posted at most once, not at all when its receipt says so, and at least once when it says that it was | 1 browser, 2 documents that navigate once each, a review and its retry |
| `transport_promise` | `AtMostOnce` (the refinement), `OutcomesArrive`: every armed submit is answered for and no acknowledgement stays in the outbox | the same without navigation |
| `actuation` | `PassedIsEarned`, `StartedIsReal`, `ImplementsLife`, `NothingHangs`: an execution passes only on evidence; a launch is authorized and what is called started runs; an observed end becomes the outcome and every request is answered | 2 authorizations for one execution, 2 stops, 1 failing file operation |
| `loop` | `NoSecondLaunch`, `ImplementsLoop`, `LoopMovesOn` | 2 iterations, the first reviewed by text; 1 attempt of a delivery, 2 of a collection, 1 retry after an infrastructure failure; 1 stop, 1 failing read or write, 1 failing launch |
| `goal` | `HumanIsEarned`, `PlanKept`, `EndedLoopFollowed` | a plan of 2 phases with one kind of failure, or a review goal with two |
| `submission` | `StartedOnce`, `NoLostEvidence`, `SubmissionSettles` | 2 conversations, 2 ticks of time, lifetimes of 1 and 2, 1 stop, 1 kind of failure |
| `review` | `AnswerTruthful`, `DecisionIsProved`, `NoVerdictMissed` | 2 reviews and a queue of one watch; or one review with 2 pages, or with 1 or 2 verdict calls; 1 stop and 1 failing write, spent beforehand in the largest two |
| `interactive` | `DispatchedOnce`, `PassedIsOurs`, `EndsAreNoticed` | an execution with a second actuation or a continuation; one failure, stop or manual action, or two of them |
| `host` | nine invariants and `Reconnects`, `ConnectionReleasesAll`, `CallsEnd` of the connections, one connection per behaviour | per connection a set of cases in `MCHostConnections` |
| `supervisor` | `OneOfEach`, `DownOwnsNothing`, `Settles` | settings with 0, 1 and 2 restarts, 2 requests, 2 failures (1 without restarts) |

Some properties say one thing of several places. `PostedAsReported` bounds the
posts of a key from both sides; `OutcomesArrive` is said of submits and of the
outbox; `NothingHangs` of observed ends and of requests; `StartedOnce` of the
goals that run and of what the file says; `LoopMovesOn` of each stage of the
loop; `EndsAreNoticed` of each way an execution may end.

### Bounds

Stops and failures are counted, budgets are one or two, and everything else is
finite by itself. One stop interrupts each handler once and resumes it; two are
needed where the recovery itself writes, which is why actuation and the grants
get two. Two documents are enough for a stale one beside a current one; a third
one in a second conversation shows that leases of different conversations do not
disturb each other. Two iterations let a review lead to a launch and to the end.
In the scenes of `host` that are about grants two tokens may expire, because the
grants depend on whether those of an earlier version still live: with one, TLC
misses the case below that the proof found. The scenes about edits have none.
The browser worker has one failing step where the user has written before, two (as
one does not spoil an answer) and one message of somebody else.
A theorem has none of these bounds.

### Where the code does otherwise than it says

Checked: a late acknowledgement promotes an ambiguous delivery to delivered
(`delivery_promotion`), against `docs/reliable-extension-delivery.md:150-153`.
The code is right to do so, since the page knows best.

Found while modelling and proving; each is kept as it is in the model, or left
out of it as noted:

- Two browsers paired with one runtime can post a message twice, as the durable
  submitting marker lives in the browser (`docs/reliable-extension-delivery.md:76-77`
  promises more). The transport theorems therefore assume `OneBrowser`.
- A start that stops, or fails to write a grant, after the clients of an earlier
  version were merged leaves them without grants. If the tokens of that version
  then expire, the next start takes the merged clients for a global registry and
  grants the active workspace, which nobody had granted (`migration.ts:144-146`,
  `206-212`). `MergedBefore` of `Inherited` is this case; the proof of
  `GrantsFollowUser` does not go through without it. A marker that could not be
  written has the same effect for clients registered since.
- Supervisor: a stop overtaken by a restart while the tunnel takes its 5 seconds
  to end leaves STOPPED with a live tunnel, and a restart overtaken by an exit can
  leave a runtime that serves on; `enterError` without allowed restarts is not
  recorded as a recovery, so that a start beside it ends in ERROR with a tunnel;
  a start while DEGRADED beside a runtime whose death is not reported yet lets a
  recovery begin beside its cleanup. `DownOwnsNothing` excludes requests that
  overlap; `OneOfEach` and `Settles` do not.
- Desktop: `desktop-tools-pipe-resolver.ts:60` is wrong for a hook of an earlier
  Desktop that posts after the next one connected. An initialize response that
  shares its chunk with an unreadable header is lost and not asked for again. A
  binary frame whose low length byte is 9, 10, 13 or 32 is misread when fewer
  than four bytes of it come first; `ChunksDoNotMatter` excludes this case.
- App-server: a response after its timeout ends the whole client
  (`client.ts:387`); `child.stdin` has no error listener (`client.ts:366`).
- Browser worker: its client gives up after 5 seconds and may try again while the
  worker still posts; a stop closes the profile before the server, so that a call
  arriving between them launches a browser nobody closes
  (`docs/browser-worker-architecture.md:86-87`), which `NothingLeftOpen` excludes
  by name (`strayed`); a crashed browser stays cached. A read that fails is taken
  for nothing: a count of user messages for 0 (`chatgpt-interaction.ts:86-92`, used
  at 139), so that an earlier message of the user confirms a click that posted
  nothing; the value of a text area for its text, which is empty (`43-53`, used at
  168); a sign of writing for hidden (`detector.ts:97`), so that two of them in a
  row let an unfinished answer count as complete. A message that somebody else writes
  between count and confirmation counts as the request as well. The docs speak of a
  submission that was confirmed (`docs/browser-worker-architecture.md:77-78`);
  `misled` of a handler counts these cases, and `ReportsAreTrue` says that there are
  no others, and that one failing look alone does not spoil an answer.

Hazards seen without a property: a waiter that registers after the receipt
(`extension-delivery.ts:600`, harmless), a process id reused after a restart
(`codex-execution-completion.ts:503`), a torn file that hides the other
executions of its task (`execution-service.ts:172`), a second actuation that marks
a healthy execution failed (`controlled-actuation.ts:719`), a completion the
service refuses and that stays first in the outbox (`background.js:981`), an
expiry timer whose save fails, a grant revoked while an edit is under way
(`edit.ts:56`), and credentials of an earlier version that return at each start
after they were rotated or deleted (`migration.ts:187`).

## Fairness

- Transport: the serial queue is served, the one-minute alarm recurs, requests
  and commits succeed if tried again and again (strong fairness: they may fail
  infinitely often), time passes. Nothing is assumed of pages.
- Executions and actuation: what the runtime awaits is resolved, as Node runs
  the next step of a promise. Processes need not end, nothing need be started.
- Loop and goals: every wait of a flight has a timeout in the code, timers fire,
  notifications and the recovery at the start are not dropped. Nobody need call
  `start` or `advance`; the chat and the executions need do nothing. The parts of
  `LoopMovesOn` about notifications are claimed without failing reads and
  writes, because `advanceNotifiedLoop` only logs an error.
- Submissions: a runtime that stopped is started again, timers fire, and files
  are readable again in the end.
- Interactive executions: the process goes on with what it has begun; users and
  the provider owe nothing.
- Host: the events of sockets and timers that are due are run; handlers of the
  browser worker go on, and a detection ends with its deadline.
- Supervisor: the event loop runs what is ready, timers fire, a child that was
  killed for good ends.

## What is proved

All theorems hold for every value of the constants that satisfies the named
assumptions of the modules; these say what the constants are (finite sets,
bounds in `Nat`, disjoint names) and nothing about the behaviour, with two
exceptions: `OneBrowser`, and `FramesAssumption`, by which the streams are
well-formed: frames that `serializeDesktopIPCMessage` or a JSON line could be, of
at most 255 bytes each where a length is sent, and of no length that looks like
a blank. (Such a length loses its first byte when that byte comes alone, because
the parser skips blanks before it knows the kind of the frame.) Each theorem is
proved from an inductive invariant, because the property itself is not inductive.
Where a step repeats (the frames of a chunk, the rounds of the parser) the proof
takes the first repetition at which the claim fails and refutes it
(`LeastOfSome`, from the well-founded order of `Nat`).

| module | theorems | what the invariant adds, and why |
|---|---|---|
| `ExtensionTransport_proofs`, the service | `TypeCorrect`, `AlwaysRestorable` [`Restorable`], `LeasesAlwaysFit`, `RetriesFenced`, `ReceiptsStable` [`ReceiptStable`], `LiveLeasesKept`, `ResultsKept` [`ResultKept`] | each command is well formed (`CommandOK`), keys and lease owners are distinct and ids beyond `nextId` unused (`Sound`); most actions only reduce commands (`Reduces`), which one lemma settles. A result is kept because a command leaves its key only unsent (a retry), archived, or copied to the record that owns the key (`NextKeepsResult`), and that copy is never replaced, since no command is created for its key again (`NextKeepsCopy`) |
| `ExtensionTransport_proofs`, the transport | `TransportTypeCorrect`, `AlwaysPostedAsReported` [`PostedAsReported`], `TransportDelivers` [`AtMostOnce`] | what every entry, acknowledgement, task and page knows is true of the command it names (`EntryOK`, `AckOK`, `TaskOK`, `PageOK`, `CommandTrue`): a page that may still post is the only one, because the command it works for is leased to it or retired as ambiguous, which is never requeued. The refinement follows from how a step changes each key's view (`Views`, `Moves`). Under `OneBrowser` |
| `ControlledActuation_proofs` | `ActuationTypeCorrect`, `AlwaysEarned` [`PassedIsEarned`], `AlwaysReal` [`StartedIsReal`], `ExecutionsLive` [`ImplementsLife`] | per execution, how far its start, its writer and its evidence are (`StartOK`, `WriterOK`, `EvidenceOK`); per authorization, that what was begun was reserved by it (`RequestOK`, `BegunOK`) |
| `AutoIteration_proofs` | `AutoTypeCorrect`, `DeliveriesInBudget`, `NeverSecondLaunch` [`NoSecondLaunch`], `ImplementsReviewLoop` [`ImplementsLoop`], `TurnsAlwaysTaken`, `EndsAreFinal` | what was never reserved was never launched, and a flight creates an execution only after its reservation (`Launched`); a pending delivery was never attempted (`Tried`). For the refinement: a flight is only where its stage leads it (`PlacesFit`), what is reviewed has passed and no later iteration has begun (`Reviewed`), an execution is there only if its actuation was reserved (`Actuations`), and an answer that was told is the one recorded (`Answered`). The last two theorems are those of the abstract loop, said of the checkpoint |
| `GoalOrchestration_proofs` | `GoalTypeCorrect`, `HumansEarned` [`HumanIsEarned`], `ImplementsGoalPlan` [`PlanKept`] | the records of a task are written in one order, so that what a stop leaves behind tells how far the launch came (`Records`, `LaunchOK`); tasks before the current one were approved and later ones are untouched (`Told`, `Untouched`); what a flight has read may have changed since, but only as its loop went on (`ReadOK`); and where nothing failed a launch starts from nothing (`Clean`), so that any conflict of the records has one of the reasons (`ConflictEarned`) |
| `ControlPlane_proofs`, submissions | `SubmissionTypeCorrect`, `AlwaysStartedOnce` [`StartedOnce`], `NeverLostEvidence` [`NoLostEvidence`] | evidence not yet read is still in the inbox (`Unread`), a start is tried only for what the file says (`Tried`), and what waits is awaited (`AwaitedBy`) |
| `ControlPlane_proofs`, interactive executions | `ExecutionTypeCorrect`, `NeverSentTwice` [`DispatchedOnce`], `OnlyItsTurnPasses` [`PassedIsOurs`] | what was dispatched is the turn the provider has, and was recorded before (`SentOK`); the place of a start tells whether it was dispatched (`OpOK`), so that no second start gets there; the observer, the queued events and the completion job know no turn but the one of the execution (`WatchOK`, `EventsOK`, `JobOK`); and the initial execution is given away once in the life of a process (`CapOK`) |
| `ReviewVerdict_proofs` | `VerdictTypeCorrect`, `AlwaysTruthful` [`AnswerTruthful`], `AlwaysProved` [`DecisionIsProved`], `NeverMissed` [`NoVerdictMissed`] | receipts are kept until their result is copied (`QueueOK`), every stage of a collection and a verdict holds what the next one relies on (`AnswerOK`, `VerdictOK`) |
| `HostConnections_proofs` | `AlwaysExchangedOnce` [`ExchangedOnce`], `AlwaysKept` [`IssuedIsKept`], `GrantsAlwaysFollow` [`GrantsFollowUser`], `EditsAlwaysKept` [`EditKept`], `AlwaysToldTruly` [`TurnsToldTruly`], `ReportsAlwaysTrue` [`ReportsAreTrue`], `NeverLeftOpen` [`NothingLeftOpen`], `AlwaysThisConnection` [`OnlyThisConnection`], `AlwaysWholeFrames` [`ChunksDoNotMatter`] | one invariant per connection. Clients and tokens are in the files, in memory and in what a start is about to write, no exchanged token is, and while grants may still be derived there is nothing to derive them from but the earlier version (`AccessInv`); the edit that works is the first of its path (`EditInv`); a turn that is not sent is unknown to the app-server (`ServerInv`); a handler that was not misled remembers no more of the conversation than is there, its count and its place in it stay right while messages are added (`AnswerStays`), and one that was misled at most once has looked right at one of the two looks that found the same text (`PostingInv`); what is known of Desktop, handed over and opened was said, handed and opened on the connection there is, what is still in its socket too, and without one nothing is kept (`LinkInv`); the messages received are the first frames of the stream, and the buffer is the beginning of the next one and shorter than it (`FramesInv`), because each round of the parser takes one frame when all of its bytes are there and leaves the buffer alone when they are not (`FrameIsCut`, `NextFrame`) |
| `Supervisor_proofs` | `AlwaysOneOfEach` [`OneOfEach`], `DownAlwaysOwnsNothing` [`DownOwnsNothing`] | whatever lives is the child of its manager, also after a stop that timed out (`ChildLives`); the provider of the tunnel has no child to forget when an attempt begins, because one that is not starting has a child only when the tunnel is up (`CloudLives`). For the second, where each call is and what it awaits (`Threading`), and, while the requests are ordered: only threads that give up work at the same time (`OneWorks`), a call that was waiting goes on when nothing is under way (`TurnOf`), and the place of the one that works tells the state (`StateTells`) and what is released (`Releases`) |

A type invariant that holds a whole record is stated in the proof module where
the model's own one leaves a field open that a proof needs (`AccessTypes`,
`KnownTokens`: only the tokens of pairs that exist).

Only model-checked:

- every liveness property, and what rests on `ENABLED`: out of the prover's reach.

Every invariant that a run checks, and every refinement, is a theorem.

## What is not modelled

Parsing, validation of corrupted records, pairing, wording, logging and user
interfaces; the MCP server beyond authentication, authorization and the edit
tool; diagnostics, probes and smoke tests; the connector and the status query,
which read what others write; Git. The walk of `fiber.js` over React internals is
a function of a DOM; what a scan may report is a choice in `ReviewCompletion`.
`PROJECT.json` gives the reason for each component. As these are large, the
model covers about a fifth of the lines of the repository.

Simplifications inside the modelled parts: one update of a record is one step in
`InteractiveRecords`; the provider lists the turns of a thread completely; the
OAuth endpoints serve one resource; a damaged grants file is not deleted by
hand; a torn registry of the earlier version counts as unreadable with both
files; the helper of an edit commits at once or never when the runtime stops.
Supervisor: one check of the tunnel's health is one step, one exit handler runs
at a time, and the disabled and manual tunnel providers are left out. Desktop: at
most two sockets at a time. Browser worker: ChatGPT empties the composer only when it shows the message as
posted, and messages do not disappear from a conversation. App-server: a spawn
that fails and a turn that is over
in the answer to its start are left out. `AutoIteration`: executions terminated by
a user, the interactive continuation and the bound of 32 steps of a flight.

## Plan

Done: the delivery path, executions and actuation, the loop, goals and
submissions, reviews and verdicts, interactive executions, the connections of
the host, the supervisor; the theorems above.

Next: the identity evidence and the tab recovery of the extension
(`background.js`), and the scan of a page as operators against a reference
definition.

------------------------ MODULE HostConnections_proofs ------------------------
(***************************************************************************)
(* Proofs about the connections of a runtime, for any workspaces, edits,   *)
(* turns, calls and bounds.                                                *)
(*                                                                         *)
(* Each connection has an inductive invariant of its own:                  *)
(*  - an edit works on the file only while it is the first of its path, so *)
(*    that what it computed rests on all that were answered (EditInv);     *)
(*  - the registered clients and the last tokens of every connection are   *)
(*    in the files, the memory and in what a start is about to write; no   *)
(*    token that was exchanged is; and as long as grants may be derived,   *)
(*    there is nothing to derive them from but the earlier version         *)
(*    (AccessInv);                                                         *)
(*  - what is known of Codex Desktop, handed out and opened belongs to the  *)
(*    connection there is, and to none when there is none (LinkInv);       *)
(*  - the frames that were received are the first of the stream, and the   *)
(*    buffer is the beginning of the next (FramesInv);                     *)
(*  - a turn that is not sent is unknown to the app-server, and its events *)
(*    follow the turn (ServerInv);                                         *)
(*  - the handler that holds the browser owns the page, and remembers no   *)
(*    more of the conversation than is there (PostingInv).                 *)
(* The connections share no state, so that the invariant of all is their   *)
(* conjunction (HostInv).                                                  *)
(***************************************************************************)
EXTENDS HostConnections, TLAPS, SequenceTheorems, FiniteSetTheorems

-----------------------------------------------------------------------------
(* Edits *)

\* The call that works on the file is the first of its path, and what it has
\* computed rests on every edit that was answered.
EditInv ==
    /\ EditTypeOK
    /\ \A e \in Edits : edit[e].at \in {"leased", "ready"} => Turn(e)
    /\ \A e, d \in Edits : edit[e].at = "ready" /\ edit[d].at = "done" => d \in edit[e].base
    /\ EditKept

-----------------------------------------------------------------------------
(* Clients and tokens *)

Refreshing(p) == [pair |-> p, kind |-> "refresh"]
KnownPairs == Workspaces \cup 1 .. Len(pairs)
KnownTokens == [pair : KnownPairs, kind : {"access", "refresh"}]
Plans == [clients : SUBSET Clients, tokens : SUBSET KnownTokens, grants : SUBSET Workspaces,
          changed : BOOLEAN, written : BOOLEAN]

AccessTypes ==
    /\ scene \in Scenes
    /\ clientsFile \in File(Clients) /\ tokensFile \in File(KnownTokens)
    /\ grantsFile \in File(Workspaces) /\ marker \in BOOLEAN
    /\ phase \in {"down", "clients", "tokens", "grant", "granting", "mark", "load", "up"}
    /\ plan \in Plans
    /\ clients \subseteq Clients /\ tokens \subseteq KnownTokens
    /\ codes \subseteq [id : 1 .. scene.codes, client : Clients]
    /\ pairs \in Seq([client : Clients, from : Origins]) /\ Len(pairs) <= scene.pairs
    /\ made \in 0 .. scene.codes /\ expired \subseteq Tokens
    /\ wanted \subseteq Workspaces /\ unwanted \subseteq Workspaces
    /\ registered \subseteq NewClients /\ deleted \subseteq NewClients
    /\ crashes \in 0 .. scene.stops

Merging == phase \in {"clients", "tokens"}

\* The registered clients are in the file, in memory, and in what a start merges.
ClientsOK ==
    /\ phase = "up" => clients = clientsFile.held
    /\ "clients" \in faults \/ registered \subseteq clientsFile.held
    /\ deleted \cap clientsFile.held = {}
    /\ Merging => /\ "clients" \in faults \/ registered \subseteq plan.clients
                  /\ deleted \cap plan.clients = {}

\* A code that was exchanged is gone, and there is one code of an id.
CodesOK ==
    /\ phase # "up" => codes = {}
    /\ \A c \in codes : c.id <= made
    /\ \A c, d \in codes : c.id = d.id => c = d
    /\ \A i \in 1 .. Len(pairs), c \in 1 .. scene.codes :
          pairs[i].from = [code |-> c] => c <= made /\ \A d \in codes : d.id # c

\* The last refresh token of every connection is in `set`.
Keeps(set) ==
    \A i \in 1 .. Len(pairs) : Refreshing(i) \in expired \/ Replaced(i) \/ Refreshing(i) \in set

\* No refresh token that was exchanged is in `set`.
NoneReplaced(set) ==
    \A p \in KnownPairs : Replaced(p) /\ p \notin scene.scoped => Refreshing(p) \notin set

TokensOK ==
    /\ "tokens" \in faults \/ Keeps(tokensFile.held)
    /\ Merging => "tokens" \in faults \/ Keeps(plan.tokens)
    /\ phase = "up" => "tokens" \in faults \/ Keeps(tokens)
    /\ phase # "up" => tokens = {}
    /\ NoneReplaced(tokensFile.held) /\ NoneReplaced(tokens)
    /\ Merging => NoneReplaced(plan.tokens)
    /\ \A i \in 1 .. Len(pairs), p \in PairIds : pairs[i].from = [refresh |-> p] => p \in KnownPairs

-----------------------------------------------------------------------------
(* Grants *)

\* Grants may still be derived, and nobody has yet what they would be derived from
\* but the version before.
Undecided ==
    ~marker /\ ~Exists(grantsFile) /\ "marker" \notin faults /\ ~scene.global

GrantsOK ==
    /\ GrantsFollowUser
    /\ ~Exists(grantsFile) => wanted = {} /\ unwanted = {}
    /\ phase = "granting" => unwanted = {} /\ plan.grants \subseteq Inherited
    /\ phase \in {"clients", "tokens", "grant"} =>
          /\ plan.written
          /\ ~marker /\ ~Exists(grantsFile) => plan.grants \subseteq Inherited
    /\ Undecided =>
          /\ clientsFile.held # {} \/ tokensFile.held # {} =>
                Readable # {} /\ (phase = "down" => crashes > 0)
          /\ Merging /\ (plan.clients # {} \/ plan.tokens # {}) => Readable # {}
          /\ phase \in {"granting", "mark"} /\ ~plan.written => Readable # {}
          /\ phase \in {"load", "up"} => Readable # {}

AccessInv == AccessTypes /\ ClientsOK /\ CodesOK /\ TokensOK /\ GrantsOK /\ ExchangedOnce

-----------------------------------------------------------------------------
(* The app-server *)

Unsent == {"idle", "waiting", "not_dispatched"}
CallStates == Unsent \cup {"pending", "done", "refused", "failed"}
Lines == [kind : {"answer", "event", "request", "garbage"}, of : Requests, ok : BOOLEAN]
Conns == [stage : {"open", "ending", "killing", "closed"}, failed : BOOLEAN, exit : BOOLEAN,
          calls : [Requests -> CallStates], queue : Seq([turn : Turns, ok : BOOLEAN]),
          ended : BOOLEAN, heard : SUBSET Turns]
Children == [up : BOOLEAN, destroyed : BOOLEAN, reads : Seq(Requests), writes : Seq(Lines),
             begun : SUBSET Turns, owes : SUBSET Requests, told : SUBSET Turns, odd : Nat]
Watchers == [Turns -> {"none", "events", "completed", "failed", "ended"}]

\* The server knows nothing of a turn that was not sent, and has told nothing of it.
UnsentUnknown ==
    \A t \in Turns : conn.calls[t] \in Unsent =>
        /\ t \notin child.begun \cup child.owes \cup child.told \cup conn.heard
        /\ \A i \in DOMAIN child.reads : child.reads[i] # t
        /\ watching[t] = "none"

EventsOfTold ==
    \A i \in DOMAIN child.writes :
        child.writes[i].kind = "event" => child.writes[i].of \in child.told

\* A turn is asked for when those before it have completed.
OneAtATime ==
    \A t, u \in Turns :
        t # u /\ conn.calls[t] # "idle" /\ conn.calls[u] # "idle" =>
            "completed" \in {watching[t], watching[u]}

HeardIsQueued ==
    \A t \in conn.heard :
        watching[t] \in {"completed", "failed"} \/ \E i \in DOMAIN conn.queue : conn.queue[i].turn = t

ServerInv ==
    /\ conn \in Conns /\ child \in Children /\ watching \in Watchers
    /\ UnsentUnknown /\ EventsOfTold /\ OneAtATime /\ HeardIsQueued
    /\ \A t \in Turns : watching[t] = "ended" => conn.ended /\ t \notin conn.heard

-----------------------------------------------------------------------------
(* The browser worker *)

Messages == [role : {"user", "assistant", "request"}, text : 0 .. Final]
Results == {"none", "SUBMITTED", "SUBMIT_FAILED", "COMPOSER_NOT_FOUND", "TIMEOUT", "AUTH_REQUIRED",
            "CONVERSATION_NOT_FOUND", "FAILED", "COMPLETED"}
Outcomes == {"idle", "asked", "UNAVAILABLE"} \cup Results
Places == {"idle", "context", "joined", "inspect", "click", "confirm", "poll", "look", "extract",
           "answer", "done"}
Handlers == [at : Places, page : {"none", "open", "gone"}, click : {"none", "pending", "posted"},
             before : Nat, found : 0 .. Final, text : 0 .. Final, stable : Nat, result : Results,
             misled : Nat]
Workers == [status : {"stopped", "starting", "failed", "ready", "stopping"}, listens : BOOLEAN,
            context : {"none", "opening", "open"}, live : Nat, strayed : BOOLEAN]

\* A worker whose browser no late call has launched knows its browser.
BrowserInv ==
    /\ worker \in Workers
    /\ worker.live = IF worker.context = "open" THEN 1 ELSE 0
    /\ ~worker.strayed =>
         /\ worker.status \in {"stopped", "failed", "stopping"} => worker.context = "none"
         /\ worker.context = "opening" => worker.status = "starting"

Requested == \E i \in DOMAIN chat : chat[i].role = "request"
AnswerWhole == AnswerAt # 0 /\ chat[AnswerAt].text = Final

\* What a handler goes by, and what it has reported, is so in the conversation unless it was
\* misled.  A text that was found the same twice is whole if one of the two looks was not.
HandlerOK(r, c) ==
    /\ r.at \in {"idle", "done"} => r.page = "none"
    /\ r.at \in {"idle", "context", "joined"} => r.stable = 0
    /\ r.click = "posted" => Requested
    /\ r.at \in {"click", "confirm"} /\ ~Requested /\ r.misled = 0 => r.before = UserMessages
    /\ "SUBMITTED" \in {r.result, c} /\ r.misled = 0 => Requested
    /\ r.at = "look" /\ r.found # 0 => r.before # 0 /\ r.before = AnswerAt
    /\ r.at \in {"poll", "look"} /\ r.stable # 0 /\ r.misled = 0 => AnswerWhole
    /\ r.at = "extract" => r.before \in DOMAIN chat /\ (r.misled < 2 => chat[r.before].text = Final)
    /\ r.result = "COMPLETED" => r.at = "answer" /\ (r.misled < 2 => r.found = Final)
    /\ c = "COMPLETED" => r.at = "done" /\ (r.misled < 2 => r.found = Final)
    /\ c = "idle" => r.at = "idle"

PostingInv ==
    /\ chat \in Seq(Messages) /\ BrowserInv
    /\ handler \in [Calls -> Handlers] /\ call \in [Calls -> Outcomes]
    /\ \A h \in Calls : HandlerOK(handler[h], call[h])

-----------------------------------------------------------------------------
(* Edits: every step but the end of a call leaves at most one that works on the file *)

LEMMA HeadLeaves ==
    ASSUME NEW e \in Edits, EditInv, Turn(e), Leave,
           NEW place \in {"done", "conflict", "failed"}, Goto(e, place),
           content' \subseteq Edits \cup Outside, broken' \in 0 .. MaxBroken,
           \A d \in Edits : edit[d].at = "done" => d \in content',
           place = "done" => e \in content'
    PROVE  EditInv'
<1>1. EditTypeOK'
  <2>1. queue' \in Seq(Edits)
    BY HeadTailProperties DEF EditInv, EditTypeOK, Leave, Turn
  <2>2. edit' \in [Edits -> [at : {"idle", "read", "queued", "leased", "ready"} \cup Answered,
                           seen : SUBSET (Edits \cup Outside), base : SUBSET (Edits \cup Outside)]]
    BY DEF EditInv, EditTypeOK, Goto, Answered
  <2> QED BY <2>1, <2>2 DEF EditTypeOK
<1>2. \A d \in Edits : edit'[d].at \notin {"leased", "ready"}
  BY DEF EditInv, EditTypeOK, Goto, Turn
<1>3. \A d \in Edits : edit'[d].at = "done" => d \in content'
  BY DEF EditInv, EditTypeOK, Goto, EditKept
<1> QED BY <1>1, <1>2, <1>3 DEF EditInv, EditKept

EditWorks(e) == Call(e) \/ Proceed(e) \/ Fails(e)

LEMMA EditsKeep ==
    EditInv /\ (\/ UNCHANGED editVars \/ EditsStop
                \/ \E e \in Edits : EditWorks(e)
                \/ \E x \in Outside : WriteOutside(x)) => EditInv'
<1> SUFFICES ASSUME EditInv,
                    \/ UNCHANGED editVars \/ EditsStop
                    \/ \E e \in Edits : EditWorks(e)
                    \/ \E x \in Outside : WriteOutside(x)
             PROVE  EditInv'
  OBVIOUS
<1> USE DEF Answered
<1>1. CASE UNCHANGED editVars
  BY <1>1 DEF EditInv, EditTypeOK, EditKept, Turn, editVars
<1>2. ASSUME NEW e \in Edits, EditWorks(e) PROVE EditInv'
  <2>1. CASE ReadFile(e)
    <3>1. EditTypeOK'
      BY <2>1 DEF EditInv, EditTypeOK, ReadFile
    <3>2. /\ \A d \in Edits : \/ edit'[d].at = edit[d].at /\ edit'[d].base = edit[d].base
                            \/ edit'[d].at = "read"
          /\ queue' = queue /\ content' = content
      BY <2>1 DEF EditInv, EditTypeOK, ReadFile
    <3> QED BY <3>1, <3>2 DEF EditInv, EditKept, Turn
  <2>2. CASE Submit(e)
    <3>1. queue' \in Seq(Edits) /\ (queue # <<>> => queue' # <<>> /\ Head(queue') = Head(queue))
      BY <2>2, AppendProperties DEF EditInv, EditTypeOK, Submit
    <3>2. EditTypeOK'
      BY <2>2, <3>1 DEF EditInv, EditTypeOK, Submit, Goto
    <3> QED BY <2>2, <3>1, <3>2 DEF EditInv, EditTypeOK, EditKept, Turn, Submit, Goto
  <2>3. CASE Lease(e)
    <3>1. EditTypeOK'
      BY <2>3 DEF EditInv, EditTypeOK, Lease, Goto
    <3>2. queue' = queue /\ content' = content /\ Turn(e)
      BY <2>3 DEF Lease
    <3>3. ASSUME NEW d \in Edits
          PROVE  \/ edit'[d].at = edit[d].at /\ edit'[d].base = edit[d].base
                 \/ edit'[d].at = "leased" /\ d = e
      BY <2>3 DEF EditInv, EditTypeOK, Lease, Goto
    <3> QED BY <3>1, <3>2, <3>3 DEF EditInv, EditKept, Turn
  <2>4. CASE LeaseFails(e)
    BY <2>4, HeadLeaves, EditAssumption DEF EditInv, EditTypeOK, EditKept, LeaseFails, Breaks
  <2>5. CASE Check(e)
    <3>1. CASE edit' = [edit EXCEPT ![e].at = "ready", ![e].base = content] /\ UNCHANGED queue
      <4>1. EditTypeOK'
        <5>1. content \in SUBSET (Edits \cup Outside) /\ content' = content /\ broken' = broken
                /\ queue' = queue
          BY <2>5, <3>1 DEF EditInv, EditTypeOK, Check
        <5>2. edit' \in [Edits -> [at : {"idle", "read", "queued", "leased", "ready"} \cup Answered,
                        seen : SUBSET (Edits \cup Outside), base : SUBSET (Edits \cup Outside)]]
          BY <3>1, <5>1 DEF EditInv, EditTypeOK
        <5> QED BY <5>1, <5>2 DEF EditInv, EditTypeOK
      <4>2. \A d \in Edits : edit'[d].at \in {"leased", "ready"} => Turn(d)'
        BY <2>5, <3>1 DEF EditInv, EditTypeOK, Check, Turn
      <4>3. \A d \in Edits : edit'[d].at = "ready" => d = e
        BY <2>5, <3>1 DEF EditInv, EditTypeOK, Check, Turn
      <4>4. edit'[e].base = content /\ content' = content
        BY <2>5, <3>1 DEF EditInv, EditTypeOK, Check
      <4>5. \A d \in Edits : edit'[d].at = "done" => edit[d].at = "done"
        BY <2>5, <3>1 DEF EditInv, EditTypeOK, Check
      <4> QED BY <4>1, <4>2, <4>3, <4>4, <4>5 DEF EditInv, EditKept
    <3>2. CASE Leave /\ \E place \in {"conflict", "failed"} : Goto(e, place)
      BY <2>5, <3>2, HeadLeaves DEF EditInv, EditTypeOK, EditKept, Check
    <3> QED BY <2>5, <3>1, <3>2 DEF Check
  <2>6. CASE Commit(e) \/ CommitFails(e)
    <3>1. edit[e].at = "ready" /\ Turn(e) /\ Leave
      BY <2>6 DEF Commit, CommitFails
    <3>2. \/ Goto(e, "done") /\ content' = edit[e].base \cup {e}
          \/ Goto(e, "failed") /\ content' \in {content, edit[e].base \cup {e}}
      BY <2>6 DEF Commit, CommitFails, Replace
    <3>3. content' \subseteq Edits \cup Outside /\ broken' \in 0 .. MaxBroken
      BY <2>6, <3>2, EditAssumption DEF EditInv, EditTypeOK, Commit, CommitFails, Breaks
    <3>4. \A d \in Edits : edit[d].at = "done" => d \in content'
      BY <3>1, <3>2 DEF EditInv, EditKept
    <3> QED BY <3>1, <3>2, <3>3, <3>4, HeadLeaves
  <2> QED BY <1>2, <2>1, <2>2, <2>3, <2>4, <2>5, <2>6 DEF EditWorks, Call, Proceed, Fails
<1>3. ASSUME NEW x \in Outside, WriteOutside(x) PROVE EditInv'
  BY <1>3 DEF EditInv, EditTypeOK, EditKept, Turn, WriteOutside
<1>4. CASE EditsStop
  <2>1. \A d \in Edits : /\ edit'[d].at \notin {"leased", "ready"}
                         /\ edit'[d].at = "done" => edit[d].at = "done"
    BY <1>4 DEF EditInv, EditTypeOK, EditsStop
  <2>2. EditTypeOK'
    BY <1>4 DEF EditInv, EditTypeOK, EditsStop, Replace
  <2>3. \A d \in Edits : edit[d].at = "done" => d \in content'
    BY <1>4 DEF EditInv, EditKept, EditsStop, Replace
  <2> QED BY <2>1, <2>2, <2>3 DEF EditInv, EditKept
<1> QED BY <1>1, <1>2, <1>3, <1>4

LEMMA EditsStart == EditInit => EditInv
BY EditAssumption DEF EditInit, EditInv, EditTypeOK, EditKept, Answered

-----------------------------------------------------------------------------
(* The app-server: what the operators of the client do to its calls *)

\* No call becomes one that was not sent, and only those of `new` begin.
Moves(a, b, new) ==
    /\ b \in [Requests -> CallStates]
    /\ \A r \in Requests : b[r] \in Unsent => a[r] \in Unsent
    /\ \A t \in Turns \ new : a[t] = "idle" => b[t] = "idle"

Calm(c, d, new) ==
    /\ d \in Conns /\ Moves(c.calls, d.calls, new)
    /\ d.queue = c.queue /\ d.heard = c.heard /\ (c.ended => d.ended)

LEMMA RejectMoves ==
    ASSUME NEW calls \in [Requests -> CallStates]
    PROVE  Moves(calls, RejectPending(calls), {}) /\ Moves(calls, WithoutInit(calls), {})
<1>1. WithoutInit(calls) \in [Requests -> CallStates]
  BY DEF WithoutInit, CallStates, Unsent
<1>2. Moves(calls, WithoutInit(calls), {})
  BY <1>1, ServerClientAssumption DEF Moves, WithoutInit, Requests, CallStates, Unsent
<1>3. PICK known \in [Requests -> CallStates] :
          /\ Moves(calls, known, {})
          /\ RejectPending(calls) = [r \in Requests |-> IF known[r] = "pending" THEN "failed" ELSE known[r]]
  <2>1. CASE calls["init"] = "pending"
    BY <1>1, <1>2, <2>1 DEF RejectPending
  <2>2. CASE calls["init"] # "pending"
    BY <2>2 DEF RejectPending, Moves
  <2> QED BY <2>1, <2>2
<1>4. Moves(calls, RejectPending(calls), {})
  BY <1>3 DEF Moves, Requests, CallStates, Unsent
<1> QED BY <1>2, <1>4

LEMMA FailCalm == ASSUME NEW c \in Conns PROVE Calm(c, Fail(c), {})
<1>1. c.calls \in [Requests -> CallStates]
  BY DEF Conns
<1>2. Moves(c.calls, c.calls, {})
  BY <1>1 DEF Moves
<1>3. PICK calls : calls = RejectPending(c.calls)
  OBVIOUS
<1>4. Moves(c.calls, calls, {})
  BY <1>1, <1>3, RejectMoves
<1>5. CASE ~c.failed
  <2>1. Fail(c) = [c EXCEPT !.failed = TRUE, !.calls = calls, !.ended = TRUE]
    BY <1>3, <1>5 DEF Fail, EndQueue, Conns
  <2> QED BY <2>1, <1>4 DEF Calm, Conns, Moves
<1> QED BY <1>2, <1>5 DEF Fail, Calm

LEMMA MovesOn ==
    ASSUME NEW a, NEW b, NEW d, NEW S, NEW T, Moves(a, b, S), Moves(b, d, T)
    PROVE  Moves(a, d, S \cup T)
BY DEF Moves

LEMMA CalmOn ==
    ASSUME NEW a, NEW b, NEW d, NEW S, NEW T, Calm(a, b, S), Calm(b, d, T)
    PROVE  Calm(a, d, S \cup T)
BY MovesOn DEF Calm

\* A record that differs in its calls.
LEMMA CallsCalm ==
    ASSUME NEW c \in Conns, NEW calls, NEW S, Moves(c.calls, calls, S)
    PROVE  Calm(c, [c EXCEPT !.calls = calls], S)
BY DEF Calm, Conns, Moves

LEMMA OneCallCalm ==
    ASSUME NEW c \in Conns, NEW r \in Requests, NEW state \in CallStates,
           state \in Unsent => c.calls[r] \in Unsent, NEW S,
           c.calls[r] = "idle" => r \in S \cup {"init"} \/ state = "idle"
    PROVE  Calm(c, [c EXCEPT !.calls[r] = state], S)
<1>1. c.calls \in [Requests -> CallStates]
  BY DEF Conns
<1>2. PICK calls : calls = [c.calls EXCEPT ![r] = state]
  OBVIOUS
<1>3. Moves(c.calls, calls, S)
  BY <1>1, <1>2, ServerClientAssumption DEF Moves
<1>4. [c EXCEPT !.calls[r] = state] = [c EXCEPT !.calls = calls]
  BY <1>2 DEF Conns
<1> QED BY <1>3, <1>4, CallsCalm

LEMMA InitFailsCalm == ASSUME NEW c \in Conns PROVE Calm(c, InitFails(c), {})
<1>1. PICK calls : calls = WithoutInit(c.calls)
  OBVIOUS
<1>2. Moves(c.calls, calls, {})
  BY <1>1, RejectMoves DEF Conns
<1>3. PICK d : d = [c EXCEPT !.calls = calls]
  OBVIOUS
<1>4. Calm(c, d, {})
  BY <1>2, <1>3, CallsCalm
<1>5. InitFails(c) = Fail(d)
  BY <1>1, <1>3 DEF InitFails
<1>6. Calm(d, Fail(d), {})
  BY <1>4, FailCalm DEF Calm
<1> QED BY <1>4, <1>5, <1>6, CalmOn

LEMMA AskCalm ==
    ASSUME NEW c \in Conns, NEW t \in Turns, c.calls[t] \in Unsent
    PROVE  Calm(c, Ask(c, t), {t})
<1>1. PICK state \in CallStates : Ask(c, t) = [c EXCEPT !.calls[t] = state]
  BY DEF Ask, Request, CallStates, Unsent
<1> QED BY <1>1, OneCallCalm DEF Requests

LEMMA InitAnsweredCalm ==
    ASSUME NEW c \in Conns, NEW ok \in BOOLEAN, c.calls["init"] = "pending"
    PROVE  Calm(c, InitAnswered(c, ok), {})
<1>1. PICK known : known = [c EXCEPT !.calls["init"] = "done"]
  OBVIOUS
<1>2. Calm(c, known, {})
  BY <1>1, OneCallCalm DEF Requests, CallStates, Unsent
<1>3. CASE InitAnswered(c, ok) = InitFails(c)
  BY <1>3, InitFailsCalm
<1>4. CASE InitAnswered(c, ok) = known
  BY <1>2, <1>4
<1>5. CASE Waiting(c) # {} /\ \E t \in Waiting(c) : InitAnswered(c, ok) = Ask(known, t)
  <2>1. PICK t \in Waiting(c) : InitAnswered(c, ok) = Ask(known, t)
    BY <1>5
  <2>2. t \in Turns /\ known.calls[t] = "waiting"
    BY <1>1, <2>1, ServerClientAssumption DEF Waiting, Conns
  <2>3. PICK state \in CallStates : Ask(known, t) = [known EXCEPT !.calls[t] = state]
    BY DEF Ask, Request, CallStates, Unsent
  <2>4. Calm(known, Ask(known, t), {})
    BY <1>2, <2>2, <2>3, OneCallCalm DEF Calm, Requests, Unsent
  <2> QED BY <1>2, <2>1, <2>4, CalmOn
<1>6. \/ InitAnswered(c, ok) \in {InitFails(c), known}
      \/ Waiting(c) # {} /\ \E t \in Waiting(c) : InitAnswered(c, ok) = Ask(known, t)
  <2>1. Waiting(known) = Waiting(c)
    BY <1>1, ServerClientAssumption DEF Waiting, Conns
  <2> QED BY <1>1, <2>1 DEF InitAnswered
<1> QED BY <1>3, <1>4, <1>5, <1>6

LEMMA AnswerCalm ==
    ASSUME NEW c \in Conns, NEW r \in Requests, NEW ok \in BOOLEAN
    PROVE  Calm(c, Answer(c, r, ok), {})
<1>1. CASE c.calls[r] # "pending"
  BY <1>1, FailCalm DEF Answer
<1>2. CASE c.calls[r] = "pending" /\ r = "init"
  BY <1>2, InitAnsweredCalm DEF Answer
<1>3. CASE c.calls[r] = "pending" /\ r # "init"
  <2>1. PICK state \in {"done", "refused"} : Answer(c, r, ok) = [c EXCEPT !.calls[r] = state]
    BY <1>3 DEF Answer
  <2>2. state \in CallStates /\ state \notin Unsent /\ c.calls[r] # "idle"
    BY <1>3 DEF CallStates, Unsent
  <2>3. Calm(c, [c EXCEPT !.calls[r] = state], {})
    BY <2>2, OneCallCalm
  <2> QED BY <2>1, <2>3
<1> QED BY <1>1, <1>2, <1>3

LEMMA TimedOutCalm ==
    ASSUME NEW c \in Conns, NEW r \in Requests, c.calls[r] = "pending"
    PROVE  Calm(c, TimedOut(c, r), {})
BY InitFailsCalm, OneCallCalm DEF TimedOut, CallStates, Unsent

LEMMA FinishCalm == ASSUME NEW c \in Conns PROVE Calm(c, Finish(c), {})
<1>1. PICK calls : calls = RejectPending(c.calls)
  OBVIOUS
<1>2. Moves(c.calls, calls, {})
  BY <1>1, RejectMoves DEF Conns
<1>3. PICK d : d = [c EXCEPT !.stage = "closed", !.calls = calls, !.ended = TRUE]
  OBVIOUS
<1>4. Calm(c, d, {})
  BY <1>2, <1>3 DEF Calm, Conns, Moves
<1>5. Finish(c) \in {d, Fail(d)}
  BY <1>1, <1>3 DEF Finish, EndQueue, Conns
<1>6. Calm(d, Fail(d), {})
  BY <1>4, FailCalm DEF Calm
<1> QED BY <1>4, <1>5, <1>6, CalmOn

LEMMA TurnAskedCalm ==
    ASSUME NEW c \in Conns, NEW t \in Turns, c.calls[t] = "idle"
    PROVE  Calm(c, TurnAsked(c, t), {t})
<1>0. /\ t \in Requests /\ t \in {t} \cup {"init"} /\ "idle" \in Unsent
      /\ {"waiting", "not_dispatched"} \subseteq CallStates
  BY DEF Requests, CallStates, Unsent
<1>1. CASE TurnAsked(c, t) = [c EXCEPT !.calls["init"] = "pending", !.calls[t] = "waiting"]
           /\ c.calls["init"] = "idle"
  <2>1. PICK d : d = [c EXCEPT !.calls["init"] = "pending"]
    OBVIOUS
  <2>2. Calm(c, d, {})
    BY <1>1, <2>1, OneCallCalm DEF Requests, CallStates, Unsent
  <2>3. d.calls[t] = "idle"
    BY <2>1, ServerClientAssumption DEF Conns
  <2>4. Calm(d, [d EXCEPT !.calls[t] = "waiting"], {t})
    BY <2>2, <2>3, <1>0, OneCallCalm DEF Calm
  <2>5. TurnAsked(c, t) = [d EXCEPT !.calls[t] = "waiting"]
    BY <1>1, <2>1
  <2> QED BY <2>2, <2>4, <2>5, CalmOn
<1>2. CASE TurnAsked(c, t) = InitFails([c EXCEPT !.calls[t] = "waiting"])
  <2>1. PICK d : d = [c EXCEPT !.calls[t] = "waiting"]
    OBVIOUS
  <2>2. Calm(c, d, {t})
    BY <2>1, <1>0, OneCallCalm
  <2>3. Calm(d, InitFails(d), {})
    BY <2>2, InitFailsCalm DEF Calm
  <2> QED BY <1>2, <2>1, <2>2, <2>3, CalmOn
<1>3. CASE TurnAsked(c, t) = [c EXCEPT !.calls[t] = "not_dispatched"]
  BY <1>3, <1>0, OneCallCalm
<1>4. CASE TurnAsked(c, t) = Ask(c, t)
  BY <1>4, AskCalm DEF Unsent
<1> QED BY <1>1, <1>2, <1>3, <1>4 DEF TurnAsked

\* A step of the client that hears no event: what it sends is a call that is pending.
LEMMA ClientMoves ==
    ASSUME ServerInv, NEW next, NEW new \in SUBSET Turns, Calm(conn, next, new),
           conn' = next, watching' = Watched(next),
           child' \in Children, child'.begun = child.begun, child'.owes = child.owes,
           child'.told = child.told,
           \A i \in DOMAIN child'.reads :
               \/ \E j \in DOMAIN child.reads : child.reads[j] = child'.reads[i]
               \/ next.calls[child'.reads[i]] = "pending",
           \A i \in DOMAIN child'.writes : \E j \in DOMAIN child.writes : child.writes[j] = child'.writes[i],
           \A t \in new, u \in Turns : u # t =>
               u \notin new /\ (conn.calls[u] = "idle" \/ watching[u] = "completed")
    PROVE  ServerInv'
<1>1. conn' \in Conns /\ watching' \in Watchers
  BY DEF ServerInv, Calm, Watched, Watchers
<1>2. \A t \in Turns : next.calls[t] \in Unsent => conn.calls[t] \in Unsent
  BY DEF Calm, Moves, Requests
<1>3. \A t \in Turns : watching'[t] = watching[t] \/ (watching'[t] = "events" /\ watching[t] = "none")
  BY DEF Watched
<1>4. UnsentUnknown'
  <2> SUFFICES ASSUME NEW t \in Turns, next.calls[t] \in Unsent
               PROVE  /\ t \notin child.begun \cup child.owes \cup child.told \cup next.heard
                      /\ \A i \in DOMAIN child'.reads : child'.reads[i] # t
                      /\ watching'[t] = "none"
    BY DEF UnsentUnknown
  <2>1. conn.calls[t] \in Unsent
    BY <1>2
  <2>2. "pending" \notin Unsent /\ "done" \notin Unsent
    BY DEF Unsent
  <2>3. watching'[t] = "none"
    BY <2>1, <2>2 DEF ServerInv, UnsentUnknown, Watched
  <2> QED BY <2>1, <2>2, <2>3 DEF ServerInv, UnsentUnknown, Calm
<1>5. EventsOfTold'
  BY DEF ServerInv, EventsOfTold
<1>6. OneAtATime'
  <2> SUFFICES ASSUME NEW t \in Turns, NEW u \in Turns, t # u,
                      next.calls[t] # "idle", next.calls[u] # "idle"
               PROVE  "completed" \in {watching'[t], watching'[u]}
    BY DEF OneAtATime
  <2>1. (t \in new \/ conn.calls[t] # "idle") /\ (u \in new \/ conn.calls[u] # "idle")
    BY DEF Calm, Moves
  <2>2. CASE t \in new
    BY <2>1, <2>2, <1>3
  <2>3. CASE u \in new
    BY <2>1, <2>3, <1>3
  <2>4. CASE t \notin new /\ u \notin new
    BY <2>1, <2>4, <1>3 DEF ServerInv, OneAtATime
  <2> QED BY <2>2, <2>3, <2>4
<1>7. HeardIsQueued'
  <2> SUFFICES ASSUME NEW t \in next.heard
               PROVE  \/ watching'[t] \in {"completed", "failed"}
                      \/ \E i \in DOMAIN next.queue : next.queue[i].turn = t
    BY DEF HeardIsQueued
  <2>1. t \in conn.heard /\ t \in Turns /\ next.queue = conn.queue
    BY DEF ServerInv, Calm, Conns
  <2> QED BY <2>1, <1>3 DEF ServerInv, HeardIsQueued
<1>8. \A t \in Turns : watching'[t] = "ended" => next.ended /\ t \notin next.heard
  BY <1>3 DEF ServerInv, Calm
<1> QED BY <1>1, <1>4, <1>5, <1>6, <1>7, <1>8 DEF ServerInv

\* What a step puts into the stream of the child.
LEMMA SendsPending ==
    ASSUME ServerInv, NEW next, NEW new, Calm(conn, next, new)
    PROVE  /\ Sends(next) \in Children /\ Sends(next).begun = child.begun /\ Sends(next).owes = child.owes
           /\ Sends(next).told = child.told /\ Sends(next).writes = child.writes
           /\ \A i \in DOMAIN Sends(next).reads :
               \/ \E j \in DOMAIN child.reads : child.reads[j] = Sends(next).reads[i]
               \/ next.calls[Sends(next).reads[i]] = "pending"
<1>1. CASE Sends(next) = child
  BY <1>1 DEF ServerInv
<1>2. CASE \E r \in Requests : next.calls[r] = "pending" /\ Sends(next) = [child EXCEPT !.reads = Append(@, r)]
  <2>1. PICK r \in Requests : next.calls[r] = "pending" /\ Sends(next) = [child EXCEPT !.reads = Append(@, r)]
    BY <1>2
  <2>2. child \in Children /\ child.reads \in Seq(Requests)
    BY DEF ServerInv, Children
  <2>3. PICK reads : reads = Append(child.reads, r)
    OBVIOUS
  <2>4. reads \in Seq(Requests) /\ \A i \in DOMAIN reads : reads[i] = r \/ \E j \in DOMAIN child.reads : child.reads[j] = reads[i]
    BY <2>2, <2>3, AppendProperties
  <2>5. Sends(next) = [child EXCEPT !.reads = reads]
    BY <2>1, <2>3
  <2>6. /\ Sends(next) \in Children /\ Sends(next).reads = reads
        /\ Sends(next).begun = child.begun /\ Sends(next).owes = child.owes
        /\ Sends(next).told = child.told /\ Sends(next).writes = child.writes
    BY <2>2, <2>4, <2>5 DEF Children
  <2> QED BY <2>1, <2>4, <2>6
<1>3. \/ Sends(next) = child
      \/ \E r \in Requests : next.calls[r] = "pending" /\ Sends(next) = [child EXCEPT !.reads = Append(@, r)]
  BY DEF Sends
<1> QED BY <1>1, <1>2, <1>3

LEMMA BecomesKeeps ==
    ASSUME ServerInv, NEW next, NEW new \in SUBSET Turns, Calm(conn, next, new), Becomes(next),
           \A t \in new, u \in Turns : u # t =>
               u \notin new /\ (conn.calls[u] = "idle" \/ watching[u] = "completed")
    PROVE  ServerInv'
BY SendsPending, ClientMoves DEF Becomes

LEMMA StartTurnKeeps == ASSUME ServerInv, NEW t \in Turns, StartTurn(t) PROVE ServerInv'
<1>1. conn \in Conns /\ conn.calls[t] = "idle" /\ Becomes(TurnAsked(conn, t))
  BY DEF ServerInv, StartTurn
<1>2. Calm(conn, TurnAsked(conn, t), {t})
  BY <1>1, TurnAskedCalm
<1>3. \A u \in Turns : u # t => u \notin {t} /\ (conn.calls[u] = "idle" \/ watching[u] = "completed")
  BY DEF StartTurn
<1> QED BY <1>1, <1>2, <1>3, BecomesKeeps

LEMMA TimerKeeps == ASSUME ServerInv, NEW r \in Requests, RequestTimer(r) PROVE ServerInv'
<1>1. Calm(conn, TimedOut(conn, r), {})
  BY TimedOutCalm DEF ServerInv, RequestTimer
<1> QED BY <1>1, BecomesKeeps DEF RequestTimer

LEMMA WatchKeeps == ASSUME ServerInv, NEW t \in Turns, Watch(t) PROVE ServerInv'
<1>0. /\ conn \in Conns /\ watching \in Watchers /\ UNCHANGED child /\ watching[t] = "events"
      /\ conn.calls[t] # "idle"
  BY DEF ServerInv, Watch, UnsentUnknown, Unsent
<1>1. CASE NextOf(conn) = "end"
  <2>1. conn.queue = <<>> /\ conn.ended /\ watching' = [watching EXCEPT ![t] = "ended"] /\ UNCHANGED conn
    BY <1>1 DEF Watch, NextOf
  <2>2. t \notin conn.heard
    BY <1>0, <2>1 DEF ServerInv, HeardIsQueued
  <2>3. watching' \in Watchers
    BY <1>0, <2>1 DEF Watchers
  <2>4. UnsentUnknown'
    BY <1>0, <2>1 DEF ServerInv, UnsentUnknown, Watchers
  <2>5. OneAtATime'
    BY <1>0, <2>1 DEF ServerInv, OneAtATime, Watchers
  <2>6. EventsOfTold' /\ HeardIsQueued'
    BY <1>0, <2>1, <2>2 DEF ServerInv, EventsOfTold, HeardIsQueued, Watchers, Conns
  <2>7. \A u \in Turns : watching'[u] = "ended" => conn.ended /\ u \notin conn.heard
    BY <1>0, <2>1, <2>2 DEF ServerInv, Watchers
  <2> QED BY <1>0, <2>1, <2>3, <2>4, <2>5, <2>6, <2>7 DEF ServerInv
<1>2. CASE NextOf(conn) = "value"
  <2>1. conn.queue # <<>> /\ conn.queue \in Seq([turn : Turns, ok : BOOLEAN])
    BY <1>0, <1>2 DEF NextOf, Conns
  <2>2. PICK e \in [turn : Turns, ok : BOOLEAN], events \in Seq([turn : Turns, ok : BOOLEAN]) :
          /\ e = Head(conn.queue) /\ events = Tail(conn.queue)
          /\ \A i \in DOMAIN conn.queue : conn.queue[i] = e \/ \E j \in DOMAIN events : events[j] = conn.queue[i]
    <3>1. Tail(conn.queue) \in Seq([turn : Turns, ok : BOOLEAN]) /\ Head(conn.queue) \in [turn : Turns, ok : BOOLEAN]
      BY <2>1, HeadTailProperties
    <3>2. ASSUME NEW i \in DOMAIN conn.queue
          PROVE  conn.queue[i] = Head(conn.queue) \/ \E j \in DOMAIN Tail(conn.queue) : Tail(conn.queue)[j] = conn.queue[i]
      <4>1. CASE i = 1
        BY <2>1, <4>1
      <4>2. CASE i # 1
        <5>1. i - 1 \in DOMAIN Tail(conn.queue) /\ Tail(conn.queue)[i - 1] = conn.queue[i]
          BY <2>1, <4>2
        <5> QED BY <5>1
      <4> QED BY <4>1, <4>2
    <3> QED BY <3>1, <3>2
  <2>3. /\ conn' = [conn EXCEPT !.queue = events]
        /\ watching' = IF e.turn # t THEN watching
                       ELSE [watching EXCEPT ![t] = IF e.ok THEN "completed" ELSE "failed"]
    BY <1>2, <2>2 DEF Watch
  <2>4. conn' \in Conns /\ watching' \in Watchers
    BY <1>0, <2>2, <2>3 DEF Conns, Watchers
  <2>5. /\ conn'.calls = conn.calls /\ conn'.heard = conn.heard /\ conn'.ended = conn.ended /\ conn'.queue = events
        /\ \A u \in Turns : \/ watching'[u] = watching[u]
                            \/ u = t /\ watching'[u] \in {"completed", "failed"}
    BY <1>0, <2>2, <2>3 DEF Conns, Watchers
  <2>6. UnsentUnknown'
    BY <1>0, <2>5 DEF ServerInv, UnsentUnknown, Unsent
  <2>7. OneAtATime'
    BY <1>0, <2>5 DEF ServerInv, OneAtATime
  <2>8. EventsOfTold'
    BY <1>0 DEF ServerInv, EventsOfTold
  <2>9. HeardIsQueued'
    <3> SUFFICES ASSUME NEW u \in conn.heard
                 PROVE  \/ watching'[u] \in {"completed", "failed"}
                        \/ \E j \in DOMAIN events : events[j].turn = u
      BY <2>5 DEF HeardIsQueued
    <3>1. u \in Turns /\ conn.calls[u] # "idle"
      BY <1>0 DEF ServerInv, UnsentUnknown, Unsent, Conns
    <3>2. CASE u # t
      BY <1>0, <2>5, <3>1, <3>2 DEF ServerInv, OneAtATime
    <3>3. CASE u = t /\ e.turn = t
      BY <1>0, <2>3, <3>3 DEF Watchers
    <3>4. CASE u = t /\ e.turn # t
      BY <1>0, <2>2, <3>4 DEF ServerInv, HeardIsQueued
    <3> QED BY <3>2, <3>3, <3>4
  <2>10. \A u \in Turns : watching'[u] = "ended" => conn'.ended /\ u \notin conn'.heard
    BY <2>5 DEF ServerInv
  <2> QED BY <1>0, <2>4, <2>6, <2>7, <2>8, <2>9, <2>10 DEF ServerInv
<1> QED BY <1>1, <1>2 DEF Watch, NextOf

\* A step of the client that sends nothing.
LEMMA QuietKeeps ==
    ASSUME ServerInv, Calm(conn, conn', {}), UNCHANGED watching, child' \in Children,
           child'.begun = child.begun, child'.owes = child.owes, child'.told = child.told,
           child'.reads = child.reads, child'.writes = child.writes
    PROVE  ServerInv'
<1>1. /\ conn' \in Conns /\ conn'.queue = conn.queue /\ conn'.heard = conn.heard
      /\ (conn.ended => conn'.ended) /\ watching \in Watchers
      /\ \A t \in Turns : /\ conn'.calls[t] \in Unsent => conn.calls[t] \in Unsent
                          /\ conn.calls[t] = "idle" => conn'.calls[t] = "idle"
  BY DEF Calm, Moves, Requests, ServerInv
<1>2. UnsentUnknown'
  BY <1>1 DEF ServerInv, UnsentUnknown
<1>3. EventsOfTold'
  BY <1>1 DEF ServerInv, EventsOfTold
<1>4. OneAtATime'
  BY <1>1 DEF ServerInv, OneAtATime
<1>5. HeardIsQueued'
  BY <1>1 DEF ServerInv, HeardIsQueued
<1>6. \A t \in Turns : watching'[t] = "ended" => conn'.ended /\ t \notin conn'.heard
  BY <1>1 DEF ServerInv
<1> QED BY <1>1, <1>2, <1>3, <1>4, <1>5, <1>6 DEF ServerInv

LEMMA ClosingKeeps ==
    ASSUME ServerInv, ChildCloses \/ Close \/ EndingTimer \/ CloseEnds
    PROVE  ServerInv'
<1>0. conn \in Conns /\ child \in Children /\ Moves(conn.calls, conn.calls, {})
  BY DEF ServerInv, Moves, Conns
<1>1. CASE ChildCloses
  <2>1. PICK known : known = [conn EXCEPT !.exit = TRUE]
    OBVIOUS
  <2>2. Calm(conn, known, {})
    BY <1>0, <2>1 DEF Calm, Conns
  <2>3. Calm(known, Fail(known), {})
    BY <2>2, FailCalm DEF Calm
  <2>4. conn' \in {known, Fail(known)}
    BY <1>1, <2>1 DEF ChildCloses
  <2>5. Calm(conn, conn', {})
    BY <2>2, <2>3, <2>4, CalmOn
  <2>6. child' = [child EXCEPT !.destroyed = TRUE] /\ UNCHANGED watching
    BY <1>1 DEF ChildCloses
  <2>7. /\ child' \in Children /\ child'.begun = child.begun /\ child'.owes = child.owes
        /\ child'.told = child.told /\ child'.reads = child.reads /\ child'.writes = child.writes
    BY <1>0, <2>6 DEF Children
  <2> QED BY <2>5, <2>6, <2>7, QuietKeeps
<1>2. CASE Close \/ EndingTimer \/ CloseEnds
  <2>1. UNCHANGED <<watching, child>>
    BY <1>2 DEF Close, EndingTimer, CloseEnds
  <2>2. PICK stage \in {"ending", "killing"} : conn' \in {Finish(conn), [conn EXCEPT !.stage = stage]}
    BY <1>2 DEF Close, EndingTimer, CloseEnds
  <2>3. Calm(conn, [conn EXCEPT !.stage = stage], {})
    BY <1>0 DEF Calm, Conns
  <2>4. Calm(conn, conn', {})
    BY <1>0, <2>2, <2>3, FinishCalm
  <2> QED BY <1>0, <2>1, <2>4, QuietKeeps
<1> QED BY <1>1, <1>2

LEMMA HandleLineKeeps == ASSUME ServerInv, HandleLine PROVE ServerInv'
<1>0. /\ conn \in Conns /\ child \in Children /\ child.writes \in Seq(Lines) /\ child.writes # <<>>
      /\ Moves(conn.calls, conn.calls, {})
  BY DEF ServerInv, HandleLine, Moves, Conns, Children
<1>1. PICK line \in Lines, writes \in Seq(Lines) :
        /\ line = Head(child.writes) /\ writes = Tail(child.writes)
        /\ \A i \in DOMAIN writes : \E j \in DOMAIN child.writes : child.writes[j] = writes[i]
        /\ \E j \in DOMAIN child.writes : child.writes[j] = line
  <2>1. Head(child.writes) \in Lines /\ Tail(child.writes) \in Seq(Lines)
    BY <1>0, HeadTailProperties
  <2>2. ASSUME NEW i \in DOMAIN Tail(child.writes)
        PROVE  \E j \in DOMAIN child.writes : child.writes[j] = Tail(child.writes)[i]
    <3>1. i + 1 \in DOMAIN child.writes /\ Tail(child.writes)[i] = child.writes[i + 1]
      BY <1>0
    <3> QED BY <3>1
  <2>3. 1 \in DOMAIN child.writes /\ child.writes[1] = Head(child.writes)
    BY <1>0
  <2> QED BY <2>1, <2>2, <2>3
<1>2. PICK next : next = HandleMessage(conn, line)
  OBVIOUS
<1>3. conn' = next /\ watching' = Watched(next) /\ child' = [Sends(next) EXCEPT !.writes = writes]
  <2>1. line = Head(child.writes) /\ writes = Tail(child.writes)
    BY <1>1
  <2>2. HandleMessage(conn, Head(child.writes)) = next
    BY <1>2, <2>1
  <2>3. conn' = next /\ watching' = Watched(next)
    BY <2>2, Zenon DEF HandleLine
  <2>4. child' = [Sends(next) EXCEPT !.writes = Tail(child.writes)]
    <3>1. child' = [Sends(next) EXCEPT !.writes = Tail(@)]
      BY <2>2, Zenon DEF HandleLine
    <3>2. Sends(next).writes = child.writes
      BY <1>0 DEF Sends, Children
    <3> QED BY <3>1, <3>2
  <2> QED BY <2>1, <2>3, <2>4
<1>4. ASSUME Calm(conn, next, {}) PROVE ServerInv'
  <2>1. PICK sent \in Children : sent = Sends(next)
    BY <1>4, SendsPending
  <2>2. /\ sent.begun = child.begun /\ sent.owes = child.owes /\ sent.told = child.told
        /\ \A i \in DOMAIN sent.reads : \/ \E j \in DOMAIN child.reads : child.reads[j] = sent.reads[i]
                                        \/ next.calls[sent.reads[i]] = "pending"
    BY <1>4, <2>1, SendsPending
  <2>3. child' = [sent EXCEPT !.writes = writes]
    BY <1>3, <2>1
  <2>4. /\ child' \in Children /\ child'.begun = child.begun /\ child'.owes = child.owes
        /\ child'.told = child.told /\ child'.reads = sent.reads /\ child'.writes = writes
    BY <2>2, <2>3, <1>1 DEF Children
  <2>5. \A i \in DOMAIN child'.reads :
          \/ \E j \in DOMAIN child.reads : child.reads[j] = child'.reads[i]
          \/ next.calls[child'.reads[i]] = "pending"
    BY <2>2, <2>4
  <2>6. \A i \in DOMAIN child'.writes : \E j \in DOMAIN child.writes : child.writes[j] = child'.writes[i]
    BY <1>1, <2>4
  <2> QED BY <1>3, <1>4, <2>2, <2>4, <2>5, <2>6, ClientMoves
<1>5. CASE line.kind = "answer"
  <2>1. next = Answer(conn, line.of, line.ok) /\ line.of \in Requests /\ line.ok \in BOOLEAN
    BY <1>2, <1>5 DEF HandleMessage, Lines
  <2> QED BY <1>0, <1>4, <2>1, AnswerCalm
<1>6. CASE line.kind \notin {"answer", "event"}
  <2>1. next \in {conn, Fail(conn)}
    BY <1>2, <1>6 DEF HandleMessage
  <2>2. Calm(conn, conn, {})
    BY <1>0 DEF Calm
  <2> QED BY <1>0, <1>4, <2>1, <2>2, FailCalm
<1>7. CASE line.kind = "event"
  <2>1. line.of \in child.told /\ line.of \in Turns /\ line.ok \in BOOLEAN
    BY <1>0, <1>1, <1>7 DEF ServerInv, EventsOfTold, Children, Lines
  <2>2. PICK e \in [turn : Turns, ok : BOOLEAN] : e = [turn |-> line.of, ok |-> line.ok]
    BY <2>1
  <2>3. next = PushEvent(conn, e)
    BY <1>2, <1>7, <2>2 DEF HandleMessage
  <2>4. CASE conn.ended
    <3>1. next = conn /\ Calm(conn, conn, {})
      BY <1>0, <2>3, <2>4 DEF PushEvent, Calm
    <3> QED BY <1>4, <3>1
  <2>5. CASE ~conn.ended
    <3>1. PICK events \in Seq([turn : Turns, ok : BOOLEAN]) :
            /\ events = Append(conn.queue, e)
            /\ \A i \in DOMAIN conn.queue : \E j \in DOMAIN events : events[j] = conn.queue[i]
            /\ \E j \in DOMAIN events : events[j] = e
      <4>1. Append(conn.queue, e) \in Seq([turn : Turns, ok : BOOLEAN])
        BY <1>0, AppendProperties DEF Conns
      <4>2. ASSUME NEW i \in DOMAIN conn.queue
            PROVE  \E j \in DOMAIN Append(conn.queue, e) : Append(conn.queue, e)[j] = conn.queue[i]
        <5>1. i \in DOMAIN Append(conn.queue, e) /\ Append(conn.queue, e)[i] = conn.queue[i]
          BY <1>0, AppendProperties DEF Conns
        <5> QED BY <5>1
      <4>3. \E j \in DOMAIN Append(conn.queue, e) : Append(conn.queue, e)[j] = e
        <5>1. /\ Len(conn.queue) + 1 \in DOMAIN Append(conn.queue, e)
              /\ Append(conn.queue, e)[Len(conn.queue) + 1] = e
          BY <1>0, AppendProperties DEF Conns
        <5> QED BY <5>1
      <4> QED BY <4>1, <4>2, <4>3
    <3>2. PICK heard \in SUBSET Turns : heard = conn.heard \cup {line.of}
      BY <1>0, <2>1 DEF Conns
    <3>3. conn' = [conn EXCEPT !.queue = events, !.heard = heard]
      BY <1>0, <1>3, <2>2, <2>3, <2>5, <3>1, <3>2 DEF PushEvent
    <3>4. /\ conn' \in Conns /\ conn'.calls = conn.calls /\ conn'.queue = events
          /\ conn'.heard = heard /\ conn'.ended = conn.ended
      BY <1>0, <3>3 DEF Conns
    <3>5. \A t \in Turns : \/ watching'[t] = watching[t]
                           \/ watching'[t] = "events" /\ watching[t] = "none" /\ conn.calls[t] = "done"
      BY <1>3, <3>4 DEF Watched
    <3>6. watching' \in Watchers
      BY <1>3 DEF ServerInv, Watched, Watchers
    <3>7. Sends(next) = child
      BY <1>3, <3>4 DEF Sends
    <3>8. /\ child' \in Children /\ child'.begun = child.begun /\ child'.owes = child.owes
          /\ child'.told = child.told /\ child'.reads = child.reads /\ child'.writes = writes
      BY <1>0, <1>1, <1>3, <3>7 DEF Children
    <3>9. UnsentUnknown'
      <4> SUFFICES ASSUME NEW t \in Turns, conn.calls[t] \in Unsent
                   PROVE  /\ t \notin child.begun \cup child.owes \cup child.told \cup heard
                          /\ \A i \in DOMAIN child.reads : child.reads[i] # t
                          /\ watching'[t] = "none"
        BY <3>4, <3>8 DEF UnsentUnknown
      <4>1. conn.calls[t] # "done"
        BY DEF Unsent
      <4> QED BY <2>1, <3>2, <3>5, <4>1 DEF ServerInv, UnsentUnknown
    <3>10. EventsOfTold'
      BY <1>1, <3>8 DEF ServerInv, EventsOfTold
    <3>11. OneAtATime'
      BY <3>4, <3>5 DEF ServerInv, OneAtATime
    <3>12. HeardIsQueued'
      <4> SUFFICES ASSUME NEW t \in heard
                   PROVE  \/ watching'[t] \in {"completed", "failed"}
                          \/ \E i \in DOMAIN events : events[i].turn = t
        BY <3>4 DEF HeardIsQueued
      <4>1. CASE t = line.of
        BY <2>2, <3>1, <4>1
      <4>2. CASE t # line.of
        <5>1. t \in conn.heard /\ t \in Turns
          BY <3>2, <4>2
        <5>2. CASE \E i \in DOMAIN conn.queue : conn.queue[i].turn = t
          BY <3>1, <5>2
        <5>3. CASE watching[t] \in {"completed", "failed"}
          BY <3>5, <5>1, <5>3
        <5> QED BY <5>1, <5>2, <5>3 DEF ServerInv, HeardIsQueued
      <4> QED BY <4>1, <4>2
    <3>13. \A t \in Turns : watching'[t] = "ended" => conn'.ended /\ t \notin conn'.heard
      BY <2>5, <3>5 DEF ServerInv
    <3> QED BY <3>4, <3>6, <3>8, <3>9, <3>10, <3>11, <3>12, <3>13 DEF ServerInv
  <2> QED BY <2>4, <2>5
<1> QED BY <1>5, <1>6, <1>7

\* What the server knows of a turn rests on its request, which was sent.
LEMMA ServerKeeps ==
    ASSUME ServerInv, UNCHANGED <<conn, watching>>, child' \in Children,
           child'.begun \subseteq child.begun \cup {child.reads[i] : i \in DOMAIN child.reads},
           child'.owes \subseteq child.owes \cup {child.reads[i] : i \in DOMAIN child.reads},
           child'.told \subseteq child.told \cup child.begun, child.told \subseteq child'.told,
           \A i \in DOMAIN child'.reads : \E j \in DOMAIN child.reads : child.reads[j] = child'.reads[i],
           \A i \in DOMAIN child'.writes :
               \/ \E j \in DOMAIN child.writes : child.writes[j] = child'.writes[i]
               \/ child'.writes[i].kind = "event" => child'.writes[i].of \in child'.told
    PROVE  ServerInv'
<1>1. UnsentUnknown'
  BY DEF ServerInv, UnsentUnknown
<1>2. EventsOfTold'
  BY DEF ServerInv, EventsOfTold
<1>3. OneAtATime' /\ HeardIsQueued'
  BY DEF ServerInv, OneAtATime, HeardIsQueued
<1> QED BY <1>1, <1>2, <1>3 DEF ServerInv

\* The stream after one more line.
LEMMA OneMoreLine ==
    ASSUME NEW writes \in Seq(Lines), NEW line \in Lines
    PROVE  /\ Append(writes, line) \in Seq(Lines)
           /\ \A i \in DOMAIN Append(writes, line) :
                 \/ \E j \in DOMAIN writes : writes[j] = Append(writes, line)[i]
                 \/ Append(writes, line)[i] = line
BY AppendProperties

LEMMA ServerStepKeeps == ASSUME ServerInv, ServerStep PROVE ServerInv'
<1>0. child \in Children /\ child.reads \in Seq(Requests) /\ child.writes \in Seq(Lines)
  BY DEF ServerInv, Children
<1>1. CASE ServerReads
  <2>1. PICK r \in Requests, reads \in Seq(Requests), begun \in SUBSET Turns :
          /\ r = Head(child.reads) /\ reads = Tail(child.reads)
          /\ begun = IF r \in Turns THEN child.begun \cup {r} ELSE child.begun
          /\ r \in {child.reads[i] : i \in DOMAIN child.reads}
          /\ \A i \in DOMAIN reads : \E j \in DOMAIN child.reads : child.reads[j] = reads[i]
    <3>1. child.reads # <<>> /\ Head(child.reads) \in Requests /\ Tail(child.reads) \in Seq(Requests)
      BY <1>0, <1>1, HeadTailProperties DEF ServerReads
    <3>2. ASSUME NEW i \in DOMAIN Tail(child.reads)
          PROVE  \E j \in DOMAIN child.reads : child.reads[j] = Tail(child.reads)[i]
      <4>1. i + 1 \in DOMAIN child.reads /\ Tail(child.reads)[i] = child.reads[i + 1]
        BY <1>0, <3>1
      <4> QED BY <4>1
    <3>3. 1 \in DOMAIN child.reads /\ child.reads[1] = Head(child.reads)
      BY <1>0, <3>1
    <3>4. IF Head(child.reads) \in Turns THEN child.begun \cup {Head(child.reads)} \subseteq Turns
                                         ELSE child.begun \subseteq Turns
      BY <1>0 DEF Children
    <3>5. PICK r, reads : r = Head(child.reads) /\ reads = Tail(child.reads)
      OBVIOUS
    <3>6. PICK begun : begun = IF r \in Turns THEN child.begun \cup {r} ELSE child.begun
      OBVIOUS
    <3>7. r \in Requests /\ reads \in Seq(Requests) /\ begun \in SUBSET Turns
      BY <3>1, <3>4, <3>5, <3>6
    <3>8. r \in {child.reads[i] : i \in DOMAIN child.reads}
      BY <3>3, <3>5
    <3> QED BY <3>2, <3>5, <3>6, <3>7, <3>8
  <2>2. /\ child' = [child EXCEPT !.reads = reads, !.owes = child.owes \cup {r}, !.begun = begun]
        /\ UNCHANGED <<conn, watching>>
    BY <1>1, <2>1, <1>0 DEF ServerReads, Children
  <2>3. /\ child' \in Children /\ child'.reads = reads /\ child'.owes = child.owes \cup {r}
        /\ child'.begun = begun /\ child'.told = child.told /\ child'.writes = child.writes
    BY <1>0, <2>1, <2>2 DEF Children
  <2> QED BY <2>1, <2>2, <2>3, ServerKeeps
<1>2. CASE ServerEnds
  <2>1. PICK none \in Seq(Requests) :
          /\ none = <<>> /\ child' = [child EXCEPT !.up = FALSE, !.reads = none]
          /\ UNCHANGED <<conn, watching>>
    BY <1>2, EmptySeq DEF ServerEnds
  <2>2. /\ child' \in Children /\ child'.reads = <<>> /\ child'.owes = child.owes
        /\ child'.begun = child.begun /\ child'.told = child.told /\ child'.writes = child.writes
    BY <1>0, <2>1 DEF Children
  <2>3. DOMAIN child'.reads = {}
    BY <2>2
  <2> QED BY <2>1, <2>2, <2>3, ServerKeeps
<1>3. ASSUME NEW r \in Requests, NEW ok \in BOOLEAN, ServerAnswers(r, ok) PROVE ServerInv'
  <2> DEFINE writes == Append(child.writes, Written("answer", r, ok))
  <2>1. PICK line \in Lines : line = Written("answer", r, ok)
    BY DEF Written, Lines
  <2>2. PICK begun \in SUBSET Turns : begun = IF ok THEN child.begun ELSE child.begun \ {r}
    BY <1>0 DEF Children
  <2>3. /\ child' = [child EXCEPT !.owes = child.owes \ {r}, !.writes = writes, !.begun = begun]
        /\ UNCHANGED <<conn, watching>>
    BY <1>3, <2>1, <2>2, <1>0 DEF ServerAnswers, Children
  <2>4. writes \in Seq(Lines) /\ line.kind # "event"
        /\ \A i \in DOMAIN writes : writes[i] = line \/ \E j \in DOMAIN child.writes : child.writes[j] = writes[i]
    BY <1>0, <2>1, OneMoreLine DEF Written
  <2>5. /\ child' \in Children /\ child'.reads = child.reads /\ child'.owes = child.owes \ {r}
        /\ child'.begun = begun /\ child'.told = child.told /\ child'.writes = writes
    BY <1>0, <2>3, <2>4 DEF Children
  <2> QED BY <2>2, <2>3, <2>4, <2>5, ServerKeeps
<1>4. ASSUME NEW t \in Turns, NEW ok \in BOOLEAN, ServerTells(t, ok) PROVE ServerInv'
  <2> DEFINE writes == Append(child.writes, Written("event", t, ok))
  <2>1. PICK line \in Lines : line = Written("event", t, ok)
    BY DEF Written, Lines, Requests
  <2>2. /\ child' = [child EXCEPT !.told = child.told \cup {t}, !.writes = writes]
        /\ UNCHANGED <<conn, watching>> /\ t \in child.begun
    BY <1>4, <2>1, <1>0 DEF ServerTells, Children
  <2>3. writes \in Seq(Lines) /\ line.of = t
        /\ \A i \in DOMAIN writes : writes[i] = line \/ \E j \in DOMAIN child.writes : child.writes[j] = writes[i]
    BY <1>0, <2>1, OneMoreLine DEF Written
  <2>4. /\ child' \in Children /\ child'.reads = child.reads /\ child'.owes = child.owes
        /\ child'.begun = child.begun /\ child'.told = child.told \cup {t} /\ child'.writes = writes
    BY <1>0, <2>2, <2>3 DEF Children
  <2> QED BY <2>2, <2>3, <2>4, ServerKeeps
<1>5. ASSUME NEW kind \in {"request", "garbage"}, ServerIsOdd(kind) PROVE ServerInv'
  <2>0. Written(kind, "init", TRUE) \in Lines /\ child.odd + 1 \in Nat
    BY <1>0 DEF Written, Lines, Requests, Children
  <2>1. PICK line \in Lines, odd \in Nat : line = Written(kind, "init", TRUE) /\ odd = child.odd + 1
    BY <2>0
  <2> DEFINE writes == Append(child.writes, line)
  <2>2. child' = [child EXCEPT !.odd = odd, !.writes = writes] /\ UNCHANGED <<conn, watching>>
    BY <1>5, <2>1, <1>0 DEF ServerIsOdd, Children
  <2>3. writes \in Seq(Lines) /\ line.kind # "event"
        /\ \A i \in DOMAIN writes : writes[i] = line \/ \E j \in DOMAIN child.writes : child.writes[j] = writes[i]
    BY <1>0, <2>1, OneMoreLine DEF Written
  <2>4. /\ child' \in Children /\ child'.reads = child.reads /\ child'.owes = child.owes
        /\ child'.begun = child.begun /\ child'.told = child.told /\ child'.writes = writes
    BY <1>0, <2>1, <2>2, <2>3 DEF Children
  <2> QED BY <2>2, <2>3, <2>4, ServerKeeps
<1> QED BY <1>1, <1>2, <1>3, <1>4, <1>5 DEF ServerStep

LEMMA ServerKept == ServerInv /\ (ClientNext \/ UNCHANGED clientVars) => ServerInv'
<1> SUFFICES ASSUME ServerInv, ClientNext \/ UNCHANGED clientVars PROVE ServerInv'
  OBVIOUS
<1>1. CASE UNCHANGED clientVars
  BY <1>1 DEF ServerInv, UnsentUnknown, EventsOfTold, OneAtATime, HeardIsQueued, clientVars
<1>2. CASE ClientNext
  BY <1>2, StartTurnKeeps, WatchKeeps, TimerKeeps, HandleLineKeeps, ClosingKeeps, ServerStepKeeps DEF ClientNext
<1> QED BY <1>1, <1>2

LEMMA ServerStart == ClientInit => ServerInv
<1> SUFFICES ASSUME ClientInit PROVE ServerInv
  OBVIOUS
<1>1. conn \in Conns /\ child \in Children /\ watching \in Watchers
  <2>1. [r \in Requests |-> "idle"] \in [Requests -> CallStates]
    BY DEF CallStates, Unsent
  <2>2. conn \in Conns
    BY <2>1 DEF ClientInit, Conns
  <2> QED BY <2>2 DEF ClientInit, Children, Watchers
<1>2. \A t \in Turns : conn.calls[t] = "idle" /\ watching[t] = "none"
  BY DEF ClientInit, Requests
<1> QED BY <1>1, <1>2 DEF ClientInit, ServerInv, UnsentUnknown, EventsOfTold, OneAtATime, HeardIsQueued

LEMMA ServerTellsTruly == ServerInv => TurnsToldTruly
BY DEF ServerInv, UnsentUnknown, Unsent, TurnsToldTruly, NotDispatchedIsTrue, EndIsSeen

-----------------------------------------------------------------------------
(* The browser worker *)

LEMMA LeastOfSome ==
    ASSUME NEW S \in SUBSET Nat, S # {}
    PROVE  \E least \in S : \A i \in S : least <= i
<1> DEFINE R == OpToRel(<, Nat)
<1>1. PICK least \in S : \A i \in S : <<i, least>> \notin R
  <2> HIDE DEF R
  <2>1. IsWellFoundedOn(R, Nat)
    BY NatLessThanWellFounded DEF R
  <2> QED BY <2>1, WFMin
<1>2. ASSUME NEW i \in S PROVE least <= i
  <2>1. least \in Nat /\ i \in Nat
    OBVIOUS
  <2>2. ~(i < least)
    BY <1>1, <2>1 DEF OpToRel
  <2> QED BY <2>1, <2>2
<1> QED BY <1>2

LEMMA RequestIsFound == ASSUME chat \in Seq(Messages), Requested PROVE RequestAt # 0
<1> DEFINE I == {i \in 1 .. Len(chat) : chat[i].role = "request"}
<1>1. I \in SUBSET Nat /\ I # {}
  BY DEF Requested
<1>2. PICK least \in I : \A i \in I : least <= i
  BY <1>1, LeastOfSome
<1>3. Min(I) \in I
  BY <1>2 DEF Min
<1>4. RequestAt = Min(I)
  BY <1>1 DEF RequestAt, SelectInSeq
<1> QED BY <1>3, <1>4

LEMMA AnswerIsOfAssistant ==
    ASSUME chat \in Seq(Messages), AnswerAt # 0
    PROVE  AnswerAt \in DOMAIN chat /\ chat[AnswerAt].role = "assistant"
<1> DEFINE after == {i \in DOMAIN chat : i > RequestAt /\ chat[i].role = "assistant"}
<1>1. after # {} /\ AnswerAt = CHOOSE i \in after : \A j \in after : i <= j
  BY DEF AnswerAt
<1>2. after \in SUBSET Nat
  OBVIOUS
<1>3. PICK least \in after : \A i \in after : least <= i
  BY <1>1, <1>2, LeastOfSome
<1>4. AnswerAt \in after
  BY <1>1, <1>3
<1> QED BY <1>4

LEMMA UserMessagesType == ASSUME chat \in Seq(Messages) PROVE UserMessages \in Nat
<1>1. IsFiniteSet(1 .. Len(chat))
  BY FS_Interval
<1>2. {i \in DOMAIN chat : chat[i].role \in {"user", "request"}} \in SUBSET (1 .. Len(chat))
  OBVIOUS
<1> QED BY <1>1, <1>2, FS_Subset, FS_CardinalityType DEF UserMessages

\* Where a conversation has the request, and the answer to it.
AskedIn(c) == SelectInSeq(c, LAMBDA m : m.role = "request")
AnsweredIn(c) ==
    IF AskedIn(c) = 0 THEN 0
    ELSE LET after == {i \in DOMAIN c : i > AskedIn(c) /\ c[i].role = "assistant"}
         IN  IF after = {} THEN 0 ELSE CHOOSE i \in after : \A j \in after : i <= j

LEMMA AskedAndAnswered ==
    /\ RequestAt = AskedIn(chat) /\ AnswerAt = AnsweredIn(chat)
    /\ RequestAt' = AskedIn(chat') /\ AnswerAt' = AnsweredIn(chat')
<1>1. RequestAt = AskedIn(chat)
  BY DEF RequestAt, AskedIn, SelectInSeq
<1>2. RequestAt' = AskedIn(chat')
  BY DEF RequestAt, AskedIn, SelectInSeq
<1>3. AnswerAt = AnsweredIn(chat)
  BY <1>1 DEF AnswerAt, AnsweredIn
<1>4. AnswerAt' = AnsweredIn(chat')
  BY <1>2 DEF AnswerAt, AnsweredIn
<1> QED BY <1>1, <1>2, <1>3, <1>4

LEMMA SameChat ==
    ASSUME UNCHANGED chat
    PROVE  /\ Requested' = Requested /\ UserMessages' = UserMessages
           /\ AnswerAt' = AnswerAt /\ AnswerWhole' = AnswerWhole
<1>1. Requested' = Requested
  BY DEF Requested
<1>2. UserMessages' = UserMessages
  BY DEF UserMessages
<1>3. AnswerAt' = AnswerAt
  BY AskedAndAnswered
<1>4. AnswerWhole' = AnswerWhole
  BY <1>3 DEF AnswerWhole
<1> QED BY <1>1, <1>2, <1>3, <1>4

\* HandlerOK says nothing of the pages and texts that the conversation keeps.
LEMMA SameChatOK ==
    ASSUME UNCHANGED chat, NEW r, NEW c, HandlerOK(r, c)
    PROVE  HandlerOK(r, c)'
BY SameChat DEF HandlerOK

\* What misled a call once more only asks less of it.
LEMMA MisledOK ==
    ASSUME NEW old \in Handlers, NEW c, HandlerOK(old, c), NEW m \in Nat, m >= old.misled
    PROVE  [old EXCEPT !.misled = m] \in Handlers /\ HandlerOK([old EXCEPT !.misled = m], c)
<1>1. PICK r : r = [old EXCEPT !.misled = m]
  OBVIOUS
<1>2. /\ r \in Handlers /\ r.at = old.at /\ r.page = old.page /\ r.click = old.click /\ r.before = old.before
      /\ r.found = old.found /\ r.result = old.result /\ r.stable = old.stable /\ r.misled = m
  BY <1>1 DEF Handlers
<1>3. (m = 0 => old.misled = 0) /\ (m < 2 => old.misled < 2)
  BY DEF Handlers
<1>4. HandlerOK(r, c)
  BY <1>2, <1>3 DEF HandlerOK
<1> QED BY <1>1, <1>2, <1>4

\* A step of one call, which leaves the conversation alone.
LEMMA OneHandler ==
    ASSUME PostingInv, NEW h \in Calls, NEW r \in Handlers, NEW c \in Outcomes, HandlerOK(r, c),
           handler' = [handler EXCEPT ![h] = r], call' = [call EXCEPT ![h] = c],
           UNCHANGED chat, BrowserInv'
    PROVE  PostingInv'
<1>1. handler' \in [Calls -> Handlers] /\ call' \in [Calls -> Outcomes]
  BY DEF PostingInv
<1>2. \A g \in Calls : HandlerOK(handler'[g], call'[g])
  BY DEF PostingInv
<1>3. \A g \in Calls : HandlerOK(handler[g], call[g])'
  <2> SUFFICES ASSUME NEW g \in Calls PROVE HandlerOK(handler[g], call[g])'
    OBVIOUS
  <2>1. PICK q, d : q = handler'[g] /\ d = call'[g]
    OBVIOUS
  <2>2. HandlerOK(q, d)
    BY <1>2, <2>1
  <2>3. HandlerOK(q, d)'
    BY <2>2, SameChatOK
  <2> QED BY <2>1, <2>3
<1> QED BY <1>1, <1>3 DEF PostingInv

\* The same, when its client is told nothing and the worker goes on.
LEMMA HandlerGoes ==
    ASSUME PostingInv, NEW h \in Calls, NEW r \in Handlers, HandlerOK(r, call[h]),
           handler' = [handler EXCEPT ![h] = r], UNCHANGED <<worker, call, chat>>
    PROVE  PostingInv'
<1>1. call[h] \in Outcomes /\ call' = [call EXCEPT ![h] = call[h]] /\ BrowserInv'
  BY DEF PostingInv, BrowserInv
<1> QED BY <1>1, OneHandler

LEMMA EndsOK ==
    ASSUME PostingInv, NEW h \in Calls, handler[h].at \notin {"idle", "done"},
           NEW m \in Nat, m >= handler[h].misled,
           NEW result \in Results \ {"COMPLETED"}, result = "SUBMITTED" => Requested \/ m > 0,
           NEW click \in {"none", "pending", "posted"}, click = "posted" => handler[h].click = "posted"
    PROVE  LET r == [handler[h] EXCEPT !.at = "answer", !.result = result, !.click = click, !.misled = m]
           IN  r \in Handlers /\ HandlerOK(r, call[h])
<1>1. PICK old \in Handlers : old = handler[h]
  BY DEF PostingInv
<1>2. PICK r : r = [old EXCEPT !.at = "answer", !.result = result, !.click = click, !.misled = m]
  OBVIOUS
<1>3. "answer" \in Places
  BY DEF Places
<1>4. /\ r \in Handlers /\ r.at = "answer" /\ r.result = result /\ r.click = click /\ r.misled = m
      /\ r.page = old.page /\ r.found = old.found /\ r.before = old.before
  BY <1>2, <1>3 DEF Handlers
<1>5. /\ HandlerOK(old, call[h]) /\ old.at \notin {"idle", "done"}
      /\ (m = 0 => old.misled = 0)
  BY <1>1 DEF PostingInv, Handlers
<1>6. HandlerOK(r, call[h])
  BY <1>1, <1>4, <1>5 DEF HandlerOK
<1> QED BY <1>1, <1>2, <1>4, <1>6

LEMMA EndKeeps ==
    ASSUME PostingInv, NEW h \in Calls, handler[h].at \notin {"idle", "done"},
           NEW result \in Results \ {"COMPLETED"}, result = "SUBMITTED" => Requested \/ handler[h].misled > 0,
           Ends(h, result), UNCHANGED <<worker, call, chat>>
    PROVE  PostingInv'
<1>1. /\ handler \in [Calls -> Handlers] /\ handler[h].click \in {"none", "pending", "posted"}
      /\ handler[h].misled \in Nat
  BY DEF PostingInv, Handlers
<1>2. PICK click, m : click = handler[h].click /\ m = handler[h].misled
  OBVIOUS
<1>3. PICK old \in Handlers : old = handler[h]
  BY <1>1
<1>4. PICK r : r = [old EXCEPT !.at = "answer", !.result = result, !.click = click, !.misled = m]
  BY SMTT(30)
<1>5. r \in Handlers /\ HandlerOK(r, call[h])
  <2>1. m \in Nat /\ m >= handler[h].misled /\ (result = "SUBMITTED" => Requested \/ m > 0)
    BY <1>1, <1>2
  <2> QED BY <1>1, <1>2, <1>3, <1>4, <2>1, EndsOK
<1>6. r = [old EXCEPT !.at = "answer", !.result = result]
  BY <1>2, <1>3, <1>4 DEF Handlers
<1>7. handler' = [handler EXCEPT ![h] = r]
  BY <1>1, <1>3, <1>6 DEF Ends
<1> QED BY <1>5, <1>7, HandlerGoes

\* The page of a call opens, or its handler ends.
LEMMA NavigatesKeeps ==
    ASSUME PostingInv, NEW h \in Calls, handler[h].at \in {"context", "joined"}, Navigates(h),
           UNCHANGED <<worker, call, chat>>
    PROVE  PostingInv'
<1>1. handler \in [Calls -> Handlers]
  BY DEF PostingInv
<1>2. ASSUME NEW place \in {"inspect", "poll"},
             handler' = [handler EXCEPT ![h].page = "open", ![h].at = place]
      PROVE  PostingInv'
  <2>1. PICK old \in Handlers : old = handler[h]
    BY <1>1
  <2>2. PICK r : r = [old EXCEPT !.page = "open", !.at = place]
    OBVIOUS
  <2>3. handler' = [handler EXCEPT ![h] = r]
    BY <1>1, <1>2, <2>1, <2>2
  <2>4. /\ r \in Handlers /\ r.at = place /\ r.click = old.click /\ r.result = old.result
        /\ r.found = old.found /\ r.before = old.before /\ r.stable = old.stable /\ r.misled = old.misled
    BY <2>2 DEF Handlers, Places
  <2>5. HandlerOK(old, call[h]) /\ old.at \in {"context", "joined"}
    BY <2>1 DEF PostingInv
  <2>6. HandlerOK(r, call[h])
    BY <2>4, <2>5 DEF HandlerOK
  <2> QED BY <2>3, <2>4, <2>6, HandlerGoes
<1>3. ASSUME NEW result \in Results \ {"COMPLETED", "SUBMITTED"}, Ends(h, result) PROVE PostingInv'
  BY <1>3, EndKeeps
<1>4. \/ \E place \in {"inspect", "poll"} : handler' = [handler EXCEPT ![h].page = "open", ![h].at = place]
      \/ \E result \in Results \ {"COMPLETED", "SUBMITTED"} : Ends(h, result)
  BY DEF Navigates, Results
<1> QED BY <1>2, <1>3, <1>4

\* A handler that waits for a browser.
LEMMA OpensKeeps == ASSUME PostingInv, NEW h \in Calls, Opens(h) PROVE PostingInv'
<1>1. handler \in [Calls -> Handlers] /\ worker \in Workers /\ handler[h].at = "context"
  BY DEF PostingInv, BrowserInv, Opens, At
<1>2. CASE Navigates(h) /\ UNCHANGED worker
  BY <1>1, <1>2, NavigatesKeeps DEF Opens
<1>3. CASE /\ Proceeds(h, "joined")
           /\ \/ worker' = worker
              \/ /\ worker.context = "none"
                 /\ worker' = [worker EXCEPT !.context = "opening", !.strayed = TRUE]
  <2>1. PICK old \in Handlers, c \in Outcomes : old = handler[h] /\ c = call[h]
    BY <1>1 DEF PostingInv
  <2>2. PICK r : r = [old EXCEPT !.at = "joined"]
    OBVIOUS
  <2>3. handler' = [handler EXCEPT ![h] = r] /\ call' = [call EXCEPT ![h] = c] /\ UNCHANGED chat
    BY <1>1, <1>3, <2>1, <2>2 DEF Proceeds, Opens, PostingInv
  <2>4. /\ r \in Handlers /\ r.at = "joined" /\ r.click = old.click /\ r.result = old.result
        /\ r.found = old.found /\ r.before = old.before /\ r.stable = old.stable /\ r.misled = old.misled
    BY <2>2 DEF Handlers, Places
  <2>5. HandlerOK(old, c) /\ old.at = "context"
    BY <1>1, <2>1 DEF PostingInv
  <2>6. HandlerOK(r, c)
    BY <2>4, <2>5 DEF HandlerOK
  <2>7. BrowserInv'
    <3>1. CASE worker' = worker
      BY <3>1 DEF PostingInv, BrowserInv
    <3>2. CASE worker.context = "none" /\ worker' = [worker EXCEPT !.context = "opening", !.strayed = TRUE]
      <4>1. worker' \in Workers /\ worker'.strayed /\ worker'.context = "opening" /\ worker'.live = worker.live
        BY <1>1, <3>2 DEF Workers
      <4> QED BY <3>2, <4>1 DEF PostingInv, BrowserInv
    <3> QED BY <1>3, <3>1, <3>2
  <2> QED BY <2>3, <2>4, <2>6, <2>7, OneHandler
<1> QED BY <1>2, <1>3 DEF Opens

LEMMA JoinedKeeps == ASSUME PostingInv, NEW h \in Calls, Joined(h) \/ PageGone(h) PROVE PostingInv'
<1>1. handler[h].at \notin {"idle", "done"} /\ UNCHANGED <<worker, call, chat>>
  BY DEF PostingInv, HandlerOK, Joined, PageGone, OfHandler, At
<1>2. FailureOf(h) \in Results \ {"COMPLETED", "SUBMITTED"}
  BY DEF FailureOf, Results
<1>3. CASE Ends(h, FailureOf(h))
  BY <1>1, <1>2, <1>3, EndKeeps
<1>4. CASE Navigates(h) /\ handler[h].at = "joined"
  BY <1>1, <1>4, NavigatesKeeps
<1> QED BY <1>3, <1>4 DEF Joined, JoinedEnds, PageGone, At

LEMMA AnswersKeeps == ASSUME PostingInv, NEW h \in Calls, Answers(h) PROVE PostingInv'
<1>1. PICK old \in Handlers, c \in Outcomes : old = handler[h] /\ c = call[h]
  BY DEF PostingInv
<1>2. PICK r : r = [Idle EXCEPT !.at = "done", !.page = "none", !.click = old.click, !.found = old.found,
                          !.misled = old.misled]
  OBVIOUS
<1>3. PICK d : d = IF c = "asked" THEN old.result ELSE c
  OBVIOUS
<1>4. /\ handler' = [handler EXCEPT ![h] = r] /\ call' = [call EXCEPT ![h] = d] /\ UNCHANGED <<worker, chat>>
      /\ handler \in [Calls -> Handlers] /\ call \in [Calls -> Outcomes] /\ old.at = "answer"
  BY <1>1, <1>2, <1>3 DEF Answers, ClosedPage, PostingInv
<1>5. /\ r \in Handlers /\ r.at = "done" /\ r.page = "none" /\ r.click = old.click
      /\ r.found = old.found /\ r.misled = old.misled /\ r.result = "none" /\ d \in Outcomes
  <2>1. Idle \in Handlers /\ Idle.result = "none"
    BY DEF Idle, Handlers, Places, Results, Final
  <2>2. r \in Handlers /\ r.result = "none"
    BY <1>2, <2>1 DEF Handlers, Places
  <2>3. r.at = "done" /\ r.page = "none" /\ r.click = old.click /\ r.found = old.found /\ r.misled = old.misled
    BY <1>2, <2>1 DEF Handlers
  <2>4. d \in Outcomes
    BY <1>3 DEF Outcomes, Results, Handlers
  <2> QED BY <2>2, <2>3, <2>4
<1>6. HandlerOK(old, c)
  BY <1>1 DEF PostingInv
<1>7. HandlerOK(r, d)
  <2>1. old.result # "idle"
    BY DEF Handlers, Results
  <2> QED BY <1>3, <1>4, <1>5, <1>6, <2>1 DEF HandlerOK
<1>8. BrowserInv'
  BY <1>4 DEF PostingInv, BrowserInv
<1> QED BY <1>4, <1>5, <1>7, <1>8, OneHandler

LEMMA PostStepKeeps == ASSUME PostingInv, NEW h \in Calls, PostStep(h) PROVE PostingInv'
<1>1. PICK old \in Handlers : old = handler[h]
  BY DEF PostingInv
<1>2. handler \in [Calls -> Handlers] /\ HandlerOK(old, call[h]) /\ UserMessages \in Nat
  BY <1>1, UserMessagesType DEF PostingInv
<1>3. UNCHANGED <<worker, call, chat>> /\ old.at \in {"inspect", "click", "confirm"}
  BY <1>1 DEF PostStep, Inspects, Clicks, Confirms, OfHandler, At
<1>4. ASSUME NEW result \in Results \ {"COMPLETED", "SUBMITTED"}, Ends(h, result) PROVE PostingInv'
  BY <1>1, <1>3, <1>4, EndKeeps
<1>5. CASE Inspects(h)
  <2>0. old.at = "inspect"
    BY <1>1, <1>5 DEF Inspects, At
  <2>1. PICK count, missed : /\ count = UserMessages /\ count \in Nat
                             /\ missed = old.misled + (IF count > 0 THEN 1 ELSE 0)
    BY <1>2
  <2>2. missed \in Nat /\ (missed = 0 => count = 0)
    BY <2>1 DEF Handlers
  <2>3. ASSUME NEW n \in Nat, NEW m \in Nat, m = 0 => n = count,
               handler' = [handler EXCEPT ![h].at = "click", ![h].before = n, ![h].misled = m],
               m >= old.misled
        PROVE  PostingInv'
    <3>1. PICK r : r = [old EXCEPT !.at = "click", !.before = n, !.misled = m]
      OBVIOUS
    <3>2. handler' = [handler EXCEPT ![h] = r]
      BY <1>1, <1>2, <2>3, <3>1
    <3>3. /\ r \in Handlers /\ r.at = "click" /\ r.click = old.click /\ r.result = old.result
          /\ r.before = n /\ r.misled = m /\ r.page = old.page
      BY <3>1 DEF Handlers, Places
    <3>4. m = 0 => old.misled = 0
      BY <2>3 DEF Handlers
    <3>5. HandlerOK(r, call[h])
      BY <1>2, <2>0, <2>1, <2>3, <3>3, <3>4 DEF HandlerOK
    <3> QED BY <1>3, <3>2, <3>3, <3>5, HandlerGoes
  <2>4. ASSUME handler' = [handler EXCEPT ![h].at = "click", ![h].before = UserMessages] PROVE PostingInv'
    <3>1. PICK m : m = old.misled
      OBVIOUS
    <3>2. m \in Nat /\ m >= old.misled
      BY <3>1 DEF Handlers
    <3>3. [old EXCEPT !.at = "click", !.before = count]
            = [old EXCEPT !.at = "click", !.before = count, !.misled = m]
      BY <3>1 DEF Handlers
    <3>4. handler' = [handler EXCEPT ![h] = [old EXCEPT !.at = "click", !.before = count]]
      BY <1>1, <1>2, <2>1, <2>4
    <3>5. handler' = [handler EXCEPT ![h].at = "click", ![h].before = count, ![h].misled = m]
      BY <1>1, <1>2, <3>3, <3>4
    <3> QED BY <2>1, <2>3, <3>2, <3>5
  <2>5. ASSUME handler' = [handler EXCEPT ![h].at = "click", ![h].before = 0,
                                          ![h].misled = MisledIf(h, UserMessages > 0)]
        PROVE  PostingInv'
    <3>1. handler' = [handler EXCEPT ![h].at = "click", ![h].before = 0, ![h].misled = missed]
      BY <1>1, <2>1, <2>5 DEF MisledIf
    <3>2. missed >= old.misled
      BY <2>1 DEF Handlers
    <3> QED BY <2>2, <2>3, <3>1, <3>2
  <2>6. ASSUME NEW failed \in {"AUTH_REQUIRED", "COMPOSER_NOT_FOUND"}, Ends(h, failed) PROVE PostingInv'
    BY <1>4, <2>6 DEF Results
  <2> QED BY <1>5, <2>4, <2>5, <2>6 DEF Inspects
<1>6. CASE Clicks(h)
  <2>0. old.at = "click"
    BY <1>1, <1>6 DEF Clicks, At
  <2>1. ASSUME handler' = [handler EXCEPT ![h].at = "confirm", ![h].click = "pending"] PROVE PostingInv'
    <3>1. PICK r : r = [old EXCEPT !.at = "confirm", !.click = "pending"]
      OBVIOUS
    <3>2. handler' = [handler EXCEPT ![h] = r]
      BY <1>1, <1>2, <2>1, <3>1
    <3>3. /\ r \in Handlers /\ r.at = "confirm" /\ r.click = "pending" /\ r.result = old.result
          /\ r.before = old.before /\ r.misled = old.misled
      BY <3>1 DEF Handlers, Places
    <3>4. HandlerOK(r, call[h])
      BY <1>2, <2>0, <3>3 DEF HandlerOK
    <3> QED BY <1>3, <3>2, <3>3, <3>4, HandlerGoes
  <2>2. ASSUME NEW reached \in {"none", "pending"},
               handler' = [handler EXCEPT ![h].at = "answer", ![h].result = "SUBMIT_FAILED", ![h].click = reached]
        PROVE  PostingInv'
    <3>1. PICK m : m = old.misled
      OBVIOUS
    <3>2. PICK r : r = [old EXCEPT !.at = "answer", !.result = "SUBMIT_FAILED", !.click = reached, !.misled = m]
      OBVIOUS
    <3>3. "SUBMIT_FAILED" \in Results \ {"COMPLETED"} /\ handler[h].at \notin {"idle", "done"}
      <4>1. "SUBMIT_FAILED" \in Results \ {"COMPLETED"}
        BY SMTT(30) DEF Results
      <4> QED BY <1>1, <2>0, <4>1
    <3>4. m \in Nat /\ m >= handler[h].misled
      BY <1>1, <3>1, SMTT(30) DEF Handlers
    <3>5. r \in Handlers /\ HandlerOK(r, call[h])
      BY <1>1, <3>2, <3>3, <3>4, EndsOK
    <3>6. r = [old EXCEPT !.at = "answer", !.result = "SUBMIT_FAILED", !.click = reached]
      BY <3>1, <3>2 DEF Handlers
    <3>7. handler' = [handler EXCEPT ![h] = r]
      BY <1>1, <1>2, <2>2, <3>6
    <3> QED BY <1>3, <3>5, <3>7, HandlerGoes
  <2> QED BY <1>6, <2>1, <2>2 DEF Clicks
<1>7. CASE Confirms(h)
  <2>1. old.at = "confirm"
    BY <1>1, <1>7 DEF Confirms, At
  <2>2. ASSUME Accepted(h) PROVE Requested \/ old.misled > 0
    <3>1. old.misled \in Nat
      BY DEF Handlers
    <3>2. CASE old.misled = 0
      BY <1>1, <1>2, <2>1, <2>2, <3>2 DEF Accepted, HandlerOK
    <3> QED BY <3>1, <3>2
  <2>3. ASSUME Accepted(h), Ends(h, "SUBMITTED") PROVE PostingInv'
    <3>1. "SUBMITTED" \in Results \ {"COMPLETED"}
      BY DEF Results
    <3> QED BY <1>1, <1>3, <2>2, <2>3, <3>1, EndKeeps
  <2>4. ASSUME Ends(h, "SUBMIT_FAILED") PROVE PostingInv'
    BY <1>4, <2>4 DEF Results
  <2>5. ASSUME handler' = [handler EXCEPT ![h].at = "answer", ![h].result = "SUBMITTED",
                                          ![h].misled = MisledIf(h, ~Accepted(h))]
        PROVE  PostingInv'
    <3>1. PICK m, click : m = old.misled + (IF ~Accepted(h) THEN 1 ELSE 0) /\ click = old.click
      OBVIOUS
    <3>2. m \in Nat /\ m >= old.misled /\ (Requested \/ m > 0)
      BY <2>2, <3>1 DEF Handlers
    <3>3. click \in {"none", "pending", "posted"} /\ "SUBMITTED" \in Results \ {"COMPLETED"}
      BY <3>1 DEF Handlers, Results
    <3>4. PICK r : r = [old EXCEPT !.at = "answer", !.result = "SUBMITTED", !.click = click, !.misled = m]
      BY SMTT(30)
    <3>5. r \in Handlers /\ HandlerOK(r, call[h])
      BY <1>1, <2>1, <3>1, <3>2, <3>3, <3>4, EndsOK
    <3>6. r = [old EXCEPT !.at = "answer", !.result = "SUBMITTED", !.misled = m]
      BY <3>1, <3>4 DEF Handlers
    <3>7. handler' = [handler EXCEPT ![h].at = "answer", ![h].result = "SUBMITTED", ![h].misled = m]
      BY <1>1, <2>5, <3>1 DEF MisledIf
    <3>8. handler' = [handler EXCEPT ![h] = r]
      BY <1>1, <1>2, <3>6, <3>7
    <3> QED BY <1>3, <3>5, <3>8, HandlerGoes
  <2> QED BY <1>7, <2>3, <2>4, <2>5 DEF Confirms
<1> QED BY <1>5, <1>6, <1>7 DEF PostStep

LEMMA TextsType ==
    ASSUME chat \in Seq(Messages), NEW i \in DOMAIN chat
    PROVE  chat[i].text \in 0 .. Final /\ chat[i].role \in {"user", "assistant", "request"}
<1>1. chat[i] \in Messages
  OBVIOUS
<1> QED BY <1>1 DEF Messages

LEMMA CollectStepKeeps == ASSUME PostingInv, NEW h \in Calls, CollectStep(h) PROVE PostingInv'
<1>1. PICK old \in Handlers : old = handler[h]
  BY DEF PostingInv
<1>2. handler \in [Calls -> Handlers] /\ HandlerOK(old, call[h]) /\ chat \in Seq(Messages)
  BY <1>1 DEF PostingInv
<1>3. UNCHANGED <<worker, call, chat>> /\ old.at \in {"poll", "look", "extract"}
  BY <1>1 DEF CollectStep, Polls, Looks, DetectionTimesOut, Extracts, OfHandler, At
<1>4. ASSUME NEW result \in Results \ {"COMPLETED", "SUBMITTED"}, Ends(h, result) PROVE PostingInv'
  BY <1>1, <1>3, <1>4, EndKeeps
<1>5. ASSUME Ends(h, "FAILED") PROVE PostingInv'
  BY <1>4, <1>5 DEF Results
<1>6. CASE /\ At(h, "poll")
           /\ handler' = [handler EXCEPT ![h].at = "look", ![h].before = AnswerAt,
                                         ![h].found = IF AnswerAt = 0 THEN 0 ELSE chat[AnswerAt].text]
  <2>1. PICK at : at = AnswerAt
    OBVIOUS
  <2>2. PICK text : text = IF at = 0 THEN 0 ELSE chat[at].text
    OBVIOUS
  <2>3. at # 0 => at \in DOMAIN chat /\ chat[at].role = "assistant"
    BY <1>2, <2>1, AnswerIsOfAssistant
  <2>4. at \in Nat /\ text \in 0 .. Final
    BY <1>2, <2>2, <2>3, TextsType DEF Final
  <2>5. PICK r : r = [old EXCEPT !.at = "look", !.before = at, !.found = text]
    OBVIOUS
  <2>6. handler' = [handler EXCEPT ![h].at = "look", ![h].before = at, ![h].found = text]
    BY <1>6, <2>1, <2>2
  <2>7. handler' = [handler EXCEPT ![h] = r]
    BY <1>1, <1>2, <2>5, <2>6
  <2>8. /\ r \in Handlers /\ r.at = "look" /\ r.click = old.click /\ r.result = old.result
        /\ r.before = at /\ r.found = text /\ r.stable = old.stable /\ r.misled = old.misled
    BY <2>4, <2>5 DEF Handlers, Places
  <2>9. old.at = "poll"
    BY <1>1, <1>6 DEF At
  <2>10. HandlerOK(r, call[h])
    BY <1>2, <2>1, <2>2, <2>8, <2>9 DEF HandlerOK
  <2> QED BY <1>3, <2>7, <2>8, <2>10, HandlerGoes
<1>7. ASSUME NEW writing \in BOOLEAN, NEW m \in Nat, Looked(h, writing, m), At(h, "look"),
             \/ m = old.misled /\ (writing \/ Writing = {})
             \/ m = old.misled + 1
      PROVE  PostingInv'
  <2>1. PICK same : same = SameFinished(h, writing)
    OBVIOUS
  <2>2. PICK place : place = IF same >= 2 THEN "extract" ELSE "poll"
    OBVIOUS
  <2>3. /\ same \in Nat /\ (same # 0 => old.found # 0 /\ ~writing)
        /\ (same >= 2 => old.stable # 0)
    BY <1>1, <2>1 DEF SameFinished, Handlers
  <2>4. PICK r : r = [old EXCEPT !.text = old.found, !.stable = same, !.at = place, !.misled = m]
    OBVIOUS
  <2>5. handler' = [handler EXCEPT ![h].text = old.found, ![h].stable = same, ![h].at = place,
                                   ![h].misled = m]
    BY <1>1, <1>7, <2>1, <2>2 DEF Looked
  <2>6. handler' = [handler EXCEPT ![h] = r]
    BY <1>1, <1>2, <2>4, <2>5
  <2>7. /\ r \in Handlers /\ r.at = place /\ r.click = old.click /\ r.result = old.result
        /\ r.before = old.before /\ r.found = old.found /\ r.stable = same /\ r.misled = m
    BY <2>2, <2>3, <2>4 DEF Handlers, Places
  <2>8. old.at = "look" /\ old.misled \in Nat
    BY <1>1, <1>7 DEF At, Handlers
  <2>9. same # 0 => /\ old.before # 0 /\ old.before = AnswerAt
                    /\ old.before \in DOMAIN chat /\ chat[old.before].role = "assistant"
    BY <1>2, <2>3, <2>8, AnswerIsOfAssistant DEF HandlerOK
  <2>10. ASSUME same # 0, Writing = {} PROVE chat[old.before].text = Final
    <3>1. old.before \in DOMAIN chat /\ chat[old.before].role = "assistant"
      BY <2>9, <2>10
    <3>2. ~(chat[old.before].text < Final)
      BY <2>10, <3>1 DEF Writing
    <3>3. chat[old.before].text \in 0 .. Final
      BY <1>2, <3>1, TextsType
    <3> QED BY <3>2, <3>3 DEF Final
  <2>11. m = 0 /\ same # 0 => AnswerWhole
    BY <1>7, <2>3, <2>8, <2>9, <2>10 DEF AnswerWhole
  <2>12. ASSUME place = "extract", m < 2 PROVE chat[old.before].text = Final
    <3>1. same # 0 /\ old.stable # 0
      BY <2>2, <2>3, <2>12
    <3>2. CASE m = old.misled + 1
      <4>1. old.misled = 0
        BY <2>8, <2>12, <3>2
      <4>2. AnswerWhole
        BY <1>2, <2>8, <3>1, <4>1 DEF HandlerOK
      <4> QED BY <2>9, <3>1, <4>2 DEF AnswerWhole
    <3>3. CASE Writing = {}
      BY <2>10, <3>1, <3>3
    <3>4. ~writing
      BY <2>3, <3>1
    <3> QED BY <1>7, <3>2, <3>3, <3>4
  <2>13. HandlerOK(r, call[h])
    <3>1. place = "extract" => same # 0
      BY <2>2, <2>3
    <3>2. place \in {"extract", "poll"} /\ (m = 0 => old.misled = 0) /\ (m < 2 => old.misled < 2)
      BY <1>7, <2>2, <2>8
    <3> QED BY <1>2, <2>7, <2>8, <2>9, <2>11, <2>12, <3>1, <3>2 DEF HandlerOK
  <2> QED BY <1>3, <2>6, <2>7, <2>13, HandlerGoes
<1>8. CASE Looks(h)
  <2>1. old.misled \in Nat /\ At(h, "look")
    BY <1>8 DEF Handlers, Looks
  <2>2. CASE Looked(h, Writing # {}, handler[h].misled)
    <3>1. PICK writing \in BOOLEAN : writing = (Writing # {})
      OBVIOUS
    <3>2. Looked(h, writing, old.misled)
      BY <1>1, <2>2, <3>1
    <3> QED BY <1>7, <2>1, <3>1, <3>2
  <2>3. CASE Looked(h, FALSE, MisledIf(h, Writing # {}))
    <3>1. PICK m : m = old.misled + (IF Writing # {} THEN 1 ELSE 0)
      OBVIOUS
    <3>2. /\ m \in Nat
          /\ \/ m = old.misled /\ Writing = {}
             \/ m = old.misled + 1
      BY <2>1, <3>1
    <3>3. Looked(h, FALSE, m)
      BY <1>1, <2>3, <3>1 DEF MisledIf
    <3> QED BY <1>7, <2>1, <3>2, <3>3
  <2> QED BY <1>5, <1>8, <2>2, <2>3 DEF Looks
<1>9. CASE DetectionTimesOut(h)
  <2>1. Ends(h, "TIMEOUT") /\ "TIMEOUT" \in Results \ {"COMPLETED", "SUBMITTED"}
    BY <1>9 DEF DetectionTimesOut, Results
  <2> QED BY <1>4, <2>1
<1>10. CASE Extracts(h)
  <2>0. old.at = "extract"
    BY <1>1, <1>10 DEF Extracts, At
  <2>1. ASSUME handler' = [handler EXCEPT ![h].at = "answer", ![h].result = "COMPLETED",
                                          ![h].found = chat[old.before].text]
        PROVE  PostingInv'
    <3>1. PICK text : text = chat[old.before].text
      OBVIOUS
    <3>2. text \in 0 .. Final /\ (old.misled < 2 => text = Final)
      BY <1>2, <2>0, <3>1, TextsType DEF HandlerOK
    <3>3. PICK r : r = [old EXCEPT !.at = "answer", !.result = "COMPLETED", !.found = text]
      OBVIOUS
    <3>4. handler' = [handler EXCEPT ![h] = r]
      BY <1>1, <1>2, <2>1, <3>1, <3>3
    <3>5. /\ r \in Handlers /\ r.at = "answer" /\ r.click = old.click /\ r.result = "COMPLETED"
          /\ r.found = text /\ r.misled = old.misled
      <4>1. "answer" \in Places /\ "COMPLETED" \in Results
        BY DEF Places, Results
      <4> QED BY <3>2, <3>3, <4>1 DEF Handlers
    <3>6. HandlerOK(r, call[h])
      BY <1>2, <2>0, <3>2, <3>5 DEF HandlerOK
    <3> QED BY <1>3, <3>4, <3>5, <3>6, HandlerGoes
  <2> QED BY <1>1, <1>5, <1>10, <2>1 DEF Extracts
<1>11. CASE Polls(h)
  BY <1>5, <1>6, <1>11 DEF Polls
<1> QED BY <1>9, <1>10, <1>8, <1>11 DEF CollectStep

LEMMA ClientOfWorkerKeeps ==
    ASSUME PostingInv, NEW h \in Calls, CallWorker(h) \/ GivesUp(h)
    PROVE  PostingInv'
<1>1. PICK old \in Handlers, c \in Outcomes : old = handler[h] /\ c = call[h]
  BY DEF PostingInv
<1>2. /\ handler \in [Calls -> Handlers] /\ call \in [Calls -> Outcomes] /\ HandlerOK(old, c)
      /\ UNCHANGED chat
  BY <1>1 DEF PostingInv, CallWorker, GivesUp
<1>3. BrowserInv'
  BY DEF PostingInv, BrowserInv, CallWorker, GivesUp
<1>4. ASSUME NEW d \in {"UNAVAILABLE", "TIMEOUT"}, call' = [call EXCEPT ![h] = d], UNCHANGED handler
      PROVE  PostingInv'
  <2>1. d \in Outcomes /\ handler' = [handler EXCEPT ![h] = old]
    BY <1>1, <1>2, <1>4 DEF Outcomes, Results
  <2>2. HandlerOK(old, d)
    BY <1>2, <1>4 DEF HandlerOK
  <2> QED BY <1>2, <1>3, <1>4, <2>1, <2>2, OneHandler
<1>5. ASSUME c = "idle", call' = [call EXCEPT ![h] = "asked"], handler' = [handler EXCEPT ![h].at = "context"]
      PROVE  PostingInv'
  <2>1. PICK r : r = [old EXCEPT !.at = "context"]
    OBVIOUS
  <2>2. handler' = [handler EXCEPT ![h] = r] /\ "asked" \in Outcomes
    BY <1>1, <1>2, <1>5, <2>1 DEF Outcomes
  <2>3. /\ r \in Handlers /\ r.at = "context" /\ r.click = old.click /\ r.result = old.result
        /\ r.misled = old.misled /\ r.stable = old.stable
    BY <2>1 DEF Handlers, Places
  <2>4. /\ old.result # "COMPLETED" /\ old.stable = 0 /\ (old.click = "posted" => Requested)
        /\ old.result = "SUBMITTED" /\ old.misled = 0 => Requested
    BY <1>2, <1>5 DEF HandlerOK
  <2>5. HandlerOK(r, "asked")
    BY <2>3, <2>4 DEF HandlerOK
  <2> QED BY <1>2, <1>3, <1>5, <2>2, <2>3, <2>5, OneHandler
<1> QED BY <1>1, <1>4, <1>5 DEF CallWorker, GivesUp

LEMMA WorkerStepKeeps ==
    ASSUME PostingInv, StartWorker \/ Launched \/ Listens \/ ServerCloses \/ Stopped
    PROVE  PostingInv'
<1>1. worker \in Workers /\ BrowserInv /\ handler \in [Calls -> Handlers]
  BY DEF PostingInv, BrowserInv
<1>2. ASSUME BrowserInv', OfWorker PROVE PostingInv'
  <2>1. UNCHANGED <<handler, call, chat>>
    BY <1>2 DEF OfWorker
  <2>2. ASSUME NEW h \in Calls PROVE HandlerOK(handler[h], call[h])'
    <3>1. PICK r, c : r = handler[h] /\ c = call[h]
      OBVIOUS
    <3>2. HandlerOK(r, c)'
      BY <2>1, <3>1, SameChatOK DEF PostingInv
    <3>3. r = handler'[h] /\ c = call'[h]
      BY <2>1, <3>1
    <3> QED BY <3>2, <3>3
  <2> QED BY <1>2, <2>1, <2>2 DEF PostingInv
<1>3. CASE StartWorker
  <2>1. worker' = [worker EXCEPT !.status = "starting", !.context = "opening"]
    BY <1>3 DEF StartWorker
  <2>2. worker' \in Workers /\ worker'.live = worker.live /\ worker'.context = "opening" /\ worker'.status = "starting"
    BY <1>1, <2>1 DEF Workers
  <2>3. ~worker.strayed /\ worker.status = "stopped" /\ worker'.strayed = worker.strayed
    BY <1>1, <1>3, <2>1 DEF StartWorker, Workers
  <2> QED BY <1>1, <1>2, <1>3, <2>2, <2>3 DEF BrowserInv, StartWorker
<1>4. CASE Launched
  <2>1. PICK live \in Nat, status \in {"stopped", "starting", "failed", "ready", "stopping"} :
          /\ live = worker.live + 1
          /\ status = IF worker.status = "starting" THEN "failed" ELSE worker.status
    BY <1>1 DEF Workers
  <2>2. \/ worker' = [worker EXCEPT !.context = "open", !.live = live]
        \/ worker' = [worker EXCEPT !.context = "none", !.status = status]
    BY <1>1, <1>4, <2>1 DEF Launched, Workers
  <2>3. /\ worker' \in Workers /\ worker'.strayed = worker.strayed
        /\ \/ worker'.context = "open" /\ worker'.live = live /\ worker'.status = worker.status
           \/ worker'.context = "none" /\ worker'.live = worker.live /\ worker'.status = status
    BY <1>1, <2>1, <2>2 DEF Workers
  <2>4. worker.context = "opening"
    BY <1>4 DEF Launched
  <2>5. BrowserInv'
    BY <1>1, <2>1, <2>3, <2>4 DEF BrowserInv, Workers
  <2> QED BY <1>2, <1>4, <2>5 DEF Launched
<1>5. CASE Listens
  <2>1. PICK live \in Nat : live = IF worker.context = "open" THEN worker.live - 1 ELSE worker.live
    BY <1>1 DEF BrowserInv, Workers
  <2>2. worker.status = "starting" /\ worker.context = "open"
    BY <1>5 DEF Listens
  <2>3. \/ worker' = [worker EXCEPT !.status = "ready", !.listens = TRUE]
        \/ worker' = [worker EXCEPT !.context = "none", !.live = live, !.status = "failed"]
    BY <1>1, <1>5, <2>1 DEF Listens, CloseBrowser, Workers
  <2>4. /\ worker' \in Workers /\ worker'.strayed = worker.strayed
        /\ \/ worker'.context = "open" /\ worker'.live = worker.live /\ worker'.status = "ready"
           \/ worker'.context = "none" /\ worker'.live = live /\ worker'.status = "failed"
    BY <1>1, <2>2, <2>3 DEF Workers
  <2>5. BrowserInv'
    BY <1>1, <2>1, <2>2, <2>4 DEF BrowserInv
  <2> QED BY <1>2, <1>5, <2>5 DEF Listens
<1>6. CASE ServerCloses \/ Stopped
  <2>1. \/ worker' = [worker EXCEPT !.listens = FALSE]
        \/ worker.status = "stopping" /\ worker' = [worker EXCEPT !.status = "stopped"]
    BY <1>6 DEF ServerCloses, Stopped
  <2>2. /\ worker' \in Workers /\ worker'.strayed = worker.strayed /\ worker'.context = worker.context
        /\ worker'.live = worker.live /\ worker'.status # "starting"
        /\ worker.status = "stopping"
    BY <1>1, <1>6, <2>1 DEF Workers, ServerCloses, Stopped
  <2>3. BrowserInv'
    BY <1>1, <2>2 DEF BrowserInv
  <2> QED BY <1>2, <1>6, <2>3 DEF ServerCloses, Stopped
<1> QED BY <1>3, <1>4, <1>5, <1>6

LEMMA StopWorkerKeeps == ASSUME PostingInv, StopWorker PROVE PostingInv'
<1>1. worker \in Workers /\ BrowserInv /\ handler \in [Calls -> Handlers]
  BY DEF PostingInv, BrowserInv
<1>2. BrowserInv'
  <2>1. PICK live \in Nat : live = IF worker.context = "open" THEN worker.live - 1 ELSE worker.live
    BY <1>1 DEF BrowserInv, Workers
  <2>2. worker' = [worker EXCEPT !.context = "none", !.live = live, !.status = "stopping"]
    BY <1>1, <2>1 DEF StopWorker, CloseBrowser, Workers
  <2>3. /\ worker' \in Workers /\ worker'.strayed = worker.strayed
        /\ worker'.context = "none" /\ worker'.live = live /\ worker'.status = "stopping"
    BY <1>1, <2>2 DEF Workers
  <2> QED BY <1>1, <2>1, <2>3 DEF BrowserInv, Workers, StopWorker
<1>3. ASSUME NEW h \in Calls PROVE handler'[h] \in Handlers /\ HandlerOK(handler'[h], call[h])
  <2>1. PICK old \in Handlers : old = handler[h]
    BY <1>1
  <2>2. PICK page \in {"none", "open", "gone"} : page = IF old.page = "open" THEN "gone" ELSE old.page
    BY DEF Handlers
  <2>3. handler'[h] = [old EXCEPT !.page = page]
    BY <1>1, <2>1, <2>2 DEF StopWorker, Handlers
  <2>4. HandlerOK(old, call[h])
    BY <2>1 DEF PostingInv
  <2>5. PICK r : r = handler'[h]
    OBVIOUS
  <2>6. /\ r \in Handlers /\ r.at = old.at /\ r.page = page /\ r.click = old.click /\ r.before = old.before
        /\ r.found = old.found /\ r.result = old.result /\ r.stable = old.stable /\ r.misled = old.misled
    BY <2>3, <2>5 DEF Handlers
  <2>7. HandlerOK(r, call[h])
    BY <2>2, <2>4, <2>6 DEF HandlerOK
  <2> QED BY <2>5, <2>6, <2>7
<1>4. handler' \in [Calls -> Handlers]
  <2>1. handler' = [h \in Calls |-> handler'[h]]
    BY DEF StopWorker
  <2> QED BY <1>3, <2>1
<1>5. \A h \in Calls : HandlerOK(handler[h], call[h])'
  <2> SUFFICES ASSUME NEW h \in Calls PROVE HandlerOK(handler[h], call[h])'
    OBVIOUS
  <2>1. UNCHANGED <<chat, call>>
    BY DEF StopWorker
  <2>2. PICK r, c : r = handler'[h] /\ c = call[h]
    OBVIOUS
  <2>3. HandlerOK(r, c)'
    BY <1>3, <2>1, <2>2, SameChatOK
  <2>4. c = call'[h]
    BY <2>1, <2>2
  <2> QED BY <2>2, <2>3, <2>4
<1> QED BY <1>2, <1>4, <1>5 DEF PostingInv, StopWorker

\* The conversation keeps what it has: its messages, and the texts that are final.
ChatKeeps ==
    /\ chat' \in Seq(Messages) /\ UNCHANGED <<worker, call>> /\ DOMAIN chat \subseteq DOMAIN chat'
    /\ \A i \in DOMAIN chat : /\ chat'[i].role = chat[i].role
                              /\ chat[i].text = Final => chat'[i].text = Final

FirstAsked(c, q) ==
    q \in DOMAIN c /\ c[q].role = "request" /\ \A i \in DOMAIN c : c[i].role = "request" => q <= i
FirstAnswered(c, q, a) ==
    /\ a \in DOMAIN c /\ a > q /\ c[a].role = "assistant"
    /\ \A i \in DOMAIN c : i > q /\ c[i].role = "assistant" => a <= i

LEMMA AskedIs ==
    ASSUME NEW c \in Seq(Messages)
    PROVE  /\ AskedIn(c) # 0 => FirstAsked(c, AskedIn(c))
           /\ \A q : FirstAsked(c, q) => AskedIn(c) = q /\ q # 0
<1>. DEFINE I == {i \in 1 .. Len(c) : c[i].role = "request"}
<1>1. I \in SUBSET Nat /\ DOMAIN c = 1 .. Len(c)
  OBVIOUS
<1>2. I = {} => AskedIn(c) = 0
  BY DEF AskedIn, SelectInSeq
<1>3. I # {} => AskedIn(c) = Min(I)
  BY DEF AskedIn, SelectInSeq
<1>4. ASSUME I # {} PROVE Min(I) \in I /\ \A i \in I : Min(I) <= i
  <2>. HIDE DEF I
  <2>1. PICK least \in I : \A i \in I : least <= i
    BY <1>1, <1>4, LeastOfSome
  <2> QED BY <2>1 DEF Min
<1>5. AskedIn(c) # 0 => FirstAsked(c, AskedIn(c))
  BY <1>1, <1>2, <1>3, <1>4 DEF FirstAsked
<1>6. ASSUME NEW q, FirstAsked(c, q) PROVE AskedIn(c) = q /\ q # 0
  <2>1. q \in I /\ \A i \in I : q <= i
    BY <1>1, <1>6 DEF FirstAsked
  <2>2. PICK least : least = Min(I)
    OBVIOUS
  <2>3. least \in I /\ q \in Nat /\ least \in Nat /\ q <= least /\ least <= q /\ q # 0
    BY <1>4, <2>1, <2>2
  <2> QED BY <1>3, <2>1, <2>2, <2>3
<1> QED BY <1>5, <1>6

LEMMA AnsweredIs ==
    ASSUME NEW c \in Seq(Messages)
    PROVE  /\ AnsweredIn(c) # 0 => AskedIn(c) # 0 /\ FirstAnswered(c, AskedIn(c), AnsweredIn(c))
           /\ \A a : AskedIn(c) # 0 /\ FirstAnswered(c, AskedIn(c), a) => AnsweredIn(c) = a
<1>. DEFINE after == {i \in DOMAIN c : i > AskedIn(c) /\ c[i].role = "assistant"}
<1>1. after \in SUBSET Nat
  OBVIOUS
<1>2. AnsweredIn(c) = IF AskedIn(c) = 0 \/ after = {} THEN 0 ELSE CHOOSE i \in after : \A j \in after : i <= j
  BY DEF AnsweredIn
<1>3. ASSUME after # {}
      PROVE  LET a == CHOOSE i \in after : \A j \in after : i <= j IN a \in after /\ \A j \in after : a <= j
  <2>. HIDE DEF after
  <2>1. PICK least \in after : \A i \in after : least <= i
    BY <1>1, <1>3, LeastOfSome
  <2> QED BY <2>1
<1>4. ASSUME AnsweredIn(c) # 0 PROVE AskedIn(c) # 0 /\ FirstAnswered(c, AskedIn(c), AnsweredIn(c))
  <2>1. AskedIn(c) # 0 /\ AnsweredIn(c) \in after /\ \A j \in after : AnsweredIn(c) <= j
    <3>. HIDE DEF after
    <3>. QED BY <1>2, <1>3, <1>4
  <2> QED BY <2>1 DEF FirstAnswered
<1>5. ASSUME NEW a, AskedIn(c) # 0, FirstAnswered(c, AskedIn(c), a) PROVE AnsweredIn(c) = a
  <2>1. a \in after /\ \A i \in after : a <= i
    BY <1>5 DEF FirstAnswered
  <2>2. PICK b : b = AnsweredIn(c)
    OBVIOUS
  <2>3. b \in after /\ \A j \in after : b <= j
    <3>. HIDE DEF after
    <3>. QED BY <1>2, <1>3, <1>5, <2>1, <2>2
  <2>4. a \in Nat /\ b \in Nat /\ a <= b /\ b <= a
    <3>. HIDE DEF after
    <3>. QED BY <1>1, <2>1, <2>3
  <2> QED BY <2>2, <2>4
<1> QED BY <1>4, <1>5

\* What is appended changes neither of them.
LEMMA AnswerStays ==
    ASSUME chat \in Seq(Messages), ChatKeeps, AnswerAt # 0
    PROVE  AnswerAt' = AnswerAt
<1>1. PICK c, d : c = chat /\ d = chat'
  OBVIOUS
<1>2. RequestAt = AskedIn(c) /\ RequestAt' = AskedIn(d)
  BY <1>1, AskedAndAnswered
<1>3. AnswerAt = AnsweredIn(c) /\ AnswerAt' = AnsweredIn(d)
  BY <1>1, AskedAndAnswered
<1>4. /\ c \in Seq(Messages) /\ d \in Seq(Messages) /\ DOMAIN c \subseteq DOMAIN d
      /\ \A i \in DOMAIN c : d[i].role = c[i].role
  BY <1>1 DEF ChatKeeps
<1>5. \A i \in DOMAIN d, j \in DOMAIN c : i \notin DOMAIN c => j <= i
  BY <1>4
<1>6. PICK q, a : q = AskedIn(c) /\ a = AnsweredIn(c)
  OBVIOUS
<1>7. q # 0 /\ FirstAsked(c, q) /\ FirstAnswered(c, q, a)
  BY <1>3, <1>4, <1>6, AskedIs, AnsweredIs
<1>8. FirstAsked(d, q)
  BY <1>4, <1>5, <1>7 DEF FirstAsked
<1>9. AskedIn(d) = q
  BY <1>4, <1>8, AskedIs
<1>10. FirstAnswered(d, q, a)
  BY <1>4, <1>5, <1>7 DEF FirstAnswered
<1>11. AnsweredIn(d) = a
  BY <1>4, <1>7, <1>9, <1>10, AnsweredIs
<1> QED BY <1>3, <1>6, <1>11

LEMMA StaysOK ==
    ASSUME chat \in Seq(Messages), ChatKeeps, NEW r, NEW c, HandlerOK(r, c),
           \/ UserMessages' = UserMessages \/ Requested'
           \/ r.at \notin {"click", "confirm"}
           \/ r.misled # 0
    PROVE  HandlerOK(r, c)'
<1>1. Requested => Requested'
  BY DEF ChatKeeps, Requested
<1>2. \A i \in DOMAIN chat : /\ i \in DOMAIN chat' /\ chat'[i].role = chat[i].role
                             /\ chat[i].text = Final => chat'[i].text = Final
  BY DEF ChatKeeps
<1>3. AnswerAt # 0 => AnswerAt' = AnswerAt /\ AnswerAt \in DOMAIN chat
  BY AnswerStays, AnswerIsOfAssistant
<1>4. AnswerWhole => AnswerWhole'
  <2>1. PICK a : a = AnswerAt
    OBVIOUS
  <2>2. AnswerWhole => a # 0 /\ a \in DOMAIN chat /\ chat[a].text = Final /\ AnswerAt' = a
    BY <1>3, <2>1 DEF AnswerWhole
  <2> QED BY <1>2, <2>2 DEF AnswerWhole
<1> QED BY <1>1, <1>2, <1>3, <1>4 DEF HandlerOK

LEMMA AnswerWrittenKeeps == ASSUME PostingInv, ChatAnswers \/ ChatWrites PROVE PostingInv'
<1>0. chat \in Seq(Messages) /\ UNCHANGED <<worker, handler, call>>
  BY DEF PostingInv, ChatAnswers, ChatWrites, OfChat
<1>1. ChatKeeps /\ UserMessages' = UserMessages
  <2>1. CASE ChatAnswers
    <3>1. PICK m : m = Message("assistant", 0) /\ m \in Messages
      <4>1. Message("assistant", 0) \in Messages
        BY DEF Message, Messages, Final
      <4> QED BY <4>1
    <3>2. chat' = Append(chat, m) /\ m.role = "assistant"
      BY <2>1, <3>1 DEF ChatAnswers, Message
    <3>3. /\ chat' \in Seq(Messages) /\ DOMAIN chat' = 1 .. Len(chat) + 1 /\ DOMAIN chat = 1 .. Len(chat)
          /\ Len(chat) \in Nat
          /\ chat'[Len(chat) + 1] = m /\ \A i \in DOMAIN chat : chat'[i] = chat[i]
      BY <1>0, <3>1, <3>2, AppendProperties
    <3>4. ChatKeeps
      BY <1>0, <3>3 DEF ChatKeeps
    <3>5. {i \in DOMAIN chat' : chat'[i].role \in {"user", "request"}}
            = {i \in DOMAIN chat : chat[i].role \in {"user", "request"}}
      BY <3>2, <3>3
    <3> QED BY <3>4, <3>5 DEF UserMessages
  <2>2. CASE ChatWrites
    <3>1. PICK i \in Writing : chat' = [chat EXCEPT ![i].text = @ + 1]
      BY <2>2 DEF ChatWrites
    <3>2. i \in DOMAIN chat /\ chat[i].text < Final
      BY <3>1 DEF Writing
    <3>3. PICK old \in Messages : old = chat[i]
      BY <1>0, <3>2
    <3>4. PICK m : m = [old EXCEPT !.text = old.text + 1]
      OBVIOUS
    <3>5. m \in Messages /\ m.role = old.role /\ old.text # Final
      BY <3>2, <3>3, <3>4 DEF Messages, Final
    <3>6. chat' = [chat EXCEPT ![i] = m]
      BY <3>1, <3>2, <3>3, <3>4
    <3>7. chat' \in Seq(Messages) /\ DOMAIN chat' = DOMAIN chat
      BY <1>0, <3>2, <3>5, <3>6, ExceptSeq
    <3>8. \A j \in DOMAIN chat : chat'[j] = IF j = i THEN m ELSE chat[j]
      BY <3>6
    <3>9. ChatKeeps
      BY <1>0, <3>3, <3>5, <3>7, <3>8 DEF ChatKeeps
    <3>10. {j \in DOMAIN chat' : chat'[j].role \in {"user", "request"}}
             = {j \in DOMAIN chat : chat[j].role \in {"user", "request"}}
      BY <3>3, <3>5, <3>7, <3>8
    <3> QED BY <3>9, <3>10 DEF UserMessages
  <2> QED BY <2>1, <2>2
<1>2. \A h \in Calls : HandlerOK(handler[h], call[h])'
  <2> SUFFICES ASSUME NEW h \in Calls PROVE HandlerOK(handler[h], call[h])'
    OBVIOUS
  <2>1. PICK r, c : r = handler[h] /\ c = call[h]
    OBVIOUS
  <2>2. HandlerOK(r, c)'
    BY <1>0, <1>1, <2>1, StaysOK DEF PostingInv
  <2>3. r = handler'[h] /\ c = call'[h]
    BY <1>0, <2>1
  <2> QED BY <2>2, <2>3
<1>3. BrowserInv'
  BY <1>0 DEF PostingInv, BrowserInv
<1> QED BY <1>0, <1>1, <1>2, <1>3 DEF PostingInv, ChatKeeps

LEMMA ChatPostsKeeps == ASSUME PostingInv, NEW h \in Calls, ChatPosts(h) PROVE PostingInv'
<1>0. /\ chat \in Seq(Messages) /\ UNCHANGED <<worker, call>> /\ handler \in [Calls -> Handlers]
      /\ handler' = [handler EXCEPT ![h].click = "posted"]
  BY DEF PostingInv, ChatPosts, OfChat
<1>1. PICK m : m = Message("request", Final) /\ m \in Messages
  <2>1. Message("request", Final) \in Messages
    BY DEF Message, Messages, Final
  <2> QED BY <2>1
<1>2. chat' = Append(chat, m) /\ m.role = "request"
  BY <1>1 DEF ChatPosts, Message
<1>3. /\ chat' \in Seq(Messages) /\ DOMAIN chat' = 1 .. Len(chat) + 1 /\ DOMAIN chat = 1 .. Len(chat)
      /\ Len(chat) \in Nat
      /\ chat'[Len(chat) + 1] = m /\ \A i \in DOMAIN chat : chat'[i] = chat[i]
  BY <1>0, <1>1, <1>2, AppendProperties
<1>4. ChatKeeps /\ Requested'
  <2>1. ChatKeeps
    BY <1>0, <1>3 DEF ChatKeeps
  <2>2. Len(chat) + 1 \in DOMAIN chat'
    BY <1>3
  <2> QED BY <1>2, <1>3, <2>1, <2>2 DEF Requested
<1>5. PICK old \in Handlers : old = handler[h]
  BY <1>0
<1>6. PICK r : r = [old EXCEPT !.click = "posted"]
  OBVIOUS
<1>7. /\ r \in Handlers /\ r.at = old.at /\ r.page = old.page /\ r.click = "posted" /\ r.before = old.before
      /\ r.found = old.found /\ r.result = old.result /\ r.stable = old.stable /\ r.misled = old.misled
  BY <1>6 DEF Handlers
<1>8. handler' = [handler EXCEPT ![h] = r]
  BY <1>0, <1>5, <1>6
<1>9. \A g \in Calls : HandlerOK(handler[g], call[g])'
  <2> SUFFICES ASSUME NEW g \in Calls PROVE HandlerOK(handler[g], call[g])'
    OBVIOUS
  <2>1. PICK q, c : q = handler[g] /\ c = call[g]
    OBVIOUS
  <2>2. HandlerOK(q, c)'
    BY <1>0, <1>4, <2>1, StaysOK DEF PostingInv
  <2>3. CASE g # h
    BY <1>0, <1>8, <2>1, <2>2, <2>3
  <2>4. CASE g = h
    <3>1. HandlerOK(r, c)'
      BY <1>4, <1>5, <1>7, <2>1, <2>2, <2>4 DEF HandlerOK
    <3>2. r = handler'[g] /\ c = call'[g]
      BY <1>0, <1>8, <2>1, <2>4
    <3> QED BY <3>1, <3>2
  <2> QED BY <2>3, <2>4
<1>10. BrowserInv' /\ handler' \in [Calls -> Handlers] /\ call' \in [Calls -> Outcomes]
  BY <1>0, <1>7, <1>8 DEF PostingInv, BrowserInv
<1> QED BY <1>3, <1>9, <1>10 DEF PostingInv

LEMMA OthersWriteKeeps == ASSUME PostingInv, OthersWrite PROVE PostingInv'
<1>0. /\ chat \in Seq(Messages) /\ UNCHANGED <<worker, call>> /\ handler \in [Calls -> Handlers]
      /\ handler' = [h \in Calls |-> [handler[h] EXCEPT
                        !.misled = MisledIf(h, handler[h].at \in {"click", "confirm"})]]
  BY DEF PostingInv, OthersWrite
<1>1. PICK m : m = Message("user", Final) /\ m \in Messages
  <2>1. Message("user", Final) \in Messages
    BY DEF Message, Messages, Final
  <2> QED BY <2>1
<1>2. chat' = Append(chat, m)
  BY <1>1 DEF OthersWrite
<1>3. /\ chat' \in Seq(Messages) /\ DOMAIN chat' = 1 .. Len(chat) + 1 /\ DOMAIN chat = 1 .. Len(chat)
      /\ Len(chat) \in Nat
      /\ \A i \in DOMAIN chat : chat'[i] = chat[i]
  BY <1>0, <1>1, <1>2, AppendProperties
<1>4. ChatKeeps
  BY <1>0, <1>3 DEF ChatKeeps
<1>5. ASSUME NEW h \in Calls PROVE handler'[h] \in Handlers /\ HandlerOK(handler[h], call[h])'
  <2>1. PICK old \in Handlers, c \in Outcomes : old = handler[h] /\ c = call[h]
    BY <1>0 DEF PostingInv
  <2>2. PICK n : n = old.misled + (IF old.at \in {"click", "confirm"} THEN 1 ELSE 0)
    OBVIOUS
  <2>3. n \in Nat /\ n >= old.misled /\ (old.at \in {"click", "confirm"} => n # 0)
    BY <2>2 DEF Handlers
  <2>4. PICK r : r = [old EXCEPT !.misled = n]
    OBVIOUS
  <2>5. handler'[h] = r
    BY <1>0, <2>1, <2>2, <2>4 DEF MisledIf
  <2>6. HandlerOK(old, c)
    BY <2>1 DEF PostingInv
  <2>7. r \in Handlers /\ HandlerOK(r, c)
    BY <2>3, <2>4, <2>6, MisledOK
  <2>8. r.at = old.at /\ r.misled = n
    BY <2>4 DEF Handlers
  <2>9. HandlerOK(r, c)'
    BY <1>0, <1>4, <2>3, <2>7, <2>8, StaysOK
  <2>10. c = call'[h]
    BY <1>0, <2>1
  <2> QED BY <2>5, <2>7, <2>9, <2>10
<1>6. handler' \in [Calls -> Handlers]
  <2>1. handler' = [h \in Calls |-> handler'[h]]
    BY <1>0
  <2> QED BY <1>5, <2>1
<1>7. BrowserInv' /\ call' \in [Calls -> Outcomes]
  BY <1>0 DEF PostingInv, BrowserInv
<1> QED BY <1>3, <1>5, <1>6, <1>7 DEF PostingInv

LEMMA PostingKept == PostingInv /\ (WorkerNext \/ UNCHANGED workerVars) => PostingInv'
<1> SUFFICES ASSUME PostingInv, WorkerNext \/ UNCHANGED workerVars PROVE PostingInv'
  OBVIOUS
<1>1. CASE UNCHANGED workerVars
  <2>1. UNCHANGED <<worker, handler, call, chat>>
    BY <1>1 DEF workerVars
  <2>2. ASSUME NEW h \in Calls PROVE HandlerOK(handler[h], call[h])'
    <3>1. PICK r, c : r = handler[h] /\ c = call[h]
      OBVIOUS
    <3>2. HandlerOK(r, c)'
      BY <2>1, <3>1, SameChatOK DEF PostingInv
    <3>3. r = handler'[h] /\ c = call'[h]
      BY <2>1, <3>1
    <3> QED BY <3>2, <3>3
  <2> QED BY <2>1, <2>2 DEF PostingInv, BrowserInv
<1>2. CASE WorkerStep
  BY <1>2, WorkerStepKeeps, StopWorkerKeeps DEF WorkerStep
<1>3. CASE OthersWrite \/ ChatAnswers \/ ChatWrites
  BY <1>3, OthersWriteKeeps, AnswerWrittenKeeps
<1>4. ASSUME NEW h \in Calls, CallWorker(h) \/ GivesUp(h) \/ HandlerStep(h) \/ ChatPosts(h) PROVE PostingInv'
  BY <1>4, ClientOfWorkerKeeps, ChatPostsKeeps, OpensKeeps, JoinedKeeps, AnswersKeeps, PostStepKeeps,
     CollectStepKeeps DEF HandlerStep
<1> QED BY <1>1, <1>2, <1>3, <1>4 DEF WorkerNext

LEMMA PostingStart == WorkerInit => PostingInv
<1> SUFFICES ASSUME WorkerInit PROVE PostingInv
  OBVIOUS
<1>1. Idle \in Handlers /\ "idle" \in Outcomes
  BY DEF Idle, Handlers, Places, Results, Outcomes, Final
<1>2. handler \in [Calls -> Handlers] /\ call \in [Calls -> Outcomes]
  BY <1>1 DEF WorkerInit
<1>3. \A h \in Calls : HandlerOK(handler[h], call[h])
  BY DEF WorkerInit, HandlerOK, Idle
<1>4. BrowserInv
  BY DEF WorkerInit, BrowserInv, Workers
<1>5. chat \in Seq(Messages)
  <2>1. PICK s \in WorkerScenes : chat = s.earlier
    BY DEF WorkerInit, WorkerScene
  <2>2. chat \in Seq([role : {"user", "assistant"}, text : 0 .. 2])
    BY <2>1, BrowserWorkerAssumption
  <2>3. [role : {"user", "assistant"}, text : 0 .. 2] \subseteq Messages
    BY DEF Messages, Final
  <2> QED BY <2>2, <2>3, SeqMonotonic
<1> QED BY <1>2, <1>3, <1>4, <1>5 DEF PostingInv

LEMMA PostingTellsTruly == PostingInv => ReportsAreTrue /\ NothingLeftOpen
<1> SUFFICES ASSUME PostingInv PROVE ReportsAreTrue /\ NothingLeftOpen
  OBVIOUS
<1>1. Requested => RequestAt # 0
  BY RequestIsFound DEF PostingInv
<1>2. Posts \subseteq Calls /\ Collects \subseteq Calls
  BY DEF Calls
<1>3. ReportsAreTrue
  BY <1>1, <1>2 DEF PostingInv, HandlerOK, ReportsAreTrue
<1>4. NothingLeftOpen
  BY DEF PostingInv, BrowserInv, HandlerOK, NothingLeftOpen
<1> QED BY <1>3, <1>4

-----------------------------------------------------------------------------
(* Clients and tokens: what the operators of the files keep *)

LEMMA FileIs ==
    ASSUME NEW S, NEW held \in SUBSET S
    PROVE  /\ Sound(held) \in File(S) /\ Sound(held).held = held /\ Exists(Sound(held))
           /\ Damaged \in File(S) /\ Damaged.held = {} /\ Exists(Damaged)
           /\ Absent \in File(S) /\ Absent.held = {} /\ ~Exists(Absent)
BY DEF Sound, Damaged, Absent, File, Exists

LEMMA FileHolds ==
    ASSUME NEW S, NEW T, NEW file \in File(S)
    PROVE  file.held \subseteq S /\ (S \subseteq T => file \in File(T))
BY DEF File

LEMMA ScopedAre ==
    ASSUME AccessTypes
    PROVE  /\ Readable \subseteq Workspaces /\ Readable \subseteq scene.scoped
           /\ ScopedTokens \subseteq KnownTokens
           /\ \A t \in ScopedTokens : t.pair \in scene.scoped
<1>1. scene.scoped \subseteq Workspaces
  BY OAuthAssumption DEF AccessTypes
<1>2. Readable \subseteq Workspaces /\ Readable \subseteq scene.scoped
  BY <1>1 DEF Readable
<1>3. ASSUME NEW t \in ScopedTokens
      PROVE  t \in KnownTokens /\ t.pair \in scene.scoped
  <2>1. PICK w \in Readable : t \in Pair(w)
    BY DEF ScopedTokens, LiveTokens
  <2> QED BY <1>2, <2>1 DEF Pair, KnownTokens, KnownPairs
<1> QED BY <1>2, <1>3

\* The actions of one step, and what they leave alone.
StartActions ==
    /\ ReadAll \/ WriteClients \/ WriteTokens \/ BeginGrants \/ (\E w \in Workspaces : GrantNext(w))
       \/ WriteMarker \/ Load
    /\ UNCHANGED <<scene, crashes>>
OfClient == phase = "up" /\ UNCHANGED <<scene, crashes, grantsFile, marker, phase, plan, wanted, unwanted>>

\* The tokens of known pairs stay tokens of known pairs.
LEMMA KnownGrows ==
    ASSUME pairs \in Seq([client : Clients, from : Origins]), NEW p, pairs' = Append(pairs, p)
    PROVE  KnownPairs \subseteq KnownPairs' /\ KnownTokens \subseteq KnownTokens'
BY AppendProperties DEF KnownPairs, KnownTokens

\* Nothing but the files and the memory of a type changes.
TypesFrame ==
    /\ UNCHANGED scene /\ clientsFile' \in File(Clients) /\ tokensFile' \in File(KnownTokens)
    /\ grantsFile' \in File(Workspaces) /\ marker' \in BOOLEAN
    /\ phase' \in {"down", "clients", "tokens", "grant", "granting", "mark", "load", "up"}
    /\ plan' \in Plans /\ clients' \subseteq Clients /\ tokens' \subseteq KnownTokens
    /\ codes' \subseteq [id : 1 .. scene.codes, client : Clients] /\ UNCHANGED pairs
    /\ made' \in 0 .. scene.codes /\ expired' \subseteq Tokens
    /\ wanted' \subseteq Workspaces /\ unwanted' \subseteq Workspaces
    /\ registered' \subseteq NewClients /\ deleted' \subseteq NewClients
    /\ crashes' \in 0 .. scene.stops

LEMMA TypesFramed == ASSUME AccessTypes, TypesFrame PROVE AccessTypes'
<1>1. UNCHANGED <<KnownTokens, Plans, Origins, Tokens>>
  BY DEF TypesFrame, KnownTokens, KnownPairs, Plans, Origins, Tokens, PairIds
<1> QED BY <1>1 DEF AccessTypes, TypesFrame

LEMMA StartTypes == ASSUME AccessTypes, StartActions PROVE AccessTypes'
<1>0. /\ NoPlan \in Plans /\ clientsFile.held \subseteq Clients /\ tokensFile.held \subseteq KnownTokens
      /\ grantsFile.held \subseteq Workspaces
      /\ plan.clients \subseteq Clients /\ plan.tokens \subseteq KnownTokens /\ plan.grants \subseteq Workspaces
  BY FileHolds DEF AccessTypes, NoPlan, Plans
<1>1. CASE ReadAll
  <2>1. plan' \in Plans
    <3>1. clientsFile.held \cup Readable \subseteq Clients
      BY <1>0, ScopedAre DEF Clients
    <3>2. Merged \subseteq KnownTokens
      BY <1>0, ScopedAre DEF Merged, LiveTokens
    <3>3. Derived \subseteq Workspaces
      BY ScopedAre, OAuthAssumption DEF Derived
    <3> QED BY <1>1, <3>1, <3>2, <3>3 DEF ReadAll, Plans
  <2>2. phase' \in {"clients", "grant"}
    BY <1>1 DEF ReadAll
  <2> QED BY <1>0, <1>1, <2>1, <2>2, TypesFramed
          DEF AccessTypes, StartActions, ReadAll, files, memory, history, user, TypesFrame
<1>2. CASE WriteClients
  BY <1>0, <1>2, FileIs, TypesFramed DEF AccessTypes, StartActions, WriteClients, memory, history, user, TypesFrame
<1>3. CASE WriteTokens
  BY <1>0, <1>3, FileIs, TypesFramed DEF AccessTypes, StartActions, WriteTokens, memory, history, user, TypesFrame
<1>4. CASE BeginGrants
  BY <1>0, <1>4, TypesFramed DEF AccessTypes, StartActions, BeginGrants, files, memory, history, user, TypesFrame
<1>5. ASSUME NEW w \in Workspaces, GrantNext(w) PROVE AccessTypes'
  <2>1. grantsFile' \in File(Workspaces)
    <3>1. Sound(grantsFile.held \cup {w}) \in File(Workspaces)
      BY <1>0, FileIs
    <3> QED BY <1>5, <3>1 DEF AccessTypes, GrantNext
  <2>2. plan' \in Plans
    <3>1. PICK grants \in SUBSET Workspaces, written \in BOOLEAN :
            grants = plan.grants \ {w} /\ written = (plan.written /\ w \in grantsFile'.held)
      BY <1>0 DEF AccessTypes, Plans
    <3>2. plan' = [plan EXCEPT !.grants = grants, !.written = written]
      BY <1>5, <3>1 DEF GrantNext, AccessTypes, Plans
    <3> QED BY <3>1, <3>2 DEF AccessTypes, Plans
  <2> QED BY <1>5, <2>1, <2>2, TypesFramed
          DEF AccessTypes, StartActions, GrantNext, memory, history, user, TypesFrame
<1>6. CASE WriteMarker
  BY <1>0, <1>6, TypesFramed DEF AccessTypes, StartActions, WriteMarker, memory, history, user, TypesFrame
<1>7. CASE Load
  BY <1>0, <1>7, TypesFramed DEF AccessTypes, StartActions, Load, LiveTokens, files, history, user, TypesFrame
<1> QED BY <1>1, <1>2, <1>3, <1>4, <1>5, <1>6, <1>7 DEF StartActions

\* A request of a client that changes the pairs in no way.
LEMMA ClientTypes ==
    ASSUME AccessTypes, OfClient, UNCHANGED pairs,
           \/ clientsFile' = clientsFile /\ clients' = clients
           \/ \E set \in SUBSET Clients : SaveClients(set),
           \/ tokensFile' = tokensFile /\ tokens' = tokens
           \/ \E set \in SUBSET KnownTokens : SaveTokens(set),
           codes' \subseteq codes \cup [id : {made'}, client : Clients], UNCHANGED expired,
           made' = made \/ (made' = made + 1 /\ made < scene.codes),
           registered' \subseteq NewClients, deleted' \subseteq NewClients, codes' \subseteq codes \/ made' # made
    PROVE  AccessTypes'
<1>1. clientsFile' \in File(Clients) /\ clients' \subseteq Clients
  BY FileIs DEF AccessTypes, SaveClients
<1>2. tokensFile' \in File(KnownTokens) /\ tokens' \subseteq KnownTokens
  <2>1. ASSUME NEW set \in SUBSET KnownTokens, SaveTokens(set)
        PROVE  tokensFile' \in File(KnownTokens) /\ tokens' \subseteq KnownTokens
    <3>1. LiveTokens(set) \in SUBSET KnownTokens
      BY DEF LiveTokens
    <3> QED BY <2>1, <3>1, FileIs DEF SaveTokens
  <2> QED BY <2>1 DEF AccessTypes
<1>3. made' \in 0 .. scene.codes /\ codes' \subseteq [id : 1 .. scene.codes, client : Clients]
  <2>1. scene.codes \in Nat
    BY OAuthAssumption DEF AccessTypes
  <2>2. made' \in 0 .. scene.codes
    BY <2>1 DEF AccessTypes
  <2>3. ASSUME NEW c \in codes' PROVE c \in [id : 1 .. scene.codes, client : Clients]
    BY <2>1, <2>2 DEF AccessTypes
  <2> QED BY <2>2, <2>3
<1> QED BY <1>1, <1>2, <1>3, TypesFramed DEF AccessTypes, OfClient, TypesFrame

\* A new pair of tokens.
LEMMA IssueTypes ==
    ASSUME AccessTypes, OfClient, UNCHANGED <<clientsFile, clients, made, expired, registered, deleted>>,
           NEW client \in Clients, NEW from \in Origins, NEW kept \in SUBSET KnownTokens,
           Issue(client, from, kept), codes' \subseteq codes
    PROVE  /\ AccessTypes' /\ Len(pairs') = Len(pairs) + 1 /\ pairs'[Len(pairs')].from = from
           /\ \A i \in 1 .. Len(pairs) : pairs'[i] = pairs[i]
<1>1. PICK p \in [client : Clients, from : Origins] : p = [client |-> client, from |-> from]
  OBVIOUS
<1>2. pairs' = Append(pairs, p) /\ Len(pairs) + 1 <= scene.pairs /\ pairs \in Seq([client : Clients, from : Origins])
  BY <1>1 DEF Issue, AccessTypes
<1>3. /\ pairs' \in Seq([client : Clients, from : Origins]) /\ Len(pairs') = Len(pairs) + 1
      /\ pairs'[Len(pairs) + 1] = p /\ \A i \in 1 .. Len(pairs) : pairs'[i] = pairs[i]
      /\ Len(pairs) \in Nat
  BY <1>2, AppendProperties
<1>4. KnownTokens \subseteq KnownTokens' /\ UNCHANGED <<Origins, Tokens>>
  BY <1>2, KnownGrows DEF OfClient, Origins, Tokens, PairIds
<1>5. Pair(Len(pairs) + 1) \subseteq KnownTokens'
  BY <1>3 DEF Pair, KnownTokens, KnownPairs
<1>6. tokensFile' \in File(KnownTokens') /\ tokens' \subseteq KnownTokens'
  <2>1. kept \cup Pair(Len(pairs) + 1) \in SUBSET KnownTokens'
    BY <1>4, <1>5
  <2>2. LiveTokens(kept \cup Pair(Len(pairs) + 1)) \in SUBSET KnownTokens'
    BY <2>1 DEF LiveTokens
  <2> QED BY <2>1, <2>2, FileIs DEF Issue, SaveTokens
<1>7. Plans \subseteq Plans'
  BY <1>4 DEF Plans
<1>8. AccessTypes'
  BY <1>2, <1>3, <1>4, <1>6, <1>7 DEF AccessTypes, OfClient
<1> QED BY <1>1, <1>3, <1>8

\* What is in a set of tokens, with the same pairs.
LEMMA KeepsOn ==
    ASSUME UNCHANGED pairs, expired \subseteq expired', NEW S, NEW T, Keeps(S), S \ expired' \subseteq T
    PROVE  Keeps(T)'
BY DEF Keeps, Replaced

LEMMA NoneReplacedOn ==
    ASSUME UNCHANGED <<pairs, scene>>, NEW S, NEW T, NoneReplaced(S),
           \A t \in T : t \in S \/ t.pair \in scene.scoped
    PROVE  NoneReplaced(T)'
<1>1. UNCHANGED KnownPairs /\ \A p : Replaced(p)' = Replaced(p)
  BY DEF KnownPairs, Replaced
<1>2. \A p : Refreshing(p).pair = p
  BY DEF Refreshing
<1> QED BY <1>1, <1>2 DEF NoneReplaced

LEMMA CodesFramed ==
    ASSUME CodesOK, ExchangedOnce, UNCHANGED <<scene, pairs, made>>, codes' \subseteq codes,
           phase' = "up" \/ codes' = {}
    PROVE  CodesOK' /\ ExchangedOnce'
<1>1. CodesOK'
  BY DEF CodesOK
<1>2. scene' = scene /\ pairs' = pairs
  OBVIOUS
<1>3. ExchangedOnce'
  BY <1>2 DEF ExchangedOnce
<1> QED BY <1>1, <1>3

\* A step that issues nothing, after which the file, the memory and the plan have these tokens.
LEMMA TokensFramed ==
    ASSUME AccessTypes, TokensOK, UNCHANGED <<scene, pairs>>, expired \subseteq expired', faults \subseteq faults',
           NEW held, held = tokensFile'.held, NEW loaded, loaded = tokens', NEW planned, planned = plan'.tokens,
           "tokens" \in faults' \/ Keeps(held)', NoneReplaced(held)',
           phase' = "up" => "tokens" \in faults' \/ Keeps(loaded)',
           NoneReplaced(loaded)', phase' # "up" => loaded = {},
           phase' \in {"clients", "tokens"} => ("tokens" \in faults' \/ Keeps(planned)') /\ NoneReplaced(planned)'
    PROVE  TokensOK'
<1>1. UNCHANGED <<KnownPairs, PairIds>>
  BY DEF KnownPairs, PairIds
<1>2. Keeps(held)' = Keeps(tokensFile.held)' /\ NoneReplaced(held)' = NoneReplaced(tokensFile.held)'
  BY DEF Keeps, NoneReplaced
<1>3. Keeps(loaded)' = Keeps(tokens)' /\ NoneReplaced(loaded)' = NoneReplaced(tokens)'
  BY DEF Keeps, NoneReplaced
<1>4. Keeps(planned)' = Keeps(plan.tokens)' /\ NoneReplaced(planned)' = NoneReplaced(plan.tokens)'
  BY DEF Keeps, NoneReplaced
<1>5. \A i \in 1 .. Len(pairs'), p \in PairIds' : pairs'[i].from = [refresh |-> p] => p \in KnownPairs'
  BY <1>1 DEF TokensOK
<1> QED BY <1>2, <1>3, <1>4, <1>5 DEF TokensOK, Merging

\* A code, or a refresh token, is exchanged for a new pair.
Exchange(from, kept) ==
    \/ \E c \in codes : from = [code |-> c.id] /\ codes' = codes \ {c} /\ kept = tokens
    \/ \E p \in KnownPairs : /\ from = [refresh |-> p] /\ codes' = codes /\ kept = Kept(p)
                             /\ Refreshing(p) \in tokens

LEMMA IssueCodes ==
    ASSUME AccessTypes, CodesOK, TokensOK, ExchangedOnce, OfClient, UNCHANGED made,
           NEW from \in Origins, NEW kept, Exchange(from, kept),
           Len(pairs) \in Nat, Len(pairs') = Len(pairs) + 1, pairs'[Len(pairs')].from = from,
           \A i \in 1 .. Len(pairs) : pairs'[i] = pairs[i]
    PROVE  CodesOK' /\ ExchangedOnce'
<1>1. \A c, p : [code |-> c] # [refresh |-> p]
  <2> SUFFICES ASSUME NEW c, NEW p, [code |-> c] = [refresh |-> p] PROVE FALSE
    OBVIOUS
  <2>1. DOMAIN [code |-> c] = {"code"} /\ DOMAIN [refresh |-> p] = {"refresh"}
    OBVIOUS
  <2> QED BY <2>1
<1>2. \A c, d : [code |-> c] = [code |-> d] => c = d
  <2> SUFFICES ASSUME NEW c, NEW d, [code |-> c] = [code |-> d] PROVE c = d
    OBVIOUS
  <2>1. [code |-> c].code = [code |-> d].code
    OBVIOUS
  <2> QED BY <2>1
<1>3. \A c, d : [refresh |-> c] = [refresh |-> d] => c = d
  <2> SUFFICES ASSUME NEW c, NEW d, [refresh |-> c] = [refresh |-> d] PROVE c = d
    OBVIOUS
  <2>1. [refresh |-> c].refresh = [refresh |-> d].refresh
    OBVIOUS
  <2> QED BY <2>1
<1>4. UNCHANGED <<scene, phase, made>> /\ codes' \subseteq codes /\ codes \subseteq [id : 1 .. scene.codes, client : Clients]
  BY DEF OfClient, Exchange, AccessTypes
<1>5. CodesOK'
  <2>1. \A c, d \in codes' : c.id = d.id => c = d
    BY <1>4 DEF CodesOK
  <2>2. ASSUME NEW i \in 1 .. Len(pairs'), NEW c \in 1 .. scene.codes, pairs'[i].from = [code |-> c]
        PROVE  c <= made /\ \A d \in codes' : d.id # c
    <3>1. CASE i \in 1 .. Len(pairs)
      BY <1>4, <2>2, <3>1 DEF CodesOK
    <3>2. CASE i = Len(pairs) + 1
      <4>1. from = [code |-> c]
        BY <2>2, <3>2
      <4>2. PICK e \in codes : from = [code |-> e.id] /\ codes' = codes \ {e}
        BY <1>1, <4>1 DEF Exchange
      <4>3. e.id = c
        BY <1>2, <4>1, <4>2
      <4> QED BY <1>4, <4>2, <4>3 DEF CodesOK
    <3> QED BY <3>1, <3>2
  <2> QED BY <1>4, <2>1, <2>2 DEF CodesOK, OfClient
<1>6. ASSUME NEW i \in 1 .. Len(pairs), pairs[i].from = from
      PROVE  \E w \in scene.scoped : from = [refresh |-> w]
  <2>1. CASE \E c \in codes : from = [code |-> c.id]
    <3>1. PICK c \in codes : from = [code |-> c.id]
      BY <2>1
    <3>2. c.id \in 1 .. scene.codes
      BY <1>4
    <3> QED BY <1>6, <3>1, <3>2 DEF CodesOK
  <2>2. CASE \E p \in KnownPairs : from = [refresh |-> p] /\ Refreshing(p) \in tokens
    <3>1. PICK p \in KnownPairs : from = [refresh |-> p] /\ Refreshing(p) \in tokens
      BY <2>2
    <3>2. Replaced(p)
      BY <1>6, <3>1 DEF Replaced
    <3> QED BY <3>1, <3>2 DEF TokensOK, NoneReplaced
  <2> QED BY <2>1, <2>2 DEF Exchange
<1>7. ExchangedOnce'
  <2> SUFFICES ASSUME NEW i \in 1 .. Len(pairs'), NEW j \in 1 .. Len(pairs'), i # j, pairs'[i].from = pairs'[j].from
               PROVE  \E w \in scene.scoped : pairs'[i].from = [refresh |-> w]
    BY <1>4 DEF ExchangedOnce
  <2>1. CASE i \in 1 .. Len(pairs) /\ j \in 1 .. Len(pairs)
    BY <2>1 DEF ExchangedOnce
  <2>2. CASE i = Len(pairs) + 1
    <3>1. j \in 1 .. Len(pairs) /\ pairs[j].from = from
      BY <2>2
    <3> QED BY <1>6, <2>2, <3>1
  <2>3. CASE j = Len(pairs) + 1
    <3>1. i \in 1 .. Len(pairs) /\ pairs[i].from = from
      BY <2>3
    <3> QED BY <1>6, <2>3, <3>1
  <2>4. \A k \in 1 .. Len(pairs') : k \in 1 .. Len(pairs) \/ k = Len(pairs) + 1
    OBVIOUS
  <2> QED BY <2>1, <2>2, <2>3, <2>4
<1> QED BY <1>5, <1>7

LEMMA IssueTokens ==
    ASSUME AccessTypes, TokensOK, OfClient, UNCHANGED <<expired, faults>>,
           NEW client, NEW from \in Origins, NEW kept, Exchange(from, kept), Issue(client, from, kept),
           Len(pairs) \in Nat, Len(pairs') = Len(pairs) + 1, pairs'[Len(pairs')].from = from,
           \A i \in 1 .. Len(pairs) : pairs'[i] = pairs[i]
    PROVE  TokensOK'
<1> DEFINE n == Len(pairs) + 1
<1>0. \A c, p, q : [code |-> c] # [refresh |-> p] /\ ([refresh |-> p] = [refresh |-> q] => p = q)
  <2> SUFFICES ASSUME NEW c, NEW p, NEW q
               PROVE  [code |-> c] # [refresh |-> p] /\ ([refresh |-> p] = [refresh |-> q] => p = q)
    OBVIOUS
  <2>1. DOMAIN [code |-> c] = {"code"} /\ DOMAIN [refresh |-> p] = {"refresh"}
    OBVIOUS
  <2>2. [refresh |-> p].refresh = p /\ [refresh |-> q].refresh = q
    OBVIOUS
  <2>3. "code" # "refresh"
    OBVIOUS
  <2> QED BY <2>1, <2>2, <2>3
<1>1. UNCHANGED <<scene, phase, PairIds>> /\ phase = "up"
  BY DEF OfClient, PairIds
<1>2. PICK new : new = kept \cup Pair(n)
  OBVIOUS
<1>3. PICK held : held = LiveTokens(new)
  OBVIOUS
<1>4. tokens' = new /\ tokensFile'.held = held /\ held \subseteq new /\ new \ expired \subseteq held
  BY <1>2, <1>3, FileIs DEF Issue, SaveTokens, LiveTokens, Sound
<1>5. Refreshing(n) \in new /\ \A t \in Pair(n) : t.pair = n
  BY <1>2 DEF Refreshing, Pair
<1>6. ASSUME NEW i \in 1 .. Len(pairs), Refreshing(i) \in tokens
      PROVE  Refreshing(i) \in new \/ Replaced(i)'
  <2>1. CASE kept = tokens
    BY <1>2, <1>6, <2>1
  <2>2. CASE \E p \in KnownPairs : from = [refresh |-> p] /\ kept = Kept(p)
    <3>1. PICK p \in KnownPairs : from = [refresh |-> p] /\ kept = Kept(p)
      BY <2>2
    <3>2. CASE i = p
      <4>1. n \in 1 .. Len(pairs') /\ pairs'[n].from = [refresh |-> i]
        BY <3>1, <3>2
      <4> QED BY <4>1 DEF Replaced
    <3>3. CASE i # p
      BY <1>2, <1>6, <3>1, <3>3 DEF Kept, Refreshing
    <3> QED BY <3>2, <3>3
  <2> QED BY <2>1, <2>2 DEF Exchange
<1>7. \A p : Replaced(p) => Replaced(p)'
  BY DEF Replaced
<1>8. "tokens" \in faults \/ (Keeps(new)' /\ Keeps(held)')
  <2> SUFFICES ASSUME "tokens" \notin faults, NEW i \in 1 .. n
               PROVE  /\ Refreshing(i) \in expired \/ Replaced(i)' \/ Refreshing(i) \in new
                      /\ Refreshing(i) \in expired \/ Replaced(i)' \/ Refreshing(i) \in held
    BY DEF Keeps
  <2>1. CASE i = n
    BY <1>4, <1>5, <2>1
  <2>2. CASE i \in 1 .. Len(pairs)
    BY <1>1, <1>4, <1>6, <1>7, <2>2 DEF TokensOK, Keeps
  <2> QED BY <2>1, <2>2
<1>9. NoneReplaced(new)' /\ NoneReplaced(held)'
  <2> SUFFICES ASSUME NEW p \in KnownPairs', Replaced(p)', p \notin scene.scoped
               PROVE  Refreshing(p) \notin new
    BY <1>1, <1>4 DEF NoneReplaced
  <2>1. p \in PairIds /\ Refreshing(p).pair = p
    <3>1. scene.pairs \in Nat /\ Len(pairs) + 1 <= scene.pairs
      BY OAuthAssumption DEF AccessTypes, Issue
    <3> QED BY <3>1 DEF KnownPairs, PairIds, Refreshing
  <2>2. PICK i \in 1 .. n : pairs'[i].from = [refresh |-> p]
    BY DEF Replaced
  <2>3. CASE i \in 1 .. Len(pairs)
    <3>1. Replaced(p) /\ p \in KnownPairs
      BY <2>1, <2>2, <2>3 DEF Replaced, TokensOK
    <3>2. Refreshing(p) \notin tokens
      BY <3>1 DEF TokensOK, NoneReplaced
    <3>3. p # n
      BY <3>1, OAuthAssumption DEF KnownPairs
    <3> QED BY <1>2, <1>5, <2>1, <3>2, <3>3 DEF Exchange, Kept
  <2>4. CASE i = n
    <3>1. from = [refresh |-> p]
      BY <2>2, <2>4
    <3>2. p \in KnownPairs /\ kept = Kept(p)
      BY <1>0, <3>1 DEF Exchange
    <3>3. p # n
      BY <3>2, OAuthAssumption DEF KnownPairs
    <3> QED BY <1>2, <1>5, <2>1, <3>2, <3>3 DEF Kept, Refreshing
  <2> QED BY <2>2, <2>3, <2>4
<1>10. ASSUME NEW i \in 1 .. n, NEW p \in PairIds, pairs'[i].from = [refresh |-> p] PROVE p \in KnownPairs'
  <2>1. KnownPairs \subseteq KnownPairs'
    BY DEF KnownPairs
  <2>2. CASE i \in 1 .. Len(pairs)
    BY <1>10, <2>1, <2>2 DEF TokensOK
  <2>3. CASE i = n
    BY <1>0, <1>10, <2>1, <2>3 DEF Exchange
  <2> QED BY <2>2, <2>3
<1>11. /\ Keeps(new)' = Keeps(tokens)' /\ NoneReplaced(new)' = NoneReplaced(tokens)'
       /\ Keeps(held)' = Keeps(tokensFile.held)' /\ NoneReplaced(held)' = NoneReplaced(tokensFile.held)'
  BY <1>4 DEF Keeps, NoneReplaced
<1> QED BY <1>1, <1>8, <1>9, <1>10, <1>11 DEF TokensOK, Merging

-----------------------------------------------------------------------------
(* Clients and grants: the steps that leave them alone *)

LEMMA ClientsFramed ==
    ASSUME ClientsOK, UNCHANGED <<clientsFile, registered, deleted>>, faults \subseteq faults',
           phase' = "up" => clients' = clientsFile.held,
           phase' \in {"clients", "tokens"} => Merging /\ plan'.clients = plan.clients
    PROVE  ClientsOK'
BY DEF ClientsOK, Merging

LEMMA InheritedGrows ==
    ASSUME AccessTypes, UNCHANGED scene, faults \subseteq faults', expired \subseteq expired',
           crashes' = crashes \/ crashes' = crashes + 1
    PROVE  Inherited \subseteq Inherited' /\ Readable' = Readable
<1>1. Readable' = Readable /\ crashes \in Nat
  BY OAuthAssumption DEF Readable, AccessTypes
<1>2. ScopedTokens' \subseteq ScopedTokens
  BY <1>1 DEF ScopedTokens, LiveTokens, Pair
<1> QED BY <1>1, <1>2 DEF Inherited, MergedBefore

LEMMA GrantsFramed ==
    ASSUME AccessTypes, GrantsOK, UNCHANGED <<scene, grantsFile, marker, phase, plan, wanted, unwanted, crashes>>,
           faults \subseteq faults', expired \subseteq expired',
           phase = "up" \/ UNCHANGED <<clientsFile, tokensFile>>
    PROVE  GrantsOK'
<1>1. Inherited \subseteq Inherited' /\ Readable' = Readable
  BY InheritedGrows
<1>2. Undecided' => Undecided
  BY DEF Undecided, Exists
<1>3. GrantsFollowUser'
  BY <1>1 DEF GrantsOK, GrantsFollowUser
<1>4. Undecided' =>
        /\ clientsFile'.held # {} \/ tokensFile'.held # {} => Readable # {} /\ (phase = "down" => crashes > 0)
        /\ Merging /\ (plan.clients # {} \/ plan.tokens # {}) => Readable # {}
        /\ phase \in {"granting", "mark"} /\ ~plan.written => Readable # {}
        /\ phase \in {"load", "up"} => Readable # {}
  BY <1>2 DEF GrantsOK
<1>5. /\ ~Exists(grantsFile) => wanted = {} /\ unwanted = {}
      /\ phase = "granting" => unwanted = {} /\ plan.grants \subseteq Inherited'
      /\ phase \in {"clients", "tokens", "grant"} =>
            /\ plan.written
            /\ ~marker /\ ~Exists(grantsFile) => plan.grants \subseteq Inherited'
  BY <1>1 DEF GrantsOK
<1>6. Exists(grantsFile)' = Exists(grantsFile) /\ Merging' = Merging
  BY DEF Exists, Merging
<1> QED BY <1>1, <1>3, <1>4, <1>5, <1>6 DEF GrantsOK

\* A start that writes no grants: what it finds, and where it goes.
LEMMA StartGrants ==
    ASSUME AccessTypes, GrantsOK, UNCHANGED <<scene, grantsFile, wanted, unwanted, expired, crashes>>,
           faults \subseteq faults',
           phase' = "granting" => unwanted = {} /\ plan'.grants \subseteq Inherited,
           phase' \in {"clients", "tokens", "grant"} =>
              plan'.written /\ (~marker' /\ ~Exists(grantsFile) => plan'.grants \subseteq Inherited),
           Undecided' =>
              /\ clientsFile'.held # {} \/ tokensFile'.held # {} => Readable # {} /\ phase' # "down"
              /\ phase' \in {"clients", "tokens"} /\ (plan'.clients # {} \/ plan'.tokens # {}) => Readable # {}
              /\ phase' \in {"granting", "mark"} /\ ~plan'.written => Readable # {}
              /\ phase' \in {"load", "up"} => Readable # {}
    PROVE  GrantsOK'
<1>1. Inherited \subseteq Inherited' /\ Readable' = Readable
  BY InheritedGrows
<1>2. GrantsFollowUser'
  BY <1>1 DEF GrantsOK, GrantsFollowUser
<1>3. Exists(grantsFile)' = Exists(grantsFile)
  BY DEF Exists
<1> QED BY <1>1, <1>2, <1>3 DEF GrantsOK, Merging

-----------------------------------------------------------------------------
(* Clients and tokens: the start *)

LEMMA FaultsGrow == \A kind : Fault(kind) => faults \subseteq faults'
BY DEF Fault

LEMMA ReadAllKeeps == ASSUME AccessInv, ReadAll, UNCHANGED <<scene, crashes>> PROVE AccessInv'
<1>0. /\ AccessTypes /\ ClientsOK /\ CodesOK /\ TokensOK /\ GrantsOK /\ ExchangedOnce
      /\ phase = "down" /\ phase' \in {"clients", "grant"}
      /\ UNCHANGED <<files, memory, history, user, faults>>
  BY DEF AccessInv, ReadAll
<1>1. AccessTypes'
  BY <1>0, StartTypes DEF StartActions
<1>2. /\ plan'.clients = clientsFile.held \cup Readable /\ plan'.tokens = Merged /\ plan'.grants = Derived
      /\ plan'.written
  BY DEF ReadAll
<1>3. ClientsOK'
  <2>1. Readable \subseteq Workspaces /\ deleted \subseteq NewClients
    BY <1>0, ScopedAre DEF AccessTypes
  <2> QED BY <1>0, <1>2, <2>1, OAuthAssumption DEF ClientsOK, Merging, files, user
<1>4. CodesOK' /\ ExchangedOnce'
  BY <1>0, CodesFramed DEF CodesOK, memory, history
<1>5. TokensOK'
  <2>1. PICK held, planned : held = tokensFile.held /\ planned = Merged
    OBVIOUS
  <2>2. held \ expired \subseteq planned /\ \A t \in planned : t \in held \/ t.pair \in scene.scoped
    BY <1>0, <2>1, ScopedAre DEF Merged, LiveTokens
  <2>3. NoneReplaced(planned)' /\ NoneReplaced(held)' /\ NoneReplaced({})'
    BY <1>0, <2>1, <2>2, NoneReplacedOn DEF TokensOK, history, NoneReplaced
  <2>4. "tokens" \in faults \/ (Keeps(planned)' /\ Keeps(held)')
    BY <1>0, <2>1, <2>2, KeepsOn DEF TokensOK, history
  <2>5. tokens' = {} /\ tokensFile'.held = held /\ plan'.tokens = planned
    BY <1>0, <1>2, <2>1 DEF TokensOK, memory, files
  <2> QED BY <1>0, <2>3, <2>4, <2>5, TokensFramed DEF history
<1>6. GrantsOK'
  <2>1. ~marker /\ ~Exists(grantsFile) => Derived \subseteq Inherited
    <3>1. LegacyGlobal => clientsFile.held # {} \/ tokensFile.held # {}
      BY DEF LegacyGlobal, LiveTokens
    <3>2. CASE Undecided
      BY <1>0, <3>1, <3>2 DEF GrantsOK, Derived, Inherited, MergedBefore
    <3>3. CASE "marker" \in faults \/ scene.global
      BY <3>3 DEF Derived, Inherited
    <3> QED BY <3>2, <3>3 DEF Undecided
  <2>2. Undecided' => Undecided
    BY <1>0 DEF Undecided, files
  <2>3. Undecided /\ (plan'.clients # {} \/ plan'.tokens # {} \/ clientsFile.held # {} \/ tokensFile.held # {})
          => Readable # {}
    BY <1>0, <1>2 DEF GrantsOK, Merged, LiveTokens, ScopedTokens
  <2> QED BY <1>0, <1>2, <2>1, <2>2, <2>3, StartGrants DEF files, user, history
<1> QED BY <1>1, <1>3, <1>4, <1>5, <1>6 DEF AccessInv

LEMMA WriteFilesKeep ==
    ASSUME AccessInv, WriteClients \/ WriteTokens, UNCHANGED <<scene, crashes>>
    PROVE  AccessInv'
<1>0. /\ AccessTypes /\ ClientsOK /\ CodesOK /\ TokensOK /\ GrantsOK /\ ExchangedOnce
      /\ Merging /\ phase' \in {"tokens", "grant"}
      /\ UNCHANGED <<grantsFile, marker, plan, memory, history, user>> /\ faults \subseteq faults'
  BY FaultsGrow DEF AccessInv, Merging, WriteClients, WriteTokens
<1>1. AccessTypes'
  BY <1>0, StartTypes DEF StartActions
<1>2. /\ clientsFile'.held = clientsFile.held \/ clientsFile'.held = plan.clients
      /\ tokensFile'.held = tokensFile.held \/ tokensFile'.held = plan.tokens
  BY DEF WriteClients, WriteTokens, Sound
<1>3. ClientsOK'
  BY <1>0, <1>2 DEF ClientsOK, Merging, user
<1>4. CodesOK' /\ ExchangedOnce'
  BY <1>0, CodesFramed DEF CodesOK, Merging, memory, history
<1>5. TokensOK'
  <2>1. PICK held \in {tokensFile.held, plan.tokens}, planned \in {plan.tokens} : held = tokensFile'.held
    BY <1>2
  <2>2. NoneReplaced(planned)' /\ NoneReplaced(held)' /\ NoneReplaced({})'
    BY <1>0, <2>1, NoneReplacedOn DEF TokensOK, history, NoneReplaced
  <2>3. "tokens" \in faults \/ (Keeps(planned)' /\ Keeps(held)')
    BY <1>0, <2>1, KeepsOn DEF TokensOK, history
  <2>4. tokens' = {} /\ plan'.tokens = planned
    BY <1>0, <2>1 DEF TokensOK, Merging, memory
  <2> QED BY <1>0, <2>1, <2>2, <2>3, <2>4, TokensFramed DEF history
<1>6. GrantsOK'
  <2>1. Undecided' => Undecided
    BY <1>0 DEF Undecided
  <2>2. Undecided /\ (plan.clients # {} \/ plan.tokens # {} \/ clientsFile.held # {} \/ tokensFile.held # {})
          => Readable # {}
    BY <1>0 DEF GrantsOK
  <2>3. plan.written /\ (~marker /\ ~Exists(grantsFile) => plan.grants \subseteq Inherited)
    BY <1>0 DEF GrantsOK, Merging
  <2> QED BY <1>0, <1>2, <2>1, <2>2, <2>3, StartGrants DEF user, history
<1> QED BY <1>1, <1>3, <1>4, <1>5, <1>6 DEF AccessInv

\* The steps of a start after its migration of clients and tokens.
LEMMA LaterStartKeeps ==
    ASSUME AccessInv, AccessTypes', GrantsOK', UNCHANGED <<scene, crashes, clientsFile, tokensFile>>,
           UNCHANGED <<history, registered, deleted, codes>>, faults \subseteq faults',
           phase \notin {"up", "down"}, phase' \notin {"clients", "tokens", "down"},
           phase' # "up" => UNCHANGED <<clients, tokens>>,
           phase' = "up" => clients' = clientsFile.held /\ tokens' = LiveTokens(tokensFile.held)
    PROVE  AccessInv'
<1>0. AccessTypes /\ ClientsOK /\ CodesOK /\ TokensOK /\ ExchangedOnce
  BY DEF AccessInv
<1>1. ClientsOK'
  BY <1>0, ClientsFramed
<1>2. CodesOK' /\ ExchangedOnce'
  BY <1>0, CodesFramed DEF CodesOK, history
<1>3. TokensOK'
  <2>1. PICK held, loaded, planned : held = tokensFile.held /\ loaded = tokens' /\ planned = plan'.tokens
    OBVIOUS
  <2>2. tokens = {}
    BY <1>0 DEF TokensOK
  <2>3. loaded = {} \/ (phase' = "up" /\ loaded \subseteq held /\ held \ expired \subseteq loaded)
    BY <2>1, <2>2 DEF LiveTokens
  <2>4. NoneReplaced(held)' /\ NoneReplaced(loaded)'
    BY <1>0, <2>1, <2>3, NoneReplacedOn DEF TokensOK, history
  <2>5. "tokens" \in faults \/ (Keeps(held)' /\ (phase' = "up" => Keeps(loaded)'))
    <3>1. "tokens" \in faults \/ Keeps(held)
      BY <1>0, <2>1 DEF TokensOK
    <3>2. Keeps(held) => Keeps(held)'
      BY KeepsOn DEF history
    <3>3. Keeps(held) /\ phase' = "up" => Keeps(loaded)'
      <4>1. phase' = "up" => held \ expired' \subseteq loaded
        BY <2>1 DEF LiveTokens, history
      <4> QED BY <4>1, KeepsOn DEF history
    <3> QED BY <3>1, <3>2, <3>3
  <2>6. phase' # "up" => loaded = {}
    BY <2>1, <2>2
  <2> QED BY <1>0, <2>1, <2>4, <2>5, <2>6, TokensFramed DEF history
<1> QED BY <1>1, <1>2, <1>3 DEF AccessInv

LEMMA LaterStartSteps ==
    ASSUME AccessInv, BeginGrants \/ (\E w \in Workspaces : GrantNext(w)) \/ WriteMarker \/ Load,
           UNCHANGED <<scene, crashes>>
    PROVE  AccessInv'
<1>0. AccessTypes /\ TokensOK /\ GrantsOK /\ AccessTypes' /\ faults \subseteq faults'
  BY StartTypes, FaultsGrow DEF AccessInv, StartActions, BeginGrants, GrantNext, WriteMarker, Load
<1>1. ASSUME GrantsOK' PROVE AccessInv'
  <2>1. \A w \in Workspaces : GrantNext(w) => phase' \in {"granting", "mark"}
    BY DEF GrantNext
  <2>2. /\ UNCHANGED <<clientsFile, tokensFile, history, registered, deleted, codes>>
        /\ phase \notin {"up", "down"}
    BY DEF BeginGrants, GrantNext, WriteMarker, Load, files, memory, user, history
  <2>3. phase' \notin {"clients", "tokens", "down"}
    BY <2>1 DEF BeginGrants, WriteMarker, Load
  <2>4. /\ phase' # "up" => UNCHANGED <<clients, tokens>>
        /\ phase' = "up" => clients' = clientsFile.held /\ tokens' = LiveTokens(tokensFile.held)
    BY <2>1 DEF BeginGrants, GrantNext, WriteMarker, Load, memory
  <2> QED BY <1>0, <1>1, <2>2, <2>3, <2>4, LaterStartKeeps
<1>2. CASE BeginGrants
  <2>1. /\ UNCHANGED <<files, plan, memory, history, user, faults>> /\ phase = "grant"
        /\ phase' \in {"load", "mark", "granting"}
        /\ phase' = "load" => marker
        /\ phase' = "granting" => ~marker /\ ~Exists(grantsFile)
    BY <1>2 DEF BeginGrants, GrantsDue
  <2>2. Undecided' => Undecided /\ ~marker
    BY <2>1 DEF Undecided, files
  <2>3. Undecided /\ (clientsFile.held # {} \/ tokensFile.held # {}) => Readable # {}
    BY <1>0 DEF GrantsOK
  <2>4. plan.written /\ (~marker /\ ~Exists(grantsFile) => plan.grants \subseteq Inherited /\ unwanted = {})
    BY <1>0, <2>1 DEF GrantsOK
  <2>5. GrantsOK'
    BY <1>0, <2>1, <2>2, <2>3, <2>4, StartGrants DEF files, user, history
  <2> QED BY <1>1, <2>5
<1>3. CASE WriteMarker
  <2>1. /\ UNCHANGED <<clientsFile, tokensFile, grantsFile, plan, memory, history, user>> /\ phase = "mark"
        /\ phase' = "load"
        /\ \/ marker' = (marker \/ (plan.written /\ grantsFile.state # "damaged")) /\ UNCHANGED faults
           \/ UNCHANGED marker /\ "marker" \in faults'
    BY <1>3 DEF WriteMarker, Fault
  <2>2. Undecided' => Undecided /\ ~plan.written
    BY <1>0, <2>1 DEF Undecided, Exists
  <2>3. Undecided => (clientsFile.held # {} \/ tokensFile.held # {} \/ ~plan.written => Readable # {})
    BY <1>0, <2>1 DEF GrantsOK
  <2>4. GrantsOK'
    BY <1>0, <2>1, <2>2, <2>3, StartGrants DEF user, history
  <2> QED BY <1>1, <2>4
<1>4. CASE Load
  <2>1. /\ UNCHANGED <<files, codes, history, user, faults>> /\ phase = "load" /\ phase' = "up"
    BY <1>4 DEF Load
  <2>2. Undecided' => Undecided
    BY <2>1 DEF Undecided, files
  <2>3. Undecided => Readable # {}
    BY <1>0, <2>1 DEF GrantsOK
  <2>4. GrantsOK'
    BY <1>0, <2>1, <2>2, <2>3, StartGrants DEF files, user, history
  <2> QED BY <1>1, <2>4
<1>5. ASSUME NEW w \in Workspaces, GrantNext(w) PROVE GrantsOK'
  <2>1. /\ phase = "granting" /\ w \in plan.grants /\ phase' \in {"granting", "mark"}
        /\ UNCHANGED <<clientsFile, tokensFile, marker, memory, history, user>>
        /\ plan'.grants = plan.grants \ {w} /\ plan'.written = (plan.written /\ w \in grantsFile'.held)
    BY <1>0, <1>5 DEF GrantNext, AccessTypes, Plans
  <2>2. unwanted = {} /\ plan.grants \subseteq Inherited /\ Inherited \subseteq Inherited' /\ Readable' = Readable
    BY <1>0, <2>1, InheritedGrows DEF GrantsOK, history
  <2>3. \/ UNCHANGED grantsFile
        \/ /\ grantsFile'.held = grantsFile.held \cup {w} /\ Exists(grantsFile)' /\ faults' = faults
    <3>1. UNCHANGED grantsFile \/ (grantsFile' = Sound(grantsFile.held \cup {w}) /\ faults' = faults)
      BY <1>5 DEF GrantNext
    <3>2. CASE grantsFile' = Sound(grantsFile.held \cup {w}) /\ faults' = faults
      <4>1. grantsFile'.state = "sound" /\ grantsFile'.held = grantsFile.held \cup {w}
        BY <3>2 DEF Sound
      <4> QED BY <3>2, <4>1 DEF Exists
    <3> QED BY <3>1, <3>2
  <2>4. GrantsFollowUser'
    <3>1. grantsFile.held \subseteq grantsFile'.held /\ grantsFile'.held \subseteq grantsFile.held \cup {w}
      BY <2>3
    <3>2. UNCHANGED <<wanted, unwanted>>
      BY <2>1 DEF user
    <3> QED BY <1>0, <2>1, <2>2, <3>1, <3>2 DEF GrantsOK, GrantsFollowUser
  <2>5. ~Exists(grantsFile)' => ~Exists(grantsFile)
    BY <2>3 DEF Exists
  <2>6. Undecided' => Undecided
    BY <1>0, <2>1, <2>5 DEF Undecided
  <2>7. Undecided => Readable # {}
    BY <2>1, <2>2 DEF Undecided, Inherited, MergedBefore
  <2> QED BY <1>0, <2>1, <2>2, <2>4, <2>5, <2>6, <2>7 DEF GrantsOK, Merging, user
<1> QED BY <1>1, <1>2, <1>3, <1>4, <1>5

-----------------------------------------------------------------------------
(* Clients and tokens: the endpoints *)

\* A registry after it was saved, or was not.
LEMMA SavedClients ==
    ASSUME AccessTypes, NEW set \in SUBSET Clients, SaveClients(set)
    PROVE  clientsFile'.held = set /\ clients' = set
BY DEF SaveClients, Sound

\* A request that leaves the tokens alone.
LEMMA RegistryKeeps ==
    ASSUME AccessInv, OfClient, UNCHANGED <<tokensFile, tokens, pairs, expired>>, faults \subseteq faults',
           AccessTypes', ClientsOK', CodesOK', ExchangedOnce'
    PROVE  AccessInv'
<1>0. AccessTypes /\ TokensOK /\ GrantsOK
  BY DEF AccessInv
<1>1. TokensOK'
  <2>1. PICK held, loaded, planned : held = tokensFile.held /\ loaded = tokens /\ planned = plan.tokens
    OBVIOUS
  <2>2. NoneReplaced(held)' /\ NoneReplaced(loaded)' /\ phase = "up" /\ phase' = "up"
    BY <1>0, <2>1, NoneReplacedOn DEF TokensOK, OfClient
  <2>3. "tokens" \in faults \/ (Keeps(held)' /\ Keeps(loaded)')
    BY <1>0, <2>1, <2>2, KeepsOn DEF TokensOK, OfClient
  <2> QED BY <1>0, <2>1, <2>2, <2>3, TokensFramed DEF OfClient
<1>2. GrantsOK'
  BY <1>0, GrantsFramed DEF OfClient
<1> QED BY <1>1, <1>2 DEF AccessInv

LEMMA RegistrationKeeps ==
    ASSUME AccessInv, OfClient, Registration \/ Deletion
    PROVE  AccessInv'
<1>0. /\ AccessTypes /\ ClientsOK /\ CodesOK /\ TokensOK /\ ExchangedOnce
      /\ phase = "up" /\ phase' = "up" /\ clients = clientsFile.held /\ UNCHANGED plan
  BY DEF AccessInv, OfClient, ClientsOK
<1>1. UNCHANGED <<tokensFile, tokens, codes, history>> /\ faults \subseteq faults'
  BY FaultsGrow DEF Registration, Deletion, RegisterClient, DeleteClients, Unsaved
<1>2. ASSUME AccessTypes', ClientsOK' PROVE AccessInv'
  <2>1. CodesOK' /\ ExchangedOnce'
    BY <1>0, <1>1, CodesFramed DEF history, OfClient
  <2> QED BY <1>1, <1>2, <2>1, RegistryKeeps DEF history
<1>3. ASSUME UNCHANGED <<clientsFile, clients, registered, deleted>> PROVE AccessInv'
  <2>1. AccessTypes'
    BY <1>0, <1>1, <1>3, ClientTypes DEF history, AccessTypes
  <2>2. ClientsOK'
    BY <1>0, <1>1, <1>3, ClientsFramed
  <2> QED BY <1>2, <2>1, <2>2
<1>4. ASSUME NEW set \in SUBSET Clients, SaveClients(set),
             registered' \subseteq NewClients, deleted' \subseteq NewClients,
             "clients" \in faults \/ registered' \subseteq set, deleted' \cap set = {}
      PROVE  AccessInv'
  <2>1. AccessTypes'
    BY <1>0, <1>1, <1>4, ClientTypes DEF history, AccessTypes
  <2>2. clientsFile'.held = set /\ clients' = set
    BY <1>0, <1>4, SavedClients
  <2>3. ClientsOK'
    BY <1>0, <1>1, <1>4, <2>2 DEF ClientsOK, Merging
  <2> QED BY <1>2, <2>1, <2>3
<1>5. ASSUME NEW k \in Clients, RegisterClient(k) PROVE AccessInv'
  <2>1. CASE UNCHANGED <<clientsFile, clients, registered, deleted>>
    BY <1>3, <2>1
  <2>2. CASE SaveClients(clients \cup {k}) /\ registered' = registered \cup {k} /\ UNCHANGED deleted
    <3>1. k \in NewClients /\ k \notin deleted
      BY <1>0, <1>5, OAuthAssumption DEF RegisterClient, AccessTypes
    <3>2. clients \cup {k} \in SUBSET Clients
      BY <1>0 DEF AccessTypes
    <3> QED BY <1>0, <1>4, <2>2, <3>1, <3>2 DEF ClientsOK, AccessTypes
  <2> QED BY <1>5, <2>1, <2>2 DEF RegisterClient, Unsaved
<1>6. ASSUME NEW set \in SUBSET Clients, DeleteClients(set) PROVE AccessInv'
  <2>1. CASE UNCHANGED <<clientsFile, clients, registered, deleted>>
    BY <1>3, <2>1
  <2>2. CASE /\ SaveClients(clients \ set) /\ registered' = registered \ set
             /\ deleted' = deleted \cup (set \cap NewClients)
    <3>1. clients \ set \in SUBSET Clients
      BY <1>0 DEF AccessTypes
    <3> QED BY <1>0, <1>4, <2>2, <3>1 DEF ClientsOK, AccessTypes
  <2> QED BY <1>6, <2>1, <2>2 DEF DeleteClients, Unsaved
<1> QED BY <1>5, <1>6 DEF Registration, Deletion

\* A code is made, is tried in vain, or expires.
LEMMA CodesKeep ==
    ASSUME AccessInv, OfClient, UNCHANGED <<clientsFile, clients, tokensFile, tokens, pairs, expired>>,
           UNCHANGED <<registered, deleted>>, faults \subseteq faults',
           \/ codes' \subseteq codes /\ UNCHANGED made
           \/ \E k \in Clients : Authorize(k)
    PROVE  AccessInv'
<1>0. AccessTypes /\ ClientsOK /\ CodesOK /\ ExchangedOnce /\ phase = "up" /\ phase' = "up"
  BY DEF AccessInv, OfClient
<1>1. AccessTypes'
  <2>1. registered' \subseteq NewClients /\ deleted' \subseteq NewClients
    BY <1>0 DEF AccessTypes
  <2>2. \/ codes' \subseteq codes /\ made' = made
        \/ codes' \subseteq codes \cup [id : {made'}, client : Clients] /\ made' = made + 1 /\ made < scene.codes
    BY DEF Authorize
  <2>3. made \in Nat
    BY <1>0 DEF AccessTypes
  <2> QED BY <1>0, <2>1, <2>2, <2>3, ClientTypes
<1>2. ClientsOK'
  BY <1>0, ClientsFramed DEF ClientsOK, OfClient
<1>3. CodesOK' /\ ExchangedOnce'
  <2>1. CASE codes' \subseteq codes /\ UNCHANGED made
    BY <1>0, <2>1, CodesFramed DEF OfClient
  <2>2. ASSUME NEW k \in Clients, Authorize(k) PROVE CodesOK' /\ ExchangedOnce'
    <3>1. PICK code : code = [id |-> made + 1, client |-> k]
      OBVIOUS
    <3>2. made' = made + 1 /\ codes' = codes \cup {code} /\ code.id = made + 1 /\ made \in Nat
      BY <1>0, <2>2, <3>1 DEF Authorize, AccessTypes
    <3>3. \A c \in codes : c.id \in Nat /\ c.id <= made
      BY <1>0 DEF CodesOK, AccessTypes
    <3>4. UNCHANGED <<scene, pairs>>
      BY DEF OfClient
    <3>5. \A c \in codes' : c.id <= made'
      BY <3>2, <3>3
    <3>6. \A c, d \in codes' : c.id = d.id => c = d
      BY <1>0, <3>2, <3>3 DEF CodesOK
    <3>7. \A i \in 1 .. Len(pairs), c \in 1 .. scene.codes :
             pairs[i].from = [code |-> c] => c <= made' /\ \A d \in codes' : d.id # c
      BY <1>0, <3>2 DEF CodesOK
    <3>8. CodesOK'
      BY <1>0, <3>4, <3>5, <3>6, <3>7 DEF CodesOK
    <3>9. ExchangedOnce'
      BY <1>0, <3>4 DEF ExchangedOnce
    <3> QED BY <3>8, <3>9
  <2> QED BY <2>1, <2>2
<1> QED BY <1>1, <1>2, <1>3, RegistryKeeps

LEMMA IssueKeeps ==
    ASSUME AccessInv, OfClient,
           UNCHANGED <<clientsFile, clients, made, expired, registered, deleted, faults>>,
           NEW client \in Clients, NEW from \in Origins, NEW kept \in SUBSET KnownTokens,
           Exchange(from, kept), Issue(client, from, kept)
    PROVE  AccessInv'
<1>0. /\ AccessTypes /\ ClientsOK /\ CodesOK /\ TokensOK /\ GrantsOK /\ ExchangedOnce
      /\ phase = "up" /\ phase' = "up" /\ Len(pairs) \in Nat
  BY DEF AccessInv, OfClient, AccessTypes
<1>1. codes' \subseteq codes
  BY DEF Exchange
<1>2. /\ AccessTypes' /\ Len(pairs') = Len(pairs) + 1 /\ pairs'[Len(pairs')].from = from
      /\ \A i \in 1 .. Len(pairs) : pairs'[i] = pairs[i]
  BY <1>0, <1>1, IssueTypes
<1>3. ClientsOK'
  BY <1>0, ClientsFramed DEF ClientsOK, OfClient
<1>4. CodesOK' /\ ExchangedOnce'
  BY <1>0, <1>2, IssueCodes
<1>5. TokensOK'
  BY <1>0, <1>2, IssueTokens
<1>6. GrantsOK'
  BY <1>0, GrantsFramed DEF OfClient
<1> QED BY <1>2, <1>3, <1>4, <1>5, <1>6 DEF AccessInv

LEMMA TokenRequestKeeps ==
    ASSUME AccessInv, OfClient, TokenRequest
    PROVE  AccessInv'
<1>0. /\ AccessTypes /\ clients \subseteq Clients /\ tokens \in SUBSET KnownTokens
      /\ codes \subseteq [id : 1 .. scene.codes, client : Clients]
  BY DEF AccessInv, AccessTypes
<1>1. ASSUME NEW code \in codes, TryCode(code) PROVE AccessInv'
  <2>1. /\ UNCHANGED <<clientsFile, clients, made, expired, registered, deleted>>
        /\ codes' = codes \ {code} /\ code.client \in Clients /\ code.id \in 1 .. scene.codes
    BY <1>0, <1>1 DEF TryCode
  <2>2. CASE Issue(code.client, [code |-> code.id], tokens) /\ UNCHANGED faults
    <3>1. PICK from : from = [code |-> code.id]
      OBVIOUS
    <3>2. from \in Origins
      BY <2>1, <3>1 DEF Origins
    <3>3. Exchange(from, tokens)
      BY <2>1, <3>1 DEF Exchange
    <3> QED BY <1>0, <2>1, <2>2, <3>1, <3>2, <3>3, IssueKeeps
  <2>3. CASE UNCHANGED <<tokensFile, tokens, pairs>> /\ faults \subseteq faults'
    BY <2>1, <2>3, CodesKeep
  <2> QED BY <1>1, <2>2, <2>3, FaultsGrow DEF TryCode
<1>2. ASSUME NEW t \in tokens, Refresh(t) PROVE AccessInv'
  <2>1. /\ UNCHANGED <<clientsFile, clients, codes, made, expired, registered, deleted>>
        /\ t.kind = "refresh" /\ ClientOf(t.pair) \in Clients
    BY <1>0, <1>2 DEF Refresh
  <2>2. t.pair \in KnownPairs /\ t = Refreshing(t.pair)
    BY <1>0, <2>1 DEF KnownTokens, Refreshing
  <2>3. KnownPairs \subseteq PairIds
    <3>1. Len(pairs) \in Nat /\ Len(pairs) <= scene.pairs /\ scene.pairs \in Nat
      BY <1>0, OAuthAssumption DEF AccessTypes
    <3> QED BY <3>1 DEF KnownPairs, PairIds
  <2>4. CASE Issue(ClientOf(t.pair), [refresh |-> t.pair], Kept(t.pair)) /\ UNCHANGED faults
    <3>1. PICK from, client, kept :
            from = [refresh |-> t.pair] /\ client = ClientOf(t.pair) /\ kept = Kept(t.pair)
      OBVIOUS
    <3>2. from \in Origins
      BY <2>2, <2>3, <3>1 DEF Origins
    <3>3. Exchange(from, kept)
      BY <2>1, <2>2, <3>1 DEF Exchange
    <3>4. kept \in SUBSET KnownTokens
      BY <1>0, <3>1 DEF Kept
    <3>5. client \in Clients /\ Issue(client, from, kept)
      BY <2>1, <2>4, <3>1
    <3> QED BY <2>1, <2>4, <3>2, <3>3, <3>4, <3>5, IssueKeeps
  <2>5. CASE UNCHANGED <<tokensFile, tokens, pairs>> /\ faults \subseteq faults'
    BY <2>1, <2>5, CodesKeep
  <2> QED BY <1>2, <2>4, <2>5, FaultsGrow DEF Refresh, Unsaved
<1> QED BY <1>1, <1>2 DEF TokenRequest

LEMMA UseExpiredKeeps ==
    ASSUME AccessInv, OfClient, NEW t \in tokens, UseExpired(t)
    PROVE  AccessInv'
<1>0. /\ AccessTypes /\ ClientsOK /\ CodesOK /\ TokensOK /\ GrantsOK /\ ExchangedOnce
      /\ phase = "up" /\ phase' = "up" /\ tokens \subseteq KnownTokens
      /\ UNCHANGED <<clientsFile, clients, codes, pairs, made, expired, registered, deleted>>
      /\ UNCHANGED <<scene, plan>>
  BY DEF AccessInv, AccessTypes, UseExpired, OfClient, history
<1>1. CASE UNCHANGED <<tokensFile, tokens>> /\ faults \subseteq faults'
  BY <1>0, <1>1, CodesKeep
<1>2. CASE SaveTokens(tokens \ {t}) /\ UNCHANGED faults
  <2>1. PICK rest, held : rest = tokens \ {t} /\ held = LiveTokens(rest)
    OBVIOUS
  <2>2. tokens' = rest /\ tokensFile'.held = held /\ held \subseteq rest /\ t \in expired
    BY <1>2, <2>1 DEF SaveTokens, Sound, LiveTokens, UseExpired
  <2>3. AccessTypes'
    <3>1. rest \in SUBSET KnownTokens /\ SaveTokens(rest)
      BY <1>0, <1>2, <2>1
    <3>2. registered' \subseteq NewClients /\ deleted' \subseteq NewClients
      BY <1>0 DEF AccessTypes
    <3> QED BY <1>0, <3>1, <3>2, ClientTypes
  <2>4. NoneReplaced(rest)' /\ NoneReplaced(held)'
    BY <1>0, <2>1, <2>2, NoneReplacedOn DEF TokensOK
  <2>5. "tokens" \in faults \/ (Keeps(rest)' /\ Keeps(held)')
    <3>1. tokens \ expired' \subseteq rest /\ tokens \ expired' \subseteq held
      BY <1>0, <2>1, <2>2 DEF LiveTokens
    <3> QED BY <1>0, <3>1, KeepsOn DEF TokensOK
  <2>6. TokensOK'
    <3>1. PICK planned : planned = plan'.tokens
      OBVIOUS
    <3> QED BY <1>0, <1>2, <2>2, <2>4, <2>5, <3>1, TokensFramed
  <2>7. ClientsOK'
    BY <1>0, <1>2, ClientsFramed DEF ClientsOK
  <2>8. CodesOK' /\ ExchangedOnce'
    BY <1>0, CodesFramed
  <2>9. GrantsOK'
    BY <1>0, <1>2, GrantsFramed DEF OfClient
  <2> QED BY <2>3, <2>6, <2>7, <2>8, <2>9 DEF AccessInv
<1> QED BY <1>1, <1>2, FaultsGrow DEF UseExpired, Unsaved

LEMMA ClientStepKeeps ==
    ASSUME AccessInv, ClientStep, UNCHANGED <<scene, crashes>>
    PROVE  AccessInv'
<1>0. OfClient
  BY DEF ClientStep, OfClient
<1>1. CASE Registration \/ Deletion
  BY <1>0, <1>1, RegistrationKeeps
<1>2. CASE Authorization
  BY <1>0, <1>2, CodesKeep DEF Authorization, Authorize
<1>3. CASE TokenRequest
  BY <1>0, <1>3, TokenRequestKeeps
<1>4. ASSUME NEW code \in codes, CodeExpires(code) PROVE AccessInv'
  BY <1>0, <1>4, CodesKeep DEF CodeExpires, history
<1>5. ASSUME NEW t \in tokens, UseExpired(t) PROVE AccessInv'
  BY <1>0, <1>5, UseExpiredKeeps
<1> QED BY <1>1, <1>2, <1>3, <1>4, <1>5 DEF ClientStep

-----------------------------------------------------------------------------
(* Clients and tokens: the user, time and failures *)

\* A step that changes no client and no token, but what has expired or failed.
LEMMA OthersKeep ==
    ASSUME AccessInv, UNCHANGED <<scene, clientsFile, tokensFile, clients, tokens, codes, pairs, made>>,
           UNCHANGED <<registered, deleted, phase, plan>>,
           expired \subseteq expired', faults \subseteq faults', AccessTypes', GrantsOK'
    PROVE  AccessInv'
<1>0. AccessTypes /\ ClientsOK /\ CodesOK /\ TokensOK /\ ExchangedOnce
  BY DEF AccessInv
<1>1. ClientsOK'
  BY <1>0, ClientsFramed DEF ClientsOK, Merging
<1>2. CodesOK' /\ ExchangedOnce'
  BY <1>0, CodesFramed DEF CodesOK
<1>3. TokensOK'
  <2>1. PICK held, loaded, planned : held = tokensFile.held /\ loaded = tokens /\ planned = plan.tokens
    OBVIOUS
  <2>2. NoneReplaced(held)' /\ NoneReplaced(loaded)' /\ (Merging => NoneReplaced(planned)')
    BY <1>0, <2>1, NoneReplacedOn DEF TokensOK
  <2>3. "tokens" \in faults \/ (Keeps(held)' /\ (phase = "up" => Keeps(loaded)') /\ (Merging => Keeps(planned)'))
    BY <1>0, <2>1, KeepsOn DEF TokensOK
  <2> QED BY <1>0, <2>1, <2>2, <2>3, TokensFramed DEF TokensOK, Merging
<1> QED BY <1>1, <1>2, <1>3 DEF AccessInv

LEMMA UserStepKeeps ==
    ASSUME AccessInv, UserStep, UNCHANGED <<scene, crashes>>
    PROVE  AccessInv'
<1>0. /\ AccessTypes /\ GrantsOK /\ phase = "up" /\ phase' = "up" /\ scene.granting \subseteq Workspaces
      /\ UNCHANGED <<clientsFile, tokensFile, marker, plan, clients, tokens, codes, pairs, made, expired>>
      /\ UNCHANGED <<registered, deleted>>
  BY OAuthAssumption DEF AccessInv, AccessTypes, UserStep, memory, history
<1>1. PICK w \in scene.granting : Grant(w) \/ Revoke(w)
  BY DEF UserStep
<1>2. CASE UNCHANGED <<grantsFile, wanted, unwanted>> /\ faults \subseteq faults'
  <2>1. AccessTypes'
    BY <1>0, <1>2, TypesFramed DEF AccessTypes, TypesFrame
  <2>2. GrantsOK'
    BY <1>0, <1>2, GrantsFramed
  <2> QED BY <1>0, <1>2, <2>1, <2>2, OthersKeep
<1>3. ASSUME NEW set \in SUBSET Workspaces, grantsFile' = Sound(set), UNCHANGED faults,
             wanted' \subseteq Workspaces, unwanted' \subseteq Workspaces,
             unwanted' \cap set = {}, set \subseteq wanted' \cup Inherited,
             "grants" \in faults \/ wanted' \subseteq set
      PROVE  AccessInv'
  <2>1. grantsFile'.held = set /\ Exists(grantsFile)' /\ grantsFile' \in File(Workspaces)
    <3>1. grantsFile'.state = "sound" /\ grantsFile'.held = set /\ grantsFile' \in File(Workspaces)
      BY <1>3 DEF Sound, File
    <3> QED BY <3>1 DEF Exists
  <2>2. AccessTypes'
    BY <1>0, <1>3, <2>1, TypesFramed DEF AccessTypes, TypesFrame
  <2>3. Inherited' = Inherited
    BY <1>0, <1>3 DEF Inherited, MergedBefore, Readable, ScopedTokens, LiveTokens, Pair
  <2>4. GrantsFollowUser'
    BY <1>3, <2>1, <2>3 DEF GrantsFollowUser
  <2>5. ~Undecided'
    BY <2>1 DEF Undecided
  <2>6. GrantsOK'
    BY <1>0, <2>1, <2>4, <2>5 DEF GrantsOK
  <2> QED BY <1>0, <1>3, <2>2, <2>6, OthersKeep
<1>4. /\ GrantsFollowUser /\ wanted \subseteq Workspaces /\ unwanted \subseteq Workspaces
      /\ grantsFile.held \subseteq Workspaces
  BY <1>0, FileHolds DEF GrantsOK, AccessTypes
<1>5. CASE /\ grantsFile' = Sound(grantsFile.held \cup {w}) /\ UNCHANGED faults
           /\ wanted' = wanted \cup {w} /\ unwanted' = unwanted \ {w}
  <2>1. grantsFile.held \cup {w} \in SUBSET Workspaces
    BY <1>0, <1>4
  <2> QED BY <1>0, <1>3, <1>4, <1>5, <2>1 DEF GrantsFollowUser
<1>6. CASE /\ grantsFile' = Sound(grantsFile.held \ {w}) /\ UNCHANGED faults
           /\ wanted' = wanted \ {w} /\ unwanted' = unwanted \cup {w}
  <2>1. grantsFile.held \ {w} \in SUBSET Workspaces
    BY <1>0, <1>4
  <2> QED BY <1>0, <1>3, <1>4, <1>6, <2>1 DEF GrantsFollowUser
<1> QED BY <1>1, <1>2, <1>5, <1>6, FaultsGrow DEF Grant, Revoke

LEMMA ExpireKeeps ==
    ASSUME AccessInv, NEW t \in Tokens, Expire(t), UNCHANGED scene
    PROVE  AccessInv'
<1>0. /\ AccessTypes /\ GrantsOK /\ expired' = expired \cup {t}
      /\ UNCHANGED <<clientsFile, tokensFile, grantsFile, marker, phase, plan, clients, tokens, codes, pairs, made>>
      /\ UNCHANGED <<registered, deleted, wanted, unwanted, crashes, faults>>
  BY DEF AccessInv, Expire, files, memory, user
<1>1. AccessTypes'
  BY <1>0, TypesFramed DEF AccessTypes, TypesFrame
<1>2. GrantsOK'
  BY <1>0, GrantsFramed
<1> QED BY <1>0, <1>1, <1>2, OthersKeep

LEMMA CrashKeeps ==
    ASSUME AccessInv, Crash, UNCHANGED scene
    PROVE  AccessInv'
<1>0. /\ AccessTypes /\ ClientsOK /\ CodesOK /\ TokensOK /\ GrantsOK /\ ExchangedOnce
      /\ phase' = "down" /\ plan' = NoPlan /\ clients' = {} /\ codes' = {} /\ tokens' = {}
      /\ crashes < scene.stops /\ crashes' = crashes + 1 /\ crashes \in Nat
      /\ UNCHANGED <<clientsFile, tokensFile, grantsFile, marker, pairs, made, expired, registered, deleted>>
      /\ UNCHANGED <<wanted, unwanted, faults>>
  BY OAuthAssumption DEF AccessInv, AccessTypes, Crash, files, history, user
<1>1. AccessTypes'
  <2>1. NoPlan \in Plans
    BY DEF NoPlan, Plans
  <2>2. crashes' \in 0 .. scene.stops
    BY <1>0, OAuthAssumption DEF AccessTypes
  <2> QED BY <1>0, <2>1, <2>2, TypesFramed DEF AccessTypes, TypesFrame
<1>2. ClientsOK'
  BY <1>0, ClientsFramed
<1>3. CodesOK' /\ ExchangedOnce'
  BY <1>0, CodesFramed
<1>4. TokensOK'
  <2>1. PICK held, planned : held = tokensFile.held /\ planned = plan'.tokens
    OBVIOUS
  <2>2. NoneReplaced(held)' /\ NoneReplaced({})'
    BY <1>0, <2>1, NoneReplacedOn DEF TokensOK, NoneReplaced
  <2>3. "tokens" \in faults \/ Keeps(held)'
    BY <1>0, <2>1, KeepsOn DEF TokensOK
  <2> QED BY <1>0, <2>1, <2>2, <2>3, TokensFramed
<1>5. GrantsOK'
  <2>1. Inherited \subseteq Inherited' /\ Readable' = Readable
    BY <1>0, InheritedGrows
  <2>2. Undecided' => Undecided
    BY <1>0 DEF Undecided, Exists
  <2>3. GrantsFollowUser'
    BY <1>0, <2>1 DEF GrantsOK, GrantsFollowUser
  <2>4. ~Exists(grantsFile)' => wanted' = {} /\ unwanted' = {}
    BY <1>0 DEF GrantsOK, Exists
  <2>5. Undecided' /\ (clientsFile'.held # {} \/ tokensFile'.held # {}) => Readable' # {} /\ crashes' > 0
    BY <1>0, <2>1, <2>2 DEF GrantsOK
  <2> QED BY <1>0, <2>3, <2>4, <2>5 DEF GrantsOK, Merging
<1> QED BY <1>1, <1>2, <1>3, <1>4, <1>5 DEF AccessInv

LEMMA DamageKeeps ==
    ASSUME AccessInv, Damage, UNCHANGED scene
    PROVE  AccessInv'
<1>0. /\ AccessTypes /\ ClientsOK /\ CodesOK /\ TokensOK /\ GrantsOK /\ ExchangedOnce
      /\ phase = "down" /\ phase' = "down" /\ faults \subseteq faults'
      /\ UNCHANGED <<marker, plan, clients, codes, tokens, pairs, made, expired, registered, deleted>>
      /\ UNCHANGED <<wanted, unwanted, crashes>>
  BY FaultsGrow DEF AccessInv, Damage, memory, history, user
<1>1. /\ clientsFile' = clientsFile \/ (clientsFile' = Damaged /\ "clients" \in faults')
      /\ tokensFile' = tokensFile \/ (tokensFile' = Damaged /\ "tokens" \in faults')
      /\ grantsFile' = grantsFile \/ (grantsFile' = Damaged /\ "grants" \in faults' /\ Exists(grantsFile))
  BY DEF Damage, Fault
<1>2. AccessTypes'
  <2>1. clientsFile' \in File(Clients)
    BY <1>0, <1>1, FileIs DEF AccessTypes
  <2>2. tokensFile' \in File(KnownTokens)
    BY <1>0, <1>1, FileIs DEF AccessTypes
  <2>3. grantsFile' \in File(Workspaces)
    BY <1>0, <1>1, FileIs DEF AccessTypes
  <2> QED BY <1>0, <2>1, <2>2, <2>3, TypesFramed DEF AccessTypes, TypesFrame
<1>3. Damaged.held = {} /\ Exists(Damaged)
  BY DEF Damaged, Exists
<1>4. ClientsOK'
  BY <1>0, <1>1, <1>3 DEF ClientsOK, Merging
<1>5. CodesOK' /\ ExchangedOnce'
  BY <1>0, CodesFramed DEF CodesOK
<1>6. TokensOK'
  <2>1. PICK held, planned : held = tokensFile'.held /\ planned = plan'.tokens
    OBVIOUS
  <2>2. held = tokensFile.held \/ (held = {} /\ "tokens" \in faults')
    BY <1>1, <1>3, <2>1
  <2>3. NoneReplaced(held)' /\ NoneReplaced({})'
    BY <1>0, <2>2, NoneReplacedOn DEF TokensOK, NoneReplaced
  <2>4. "tokens" \in faults' \/ Keeps(held)'
    BY <1>0, <2>2, KeepsOn DEF TokensOK
  <2>5. tokens' = {}
    BY <1>0 DEF TokensOK
  <2> QED BY <1>0, <2>1, <2>3, <2>4, <2>5, TokensFramed
<1>7. GrantsOK'
  <2>1. Inherited \subseteq Inherited' /\ Readable' = Readable
    BY <1>0, InheritedGrows
  <2>2. Exists(grantsFile)' = Exists(grantsFile)
    BY <1>1, <1>3 DEF Exists
  <2>3. GrantsFollowUser'
    BY <1>0, <1>1, <1>3, <2>1 DEF GrantsOK, GrantsFollowUser
  <2>4. ~Exists(grantsFile)' => wanted' = {} /\ unwanted' = {}
    BY <1>0, <2>2 DEF GrantsOK
  <2>5. Undecided' => Undecided
    BY <1>0, <2>2 DEF Undecided
  <2>6. Undecided' /\ (clientsFile'.held # {} \/ tokensFile'.held # {}) => Readable' # {} /\ crashes' > 0
    BY <1>0, <1>1, <1>3, <2>1, <2>5 DEF GrantsOK
  <2> QED BY <1>0, <2>3, <2>4, <2>6 DEF GrantsOK, Merging
<1> QED BY <1>2, <1>4, <1>5, <1>6, <1>7 DEF AccessInv

LEMMA OAuthKeeps == ASSUME AccessInv, OAuthNext PROVE AccessInv'
<1>1. CASE StartStep /\ UNCHANGED <<scene, crashes>>
  <2>1. CASE ReadAll
    BY <1>1, <2>1, ReadAllKeeps
  <2>2. CASE WriteClients \/ WriteTokens
    BY <1>1, <2>2, WriteFilesKeep
  <2>3. CASE BeginGrants \/ (\E w \in Workspaces : GrantNext(w)) \/ WriteMarker \/ Load
    BY <1>1, <2>3, LaterStartSteps
  <2> QED BY <1>1, <2>1, <2>2, <2>3 DEF StartStep
<1>2. CASE ClientStep /\ UNCHANGED <<scene, crashes>>
  BY <1>2, ClientStepKeeps
<1>3. CASE UserStep /\ UNCHANGED <<scene, crashes>>
  BY <1>3, UserStepKeeps
<1>4. ASSUME NEW t \in Tokens, Expire(t), UNCHANGED scene PROVE AccessInv'
  BY <1>4, ExpireKeeps
<1>5. CASE Crash /\ UNCHANGED scene
  BY <1>5, CrashKeeps
<1>6. CASE Damage /\ UNCHANGED scene
  BY <1>6, DamageKeeps
<1> QED BY <1>1, <1>2, <1>3, <1>4, <1>5, <1>6 DEF OAuthNext

LEMMA OAuthRests == ASSUME AccessInv, UNCHANGED oauthVars PROVE AccessInv'
<1>0. /\ AccessTypes /\ GrantsOK
      /\ UNCHANGED <<scene, clientsFile, tokensFile, grantsFile, marker, phase, plan, clients, tokens, codes, pairs>>
      /\ UNCHANGED <<made, expired, registered, deleted, wanted, unwanted, crashes, faults>>
  BY DEF AccessInv, oauthVars, files, memory, history, user
<1>1. AccessTypes'
  BY <1>0, TypesFramed DEF AccessTypes, TypesFrame
<1>2. GrantsOK'
  BY <1>0, GrantsFramed
<1> QED BY <1>0, <1>1, <1>2, OthersKeep

LEMMA OAuthStart == OAuthInit => AccessInv
<1> SUFFICES ASSUME OAuthInit PROVE AccessInv
  OBVIOUS
<1>0. /\ scene \in Scenes /\ phase = "down" /\ plan = NoPlan /\ clients = {} /\ codes = {} /\ tokens = {}
      /\ pairs = <<>> /\ Len(pairs) = 0 /\ made = 0 /\ expired = {} /\ wanted = {} /\ unwanted = {}
      /\ registered = {} /\ deleted = {} /\ crashes = 0 /\ faults = {}
      /\ grantsFile = Absent /\ marker = FALSE
  BY DEF OAuthInit
<1>1. Active \in Clients /\ {Active} \in SUBSET Clients /\ Pair(Active) \in SUBSET KnownTokens
  BY OAuthAssumption DEF Clients, Pair, KnownTokens, KnownPairs
<1>2. /\ clientsFile \in File(Clients) /\ tokensFile \in File(KnownTokens)
      /\ clientsFile.held = IF scene.global THEN {Active} ELSE {}
      /\ tokensFile.held = IF scene.global THEN Pair(Active) ELSE {}
  <2>1. CASE scene.global
    BY <1>1, <2>1, FileIs DEF OAuthInit
  <2>2. CASE ~scene.global
    BY <2>2, FileIs DEF OAuthInit
  <2> QED BY <2>1, <2>2
<1>3. grantsFile \in File(Workspaces) /\ ~Exists(grantsFile) /\ grantsFile.held = {}
  BY <1>0 DEF Absent, File, Exists
<1>4. AccessTypes
  <2>1. NoPlan \in Plans
    BY DEF NoPlan, Plans
  <2>2. {scene.codes, scene.pairs, scene.stops} \subseteq Nat
    BY <1>0, OAuthAssumption
  <2>3. pairs \in Seq([client : Clients, from : Origins])
    BY <1>0, EmptySeq
  <2>4. made \in 0 .. scene.codes /\ crashes \in 0 .. scene.stops /\ Len(pairs) <= scene.pairs
    BY <1>0, <2>2
  <2> QED BY <1>0, <1>2, <1>3, <2>1, <2>3, <2>4 DEF AccessTypes
<1>5. ClientsOK
  BY <1>0 DEF ClientsOK, Merging
<1>6. CodesOK /\ ExchangedOnce
  BY <1>0 DEF CodesOK, ExchangedOnce
<1>7. TokensOK
  <2>1. \A p : ~Replaced(p)
    BY <1>0 DEF Replaced
  <2>2. \A set : Keeps(set) /\ NoneReplaced(set)
    BY <1>0, <2>1 DEF Keeps, NoneReplaced
  <2> QED BY <1>0, <2>2 DEF TokensOK, Merging
<1>8. GrantsOK
  <2>1. GrantsFollowUser
    BY <1>0, <1>3 DEF GrantsFollowUser
  <2>2. Undecided => clientsFile.held = {} /\ tokensFile.held = {}
    BY <1>2 DEF Undecided
  <2> QED BY <1>0, <2>1, <2>2 DEF GrantsOK, Merging
<1> QED BY <1>4, <1>5, <1>6, <1>7, <1>8 DEF AccessInv

-----------------------------------------------------------------------------
(* Edits beside the clients *)

LEMMA AccessKept ==
    AccessInv /\ EditInv /\ (AccessNext \/ UNCHANGED accessVars) => AccessInv' /\ EditInv'
<1> SUFFICES ASSUME AccessInv, EditInv, AccessNext \/ UNCHANGED accessVars
             PROVE  AccessInv' /\ EditInv'
  OBVIOUS
<1>1. CASE EditStep
  BY <1>1, OAuthRests, EditsKeep DEF EditStep, EditWorks
<1>2. CASE OAuthNext /\ (EditsStop \/ UNCHANGED editVars)
  BY <1>2, OAuthKeeps, EditsKeep
<1>3. CASE UNCHANGED accessVars
  BY <1>3, OAuthRests, EditsKeep DEF accessVars
<1> QED BY <1>1, <1>2, <1>3 DEF AccessNext

-----------------------------------------------------------------------------
(* The link to Codex Desktop *)

\* What a connection knows of Desktop: nil, or something announced.
Facts == {Nil} \cup {m.conversation : m \in Announced} \cup {m.owner : m \in Announced}
Capabilities == [pipe : Pipes, owner : Facts]
Hosts(inherited) ==
    [running : BOOLEAN, socket : Sockets \cup {Nil}, dialing : BOOLEAN, connected : BOOLEAN,
     asked : BOOLEAN, retry : BOOLEAN, online : BOOLEAN, conversation : Facts, owner : Facts,
     capability : Capabilities \cup {Nil}, pending : [pipe : Pipes, late : BOOLEAN] \cup {Nil},
     accepted : BOOLEAN, seen : BOOLEAN, seenOwner : Facts, inherited : {inherited},
     tried : BOOLEAN, attempts : SUBSET {"current", "stale"}, disposed : BOOLEAN]
Wires(posts) ==
    [old : SUBSET Sockets, inbox : Seq(Announced), said : SUBSET Facts, posts : {posts},
     handed : SUBSET Pipes, opened : {0, 1}]

\* The line: a socket dials or is connected, and none does once the runtime has ended.
LineOK(h) ==
    /\ h \in Hosts(h.inherited)
    /\ ~(h.dialing /\ h.connected)
    /\ h.dialing \/ h.connected => h.socket # Nil
    /\ h.disposed => ~h.running /\ ~h.dialing /\ ~h.connected

\* What a host tells, hands out and opens is of the connection on which was said, handed and opened.
BelongsTo(h, said, handed, opened) ==
    /\ h.online => {h.conversation, h.owner} \subseteq said
    /\ ~h.online => h.capability = Nil /\ h.pending = Nil /\ "current" \notin h.attempts
    /\ h.capability # Nil => h.capability.pipe \in handed
    /\ h.pending # Nil => h.pending.pipe \in handed
    /\ h.online /\ "current" \in h.attempts => h.tried /\ opened = 0
    /\ h.online /\ opened = 1 => h.tried

\* What is still to be received was said on this connection.
WireOK ==
    /\ wire \in Wires(wire.posts)
    /\ Nil \in wire.said
    /\ \A k \in 1 .. Len(wire.inbox) :
         {wire.inbox[k].conversation, wire.inbox[k].owner} \subseteq wire.said

Good(h, said, handed, opened) ==
    LineOK(h) /\ h.online = h.connected /\ BelongsTo(h, said, handed, opened)

LinkInv == WireOK /\ Good(host, wire.said, wire.handed, wire.opened)

\* The line is left alone.
SameLine(h, g) ==
    /\ g.running = h.running /\ g.socket = h.socket /\ g.dialing = h.dialing /\ g.connected = h.connected
    /\ g.disposed = h.disposed /\ g.inherited = h.inherited
    /\ g.online = h.online /\ g.conversation = h.conversation /\ g.owner = h.owner

LEMMA HandoffMoves ==
    ASSUME NEW i, NEW h \in Hosts(i)
    PROVE  LET g == ObserveHandoff(h) IN
           /\ g \in Hosts(i) /\ SameLine(h, g)
           /\ g.tried = h.tried /\ g.attempts = h.attempts
           /\ g.pending \in {Nil, h.pending}
           /\ \/ g.capability \in {Nil, h.capability}
              \/ h.pending # Nil /\ g.capability.pipe = h.pending.pipe
           /\ ~h.online => g.capability = Nil /\ g.pending = Nil
<1>. DEFINE kept == IF h.capability # Nil /\ h.capability.owner # h.owner
                    THEN [h EXCEPT !.capability = Nil] ELSE h
            next == IF kept.pending = Nil THEN kept
                    ELSE IF kept.pending.late \/ OwnerMoved(h) THEN Discard(kept)
                    ELSE IF h.owner # Nil THEN Promote(kept)
                    ELSE kept
<1>0. PICK g : g = ObserveHandoff(h)
    OBVIOUS
<1>1. PICK k : k = kept
    OBVIOUS
<1>2. /\ k \in Hosts(i) /\ SameLine(h, k)
      /\ k.tried = h.tried /\ k.attempts = h.attempts /\ k.pending = h.pending
      /\ k.capability \in {Nil, h.capability}
    BY <1>1 DEF Hosts, SameLine
<1>3. PICK n : n = next
    OBVIOUS
<1>4. /\ n \in Hosts(i) /\ SameLine(h, n)
      /\ n.tried = h.tried /\ n.attempts = h.attempts
      /\ n.pending \in {Nil, h.pending}
      /\ \/ n.capability \in {Nil, h.capability}
         \/ h.pending # Nil /\ n.capability.pipe = h.pending.pipe
    <2>0. \/ n = k
          \/ n = Discard(k)
          \/ n = Promote(k) /\ k.pending # Nil
        BY <1>1, <1>3
    <2>1. CASE n = k
        BY <1>2, <2>1
    <2>2. CASE n = Discard(k)
        BY <1>2, <2>2 DEF Discard, Hosts, SameLine
    <2>3. CASE n = Promote(k) /\ k.pending # Nil
        <3>1. k.pending \in [pipe : Pipes, late : BOOLEAN] /\ k.owner \in Facts
            BY <1>2, <2>3 DEF Hosts
        <3>2. PICK c : c = [pipe |-> k.pending.pipe, owner |-> k.owner]
            OBVIOUS
        <3>3. c \in Capabilities /\ c.pipe = k.pending.pipe
            BY <3>1, <3>2 DEF Capabilities
        <3>4. n = [k EXCEPT !.pending = Nil, !.capability = c, !.accepted = TRUE]
            BY <1>2, <2>3, <3>2 DEF Promote, Discard, Hosts
        <3>5. n \in Hosts(i)
            BY <1>2, <3>3, <3>4 DEF Hosts
        <3>6. /\ SameLine(k, n) /\ n.tried = k.tried /\ n.attempts = k.attempts
              /\ n.pending = Nil /\ n.capability = c
            BY <1>2, <3>4 DEF Hosts, SameLine
        <3>. QED
            BY <1>2, <2>3, <3>3, <3>5, <3>6 DEF SameLine
    <2>. QED
        BY <2>0, <2>1, <2>2, <2>3
<1>5. CASE h.online
    <2>1. g = [n EXCEPT !.seen = TRUE, !.seenOwner = h.owner]
        BY <1>0, <1>3, <1>5 DEF ObserveHandoff, ObserveOnline
    <2>2. h.owner \in Facts
        BY DEF Hosts
    <2>3. g \in Hosts(i)
        BY <1>4, <2>1, <2>2 DEF Hosts
    <2>4. /\ SameLine(n, g) /\ g.tried = n.tried /\ g.attempts = n.attempts
          /\ g.pending = n.pending /\ g.capability = n.capability
        BY <1>4, <2>1 DEF Hosts, SameLine
    <2>. QED
        BY <1>0, <1>4, <1>5, <2>3, <2>4 DEF SameLine
<1>6. CASE ~h.online
    <2>1. g = [h EXCEPT !.pending = Nil, !.capability = Nil, !.seen = FALSE, !.seenOwner = Nil]
        BY <1>0, <1>6 DEF ObserveHandoff, ObserveOffline, Discard, Hosts
    <2>2. Nil \in Facts
        BY DEF Facts
    <2>3. g \in Hosts(i)
        BY <2>1, <2>2 DEF Hosts
    <2>4. /\ SameLine(h, g) /\ g.tried = h.tried /\ g.attempts = h.attempts
          /\ g.pending = Nil /\ g.capability = Nil
        BY <2>1 DEF Hosts, SameLine
    <2>. QED
        BY <1>0, <1>6, <2>3, <2>4
<1>. QED
    BY <1>5, <1>6

LEMMA ActivationMoves ==
    ASSUME NEW i, NEW h \in Hosts(i)
    PROVE  LET g == ObserveActivation(h) IN
           /\ g \in Hosts(i) /\ SameLine(h, g)
           /\ g.capability = h.capability /\ g.pending = h.pending
           /\ h.disposed => g = h
           /\ ~h.disposed /\ ~h.online => "current" \notin g.attempts
           /\ h.online => \/ "current" \notin g.attempts /\ (g.tried \/ g.tried = h.tried)
                          \/ g.tried = h.tried /\ g.attempts = h.attempts
                          \/ ~h.tried /\ g.tried
<1>0. PICK g : g = ObserveActivation(h)
    OBVIOUS
<1>1. "current" \notin NextGeneration(h).attempts /\ NextGeneration(h).attempts \subseteq {"current", "stale"}
    BY DEF NextGeneration, Hosts
<1>2. PICK s \in SUBSET {"current", "stale"} : "current" \notin s /\ NextGeneration(h) = [h EXCEPT !.attempts = s]
    BY DEF NextGeneration, Hosts
<1>3. \/ g = h /\ (h.online \/ h.disposed)
      \/ ~h.disposed /\ ~h.online /\ g = [NextGeneration(h) EXCEPT !.tried = FALSE]
      \/ ~h.disposed /\ h.online /\ g = [NextGeneration(h) EXCEPT !.tried = TRUE]
      \/ ~h.disposed /\ h.online /\ ~h.tried /\ g = [h EXCEPT !.tried = TRUE, !.attempts = @ \cup {"current"}]
    BY <1>0 DEF ObserveActivation
<1>4. CASE g = h /\ (h.online \/ h.disposed)
    BY <1>0, <1>4 DEF SameLine
<1>5. CASE ~h.disposed /\ ~h.online /\ g = [NextGeneration(h) EXCEPT !.tried = FALSE]
    <2>1. g = [h EXCEPT !.attempts = s, !.tried = FALSE]
        BY <1>2, <1>5
    <2>2. g \in Hosts(i)
        BY <1>2, <2>1 DEF Hosts
    <2>3. SameLine(h, g)
        BY <2>1 DEF Hosts, SameLine
    <2>4. g.capability = h.capability /\ g.pending = h.pending
        BY <2>1 DEF Hosts
    <2>5. g.attempts = s /\ g.tried = FALSE
        BY <2>1 DEF Hosts
    <2>. QED
        BY <1>0, <1>2, <1>5, <2>2, <2>3, <2>4, <2>5
<1>6. CASE ~h.disposed /\ h.online /\ g = [NextGeneration(h) EXCEPT !.tried = TRUE]
    <2>1. g = [h EXCEPT !.attempts = s, !.tried = TRUE]
        BY <1>2, <1>6
    <2>2. g \in Hosts(i)
        BY <1>2, <2>1 DEF Hosts
    <2>3. SameLine(h, g)
        BY <2>1 DEF Hosts, SameLine
    <2>4. g.capability = h.capability /\ g.pending = h.pending
        BY <2>1 DEF Hosts
    <2>5. g.attempts = s /\ g.tried = TRUE
        BY <2>1 DEF Hosts
    <2>. QED
        BY <1>0, <1>2, <1>6, <2>2, <2>3, <2>4, <2>5
<1>7. CASE ~h.disposed /\ h.online /\ ~h.tried /\ g = [h EXCEPT !.tried = TRUE, !.attempts = @ \cup {"current"}]
    <2>1. g \in Hosts(i)
        BY <1>7 DEF Hosts
    <2>2. SameLine(h, g)
        BY <1>7 DEF Hosts, SameLine
    <2>3. g.capability = h.capability /\ g.pending = h.pending /\ g.tried
        BY <1>7 DEF Hosts
    <2>. QED
        BY <1>0, <1>7, <2>1, <2>2, <2>3
<1>. QED
    BY <1>3, <1>4, <1>5, <1>6, <1>7

LEMMA NotifyKeeps ==
    ASSUME NEW h, NEW said, NEW handed, NEW opened \in {0, 1}, LineOK(h),
           h.online \/ h.disposed => BelongsTo(h, said, handed, opened)
    PROVE  LET g == Notify(h) IN
           LineOK(g) /\ SameLine(h, g) /\ BelongsTo(g, said, handed, opened)
<1>. DEFINE i == h.inherited
<1>1. h \in Hosts(i)
    BY DEF LineOK
<1>2. CASE h.disposed
    BY <1>2 DEF Notify, SameLine
<1>3. CASE ~h.disposed
    <2>1. PICK a : a = ObserveHandoff(h)
        OBVIOUS
    <2>2. PICK g : g = ObserveActivation(a)
        OBVIOUS
    <2>3. /\ a \in Hosts(i) /\ SameLine(h, a)
          /\ a.tried = h.tried /\ a.attempts = h.attempts
          /\ a.pending \in {Nil, h.pending}
          /\ \/ a.capability \in {Nil, h.capability}
             \/ h.pending # Nil /\ a.capability.pipe = h.pending.pipe
          /\ ~h.online => a.capability = Nil /\ a.pending = Nil
        BY <1>1, <2>1, HandoffMoves
    <2>4. /\ g \in Hosts(i) /\ SameLine(a, g)
          /\ g.capability = a.capability /\ g.pending = a.pending
          /\ ~a.disposed /\ ~a.online => "current" \notin g.attempts
          /\ a.online => \/ "current" \notin g.attempts /\ (g.tried \/ g.tried = a.tried)
                         \/ g.tried = a.tried /\ g.attempts = a.attempts
                         \/ ~a.tried /\ g.tried
        BY <2>2, <2>3, ActivationMoves
    <2>5. g = Notify(h)
        BY <1>3, <2>1, <2>2 DEF Notify
    <2>6. SameLine(h, g)
        BY <2>3, <2>4 DEF SameLine
    <2>7. LineOK(g)
        BY <1>1, <2>4, <2>6 DEF LineOK, SameLine
    <2>8. BelongsTo(g, said, handed, opened)
        <3>1. CASE h.online
            <4>1. BelongsTo(h, said, handed, opened) /\ g.online
                BY <3>1, <2>6 DEF SameLine
            <4>2. /\ g.capability # Nil => g.capability.pipe \in handed
                  /\ g.pending # Nil => g.pending.pipe \in handed
                BY <2>3, <2>4, <4>1 DEF BelongsTo
            <4>3. {g.conversation, g.owner} \subseteq said
                BY <2>6, <4>1, <3>1 DEF BelongsTo, SameLine
            <4>4. /\ "current" \in h.attempts => h.tried /\ opened = 0
                  /\ opened = 1 => h.tried
                BY <3>1, <4>1 DEF BelongsTo
            <4>5. a.online
                BY <2>3, <3>1 DEF SameLine
            <4>6. g.tried \in BOOLEAN /\ h.tried \in BOOLEAN
                BY <1>1, <2>4 DEF Hosts
            <4>7. /\ "current" \in g.attempts => g.tried /\ opened = 0
                  /\ opened = 1 => g.tried
                BY <2>3, <2>4, <4>4, <4>5, <4>6
            <4>. QED
                BY <4>1, <4>2, <4>3, <4>7 DEF BelongsTo
        <3>2. CASE ~h.online
            BY <3>2, <1>3, <2>3, <2>4, <2>6 DEF BelongsTo, SameLine
        <3>. QED
            BY <3>1, <3>2
    <2>. QED
        BY <2>5, <2>6, <2>7, <2>8
<1>. QED
    BY <1>2, <1>3

LEMMA LearnKeeps ==
    ASSUME NEW h, NEW said, NEW handed, NEW opened \in {0, 1}, Good(h, said, handed, opened),
           NEW m \in Announced, {m.conversation, m.owner} \subseteq said
    PROVE  Good(Learn(h, m), said, handed, opened) /\ Learn(h, m).disposed = h.disposed
<1>. DEFINE i == h.inherited
<1>1. h \in Hosts(i) /\ LineOK(h) /\ h.online = h.connected /\ BelongsTo(h, said, handed, opened)
    BY DEF Good, LineOK
<1>2. PICK c, o : c = OrElse(m.conversation, h.conversation) /\ o = OrElse(m.owner, h.owner)
    OBVIOUS
<1>3. c \in {m.conversation, h.conversation} /\ o \in {m.owner, h.owner}
    BY <1>2 DEF OrElse
<1>4. c \in Facts /\ o \in Facts
    <2>1. h.conversation \in Facts /\ h.owner \in Facts
        BY <1>1 DEF Hosts
    <2>2. m.conversation \in Facts /\ m.owner \in Facts
        BY DEF Facts
    <2>. QED
        BY <1>3, <2>1, <2>2
<1>5. PICK e : e = [h EXCEPT !.conversation = c, !.owner = o]
    OBVIOUS
<1>6. e = Evidence(h, m)
    BY <1>1, <1>2, <1>5 DEF Evidence, Hosts
<1>7. e \in Hosts(i) /\ e.inherited = i
    BY <1>1, <1>4, <1>5 DEF Hosts
<1>8. /\ e.socket = h.socket /\ e.dialing = h.dialing /\ e.connected = h.connected
      /\ e.running = h.running /\ e.disposed = h.disposed /\ e.online = h.online
    BY <1>1, <1>5 DEF Hosts
<1>9. /\ e.capability = h.capability /\ e.pending = h.pending /\ e.attempts = h.attempts
      /\ e.tried = h.tried /\ e.conversation = c /\ e.owner = o
    BY <1>1, <1>5 DEF Hosts
<1>10. LineOK(e)
    BY <1>1, <1>7, <1>8 DEF LineOK
<1>11. BelongsTo(e, said, handed, opened)
    <2>1. e.online => {e.conversation, e.owner} \subseteq said
        BY <1>1, <1>3, <1>8, <1>9 DEF BelongsTo
    <2>. QED
        BY <1>1, <1>8, <1>9, <2>1 DEF BelongsTo
<1>12. CASE Learn(h, m) = h
    BY <1>12
<1>13. CASE Learn(h, m) = Notify(e)
    <2>1. PICK g : g = Notify(e)
        OBVIOUS
    <2>2. LineOK(g) /\ SameLine(e, g) /\ BelongsTo(g, said, handed, opened)
        BY <1>10, <1>11, <2>1, NotifyKeeps
    <2>. QED
        BY <1>1, <1>8, <1>13, <2>1, <2>2 DEF SameLine, Good
<1>. QED
    BY <1>6, <1>12, <1>13 DEF Learn

LEMMA OfflineKeeps ==
    ASSUME NEW h, NEW said, NEW handed, NEW opened \in {0, 1}, LineOK(h), h.online, ~h.disposed
    PROVE  LET g == GoOffline(h) IN
           /\ LineOK(g) /\ BelongsTo(g, said, handed, opened) /\ ~g.online
           /\ g.running = h.running /\ g.socket = h.socket /\ g.dialing = h.dialing
           /\ g.connected = h.connected /\ g.disposed = h.disposed /\ g.inherited = h.inherited
<1>. DEFINE i == h.inherited
<1>1. h \in Hosts(i)
    BY DEF LineOK
<1>2. PICK e : e = [h EXCEPT !.conversation = Nil, !.owner = Nil, !.online = FALSE]
    OBVIOUS
<1>3. e \in Hosts(i) /\ e.inherited = i
    BY <1>1, <1>2 DEF Hosts, Facts
<1>4. /\ e.running = h.running /\ e.socket = h.socket /\ e.dialing = h.dialing
      /\ e.connected = h.connected /\ e.disposed = h.disposed /\ ~e.online
    BY <1>1, <1>2 DEF Hosts
<1>5. LineOK(e)
    BY <1>3, <1>4 DEF LineOK
<1>6. PICK g : g = Notify(e)
    OBVIOUS
<1>7. g = GoOffline(h)
    BY <1>1, <1>2, <1>6 DEF GoOffline, Forget, Hosts
<1>8. LineOK(g) /\ SameLine(e, g) /\ BelongsTo(g, said, handed, opened)
    BY <1>4, <1>5, <1>6, NotifyKeeps
<1>. QED
    BY <1>3, <1>4, <1>7, <1>8 DEF SameLine

LEMMA DisconnectKeeps ==
    ASSUME NEW h, NEW said, NEW handed, NEW opened \in {0, 1}, Good(h, said, handed, opened), NEW s
    PROVE  LET g == Disconnect(h, s) IN
           /\ Good(g, said, handed, opened) /\ g.disposed = h.disposed
           /\ h.socket = s => ~g.connected
<1>. DEFINE i == h.inherited
<1>1. h \in Hosts(i) /\ LineOK(h) /\ h.online = h.connected /\ BelongsTo(h, said, handed, opened)
    BY DEF Good, LineOK
<1>2. CASE h.socket # s
    BY <1>2 DEF Disconnect
<1>3. CASE h.socket = s
    <2>1. PICK l : l = [h EXCEPT !.socket = Nil, !.dialing = FALSE, !.asked = FALSE, !.connected = FALSE]
        OBVIOUS
    <2>2. l \in Hosts(i) /\ l.inherited = i
        BY <1>1, <2>1 DEF Hosts
    <2>3. /\ l.running = h.running /\ l.disposed = h.disposed /\ ~l.dialing /\ ~l.connected
          /\ l.online = h.online
        BY <1>1, <2>1 DEF Hosts
    <2>4. /\ l.capability = h.capability /\ l.pending = h.pending /\ l.attempts = h.attempts
          /\ l.tried = h.tried /\ l.conversation = h.conversation /\ l.owner = h.owner
        BY <1>1, <2>1 DEF Hosts
    <2>5. LineOK(l) /\ BelongsTo(l, said, handed, opened)
        BY <1>1, <2>2, <2>3, <2>4 DEF LineOK, BelongsTo
    <2>6. PICK d : d = IF h.connected THEN GoOffline(l) ELSE l
        OBVIOUS
    <2>7. /\ LineOK(d) /\ BelongsTo(d, said, handed, opened)
          /\ ~d.online /\ ~d.connected /\ d.disposed = h.disposed
        <3>1. CASE h.connected
            <4>1. l.online /\ ~l.disposed
                BY <1>1, <2>3, <3>1 DEF LineOK
            <4>. QED
                BY <2>3, <2>5, <2>6, <3>1, <4>1, OfflineKeeps
        <3>2. CASE ~h.connected
            BY <1>1, <2>3, <2>5, <2>6, <3>2
        <3>. QED
            BY <3>1, <3>2
    <2>8. Disconnect(h, s) = ScheduleReconnect(d)
        BY <1>3, <2>1, <2>6 DEF Disconnect
    <2>9. PICK g : g = ScheduleReconnect(d)
        OBVIOUS
    <2>10. g = d \/ g = [d EXCEPT !.retry = TRUE]
        BY <2>9 DEF ScheduleReconnect
    <2>11. LineOK(g) /\ BelongsTo(g, said, handed, opened)
           /\ ~g.online /\ ~g.connected /\ g.disposed = h.disposed
        <3>1. CASE g = d
            BY <2>7, <3>1
        <3>2. CASE g = [d EXCEPT !.retry = TRUE]
            <4>1. d \in Hosts(d.inherited)
                BY <2>7 DEF LineOK
            <4>2. g \in Hosts(d.inherited) /\ g.inherited = d.inherited
                BY <3>2, <4>1 DEF Hosts
            <4>3. /\ g.running = d.running /\ g.disposed = d.disposed /\ g.dialing = d.dialing
                  /\ g.connected = d.connected /\ g.online = d.online /\ g.socket = d.socket
                BY <3>2, <4>1 DEF Hosts
            <4>4. /\ g.capability = d.capability /\ g.pending = d.pending /\ g.attempts = d.attempts
                  /\ g.tried = d.tried /\ g.conversation = d.conversation /\ g.owner = d.owner
                BY <3>2, <4>1 DEF Hosts
            <4>. QED
                BY <2>7, <4>2, <4>3, <4>4 DEF LineOK, BelongsTo
        <3>. QED
            BY <2>10, <3>1, <3>2
    <2>12. g.online \in BOOLEAN /\ g.connected \in BOOLEAN
        BY <2>11 DEF LineOK, Hosts
    <2>. QED
        BY <2>8, <2>9, <2>11, <2>12 DEF Good
<1>. QED
    BY <1>2, <1>3

LEMMA AskedDoesNotMatter ==
    ASSUME NEW h, NEW said, NEW handed, NEW opened, Good(h, said, handed, opened), NEW b \in BOOLEAN
    PROVE  LET g == [h EXCEPT !.asked = b] IN
           Good(g, said, handed, opened) /\ g.disposed = h.disposed /\ g.socket = h.socket
<1>. DEFINE i == h.inherited
<1>1. h \in Hosts(i) /\ LineOK(h) /\ h.online = h.connected /\ BelongsTo(h, said, handed, opened)
    BY DEF Good, LineOK
<1>2. PICK g : g = [h EXCEPT !.asked = b]
    OBVIOUS
<1>3. g \in Hosts(i) /\ g.inherited = i
    BY <1>1, <1>2 DEF Hosts
<1>4. /\ g.running = h.running /\ g.disposed = h.disposed /\ g.dialing = h.dialing
      /\ g.connected = h.connected /\ g.online = h.online /\ g.socket = h.socket
    BY <1>1, <1>2 DEF Hosts
<1>5. /\ g.capability = h.capability /\ g.pending = h.pending /\ g.attempts = h.attempts
      /\ g.tried = h.tried /\ g.conversation = h.conversation /\ g.owner = h.owner
    BY <1>1, <1>2 DEF Hosts
<1>. QED
    BY <1>1, <1>2, <1>3, <1>4, <1>5 DEF Good, LineOK, BelongsTo

LEMMA HandleKeeps ==
    ASSUME NEW h, NEW said, NEW handed, NEW opened \in {0, 1}, Good(h, said, handed, opened),
           NEW m \in Announced, {m.conversation, m.owner} \subseteq said, NEW s
    PROVE  Good(Handle(h, m, s), said, handed, opened) /\ Handle(h, m, s).disposed = h.disposed
<1>1. PICK u : u = [h EXCEPT !.asked = FALSE]
    OBVIOUS
<1>2. Good(u, said, handed, opened) /\ u.disposed = h.disposed
    BY <1>1, AskedDoesNotMatter
<1>3. Handle(h, m, s) \in {h, Disconnect(u, s), Learn(u, m), Learn(h, m)}
    BY <1>1 DEF Handle
<1>4. Good(Disconnect(u, s), said, handed, opened) /\ Disconnect(u, s).disposed = h.disposed
    BY <1>2, DisconnectKeeps
<1>5. Good(Learn(u, m), said, handed, opened) /\ Learn(u, m).disposed = h.disposed
    BY <1>2, LearnKeeps
<1>6. Good(Learn(h, m), said, handed, opened) /\ Learn(h, m).disposed = h.disposed
    BY LearnKeeps
<1>. QED
    BY <1>3, <1>4, <1>5, <1>6

\* The hosts after the frames of a chunk, one after the other.
Handling(h, chunk, f) ==
    /\ DOMAIN f = 0 .. Len(chunk) /\ f[0] = h
    /\ \A k \in 1 .. Len(chunk) : f[k] = Handle(f[k - 1], chunk[k], h.socket)

LEMMA HandlingExists ==
    ASSUME NEW h, NEW chunk \in Seq(Announced)
    PROVE  \E f : /\ f = [i \in 0 .. Len(chunk) |->
                            IF i = 0 THEN h ELSE Handle(f[i - 1], chunk[i], h.socket)]
                  /\ Handling(h, chunk, f)
<1>. DEFINE N == Len(chunk)
            Up(n, f) == /\ f = [i \in 0 .. N |-> f[i]] /\ f[0] = h
                        /\ \A k \in 1 .. n : f[k] = Handle(f[k - 1], chunk[k], h.socket)
            B == {n \in 0 .. N : ~ \E f : Up(n, f)}
<1>1. N \in Nat
    OBVIOUS
<1>2. ASSUME B # {} PROVE FALSE
    <2>0. PICK e : e \in B
        BY <1>2
    <2>1. B \in SUBSET Nat
        BY <1>1
    <2>2. PICK n \in B : \A m \in B : n <= m
        <3>. HIDE DEF B
        <3>. QED
            BY <2>0, <2>1, LeastOfSome
    <2>3. n \in 0 .. N /\ ~ \E f : Up(n, f)
        BY <2>2
    <2>4. CASE n = 0
        <3>1. Up(0, [i \in 0 .. N |-> h])
            BY <1>1
        <3>. QED
            BY <2>3, <2>4, <3>1
    <2>5. CASE n # 0
        <3>1. n - 1 \in 0 .. N /\ ~ (n <= n - 1)
            BY <1>1, <2>3, <2>5
        <3>2. PICK f : Up(n - 1, f)
            BY <2>2, <3>1
        <3>3. PICK v : v = Handle(f[n - 1], chunk[n], h.socket)
            OBVIOUS
        <3>4. PICK g : g = [i \in 0 .. N |-> IF i = n THEN v ELSE f[i]]
            OBVIOUS
        <3>5. g[n] = v /\ \A i \in 0 .. N : i # n => g[i] = f[i]
            BY <2>3, <3>4
        <3>6. g = [i \in 0 .. N |-> g[i]] /\ g[0] = h
            BY <1>1, <2>5, <3>2, <3>4, <3>5
        <3>7. ASSUME NEW k \in 1 .. n PROVE g[k] = Handle(g[k - 1], chunk[k], h.socket)
            <4>1. g[k - 1] = f[k - 1]
                BY <1>1, <2>3, <3>5
            <4>2. CASE k = n
                BY <3>3, <3>5, <4>1, <4>2
            <4>3. CASE k # n
                <5>1. k \in 1 .. n - 1 /\ k \in 0 .. N
                    BY <1>1, <2>3, <4>3
                <5>2. f[k] = Handle(f[k - 1], chunk[k], h.socket)
                    BY <3>2, <5>1
                <5>3. g[k] = f[k]
                    BY <3>5, <4>3, <5>1
                <5>. QED
                    BY <4>1, <5>2, <5>3
            <4>. QED
                BY <4>2, <4>3
        <3>. QED
            BY <2>3, <3>6, <3>7
    <2>. QED
        BY <2>4, <2>5
<1>3. PICK f : Up(N, f)
    BY <1>1, <1>2
<1>4. f = [i \in 0 .. N |-> IF i = 0 THEN h ELSE Handle(f[i - 1], chunk[i], h.socket)]
    <2>1. ASSUME NEW i \in 0 .. N
          PROVE f[i] = IF i = 0 THEN h ELSE Handle(f[i - 1], chunk[i], h.socket)
        <3>1. i = 0 \/ i \in 1 .. N
            BY <1>1
        <3>. QED
            BY <1>3, <3>1
    <2>. QED
        BY <1>3, <2>1
<1>. QED
    BY <1>1, <1>3, <1>4 DEF Handling

LEMMA ChunkIsHandled ==
    ASSUME NEW h, NEW chunk \in Seq(Announced)
    PROVE  \/ HandleData(h, chunk) = h
           \/ \E f : Handling(h, chunk, f) /\ HandleData(h, chunk) = f[Len(chunk)]
<1>1. PICK f : f = CHOOSE g : g = [i \in 0 .. Len(chunk) |->
                                     IF i = 0 THEN h ELSE Handle(g[i - 1], chunk[i], h.socket)]
    OBVIOUS
<1>2. f = [i \in 0 .. Len(chunk) |-> IF i = 0 THEN h ELSE Handle(f[i - 1], chunk[i], h.socket)]
    <2>. DEFINE Is(g) == g = [i \in 0 .. Len(chunk) |->
                                IF i = 0 THEN h ELSE Handle(g[i - 1], chunk[i], h.socket)]
    <2>1. PICK g : Is(g)
        BY HandlingExists
    <2>2. f = CHOOSE u : Is(u)
        BY <1>1
    <2>. HIDE DEF Is
    <2>3. Is(f)
        BY <2>1, <2>2
    <2>. QED
        BY <2>3 DEF Is
<1>3. Handling(h, chunk, f)
    BY <1>2 DEF Handling
<1>4. HandleData(h, chunk) = IF \E i \in DOMAIN chunk : chunk[i].kind = "torn" THEN h ELSE f[Len(chunk)]
    BY <1>1 DEF HandleData
<1>. QED
    BY <1>3, <1>4

LEMMA HandleDataKeeps ==
    ASSUME NEW h, NEW said, NEW handed, NEW opened \in {0, 1}, Good(h, said, handed, opened),
           NEW chunk \in Seq(Announced),
           \A k \in 1 .. Len(chunk) : {chunk[k].conversation, chunk[k].owner} \subseteq said
    PROVE  LET g == HandleData(h, chunk) IN
           Good(g, said, handed, opened) /\ g.disposed = h.disposed
<1>. DEFINE N == Len(chunk)
            Holds(g) == Good(g, said, handed, opened) /\ g.disposed = h.disposed
<1>1. N \in Nat
    OBVIOUS
<1>2. CASE HandleData(h, chunk) = h
    BY <1>2
<1>3. ASSUME NEW f, Handling(h, chunk, f)
      PROVE  Holds(f[N])
    <2>. DEFINE B == {n \in 0 .. N : ~ Holds(f[n])}
    <2>1. ASSUME NEW e \in B PROVE FALSE
        <3>1. B \in SUBSET Nat
            BY <1>1
        <3>2. PICK n \in B : \A m \in B : n <= m
            <4>. HIDE DEF B
            <4>. QED
                BY <2>1, <3>1, LeastOfSome
        <3>3. n \in 0 .. N /\ ~ Holds(f[n])
            BY <3>2
        <3>4. n # 0
            BY <1>3, <3>3 DEF Handling
        <3>5. n - 1 \in 0 .. N /\ ~ (n <= n - 1) /\ n \in 1 .. N
            BY <1>1, <3>3, <3>4
        <3>6. Holds(f[n - 1])
            BY <3>2, <3>5
        <3>7. f[n] = Handle(f[n - 1], chunk[n], h.socket)
            BY <1>3, <3>5 DEF Handling
        <3>8. chunk[n] \in Announced
            BY <3>5
        <3>9. Holds(Handle(f[n - 1], chunk[n], h.socket))
            BY <3>5, <3>6, <3>8, HandleKeeps
        <3>. QED
            BY <3>3, <3>7, <3>9
    <2>. QED
        BY <1>1, <2>1
<1>. QED
    BY <1>2, <1>3, ChunkIsHandled

LEMMA WireKeeps ==
    ASSUME WireOK, NEW o \in SUBSET Sockets, NEW b \in Seq(Announced), NEW p,
           \A k \in 1 .. Len(b) : {b[k].conversation, b[k].owner} \subseteq wire.said,
           wire' = [wire EXCEPT !.old = o, !.inbox = b, !.posts = p]
    PROVE  WireOK' /\ wire'.said = wire.said /\ wire'.handed = wire.handed /\ wire'.opened = wire.opened
<1>1. wire' \in Wires(p) /\ wire'.posts = p
    BY DEF WireOK, Wires
<1>2. wire'.said = wire.said /\ wire'.inbox = b
    BY DEF WireOK, Wires
<1>3. wire'.handed = wire.handed /\ wire'.opened = wire.opened
    BY DEF WireOK, Wires
<1>. QED
    BY <1>1, <1>2, <1>3 DEF WireOK

LEMMA EmptiedKeeps ==
    ASSUME WireOK, NEW o \in SUBSET Sockets, NEW p, wire' = [wire EXCEPT !.old = o, !.inbox = <<>>, !.posts = p]
    PROVE  WireOK' /\ wire'.said = wire.said /\ wire'.handed = wire.handed /\ wire'.opened = wire.opened
<1>1. PICK b : b = <<>>
    OBVIOUS
<1>2. b \in Seq(Announced) /\ 1 .. Len(b) = {}
    BY <1>1
<1>3. wire' = [wire EXCEPT !.old = o, !.inbox = b, !.posts = p]
    BY <1>1
<1>. QED
    BY <1>2, <1>3, WireKeeps

LEMMA WireIs ==
    ASSUME WireOK
    PROVE  /\ wire.old \in SUBSET Sockets /\ wire.inbox \in Seq(Announced) /\ wire.said \in SUBSET Facts
           /\ wire.handed \in SUBSET Pipes /\ wire.opened \in {0, 1}
           /\ wire = [wire EXCEPT !.old = wire.old, !.inbox = wire.inbox, !.posts = wire.posts]
           /\ <<>> \in Seq(Announced) /\ Len(<<>>) = 0
           /\ \A k \in 1 .. Len(wire.inbox) :
                {wire.inbox[k].conversation, wire.inbox[k].owner} \subseteq wire.said
<1>1. wire \in Wires(wire.posts)
    BY DEF WireOK
<1>2. wire = [wire EXCEPT !.old = wire.old, !.inbox = wire.inbox, !.posts = wire.posts]
    BY <1>1 DEF Wires
<1>. QED
    BY <1>1, <1>2 DEF Wires, WireOK

\* The fields that what belongs to a connection is about.
Alike(h, g) ==
    /\ g.online = h.online /\ g.conversation = h.conversation /\ g.owner = h.owner
    /\ g.capability = h.capability /\ g.pending = h.pending
    /\ g.attempts = h.attempts /\ g.tried = h.tried

LEMMA AlikeBelongs ==
    ASSUME NEW h, NEW g, NEW said, NEW handed, NEW opened, BelongsTo(h, said, handed, opened), Alike(h, g)
    PROVE  BelongsTo(g, said, handed, opened)
BY DEF BelongsTo, Alike

LEMMA ConnectKeeps ==
    ASSUME NEW h, NEW said, NEW handed, NEW opened, Good(h, said, handed, opened),
           NEW old \in SUBSET Sockets, old # Sockets
    PROVE  Good(Connect(h, old), said, handed, opened)
<1>1. h \in Hosts(h.inherited) /\ LineOK(h) /\ h.online = h.connected /\ BelongsTo(h, said, handed, opened)
    BY DEF Good, LineOK
<1>2. PICK s : s = FreeSocket(old)
    OBVIOUS
<1>3. s \in Sockets /\ s # Nil
    BY <1>2, DesktopAssumption DEF FreeSocket
<1>4. CASE Connect(h, old) = h
    BY <1>4
<1>5. CASE h.running /\ h.socket = Nil /\ Connect(h, old) = [h EXCEPT !.socket = s, !.dialing = TRUE]
    <2>1. PICK g : g = [h EXCEPT !.socket = s, !.dialing = TRUE]
        OBVIOUS
    <2>2. g \in Hosts(h.inherited) /\ g.inherited = h.inherited
        BY <1>1, <1>3, <2>1 DEF Hosts
    <2>3. /\ g.running = h.running /\ g.disposed = h.disposed /\ g.dialing
          /\ g.connected = h.connected /\ g.socket = s
        BY <1>1, <2>1 DEF Hosts
    <2>4. Alike(h, g)
        BY <1>1, <2>1 DEF Hosts, Alike
    <2>5. LineOK(g)
        BY <1>1, <1>3, <1>5, <2>2, <2>3 DEF LineOK
    <2>6. g.online = g.connected
        BY <1>1, <2>3, <2>4 DEF Alike
    <2>. QED
        BY <1>1, <1>5, <2>1, <2>4, <2>5, <2>6, AlikeBelongs DEF Good
<1>. QED
    BY <1>2, <1>4, <1>5 DEF Connect

LEMMA RetryDoesNotMatter ==
    ASSUME NEW h, NEW said, NEW handed, NEW opened, Good(h, said, handed, opened), NEW b \in BOOLEAN
    PROVE  Good([h EXCEPT !.retry = b], said, handed, opened)
<1>1. h \in Hosts(h.inherited) /\ LineOK(h) /\ h.online = h.connected /\ BelongsTo(h, said, handed, opened)
    BY DEF Good, LineOK
<1>2. PICK g : g = [h EXCEPT !.retry = b]
    OBVIOUS
<1>3. g \in Hosts(h.inherited) /\ g.inherited = h.inherited
    BY <1>1, <1>2 DEF Hosts
<1>4. /\ g.running = h.running /\ g.disposed = h.disposed /\ g.dialing = h.dialing
      /\ g.connected = h.connected /\ g.socket = h.socket
    BY <1>1, <1>2 DEF Hosts
<1>5. Alike(h, g)
    BY <1>1, <1>2 DEF Hosts, Alike
<1>6. LineOK(g) /\ g.online = g.connected
    BY <1>1, <1>3, <1>4, <1>5 DEF LineOK, Alike
<1>. QED
    BY <1>1, <1>2, <1>5, <1>6, AlikeBelongs DEF Good

LEMMA StartObserverKeeps == ASSUME LinkInv, StartObserver PROVE LinkInv'
<1>1. Good(host, wire.said, wire.handed, wire.opened) /\ host \in Hosts(host.inherited) /\ LineOK(host)
      /\ host.online = host.connected /\ BelongsTo(host, wire.said, wire.handed, wire.opened)
    BY DEF LinkInv, Good, LineOK
<1>2. PICK g : g = [host EXCEPT !.running = TRUE]
    OBVIOUS
<1>3. g \in Hosts(host.inherited) /\ g.inherited = host.inherited
    BY <1>1, <1>2 DEF Hosts
<1>4. /\ g.disposed = host.disposed /\ g.dialing = host.dialing
      /\ g.connected = host.connected /\ g.socket = host.socket
    BY <1>1, <1>2 DEF Hosts
<1>5. Alike(host, g)
    BY <1>1, <1>2 DEF Hosts, Alike
<1>6. LineOK(g) /\ g.online = g.connected
    BY <1>1, <1>3, <1>4, <1>5 DEF LineOK, Alike, StartObserver
<1>7. Good(g, wire.said, wire.handed, wire.opened)
    BY <1>1, <1>5, <1>6, AlikeBelongs DEF Good
<1>8. wire.old \in SUBSET Sockets /\ wire.old # Sockets
    BY DEF StartObserver, Sockets
<1>9. PICK n : n = Connect(g, wire.old)
    OBVIOUS
<1>10. Good(n, wire.said, wire.handed, wire.opened)
    BY <1>7, <1>8, <1>9, ConnectKeeps
<1>11. host' = n /\ wire' = wire
    BY <1>2, <1>9 DEF StartObserver
<1>. QED
    BY <1>10, <1>11 DEF LinkInv, WireOK

LEMMA ReconnectKeeps == ASSUME LinkInv, Reconnect PROVE LinkInv'
<1>1. Good(host, wire.said, wire.handed, wire.opened) /\ wire.old \in SUBSET Sockets
    BY WireIs DEF LinkInv
<1>2. PICK g : g = [host EXCEPT !.retry = FALSE]
    OBVIOUS
<1>3. Good(g, wire.said, wire.handed, wire.opened)
    BY <1>1, <1>2, RetryDoesNotMatter
<1>4. PICK n : n = Connect(g, wire.old)
    OBVIOUS
<1>5. Good(n, wire.said, wire.handed, wire.opened)
    BY <1>1, <1>3, <1>4, ConnectKeeps DEF Reconnect
<1>6. host' = n /\ wire' = wire
    BY <1>2, <1>4 DEF Reconnect
<1>. QED
    BY <1>5, <1>6 DEF LinkInv, WireOK

LEMMA StopObserverKeeps == ASSUME LinkInv, StopObserver PROVE LinkInv'
<1>1. Good(host, wire.said, wire.handed, wire.opened) /\ host \in Hosts(host.inherited) /\ WireOK
    BY DEF LinkInv, Good, LineOK
<1>2. PICK s \in SUBSET {"current", "stale"} :
        "current" \notin s /\ NextGeneration(host) = [host EXCEPT !.attempts = s]
    BY <1>1 DEF NextGeneration, Hosts
<1>3. PICK g : g = [host EXCEPT !.attempts = s, !.pending = Nil, !.conversation = Nil, !.owner = Nil,
                       !.disposed = TRUE, !.capability = Nil, !.running = FALSE, !.retry = FALSE,
                       !.dialing = FALSE, !.asked = FALSE, !.socket = Nil, !.connected = FALSE, !.online = FALSE]
    OBVIOUS
<1>4. host' = g
    BY <1>1, <1>2, <1>3 DEF StopObserver, Forget, Discard, Hosts
<1>5. g \in Hosts(host.inherited) /\ g.inherited = host.inherited
    <2>1. Nil \in Facts /\ Nil \in Capabilities \cup {Nil} /\ Nil \in Sockets \cup {Nil}
          /\ Nil \in [pipe : Pipes, late : BOOLEAN] \cup {Nil}
        BY DEF Facts
    <2>. QED
        BY <1>1, <1>3, <2>1 DEF Hosts
<1>6. /\ g.disposed /\ ~g.running /\ ~g.dialing /\ g.connected = FALSE /\ g.online = FALSE
      /\ g.capability = Nil /\ g.pending = Nil /\ g.attempts = s
    BY <1>1, <1>3 DEF Hosts
<1>7. LineOK(g)
    BY <1>5, <1>6 DEF LineOK
<1>8. PICK o : o = IF host.socket = Nil THEN wire.old ELSE wire.old \cup {host.socket}
    OBVIOUS
<1>9. o \in SUBSET Sockets
    <2>1. host.socket \in Sockets \cup {Nil}
        BY <1>1 DEF Hosts
    <2>. QED
        BY <1>1, <1>8, <2>1, WireIs
<1>10. wire' = [wire EXCEPT !.old = o, !.inbox = <<>>, !.posts = {}]
    BY <1>8 DEF StopObserver
<1>11. WireOK' /\ wire'.said = wire.said /\ wire'.handed = wire.handed /\ wire'.opened = wire.opened
    BY <1>1, <1>9, <1>10, EmptiedKeeps
<1>12. BelongsTo(g, wire'.said, wire'.handed, wire'.opened)
    BY <1>2, <1>6 DEF BelongsTo
<1>. QED
    BY <1>4, <1>6, <1>7, <1>11, <1>12 DEF LinkInv, Good

LEMMA ConnectedKeeps == ASSUME LinkInv, Connected PROVE LinkInv'
<1>1. WireOK /\ host \in Hosts(host.inherited) /\ LineOK(host)
      /\ host.online = host.connected /\ BelongsTo(host, wire.said, wire.handed, wire.opened)
    BY DEF LinkInv, Good, LineOK
<1>2. host.dialing /\ ~host.connected /\ ~host.online /\ ~host.disposed /\ host.socket # Nil
    BY <1>1 DEF LineOK, Connected
<1>3. host.capability = Nil /\ host.pending = Nil /\ "current" \notin host.attempts
    BY <1>1, <1>2 DEF BelongsTo
<1>4. PICK e : e = [host EXCEPT !.dialing = FALSE, !.connected = TRUE, !.conversation = Nil, !.owner = Nil,
                       !.online = TRUE]
    OBVIOUS
<1>5. e \in Hosts(host.inherited) /\ e.inherited = host.inherited
    BY <1>1, <1>4 DEF Hosts, Facts
<1>6. /\ e.dialing = FALSE /\ e.connected = TRUE /\ e.online = TRUE /\ e.socket = host.socket
      /\ e.disposed = host.disposed
    BY <1>1, <1>4 DEF Hosts
<1>7. /\ e.conversation = Nil /\ e.owner = Nil
      /\ e.capability = host.capability /\ e.pending = host.pending /\ e.attempts = host.attempts
    BY <1>1, <1>4 DEF Hosts
<1>8. LineOK(e)
    BY <1>2, <1>5, <1>6 DEF LineOK
<1>9. BelongsTo(e, {Nil}, {}, 0)
    BY <1>3, <1>6, <1>7 DEF BelongsTo
<1>10. PICK n : n = Notify(e)
    OBVIOUS
<1>11. LineOK(n) /\ SameLine(e, n) /\ BelongsTo(n, {Nil}, {}, 0)
    BY <1>8, <1>9, <1>10, NotifyKeeps
<1>12. Good(n, {Nil}, {}, 0)
    BY <1>6, <1>11 DEF Good, SameLine
<1>13. GoOnline([host EXCEPT !.dialing = FALSE, !.connected = TRUE]) = n
    BY <1>1, <1>2, <1>4, <1>10 DEF GoOnline, Forget, Hosts
<1>14. host' = [n EXCEPT !.asked = TRUE]
    BY <1>13 DEF Connected
<1>15. Good(host', {Nil}, {}, 0)
    BY <1>12, <1>14, AskedDoesNotMatter
<1>16. wire' = [wire EXCEPT !.inbox = <<>>, !.said = {Nil}, !.handed = {}, !.opened = 0]
    BY DEF Connected
<1>17. wire \in Wires(wire.posts)
    BY <1>1 DEF WireOK
<1>18. wire' \in Wires(wire.posts) /\ wire'.posts = wire.posts
    <2>1. {Nil} \in SUBSET Facts
        BY DEF Facts
    <2>2. <<>> \in Seq(Announced)
        OBVIOUS
    <2>. QED
        BY <1>16, <1>17, <2>1, <2>2 DEF Wires
<1>19. wire'.inbox = <<>> /\ wire'.said = {Nil} /\ wire'.handed = {} /\ wire'.opened = 0
    BY <1>16, <1>17 DEF Wires
<1>. QED
    BY <1>15, <1>18, <1>19 DEF LinkInv, WireOK

LEMMA LosesLineKeeps ==
    ASSUME LinkInv, NEW closing \in BOOLEAN, LosesLine(closing), host.socket # Nil
    PROVE  LinkInv'
<1>1. WireOK /\ Good(host, wire.said, wire.handed, wire.opened) /\ host \in Hosts(host.inherited)
    BY DEF LinkInv, Good, LineOK
<1>2. PICK o : o = IF closing THEN wire.old \cup {host.socket} ELSE wire.old
    OBVIOUS
<1>3. o \in SUBSET Sockets
    <2>1. host.socket \in Sockets \cup {Nil}
        BY <1>1 DEF Hosts
    <2>. QED
        BY <1>1, <1>2, <2>1, WireIs
<1>4. wire' = [wire EXCEPT !.old = o, !.inbox = <<>>]
    BY <1>2 DEF LosesLine
<1>5. wire' = [wire EXCEPT !.old = o, !.inbox = <<>>, !.posts = wire.posts]
    BY <1>1, <1>4 DEF WireOK, Wires
<1>6. WireOK' /\ wire'.said = wire.said /\ wire'.handed = wire.handed /\ wire'.opened = wire.opened
    BY <1>1, <1>3, <1>5, EmptiedKeeps
<1>7. Good(host', wire.said, wire.handed, wire.opened)
    BY <1>1, DisconnectKeeps, WireIs DEF LosesLine
<1>. QED
    BY <1>6, <1>7 DEF LinkInv

LEMMA LineGoneKeeps == ASSUME LinkInv, Drops \/ DesktopGone PROVE LinkInv'
<1>1. PICK closing \in BOOLEAN : (host.dialing \/ host.connected) /\ LosesLine(closing)
    BY DEF Drops, DesktopGone, DialFails, LineEnds
<1>2. host.socket # Nil
    BY <1>1 DEF LinkInv, Good, LineOK
<1>. QED
    BY <1>1, <1>2, LosesLineKeeps

LEMMA OldClosesKeeps == ASSUME LinkInv, NEW s \in Sockets, OldCloses(s) PROVE LinkInv'
<1>1. WireOK /\ Good(host, wire.said, wire.handed, wire.opened)
    BY DEF LinkInv
<1>2. PICK o : o = wire.old \ {s}
    OBVIOUS
<1>3. wire' = [wire EXCEPT !.old = o]
    BY <1>2 DEF OldCloses
<1>4. wire' = [wire EXCEPT !.old = o, !.inbox = wire.inbox, !.posts = wire.posts]
    <2>1. wire \in Wires(wire.posts)
        BY <1>1 DEF WireOK
    <2>. QED
        BY <1>3, <2>1 DEF Wires
<1>5. o \in SUBSET Sockets
    BY <1>1, <1>2, WireIs
<1>6. WireOK' /\ wire'.said = wire.said /\ wire'.handed = wire.handed /\ wire'.opened = wire.opened
    BY <1>1, <1>4, <1>5, WireKeeps, WireIs
<1>7. Good(host', wire.said, wire.handed, wire.opened)
    BY <1>1, DisconnectKeeps, WireIs DEF OldCloses
<1>. QED
    BY <1>6, <1>7 DEF LinkInv

LEMMA ReceiveDataKeeps == ASSUME LinkInv, ReceiveData PROVE LinkInv'
<1>1. WireOK /\ Good(host, wire.said, wire.handed, wire.opened) /\ host \in Hosts(host.inherited) /\ host.connected
      /\ host.socket # Nil
    BY DEF LinkInv, Good, LineOK, ReceiveData
<1>2. PICK n \in 1 .. Len(wire.inbox) :
        /\ host' = HandleData(host, SubSeq(wire.inbox, 1, n))
        /\ wire' = [wire EXCEPT
             !.inbox = IF host'.connected THEN SubSeq(wire.inbox, n + 1, Len(wire.inbox)) ELSE <<>>,
             !.old = IF host'.connected THEN wire.old ELSE wire.old \cup {host.socket}]
    BY DEF ReceiveData
<1>3. PICK b : b = wire.inbox
    OBVIOUS
<1>4. /\ b \in Seq(Announced)
      /\ \A k \in 1 .. Len(b) : {b[k].conversation, b[k].owner} \subseteq wire.said
    BY <1>1, <1>3, WireIs
<1>5. PICK c : c = SubSeq(b, 1, n)
    OBVIOUS
<1>6. n \in 1 .. Len(b) /\ n \in Nat /\ Len(b) \in Nat
    BY <1>2, <1>3, <1>4
<1>7. c \in Seq(Announced) /\ Len(c) = n /\ \A k \in 1 .. n : c[k] = b[k]
    BY <1>4, <1>5, <1>6
<1>8. \A k \in 1 .. Len(c) : {c[k].conversation, c[k].owner} \subseteq wire.said
    BY <1>4, <1>6, <1>7
<1>9. Good(host', wire.said, wire.handed, wire.opened)
    <2>1. wire.opened \in {0, 1}
        BY <1>1, WireIs
    <2>2. PICK g : g = HandleData(host, c)
        OBVIOUS
    <2>3. Good(g, wire.said, wire.handed, wire.opened)
        BY <1>1, <1>7, <1>8, <2>1, <2>2, HandleDataKeeps
    <2>4. host' = g
        BY <1>2, <1>3, <1>5, <2>2
    <2>. QED
        BY <2>3, <2>4
<1>10. PICK r : r = SubSeq(b, n + 1, Len(b))
    OBVIOUS
<1>11. r \in Seq(Announced) /\ \A k \in 1 .. Len(r) : {r[k].conversation, r[k].owner} \subseteq wire.said
    <2>1. r \in Seq(Announced) /\ Len(r) = Len(b) - n
        BY <1>4, <1>6, <1>10
    <2>2. ASSUME NEW k \in 1 .. Len(r) PROVE r[k] = b[n + k] /\ n + k \in 1 .. Len(b)
        BY <1>4, <1>6, <1>10, <2>1
    <2>. QED
        BY <1>4, <2>1, <2>2
<1>12. PICK i : i = IF host'.connected THEN r ELSE <<>>
    OBVIOUS
<1>13. PICK o : o = IF host'.connected THEN wire.old ELSE wire.old \cup {host.socket}
    OBVIOUS
<1>14. i \in Seq(Announced) /\ \A k \in 1 .. Len(i) : {i[k].conversation, i[k].owner} \subseteq wire.said
    BY <1>1, <1>11, <1>12, WireIs
<1>15. o \in SUBSET Sockets
    <2>1. host.socket \in Sockets \cup {Nil}
        BY <1>1 DEF Hosts
    <2>. QED
        BY <1>1, <1>13, <2>1, WireIs
<1>16. wire' = [wire EXCEPT !.inbox = i, !.old = o]
    BY <1>2, <1>3, <1>10, <1>12, <1>13
<1>17. wire' = [wire EXCEPT !.old = o, !.inbox = i, !.posts = wire.posts]
    BY <1>1, <1>16 DEF WireOK, Wires
<1>18. WireOK' /\ wire'.said = wire.said /\ wire'.handed = wire.handed /\ wire'.opened = wire.opened
    BY <1>1, <1>14, <1>15, <1>17, WireKeeps
<1>. QED
    BY <1>9, <1>18 DEF LinkInv

LEMMA TakeHandoffKeeps == ASSUME LinkInv, NEW p \in Pipes, TakeHandoff(p) PROVE LinkInv'
<1>1. WireOK /\ host \in Hosts(host.inherited) /\ LineOK(host)
      /\ host.online = host.connected /\ BelongsTo(host, wire.said, wire.handed, wire.opened)
    BY DEF LinkInv, Good, LineOK
<1>2. wire.opened \in {0, 1} /\ wire.handed \in SUBSET Pipes
    BY <1>1, WireIs
<1>3. PICK t : t = IF host.online THEN wire.handed \cup {p} ELSE wire.handed
    OBVIOUS
<1>4. BelongsTo(host, wire.said, t, wire.opened)
    BY <1>1, <1>3 DEF BelongsTo
<1>5. wire' = [wire EXCEPT !.posts = wire.posts \ {p}, !.handed = t]
    BY <1>3 DEF TakeHandoff
<1>6. PICK q : q = wire.posts \ {p}
    OBVIOUS
<1>7. wire \in Wires(wire.posts) /\ t \in SUBSET Pipes
    BY <1>1, <1>2, <1>3 DEF WireOK
<1>8. wire' \in Wires(q) /\ wire'.posts = q
    BY <1>5, <1>6, <1>7 DEF Wires
<1>9. wire'.inbox = wire.inbox /\ wire'.said = wire.said /\ wire'.handed = t /\ wire'.opened = wire.opened
    BY <1>5, <1>7 DEF Wires
<1>10. WireOK'
    BY <1>1, <1>8, <1>9 DEF WireOK
<1>11. Good(host', wire.said, t, wire.opened)
    <2>1. CASE host' = host
        BY <1>1, <1>4, <2>1 DEF Good
    <2>2. CASE host.online /\ host' = Accept(host, p)
        <3>1. host.owner \in Facts
            BY <1>1 DEF Hosts
        <3>2. PICK c : c = [pipe |-> p, owner |-> host.owner]
            OBVIOUS
        <3>3. c \in Capabilities /\ c.pipe = p
            BY <3>1, <3>2 DEF Capabilities
        <3>4. PICK g : g = [host EXCEPT !.pending = Nil, !.capability = c, !.accepted = TRUE]
            OBVIOUS
        <3>5. host' = g
            BY <1>1, <2>2, <3>2, <3>4 DEF Accept, Discard, Hosts
        <3>6. g \in Hosts(host.inherited) /\ g.inherited = host.inherited
            BY <1>1, <3>3, <3>4 DEF Hosts
        <3>7. SameLine(host, g)
            BY <1>1, <3>4 DEF Hosts, SameLine
        <3>8. g.capability = c /\ g.pending = Nil /\ g.attempts = host.attempts /\ g.tried = host.tried
            BY <1>1, <3>4 DEF Hosts
        <3>9. LineOK(g) /\ g.online = g.connected
            BY <1>1, <3>6, <3>7 DEF LineOK, SameLine
        <3>10. p \in t /\ g.online
            BY <1>3, <2>2, <3>7 DEF SameLine
        <3>11. BelongsTo(g, wire.said, t, wire.opened)
            BY <1>4, <3>3, <3>7, <3>8, <3>10 DEF BelongsTo, SameLine
        <3>. QED
            BY <3>5, <3>9, <3>11 DEF Good
    <2>3. CASE host.online /\ host' = Stage(host, p) /\ host' # host
        <3>1. PICK w : w = [pipe |-> p, late |-> FALSE]
            OBVIOUS
        <3>2. w \in [pipe : Pipes, late : BOOLEAN] /\ w.pipe = p
            BY <3>1
        <3>3. PICK e : e = [host EXCEPT !.capability = Nil, !.pending = w]
            OBVIOUS
        <3>4. e \in Hosts(host.inherited) /\ e.inherited = host.inherited
            BY <1>1, <3>2, <3>3 DEF Hosts
        <3>5. SameLine(host, e)
            BY <1>1, <3>3 DEF Hosts, SameLine
        <3>6. e.capability = Nil /\ e.pending = w /\ e.attempts = host.attempts /\ e.tried = host.tried
            BY <1>1, <3>3 DEF Hosts
        <3>7. LineOK(e) /\ e.online = e.connected
            BY <1>1, <3>4, <3>5 DEF LineOK, SameLine
        <3>8. p \in t /\ e.online
            BY <1>3, <2>3, <3>5 DEF SameLine
        <3>9. PICK g : g = ObserveActivation(e)
            OBVIOUS
        <3>10. host' = g
            BY <2>3, <3>1, <3>3, <3>9 DEF Stage
        <3>11. /\ g \in Hosts(host.inherited) /\ SameLine(e, g)
               /\ g.capability = e.capability /\ g.pending = e.pending
               /\ \/ "current" \notin g.attempts /\ (g.tried \/ g.tried = e.tried)
                  \/ g.tried = e.tried /\ g.attempts = e.attempts
                  \/ ~e.tried /\ g.tried
            BY <3>4, <3>8, <3>9, ActivationMoves
        <3>12. LineOK(g) /\ g.online = g.connected
            BY <3>7, <3>4, <3>11 DEF LineOK, SameLine
        <3>13. /\ "current" \in host.attempts => host.tried /\ wire.opened = 0
               /\ wire.opened = 1 => host.tried
            BY <1>4, <2>3 DEF BelongsTo
        <3>14. g.tried \in BOOLEAN /\ e.tried \in BOOLEAN
            BY <3>4, <3>11 DEF Hosts
        <3>15. /\ "current" \in g.attempts => g.tried /\ wire.opened = 0
               /\ wire.opened = 1 => g.tried
            BY <1>2, <3>6, <3>11, <3>13, <3>14
        <3>16. {g.conversation, g.owner} \subseteq wire.said /\ g.online
            BY <1>4, <2>3, <3>5, <3>11 DEF BelongsTo, SameLine
        <3>17. g.capability = Nil /\ g.pending.pipe \in t
            BY <3>2, <3>6, <3>8, <3>11
        <3>18. BelongsTo(g, wire.said, t, wire.opened)
            BY <3>15, <3>16, <3>17 DEF BelongsTo
        <3>. QED
            BY <3>10, <3>12, <3>18 DEF Good
    <2>. QED
        BY <2>1, <2>2, <2>3 DEF TakeHandoff
<1>. QED
    BY <1>9, <1>10, <1>11 DEF LinkInv

LEMMA PendingKeeps == ASSUME LinkInv, TimePasses \/ PendingExpires PROVE LinkInv'
<1>1. WireOK /\ host \in Hosts(host.inherited) /\ LineOK(host)
      /\ host.online = host.connected /\ BelongsTo(host, wire.said, wire.handed, wire.opened)
    BY DEF LinkInv, Good, LineOK
<1>2. wire' = wire /\ host.pending # Nil
    BY DEF TimePasses, PendingExpires
<1>3. PICK w : w = IF TimePasses THEN [host.pending EXCEPT !.late = TRUE] ELSE Nil
    OBVIOUS
<1>4. host.pending \in [pipe : Pipes, late : BOOLEAN]
    BY <1>1, <1>2 DEF Hosts
<1>5. /\ w \in [pipe : Pipes, late : BOOLEAN] \cup {Nil}
      /\ w # Nil => w.pipe = host.pending.pipe
    BY <1>3, <1>4
<1>6. PICK g : g = [host EXCEPT !.pending = w]
    OBVIOUS
<1>7. host' = g
    <2>1. CASE TimePasses
        BY <1>3, <1>6, <2>1 DEF TimePasses
    <2>2. CASE ~TimePasses
        BY <1>3, <1>6, <2>2 DEF PendingExpires, Discard
    <2>. QED
        BY <2>1, <2>2
<1>8. g \in Hosts(host.inherited) /\ g.inherited = host.inherited
    BY <1>1, <1>5, <1>6 DEF Hosts
<1>9. SameLine(host, g)
    BY <1>1, <1>6 DEF Hosts, SameLine
<1>10. g.capability = host.capability /\ g.pending = w /\ g.attempts = host.attempts /\ g.tried = host.tried
    BY <1>1, <1>6 DEF Hosts
<1>11. LineOK(g) /\ g.online = g.connected
    BY <1>1, <1>8, <1>9 DEF LineOK, SameLine
<1>12. host.online
    BY <1>1, <1>2 DEF BelongsTo
<1>13. BelongsTo(g, wire.said, wire.handed, wire.opened)
    BY <1>1, <1>2, <1>5, <1>9, <1>10, <1>12 DEF BelongsTo, SameLine
<1>. QED
    BY <1>1, <1>2, <1>7, <1>11, <1>13 DEF LinkInv, Good, WireOK

LEMMA ActivateKeeps ==
    ASSUME LinkInv, NEW a \in {"current", "stale"}, Activate(a) \/ NothingToOpen(a)
    PROVE  LinkInv'
<1>1. WireOK /\ host \in Hosts(host.inherited) /\ LineOK(host)
      /\ host.online = host.connected /\ BelongsTo(host, wire.said, wire.handed, wire.opened)
    BY DEF LinkInv, Good, LineOK
<1>2. PICK n : n = IF Activate(a) /\ MayOpen(host, a) THEN wire.opened + 1 ELSE wire.opened
    OBVIOUS
<1>3. /\ n = wire.opened \/ (n = wire.opened + 1 /\ a = "current" /\ host.online)
      /\ a \in host.attempts
    BY <1>2 DEF MayOpen, Activate, NothingToOpen
<1>4. wire.opened \in {0, 1}
    BY <1>1, WireIs
<1>5. wire' = [wire EXCEPT !.opened = n]
    <2>1. wire = [wire EXCEPT !.opened = wire.opened]
        BY <1>1 DEF WireOK, Wires
    <2>2. CASE Activate(a)
        BY <1>2, <2>2 DEF Activate
    <2>3. CASE ~Activate(a)
        BY <1>2, <2>1, <2>3 DEF NothingToOpen
    <2>. QED
        BY <2>2, <2>3
<1>6. n = wire.opened \/ (n = 1 /\ wire.opened = 0 /\ a = "current" /\ host.online /\ host.tried)
    BY <1>1, <1>3, <1>4 DEF BelongsTo
<1>7. n \in {0, 1}
    BY <1>4, <1>6
<1>8. wire \in Wires(wire.posts)
    BY <1>1 DEF WireOK
<1>9. wire' \in Wires(wire.posts) /\ wire'.posts = wire.posts
    BY <1>5, <1>7, <1>8 DEF Wires
<1>10. wire'.inbox = wire.inbox /\ wire'.said = wire.said /\ wire'.handed = wire.handed /\ wire'.opened = n
    BY <1>5, <1>8 DEF Wires
<1>11. WireOK'
    BY <1>1, <1>9, <1>10 DEF WireOK
<1>12. PICK g : g = [host EXCEPT !.attempts = host.attempts \ {a}]
    OBVIOUS
<1>13. host' = g
    BY <1>12 DEF Activate, NothingToOpen
<1>14. g \in Hosts(host.inherited) /\ g.inherited = host.inherited
    BY <1>1, <1>12 DEF Hosts
<1>15. SameLine(host, g)
    BY <1>1, <1>12 DEF Hosts, SameLine
<1>16. /\ g.capability = host.capability /\ g.pending = host.pending
       /\ g.attempts = host.attempts \ {a} /\ g.tried = host.tried
    BY <1>1, <1>12 DEF Hosts
<1>17. LineOK(g) /\ g.online = g.connected
    BY <1>1, <1>14, <1>15 DEF LineOK, SameLine
<1>18. BelongsTo(g, wire.said, wire.handed, n)
    BY <1>1, <1>6, <1>15, <1>16 DEF BelongsTo, SameLine
<1>. QED
    BY <1>10, <1>11, <1>13, <1>17, <1>18 DEF LinkInv, Good

LEMMA DesktopSpeaksKeeps == ASSUME LinkInv, Announces \/ HookPosts PROVE LinkInv'
<1>1. WireOK /\ Good(host, wire.said, wire.handed, wire.opened) /\ BelongsTo(host, wire.said, wire.handed, wire.opened)
    BY DEF LinkInv, Good
<1>2. CASE HookPosts
    <2>1. PICK q : q = wire.posts \cup {desktop.starts}
        OBVIOUS
    <2>2. wire' = [wire EXCEPT !.posts = q] /\ host' = host
        BY <1>2, <2>1 DEF HookPosts
    <2>3. wire' = [wire EXCEPT !.old = wire.old, !.inbox = wire.inbox, !.posts = q]
        BY <1>1, <2>2 DEF WireOK, Wires
    <2>4. WireOK' /\ wire'.said = wire.said /\ wire'.handed = wire.handed /\ wire'.opened = wire.opened
        BY <1>1, <2>3, WireKeeps, WireIs
    <2>. QED
        BY <1>1, <2>2, <2>4 DEF LinkInv
<1>3. CASE Announces
    <2>1. PICK m \in Announced :
            wire' = [wire EXCEPT !.inbox = Append(@, m), !.said = @ \cup {m.conversation, m.owner}]
        BY <1>3 DEF Announces
    <2>2. PICK b, s : b = Append(wire.inbox, m) /\ s = wire.said \cup {m.conversation, m.owner}
        OBVIOUS
    <2>3. wire' = [wire EXCEPT !.inbox = b, !.said = s]
        BY <2>1, <2>2
    <2>4. wire.inbox \in Seq(Announced) /\ wire.said \in SUBSET Facts /\ Nil \in wire.said
        BY <1>1, WireIs DEF WireOK
    <2>5. b \in Seq(Announced) /\ Len(b) = Len(wire.inbox) + 1 /\ b[Len(b)] = m
          /\ \A k \in 1 .. Len(wire.inbox) : b[k] = wire.inbox[k]
        BY <2>2, <2>4
    <2>6. s \in SUBSET Facts
        BY <2>2, <2>4 DEF Facts
    <2>7. wire \in Wires(wire.posts)
        BY <1>1 DEF WireOK
    <2>8. wire' \in Wires(wire.posts) /\ wire'.posts = wire.posts
        BY <2>3, <2>5, <2>6, <2>7 DEF Wires
    <2>9. wire'.inbox = b /\ wire'.said = s /\ wire'.handed = wire.handed /\ wire'.opened = wire.opened
        BY <2>3, <2>7 DEF Wires
    <2>10. ASSUME NEW k \in 1 .. Len(b) PROVE {b[k].conversation, b[k].owner} \subseteq s
        <3>1. CASE k = Len(b)
            BY <2>2, <2>5, <3>1
        <3>2. CASE k # Len(b)
            <4>1. k \in 1 .. Len(wire.inbox)
                BY <2>4, <2>5, <3>2
            <4>2. {wire.inbox[k].conversation, wire.inbox[k].owner} \subseteq wire.said
                BY <1>1, <4>1 DEF WireOK
            <4>. QED
                BY <2>2, <2>5, <4>1, <4>2
        <3>. QED
            BY <3>1, <3>2
    <2>11. WireOK'
        BY <2>2, <2>4, <2>8, <2>9, <2>10 DEF WireOK
    <2>12. BelongsTo(host, s, wire.handed, wire.opened)
        BY <1>1, <2>2 DEF BelongsTo
    <2>13. host' = host
        BY <1>3 DEF Announces
    <2>. QED
        BY <1>1, <2>9, <2>11, <2>12, <2>13 DEF LinkInv, Good
<1>. QED
    BY <1>2, <1>3

LEMMA LinkRests == ASSUME LinkInv, UNCHANGED <<host, wire>> PROVE LinkInv'
BY DEF LinkInv, WireOK

LEMMA LinkKept == LinkInv /\ (DesktopNext \/ UNCHANGED desktopVars) => LinkInv'
<1>. SUFFICES ASSUME LinkInv, DesktopNext \/ UNCHANGED desktopVars PROVE LinkInv'
    OBVIOUS
<1>1. CASE UNCHANGED desktopVars \/ DesktopStarts \/ DesktopEnds
    BY <1>1, LinkRests DEF desktopVars, DesktopStarts, DesktopEnds
<1>2. CASE StartObserver \/ StopObserver \/ Announces \/ HookPosts
    BY <1>2, StartObserverKeeps, StopObserverKeeps, DesktopSpeaksKeeps
<1>3. CASE LinkStep
    <2>1. CASE Connected \/ Drops \/ DesktopGone \/ Reconnect \/ ReceiveData \/ TimePasses \/ PendingExpires
        BY <2>1, ConnectedKeeps, LineGoneKeeps, ReconnectKeeps, ReceiveDataKeeps, PendingKeeps
    <2>2. CASE \E s \in Sockets : OldCloses(s)
        BY <2>2, OldClosesKeeps
    <2>3. CASE \E p \in Pipes : TakeHandoff(p)
        BY <2>3, TakeHandoffKeeps
    <2>4. CASE \E a \in {"current", "stale"} : Activate(a) \/ NothingToOpen(a)
        BY <2>4, ActivateKeeps
    <2>. QED
        BY <1>3, <2>1, <2>2, <2>3, <2>4 DEF LinkStep
<1>. QED
    BY <1>1, <1>2, <1>3 DEF DesktopNext

LEMMA LinkStart == DesktopInit => LinkInv
<1>. SUFFICES ASSUME DesktopInit PROVE LinkInv
    OBVIOUS
<1>1. PICK i : i = desktop.inherited
    OBVIOUS
<1>2. host = [running |-> FALSE, socket |-> Nil, dialing |-> FALSE, connected |-> FALSE,
              asked |-> FALSE, retry |-> FALSE,
              online |-> FALSE, conversation |-> Nil, owner |-> Nil,
              capability |-> Nil, pending |-> Nil, accepted |-> FALSE, seen |-> FALSE, seenOwner |-> Nil,
              inherited |-> i, tried |-> FALSE, attempts |-> {}, disposed |-> FALSE]
    BY <1>1 DEF DesktopInit
<1>3. host \in Hosts(i) /\ host.inherited = i
    BY <1>2 DEF Hosts, Facts
<1>4. LineOK(host)
    BY <1>2, <1>3 DEF LineOK
<1>5. wire = [old |-> {}, inbox |-> <<>>, said |-> {Nil}, posts |-> {}, handed |-> {}, opened |-> 0]
    BY DEF DesktopInit
<1>6. WireOK
    <2>1. {Nil} \in SUBSET Facts /\ <<>> \in Seq(Announced)
        BY DEF Facts
    <2>. QED
        BY <1>5, <2>1 DEF WireOK, Wires
<1>7. BelongsTo(host, wire.said, wire.handed, wire.opened) /\ host.online = host.connected
    BY <1>2 DEF BelongsTo
<1>. QED
    BY <1>4, <1>6, <1>7 DEF LinkInv, Good

LEMMA LinkIsOfConnection == LinkInv => OnlyThisConnection
<1>. SUFFICES ASSUME LinkInv PROVE OnlyThisConnection
    OBVIOUS
<1>1. WireOK /\ host.online = host.connected /\ BelongsTo(host, wire.said, wire.handed, wire.opened)
    BY DEF LinkInv, Good
<1>2. EvidenceIsCurrent
    BY <1>1 DEF EvidenceIsCurrent, BelongsTo
<1>3. PipeOfConnection
    <2>1. PipeFor(host) # Nil => PipeFor(host) \in wire.handed
        BY <1>1 DEF PipeFor, BelongsTo
    <2>. QED
        BY <2>1 DEF PipeOfConnection, Resolved
<1>4. ActivatedOnce
    BY <1>1, WireIs DEF ActivatedOnce
<1>. QED
    BY <1>2, <1>3, <1>4 DEF OnlyThisConnection

-----------------------------------------------------------------------------
(* The frames Codex Desktop sends *)

\* where the frames of a stream end in its bytes
Laid(s, end) ==
    /\ end[0] = 0 /\ end[Len(s)] = Len(Bytes(s))
    /\ \A k \in 1 .. Len(s) :
        /\ end[k] = end[k - 1] + Len(Framed(s[k]))
        /\ \A j \in 1 .. Len(Framed(s[k])) : Bytes(s)[end[k - 1] + j] = Framed(s[k])[j]

End(s) == CHOOSE end \in [0 .. Len(s) -> 0 .. Len(Bytes(s))] : Laid(s, end)

\* the bodies of the frames after the first k, up to the m-th
Bodies(s, k, m) == [j \in 1 .. m - k |-> s[k + j].body]

\* The first k frames are received, and of the bytes a have arrived, which are less than the next frame.
Between(s, k, a) == a = End(s)[k] \/ (k < Len(s) /\ a < End(s)[k + 1])

FramesInv ==
    /\ stream \in Streams
    /\ \E k \in 0 .. Len(stream) : \E a \in End(stream)[k] .. Len(Bytes(stream)) :
        /\ parser = Parsed(Bodies(stream, 0, k), SubSeq(Bytes(stream), End(stream)[k] + 1, a), "waits")
        /\ coming = SubSeq(Bytes(stream), a + 1, Len(Bytes(stream)))
        /\ Between(stream, k, a)

\* The least index of a sequence with some property, as SelectInSeq finds it.
LEMMA LeastIndex ==
    ASSUME NEW S \in SUBSET Nat, NEW e \in S, \A i \in S : e <= i
    PROVE  S # {} /\ Min(S) = e
<1>1. \A x \in S : (\A y \in S : x =< y) => x = e
    OBVIOUS
<1>2. e \in S /\ \A y \in S : e =< y
    OBVIOUS
<1>. QED
    BY <1>1, <1>2 DEF Min

LEMMA UnblankLeaves ==
    ASSUME NEW b \in Seq(Byte), b # <<>>, b[1] \notin Blank
    PROVE  Unblank(b) = b
<1>. DEFINE I == {i \in 1 .. Len(b) : b[i] \notin Blank}
<1>1. Len(b) \in Nat /\ Len(b) >= 1
    OBVIOUS
<1>2. I \in SUBSET Nat /\ 1 \in I /\ \A i \in I : 1 <= i
    BY <1>1
<1>3. I # {} /\ Min(I) = 1
    <2>. HIDE DEF I
    <2>. QED
        BY <1>2, LeastIndex
<1>4. FirstText(b) = 1
    BY <1>3 DEF FirstText, SelectInSeq
<1>5. SubSeq(b, 1, Len(b)) = b
    OBVIOUS
<1>. QED
    BY <1>4, <1>5 DEF Unblank, From

LEMMA NoLineYet ==
    ASSUME NEW b \in Seq(Byte), \A i \in 1 .. Len(b) : b[i] # LF
    PROVE  EndOfLine(b) = 0
BY DEF EndOfLine, SelectInSeq

LEMMA LineEnd ==
    ASSUME NEW b \in Seq(Byte), NEW n \in 1 .. Len(b), b[n] = LF, \A i \in 1 .. n - 1 : b[i] # LF
    PROVE  EndOfLine(b) = n
<1>. DEFINE I == {i \in 1 .. Len(b) : b[i] = LF}
<1>1. Len(b) \in Nat /\ n \in Nat
    OBVIOUS
<1>2. I \in SUBSET Nat /\ n \in I
    BY <1>1
<1>3. ASSUME NEW i \in I PROVE n <= i
    BY <1>1
<1>4. I # {} /\ Min(I) = n
    <2>. HIDE DEF I
    <2>. QED
        BY <1>2, <1>3, LeastIndex
<1>. QED
    BY <1>4 DEF EndOfLine, SelectInSeq

\* What a round of the loop does with the bytes b of a frame, and more, from its first byte on.
CutsFrame(f, b) ==
    \A fs : Cut(Parsed(fs, b, "runs")) =
        IF Len(b) < Len(Framed(f)) THEN Parsed(fs, b, "waits")
        ELSE Parsed(Append(fs, f.body), From(b, Len(Framed(f)) + 1), "runs")

StartsWith(b, F) == \A j \in 1 .. Len(b) : j <= Len(F) => b[j] = F[j]

LEMMA AfterFour ==
    ASSUME NEW h \in Seq(Byte), Len(h) = 4, NEW b \in Seq(Byte)
    PROVE  LET F == h \o b IN
           /\ F \in Seq(Byte) /\ Len(F) = Len(b) + 4
           /\ F[1] = h[1] /\ F[2] = h[2] /\ F[3] = h[3] /\ F[4] = h[4]
           /\ \A i \in 1 .. Len(b) : F[i + 4] = b[i]
<1>1. PICK F : F = h \o b
    OBVIOUS
<1>a. F \in Seq(Byte)
    BY <1>1, ConcatProperties
<1>b. Len(b) \in Nat
    OBVIOUS
<1>c. Len(F) = Len(h) + Len(b)
    BY <1>1, ConcatProperties
<1>2. F \in Seq(Byte) /\ Len(F) = Len(b) + 4 /\ Len(b) \in Nat
    BY <1>a, <1>b, <1>c
<1>3. F[1] = h[1] /\ F[2] = h[2] /\ F[3] = h[3] /\ F[4] = h[4]
    BY <1>1, <1>2
<1>4. ASSUME NEW i \in 1 .. Len(b) PROVE F[i + 4] = b[i]
    BY <1>1, <1>2
<1>. QED
    BY <1>1, <1>2, <1>3, <1>4

LEMMA FramedIs ==
    ASSUME NEW f \in Frames, WellFormed(f)
    PROVE  LET F == Framed(f) n == Len(f.body) IN
           /\ F \in Seq(Byte) /\ Len(F) \in Nat /\ n \in Nat /\ n >= 1 /\ f.body \in Seq(Byte)
           /\ f.as = "length" => /\ Len(F) = n + 4 /\ F[1] = n /\ F[2] = 0 /\ F[3] = 0 /\ F[4] = 0
                                 /\ \A i \in 1 .. n : F[i + 4] = f.body[i]
           /\ f.as = "header" => /\ Len(F) = n + 4 /\ F[1] = CL /\ F[2] = n /\ F[3] = LF /\ F[4] = LF
                                 /\ \A i \in 1 .. n : F[i + 4] = f.body[i]
           /\ f.as = "line" => Len(F) = n + 1 /\ F[n + 1] = LF /\ \A i \in 1 .. n : F[i] = f.body[i]
<1>. DEFINE n == Len(f.body)
<1>1. f.body \in Seq(Byte) /\ n \in Nat /\ f.as \in {"length", "header", "line"}
    BY DEF Frames
<1>2. n >= 1
    <2>1. PICK m : m = n
        OBVIOUS
    <2>2. m \in 1 .. 255 \/ m >= 2
        BY <2>1 DEF WellFormed
    <2>3. m \in Nat
        BY <1>1, <2>1
    <2>4. m >= 1
        BY <2>2, <2>3
    <2>. QED
        BY <2>1, <2>4
<1>3. CASE f.as = "length"
    <2>1. n \in Byte
        BY <1>3 DEF WellFormed, Byte
    <2>2. PICK h : h = <<n, 0, 0, 0>>
        OBVIOUS
    <2>3. h \in Seq(Byte) /\ Len(h) = 4 /\ h[1] = n /\ h[2] = 0 /\ h[3] = 0 /\ h[4] = 0
        BY <2>1, <2>2 DEF Byte
    <2>4. Framed(f) = h \o f.body
        BY <1>3, <2>2 DEF Framed
    <2>5. LET F == h \o f.body IN
          /\ F \in Seq(Byte) /\ Len(F) = n + 4
          /\ F[1] = h[1] /\ F[2] = h[2] /\ F[3] = h[3] /\ F[4] = h[4]
          /\ \A i \in 1 .. n : F[i + 4] = f.body[i]
        BY <1>1, <2>3, AfterFour
    <2>6. Len(Framed(f)) \in Nat
        BY <1>1, <2>4, <2>5
    <2>. QED
        BY <1>1, <1>2, <1>3, <2>3, <2>4, <2>5, <2>6, SMTT(30)
<1>4. CASE f.as = "header"
    <2>1. n \in Byte
        BY <1>4 DEF WellFormed, Byte
    <2>2. PICK h : h = <<CL, n, LF, LF>>
        OBVIOUS
    <2>3. h \in Seq(Byte) /\ Len(h) = 4 /\ h[1] = CL /\ h[2] = n /\ h[3] = LF /\ h[4] = LF
        BY <2>1, <2>2 DEF Byte, CL, LF
    <2>4. Framed(f) = h \o f.body
        BY <1>4, <2>2 DEF Framed
    <2>5. LET F == h \o f.body IN
          /\ F \in Seq(Byte) /\ Len(F) = n + 4
          /\ F[1] = h[1] /\ F[2] = h[2] /\ F[3] = h[3] /\ F[4] = h[4]
          /\ \A i \in 1 .. n : F[i + 4] = f.body[i]
        BY <1>1, <2>3, AfterFour
    <2>6. Len(Framed(f)) \in Nat
        BY <1>1, <2>4, <2>5
    <2>. QED
        BY <1>1, <1>2, <1>4, <2>3, <2>4, <2>5, <2>6, SMTT(30)
<1>5. CASE f.as = "line"
    <2>1. LF \in Byte
        BY DEF LF, Byte
    <2>2. Framed(f) = Append(f.body, LF)
        BY <1>5 DEF Framed
    <2>. QED
        BY <1>1, <1>2, <1>5, <2>1, <2>2
<1>. QED
    BY <1>1, <1>3, <1>4, <1>5

LEMMA BodyIsCut ==
    ASSUME NEW b \in Seq(Byte), NEW body \in Seq(Byte), NEW m \in Nat, m + Len(body) <= Len(b),
           \A i \in 1 .. Len(body) : b[i + m] = body[i]
    PROVE  SubSeq(b, m + 1, m + Len(body)) = body
<1>. DEFINE n == Len(body)
<1>1. n \in Nat /\ Len(b) \in Nat
    OBVIOUS
<1>2. \A i \in m + 1 .. m + n : b[i] \in Byte
    BY <1>1
<1>3. PICK c : c = SubSeq(b, m + 1, m + n)
    OBVIOUS
<1>4. /\ c \in Seq(Byte) /\ Len(c) = IF m + 1 <= m + n THEN m + n - (m + 1) + 1 ELSE 0
      /\ \A i \in 1 .. (m + n) - (m + 1) + 1 : c[i] = b[(m + 1) + i - 1]
    BY <1>1, <1>2, <1>3, SubSeqProperties
<1>5. Len(c) = n
    BY <1>1, <1>4
<1>6. ASSUME NEW i \in 1 .. n PROVE c[i] = body[i]
    <2>1. c[i] = b[(m + 1) + i - 1] /\ (m + 1) + i - 1 = i + m
        BY <1>1, <1>4
    <2>. QED
        BY <2>1
<1>7. c = body
    BY <1>4, <1>5, <1>6, SeqEqual
<1>. QED
    BY <1>3, <1>7

LEMMA ParserMoves ==
    ASSUME NEW fs, NEW b
    PROVE  LET p == Parsed(fs, b, "runs") IN
           /\ p.frames = fs /\ p.buffer = b /\ p.loop = "runs"
           /\ Waits(p, b) = Parsed(fs, b, "waits")
           /\ \A x, y : Receives(p, x, y) = Parsed(Append(fs, x), y, "runs")
BY DEF Parsed, Waits, Receives

LEMMA TakeMoves ==
    ASSUME NEW fs, NEW b, NEW first, NEW n
    PROVE  LET p == Parsed(fs, b, "runs") IN
           Take(p, b, first, n) =
                IF Len(b) < first + n - 1 THEN Parsed(fs, b, "waits")
                ELSE Parsed(Append(fs, SubSeq(b, first, first + n - 1)), From(b, first + n), "runs")
BY ParserMoves DEF Take

LEMMA LengthIsCut ==
    ASSUME NEW f \in Frames, WellFormed(f), f.as = "length",
           NEW b \in Seq(Byte), b # <<>>, StartsWith(b, Framed(f))
    PROVE  CutsFrame(f, b)
<1>. DEFINE n == Len(f.body)
            F == Framed(f)
<1>1. /\ n \in Nat /\ Len(F) = n + 4 /\ f.body \in Seq(Byte)
      /\ F[1] = n /\ F[2] = 0 /\ F[3] = 0 /\ F[4] = 0
      /\ \A i \in 1 .. n : F[i + 4] = f.body[i]
    BY FramedIs, SMTT(30)
<1>2. n \in 1 .. 255 /\ n <= MaxFrame /\ n \notin Blank
    BY DEF WellFormed
<1>3. Len(b) \in Nat /\ Len(b) >= 1 /\ \A j \in 1 .. Len(b) : j <= n + 4 => b[j] = F[j]
    BY <1>1 DEF StartsWith
<1>. HIDE DEF n, F
<1>. SUFFICES ASSUME NEW fs
              PROVE  Cut(Parsed(fs, b, "runs")) =
                        IF Len(b) < n + 4 THEN Parsed(fs, b, "waits")
                        ELSE Parsed(Append(fs, f.body), From(b, n + 4 + 1), "runs")
    BY <1>1 DEF CutsFrame, n, F
<1>4. PICK p : p = Parsed(fs, b, "runs")
    OBVIOUS
<1>5. /\ p.frames = fs /\ p.buffer = b /\ p.loop = "runs" /\ Waits(p, b) = Parsed(fs, b, "waits")
      /\ Take(p, b, 5, n) = IF Len(b) < 5 + n - 1 THEN Parsed(fs, b, "waits")
                            ELSE Parsed(Append(fs, SubSeq(b, 5, 5 + n - 1)), From(b, 5 + n), "runs")
    BY <1>4, ParserMoves, TakeMoves
<1>6. CASE Len(b) >= 4
    <2>1. b[1] = n /\ b[2] = 0 /\ b[3] = 0 /\ b[4] = 0
        BY <1>1, <1>3, <1>6
    <2>2. FrameLength(b) = n
        BY <1>1, <2>1 DEF FrameLength
    <2>3. IsBinary(b)
        BY <1>2, <1>6, <2>1, <2>2, FramesAssumption DEF IsBinary
    <2>4. Cut(p) = Take(p, b, 5, n)
        BY <1>5, <2>2, <2>3 DEF Cut
    <2>5. CASE Len(b) < n + 4
        BY <1>1, <1>3, <1>4, <1>5, <2>4, <2>5
    <2>6. CASE ~ (Len(b) < n + 4)
        <3>1. 4 + n <= Len(b) /\ \A i \in 1 .. n : b[i + 4] = f.body[i]
            <4>1. 4 + n <= Len(b)
                BY <1>1, <1>3, <2>6
            <4>2. ASSUME NEW i \in 1 .. n PROVE b[i + 4] = f.body[i]
                <5>1. i + 4 \in 1 .. Len(b) /\ i + 4 <= n + 4
                    BY <1>1, <1>3, <4>1
                <5>. QED
                    BY <1>1, <1>3, <5>1
            <4>. QED
                BY <4>1, <4>2
        <3>2. SubSeq(b, 4 + 1, 4 + n) = f.body
            BY <1>1, <3>1, BodyIsCut DEF n
        <3>3. 5 + n - 1 = 4 + n /\ 4 + 1 = 5 /\ n + 4 + 1 = 5 + n
            BY <1>1
        <3>4. SubSeq(b, 5, 5 + n - 1) = f.body /\ ~ (Len(b) < 5 + n - 1)
            BY <1>1, <1>3, <2>6, <3>2, <3>3
        <3>. QED
            BY <1>4, <1>5, <2>4, <2>6, <3>2, <3>3, <3>4
    <2>. QED
        BY <2>5, <2>6
<1>7. CASE Len(b) < 4
    <2>1. b[1] = n /\ \A i \in 1 .. Len(b) : b[i] \in {n, 0}
        BY <1>1, <1>3, <1>7
    <2>2. ~ IsBinary(b)
        BY <1>3, <1>7 DEF IsBinary
    <2>3. Unblank(b) = b
        BY <1>2, <2>1, UnblankLeaves
    <2>4. EndOfLine(b) = 0
        BY <1>2, <2>1, NoLineYet DEF Blank, LF
    <2>5. Cut(p) = Waits(p, b)
        BY <1>3, <1>5, <1>7, <2>2, <2>3, <2>4 DEF Cut, TakeHeader, TakeLine
    <2>. QED
        BY <1>1, <1>3, <1>4, <1>5, <1>7, <2>5
<1>. QED
    BY <1>3, <1>6, <1>7

LEMMA HeaderIsCut ==
    ASSUME NEW f \in Frames, WellFormed(f), f.as = "header",
           NEW b \in Seq(Byte), b # <<>>, StartsWith(b, Framed(f))
    PROVE  CutsFrame(f, b)
<1>. DEFINE n == Len(f.body)
            F == Framed(f)
<1>1. /\ n \in Nat /\ Len(F) = n + 4 /\ f.body \in Seq(Byte)
      /\ F[1] = CL /\ F[2] = n /\ F[3] = LF /\ F[4] = LF
      /\ \A i \in 1 .. n : F[i + 4] = f.body[i]
    BY FramedIs, SMTT(30)
<1>2. n \in 1 .. 255 /\ n <= MaxFrame
    BY DEF WellFormed
<1>3. Len(b) \in Nat /\ Len(b) >= 1 /\ \A j \in 1 .. Len(b) : j <= n + 4 => b[j] = F[j]
    BY <1>1 DEF StartsWith
<1>. HIDE DEF n, F
<1>. SUFFICES ASSUME NEW fs
              PROVE  Cut(Parsed(fs, b, "runs")) =
                        IF Len(b) < n + 4 THEN Parsed(fs, b, "waits")
                        ELSE Parsed(Append(fs, f.body), From(b, n + 4 + 1), "runs")
    BY <1>1 DEF CutsFrame, n, F
<1>4. PICK p : p = Parsed(fs, b, "runs")
    OBVIOUS
<1>5. /\ p.frames = fs /\ p.buffer = b /\ p.loop = "runs" /\ Waits(p, b) = Parsed(fs, b, "waits")
      /\ Take(p, b, 5, n) = IF Len(b) < 5 + n - 1 THEN Parsed(fs, b, "waits")
                            ELSE Parsed(Append(fs, SubSeq(b, 5, 5 + n - 1)), From(b, 5 + n), "runs")
    BY <1>4, ParserMoves, TakeMoves
<1>6. b[1] = CL /\ Head(b) = CL
    BY <1>1, <1>3
<1>7. Len(b) >= 4 => b[2] = n /\ b[3] = LF /\ b[4] = LF
    BY <1>1, <1>3
<1>8. ~ IsBinary(b)
    <2>1. b[1] \in TextStarts
        BY <1>6 DEF TextStarts, CL
    <2>2. n # 0 /\ LF # 0
        BY <1>2 DEF LF
    <2>3. Len(b) >= 4 => b[2] # 0 /\ b[3] # 0 /\ b[4] # 0
        BY <1>7, <2>2
    <2>. QED
        BY <2>1, <2>3 DEF IsBinary
<1>9. Unblank(b) = b
    BY <1>6, UnblankLeaves DEF Blank, CL
<1>10. Cut(p) = TakeHeader(p, b)
    BY <1>5, <1>6, <1>8, <1>9 DEF Cut
<1>11. CASE Len(b) < 4
    BY <1>1, <1>3, <1>4, <1>5, <1>10, <1>11 DEF TakeHeader
<1>12. CASE Len(b) >= 4
    <2>1. ~ (b[2] > MaxFrame)
        BY <1>1, <1>2, <1>7, <1>12, FramesAssumption
    <2>2. Cut(p) = Take(p, b, 5, n)
        BY <1>3, <1>7, <1>10, <1>12, <2>1 DEF TakeHeader
    <2>3. CASE Len(b) < n + 4
        BY <1>1, <1>3, <1>4, <1>5, <2>2, <2>3
    <2>4. CASE ~ (Len(b) < n + 4)
        <3>1. 4 + n <= Len(b) /\ \A i \in 1 .. n : b[i + 4] = f.body[i]
            <4>1. 4 + n <= Len(b)
                BY <1>1, <1>3, <2>4
            <4>2. ASSUME NEW i \in 1 .. n PROVE b[i + 4] = f.body[i]
                <5>1. i + 4 \in 1 .. Len(b) /\ i + 4 <= n + 4
                    BY <1>1, <1>3, <4>1
                <5>. QED
                    BY <1>1, <1>3, <5>1
            <4>. QED
                BY <4>1, <4>2
        <3>2. SubSeq(b, 4 + 1, 4 + n) = f.body
            BY <1>1, <3>1, BodyIsCut DEF n
        <3>3. 5 + n - 1 = 4 + n /\ 4 + 1 = 5 /\ n + 4 + 1 = 5 + n
            BY <1>1
        <3>4. SubSeq(b, 5, 5 + n - 1) = f.body /\ ~ (Len(b) < 5 + n - 1)
            BY <1>1, <1>3, <2>4, <3>2, <3>3
        <3>. QED
            BY <1>4, <1>5, <2>2, <2>4, <3>2, <3>3, <3>4
    <2>. QED
        BY <2>3, <2>4
<1>. QED
    BY <1>3, <1>11, <1>12

LEMMA LineIsCut ==
    ASSUME NEW f \in Frames, WellFormed(f), f.as = "line",
           NEW b \in Seq(Byte), b # <<>>, StartsWith(b, Framed(f)),
           Len(Framed(f)) = 3 /\ Len(b) >= 4 => b[4] # 0
    PROVE  CutsFrame(f, b)
<1>. DEFINE n == Len(f.body)
            F == Framed(f)
<1>1. /\ n \in Nat /\ Len(F) = n + 1 /\ f.body \in Seq(Byte)
      /\ F[n + 1] = LF /\ \A i \in 1 .. n : F[i] = f.body[i]
    BY FramedIs
<1>2. /\ n >= 2 /\ f.body[1] \in TextStarts \ (Blank \cup {CL})
      /\ \A i \in 1 .. n : f.body[i] \notin {0, LF}
    BY DEF WellFormed
<1>3. Len(b) \in Nat /\ Len(b) >= 1 /\ \A j \in 1 .. Len(b) : j <= n + 1 => b[j] = F[j]
    BY <1>1 DEF StartsWith
<1>a. n = 2 /\ Len(b) >= 4 => b[4] # 0
    BY <1>1
<1>. HIDE DEF n, F
<1>. SUFFICES ASSUME NEW fs
              PROVE  Cut(Parsed(fs, b, "runs")) =
                        IF Len(b) < n + 1 THEN Parsed(fs, b, "waits")
                        ELSE Parsed(Append(fs, f.body), From(b, n + 1 + 1), "runs")
    BY <1>1 DEF CutsFrame, n, F
<1>4. PICK p : p = Parsed(fs, b, "runs")
    OBVIOUS
<1>5. /\ p.frames = fs /\ p.buffer = b /\ p.loop = "runs" /\ Waits(p, b) = Parsed(fs, b, "waits")
      /\ \A x, y : Receives(p, x, y) = Parsed(Append(fs, x), y, "runs")
    BY <1>4, ParserMoves
<1>6. b[1] \in TextStarts /\ b[1] \notin Blank /\ b[1] # CL /\ Head(b) = b[1]
    BY <1>1, <1>2, <1>3
<1>7. \A i \in 1 .. Len(b) : /\ i <= n => b[i] = f.body[i]
                             /\ i = n + 1 => b[i] = LF
    BY <1>1, <1>3
<1>8. Len(b) >= 4 => b[2] # 0 /\ b[3] # 0 /\ b[4] # 0
    BY <1>1, <1>2, <1>3, <1>7, <1>a DEF LF
<1>9. ~ IsBinary(b)
    BY <1>3, <1>6, <1>8 DEF IsBinary
<1>10. Unblank(b) = b
    BY <1>6, UnblankLeaves
<1>11. Cut(p) = TakeLine(p, b)
    BY <1>5, <1>6, <1>9, <1>10 DEF Cut
<1>12. \A i \in 1 .. Len(b) : i <= n => b[i] # LF
    BY <1>1, <1>2, <1>3, <1>7
<1>13. CASE Len(b) < n + 1
    <2>1. EndOfLine(b) = 0
        BY <1>1, <1>3, <1>12, <1>13, NoLineYet
    <2>. QED
        BY <1>4, <1>5, <1>11, <1>13, <2>1 DEF TakeLine
<1>14. CASE ~ (Len(b) < n + 1)
    <2>1. n + 1 \in 1 .. Len(b) /\ b[n + 1] = LF /\ \A i \in 1 .. (n + 1) - 1 : b[i] # LF
        BY <1>1, <1>3, <1>7, <1>12, <1>14
    <2>2. EndOfLine(b) = n + 1
        BY <2>1, LineEnd
    <2>3. 0 + n <= Len(b) /\ \A i \in 1 .. n : b[i + 0] = f.body[i]
        BY <1>1, <1>3, <1>7, <1>14
    <2>4. SubSeq(b, 0 + 1, 0 + n) = f.body
        BY <1>1, <2>3, BodyIsCut DEF n
    <2>a. PICK e : e = n + 1
        OBVIOUS
    <2>b. e # 0 /\ e - 1 = n /\ 0 + 1 = 1 /\ 0 + n = n
        BY <1>1, <2>a
    <2>5. SubSeq(b, 1, e - 1) = f.body
        BY <2>4, <2>b
    <2>6. Cut(p) = Receives(p, f.body, From(b, n + 1 + 1))
        BY <1>11, <2>2, <2>a, <2>b, <2>5 DEF TakeLine
    <2>7. Cut(p) = Parsed(Append(fs, f.body), From(b, n + 1 + 1), "runs")
        BY <1>5, <2>6
    <2>. QED
        BY <1>4, <1>14, <2>7
<1>. QED
    BY <1>13, <1>14

LEMMA FrameIsCut ==
    ASSUME NEW f \in Frames, WellFormed(f), NEW b \in Seq(Byte), b # <<>>, StartsWith(b, Framed(f)),
           Len(Framed(f)) = 3 /\ Len(b) >= 4 => b[4] # 0
    PROVE  CutsFrame(f, b)
BY LengthIsCut, HeaderIsCut, LineIsCut DEF Frames

LEMMA FlattenIs ==
    ASSUME NEW seqs \in Seq(Seq(Byte)), Len(seqs) >= 1
    PROVE  \E f \in [1 .. Len(seqs) -> Seq(Byte)] :
              /\ f[1] = seqs[1] /\ \A i \in 2 .. Len(seqs) : f[i] = f[i - 1] \o seqs[i]
              /\ FlattenSeq(seqs) = f[Len(seqs)]
<1>. DEFINE N == Len(seqs)
            Up(n, f) == /\ f \in [1 .. N -> Seq(Byte)] /\ f[1] = seqs[1]
                        /\ \A i \in 2 .. n : f[i] = f[i - 1] \o seqs[i]
            B == {n \in 1 .. N : ~ \E f : Up(n, f)}
<1>1. N \in Nat /\ N >= 1 /\ \A i \in 1 .. N : seqs[i] \in Seq(Byte)
    <2>1. N \in Nat
        OBVIOUS
    <2>2. N >= 1
        OBVIOUS
    <2>3. ASSUME NEW i \in 1 .. N PROVE seqs[i] \in Seq(Byte)
        BY ElementOfSeq
    <2>. QED
        BY <2>1, <2>2, <2>3
<1>2. ASSUME B # {} PROVE FALSE
    <2>1. B \in SUBSET Nat
        <3>1. \A n \in 1 .. N : n \in Nat
            BY <1>1
        <3>. HIDE DEF Up, N
        <3>. QED
            BY <3>1
    <2>2. PICK n \in B : \A m \in B : n <= m
        <3>. HIDE DEF B
        <3>. QED
            BY <1>2, <2>1, LeastOfSome
    <2>3. n \in 1 .. N /\ ~ \E f : Up(n, f)
        BY <2>2
    <2>4. CASE n = 1
        <3>1. Up(1, [i \in 1 .. N |-> seqs[1]])
            BY <1>1
        <3>. QED
            BY <2>3, <2>4, <3>1
    <2>5. CASE n # 1
        <3>1. n - 1 \in 1 .. N /\ ~ (n <= n - 1)
            BY <1>1, <2>3, <2>5
        <3>2. PICK f : Up(n - 1, f)
            BY <2>2, <3>1
        <3>3. PICK v : v = f[n - 1] \o seqs[n]
            OBVIOUS
        <3>4. v \in Seq(Byte)
            BY <1>1, <2>3, <3>1, <3>2, <3>3, ConcatProperties
        <3>5. PICK g : g = [i \in 1 .. N |-> IF i = n THEN v ELSE f[i]]
            OBVIOUS
        <3>6. g \in [1 .. N -> Seq(Byte)]
            BY <3>2, <3>4, <3>5
        <3>7. g[n] = v /\ \A i \in 1 .. N : i # n => g[i] = f[i]
            BY <2>3, <3>5
        <3>8. g[1] = seqs[1]
            BY <1>1, <2>5, <3>2, <3>7
        <3>9. ASSUME NEW k \in 2 .. n PROVE g[k] = g[k - 1] \o seqs[k]
            <4>1. k - 1 \in 1 .. N /\ k - 1 # n /\ k \in 1 .. N
                BY <1>1, <2>3
            <4>2. g[k - 1] = f[k - 1]
                BY <3>7, <4>1
            <4>3. CASE k = n
                BY <3>3, <3>7, <4>2, <4>3
            <4>4. CASE k # n
                <5>1. k \in 2 .. n - 1
                    BY <1>1, <2>3, <4>4
                <5>2. f[k] = f[k - 1] \o seqs[k]
                    BY <3>2, <5>1
                <5>3. g[k] = f[k]
                    BY <3>7, <4>1, <4>4
                <5>. QED
                    BY <4>2, <5>2, <5>3
            <4>. QED
                BY <4>3, <4>4
        <3>. QED
            BY <2>3, <3>6, <3>8, <3>9
    <2>. QED
        BY <2>4, <2>5
<1>3. PICK f : Up(N, f)
    <2>1. N \in 1 .. N
        BY <1>1
    <2>2. N \notin B
        <3>. HIDE DEF B
        <3>. QED
            BY <1>2
    <2>. QED
        BY <2>1, <2>2
<1>. DEFINE Is(g) == g = [i \in 1 .. N |-> IF i = 1 THEN seqs[i] ELSE g[i - 1] \o seqs[i]]
<1>4. Is(f)
    <2>1. ASSUME NEW i \in 1 .. N PROVE f[i] = IF i = 1 THEN seqs[i] ELSE f[i - 1] \o seqs[i]
        <3>1. i = 1 \/ i \in 2 .. N
            BY <1>1
        <3>. QED
            BY <1>3, <3>1
    <2>. QED
        BY <1>3, <2>1
<1>5. PICK h : h = CHOOSE g : Is(g)
    OBVIOUS
<1>6. Is(h)
    <2>. HIDE DEF Is
    <2>. QED
        BY <1>4, <1>5
<1>7. FlattenSeq(seqs) = h[N]
    BY <1>1, <1>5 DEF FlattenSeq
<1>8. \A i \in 1 .. N : h[i] = IF i = 1 THEN seqs[i] ELSE h[i - 1] \o seqs[i]
    BY <1>6
<1>9. h[1] = seqs[1] /\ \A i \in 2 .. N : h[i] = h[i - 1] \o seqs[i]
    <2>1. 1 \in 1 .. N
        BY <1>1
    <2>2. ASSUME NEW i \in 2 .. N PROVE h[i] = h[i - 1] \o seqs[i]
        <3>1. i \in 1 .. N /\ i # 1
            BY <1>1
        <3>. QED
            BY <1>8, <3>1
    <2>. QED
        BY <1>8, <2>1, <2>2
<1>10. h \in [1 .. N -> Seq(Byte)]
    <2>. DEFINE C == {n \in 1 .. N : h[n] \notin Seq(Byte)}
    <2>1. ASSUME C # {} PROVE FALSE
        <3>1. C \in SUBSET Nat
            BY <1>1
        <3>2. PICK n \in C : \A m \in C : n <= m
            <4>. HIDE DEF C
            <4>. QED
                BY <2>1, <3>1, LeastOfSome
        <3>3. n \in 1 .. N /\ h[n] \notin Seq(Byte)
            BY <3>2
        <3>4. n # 1
            BY <1>1, <1>9, <3>3
        <3>5. n - 1 \in 1 .. N /\ ~ (n <= n - 1) /\ n \in 2 .. N
            BY <1>1, <3>3, <3>4
        <3>6. h[n - 1] \in Seq(Byte)
            BY <3>2, <3>5
        <3>7. h[n] = h[n - 1] \o seqs[n] /\ seqs[n] \in Seq(Byte)
            BY <1>1, <1>9, <3>5
        <3>. QED
            BY <3>3, <3>6, <3>7, ConcatProperties
    <2>2. \A n \in 1 .. N : h[n] \in Seq(Byte)
        BY <2>1
    <2>3. h = [i \in 1 .. N |-> h[i]]
        BY <1>6
    <2>. QED
        BY <2>2, <2>3
<1>. QED
    BY <1>7, <1>9, <1>10

LEMMA StreamIs ==
    ASSUME NEW s \in Streams
    PROVE  /\ Len(s) \in Nat
           /\ \A k \in 1 .. Len(s) : /\ s[k] \in Frames /\ WellFormed(s[k])
                                     /\ Framed(s[k]) \in Seq(Byte) /\ Len(Framed(s[k])) \in Nat
                                     /\ Len(Framed(s[k])) >= 1 /\ Framed(s[k])[1] # 0
<1>1. s \in Seq(Frames) /\ Len(s) \in Nat
    BY FramesAssumption
<1>2. ASSUME NEW k \in 1 .. Len(s)
      PROVE  /\ s[k] \in Frames /\ WellFormed(s[k])
             /\ Framed(s[k]) \in Seq(Byte) /\ Len(Framed(s[k])) \in Nat
             /\ Len(Framed(s[k])) >= 1 /\ Framed(s[k])[1] # 0
    <2>1. s[k] \in Frames
        BY <1>1
    <2>2. WellFormed(s[k])
        BY <1>1, FramesAssumption
    <2>3. PICK f : f = s[k]
        OBVIOUS
    <2>4. f \in Frames /\ WellFormed(f) /\ f.as \in {"length", "header", "line"}
        BY <2>1, <2>2, <2>3 DEF Frames
    <2>5. PICK F : F = Framed(f)
        OBVIOUS
    <2>6. PICK n : n = Len(f.body)
        OBVIOUS
    <2>7. /\ F \in Seq(Byte) /\ Len(F) \in Nat /\ n \in Nat /\ n >= 1
          /\ f.as = "length" => Len(F) = n + 4 /\ F[1] = n
          /\ f.as = "header" => Len(F) = n + 4 /\ F[1] = CL
          /\ f.as = "line" => Len(F) = n + 1 /\ \A i \in 1 .. n : F[i] = f.body[i]
        BY <2>4, <2>5, <2>6, FramedIs
    <2>8. f.as = "line" => \A i \in 1 .. n : f.body[i] # 0
        BY <2>4, <2>6 DEF WellFormed
    <2>9. Len(F) >= 1
        BY <2>4, <2>7
    <2>10. F[1] # 0
        BY <2>4, <2>7, <2>8 DEF CL
    <2>. QED
        BY <2>3, <2>4, <2>5, <2>7, <2>9, <2>10
<1>. QED
    BY <1>1, <1>2

LEMMA StreamIsLaid ==
    ASSUME NEW s \in Streams
    PROVE  Bytes(s) \in Seq(Byte) /\ \E end \in [0 .. Len(s) -> 0 .. Len(Bytes(s))] : Laid(s, end)
<1>. DEFINE N == Len(s)
            F(k) == Framed(s[k])
<1>1. N \in Nat /\ \A k \in 1 .. N : F(k) \in Seq(Byte) /\ Len(F(k)) \in Nat
    BY StreamIs
<1>2. PICK q : q = [i \in DOMAIN s |-> Framed(s[i])]
    OBVIOUS
<1>3. DOMAIN s = 1 .. N
    BY FramesAssumption
<1>4. q \in Seq(Seq(Byte)) /\ Len(q) = N /\ \A k \in 1 .. N : q[k] = F(k)
    BY <1>1, <1>2, <1>3
<1>5. Bytes(s) = FlattenSeq(q)
    BY <1>2 DEF Bytes
<1>6. CASE N = 0
    <2>1. q = <<>>
        BY <1>4, <1>6
    <2>2. Bytes(s) = <<>>
        BY <1>5, <2>1 DEF FlattenSeq
    <2>3. PICK end : end = [k \in 0 .. N |-> 0]
        OBVIOUS
    <2>4. end \in [0 .. N -> 0 .. Len(Bytes(s))] /\ end[0] = 0
        BY <1>6, <2>2, <2>3
    <2>5. Laid(s, end)
        BY <1>6, <2>2, <2>4 DEF Laid
    <2>. QED
        BY <2>2, <2>4, <2>5
<1>7. CASE N # 0
    <2>1. N >= 1
        BY <1>1, <1>7
    <2>2. PICK f \in [1 .. N -> Seq(Byte)] :
            /\ f[1] = F(1) /\ \A i \in 2 .. N : f[i] = f[i - 1] \o F(i)
            /\ Bytes(s) = f[N]
        <3>1. PICK f \in [1 .. N -> Seq(Byte)] :
                /\ f[1] = q[1] /\ \A i \in 2 .. N : f[i] = f[i - 1] \o q[i]
                /\ FlattenSeq(q) = f[N]
            BY <1>4, <2>1, FlattenIs
        <3>2. q[1] = F(1) /\ \A i \in 2 .. N : q[i] = F(i)
            BY <1>1, <1>4, <2>1
        <3>. QED
            BY <1>5, <3>1, <3>2
    <2>. HIDE DEF F
    <2>. DEFINE Begins(k, m) == Len(f[k]) <= Len(f[m]) /\ \A j \in 1 .. Len(f[k]) : f[m][j] = f[k][j]
                C == {m \in 1 .. N : ~ \A k \in 1 .. m : Begins(k, m)}
    <2>3. \A k \in 1 .. N : f[k] \in Seq(Byte) /\ Len(f[k]) \in Nat
        BY <2>2
    <2>4. ASSUME NEW k \in 2 .. N
          PROVE  /\ k \in 1 .. N /\ k - 1 \in 1 .. N /\ Len(f[k]) = Len(f[k - 1]) + Len(F(k))
                 /\ \A j \in 1 .. Len(f[k - 1]) : f[k][j] = f[k - 1][j]
                 /\ \A j \in 1 .. Len(F(k)) : f[k][Len(f[k - 1]) + j] = F(k)[j]
        <3>1. k \in 1 .. N /\ k - 1 \in 1 .. N
            BY <1>1
        <3>2. PICK u, v, w : u = f[k - 1] /\ v = F(k) /\ w = f[k]
            OBVIOUS
        <3>3. u \in Seq(Byte) /\ v \in Seq(Byte) /\ w = u \o v
            BY <1>1, <2>2, <2>3, <3>1, <3>2 DEF F
        <3>4. Len(w) = Len(u) + Len(v)
            BY <3>3, ConcatProperties
        <3>5. Len(u) \in Nat /\ Len(v) \in Nat
            BY <3>3
        <3>6. \A j \in 1 .. Len(u) + Len(v) : w[j] = IF j <= Len(u) THEN u[j] ELSE v[j - Len(u)]
            BY <3>3, ConcatProperties
        <3>7. \A j \in 1 .. Len(u) : w[j] = u[j]
            BY <3>5, <3>6
        <3>8. ASSUME NEW j \in 1 .. Len(v) PROVE w[Len(u) + j] = v[j]
            <4>1. Len(u) + j \in 1 .. Len(u) + Len(v) /\ ~ (Len(u) + j <= Len(u)) /\ (Len(u) + j) - Len(u) = j
                BY <3>5
            <4>. QED
                BY <3>6, <4>1
        <3>. QED
            BY <3>1, <3>2, <3>4, <3>7, <3>8
    <2>5. ASSUME C # {} PROVE FALSE
        <3>1. C \in SUBSET Nat
            BY <1>1
        <3>2. PICK m \in C : \A e \in C : m <= e
            <4>. HIDE DEF C
            <4>. QED
                BY <2>5, <3>1, LeastOfSome
        <3>3. m \in 1 .. N /\ ~ \A k \in 1 .. m : Begins(k, m)
            BY <3>2
        <3>4. PICK k \in 1 .. m : ~ Begins(k, m)
            BY <3>3
        <3>5. k # m
            BY <2>3, <3>3, <3>4
        <3>6. m \in 2 .. N /\ m - 1 \in 1 .. N /\ ~ (m <= m - 1) /\ k \in 1 .. m - 1 /\ k \in 1 .. N
            BY <1>1, <3>3, <3>5
        <3>7. Begins(k, m - 1)
            BY <3>2, <3>6
        <3>8. /\ Len(f[m]) = Len(f[m - 1]) + Len(F(m))
              /\ \A j \in 1 .. Len(f[m - 1]) : f[m][j] = f[m - 1][j]
            BY <2>4, <3>6
        <3>9. Len(f[k]) \in Nat /\ Len(f[m - 1]) \in Nat /\ Len(f[m]) \in Nat /\ Len(F(m)) \in Nat
            BY <1>1, <2>3, <3>3, <3>6 DEF F
        <3>10. Len(f[k]) <= Len(f[m])
            BY <3>7, <3>8, <3>9
        <3>11. ASSUME NEW j \in 1 .. Len(f[k]) PROVE f[m][j] = f[k][j]
            <4>1. PICK x, y : x = Len(f[k]) /\ y = Len(f[m - 1])
                OBVIOUS
            <4>2. x \in Nat /\ y \in Nat /\ x <= y /\ j \in 1 .. x
                BY <3>7, <3>9, <4>1
            <4>3. j \in 1 .. y
                BY <4>2
            <4>. QED
                BY <3>7, <3>8, <4>1, <4>3
        <3>. QED
            BY <3>4, <3>10, <3>11
    <2>6. ASSUME NEW k \in 1 .. N PROVE Begins(k, N)
        BY <1>1, <2>1, <2>5, SMTT(30)
    <2>7. PICK end : end = [k \in 0 .. N |-> IF k = 0 THEN 0 ELSE Len(f[k])]
        OBVIOUS
    <2>8. end[0] = 0 /\ \A k \in 1 .. N : end[k] = Len(f[k])
        BY <1>1, <2>7
    <2>9. end \in [0 .. N -> 0 .. Len(Bytes(s))]
        <3>1. \A k \in 1 .. N : Len(f[k]) \in 0 .. Len(Bytes(s))
            BY <2>1, <2>2, <2>3, <2>6, <1>1
        <3>2. 0 \in 0 .. Len(Bytes(s))
            BY <2>2, <2>3, <2>1, <1>1
        <3>. QED
            BY <1>1, <2>7, <3>1, <3>2
    <2>10. ASSUME NEW k \in 1 .. N
           PROVE  /\ end[k] = end[k - 1] + Len(F(k))
                  /\ \A j \in 1 .. Len(F(k)) : Bytes(s)[end[k - 1] + j] = F(k)[j]
        <3>1. Len(F(k)) \in Nat /\ Len(f[k]) \in Nat
            BY <1>1, <2>3 DEF F
        <3>2. CASE k = 1
            <4>1. end[k - 1] = 0 /\ end[k] = Len(F(k)) /\ f[k] = F(k)
                BY <2>2, <2>8, <3>2
            <4>2. \A j \in 1 .. Len(F(k)) : Bytes(s)[j] = F(k)[j]
                BY <2>2, <2>6, <4>1
            <4>. QED
                BY <3>1, <4>1, <4>2
        <3>3. CASE k # 1
            <4>1. k \in 2 .. N /\ k - 1 \in 1 .. N
                BY <1>1, <3>3
            <4>2. end[k - 1] = Len(f[k - 1]) /\ end[k] = Len(f[k]) /\ Len(f[k - 1]) \in Nat
                BY <2>3, <2>8, <4>1
            <4>3. /\ Len(f[k]) = Len(f[k - 1]) + Len(F(k))
                  /\ \A j \in 1 .. Len(F(k)) : f[k][Len(f[k - 1]) + j] = F(k)[j]
                BY <2>4, <4>1
            <4>4. ASSUME NEW j \in 1 .. Len(F(k)) PROVE Bytes(s)[end[k - 1] + j] = F(k)[j]
                <5>1. Len(f[k - 1]) + j \in 1 .. Len(f[k])
                    BY <3>1, <4>2, <4>3
                <5>2. Bytes(s)[Len(f[k - 1]) + j] = f[k][Len(f[k - 1]) + j]
                    BY <2>2, <2>6, <5>1
                <5>. QED
                    BY <4>2, <4>3, <5>2
            <4>. QED
                BY <4>2, <4>3, <4>4
        <3>. QED
            BY <3>2, <3>3
    <2>11. end[N] = Len(Bytes(s)) /\ Bytes(s) \in Seq(Byte)
        BY <1>1, <2>1, <2>2, <2>3, <2>8
    <2>12. Laid(s, end)
        BY <2>8, <2>10, <2>11 DEF Laid, F
    <2>. QED
        BY <2>9, <2>11, <2>12
<1>. QED
    BY <1>6, <1>7

LEMMA PartOf ==
    ASSUME NEW A \in Seq(Byte), NEW x \in Nat, NEW a \in Nat, x <= a, a <= Len(A)
    PROVE  LET b == SubSeq(A, x + 1, a) IN
           /\ b \in Seq(Byte) /\ Len(b) = a - x /\ \A j \in 1 .. a - x : b[j] = A[x + j]
<1>1. PICK b : b = SubSeq(A, x + 1, a)
    OBVIOUS
<1>2. x + 1 \in Int /\ a \in Int /\ Len(A) \in Nat /\ \A i \in x + 1 .. a : A[i] \in Byte
    BY ElementOfSeq
<1>3. /\ b \in Seq(Byte) /\ Len(b) = (IF x + 1 <= a THEN a - (x + 1) + 1 ELSE 0)
      /\ \A i \in 1 .. a - (x + 1) + 1 : b[i] = A[(x + 1) + i - 1]
    BY <1>1, <1>2, SubSeqProperties
<1>4. Len(b) = a - x
    BY <1>3
<1>5. ASSUME NEW j \in 1 .. a - x PROVE b[j] = A[x + j]
    <2>1. j \in 1 .. a - (x + 1) + 1 /\ (x + 1) + j - 1 = x + j
        OBVIOUS
    <2>. QED
        BY <1>3, <2>1
<1>. QED
    BY <1>1, <1>3, <1>4, <1>5

LEMMA PartOfPart ==
    ASSUME NEW A \in Seq(Byte), NEW x \in Nat, NEW y \in Nat, NEW a \in Nat, x <= y, y <= a, a <= Len(A)
    PROVE  SubSeq(SubSeq(A, x + 1, a), y - x + 1, a - x) = SubSeq(A, y + 1, a)
<1>1. PICK b, c, d : b = SubSeq(A, x + 1, a) /\ c = SubSeq(b, y - x + 1, a - x) /\ d = SubSeq(A, y + 1, a)
    OBVIOUS
<1>2. b \in Seq(Byte) /\ Len(b) = a - x /\ \A j \in 1 .. a - x : b[j] = A[x + j]
    BY <1>1, PartOf
<1>3. PICK w, n : w = y - x /\ n = a - x
    OBVIOUS
<1>4. w \in Nat /\ n \in Nat /\ w <= n /\ n <= Len(b) /\ y <= a /\ n - w = a - y
    BY <1>2, <1>3
<1>5. c \in Seq(Byte) /\ Len(c) = n - w /\ \A j \in 1 .. n - w : c[j] = b[w + j]
    BY <1>1, <1>2, <1>3, <1>4, PartOf
<1>6. d \in Seq(Byte) /\ Len(d) = a - y /\ \A j \in 1 .. a - y : d[j] = A[y + j]
    BY <1>1, PartOf
<1>7. ASSUME NEW j \in 1 .. Len(c) PROVE c[j] = d[j]
    <2>1. j \in 1 .. n - w /\ w + j \in 1 .. a - x /\ x + (w + j) = y + j /\ j \in 1 .. a - y
        BY <1>3, <1>4, <1>5, SMTT(30)
    <2>. QED
        BY <1>2, <1>5, <1>6, <2>1
<1>8. c = d
    BY <1>4, <1>5, <1>6, <1>7, SeqEqual
<1>. QED
    BY <1>1, <1>8

LEMMA EndIs ==
    ASSUME NEW s \in Streams
    PROVE  /\ Len(s) \in Nat /\ Bytes(s) \in Seq(Byte) /\ Len(Bytes(s)) \in Nat
           /\ End(s) \in [0 .. Len(s) -> 0 .. Len(Bytes(s))] /\ Laid(s, End(s))
           /\ \A k \in 0 .. Len(s) : End(s)[k] \in Nat
           /\ \A i, j \in 0 .. Len(s) : i <= j => End(s)[i] <= End(s)[j]
<1>1. Len(s) \in Nat
    BY StreamIs
<1>2. Bytes(s) \in Seq(Byte) /\ Len(Bytes(s)) \in Nat
    BY StreamIsLaid
<1>3. End(s) \in [0 .. Len(s) -> 0 .. Len(Bytes(s))] /\ Laid(s, End(s))
    BY StreamIsLaid DEF End
<1>4. PICK end : end = End(s)
    OBVIOUS
<1>. DEFINE N == Len(s)
<1>5. \A k \in 0 .. N : end[k] \in Nat
    BY <1>1, <1>2, <1>3, <1>4
<1>6. \A k \in 1 .. N : end[k] = end[k - 1] + Len(Framed(s[k])) /\ Len(Framed(s[k])) \in Nat
    BY <1>3, <1>4, StreamIs DEF Laid
<1>. DEFINE C == {j \in 0 .. N : ~ \A i \in 0 .. j : end[i] <= end[j]}
<1>7. ASSUME C # {} PROVE FALSE
    <2>1. C \in SUBSET Nat
        BY <1>1
    <2>2. PICK j \in C : \A e \in C : j <= e
        <3>. HIDE DEF C
        <3>. QED
            BY <1>7, <2>1, LeastOfSome
    <2>3. j \in 0 .. N /\ ~ \A i \in 0 .. j : end[i] <= end[j]
        BY <2>2
    <2>4. PICK i \in 0 .. j : ~ (end[i] <= end[j])
        BY <2>3
    <2>5. i # j
        BY <1>5, <2>3, <2>4
    <2>6. j \in 1 .. N /\ j - 1 \in 0 .. N /\ ~ (j <= j - 1) /\ i \in 0 .. j - 1 /\ i \in 0 .. N
        BY <1>1, <2>3, <2>5
    <2>7. end[i] <= end[j - 1]
        BY <2>2, <2>6
    <2>8. end[j] = end[j - 1] + Len(Framed(s[j])) /\ Len(Framed(s[j])) \in Nat
        BY <1>6, <2>6
    <2>9. end[i] \in Nat /\ end[j] \in Nat /\ end[j - 1] \in Nat
        BY <1>5, <2>3, <2>6
    <2>. QED
        BY <2>4, <2>7, <2>8, <2>9
<1>8. ASSUME NEW i \in 0 .. N, NEW j \in 0 .. N, i <= j PROVE end[i] <= end[j]
    <2>1. i \in 0 .. j
        BY <1>1, <1>8
    <2>2. j \notin C
        <3>. HIDE DEF C
        <3>. QED
            BY <1>7
    <2>. QED
        BY <2>1, <2>2
<1>. QED
    BY <1>1, <1>2, <1>3, <1>4, <1>5, <1>8

LEMMA Gap ==
    \A x, w, a \in Nat : \A y, n : y = x + w /\ n = a - x =>
        /\ n < w <=> a < y
        /\ \A m \in Nat : n >= m => a >= x + m
OBVIOUS

\* The bytes after the first k frames, as far as they have arrived.
LEMMA NextFrame ==
    ASSUME NEW s \in Streams, NEW k \in 0 .. Len(s) - 1, NEW a \in End(s)[k] + 1 .. Len(Bytes(s)), NEW fs
    PROVE  Cut(Parsed(fs, SubSeq(Bytes(s), End(s)[k] + 1, a), "runs")) =
               IF a < End(s)[k + 1] THEN Parsed(fs, SubSeq(Bytes(s), End(s)[k] + 1, a), "waits")
               ELSE Parsed(Append(fs, s[k + 1].body), SubSeq(Bytes(s), End(s)[k + 1] + 1, a), "runs")
<1>1. PICK N, A, end, f, F : /\ N = Len(s) /\ A = Bytes(s) /\ end = End(s)
                             /\ f = s[k + 1] /\ F = Framed(s[k + 1])
    OBVIOUS
<1>2. N \in Nat /\ k \in 0 .. N /\ k + 1 \in 1 .. N /\ k + 1 \in 0 .. N /\ (k + 1) - 1 = k
    BY <1>1, EndIs
<1>3. /\ A \in Seq(Byte) /\ Len(A) \in Nat /\ end[N] = Len(A)
      /\ \A m \in 0 .. N : end[m] \in Nat
      /\ \A i, j \in 0 .. N : i <= j => end[i] <= end[j]
    BY <1>1, EndIs DEF Laid
<1>4. \A m \in 1 .. N : /\ end[m] = end[m - 1] + Len(Framed(s[m]))
                        /\ \A j \in 1 .. Len(Framed(s[m])) : A[end[m - 1] + j] = Framed(s[m])[j]
    BY <1>1, EndIs DEF Laid
<1>5. \A m \in 1 .. N : /\ s[m] \in Frames /\ WellFormed(s[m]) /\ Framed(s[m]) \in Seq(Byte)
                        /\ Len(Framed(s[m])) \in Nat /\ Len(Framed(s[m])) >= 1 /\ Framed(s[m])[1] # 0
    BY <1>1, StreamIs
<1>6. f \in Frames /\ WellFormed(f) /\ F = Framed(f) /\ F \in Seq(Byte) /\ Len(F) \in Nat /\ Len(F) >= 1
    BY <1>1, <1>2, <1>5
<1>7. PICK b : b = SubSeq(A, end[k] + 1, a)
    OBVIOUS
<1>8. end[k] \in Nat /\ end[k + 1] \in Nat /\ a \in end[k] + 1 .. Len(A) /\ a \in Nat
    BY <1>1, <1>2, <1>3
<1>9. end[k + 1] = end[k] + Len(F) /\ \A j \in 1 .. Len(F) : A[end[k] + j] = F[j]
    BY <1>1, <1>2, <1>4
<1>10. /\ b \in Seq(Byte) /\ Len(b) = a - end[k]
       /\ \A j \in 1 .. Len(b) : b[j] = A[end[k] + j]
    <2>1. PICK x : x = end[k]
        OBVIOUS
    <2>2. x \in Nat /\ x <= a /\ a \in Nat /\ a <= Len(A)
        BY <1>3, <1>8, <2>1
    <2>3. b = SubSeq(A, x + 1, a)
        BY <1>7, <2>1
    <2>4. b \in Seq(Byte) /\ Len(b) = a - x /\ \A j \in 1 .. a - x : b[j] = A[x + j]
        BY <1>3, <2>2, <2>3, PartOf
    <2>5. \A j \in 1 .. Len(b) : b[j] = A[x + j]
        BY <2>4
    <2>. QED
        BY <2>1, <2>4, <2>5
<1>11. Len(b) \in Nat /\ Len(b) >= 1 /\ b # <<>>
    BY <1>8, <1>10
<1>12. PICK x, y, w, n : x = end[k] /\ y = end[k + 1] /\ w = Len(F) /\ n = Len(b)
    OBVIOUS
<1>13. /\ x \in Nat /\ y \in Nat /\ w \in Nat /\ n \in Nat /\ a \in Nat
       /\ y = x + w /\ n = a - x
    BY <1>6, <1>8, <1>9, <1>10, <1>11, <1>12
<1>14. StartsWith(b, F)
    BY <1>6, <1>9, <1>10 DEF StartsWith
<1>15. ASSUME Len(F) = 3, Len(b) >= 4 PROVE b[4] # 0
    <2>1. end[k + 1] = end[k] + 3 /\ a >= end[k] + 4
        <3>1. n >= 4 /\ w = 3
            BY <1>15, <1>12
        <3>2. a >= x + 4
            BY <1>13, <3>1, Gap
        <3>3. y = x + 3
            BY <1>13, <3>1
        <3>. QED
            BY <1>12, <3>2, <3>3
    <2>2. k + 1 # N
        BY <1>3, <1>8, <2>1
    <2>3. k + 2 \in 1 .. N /\ (k + 2) - 1 = k + 1
        BY <1>2, <2>2
    <2>4. A[end[k + 1] + 1] = Framed(s[k + 2])[1] /\ Framed(s[k + 2])[1] # 0
        <3>1. 1 \in 1 .. Len(Framed(s[k + 2]))
            BY <1>5, <2>3
        <3>. QED
            BY <1>4, <1>5, <2>3, <3>1
    <2>5. b[4] = A[end[k] + 4] /\ end[k + 1] + 1 = end[k] + 4
        BY <1>8, <1>10, <1>11, <1>15, <2>1
    <2>. QED
        BY <2>4, <2>5
<1>16. CutsFrame(f, b)
    BY <1>6, <1>10, <1>11, <1>14, <1>15, FrameIsCut
<1>17. Cut(Parsed(fs, b, "runs")) =
          IF Len(b) < Len(F) THEN Parsed(fs, b, "waits")
          ELSE Parsed(Append(fs, f.body), From(b, Len(F) + 1), "runs")
    BY <1>6, <1>16 DEF CutsFrame
<1>18. CASE a < end[k + 1]
    <2>1. Len(b) < Len(F)
        <3>1. a < y
            BY <1>18, <1>12
        <3>2. n < w
            BY <1>13, <3>1, Gap
        <3>. QED
            BY <1>12, <3>2
    <2>. QED
        BY <1>1, <1>7, <1>17, <1>18, <2>1
<1>19. CASE ~ (a < end[k + 1])
    <2>1. ~ (Len(b) < Len(F))
        <3>1. ~ (a < y)
            BY <1>19, <1>12
        <3>2. ~ (n < w)
            BY <1>13, <3>1, Gap
        <3>. QED
            BY <1>12, <3>2
    <2>2. From(b, Len(F) + 1) = SubSeq(A, end[k + 1] + 1, a)
        <3>1. Len(A) \in Nat /\ a <= Len(A)
            BY <1>3, <1>8
        <3>2. ~ (n < w)
            BY <1>12, <2>1
        <3>3. ~ (a < y)
            BY <1>13, <3>2, Gap
        <3>4. x <= y /\ y <= a /\ w + 1 = y - x + 1
            BY <1>13, <3>3
        <3>5. SubSeq(SubSeq(A, x + 1, a), y - x + 1, a - x) = SubSeq(A, y + 1, a)
            BY <1>3, <1>13, <3>1, <3>4, PartOfPart
        <3>. QED
            BY <1>7, <1>12, <1>13, <3>4, <3>5 DEF From
    <2>. QED
        BY <1>1, <1>7, <1>17, <1>19, <2>1, <2>2
<1>. QED
    BY <1>1, <1>18, <1>19

\* The parser after the rounds of its loop, one after the other.
Cutting(buffer, r) ==
    /\ r[0] = Parsed(<<>>, buffer, "runs")
    /\ \A i \in 1 .. Len(buffer) : r[i] = Cut(r[i - 1])

LEMMA CuttingExists ==
    ASSUME NEW buffer \in Seq(Byte)
    PROVE  \E r : /\ r = [i \in 0 .. Len(buffer) |->
                            IF i = 0 THEN Parsed(<<>>, buffer, "runs") ELSE Cut(r[i - 1])]
                  /\ Cutting(buffer, r)
<1>. DEFINE N == Len(buffer)
            Z == Parsed(<<>>, buffer, "runs")
            Up(n, f) == /\ f = [i \in 0 .. N |-> f[i]] /\ f[0] = Z
                        /\ \A k \in 1 .. n : f[k] = Cut(f[k - 1])
            B == {n \in 0 .. N : ~ \E f : Up(n, f)}
<1>1. N \in Nat
    OBVIOUS
<1>. HIDE DEF N, Z
<1>2. ASSUME B # {} PROVE FALSE
    <2>1. B \in SUBSET Nat
        BY <1>1
    <2>2. PICK n \in B : \A m \in B : n <= m
        <3>. HIDE DEF B
        <3>. QED
            BY <1>2, <2>1, LeastOfSome
    <2>3. n \in 0 .. N /\ ~ \E f : Up(n, f)
        BY <2>2
    <2>4. CASE n = 0
        <3>1. Up(0, [i \in 0 .. N |-> Z])
            BY <1>1
        <3>. QED
            BY <2>3, <2>4, <3>1
    <2>5. CASE n # 0
        <3>1. n - 1 \in 0 .. N /\ ~ (n <= n - 1)
            BY <1>1, <2>3, <2>5
        <3>2. PICK f : Up(n - 1, f)
            BY <2>2, <3>1
        <3>3. PICK v : v = Cut(f[n - 1])
            OBVIOUS
        <3>4. PICK g : g = [i \in 0 .. N |-> IF i = n THEN v ELSE f[i]]
            OBVIOUS
        <3>5. g[n] = v /\ \A i \in 0 .. N : i # n => g[i] = f[i]
            BY <2>3, <3>4
        <3>6. g = [i \in 0 .. N |-> g[i]] /\ g[0] = Z
            BY <1>1, <2>5, <3>2, <3>4, <3>5
        <3>7. ASSUME NEW k \in 1 .. n PROVE g[k] = Cut(g[k - 1])
            <4>1. g[k - 1] = f[k - 1]
                BY <1>1, <2>3, <3>5
            <4>2. CASE k = n
                BY <3>3, <3>5, <4>1, <4>2
            <4>3. CASE k # n
                <5>1. k \in 1 .. n - 1 /\ k \in 0 .. N
                    BY <1>1, <2>3, <4>3
                <5>2. f[k] = Cut(f[k - 1])
                    BY <3>2, <5>1
                <5>3. g[k] = f[k]
                    BY <3>5, <4>3, <5>1
                <5>. QED
                    BY <4>1, <5>2, <5>3
            <4>. QED
                BY <4>2, <4>3
        <3>. QED
            BY <2>3, <3>6, <3>7
    <2>. QED
        BY <2>4, <2>5
<1>3. PICK f : Up(N, f)
    <2>1. N \in 0 .. N
        BY <1>1
    <2>2. N \notin B
        <3>. HIDE DEF B
        <3>. QED
            BY <1>2
    <2>. QED
        BY <2>1, <2>2
<1>4. f = [i \in 0 .. N |-> IF i = 0 THEN Z ELSE Cut(f[i - 1])]
    <2>1. ASSUME NEW i \in 0 .. N PROVE f[i] = IF i = 0 THEN Z ELSE Cut(f[i - 1])
        <3>1. i = 0 \/ i \in 1 .. N
            BY <1>1
        <3>. QED
            BY <1>3, <3>1
    <2>. QED
        BY <1>3, <2>1
<1>. QED
    BY <1>1, <1>3, <1>4 DEF Cutting, N, Z

LEMMA PushRuns ==
    ASSUME NEW p, NEW chunk, p.buffer \o chunk \in Seq(Byte)
    PROVE  \E r : /\ Cutting(p.buffer \o chunk, r)
                  /\ LET next == r[Len(p.buffer \o chunk)] IN
                     next.loop # "failed" =>
                        PushChunk(p, chunk) = Parsed(p.frames \o next.frames, next.buffer, "waits")
<1>1. PICK b : b = p.buffer \o chunk
    OBVIOUS
<1>. DEFINE Is(g) == g = [i \in 0 .. Len(b) |-> IF i = 0 THEN Parsed(<<>>, b, "runs") ELSE Cut(g[i - 1])]
<1>2. PICK r : r = CHOOSE g : Is(g)
    OBVIOUS
<1>3. b \in Seq(Byte)
    BY <1>1
<1>4. PICK g : Is(g)
    BY <1>3, CuttingExists
<1>5. Is(r)
    <2>. HIDE DEF Is
    <2>. QED
        BY <1>2, <1>4
<1>6. Len(b) \in Nat
    BY <1>3
<1>7. Cutting(b, r)
    <2>1. \A i \in 0 .. Len(b) : r[i] = IF i = 0 THEN Parsed(<<>>, b, "runs") ELSE Cut(r[i - 1])
        BY <1>5
    <2>2. 0 \in 0 .. Len(b)
        BY <1>6
    <2>3. ASSUME NEW i \in 1 .. Len(b) PROVE r[i] = Cut(r[i - 1])
        <3>1. i \in 0 .. Len(b) /\ i # 0
            BY <1>6
        <3>. QED
            BY <2>1, <3>1
    <2>. QED
        BY <2>1, <2>2, <2>3 DEF Cutting
<1>8. r[Len(b)].loop # "failed" =>
          PushChunk(p, chunk) = Parsed(p.frames \o r[Len(b)].frames, r[Len(b)].buffer, "waits")
    BY <1>1, <1>2 DEF PushChunk
<1>. QED
    BY <1>1, <1>7, <1>8

LEMMA BodiesJoin ==
    ASSUME NEW s \in Streams, NEW k \in 0 .. Len(s), NEW m \in k .. Len(s)
    PROVE  /\ Bodies(s, k, m) \in Seq(Seq(Byte)) /\ Bodies(s, m, m) = <<>>
           /\ m < Len(s) => Append(Bodies(s, k, m), s[m + 1].body) = Bodies(s, k, m + 1)
           /\ Bodies(s, 0, k) \o Bodies(s, k, m) = Bodies(s, 0, m)
           /\ Len(Bodies(s, 0, m)) = m /\ \A j \in 1 .. m : Bodies(s, 0, m)[j] = s[j].body
<1>1. PICK N : N = Len(s)
    OBVIOUS
<1>2. /\ N \in Nat /\ k \in Nat /\ m \in Nat /\ k <= m /\ m <= N
      /\ \A i \in 1 .. N : s[i].body \in Seq(Byte)
    <2>1. N \in Nat /\ \A i \in 1 .. N : s[i] \in Frames
        BY <1>1, StreamIs
    <2>2. \A i \in 1 .. N : s[i].body \in Seq(Byte)
        BY <2>1 DEF Frames
    <2>3. k \in Nat /\ m \in Nat /\ k <= m /\ m <= N
        BY <1>1, <2>1
    <2>. QED
        BY <2>1, <2>2, <2>3
<1>3. ASSUME NEW x \in 0 .. N, NEW y \in x .. N
      PROVE  /\ Bodies(s, x, y) \in Seq(Seq(Byte)) /\ Len(Bodies(s, x, y)) = y - x
             /\ \A j \in 1 .. y - x : Bodies(s, x, y)[j] = s[x + j].body
    <2>1. y - x \in Nat /\ \A j \in 1 .. y - x : x + j \in 1 .. N
        BY <1>2
    <2>2. \A j \in 1 .. y - x : s[x + j].body \in Seq(Byte)
        BY <1>2, <2>1
    <2>3. PICK n : n = y - x
        OBVIOUS
    <2>4. PICK u : u = [j \in 1 .. n |-> s[x + j].body]
        OBVIOUS
    <2>5. u = Bodies(s, x, y)
        BY <2>3, <2>4 DEF Bodies
    <2>6. u \in [1 .. n -> Seq(Byte)] /\ n \in Nat
        <3>1. n \in Nat /\ \A j \in 1 .. n : s[x + j].body \in Seq(Byte)
            BY <2>1, <2>2, <2>3
        <3>. QED
            BY <2>4, <3>1
    <2>7. u \in Seq(Seq(Byte)) /\ Len(u) = n
        BY <2>6
    <2>. QED
        BY <2>3, <2>4, <2>5, <2>7
<1>4. Bodies(s, m, m) = <<>>
    <2>1. Bodies(s, m, m) \in Seq(Seq(Byte)) /\ Len(Bodies(s, m, m)) = m - m
        BY <1>2, <1>3
    <2>. QED
        BY <1>2, <2>1, EmptySeq
<1>5. ASSUME m < N PROVE Append(Bodies(s, k, m), s[m + 1].body) = Bodies(s, k, m + 1)
    <2>1. PICK u, v, e, w : /\ u = Bodies(s, k, m) /\ v = Bodies(s, k, m + 1) /\ e = s[m + 1].body
                            /\ w = Append(u, e)
        OBVIOUS
    <2>2. m + 1 \in 1 .. N /\ m + 1 \in k .. N /\ k \in 0 .. N /\ m \in k .. N
        BY <1>2, <1>5
    <2>3. e \in Seq(Byte)
        BY <1>2, <2>1, <2>2
    <2>4. u \in Seq(Seq(Byte)) /\ Len(u) = m - k /\ \A j \in 1 .. m - k : u[j] = s[k + j].body
        BY <1>3, <2>1, <2>2
    <2>5. v \in Seq(Seq(Byte)) /\ Len(v) = (m + 1) - k /\ \A j \in 1 .. (m + 1) - k : v[j] = s[k + j].body
        <3>1. PICK n : n = m + 1
            OBVIOUS
        <3>2. n \in k .. N /\ k \in 0 .. N /\ v = Bodies(s, k, n)
            BY <2>1, <2>2, <3>1
        <3>3. v \in Seq(Seq(Byte)) /\ Len(v) = n - k /\ \A j \in 1 .. n - k : v[j] = s[k + j].body
            BY <1>3, <3>2
        <3>. QED
            BY <3>1, <3>3
    <2>6. /\ w \in Seq(Seq(Byte)) /\ Len(w) = Len(u) + 1 /\ w[Len(u) + 1] = e
          /\ \A j \in 1 .. Len(u) : w[j] = u[j]
        <3>1. u \in Seq(Seq(Byte)) /\ e \in Seq(Byte) /\ w = Append(u, e)
            BY <2>1, <2>3, <2>4
        <3>2. w \in Seq(Seq(Byte))
            BY <3>1, AppendProperties
        <3>3. Len(w) = Len(u) + 1
            BY <3>1, AppendProperties
        <3>4. w[Len(u) + 1] = e
            BY <3>1, AppendProperties
        <3>5. \A j \in 1 .. Len(u) : w[j] = u[j]
            BY <3>1, AppendProperties
        <3>. QED
            BY <3>2, <3>3, <3>4, <3>5
    <2>7. ASSUME NEW j \in 1 .. Len(w) PROVE w[j] = v[j]
        <3>1. PICK n : n = Len(u)
            OBVIOUS
        <3>2. n = m - k /\ j \in 1 .. n + 1
            BY <2>4, <2>6, <3>1
        <3>3. j \in 1 .. (m + 1) - k /\ (j \in 1 .. n \/ (j = n + 1 /\ k + j = m + 1))
            BY <1>2, <3>2
        <3>. QED
            BY <2>1, <2>4, <2>5, <2>6, <3>1, <3>2, <3>3
    <2>8. Len(w) = Len(v)
        BY <1>2, <2>4, <2>5, <2>6
    <2>9. w = v
        BY <2>5, <2>6, <2>7, <2>8, SeqEqual
    <2>. QED
        BY <2>1, <2>9
<1>6. ASSUME NEW y \in 0 .. N
      PROVE  /\ Bodies(s, 0, y) \in Seq(Seq(Byte)) /\ Len(Bodies(s, 0, y)) = y
             /\ \A j \in 1 .. y : Bodies(s, 0, y)[j] = s[j].body
    <2>1. 0 \in 0 .. N /\ y \in 0 .. N
        BY <1>2
    <2>2. PICK u : u = Bodies(s, 0, y)
        OBVIOUS
    <2>3. u \in Seq(Seq(Byte)) /\ Len(u) = y - 0 /\ \A j \in 1 .. y - 0 : u[j] = s[0 + j].body
        BY <1>3, <2>1, <2>2
    <2>4. y - 0 = y
        BY <1>2
    <2>5. \A j \in 1 .. y : u[j] = s[j].body
        <3>1. TAKE j \in 1 .. y
        <3>2. 0 + j = j
            BY <1>2
        <3>3. u[j] = s[0 + j].body
            BY <2>3, <2>4
        <3>. QED
            BY <3>2, <3>3
    <2>. QED
        BY <2>2, <2>3, <2>4, <2>5
<1>7. Bodies(s, 0, k) \o Bodies(s, k, m) = Bodies(s, 0, m)
    <2>1. PICK u, v, c, d : /\ u = Bodies(s, 0, k) /\ v = Bodies(s, k, m) /\ c = u \o v
                            /\ d = Bodies(s, 0, m)
        OBVIOUS
    <2>2. 0 \in 0 .. N /\ k \in 0 .. N /\ m \in k .. N /\ m \in 0 .. N
        BY <1>2
    <2>3. u \in Seq(Seq(Byte)) /\ Len(u) = k /\ \A j \in 1 .. k : u[j] = s[j].body
        BY <2>1, <2>2, <1>6
    <2>4. v \in Seq(Seq(Byte)) /\ Len(v) = m - k /\ \A j \in 1 .. m - k : v[j] = s[k + j].body
        BY <1>3, <2>1, <2>2
    <2>5. d \in Seq(Seq(Byte)) /\ Len(d) = m /\ \A j \in 1 .. m : d[j] = s[j].body
        BY <2>1, <2>2, <1>6
    <2>6. /\ c \in Seq(Seq(Byte)) /\ Len(c) = Len(u) + Len(v)
          /\ \A j \in 1 .. Len(u) + Len(v) : c[j] = IF j <= Len(u) THEN u[j] ELSE v[j - Len(u)]
        <3>1. u \in Seq(Seq(Byte)) /\ v \in Seq(Seq(Byte)) /\ c = u \o v
            BY <2>1, <2>3, <2>4
        <3>2. c \in Seq(Seq(Byte))
            BY <3>1, ConcatProperties
        <3>3. Len(c) = Len(u) + Len(v)
            BY <3>1, ConcatProperties
        <3>4. \A j \in 1 .. Len(u) + Len(v) : c[j] = IF j <= Len(u) THEN u[j] ELSE v[j - Len(u)]
            BY <3>1, ConcatProperties
        <3>. QED
            BY <3>2, <3>3, <3>4
    <2>7. Len(c) = m
        BY <1>2, <2>3, <2>4, <2>6
    <2>8. ASSUME NEW j \in 1 .. Len(c) PROVE c[j] = d[j]
        <3>1. j \in 1 .. m /\ j \in 1 .. Len(u) + Len(v)
            BY <2>6, <2>7
        <3>2. CASE j <= k
            <4>1. j \in 1 .. k /\ j <= Len(u)
                BY <1>2, <2>3, <3>1, <3>2
            <4>2. c[j] = u[j]
                BY <2>6, <3>1, <4>1
            <4>. QED
                BY <2>3, <2>5, <3>1, <4>1, <4>2
        <3>3. CASE ~ (j <= k)
            <4>1. j - k \in 1 .. m - k /\ k + (j - k) = j
                BY <1>2, <3>1, <3>3
            <4>2. c[j] = v[j - k]
                BY <2>3, <2>6, <3>1, <3>3
            <4>3. v[j - k] = s[j].body
                BY <2>4, <4>1
            <4>. QED
                BY <2>5, <3>1, <4>2, <4>3
        <3>. QED
            BY <3>2, <3>3
    <2>9. c = d
        BY <2>5, <2>6, <2>7, <2>8, SeqEqual
    <2>. QED
        BY <2>1, <2>9
<1>8. Bodies(s, k, m) \in Seq(Seq(Byte))
    BY <1>1, <1>3
<1>9. Len(Bodies(s, 0, m)) = m /\ \A j \in 1 .. m : Bodies(s, 0, m)[j] = s[j].body
    <2>1. m \in 0 .. N
        BY <1>2
    <2>. QED
        BY <1>6, <2>1
<1>. QED
    BY <1>1, <1>4, <1>5, <1>7, <1>8, <1>9

\* What the first i rounds of the loop leave of the bytes after the first k frames, as far as c.
Rounds(s, k, c, i, x) ==
    \E m \in k .. Len(s) :
        /\ End(s)[m] <= c
        /\ \/ /\ x = Parsed(Bodies(s, k, m), SubSeq(Bytes(s), End(s)[m] + 1, c), "waits")
              /\ Between(s, m, c)
           \/ /\ x = Parsed(Bodies(s, k, m), SubSeq(Bytes(s), End(s)[m] + 1, c), "runs")
              /\ End(s)[m] = c \/ End(s)[m] >= End(s)[k] + i

LEMMA RoundMoves ==
    ASSUME NEW s \in Streams, NEW k \in 0 .. Len(s), NEW c \in 0 .. Len(Bytes(s)), NEW i \in Nat, NEW x,
           Rounds(s, k, c, i, x)
    PROVE  Rounds(s, k, c, i + 1, Cut(x))
<1>1. PICK N, A, end : N = Len(s) /\ A = Bytes(s) /\ end = End(s)
    OBVIOUS
<1>2. /\ N \in Nat /\ A \in Seq(Byte) /\ Len(A) \in Nat /\ end[N] = Len(A)
      /\ \A j \in 0 .. N : end[j] \in Nat
    BY <1>1, EndIs DEF Laid
<1>3. PICK m \in k .. N :
         /\ end[m] <= c
         /\ \/ /\ x = Parsed(Bodies(s, k, m), SubSeq(A, end[m] + 1, c), "waits")
               /\ Between(s, m, c)
            \/ /\ x = Parsed(Bodies(s, k, m), SubSeq(A, end[m] + 1, c), "runs")
               /\ end[m] = c \/ end[m] >= end[k] + i
    BY <1>1 DEF Rounds
<1>4. k \in Nat /\ m \in Nat /\ k <= m /\ m <= N /\ m \in 0 .. N /\ k \in 0 .. N /\ c \in Nat /\ c <= Len(A)
    BY <1>1, <1>2, <1>3
<1>5. end[m] \in Nat /\ end[k] \in Nat
    BY <1>2, <1>4
<1>6. CASE /\ x = Parsed(Bodies(s, k, m), SubSeq(A, end[m] + 1, c), "waits")
           /\ Between(s, m, c)
    <2>1. Cut(x) = x
        BY <1>6 DEF Cut, Parsed
    <2>. QED
        BY <1>1, <1>3, <1>6, <2>1 DEF Rounds
<1>7. CASE /\ x = Parsed(Bodies(s, k, m), SubSeq(A, end[m] + 1, c), "runs")
           /\ end[m] = c
    <2>1. SubSeq(A, end[m] + 1, c) = <<>>
        <3>1. PICK b : b = SubSeq(A, c + 1, c)
            OBVIOUS
        <3>2. b \in Seq(Byte) /\ Len(b) = c - c
            BY <1>2, <1>4, <3>1, PartOf
        <3>3. b = <<>>
            BY <1>4, <3>2, EmptySeq
        <3>. QED
            BY <1>7, <3>1, <3>3
    <2>2. Cut(x) = x
        BY <1>7, <2>1 DEF Cut, Parsed
    <2>. QED
        BY <1>1, <1>3, <1>7, <2>2 DEF Rounds
<1>8. CASE /\ x = Parsed(Bodies(s, k, m), SubSeq(A, end[m] + 1, c), "runs")
           /\ end[m] # c /\ end[m] >= end[k] + i
    <2>1. m # N /\ m \in 0 .. N - 1 /\ m + 1 \in 1 .. N /\ m + 1 \in k .. N /\ (m + 1) - 1 = m
        BY <1>2, <1>3, <1>4, <1>5, <1>8
    <2>2. c \in end[m] + 1 .. Len(A)
        BY <1>2, <1>3, <1>4, <1>5, <1>8
    <2>3. Cut(x) = IF c < end[m + 1] THEN Parsed(Bodies(s, k, m), SubSeq(A, end[m] + 1, c), "waits")
                   ELSE Parsed(Append(Bodies(s, k, m), s[m + 1].body), SubSeq(A, end[m + 1] + 1, c), "runs")
        BY <1>1, <1>8, <2>1, <2>2, NextFrame
    <2>4. CASE c < end[m + 1]
        <3>1. Between(s, m, c)
            BY <1>1, <2>1, <2>4 DEF Between
        <3>2. Cut(x) = Parsed(Bodies(s, k, m), SubSeq(A, end[m] + 1, c), "waits")
            BY <2>3, <2>4
        <3>. QED
            BY <1>1, <1>3, <3>1, <3>2 DEF Rounds
    <2>5. CASE ~ (c < end[m + 1])
        <3>1. Append(Bodies(s, k, m), s[m + 1].body) = Bodies(s, k, m + 1)
            <4>1. k \in 0 .. Len(s) /\ m \in k .. Len(s) /\ m < Len(s)
                BY <1>1, <1>2, <1>3, <1>4, <2>1
            <4>. QED
                BY <4>1, BodiesJoin
        <3>2. end[m + 1] = end[m] + Len(Framed(s[m + 1])) /\ Len(Framed(s[m + 1])) \in Nat
                /\ Len(Framed(s[m + 1])) >= 1
            BY <1>1, <2>1, EndIs, StreamIs DEF Laid
        <3>3. end[m + 1] \in Nat
            BY <1>2, <2>1
        <3>4. end[m + 1] <= c /\ end[m + 1] >= end[k] + (i + 1)
            <4>1. PICK x0, x1, x2, l : /\ x0 = end[k] /\ x1 = end[m] /\ x2 = end[m + 1]
                                       /\ l = Len(Framed(s[m + 1]))
                OBVIOUS
            <4>2. x0 \in Nat /\ x1 \in Nat /\ x2 \in Nat /\ l \in Nat /\ l >= 1 /\ x2 = x1 + l
                BY <1>5, <3>2, <3>3, <4>1
            <4>3. x1 >= x0 + i /\ ~ (c < x2)
                BY <1>8, <2>5, <4>1
            <4>4. x2 <= c
                BY <1>4, <4>2, <4>3
            <4>5. x2 >= x0 + (i + 1)
                BY <4>2, <4>3
            <4>. QED
                BY <4>1, <4>4, <4>5
        <3>5. Cut(x) = Parsed(Bodies(s, k, m + 1), SubSeq(A, end[m + 1] + 1, c), "runs")
            BY <2>3, <2>5, <3>1
        <3>. QED
            BY <1>1, <2>1, <3>4, <3>5 DEF Rounds
    <2>. QED
        BY <2>4, <2>5
<1>. QED
    BY <1>3, <1>6, <1>7, <1>8

LEMMA RoundsEnd ==
    ASSUME NEW s \in Streams, NEW k \in 0 .. Len(s), NEW c \in End(s)[k] .. Len(Bytes(s))
    PROVE  \A b, r : b = SubSeq(Bytes(s), End(s)[k] + 1, c) /\ Cutting(b, r) =>
              \E m \in k .. Len(s) :
                 /\ End(s)[m] <= c /\ Between(s, m, c)
                 /\ r[Len(b)].loop # "failed" /\ r[Len(b)].frames = Bodies(s, k, m)
                 /\ r[Len(b)].buffer = SubSeq(Bytes(s), End(s)[m] + 1, c)
<1>. SUFFICES ASSUME NEW b, NEW r, b = SubSeq(Bytes(s), End(s)[k] + 1, c), Cutting(b, r)
              PROVE  \E m \in k .. Len(s) :
                        /\ End(s)[m] <= c /\ Between(s, m, c)
                        /\ r[Len(b)].loop # "failed" /\ r[Len(b)].frames = Bodies(s, k, m)
                        /\ r[Len(b)].buffer = SubSeq(Bytes(s), End(s)[m] + 1, c)
    OBVIOUS
<1>1. PICK N, A, end : N = Len(s) /\ A = Bytes(s) /\ end = End(s)
    OBVIOUS
<1>2. /\ N \in Nat /\ A \in Seq(Byte) /\ Len(A) \in Nat
      /\ \A j \in 0 .. N : end[j] \in Nat
    BY <1>1, EndIs
<1>3. k \in 0 .. N /\ k \in k .. N /\ k \in Nat /\ end[k] \in Nat
    BY <1>1, <1>2
<1>4. c \in Nat /\ end[k] <= c /\ c <= Len(A) /\ c \in 0 .. Len(Bytes(s))
    BY <1>1, <1>2, <1>3
<1>5. b = SubSeq(A, end[k] + 1, c) /\ b \in Seq(Byte) /\ Len(b) = c - end[k]
    BY <1>1, <1>2, <1>3, <1>4, PartOf
<1>6. PICK n : n = Len(b)
    OBVIOUS
<1>7. n \in Nat /\ n = c - end[k]
    BY <1>5, <1>6
<1>8. r[0] = Parsed(<<>>, b, "runs") /\ \A i \in 1 .. n : r[i] = Cut(r[i - 1])
    BY <1>6 DEF Cutting
<1>9. Rounds(s, k, c, 0, r[0])
    <2>1. Bodies(s, k, k) = <<>>
        BY <1>1, <1>3, BodiesJoin
    <2>2. r[0] = Parsed(Bodies(s, k, k), SubSeq(A, end[k] + 1, c), "runs")
        BY <1>5, <1>8, <2>1
    <2>3. end[k] >= end[k] + 0
        BY <1>3
    <2>. QED
        BY <1>1, <1>3, <1>4, <2>2, <2>3 DEF Rounds
<1>. DEFINE C == {i \in 0 .. n : ~ Rounds(s, k, c, i, r[i])}
<1>10. ASSUME C # {} PROVE FALSE
    <2>1. C \in SUBSET Nat
        BY <1>7
    <2>2. PICK i \in C : \A e \in C : i <= e
        <3>. HIDE DEF C
        <3>. QED
            BY <1>10, <2>1, LeastOfSome
    <2>3. i \in 0 .. n /\ ~ Rounds(s, k, c, i, r[i])
        BY <2>2
    <2>4. i # 0
        BY <1>9, <2>3
    <2>5. i \in 1 .. n /\ i - 1 \in 0 .. n /\ i - 1 \in Nat /\ ~ (i <= i - 1) /\ (i - 1) + 1 = i
        BY <1>7, <2>3, <2>4
    <2>6. Rounds(s, k, c, i - 1, r[i - 1])
        BY <2>2, <2>5
    <2>7. Rounds(s, k, c, (i - 1) + 1, Cut(r[i - 1]))
        BY <1>4, <2>5, <2>6, RoundMoves
    <2>. QED
        BY <1>8, <2>3, <2>5, <2>7
<1>11. Rounds(s, k, c, n, r[n])
    <2>1. n \in 0 .. n
        BY <1>7
    <2>2. n \notin C
        <3>. HIDE DEF C
        <3>. QED
            BY <1>10
    <2>. QED
        BY <2>1, <2>2
<1>12. PICK m \in k .. N :
         /\ end[m] <= c
         /\ \/ /\ r[n] = Parsed(Bodies(s, k, m), SubSeq(A, end[m] + 1, c), "waits")
               /\ Between(s, m, c)
            \/ /\ r[n] = Parsed(Bodies(s, k, m), SubSeq(A, end[m] + 1, c), "runs")
               /\ end[m] = c \/ end[m] >= end[k] + n
    BY <1>1, <1>11 DEF Rounds
<1>13. m \in 0 .. N /\ end[m] \in Nat
    BY <1>2, <1>3, <1>12
<1>14. Between(s, m, c)
    <2>1. CASE Between(s, m, c)
        BY <2>1
    <2>2. CASE end[m] = c \/ end[m] >= end[k] + n
        <3>1. PICK x, y : x = end[k] /\ y = end[m]
            OBVIOUS
        <3>2. x \in Nat /\ y \in Nat /\ c \in Nat /\ n = c - x /\ y <= c /\ (y = c \/ y >= x + n)
            BY <1>3, <1>4, <1>7, <1>12, <1>13, <2>2, <3>1
        <3>3. y = c
            BY <3>2
        <3>. QED
            BY <1>1, <3>1, <3>3 DEF Between
    <2>. QED
        BY <1>12, <2>1, <2>2
<1>15. /\ r[n].loop # "failed" /\ r[n].frames = Bodies(s, k, m)
       /\ r[n].buffer = SubSeq(A, end[m] + 1, c)
    BY <1>12 DEF Parsed
<1>. QED
    BY <1>1, <1>6, <1>12, <1>14, <1>15

\* A chunk, whatever its size, leaves the frames that are complete and the beginning of the next.
LEMMA PushKeeps ==
    ASSUME NEW s \in Streams, NEW k \in 0 .. Len(s), NEW a \in End(s)[k] .. Len(Bytes(s)),
           NEW c \in a .. Len(Bytes(s))
    PROVE  \A p, chunk :
              /\ p = Parsed(Bodies(s, 0, k), SubSeq(Bytes(s), End(s)[k] + 1, a), "waits")
              /\ chunk = SubSeq(Bytes(s), a + 1, c)
              => \E m \in k .. Len(s) :
                    /\ End(s)[m] <= c /\ Between(s, m, c)
                    /\ PushChunk(p, chunk)
                          = Parsed(Bodies(s, 0, m), SubSeq(Bytes(s), End(s)[m] + 1, c), "waits")
<1>. SUFFICES ASSUME NEW p, NEW chunk,
                     p = Parsed(Bodies(s, 0, k), SubSeq(Bytes(s), End(s)[k] + 1, a), "waits"),
                     chunk = SubSeq(Bytes(s), a + 1, c)
              PROVE  \E m \in k .. Len(s) :
                        /\ End(s)[m] <= c /\ Between(s, m, c)
                        /\ PushChunk(p, chunk)
                              = Parsed(Bodies(s, 0, m), SubSeq(Bytes(s), End(s)[m] + 1, c), "waits")
    OBVIOUS
<1>1. PICK N, A, end : N = Len(s) /\ A = Bytes(s) /\ end = End(s)
    OBVIOUS
<1>2. /\ N \in Nat /\ A \in Seq(Byte) /\ Len(A) \in Nat
      /\ \A j \in 0 .. N : end[j] \in Nat
    BY <1>1, EndIs
<1>3. k \in 0 .. N /\ end[k] \in Nat
    BY <1>1, <1>2
<1>4. /\ a \in Nat /\ end[k] <= a /\ a <= Len(A) /\ c \in Nat /\ a <= c /\ c <= Len(A)
      /\ c \in end[k] .. Len(A)
    BY <1>1, <1>2, <1>3
<1>5. p.frames = Bodies(s, 0, k) /\ p.buffer = SubSeq(A, end[k] + 1, a)
    BY <1>1 DEF Parsed
<1>6. PICK b : b = p.buffer \o chunk
    OBVIOUS
<1>7. b = SubSeq(A, end[k] + 1, c)
    <2>1. PICK u, v, d : u = p.buffer /\ v = chunk /\ d = SubSeq(A, end[k] + 1, c)
        OBVIOUS
    <2>2. u \in Seq(Byte) /\ Len(u) = a - end[k] /\ \A j \in 1 .. a - end[k] : u[j] = A[end[k] + j]
        <3>1. PICK x : x = end[k]
            OBVIOUS
        <3>2. x \in Nat /\ x <= a /\ u = SubSeq(A, x + 1, a)
            BY <1>3, <1>4, <1>5, <2>1, <3>1
        <3>3. u \in Seq(Byte) /\ Len(u) = a - x /\ \A j \in 1 .. a - x : u[j] = A[x + j]
            BY <1>2, <1>4, <3>2, PartOf
        <3>. QED
            BY <3>1, <3>3
    <2>3. v \in Seq(Byte) /\ Len(v) = c - a /\ \A j \in 1 .. c - a : v[j] = A[a + j]
        BY <1>1, <1>2, <1>4, <2>1, PartOf
    <2>4. d \in Seq(Byte) /\ Len(d) = c - end[k] /\ \A j \in 1 .. c - end[k] : d[j] = A[end[k] + j]
        <3>1. PICK x : x = end[k]
            OBVIOUS
        <3>2. x \in Nat /\ x <= c /\ d = SubSeq(A, x + 1, c)
            BY <1>3, <1>4, <2>1, <3>1
        <3>3. d \in Seq(Byte) /\ Len(d) = c - x /\ \A j \in 1 .. c - x : d[j] = A[x + j]
            BY <1>2, <1>4, <3>2, PartOf
        <3>. QED
            BY <3>1, <3>3
    <2>5. b = u \o v
        BY <1>6, <2>1
    <2>6. b \in Seq(Byte)
        BY <2>2, <2>3, <2>5, ConcatProperties
    <2>7. Len(b) = Len(u) + Len(v)
        BY <2>2, <2>3, <2>5, ConcatProperties
    <2>8. \A j \in 1 .. Len(u) + Len(v) : b[j] = IF j <= Len(u) THEN u[j] ELSE v[j - Len(u)]
        BY <2>2, <2>3, <2>5, ConcatProperties
    <2>9. PICK e : e = end[k]
        OBVIOUS
    <2>10. e \in Nat /\ e <= a /\ Len(u) = a - e /\ Len(v) = c - a /\ Len(b) = c - e /\ Len(d) = c - e
        BY <1>3, <1>4, <2>2, <2>3, <2>4, <2>7, <2>9
    <2>11. ASSUME NEW j \in 1 .. Len(b) PROVE b[j] = d[j]
        <3>1. j \in 1 .. c - e /\ j \in 1 .. Len(u) + Len(v)
            BY <2>7, <2>10
        <3>2. d[j] = A[e + j]
            BY <2>4, <2>9, <3>1
        <3>3. CASE j <= Len(u)
            <4>1. j \in 1 .. a - e
                BY <1>4, <2>10, <3>1, <3>3
            <4>2. u[j] = A[e + j]
                BY <2>2, <2>9, <4>1
            <4>. QED
                BY <2>8, <3>1, <3>2, <3>3, <4>2
        <3>4. CASE ~ (j <= Len(u))
            <4>1. j - Len(u) \in 1 .. c - a /\ a + (j - Len(u)) = e + j
                BY <1>4, <2>10, <3>1, <3>4
            <4>2. v[j - Len(u)] = A[e + j]
                BY <2>3, <4>1
            <4>. QED
                BY <2>8, <3>1, <3>2, <3>4, <4>2
        <3>. QED
            BY <3>3, <3>4
    <2>12. b = d
        <3>1. Len(b) = Len(d)
            BY <2>10
        <3>. QED
            BY <2>4, <2>6, <2>11, <3>1, SeqEqual
    <2>. QED
        BY <2>1, <2>12
<1>8. b \in Seq(Byte)
    <2>1. end[k] <= c
        BY <1>3, <1>4
    <2>. QED
        BY <1>2, <1>3, <1>4, <1>7, <2>1, PartOf
<1>9. PICK r : /\ Cutting(b, r)
               /\ r[Len(b)].loop # "failed" =>
                     PushChunk(p, chunk) = Parsed(p.frames \o r[Len(b)].frames, r[Len(b)].buffer, "waits")
    BY <1>6, <1>8, PushRuns
<1>10. PICK m \in k .. N :
          /\ end[m] <= c /\ Between(s, m, c)
          /\ r[Len(b)].loop # "failed" /\ r[Len(b)].frames = Bodies(s, k, m)
          /\ r[Len(b)].buffer = SubSeq(A, end[m] + 1, c)
    <2>1. c \in End(s)[k] .. Len(Bytes(s)) /\ b = SubSeq(Bytes(s), End(s)[k] + 1, c)
        BY <1>1, <1>4, <1>7
    <2>2. \E m \in k .. Len(s) :
              /\ End(s)[m] <= c /\ Between(s, m, c)
              /\ r[Len(b)].loop # "failed" /\ r[Len(b)].frames = Bodies(s, k, m)
              /\ r[Len(b)].buffer = SubSeq(Bytes(s), End(s)[m] + 1, c)
        <3>1. k \in 0 .. Len(s) /\ s \in Streams
            OBVIOUS
        <3>2. Cutting(b, r)
            BY <1>9
        <3>. QED
            <4>1. PICK d : d = c
                OBVIOUS
            <4>2. d \in End(s)[k] .. Len(Bytes(s))
                BY <2>1, <4>1
            <4>3. \A f, g : f = SubSeq(Bytes(s), End(s)[k] + 1, d) /\ Cutting(f, g) =>
              \E m \in k .. Len(s) :
                 /\ End(s)[m] <= d /\ Between(s, m, d)
                 /\ g[Len(f)].loop # "failed" /\ g[Len(f)].frames = Bodies(s, k, m)
                 /\ g[Len(f)].buffer = SubSeq(Bytes(s), End(s)[m] + 1, d)
                BY <4>2, RoundsEnd
            <4>4. b = SubSeq(Bytes(s), End(s)[k] + 1, d) /\ Cutting(b, r)
                BY <2>1, <3>2, <4>1
            <4>5. \E m \in k .. Len(s) :
                 /\ End(s)[m] <= d /\ Between(s, m, d)
                 /\ r[Len(b)].loop # "failed" /\ r[Len(b)].frames = Bodies(s, k, m)
                 /\ r[Len(b)].buffer = SubSeq(Bytes(s), End(s)[m] + 1, d)
                BY <4>3, <4>4
            <4>. QED
                BY <4>1, <4>5
    <2>. QED
        BY <1>1, <2>2
<1>11. PushChunk(p, chunk) = Parsed(Bodies(s, 0, k) \o Bodies(s, k, m), SubSeq(A, end[m] + 1, c), "waits")
    BY <1>5, <1>9, <1>10
<1>12. Bodies(s, 0, k) \o Bodies(s, k, m) = Bodies(s, 0, m)
    BY <1>1, <1>3, <1>10, BodiesJoin
<1>. QED
    BY <1>1, <1>10, <1>11, <1>12

LEMMA WholeOf ==
    ASSUME NEW A \in Seq(Byte), NEW a \in Nat, NEW n \in Nat, a + n <= Len(A)
    PROVE  /\ SubSeq(SubSeq(A, a + 1, Len(A)), 1, n) = SubSeq(A, a + 1, a + n)
           /\ From(SubSeq(A, a + 1, Len(A)), n + 1) = SubSeq(A, a + n + 1, Len(A))
           /\ Len(SubSeq(A, a + 1, Len(A))) = Len(A) - a
<1>1. PICK L, b : L = Len(A) /\ b = SubSeq(A, a + 1, L)
    OBVIOUS
<1>2. L \in Nat /\ a <= L /\ n <= L - a /\ a + n <= L /\ a + n \in Nat
    BY <1>1
<1>3. b \in Seq(Byte) /\ Len(b) = L - a /\ \A j \in 1 .. L - a : b[j] = A[a + j]
    BY <1>1, <1>2, PartOf
<1>4. SubSeq(b, 1, n) = SubSeq(A, a + 1, a + n)
    <2>1. PICK z, w, c, d : z = 0 /\ w = a + n /\ c = SubSeq(b, z + 1, n) /\ d = SubSeq(A, a + 1, w)
        OBVIOUS
    <2>2. z \in Nat /\ z <= n /\ n <= Len(b) /\ w \in Nat /\ a <= w /\ w <= Len(A)
        BY <1>1, <1>2, <1>3, <2>1
    <2>3. c \in Seq(Byte) /\ Len(c) = n - z /\ \A j \in 1 .. n - z : c[j] = b[z + j]
        <3>1. b \in Seq(Byte) /\ z \in Nat /\ n \in Nat /\ z <= n /\ n <= Len(b)
            BY <1>3, <2>2
        <3>. QED
            BY <2>1, <3>1, PartOf
    <2>4. d \in Seq(Byte) /\ Len(d) = w - a /\ \A j \in 1 .. w - a : d[j] = A[a + j]
        BY <2>1, <2>2, PartOf
    <2>5. Len(c) = n /\ Len(d) = n
        BY <2>1, <2>3, <2>4
    <2>6. ASSUME NEW j \in 1 .. Len(c) PROVE c[j] = d[j]
        <3>1. j \in 1 .. n - z /\ z + j = j /\ j \in 1 .. L - a /\ j \in 1 .. w - a
            BY <1>2, <2>1, <2>5
        <3>. QED
            BY <1>3, <2>3, <2>4, <3>1
    <2>7. c = d
        BY <2>3, <2>4, <2>5, <2>6, SeqEqual
    <2>8. z + 1 = 1
        BY <2>1
    <2>. QED
        BY <2>1, <2>7, <2>8
<1>5. From(b, n + 1) = SubSeq(A, a + n + 1, L)
    <2>1. PICK w : w = a + n
        OBVIOUS
    <2>2. w \in Nat /\ a <= w /\ w <= L /\ L <= Len(A) /\ w - a + 1 = n + 1
        BY <1>1, <1>2, <2>1
    <2>3. SubSeq(SubSeq(A, a + 1, L), w - a + 1, L - a) = SubSeq(A, w + 1, L)
        BY <1>2, <2>2, PartOfPart
    <2>. QED
        BY <1>1, <1>3, <2>1, <2>2, <2>3 DEF From
<1>. QED
    BY <1>1, <1>3, <1>4, <1>5

LEMMA FramesKept == FramesInv /\ (ChunkArrives \/ UNCHANGED framesVars) => FramesInv'
<1>. SUFFICES ASSUME FramesInv, ChunkArrives \/ UNCHANGED framesVars PROVE FramesInv'
    OBVIOUS
<1>1. PICK s, A, end : s = stream /\ A = Bytes(s) /\ end = End(s)
    OBVIOUS
<1>2. s \in Streams
    BY <1>1 DEF FramesInv
<1>3. PICK k \in 0 .. Len(s) : \E x \in end[k] .. Len(A) :
         /\ parser = Parsed(Bodies(s, 0, k), SubSeq(A, end[k] + 1, x), "waits")
         /\ coming = SubSeq(A, x + 1, Len(A))
         /\ Between(s, k, x)
    BY <1>1 DEF FramesInv
<1>4. PICK a \in end[k] .. Len(A) :
         /\ parser = Parsed(Bodies(s, 0, k), SubSeq(A, end[k] + 1, a), "waits")
         /\ coming = SubSeq(A, a + 1, Len(A))
         /\ Between(s, k, a)
    BY <1>3
<1>5. CASE UNCHANGED framesVars
    <2>1. stream' = s /\ parser' = parser /\ coming' = coming
        BY <1>1, <1>5 DEF framesVars
    <2>. QED
        BY <1>1, <1>2, <1>3, <1>4, <2>1 DEF FramesInv
<1>6. CASE ChunkArrives
    <2>1. PICK n \in DOMAIN coming :
              /\ parser' = PushChunk(parser, SubSeq(coming, 1, n))
              /\ coming' = From(coming, n + 1)
              /\ stream' = stream
        BY <1>6 DEF ChunkArrives
    <2>2. /\ Len(s) \in Nat /\ A \in Seq(Byte) /\ Len(A) \in Nat
          /\ \A j \in 0 .. Len(s) : end[j] \in Nat
        BY <1>1, <1>2, EndIs
    <2>3. end[k] \in Nat /\ a \in Nat /\ a <= Len(A) /\ end[k] <= a
        BY <1>3, <1>4, <2>2
    <2>4. coming \in Seq(Byte) /\ Len(coming) = Len(A) - a
        BY <1>4, <2>2, <2>3, PartOf
    <2>5. n \in 1 .. Len(A) - a
        BY <2>1, <2>4
    <2>6. n \in Nat /\ a + n <= Len(A)
        BY <2>2, <2>3, <2>5
    <2>7. PICK c, chunk : c = a + n /\ chunk = SubSeq(coming, 1, n)
        OBVIOUS
    <2>8. chunk = SubSeq(A, a + 1, c) /\ coming' = SubSeq(A, c + 1, Len(A))
        BY <1>4, <2>1, <2>2, <2>3, <2>6, <2>7, WholeOf
    <2>9. /\ c \in a .. Len(Bytes(s)) /\ a \in End(s)[k] .. Len(Bytes(s))
          /\ parser = Parsed(Bodies(s, 0, k), SubSeq(Bytes(s), End(s)[k] + 1, a), "waits")
          /\ chunk = SubSeq(Bytes(s), a + 1, c)
        <3>1. c \in a .. Len(A)
            BY <2>2, <2>3, <2>6, <2>7
        <3>. QED
            BY <1>1, <1>4, <2>8, <3>1
    <2>10. \E m \in k .. Len(s) :
              /\ End(s)[m] <= c /\ Between(s, m, c)
              /\ PushChunk(parser, chunk)
                    = Parsed(Bodies(s, 0, m), SubSeq(Bytes(s), End(s)[m] + 1, c), "waits")
        <3>1. PICK x, p : x = a /\ p = parser
            OBVIOUS
        <3>2. x \in End(s)[k] .. Len(Bytes(s)) /\ c \in x .. Len(Bytes(s)) /\ k \in 0 .. Len(s)
            BY <1>3, <2>9, <3>1
        <3>3. \A q, d :
                 /\ q = Parsed(Bodies(s, 0, k), SubSeq(Bytes(s), End(s)[k] + 1, x), "waits")
                 /\ d = SubSeq(Bytes(s), x + 1, c)
                 => \E m \in k .. Len(s) :
                       /\ End(s)[m] <= c /\ Between(s, m, c)
                       /\ PushChunk(q, d) = Parsed(Bodies(s, 0, m), SubSeq(Bytes(s), End(s)[m] + 1, c), "waits")
            BY <1>2, <3>2, PushKeeps
        <3>4. \E m \in k .. Len(s) :
                 /\ End(s)[m] <= c /\ Between(s, m, c)
                 /\ PushChunk(p, chunk) = Parsed(Bodies(s, 0, m), SubSeq(Bytes(s), End(s)[m] + 1, c), "waits")
            BY <2>9, <3>1, <3>3
        <3>. QED
            BY <3>1, <3>4
    <2>11. PICK m \in k .. Len(s) :
              /\ end[m] <= c /\ Between(s, m, c)
              /\ PushChunk(parser, chunk) = Parsed(Bodies(s, 0, m), SubSeq(A, end[m] + 1, c), "waits")
        BY <1>1, <2>10
    <2>12. m \in 0 .. Len(s) /\ c \in end[m] .. Len(A)
        <3>1. m \in 0 .. Len(s)
            BY <1>3, <2>2, <2>11
        <3>2. end[m] \in Nat
            BY <2>2, <3>1
        <3>. QED
            BY <2>2, <2>3, <2>6, <2>7, <2>11, <3>1, <3>2
    <2>13. /\ parser' = Parsed(Bodies(s, 0, m), SubSeq(A, end[m] + 1, c), "waits")
           /\ stream' = s
        BY <1>1, <2>1, <2>7, <2>11
    <2>. QED
        BY <1>1, <1>2, <2>8, <2>11, <2>12, <2>13 DEF FramesInv
<1>. QED
    BY <1>5, <1>6

LEMMA FramesStart == FramesInit => FramesInv
<1>. SUFFICES ASSUME FramesInit PROVE FramesInv
    OBVIOUS
<1>1. PICK s, A, end, z : s = stream /\ A = Bytes(s) /\ end = End(s) /\ z = 0
    OBVIOUS
<1>2. s \in Streams /\ coming = A /\ parser = Parsed(<<>>, <<>>, "waits")
    BY <1>1 DEF FramesInit
<1>3. Len(s) \in Nat /\ A \in Seq(Byte) /\ Len(A) \in Nat /\ end[z] = z
    BY <1>1, <1>2, EndIs DEF Laid
<1>4. z \in 0 .. Len(s) /\ z \in z .. Len(s) /\ z \in Nat /\ z \in end[z] .. Len(A) /\ z <= z /\ z <= Len(A)
    BY <1>1, <1>3
<1>5. Bodies(s, 0, z) = <<>>
    <2>1. Bodies(s, z, z) = <<>>
        BY <1>2, <1>4, BodiesJoin
    <2>. QED
        BY <1>1, <2>1
<1>6. SubSeq(A, end[z] + 1, z) = <<>>
    <2>1. PICK b : b = SubSeq(A, z + 1, z)
        OBVIOUS
    <2>2. b \in Seq(Byte) /\ Len(b) = z - z
        BY <1>3, <1>4, <2>1, PartOf
    <2>3. b = <<>>
        BY <1>4, <2>2, EmptySeq
    <2>. QED
        BY <1>3, <2>1, <2>3
<1>7. coming = SubSeq(A, z + 1, Len(A))
    <2>1. z + 1 = 1
        BY <1>1
    <2>2. SubSeq(A, 1, Len(A)) = A
        BY <1>3, SubSeqFull
    <2>. QED
        BY <1>2, <2>1, <2>2
<1>8. Between(s, z, z)
    BY <1>1, <1>3 DEF Between
<1>. QED
    BY <1>1, <1>2, <1>4, <1>5, <1>6, <1>7, <1>8 DEF FramesInv

LEMMA FramesAreWhole == FramesInv => ChunksDoNotMatter
<1>. SUFFICES ASSUME FramesInv PROVE ChunksDoNotMatter
    OBVIOUS
<1>1. PICK s, A, end, N : s = stream /\ A = Bytes(s) /\ end = End(s) /\ N = Len(s)
    OBVIOUS
<1>2. s \in Streams
    BY <1>1 DEF FramesInv
<1>3. PICK k \in 0 .. N : \E x \in end[k] .. Len(A) :
         /\ parser = Parsed(Bodies(s, 0, k), SubSeq(A, end[k] + 1, x), "waits")
         /\ coming = SubSeq(A, x + 1, Len(A))
         /\ Between(s, k, x)
    BY <1>1 DEF FramesInv
<1>4. PICK a \in end[k] .. Len(A) :
         /\ parser = Parsed(Bodies(s, 0, k), SubSeq(A, end[k] + 1, a), "waits")
         /\ coming = SubSeq(A, a + 1, Len(A))
         /\ Between(s, k, a)
    BY <1>3
<1>5. /\ N \in Nat /\ A \in Seq(Byte) /\ Len(A) \in Nat /\ end[N] = Len(A)
      /\ \A j \in 0 .. N : end[j] \in Nat
      /\ \A i, j \in 0 .. N : i <= j => end[i] <= end[j]
    BY <1>1, <1>2, EndIs DEF Laid
<1>6. PICK all, got : all = Bodies(s, 0, N) /\ got = Bodies(s, 0, k)
    OBVIOUS
<1>7. N \in k .. N /\ N \in 0 .. N /\ k \in k .. N /\ k \in Nat /\ k <= N
    BY <1>3, <1>5
<1>8. all \in Seq(Seq(Byte)) /\ Len(all) = N /\ \A j \in 1 .. N : all[j] = s[j].body
    <2>1. 0 \in 0 .. N /\ N \in 0 .. N
        BY <1>5
    <2>2. Bodies(s, 0, N) \in Seq(Seq(Byte))
        BY <1>1, <1>2, <2>1, BodiesJoin
    <2>. QED
        BY <1>1, <1>2, <1>3, <1>6, <1>7, <2>2, BodiesJoin
<1>9. got \in Seq(Seq(Byte)) /\ Len(got) = k /\ \A j \in 1 .. k : got[j] = s[j].body
    <2>1. 0 \in 0 .. N /\ k \in 0 .. N
        BY <1>3, <1>5
    <2>2. Bodies(s, 0, k) \in Seq(Seq(Byte))
        BY <1>1, <1>2, <2>1, BodiesJoin
    <2>. QED
        BY <1>1, <1>2, <1>3, <1>6, <1>7, <2>2, BodiesJoin
<1>10. [i \in DOMAIN stream |-> stream[i].body] = all
    <2>1. s \in Seq(Frames) /\ DOMAIN s = 1 .. N
        BY <1>1, <1>2, FramesAssumption
    <2>2. DOMAIN all = 1 .. N /\ all = [i \in 1 .. N |-> all[i]]
        BY <1>8, LenProperties
    <2>3. all = [i \in 1 .. N |-> s[i].body]
        BY <1>8, <2>2
    <2>. QED
        BY <1>1, <2>1, <2>3
<1>11. parser.frames = got
    BY <1>4, <1>6 DEF Parsed
<1>12. IsPrefix(got, all)
    <2>1. PICK b : b = SubSeq(all, 1, k)
        OBVIOUS
    <2>2. \A i \in 1 .. k : all[i] \in Seq(Byte)
        BY <1>7, <1>8, ElementOfSeq
    <2>3. 1 \in Int /\ k \in Int
        BY <1>7
    <2>4. /\ b \in Seq(Seq(Byte)) /\ Len(b) = (IF 1 <= k THEN k - 1 + 1 ELSE 0)
          /\ \A i \in 1 .. k - 1 + 1 : b[i] = all[1 + i - 1]
        BY <2>1, <2>2, <2>3, SubSeqProperties
    <2>5. Len(b) = k
        BY <1>7, <2>4
    <2>6. ASSUME NEW j \in 1 .. Len(b) PROVE b[j] = got[j]
        <3>1. j \in 1 .. k - 1 + 1 /\ 1 + j - 1 = j /\ j \in 1 .. N /\ j \in 1 .. k
            BY <1>5, <1>7, <2>5
        <3>. QED
            BY <1>8, <1>9, <2>4, <3>1
    <2>7. b = got
        BY <1>9, <2>4, <2>5, <2>6, SeqEqual
    <2>8. SubSeq(got, 1, Len(got)) = got
        BY <1>9, SubSeqFull
    <2>. QED
        BY <1>7, <1>8, <1>9, <2>1, <2>7, <2>8 DEF IsPrefix
<1>13. ASSUME coming = <<>> PROVE k = N
    <2>1. a \in Nat /\ a <= Len(A) /\ end[k] \in Nat
        BY <1>3, <1>4, <1>5
    <2>2. Len(coming) = Len(A) - a
        BY <1>4, <1>5, <2>1, PartOf
    <2>3. a = Len(A)
        BY <1>5, <1>13, <2>1, <2>2
    <2>4. ASSUME k # N PROVE FALSE
        <3>1. k + 1 \in 0 .. N /\ k < N /\ k + 1 <= N /\ k + 1 \in 1 .. N /\ (k + 1) - 1 = k
            BY <1>5, <1>7, <2>4
        <3>2. end[k + 1] <= Len(A) /\ end[k + 1] \in Nat
            BY <1>5, <1>7, <3>1
        <3>3. a = end[k]
            BY <1>1, <1>4, <2>1, <2>3, <3>2 DEF Between
        <3>4. end[k + 1] = end[k] + Len(Framed(s[k + 1])) /\ Len(Framed(s[k + 1])) \in Nat
                /\ Len(Framed(s[k + 1])) >= 1
            <4>1. end[k + 1] = end[(k + 1) - 1] + Len(Framed(s[k + 1]))
                BY <1>1, <1>2, <3>1, EndIs DEF Laid
            <4>2. Len(Framed(s[k + 1])) \in Nat /\ Len(Framed(s[k + 1])) >= 1
                BY <1>1, <1>2, <3>1, StreamIs
            <4>. QED
                BY <3>1, <4>1, <4>2
        <3>. QED
            BY <2>1, <2>3, <3>2, <3>3, <3>4
    <2>. QED
        BY <2>4
<1>. QED
    BY <1>6, <1>10, <1>11, <1>12, <1>13 DEF ChunksDoNotMatter

-----------------------------------------------------------------------------
(* The connections of one runtime *)

HostInv == AccessInv /\ EditInv /\ LinkInv /\ FramesInv /\ ServerInv /\ PostingInv

LEMMA HostKeeps == HostInv /\ [HostNext]_hostVars => HostInv'
<1> SUFFICES ASSUME HostInv, [HostNext]_hostVars PROVE HostInv'
  OBVIOUS
<1>1. /\ AccessNext \/ UNCHANGED accessVars
      /\ DesktopNext \/ UNCHANGED desktopVars
      /\ ChunkArrives \/ UNCHANGED framesVars
      /\ ClientNext \/ UNCHANGED clientVars
      /\ WorkerNext \/ UNCHANGED workerVars
  BY DEF HostNext, hostVars
<1>2. AccessInv' /\ EditInv'
  BY <1>1, AccessKept DEF HostInv
<1>3. ServerInv'
  BY <1>1, ServerKept DEF HostInv
<1>4. PostingInv'
  BY <1>1, PostingKept DEF HostInv
<1>5. LinkInv'
  BY <1>1, LinkKept DEF HostInv
<1>6. FramesInv'
  BY <1>1, FramesKept DEF HostInv
<1> QED BY <1>2, <1>3, <1>4, <1>5, <1>6 DEF HostInv

LEMMA HostStarts == HostInit => HostInv
BY OAuthStart, EditsStart, LinkStart, FramesStart, ServerStart, PostingStart
   DEF HostInit, AccessInit, HostInv

LEMMA HostHolds == HostSpec => []HostInv
BY HostStarts, HostKeeps, PTL DEF HostSpec

\* A code, and a refresh token of this instance, is exchanged for one pair
\* (token.ts), over every stop, start and migration.
THEOREM AlwaysExchangedOnce == HostSpec => []ExchangedOnce
<1>1. HostInv => ExchangedOnce
  BY DEF HostInv, AccessInv
<1> QED BY <1>1, HostHolds, PTL

\* A client that was registered and a connection that was issued are there at
\* every runtime that is up, until they are deleted, exchanged or expire, or
\* their file is damaged (oauth.ts, token.ts, migration.ts).
THEOREM AlwaysKept == HostSpec => []IssuedIsKept
<1>1. HostInv => IssuedIsKept
  <2> SUFFICES ASSUME AccessInv, phase = "up"
               PROVE  /\ "clients" \in faults \/ registered \subseteq clients
                      /\ deleted \cap clients = {}
                      /\ "tokens" \in faults \/ \A i \in 1 .. Len(pairs) :
                            LET t == [pair |-> i, kind |-> "refresh"] IN
                            t \in expired \/ Replaced(i) \/ t \in tokens
    BY DEF HostInv, IssuedIsKept
  <2>1. ("clients" \in faults \/ registered \subseteq clients) /\ deleted \cap clients = {}
    BY DEF AccessInv, ClientsOK
  <2>2. "tokens" \in faults \/ Keeps(tokens)
    BY DEF AccessInv, TokensOK
  <2> QED BY <2>1, <2>2 DEF Keeps, Refreshing
<1> QED BY <1>1, HostHolds, PTL

\* The workspaces that may be used are those the user granted and has not revoked
\* since, and those of the version before (workspace-grants.ts, migration.ts).
THEOREM GrantsAlwaysFollow == HostSpec => []GrantsFollowUser
<1>1. HostInv => GrantsFollowUser
  BY DEF HostInv, AccessInv, GrantsOK
<1> QED BY <1>1, HostHolds, PTL

\* An edit that was answered with success is in the file, whatever edits of this
\* server ran beside it or after it, and whenever their helpers failed (edit.ts).
THEOREM EditsAlwaysKept == HostSpec => []EditKept
<1>1. HostInv => EditKept
  BY DEF HostInv, EditInv
<1> QED BY <1>1, HostHolds, PTL

\* What the runtime knows of Desktop, the pipe it hands out and the thread it opens
\* belong to the connection there is, and not to one before it, however often the
\* line drops and what still arrives from an earlier one
\* (desktop-ipc-client.ts, desktop-ipc-observer.ts, desktop-tools-pipe-resolver.ts).
THEOREM AlwaysThisConnection == HostSpec => []OnlyThisConnection
<1>1. HostInv => OnlyThisConnection
  BY LinkIsOfConnection DEF HostInv
<1> QED BY <1>1, HostHolds, PTL

\* The messages of a well-formed stream are received once each, whole and in order,
\* however its bytes are cut into chunks (desktop-ipc-protocol.ts).
THEOREM AlwaysWholeFrames == HostSpec => []ChunksDoNotMatter
<1>1. HostInv => ChunksDoNotMatter
  BY FramesAreWhole DEF HostInv
<1> QED BY <1>1, HostHolds, PTL

\* A turn reported as not dispatched has not begun and never will, and a watcher
\* gives a turn up only when its end was not received (client.ts).
THEOREM AlwaysToldTruly == HostSpec => []TurnsToldTruly
<1>1. HostInv => TurnsToldTruly
  BY ServerTellsTruly DEF HostInv
<1> QED BY <1>1, HostHolds, PTL

\* What the browser worker reports is so: a request that was submitted is in the
\* conversation unless its call was misled by its page, and what was collected is
\* the whole text of its first answer unless that happened to its call twice.
THEOREM ReportsAlwaysTrue == HostSpec => []ReportsAreTrue
<1>1. HostInv => ReportsAreTrue
  BY PostingTellsTruly DEF HostInv
<1> QED BY <1>1, HostHolds, PTL

\* A worker that has stopped, or failed to start, has no browser, unless a call
\* that came in during the stop launched one; and a handler that is done no page.
THEOREM NeverLeftOpen == HostSpec => []NothingLeftOpen
<1>1. HostInv => NothingLeftOpen
  BY PostingTellsTruly DEF HostInv
<1> QED BY <1>1, HostHolds, PTL
==============================================================================

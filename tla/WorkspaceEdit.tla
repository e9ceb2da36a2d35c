---------------------------- MODULE WorkspaceEdit ----------------------------
(***************************************************************************)
(* The edits of one file of a workspace (workspace/edit.ts): a chat reads  *)
(* the file with its hash, and submits an edit of what it read.  The edits *)
(* of a path run one after the other; each has a helper process lease the  *)
(* directories, reads the file again, and has the helper replace it.       *)
(*                                                                         *)
(* A content is the set of the edits and outside writes that are in it.    *)
(***************************************************************************)
EXTENDS Naturals, Sequences, FiniteSets

CONSTANTS
    Edits,
    Outside,         \* writes of other programs, which add to what they find
    MaxBroken        \* bound: helpers that fail

ASSUME EditAssumption == Edits \cap Outside = {} /\ MaxBroken \in Nat

VARIABLES
    content,
    edit,            \* of each edit: where it is, what it was made of, and what it read
    queue,           \* serializeRecord: the calls of the path
    broken

editVars == <<content, edit, queue, broken>>

-----------------------------------------------------------------------------
Answered == {"done", "conflict", "failed"}

EditTypeOK ==
    /\ content \subseteq Edits \cup Outside
    /\ edit \in [Edits -> [at : {"idle", "read", "queued", "leased", "ready"} \cup Answered,
                           seen : SUBSET (Edits \cup Outside), base : SUBSET (Edits \cup Outside)]]
    /\ queue \in Seq(Edits) /\ broken \in 0 .. MaxBroken

EditInit ==
    /\ content = {} /\ queue = <<>> /\ broken = 0
    /\ edit = [e \in Edits |-> [at |-> "idle", seen |-> {}, base |-> {}]]

Goto(e, place) == edit' = [edit EXCEPT ![e].at = place]
Breaks == broken < MaxBroken /\ broken' = broken + 1

\* workspace_read_file: the page and its hash are of the same snapshot.
ReadFile(e) ==
    /\ edit[e].at \in {"idle", "conflict", "failed"}
    /\ edit' = [edit EXCEPT ![e].at = "read", ![e].seen = content]
    /\ UNCHANGED <<content, queue, broken>>

Submit(e) ==
    /\ edit[e].at = "read"
    /\ Goto(e, "queued")
    /\ queue' = Append(queue, e)
    /\ UNCHANGED <<content, broken>>

\* The call before has settled, whatever became of it.
AnyTurn(e) == e \in {queue[i] : i \in 1 .. Len(queue)}
Turn(e) == queue # <<>> /\ Head(queue) = e
Leave == queue' = Tail(queue)

\* The helper reports READY, or fails, or is killed when it has not after a while.
Lease(e) ==
    /\ edit[e].at = "queued" /\ Turn(e)
    /\ Goto(e, "leased")
    /\ UNCHANGED <<content, queue, broken>>
LeaseFails(e) ==
    /\ edit[e].at = "queued" /\ Turn(e)
    /\ Breaks
    /\ Goto(e, "failed") /\ Leave
    /\ UNCHANGED content

\* The text of the edit is found in what the chat has read, but for an edit that
\* is in it already.
Check(e) ==
    /\ edit[e].at = "leased" /\ Turn(e)
    /\ \/ /\ content # edit[e].seen
          /\ Goto(e, "conflict") /\ Leave
       \/ /\ content = edit[e].seen /\ e \in content
          /\ Goto(e, "failed") /\ Leave
       \/ /\ content = edit[e].seen /\ e \notin content
          /\ edit' = [edit EXCEPT ![e].at = "ready", ![e].base = content]
          /\ UNCHANGED queue
    /\ UNCHANGED <<content, broken>>

\* The helper replaces the file with what was computed, whoever has written it
\* in between.
Replace(e) == content' = edit[e].base \cup {e}
Commit(e) ==
    /\ edit[e].at = "ready" /\ Turn(e)
    /\ Replace(e)
    /\ Goto(e, "done") /\ Leave
    /\ UNCHANGED broken
\* The helper ends before it has replaced the file, or before it could say so.
CommitFails(e) ==
    /\ edit[e].at = "ready" /\ Turn(e)
    /\ Breaks
    /\ Replace(e) \/ UNCHANGED content
    /\ Goto(e, "failed") /\ Leave

Proceed(e) == Lease(e) \/ Check(e) \/ Commit(e)
Fails(e) == LeaseFails(e) \/ CommitFails(e)

\* This is no lock against other programs (edit.ts:100).
WriteOutside(x) ==
    /\ x \notin content /\ \A e \in Edits : x \notin edit[e].seen
    /\ content' = content \cup {x}
    /\ UNCHANGED <<edit, queue, broken>>

\* The runtime stops; a helper that has its command may still carry it out.
EditsStop ==
    /\ \/ UNCHANGED content
       \/ \E e \in Edits : edit[e].at = "ready" /\ Replace(e)
    /\ edit' = [e \in Edits |->
                  IF edit[e].at \in {"queued", "leased", "ready"}
                  THEN [edit[e] EXCEPT !.at = "failed"] ELSE edit[e]]
    /\ queue' = <<>>
    /\ UNCHANGED broken
=============================================================================

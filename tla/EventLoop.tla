------------------------------ MODULE EventLoop ------------------------------
(***************************************************************************)
(* The calls of the supervisor that are under way in its one event loop.   *)
(* A call runs until it awaits a promise; it resumes when the promise has  *)
(* settled, and an outside event (a child's exit, a timer, a click in the  *)
(* tray menu) is handled only when no call can run.                        *)
(***************************************************************************)
EXTENDS Integers, FiniteSets

CONSTANTS Callers    \* users of the supervisor: the tray menu, the command line

VARIABLES th,        \* th[t]: what the call of thread t is doing
          news       \* news[t]: how the promise awaited by t settled, until t resumes

(* The timer of the health monitor has one call at a time (its `checking`  *)
(* flag), and so has the handler of a runtime's exit.                      *)
Threads == Callers \cup {"tick", "exit"}

NoPromise == <<"none">>

(* Where a call goes on when the promise it awaits is fulfilled or         *)
(* rejected.                                                               *)
After ==
    [joinLifecycle  |-> [ok |-> "return",     fail |-> "return"],
     joinRecovery   |-> [ok |-> "startAgain", fail |-> "startAgain"],
     stopLifecycle  |-> [ok |-> "stopAgain",  fail |-> "stopAgain"],
     stopRecovery   |-> [ok |-> "stopGo",     fail |-> "stopGo"],
     afterStop      |-> [ok |-> "spawn",      fail |-> "startFailed"],
     spawning       |-> [ok |-> "started",    fail |-> "startFailed"],
     tunnelling     |-> [ok |-> "serving",    fail |-> "startFailed"],
     tunnelStopping |-> [ok |-> "stopProc",   fail |-> "stopProc"],
     procStopping   |-> [ok |-> "stopDone",   fail |-> "stopDone"]]

Waiting == DOMAIN After \cup {"idle", "health"}

Idle == [op |-> "none", pc |-> "idle", ctx |-> "none", on |-> NoPromise, bad |-> FALSE]

(* A call that is running keeps the loop to itself.                        *)
Paused == \A t \in Threads : th[t].pc \in Waiting

(* Every promise reaction has run: the loop may take the next event.       *)
Drained == Paused /\ \A t \in Threads : news[t] = "none"

Goto(t, label) == th' = [th EXCEPT ![t].pc = label]

Await(t, label, promise) == th' = [th EXCEPT ![t].pc = label, ![t].on = promise]

(* Every call that awaits the promise hears of it.                         *)
Settle(promise, result) ==
    news' = [t \in Threads |-> IF th[t].on = promise THEN result ELSE news[t]]

Resume(t) ==
    /\ Paused
    /\ news[t] # "none"
    /\ th' = [th EXCEPT ![t].pc = After[@][news[t]], ![t].on = NoPromise,
                        ![t].bad = @ \/ (th[t].pc = "procStopping" /\ news[t] = "fail")]
    /\ news' = [news EXCEPT ![t] = "none"]

==============================================================================

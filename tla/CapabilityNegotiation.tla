----------------------- MODULE CapabilityNegotiation -----------------------
(***************************************************************************)
(* CapabilityNegotiator: which backend the initial execution is given to.  *)
(* It waits for the desktop, and when the desktop does not come it lets    *)
(* the user choose; the choice falls to the standalone app-server when     *)
(* nobody answers.  A continuation is not negotiated: it follows the       *)
(* backend of the initial execution.                                       *)
(*                                                                         *)
(* The context of the initial execution is bound to the actuation that     *)
(* made it, for as long as the process lives.  Which of the actions it     *)
(* offers to the user follows from its state.                              *)
(***************************************************************************)
EXTENDS InteractiveRecords

VARIABLE cap    \* the capability context of the initial execution

NoContext == [owner |-> NoOne, at |-> "none", st |-> "none", action |-> "none"]

Waiting == cap.at \in {"desktop", "choice"}
Open == {"initializing", "pending", "failed"}

\* only the context and the calls that depend on it
Negotiating == UNCHANGED <<recordVars, providerVars, watch, job, notified, toldVars>>

\* ensureContext, and the first lap of waitForDesktop
Negotiate(a) ==
    /\ act[a].pc = "called" /\ ExecutionOf[a] = Initial
    /\ IF cap.owner = NoOne
       THEN /\ cap' = [owner |-> a, at |-> "desktop", st |-> "pending", action |-> "none"]
            /\ act' = [act EXCEPT ![a].pc = "waiting"]
       ELSE /\ act' = [act EXCEPT ![a].pc = "rejected"]
            /\ UNCHANGED cap
    /\ UNCHANGED op /\ Negotiating

\* a continuation carries the backend it must be given to
Route(a) ==
    LET e == ExecutionOf[a]
        first == IF exec[Initial].backend = "desktop" THEN "desktop" ELSE "server"
    IN /\ act[a].pc = "called" /\ e # Initial /\ At(e, "idle")
       /\ op' = [op EXCEPT ![e] = [pc |-> first, by |-> a, seen |-> {}]]
       /\ act' = [act EXCEPT ![a].pc = "waiting"]
       /\ UNCHANGED cap /\ Negotiating

RecheckDesktop ==
    /\ Waiting /\ cap.st \in Open \cup {"fallback"}
    /\ cap' = [cap EXCEPT !.st = "initializing", !.action = "recheck"]
    /\ UNCHANGED <<act, op>> /\ Negotiating

SelectStandalone ==
    /\ Waiting /\ cap.st \in Open
    /\ cap' = [cap EXCEPT !.st = "fallback", !.action = "standalone"]
    /\ UNCHANGED <<act, op>> /\ Negotiating

\* reconcileDesktopCapability: the same conversation and its pipe are back
Restored ==
    /\ Waiting /\ cap.st \in Open
    /\ cap' = [cap EXCEPT !.st = "recovered", !.action = "none"]
    /\ UNCHANGED <<act, op>> /\ Negotiating

Recovered == cap.st = "recovered"

\* the desktop, or the standalone backend, is given the execution
GiveTo(first) ==
    /\ cap' = [cap EXCEPT !.at = "started", !.action = "none"]
    /\ op' = [op EXCEPT ![Initial] = [pc |-> first, by |-> cap.owner, seen |-> {}]]
    /\ UNCHANGED act /\ Negotiating

WaitAgain ==
    /\ cap' = [cap EXCEPT !.at = "desktop", !.st = "pending", !.action = "none"]
    /\ UNCHANGED <<act, op>> /\ Negotiating

\* the preparation was under way when the user clicked, so it may win
Ready == cap.at = "desktop" /\ GiveTo("desktop")

NotReady ==
    /\ cap.at = "desktop" /\ ~Recovered
    /\ cap' = [cap EXCEPT !.at = "choice", !.st = "failed"]
    /\ UNCHANGED <<act, op>> /\ Negotiating

Chosen ==
    /\ Waiting
    /\ \/ cap.action = "standalone" /\ GiveTo("server")
       \/ cap.action = "recheck" /\ WaitAgain
       \/ cap.at = "choice" /\ Recovered /\ GiveTo("desktop")

\* the window in which the user may choose is over
AfkTimeout ==
    /\ cap.at = "choice" /\ cap.action = "none" /\ ~Recovered
    /\ GiveTo("server")

NegotiationStep ==
    \/ \E a \in Actuations : Negotiate(a) \/ Route(a)
    \/ Ready \/ NotReady \/ Chosen \/ AfkTimeout

UserClicks == RecheckDesktop \/ SelectStandalone \/ Restored
=============================================================================

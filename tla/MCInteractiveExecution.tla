---------------------- MODULE MCInteractiveExecution ----------------------
(***************************************************************************)
(* An initial execution with either a second actuation of it or its        *)
(* continuation, and what may go wrong on the way.                         *)
(***************************************************************************)
EXTENDS InteractiveExecution, TLC

CONSTANTS e1, e2, a1, a2, a3

Asked == (a1 :> e1) @@ (a2 :> e1) @@ (a3 :> e2)

Scenario(asked, f, c, m) == [asked |-> asked, faults |-> f, crashes |-> c, manual |-> m]

Mixed == {
    Scenario({a1, a2}, 1, 0, 0),
    Scenario({a1, a2}, 0, 1, 0),
    Scenario({a1, a3}, 1, 1, 0),
    Scenario({a1, a3}, 0, 1, 1) }
=============================================================================

------------------------- MODULE MCControlledActuation -------------------------
(***************************************************************************)
(* A small instance of ControlledActuation: two authorizations for one     *)
(* execution, so that their requests race.                                 *)
(***************************************************************************)
EXTENDS ControlledActuation

CONSTANTS a1, a2, e1, t1

TwoActuations == {a1, a2}
OneExecution == {e1}
SameExecution == [a \in TwoActuations |-> e1]
OneTask == {t1}
SameTask == [e \in OneExecution |-> t1]
=============================================================================

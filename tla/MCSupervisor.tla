----------------------------- MODULE MCSupervisor -----------------------------
(***************************************************************************)
(* The program starts its supervisor; then two requests of the user, which *)
(* may overlap, and two failures of processes or kills (one when the       *)
(* settings allow no restart): enough for a recovery that fails, for its   *)
(* retry and for giving up.                                                *)
(***************************************************************************)
EXTENDS Supervisor, TLC

FaultsOf == (0 :> 1) @@ (1 :> 2) @@ (2 :> 2)

==============================================================================

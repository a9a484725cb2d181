----------------------------- MODULE MCNrfGateway -----------------------------
(***************************************************************************)
(* What may go wrong in the runs of NrfGateway.                            *)
(***************************************************************************)
EXTENDS NrfGateway

Drops == {"drop"}

DropsAndDelays == {"drop", "other_drop", "late_act", "late_detach", "refused",
                   "late_answer"}
===============================================================================

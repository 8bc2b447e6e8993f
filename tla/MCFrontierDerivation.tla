------------------------ MODULE MCFrontierDerivation ------------------------
(* Model-checking instance of FrontierDerivation. *)
EXTENDS FrontierDerivation

\* One status of each kind record_status tells apart; with the receipt flag,
\* Completed stands for both of its outcomes.
MCStatuses == {"Planned", "Executing", "Failed", "Completed"}
=============================================================================

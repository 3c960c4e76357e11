--------------------------- MODULE MCAgentCheckRun --------------------------
(***************************************************************************)
(* AgentCheckRun for TLC, with three initializations.                      *)
(***************************************************************************)
EXTENDS AgentCheckRun

MCInitializations == <<"load_configuration_models", "create_connection", "configure">>
=============================================================================

---------------------------- MODULE MCAgentUpdate ----------------------------
(***************************************************************************)
(* AgentUpdate for TLC.                                                    *)
(***************************************************************************)
EXTENDS AgentUpdate

=============================================================================

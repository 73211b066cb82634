----------------------------- MODULE MCAgentSync -----------------------------
(***************************************************************************)
(* AgentSync for TLC.  Times and rows are small numbers; the bounds are in *)
(* the configurations.  The days orders look back cover the whole clock.   *)
(***************************************************************************)
EXTENDS AgentSync

CONSTANTS products, orders, inventory

MCWindowed == Module \ {inventory}
MCLookback == [m \in Module |-> IF m = orders THEN MaxTime ELSE 0]

=============================================================================

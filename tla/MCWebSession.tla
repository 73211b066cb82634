---------------------------- MODULE MCWebSession ----------------------------
(***************************************************************************)
(* WebSession for TLC.                                                     *)
(***************************************************************************)
EXTENDS WebSession

CONSTANTS t1, t2, other

=============================================================================

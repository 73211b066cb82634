---------------------------- MODULE MCSyncCommand ----------------------------
(***************************************************************************)
(* The instance of SyncCommand for TLC: one command, two requests in the   *)
(* backend at a time.  SyncCommandProofs covers any number of commands.    *)
(***************************************************************************)
EXTENDS SyncCommand, TLC

=============================================================================

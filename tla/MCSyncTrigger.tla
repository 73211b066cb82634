---------------------------- MODULE MCSyncTrigger ----------------------------
(***************************************************************************)
(* SyncTrigger for TLC.                                                    *)
(***************************************************************************)
EXTENDS SyncTrigger

CONSTANTS orders, inventory, a1, a2

MCTimed == {a1} \X {orders, inventory}

=============================================================================

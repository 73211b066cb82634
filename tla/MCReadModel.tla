---------------------------- MODULE MCReadModel ----------------------------
(***************************************************************************)
(* ReadModel for TLC.                                                      *)
(***************************************************************************)
EXTENDS ReadModel

CONSTANTS monthly, daily, t1, t2

MCView == <<monthly, daily>>
MCScope == {{t1}, {t1, t2}}
MCAsked == {<<{t1}, "customers">>, <<{t1, t2}, "sales">>}
MCAskedOfAll == {<<{t1}, "customers">>, <<{t1, t2}, "customers">>}

=============================================================================

----------------------------- MODULE MCRowIngest -----------------------------
(***************************************************************************)
(* RowIngest for TLC.  Three rows make a run of two batches, of three      *)
(* after the chunk has shrunk, and a resumed run of one.                   *)
(***************************************************************************)
EXTENDS RowIngest

\* Versions of an order: the second row is cancelled at first, the first change cancels one.
MCCancelled == {2, 3}
MCSources == {<<1, 2, 1>>}
MCSources1 == {<<1>>}
\* What changed since the last run: the first and the last row.
MCWindows == {{1, 3}}

=============================================================================

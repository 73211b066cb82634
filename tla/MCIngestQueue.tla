--------------------------- MODULE MCIngestQueue ---------------------------
(***************************************************************************)
(* Instances of IngestQueue for TLC: two tenants, the first with a run of  *)
(* two batches, the second with one inventory batch.                       *)
(***************************************************************************)
EXTENDS IngestQueue, TLC

CONSTANTS b1, b2, b3, t1, t2, r1, r2, d1, d2, h1, h2, w1, w2

MCTenantOf == [b \in Batch |-> IF b = b3 THEN t2 ELSE t1]
MCRunOf    == [b \in Batch |-> IF b = b3 THEN r2 ELSE r1]
MCSymmetry == Permutations(Drain) \cup Permutations(Worker) \cup Permutations(Handler)

=============================================================================

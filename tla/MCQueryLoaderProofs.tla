------------------------- MODULE MCQueryLoaderProofs -------------------------
(* Checks the inductive invariant of QueryLoaderProofs on the instance of  *)
(* MCQueryLoader: three records, chunks of two.                            *)
EXTENDS QueryLoaderProofs

CONSTANTS r1, r2, r3

MCRecords == <<r1, r2, r3>>
=============================================================================

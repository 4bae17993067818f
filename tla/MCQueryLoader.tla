--------------------------- MODULE MCQueryLoader ---------------------------
(* Three CSV records and chunks of two, so that the drain ends with a full *)
(* and with a partial chunk.                                               *)
EXTENDS QueryLoader

CONSTANTS r1, r2, r3

MCRecords == <<r1, r2, r3>>
=============================================================================

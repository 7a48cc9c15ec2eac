------------------------- MODULE MCIncrementalScan -------------------------
(* A movie in two parts and a movie in one file. *)
EXTENDS IncrementalScan

MCGroupOf == [p \in Paths |-> IF p = "b" THEN 2 ELSE 1]
=============================================================================

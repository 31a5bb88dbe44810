----------------------------- MODULE MCRegistry -----------------------------
(* Values for the constants of Registry: the goroutines that call it.       *)
EXTENDS Registry

CONSTANTS c1, c2
=============================================================================

------------------------------ MODULE MCLogging -----------------------------
(* Values for the constants of Logging: two calls of ChangeLogLevel.        *)
EXTENDS Logging

CONSTANTS k1, k2
=============================================================================

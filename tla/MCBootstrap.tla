----------------------------- MODULE MCBootstrap ----------------------------
(* Values for the constants of Bootstrap: two service names.                *)
EXTENDS Bootstrap

CONSTANTS n1, n2
=============================================================================

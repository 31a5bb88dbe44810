------------------------------ MODULE MCDaemon ------------------------------
(* Values for the constants of Daemon: which services are run by which      *)
(* manager, and which of them were given no startup delay.                  *)
EXTENDS Daemon

CONSTANTS
    Continuous,  \* the services run by a RunContinuousManager
    NoDelay      \* the services whose StartupDelay is 0

MCManager == [s \in Services |-> IF s \in Continuous THEN "RunContinuous"
                                 ELSE "RunUntilSuccess"]
MCStartupDelay == [s \in Services |-> IF s \in NoDelay THEN 0 ELSE 1]
MCDefaultDelay == [s \in Services |-> 1]
=============================================================================

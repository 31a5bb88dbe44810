------------------------------ MODULE Lifecycle -----------------------------
(***************************************************************************)
(* What the daemon promises to those who follow its services: the order    *)
(* in which the states of a service are made known, whatever goroutine,    *)
(* channel or panic lies behind it.                                        *)
(***************************************************************************)
CONSTANTS Services, Manager

VARIABLES
    known,  \* the state of each service made known last, "none" before any
    over    \* no more will be made known

(* What may follow a state under each manager.  RunUntilSuccess runs Init   *)
(* before its loop and starts with idle; exit may follow anything, and      *)
(* nothing follows exit.                                                    *)
Follows(m, st) ==
    CASE st = "none" -> {IF m = "RunUntilSuccess" THEN "idle" ELSE "init", "exit"}
      [] st = "init" -> {"idle", "stop", "exit"}
      [] st = "idle" -> {"run", "stop", "exit"}
      [] st = "run"  -> {"stop", "exit"}
      [] st = "stop" -> {"init", "exit"}
      [] OTHER       -> {}

Init ==
    /\ known = [s \in Services |-> "none"]
    /\ over = FALSE

Announce(s) ==
    /\ ~over /\ UNCHANGED over
    /\ known'[s] \in Follows(Manager[s], known[s])
    /\ known' = [known EXCEPT ![s] = known'[s]]

(* Every service has exited; one of a RunUntilSuccessManager may have gone  *)
(* without a word, when it panicked.                                        *)
Finish ==
    /\ ~over /\ over' = TRUE
    /\ \A s \in Services : known[s] = "exit" \/ Manager[s] = "RunUntilSuccess"
    /\ UNCHANGED known

Next == Finish \/ \E s \in Services : Announce(s)

Spec == Init /\ [][Next]_<<known, over>>
=============================================================================

--------------------------- MODULE MCServiceWatch ---------------------------
(* Values for the constants of ServiceWatch: the watches of one service.    *)
EXTENDS ServiceWatch

CONSTANTS c1, c2, g1, g2

Base == [kind |-> "all", action |-> "entered", target |-> "run", services |-> <<"api">>,
         mode |-> "None", names |-> {}, fqcn |-> "poll"]

OneWatch == [c \in Clients |-> Base]
TwoKinds == [c \in Clients |->
    IF c = c1 THEN [Base EXCEPT !.kind = "any", !.services = <<"api", "db">>]
    ELSE [Base EXCEPT !.kind = "states", !.mode = "Exclude", !.names = {"db"}]]
SameTarget == [c \in Clients |-> IF c = c1 THEN Base ELSE [Base EXCEPT !.kind = "any"]]

ByConsumer == [c \in Clients |->
                  IF Consumer(Watches[c]) = Consumer(Watches[c1]) THEN g1 ELSE g2]
AllDropOldest == [c \in Clients |-> "DropOldest"]

(* Bound of MCWatches: Start does not get to closing intracom (MCWatchCancel *)
(* goes there).  Every watch is cancelled by then and nothing is published.  *)
BeforeClose == startPc \in {"running", "ended"}
=============================================================================

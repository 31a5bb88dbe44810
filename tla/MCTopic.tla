------------------------------- MODULE MCTopic ------------------------------
(* Values for the constants of Topic: the clients share one group, or two   *)
(* of them each.                                                            *)
EXTENDS Topic

CONSTANTS c1, c2, c3, c4, g1, g2

Shared == [c \in Clients |-> g1]
Pairs == [c \in Clients |-> IF c \in {c1, c2} THEN g1 ELSE g2]

OlderPolicies == [c \in Clients |-> IF c = c1 THEN "DropNone"
                                  ELSE IF c = c2 THEN "DropOldest"
                                  ELSE "DropOldestAfterTimeout"]
SoundPolicies == [c \in Clients |-> IF c = c1 THEN "DropNone"
                                  ELSE IF c = c2 THEN "DropOldest"
                                  ELSE IF c = c3 THEN "DropNewest"
                                  ELSE "DropNewestAfterTimeout"]
=============================================================================

------------------------------ MODULE MCBroker ------------------------------
(* Broker with two hubs that follow one another on a server and, when there *)
(* is a second server, one hub on it.                                       *)
EXTENDS Broker, TLC

CONSTANTS s1, s2, h3, announcement

OnServers == [h \in Hubs |-> IF h = h3 THEN s2 ELSE s1]

Kinds == [m \in Msgs |-> IF m = announcement THEN "ANNOUNCE" ELSE "MSG"]

Symmetry == Permutations(Hubs \ {h3}) \cup Permutations(Msgs \ {announcement})
=============================================================================

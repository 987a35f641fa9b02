---------------------------- MODULE MCHubFanout ----------------------------
(* HubFanout with small channels: two users, or one user with two tabs.    *)
EXTENDS HubFanout, TLC

CONSTANTS c1, c2, u1, u2

\* c1 and c3 are tabs of the same user.
TabsUserOf == [c \in Conns |-> IF c = c2 THEN u2 ELSE u1]

\* One peer listens only; the peer of c2, or of c3, sends.
OneSends == [c \in Conns |-> IF c = c1 THEN 0 ELSE 1]
===========================================================================

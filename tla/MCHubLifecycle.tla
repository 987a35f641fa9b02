-------------------------- MODULE MCHubLifecycle --------------------------
(* HubLifecycle with every request for the same deletable room.            *)
EXTENDS HubLifecycle, TLC

CONSTANT r1

OneRoom == [c \in Conns |-> r1]

\* Requests for the same room are interchangeable, and so are the deleters.
Symmetry == Permutations(Conns) \cup Permutations(Deleters)
===========================================================================

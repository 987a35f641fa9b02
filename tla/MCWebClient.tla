---------------------------- MODULE MCWebClient ----------------------------
(* WebClient with interchangeable rooms and messages of others.             *)
EXTENDS WebClient, TLC

Symmetry == Permutations(Rooms) \cup Permutations(Peers)
============================================================================

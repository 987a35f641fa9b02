----------------------------- MODULE MCServices -----------------------------
\* A small instance of the services.
EXTENDS Services, TLC

CONSTANTS
    founder,                                   \* RoomStore
    server1, server2, tab1, tab2, tab3         \* Presence

FounderWrites == [m \in Posts |-> founder]

ServerOf == tab1 :> server1 @@ tab2 :> server1 @@ tab3 :> server2

Symmetry == Permutations(Requests) \cup Permutations(Users \ {founder})
=============================================================================

---------------------------- MODULE TokenBucket ----------------------------
(***************************************************************************)
(* What a rate limit promises: every address has a bucket of its own that  *)
(* is never forgotten, fills with time and pays for each request that is   *)
(* let through.                                                            *)
(***************************************************************************)
EXTENDS Naturals

CONSTANTS
    Addresses,
    Burst,       \* what a bucket holds
    Fill,        \* what comes in with a unit of time
    Cost         \* what a request takes out

VARIABLES
    now,
    bucket,
    passed       \* history: requests let through

Least(m, n) == IF m <= n THEN m ELSE n

Init ==
    /\ now = 0
    /\ bucket = [a \in Addresses |-> Burst]
    /\ passed = [a \in Addresses |-> 0]

Pass(a) ==
    /\ bucket[a] >= Cost
    /\ bucket' = [bucket EXCEPT ![a] = @ - Cost]
    /\ passed' = [passed EXCEPT ![a] = @ + 1]
    /\ UNCHANGED now

Tick ==
    /\ now' = now + 1
    /\ bucket' = [a \in Addresses |-> Least(Burst, bucket[a] + Fill)]
    /\ UNCHANGED passed

Next == Tick \/ \E a \in Addresses : Pass(a)

Spec == Init /\ [][Next]_<<now, bucket, passed>>
=============================================================================

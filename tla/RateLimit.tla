----------------------------- MODULE RateLimit -----------------------------
(***************************************************************************)
(* The rate limits per address of server/middleware/ratelimit.go: a map of *)
(* visitors, each with a limiter of golang.org/x/time/rate, from which a   *)
(* cleanup takes those who have not been seen for a while.  globalLimiter, *)
(* authLimiter and roomCreateLimiter are three of these.                   *)
(*                                                                         *)
(* getLimiter and Allow are one step: what could come between them needs a *)
(* goroutine that stands still for as long as a visitor is remembered.     *)
(***************************************************************************)
EXTENDS Naturals

CONSTANTS
    Addresses,
    Burst, Fill, Cost,   \* see TokenBucket: 5 requests, 1 in 12 s for authLimiter
    IdleVisitor,         \* a visitor is remembered for this long (10 minutes)
    Units                \* bound on the clock

\* A visitor who is forgotten would have a full bucket by then (50 requests'
\* worth of time for the 5 of authLimiter).
RateAssumption ==
    /\ Burst \in Nat /\ Fill \in Nat /\ Cost \in Nat /\ Cost <= Burst
    /\ IdleVisitor \in Nat /\ Burst <= Fill * (IdleVisitor + 1)

VARIABLES
    unit,
    visitors,   \* rl.visitors: the limiter of each address known, and its lastSeen
    passed      \* history: requests let through

rates == <<unit, visitors, passed>>

\* What Allow computes from a limiter: its tokens when it last let a request
\* through, and the time since then.
Level(v, t) ==
    LET full == v.tokens + Fill * (t - v.last) IN IF full <= Burst THEN full ELSE Burst

NewLimiter == [tokens |-> Burst, last |-> unit, seen |-> unit]

Visitor == [tokens : 0..Burst, last : 0..unit, seen : 0..unit]

RateTypeOK ==
    /\ unit \in Nat
    /\ DOMAIN visitors \subseteq Addresses
    /\ visitors \in [DOMAIN visitors -> Visitor]
    /\ passed \in [Addresses -> Nat]

RateInit ==
    /\ unit = 0
    /\ visitors = [a \in {} |-> NewLimiter]
    /\ passed = [a \in Addresses |-> 0]

\* Mutant: lastSeen stays what it was when the visitor was new.
GetLimiterUnseen(a) ==
    IF a \in DOMAIN visitors THEN visitors[a] ELSE NewLimiter

GetLimiter(a) ==
    IF a \in DOMAIN visitors THEN [visitors[a] EXCEPT !.seen = unit] ELSE NewLimiter

Keep(a, v) ==
    visitors' = [x \in DOMAIN visitors \cup {a} |-> IF x = a THEN v ELSE visitors[x]]

\* Allow returns true, and the request goes on to its handler.
Allow(a) ==
    LET v == GetLimiter(a) IN
    /\ Level(v, unit) >= Cost
    /\ Keep(a, [v EXCEPT !.tokens = Level(v, unit) - Cost, !.last = unit])
    /\ passed' = [passed EXCEPT ![a] = @ + 1]
    /\ UNCHANGED unit

\* Allow returns false: 429.
Refuse(a) ==
    LET v == GetLimiter(a) IN
    /\ Level(v, unit) < Cost
    /\ Keep(a, v)
    /\ UNCHANGED <<unit, passed>>

\* cleanupLoop, at any of its ticks.
CleanupLoop ==
    /\ visitors' = [a \in {x \in DOMAIN visitors : unit - visitors[x].seen <= IdleVisitor}
                      |-> visitors[a]]
    /\ UNCHANGED <<unit, passed>>

UnitPasses ==
    /\ unit < Units
    /\ unit' = unit + 1
    /\ UNCHANGED <<visitors, passed>>

RateNext == UnitPasses \/ CleanupLoop \/ \E a \in Addresses : Allow(a) \/ Refuse(a)

RateSpec == RateInit /\ [][RateNext]_rates

---------------------------------------------------------------------------
(* Properties.                                                             *)

\* Forgetting visitors gives nobody an additional request: the map with its
\* cleanup implements buckets that are never forgotten.
Buckets == INSTANCE TokenBucket WITH now <- unit,
    bucket <- [a \in Addresses |->
                 IF a \in DOMAIN visitors THEN Level(visitors[a], unit) ELSE Burst]

ForgettingIsFree == Buckets!Spec
=============================================================================

----------------------------- MODULE ConnLimit -----------------------------
(***************************************************************************)
(* The limit on the WebSocket connections of an address                    *)
(* (server/middleware/ws_conn_limit.go): a map of counters, the middleware *)
(* WSConnLimit around RoomWebSocket and MsgReceiver, and the cleanup that  *)
(* takes idle counters out of the map.  The map has a mutex and a counter  *)
(* is atomic; the steps of the middleware are not one.  Addresses do not   *)
(* affect each other, so the module has one.                               *)
(***************************************************************************)
EXTENDS Naturals, FiniteSets

CONSTANTS
    Upgrades,    \* upgrade requests of the address, each served once
    MaxConn,     \* maxConn (10)
    IdleEntry,   \* an unused entry is kept for this long (10 minutes)
    Minutes,     \* bound on the clock
    NoEntry

LimitAssumption ==
    /\ IsFiniteSet(Upgrades) /\ NoEntry \notin Upgrades
    /\ MaxConn \in Nat /\ IdleEntry \in Nat /\ Minutes \in Nat

VARIABLES
    minute,
    entry,      \* l.counts[ip]; an entry is named by the request that made it
    count,      \* e.count
    seen,       \* e.lastSeen
    upgrade,    \* where the middleware of each request stands
    hold,       \* the e it holds
    raced,      \* history: a counter was read while another addition was due
    detached    \* history: the cleanup took an entry that a request held

upgrades == <<minute, entry, count, seen, upgrade, hold, raced, detached>>

UpgradeSteps == {"new", "fetched", "seen", "checked", "open", "closing", "done"}

ConnTypeOK ==
    /\ minute \in 0..Minutes
    /\ entry \in Upgrades \cup {NoEntry}
    /\ count \in [Upgrades -> Nat] /\ seen \in [Upgrades -> 0..minute]
    /\ upgrade \in [Upgrades -> UpgradeSteps]
    /\ hold \in [Upgrades -> Upgrades \cup {NoEntry}]
    /\ raced \in BOOLEAN /\ detached \in BOOLEAN

ConnInit ==
    /\ minute = 0
    /\ entry = NoEntry
    /\ count = [q \in Upgrades |-> 0] /\ seen = [q \in Upgrades |-> 0]
    /\ upgrade = [q \in Upgrades |-> "new"]
    /\ hold = [q \in Upgrades |-> NoEntry]
    /\ raced = FALSE /\ detached = FALSE

UpgradeGoes(q, s, t) == upgrade[q] = s /\ upgrade' = [upgrade EXCEPT ![q] = t]

\* l.entry(ip), under l.mu.
Entry(q) ==
    /\ UpgradeGoes(q, "new", "fetched")
    /\ entry' = IF entry = NoEntry THEN q ELSE entry
    /\ seen' = IF entry = NoEntry THEN [seen EXCEPT ![q] = minute] ELSE seen
    /\ hold' = [hold EXCEPT ![q] = entry']
    /\ UNCHANGED <<minute, count, raced, detached>>

Touch(q) ==
    /\ UpgradeGoes(q, "fetched", "seen")
    /\ seen' = [seen EXCEPT ![hold[q]] = minute]
    /\ UNCHANGED <<minute, entry, count, hold, raced, detached>>

\* Mutant: one connection too many is let in.
CheckAtMost(q) ==
    /\ UpgradeGoes(q, "seen", IF count[hold[q]] > MaxConn THEN "done" ELSE "checked")
    /\ raced' = (raced \/ \E p \in Upgrades : upgrade[p] = "checked")
    /\ UNCHANGED <<minute, entry, count, seen, hold, detached>>

\* e.count.Load(): 429, or on to the addition.
Check(q) ==
    /\ UpgradeGoes(q, "seen", IF count[hold[q]] >= MaxConn THEN "done" ELSE "checked")
    /\ raced' = (raced \/ \E p \in Upgrades : upgrade[p] = "checked")
    /\ UNCHANGED <<minute, entry, count, seen, hold, detached>>

\* e.count.Add(1), and next(c) runs for as long as the connection lasts.
Add(q) ==
    /\ UpgradeGoes(q, "checked", "open")
    /\ count' = [count EXCEPT ![hold[q]] = @ + 1]
    /\ UNCHANGED <<minute, entry, seen, hold, raced, detached>>

\* The deferred function, which runs when next(c) returns or panics.
Release(q) ==
    /\ UpgradeGoes(q, "open", "closing")
    /\ count' = [count EXCEPT ![hold[q]] = @ - 1]
    /\ UNCHANGED <<minute, entry, seen, hold, raced, detached>>

TouchAgain(q) ==
    /\ UpgradeGoes(q, "closing", "done")
    /\ seen' = [seen EXCEPT ![hold[q]] = minute]
    /\ UNCHANGED <<minute, entry, count, hold, raced, detached>>

\* Mutant: an address is forgotten although it has connections.
CleanupBusy ==
    /\ entry # NoEntry
    /\ seen[entry] + IdleEntry < minute
    /\ entry' = NoEntry
    /\ detached' = (detached \/ \E q \in Upgrades :
                      hold[q] = entry /\ upgrade[q] \in {"fetched", "seen", "checked"})
    /\ UNCHANGED <<minute, count, seen, upgrade, hold, raced>>

\* cleanup, under l.mu.
Cleanup ==
    /\ entry # NoEntry
    /\ count[entry] = 0 /\ seen[entry] + IdleEntry < minute
    /\ entry' = NoEntry
    /\ detached' = (detached \/ \E q \in Upgrades :
                      hold[q] = entry /\ upgrade[q] \in {"fetched", "seen", "checked"})
    /\ UNCHANGED <<minute, count, seen, upgrade, hold, raced>>

MinutePasses ==
    /\ minute < Minutes
    /\ minute' = minute + 1
    /\ UNCHANGED <<entry, count, seen, upgrade, hold, raced, detached>>

ConnNext ==
    \/ MinutePasses \/ Cleanup
    \/ \E q \in Upgrades : \/ Entry(q) \/ Touch(q) \/ Check(q) \/ Add(q)
                           \/ Release(q) \/ TouchAgain(q)

ConnSpec == ConnInit /\ [][ConnNext]_upgrades

---------------------------------------------------------------------------
(* Properties.                                                             *)

Open == {q \in Upgrades : upgrade[q] = "open"}

\* An address has more connections than it may have only if two requests were
\* between the reading of the counter and its addition at the same time, or
\* the cleanup took the counter that a request had just been given.
OverLimitNeedsCause == Cardinality(Open) > MaxConn => raced \/ detached
=============================================================================

------------------------------- MODULE Broker -------------------------------
(***************************************************************************)
(* One room on several servers that share a Redis: the Broker of each      *)
(* server (pkg/redis/pubsub.go) with its subscription, its listeners and   *)
(* its connection monitor, and the part of hub.Run that talks to it        *)
(* (server/handler/hub.go).  The hubs of a room follow one another on a    *)
(* server, and the end of one overlaps the start of the next.              *)
(*                                                                         *)
(* Redis itself and the go-redis client are external: a publication        *)
(* reaches the subscribers joined at that moment, the client joins again   *)
(* by itself after an outage, and it repeats a PUBLISH whose reply is lost.*)
(***************************************************************************)
EXTENDS Naturals, Sequences, FiniteSets

CONSTANTS
    Servers,
    Hubs,         \* the hubs of the room, over all servers and time
    ServerOf,     \* the server of each hub
    Msgs,
    KindOf,       \* the event of each message
    MaxPubSubs,   \* bound: subscriptions opened
    MaxOutages,   \* bound: outages of Redis
    RedisCap,     \* capacity of a hub's msgCh (256 in Run)
    NoHub, NoPs, NoMsg

ASSUME ServerOfAssumption == ServerOf \in [Hubs -> Servers]
ASSUME BoundsAssumption == MaxPubSubs \in Nat /\ MaxOutages \in Nat /\ RedisCap \in Nat
ASSUME NilAssumption ==
    NoHub \notin Hubs /\ NoMsg \notin Msgs /\ NoPs \notin Nat
ASSUME KindAssumption == KindOf \in [Msgs -> {"MSG", "ANNOUNCE"}]

PubSubs == 1..MaxPubSubs

VARIABLES
    up,          \* Redis answers
    outages,     \* number of outages so far
    fallback,    \* b.fallback
    subs,        \* b.subscriptions[room]
    handler,     \* b.handlers[room]: the hub whose msgCh it feeds
    closed,      \* b.ctx is cancelled
    mon,         \* where monitorConnection stands
    psCount,     \* number of PubSubs opened so far
    open,        \* PubSubs that are not closed
    joined,      \* PubSubs that Redis knows as subscribers
    queue,       \* messages a PubSub has received, for its listenRoom
    home,        \* the server whose listenRoom reads it
    inMap,       \* RoomMgr.hubs[room]
    run,         \* where hub.Run of each hub stands
    chan,        \* its redisCh: "never" (blocks for ever) or "redis"
    stop,        \* h.stop is closed
    msgCh,       \* its msgCh
    hand,        \* the message it is publishing
    taken,       \* messages taken from a hub's Broadcast
    accepted,    \* history: messages Redis took
    repeated,    \* history: messages whose PUBLISH reply was lost
    shown,       \* history: calls of broadcastLocal, per hub
    robbed,      \* history: hubs whose handler another hub's call replaced
    overlaid     \* history: servers whose monitor replaced a live entry

redisVars == <<up, outages>>
psVars    == <<psCount, open, joined, queue, home>>
brkVars   == <<fallback, subs, handler, closed, mon>>
hubVars   == <<inMap, run, chan, stop>>
dataVars  == <<msgCh, hand, taken, shown>>
histVars  == <<accepted, repeated, robbed, overlaid>>
vars == <<redisVars, psVars, brkVars, hubVars, dataVars, histVars>>

TypeOK ==
    /\ up \in BOOLEAN /\ outages \in 0..MaxOutages
    /\ fallback \in [Servers -> BOOLEAN]
    /\ subs \in [Servers -> PubSubs \cup {NoPs}]
    /\ handler \in [Servers -> Hubs \cup {NoHub}]
    /\ closed \in [Servers -> BOOLEAN]
    /\ mon \in [Servers -> {"idle", "pingOk", "pingFailed", "restoring", "ended"}]
    /\ psCount \in 0..MaxPubSubs
    /\ open \subseteq 1..psCount
    /\ joined \subseteq open
    /\ queue \in [PubSubs -> Seq(Msgs)]
    /\ home \in [PubSubs -> Servers]
    /\ inMap \in [Servers -> Hubs \cup {NoHub}]
    /\ run \in [Hubs -> {"unborn", "starting", "subscribing", "loop",
                         "unsubscribing", "gone"}]
    /\ chan \in [Hubs -> {"never", "redis"}]
    /\ stop \in [Hubs -> BOOLEAN]
    /\ msgCh \in [Hubs -> Seq(Msgs)]
    /\ \A h \in Hubs : Len(msgCh[h]) <= RedisCap
    /\ hand \in [Hubs -> Msgs \cup {NoMsg}]
    /\ taken \subseteq Msgs /\ accepted \subseteq taken /\ repeated \subseteq accepted
    /\ shown \in [Hubs -> Seq(Msgs)]
    /\ robbed \subseteq Hubs /\ overlaid \subseteq Servers

Init ==
    /\ up = TRUE /\ outages = 0
    /\ fallback = [s \in Servers |-> FALSE]
    /\ subs = [s \in Servers |-> NoPs]
    /\ handler = [s \in Servers |-> NoHub]
    /\ closed = [s \in Servers |-> FALSE]
    /\ mon = [s \in Servers |-> "idle"]
    /\ psCount = 0 /\ open = {} /\ joined = {}
    /\ queue = [p \in PubSubs |-> <<>>]
    /\ \E s \in Servers : home = [p \in PubSubs |-> s]
    /\ inMap = [s \in Servers |-> NoHub]
    /\ run = [h \in Hubs |-> "unborn"]
    /\ chan = [h \in Hubs |-> "never"]
    /\ stop = [h \in Hubs |-> FALSE]
    /\ msgCh = [h \in Hubs |-> <<>>]
    /\ hand = [h \in Hubs |-> NoMsg]
    /\ taken = {} /\ accepted = {} /\ repeated = {}
    /\ shown = [h \in Hubs |-> <<>>]
    /\ robbed = {} /\ overlaid = {}

---------------------------------------------------------------------------
(* Redis and the go-redis client.                                          *)

\* Connections break; what was on its way may be lost.
RedisFails ==
    /\ up /\ outages < MaxOutages
    /\ up' = FALSE /\ outages' = outages + 1
    /\ joined' = {}
    /\ queue' \in {queue, [p \in PubSubs |-> <<>>]}
    /\ UNCHANGED <<psCount, open, home, brkVars, hubVars, dataVars, histVars>>

RedisReturns ==
    /\ ~up
    /\ up' = TRUE
    /\ UNCHANGED <<outages, psVars, brkVars, hubVars, dataVars, histVars>>

\* Redis handles the SUBSCRIBE of a PubSub, sent by client.Subscribe or by
\* the client when it has reconnected.
Joins(p) ==
    /\ up
    /\ p \in open \ joined
    /\ joined' = joined \cup {p}
    /\ UNCHANGED <<redisVars, psCount, open, queue, home, brkVars, hubVars, dataVars, histVars>>

\* client.Subscribe by server s: a fresh PubSub, that becomes the map's entry.
OpenPubSub(s) ==
    /\ psCount < MaxPubSubs
    /\ psCount' = psCount + 1
    /\ open' = open \cup {psCount + 1}
    /\ home' = [home EXCEPT ![psCount + 1] = s]
    /\ subs' = [subs EXCEPT ![s] = psCount + 1]
    /\ UNCHANGED <<joined, queue>>

\* ps.Close of the map's entry, if there is one, and its delete.  Its
\* listener still reads some of what had been received.
ClosePubSub(s) ==
    /\ open' = open \ {subs[s]}
    /\ joined' = joined \ {subs[s]}
    /\ IF subs[s] = NoPs
         THEN UNCHANGED queue
         ELSE \E k \in 0..Len(queue[subs[s]]) :
                queue' = [queue EXCEPT ![subs[s]] = SubSeq(@, 1, k)]
    /\ subs' = [subs EXCEPT ![s] = NoPs]
    /\ UNCHANGED <<psCount, home>>

---------------------------------------------------------------------------
(* The Broker, for the room.                                               *)

\* Mutant: the room's entry is not looked up before a PubSub is opened.
SubscribeTwice(h) ==
    LET s == ServerOf[h] IN
    /\ run[h] = "subscribing"
    /\ run' = [run EXCEPT ![h] = "loop"]
    /\ handler' = [handler EXCEPT ![s] = h]
    /\ robbed' = (robbed \ {h}) \cup ({handler[s]} \ {h, NoHub})
    /\ chan' = [chan EXCEPT ![h] = IF fallback[s] THEN "never" ELSE "redis"]
    /\ IF fallback[s] THEN UNCHANGED <<subs, psVars>> ELSE OpenPubSub(s)
    /\ UNCHANGED <<redisVars, fallback, closed, mon, inMap, stop, dataVars,
                   accepted, repeated, overlaid>>

\* Subscribe(room, handler of h).
Subscribe(h) ==
    LET s == ServerOf[h] IN
    /\ run[h] = "subscribing"
    /\ run' = [run EXCEPT ![h] = "loop"]
    /\ handler' = [handler EXCEPT ![s] = h]
    /\ robbed' = (robbed \ {h}) \cup ({handler[s]} \ {h, NoHub})
    /\ chan' = [chan EXCEPT ![h] = IF fallback[s] THEN "never" ELSE "redis"]
    /\ IF fallback[s] \/ subs[s] # NoPs
         THEN UNCHANGED <<subs, psVars>>
         ELSE OpenPubSub(s)
    /\ UNCHANGED <<redisVars, fallback, closed, mon, inMap, stop, dataVars,
                   accepted, repeated, overlaid>>

\* Unsubscribe(room), deferred by Run: the room's entry goes, whichever hub
\* it serves by then.
Unsubscribe(h) ==
    LET s == ServerOf[h] IN
    /\ run[h] = "unsubscribing"
    /\ run' = [run EXCEPT ![h] = "gone"]
    /\ handler' = [handler EXCEPT ![s] = NoHub]
    /\ robbed' = robbed \cup ({handler[s]} \ {h, NoHub})
    /\ ClosePubSub(s)
    /\ UNCHANGED <<redisVars, fallback, closed, mon, inMap, chan, stop, dataVars,
                   accepted, repeated, overlaid>>

\* listenRoom: the next message goes to the hub the room's handler feeds at
\* that time; a full msgCh loses it.
Dispatch(p) ==
    LET h == handler[home[p]] IN
    /\ queue[p] # <<>>
    /\ queue' = [queue EXCEPT ![p] = Tail(@)]
    /\ IF h # NoHub /\ Len(msgCh[h]) < RedisCap
         THEN msgCh' = [msgCh EXCEPT ![h] = Append(@, Head(queue[p]))]
         ELSE UNCHANGED msgCh
    /\ UNCHANGED <<redisVars, psCount, open, joined, home, brkVars, hubVars,
                   hand, taken, shown, histVars>>

\* monitorConnection: the tick and the ping (which fails once b.ctx is
\* cancelled) ...
Ping(s) ==
    /\ mon[s] = "idle"
    /\ \E outcome \in IF closed[s] THEN {"ended", "pingFailed"}
                       ELSE {IF up THEN "pingOk" ELSE "pingFailed"} :
         mon' = [mon EXCEPT ![s] = outcome]
    /\ UNCHANGED <<redisVars, psVars, fallback, subs, handler, closed, hubVars, dataVars, histVars>>

\* Mutant: the stale entry is closed and stays in the map.
MonitorFallsBackKeepsEntry(s) ==
    /\ mon[s] = "pingFailed"
    /\ mon' = [mon EXCEPT ![s] = "idle"]
    /\ fallback' = [fallback EXCEPT ![s] = TRUE]
    /\ open' = open \ {subs[s]} /\ joined' = joined \ {subs[s]}
    /\ UNCHANGED <<redisVars, psCount, home, queue, subs, handler, closed, hubVars,
                   dataVars, histVars>>

\* Mutant: the handlers are forgotten with the subscriptions.
MonitorFallsBackForgets(s) ==
    /\ mon[s] = "pingFailed"
    /\ mon' = [mon EXCEPT ![s] = "idle"]
    /\ fallback' = [fallback EXCEPT ![s] = TRUE]
    /\ handler' = [handler EXCEPT ![s] = NoHub]
    /\ ClosePubSub(s)
    /\ UNCHANGED <<redisVars, closed, hubVars, dataVars, histVars>>

\* ... then, under b.mu, the switch to fallback ...
MonitorFallsBack(s) ==
    /\ mon[s] = "pingFailed"
    /\ mon' = [mon EXCEPT ![s] = "idle"]
    /\ IF fallback[s]
         THEN UNCHANGED <<fallback, subs, psVars>>
         ELSE /\ fallback' = [fallback EXCEPT ![s] = TRUE]
              /\ ClosePubSub(s)
    /\ UNCHANGED <<redisVars, handler, closed, hubVars, dataVars, histVars>>

\* Mutant: fallback is cleared and nothing is subscribed again.
MonitorRecoversOnly(s) ==
    /\ mon[s] = "pingOk"
    /\ fallback' = [fallback EXCEPT ![s] = FALSE]
    /\ mon' = [mon EXCEPT ![s] = "idle"]
    /\ UNCHANGED <<redisVars, psVars, subs, handler, closed, hubVars, dataVars, histVars>>

\* ... or the way back: fallback is cleared and the handlers are copied ...
MonitorRecovers(s) ==
    /\ mon[s] = "pingOk"
    /\ fallback' = [fallback EXCEPT ![s] = FALSE]
    /\ mon' = [mon EXCEPT ![s] =
                 IF fallback[s] /\ handler[s] # NoHub THEN "restoring" ELSE "idle"]
    /\ UNCHANGED <<redisVars, psVars, subs, handler, closed, hubVars, dataVars, histVars>>

\* ... and, b.mu released in between, the room of the copy gets a new PubSub,
\* whatever the map holds for it by then.
MonitorResubscribes(s) ==
    /\ mon[s] = "restoring"
    /\ mon' = [mon EXCEPT ![s] = "idle"]
    /\ OpenPubSub(s)
    /\ overlaid' = IF subs[s] # NoPs THEN overlaid \cup {s} ELSE overlaid
    /\ UNCHANGED <<redisVars, fallback, handler, closed, hubVars, dataVars,
                   accepted, repeated, robbed>>

\* Close, the last call of ShutdownAll.
Close(s) ==
    /\ ~closed[s] /\ inMap[s] = NoHub
    /\ closed' = [closed EXCEPT ![s] = TRUE]
    /\ ClosePubSub(s)
    /\ UNCHANGED <<redisVars, fallback, handler, mon, hubVars, dataVars, histVars>>

---------------------------------------------------------------------------
(* The hub.                                                                *)

\* GetOrCreateHub.
Create(h) ==
    LET s == ServerOf[h] IN
    /\ run[h] = "unborn" /\ inMap[s] = NoHub
    /\ inMap' = [inMap EXCEPT ![s] = h]
    /\ run' = [run EXCEPT ![h] = "starting"]
    /\ UNCHANGED <<redisVars, psVars, brkVars, chan, stop, dataVars, histVars>>

\* Run asks IsFallback before it subscribes; a hub that starts in fallback
\* never comes back to it.
HubStarts(h) ==
    /\ run[h] = "starting"
    /\ run' = [run EXCEPT ![h] = IF fallback[ServerOf[h]] THEN "loop" ELSE "subscribing"]
    /\ UNCHANGED <<redisVars, psVars, brkVars, inMap, chan, stop, dataVars, histVars>>

\* RemoveHub, ShutdownAll or the idle path.
Remove(h) ==
    LET s == ServerOf[h] IN
    /\ inMap[s] = h
    /\ inMap' = [inMap EXCEPT ![s] = NoHub]
    /\ stop' = [stop EXCEPT ![h] = TRUE]
    /\ UNCHANGED <<redisVars, psVars, brkVars, run, chan, dataVars, histVars>>

\* Run returns; Unsubscribe was deferred if Subscribe succeeded.
HubExits(h) ==
    /\ run[h] = "loop" /\ hand[h] = NoMsg
    /\ stop[h]
    /\ run' = [run EXCEPT ![h] = IF chan[h] = "redis" THEN "unsubscribing" ELSE "gone"]
    /\ UNCHANGED <<redisVars, psVars, brkVars, inMap, chan, stop, dataVars, histVars>>

BroadcastLocal(h, m) == shown' = [shown EXCEPT ![h] = Append(@, m)]

\* case msg := <-h.Broadcast: IsFallback decides.
Take(h, m) ==
    /\ run[h] = "loop" /\ hand[h] = NoMsg
    /\ m \notin taken
    /\ taken' = taken \cup {m}
    /\ IF fallback[ServerOf[h]]
         THEN BroadcastLocal(h, m) /\ UNCHANGED hand
         ELSE hand' = [hand EXCEPT ![h] = m] /\ UNCHANGED shown
    /\ UNCHANGED <<redisVars, psVars, brkVars, hubVars, msgCh, histVars>>

\* Redis takes the message in hand.
RedisAccepts(h) ==
    /\ hand[h] # NoMsg
    /\ up
    /\ accepted' = accepted \cup {hand[h]}
    /\ queue' = [p \in PubSubs |->
                   IF p \in joined THEN Append(queue[p], hand[h]) ELSE queue[p]]

\* Mutant: the message is shown at once and comes back by redisCh as well.
PublishOkShows(h) ==
    /\ RedisAccepts(h)
    /\ hand[h] \in repeated \/ ~fallback[ServerOf[h]]
    /\ BroadcastLocal(h, hand[h])
    /\ hand' = [hand EXCEPT ![h] = NoMsg]
    /\ UNCHANGED <<redisVars, psCount, open, joined, home, brkVars, hubVars, msgCh,
                   taken, repeated, robbed, overlaid>>

\* Publish returns nil: nothing is shown here, the message comes back by
\* redisCh.
PublishOk(h) ==
    /\ RedisAccepts(h)
    /\ hand[h] \in repeated \/ ~fallback[ServerOf[h]]
    /\ hand' = [hand EXCEPT ![h] = NoMsg]
    /\ UNCHANGED <<redisVars, psCount, open, joined, home, brkVars, hubVars, msgCh,
                   taken, shown, repeated, robbed, overlaid>>

\* The reply is lost (at most once per message, a bound): go-redis repeats the
\* command, or Publish returns an error.
PublishLost(h) ==
    /\ RedisAccepts(h)
    /\ hand[h] \notin repeated /\ ~fallback[ServerOf[h]]
    /\ repeated' = repeated \cup {hand[h]}
    /\ UNCHANGED <<redisVars, psCount, open, joined, home, brkVars, hubVars, dataVars,
                   robbed, overlaid>>

\* Mutant: the error of Publish is only logged.
PublishFailsSilently(h) ==
    /\ hand[h] # NoMsg
    /\ fallback[ServerOf[h]] \/ ~up \/ hand[h] \in repeated
    /\ hand' = [hand EXCEPT ![h] = NoMsg]
    /\ UNCHANGED <<redisVars, psVars, brkVars, hubVars, msgCh, taken, shown, histVars>>

\* Publish returns an error (fallback by now, no connection, no reply): the
\* message is shown to the local clients.
PublishFails(h) ==
    /\ hand[h] # NoMsg
    /\ fallback[ServerOf[h]] \/ ~up \/ hand[h] \in repeated
    /\ BroadcastLocal(h, hand[h])
    /\ hand' = [hand EXCEPT ![h] = NoMsg]
    /\ UNCHANGED <<redisVars, psVars, brkVars, hubVars, msgCh, taken, histVars>>

AllowedEvents == {"MSG"}

\* case data := <-redisCh, which never fires on the channel of the fallback.
HubHears(h) ==
    /\ run[h] = "loop" /\ hand[h] = NoMsg
    /\ chan[h] = "redis"
    /\ msgCh[h] # <<>>
    /\ msgCh' = [msgCh EXCEPT ![h] = Tail(@)]
    /\ IF KindOf[Head(msgCh[h])] \in AllowedEvents
         THEN BroadcastLocal(h, Head(msgCh[h]))
         ELSE UNCHANGED shown
    /\ UNCHANGED <<redisVars, psVars, brkVars, hubVars, hand, taken, histVars>>

---------------------------------------------------------------------------
BrokerNext(s) ==
    \/ Ping(s) \/ MonitorFallsBack(s) \/ MonitorRecovers(s) \/ MonitorResubscribes(s)
    \/ Close(s)

HubNext(h) ==
    \/ Create(h) \/ HubStarts(h) \/ Subscribe(h) \/ Remove(h) \/ HubExits(h) \/ Unsubscribe(h)
    \/ PublishOk(h) \/ PublishLost(h) \/ PublishFails(h) \/ HubHears(h)
    \/ \E m \in Msgs : Take(h, m)

Next ==
    \/ RedisFails \/ RedisReturns
    \/ \E p \in PubSubs : Joins(p) \/ Dispatch(p)
    \/ \E s \in Servers : BrokerNext(s)
    \/ \E h \in Hubs : HubNext(h)

Spec == Init /\ [][Next]_vars

\* The monitor's ticker fires, its goroutine runs, and go-redis reconnects.
\* Redis need not come back.
Fairness ==
    /\ \A s \in Servers :
         /\ WF_vars(Ping(s)) /\ WF_vars(MonitorFallsBack(s))
         /\ WF_vars(MonitorRecovers(s)) /\ WF_vars(MonitorResubscribes(s))
    /\ \A p \in PubSubs : WF_vars(Joins(p))

FairSpec == Spec /\ Fairness

---------------------------------------------------------------------------
(* Properties.                                                             *)

\* The map's entry is a PubSub that somebody reads, and in fallback there is
\* none: what Subscribe takes for an active subscription is one.
MapEntryIsLive ==
    \A s \in Servers : subs[s] # NoPs =>
        subs[s] \in open /\ home[subs[s]] = s /\ ~fallback[s]

\* A listener that the map does not know (nothing will ever close it, and the
\* room's messages are shown twice) comes from the recovery that overlays an
\* entry made since fallback was cleared, and from nothing else.
LeakComesFromOverlay ==
    \A p \in open : subs[home[p]] = p \/ home[p] \in overlaid

\* A hub that subscribed is the one its room's listener feeds, now or as soon
\* as the broker has recovered, unless the Subscribe or Unsubscribe of another
\* hub of the room got in between: no other order of start, end, outage
\* and recovery makes it deaf.
Deaf(h) ==
    LET s == ServerOf[h] IN
    handler[s] # h \/ (subs[s] = NoPs /\ ~fallback[s] /\ mon[s] # "restoring")

DeafComesFromOverlap ==
    \A h \in Hubs :
        run[h] = "loop" /\ chan[h] = "redis" /\ Deaf(h)
            => h \in robbed \/ closed[ServerOf[h]]

\* A message that a hub took is in its hands, with Redis, or shown to its
\* clients: the change to fallback between IsFallback and Publish loses none.
TakenIsHandedOn ==
    \A m \in taken :
        m \in accepted \/ \E h \in Hubs :
            hand[h] = m \/ \E i \in DOMAIN shown[h] : shown[h][i] = m

\* A hub shows a message twice only when the reply to its PUBLISH was lost or
\* a listener has leaked on the server.
ShownTwiceNeedsCause ==
    \A h \in Hubs : \A i, j \in DOMAIN shown[h] :
        i # j /\ shown[h][i] = shown[h][j]
            => shown[h][i] \in repeated \/ ServerOf[h] \in overlaid

\* The automatic recovery that the comment of Broker announces, for the hubs
\* that had subscribed: while Redis is up they come to be joined.
SubscribedHubRecovers ==
    \A h \in Hubs :
        LET s == ServerOf[h] IN
        (run[h] = "loop" /\ chan[h] = "redis")
          ~> \/ handler[s] = h /\ subs[s] \in joined
             \/ ~up \/ run[h] # "loop" \/ h \in robbed \/ closed[s]

=============================================================================

---------------------------- MODULE BrokerProofs ----------------------------
(***************************************************************************)
(* Proofs about Broker, for any number of servers, hubs, messages,         *)
(* subscriptions and outages: what the map of subscriptions says is true,  *)
(* where listeners leak and hubs go deaf, and that no message is lost      *)
(* between a hub and Redis.                                                *)
(***************************************************************************)
EXTENDS Broker, SequenceTheorems, TLAPS

(***************************************************************************)
(* Types.                                                                  *)
(***************************************************************************)
PsTypes ==
    /\ psCount \in 0..MaxPubSubs
    /\ open \subseteq 1..psCount
    /\ joined \subseteq open
    /\ queue \in [PubSubs -> Seq(Msgs)]
    /\ home \in [PubSubs -> Servers]
    /\ subs \in [Servers -> PubSubs \cup {NoPs}]

\* A fresh PubSub has a number that was never used.
LEMMA OpenTypes ==
    ASSUME PsTypes, NEW s \in Servers, OpenPubSub(s)
    PROVE  /\ PsTypes'
           /\ psCount + 1 \in PubSubs /\ psCount + 1 \notin open
           /\ open' = open \cup {psCount + 1}
           /\ home' = [home EXCEPT ![psCount + 1] = s]
           /\ subs' = [subs EXCEPT ![s] = psCount + 1]
<1>1. /\ psCount \in Nat /\ MaxPubSubs \in Nat /\ psCount < MaxPubSubs
      /\ psCount' = psCount + 1
      /\ open' = open \cup {psCount + 1}
      /\ home' = [home EXCEPT ![psCount + 1] = s]
      /\ subs' = [subs EXCEPT ![s] = psCount + 1]
      /\ joined' = joined /\ queue' = queue
  BY BoundsAssumption DEF OpenPubSub, PsTypes
<1>2. psCount + 1 \in PubSubs /\ psCount' \in 0..MaxPubSubs
  BY <1>1 DEF PubSubs
<1>3. psCount + 1 \notin open /\ open' \subseteq 1..psCount'
  <2>1. \A p \in open : p \in 1..psCount
    BY DEF PsTypes
  <2>2. QED
    BY <1>1, <2>1
<1>4. joined' \subseteq open'
  BY <1>1 DEF PsTypes
<1>5. home' \in [PubSubs -> Servers] /\ subs' \in [Servers -> PubSubs \cup {NoPs}]
  BY <1>1, <1>2 DEF PsTypes
<1>6. QED
  BY <1>1, <1>2, <1>3, <1>4, <1>5 DEF PsTypes

\* Closing takes the map's entry away.
LEMMA CloseTypes ==
    ASSUME PsTypes, NEW s \in Servers, ClosePubSub(s)
    PROVE  /\ PsTypes'
           /\ open' = open \ {subs[s]}
           /\ home' = home
           /\ subs' = [subs EXCEPT ![s] = NoPs]
<1>1. /\ open' = open \ {subs[s]} /\ joined' = joined \ {subs[s]}
      /\ subs' = [subs EXCEPT ![s] = NoPs]
      /\ psCount' = psCount /\ home' = home
  BY DEF ClosePubSub
<1>2. queue' \in [PubSubs -> Seq(Msgs)]
  <2>1. CASE subs[s] = NoPs
    BY <2>1 DEF ClosePubSub, PsTypes
  <2>2. CASE subs[s] # NoPs
    <3>1. subs[s] \in PubSubs
      BY <2>2 DEF PsTypes
    <3>2. PICK k \in 0..Len(queue[subs[s]]) :
            queue' = [queue EXCEPT ![subs[s]] = SubSeq(@, 1, k)]
      BY <2>2 DEF ClosePubSub
    <3>3. queue[subs[s]] \in Seq(Msgs) /\ queue \in [PubSubs -> Seq(Msgs)]
      BY <3>1 DEF PsTypes
    <3>4. SubSeq(queue[subs[s]], 1, k) \in Seq(Msgs)
      BY <3>2, <3>3
    <3>5. QED
      BY <3>1, <3>2, <3>3, <3>4
  <2>3. QED
    BY <2>1, <2>2
<1>3. QED
  BY <1>1, <1>2 DEF PsTypes

\* Redis takes the message in hand.
LEMMA AcceptTypes ==
    ASSUME TypeOK, NEW h \in Hubs, RedisAccepts(h)
    PROVE  /\ queue' \in [PubSubs -> Seq(Msgs)]
           /\ accepted' = accepted \cup {hand[h]} /\ hand[h] \in Msgs
<1>1. hand[h] \in Msgs
  BY DEF RedisAccepts, TypeOK
<1>2. \A p \in PubSubs : Append(queue[p], hand[h]) \in Seq(Msgs) /\ queue[p] \in Seq(Msgs)
  BY <1>1 DEF TypeOK
<1>3. QED
  BY <1>1, <1>2 DEF RedisAccepts

(***************************************************************************)
(* The strengthening.  What is in hand was taken; the restoring monitor    *)
(* has cleared fallback; only a hub that has subscribed has the channel of *)
(* Redis.                                                                  *)
(***************************************************************************)
Supports ==
    /\ \A h \in Hubs : hand[h] # NoMsg => hand[h] \in taken
    /\ \A s \in Servers : mon[s] = "restoring" => ~fallback[s]
    /\ \A h \in Hubs : chan[h] = "redis" => run[h] \in {"loop", "unsubscribing", "gone"}

Inv == TypeOK /\ Supports

\* The first state.
LEMMA InvInit ==
    Init => /\ Inv /\ MapEntryIsLive /\ LeakComesFromOverlay
            /\ DeafComesFromOverlap /\ TakenIsHandedOn
<1> SUFFICES ASSUME Init
             PROVE  /\ Inv /\ MapEntryIsLive /\ LeakComesFromOverlay
                    /\ DeafComesFromOverlap /\ TakenIsHandedOn
  OBVIOUS
<1>1. /\ <<>> \in Seq(Msgs) /\ Len(<<>>) = 0 /\ 0 <= RedisCap
      /\ 0 \in 0..MaxOutages /\ 0 \in 0..MaxPubSubs
  BY BoundsAssumption
<1>2. home \in [PubSubs -> Servers]
  BY DEF Init
<1>3. TypeOK
  <2>1. \A h \in Hubs : Len(msgCh[h]) <= RedisCap
    BY <1>1 DEF Init
  <2>2. QED
    BY <1>1, <1>2, <2>1 DEF Init, TypeOK
<1>4. Supports
  BY DEF Init, Supports
<1>5. MapEntryIsLive /\ LeakComesFromOverlay /\ DeafComesFromOverlap /\ TakenIsHandedOn
  BY DEF Init, MapEntryIsLive, LeakComesFromOverlay, DeafComesFromOverlap, TakenIsHandedOn
<1>6. QED
  BY <1>3, <1>4, <1>5 DEF Inv

\* Redis, and the listeners.
LEMMA RedisTypes ==
    ASSUME Inv, RedisFails \/ RedisReturns \/ \E p \in PubSubs : Joins(p) \/ Dispatch(p)
    PROVE  Inv'
<1>1. CASE RedisFails
  <2>1. /\ outages \in 0..MaxOutages /\ outages < MaxOutages /\ MaxOutages \in Nat
        /\ outages' = outages + 1 /\ up' = FALSE /\ joined' = {}
        /\ queue' = queue \/ queue' = [p \in PubSubs |-> <<>>]
        /\ UNCHANGED <<psCount, open, home, brkVars, hubVars, dataVars, histVars>>
    BY <1>1, BoundsAssumption DEF RedisFails, Inv, TypeOK
  <2>2. outages' \in 0..MaxOutages
    BY <2>1
  <2>3. queue' \in [PubSubs -> Seq(Msgs)]
    <3>1. <<>> \in Seq(Msgs)
      OBVIOUS
    <3>2. QED
      BY <2>1, <3>1 DEF Inv, TypeOK
  <2>4. QED
    BY <2>1, <2>2, <2>3
    DEF Inv, TypeOK, Supports, brkVars, hubVars, dataVars, histVars
<1>2. CASE RedisReturns
  BY <1>2 DEF RedisReturns, Inv, TypeOK, Supports, psVars, brkVars, hubVars, dataVars, histVars
<1>3. ASSUME NEW p \in PubSubs, Joins(p) PROVE Inv'
  BY <1>3 DEF Joins, Inv, TypeOK, Supports, redisVars, brkVars, hubVars, dataVars, histVars
<1>4. ASSUME NEW p \in PubSubs, Dispatch(p) PROVE Inv'
  <2> DEFINE h == handler[home[p]]
  <2>1. /\ queue[p] # <<>> /\ queue' = [queue EXCEPT ![p] = Tail(@)]
        /\ UNCHANGED <<up, outages, psCount, open, joined, home, brkVars, hubVars,
                       hand, taken, shown, histVars>>
        /\ \/ msgCh' = msgCh
           \/ /\ h # NoHub /\ Len(msgCh[h]) < RedisCap
              /\ msgCh' = [msgCh EXCEPT ![h] = Append(@, Head(queue[p]))]
    BY <1>4 DEF Dispatch, redisVars
  <2>2. /\ queue[p] \in Seq(Msgs) /\ Head(queue[p]) \in Msgs /\ Tail(queue[p]) \in Seq(Msgs)
    BY <2>1, HeadTailProperties, EmptySeq DEF Inv, TypeOK
  <2>3. queue' \in [PubSubs -> Seq(Msgs)]
    BY <2>1, <2>2 DEF Inv, TypeOK
  <2>4. /\ msgCh \in [Hubs -> Seq(Msgs)] /\ RedisCap \in Nat
        /\ \A g \in Hubs : Len(msgCh[g]) <= RedisCap
    BY BoundsAssumption DEF Inv, TypeOK
  <2>5. h \in Hubs \cup {NoHub}
    BY DEF Inv, TypeOK
  <2> HIDE DEF h
  <2>6. msgCh' \in [Hubs -> Seq(Msgs)] /\ \A g \in Hubs : Len(msgCh'[g]) <= RedisCap
    <3>1. CASE msgCh' = msgCh
      BY <2>4, <3>1
    <3>2. CASE /\ h # NoHub /\ Len(msgCh[h]) < RedisCap
               /\ msgCh' = [msgCh EXCEPT ![h] = Append(@, Head(queue[p]))]
      <4>1. /\ h \in Hubs /\ msgCh[h] \in Seq(Msgs)
            /\ Append(msgCh[h], Head(queue[p])) \in Seq(Msgs)
            /\ Len(Append(msgCh[h], Head(queue[p]))) = Len(msgCh[h]) + 1
            /\ Len(msgCh[h]) \in Nat
        BY <2>2, <2>4, <2>5, <3>2
      <4>2. /\ msgCh' \in [Hubs -> Seq(Msgs)]
            /\ msgCh'[h] = Append(msgCh[h], Head(queue[p]))
            /\ \A g \in Hubs \ {h} : msgCh'[g] = msgCh[g]
        BY <2>4, <3>2, <4>1
      <4>3. Len(msgCh'[h]) <= RedisCap
        BY <2>4, <3>2, <4>1, <4>2
      <4>4. QED
        BY <2>4, <4>2, <4>3
    <3>3. QED
      BY <2>1, <3>1, <3>2
  <2>7. QED
    BY <2>1, <2>3, <2>6 DEF Inv, TypeOK, Supports, brkVars, hubVars, histVars
<1>5. QED
  BY <1>1, <1>2, <1>3, <1>4

\* The monitor and Close.
LEMMA BrokerTypes ==
    ASSUME Inv, NEW s \in Servers, BrokerNext(s)
    PROVE  Inv'
<1>0. PsTypes
  BY DEF Inv, TypeOK, PsTypes
<1>1. CASE Ping(s)
  BY <1>1 DEF Ping, Inv, TypeOK, Supports, redisVars, psVars, hubVars, dataVars, histVars
<1>2. CASE MonitorFallsBack(s)
  <2>1. PsTypes'
    <3>1. CASE ClosePubSub(s)
      BY <1>0, <3>1, CloseTypes
    <3>2. CASE UNCHANGED <<subs, psVars>>
      BY <1>0, <3>2 DEF PsTypes, psVars
    <3>3. QED
      BY <1>2, <3>1, <3>2 DEF MonitorFallsBack
  <2>2. /\ mon[s] = "pingFailed" /\ mon' = [mon EXCEPT ![s] = "idle"]
        /\ fallback' = fallback \/ fallback' = [fallback EXCEPT ![s] = TRUE]
        /\ UNCHANGED <<redisVars, handler, closed, hubVars, dataVars, histVars>>
    BY <1>2 DEF MonitorFallsBack
  <2>3. QED
    BY <2>1, <2>2
    DEF Inv, TypeOK, PsTypes, Supports, redisVars, hubVars, dataVars, histVars
<1>3. CASE MonitorRecovers(s)
  BY <1>3 DEF MonitorRecovers, Inv, TypeOK, Supports, redisVars, psVars, hubVars, dataVars,
              histVars
<1>4. CASE MonitorResubscribes(s)
  <2>1. PsTypes'
    BY <1>0, <1>4, OpenTypes DEF MonitorResubscribes
  <2>2. /\ mon' = [mon EXCEPT ![s] = "idle"]
        /\ overlaid' \subseteq Servers
        /\ UNCHANGED <<redisVars, fallback, handler, closed, hubVars, dataVars,
                       accepted, repeated, robbed>>
    BY <1>4 DEF MonitorResubscribes, Inv, TypeOK
  <2>3. QED
    BY <2>1, <2>2 DEF Inv, TypeOK, PsTypes, Supports, redisVars, hubVars, dataVars
<1>5. CASE Close(s)
  <2>1. PsTypes'
    BY <1>0, <1>5, CloseTypes DEF Close
  <2>2. /\ closed' = [closed EXCEPT ![s] = TRUE]
        /\ UNCHANGED <<redisVars, fallback, handler, mon, hubVars, dataVars, histVars>>
    BY <1>5 DEF Close
  <2>3. QED
    BY <2>1, <2>2 DEF Inv, TypeOK, PsTypes, Supports, redisVars, hubVars, dataVars, histVars
<1>6. QED
  BY <1>1, <1>2, <1>3, <1>4, <1>5 DEF BrokerNext

\* The hub.
LEMMA HubTypes ==
    ASSUME Inv, NEW h \in Hubs, HubNext(h)
    PROVE  Inv'
<1>0. /\ PsTypes /\ ServerOf[h] \in Servers
      /\ run \in [Hubs -> {"unborn", "starting", "subscribing", "loop",
                          "unsubscribing", "gone"}]
      /\ NoMsg \notin Msgs /\ NoHub \notin Hubs
      /\ shown[h] \in Seq(Msgs) /\ shown \in [Hubs -> Seq(Msgs)]
  BY ServerOfAssumption, NilAssumption DEF Inv, TypeOK, PsTypes
<1>1. CASE Create(h) \/ Remove(h)
  <2>1. /\ run' = run \/ (run[h] = "unborn" /\ run' = [run EXCEPT ![h] = "starting"])
        /\ stop' = stop \/ stop' = [stop EXCEPT ![h] = TRUE]
        /\ \/ inMap' = [inMap EXCEPT ![ServerOf[h]] = h]
           \/ inMap' = [inMap EXCEPT ![ServerOf[h]] = NoHub]
        /\ UNCHANGED <<redisVars, psVars, brkVars, chan, dataVars, histVars>>
    BY <1>1 DEF Create, Remove
  <2>2. /\ run' \in [Hubs -> {"unborn", "starting", "subscribing", "loop",
                            "unsubscribing", "gone"}]
        /\ stop' \in [Hubs -> BOOLEAN]
    BY <1>0, <2>1 DEF Inv, TypeOK
  <2>3. inMap' \in [Servers -> Hubs \cup {NoHub}]
    BY <1>0, <2>1 DEF Inv, TypeOK
  <2>4. TypeOK'
    BY <2>1, <2>2, <2>3 DEF Inv, TypeOK, redisVars, psVars, brkVars, dataVars, histVars
  <2>5. Supports'
    BY <1>0, <2>1 DEF Inv, TypeOK, Supports, brkVars, dataVars
  <2>6. QED
    BY <2>4, <2>5 DEF Inv
<1>2. CASE HubStarts(h)
  BY <1>0, <1>2 DEF HubStarts, Inv, TypeOK, Supports,
                    redisVars, psVars, brkVars, dataVars, histVars
<1>3. CASE Subscribe(h)
  <2>1. /\ run[h] = "subscribing" /\ run' = [run EXCEPT ![h] = "loop"]
        /\ handler' = [handler EXCEPT ![ServerOf[h]] = h]
        /\ robbed' = (robbed \ {h}) \cup ({handler[ServerOf[h]]} \ {h, NoHub})
        /\ chan' = [chan EXCEPT ![h] = IF fallback[ServerOf[h]] THEN "never" ELSE "redis"]
        /\ OpenPubSub(ServerOf[h]) \/ UNCHANGED <<subs, psVars>>
        /\ UNCHANGED <<redisVars, fallback, closed, mon, inMap, stop, dataVars,
                       accepted, repeated, overlaid>>
    BY <1>3 DEF Subscribe
  <2>2. PsTypes'
    <3>1. CASE UNCHANGED <<subs, psVars>>
      BY <1>0, <3>1 DEF PsTypes, psVars
    <3>2. QED
      BY <1>0, <2>1, <3>1, OpenTypes
  <2>3. robbed' \subseteq Hubs /\ handler' \in [Servers -> Hubs \cup {NoHub}]
    BY <1>0, <2>1 DEF Inv, TypeOK
  <2>4. chan' \in [Hubs -> {"never", "redis"}]
    BY <2>1 DEF Inv, TypeOK
  <2>5. TypeOK'
    BY <1>0, <2>1, <2>2, <2>3, <2>4 DEF Inv, TypeOK, PsTypes, redisVars, dataVars
  <2>6. Supports'
    BY <1>0, <2>1 DEF Inv, TypeOK, Supports, dataVars
  <2>7. QED
    BY <2>5, <2>6 DEF Inv
<1>4. CASE HubExits(h)
  BY <1>0, <1>4 DEF HubExits, Inv, TypeOK, Supports,
                    redisVars, psVars, brkVars, dataVars, histVars
<1>5. CASE Unsubscribe(h)
  <2>1. /\ run[h] = "unsubscribing" /\ run' = [run EXCEPT ![h] = "gone"]
        /\ handler' = [handler EXCEPT ![ServerOf[h]] = NoHub]
        /\ robbed' = robbed \cup ({handler[ServerOf[h]]} \ {h, NoHub})
        /\ ClosePubSub(ServerOf[h])
        /\ UNCHANGED <<redisVars, fallback, closed, mon, inMap, chan, stop, dataVars,
                       accepted, repeated, overlaid>>
    BY <1>5 DEF Unsubscribe
  <2>2. PsTypes'
    BY <1>0, <2>1, CloseTypes
  <2>3. robbed' \subseteq Hubs /\ handler' \in [Servers -> Hubs \cup {NoHub}]
    BY <1>0, <2>1 DEF Inv, TypeOK
  <2>4. TypeOK'
    BY <1>0, <2>1, <2>2, <2>3 DEF Inv, TypeOK, PsTypes, redisVars, dataVars
  <2>5. Supports'
    BY <1>0, <2>1 DEF Inv, TypeOK, Supports, dataVars
  <2>6. QED
    BY <2>4, <2>5 DEF Inv
<1>6. CASE PublishOk(h)
  <2>1. /\ RedisAccepts(h) /\ hand' = [hand EXCEPT ![h] = NoMsg] /\ hand[h] # NoMsg
        /\ UNCHANGED <<redisVars, psCount, open, joined, home, brkVars, hubVars, msgCh,
                       taken, shown, repeated, robbed, overlaid>>
    BY <1>6 DEF PublishOk, RedisAccepts
  <2>2. /\ queue' \in [PubSubs -> Seq(Msgs)]
        /\ accepted' = accepted \cup {hand[h]} /\ hand[h] \in Msgs
    BY <2>1, AcceptTypes DEF Inv
  <2>3. hand[h] \in taken
    BY <2>1 DEF Inv, Supports
  <2>4. TypeOK'
    BY <2>1, <2>2, <2>3 DEF Inv, TypeOK, redisVars, brkVars, hubVars
  <2>5. Supports'
    BY <1>0, <2>1 DEF Inv, TypeOK, Supports, brkVars, hubVars
  <2>6. QED
    BY <2>4, <2>5 DEF Inv
<1>7. CASE PublishLost(h)
  <2>1. /\ RedisAccepts(h) /\ hand[h] # NoMsg /\ repeated' = repeated \cup {hand[h]}
        /\ UNCHANGED <<redisVars, psCount, open, joined, home, brkVars, hubVars, dataVars,
                       robbed, overlaid>>
    BY <1>7 DEF PublishLost, RedisAccepts
  <2>2. /\ queue' \in [PubSubs -> Seq(Msgs)]
        /\ accepted' = accepted \cup {hand[h]} /\ hand[h] \in Msgs
    BY <2>1, AcceptTypes DEF Inv
  <2>3. hand[h] \in taken
    BY <2>1 DEF Inv, Supports
  <2>4. TypeOK'
    BY <2>1, <2>2, <2>3 DEF Inv, TypeOK, redisVars, brkVars, hubVars, dataVars
  <2>5. Supports'
    BY <2>1 DEF Inv, Supports, brkVars, hubVars, dataVars
  <2>6. QED
    BY <2>4, <2>5 DEF Inv
<1>8. CASE PublishFails(h)
  <2>1. /\ hand[h] \in Msgs /\ shown' = [shown EXCEPT ![h] = Append(@, hand[h])]
        /\ hand' = [hand EXCEPT ![h] = NoMsg]
        /\ UNCHANGED <<redisVars, psVars, brkVars, hubVars, msgCh, taken, histVars>>
    BY <1>8 DEF PublishFails, BroadcastLocal, Inv, TypeOK
  <2>2. shown' \in [Hubs -> Seq(Msgs)]
    BY <1>0, <2>1
  <2>3. TypeOK'
    BY <2>1, <2>2 DEF Inv, TypeOK, redisVars, psVars, brkVars, hubVars, histVars
  <2>4. Supports'
    BY <1>0, <2>1 DEF Inv, TypeOK, Supports, brkVars, hubVars
  <2>5. QED
    BY <2>3, <2>4 DEF Inv
<1>9. CASE HubHears(h)
  <2>1. /\ msgCh[h] # <<>> /\ msgCh' = [msgCh EXCEPT ![h] = Tail(@)]
        /\ shown' = shown \/ shown' = [shown EXCEPT ![h] = Append(@, Head(msgCh[h]))]
        /\ UNCHANGED <<redisVars, psVars, brkVars, hubVars, hand, taken, histVars>>
    BY <1>9 DEF HubHears, BroadcastLocal
  <2>2. /\ msgCh[h] \in Seq(Msgs) /\ msgCh \in [Hubs -> Seq(Msgs)]
        /\ \A g \in Hubs : Len(msgCh[g]) <= RedisCap
        /\ Len(msgCh[h]) <= RedisCap /\ RedisCap \in Nat
    BY BoundsAssumption DEF Inv, TypeOK
  <2>3. /\ Head(msgCh[h]) \in Msgs /\ Tail(msgCh[h]) \in Seq(Msgs)
        /\ Len(Tail(msgCh[h])) = Len(msgCh[h]) - 1 /\ Len(msgCh[h]) \in Nat
    BY <2>1, <2>2, HeadTailProperties, EmptySeq
  <2>4. shown' \in [Hubs -> Seq(Msgs)]
    <3>1. Append(shown[h], Head(msgCh[h])) \in Seq(Msgs)
      BY <1>0, <2>3
    <3>2. QED
      BY <1>0, <2>1, <3>1
  <2>5. msgCh' \in [Hubs -> Seq(Msgs)] /\ \A g \in Hubs : Len(msgCh'[g]) <= RedisCap
    <3>1. /\ msgCh' \in [Hubs -> Seq(Msgs)] /\ msgCh'[h] = Tail(msgCh[h])
          /\ \A g \in Hubs \ {h} : msgCh'[g] = msgCh[g]
      BY <2>1, <2>2, <2>3
    <3>2. Len(msgCh'[h]) <= RedisCap
      BY <2>2, <2>3, <3>1
    <3>3. QED
      BY <2>2, <3>1, <3>2
  <2>6. TypeOK'
    BY <2>1, <2>4, <2>5 DEF Inv, TypeOK, redisVars, psVars, brkVars, hubVars, histVars
  <2>7. Supports'
    BY <2>1 DEF Inv, Supports, brkVars, hubVars
  <2>8. QED
    BY <2>6, <2>7 DEF Inv
<1>10. ASSUME NEW m \in Msgs, Take(h, m) PROVE Inv'
  <2>1. /\ taken' = taken \cup {m}
        /\ \/ shown' = [shown EXCEPT ![h] = Append(@, m)] /\ hand' = hand
           \/ hand' = [hand EXCEPT ![h] = m] /\ shown' = shown
        /\ UNCHANGED <<redisVars, psVars, brkVars, hubVars, msgCh, histVars>>
    BY <1>10 DEF Take, BroadcastLocal
  <2>2. shown' \in [Hubs -> Seq(Msgs)]
    <3>1. Append(shown[h], m) \in Seq(Msgs)
      BY <1>0
    <3>2. QED
      BY <1>0, <2>1, <3>1
  <2>3. TypeOK'
    BY <2>1, <2>2 DEF Inv, TypeOK, redisVars, psVars, brkVars, hubVars, histVars
  <2>4. Supports'
    BY <2>1 DEF Inv, TypeOK, Supports, brkVars, hubVars
  <2>5. QED
    BY <2>3, <2>4 DEF Inv
<1>11. QED
  BY <1>1, <1>2, <1>3, <1>4, <1>5, <1>6, <1>7, <1>8, <1>9, <1>10 DEF HubNext

\* Every step.
LEMMA InvStep == Inv /\ [Next]_vars => Inv'
<1> SUFFICES ASSUME Inv, [Next]_vars PROVE Inv'
  OBVIOUS
<1>1. CASE UNCHANGED vars
  BY <1>1 DEF Inv, TypeOK, Supports, vars, redisVars, psVars, brkVars, hubVars, dataVars,
              histVars
<1>2. CASE Next
  BY <1>2, RedisTypes, BrokerTypes, HubTypes DEF Next
<1>3. QED
  BY <1>1, <1>2

\* The types of Broker: in particular no hub's msgCh exceeds its capacity, and
\* every subscription Redis knows is one that a server opened and has not
\* closed.
THEOREM TypeCorrect == Spec => []TypeOK
<1>1. Inv => TypeOK
  BY DEF Inv
<1>2. QED
  BY <1>1, InvInit, InvStep, PTL DEF Spec

(***************************************************************************)
(* The map of subscriptions.                                               *)
(***************************************************************************)
MapTrue == MapEntryIsLive /\ LeakComesFromOverlay

\* A PubSub that is opened while the map has no entry, or beside one that the
\* monitor is blamed for, leaves the map true.
LEMMA OpenMap ==
    ASSUME Inv, MapTrue, NEW s \in Servers, OpenPubSub(s), ~fallback[s],
           fallback' = fallback,
           overlaid' = overlaid \/ overlaid' = overlaid \cup {s},
           subs[s] = NoPs \/ s \in overlaid'
    PROVE  MapTrue'
<1>0. PsTypes /\ NoPs \notin Nat
  BY NilAssumption DEF Inv, TypeOK, PsTypes
<1>1. /\ psCount + 1 \in PubSubs /\ psCount + 1 \notin open
      /\ open' = open \cup {psCount + 1}
      /\ home' = [home EXCEPT ![psCount + 1] = s]
      /\ subs' = [subs EXCEPT ![s] = psCount + 1]
  BY <1>0, OpenTypes
<1>2. /\ open \subseteq PubSubs /\ home \in [PubSubs -> Servers]
      /\ subs \in [Servers -> PubSubs \cup {NoPs}]
      /\ \A p \in open : p \in Nat
  BY <1>0, BoundsAssumption DEF PsTypes, PubSubs
<1>3. \A p \in open : home'[p] = home[p]
  BY <1>1, <1>2
<1>4. home'[psCount + 1] = s /\ subs'[s] = psCount + 1
  BY <1>1, <1>2
<1>5. MapEntryIsLive'
  BY <1>1, <1>2, <1>3, <1>4 DEF MapTrue, MapEntryIsLive
<1>6. ASSUME NEW p \in open'
      PROVE  subs'[home'[p]] = p \/ home'[p] \in overlaid'
  <2>1. CASE p = psCount + 1
    BY <1>4, <2>1
  <2>2. CASE p \in open /\ home[p] = s
    <3>1. p # NoPs
      BY <1>0, <1>2, <2>2
    <3>2. subs[s] = p \/ s \in overlaid
      BY <2>2 DEF MapTrue, LeakComesFromOverlay
    <3>3. s \in overlaid'
      BY <3>1, <3>2
    <3>4. QED
      BY <1>3, <2>2, <3>3
  <2>3. CASE p \in open /\ home[p] # s
    <3>1. subs[home[p]] = p \/ home[p] \in overlaid
      BY <2>3 DEF MapTrue, LeakComesFromOverlay
    <3>2. subs'[home[p]] = subs[home[p]]
      BY <1>1, <1>2, <2>3
    <3>3. QED
      BY <1>3, <2>3, <3>1, <3>2
  <2>4. QED
    BY <1>1, <2>1, <2>2, <2>3
<1>7. QED
  BY <1>5, <1>6 DEF MapTrue, LeakComesFromOverlay

\* So does closing the map's entry, with which fallback may begin.
LEMMA CloseMap ==
    ASSUME Inv, MapTrue, NEW s \in Servers, ClosePubSub(s),
           fallback' = fallback \/ fallback' = [fallback EXCEPT ![s] = TRUE],
           overlaid' = overlaid
    PROVE  MapTrue'
<1>0. PsTypes /\ NoPs \notin Nat /\ fallback \in [Servers -> BOOLEAN]
  BY NilAssumption DEF Inv, TypeOK, PsTypes
<1>1. /\ open' = open \ {subs[s]} /\ home' = home
      /\ subs' = [subs EXCEPT ![s] = NoPs]
  BY <1>0, CloseTypes
<1>2. /\ subs \in [Servers -> PubSubs \cup {NoPs}] /\ home \in [PubSubs -> Servers]
      /\ open \subseteq PubSubs
  BY <1>0, BoundsAssumption DEF PsTypes, PubSubs
<1>3. ASSUME NEW t \in Servers, subs'[t] # NoPs
      PROVE  subs'[t] \in open' /\ home'[subs'[t]] = t /\ ~fallback'[t]
  <2>1. t # s /\ subs'[t] = subs[t]
    BY <1>1, <1>2, <1>3
  <2>2. subs[t] \in open /\ home[subs[t]] = t /\ ~fallback[t]
    BY <1>3, <2>1 DEF MapTrue, MapEntryIsLive
  <2>3. subs[t] # subs[s]
    <3>1. subs[s] # NoPs => home[subs[s]] = s
      BY DEF MapTrue, MapEntryIsLive
    <3>2. QED
      BY <1>3, <2>1, <2>2, <3>1
  <2>4. ~fallback'[t]
    BY <1>0, <2>1, <2>2
  <2>5. QED
    BY <1>1, <2>1, <2>2, <2>3, <2>4
<1>4. ASSUME NEW p \in open'
      PROVE  subs'[home'[p]] = p \/ home'[p] \in overlaid'
  <2>1. p \in open /\ p # subs[s] /\ home[p] \in Servers
    BY <1>1, <1>2
  <2>2. subs[home[p]] = p \/ home[p] \in overlaid
    BY <2>1 DEF MapTrue, LeakComesFromOverlay
  <2>3. home[p] = s \/ subs'[home[p]] = subs[home[p]]
    BY <1>1, <1>2, <2>1
  <2>4. QED
    BY <1>1, <2>1, <2>2, <2>3
<1>5. QED
  BY <1>3, <1>4 DEF MapTrue, MapEntryIsLive, LeakComesFromOverlay

\* Every step.
LEMMA MapStep == Inv /\ MapTrue /\ [Next]_vars => MapTrue'
<1> SUFFICES ASSUME Inv, MapTrue, [Next]_vars PROVE MapTrue'
  OBVIOUS
<1>1. ASSUME UNCHANGED <<open, home, subs, fallback, overlaid>> PROVE MapTrue'
  BY <1>1 DEF MapTrue, MapEntryIsLive, LeakComesFromOverlay
<1>2. ASSUME NEW s \in Servers, MonitorFallsBack(s) PROVE MapTrue'
  <2>1. CASE UNCHANGED <<fallback, subs, psVars>>
    BY <1>1, <1>2, <2>1 DEF MonitorFallsBack, psVars, histVars
  <2>2. CASE fallback' = [fallback EXCEPT ![s] = TRUE] /\ ClosePubSub(s)
    BY <1>2, <2>2, CloseMap DEF MonitorFallsBack, histVars
  <2>3. QED
    BY <1>2, <2>1, <2>2 DEF MonitorFallsBack
<1>3. ASSUME NEW s \in Servers, MonitorRecovers(s) PROVE MapTrue'
  <2>1. /\ fallback' = [fallback EXCEPT ![s] = FALSE]
        /\ UNCHANGED <<open, home, subs, overlaid>>
    BY <1>3 DEF MonitorRecovers, psVars, histVars
  <2>2. \A t \in Servers : fallback'[t] => fallback[t]
    BY <2>1 DEF Inv, TypeOK
  <2>3. QED
    BY <2>1, <2>2 DEF MapTrue, MapEntryIsLive, LeakComesFromOverlay
<1>4. ASSUME NEW s \in Servers, MonitorResubscribes(s) PROVE MapTrue'
  <2>1. /\ mon[s] = "restoring" /\ OpenPubSub(s) /\ fallback' = fallback
        /\ overlaid' = overlaid \/ overlaid' = overlaid \cup {s}
        /\ subs[s] = NoPs \/ s \in overlaid'
    BY <1>4 DEF MonitorResubscribes
  <2>2. ~fallback[s]
    BY <2>1 DEF Inv, Supports
  <2>3. QED
    BY <2>1, <2>2, OpenMap
<1>5. ASSUME NEW s \in Servers, Close(s) PROVE MapTrue'
  BY <1>5, CloseMap DEF Close, histVars
<1>6. ASSUME NEW h \in Hubs, Subscribe(h) PROVE MapTrue'
  <2> DEFINE s == ServerOf[h]
  <2>1. s \in Servers
    BY ServerOfAssumption
  <2>2. CASE fallback[s] \/ subs[s] # NoPs
    BY <1>1, <1>6, <2>2 DEF Subscribe, psVars
  <2>3. CASE ~(fallback[s] \/ subs[s] # NoPs)
    <3>1. OpenPubSub(s) /\ fallback' = fallback /\ overlaid' = overlaid
      BY <1>6, <2>3 DEF Subscribe
    <3>2. QED
      BY <2>1, <2>3, <3>1, OpenMap
  <2>4. QED
    BY <2>2, <2>3
<1>7. ASSUME NEW h \in Hubs, Unsubscribe(h) PROVE MapTrue'
  <2>1. ServerOf[h] \in Servers
    BY ServerOfAssumption
  <2>2. ClosePubSub(ServerOf[h]) /\ fallback' = fallback /\ overlaid' = overlaid
    BY <1>7 DEF Unsubscribe
  <2>3. QED
    BY <2>1, <2>2, CloseMap
<1>8. CASE \/ UNCHANGED vars \/ RedisFails \/ RedisReturns
           \/ \E p \in PubSubs : Joins(p) \/ Dispatch(p)
           \/ \E s \in Servers : Ping(s)
           \/ \E h \in Hubs :
                \/ Create(h) \/ HubStarts(h) \/ Remove(h) \/ HubExits(h)
                \/ PublishOk(h) \/ PublishLost(h) \/ PublishFails(h) \/ HubHears(h)
                \/ \E m \in Msgs : Take(h, m)
  <2>1. UNCHANGED <<open, home, subs, fallback, overlaid>>
    BY <1>8 DEF vars, RedisFails, RedisReturns, Joins, Dispatch, Ping, Create, HubStarts,
                Remove, HubExits, PublishOk, PublishLost, PublishFails, HubHears, Take,
                psVars, brkVars, histVars
  <2>2. QED
    BY <1>1, <2>1
<1>9. QED
  BY <1>2, <1>3, <1>4, <1>5, <1>6, <1>7, <1>8 DEF Next, BrokerNext, HubNext

\* What Subscribe takes for an active subscription is one: open, of this
\* server, and never in fallback.
THEOREM MapIsTrue == Spec => []MapEntryIsLive
<1>1. MapTrue => MapEntryIsLive
  BY DEF MapTrue
<1>2. Init => MapTrue
  BY InvInit DEF MapTrue
<1>3. QED
  BY <1>1, <1>2, InvInit, InvStep, MapStep, PTL DEF Spec

\* A listener leaks only in the recovery that overlays an entry made since
\* fallback was cleared.
THEOREM LeakHasOneCause == Spec => []LeakComesFromOverlay
<1>1. MapTrue => LeakComesFromOverlay
  BY DEF MapTrue
<1>2. Init => MapTrue
  BY InvInit DEF MapTrue
<1>3. QED
  BY <1>1, <1>2, InvInit, InvStep, MapStep, PTL DEF Spec

(***************************************************************************)
(* Deaf hubs, and messages in hand.                                        *)
(***************************************************************************)

\* What becomes deaf in a step whose monitor, handlers and map go as given.
LEMMA DeafStep == Inv /\ DeafComesFromOverlap /\ [Next]_vars => DeafComesFromOverlap'
<1> SUFFICES ASSUME Inv, DeafComesFromOverlap, [Next]_vars,
                    NEW g \in Hubs, run'[g] = "loop", chan'[g] = "redis",
                    g \notin robbed', ~closed'[ServerOf[g]]
             PROVE  ~Deaf(g)'
  BY DEF DeafComesFromOverlap
<1> DEFINE t == ServerOf[g]
<1>0. /\ t \in Servers /\ NoHub \notin Hubs /\ NoPs \notin Nat /\ PsTypes
      /\ PubSubs \subseteq Nat
      /\ subs \in [Servers -> PubSubs \cup {NoPs}]
      /\ fallback \in [Servers -> BOOLEAN] /\ closed \in [Servers -> BOOLEAN]
      /\ handler \in [Servers -> Hubs \cup {NoHub}]
      /\ mon \in [Servers -> {"idle", "pingOk", "pingFailed", "restoring", "ended"}]
  BY ServerOfAssumption, NilAssumption DEF Inv, TypeOK, PsTypes, PubSubs
<1>1. ASSUME run[g] = "loop", chan[g] = "redis", g \notin robbed, ~closed[t]
      PROVE  handler[t] = g /\ (subs[t] # NoPs \/ fallback[t] \/ mon[t] = "restoring")
  BY <1>1 DEF DeafComesFromOverlap, Deaf
<1> HIDE DEF t
<1>2. ASSUME handler'[t] = g, subs'[t] # NoPs \/ fallback'[t] \/ mon'[t] = "restoring"
      PROVE  ~Deaf(g)'
  BY <1>2 DEF Deaf, t
<1>3. ~closed'[t]
  BY DEF t
<1>4. ASSUME UNCHANGED <<run, chan, robbed, closed, handler, subs, fallback, mon>>
      PROVE  ~Deaf(g)'
  BY <1>1, <1>2, <1>3, <1>4
<1>5. ASSUME NEW s \in Servers, BrokerNext(s) PROVE ~Deaf(g)'
  <2>1. CASE Ping(s)
    <3>1. /\ mon[s] = "idle" /\ \A r \in Servers : r = s \/ mon'[r] = mon[r]
          /\ UNCHANGED <<run, chan, robbed, closed, handler, subs, fallback>>
      BY <1>0, <2>1 DEF Ping, hubVars, histVars
    <3>2. QED
      BY <1>0, <1>1, <1>2, <1>3, <3>1
  <2>2. CASE MonitorFallsBack(s)
    <3>1. /\ mon[s] = "pingFailed" /\ \A r \in Servers : r = s \/ mon'[r] = mon[r]
          /\ UNCHANGED <<run, chan, robbed, closed, handler>>
      BY <1>0, <2>2 DEF MonitorFallsBack, hubVars, histVars
    <3>2. CASE UNCHANGED <<fallback, subs, psVars>>
      BY <1>0, <1>1, <1>2, <1>3, <3>1, <3>2
    <3>3. CASE fallback' = [fallback EXCEPT ![s] = TRUE] /\ ClosePubSub(s)
      <4>1. subs' = [subs EXCEPT ![s] = NoPs]
        BY <3>3 DEF ClosePubSub
      <4>2. QED
        BY <1>0, <1>1, <1>2, <1>3, <3>1, <3>3, <4>1
    <3>4. QED
      BY <2>2, <3>2, <3>3 DEF MonitorFallsBack
  <2>3. CASE MonitorRecovers(s)
    <3>1. /\ mon[s] = "pingOk" /\ fallback' = [fallback EXCEPT ![s] = FALSE]
          /\ mon' = [mon EXCEPT ![s] = IF fallback[s] /\ handler[s] # NoHub
                                         THEN "restoring" ELSE "idle"]
          /\ UNCHANGED <<run, chan, robbed, closed, handler, subs>>
      BY <2>3 DEF MonitorRecovers, hubVars, histVars, psVars
    <3>2. handler[t] = g /\ (subs[t] # NoPs \/ fallback[t] \/ mon[t] = "restoring")
      BY <1>1, <1>3, <3>1
    <3>3. CASE s = t
      <4>1. subs[t] # NoPs \/ mon'[t] = "restoring"
        BY <1>0, <3>1, <3>2, <3>3
      <4>2. QED
        BY <1>2, <3>1, <3>2, <4>1
    <3>4. CASE s # t
      BY <1>0, <1>2, <3>1, <3>2, <3>4
    <3>5. QED
      BY <3>3, <3>4
  <2>4. CASE MonitorResubscribes(s)
    <3>1. /\ \A r \in Servers : r = s \/ mon'[r] = mon[r]
          /\ OpenPubSub(s)
          /\ UNCHANGED <<run, chan, robbed, closed, handler, fallback>>
      BY <1>0, <2>4 DEF MonitorResubscribes, hubVars
    <3>2. /\ subs' = [subs EXCEPT ![s] = psCount + 1] /\ psCount + 1 \in PubSubs
      BY <1>0, <3>1, OpenTypes
    <3>3. psCount + 1 # NoPs
      BY <1>0, <3>2
    <3>4. QED
      BY <1>0, <1>1, <1>2, <1>3, <3>1, <3>2, <3>3
  <2>5. CASE Close(s)
    <3>1. /\ closed' = [closed EXCEPT ![s] = TRUE] /\ ClosePubSub(s)
          /\ UNCHANGED <<run, chan, robbed, handler, fallback, mon>>
      BY <2>5 DEF Close, hubVars, histVars
    <3>2. s # t
      BY <1>0, <1>3, <3>1
    <3>3. subs'[t] = subs[t] /\ closed'[t] = closed[t]
      BY <1>0, <3>1, <3>2 DEF ClosePubSub
    <3>4. QED
      BY <1>1, <1>2, <1>3, <3>1, <3>3
  <2>6. QED
    BY <1>5, <2>1, <2>2, <2>3, <2>4, <2>5 DEF BrokerNext
<1>6. ASSUME NEW h \in Hubs, Subscribe(h) PROVE ~Deaf(g)'
  <2> DEFINE s == ServerOf[h]
  <2>1. s \in Servers
    BY ServerOfAssumption
  <2>2. /\ run' = [run EXCEPT ![h] = "loop"]
        /\ handler' = [handler EXCEPT ![s] = h]
        /\ robbed' = (robbed \ {h}) \cup ({handler[s]} \ {h, NoHub})
        /\ chan' = [chan EXCEPT ![h] = IF fallback[s] THEN "never" ELSE "redis"]
        /\ \/ (fallback[s] \/ subs[s] # NoPs) /\ UNCHANGED <<subs, psVars>>
           \/ OpenPubSub(s)
        /\ UNCHANGED <<fallback, closed, mon>>
    BY <1>6 DEF Subscribe
  <2>3. run \in [Hubs -> {"unborn", "starting", "subscribing", "loop",
                         "unsubscribing", "gone"}]
        /\ chan \in [Hubs -> {"never", "redis"}]
    BY DEF Inv, TypeOK
  <2>4. \/ subs' = subs /\ (fallback[s] \/ subs[s] # NoPs)
        \/ subs' = [subs EXCEPT ![s] = psCount + 1] /\ psCount + 1 # NoPs
    BY <1>0, <2>1, <2>2, OpenTypes
  <2> HIDE DEF s
  <2>5. CASE g = h
    <3>1. t = s
      BY <2>5 DEF s, t
    <3>2. handler'[t] = g
      BY <1>0, <2>2, <2>5, <3>1
    <3>3. ~fallback[s]
      BY <2>2, <2>3, <2>5
    <3>4. subs'[t] # NoPs
      BY <1>0, <2>4, <3>1, <3>3
    <3>5. QED
      BY <1>2, <3>2, <3>4
  <2>6. CASE g # h
    <3>1. run[g] = "loop" /\ chan[g] = "redis" /\ g \notin robbed /\ ~closed[t]
      BY <1>3, <2>2, <2>3, <2>6
    <3>2. handler[t] = g /\ (subs[t] # NoPs \/ fallback[t] \/ mon[t] = "restoring")
      BY <1>1, <3>1
    <3>3. s # t
      BY <1>0, <2>2, <2>6, <3>2
    <3>4. handler'[t] = g /\ subs'[t] = subs[t]
      BY <1>0, <2>2, <2>4, <3>2, <3>3
    <3>5. QED
      BY <1>2, <2>2, <3>2, <3>4
  <2>7. QED
    BY <2>5, <2>6
<1>7. ASSUME NEW h \in Hubs, Unsubscribe(h) PROVE ~Deaf(g)'
  <2> DEFINE s == ServerOf[h]
  <2>1. s \in Servers
    BY ServerOfAssumption
  <2>2. /\ run' = [run EXCEPT ![h] = "gone"]
        /\ handler' = [handler EXCEPT ![s] = NoHub]
        /\ robbed' = robbed \cup ({handler[s]} \ {h, NoHub})
        /\ subs' = [subs EXCEPT ![s] = NoPs]
        /\ UNCHANGED <<chan, fallback, closed, mon>>
    BY <1>7 DEF Unsubscribe, ClosePubSub
  <2>3. run \in [Hubs -> {"unborn", "starting", "subscribing", "loop",
                         "unsubscribing", "gone"}]
    BY DEF Inv, TypeOK
  <2> HIDE DEF s
  <2>4. g # h
    BY <2>2, <2>3
  <2>5. run[g] = "loop" /\ chan[g] = "redis" /\ g \notin robbed /\ ~closed[t]
    BY <1>3, <2>2, <2>3, <2>4
  <2>6. handler[t] = g /\ (subs[t] # NoPs \/ fallback[t] \/ mon[t] = "restoring")
    BY <1>1, <2>5
  <2>7. s # t
    BY <1>0, <2>2, <2>4, <2>6
  <2>8. handler'[t] = g /\ subs'[t] = subs[t]
    BY <1>0, <2>2, <2>6, <2>7
  <2>9. QED
    BY <1>2, <2>2, <2>6, <2>8
<1>8. ASSUME NEW h \in Hubs, Create(h) \/ HubStarts(h) \/ HubExits(h) PROVE ~Deaf(g)'
  <2>1. /\ run[h] \in {"unborn", "starting", "loop"}
        /\ \E r \in {"starting", "loop", "subscribing", "unsubscribing", "gone"} :
             /\ run' = [run EXCEPT ![h] = r]
             /\ r = "loop" => run[h] = "starting"
        /\ UNCHANGED <<chan, robbed, closed, handler, subs, fallback, mon>>
    BY <1>8 DEF Create, HubStarts, HubExits, brkVars, histVars
  <2>2. run[g] = "loop"
    BY <2>1 DEF Inv, TypeOK, Supports
  <2>3. QED
    BY <1>1, <1>2, <1>3, <2>1, <2>2
<1>9. CASE \/ UNCHANGED vars \/ RedisFails \/ RedisReturns
           \/ \E p \in PubSubs : Joins(p) \/ Dispatch(p)
           \/ \E h \in Hubs :
                \/ Remove(h) \/ PublishOk(h) \/ PublishLost(h) \/ PublishFails(h) \/ HubHears(h)
                \/ \E m \in Msgs : Take(h, m)
  <2>1. UNCHANGED <<run, chan, robbed, closed, handler, subs, fallback, mon>>
    BY <1>9 DEF vars, RedisFails, RedisReturns, Joins, Dispatch, Remove, PublishOk,
                PublishLost, PublishFails, HubHears, Take, brkVars, hubVars, histVars
  <2>2. QED
    BY <1>4, <2>1
<1>10. QED
  BY <1>5, <1>6, <1>7, <1>8, <1>9 DEF Next, HubNext

\* A hub that subscribed is deaf only if another hub's Subscribe or
\* Unsubscribe got in between, or the broker is closed.
THEOREM DeafHasOneCause == Spec => []DeafComesFromOverlap
<1>1. Init => DeafComesFromOverlap
  BY InvInit
<1>2. QED
  BY <1>1, InvInit, InvStep, DeafStep, PTL DEF Spec

\* Where a message is that some hub has taken.
Kept(m) ==
    m \in accepted \/ \E h \in Hubs :
        hand[h] = m \/ \E i \in DOMAIN shown[h] : shown[h][i] = m

\* What is shown stays shown.
LEMMA ShowKeeps ==
    ASSUME TypeOK, NEW h \in Hubs, NEW x \in Msgs, BroadcastLocal(h, x)
    PROVE  /\ \E i \in DOMAIN shown'[h] : shown'[h][i] = x
           /\ \A g \in Hubs : \A m \in Msgs :
                (\E i \in DOMAIN shown[g] : shown[g][i] = m)
                  => \E i \in DOMAIN shown'[g] : shown'[g][i] = m
<1>1. shown \in [Hubs -> Seq(Msgs)] /\ shown[h] \in Seq(Msgs)
  BY DEF TypeOK
<1>2. /\ shown'[h] = Append(shown[h], x)
      /\ \A g \in Hubs \ {h} : shown'[g] = shown[g]
  BY <1>1 DEF BroadcastLocal
<1>3. /\ Len(shown[h]) + 1 \in DOMAIN shown'[h] /\ shown'[h][Len(shown[h]) + 1] = x
      /\ \A i \in DOMAIN shown[h] : i \in DOMAIN shown'[h] /\ shown'[h][i] = shown[h][i]
  BY <1>1, <1>2
<1>4. QED
  BY <1>2, <1>3

\* A message leaves a hand when Redis has it or it is shown.
LEMMA KeptStep == Inv /\ TakenIsHandedOn /\ [Next]_vars => TakenIsHandedOn'
<1> SUFFICES ASSUME Inv, TakenIsHandedOn, [Next]_vars, NEW m \in taken'
             PROVE  Kept(m)'
  BY DEF TakenIsHandedOn, Kept
<1>0. /\ TypeOK /\ NoMsg \notin Msgs /\ hand \in [Hubs -> Msgs \cup {NoMsg}]
      /\ taken \subseteq Msgs
  BY NilAssumption DEF Inv, TypeOK
<1>1. m \in taken => Kept(m) /\ m \in Msgs
  BY <1>0 DEF TakenIsHandedOn, Kept
<1>2. ASSUME UNCHANGED <<taken, hand, shown>>, accepted \subseteq accepted' PROVE Kept(m)'
  BY <1>1, <1>2 DEF Kept
<1>3. ASSUME NEW h \in Hubs, NEW x \in Msgs, Take(h, x) PROVE Kept(m)'
  <2>1. /\ hand[h] = NoMsg /\ taken' = taken \cup {x} /\ accepted' = accepted
        /\ \/ BroadcastLocal(h, x) /\ hand' = hand
           \/ hand' = [hand EXCEPT ![h] = x] /\ shown' = shown
    BY <1>3 DEF Take, histVars
  <2>2. CASE BroadcastLocal(h, x) /\ hand' = hand
    BY <1>0, <1>1, <2>1, <2>2, ShowKeeps DEF Kept
  <2>3. CASE hand' = [hand EXCEPT ![h] = x] /\ shown' = shown
    <3>1. hand'[h] = x /\ \A g \in Hubs \ {h} : hand'[g] = hand[g]
      BY <1>0, <2>3
    <3>2. QED
      BY <1>0, <1>1, <2>1, <2>3, <3>1 DEF Kept
  <2>4. QED
    BY <2>1, <2>2, <2>3
<1>4. ASSUME NEW h \in Hubs, PublishOk(h) PROVE Kept(m)'
  <2>1. /\ accepted' = accepted \cup {hand[h]} /\ hand' = [hand EXCEPT ![h] = NoMsg]
        /\ UNCHANGED <<taken, shown>>
    BY <1>4 DEF PublishOk, RedisAccepts
  <2>2. \A g \in Hubs \ {h} : hand'[g] = hand[g]
    BY <1>0, <2>1
  <2>3. QED
    BY <1>1, <2>1, <2>2 DEF Kept
<1>5. ASSUME NEW h \in Hubs, PublishFails(h) PROVE Kept(m)'
  <2>1. /\ hand[h] \in Msgs /\ BroadcastLocal(h, hand[h])
        /\ hand' = [hand EXCEPT ![h] = NoMsg] /\ accepted' = accepted /\ taken' = taken
    BY <1>0, <1>5 DEF PublishFails, histVars
  <2>2. \A g \in Hubs \ {h} : hand'[g] = hand[g]
    BY <1>0, <2>1
  <2>3. QED
    BY <1>0, <1>1, <2>1, <2>2, ShowKeeps DEF Kept
<1>6. ASSUME NEW h \in Hubs, HubHears(h) PROVE Kept(m)'
  <2>1. /\ msgCh[h] # <<>> /\ UNCHANGED <<hand, taken, accepted>>
        /\ shown' = shown \/ BroadcastLocal(h, Head(msgCh[h]))
    BY <1>6 DEF HubHears, histVars
  <2>2. Head(msgCh[h]) \in Msgs
    BY <2>1, HeadTailProperties, EmptySeq DEF Inv, TypeOK
  <2>3. CASE shown' = shown
    BY <1>2, <2>1, <2>3
  <2>4. CASE BroadcastLocal(h, Head(msgCh[h]))
    BY <1>0, <1>1, <2>1, <2>2, <2>4, ShowKeeps DEF Kept
  <2>5. QED
    BY <2>1, <2>3, <2>4
<1>7. CASE \/ UNCHANGED vars \/ RedisFails \/ RedisReturns
           \/ \E p \in PubSubs : Joins(p) \/ Dispatch(p)
           \/ \E s \in Servers : BrokerNext(s)
           \/ \E h \in Hubs :
                \/ Create(h) \/ HubStarts(h) \/ Subscribe(h) \/ Remove(h)
                \/ HubExits(h) \/ Unsubscribe(h) \/ PublishLost(h)
  <2>1. UNCHANGED <<taken, hand, shown>> /\ accepted \subseteq accepted'
    BY <1>7 DEF vars, RedisFails, RedisReturns, Joins, Dispatch, BrokerNext, Ping,
                MonitorFallsBack, MonitorRecovers, MonitorResubscribes, Close, Create,
                HubStarts, Subscribe, Remove, HubExits, Unsubscribe, PublishLost,
                RedisAccepts, dataVars, histVars
  <2>2. QED
    BY <1>2, <2>1
<1>8. QED
  BY <1>3, <1>4, <1>5, <1>6, <1>7 DEF Next, HubNext

\* A message that a hub took is in its hands, with Redis, or shown to its
\* clients, whenever the broker changes to fallback and back.
THEOREM NothingIsDropped == Spec => []TakenIsHandedOn
<1>1. Init => TakenIsHandedOn
  BY InvInit
<1>2. QED
  BY <1>1, InvInit, InvStep, KeptStep, PTL DEF Spec

(***************************************************************************)
(* Shown twice.  A message passes through three kinds of places on a       *)
(* server: what a PubSub has received, what a hub's msgCh holds, and what  *)
(* a hub has shown.  Unless the reply to its PUBLISH was lost or the       *)
(* monitor overlaid an entry there, it is in one of them, once.            *)
(***************************************************************************)
Places == ({"queue"} \X PubSubs) \cup ({"msgCh", "shown"} \X Hubs)

Holds ==
    [x \in Places |-> IF x[1] = "queue" THEN queue[x[2]]
                      ELSE IF x[1] = "msgCh" THEN msgCh[x[2]] ELSE shown[x[2]]]

At == [x \in Places |-> IF x[1] = "queue" THEN home[x[2]] ELSE ServerOf[x[2]]]

OnceIn(K, W, R, O) ==
    \A x, y \in Places : W[x] = W[y] /\ W[x] \notin O =>
        \A i \in DOMAIN K[x], j \in DOMAIN K[y] :
            K[x][i] = K[y][j] /\ K[x][i] \notin R => x = y /\ i = j

AbsentIn(K, m) == \A x \in Places : \A i \in DOMAIN K[x] : K[x][i] # m

Once == OnceIn(Holds, At, repeated, overlaid)

(***************************************************************************)
(* What Once rests on: a handler is a hub of its server, no two hubs have  *)
(* one message in hand, what is anywhere was taken, and what is in hand is *)
(* nowhere else, unless its PUBLISH is being repeated.                     *)
(***************************************************************************)
HandlersAtHome == \A s \in Servers : handler[s] # NoHub => ServerOf[handler[s]] = s

HandsDiffer == \A h, g \in Hubs : hand[h] = hand[g] /\ hand[h] # NoMsg => h = g

AllTaken == \A x \in Places : \A i \in DOMAIN Holds[x] : Holds[x][i] \in taken

HandsAreNew ==
    \A h \in Hubs : hand[h] # NoMsg /\ hand[h] \notin repeated => AbsentIn(Holds, hand[h])

FreshAreEmpty == \A p \in PubSubs : p > psCount => queue[p] = <<>>

PlacesInv ==
    HandlersAtHome /\ HandsDiffer /\ AllTaken /\ HandsAreNew /\ FreshAreEmpty /\ Once

\* The kinds of places, one by one.
LEMMA PlaceFacts ==
    /\ \A p \in PubSubs :
         /\ <<"queue", p>> \in Places
         /\ Holds[<<"queue", p>>] = queue[p] /\ At[<<"queue", p>>] = home[p]
    /\ \A h \in Hubs :
         /\ <<"msgCh", h>> \in Places /\ <<"shown", h>> \in Places
         /\ Holds[<<"msgCh", h>>] = msgCh[h] /\ At[<<"msgCh", h>>] = ServerOf[h]
         /\ Holds[<<"shown", h>>] = shown[h] /\ At[<<"shown", h>>] = ServerOf[h]
    /\ \A x \in Places : \/ \E p \in PubSubs : x = <<"queue", p>>
                         \/ \E h \in Hubs : x = <<"msgCh", h>> \/ x = <<"shown", h>>
BY DEF Places, Holds, At

\* The same after a step.
LEMMA PlaceFactsNext ==
    /\ \A p \in PubSubs :
         Holds'[<<"queue", p>>] = queue'[p] /\ At'[<<"queue", p>>] = home'[p]
    /\ \A h \in Hubs :
         /\ Holds'[<<"msgCh", h>>] = msgCh'[h] /\ At'[<<"msgCh", h>>] = ServerOf[h]
         /\ Holds'[<<"shown", h>>] = shown'[h] /\ At'[<<"shown", h>>] = ServerOf[h]
BY DEF Places, Holds, At

LEMMA HoldsType == ASSUME TypeOK PROVE Holds \in [Places -> Seq(Msgs)]
BY PlaceFacts DEF TypeOK, Holds, Places

\* A thinned K: every element was there, so far further on, in the same place,
\* of the same server.
ThinOf(K1, W1, K, W, cut) ==
    \A x \in Places : \A i \in DOMAIN K1[x] :
        /\ i + cut[x] \in DOMAIN K[x] /\ K1[x][i] = K[x][i + cut[x]]
        /\ W1[x] = W[x]

\* Thinning keeps what is in one place there; so does more to blame.
LEMMA ThinOnce ==
    ASSUME NEW K, NEW W, NEW R, NEW O, NEW K1, NEW W1, NEW R1, NEW O1,
           NEW cut \in [Places -> Nat],
           K1 \in [Places -> Seq(Msgs)],
           OnceIn(K, W, R, O), ThinOf(K1, W1, K, W, cut), R \subseteq R1, O \subseteq O1
    PROVE  OnceIn(K1, W1, R1, O1)
<1> SUFFICES ASSUME NEW x \in Places, NEW y \in Places, W1[x] = W1[y], W1[x] \notin O1,
                    NEW i \in DOMAIN K1[x], NEW j \in DOMAIN K1[y],
                    K1[x][i] = K1[y][j], K1[x][i] \notin R1
             PROVE  x = y /\ i = j
  BY DEF OnceIn
<1>1. /\ i + cut[x] \in DOMAIN K[x] /\ K1[x][i] = K[x][i + cut[x]] /\ W1[x] = W[x]
      /\ j + cut[y] \in DOMAIN K[y] /\ K1[y][j] = K[y][j + cut[y]] /\ W1[y] = W[y]
  BY DEF ThinOf
<1>2. x = y /\ i + cut[x] = j + cut[y]
  BY <1>1 DEF OnceIn
<1>3. i \in Int /\ j \in Int /\ cut[x] \in Nat
  <2>1. K1[x] \in Seq(Msgs) /\ K1[y] \in Seq(Msgs)
    OBVIOUS
  <2>2. DOMAIN K1[x] = 1..Len(K1[x]) /\ DOMAIN K1[y] = 1..Len(K1[y])
        /\ Len(K1[x]) \in Nat /\ Len(K1[y]) \in Nat
    BY <2>1
  <2>3. QED
    BY <2>2
<1>4. QED
  BY <1>2, <1>3

\* What was absent stays absent.
LEMMA ThinAbsent ==
    ASSUME NEW K, NEW W, NEW K1, NEW W1, NEW cut, NEW m,
           AbsentIn(K, m), ThinOf(K1, W1, K, W, cut)
    PROVE  AbsentIn(K1, m)
BY DEF AbsentIn, ThinOf

\* K with m appended in the places N.
AddedTo(K1, K, N, m) ==
    \A x \in Places : K1[x] = IF x \in N THEN Append(K[x], m) ELSE K[x]

\* The elements of such a K.
LEMMA AddedElements ==
    ASSUME NEW K \in [Places -> Seq(Msgs)], NEW K1, NEW N, NEW m \in Msgs,
           AddedTo(K1, K, N, m), NEW x \in Places, NEW i \in DOMAIN K1[x]
    PROVE  \/ i \in DOMAIN K[x] /\ K1[x][i] = K[x][i]
           \/ x \in N /\ i = Len(K[x]) + 1 /\ K1[x][i] = m
<1>1. K[x] \in Seq(Msgs)
  OBVIOUS
<1>2. CASE x \in N
  <2>1. K1[x] = Append(K[x], m)
    BY <1>2 DEF AddedTo
  <2>2. QED
    BY <1>1, <1>2, <2>1
<1>3. CASE x \notin N
  BY <1>3 DEF AddedTo
<1>4. QED
  BY <1>2, <1>3

\* A message that no server has, or none but those to blame, may be appended in
\* one place of each.
LEMMA AddOnce ==
    ASSUME NEW K \in [Places -> Seq(Msgs)], NEW K1, NEW W, NEW R, NEW O, NEW N,
           NEW m \in Msgs, AddedTo(K1, K, N, m), OnceIn(K, W, R, O),
           m \notin R =>
             \A x \in N \cap Places, y \in Places : W[x] = W[y] /\ W[x] \notin O =>
               (y \in N => x = y) /\ \A j \in DOMAIN K[y] : K[y][j] # m
    PROVE  OnceIn(K1, W, R, O)
<1> SUFFICES ASSUME NEW x \in Places, NEW y \in Places, W[x] = W[y], W[x] \notin O,
                    NEW i \in DOMAIN K1[x], NEW j \in DOMAIN K1[y],
                    K1[x][i] = K1[y][j], K1[x][i] \notin R
             PROVE  x = y /\ i = j
  BY DEF OnceIn
<1>1. \/ i \in DOMAIN K[x] /\ K1[x][i] = K[x][i]
      \/ x \in N /\ i = Len(K[x]) + 1 /\ K1[x][i] = m
  BY AddedElements
<1>2. \/ j \in DOMAIN K[y] /\ K1[y][j] = K[y][j]
      \/ y \in N /\ j = Len(K[y]) + 1 /\ K1[y][j] = m
  BY AddedElements
<1>3. CASE /\ i \in DOMAIN K[x] /\ K1[x][i] = K[x][i]
           /\ j \in DOMAIN K[y] /\ K1[y][j] = K[y][j]
  <2>1. K[x][i] = K[y][j] /\ K[x][i] \notin R
    BY <1>3
  <2>2. QED
    BY <1>3, <2>1 DEF OnceIn
<1>4. CASE /\ x \in N /\ i = Len(K[x]) + 1 /\ K1[x][i] = m
           /\ j \in DOMAIN K[y] /\ K1[y][j] = K[y][j]
  BY <1>4
<1>5. CASE /\ i \in DOMAIN K[x] /\ K1[x][i] = K[x][i]
           /\ y \in N /\ j = Len(K[y]) + 1 /\ K1[y][j] = m
  BY <1>5
<1>6. CASE /\ x \in N /\ i = Len(K[x]) + 1 /\ K1[x][i] = m
           /\ y \in N /\ j = Len(K[y]) + 1 /\ K1[y][j] = m
  BY <1>6
<1>7. QED
  BY <1>1, <1>2, <1>3, <1>4, <1>5, <1>6

\* Another message that was absent stays so.
LEMMA AddAbsent ==
    ASSUME NEW K \in [Places -> Seq(Msgs)], NEW K1, NEW N, NEW m \in Msgs, NEW n,
           AddedTo(K1, K, N, m), AbsentIn(K, n), n # m
    PROVE  AbsentIn(K1, n)
BY AddedElements DEF AbsentIn

\* The first state.
LEMMA PlacesInit == Init => PlacesInv
<1> SUFFICES ASSUME Init PROVE PlacesInv
  OBVIOUS
<1>1. \A x \in Places : DOMAIN Holds[x] = {}
  <2>1. DOMAIN <<>> = {}
    OBVIOUS
  <2>2. /\ \A p \in PubSubs : queue[p] = <<>>
        /\ \A h \in Hubs : msgCh[h] = <<>> /\ shown[h] = <<>>
    BY DEF Init
  <2>3. ASSUME NEW x \in Places PROVE Holds[x] = <<>>
    <3>1. CASE \E p \in PubSubs : x = <<"queue", p>>
      BY <2>2, <3>1, PlaceFacts
    <3>2. CASE \E h \in Hubs : x = <<"msgCh", h>> \/ x = <<"shown", h>>
      BY <2>2, <3>2, PlaceFacts
    <3>3. QED
      BY <3>1, <3>2, PlaceFacts
  <2>4. QED
    BY <2>1, <2>3
<1>2. HandlersAtHome /\ HandsDiffer /\ FreshAreEmpty
  BY DEF Init, HandlersAtHome, HandsDiffer, FreshAreEmpty
<1>3. AllTaken /\ HandsAreNew /\ Once
  BY <1>1 DEF AllTaken, HandsAreNew, AbsentIn, Once, OnceIn
<1>4. QED
  BY <1>2, <1>3 DEF PlacesInv

\* A step that only takes something away, from the front or the back.
LEMMA ThinStep ==
    ASSUME TypeOK', PlacesInv, NEW cut \in [Places -> Nat],
           ThinOf(Holds', At', Holds, At, cut),
           UNCHANGED <<hand, taken, repeated>>, overlaid \subseteq overlaid'
    PROVE  HandsDiffer' /\ AllTaken' /\ HandsAreNew' /\ Once'
<1>1. Holds' \in [Places -> Seq(Msgs)]
  BY PlaceFactsNext, PlaceFacts DEF TypeOK, Holds
<1>2. OnceIn(Holds', At', repeated', overlaid')
  BY <1>1, ThinOnce DEF PlacesInv, Once
<1>3. \A h \in Hubs :
        hand'[h] # NoMsg /\ hand'[h] \notin repeated' => AbsentIn(Holds', hand'[h])
  BY ThinAbsent DEF PlacesInv, HandsAreNew
<1>4. \A x \in Places : \A i \in DOMAIN Holds'[x] : Holds'[x][i] \in taken'
  BY DEF PlacesInv, AllTaken, ThinOf
<1>5. HandsDiffer'
  BY DEF PlacesInv, HandsDiffer
<1>6. QED
  BY <1>2, <1>3, <1>4, <1>5 DEF AllTaken, HandsAreNew, Once, OnceIn, AbsentIn

\* Opening and closing a PubSub: a fresh one is empty, one that is closed keeps
\* some of what it had received.
LEMMA PubSubThin ==
    ASSUME Inv, FreshAreEmpty, NEW s \in Servers,
           OpenPubSub(s) \/ ClosePubSub(s) \/ UNCHANGED <<subs, psVars>>,
           UNCHANGED <<msgCh, shown>>
    PROVE  /\ FreshAreEmpty'
           /\ ThinOf(Holds', At', Holds, At, [x \in Places |-> 0])
<1> DEFINE cut == [x \in Places |-> 0]
<1>0. /\ PsTypes /\ psCount \in Nat /\ NoPs \notin Nat
      /\ queue \in [PubSubs -> Seq(Msgs)] /\ home \in [PubSubs -> Servers]
  BY BoundsAssumption, NilAssumption DEF Inv, TypeOK, PsTypes
<1>1. ASSUME \A p \in PubSubs : \A i \in DOMAIN queue'[p] :
               /\ i + 0 \in DOMAIN queue[p] /\ queue'[p][i] = queue[p][i + 0]
               /\ home'[p] = home[p]
      PROVE  ThinOf(Holds', At', Holds, At, cut)
  <2>1. \A p \in PubSubs : cut[<<"queue", p>>] = 0
    BY PlaceFacts
  <2>2. \A h \in Hubs : cut[<<"msgCh", h>>] = 0 /\ cut[<<"shown", h>>] = 0
    BY PlaceFacts
  <2>3. \A q \in Seq(Msgs) : \A i \in DOMAIN q : i + 0 = i
    OBVIOUS
  <2>4. \A h \in Hubs : msgCh[h] \in Seq(Msgs) /\ shown[h] \in Seq(Msgs)
    BY DEF Inv, TypeOK
  <2> HIDE DEF cut
  <2>5. ASSUME NEW x \in Places, NEW i \in DOMAIN Holds'[x]
        PROVE  /\ i + cut[x] \in DOMAIN Holds[x] /\ Holds'[x][i] = Holds[x][i + cut[x]]
               /\ At'[x] = At[x]
    <3>1. CASE \E p \in PubSubs : x = <<"queue", p>>
      BY <1>1, <2>1, <2>5, <3>1, PlaceFacts, PlaceFactsNext
    <3>2. CASE \E h \in Hubs : x = <<"msgCh", h>>
      <4>1. PICK h \in Hubs : x = <<"msgCh", h>>
        BY <3>2
      <4>2. /\ Holds[x] = msgCh[h] /\ Holds'[x] = msgCh[h] /\ cut[x] = 0
            /\ At[x] = ServerOf[h] /\ At'[x] = ServerOf[h]
        BY <2>2, <4>1, PlaceFacts, PlaceFactsNext
      <4>3. i + 0 = i
        BY <2>3, <2>4, <2>5, <4>2
      <4>4. QED
        BY <2>5, <4>2, <4>3
    <3>3. CASE \E h \in Hubs : x = <<"shown", h>>
      <4>1. PICK h \in Hubs : x = <<"shown", h>>
        BY <3>3
      <4>2. /\ Holds[x] = shown[h] /\ Holds'[x] = shown[h] /\ cut[x] = 0
            /\ At[x] = ServerOf[h] /\ At'[x] = ServerOf[h]
        BY <2>2, <4>1, PlaceFacts, PlaceFactsNext
      <4>3. i + 0 = i
        BY <2>3, <2>4, <2>5, <4>2
      <4>4. QED
        BY <2>5, <4>2, <4>3
    <3>4. QED
      BY <3>1, <3>2, <3>3, PlaceFacts
  <2>6. QED
    BY <2>5 DEF ThinOf
<1>2. \A p \in PubSubs : \A i \in DOMAIN queue[p] : i + 0 = i
  BY <1>0
<1>3. CASE UNCHANGED <<subs, psVars>>
  <2>1. UNCHANGED <<queue, home, psCount>>
    BY <1>3 DEF psVars
  <2>2. QED
    BY <1>1, <1>2, <2>1 DEF FreshAreEmpty
<1>4. CASE OpenPubSub(s)
  <2>1. /\ queue' = queue /\ psCount' = psCount + 1 /\ psCount + 1 \in PubSubs
        /\ home' = [home EXCEPT ![psCount + 1] = s]
    BY <1>0, <1>4, OpenTypes DEF OpenPubSub
  <2>2. \A p \in PubSubs : p > psCount + 1 => p > psCount
    BY <1>0 DEF PubSubs
  <2>3. queue[psCount + 1] = <<>>
    BY <1>0, <2>1 DEF FreshAreEmpty
  <2>4. \A p \in PubSubs : queue[p] = <<>> \/ home'[p] = home[p]
    BY <1>0, <2>1, <2>3
  <2>5. FreshAreEmpty'
    BY <2>1, <2>2 DEF FreshAreEmpty
  <2>6. QED
    BY <1>1, <1>2, <2>1, <2>4, <2>5
<1>5. CASE ClosePubSub(s)
  <2>1. /\ psCount' = psCount /\ home' = home
        /\ \/ queue' = queue
           \/ /\ subs[s] \in PubSubs
              /\ \E k \in 0..Len(queue[subs[s]]) :
                   queue' = [queue EXCEPT ![subs[s]] = SubSeq(@, 1, k)]
    BY <1>0, <1>5 DEF ClosePubSub, PsTypes
  <2>2. CASE queue' = queue
    BY <1>1, <1>2, <2>1, <2>2 DEF FreshAreEmpty
  <2>3. CASE queue' # queue
    <3>1. PICK k \in 0..Len(queue[subs[s]]) :
            queue' = [queue EXCEPT ![subs[s]] = SubSeq(@, 1, k)]
      BY <2>1, <2>3
    <3>2. /\ subs[s] \in PubSubs /\ queue[subs[s]] \in Seq(Msgs)
          /\ queue'[subs[s]] = SubSeq(queue[subs[s]], 1, k)
          /\ \A p \in PubSubs \ {subs[s]} : queue'[p] = queue[p]
      BY <1>0, <2>1, <2>3, <3>1
    <3>3. \A i \in DOMAIN queue'[subs[s]] :
            i \in DOMAIN queue[subs[s]] /\ queue'[subs[s]][i] = queue[subs[s]][i]
      <4>1. DOMAIN queue'[subs[s]] = 1..k
        BY <3>2
      <4>2. QED
        BY <3>2, <4>1
    <3>4. queue[subs[s]] = <<>> => queue'[subs[s]] = <<>>
      <4>1. queue[subs[s]] = <<>> => k = 0
        BY <3>1
      <4>2. SubSeq(queue[subs[s]], 1, 0) = <<>>
        BY <3>2
      <4>3. QED
        BY <3>2, <4>1, <4>2
    <3>5. FreshAreEmpty'
      BY <2>1, <3>2, <3>4 DEF FreshAreEmpty
    <3>6. QED
      BY <1>1, <1>2, <2>1, <3>2, <3>3, <3>5
  <2>4. QED
    BY <2>2, <2>3
<1>6. QED
  BY <1>3, <1>4, <1>5

\* What is held when the first element of z is gone.
HeadOff(z) == [Holds EXCEPT ![z] = Tail(@)]

\* The first element of one place goes, or moves to the end of another of the
\* same server: listenRoom and the hub's redisCh.
LEMMA MoveStep ==
    ASSUME Inv, TypeOK', PlacesInv, NEW z \in Places, Holds[z] # <<>>,
           NEW N, N \subseteq Places \ {z},
           \A x, y \in N : x = y, \A y \in N : At[y] = At[z],
           AddedTo(Holds', HeadOff(z), N, Head(Holds[z])),
           At' = At, UNCHANGED <<hand, taken, repeated, overlaid>>
    PROVE  HandsDiffer' /\ AllTaken' /\ HandsAreNew' /\ Once'
<1> DEFINE m  == Head(Holds[z])
           K  == HeadOff(z)
           cut == [x \in Places |-> IF x = z THEN 1 ELSE 0]
<1>1. /\ Holds \in [Places -> Seq(Msgs)] /\ Holds[z] \in Seq(Msgs)
      /\ m \in Msgs /\ Tail(Holds[z]) \in Seq(Msgs)
  BY HoldsType, HeadTailProperties, EmptySeq DEF Inv
<1>2. /\ 1 \in DOMAIN Holds[z] /\ m = Holds[z][1]
      /\ \A i \in DOMAIN Tail(Holds[z]) :
           /\ i \in Nat \ {0} /\ i + 1 \in DOMAIN Holds[z]
           /\ Tail(Holds[z])[i] = Holds[z][i + 1]
  BY <1>1
<1>3. /\ K \in [Places -> Seq(Msgs)] /\ K[z] = Tail(Holds[z])
      /\ \A x \in Places \ {z} : K[x] = Holds[x]
  BY <1>1 DEF HeadOff
<1>4. /\ cut \in [Places -> Nat] /\ cut[z] = 1 /\ \A x \in Places \ {z} : cut[x] = 0
  OBVIOUS
<1>5. \A q \in Seq(Msgs) : \A i \in DOMAIN q : i + 0 = i
  OBVIOUS
<1> HIDE DEF m, K, cut
<1>6. ThinOf(K, At, Holds, At, cut)
  <2>1. ASSUME NEW x \in Places, NEW i \in DOMAIN K[x]
        PROVE  i + cut[x] \in DOMAIN Holds[x] /\ K[x][i] = Holds[x][i + cut[x]]
    <3>1. CASE x = z
      BY <1>2, <1>3, <1>4, <2>1, <3>1
    <3>2. CASE x # z
      <4>1. K[x] = Holds[x] /\ cut[x] = 0 /\ i + 0 = i
        BY <1>1, <1>3, <1>4, <1>5, <2>1, <3>2
      <4>2. QED
        BY <2>1, <4>1
    <3>3. QED
      BY <3>1, <3>2
  <2>2. QED
    BY <2>1 DEF ThinOf
<1>7. OnceIn(K, At, repeated, overlaid)
  <2>1. OnceIn(Holds, At, repeated, overlaid)
    BY DEF PlacesInv, Once
  <2>2. QED
    BY <1>3, <1>4, <1>6, <2>1, ThinOnce
<1>8. ASSUME m \notin repeated, At[z] \notin overlaid,
             NEW y \in Places, At[y] = At[z], NEW j \in DOMAIN K[y]
      PROVE  K[y][j] # m
  <2>1. j + cut[y] \in DOMAIN Holds[y] /\ K[y][j] = Holds[y][j + cut[y]]
    BY <1>6, <1>8 DEF ThinOf
  <2>2. K[y][j] = m => y = z /\ j + cut[y] = 1
    <3>1. OnceIn(Holds, At, repeated, overlaid)
      BY DEF PlacesInv, Once
    <3>2. QED
      BY <1>2, <1>8, <2>1, <3>1 DEF OnceIn
  <2>3. y = z => j + cut[y] # 1
    BY <1>2, <1>3, <1>4, <1>8
  <2>4. QED
    BY <2>2, <2>3
<1>9. AddedTo(Holds', K, N, m)
  BY DEF K, m
<1>10. OnceIn(Holds', At, repeated, overlaid)
  <2>1. m \notin repeated =>
          \A x \in N \cap Places, y \in Places : At[x] = At[y] /\ At[x] \notin overlaid =>
            (y \in N => x = y) /\ \A j \in DOMAIN K[y] : K[y][j] # m
    BY <1>8
  <2>2. QED
    BY <1>1, <1>3, <1>7, <1>9, <2>1, AddOnce
<1>11. ASSUME NEW x \in Places, NEW i \in DOMAIN Holds'[x]
       PROVE  \E y \in Places : \E j \in DOMAIN Holds[y] : Holds'[x][i] = Holds[y][j]
  <2>1. \/ i \in DOMAIN K[x] /\ Holds'[x][i] = K[x][i]
        \/ x \in N /\ i = Len(K[x]) + 1 /\ Holds'[x][i] = m
    <3>1. K[x] \in Seq(Msgs)
      BY <1>3
    <3>2. Holds'[x] = IF x \in N THEN Append(K[x], m) ELSE K[x]
      BY <1>9 DEF AddedTo
    <3>3. QED
      BY <1>1, <1>11, <3>1, <3>2
  <2>2. QED
    BY <1>2, <1>6, <2>1 DEF ThinOf
<1>12. \A x \in Places : \A i \in DOMAIN Holds'[x] : Holds'[x][i] \in taken'
  BY <1>11 DEF PlacesInv, AllTaken
<1>13. \A h \in Hubs :
         hand'[h] # NoMsg /\ hand'[h] \notin repeated' => AbsentIn(Holds', hand'[h])
  BY <1>11 DEF PlacesInv, HandsAreNew, AbsentIn
<1>14. HandsDiffer'
  BY DEF PlacesInv, HandsDiffer
<1>15. QED
  BY <1>10, <1>12, <1>13, <1>14 DEF AllTaken, HandsAreNew, Once, OnceIn, AbsentIn

\* A message that was in no place, or whose PUBLISH is being repeated, comes to
\* at most one place of each server, but those to blame: broadcastLocal, and
\* what Redis accepts.
LEMMA NewStep ==
    ASSUME Inv, TypeOK', PlacesInv, NEW N, NEW m \in taken',
           taken' \subseteq Msgs, taken \subseteq taken', repeated \subseteq repeated',
           AddedTo(Holds', Holds, N, m), At' = At, overlaid' = overlaid,
           m \notin repeated' => AbsentIn(Holds, m),
           \A x, y \in N \cap Places : At[x] = At[y] /\ At[x] \notin overlaid => x = y
    PROVE  /\ AllTaken' /\ Once'
           /\ \A n : n # m /\ AbsentIn(Holds, n) => AbsentIn(Holds', n)
<1>1. Holds \in [Places -> Seq(Msgs)] /\ m \in Msgs
  BY HoldsType DEF Inv
<1>2. OnceIn(Holds, At, repeated', overlaid)
  BY DEF PlacesInv, Once, OnceIn
<1>3. OnceIn(Holds', At, repeated', overlaid)
  <2>1. m \notin repeated' =>
          \A x \in N \cap Places, y \in Places : At[x] = At[y] /\ At[x] \notin overlaid =>
            (y \in N => x = y) /\ \A j \in DOMAIN Holds[y] : Holds[y][j] # m
    BY DEF AbsentIn
  <2>2. QED
    BY <1>1, <1>2, <2>1, AddOnce
<1>4. \A x \in Places : \A i \in DOMAIN Holds'[x] : Holds'[x][i] \in taken'
  <2>1. ASSUME NEW x \in Places, NEW i \in DOMAIN Holds'[x] PROVE Holds'[x][i] \in taken'
    <3>1. (i \in DOMAIN Holds[x] /\ Holds'[x][i] = Holds[x][i]) \/ Holds'[x][i] = m
      BY <1>1, <2>1, AddedElements
    <3>2. QED
      BY <3>1 DEF PlacesInv, AllTaken
  <2>2. QED
    BY <2>1
<1>5. \A n : n # m /\ AbsentIn(Holds, n) => AbsentIn(Holds', n)
  BY <1>1, AddAbsent
<1>6. QED
  BY <1>3, <1>4, <1>5 DEF AllTaken, Once, OnceIn

\* What moves no message.
LEMMA QuietPlaces ==
    ASSUME PlacesInv, HandlersAtHome',
           UNCHANGED <<psCount, queue, home, msgCh, shown, hand, taken, repeated, overlaid>>
    PROVE  PlacesInv'
<1>1. Holds' = Holds /\ At' = At
  BY DEF Holds, At
<1>2. HandsDiffer' /\ FreshAreEmpty'
  BY DEF PlacesInv, HandsDiffer, FreshAreEmpty
<1>3. AllTaken' /\ HandsAreNew' /\ Once'
  BY <1>1 DEF PlacesInv, AllTaken, HandsAreNew, Once, OnceIn, AbsentIn
<1>4. QED
  BY <1>2, <1>3 DEF PlacesInv

\* Opening or closing the room's PubSub.
LEMMA PubSubPlaces ==
    ASSUME Inv, TypeOK', PlacesInv, HandlersAtHome', NEW s \in Servers,
           OpenPubSub(s) \/ ClosePubSub(s) \/ UNCHANGED <<subs, psVars>>,
           UNCHANGED <<dataVars, repeated>>, overlaid \subseteq overlaid'
    PROVE  PlacesInv'
<1> DEFINE cut == [x \in Places |-> 0]
<1>1. UNCHANGED <<msgCh, shown, hand, taken, repeated>>
  BY DEF dataVars
<1>2. FreshAreEmpty' /\ ThinOf(Holds', At', Holds, At, cut)
  BY <1>1, PubSubThin DEF PlacesInv
<1>3. cut \in [Places -> Nat]
  OBVIOUS
<1> HIDE DEF cut
<1>4. QED
  BY <1>1, <1>2, <1>3, ThinStep DEF PlacesInv

\* The handlers of the servers.
LEMMA HandlersStep == Inv /\ HandlersAtHome /\ [Next]_vars => HandlersAtHome'
<1> SUFFICES ASSUME Inv, HandlersAtHome, [Next]_vars PROVE HandlersAtHome'
  OBVIOUS
<1>1. /\ handler \in [Servers -> Hubs \cup {NoHub}]
      /\ \A h \in Hubs : ServerOf[h] \in Servers
  BY ServerOfAssumption DEF Inv, TypeOK
<1>2. CASE handler' = handler
  BY <1>2 DEF HandlersAtHome
<1>3. ASSUME NEW h \in Hubs, Subscribe(h) \/ Unsubscribe(h) PROVE HandlersAtHome'
  <2>1. \/ handler' = [handler EXCEPT ![ServerOf[h]] = h]
        \/ handler' = [handler EXCEPT ![ServerOf[h]] = NoHub]
    BY <1>3 DEF Subscribe, Unsubscribe
  <2>2. QED
    BY <1>1, <2>1 DEF HandlersAtHome
<1>4. CASE \/ UNCHANGED vars \/ RedisFails \/ RedisReturns
           \/ \E p \in PubSubs : Joins(p) \/ Dispatch(p)
           \/ \E s \in Servers : BrokerNext(s)
  BY <1>2, <1>4 DEF vars, RedisFails, RedisReturns, Joins, Dispatch, BrokerNext, Ping,
                    MonitorFallsBack, MonitorRecovers, MonitorResubscribes, Close, brkVars
<1>5. ASSUME NEW h \in Hubs,
             \/ Create(h) \/ HubStarts(h) \/ Remove(h) \/ HubExits(h)
             \/ PublishOk(h) \/ PublishLost(h) \/ PublishFails(h) \/ HubHears(h)
             \/ \E m \in Msgs : Take(h, m)
      PROVE  HandlersAtHome'
  BY <1>2, <1>5 DEF Create, HubStarts, Remove, HubExits, PublishOk, PublishLost,
                    PublishFails, HubHears, Take, brkVars
<1>6. QED
  BY <1>3, <1>4, <1>5 DEF Next, HubNext

\* Redis, and the listeners.
LEMMA RedisPlaces ==
    ASSUME Inv, Inv', PlacesInv, HandlersAtHome',
           RedisFails \/ RedisReturns \/ \E p \in PubSubs : Joins(p) \/ Dispatch(p)
    PROVE  PlacesInv'
<1>1. CASE RedisReturns \/ \E p \in PubSubs : Joins(p)
  <2>1. UNCHANGED <<psCount, queue, home, msgCh, shown, hand, taken, repeated, overlaid>>
    BY <1>1 DEF RedisReturns, Joins, psVars, dataVars, histVars
  <2>2. QED
    BY <2>1, QuietPlaces
<1>2. CASE RedisFails
  <2> DEFINE cut == [x \in Places |-> 0]
  <2>1. /\ queue' = queue \/ queue' = [p \in PubSubs |-> <<>>]
        /\ UNCHANGED <<psCount, home, msgCh, shown, hand, taken, repeated, overlaid>>
    BY <1>2 DEF RedisFails, dataVars, histVars
  <2>2. CASE queue' = queue
    BY <2>1, <2>2, QuietPlaces
  <2>3. CASE queue' = [p \in PubSubs |-> <<>>]
    <3>1. \A q \in Seq(Msgs) : \A i \in DOMAIN q : i + 0 = i
      OBVIOUS
    <3>2. cut \in [Places -> Nat] /\ \A x \in Places : cut[x] = 0
      OBVIOUS
    <3>3. Holds \in [Places -> Seq(Msgs)]
      BY HoldsType DEF Inv
    <3>4. At' = At
      BY <2>1 DEF At
    <3> HIDE DEF cut
    <3>5. ASSUME NEW x \in Places, NEW i \in DOMAIN Holds'[x] PROVE Holds'[x] = Holds[x]
      <4>1. CASE \E p \in PubSubs : x = <<"queue", p>>
        <5>1. PICK p \in PubSubs : x = <<"queue", p>>
          BY <4>1
        <5>2. Holds'[x] = <<>>
          BY <2>3, <5>1, PlaceFactsNext
        <5>3. QED
          BY <3>5, <5>2
      <4>2. CASE \E h \in Hubs : x = <<"msgCh", h>> \/ x = <<"shown", h>>
        <5>1. PICK h \in Hubs : x = <<"msgCh", h>> \/ x = <<"shown", h>>
          BY <4>2
        <5>2. msgCh'[h] = msgCh[h] /\ shown'[h] = shown[h]
          BY <2>1
        <5>3. CASE x = <<"msgCh", h>>
          BY <5>2, <5>3, PlaceFacts, PlaceFactsNext
        <5>4. CASE x = <<"shown", h>>
          BY <5>2, <5>4, PlaceFacts, PlaceFactsNext
        <5>5. QED
          BY <5>1, <5>3, <5>4
      <4>3. QED
        BY <4>1, <4>2, PlaceFacts
    <3>6. ThinOf(Holds', At', Holds, At, cut)
      BY <3>1, <3>2, <3>3, <3>4, <3>5 DEF ThinOf
    <3>7. FreshAreEmpty'
      BY <2>1, <2>3 DEF FreshAreEmpty
    <3>8. QED
      BY <2>1, <3>2, <3>6, <3>7, ThinStep DEF Inv, PlacesInv
  <2>4. QED
    BY <2>1, <2>2, <2>3
<1>3. ASSUME NEW p \in PubSubs, Dispatch(p) PROVE PlacesInv'
  <2> DEFINE h == handler[home[p]]
             z == <<"queue", p>>
             K == HeadOff(z)
  <2>1. /\ queue[p] # <<>> /\ queue' = [queue EXCEPT ![p] = Tail(@)]
        /\ UNCHANGED <<psCount, home, shown, hand, taken, repeated, overlaid>>
        /\ \/ msgCh' = msgCh
           \/ h # NoHub /\ msgCh' = [msgCh EXCEPT ![h] = Append(@, Head(queue[p]))]
    BY <1>3 DEF Dispatch, histVars
  <2>2. /\ queue \in [PubSubs -> Seq(Msgs)] /\ queue[p] \in Seq(Msgs)
        /\ msgCh \in [Hubs -> Seq(Msgs)] /\ home[p] \in Servers
        /\ h \in Hubs \cup {NoHub} /\ TypeOK'
        /\ Holds \in [Places -> Seq(Msgs)]
    BY HoldsType DEF Inv, TypeOK
  <2>3. z \in Places /\ Holds[z] = queue[p] /\ At[z] = home[p] /\ At' = At
    BY <2>1, PlaceFacts DEF At
  <2>4. K[z] = Tail(queue[p]) /\ \A x \in Places \ {z} : K[x] = Holds[x]
    BY <2>2, <2>3 DEF HeadOff
  <2>5. h # NoHub => h \in Hubs /\ ServerOf[h] = home[p]
    BY <2>2 DEF PlacesInv, HandlersAtHome
  <2>6. FreshAreEmpty'
    <3>1. \A r \in PubSubs : r # p => queue'[r] = queue[r]
      BY <2>1, <2>2
    <3>2. ~(p > psCount)
      BY <2>1 DEF PlacesInv, FreshAreEmpty
    <3>3. QED
      BY <2>1, <3>1, <3>2 DEF PlacesInv, FreshAreEmpty
  <2>7. \A r \in PubSubs : <<"queue", r>> = z => r = p
    OBVIOUS
  <2>8. \A g \in Hubs : <<"msgCh", g>> # z /\ <<"shown", g>> # z
    OBVIOUS
  <2>9. \A r \in PubSubs : queue'[r] = K[<<"queue", r>>]
    BY <2>1, <2>2, <2>4, <2>7, PlaceFacts
  <2>10. \A g \in Hubs : K[<<"msgCh", g>>] = msgCh[g] /\ K[<<"shown", g>>] = shown'[g]
    BY <2>1, <2>4, <2>8, PlaceFacts
  <2> HIDE DEF h, z, K
  <2>11. /\ Inv /\ TypeOK' /\ PlacesInv /\ z \in Places /\ Holds[z] # <<>>
         /\ At' = At /\ UNCHANGED <<hand, taken, repeated, overlaid>>
    BY <2>1, <2>2, <2>3
  <2>12. CASE msgCh' = msgCh
    <3> DEFINE none == {}
    <3>1. ASSUME NEW x \in Places PROVE Holds'[x] = K[x]
      <4>1. CASE \E r \in PubSubs : x = <<"queue", r>>
        BY <2>9, <4>1, PlaceFactsNext
      <4>2. CASE \E g \in Hubs : x = <<"msgCh", g>> \/ x = <<"shown", g>>
        BY <2>10, <2>12, <4>2, PlaceFactsNext
      <4>3. QED
        BY <4>1, <4>2, PlaceFacts
    <3>2. AddedTo(Holds', HeadOff(z), none, Head(Holds[z]))
      BY <3>1 DEF AddedTo, K
    <3>3. /\ none \subseteq Places \ {z} /\ \A x, w \in none : x = w
          /\ \A w \in none : At[w] = At[z]
      OBVIOUS
    <3> HIDE DEF none
    <3>4. HandsDiffer' /\ AllTaken' /\ HandsAreNew' /\ Once'
      BY <2>11, <3>2, <3>3, MoveStep
    <3>5. QED
      BY <2>6, <3>4 DEF PlacesInv
  <2>13. CASE h # NoHub /\ msgCh' = [msgCh EXCEPT ![h] = Append(@, Head(queue[p]))]
    <3> DEFINE y == <<"msgCh", h>>
    <3>1. y \in Places /\ y # z /\ At[y] = At[z]
      BY <2>3, <2>5, <2>8, <2>13, PlaceFacts
    <3>2. \A g \in Hubs : <<"msgCh", g>> = y <=> g = h
      OBVIOUS
    <3>3. /\ \A g \in Hubs : <<"shown", g>> # y
          /\ \A r \in PubSubs : <<"queue", r>> # y
      OBVIOUS
    <3> HIDE DEF y
    <3>4. \A g \in Hubs :
            msgCh'[g] = IF g = h THEN Append(msgCh[g], Head(queue[p])) ELSE msgCh[g]
      BY <2>2, <2>5, <2>13
    <3>5. ASSUME NEW x \in Places
          PROVE  Holds'[x] = IF x \in {y} THEN Append(K[x], Head(Holds[z])) ELSE K[x]
      <4>1. CASE \E r \in PubSubs : x = <<"queue", r>>
        <5>1. PICK r \in PubSubs : x = <<"queue", r>>
          BY <4>1
        <5>2. Holds'[x] = queue'[r] /\ K[x] = queue'[r] /\ x # y
          BY <2>9, <3>3, <5>1, PlaceFactsNext
        <5>3. QED
          BY <5>2
      <4>2. CASE \E g \in Hubs : x = <<"msgCh", g>>
        <5>1. PICK g \in Hubs : x = <<"msgCh", g>>
          BY <4>2
        <5>2. Holds'[x] = msgCh'[g] /\ K[x] = msgCh[g] /\ (x = y <=> g = h)
          BY <2>10, <3>2, <5>1, PlaceFactsNext
        <5>3. QED
          BY <2>3, <3>4, <5>2
      <4>3. CASE \E g \in Hubs : x = <<"shown", g>>
        <5>1. PICK g \in Hubs : x = <<"shown", g>>
          BY <4>3
        <5>2. Holds'[x] = shown'[g] /\ K[x] = shown'[g] /\ x # y
          BY <2>10, <3>3, <5>1, PlaceFactsNext
        <5>3. QED
          BY <5>2
      <4>4. QED
        BY <4>1, <4>2, <4>3, PlaceFacts
    <3>6. AddedTo(Holds', K, {y}, Head(Holds[z]))
      BY <3>5 DEF AddedTo
    <3>7. AddedTo(Holds', HeadOff(z), {y}, Head(Holds[z]))
      BY <3>6 DEF K
    <3>8. /\ {y} \subseteq Places \ {z} /\ \A x, w \in {y} : x = w
          /\ \A w \in {y} : At[w] = At[z]
      BY <3>1
    <3>9. HandsDiffer' /\ AllTaken' /\ HandsAreNew' /\ Once'
      BY <2>11, <3>7, <3>8, MoveStep
    <3>10. QED
      BY <2>6, <3>9 DEF PlacesInv
  <2>14. QED
    BY <2>1, <2>12, <2>13
<1>4. QED
  BY <1>1, <1>2, <1>3

\* The monitor and Close.
LEMMA BrokerPlaces ==
    ASSUME Inv, Inv', PlacesInv, HandlersAtHome', NEW s \in Servers, BrokerNext(s)
    PROVE  PlacesInv'
<1>1. CASE Ping(s) \/ MonitorRecovers(s)
  <2>1. UNCHANGED <<psCount, queue, home, msgCh, shown, hand, taken, repeated, overlaid>>
    BY <1>1 DEF Ping, MonitorRecovers, psVars, dataVars, histVars
  <2>2. QED
    BY <2>1, QuietPlaces
<1>2. CASE MonitorFallsBack(s) \/ MonitorResubscribes(s) \/ Close(s)
  <2>1. /\ OpenPubSub(s) \/ ClosePubSub(s) \/ UNCHANGED <<subs, psVars>>
        /\ UNCHANGED <<dataVars, repeated>> /\ overlaid \subseteq overlaid'
    BY <1>2 DEF MonitorFallsBack, MonitorResubscribes, Close, histVars
  <2>2. QED
    BY <2>1, PubSubPlaces DEF Inv
<1>3. QED
  BY <1>1, <1>2 DEF BrokerNext

\* A message is shown that was in no place, or whose PUBLISH is being repeated.
LEMMA ShowPlaces ==
    ASSUME Inv, Inv', PlacesInv, NEW h \in Hubs, NEW m \in taken', BroadcastLocal(h, m),
           UNCHANGED <<queue, home, msgCh, repeated, overlaid>>, taken \subseteq taken',
           m \notin repeated => AbsentIn(Holds, m)
    PROVE  /\ AllTaken' /\ Once'
           /\ \A n : n # m /\ AbsentIn(Holds, n) => AbsentIn(Holds', n)
<1> DEFINE y == <<"shown", h>>
           N == {y}
<1>1. /\ \A g \in Hubs : (<<"shown", g>> = y <=> g = h) /\ <<"msgCh", g>> # y
      /\ \A p \in PubSubs : <<"queue", p>> # y
  OBVIOUS
<1>2. /\ \A x \in Places : x \in N <=> x = y
      /\ \A x, w \in N \cap Places : At[x] = At[w] /\ At[x] \notin overlaid => x = w
  OBVIOUS
<1> HIDE DEF y, N
<1>3. \A g \in Hubs : shown'[g] = IF g = h THEN Append(shown[g], m) ELSE shown[g]
  BY DEF Inv, TypeOK, BroadcastLocal
<1>4. ASSUME NEW x \in Places
      PROVE  Holds'[x] = IF x \in N THEN Append(Holds[x], m) ELSE Holds[x]
  <2>1. CASE \E p \in PubSubs : x = <<"queue", p>>
    BY <1>1, <1>2, <1>4, <2>1, PlaceFacts, PlaceFactsNext
  <2>2. CASE \E g \in Hubs : x = <<"msgCh", g>>
    <3>1. PICK g \in Hubs : x = <<"msgCh", g>>
      BY <2>2
    <3>2. Holds'[x] = msgCh[g] /\ Holds[x] = msgCh[g] /\ x \notin N
      BY <1>1, <1>2, <1>4, <3>1, PlaceFacts, PlaceFactsNext
    <3>3. QED
      BY <3>2
  <2>3. CASE \E g \in Hubs : x = <<"shown", g>>
    <3>1. PICK g \in Hubs : x = <<"shown", g>>
      BY <2>3
    <3>2. Holds'[x] = shown'[g] /\ Holds[x] = shown[g]
      BY <3>1, PlaceFacts, PlaceFactsNext
    <3>3. x \in N <=> g = h
      BY <1>1, <1>2, <1>4, <3>1
    <3>4. QED
      BY <1>3, <3>2, <3>3
  <2>4. QED
    BY <2>1, <2>2, <2>3, PlaceFacts
<1>5. AddedTo(Holds', Holds, N, m)
  BY <1>4 DEF AddedTo
<1>6. At' = At /\ TypeOK' /\ taken' \subseteq Msgs /\ repeated \subseteq repeated'
  BY DEF At, Inv, TypeOK
<1>7. QED
  BY <1>2, <1>5, <1>6, NewStep

\* Redis accepts a message that was in no place, or whose PUBLISH is being
\* repeated: it comes to the PubSubs that are joined, of which an overlaid
\* server alone has two.
LEMMA AcceptPlaces ==
    ASSUME Inv, Inv', PlacesInv, LeakComesFromOverlay, NEW h \in Hubs, RedisAccepts(h),
           UNCHANGED <<home, msgCh, shown, taken, overlaid>>, repeated \subseteq repeated',
           psCount' = psCount, FreshAreEmpty,
           hand[h] \notin repeated' => AbsentIn(Holds, hand[h])
    PROVE  /\ AllTaken' /\ Once' /\ FreshAreEmpty'
           /\ \A n : n # hand[h] /\ AbsentIn(Holds, n) => AbsentIn(Holds', n)
<1> DEFINE N == {<<"queue", p>> : p \in joined}
           m == hand[h]
<1>1. /\ hand[h] # NoMsg /\ m \in taken'
      /\ \A p \in PubSubs : queue'[p] = IF p \in joined THEN Append(queue[p], m) ELSE queue[p]
  BY DEF RedisAccepts, Inv, Supports
<1>2. /\ \A p \in PubSubs : <<"queue", p>> \in N <=> p \in joined
      /\ \A g \in Hubs : <<"msgCh", g>> \notin N /\ <<"shown", g>> \notin N
  OBVIOUS
<1>3. ASSUME NEW x \in N \cap Places, NEW w \in N \cap Places,
             At[x] = At[w], At[x] \notin overlaid
      PROVE  x = w
  <2>1. PICK p \in joined, r \in joined : x = <<"queue", p>> /\ w = <<"queue", r>>
    BY <1>3
  <2>2. /\ p \in open /\ r \in open /\ p \in PubSubs /\ r \in PubSubs
    BY BoundsAssumption DEF Inv, TypeOK, PubSubs
  <2>3. At[x] = home[p] /\ At[w] = home[r]
    BY <2>1, <2>2, PlaceFacts
  <2>4. p = r
    BY <1>3, <2>2, <2>3 DEF LeakComesFromOverlay
  <2>5. QED
    BY <2>1, <2>4
<1>4. m \in Msgs
  BY <1>1 DEF Inv, TypeOK
<1> HIDE DEF N, m
<1>5. ASSUME NEW x \in Places
      PROVE  Holds'[x] = IF x \in N THEN Append(Holds[x], m) ELSE Holds[x]
  <2>1. CASE \E p \in PubSubs : x = <<"queue", p>>
    <3>1. PICK p \in PubSubs : x = <<"queue", p>>
      BY <2>1
    <3>2. Holds'[x] = queue'[p] /\ Holds[x] = queue[p] /\ (x \in N <=> p \in joined)
      BY <1>2, <3>1, PlaceFacts, PlaceFactsNext
    <3>3. QED
      BY <1>1, <3>2
  <2>2. CASE \E g \in Hubs : x = <<"msgCh", g>>
    <3>1. PICK g \in Hubs : x = <<"msgCh", g>>
      BY <2>2
    <3>2. Holds'[x] = msgCh[g] /\ Holds[x] = msgCh[g] /\ x \notin N
      BY <1>2, <3>1, PlaceFacts, PlaceFactsNext
    <3>3. QED
      BY <3>2
  <2>3. CASE \E g \in Hubs : x = <<"shown", g>>
    <3>1. PICK g \in Hubs : x = <<"shown", g>>
      BY <2>3
    <3>2. Holds'[x] = shown[g] /\ Holds[x] = shown[g] /\ x \notin N
      BY <1>2, <3>1, PlaceFacts, PlaceFactsNext
    <3>3. QED
      BY <3>2
  <2>4. QED
    BY <2>1, <2>2, <2>3, PlaceFacts
<1>6. AddedTo(Holds', Holds, N, m)
  BY <1>5 DEF AddedTo
<1>7. At' = At /\ TypeOK' /\ taken' \subseteq Msgs /\ taken \subseteq taken'
  BY DEF At, Inv, TypeOK
<1>8. m \notin repeated' => AbsentIn(Holds, m)
  BY DEF m
<1>9. /\ AllTaken' /\ Once'
      /\ \A n : n # m /\ AbsentIn(Holds, n) => AbsentIn(Holds', n)
  BY <1>1, <1>3, <1>6, <1>7, <1>8, NewStep
<1>10. FreshAreEmpty'
  <2>1. \A p \in joined : p \in 1..psCount /\ psCount \in Nat
    BY DEF Inv, TypeOK
  <2>2. \A p \in PubSubs : p > psCount => p \notin joined
    BY <2>1 DEF PubSubs
  <2>3. QED
    BY <1>1, <2>2 DEF FreshAreEmpty
<1>11. QED
  BY <1>9, <1>10 DEF m

\* A message leaves the hands, and nothing else comes to them.
LEMMA HandsEmptied ==
    ASSUME Inv, PlacesInv, NEW h \in Hubs,
           \A g \in Hubs : hand'[g] = hand[g] \/ (g = h /\ hand'[g] = NoMsg),
           hand'[h] # NoMsg => hand'[h] \in repeated',
           hand[h] # NoMsg, repeated \subseteq repeated',
           \A n : n # hand[h] /\ AbsentIn(Holds, n) => AbsentIn(Holds', n)
    PROVE  HandsDiffer' /\ HandsAreNew'
<1>1. \A g \in Hubs \ {h} : hand[g] # hand[h]
  BY DEF PlacesInv, HandsDiffer
<1>2. HandsDiffer'
  BY DEF PlacesInv, HandsDiffer
<1>3. ASSUME NEW g \in Hubs, hand'[g] # NoMsg, hand'[g] \notin repeated'
      PROVE  AbsentIn(Holds', hand'[g])
  <2>1. g # h /\ hand'[g] = hand[g]
    BY <1>3
  <2>2. AbsentIn(Holds, hand[g])
    BY <1>3, <2>1 DEF PlacesInv, HandsAreNew
  <2>3. QED
    BY <1>1, <2>1, <2>2
<1>4. QED
  BY <1>2, <1>3 DEF HandsAreNew, AbsentIn

\* The hub.
LEMMA HubPlaces ==
    ASSUME Inv, Inv', PlacesInv, LeakComesFromOverlay, HandlersAtHome', NEW h \in Hubs,
           HubNext(h)
    PROVE  PlacesInv'
<1>0. /\ hand \in [Hubs -> Msgs \cup {NoMsg}] /\ NoMsg \notin Msgs /\ ServerOf[h] \in Servers
      /\ taken \subseteq Msgs /\ TypeOK'
      /\ \A g \in Hubs : hand[g] # NoMsg => hand[g] \in taken
  BY NilAssumption, ServerOfAssumption DEF Inv, TypeOK, Supports
<1>1. CASE Create(h) \/ HubStarts(h) \/ Remove(h) \/ HubExits(h)
  <2>1. UNCHANGED <<psCount, queue, home, msgCh, shown, hand, taken, repeated, overlaid>>
    BY <1>1 DEF Create, HubStarts, Remove, HubExits, psVars, dataVars, histVars
  <2>2. QED
    BY <2>1, QuietPlaces
<1>2. CASE Subscribe(h) \/ Unsubscribe(h)
  <2>1. /\ \/ OpenPubSub(ServerOf[h]) \/ ClosePubSub(ServerOf[h]) \/ UNCHANGED <<subs, psVars>>
        /\ UNCHANGED <<dataVars, repeated, overlaid>>
    BY <1>2 DEF Subscribe, Unsubscribe
  <2>2. QED
    BY <1>0, <2>1, PubSubPlaces
<1>3. UNCHANGED <<psCount, queue>> => FreshAreEmpty'
  BY DEF PlacesInv, FreshAreEmpty
<1>4. hand[h] # NoMsg /\ hand[h] \notin repeated => AbsentIn(Holds, hand[h])
  BY DEF PlacesInv, HandsAreNew
<1>5. CASE PublishOk(h) \/ PublishLost(h)
  <2>1. /\ RedisAccepts(h) /\ hand[h] # NoMsg
        /\ UNCHANGED <<psCount, home, msgCh, taken, shown, overlaid>>
        /\ \/ hand' = [hand EXCEPT ![h] = NoMsg] /\ repeated' = repeated
           \/ hand' = hand /\ repeated' = repeated \cup {hand[h]}
    BY <1>5 DEF PublishOk, PublishLost, RedisAccepts, dataVars
  <2>2. hand[h] \notin repeated' => AbsentIn(Holds, hand[h])
    BY <1>4, <2>1
  <2>3. repeated \subseteq repeated' /\ FreshAreEmpty
    BY <2>1 DEF PlacesInv
  <2>4. /\ AllTaken' /\ Once' /\ FreshAreEmpty'
        /\ \A n : n # hand[h] /\ AbsentIn(Holds, n) => AbsentIn(Holds', n)
    BY <2>1, <2>2, <2>3, AcceptPlaces
  <2>5. /\ \A g \in Hubs : hand'[g] = hand[g] \/ (g = h /\ hand'[g] = NoMsg)
        /\ hand'[h] # NoMsg => hand'[h] \in repeated'
    BY <1>0, <2>1
  <2>6. HandsDiffer' /\ HandsAreNew'
    BY <2>1, <2>3, <2>4, <2>5, HandsEmptied
  <2>7. QED
    BY <2>4, <2>6 DEF PlacesInv
<1>6. CASE PublishFails(h)
  <2>1. /\ BroadcastLocal(h, hand[h]) /\ hand[h] # NoMsg
        /\ hand' = [hand EXCEPT ![h] = NoMsg]
        /\ UNCHANGED <<psCount, queue, home, msgCh, taken, repeated, overlaid>>
    BY <1>6 DEF PublishFails, psVars, histVars
  <2>2. hand[h] \in taken'
    BY <1>0, <2>1
  <2>3. /\ AllTaken' /\ Once'
        /\ \A n : n # hand[h] /\ AbsentIn(Holds, n) => AbsentIn(Holds', n)
    BY <1>4, <2>1, <2>2, ShowPlaces
  <2>4. /\ \A g \in Hubs : hand'[g] = hand[g] \/ (g = h /\ hand'[g] = NoMsg)
        /\ hand'[h] # NoMsg => hand'[h] \in repeated'
    BY <1>0, <2>1
  <2>5. HandsDiffer' /\ HandsAreNew'
    BY <2>1, <2>3, <2>4, HandsEmptied
  <2>6. QED
    BY <1>3, <2>1, <2>3, <2>5 DEF PlacesInv
<1>7. ASSUME NEW m \in Msgs, Take(h, m) PROVE PlacesInv'
  <2>1. /\ hand[h] = NoMsg /\ m \notin taken /\ taken' = taken \cup {m}
        /\ UNCHANGED <<psCount, queue, home, msgCh, repeated, overlaid>>
        /\ \/ BroadcastLocal(h, m) /\ hand' = hand
           \/ hand' = [hand EXCEPT ![h] = m] /\ shown' = shown
    BY <1>7 DEF Take, psVars, histVars
  <2>2. AbsentIn(Holds, m)
    BY <2>1 DEF PlacesInv, AllTaken, AbsentIn
  <2>3. \A g \in Hubs : hand[g] # m
    BY <1>0, <2>1
  <2>4. CASE BroadcastLocal(h, m) /\ hand' = hand
    <3>1. /\ AllTaken' /\ Once'
          /\ \A n : n # m /\ AbsentIn(Holds, n) => AbsentIn(Holds', n)
      BY <2>1, <2>2, <2>4, ShowPlaces
    <3>2. HandsDiffer'
      BY <2>4 DEF PlacesInv, HandsDiffer
    <3>3. \A g \in Hubs :
            hand'[g] # NoMsg /\ hand'[g] \notin repeated' => AbsentIn(Holds', hand'[g])
      BY <2>1, <2>3, <2>4, <3>1 DEF PlacesInv, HandsAreNew
    <3>4. QED
      BY <1>3, <2>1, <3>1, <3>2, <3>3 DEF PlacesInv, HandsAreNew, AbsentIn
  <2>5. CASE hand' = [hand EXCEPT ![h] = m] /\ shown' = shown
    <3>1. Holds' = Holds /\ At' = At
      BY <2>1, <2>5 DEF Holds, At
    <3>2. hand'[h] = m /\ \A g \in Hubs \ {h} : hand'[g] = hand[g]
      BY <1>0, <2>5
    <3>3. HandsDiffer'
      BY <2>3, <3>2 DEF PlacesInv, HandsDiffer
    <3>4. \A g \in Hubs :
            hand'[g] # NoMsg /\ hand'[g] \notin repeated' => AbsentIn(Holds, hand'[g])
      BY <2>1, <2>2, <3>2 DEF PlacesInv, HandsAreNew
    <3>5. AllTaken' /\ Once'
      BY <2>1, <3>1 DEF PlacesInv, AllTaken, Once, OnceIn
    <3>6. HandsAreNew'
      BY <3>1, <3>4 DEF HandsAreNew, AbsentIn
    <3>7. QED
      BY <1>3, <2>1, <3>3, <3>5, <3>6 DEF PlacesInv
  <2>6. QED
    BY <2>1, <2>4, <2>5
<1>8. CASE HubHears(h)
  <2> DEFINE z == <<"msgCh", h>>
             y == <<"shown", h>>
             K == HeadOff(z)
             N == IF shown' = shown THEN {} ELSE {y}
  <2>1. /\ msgCh[h] # <<>> /\ msgCh' = [msgCh EXCEPT ![h] = Tail(@)]
        /\ UNCHANGED <<psCount, queue, home, hand, taken, repeated, overlaid>>
        /\ \/ shown' = shown
           \/ shown' = [shown EXCEPT ![h] = Append(@, Head(msgCh[h]))]
    BY <1>8 DEF HubHears, BroadcastLocal, psVars, histVars
  <2>2. /\ msgCh \in [Hubs -> Seq(Msgs)] /\ shown \in [Hubs -> Seq(Msgs)]
        /\ Holds \in [Places -> Seq(Msgs)]
    BY HoldsType DEF Inv, TypeOK
  <2>3. /\ z \in Places /\ Holds[z] = msgCh[h] /\ At[z] = ServerOf[h] /\ At' = At
        /\ y \in Places /\ At[y] = ServerOf[h] /\ y # z
    BY <2>1, PlaceFacts DEF At
  <2>4. K[z] = Tail(msgCh[h]) /\ \A x \in Places \ {z} : K[x] = Holds[x]
    BY <2>2, <2>3 DEF HeadOff
  <2>5. /\ \A r \in PubSubs : <<"queue", r>> # z /\ <<"queue", r>> # y
        /\ \A g \in Hubs : /\ <<"shown", g>> # z /\ <<"msgCh", g>> # y
                           /\ <<"msgCh", g>> = z <=> g = h
                           /\ <<"shown", g>> = y <=> g = h
    OBVIOUS
  <2>6. \A g \in Hubs :
          /\ msgCh'[g] = IF g = h THEN Tail(msgCh[g]) ELSE msgCh[g]
          /\ shown' # shown =>
               shown'[g] = IF g = h THEN Append(shown[g], Head(msgCh[h])) ELSE shown[g]
    BY <2>1, <2>2
  <2>7. /\ N \subseteq Places \ {z} /\ \A x, w \in N : x = w
        /\ \A w \in N : At[w] = At[z]
        /\ \A x : x \in N <=> x = y /\ shown' # shown
    BY <2>3
  <2> HIDE DEF z, y, K, N
  <2>8. ASSUME NEW x \in Places
        PROVE  Holds'[x] = IF x \in N THEN Append(K[x], Head(Holds[z])) ELSE K[x]
    <3>1. CASE \E r \in PubSubs : x = <<"queue", r>>
      <4>1. PICK r \in PubSubs : x = <<"queue", r>>
        BY <3>1
      <4>2. Holds'[x] = queue[r] /\ Holds[x] = queue[r] /\ x # z /\ x \notin N
        BY <2>1, <2>5, <2>7, <4>1, PlaceFacts, PlaceFactsNext
      <4>3. QED
        BY <2>4, <4>2
    <3>2. CASE \E g \in Hubs : x = <<"msgCh", g>>
      <4>1. PICK g \in Hubs : x = <<"msgCh", g>>
        BY <3>2
      <4>2. /\ Holds'[x] = msgCh'[g] /\ Holds[x] = msgCh[g]
            /\ (x = z <=> g = h) /\ x \notin N
        BY <2>5, <2>7, <4>1, PlaceFacts, PlaceFactsNext
      <4>3. QED
        BY <2>4, <2>6, <4>2
    <3>3. CASE \E g \in Hubs : x = <<"shown", g>>
      <4>1. PICK g \in Hubs : x = <<"shown", g>>
        BY <3>3
      <4>2. /\ Holds'[x] = shown'[g] /\ Holds[x] = shown[g] /\ x # z
            /\ x \in N <=> g = h /\ shown' # shown
        BY <2>5, <2>7, <4>1, PlaceFacts, PlaceFactsNext
      <4>3. QED
        BY <2>3, <2>4, <2>6, <4>2
    <3>4. QED
      BY <3>1, <3>2, <3>3, PlaceFacts
  <2>9. AddedTo(Holds', HeadOff(z), N, Head(Holds[z]))
    BY <2>8 DEF AddedTo, K
  <2>10. HandsDiffer' /\ AllTaken' /\ HandsAreNew' /\ Once'
    BY <1>0, <2>1, <2>3, <2>7, <2>9, MoveStep
  <2>11. QED
    BY <1>3, <2>1, <2>10 DEF PlacesInv
<1>9. QED
  BY <1>1, <1>2, <1>5, <1>6, <1>7, <1>8 DEF HubNext

\* Every step.
LEMMA PlacesStep ==
    Inv /\ Inv' /\ PlacesInv /\ LeakComesFromOverlay /\ [Next]_vars => PlacesInv'
<1> SUFFICES ASSUME Inv, Inv', PlacesInv, LeakComesFromOverlay, [Next]_vars
             PROVE  PlacesInv'
  OBVIOUS
<1>1. HandlersAtHome'
  BY HandlersStep DEF PlacesInv
<1>2. CASE UNCHANGED vars
  <2>1. UNCHANGED <<psCount, queue, home, msgCh, shown, hand, taken, repeated, overlaid>>
    BY <1>2 DEF vars, psVars, dataVars, histVars
  <2>2. QED
    BY <1>1, <2>1, QuietPlaces
<1>3. CASE Next
  BY <1>1, <1>3, RedisPlaces, BrokerPlaces, HubPlaces DEF Next
<1>4. QED
  BY <1>2, <1>3

\* A hub shows a message twice only when the reply to its PUBLISH was lost, or
\* the monitor of its server overlaid an entry.
THEOREM TwiceHasOneCause == Spec => []ShownTwiceNeedsCause
<1>1. Init => MapTrue
  BY InvInit DEF MapTrue
<1>2. Inv /\ MapTrue /\ PlacesInv /\ [Next]_vars => Inv' /\ MapTrue' /\ PlacesInv'
  BY InvStep, MapStep, PlacesStep DEF MapTrue
<1>3. PlacesInv => ShownTwiceNeedsCause
  <2> SUFFICES ASSUME PlacesInv, NEW h \in Hubs,
                      NEW i \in DOMAIN shown[h], NEW j \in DOMAIN shown[h],
                      i # j, shown[h][i] = shown[h][j]
               PROVE  shown[h][i] \in repeated \/ ServerOf[h] \in overlaid
    BY DEF ShownTwiceNeedsCause
  <2>1. OnceIn(Holds, At, repeated, overlaid)
    BY DEF PlacesInv, Once
  <2>2. /\ <<"shown", h>> \in Places /\ Holds[<<"shown", h>>] = shown[h]
        /\ At[<<"shown", h>>] = ServerOf[h]
    BY PlaceFacts
  <2>3. QED
    BY <2>1, <2>2 DEF OnceIn
<1>4. QED
  BY <1>1, <1>2, <1>3, InvInit, PlacesInit, PTL DEF Spec
=============================================================================

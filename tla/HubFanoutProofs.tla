--------------------------- MODULE HubFanoutProofs ---------------------------
(***************************************************************************)
(* Proofs about HubFanout, for any number of connections and users and any *)
(* capacity of the channels: what is shown was accepted, the history comes *)
(* first, and nobody is announced offline while a tab of his is listed.    *)
(***************************************************************************)
EXTENDS HubFanout, FiltersProofs, SequenceTheorems, TLAPS

(***************************************************************************)
(* The messages.                                                           *)
(***************************************************************************)

\* What goes through Broadcast is never a PRESENCE event: the hub makes those.
Spoken == {m \in RoomEvents : m.ev # "PRESENCE"}

\* The events of a connection, and what the properties read of them.
LEMMA EventFacts ==
    ASSUME NEW c \in Conns
    PROVE  /\ \A n \in 1..MaxSend[c] :
                /\ Msg(c, n) \in Spoken /\ Msg(c, n).ev = "MSG"
                /\ Typing(c, n) \in Spoken /\ Typing(c, n).ev = "TYPING"
           /\ CloseMsg(c) \in Spoken /\ CloseMsg(c).ev = "CLOSE"
           /\ \A s \in {"online", "offline"} :
                /\ Presence(c, s) \in RoomEvents
                /\ Presence(c, s).ev = "PRESENCE"
                /\ Presence(c, s).user = UserOf[c]
                /\ Presence(c, s).id = <<s>>
<1>1. /\ \A n \in 1..MaxSend[c] : Msg(c, n) \in EventsOf(c) /\ Typing(c, n) \in EventsOf(c)
      /\ CloseMsg(c) \in EventsOf(c)
      /\ \A s \in {"online", "offline"} : Presence(c, s) \in EventsOf(c)
  BY DEF EventsOf
<1>2. EventsOf(c) \subseteq RoomEvents
  BY DEF RoomEvents
<1>3. QED
  BY <1>1, <1>2 DEF Spoken, Msg, Typing, CloseMsg, Presence

\* No event of the room is one of the history.
LEMMA HistoryFacts ==
    /\ \A m \in RoomEvents : m \in Messages /\ m.ev # "CHATLOG"
    /\ \A m \in RoomEvents : ChatLog(m) \in Messages
    /\ Warn \in Messages /\ Warn.ev = "WARN"
    /\ Spoken \subseteq RoomEvents
<1>1. \A m \in RoomEvents : m.ev # "CHATLOG"
  BY DEF RoomEvents, EventsOf, Msg, Typing, Presence, CloseMsg
<1>2. QED
  BY <1>1 DEF Messages, Spoken, Warn

\* A message of the history is marked as such.
LEMMA ChatLogEv == ASSUME NEW m \in RoomEvents PROVE ChatLog(m).ev = "CHATLOG"
<1>1. "ev" \in DOMAIN m
  BY DEF RoomEvents, EventsOf, Msg, Typing, Presence, CloseMsg
<1>2. QED
  BY <1>1 DEF ChatLog

(***************************************************************************)
(* The inductive invariant of the types: who is listed has registered, who *)
(* has not begun was sent nothing, what is offered is an event.            *)
(***************************************************************************)
Places ==
    /\ \A c \in Conns : conn[c] = "offering" => outbox[c] \in Spoken
    /\ \A i \in DOMAIN broadcast : broadcast[i] \in Spoken
    /\ \A c \in Conns : conn[c] \in {"new", "registering"} => c \notin clients
    /\ \A c \in Conns : conn[c] = "new" =>
         received[c] = <<>> /\ send[c] = <<>> /\ pump[c] = "off"

Inv == TypeOK /\ Places

\* broadcastLocal keeps the types; a client is sent the message or nothing,
\* and nobody joins by it.
LEMMA BroadcastLocalTypes ==
    ASSUME TypeOK, NEW msg \in RoomEvents,
           NEW members \in SUBSET Conns, NEW gone \in SUBSET Conns,
           BroadcastLocal(msg, members, gone)
    PROVE  /\ send' \in [Conns -> Seq(Messages)]
           /\ \A c \in Conns : Len(send'[c]) <= SendCap
           /\ closed' \in [Conns -> BOOLEAN]
           /\ leftAt' \in [Conns -> Int]
           /\ log' \in Seq(RoomEvents)
           /\ log' = Append(log, msg)
           /\ clients' \subseteq members
           /\ \A c \in Conns :
                send'[c] = send[c] \/ (c \in members /\ send'[c] = Append(send[c], msg))
<1> DEFINE to == {c \in members : ~(msg.ev = "TYPING" /\ UserOf[c] = msg.user)}
           slow == {c \in to : Len(send[c]) >= SendCap}
<1>1. /\ send' = [c \in Conns |-> IF c \in to \ slow THEN Append(send[c], msg) ELSE send[c]]
      /\ clients' = members \ slow
      /\ closed' = [c \in Conns |-> closed[c] \/ c \in slow \cup gone]
      /\ leftAt' = [c \in Conns |-> IF c \in slow \cup gone THEN Len(log) ELSE leftAt[c]]
      /\ log' = Append(log, msg)
  BY DEF BroadcastLocal
<1>2. log \in Seq(RoomEvents) /\ Len(log) \in Nat /\ msg \in Messages
      /\ leftAt \in [Conns -> Int] /\ closed \in [Conns -> BOOLEAN] /\ SendCap \in Nat
  BY HistoryFacts, CapsAssumption DEF TypeOK
<1>3. log' \in Seq(RoomEvents)
  BY <1>1, <1>2
<1>4. to \subseteq members
  OBVIOUS
<1>5. ASSUME NEW c \in Conns
      PROVE  /\ send'[c] \in Seq(Messages) /\ Len(send'[c]) <= SendCap
             /\ send'[c] = send[c] \/ (c \in members /\ send'[c] = Append(send[c], msg))
  <2>1. send[c] \in Seq(Messages) /\ Len(send[c]) <= SendCap /\ Len(send[c]) \in Nat
    BY DEF TypeOK
  <2>2. /\ Append(send[c], msg) \in Seq(Messages)
        /\ Len(Append(send[c], msg)) = Len(send[c]) + 1
    BY <1>2, <2>1
  <2>3. CASE c \in to \ slow
    <3>1. ~(Len(send[c]) >= SendCap)
      BY <2>3
    <3>2. send'[c] = Append(send[c], msg) /\ c \in members
      BY <1>1, <1>4, <2>3
    <3>3. QED
      BY <1>2, <2>1, <2>2, <3>1, <3>2
  <2>4. CASE c \notin to \ slow
    <3>1. send'[c] = send[c]
      BY <1>1, <2>4
    <3>2. QED
      BY <2>1, <3>1
  <2>5. QED
    BY <2>3, <2>4
<1>6. closed' \in [Conns -> BOOLEAN] /\ leftAt' \in [Conns -> Int]
  <2> HIDE DEF to, slow
  <2>1. QED
    BY <1>1, <1>2
<1>7. clients' \subseteq members
  BY <1>1
<1>8. send' \in [Conns -> Seq(Messages)]
  <2> HIDE DEF to, slow
  <2>1. DOMAIN send' = Conns /\ send' = [c \in Conns |-> send'[c]]
    BY <1>1
  <2>2. QED
    BY <1>5, <2>1
<1>9. QED
  BY <1>1, <1>3, <1>5, <1>6, <1>7, <1>8

\* The first state.
LEMMA InvInit == Init => Inv
<1> SUFFICES ASSUME Init PROVE Inv
  OBVIOUS
<1>1. <<>> \in Seq(RoomEvents) /\ <<>> \in Seq(Messages) /\ Len(<<>>) = 0
  OBVIOUS
<1>2. /\ 0 <= BroadcastCap /\ 0 <= SendCap /\ -1 \in Int
      /\ \A c \in Conns : 0 <= MaxSend[c]
  BY CapsAssumption
<1>3. TypeOK
  BY <1>1, <1>2 DEF Init, TypeOK
<1>4. Places
  BY <1>1 DEF Init, Places
<1>5. QED
  BY <1>3, <1>4 DEF Inv

\* The hub's goroutine, and who closes it.
LEMMA HubTypes ==
    ASSUME Inv, \/ Broadcast \/ CloseStop \/ Stop
                \/ \E c \in Conns : Register(c) \/ Unregister(c)
    PROVE  Inv'
<1>1. CASE Broadcast
  <2>1. /\ broadcast # <<>> /\ broadcast' = Tail(broadcast)
        /\ BroadcastLocal(Head(broadcast), clients, {})
        /\ UNCHANGED <<hub, stop, joinedAt, conn, outbox, pump, received, sent, accepted>>
    BY <1>1 DEF Broadcast, peerVars
  <2>2. /\ Head(broadcast) \in RoomEvents /\ Tail(broadcast) \in Seq(RoomEvents)
        /\ Len(Tail(broadcast)) = Len(broadcast) - 1 /\ Len(broadcast) \in Nat
        /\ BroadcastCap \in Nat
        /\ \A i \in DOMAIN Tail(broadcast) :
             i + 1 \in DOMAIN broadcast /\ Tail(broadcast)[i] = broadcast[i + 1]
    BY <2>1, HeadTailProperties, EmptySeq, CapsAssumption DEF Inv, TypeOK
  <2>3. clients \in SUBSET Conns /\ {} \in SUBSET Conns /\ TypeOK
    BY DEF Inv, TypeOK
  <2>4. /\ send' \in [Conns -> Seq(Messages)]
        /\ \A c \in Conns : Len(send'[c]) <= SendCap
        /\ closed' \in [Conns -> BOOLEAN]
        /\ leftAt' \in [Conns -> Int]
        /\ log' \in Seq(RoomEvents)
        /\ clients' \subseteq clients
        /\ \A c \in Conns :
             send'[c] = send[c]
               \/ (c \in clients /\ send'[c] = Append(send[c], Head(broadcast)))
    BY <2>1, <2>2, <2>3, BroadcastLocalTypes
  <2>5. broadcast' \in Seq(RoomEvents) /\ Len(broadcast') <= BroadcastCap
    <3>1. Len(broadcast) <= BroadcastCap
      BY DEF Inv, TypeOK
    <3>2. QED
      BY <2>1, <2>2, <3>1
  <2>6. clients' \subseteq Conns
    BY <2>3, <2>4
  <2>7. /\ hub' \in {"loop", "exited"} /\ stop' \in BOOLEAN
        /\ conn' = conn /\ outbox' = outbox /\ sent' = sent /\ pump' = pump
        /\ accepted' = accepted /\ joinedAt' = joinedAt /\ received' = received
    BY <2>1, <2>3 DEF TypeOK
  <2>8. TypeOK'
    BY <2>3, <2>4, <2>5, <2>6, <2>7 DEF TypeOK
  <2>9. Places'
    BY <2>1, <2>2, <2>4 DEF Inv, Places
  <2>10. QED
    BY <2>8, <2>9 DEF Inv
<1>2. CASE CloseStop
  BY <1>2 DEF Inv, TypeOK, Places, CloseStop, peerVars
<1>3. CASE Stop
  <2>1. log \in Seq(RoomEvents) /\ Len(log) \in Int
    BY DEF Inv, TypeOK
  <2>2. TypeOK'
    BY <1>3, <2>1 DEF Inv, TypeOK, Stop, peerVars
  <2>3. Places'
    BY <1>3 DEF Inv, TypeOK, Places, Stop, peerVars
  <2>4. QED
    BY <2>2, <2>3 DEF Inv
<1>4. ASSUME NEW c \in Conns, Register(c) PROVE Inv'
  <2>1. /\ conn[c] = "registering" /\ conn' = [conn EXCEPT ![c] = "reading"]
        /\ joinedAt' = [joinedAt EXCEPT ![c] = Len(log)]
        /\ BroadcastLocal(Presence(c, "online"), clients \cup {c}, {})
        /\ UNCHANGED <<hub, stop, broadcast, outbox, pump, received, sent, accepted>>
    BY <1>4 DEF Register, peerVars
  <2>2. /\ clients \cup {c} \in SUBSET Conns /\ {} \in SUBSET Conns /\ TypeOK
        /\ Presence(c, "online") \in RoomEvents /\ Len(log) \in Int
    BY EventFacts DEF Inv, TypeOK
  <2>3. /\ send' \in [Conns -> Seq(Messages)]
        /\ \A d \in Conns : Len(send'[d]) <= SendCap
        /\ closed' \in [Conns -> BOOLEAN]
        /\ leftAt' \in [Conns -> Int]
        /\ log' \in Seq(RoomEvents)
        /\ clients' \subseteq clients \cup {c}
        /\ \A d \in Conns :
             send'[d] = send[d]
               \/ (d \in clients \cup {c}
                    /\ send'[d] = Append(send[d], Presence(c, "online")))
    BY <2>1, <2>2, BroadcastLocalTypes
  <2>4. TypeOK'
    BY <2>1, <2>2, <2>3 DEF Inv, TypeOK
  <2>5. Places'
    BY <2>1, <2>3 DEF Inv, TypeOK, Places
  <2>6. QED
    BY <2>4, <2>5 DEF Inv
<1>5. ASSUME NEW c \in Conns, Unregister(c) PROVE Inv'
  <2> DEFINE rest == clients \ {c}
  <2>1. /\ conn[c] = "unregistering" /\ conn' = [conn EXCEPT ![c] = "gone"]
        /\ UNCHANGED <<hub, stop, broadcast, joinedAt, outbox, pump, received, sent, accepted>>
    BY <1>5 DEF Unregister, peerVars
  <2>2. CASE \E o \in rest : UserOf[o] = UserOf[c]
    <3>1. /\ clients' = rest
          /\ closed' = [closed EXCEPT ![c] = @ \/ c \in clients]
          /\ leftAt' = [leftAt EXCEPT ![c] = IF c \in clients THEN Len(log) ELSE @]
          /\ UNCHANGED <<send, log>>
      BY <1>5, <2>2 DEF Unregister
    <3>2. Len(log) \in Int
      BY DEF Inv, TypeOK
    <3>3. TypeOK'
      BY <2>1, <3>1, <3>2 DEF Inv, TypeOK
    <3>4. Places'
      BY <2>1, <3>1 DEF Inv, TypeOK, Places
    <3>5. QED
      BY <3>3, <3>4 DEF Inv
  <2>3. CASE ~\E o \in rest : UserOf[o] = UserOf[c]
    <3>1. BroadcastLocal(Presence(c, "offline"), rest, clients \cap {c})
      BY <1>5, <2>3 DEF Unregister
    <3>2. /\ rest \in SUBSET Conns /\ clients \cap {c} \in SUBSET Conns /\ TypeOK
          /\ Presence(c, "offline") \in RoomEvents
      BY EventFacts DEF Inv, TypeOK
    <3>3. /\ send' \in [Conns -> Seq(Messages)]
          /\ \A d \in Conns : Len(send'[d]) <= SendCap
          /\ closed' \in [Conns -> BOOLEAN]
          /\ leftAt' \in [Conns -> Int]
          /\ log' \in Seq(RoomEvents)
          /\ clients' \subseteq rest
          /\ \A d \in Conns :
               send'[d] = send[d]
                 \/ (d \in rest /\ send'[d] = Append(send[d], Presence(c, "offline")))
      BY <3>1, <3>2, BroadcastLocalTypes
    <3>4. TypeOK'
      BY <2>1, <3>3 DEF Inv, TypeOK
    <3>5. Places'
      BY <2>1, <3>3 DEF Inv, TypeOK, Places
    <3>6. QED
      BY <3>4, <3>5 DEF Inv
  <2>4. QED
    BY <2>2, <2>3
<1>6. QED
  BY <1>1, <1>2, <1>3, <1>4, <1>5

\* What Enter queues: a prefix of the accepted messages, as history.
LEMMA EnterSends ==
    ASSUME Inv, NEW c \in Conns, Enter(c)
    PROVE  \E n \in Nat :
             /\ n <= SendCap
             /\ send' = [send EXCEPT ![c] = [i \in 1..n |-> ChatLog(accepted[i])]]
             /\ [i \in 1..n |-> ChatLog(accepted[i])] \in Seq(Messages)
             /\ \A i \in 1..n : ChatLog(accepted[i]).ev = "CHATLOG"
<1>1. PICK k \in 0..Len(accepted) :
        LET n == IF k > HistoryLimit THEN HistoryLimit ELSE k IN
        send' = [send EXCEPT ![c] = [i \in 1..n |-> ChatLog(accepted[i])]]
  BY DEF Enter
<1> DEFINE n == IF k > HistoryLimit THEN HistoryLimit ELSE k
<1>2. /\ accepted \in Seq(RoomEvents) /\ Len(accepted) \in Nat
      /\ HistoryLimit \in Nat /\ SendCap \in Nat /\ HistoryLimit <= SendCap
  BY CapsAssumption DEF Inv, TypeOK
<1>3. n \in Nat /\ n <= SendCap /\ n <= Len(accepted)
  BY <1>2
<1>4. send' = [send EXCEPT ![c] = [i \in 1..n |-> ChatLog(accepted[i])]]
  BY <1>1
<1> HIDE DEF n
<1>5. \A i \in 1..n : accepted[i] \in RoomEvents
  BY <1>2, <1>3
<1>6. \A i \in 1..n : ChatLog(accepted[i]) \in Messages /\ ChatLog(accepted[i]).ev = "CHATLOG"
  BY <1>5, HistoryFacts, ChatLogEv
<1>7. [i \in 1..n |-> ChatLog(accepted[i])] \in [1..n -> Messages]
  BY <1>6
<1>8. [i \in 1..n |-> ChatLog(accepted[i])] \in Seq(Messages)
  BY <1>3, <1>7, SeqDef
<1>9. QED
  BY <1>3, <1>4, <1>6, <1>8

\* A peer that may still send has a number for its next message.
LEMMA NextNumber ==
    ASSUME Inv, NEW c \in Conns, sent[c] < MaxSend[c]
    PROVE  sent[c] + 1 \in 1..MaxSend[c] /\ sent[c] + 1 <= MaxSend[c] /\ sent[c] + 1 \in Nat
<1>1. sent[c] \in Nat
  BY DEF Inv, TypeOK
<1>2. MaxSend[c] \in Nat
  BY CapsAssumption
<1>3. QED
  BY <1>1, <1>2

\* The handler of a connection.
LEMMA HandlerTypes ==
    ASSUME Inv, NEW c \in Conns,
           \/ Enter(c) \/ ReadMsg(c) \/ ReadTyping(c) \/ ReadRefused(c)
           \/ Offer(c) \/ OfferStopped(c) \/ ReadEnds(c) \/ SayClose(c) \/ SkipUnregister(c)
    PROVE  Inv'
<1>1. CASE Enter(c)
  <2>1. PICK n \in Nat :
          /\ n <= SendCap
          /\ send' = [send EXCEPT ![c] = [i \in 1..n |-> ChatLog(accepted[i])]]
          /\ [i \in 1..n |-> ChatLog(accepted[i])] \in Seq(Messages)
    BY <1>1, EnterSends
  <2>2. Len([i \in 1..n |-> ChatLog(accepted[i])]) = n
    BY <2>1
  <2>3. /\ conn' = [conn EXCEPT ![c] = "registering"] /\ conn[c] = "new"
        /\ pump' = [pump EXCEPT ![c] = "on"]
        /\ UNCHANGED <<hub, stop, clients, broadcast, log, joinedAt, leftAt, outbox,
                       closed, received, sent, accepted>>
    BY <1>1 DEF Enter, hubVars, peerVars
  <2>4. TypeOK'
    BY <2>1, <2>2, <2>3 DEF Inv, TypeOK
  <2>5. Places'
    BY <2>1, <2>3 DEF Inv, TypeOK, Places
  <2>6. QED
    BY <2>4, <2>5 DEF Inv
<1>2. CASE ReadMsg(c)
  <2>1. /\ conn[c] = "reading" /\ sent[c] < MaxSend[c]
        /\ sent' = [sent EXCEPT ![c] = @ + 1]
        /\ accepted' = Append(accepted, Msg(c, sent[c] + 1))
        /\ conn' = [conn EXCEPT ![c] = "offering"]
        /\ outbox' = [outbox EXCEPT ![c] = Msg(c, sent[c] + 1)]
        /\ UNCHANGED <<hub, stop, clients, broadcast, log, joinedAt, leftAt, send,
                       closed, pump, received>>
    BY <1>2 DEF ReadMsg, hubVars
  <2>2. sent[c] + 1 \in 1..MaxSend[c] /\ sent[c] + 1 <= MaxSend[c] /\ sent[c] + 1 \in Nat
    BY <2>1, NextNumber
  <2>3. Msg(c, sent[c] + 1) \in Spoken /\ Msg(c, sent[c] + 1) \in RoomEvents
    BY <2>2, EventFacts, HistoryFacts
  <2>4. Append(accepted, Msg(c, sent[c] + 1)) \in Seq(RoomEvents)
    BY <2>3 DEF Inv, TypeOK
  <2>5. TypeOK'
    BY <2>1, <2>2, <2>3, <2>4 DEF Inv, TypeOK
  <2>6. Places'
    BY <2>1, <2>3 DEF Inv, TypeOK, Places
  <2>7. QED
    BY <2>5, <2>6 DEF Inv
<1>3. CASE ReadTyping(c)
  <2>1. /\ conn[c] = "reading" /\ sent[c] < MaxSend[c]
        /\ sent' = [sent EXCEPT ![c] = @ + 1]
        /\ conn' = [conn EXCEPT ![c] = "offering"]
        /\ outbox' = [outbox EXCEPT ![c] = Typing(c, sent[c] + 1)]
        /\ UNCHANGED <<hub, stop, clients, broadcast, log, joinedAt, leftAt, send,
                       closed, pump, received, accepted>>
    BY <1>3 DEF ReadTyping, hubVars
  <2>2. sent[c] + 1 \in 1..MaxSend[c] /\ sent[c] + 1 <= MaxSend[c] /\ sent[c] + 1 \in Nat
    BY <2>1, NextNumber
  <2>3. Typing(c, sent[c] + 1) \in Spoken /\ Typing(c, sent[c] + 1) \in RoomEvents
    BY <2>2, EventFacts, HistoryFacts
  <2>4. TypeOK'
    BY <2>1, <2>2, <2>3 DEF Inv, TypeOK
  <2>5. Places'
    BY <2>1, <2>3 DEF Inv, TypeOK, Places
  <2>6. QED
    BY <2>4, <2>5 DEF Inv
<1>4. CASE ReadRefused(c)
  <2>1. /\ conn[c] = "reading" /\ sent[c] < MaxSend[c]
        /\ sent' = [sent EXCEPT ![c] = @ + 1]
        /\ \/ conn' = [conn EXCEPT ![c] = "leaving"] /\ send' = send
           \/ conn' = conn /\ send' = send
           \/ /\ conn' = conn /\ Len(send[c]) < SendCap
              /\ send' = [send EXCEPT ![c] = Append(@, Warn)]
        /\ UNCHANGED <<hub, stop, clients, broadcast, log, joinedAt, leftAt, outbox,
                       closed, pump, received, accepted>>
    BY <1>4 DEF ReadRefused, hubVars
  <2>2. sent[c] + 1 <= MaxSend[c] /\ sent[c] + 1 \in Nat
    BY <2>1, NextNumber
  <2>3. /\ send \in [Conns -> Seq(Messages)] /\ Warn \in Messages /\ SendCap \in Nat
        /\ \A d \in Conns : Len(send[d]) <= SendCap
    BY CapsAssumption, HistoryFacts DEF Inv, TypeOK
  <2>4. /\ Append(send[c], Warn) \in Seq(Messages)
        /\ Len(Append(send[c], Warn)) = Len(send[c]) + 1 /\ Len(send[c]) \in Nat
    BY <2>3
  <2>5. /\ send' \in [Conns -> Seq(Messages)]
        /\ \A d \in Conns : Len(send'[d]) <= SendCap
    <3>1. CASE send' = send
      BY <2>3, <3>1
    <3>2. CASE Len(send[c]) < SendCap /\ send' = [send EXCEPT ![c] = Append(@, Warn)]
      <4>1. send' \in [Conns -> Seq(Messages)]
        BY <2>3, <2>4, <3>2
      <4>2. send'[c] = Append(send[c], Warn) /\ \A d \in Conns \ {c} : send'[d] = send[d]
        BY <2>3, <3>2
      <4>3. Len(send'[c]) <= SendCap
        BY <2>3, <2>4, <3>2, <4>2
      <4>4. QED
        BY <2>3, <4>1, <4>2, <4>3
    <3>3. QED
      BY <2>1, <3>1, <3>2
  <2>6. TypeOK'
    BY <2>1, <2>2, <2>5 DEF Inv, TypeOK
  <2>7. Places'
    BY <2>1 DEF Inv, TypeOK, Places
  <2>8. QED
    BY <2>6, <2>7 DEF Inv
<1>5. CASE Offer(c)
  <2>1. /\ conn[c] = "offering" /\ Len(broadcast) < BroadcastCap
        /\ broadcast' = Append(broadcast, outbox[c])
        /\ conn' = [conn EXCEPT ![c] = "reading"]
        /\ outbox' = [outbox EXCEPT ![c] = NoMsg]
        /\ UNCHANGED <<hub, stop, clients, log, joinedAt, leftAt, send, closed, pump,
                       received, sent, accepted>>
    BY <1>5 DEF Offer, peerVars
  <2>2. outbox[c] \in Spoken /\ outbox[c] \in RoomEvents
    BY <2>1, HistoryFacts DEF Inv, Places
  <2>3. /\ broadcast' \in Seq(RoomEvents) /\ Len(broadcast') <= BroadcastCap
        /\ \A i \in DOMAIN broadcast' : broadcast'[i] \in Spoken
    <3>1. /\ broadcast \in Seq(RoomEvents) /\ Len(broadcast) <= BroadcastCap
          /\ BroadcastCap \in Nat /\ \A i \in DOMAIN broadcast : broadcast[i] \in Spoken
      BY CapsAssumption DEF Inv, TypeOK, Places
    <3>2. CASE broadcast' = broadcast
      BY <3>1, <3>2
    <3>3. CASE broadcast' = Append(broadcast, outbox[c]) /\ Len(broadcast) < BroadcastCap
      BY <2>2, <3>1, <3>3
    <3>4. QED
      BY <2>1, <3>2, <3>3
  <2>4. TypeOK'
    BY <2>1, <2>3 DEF Inv, TypeOK
  <2>5. Places'
    BY <2>1, <2>3 DEF Inv, TypeOK, Places
  <2>6. QED
    BY <2>4, <2>5 DEF Inv
<1>6. CASE OfferStopped(c)
  BY <1>6 DEF Inv, TypeOK, Places, OfferStopped, hubVars, peerVars
<1>7. CASE ReadEnds(c)
  BY <1>7 DEF Inv, TypeOK, Places, ReadEnds, hubVars, peerVars
<1>8. CASE SayClose(c)
  <2>1. /\ conn[c] = "leaving" /\ conn' = [conn EXCEPT ![c] = "unregistering"]
        /\ \/ /\ Len(broadcast) < BroadcastCap
              /\ broadcast' = Append(broadcast, CloseMsg(c))
           \/ broadcast' = broadcast
        /\ UNCHANGED <<hub, stop, clients, log, joinedAt, leftAt, outbox, send, closed,
                       pump, received, sent, accepted>>
    BY <1>8 DEF SayClose, peerVars
  <2>2. CloseMsg(c) \in Spoken /\ CloseMsg(c) \in RoomEvents
    BY EventFacts, HistoryFacts
  <2>3. /\ broadcast' \in Seq(RoomEvents) /\ Len(broadcast') <= BroadcastCap
        /\ \A i \in DOMAIN broadcast' : broadcast'[i] \in Spoken
    <3>1. /\ broadcast \in Seq(RoomEvents) /\ Len(broadcast) <= BroadcastCap
          /\ BroadcastCap \in Nat /\ \A i \in DOMAIN broadcast : broadcast[i] \in Spoken
      BY CapsAssumption DEF Inv, TypeOK, Places
    <3>2. CASE broadcast' = broadcast
      BY <3>1, <3>2
    <3>3. CASE broadcast' = Append(broadcast, CloseMsg(c)) /\ Len(broadcast) < BroadcastCap
      BY <2>2, <3>1, <3>3
    <3>4. QED
      BY <2>1, <3>2, <3>3
  <2>4. TypeOK'
    BY <2>1, <2>3 DEF Inv, TypeOK
  <2>5. Places'
    BY <2>1, <2>3 DEF Inv, TypeOK, Places
  <2>6. QED
    BY <2>4, <2>5 DEF Inv
<1>9. CASE SkipUnregister(c)
  BY <1>9 DEF Inv, TypeOK, Places, SkipUnregister, hubVars, peerVars
<1>10. QED
  BY <1>1, <1>2, <1>3, <1>4, <1>5, <1>6, <1>7, <1>8, <1>9

\* writePump.
LEMMA PumpTypes ==
    ASSUME Inv, NEW c \in Conns, PumpWrites(c) \/ PumpCloses(c) \/ PumpFails(c)
    PROVE  Inv'
<1>1. CASE PumpWrites(c)
  <2>1. /\ pump[c] = "on" /\ send[c] # <<>>
        /\ received' = [received EXCEPT ![c] = Append(@, Head(send[c]))]
        /\ send' = [send EXCEPT ![c] = Tail(@)]
        /\ UNCHANGED <<hub, stop, clients, broadcast, log, joinedAt, leftAt, conn,
                       outbox, closed, pump, sent, accepted>>
    BY <1>1 DEF PumpWrites, hubVars, peerVars
  <2>2. /\ send[c] \in Seq(Messages) /\ received[c] \in Seq(Messages)
        /\ Head(send[c]) \in Messages /\ Tail(send[c]) \in Seq(Messages)
        /\ Len(Tail(send[c])) = Len(send[c]) - 1 /\ Len(send[c]) \in Nat
        /\ Len(send[c]) <= SendCap /\ SendCap \in Nat
    BY <2>1, HeadTailProperties, EmptySeq, CapsAssumption DEF Inv, TypeOK
  <2>3. /\ send' \in [Conns -> Seq(Messages)] /\ received' \in [Conns -> Seq(Messages)]
        /\ \A d \in Conns : Len(send'[d]) <= SendCap
    BY <2>1, <2>2 DEF Inv, TypeOK
  <2>4. TypeOK'
    BY <2>1, <2>3 DEF Inv, TypeOK
  <2>5. conn[c] # "new"
    BY <2>1 DEF Inv, Places
  <2>6. Places'
    BY <2>1, <2>5 DEF Inv, TypeOK, Places
  <2>7. QED
    BY <2>4, <2>6 DEF Inv
<1>2. CASE PumpCloses(c)
  BY <1>2 DEF Inv, TypeOK, Places, PumpCloses, hubVars, peerVars
<1>3. CASE PumpFails(c)
  BY <1>3 DEF Inv, TypeOK, Places, PumpFails, hubVars, peerVars
<1>4. QED
  BY <1>1, <1>2, <1>3

\* Every step.
LEMMA InvStep == Inv /\ [Next]_vars => Inv'
<1> SUFFICES ASSUME Inv, [Next]_vars PROVE Inv'
  OBVIOUS
<1>1. CASE UNCHANGED vars
  BY <1>1 DEF Inv, TypeOK, Places, vars
<1>2. CASE Next
  BY <1>2, HubTypes, HandlerTypes, PumpTypes DEF Next
<1>3. QED
  BY <1>1, <1>2

\* The types of HubFanout: in particular no channel holds more than its
\* capacity, and what is offered to Broadcast is an event.
THEOREM TypeCorrect == Spec => []TypeOK
<1>1. Inv => TypeOK
  BY DEF Inv
<1>2. QED
  BY <1>1, InvInit, InvStep, PTL DEF Spec

(***************************************************************************)
(* What the hub says, and to whom.                                         *)
(***************************************************************************)

\* A step adds nothing to what the hub has said, or one event: a PRESENCE of
\* the client that comes, of a user's last client that goes, or the head of
\* Broadcast.  Only who registers is new to the list.
LEMMA LogStep ==
    ASSUME Inv, [Next]_vars
    PROVE  \/ log' = log /\ clients' \subseteq clients
           \/ \E c \in Conns : /\ log' = Append(log, Presence(c, "online"))
                              /\ clients' \subseteq clients \cup {c}
           \/ \E c \in Conns : /\ log' = Append(log, Presence(c, "offline"))
                              /\ clients' \subseteq clients \ {c}
                              /\ \A o \in clients \ {c} : UserOf[o] # UserOf[c]
           \/ /\ broadcast # <<>> /\ log' = Append(log, Head(broadcast))
              /\ clients' \subseteq clients
<1>0. TypeOK /\ clients \in SUBSET Conns /\ {} \in SUBSET Conns
  BY DEF Inv, TypeOK
<1>1. CASE UNCHANGED vars
  BY <1>1 DEF vars
<1>2. CASE Broadcast
  <2>1. /\ broadcast # <<>> /\ BroadcastLocal(Head(broadcast), clients, {})
    BY <1>2 DEF Broadcast
  <2>2. Head(broadcast) \in RoomEvents
    BY <2>1, HeadTailProperties, EmptySeq DEF Inv, TypeOK
  <2>3. log' = Append(log, Head(broadcast)) /\ clients' \subseteq clients
    BY <1>0, <2>1, <2>2, BroadcastLocalTypes
  <2>4. QED
    BY <2>1, <2>3
<1>3. CASE CloseStop \/ Stop
  BY <1>3 DEF CloseStop, Stop, peerVars
<1>4. ASSUME NEW c \in Conns, Register(c)
      PROVE  /\ log' = Append(log, Presence(c, "online"))
             /\ clients' \subseteq clients \cup {c}
  <2>1. BroadcastLocal(Presence(c, "online"), clients \cup {c}, {})
    BY <1>4 DEF Register
  <2>2. Presence(c, "online") \in RoomEvents /\ clients \cup {c} \in SUBSET Conns
    BY <1>0, EventFacts
  <2>3. QED
    BY <1>0, <2>1, <2>2, BroadcastLocalTypes
<1>5. ASSUME NEW c \in Conns, Unregister(c)
      PROVE  \/ log' = log /\ clients' \subseteq clients
             \/ /\ log' = Append(log, Presence(c, "offline"))
                /\ clients' \subseteq clients \ {c}
                /\ \A o \in clients \ {c} : UserOf[o] # UserOf[c]
  <2>1. CASE \E o \in clients \ {c} : UserOf[o] = UserOf[c]
    BY <1>5, <2>1 DEF Unregister
  <2>2. CASE ~\E o \in clients \ {c} : UserOf[o] = UserOf[c]
    <3>1. BroadcastLocal(Presence(c, "offline"), clients \ {c}, clients \cap {c})
      BY <1>5, <2>2 DEF Unregister
    <3>2. /\ Presence(c, "offline") \in RoomEvents
          /\ clients \ {c} \in SUBSET Conns /\ clients \cap {c} \in SUBSET Conns
      BY <1>0, EventFacts
    <3>3. log' = Append(log, Presence(c, "offline")) /\ clients' \subseteq clients \ {c}
      BY <1>0, <3>1, <3>2, BroadcastLocalTypes
    <3>4. QED
      BY <2>2, <3>3
  <2>3. QED
    BY <2>1, <2>2
<1>6. ASSUME NEW c \in Conns,
             \/ Enter(c) \/ ReadMsg(c) \/ ReadTyping(c) \/ ReadRefused(c)
             \/ Offer(c) \/ OfferStopped(c) \/ ReadEnds(c) \/ SayClose(c) \/ SkipUnregister(c)
             \/ PumpWrites(c) \/ PumpCloses(c) \/ PumpFails(c)
      PROVE  log' = log /\ clients' = clients
  BY <1>6 DEF Enter, ReadMsg, ReadTyping, ReadRefused, Offer, OfferStopped, ReadEnds,
              SayClose, SkipUnregister, PumpWrites, PumpCloses, PumpFails, hubVars
<1>7. CASE Next
  BY <1>2, <1>3, <1>4, <1>5, <1>6, <1>7 DEF Next
<1>8. QED
  BY <1>1, <1>7

(***************************************************************************)
(* What is shown was accepted.                                             *)
(***************************************************************************)
Taken == {accepted[j] : j \in DOMAIN accepted}

\* A message on its way to the hub was accepted, as one the hub has shown.
MsgsAreTaken ==
    /\ \A c \in Conns : conn[c] = "offering" /\ outbox[c].ev = "MSG" => outbox[c] \in Taken
    /\ \A i \in DOMAIN broadcast : broadcast[i].ev = "MSG" => broadcast[i] \in Taken
    /\ \A i \in DOMAIN log : log[i].ev = "MSG" => log[i] \in Taken

\* What was accepted stays so.
LEMMA TakenGrows == ASSUME Inv, [Next]_vars PROVE Taken \subseteq Taken'
<1>0. accepted \in Seq(RoomEvents)
  BY DEF Inv, TypeOK
<1>1. accepted' = accepted \/ \E c \in Conns : ReadMsg(c)
  BY DEF vars, Next, Broadcast, CloseStop, Stop, Register, Unregister, Enter, ReadTyping,
         ReadRefused, Offer, OfferStopped, ReadEnds, SayClose, SkipUnregister,
         PumpWrites, PumpCloses, PumpFails, peerVars
<1>2. ASSUME NEW c \in Conns, ReadMsg(c) PROVE Taken \subseteq Taken'
  <2>1. accepted' = Append(accepted, Msg(c, sent[c] + 1))
    BY <1>2 DEF ReadMsg
  <2>2. \A j \in DOMAIN accepted : j \in DOMAIN accepted' /\ accepted'[j] = accepted[j]
    BY <1>0, <2>1
  <2>3. QED
    BY <2>2 DEF Taken
<1>3. QED
  BY <1>1, <1>2 DEF Taken

\* The events in Broadcast stay, but for the first, and for one a connection
\* offers or says on leaving.
LEMMA TakenStep == Inv /\ MsgsAreTaken /\ [Next]_vars => MsgsAreTaken'
<1> SUFFICES ASSUME Inv, MsgsAreTaken, [Next]_vars PROVE MsgsAreTaken'
  OBVIOUS
<1>0. Taken \subseteq Taken'
  BY TakenGrows
<1>1. \A c \in Conns :
        conn'[c] = "offering" /\ outbox'[c].ev = "MSG" => outbox'[c] \in Taken'
  <2>1. CASE UNCHANGED <<conn, outbox>>
    BY <1>0, <2>1 DEF MsgsAreTaken
  <2>2. ASSUME NEW d \in Conns, ReadMsg(d)
        PROVE  \A c \in Conns :
                 conn'[c] = "offering" /\ outbox'[c].ev = "MSG" => outbox'[c] \in Taken'
    <3>1. /\ accepted' = Append(accepted, Msg(d, sent[d] + 1))
          /\ conn' = [conn EXCEPT ![d] = "offering"]
          /\ outbox' = [outbox EXCEPT ![d] = Msg(d, sent[d] + 1)]
          /\ sent[d] < MaxSend[d]
      BY <2>2 DEF ReadMsg
    <3>2. Msg(d, sent[d] + 1) \in RoomEvents /\ accepted \in Seq(RoomEvents)
      BY <3>1, NextNumber, EventFacts, HistoryFacts DEF Inv, TypeOK
    <3>3. /\ Len(accepted) + 1 \in DOMAIN accepted'
          /\ accepted'[Len(accepted) + 1] = Msg(d, sent[d] + 1)
      BY <3>1, <3>2
    <3>4. Msg(d, sent[d] + 1) \in Taken'
      BY <3>3 DEF Taken
    <3>5. \A c \in Conns : c = d \/ (conn'[c] = conn[c] /\ outbox'[c] = outbox[c])
      BY <3>1 DEF Inv, TypeOK
    <3>6. outbox'[d] = Msg(d, sent[d] + 1)
      BY <3>1 DEF Inv, TypeOK
    <3>7. QED
      BY <1>0, <3>4, <3>5, <3>6 DEF MsgsAreTaken
  <2>3. ASSUME NEW d \in Conns, ReadTyping(d)
        PROVE  \A c \in Conns :
                 conn'[c] = "offering" /\ outbox'[c].ev = "MSG" => outbox'[c] \in Taken'
    <3>1. /\ outbox' = [outbox EXCEPT ![d] = Typing(d, sent[d] + 1)]
          /\ conn' = [conn EXCEPT ![d] = "offering"]
          /\ sent[d] < MaxSend[d]
      BY <2>3 DEF ReadTyping
    <3>2. Typing(d, sent[d] + 1).ev = "TYPING"
      BY <3>1, NextNumber, EventFacts
    <3>3. outbox'[d].ev = "TYPING"
      BY <3>1, <3>2 DEF Inv, TypeOK
    <3>4. \A c \in Conns : c = d \/ (conn'[c] = conn[c] /\ outbox'[c] = outbox[c])
      BY <3>1 DEF Inv, TypeOK
    <3>5. QED
      BY <1>0, <3>3, <3>4 DEF MsgsAreTaken
  <2>4. ASSUME NEW d \in Conns,
               \/ Register(d) \/ Unregister(d) \/ Enter(d) \/ ReadRefused(d) \/ Offer(d)
               \/ OfferStopped(d) \/ ReadEnds(d) \/ SayClose(d) \/ SkipUnregister(d)
        PROVE  \A c \in Conns :
                 conn'[c] = "offering" => conn[c] = "offering" /\ outbox'[c] = outbox[c]
    BY <2>4 DEF Inv, TypeOK, Register, Unregister, Enter, ReadRefused, Offer, OfferStopped,
                ReadEnds, SayClose, SkipUnregister
  <2>5. CASE Broadcast \/ CloseStop \/ Stop
               \/ \E d \in Conns : PumpWrites(d) \/ PumpCloses(d) \/ PumpFails(d)
    <3>1. UNCHANGED <<conn, outbox>>
      BY <2>5 DEF Broadcast, CloseStop, Stop, PumpWrites, PumpCloses, PumpFails
    <3>2. QED
      BY <2>1, <3>1
  <2>6. ASSUME NEW d \in Conns,
               \/ Register(d) \/ Unregister(d) \/ Enter(d) \/ ReadRefused(d) \/ Offer(d)
               \/ OfferStopped(d) \/ ReadEnds(d) \/ SayClose(d) \/ SkipUnregister(d)
        PROVE  \A c \in Conns :
                 conn'[c] = "offering" /\ outbox'[c].ev = "MSG" => outbox'[c] \in Taken'
    BY <1>0, <2>4, <2>6 DEF MsgsAreTaken
  <2>7. UNCHANGED vars => UNCHANGED <<conn, outbox>>
    BY DEF vars
  <2>8. QED
    BY <2>1, <2>2, <2>3, <2>5, <2>6, <2>7 DEF Next
<1>2. \A i \in DOMAIN broadcast' : broadcast'[i].ev = "MSG" => broadcast'[i] \in Taken'
  <2>0. broadcast \in Seq(RoomEvents)
    BY DEF Inv, TypeOK
  <2>1. CASE broadcast' = broadcast
    BY <1>0, <2>1 DEF MsgsAreTaken
  <2>2. CASE broadcast # <<>> /\ broadcast' = Tail(broadcast)
    <3>1. \A i \in DOMAIN broadcast' :
            i + 1 \in DOMAIN broadcast /\ broadcast'[i] = broadcast[i + 1]
      BY <2>0, <2>2
    <3>2. QED
      BY <1>0, <3>1 DEF MsgsAreTaken
  <2>3. ASSUME NEW d \in Conns, Offer(d)
        PROVE  \A i \in DOMAIN broadcast' :
                 broadcast'[i].ev = "MSG" => broadcast'[i] \in Taken'
    <3>1. conn[d] = "offering" /\ broadcast' = Append(broadcast, outbox[d])
      BY <2>3 DEF Offer
    <3>2. outbox[d] \in RoomEvents /\ (outbox[d].ev = "MSG" => outbox[d] \in Taken)
      BY <3>1, HistoryFacts DEF Inv, Places, MsgsAreTaken
    <3>3. \A i \in DOMAIN broadcast' :
            broadcast'[i] = outbox[d]
              \/ (i \in DOMAIN broadcast /\ broadcast'[i] = broadcast[i])
      BY <2>0, <3>1, <3>2
    <3>4. QED
      BY <1>0, <3>2, <3>3 DEF MsgsAreTaken
  <2>4. ASSUME NEW d \in Conns, SayClose(d)
        PROVE  \A i \in DOMAIN broadcast' :
                 broadcast'[i].ev = "MSG" => broadcast'[i] \in Taken'
    <3>1. broadcast' = broadcast \/ broadcast' = Append(broadcast, CloseMsg(d))
      BY <2>4 DEF SayClose
    <3>2. CloseMsg(d) \in RoomEvents /\ CloseMsg(d).ev = "CLOSE"
      BY EventFacts, HistoryFacts
    <3>3. \A i \in DOMAIN broadcast' :
            broadcast'[i] = CloseMsg(d)
              \/ (i \in DOMAIN broadcast /\ broadcast'[i] = broadcast[i])
      BY <2>0, <3>1, <3>2
    <3>4. QED
      BY <1>0, <3>2, <3>3 DEF MsgsAreTaken
  <2>5. \/ broadcast' = broadcast
        \/ broadcast # <<>> /\ broadcast' = Tail(broadcast)
        \/ \E d \in Conns : Offer(d) \/ SayClose(d)
    BY DEF vars, Next, Broadcast, CloseStop, Stop, Register, Unregister, Enter, ReadMsg,
           ReadTyping, ReadRefused, OfferStopped, ReadEnds, SkipUnregister,
           PumpWrites, PumpCloses, PumpFails, hubVars
  <2>6. QED
    BY <2>1, <2>2, <2>3, <2>4, <2>5
<1>3. \A i \in DOMAIN log' : log'[i].ev = "MSG" => log'[i] \in Taken'
  <2>0. log \in Seq(RoomEvents)
    BY DEF Inv, TypeOK
  <2>1. CASE log' = log
    BY <1>0, <2>1 DEF MsgsAreTaken
  <2>2. ASSUME NEW m \in RoomEvents, log' = Append(log, m), m.ev = "MSG" => m \in Taken
        PROVE  \A i \in DOMAIN log' : log'[i].ev = "MSG" => log'[i] \in Taken'
    <3>1. \A i \in DOMAIN log' : log'[i] = m \/ (i \in DOMAIN log /\ log'[i] = log[i])
      BY <2>0, <2>2
    <3>2. QED
      BY <1>0, <2>2, <3>1 DEF MsgsAreTaken
  <2>3. CASE \E c \in Conns : \/ log' = Append(log, Presence(c, "online"))
                             \/ log' = Append(log, Presence(c, "offline"))
    BY <2>2, <2>3, EventFacts
  <2>4. CASE broadcast # <<>> /\ log' = Append(log, Head(broadcast))
    <3>1. /\ Head(broadcast) \in RoomEvents /\ Head(broadcast) = broadcast[1]
          /\ 1 \in DOMAIN broadcast
      BY <2>4 DEF Inv, TypeOK
    <3>2. Head(broadcast).ev = "MSG" => Head(broadcast) \in Taken
      BY <3>1 DEF MsgsAreTaken
    <3>3. QED
      BY <2>2, <2>4, <3>1, <3>2
  <2>5. QED
    BY <2>1, <2>3, <2>4, LogStep
<1>4. QED
  BY <1>1, <1>2, <1>3 DEF MsgsAreTaken

\* Nobody is shown a message that the server refused to store.
THEOREM ShownWasAccepted == Spec => []OnlyAcceptedIsBroadcast
<1>1. Init => MsgsAreTaken
  BY DEF Init, MsgsAreTaken
<1>2. MsgsAreTaken => OnlyAcceptedIsBroadcast
  BY DEF MsgsAreTaken, OnlyAcceptedIsBroadcast, Taken
<1>3. QED
  BY <1>1, <1>2, InvInit, InvStep, TakenStep, PTL DEF Spec

(***************************************************************************)
(* The history comes first.                                                *)
(***************************************************************************)
Shown(c) == received[c] \o send[c]

InOrder(all) ==
    \A i, j \in DOMAIN all : all[i].ev = "CHATLOG" /\ all[j].ev # "CHATLOG" => i < j

\* A live event at the end leaves the history in front of it.
LEMMA LiveAtTheEnd ==
    ASSUME NEW r \in Seq(Messages), NEW s \in Seq(Messages), NEW m \in Messages,
           InOrder(r \o s), m.ev # "CHATLOG"
    PROVE  InOrder(r \o Append(s, m))
<1> DEFINE all == r \o s
           more == r \o Append(s, m)
<1>1. /\ all \in Seq(Messages) /\ Len(all) = Len(r) + Len(s)
      /\ more \in Seq(Messages) /\ Len(more) = Len(all) + 1
      /\ Len(r) \in Nat /\ Len(s) \in Nat
  OBVIOUS
<1>2. \A i \in 1..Len(all) : more[i] = all[i]
  OBVIOUS
<1>3. more[Len(all) + 1] = m
  OBVIOUS
<1>4. InOrder(all)
  OBVIOUS
<1> HIDE DEF all, more
<1>5. Len(all) \in Nat /\ DOMAIN all = 1..Len(all) /\ DOMAIN more = 1..(Len(all) + 1)
  BY <1>1, LenProperties
<1>6. \A i \in DOMAIN more : i \in 1..Len(all) \/ i = Len(all) + 1
  BY <1>5
<1>7. ASSUME NEW i \in DOMAIN more, NEW j \in DOMAIN more,
             more[i].ev = "CHATLOG", more[j].ev # "CHATLOG"
      PROVE  i < j
  <2>1. i # Len(all) + 1
    BY <1>3, <1>7
  <2>2. i \in 1..Len(all)
    BY <1>6, <2>1
  <2>3. CASE j \in 1..Len(all)
    <3>1. all[i].ev = "CHATLOG" /\ all[j].ev # "CHATLOG"
      BY <1>2, <1>7, <2>2, <2>3
    <3>2. i \in DOMAIN all /\ j \in DOMAIN all
      BY <1>5, <2>2, <2>3
    <3>3. QED
      BY <1>4, <3>1, <3>2 DEF InOrder
  <2>4. CASE j = Len(all) + 1
    BY <1>5, <2>2, <2>4
  <2>5. QED
    BY <1>6, <2>3, <2>4
<1>8. InOrder(more)
  BY <1>7 DEF InOrder
<1>9. QED
  BY <1>8 DEF more

\* What writePump moves to the peer stays where it was in the whole.
LEMMA WriteKeepsWhole ==
    ASSUME NEW r \in Seq(Messages), NEW s \in Seq(Messages), s # <<>>
    PROVE  Append(r, Head(s)) \o Tail(s) = r \o s
<1>1. Head(s) \in Messages /\ Tail(s) \in Seq(Messages) /\ Len(s) \in Nat /\ Len(s) >= 1
  BY HeadTailProperties, EmptySeq
<1>2. s = <<Head(s)>> \o Tail(s)
  BY <1>1
<1>3. Append(r, Head(s)) = r \o <<Head(s)>> /\ <<Head(s)>> \in Seq(Messages)
  BY <1>1
<1>4. (r \o <<Head(s)>>) \o Tail(s) = r \o (<<Head(s)>> \o Tail(s))
  BY <1>1, <1>3, ConcatAssociative
<1>5. QED
  BY <1>2, <1>3, <1>4

\* What a step does to what a client is shown.
LEMMA ShownStep ==
    ASSUME Inv, [Next]_vars, NEW c \in Conns
    PROVE  \/ received'[c] = received[c] /\ send'[c] = send[c]
           \/ /\ received'[c] = received[c]
              /\ \E m \in Messages : m.ev # "CHATLOG" /\ send'[c] = Append(send[c], m)
           \/ /\ send[c] # <<>> /\ send'[c] = Tail(send[c])
              /\ received'[c] = Append(received[c], Head(send[c]))
           \/ /\ received'[c] = received[c] /\ received[c] = <<>>
              /\ send'[c] \in Seq(Messages)
              /\ \A i \in DOMAIN send'[c] : send'[c][i].ev = "CHATLOG"
<1>0. /\ TypeOK /\ clients \in SUBSET Conns /\ {} \in SUBSET Conns
      /\ send \in [Conns -> Seq(Messages)] /\ received \in [Conns -> Seq(Messages)]
  BY DEF Inv, TypeOK
<1>1. ASSUME NEW m \in RoomEvents, NEW members \in SUBSET Conns, NEW gone \in SUBSET Conns,
             BroadcastLocal(m, members, gone)
      PROVE  send'[c] = send[c] \/ (m \in Messages /\ m.ev # "CHATLOG"
                                      /\ send'[c] = Append(send[c], m))
  BY <1>0, <1>1, BroadcastLocalTypes, HistoryFacts
<1>2. CASE Broadcast
  <2>1. /\ broadcast # <<>> /\ BroadcastLocal(Head(broadcast), clients, {})
        /\ received' = received
    BY <1>2 DEF Broadcast
  <2>2. Head(broadcast) \in RoomEvents
    BY <2>1, HeadTailProperties, EmptySeq DEF Inv, TypeOK
  <2>3. QED
    BY <1>0, <1>1, <2>1, <2>2
<1>3. ASSUME NEW d \in Conns, Register(d)
      PROVE  /\ received' = received
             /\ send'[c] = send[c]
                  \/ \E m \in Messages : m.ev # "CHATLOG" /\ send'[c] = Append(send[c], m)
  <2>1. BroadcastLocal(Presence(d, "online"), clients \cup {d}, {}) /\ received' = received
    BY <1>3 DEF Register
  <2>2. Presence(d, "online") \in RoomEvents /\ clients \cup {d} \in SUBSET Conns
    BY <1>0, EventFacts
  <2>3. QED
    BY <1>0, <1>1, <2>1, <2>2
<1>4. ASSUME NEW d \in Conns, Unregister(d)
      PROVE  /\ received' = received
             /\ send'[c] = send[c]
                  \/ \E m \in Messages : m.ev # "CHATLOG" /\ send'[c] = Append(send[c], m)
  <2>1. /\ received' = received
        /\ \/ send' = send
           \/ BroadcastLocal(Presence(d, "offline"), clients \ {d}, clients \cap {d})
    BY <1>4 DEF Unregister
  <2>2. /\ Presence(d, "offline") \in RoomEvents
        /\ clients \ {d} \in SUBSET Conns /\ clients \cap {d} \in SUBSET Conns
    BY <1>0, EventFacts
  <2>3. QED
    BY <1>0, <1>1, <2>1, <2>2
<1>5. ASSUME NEW d \in Conns, ReadRefused(d)
      PROVE  /\ received' = received
             /\ send'[c] = send[c]
                  \/ \E m \in Messages : m.ev # "CHATLOG" /\ send'[c] = Append(send[c], m)
  <2>1. /\ received' = received
        /\ send' = send \/ send' = [send EXCEPT ![d] = Append(@, Warn)]
    BY <1>5 DEF ReadRefused
  <2>2. Warn \in Messages /\ Warn.ev # "CHATLOG"
    BY HistoryFacts
  <2>3. send'[c] = send[c] \/ send'[c] = Append(send[c], Warn)
    BY <1>0, <2>1
  <2>4. QED
    BY <2>1, <2>2, <2>3
<1>6. ASSUME NEW d \in Conns, Enter(d)
      PROVE  /\ received' = received
             /\ \/ send'[c] = send[c]
                \/ /\ received[c] = <<>> /\ send'[c] \in Seq(Messages)
                   /\ \A i \in DOMAIN send'[c] : send'[c][i].ev = "CHATLOG"
  <2>1. PICK n \in Nat :
          /\ send' = [send EXCEPT ![d] = [i \in 1..n |-> ChatLog(accepted[i])]]
          /\ [i \in 1..n |-> ChatLog(accepted[i])] \in Seq(Messages)
          /\ \A i \in 1..n : ChatLog(accepted[i]).ev = "CHATLOG"
    BY <1>6, EnterSends
  <2>2. received' = received /\ received[d] = <<>>
    BY <1>6 DEF Enter, Inv, Places
  <2>3. CASE c = d
    <3>1. send'[c] = [i \in 1..n |-> ChatLog(accepted[i])]
      BY <1>0, <2>1, <2>3
    <3>2. \A i \in DOMAIN send'[c] : send'[c][i].ev = "CHATLOG"
      BY <2>1, <3>1
    <3>3. QED
      BY <2>1, <2>2, <2>3, <3>1, <3>2
  <2>4. CASE c # d
    BY <1>0, <2>1, <2>2, <2>4
  <2>5. QED
    BY <2>3, <2>4
<1>7. ASSUME NEW d \in Conns, PumpWrites(d)
      PROVE  \/ received'[c] = received[c] /\ send'[c] = send[c]
             \/ /\ send[c] # <<>> /\ send'[c] = Tail(send[c])
                /\ received'[c] = Append(received[c], Head(send[c]))
  BY <1>0, <1>7 DEF PumpWrites
<1>8. CASE \/ UNCHANGED vars \/ CloseStop \/ Stop
           \/ \E d \in Conns :
                \/ ReadMsg(d) \/ ReadTyping(d) \/ Offer(d) \/ OfferStopped(d) \/ ReadEnds(d)
                \/ SayClose(d) \/ SkipUnregister(d) \/ PumpCloses(d) \/ PumpFails(d)
  <2>1. received' = received /\ send' = send
    BY <1>8 DEF vars, CloseStop, Stop, ReadMsg, ReadTyping, Offer, OfferStopped, ReadEnds,
                SayClose, SkipUnregister, PumpCloses, PumpFails
  <2>2. QED
    BY <2>1
<1>9. QED
  BY <1>2, <1>3, <1>4, <1>5, <1>6, <1>7, <1>8 DEF Next

\* So the order holds.
LEMMA OrderStep == Inv /\ HistoryFirst /\ [Next]_vars => HistoryFirst'
<1> SUFFICES ASSUME Inv, HistoryFirst, [Next]_vars, NEW c \in Conns
             PROVE  InOrder(received'[c] \o send'[c])
  BY DEF HistoryFirst, InOrder
<1>1. /\ received[c] \in Seq(Messages) /\ send[c] \in Seq(Messages)
      /\ InOrder(received[c] \o send[c])
  BY DEF Inv, TypeOK, HistoryFirst, InOrder
<1>2. CASE received'[c] = received[c] /\ send'[c] = send[c]
  BY <1>1, <1>2
<1>3. ASSUME received'[c] = received[c],
             NEW m \in Messages, m.ev # "CHATLOG", send'[c] = Append(send[c], m)
      PROVE  InOrder(received'[c] \o send'[c])
  BY <1>1, <1>3, LiveAtTheEnd
<1>4. CASE /\ send[c] # <<>> /\ send'[c] = Tail(send[c])
           /\ received'[c] = Append(received[c], Head(send[c]))
  BY <1>1, <1>4, WriteKeepsWhole
<1>5. CASE /\ received'[c] = received[c] /\ received[c] = <<>>
           /\ send'[c] \in Seq(Messages)
           /\ \A i \in DOMAIN send'[c] : send'[c][i].ev = "CHATLOG"
  <2>1. received'[c] \o send'[c] = send'[c]
    BY <1>5, ConcatEmptySeq
  <2>2. QED
    BY <1>5, <2>1 DEF InOrder
<1>6. QED
  BY <1>2, <1>3, <1>4, <1>5, ShownStep

\* Every message of the history is ordered before any live event, whoever
\* registers while whatever is broadcast.
THEOREM HistoryComesFirst == Spec => []HistoryFirst
<1>1. Init => HistoryFirst
  <2> SUFFICES ASSUME Init, NEW c \in Conns PROVE InOrder(received[c] \o send[c])
    BY DEF HistoryFirst, InOrder
  <2>1. received[c] \o send[c] = <<>>
    BY DEF Init
  <2>2. QED
    BY <2>1 DEF InOrder
<1>2. QED
  BY <1>1, InvInit, InvStep, OrderStep, PTL DEF Spec

(***************************************************************************)
(* Who is announced offline is absent.                                     *)
(***************************************************************************)
Announces(i, c) == log[i].ev = "PRESENCE" /\ log[i].user = UserOf[c]

\* The last that was said of a listed client's user is that he is online.
LEMMA OfflineStep == Inv /\ OfflineMeansAbsent /\ [Next]_vars => OfflineMeansAbsent'
<1> SUFFICES ASSUME Inv, OfflineMeansAbsent, [Next]_vars, NEW c \in clients'
             PROVE  \E i \in DOMAIN log' :
                      /\ log'[i].ev = "PRESENCE" /\ log'[i].user = UserOf[c]
                      /\ log'[i].id = <<"online">>
                      /\ \A j \in DOMAIN log' :
                           log'[j].ev = "PRESENCE" /\ log'[j].user = UserOf[c] => j <= i
  BY DEF OfflineMeansAbsent
<1>0. /\ log \in Seq(RoomEvents) /\ Len(log) \in Nat
      /\ clients \subseteq Conns /\ broadcast \in Seq(RoomEvents)
  BY DEF Inv, TypeOK
<1>1. ASSUME c \in clients
      PROVE  \E i \in DOMAIN log :
               /\ Announces(i, c) /\ log[i].id = <<"online">>
               /\ \A j \in DOMAIN log : Announces(j, c) => j <= i
  BY <1>1 DEF OfflineMeansAbsent, Announces
<1>2. CASE log' = log /\ clients' \subseteq clients
  BY <1>1, <1>2 DEF Announces
<1>3. ASSUME NEW m \in RoomEvents, log' = Append(log, m), c \in clients,
             m.ev # "PRESENCE" \/ m.user # UserOf[c]
      PROVE  \E i \in DOMAIN log' :
               /\ log'[i].ev = "PRESENCE" /\ log'[i].user = UserOf[c]
               /\ log'[i].id = <<"online">>
               /\ \A j \in DOMAIN log' :
                    log'[j].ev = "PRESENCE" /\ log'[j].user = UserOf[c] => j <= i
  <2>1. /\ DOMAIN log = 1..Len(log) /\ DOMAIN log' = 1..(Len(log) + 1)
        /\ \A j \in 1..Len(log) : log'[j] = log[j]
        /\ log'[Len(log) + 1] = m
    BY <1>0, <1>3
  <2>2. PICK i \in DOMAIN log :
          /\ Announces(i, c) /\ log[i].id = <<"online">>
          /\ \A j \in DOMAIN log : Announces(j, c) => j <= i
    BY <1>1, <1>3
  <2>3. i \in DOMAIN log' /\ log'[i] = log[i]
    BY <1>0, <2>1
  <2>4. ASSUME NEW j \in DOMAIN log', log'[j].ev = "PRESENCE", log'[j].user = UserOf[c]
        PROVE  j <= i
    <3>1. j # Len(log) + 1
      BY <1>3, <2>1, <2>4
    <3>2. j \in DOMAIN log /\ log'[j] = log[j]
      BY <1>0, <2>1, <3>1
    <3>3. QED
      BY <2>2, <2>4, <3>2 DEF Announces
  <2>5. QED
    BY <2>2, <2>3, <2>4 DEF Announces
<1>4. ASSUME NEW d \in Conns, log' = Append(log, Presence(d, "online")),
             clients' \subseteq clients \cup {d}
      PROVE  \E i \in DOMAIN log' :
               /\ log'[i].ev = "PRESENCE" /\ log'[i].user = UserOf[c]
               /\ log'[i].id = <<"online">>
               /\ \A j \in DOMAIN log' :
                    log'[j].ev = "PRESENCE" /\ log'[j].user = UserOf[c] => j <= i
  <2>1. /\ Presence(d, "online") \in RoomEvents /\ Presence(d, "online").ev = "PRESENCE"
        /\ Presence(d, "online").user = UserOf[d] /\ Presence(d, "online").id = <<"online">>
    BY EventFacts
  <2>2. CASE UserOf[d] # UserOf[c]
    BY <1>3, <1>4, <2>1, <2>2
  <2>3. CASE UserOf[d] = UserOf[c]
    <3>1. /\ DOMAIN log' = 1..(Len(log) + 1)
          /\ log'[Len(log) + 1] = Presence(d, "online")
      BY <1>0, <1>4, <2>1
    <3>2. Len(log) + 1 \in DOMAIN log' /\ \A j \in DOMAIN log' : j <= Len(log) + 1
      BY <1>0, <3>1
    <3>3. QED
      BY <2>1, <2>3, <3>1, <3>2
  <2>4. QED
    BY <2>2, <2>3
<1>5. ASSUME NEW d \in Conns, log' = Append(log, Presence(d, "offline")),
             clients' \subseteq clients \ {d},
             \A o \in clients \ {d} : UserOf[o] # UserOf[d]
      PROVE  \E i \in DOMAIN log' :
               /\ log'[i].ev = "PRESENCE" /\ log'[i].user = UserOf[c]
               /\ log'[i].id = <<"online">>
               /\ \A j \in DOMAIN log' :
                    log'[j].ev = "PRESENCE" /\ log'[j].user = UserOf[c] => j <= i
  <2>1. Presence(d, "offline") \in RoomEvents /\ Presence(d, "offline").user = UserOf[d]
    BY EventFacts
  <2>2. c \in clients /\ UserOf[d] # UserOf[c]
    BY <1>5
  <2>3. QED
    BY <1>3, <1>5, <2>1, <2>2
<1>6. CASE /\ broadcast # <<>> /\ log' = Append(log, Head(broadcast))
           /\ clients' \subseteq clients
  <2>1. 1 \in DOMAIN broadcast /\ Head(broadcast) = broadcast[1]
    BY <1>0, <1>6
  <2>2. Head(broadcast) \in RoomEvents /\ Head(broadcast).ev # "PRESENCE"
    BY <2>1 DEF Inv, Places, Spoken
  <2>3. c \in clients
    BY <1>6
  <2>4. QED
    BY <1>3, <1>6, <2>2, <2>3
<1>7. QED
  BY <1>2, <1>4, <1>5, <1>6, LogStep

\* A user with several tabs is not announced offline while one of them is
\* listed: in whatever order his tabs come, go and are evicted.
THEOREM NobodyWronglyOffline == Spec => []OfflineMeansAbsent
<1>1. Init => OfflineMeansAbsent
  BY DEF Init, OfflineMeansAbsent
<1>2. QED
  BY <1>1, InvInit, InvStep, OfflineStep, PTL DEF Spec
(***************************************************************************)
(* The hub implements the room's promise (RoomChannel).                    *)
(*                                                                         *)
(* What a connection was sent and what still waits in its Send, history    *)
(* and warnings apart, is exactly what the room owes it: from this, what   *)
(* writePump writes next is the next event due.                            *)
(***************************************************************************)

\* The room's events for c, those owed to c so far, and those given to it.
Mine(c) == {e \in RoomEvents : ~(e.ev = "TYPING" /\ e.user = UserOf[c])}

Owed(c) ==
    IF joinedAt[c] = -1 THEN <<>>
    ELSE OnlyIn(SubSeq(log, joinedAt[c] + 1, IF leftAt[c] = -1 THEN Len(log) ELSE leftAt[c]),
                Mine(c))

Given(c) == OnlyIn(received[c] \o send[c], RoomEvents)

\* Who is listed has registered and was not cut off, each once.
Marks ==
    \A c \in Conns :
        /\ joinedAt[c] \in -1..Len(log) /\ leftAt[c] \in -1..Len(log)
        /\ leftAt[c] # -1 => joinedAt[c] # -1
        /\ c \in clients <=> joinedAt[c] # -1 /\ leftAt[c] = -1
        /\ conn[c] \in {"new", "registering"} => joinedAt[c] = -1

NoGap == \A c \in Conns : Given(c) = Owed(c)

\* A longer log has the same events where the shorter one had some.
LEMMA LogGrows ==
    ASSUME NEW S, NEW l \in Seq(S), NEW e \in S, NEW j \in 0..Len(l), NEW u \in 0..Len(l)
    PROVE  /\ SubSeq(Append(l, e), j + 1, u) = SubSeq(l, j + 1, u)
           /\ SubSeq(Append(l, e), j + 1, Len(l) + 1) = Append(SubSeq(l, j + 1, Len(l)), e)
           /\ SubSeq(l, j + 1, u) \in Seq(S)
<1> DEFINE n == Len(l)
           t == Append(l, e)
<1>1. /\ t \in Seq(S) /\ Len(t) = n + 1 /\ t[n + 1] = e /\ n \in Nat
      /\ \A i \in 1..n : t[i] = l[i] /\ l[i] \in S
  BY AppendProperties, LenProperties
<1> HIDE DEF n, t
<1>0. n = Len(l) /\ j \in 0..n /\ u \in 0..n
  BY DEF n
<1>2. ASSUME NEW v \in 0..n
      PROVE  /\ SubSeq(l, j + 1, v) \in Seq(S)
             /\ SubSeq(t, j + 1, v) = SubSeq(l, j + 1, v)
  <2> DEFINE a == SubSeq(l, j + 1, v)
             b == SubSeq(t, j + 1, v)
  <2>1. \A i \in (j + 1)..v : l[i] \in S /\ t[i] \in S
    BY <1>0, <1>1
  <2>2. /\ a \in Seq(S) /\ Len(a) = IF j + 1 <= v THEN v - (j + 1) + 1 ELSE 0
        /\ \A i \in 1..(v - (j + 1) + 1) : a[i] = l[j + 1 + i - 1]
    BY <1>0, <1>1, <2>1, SubSeqProperties
  <2>3. /\ b \in Seq(S) /\ Len(b) = IF j + 1 <= v THEN v - (j + 1) + 1 ELSE 0
        /\ \A i \in 1..(v - (j + 1) + 1) : b[i] = t[j + 1 + i - 1]
    BY <1>0, <1>1, <2>1, SubSeqProperties
  <2> HIDE DEF a, b
  <2>4. ASSUME NEW i \in 1..Len(b) PROVE b[i] = a[i]
    <3>1. i \in 1..(v - (j + 1) + 1) /\ j + 1 + i - 1 \in 1..n
      BY <1>0, <1>1, <2>3
    <3>2. QED
      BY <1>1, <2>2, <2>3, <3>1
  <2>5. a = b
    BY <2>2, <2>3, <2>4, SeqEqual
  <2>6. QED
    BY <2>2, <2>5 DEF a, b
<1>3. n \in 0..n
  BY <1>1
<1>4. SubSeq(t, j + 1, n + 1) = Append(SubSeq(t, j + 1, n), t[n + 1])
  <2>1. j + 1 \in 1..Len(t) /\ n + 1 \in (j + 1)..Len(t) /\ (n + 1) - 1 = n
    BY <1>0, <1>1
  <2>2. SubSeq(t, j + 1, n + 1) = SubSeq(t, j + 1, n) \o <<t[n + 1]>>
    BY <1>1, <2>1, SubSeqRecursiveSecond
  <2>3. SubSeq(t, j + 1, n) \in Seq(S) /\ t[n + 1] \in S
    BY <1>1, <1>2, <1>3
  <2>4. QED
    BY <2>2, <2>3, AppendIsConcat
<1>5. QED
  BY <1>0, <1>1, <1>2, <1>3, <1>4 DEF n, t

\* The same of the log, and what it says of an event for one connection.
LEMMA LogGrew ==
    ASSUME log \in Seq(RoomEvents), NEW e \in RoomEvents, log' = Append(log, e)
    PROVE  /\ \A j, u \in 0..Len(log) :
                /\ SubSeq(log', j + 1, u) = SubSeq(log, j + 1, u)
                /\ SubSeq(log', j + 1, Len(log) + 1)
                     = Append(SubSeq(log, j + 1, Len(log)), e)
                /\ SubSeq(log, j + 1, u) \in Seq(RoomEvents)
           /\ \A s \in Seq(RoomEvents), K \in SUBSET RoomEvents :
                OnlyIn(Append(s, e), K)
                  = IF e \in K THEN Append(OnlyIn(s, K), e) ELSE OnlyIn(s, K)
<1>1. ASSUME NEW j \in 0..Len(log), NEW u \in 0..Len(log)
      PROVE  /\ SubSeq(Append(log, e), j + 1, u) = SubSeq(log, j + 1, u)
             /\ SubSeq(Append(log, e), j + 1, Len(log) + 1)
                  = Append(SubSeq(log, j + 1, Len(log)), e)
             /\ SubSeq(log, j + 1, u) \in Seq(RoomEvents)
  BY <1>1, LogGrows, Zenon
<1>2. ASSUME NEW s \in Seq(RoomEvents), NEW K
      PROVE  OnlyIn(Append(s, e), K)
               = IF e \in K THEN Append(OnlyIn(s, K), e) ELSE OnlyIn(s, K)
  BY <1>2, OnlyInAppend, Zenon
<1>3. QED
  BY <1>1, <1>2, Zenon

\* What is owed to a connection that was cut off, or never came, stays; to one
\* that is listed a new event is owed if it is for it.
LEMMA OwedFacts ==
    ASSUME Inv, Marks, NEW c \in Conns, NEW e \in RoomEvents, log' = Append(log, e),
           joinedAt'[c] = joinedAt[c]
    PROVE  /\ leftAt'[c] = leftAt[c] /\ c \notin clients => Owed(c)' = Owed(c)
           /\ leftAt'[c] = Len(log) /\ c \in clients => Owed(c)' = Owed(c)
           /\ leftAt'[c] = leftAt[c] /\ c \in clients
                => Owed(c)' = IF e \in Mine(c) THEN Append(Owed(c), e) ELSE Owed(c)
<1>1. log \in Seq(RoomEvents) /\ Len(log) \in Nat /\ Len(log) # -1
  BY LenProperties DEF Inv, TypeOK
<1>2. Len(log') = Len(log) + 1
  BY <1>1, AppendProperties
<1>3. /\ joinedAt[c] \in -1..Len(log) /\ leftAt[c] \in -1..Len(log)
      /\ leftAt[c] # -1 => joinedAt[c] # -1
      /\ c \in clients <=> joinedAt[c] # -1 /\ leftAt[c] = -1
  BY DEF Marks
<1>4. Mine(c)' = Mine(c)
  BY DEF Mine
<1>10. /\ \A j, u \in 0..Len(log) :
            /\ SubSeq(log', j + 1, u) = SubSeq(log, j + 1, u)
            /\ SubSeq(log', j + 1, Len(log) + 1) = Append(SubSeq(log, j + 1, Len(log)), e)
            /\ SubSeq(log, j + 1, u) \in Seq(RoomEvents)
       /\ \A s \in Seq(RoomEvents), K \in SUBSET RoomEvents :
            OnlyIn(Append(s, e), K)
              = IF e \in K THEN Append(OnlyIn(s, K), e) ELSE OnlyIn(s, K)
  BY <1>1, LogGrew, Zenon
<1>11. Mine(c) \in SUBSET RoomEvents
  BY DEF Mine
<1>5. ASSUME leftAt'[c] = leftAt[c], c \notin clients PROVE Owed(c)' = Owed(c)
  <2>1. CASE joinedAt[c] = -1
    BY <1>5, <2>1 DEF Owed
  <2>2. CASE joinedAt[c] # -1
    <3>1. joinedAt[c] \in 0..Len(log) /\ leftAt[c] \in 0..Len(log) /\ leftAt[c] # -1
      BY <1>1, <1>3, <1>5, <2>2
    <3>2. SubSeq(log', joinedAt[c] + 1, leftAt[c]) = SubSeq(log, joinedAt[c] + 1, leftAt[c])
      BY <1>10, <3>1, Zenon
    <3>3. Owed(c) = OnlyIn(SubSeq(log, joinedAt[c] + 1, leftAt[c]), Mine(c))
      BY <2>2, <3>1 DEF Owed
    <3>4. Owed(c)' = OnlyIn(SubSeq(log', joinedAt[c] + 1, leftAt[c]), Mine(c)')
      BY <1>5, <2>2, <3>1 DEF Owed
    <3>5. QED
      BY <1>4, <3>2, <3>3, <3>4
  <2>3. QED
    BY <2>1, <2>2
<1>6. ASSUME c \in clients
      PROVE  /\ joinedAt[c] # -1 /\ leftAt[c] = -1
             /\ joinedAt[c] \in 0..Len(log) /\ Len(log) \in 0..Len(log)
             /\ Owed(c) = OnlyIn(SubSeq(log, joinedAt[c] + 1, Len(log)), Mine(c))
             /\ SubSeq(log, joinedAt[c] + 1, Len(log)) \in Seq(RoomEvents)
  <2>1. joinedAt[c] # -1 /\ leftAt[c] = -1
    BY <1>3, <1>6
  <2>2. joinedAt[c] \in 0..Len(log) /\ Len(log) \in 0..Len(log)
    BY <1>1, <1>3, <2>1
  <2>3. Owed(c) = OnlyIn(SubSeq(log, joinedAt[c] + 1, Len(log)), Mine(c))
    BY <2>1 DEF Owed
  <2>4. SubSeq(log, joinedAt[c] + 1, Len(log)) \in Seq(RoomEvents)
    BY <1>10, <2>2, Zenon
  <2>5. QED
    BY <2>1, <2>2, <2>3, <2>4
<1>7. ASSUME leftAt'[c] = Len(log), c \in clients PROVE Owed(c)' = Owed(c)
  <2>1. SubSeq(log', joinedAt[c] + 1, Len(log)) = SubSeq(log, joinedAt[c] + 1, Len(log))
    BY <1>10, <1>6, <1>7, Zenon
  <2>2. Owed(c)' = OnlyIn(SubSeq(log', joinedAt[c] + 1, Len(log)), Mine(c)')
    BY <1>1, <1>6, <1>7 DEF Owed
  <2>3. QED
    BY <1>4, <1>6, <1>7, <2>1, <2>2
<1>8. ASSUME leftAt'[c] = leftAt[c], c \in clients
      PROVE  Owed(c)' = IF e \in Mine(c) THEN Append(Owed(c), e) ELSE Owed(c)
  <2>1. SubSeq(log', joinedAt[c] + 1, Len(log) + 1)
          = Append(SubSeq(log, joinedAt[c] + 1, Len(log)), e)
    BY <1>10, <1>6, <1>8, Zenon
  <2>2. Owed(c)' = OnlyIn(SubSeq(log', joinedAt[c] + 1, Len(log) + 1), Mine(c)')
    BY <1>2, <1>6, <1>8 DEF Owed
  <2>3. OnlyIn(Append(SubSeq(log, joinedAt[c] + 1, Len(log)), e), Mine(c))
          = IF e \in Mine(c)
              THEN Append(OnlyIn(SubSeq(log, joinedAt[c] + 1, Len(log)), Mine(c)), e)
              ELSE OnlyIn(SubSeq(log, joinedAt[c] + 1, Len(log)), Mine(c))
    BY <1>10, <1>6, <1>8, <1>11, Zenon
  <2>4. QED
    BY <1>4, <1>6, <1>8, <2>1, <2>2, <2>3
<1>9. QED
  BY <1>5, <1>7, <1>8

\* To who has just come nothing was owed, and the event he is announced with
\* is for him.
LEMMA OwedToNew ==
    ASSUME Inv, NEW c \in Conns, NEW e \in RoomEvents, log' = Append(log, e),
           joinedAt[c] = -1, joinedAt'[c] = Len(log)
    PROVE  /\ Owed(c) = <<>>
           /\ leftAt'[c] = -1 => Owed(c)' = IF e \in Mine(c) THEN <<e>> ELSE <<>>
           /\ leftAt'[c] = Len(log) => Owed(c)' = <<>>
<1>1. log \in Seq(RoomEvents) /\ Len(log) \in Nat /\ Len(log) # -1 /\ Len(log) \in 0..Len(log)
  BY LenProperties DEF Inv, TypeOK
<1>2. Len(log') = Len(log) + 1
  BY <1>1, AppendProperties
<1>3. Mine(c)' = Mine(c)
  BY DEF Mine
<1>10. /\ \A j, u \in 0..Len(log) :
            /\ SubSeq(log', j + 1, u) = SubSeq(log, j + 1, u)
            /\ SubSeq(log', j + 1, Len(log) + 1) = Append(SubSeq(log, j + 1, Len(log)), e)
            /\ SubSeq(log, j + 1, u) \in Seq(RoomEvents)
       /\ \A s \in Seq(RoomEvents), K \in SUBSET RoomEvents :
            OnlyIn(Append(s, e), K)
              = IF e \in K THEN Append(OnlyIn(s, K), e) ELSE OnlyIn(s, K)
  BY <1>1, LogGrew, Zenon
<1>11. Mine(c) \in SUBSET RoomEvents
  BY DEF Mine
<1>4. Owed(c) = <<>>
  BY DEF Owed
<1>5. SubSeq(log, Len(log) + 1, Len(log)) = <<>>
  BY <1>1, SubSeqEmpty
<1>6. ASSUME leftAt'[c] = -1 PROVE Owed(c)' = IF e \in Mine(c) THEN <<e>> ELSE <<>>
  <2>1. SubSeq(log', Len(log) + 1, Len(log) + 1) = Append(<<>>, e)
    BY <1>1, <1>5, <1>10, Zenon
  <2>2. Owed(c)' = OnlyIn(Append(<<>>, e), Mine(c))
    BY <1>1, <1>2, <1>3, <1>6, <2>1 DEF Owed
  <2>3. <<>> \in Seq(RoomEvents) /\ Append(<<>>, e) = <<e>>
    BY EmptySeq
  <2>4. OnlyIn(Append(<<>>, e), Mine(c))
          = IF e \in Mine(c) THEN Append(OnlyIn(<<>>, Mine(c)), e) ELSE OnlyIn(<<>>, Mine(c))
    BY <1>10, <1>11, <2>3, Zenon
  <2>5. OnlyIn(<<>>, Mine(c)) = <<>>
    BY OnlyInEmpty
  <2>6. QED
    BY <2>2, <2>3, <2>4, <2>5, Zenon
<1>7. ASSUME leftAt'[c] = Len(log) PROVE Owed(c)' = <<>>
  <2>1. SubSeq(log', Len(log) + 1, Len(log)) = <<>>
    BY <1>1, SubSeqEmpty
  <2>2. Owed(c)' = OnlyIn(<<>>, Mine(c))
    BY <1>1, <1>3, <1>7, <2>1 DEF Owed
  <2>3. QED
    BY <2>2, OnlyInEmpty
<1>8. QED
  BY <1>4, <1>6, <1>7

\* What is given to a client whose peer is sent nothing grows by what is put on
\* its Send, if that is an event of the room.
LEMMA GivenFacts ==
    ASSUME Inv, NEW c \in Conns, received'[c] = received[c]
    PROVE  /\ send'[c] = send[c] => Given(c)' = Given(c)
           /\ \A e \in Messages : send'[c] = Append(send[c], e) =>
                Given(c)' = IF e \in RoomEvents THEN Append(Given(c), e) ELSE Given(c)
<1>1. received[c] \in Seq(Messages) /\ send[c] \in Seq(Messages)
  BY DEF Inv, TypeOK
<1>2. Given(c)' = OnlyIn(received[c] \o send'[c], RoomEvents)
  BY DEF Given
<1>3. ASSUME NEW e \in Messages, send'[c] = Append(send[c], e)
      PROVE  Given(c)' = IF e \in RoomEvents THEN Append(Given(c), e) ELSE Given(c)
  <2> DEFINE r == received[c]
             s == send[c]
  <2>0. r \in Seq(Messages) /\ s \in Seq(Messages) /\ e \in Messages
    BY <1>1, <1>3
  <2> HIDE DEF r, s
  <2>1. r \o Append(s, e) = Append(r \o s, e)
    BY <2>0, AppendToConcat
  <2>2. r \o s \in Seq(Messages)
    BY <2>0, ConcatProperties
  <2>3. OnlyIn(Append(r \o s, e), RoomEvents)
          = IF e \in RoomEvents THEN Append(OnlyIn(r \o s, RoomEvents), e)
                                ELSE OnlyIn(r \o s, RoomEvents)
    BY <2>0, <2>2, OnlyInAppend
  <2>4. QED
    BY <1>2, <1>3, <2>1, <2>3 DEF Given, r, s
<1>4. QED
  BY <1>2, <1>3 DEF Given

\* broadcastLocal, client by client: a member is given the event, or is not to
\* have it, or is cut off.
LEMMA BroadcastLocalClient ==
    ASSUME TypeOK, NEW msg \in RoomEvents,
           NEW members \in SUBSET Conns, NEW gone \in SUBSET Conns, members \cap gone = {},
           BroadcastLocal(msg, members, gone), NEW c \in Conns
    PROVE  /\ c \in members =>
                \/ /\ c \in clients' /\ leftAt'[c] = leftAt[c]
                   /\ msg \in Mine(c) /\ send'[c] = Append(send[c], msg)
                \/ /\ c \in clients' /\ leftAt'[c] = leftAt[c]
                   /\ msg \notin Mine(c) /\ send'[c] = send[c]
                \/ c \notin clients' /\ leftAt'[c] = Len(log) /\ send'[c] = send[c]
           /\ c \in gone =>
                c \notin clients' /\ leftAt'[c] = Len(log) /\ send'[c] = send[c]
           /\ c \notin members \cup gone =>
                c \notin clients' /\ leftAt'[c] = leftAt[c] /\ send'[c] = send[c]
<1> DEFINE to == {d \in members : ~(msg.ev = "TYPING" /\ UserOf[d] = msg.user)}
           slow == {d \in to : Len(send[d]) >= SendCap}
<1>1. /\ send' = [d \in Conns |-> IF d \in to \ slow THEN Append(send[d], msg) ELSE send[d]]
      /\ clients' = members \ slow
      /\ leftAt' = [d \in Conns |-> IF d \in slow \cup gone THEN Len(log) ELSE leftAt[d]]
  BY DEF BroadcastLocal
<1>2. slow \subseteq to /\ to \subseteq members
  OBVIOUS
<1>3. c \in members => (c \in to <=> msg \in Mine(c))
  BY DEF Mine
<1> HIDE DEF to, slow
<1>4. /\ send'[c] = IF c \in to \ slow THEN Append(send[c], msg) ELSE send[c]
      /\ leftAt'[c] = IF c \in slow \cup gone THEN Len(log) ELSE leftAt[c]
      /\ c \in clients' <=> c \in members \ slow
  BY <1>1
<1>5. QED
  BY <1>2, <1>3, <1>4

\* broadcastLocal for the room: some come, some are cut off, and one event is
\* published.
LEMMA BroadcastLocalIsChange ==
    ASSUME Inv, Marks, NEW msg \in RoomEvents,
           NEW new \in SUBSET Conns, NEW members \in SUBSET Conns, NEW gone \in SUBSET Conns,
           BroadcastLocal(msg, members, gone),
           members \cup gone = clients \cup new,
           \A c \in new : joinedAt[c] = -1,
           joinedAt' = [c \in Conns |-> IF c \in new THEN Len(log) ELSE joinedAt[c]],
           received' = received
    PROVE  \E out \in SUBSET Conns : Channel!Change(new, out)
<1> DEFINE to == {d \in members : ~(msg.ev = "TYPING" /\ UserOf[d] = msg.user)}
           slow == {d \in to : Len(send[d]) >= SendCap}
           out == slow \cup gone
<1>1. /\ leftAt' = [d \in Conns |-> IF d \in out THEN Len(log) ELSE leftAt[d]]
      /\ log' = Append(log, msg)
  BY DEF BroadcastLocal
<1>2. out \subseteq clients \cup new
  OBVIOUS
<1>3. out \in SUBSET Conns
  OBVIOUS
<1> HIDE DEF out
<1>4. \A c \in out : leftAt[c] = -1 /\ (joinedAt[c] # -1 \/ c \in new)
  BY <1>2, <1>3 DEF Marks
<1>5. UNCHANGED [c \in Conns |-> OnlyIn(received[c], RoomEvents)]
  OBVIOUS
<1>6. Channel!Change(new, out)
  BY <1>1, <1>4, <1>5 DEF Channel!Change
<1>7. QED
  BY <1>3, <1>6

\* It keeps the marks, and gives what it owes.
LEMMA BroadcastLocalGives ==
    ASSUME Inv, Marks, NoGap, NEW msg \in RoomEvents,
           NEW new \in SUBSET Conns, NEW members \in SUBSET Conns, NEW gone \in SUBSET Conns,
           BroadcastLocal(msg, members, gone),
           members \cup gone = clients \cup new, members \cap gone = {}, new \subseteq members,
           \A c \in new : joinedAt[c] = -1,
           joinedAt' = [c \in Conns |-> IF c \in new THEN Len(log) ELSE joinedAt[c]],
           received' = received,
           NEW c \in Conns
    PROVE  /\ joinedAt'[c] \in -1..Len(log') /\ leftAt'[c] \in -1..Len(log')
           /\ leftAt'[c] # -1 => joinedAt'[c] # -1
           /\ c \in clients' <=> joinedAt'[c] # -1 /\ leftAt'[c] = -1
           /\ Given(c)' = Owed(c)'
<1>1. /\ log' = Append(log, msg) /\ Len(log') = Len(log) + 1
      /\ Len(log) \in Nat /\ Len(log) # -1
  <2>1. log \in Seq(RoomEvents)
    BY DEF Inv, TypeOK
  <2>2. log' = Append(log, msg)
    BY DEF BroadcastLocal
  <2>3. QED
    BY <2>1, <2>2, AppendProperties, LenProperties
<1>2. /\ joinedAt[c] \in -1..Len(log) /\ leftAt[c] \in -1..Len(log)
      /\ leftAt[c] # -1 => joinedAt[c] # -1
      /\ c \in clients <=> joinedAt[c] # -1 /\ leftAt[c] = -1
      /\ Given(c) = Owed(c)
  BY DEF Marks, NoGap
<1>3. joinedAt'[c] = IF c \in new THEN Len(log) ELSE joinedAt[c]
  OBVIOUS
<1>4. /\ c \in members =>
           \/ /\ c \in clients' /\ leftAt'[c] = leftAt[c]
              /\ msg \in Mine(c) /\ send'[c] = Append(send[c], msg)
           \/ /\ c \in clients' /\ leftAt'[c] = leftAt[c]
              /\ msg \notin Mine(c) /\ send'[c] = send[c]
           \/ c \notin clients' /\ leftAt'[c] = Len(log) /\ send'[c] = send[c]
      /\ c \in gone => c \notin clients' /\ leftAt'[c] = Len(log) /\ send'[c] = send[c]
      /\ c \notin members \cup gone =>
           c \notin clients' /\ leftAt'[c] = leftAt[c] /\ send'[c] = send[c]
  BY BroadcastLocalClient DEF Inv
<1>5. c \in new => c \in members /\ joinedAt[c] = -1 /\ c \notin clients /\ leftAt[c] = -1
  BY <1>2
<1>6. c \notin new => (c \in members \cup gone <=> c \in clients)
  OBVIOUS
<1>7. /\ send'[c] = send[c] => Given(c)' = Given(c)
      /\ send'[c] = Append(send[c], msg) => Given(c)' = Append(Given(c), msg)
  BY HistoryFacts, GivenFacts
<1>8. /\ joinedAt'[c] \in -1..Len(log') /\ leftAt'[c] \in -1..Len(log')
      /\ leftAt'[c] # -1 => joinedAt'[c] # -1
      /\ c \in clients' <=> joinedAt'[c] # -1 /\ leftAt'[c] = -1
  <2>1. joinedAt'[c] \in -1..Len(log')
    BY <1>1, <1>2, <1>3
  <2>2. leftAt'[c] = leftAt[c] \/ leftAt'[c] = Len(log)
    BY <1>4
  <2>3. leftAt'[c] \in -1..Len(log')
    BY <1>1, <1>2, <2>2
  <2>4. QED
    BY <1>1, <1>2, <1>3, <1>4, <1>5, <1>6, <2>1, <2>3
<1>9. Given(c)' = Owed(c)'
  <2>1. CASE c \in new
    <3>1. /\ Owed(c) = <<>>
          /\ leftAt'[c] = -1 => Owed(c)' = IF msg \in Mine(c) THEN <<msg>> ELSE <<>>
          /\ leftAt'[c] = Len(log) => Owed(c)' = <<>>
      BY <1>1, <1>3, <1>5, <2>1, OwedToNew
    <3>2. Append(<<>>, msg) = <<msg>>
      OBVIOUS
    <3>3. Given(c) = <<>>
      BY <1>2, <3>1
    <3>4. CASE /\ leftAt'[c] = leftAt[c] /\ msg \in Mine(c) /\ send'[c] = Append(send[c], msg)
      <4>1. Owed(c)' = <<msg>>
        BY <1>5, <2>1, <3>1, <3>4
      <4>2. Given(c)' = Append(Given(c), msg)
        BY <1>7, <3>4
      <4>3. QED
        BY <3>2, <3>3, <4>1, <4>2, Zenon
    <3>5. CASE leftAt'[c] = leftAt[c] /\ msg \notin Mine(c) /\ send'[c] = send[c]
      BY <1>5, <1>7, <2>1, <3>1, <3>3, <3>5
    <3>6. CASE leftAt'[c] = Len(log) /\ send'[c] = send[c]
      BY <1>7, <3>1, <3>3, <3>6
    <3>7. QED
      BY <1>4, <1>5, <2>1, <3>4, <3>5, <3>6
  <2>2. CASE c \notin new
    <3>1. joinedAt'[c] = joinedAt[c]
      BY <1>3, <2>2
    <3>2. /\ leftAt'[c] = leftAt[c] /\ c \notin clients => Owed(c)' = Owed(c)
          /\ leftAt'[c] = Len(log) /\ c \in clients => Owed(c)' = Owed(c)
          /\ leftAt'[c] = leftAt[c] /\ c \in clients
               => Owed(c)' = IF msg \in Mine(c) THEN Append(Owed(c), msg) ELSE Owed(c)
      BY <1>1, <3>1, OwedFacts
    <3>3. QED
      BY <1>2, <1>4, <1>6, <1>7, <2>2, <3>2
  <2>3. QED
    BY <2>1, <2>2
<1>10. QED
  BY <1>8, <1>9

\* Clients that are cut off without an event: a tab of several that goes, all
\* when the hub stops.
LEMMA CutOff ==
    ASSUME Inv, Marks, NoGap, NEW out \in SUBSET clients, clients' = clients \ out,
           leftAt' = [c \in Conns |-> IF c \in out THEN Len(log) ELSE leftAt[c]],
           UNCHANGED <<log, joinedAt, send, received>>
    PROVE  /\ \A c \in Conns :
                /\ joinedAt'[c] \in -1..Len(log') /\ leftAt'[c] \in -1..Len(log')
                /\ leftAt'[c] # -1 => joinedAt'[c] # -1
                /\ c \in clients' <=> joinedAt'[c] # -1 /\ leftAt'[c] = -1
           /\ NoGap'
           /\ Channel!Change({}, out)
<1>1. Len(log) \in Nat /\ Len(log) # -1 /\ clients \subseteq Conns
  BY LenProperties DEF Inv, TypeOK
<1>2. ASSUME NEW c \in Conns
      PROVE  /\ joinedAt'[c] \in -1..Len(log') /\ leftAt'[c] \in -1..Len(log')
             /\ leftAt'[c] # -1 => joinedAt'[c] # -1
             /\ c \in clients' <=> joinedAt'[c] # -1 /\ leftAt'[c] = -1
             /\ Given(c)' = Owed(c)'
  <2>1. /\ joinedAt[c] \in -1..Len(log) /\ leftAt[c] \in -1..Len(log)
        /\ leftAt[c] # -1 => joinedAt[c] # -1
        /\ c \in clients <=> joinedAt[c] # -1 /\ leftAt[c] = -1
        /\ Given(c) = Owed(c)
    BY DEF Marks, NoGap
  <2>2. leftAt'[c] = IF c \in out THEN Len(log) ELSE leftAt[c]
    OBVIOUS
  <2>3. Given(c)' = Given(c)
    BY DEF Given
  <2>4. Mine(c)' = Mine(c)
    BY DEF Mine
  <2>5. Owed(c)' = Owed(c)
    <3>1. CASE c \in out
      <4>1. joinedAt[c] # -1 /\ leftAt[c] = -1 /\ leftAt'[c] = Len(log)
        BY <2>1, <2>2, <3>1
      <4>2. QED
        BY <1>1, <2>4, <4>1 DEF Owed
    <3>2. CASE c \notin out
      BY <2>2, <2>4, <3>2 DEF Owed
    <3>3. QED
      BY <3>1, <3>2
  <2>6. leftAt'[c] \in -1..Len(log)
    BY <1>1, <2>1, <2>2
  <2>7. leftAt'[c] # -1 => joinedAt[c] # -1
    BY <2>1, <2>2
  <2>8. c \in clients' <=> joinedAt[c] # -1 /\ leftAt'[c] = -1
    BY <1>1, <2>1, <2>2
  <2>9. QED
    BY <2>1, <2>3, <2>5, <2>6, <2>7, <2>8
<1>3. Channel!Change({}, out)
  <2>1. \A c \in out : leftAt[c] = -1 /\ joinedAt[c] # -1
    BY <1>1 DEF Marks
  <2>2. UNCHANGED [c \in Conns |-> OnlyIn(received[c], RoomEvents)]
    OBVIOUS
  <2>3. joinedAt' = [c \in Conns |-> IF c \in {} THEN Len(log) ELSE joinedAt[c]]
    BY DEF Inv, TypeOK
  <2>4. QED
    BY <2>1, <2>2, <2>3 DEF Channel!Change
<1>4. QED
  BY <1>2, <1>3 DEF NoGap

\* The steps of the hub, and of who closes it.
LEMMA HubImplements ==
    ASSUME Inv, Marks, NoGap, \/ Broadcast \/ CloseStop \/ Stop
                              \/ \E c \in Conns : Register(c) \/ Unregister(c)
    PROVE  /\ Marks' /\ NoGap'
           /\ \/ UNCHANGED Channel!channelVars
              \/ \E in, out \in SUBSET Conns : Channel!Change(in, out)
<1> DEFINE MarksOf(c) ==
             /\ joinedAt[c] \in -1..Len(log) /\ leftAt[c] \in -1..Len(log)
             /\ leftAt[c] # -1 => joinedAt[c] # -1
             /\ c \in clients <=> joinedAt[c] # -1 /\ leftAt[c] = -1
<1>0. /\ clients \in SUBSET Conns /\ {} \in SUBSET Conns
      /\ joinedAt \in [Conns -> Int] /\ leftAt \in [Conns -> Int]
      /\ conn \in [Conns -> {"new", "registering", "reading", "offering",
                             "leaving", "unregistering", "gone"}]
  BY DEF Inv, TypeOK
<1>1. CASE Broadcast
  <2>1. /\ broadcast # <<>> /\ BroadcastLocal(Head(broadcast), clients, {})
        /\ UNCHANGED <<joinedAt, conn, received>>
    BY <1>1 DEF Broadcast
  <2>2. Head(broadcast) \in RoomEvents
    BY <2>1, HeadTailProperties DEF Inv, TypeOK
  <2>3. joinedAt' = [c \in Conns |-> IF c \in {} THEN Len(log) ELSE joinedAt[c]]
    BY <1>0, <2>1
  <2>4. clients \cup {} = clients \cup {} /\ clients \cap {} = {} /\ {} \subseteq clients
    OBVIOUS
  <2>5. \A c \in Conns : MarksOf(c)' /\ Given(c)' = Owed(c)'
    BY <1>0, <2>1, <2>2, <2>3, <2>4, BroadcastLocalGives
  <2>6. \E out \in SUBSET Conns : Channel!Change({}, out)
    BY <1>0, <2>1, <2>2, <2>3, <2>4, BroadcastLocalIsChange
  <2>7. Marks' /\ NoGap'
    BY <2>1, <2>5 DEF Marks, NoGap
  <2>8. QED
    BY <1>0, <2>6, <2>7
<1>2. CASE CloseStop
  <2>1. UNCHANGED <<clients, log, joinedAt, leftAt, conn, send, received>>
    BY <1>2 DEF CloseStop
  <2>2. Marks' /\ NoGap'
    BY <2>1 DEF Marks, NoGap, Given, Owed, Mine
  <2>3. UNCHANGED Channel!channelVars
    BY <2>1 DEF Channel!channelVars
  <2>4. QED
    BY <2>2, <2>3
<1>3. CASE Stop
  <2>1. /\ clients' = {}
        /\ leftAt' = [c \in Conns |-> IF c \in clients THEN Len(log) ELSE leftAt[c]]
        /\ UNCHANGED <<log, joinedAt, conn, send, received>>
    BY <1>3 DEF Stop
  <2>2. clients \in SUBSET clients /\ clients' = clients \ clients
    BY <2>1
  <2>3. (\A c \in Conns : MarksOf(c)') /\ NoGap' /\ Channel!Change({}, clients)
    BY <2>1, <2>2, CutOff
  <2>4. Marks'
    BY <2>1, <2>3 DEF Marks
  <2>5. QED
    BY <1>0, <2>3, <2>4
<1>4. ASSUME NEW d \in Conns, Register(d)
      PROVE  /\ Marks' /\ NoGap'
             /\ \E in, out \in SUBSET Conns : Channel!Change(in, out)
  <2>1. /\ conn[d] = "registering" /\ conn' = [conn EXCEPT ![d] = "reading"]
        /\ joinedAt' = [joinedAt EXCEPT ![d] = Len(log)]
        /\ BroadcastLocal(Presence(d, "online"), clients \cup {d}, {})
        /\ received' = received
    BY <1>4 DEF Register
  <2>2. Presence(d, "online") \in RoomEvents
    BY EventFacts
  <2>3. joinedAt' = [c \in Conns |-> IF c \in {d} THEN Len(log) ELSE joinedAt[c]]
    BY <1>0, <2>1
  <2>4. /\ {d} \in SUBSET Conns /\ clients \cup {d} \in SUBSET Conns
        /\ (clients \cup {d}) \cup {} = clients \cup {d}
        /\ (clients \cup {d}) \cap {} = {} /\ {d} \subseteq clients \cup {d}
    BY <1>0
  <2>5. \A c \in {d} : joinedAt[c] = -1
    BY <2>1 DEF Marks
  <2>6. \A c \in Conns : MarksOf(c)' /\ Given(c)' = Owed(c)'
    <3>1. /\ BroadcastLocal(Presence(d, "online"), clients \cup {d}, {})
          /\ received' = received
      BY <2>1
    <3>2. {} \in SUBSET Conns
      OBVIOUS
    <3> HIDE DEF MarksOf
    <3>3. QED
      BY <2>2, <2>3, <2>4, <2>5, <3>1, <3>2, BroadcastLocalGives DEF MarksOf
  <2>7. \E out \in SUBSET Conns : Channel!Change({d}, out)
    BY <1>0, <2>1, <2>2, <2>3, <2>4, <2>5, BroadcastLocalIsChange
  <2>8. \A c \in Conns : conn'[c] \in {"new", "registering"} => joinedAt'[c] = -1
    BY <1>0, <2>1 DEF Marks
  <2>9. Marks' /\ NoGap'
    BY <2>6, <2>8 DEF Marks, NoGap
  <2>10. QED
    BY <2>4, <2>7, <2>9
<1>5. ASSUME NEW d \in Conns, Unregister(d)
      PROVE  /\ Marks' /\ NoGap'
             /\ \E in, out \in SUBSET Conns : Channel!Change(in, out)
  <2> DEFINE rest == clients \ {d}
             out == clients \cap {d}
  <2>1. /\ conn[d] = "unregistering" /\ conn' = [conn EXCEPT ![d] = "gone"]
        /\ UNCHANGED <<joinedAt, received>>
    BY <1>5 DEF Unregister
  <2>2. \A c \in Conns : conn'[c] \in {"new", "registering"} => joinedAt'[c] = -1
    BY <1>0, <2>1 DEF Marks
  <2>3. CASE \E o \in rest : UserOf[o] = UserOf[d]
    <3>1. /\ clients' = rest
          /\ leftAt' = [leftAt EXCEPT ![d] = IF d \in clients THEN Len(log) ELSE @]
          /\ UNCHANGED <<send, log>>
      BY <1>5, <2>3 DEF Unregister
    <3>2. /\ leftAt' = [c \in Conns |-> IF c \in out THEN Len(log) ELSE leftAt[c]]
          /\ clients' = clients \ out /\ out \in SUBSET clients
      BY <1>0, <3>1
    <3>3. (\A c \in Conns : MarksOf(c)') /\ NoGap' /\ Channel!Change({}, out)
      <4> HIDE DEF out
      <4>1. QED
        BY <2>1, <3>1, <3>2, CutOff
    <3>4. Marks'
      BY <2>2, <3>3 DEF Marks
    <3>5. QED
      BY <1>0, <3>3, <3>4
  <2>4. CASE ~\E o \in rest : UserOf[o] = UserOf[d]
    <3>1. BroadcastLocal(Presence(d, "offline"), rest, out)
      BY <1>5, <2>4 DEF Unregister
    <3>2. Presence(d, "offline") \in RoomEvents
      BY EventFacts
    <3>3. joinedAt' = [c \in Conns |-> IF c \in {} THEN Len(log) ELSE joinedAt[c]]
      BY <1>0, <2>1
    <3>4. /\ rest \in SUBSET Conns /\ out \in SUBSET Conns
          /\ rest \cup out = clients \cup {} /\ rest \cap out = {} /\ {} \subseteq rest
      BY <1>0
    <3> HIDE DEF rest, out
    <3>5. \A c \in Conns : MarksOf(c)' /\ Given(c)' = Owed(c)'
      BY <1>0, <2>1, <3>1, <3>2, <3>3, <3>4, BroadcastLocalGives
    <3>6. \E o \in SUBSET Conns : Channel!Change({}, o)
      BY <1>0, <2>1, <3>1, <3>2, <3>3, <3>4, BroadcastLocalIsChange
    <3>7. Marks' /\ NoGap'
      BY <2>2, <3>5 DEF Marks, NoGap
    <3>8. QED
      BY <1>0, <3>6, <3>7
  <2>5. QED
    BY <2>3, <2>4
<1>6. QED
  BY <1>1, <1>2, <1>3, <1>4, <1>5

\* The steps of a connection's handler, and the end of its writePump: what is
\* queued by them is history or a warning.
LEMMA HandlerImplements ==
    ASSUME Inv, Marks, NoGap, NEW d \in Conns,
           \/ Enter(d) \/ ReadMsg(d) \/ ReadTyping(d) \/ ReadRefused(d)
           \/ Offer(d) \/ OfferStopped(d) \/ ReadEnds(d) \/ SayClose(d) \/ SkipUnregister(d)
           \/ PumpCloses(d) \/ PumpFails(d)
    PROVE  Marks' /\ NoGap' /\ UNCHANGED Channel!channelVars
<1>0. /\ send \in [Conns -> Seq(Messages)] /\ received \in [Conns -> Seq(Messages)]
      /\ conn \in [Conns -> {"new", "registering", "reading", "offering",
                             "leaving", "unregistering", "gone"}]
  BY DEF Inv, TypeOK
<1>1. UNCHANGED <<clients, log, joinedAt, leftAt, received>>
  BY DEF Enter, ReadMsg, ReadTyping, ReadRefused, Offer, OfferStopped, ReadEnds, SayClose,
         SkipUnregister, PumpCloses, PumpFails, hubVars
<1>2. \A c \in Conns : conn'[c] \in {"new", "registering"} => conn[c] \in {"new", "registering"}
  BY <1>0 DEF Enter, ReadMsg, ReadTyping, ReadRefused, Offer, OfferStopped, ReadEnds,
              SayClose, SkipUnregister, PumpCloses, PumpFails
<1>3. Marks'
  BY <1>1, <1>2 DEF Marks
<1>4. UNCHANGED Channel!channelVars
  BY <1>1 DEF Channel!channelVars
<1>5. \A c \in Conns : Owed(c)' = Owed(c)
  BY <1>1 DEF Owed, Mine
<1>6. \A c \in Conns : send'[c] = send[c] => Given(c)' = Given(c)
  BY <1>1 DEF Given
<1>7. CASE Enter(d)
  <2>1. PICK n \in Nat :
          /\ send' = [send EXCEPT ![d] = [i \in 1..n |-> ChatLog(accepted[i])]]
          /\ [i \in 1..n |-> ChatLog(accepted[i])] \in Seq(Messages)
          /\ \A i \in 1..n : ChatLog(accepted[i]).ev = "CHATLOG"
    BY <1>7, EnterSends
  <2> DEFINE h == [i \in 1..n |-> ChatLog(accepted[i])]
  <2>2. \A i \in 1..n : h[i] \notin RoomEvents
    BY <2>1, HistoryFacts
  <2>3. h \in Seq(Messages) /\ Len(h) = n
    BY <2>1
  <2>4. send'[d] = h /\ \A c \in Conns \ {d} : send'[c] = send[c]
    BY <1>0, <2>1
  <2> HIDE DEF h
  <2>5. OnlyIn(h, RoomEvents) = <<>>
    BY <2>2, <2>3, OnlyInNone
  <2>6. received[d] = <<>> /\ conn[d] = "new"
    BY <1>7 DEF Enter, Inv, Places
  <2>7. Given(d)' = <<>>
    <3>1. received'[d] \o send'[d] = h
      BY <1>1, <2>3, <2>4, <2>6, ConcatEmptySeq
    <3>2. QED
      BY <2>5, <3>1 DEF Given
  <2>8. Owed(d) = <<>>
    BY <2>6 DEF Marks, Owed
  <2>9. NoGap'
    BY <1>5, <1>6, <2>4, <2>7, <2>8 DEF NoGap
  <2>10. QED
    BY <1>3, <1>4, <2>9
<1>8. CASE ReadRefused(d)
  <2>1. send' = send \/ send' = [send EXCEPT ![d] = Append(@, Warn)]
    BY <1>8 DEF ReadRefused
  <2>2. \A c \in Conns : send'[c] = send[c] \/ send'[c] = Append(send[c], Warn)
    BY <1>0, <2>1
  <2>3. Warn \in Messages /\ Warn \notin RoomEvents
    <3>1. \A m \in RoomEvents : m.ev # "WARN"
      BY DEF RoomEvents, EventsOf, Msg, Typing, Presence, CloseMsg
    <3>2. QED
      BY <3>1, HistoryFacts
  <2>4. ASSUME NEW c \in Conns PROVE Given(c)' = Given(c)
    <3>1. received'[c] = received[c]
      BY <1>1
    <3>2. QED
      BY <2>2, <2>3, <3>1, GivenFacts
  <2>5. NoGap'
    BY <1>5, <2>4 DEF NoGap
  <2>6. QED
    BY <1>3, <1>4, <2>5
<1>9. CASE \/ ReadMsg(d) \/ ReadTyping(d) \/ Offer(d) \/ OfferStopped(d) \/ ReadEnds(d)
           \/ SayClose(d) \/ SkipUnregister(d) \/ PumpCloses(d) \/ PumpFails(d)
  <2>1. send' = send
    BY <1>9 DEF ReadMsg, ReadTyping, Offer, OfferStopped, ReadEnds, SayClose,
                SkipUnregister, PumpCloses, PumpFails
  <2>2. NoGap'
    BY <1>5, <1>6, <2>1 DEF NoGap
  <2>3. QED
    BY <1>3, <1>4, <2>2
<1>10. QED
  BY <1>7, <1>8, <1>9

\* What a client is owed is what RoomChannel says is due to it.
LEMMA DueIsOwed == ASSUME NEW c \in Conns PROVE Channel!Due(c, log) = Owed(c)
<1>1. \A s, K : Channel!OnlyIn(s, K) = OnlyIn(s, K)
  BY DEF Channel!OnlyIn, OnlyIn
<1>2. Channel!For(c) = Mine(c)
  BY DEF Channel!For, Mine
<1>3. QED
  BY <1>1, <1>2 DEF Channel!Due, Owed

\* writePump shows the next event due, or something that is not the room's.
LEMMA PumpImplements ==
    ASSUME Inv, Marks, NoGap, NEW d \in Conns, PumpWrites(d)
    PROVE  Marks' /\ NoGap' /\ (UNCHANGED Channel!channelVars \/ Channel!Show(d))
<1> DEFINE r == received[d]
           h == Head(send[d])
           t == Tail(send[d])
           v == OnlyIn(r, RoomEvents)
           w == OnlyIn(t, RoomEvents)
<1>0. send \in [Conns -> Seq(Messages)] /\ received \in [Conns -> Seq(Messages)]
  BY DEF Inv, TypeOK
<1>1. /\ send[d] # <<>>
      /\ received' = [received EXCEPT ![d] = Append(r, h)]
      /\ send' = [send EXCEPT ![d] = t]
      /\ UNCHANGED <<clients, log, joinedAt, leftAt, conn>>
  BY DEF PumpWrites, hubVars
<1>2. /\ r \in Seq(Messages) /\ h \in Messages /\ t \in Seq(Messages)
      /\ Append(r, h) \in Seq(Messages)
      /\ Append(r, h) \o t = r \o send[d]
  <2>1. r \in Seq(Messages) /\ send[d] \in Seq(Messages)
    BY <1>0
  <2>2. h \in Messages /\ t \in Seq(Messages)
    BY <1>1, <2>1, HeadTailProperties
  <2>3. Append(r, h) \in Seq(Messages)
    BY <2>1, <2>2, AppendProperties
  <2>4. Append(r, h) \o t = r \o send[d]
    BY <1>1, <2>1, WriteKeepsWhole
  <2>5. QED
    BY <2>1, <2>2, <2>3, <2>4
<1>3. /\ received'[d] = Append(r, h) /\ send'[d] = t
      /\ \A c \in Conns \ {d} : received'[c] = received[c] /\ send'[c] = send[c]
  BY <1>0, <1>1
<1>4. Marks'
  BY <1>1 DEF Marks
<1>5. NoGap'
  <2>1. \A c \in Conns : Owed(c)' = Owed(c)
    BY <1>1 DEF Owed, Mine
  <2>2. Given(d)' = Given(d)
    BY <1>2, <1>3 DEF Given
  <2>3. \A c \in Conns \ {d} : Given(c)' = Given(c)
    BY <1>3 DEF Given
  <2>4. QED
    BY <2>1, <2>2, <2>3 DEF NoGap
<1> HIDE DEF r, h, t
<1>6. OnlyIn(Append(r, h), RoomEvents) = IF h \in RoomEvents THEN Append(v, h) ELSE v
  BY <1>2, OnlyInAppend
<1>7. v \in Seq(Messages) /\ w \in Seq(Messages)
  BY <1>2, OnlyInType
<1>8. [c \in Conns |-> OnlyIn(received[c], RoomEvents)]'
        = [[c \in Conns |-> OnlyIn(received[c], RoomEvents)]
             EXCEPT ![d] = OnlyIn(Append(r, h), RoomEvents)]
  <2>1. \A c \in Conns : OnlyIn(received'[c], RoomEvents)
                           = IF c = d THEN OnlyIn(Append(r, h), RoomEvents)
                                      ELSE OnlyIn(received[c], RoomEvents)
    BY <1>3
  <2>2. QED
    BY <2>1
<1>9. OnlyIn(received[d], RoomEvents) = v
  BY DEF r
<1>10. CASE h \notin RoomEvents
  <2>1. [c \in Conns |-> OnlyIn(received[c], RoomEvents)]'
          = [c \in Conns |-> OnlyIn(received[c], RoomEvents)]
    BY <1>6, <1>8, <1>9, <1>10
  <2>2. UNCHANGED Channel!channelVars
    BY <1>1, <2>1 DEF Channel!channelVars
  <2>3. QED
    BY <1>4, <1>5, <2>2
<1>11. CASE h \in RoomEvents
  <2>1. Owed(d) = Append(v, h) \o w
    <3>1. Owed(d) = OnlyIn(Append(r, h) \o t, RoomEvents)
      BY <1>2 DEF NoGap, Given, r
    <3>2. OnlyIn(Append(r, h) \o t, RoomEvents)
            = OnlyIn(Append(r, h), RoomEvents) \o OnlyIn(t, RoomEvents)
      <4> DEFINE a == Append(r, h)
      <4>1. a \in Seq(Messages)
        BY <1>2
      <4> HIDE DEF a
      <4>2. OnlyIn(a \o t, RoomEvents) = OnlyIn(a, RoomEvents) \o OnlyIn(t, RoomEvents)
        BY <1>2, <4>1, OnlyInConcat
      <4>3. QED
        BY <4>2 DEF a
    <3>3. QED
      BY <1>6, <1>11, <3>1, <3>2
  <2> HIDE DEF v, w
  <2>2. Len(v) < Len(Owed(d)) /\ Owed(d)[Len(v) + 1] = h
    <3>1. /\ Append(v, h) \in Seq(Messages) /\ Len(Append(v, h)) = Len(v) + 1
          /\ Append(v, h)[Len(v) + 1] = h /\ Len(v) \in Nat /\ Len(w) \in Nat
      BY <1>2, <1>7, AppendProperties, LenProperties
    <3> DEFINE a == Append(v, h)
    <3> HIDE DEF a
    <3>2. a \in Seq(Messages) /\ Len(a) = Len(v) + 1 /\ a[Len(v) + 1] = h /\ Owed(d) = a \o w
      BY <2>1, <3>1 DEF a
    <3>3. /\ Len(a \o w) = Len(a) + Len(w)
          /\ \A i \in 1..(Len(a) + Len(w)) :
               (a \o w)[i] = IF i <= Len(a) THEN a[i] ELSE w[i - Len(a)]
      BY <1>7, <3>2, ConcatProperties
    <3>4. Len(v) + 1 \in 1..(Len(a) + Len(w)) /\ Len(v) + 1 <= Len(a)
      BY <3>1, <3>2
    <3>5. QED
      BY <3>1, <3>2, <3>3, <3>4
  <2>3. [c \in Conns |-> OnlyIn(received[c], RoomEvents)]'
          = [[c \in Conns |-> OnlyIn(received[c], RoomEvents)]
               EXCEPT ![d] = Append(v, Owed(d)[Len(v) + 1])]
    BY <1>6, <1>8, <1>11, <2>2 DEF v
  <2>4. Channel!Show(d)
    BY <1>1, <1>9, <2>2, <2>3, DueIsOwed DEF Channel!Show
  <2>5. QED
    BY <1>4, <1>5, <2>4
<1>12. QED
  BY <1>10, <1>11

\* Every step of the hub and its connections is one of the room, or none.
LEMMA ChannelStep ==
    Inv /\ Marks /\ NoGap /\ [Next]_vars
      => Marks' /\ NoGap' /\ [Channel!ChannelNext]_Channel!channelVars
<1> SUFFICES ASSUME Inv, Marks, NoGap, [Next]_vars
             PROVE  Marks' /\ NoGap' /\ [Channel!ChannelNext]_Channel!channelVars
  OBVIOUS
<1>1. CASE UNCHANGED vars
  <2>1. UNCHANGED <<clients, log, joinedAt, leftAt, conn, send, received>>
    BY <1>1 DEF vars
  <2>2. Marks' /\ NoGap' /\ UNCHANGED Channel!channelVars
    BY <2>1 DEF Marks, NoGap, Given, Owed, Mine, Channel!channelVars
  <2>3. QED
    BY <2>2
<1>2. CASE \/ Broadcast \/ CloseStop \/ Stop
           \/ \E c \in Conns : Register(c) \/ Unregister(c)
  BY <1>2, HubImplements DEF Channel!ChannelNext
<1>3. ASSUME NEW c \in Conns,
             \/ Enter(c) \/ ReadMsg(c) \/ ReadTyping(c) \/ ReadRefused(c)
             \/ Offer(c) \/ OfferStopped(c) \/ ReadEnds(c) \/ SayClose(c) \/ SkipUnregister(c)
             \/ PumpCloses(c) \/ PumpFails(c)
      PROVE  Marks' /\ NoGap' /\ [Channel!ChannelNext]_Channel!channelVars
  BY <1>3, HandlerImplements
<1>4. ASSUME NEW c \in Conns, PumpWrites(c)
      PROVE  Marks' /\ NoGap' /\ [Channel!ChannelNext]_Channel!channelVars
  BY <1>4, PumpImplements DEF Channel!ChannelNext
<1>5. QED
  BY <1>1, <1>2, <1>3, <1>4 DEF Next

\* And the first state is the room's.
LEMMA ChannelInitially == Init => Marks /\ NoGap /\ Channel!ChannelInit
<1> SUFFICES ASSUME Init PROVE Marks /\ NoGap /\ Channel!ChannelInit
  OBVIOUS
<1>1. OnlyIn(<<>>, RoomEvents) = <<>>
  BY OnlyInEmpty
<1>2. /\ log = <<>> /\ Len(log) = 0 /\ clients = {}
      /\ joinedAt = [c \in Conns |-> -1] /\ leftAt = [c \in Conns |-> -1]
      /\ received = [c \in Conns |-> <<>>] /\ send = [c \in Conns |-> <<>>]
  BY DEF Init
<1>3. Marks
  BY <1>2 DEF Marks
<1>4. NoGap
  <2>1. \A c \in Conns : received[c] \o send[c] = <<>>
    BY <1>2
  <2>2. \A c \in Conns : Given(c) = <<>>
    BY <1>1, <2>1 DEF Given
  <2>3. QED
    BY <1>2, <2>2 DEF NoGap, Owed
<1>5. [c \in Conns |-> OnlyIn(received[c], RoomEvents)] = [c \in Conns |-> <<>>]
  BY <1>1, <1>2
<1>6. QED
  BY <1>2, <1>3, <1>4, <1>5 DEF Channel!ChannelInit

\* The hub implements the room's promise, whatever the capacities: who is
\* listed is shown every event of the room in the room's order, and who cannot
\* follow is cut off and misses nothing of what came before.
THEOREM HubImplementsRoom == Spec => ImplementsChannel
<1>1. QED
  BY InvInit, InvStep, ChannelInitially, ChannelStep, PTL
  DEF Spec, ImplementsChannel, Channel!ChannelSpec

=============================================================================

----------------------------- MODULE HubFanout -----------------------------
(***************************************************************************)
(* One hub while it runs: the Broadcast channel, broadcastLocal with its   *)
(* evictions (server/handler/hub.go), and the two pumps of each client     *)
(* (ws_client.go), for a server without Redis, where every broadcast is    *)
(* local.  Messages keep what the delivery rules read: the event, the user *)
(* and an identity.                                                        *)
(***************************************************************************)
EXTENDS Integers, Sequences, FiniteSets, Filters

CONSTANTS
    Conns,
    Users,
    UserOf,        \* client.Username
    SendCap,       \* capacity of client.Send (256 in newClient)
    BroadcastCap,  \* capacity of hub.Broadcast (256 in NewHub)
    HistoryLimit,  \* limit of FindChatByRoom (100, less than SendCap)
    MaxSend        \* bound: MaxSend[c] messages are sent by the peer of c

ASSUME UserOfAssumption == UserOf \in [Conns -> Users]
ASSUME CapsAssumption ==
    /\ SendCap \in Nat /\ BroadcastCap \in Nat \ {0}
    /\ HistoryLimit \in Nat /\ HistoryLimit <= SendCap
    /\ MaxSend \in [Conns -> Nat]

VARIABLES
    hub,       \* "loop" or "exited"
    stop,      \* h.stop is closed
    clients,   \* h.Clients
    broadcast, \* h.Broadcast
    conn,      \* where the handler of each connection stands
    outbox,    \* the message a readPump or handler is offering to Broadcast
    sent,      \* number of messages the peer has sent
    send,      \* client.Send
    closed,    \* client.Send is closed
    pump,      \* writePump: "off", "on", "done"; done also means Conn is closed
    accepted,  \* MSG messages insertQueue took, in order
    log,       \* history: what broadcastLocal was called with, in order
    joinedAt,  \* history: Len(log) at registration, -1 before
    leftAt,    \* history: Len(log) when Send was closed after registration
    received   \* history: what the peer was sent

vars == <<hub, stop, clients, broadcast, conn, outbox, sent, send, closed,
          pump, accepted, log, joinedAt, leftAt, received>>

hubVars  == <<hub, stop, clients, broadcast, log, joinedAt, leftAt>>
peerVars == <<sent, accepted>>

---------------------------------------------------------------------------
\* The messages.
Msg(c, n)       == [ev |-> "MSG", user |-> UserOf[c], id |-> <<c, n>>]
Typing(c, n)    == [ev |-> "TYPING", user |-> UserOf[c], id |-> <<c, n>>]
Presence(c, s)  == [ev |-> "PRESENCE", user |-> UserOf[c], id |-> <<s>>]
CloseMsg(c)     == [ev |-> "CLOSE", user |-> UserOf[c], id |-> <<"close">>]
Warn            == [ev |-> "WARN", user |-> "system", id |-> <<"warn">>]
ChatLog(m)      == [m EXCEPT !.ev = "CHATLOG"]
NoMsg           == [ev |-> "none", user |-> "system", id |-> <<"none">>]

EventsOf(c) ==
    {Msg(c, n) : n \in 1..MaxSend[c]} \cup {Typing(c, n) : n \in 1..MaxSend[c]}
      \cup {Presence(c, s) : s \in {"online", "offline"}} \cup {CloseMsg(c)}

RoomEvents == UNION {EventsOf(c) : c \in Conns}

Messages == RoomEvents \cup {ChatLog(m) : m \in RoomEvents} \cup {Warn}

TypeOK ==
    /\ hub \in {"loop", "exited"}
    /\ stop \in BOOLEAN
    /\ clients \subseteq Conns
    /\ broadcast \in Seq(RoomEvents) /\ Len(broadcast) <= BroadcastCap
    /\ conn \in [Conns -> {"new", "registering", "reading", "offering",
                           "leaving", "unregistering", "gone"}]
    /\ outbox \in [Conns -> RoomEvents \cup {NoMsg}]
    /\ sent \in [Conns -> Nat]
    /\ \A c \in Conns : sent[c] <= MaxSend[c]
    /\ send \in [Conns -> Seq(Messages)]
    /\ \A c \in Conns : Len(send[c]) <= SendCap
    /\ closed \in [Conns -> BOOLEAN]
    /\ pump \in [Conns -> {"off", "on", "done"}]
    /\ accepted \in Seq(RoomEvents)
    /\ log \in Seq(RoomEvents)
    /\ joinedAt \in [Conns -> Int]
    /\ leftAt \in [Conns -> Int]
    /\ received \in [Conns -> Seq(Messages)]

Init ==
    /\ hub = "loop" /\ stop = FALSE
    /\ clients = {}
    /\ broadcast = <<>>
    /\ conn = [c \in Conns |-> "new"]
    /\ outbox = [c \in Conns |-> NoMsg]
    /\ sent = [c \in Conns |-> 0]
    /\ send = [c \in Conns |-> <<>>]
    /\ closed = [c \in Conns |-> FALSE]
    /\ pump = [c \in Conns |-> "off"]
    /\ accepted = <<>>
    /\ log = <<>>
    /\ joinedAt = [c \in Conns |-> -1]
    /\ leftAt = [c \in Conns |-> -1]
    /\ received = [c \in Conns |-> <<>>]

---------------------------------------------------------------------------
(* hub.Run.                                                                *)

\* Mutant: a full Send loses the message and the client stays.
BroadcastLocalLossy(msg, members, gone) ==
    LET to   == {c \in members : ~(msg.ev = "TYPING" /\ UserOf[c] = msg.user)}
        slow == {c \in to : Len(send[c]) >= SendCap}
    IN  /\ send' = [c \in Conns |-> IF c \in to \ slow THEN Append(send[c], msg) ELSE send[c]]
        /\ clients' = members
        /\ closed' = [c \in Conns |-> closed[c] \/ c \in gone]
        /\ leftAt' = [c \in Conns |-> IF c \in gone THEN Len(log) ELSE leftAt[c]]
        /\ log' = Append(log, msg)

\* broadcastLocal(msg) to the given members, after the clients in gone were
\* taken out: nobody gets his own user's typing; a client whose Send is full
\* is evicted, its Send closed.
BroadcastLocal(msg, members, gone) ==
    LET to   == {c \in members : ~(msg.ev = "TYPING" /\ UserOf[c] = msg.user)}
        slow == {c \in to : Len(send[c]) >= SendCap}
    IN  /\ send' = [c \in Conns |-> IF c \in to \ slow THEN Append(send[c], msg) ELSE send[c]]
        /\ clients' = members \ slow
        /\ closed' = [c \in Conns |-> closed[c] \/ c \in slow \cup gone]
        /\ leftAt' = [c \in Conns |-> IF c \in slow \cup gone THEN Len(log) ELSE leftAt[c]]
        /\ log' = Append(log, msg)

\* case client := <-h.Register, with its PRESENCE event.
Register(c) ==
    /\ hub = "loop"
    /\ conn[c] = "registering"
    /\ conn' = [conn EXCEPT ![c] = "reading"]
    /\ joinedAt' = [joinedAt EXCEPT ![c] = Len(log)]
    /\ BroadcastLocal(Presence(c, "online"), clients \cup {c}, {})
    /\ UNCHANGED <<hub, stop, broadcast, outbox, pump, received, peerVars>>

\* Mutant: the other tabs of the user are not counted.
UnregisterForgetsTabs(c) ==
    /\ hub = "loop"
    /\ conn[c] = "unregistering"
    /\ conn' = [conn EXCEPT ![c] = "gone"]
    /\ BroadcastLocal(Presence(c, "offline"), clients \ {c}, clients \cap {c})
    /\ UNCHANGED <<hub, stop, broadcast, joinedAt, outbox, pump, received, peerVars>>

\* case client := <-h.Unregister: a client still listed is deleted and its
\* Send closed; the user's last connection is announced, whether or not this
\* client was still listed.
Unregister(c) ==
    LET rest == clients \ {c} IN
    /\ hub = "loop"
    /\ conn[c] = "unregistering"
    /\ conn' = [conn EXCEPT ![c] = "gone"]
    /\ IF \E o \in rest : UserOf[o] = UserOf[c]
         THEN /\ clients' = rest
              /\ closed' = [closed EXCEPT ![c] = @ \/ c \in clients]
              /\ leftAt' = [leftAt EXCEPT ![c] = IF c \in clients THEN Len(log) ELSE @]
              /\ UNCHANGED <<send, log>>
         ELSE BroadcastLocal(Presence(c, "offline"), rest, clients \cap {c})
    /\ UNCHANGED <<hub, stop, broadcast, joinedAt, outbox, pump, received, peerVars>>

\* case msg := <-h.Broadcast.
Broadcast ==
    /\ hub = "loop"
    /\ broadcast # <<>>
    /\ broadcast' = Tail(broadcast)
    /\ BroadcastLocal(Head(broadcast), clients, {})
    /\ UNCHANGED <<hub, stop, joinedAt, conn, outbox, pump, received, peerVars>>

\* RemoveHub or ShutdownAll.
CloseStop ==
    /\ ~stop
    /\ stop' = TRUE
    /\ UNCHANGED <<hub, clients, broadcast, log, joinedAt, leftAt, conn, outbox,
                   send, closed, pump, received, peerVars>>

\* case <-h.stop: closeAllClients closes every Send and every connection.
Stop ==
    /\ hub = "loop"
    /\ stop
    /\ hub' = "exited"
    /\ clients' = {}
    /\ closed' = [c \in Conns |-> closed[c] \/ c \in clients]
    /\ leftAt' = [c \in Conns |-> IF c \in clients THEN Len(log) ELSE leftAt[c]]
    /\ pump' = [c \in Conns |-> IF c \in clients THEN "done" ELSE pump[c]]
    /\ UNCHANGED <<stop, broadcast, log, joinedAt, conn, outbox, send, received, peerVars>>

---------------------------------------------------------------------------
(* The handler of a connection.                                            *)

\* Mutant: the history is queued when the client has registered.
EnterLateHistory(c) ==
    \/ /\ conn[c] = "new"
       /\ conn' = [conn EXCEPT ![c] = "registering"]
       /\ pump' = [pump EXCEPT ![c] = "on"]
       /\ UNCHANGED <<hubVars, outbox, send, closed, received, peerVars>>
    \/ /\ conn[c] = "reading" /\ ~closed[c]
       /\ accepted # <<>> /\ Len(send[c]) < SendCap
       /\ send' = [send EXCEPT ![c] = Append(@, ChatLog(accepted[1]))]
       /\ UNCHANGED <<hubVars, conn, outbox, closed, pump, received, peerVars>>

\* FindChatByRoom (the oldest HistoryLimit messages) is queued to Send, and
\* writePump is started, before the client is offered to Register.
\* The insert workers have stored some prefix of what insertQueue took.
Enter(c) ==
    /\ conn[c] = "new"
    /\ conn' = [conn EXCEPT ![c] = "registering"]
    /\ \E k \in 0..Len(accepted) :
         LET n == IF k > HistoryLimit THEN HistoryLimit ELSE k IN
         send' = [send EXCEPT ![c] = [i \in 1..n |-> ChatLog(accepted[i])]]
    /\ pump' = [pump EXCEPT ![c] = "on"]
    /\ UNCHANGED <<hubVars, outbox, closed, received, peerVars>>

\* readPump accepts a MSG (also one buffered before Conn was closed):
\* insertQueue takes it, then it is offered to Broadcast.
ReadMsg(c) ==
    LET m == Msg(c, sent[c] + 1) IN
    /\ conn[c] = "reading"
    /\ sent[c] < MaxSend[c]
    /\ sent' = [sent EXCEPT ![c] = @ + 1]
    /\ accepted' = Append(accepted, m)
    /\ conn' = [conn EXCEPT ![c] = "offering"]
    /\ outbox' = [outbox EXCEPT ![c] = m]
    /\ UNCHANGED <<hubVars, send, closed, pump, received>>

ReadTyping(c) ==
    /\ conn[c] = "reading"
    /\ sent[c] < MaxSend[c]
    /\ sent' = [sent EXCEPT ![c] = @ + 1]
    /\ conn' = [conn EXCEPT ![c] = "offering"]
    /\ outbox' = [outbox EXCEPT ![c] = Typing(c, sent[c] + 1)]
    /\ UNCHANGED <<hubVars, accepted, send, closed, pump, received>>

\* Mutant: a refused message is warned about and broadcast all the same.
ReadRefusedFallsThrough(c) ==
    /\ conn[c] = "reading"
    /\ sent[c] < MaxSend[c]
    /\ sent' = [sent EXCEPT ![c] = @ + 1]
    /\ conn' = [conn EXCEPT ![c] = "offering"]
    /\ outbox' = [outbox EXCEPT ![c] = Msg(c, sent[c] + 1)]
    /\ UNCHANGED <<hubVars, accepted, send, closed, pump, received>>

\* readPump refuses a message (rate limit, length, insertQueue full for
\* insertTimeout) with a WARN put on Send if there is room.  On a closed Send
\* that panics: the deferred function runs and the handler ends.
ReadRefused(c) ==
    /\ conn[c] = "reading"
    /\ sent[c] < MaxSend[c]
    /\ sent' = [sent EXCEPT ![c] = @ + 1]
    /\ IF closed[c]
         THEN /\ conn' = [conn EXCEPT ![c] = "leaving"]
              /\ UNCHANGED send
         ELSE /\ send' = IF Len(send[c]) < SendCap
                           THEN [send EXCEPT ![c] = Append(@, Warn)] ELSE send
              /\ UNCHANGED conn
    /\ UNCHANGED <<hubVars, accepted, outbox, closed, pump, received>>

\* Mutant: the message is dropped when Broadcast is full.
OfferOrDrop(c) ==
    /\ conn[c] = "offering"
    /\ broadcast' = IF Len(broadcast) < BroadcastCap
                      THEN Append(broadcast, outbox[c]) ELSE broadcast
    /\ conn' = [conn EXCEPT ![c] = "reading"]
    /\ outbox' = [outbox EXCEPT ![c] = NoMsg]
    /\ UNCHANGED <<hub, stop, clients, log, joinedAt, leftAt, send, closed, pump,
                   received, peerVars>>

\* select in readPump: the message goes into Broadcast ...
Offer(c) ==
    /\ conn[c] = "offering"
    /\ Len(broadcast) < BroadcastCap
    /\ broadcast' = Append(broadcast, outbox[c])
    /\ conn' = [conn EXCEPT ![c] = "reading"]
    /\ outbox' = [outbox EXCEPT ![c] = NoMsg]
    /\ UNCHANGED <<hub, stop, clients, log, joinedAt, leftAt, send, closed, pump,
                   received, peerVars>>

\* ... or h.stop is closed and readPump returns, having stored the message
\* and never broadcast it.
OfferStopped(c) ==
    /\ conn[c] = "offering"
    /\ stop
    /\ conn' = [conn EXCEPT ![c] = "leaving"]
    /\ outbox' = [outbox EXCEPT ![c] = NoMsg]
    /\ UNCHANGED <<hubVars, send, closed, pump, received, peerVars>>

\* ReadJSON fails: the peer is gone or writePump closed the connection.
ReadEnds(c) ==
    /\ conn[c] = "reading"
    /\ conn' = [conn EXCEPT ![c] = "leaving"]
    /\ UNCHANGED <<hubVars, outbox, send, closed, pump, received, peerVars>>

\* Deferred function, first select: CLOSE is queued, or given up (h.stop is
\* closed or hubSendTimeout passes).
SayClose(c) ==
    /\ conn[c] = "leaving"
    /\ conn' = [conn EXCEPT ![c] = "unregistering"]
    /\ \/ /\ Len(broadcast) < BroadcastCap
          /\ broadcast' = Append(broadcast, CloseMsg(c))
       \/ UNCHANGED broadcast
    /\ UNCHANGED <<hub, stop, clients, log, joinedAt, leftAt, outbox, send, closed,
                   pump, received, peerVars>>

\* Second select: h.stop is closed or hubSendTimeout passes.
SkipUnregister(c) ==
    /\ conn[c] = "unregistering"
    /\ conn' = [conn EXCEPT ![c] = "gone"]
    /\ UNCHANGED <<hubVars, outbox, send, closed, pump, received, peerVars>>

---------------------------------------------------------------------------
(* writePump.  A closed channel still yields what was buffered in it.      *)

PumpWrites(c) ==
    /\ pump[c] = "on"
    /\ send[c] # <<>>
    /\ received' = [received EXCEPT ![c] = Append(@, Head(send[c]))]
    /\ send' = [send EXCEPT ![c] = Tail(@)]
    /\ UNCHANGED <<hubVars, conn, outbox, closed, pump, peerVars>>

\* Send is closed and drained: a close frame, and Conn.Close.
PumpCloses(c) ==
    /\ pump[c] = "on"
    /\ closed[c] /\ send[c] = <<>>
    /\ pump' = [pump EXCEPT ![c] = "done"]
    /\ UNCHANGED <<hubVars, conn, outbox, send, closed, received, peerVars>>

\* A write or a ping fails: the peer is gone.  The message in hand is lost.
PumpFails(c) ==
    /\ pump[c] = "on"
    /\ pump' = [pump EXCEPT ![c] = "done"]
    /\ UNCHANGED <<hubVars, conn, outbox, send, closed, received, peerVars>>

---------------------------------------------------------------------------
Next ==
    \/ Broadcast \/ CloseStop \/ Stop
    \/ \E c \in Conns :
         \/ Register(c) \/ Unregister(c)
         \/ Enter(c) \/ ReadMsg(c) \/ ReadTyping(c) \/ ReadRefused(c)
         \/ Offer(c) \/ OfferStopped(c) \/ ReadEnds(c) \/ SayClose(c) \/ SkipUnregister(c)
         \/ PumpWrites(c) \/ PumpCloses(c) \/ PumpFails(c)

Spec == Init /\ [][Next]_vars

\* Goroutines that are ready run, Go's select takes a case that stays ready,
\* and a sender blocked on a full channel is served in its turn.  Nothing is
\* assumed of the peers, of failing writes or of the removal of the hub.
Fairness ==
    /\ WF_vars(Broadcast)
    /\ \A c \in Conns : SF_vars(Offer(c)) /\ WF_vars(PumpWrites(c))

FairSpec == Spec /\ Fairness

---------------------------------------------------------------------------
(* Properties.                                                             *)

\* The hub implements the room's promise (RoomChannel): one order of events
\* for all, no gap for anybody, and slow clients cut off instead.  The view
\* of a client is what its peer was sent, history and warnings apart.
Channel == INSTANCE RoomChannel WITH
    Events <- RoomEvents,
    from   <- joinedAt,
    until  <- leftAt,
    view   <- [c \in Conns |-> OnlyIn(received[c], RoomEvents)]

ImplementsChannel == Channel!ChannelSpec

\* What the comment in RoomWebSocket promises: every message of the history
\* is ordered before any live event.
HistoryFirst ==
    \A c \in Conns :
        LET all == received[c] \o send[c] IN
        \A i, j \in DOMAIN all : all[i].ev = "CHATLOG" /\ all[j].ev # "CHATLOG" => i < j

\* Nobody is shown a message the server refused to store: what is broadcast
\* as MSG was taken by insertQueue before.
OnlyAcceptedIsBroadcast ==
    \A i \in DOMAIN log :
        log[i].ev = "MSG" => \E j \in DOMAIN accepted : accepted[j] = log[i]

\* A user with several tabs is not announced offline while one of them is
\* listed (#171): his last PRESENCE event says online.
OfflineMeansAbsent ==
    \A c \in clients :
        LET said == {i \in DOMAIN log : log[i].ev = "PRESENCE" /\ log[i].user = UserOf[c]}
        IN  \E i \in said : log[i].id = <<"online">> /\ \A j \in said : j <= i

\* A message that was accepted and not yet broadcast reaches every client
\* listed at that time, unless the client is cut off or the hub is stopped.
AcceptedIsShown ==
    \A c, s \in Conns : \A n \in 1..MaxSend[s] :
        LET m == Msg(s, n) IN
        (/\ c \in clients
         /\ \E i \in DOMAIN accepted : accepted[i] = m
         /\ ~\E i \in DOMAIN log : log[i] = m)
          ~> \/ \E i \in DOMAIN received[c] : received[c][i] = m
             \/ leftAt[c] # -1 \/ pump[c] = "done" \/ stop
=============================================================================

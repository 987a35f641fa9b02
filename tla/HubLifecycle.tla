--------------------------- MODULE HubLifecycle ---------------------------
(***************************************************************************)
(* The life of the room hubs (server/handler/hub.go, room_manager.go) and  *)
(* of the connection handlers that use them (ws_handler.go, ws_client.go), *)
(* against the handlers that delete rooms (room.go, admin.go) and the      *)
(* graceful shutdown of the server (cmd/serve.go).                         *)
(*                                                                         *)
(* A hub is named by the connection whose GetOrCreateHub call made it, so  *)
(* the set of hubs needs no bound of its own.  What the hub fans out, and  *)
(* which buffers are full, is the matter of HubFanout: here a broadcast    *)
(* evicts an arbitrary set of slow clients.                                *)
(***************************************************************************)
EXTENDS Naturals, FiniteSets

CONSTANTS
    Conns,       \* requests for a room's WebSocket, each served once
    Rooms,
    RoomOf,      \* the room each request names (":id" or the default room)
    Deletable,   \* rooms that are not the default room
    Deleters,    \* handlers of DELETE /rooms/:id and DELETE /admin/rooms/:id
    NoHub        \* the nil *Hub

ASSUME RoomsAssumption == RoomOf \in [Conns -> Rooms] /\ Deletable \subseteq Rooms
ASSUME NoHubAssumption == NoHub \notin Conns
ASSUME HandlersAssumption == Conns \cap Deleters = {}

Hubs == Conns

VARIABLES
    exists,      \* exists[r]: the room's document is in MongoDB
    hubs,        \* RoomMgr.hubs
    run,         \* where hub.Run of each hub stands
    stop,        \* stop[h]: h.stop is closed
    clients,     \* h.Clients
    conn,        \* where the handler of each connection stands
    hubOf,       \* client.Hub
    sendOpen,    \* client.Send has not been closed
    sock,        \* the server's side of the WebSocket
    del,         \* where each deleting handler stands
    delRoom,     \* the room it deletes
    delHub,      \* the hub RemoveHub found for it
    main,        \* where cmd/serve.go stands
    panics       \* goroutine kinds in which "close of closed channel" happened

vars == <<exists, hubs, run, stop, clients, conn, hubOf, sendOpen, sock,
          del, delRoom, delHub, main, panics>>

delVars  == <<del, delRoom, delHub>>
mgrVars  == <<exists, hubs, run, stop, delVars, main, panics>>
connVars == <<conn, hubOf, sendOpen, sock>>

TypeOK ==
    /\ exists \in [Rooms -> BOOLEAN]
    /\ hubs \in [Rooms -> Hubs \cup {NoHub}]
    /\ run \in [Hubs -> {"unborn", "starting", "loop", "idleLocking",
                         "idleClosing", "exited"}]
    /\ stop \in [Hubs -> BOOLEAN]
    /\ clients \in [Hubs -> SUBSET Conns]
    /\ conn \in [Conns -> {"absent", "upgraded", "registering", "reading",
                           "unregistering", "gone"}]
    /\ hubOf \in [Conns -> Hubs \cup {NoHub}]
    /\ sendOpen \in [Conns -> BOOLEAN]
    /\ sock \in [Conns -> {"none", "open", "closed"}]
    /\ del \in [Deleters -> {"idle", "deleting", "removing", "closing"}]
    /\ delRoom \in [Deleters -> Rooms]
    /\ delHub \in [Deleters -> Hubs \cup {NoHub}]
    /\ main \in {"serving", "closing", "closed", "draining", "exited"}
    /\ panics \subseteq {"handler", "process"}

Init ==
    /\ exists = [r \in Rooms |-> TRUE]
    /\ hubs = [r \in Rooms |-> NoHub]
    /\ run = [h \in Hubs |-> "unborn"]
    /\ stop = [h \in Hubs |-> FALSE]
    /\ clients = [h \in Hubs |-> {}]
    /\ conn = [c \in Conns |-> "absent"]
    /\ hubOf = [c \in Conns |-> NoHub]
    /\ sendOpen = [c \in Conns |-> TRUE]
    /\ sock = [c \in Conns |-> "none"]
    /\ del = [d \in Deleters |-> "idle"]
    /\ \E r \in Rooms : delRoom = [d \in Deleters |-> r]
    /\ delHub = [d \in Deleters |-> NoHub]
    /\ main = "serving"
    /\ panics = {}

---------------------------------------------------------------------------
\* The process runs until main returns or a goroutine without a recover panics.
Up == main # "exited" /\ "process" \notin panics

\* RoomMgr.mu is free: only ShutdownAll holds it across several steps.
MgrFree == main # "closing"

\* The listener is open until e.Shutdown is called.
Listening == main \in {"serving", "closing", "closed"}

\* close(h.stop), executed by a goroutine of the given kind: a second close
\* of the same channel panics there.
CloseStop(h, kind) ==
    /\ stop' = [stop EXCEPT ![h] = TRUE]
    /\ panics' = IF stop[h] THEN panics \cup {kind} ELSE panics

\* broadcastLocal to the given members: the slow ones are evicted, their
\* Send closed once.
Fanout(h, members, slow) ==
    /\ clients' = [clients EXCEPT ![h] = members \ slow]
    /\ sendOpen' = [c \in Conns |-> sendOpen[c] /\ c \notin slow]

---------------------------------------------------------------------------
(* Connection handlers: RoomWebSocket and MsgReceiver.                     *)

\* requireRoomMember found the room's document, and the upgrade succeeded.
Connect(c) ==
    /\ Up /\ Listening
    /\ conn[c] = "absent"
    /\ exists[RoomOf[c]]
    /\ conn' = [conn EXCEPT ![c] = "upgraded"]
    /\ sock' = [sock EXCEPT ![c] = "open"]
    /\ UNCHANGED <<mgrVars, clients, hubOf, sendOpen>>

\* Mutant: the new hub is put in the map but hub.Run is not started.
GetOrCreateHubNotRun(c) ==
    LET r == RoomOf[c] IN
    /\ Up /\ MgrFree
    /\ conn[c] = "upgraded"
    /\ conn' = [conn EXCEPT ![c] = "registering"]
    /\ hubOf' = [hubOf EXCEPT ![c] = IF hubs[r] # NoHub THEN hubs[r] ELSE c]
    /\ hubs' = [hubs EXCEPT ![r] = hubOf'[c]]
    /\ UNCHANGED <<exists, run, stop, clients, sendOpen, sock, delVars, main, panics>>

\* GetOrCreateHub, newClient, the history, go writePump; then the handler
\* waits at hub.Register <- client, with no alternative to the send.
GetOrCreateHub(c) ==
    LET r == RoomOf[c] IN
    /\ Up /\ MgrFree
    /\ conn[c] = "upgraded"
    /\ conn' = [conn EXCEPT ![c] = "registering"]
    /\ IF hubs[r] # NoHub
         THEN /\ hubOf' = [hubOf EXCEPT ![c] = hubs[r]]
              /\ UNCHANGED <<hubs, run>>
         ELSE /\ hubOf' = [hubOf EXCEPT ![c] = c]
              /\ hubs' = [hubs EXCEPT ![r] = c]
              /\ run' = [run EXCEPT ![c] = "starting"]
    /\ UNCHANGED <<exists, stop, clients, sendOpen, sock, delVars, main, panics>>

\* readPump's loop returns: the peer closed, the read failed, or it saw
\* h.stop closed while handing over a message.  Its deferred function offers
\* the CLOSE event for at most hubSendTimeout (HubFanout follows the event)
\* and comes to its second select.
ReadEnds(c) ==
    /\ Up
    /\ conn[c] = "reading"
    /\ conn' = [conn EXCEPT ![c] = "unregistering"]
    /\ UNCHANGED <<mgrVars, clients, hubOf, sendOpen, sock>>

\* Second select, when Unregister is not taken: h.stop is closed or
\* hubSendTimeout passes.  The handler returns.
SkipUnregister(c) ==
    /\ Up
    /\ conn[c] = "unregistering"
    /\ conn' = [conn EXCEPT ![c] = "gone"]
    /\ UNCHANGED <<mgrVars, clients, hubOf, sendOpen, sock>>

\* writePump returns, closing the connection: Send was closed and drained,
\* or a write failed.
WritePumpEnds(c) ==
    /\ Up
    /\ conn[c] \notin {"absent", "upgraded"}
    /\ sock[c] = "open"
    /\ sock' = [sock EXCEPT ![c] = "closed"]
    /\ UNCHANGED <<mgrVars, clients, conn, hubOf, sendOpen>>

---------------------------------------------------------------------------
(* hub.Run.  Its select takes any case that is ready.                      *)

HubStarts(h) ==
    /\ Up
    /\ run[h] = "starting"
    /\ run' = [run EXCEPT ![h] = "loop"]
    /\ UNCHANGED <<exists, hubs, stop, clients, connVars, delVars, main, panics>>

HubRegisters(h, c, slow) ==
    /\ Up
    /\ run[h] = "loop"
    /\ conn[c] = "registering" /\ hubOf[c] = h
    /\ slow \subseteq clients[h]
    /\ conn' = [conn EXCEPT ![c] = "reading"]
    /\ Fanout(h, clients[h] \cup {c}, slow)
    /\ UNCHANGED <<mgrVars, hubOf, sock>>

\* The client is deleted and its Send closed only if it was still listed.
HubUnregisters(h, c, slow) ==
    /\ Up
    /\ run[h] = "loop"
    /\ conn[c] = "unregistering" /\ hubOf[c] = h
    /\ slow \subseteq clients[h] \ {c}
    /\ conn' = [conn EXCEPT ![c] = "gone"]
    /\ Fanout(h, clients[h], slow \cup (clients[h] \cap {c}))
    /\ UNCHANGED <<mgrVars, hubOf, sock>>

\* A message from Broadcast or from Redis, delivered with evictions.
HubBroadcasts(h, slow) ==
    /\ Up
    /\ run[h] = "loop"
    /\ slow \subseteq clients[h] /\ slow # {}
    /\ Fanout(h, clients[h], slow)
    /\ UNCHANGED <<mgrVars, conn, hubOf, sock>>

\* Mutant: Run returns on stop without closeAllClients.
HubStopsSilently(h) ==
    /\ Up
    /\ run[h] = "loop"
    /\ stop[h]
    /\ run' = [run EXCEPT ![h] = "exited"]
    /\ UNCHANGED <<exists, hubs, stop, clients, connVars, delVars, main, panics>>

\* case <-h.stop: closeAllClients, then Run returns.
HubStops(h) ==
    /\ Up
    /\ run[h] = "loop"
    /\ stop[h]
    /\ run' = [run EXCEPT ![h] = "exited"]
    /\ Fanout(h, clients[h], clients[h])
    /\ sock' = [c \in Conns |-> IF c \in clients[h] THEN "closed" ELSE sock[c]]
    /\ UNCHANGED <<exists, hubs, stop, conn, hubOf, delVars, main, panics>>

\* case <-idleTimer.C, first check; a hub with clients only resets its timer.
IdleCheck(h) ==
    /\ Up
    /\ run[h] = "loop"
    /\ clients[h] = {}
    /\ run' = [run EXCEPT ![h] = "idleLocking"]
    /\ UNCHANGED <<exists, hubs, stop, clients, connVars, delVars, main, panics>>

\* Mutant: the hub closes its stop channel but stays in the map.
IdleRemoveKeepsMap(h) ==
    /\ Up /\ MgrFree
    /\ run[h] = "idleLocking"
    /\ run' = [run EXCEPT ![h] = "idleClosing"]
    /\ UNCHANGED <<exists, hubs, stop, clients, connVars, delVars, main, panics>>

\* Mutant: the second check is inverted.
IdleRemoveInverted(h) ==
    /\ Up /\ MgrFree
    /\ run[h] = "idleLocking"
    /\ run' = [run EXCEPT ![h] = IF clients[h] # {} THEN "idleClosing" ELSE "loop"]
    /\ UNCHANGED <<exists, hubs, stop, clients, connVars, delVars, main, panics>>

\* The second check and the delete, under RoomMgr.mu: whatever the map holds
\* for the room is deleted.
IdleRemove(h) ==
    /\ Up /\ MgrFree
    /\ run[h] = "idleLocking"
    /\ IF clients[h] = {}
         THEN /\ hubs' = [hubs EXCEPT ![RoomOf[h]] = NoHub]
              /\ run' = [run EXCEPT ![h] = "idleClosing"]
         ELSE /\ run' = [run EXCEPT ![h] = "loop"]
              /\ UNCHANGED hubs
    /\ UNCHANGED <<exists, stop, clients, connVars, delVars, main, panics>>

\* close(h.stop) after the unlock; Run returns or its goroutine panics.
IdleClose(h) ==
    /\ Up
    /\ run[h] = "idleClosing"
    /\ CloseStop(h, "process")
    /\ run' = [run EXCEPT ![h] = "exited"]
    /\ UNCHANGED <<exists, hubs, clients, connVars, delVars, main>>

---------------------------------------------------------------------------
(* DeleteRoomHandler and AdminDeleteRoomHandler.                           *)

\* FindRoomByID and the permission checks.
DeleteCheck(d, r) ==
    /\ Up /\ Listening
    /\ del[d] = "idle"
    /\ r \in Deletable /\ exists[r]
    /\ del' = [del EXCEPT ![d] = "deleting"]
    /\ delRoom' = [delRoom EXCEPT ![d] = r]
    /\ UNCHANGED <<exists, hubs, run, stop, clients, connVars, delHub, main, panics>>

\* DeleteOne: an error ends the handler; deleting nothing is not an error.
DeleteStore(d) ==
    /\ Up
    /\ del[d] = "deleting"
    /\ \/ /\ exists' = [exists EXCEPT ![delRoom[d]] = FALSE]
          /\ del' = [del EXCEPT ![d] = "removing"]
       \/ /\ del' = [del EXCEPT ![d] = "idle"]
          /\ UNCHANGED exists
    /\ UNCHANGED <<hubs, run, stop, clients, connVars, delRoom, delHub, main, panics>>

\* Mutant: the hub leaves the map and is never told to stop.
RemoveHubNoClose(d) ==
    /\ Up /\ MgrFree
    /\ del[d] = "removing"
    /\ hubs' = [hubs EXCEPT ![delRoom[d]] = NoHub]
    /\ del' = [del EXCEPT ![d] = "idle"]
    /\ UNCHANGED <<exists, run, stop, clients, connVars, delRoom, delHub, main, panics>>

\* RemoveHub, the part under RoomMgr.mu.
RemoveHub(d) ==
    LET h == hubs[delRoom[d]] IN
    /\ Up /\ MgrFree
    /\ del[d] = "removing"
    /\ hubs' = [hubs EXCEPT ![delRoom[d]] = NoHub]
    /\ del' = [del EXCEPT ![d] = IF h = NoHub THEN "idle" ELSE "closing"]
    /\ delHub' = [delHub EXCEPT ![d] = h]
    /\ UNCHANGED <<exists, run, stop, clients, connVars, delRoom, main, panics>>

\* RemoveHub, close(hub.stop) after the unlock.  A panic here is recovered
\* by the Recover middleware.
RemoveHubClose(d) ==
    /\ Up
    /\ del[d] = "closing"
    /\ CloseStop(delHub[d], "handler")
    /\ del' = [del EXCEPT ![d] = "idle"]
    /\ UNCHANGED <<exists, hubs, run, clients, connVars, delRoom, delHub, main>>

---------------------------------------------------------------------------
(* Graceful shutdown: cmd/serve.go and ShutdownAll.                        *)

ShutdownBegin ==
    /\ Up
    /\ main = "serving"
    /\ main' = "closing"
    /\ UNCHANGED <<exists, hubs, run, stop, clients, connVars, delVars, panics>>

ShutdownClose(r) ==
    /\ Up
    /\ main = "closing"
    /\ hubs[r] # NoHub
    /\ CloseStop(hubs[r], "process")
    /\ hubs' = [hubs EXCEPT ![r] = NoHub]
    /\ UNCHANGED <<exists, run, clients, connVars, delVars, main>>

ShutdownEnd ==
    /\ Up
    /\ main = "closing"
    /\ \A r \in Rooms : hubs[r] = NoHub
    /\ main' = "closed"
    /\ UNCHANGED <<exists, hubs, run, stop, clients, connVars, delVars, panics>>

\* e.Shutdown closes the listener ...
ShutdownListener ==
    /\ Up
    /\ main = "closed"
    /\ main' = "draining"
    /\ UNCHANGED <<exists, hubs, run, stop, clients, connVars, delVars, panics>>

\* ... and waits for the requests that are not hijacked; its timeout ends
\* the process (e.Logger.Fatal).  The insert queue is drained afterwards
\* (InsertPipeline) and main returns.
ShutdownReturn ==
    /\ Up
    /\ main = "draining"
    /\ main' = "exited"
    /\ UNCHANGED <<exists, hubs, run, stop, clients, connVars, delVars, panics>>

---------------------------------------------------------------------------
ConnNext(c) ==
    \/ Connect(c) \/ GetOrCreateHub(c)
    \/ ReadEnds(c) \/ SkipUnregister(c) \/ WritePumpEnds(c)

HubNext(h) ==
    \/ HubStarts(h) \/ HubStops(h)
    \/ IdleCheck(h) \/ IdleRemove(h) \/ IdleClose(h)
    \/ \E slow \in SUBSET clients[h] :
         \/ HubBroadcasts(h, slow)
         \/ \E c \in Conns : HubRegisters(h, c, slow) \/ HubUnregisters(h, c, slow)

DeleterNext(d) ==
    \/ \E r \in Rooms : DeleteCheck(d, r)
    \/ DeleteStore(d) \/ RemoveHub(d) \/ RemoveHubClose(d)

ShutdownNext ==
    \/ ShutdownBegin \/ ShutdownEnd \/ ShutdownListener \/ ShutdownReturn
    \/ \E r \in Rooms : ShutdownClose(r)

Next ==
    \/ \E c \in Conns : ConnNext(c)
    \/ \E h \in Hubs : HubNext(h)
    \/ \E d \in Deleters : DeleterNext(d)
    \/ ShutdownNext

Spec == Init /\ [][Next]_vars

\* Goroutines that are ready run: weak fairness.  New requests, deletions and
\* the signal to shut down are the environment's choice.
RunFairness ==
    /\ \A c \in Conns :
         /\ WF_vars(sock[c] = "closed" /\ ReadEnds(c))
         /\ WF_vars(SkipUnregister(c))
         /\ WF_vars(~sendOpen[c] /\ WritePumpEnds(c))
    /\ \A h \in Hubs : WF_vars(HubStarts(h)) /\ WF_vars(HubStops(h))

\* Go's select picks each ready case with the same probability, so a case
\* that is ready again and again is taken: strong fairness for Register and
\* for the idle timer.
SelectFairness ==
    /\ \A h \in Hubs :
         /\ SF_vars(IdleCheck(h)) /\ WF_vars(IdleRemove(h)) /\ WF_vars(IdleClose(h))
         /\ \A c \in Conns : SF_vars(\E slow \in SUBSET clients[h] : HubRegisters(h, c, slow))
    /\ WF_vars(ShutdownEnd) /\ WF_vars(ShutdownListener)
    /\ WF_vars(\E r \in Rooms : ShutdownClose(r))

\* Without fairness of the end of the process: what the hubs owe, they owe
\* even when a shutdown takes its time.
FairSpec == Spec /\ RunFairness /\ SelectFairness

\* e.Shutdown has a timeout: a server that shuts down exits.
ExitingSpec == FairSpec /\ WF_vars(ShutdownReturn)

---------------------------------------------------------------------------
(* Safety.                                                                 *)

\* What RoomMgr.hubs hands to GetOrCreateHub and GetHub is the room's own hub,
\* running or about to, and nobody has closed its stop channel yet.
MapHoldsOpenHubs ==
    \A r \in Rooms : hubs[r] # NoHub =>
        /\ RoomOf[hubs[r]] = r
        /\ run[hubs[r]] \in {"starting", "loop", "idleLocking"}
        /\ ~stop[hubs[r]]

\* A connection that reads messages and whose Send was not closed is listed
\* by a hub that still runs: no path by which a client leaves a hub, or by
\* which a hub ends, forgets to tell the client's writePump.
NoSilentReader ==
    \A c \in Conns : conn[c] = "reading" /\ sendOpen[c] =>
        /\ c \in clients[hubOf[c]]
        /\ run[hubOf[c]] = "loop"

\* Goroutines that have taken charge of h.stop and are about to close it.
Closers(h) ==
    {d \in Deleters : del[d] = "closing" /\ delHub[d] = h}
      \cup (IF run[h] = "idleClosing" THEN {h} ELSE {})

\* close(h.stop) is about to run a second time.
DoubleCloseComing(h) ==
    \E x \in Closers(h) : stop[h] \/ \E y \in Closers(h) : y # x

\* A hub whose stop channel is open is in the map, or somebody is about to
\* close it; a hub that neither the map nor a closer knows (its clients keep
\* talking to themselves while the map makes a second hub for the room)
\* exists only where stop channels are closed twice: the missing comparison
\* in the idle path is the only source of both.
OrphanImpliesDoubleClose ==
    (\E h \in Hubs : /\ run[h] # "unborn" /\ ~stop[h]
                      /\ hubs[RoomOf[h]] # h /\ Closers(h) = {})
      => panics # {} \/ \E h \in Hubs : DoubleCloseComing(h)

\* What the test of RemoveHub says of the stop channel: closed once.
StopClosedOnce == panics = {}

---------------------------------------------------------------------------
(* Liveness.                                                               *)

\* The clients of a hub that was told to stop are disconnected and their
\* handlers return (releasing the per-IP connection slot).
StoppedHubDisconnects ==
    \A c \in Conns :
        (conn[c] = "reading" /\ stop[hubOf[c]]) ~> (conn[c] = "gone" \/ ~Up)

\* A handler waiting at hub.Register is served unless the hub has ended.
RegisterServedWhileHubRuns ==
    \A c \in Conns :
        (conn[c] = "registering")
          ~> (conn[c] # "registering" \/ run[hubOf[c]] = "exited" \/ ~Up)

\* An empty hub does not live for ever: it gets a client or it ends.
EmptyHubRetires ==
    \A h \in Hubs :
        (run[h] = "loop" /\ clients[h] = {})
          ~> (clients[h] # {} \/ run[h] = "exited" \/ ~Up)

\* What the idle path says of closing h.stop: it releases the goroutines
\* that wait for the hub.
WaitersReleased ==
    \A c \in Conns : (conn[c] = "registering") ~> (conn[c] # "registering" \/ ~Up)
=============================================================================

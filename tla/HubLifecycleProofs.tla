------------------------ MODULE HubLifecycleProofs ------------------------
(***************************************************************************)
(* Proofs, for any number of rooms, requests and deleting handlers, of the *)
(* safety properties of HubLifecycle.                                      *)
(***************************************************************************)
EXTENDS HubLifecycle, TLAPS

\* A hub is made by the handler whose name it bears, when that handler calls
\* GetOrCreateHub; before that it does not run and nobody holds it.
UnbornHubs ==
    \A h \in Hubs :
        /\ conn[h] \in {"absent", "upgraded"} => run[h] = "unborn"
        /\ run[h] = "unborn" => ~stop[h]

\* Only a hub in its loop has clients.
ClientsOnlyInLoop == \A h \in Hubs : run[h] # "loop" => clients[h] = {}

\* A handler past GetOrCreateHub holds a hub.
HandlersHoldHubs ==
    \A c \in Conns : conn[c] \in {"registering", "reading", "unregistering"}
                       => hubOf[c] \in Hubs

\* A hub that RemoveHub is about to close has been taken out of the map.
RemovedHubsUnmapped ==
    \A d \in Deleters : del[d] = "closing" =>
        /\ delHub[d] \in Hubs
        /\ run[delHub[d]] # "unborn"
        /\ hubs[RoomOf[delHub[d]]] # delHub[d]

MapInv == /\ TypeOK /\ MapHoldsOpenHubs /\ UnbornHubs /\ RemovedHubsUnmapped

ClientInv == /\ ClientsOnlyInLoop /\ HandlersHoldHubs /\ NoSilentReader

---------------------------------------------------------------------------
\* Type correctness.
LEMMA TypeInit == Init => TypeOK
  BY RoomsAssumption, NoHubAssumption DEF Init, TypeOK, Hubs

\* Types: the steps of RoomWebSocket and readPump.
LEMMA TypeConn ==
  ASSUME TypeOK, NEW c \in Conns, ConnNext(c)
  PROVE  TypeOK'
<1> USE RoomsAssumption, NoHubAssumption DEF TypeOK, Hubs, mgrVars, connVars, delVars
<1>1. CASE Connect(c)          BY <1>1 DEF Connect
<1>2. CASE GetOrCreateHub(c)   BY <1>2 DEF GetOrCreateHub
<1>3. CASE ReadEnds(c)         BY <1>3 DEF ReadEnds
<1>4. CASE SkipUnregister(c)   BY <1>4 DEF SkipUnregister
<1>5. CASE WritePumpEnds(c)    BY <1>5 DEF WritePumpEnds
<1> QED BY <1>1, <1>2, <1>3, <1>4, <1>5 DEF ConnNext

\* Types: the steps of Run.
LEMMA TypeHub ==
  ASSUME TypeOK, NEW h \in Hubs, HubNext(h)
  PROVE  TypeOK'
<1> USE RoomsAssumption, NoHubAssumption DEF TypeOK, Hubs, mgrVars, connVars, delVars
<1>1. CASE HubStarts(h)   BY <1>1 DEF HubStarts
<1>2. CASE HubStops(h)    BY <1>2 DEF HubStops, Fanout
<1>3. CASE IdleCheck(h)   BY <1>3 DEF IdleCheck
<1>4. CASE IdleRemove(h)  BY <1>4 DEF IdleRemove
<1>5. CASE IdleClose(h)   BY <1>5 DEF IdleClose, CloseStop
<1>6. ASSUME NEW slow \in SUBSET clients[h], HubBroadcasts(h, slow)
      PROVE  TypeOK'
  BY <1>6 DEF HubBroadcasts, Fanout
<1>7. ASSUME NEW slow \in SUBSET clients[h], NEW c \in Conns, HubRegisters(h, c, slow)
      PROVE  TypeOK'
  BY <1>7 DEF HubRegisters, Fanout
<1>8. ASSUME NEW slow \in SUBSET clients[h], NEW c \in Conns, HubUnregisters(h, c, slow)
      PROVE  TypeOK'
  BY <1>8 DEF HubUnregisters, Fanout
<1> QED BY <1>1, <1>2, <1>3, <1>4, <1>5, <1>6, <1>7, <1>8 DEF HubNext

\* Types: the steps of the handlers that delete rooms.
LEMMA TypeDeleter ==
  ASSUME TypeOK, NEW d \in Deleters, DeleterNext(d)
  PROVE  TypeOK'
<1> USE RoomsAssumption, NoHubAssumption DEF TypeOK, Hubs, mgrVars, connVars, delVars
<1>1. ASSUME NEW r \in Rooms, DeleteCheck(d, r) PROVE TypeOK'
  BY <1>1 DEF DeleteCheck
<1>2. CASE DeleteStore(d)     BY <1>2 DEF DeleteStore
<1>3. CASE RemoveHub(d)       BY <1>3 DEF RemoveHub
<1>4. CASE RemoveHubClose(d)  BY <1>4 DEF RemoveHubClose, CloseStop
<1> QED BY <1>1, <1>2, <1>3, <1>4 DEF DeleterNext

\* Types: the steps of main from the signal on.
LEMMA TypeShutdown ==
  ASSUME TypeOK, ShutdownNext
  PROVE  TypeOK'
<1> USE RoomsAssumption, NoHubAssumption DEF TypeOK, Hubs, mgrVars, connVars, delVars
<1>1. CASE ShutdownBegin     BY <1>1 DEF ShutdownBegin
<1>2. CASE ShutdownEnd       BY <1>2 DEF ShutdownEnd
<1>3. CASE ShutdownListener  BY <1>3 DEF ShutdownListener
<1>4. CASE ShutdownReturn    BY <1>4 DEF ShutdownReturn
<1>5. ASSUME NEW r \in Rooms, ShutdownClose(r) PROVE TypeOK'
  BY <1>5 DEF ShutdownClose, CloseStop
<1> QED BY <1>1, <1>2, <1>3, <1>4, <1>5 DEF ShutdownNext

\* Types: any step.
LEMMA TypeStep == TypeOK /\ [Next]_vars => TypeOK'
<1> SUFFICES ASSUME TypeOK, [Next]_vars PROVE TypeOK'
  OBVIOUS
<1>1. CASE UNCHANGED vars
  BY <1>1 DEF vars, TypeOK
<1>2. CASE Next
  BY <1>2, TypeConn, TypeHub, TypeDeleter, TypeShutdown DEF Next
<1> QED BY <1>1, <1>2

\* Every variable of the hubs, handlers and shutdown keeps its type.
THEOREM TypeCorrect == Spec => []TypeOK
  BY TypeInit, TypeStep, PTL DEF Spec

---------------------------------------------------------------------------
\* The map and the hubs it holds.
LEMMA MapInit == Init => MapInv
  BY TypeInit, RoomsAssumption, NoHubAssumption
  DEF Init, MapInv, MapHoldsOpenHubs, UnbornHubs, RemovedHubsUnmapped, Hubs

\* A handler puts only a hub of its own, new and open, into the map.
LEMMA MapConn ==
  ASSUME MapInv, NEW c \in Conns, ConnNext(c)
  PROVE  MapInv'
<1> USE RoomsAssumption, NoHubAssumption
    DEF MapInv, MapHoldsOpenHubs, UnbornHubs, RemovedHubsUnmapped, Hubs, mgrVars, delVars
<1>0. TypeOK'  BY TypeConn
<1>1. CASE Connect(c)          BY <1>0, <1>1 DEF Connect, TypeOK
<1>2. CASE GetOrCreateHub(c)   BY <1>0, <1>2 DEF GetOrCreateHub, TypeOK
<1>3. CASE ReadEnds(c)         BY <1>0, <1>3 DEF ReadEnds, TypeOK
<1>4. CASE SkipUnregister(c)   BY <1>0, <1>4 DEF SkipUnregister, TypeOK
<1>5. CASE WritePumpEnds(c)    BY <1>0, <1>5 DEF WritePumpEnds, TypeOK
<1> QED BY <1>1, <1>2, <1>3, <1>4, <1>5 DEF ConnNext

\* A hub closes its stop channel after it has left the map.
LEMMA MapHub ==
  ASSUME MapInv, NEW h \in Hubs, HubNext(h)
  PROVE  MapInv'
<1> USE RoomsAssumption, NoHubAssumption
    DEF MapInv, MapHoldsOpenHubs, UnbornHubs, RemovedHubsUnmapped, Hubs,
        mgrVars, connVars, delVars
<1>0. TypeOK'  BY TypeHub
<1>1. CASE HubStarts(h)   BY <1>0, <1>1 DEF HubStarts, TypeOK
<1>2. CASE HubStops(h)    BY <1>0, <1>2 DEF HubStops, TypeOK
<1>3. CASE IdleCheck(h)   BY <1>0, <1>3 DEF IdleCheck, TypeOK
<1>4. CASE IdleRemove(h)  BY <1>0, <1>4 DEF IdleRemove, TypeOK
<1>5. CASE IdleClose(h)   BY <1>0, <1>5 DEF IdleClose, CloseStop, TypeOK
<1>6. ASSUME NEW slow \in SUBSET clients[h], HubBroadcasts(h, slow)
      PROVE  MapInv'
  BY <1>0, <1>6 DEF HubBroadcasts
<1>7. ASSUME NEW slow \in SUBSET clients[h], NEW c \in Conns, HubRegisters(h, c, slow)
      PROVE  MapInv'
  BY <1>0, <1>7 DEF HubRegisters, TypeOK
<1>8. ASSUME NEW slow \in SUBSET clients[h], NEW c \in Conns, HubUnregisters(h, c, slow)
      PROVE  MapInv'
  BY <1>0, <1>8 DEF HubUnregisters, TypeOK
<1> QED BY <1>1, <1>2, <1>3, <1>4, <1>5, <1>6, <1>7, <1>8 DEF HubNext

\* RemoveHub takes the hub out of the map before it closes it.
LEMMA MapDeleter ==
  ASSUME MapInv, NEW d \in Deleters, DeleterNext(d)
  PROVE  MapInv'
<1> USE RoomsAssumption, NoHubAssumption
    DEF MapInv, MapHoldsOpenHubs, UnbornHubs, RemovedHubsUnmapped, Hubs,
        mgrVars, connVars, delVars
<1>0. TypeOK'  BY TypeDeleter
<1>1. ASSUME NEW r \in Rooms, DeleteCheck(d, r) PROVE MapInv'
  BY <1>0, <1>1 DEF DeleteCheck, TypeOK
<1>2. CASE DeleteStore(d)     BY <1>0, <1>2 DEF DeleteStore, TypeOK
<1>3. CASE RemoveHub(d)       BY <1>0, <1>3 DEF RemoveHub, TypeOK
<1>4. CASE RemoveHubClose(d)  BY <1>0, <1>4 DEF RemoveHubClose, CloseStop, TypeOK
<1> QED BY <1>1, <1>2, <1>3, <1>4 DEF DeleterNext

\* ShutdownAll empties the map of what it closes, under the lock.
LEMMA MapShutdown ==
  ASSUME MapInv, ShutdownNext
  PROVE  MapInv'
<1> USE RoomsAssumption, NoHubAssumption
    DEF MapInv, MapHoldsOpenHubs, UnbornHubs, RemovedHubsUnmapped, Hubs,
        mgrVars, connVars, delVars
<1>0. TypeOK'  BY TypeShutdown
<1>1. CASE ShutdownBegin     BY <1>0, <1>1 DEF ShutdownBegin
<1>2. CASE ShutdownEnd       BY <1>0, <1>2 DEF ShutdownEnd
<1>3. CASE ShutdownListener  BY <1>0, <1>3 DEF ShutdownListener
<1>4. CASE ShutdownReturn    BY <1>0, <1>4 DEF ShutdownReturn
<1>5. ASSUME NEW r \in Rooms, ShutdownClose(r) PROVE MapInv'
  BY <1>0, <1>5 DEF ShutdownClose, CloseStop, TypeOK
<1> QED BY <1>1, <1>2, <1>3, <1>4, <1>5 DEF ShutdownNext

\* The map: any step.
LEMMA MapStep == MapInv /\ [Next]_vars => MapInv'
<1> SUFFICES ASSUME MapInv, [Next]_vars PROVE MapInv'
  OBVIOUS
<1>1. CASE UNCHANGED vars
  BY <1>1 DEF vars, MapInv, TypeOK, MapHoldsOpenHubs, UnbornHubs, RemovedHubsUnmapped
<1>2. CASE Next
  BY <1>2, MapConn, MapHub, MapDeleter, MapShutdown DEF Next
<1> QED BY <1>1, <1>2

\* MapInv holds throughout.
LEMMA MapCorrect == Spec => []MapInv
  BY MapInit, MapStep, PTL DEF Spec

\* RoomMgr never hands out a hub whose stop channel has been closed.
THEOREM MapHoldsOpenHubsAlways == Spec => []MapHoldsOpenHubs
<1>1. MapInv => MapHoldsOpenHubs  BY DEF MapInv
<1> QED BY <1>1, MapCorrect, PTL

---------------------------------------------------------------------------
\* Clients and their handlers.
LEMMA ClientInit == Init => ClientInv
  BY DEF Init, ClientInv, ClientsOnlyInLoop, HandlersHoldHubs, NoSilentReader, Hubs

\* A handler that goes on to read was registered by the hub it holds.
LEMMA ClientConn ==
  ASSUME MapInv, ClientInv, NEW c \in Conns, ConnNext(c)
  PROVE  ClientInv'
<1> USE RoomsAssumption, NoHubAssumption
    DEF MapInv, TypeOK, UnbornHubs, ClientInv, ClientsOnlyInLoop, HandlersHoldHubs, NoSilentReader, Hubs,
        mgrVars, connVars, delVars
<1>1. CASE Connect(c)          BY <1>1 DEF Connect
<1>2. CASE GetOrCreateHub(c)   BY <1>2 DEF GetOrCreateHub
<1>3. CASE ReadEnds(c)         BY <1>3 DEF ReadEnds
<1>4. CASE SkipUnregister(c)   BY <1>4 DEF SkipUnregister
<1>5. CASE WritePumpEnds(c)    BY <1>5 DEF WritePumpEnds
<1> QED BY <1>1, <1>2, <1>3, <1>4, <1>5 DEF ConnNext

\* A broadcast to some members, all of whom are listed or about to read from
\* this hub, forgets nobody: who is not listed afterwards has a closed Send.
LEMMA FanoutKeepsClients ==
  ASSUME TypeOK, ClientInv, NEW h \in Hubs, run[h] = "loop", UNCHANGED <<run, hubOf>>,
         NEW members \in SUBSET Conns, NEW slow \in SUBSET Conns, Fanout(h, members, slow),
         \A c \in Conns : conn'[c] = "reading" /\ hubOf[c] = h /\ sendOpen'[c] => c \in members,
         \A c \in Conns : conn'[c] = "reading" => conn[c] = "reading" \/ hubOf[c] = h,
         \A c \in Conns : conn'[c] \in {"registering", "reading", "unregistering"}
                            => hubOf[c] \in Hubs
  PROVE  ClientInv'
<1>1. clients' = [clients EXCEPT ![h] = members \ slow]  BY DEF Fanout
<1>2. \A c \in Conns : sendOpen'[c] = (sendOpen[c] /\ c \notin slow)  BY DEF Fanout
<1>3. clients \in [Hubs -> SUBSET Conns]  BY DEF TypeOK
<1>4. ClientsOnlyInLoop'
  BY <1>1, <1>3 DEF ClientInv, ClientsOnlyInLoop
<1>5. HandlersHoldHubs'
  BY DEF HandlersHoldHubs
<1>6. ASSUME NEW c \in Conns, conn'[c] = "reading", sendOpen'[c]
      PROVE  c \in clients'[hubOf'[c]] /\ run'[hubOf'[c]] = "loop"
  <2>1. sendOpen[c] /\ c \notin slow  BY <1>2, <1>6
  <2>2. CASE hubOf[c] = h
    BY <1>1, <1>3, <1>6, <2>1, <2>2
  <2>3. CASE hubOf[c] # h
    <3>1. conn[c] = "reading"  BY <1>6, <2>3
    <3>2. c \in clients[hubOf[c]] /\ run[hubOf[c]] = "loop"
      BY <2>1, <3>1 DEF ClientInv, NoSilentReader
    <3> QED BY <1>1, <1>3, <2>3, <3>2
  <2> QED BY <2>2, <2>3
<1> QED BY <1>4, <1>5, <1>6 DEF ClientInv, NoSilentReader

\* A hub that drops a client closes its Send, and one that ends drops all.
LEMMA ClientHub ==
  ASSUME MapInv, ClientInv, NEW h \in Hubs, HubNext(h)
  PROVE  ClientInv'
<1>0. TypeOK  BY DEF MapInv
<1>1. CASE HubStarts(h)
  BY <1>0, <1>1 DEF HubStarts, ClientInv, TypeOK, ClientsOnlyInLoop, HandlersHoldHubs,
       NoSilentReader, connVars
<1>2. CASE HubStops(h)
  BY <1>0, <1>2 DEF HubStops, Fanout, ClientInv, TypeOK, ClientsOnlyInLoop, HandlersHoldHubs,
       NoSilentReader
<1>3. CASE IdleCheck(h)
  BY <1>0, <1>3 DEF IdleCheck, ClientInv, TypeOK, ClientsOnlyInLoop, HandlersHoldHubs,
       NoSilentReader, connVars
<1>4. CASE IdleRemove(h)
  BY <1>0, <1>4 DEF IdleRemove, ClientInv, TypeOK, ClientsOnlyInLoop, HandlersHoldHubs,
       NoSilentReader, connVars
<1>5. CASE IdleClose(h)
  BY <1>0, <1>5 DEF IdleClose, ClientInv, TypeOK, ClientsOnlyInLoop, HandlersHoldHubs,
       NoSilentReader, connVars
<1>6. ASSUME NEW slow \in SUBSET clients[h], HubBroadcasts(h, slow)
      PROVE  ClientInv'
  <2>1. clients[h] \in SUBSET Conns /\ slow \in SUBSET Conns  BY <1>0 DEF TypeOK
  <2>2. /\ run[h] = "loop" /\ Fanout(h, clients[h], slow)
        /\ UNCHANGED <<run, hubOf, conn>>
    BY <1>6 DEF HubBroadcasts, mgrVars
  <2>3. \A c \in Conns : sendOpen'[c] => sendOpen[c]  BY <2>2 DEF Fanout
  <2>4. \A c \in Conns : conn[c] = "reading" /\ sendOpen[c] => c \in clients[hubOf[c]]
    BY DEF ClientInv, NoSilentReader
  <2> QED
    BY <1>0, <2>1, <2>2, <2>3, <2>4, FanoutKeepsClients DEF ClientInv, HandlersHoldHubs
<1>7. ASSUME NEW slow \in SUBSET clients[h], NEW c \in Conns, HubRegisters(h, c, slow)
      PROVE  ClientInv'
  <2>1. clients[h] \cup {c} \in SUBSET Conns /\ slow \in SUBSET Conns  BY <1>0 DEF TypeOK
  <2>2. /\ run[h] = "loop" /\ hubOf[c] = h /\ conn' = [conn EXCEPT ![c] = "reading"]
        /\ Fanout(h, clients[h] \cup {c}, slow)
        /\ UNCHANGED <<run, hubOf>>
    BY <1>7 DEF HubRegisters, mgrVars
  <2>3. \A b \in Conns : sendOpen'[b] => sendOpen[b]  BY <2>2 DEF Fanout
  <2>4. \A b \in Conns : conn'[b] = IF b = c THEN "reading" ELSE conn[b]
    BY <1>0, <2>2 DEF TypeOK
  <2>5. \A b \in Conns : conn[b] = "reading" /\ sendOpen[b] => b \in clients[hubOf[b]]
    BY DEF ClientInv, NoSilentReader
  <2> QED
    BY <1>0, <2>1, <2>2, <2>3, <2>4, <2>5, FanoutKeepsClients DEF ClientInv, HandlersHoldHubs
<1>8. ASSUME NEW slow \in SUBSET clients[h], NEW c \in Conns, HubUnregisters(h, c, slow)
      PROVE  ClientInv'
  <2> DEFINE out == slow \cup (clients[h] \cap {c})
  <2>1. clients[h] \in SUBSET Conns /\ out \in SUBSET Conns  BY <1>0 DEF TypeOK
  <2>2. /\ run[h] = "loop" /\ conn' = [conn EXCEPT ![c] = "gone"]
        /\ Fanout(h, clients[h], out)
        /\ UNCHANGED <<run, hubOf>>
    BY <1>8 DEF HubUnregisters, mgrVars
  <2>3. \A b \in Conns : sendOpen'[b] => sendOpen[b]  BY <2>2 DEF Fanout
  <2>4. \A b \in Conns : conn'[b] = IF b = c THEN "gone" ELSE conn[b]
    BY <1>0, <2>2 DEF TypeOK
  <2>5. \A b \in Conns : conn[b] = "reading" /\ sendOpen[b] => b \in clients[hubOf[b]]
    BY DEF ClientInv, NoSilentReader
  <2> HIDE DEF out
  <2> QED
    BY <1>0, <2>1, <2>2, <2>3, <2>4, <2>5, FanoutKeepsClients DEF ClientInv, HandlersHoldHubs
<1> QED BY <1>1, <1>2, <1>3, <1>4, <1>5, <1>6, <1>7, <1>8 DEF HubNext

\* Steps that touch neither hubs nor connections.
LEMMA ClientOther ==
  ASSUME ClientInv, UNCHANGED <<run, clients, connVars>>
  PROVE  ClientInv'
  BY DEF ClientInv, ClientsOnlyInLoop, HandlersHoldHubs, NoSilentReader, connVars

\* Deletions and the shutdown are such steps.
LEMMA OthersKeepClients ==
  ASSUME ShutdownNext \/ \E d \in Deleters : DeleterNext(d)
  PROVE  UNCHANGED <<run, clients, connVars>>
  BY DEF ShutdownNext, DeleterNext, ShutdownBegin, ShutdownEnd, ShutdownListener,
         ShutdownReturn, ShutdownClose, DeleteCheck, DeleteStore, RemoveHub, RemoveHubClose

\* Clients: any step.
LEMMA ClientStep == MapInv /\ ClientInv /\ [Next]_vars => ClientInv'
<1> SUFFICES ASSUME MapInv, ClientInv, [Next]_vars PROVE ClientInv'
  OBVIOUS
<1>1. CASE UNCHANGED vars
  BY <1>1, ClientOther DEF vars, connVars
<1>2. CASE Next
  BY <1>2, ClientConn, ClientHub, ClientOther, OthersKeepClients DEF Next
<1> QED BY <1>1, <1>2

\* A connection that still reads has an open Send only while a running hub
\* lists it.
THEOREM NoSilentReaderAlways == Spec => []NoSilentReader
<1>1. ClientInv => NoSilentReader  BY DEF ClientInv
<1> QED BY <1>1, MapCorrect, ClientInit, ClientStep, PTL DEF Spec

---------------------------------------------------------------------------
\* Orphans.  Orphan(h): nobody will ever close the stop channel of h.
Orphan(h) == /\ run[h] # "unborn" /\ ~stop[h]
             /\ hubs[RoomOf[h]] # h /\ Closers(h) = {}

Trespass == panics # {} \/ \E h \in Hubs : DoubleCloseComing(h)

\* There are no hubs at first, so no orphans.
LEMMA OrphanInit == Init => OrphanImpliesDoubleClose
  BY DEF Init, OrphanImpliesDoubleClose, Hubs

\* Steps that create no orphan and take nothing away from a trespass.
LEMMA OrphanKept ==
  ASSUME OrphanImpliesDoubleClose, TypeOK, TypeOK',
         \A h \in Hubs : Orphan(h)' => Orphan(h),
         \A h \in Hubs : Closers(h) \subseteq Closers(h)' /\ (stop[h] => stop'[h]),
         panics \subseteq panics'
  PROVE  OrphanImpliesDoubleClose'
<1>1. Trespass => Trespass'
  BY DEF Trespass, DoubleCloseComing
<1> QED BY <1>1 DEF OrphanImpliesDoubleClose, Orphan, Trespass

\* close(h.stop) by one of the closers of h: either it is the second close,
\* or the other closer it may have is the coming second close.
LEMMA OrphanClose ==
  ASSUME OrphanImpliesDoubleClose, TypeOK, TypeOK',
         NEW g \in Hubs, NEW x, NEW kind,
         CloseStop(g, kind),
         \A h \in Hubs : Closers(h)' = Closers(h) \ (IF h = g THEN {x} ELSE {}),
         \A h \in Hubs : hubs'[RoomOf[h]] = hubs[RoomOf[h]] /\ (run[h] = "unborn" <=> run'[h] = "unborn")
  PROVE  OrphanImpliesDoubleClose'
<1>1. ASSUME NEW h \in Hubs, Orphan(h)' PROVE Orphan(h)
  BY <1>1 DEF Orphan, CloseStop, TypeOK
<1>2. ASSUME Trespass PROVE Trespass'
  <2>1. CASE panics # {}
    BY <2>1 DEF Trespass, CloseStop
  <2>2. CASE stop[g]
    BY <2>2 DEF Trespass, CloseStop
  <2>3. ASSUME NEW h \in Hubs, DoubleCloseComing(h), h # g
        PROVE  Trespass'
    BY <2>3 DEF Trespass, DoubleCloseComing, CloseStop, TypeOK
  <2>4. CASE DoubleCloseComing(g) /\ ~stop[g]
    <3>1. PICK y \in Closers(g), z \in Closers(g) : y # z
      BY <2>4 DEF DoubleCloseComing
    <3>2. \E w \in Closers(g)' : TRUE
      BY <3>1
    <3>3. stop'[g]
      BY DEF CloseStop, TypeOK
    <3> QED BY <3>2, <3>3 DEF Trespass, DoubleCloseComing
  <2> QED BY <1>2, <2>1, <2>2, <2>3, <2>4 DEF Trespass
<1> QED BY <1>1, <1>2 DEF OrphanImpliesDoubleClose, Orphan, Trespass

\* The idle path takes h out of the map: only when the map held another hub
\* does that hub become an orphan, and then h has a closer already, has been
\* stopped, or was an orphan itself.
LEMMA OrphanIdle ==
  ASSUME OrphanImpliesDoubleClose, MapInv, MapInv', NEW h \in Hubs, IdleRemove(h)
  PROVE  OrphanImpliesDoubleClose'
<1> USE RoomsAssumption, NoHubAssumption, HandlersAssumption
<1>a. TypeOK /\ TypeOK'
  BY DEF MapInv
<1>1. CASE clients[h] # {}
  <2>1. UNCHANGED <<hubs, stop, panics>> /\ \A g \in Hubs : Closers(g)' = Closers(g)
    BY <1>1, <1>a DEF IdleRemove, Closers, TypeOK, Hubs, delVars
  <2>2. \A g \in Hubs : run[g] = "unborn" => run'[g] = "unborn"
    BY <1>1, <1>a DEF IdleRemove, TypeOK, Hubs
  <2>3. \A g \in Hubs : run'[g] = "unborn" => run[g] = "unborn"
    BY <1>1, <1>a DEF IdleRemove, TypeOK, Hubs
  <2>4. \A g \in Hubs : Orphan(g)' => Orphan(g)
    BY <2>1, <2>2 DEF Orphan
  <2> QED BY <1>a, <2>1, <2>4, OrphanKept
<1>2. CASE clients[h] = {}
  <2>1. /\ hubs' = [hubs EXCEPT ![RoomOf[h]] = NoHub]
        /\ run' = [run EXCEPT ![h] = "idleClosing"]
        /\ run[h] = "idleLocking"
        /\ UNCHANGED <<stop, panics, del, delHub>>
    BY <1>2 DEF IdleRemove, delVars
  <2>2. \A g \in Hubs : Closers(g)' = Closers(g) \cup (IF g = h THEN {h} ELSE {})
    BY <2>1, <1>a DEF Closers, TypeOK, Hubs
  <2>3. CASE hubs[RoomOf[h]] \in {h, NoHub}
    <3>1. ASSUME NEW g \in Hubs, Orphan(g)' PROVE Orphan(g)
      <4>1. g # h
        BY <3>1, <2>2 DEF Orphan
      <4>2. hubs[RoomOf[g]] # g
        BY <4>1, <2>1, <2>3, <3>1, <1>a DEF Orphan, TypeOK, Hubs
      <4> QED BY <3>1, <4>1, <4>2, <2>1, <2>2, <1>a DEF Orphan, TypeOK, Hubs
    <3> QED BY <1>a, <2>1, <2>2, <3>1, OrphanKept
  <2>4. CASE hubs[RoomOf[h]] # h
    <3>1. CASE stop[h] \/ Closers(h) # {}
      <4>1. h \notin Closers(h)
        BY <2>1, HandlersAssumption DEF Closers, Hubs
      <4>2. DoubleCloseComing(h)'
        BY <3>1, <4>1, <2>1, <2>2 DEF DoubleCloseComing
      <4> QED BY <4>2 DEF OrphanImpliesDoubleClose
    <3>2. CASE ~stop[h] /\ Closers(h) = {}
      <4>1. Orphan(h)
        BY <2>1, <2>4, <3>2 DEF Orphan
      <4>2. Trespass
        BY <4>1 DEF OrphanImpliesDoubleClose, Orphan, Trespass
      <4>3. Trespass'
        BY <4>2, <2>1, <2>2 DEF Trespass, DoubleCloseComing
      <4> QED BY <4>3 DEF OrphanImpliesDoubleClose, Trespass
    <3> QED BY <3>1, <3>2
  <2> QED BY <2>3, <2>4
<1> QED BY <1>1, <1>2

\* A connection makes no orphan: the hub it makes is in the map.
LEMMA OrphanConn ==
  ASSUME OrphanImpliesDoubleClose, MapInv, MapInv', NEW c \in Conns, ConnNext(c)
  PROVE  OrphanImpliesDoubleClose'
<1> USE RoomsAssumption, NoHubAssumption
<1>a. TypeOK /\ TypeOK'
  BY DEF MapInv
<1>1. CASE GetOrCreateHub(c)
  <2>1. UNCHANGED <<stop, panics>> /\ \A h \in Hubs : Closers(h)' = Closers(h)
    BY <1>1, <1>a DEF GetOrCreateHub, Closers, TypeOK, Hubs, MapInv, UnbornHubs, delVars
  <2>2. \A h \in Hubs : Orphan(h)' => Orphan(h)
    BY <1>1, <1>a, <2>1 DEF GetOrCreateHub, Orphan, TypeOK, Hubs
  <2> QED BY <1>a, <2>1, <2>2, OrphanKept
<1>2. CASE Connect(c) \/ ReadEnds(c) \/ SkipUnregister(c) \/ WritePumpEnds(c)
  <2>1. UNCHANGED <<hubs, run, stop, del, delHub, panics>>
    BY <1>2 DEF Connect, ReadEnds, SkipUnregister, WritePumpEnds, mgrVars, delVars
  <2> QED BY <2>1 DEF OrphanImpliesDoubleClose, DoubleCloseComing, Closers
<1> QED BY <1>1, <1>2 DEF ConnNext

\* The steps of a hub; its idle path has lemmas of its own.
LEMMA OrphanHub ==
  ASSUME OrphanImpliesDoubleClose, MapInv, MapInv', NEW h \in Hubs, HubNext(h)
  PROVE  OrphanImpliesDoubleClose'
<1> USE RoomsAssumption, NoHubAssumption
<1>a. TypeOK /\ TypeOK'
  BY DEF MapInv
<1>1. CASE HubStarts(h) \/ HubStops(h) \/ IdleCheck(h)
  <2>1. /\ UNCHANGED <<hubs, stop, del, delHub, panics>>
        /\ run[h] \in {"starting", "loop"}
        /\ run' = [run EXCEPT ![h] = run'[h]] /\ run'[h] \in {"loop", "exited", "idleLocking"}
    BY <1>1, <1>a DEF HubStarts, HubStops, IdleCheck, delVars, TypeOK, Hubs
  <2>2. \A g \in Hubs : Closers(g)' = Closers(g)
    BY <1>a, <2>1 DEF Closers, TypeOK, Hubs
  <2>3. \A g \in Hubs : Orphan(g)' => Orphan(g)
    BY <1>a, <2>1, <2>2 DEF Orphan, TypeOK, Hubs
  <2> QED BY <1>a, <2>1, <2>2, <2>3, OrphanKept
<1>2. CASE IdleRemove(h)
  BY <1>2, OrphanIdle
<1>3. CASE IdleClose(h)
  <2>1. CloseStop(h, "process") /\ UNCHANGED <<hubs, del, delHub>>
    BY <1>3 DEF IdleClose, delVars
  <2>2. run[h] = "idleClosing" /\ run' = [run EXCEPT ![h] = "exited"]
    BY <1>3 DEF IdleClose
  <2>3. \A g \in Hubs : Closers(g)' = Closers(g) \ (IF g = h THEN {h} ELSE {})
    BY <1>a, <2>1, <2>2, HandlersAssumption DEF Closers, TypeOK, Hubs
  <2>4. \A g \in Hubs : hubs'[RoomOf[g]] = hubs[RoomOf[g]] /\ (run[g] = "unborn" <=> run'[g] = "unborn")
    BY <1>a, <2>1, <2>2 DEF TypeOK, Hubs
  <2> QED BY <1>a, <2>1, <2>3, <2>4, OrphanClose
<1>4. ASSUME NEW slow \in SUBSET clients[h],
             HubBroadcasts(h, slow) \/ \E c \in Conns : HubRegisters(h, c, slow) \/ HubUnregisters(h, c, slow)
      PROVE  OrphanImpliesDoubleClose'
  <2>1. UNCHANGED <<hubs, run, stop, del, delHub, panics>>
    BY <1>4 DEF HubBroadcasts, HubRegisters, HubUnregisters, mgrVars, delVars
  <2> QED BY <2>1 DEF OrphanImpliesDoubleClose, DoubleCloseComing, Closers
<1> QED BY <1>1, <1>2, <1>3, <1>4 DEF HubNext

\* RemoveHub is a closer of the hub it takes out of the map.
LEMMA OrphanDeleter ==
  ASSUME OrphanImpliesDoubleClose, MapInv, MapInv', NEW d \in Deleters, DeleterNext(d)
  PROVE  OrphanImpliesDoubleClose'
<1> USE RoomsAssumption, NoHubAssumption
<1>a. TypeOK /\ TypeOK'
  BY DEF MapInv
<1>1. CASE DeleteStore(d) \/ \E r \in Rooms : DeleteCheck(d, r)
  <2>1. UNCHANGED <<hubs, run, stop, delHub, panics>>
    BY <1>1 DEF DeleteStore, DeleteCheck
  <2>2. \A h \in Hubs : Closers(h)' = Closers(h)
    BY <1>1, <1>a, <2>1 DEF DeleteStore, DeleteCheck, Closers, TypeOK
  <2> QED BY <2>1, <2>2 DEF OrphanImpliesDoubleClose, DoubleCloseComing
<1>2. CASE RemoveHub(d)
  <2>1. UNCHANGED <<run, stop, panics>> /\ \A h \in Hubs : Closers(h) \subseteq Closers(h)'
    BY <1>2, <1>a DEF RemoveHub, Closers, TypeOK
  <2>2. ASSUME NEW h \in Hubs, Orphan(h)', hubs[RoomOf[h]] = h PROVE FALSE
    <3>1. hubs[delRoom[d]] = h
      BY <1>2, <1>a, <2>2 DEF RemoveHub, Orphan, TypeOK, Hubs
    <3>2. d \in Closers(h)'
      BY <1>2, <1>a, <3>1 DEF RemoveHub, Closers, TypeOK, Hubs
    <3> QED BY <2>2, <3>2 DEF Orphan
  <2>3. ASSUME NEW h \in Hubs, Orphan(h)' PROVE Orphan(h)
    BY <2>1, <2>2, <2>3 DEF Orphan
  <2> QED BY <1>a, <2>1, <2>3, OrphanKept
<1>3. CASE RemoveHubClose(d)
  <2>1. /\ CloseStop(delHub[d], "handler") /\ UNCHANGED <<hubs, run, delHub>>
        /\ del[d] = "closing" /\ del' = [del EXCEPT ![d] = "idle"]
    BY <1>3 DEF RemoveHubClose
  <2>2. delHub[d] \in Hubs
    BY <2>1 DEF MapInv, RemovedHubsUnmapped
  <2>3. \A h \in Hubs : Closers(h)' = Closers(h) \ (IF h = delHub[d] THEN {d} ELSE {})
    BY <1>a, <2>1, HandlersAssumption DEF Closers, TypeOK, Hubs
  <2> QED BY <1>a, <2>1, <2>2, <2>3, OrphanClose
<1> QED BY <1>1, <1>2, <1>3 DEF DeleterNext

\* ShutdownAll closes each hub it takes out of the map.
LEMMA OrphanShutdown ==
  ASSUME OrphanImpliesDoubleClose, MapInv, MapInv', ShutdownNext
  PROVE  OrphanImpliesDoubleClose'
<1> USE RoomsAssumption, NoHubAssumption
<1>a. TypeOK /\ TypeOK'
  BY DEF MapInv
<1>1. CASE ShutdownBegin \/ ShutdownEnd \/ ShutdownListener \/ ShutdownReturn
  <2>1. UNCHANGED <<hubs, run, stop, del, delHub, panics>>
    BY <1>1 DEF ShutdownBegin, ShutdownEnd, ShutdownListener, ShutdownReturn, delVars
  <2> QED BY <2>1 DEF OrphanImpliesDoubleClose, DoubleCloseComing, Closers
<1>2. ASSUME NEW r \in Rooms, ShutdownClose(r)
      PROVE  OrphanImpliesDoubleClose'
  <2>1. UNCHANGED <<run, del, delHub>> /\ hubs[r] \in Hubs /\ CloseStop(hubs[r], "process")
    BY <1>2, <1>a DEF ShutdownClose, delVars, TypeOK
  <2>2. \A h \in Hubs : Closers(h)' = Closers(h)
    BY <2>1 DEF Closers
  <2>3. ASSUME NEW h \in Hubs, Orphan(h)' PROVE Orphan(h)
    BY <1>2, <1>a, <2>1, <2>2, <2>3 DEF ShutdownClose, CloseStop, Orphan, TypeOK, Hubs
  <2>4. panics \subseteq panics' /\ \A h \in Hubs : stop[h] => stop'[h]
    BY <1>a, <2>1 DEF CloseStop, TypeOK
  <2> QED BY <1>a, <2>2, <2>3, <2>4, OrphanKept
<1> QED BY <1>1, <1>2 DEF ShutdownNext

\* Orphans: any step.
LEMMA OrphanStep ==
  OrphanImpliesDoubleClose /\ MapInv /\ MapInv' /\ [Next]_vars => OrphanImpliesDoubleClose'
<1> SUFFICES ASSUME OrphanImpliesDoubleClose, MapInv, MapInv', [Next]_vars
             PROVE  OrphanImpliesDoubleClose'
  OBVIOUS
<1>1. CASE UNCHANGED vars
  BY <1>1 DEF vars, OrphanImpliesDoubleClose, DoubleCloseComing, Closers
<1>2. CASE Next
  BY <1>2, OrphanConn, OrphanHub, OrphanDeleter, OrphanShutdown DEF Next
<1> QED BY <1>1, <1>2

\* A hub that nobody will stop exists only where stop channels are closed
\* twice.
THEOREM OrphansComeFromDoubleClose == Spec => []OrphanImpliesDoubleClose
  BY OrphanInit, OrphanStep, MapCorrect, PTL DEF Spec
=============================================================================

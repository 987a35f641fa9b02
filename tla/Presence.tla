------------------------------ MODULE Presence ------------------------------
(***************************************************************************)
(* Who is online in a room, as Redis has it (pkg/redis/presence.go): a set *)
(* of users and, for each, a key with a time to live.  The hubs of several *)
(* servers change both when a connection registers, unregisters or is      *)
(* evicted (server/handler/hub.go), each ping extends the key              *)
(* (server/handler/ws_client.go), and a reader takes users without a key   *)
(* out of the set.  Users and rooms do not affect each other, so the       *)
(* module has one of each.                                                 *)
(*                                                                         *)
(* A pipeline is not a transaction: its commands are carried out one by    *)
(* one, among those of other connections.  A unit of time is the period of *)
(* the pings, far longer than a pipeline.                                  *)
(***************************************************************************)
EXTENDS Naturals, Sequences

CONSTANTS
    Servers,
    Clients,     \* the user's connections (tabs, devices), used again and again
    HomeOf,      \* the server of each
    TTL          \* presenceTTL (5 minutes)

\* A key outlives a ping that comes as late as it may: the pings are 54 seconds
\* apart.
PresenceAssumption == HomeOf \in [Clients -> Servers] /\ TTL \in Nat /\ TTL >= 2

VARIABLES
    conn,        \* how far each connection is
    todo,        \* the commands that a server's hub has yet to see carried out
    member,      \* the user is in presence:room
    ttl,         \* time left to presence:user, 0 if there is no such key
    pinged,      \* connections whose ping was in this unit of time
    reader,      \* where GetOnlineUsers stands
    quiet,       \* history: time since there was a connection, up to TTL
    excused      \* history: why he may be missing though he is connected

online == <<conn, todo, member, ttl, pinged, reader, quiet, excused>>

Commands == {"sadd", "set", "srem", "del"}

PresenceTypeOK ==
    /\ conn \in [Clients -> {"out", "open", "lost", "evicted"}]
    /\ todo \in [Servers -> {<<>>} \cup {<<x>> : x \in Commands} \cup (Commands \X Commands)]
    /\ member \in BOOLEAN /\ ttl \in 0..TTL
    /\ pinged \subseteq Clients
    /\ reader \in {"idle", "members", "stale"}
    /\ quiet \in 0..TTL /\ excused \in BOOLEAN

PresenceInit ==
    /\ conn = [c \in Clients |-> "out"]
    /\ todo = [s \in Servers |-> <<>>]
    /\ member = FALSE /\ ttl = 0
    /\ pinged = {}
    /\ reader = "idle"
    /\ quiet = TTL /\ excused = FALSE

\* The client is in the Clients of its hub.
InHub(c) == conn[c] \in {"open", "lost"}

Connected == {c \in Clients : conn[c] = "open"}

\* Its pumps may be running.
Alive(c) == conn[c] \in {"open", "evicted"}

Removing == \E s \in Servers : todo[s] # <<>> /\ Head(todo[s]) \in {"srem", "del"}

SetOnline(s) == todo' = [todo EXCEPT ![s] = <<"sadd", "set">>]
SetOffline(s) == todo' = [todo EXCEPT ![s] = <<"srem", "del">>]

\* The hub of a server is at its select.
AtSelect(s) == todo[s] = <<>>

---------------------------------------------------------------------------
(* hub.go.                                                                 *)

Register(c) ==
    /\ AtSelect(HomeOf[c])
    /\ conn[c] = "out"
    /\ conn' = [conn EXCEPT ![c] = "open"]
    /\ pinged' = pinged \cup {c}
    /\ SetOnline(HomeOf[c])
    /\ quiet' = 0
    /\ UNCHANGED <<member, ttl, reader, excused>>

\* Mutant: the user's other tabs are not looked at (#171).
UnregisterOne(c) ==
    /\ AtSelect(HomeOf[c])
    /\ Alive(c)
    /\ conn' = [conn EXCEPT ![c] = "out"]
    /\ SetOffline(HomeOf[c])
    /\ UNCHANGED <<member, ttl, pinged, reader, quiet, excused>>

Unregister(c) ==
    /\ AtSelect(HomeOf[c])
    /\ Alive(c)
    /\ conn' = [conn EXCEPT ![c] = "out"]
    /\ IF \E d \in Clients \ {c} : InHub(d) /\ HomeOf[d] = HomeOf[c]
         THEN UNCHANGED todo
         ELSE SetOffline(HomeOf[c])
    /\ UNCHANGED <<member, ttl, pinged, reader, quiet, excused>>

\* readPump gives up after hubSendTimeout.
UnregisterTimeout(c) ==
    /\ Alive(c)
    /\ conn' = [conn EXCEPT ![c] = IF @ = "open" THEN "lost" ELSE "out"]
    /\ UNCHANGED <<todo, member, ttl, pinged, reader, quiet, excused>>

\* broadcastLocal finds Send full; no other tab is looked at here.
Evict(c) ==
    /\ AtSelect(HomeOf[c])
    /\ InHub(c)
    /\ conn' = [conn EXCEPT ![c] = IF @ = "open" THEN "evicted" ELSE "out"]
    /\ SetOffline(HomeOf[c])
    /\ excused' = (excused \/ Connected \ {c} # {})
    /\ UNCHANGED <<member, ttl, pinged, reader, quiet>>

\* closeAllClients, or the end of the server: nothing is said to Redis.
Stop(s) ==
    /\ \E c \in Clients : HomeOf[c] = s /\ conn[c] # "out"
    /\ conn' = [c \in Clients |-> IF HomeOf[c] = s THEN "out" ELSE conn[c]]
    /\ todo' = [todo EXCEPT ![s] = <<>>]
    /\ UNCHANGED <<member, ttl, pinged, reader, quiet, excused>>

---------------------------------------------------------------------------
(* presence.go.                                                            *)

Execute(s, command) ==
    /\ todo[s] # <<>>
    /\ Head(todo[s]) = command
    /\ todo' = [todo EXCEPT ![s] = Tail(@)]
    /\ UNCHANGED <<conn, pinged, reader, quiet>>

Sadd(s) ==
    /\ Execute(s, "sadd")
    /\ member' = TRUE
    /\ UNCHANGED <<ttl, excused>>

\* From here on he is to be listed, unless a removal has come between the two
\* or is on its way.
Set(s) ==
    /\ Execute(s, "set")
    /\ ttl' = TTL
    /\ excused' = (excused /\ (Removing \/ ~member))
    /\ UNCHANGED member

ConnectedElsewhere(s) == \E c \in Connected : HomeOf[c] # s

Srem(s) ==
    /\ Execute(s, "srem")
    /\ member' = FALSE
    /\ excused' = (excused \/ ConnectedElsewhere(s))
    /\ UNCHANGED ttl

Del(s) ==
    /\ Execute(s, "del")
    /\ ttl' = 0
    /\ excused' = (excused \/ ConnectedElsewhere(s))
    /\ UNCHANGED member

\* The pipeline fails, at once or half-way; the hub goes on.
Fail(s) ==
    /\ todo[s] # <<>>
    /\ todo' = [todo EXCEPT ![s] = <<>>]
    /\ excused' = (excused \/ Connected # {})
    /\ UNCHANGED <<conn, member, ttl, pinged, reader, quiet>>

\* writePump: RefreshOnline is an EXPIRE, which revives no key.
Ping(c) ==
    /\ Alive(c) /\ c \notin pinged
    /\ pinged' = pinged \cup {c}
    /\ ttl' = IF ttl = 0 THEN 0 ELSE TTL
    /\ UNCHANGED <<conn, todo, member, reader, quiet, excused>>

PingFails(c) ==
    /\ conn[c] = "open" /\ c \notin pinged
    /\ pinged' = pinged \cup {c}
    /\ excused' = TRUE
    /\ UNCHANGED <<conn, todo, member, ttl, reader, quiet>>

\* GetOnlineUsers: SMEMBERS, EXISTS, and SREM of those without a key.
Members ==
    /\ reader = "idle" /\ member
    /\ reader' = "members"
    /\ UNCHANGED <<conn, todo, member, ttl, pinged, quiet, excused>>

Exists ==
    /\ reader = "members"
    /\ reader' = IF ttl = 0 THEN "stale" ELSE "idle"
    /\ UNCHANGED <<conn, todo, member, ttl, pinged, quiet, excused>>

RemoveStale ==
    /\ reader = "stale"
    /\ reader' = "idle"
    /\ member' = FALSE
    /\ excused' = (excused \/ Connected # {})
    /\ UNCHANGED <<conn, todo, ttl, pinged, quiet>>

\* A unit of time passes: every open connection was pinged once, and no
\* pipeline lasts as long.
PresenceTick ==
    /\ Connected \subseteq pinged /\ \A s \in Servers : todo[s] = <<>>
    /\ pinged' = {}
    /\ ttl' = IF ttl = 0 THEN 0 ELSE ttl - 1
    /\ quiet' = IF \E c \in Clients : Alive(c) THEN 0
                ELSE IF quiet < TTL THEN quiet + 1 ELSE TTL
    /\ UNCHANGED <<conn, todo, member, reader, excused>>

PresenceNext ==
    \/ PresenceTick \/ Members \/ Exists \/ RemoveStale
    \/ \E c \in Clients : \/ Register(c) \/ Unregister(c) \/ UnregisterTimeout(c)
                          \/ Evict(c) \/ Ping(c) \/ PingFails(c)
    \/ \E s \in Servers : Stop(s) \/ Sadd(s) \/ Set(s) \/ Srem(s) \/ Del(s) \/ Fail(s)

PresenceSpec == PresenceInit /\ [][PresenceNext]_online

---------------------------------------------------------------------------
(* Properties.                                                             *)

\* What GetOnlineUsers answers.
Listed == member /\ ttl > 0

\* The list errs only where it must.  A user who has left is listed for no
\* longer than the time to live, whatever was lost.  A user who is connected
\* is missing only if another server took its own last connection of him, or
\* an evicted one, for his last; if a reader removed him on what it had read
\* before; or if a call failed.
PresenceNeedsCause ==
    /\ Listed => quiet < TTL \/ \E c \in Clients : Alive(c)
    /\ Connected # {} /\ (\A s \in Servers : todo[s] = <<>>) => Listed \/ excused
=============================================================================

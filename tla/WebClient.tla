----------------------------- MODULE WebClient -----------------------------
(***************************************************************************)
(* One tab of the web client (frontend/src): the hook useWebSocket with    *)
(* its offline queue and reconnections, the store of messages chatStore,   *)
(* and what ChatRoom, MessageInput and MessageList do with them.  Beside   *)
(* it, as far as the tab can see it, the server: the connections of the    *)
(* tab, the documents of the rooms, and the events under way.              *)
(*                                                                         *)
(* The tab is single-threaded: an action of it is one callback.  Typing    *)
(* events and search leave no message behind and are left out.             *)
(***************************************************************************)
EXTENDS Filters

CONSTANTS
    Rooms,
    MaxTexts,      \* bound: texts that the user of the tab sends
    Peers,         \* messages sent from elsewhere, by any user
    Files,         \* files that the user of the tab uploads
    HistoryLimit,  \* the limit of FindChatByRoom (100)
    MaxSelects,    \* bound: times that the user opens a room
    MaxLosses,     \* bound: times that a connection is lost
    MaxChanges,    \* bound: edits and deletions
    Repeats,       \* messages of which the broker hands one event on twice
    None

ASSUME ClientAssumption ==
    /\ {MaxTexts, HistoryLimit, MaxSelects, MaxLosses, MaxChanges} \subseteq Nat
    /\ None \notin Rooms
    \* Each names other messages.
    /\ 1..MaxTexts \cap (Peers \cup Files) = {} /\ Peers \cap Files = {}
    /\ Repeats \subseteq 1..MaxTexts \cup Peers \cup Files

Texts == 1..MaxTexts
Bodies == Texts \cup Peers \cup Files

\* The id of a message as the client sees it: that of its document, the one
\* made for its broadcast, or one that the client makes up.
Ids == {"doc", "live", "fresh"}

VARIABLES
    room,      \* currentRoom, or None
    ws,        \* wsRef: number of a connection, or 0
    open,      \* its readyState is OPEN
    timer,     \* a reconnection is scheduled
    queue,     \* the offline queue in sessionStorage
    messages,  \* chatStore: the messages of each room
    lists,     \* api.messages.list calls under way
    answers,   \* edits and deletions of this tab that the server has done
    uploads,   \* state of each upload: "none", "stored" or "over"
    written,   \* the room that each body was written for, or None
    conns,     \* the connections of the tab, and what is under way on them
    docs,      \* the documents of each room, in the order of created_at
    unsaved,   \* messages on their way through the insert queue
    outbox,    \* events on their way to the hubs
    arrived,   \* history: what readPump has read for each room
    sends,     \* history: what sendMessage was called for, in order
    excused,   \* history: messages, not files, that the tab has missed or overwritten
    missed,    \* history: messages whose change the tab has missed
    selects, losses, changes,
    repeated   \* messages of which an event has been kept to come again

tabVars == <<room, ws, open, timer>>
srvVars == <<docs, unsaved, outbox, arrived>>
bounds  == <<selects, losses, changes, repeated>>
vars == <<tabVars, queue, messages, lists, answers, uploads, written, conns,
          srvVars, sends, excused, missed, bounds>>

\* The state of a message: 0 as written, n after the n-th change if that was
\* an edit, Deleted.
Deleted  == MaxChanges + 1
States   == 0..Deleted
Entries  == [body : Bodies, id : Ids, state : States]
Payloads == [body : Bodies, room : Rooms]
Docs     == [body : Bodies, state : States]
Events   == [room : Rooms, ev : {"MSG", "MSG_EDIT", "MSG_DELETE"}, body : Bodies, id : Ids,
             state : States]
Downs    == [ev : {"CHATLOG", "MSG", "MSG_EDIT", "MSG_DELETE"}, body : Bodies, id : Ids,
             state : States]
Phases   == {"requested", "fetched", "listed", "gone"}
Sockets  == [room : Rooms, phase : Phases, up : Seq(Payloads), down : Seq(Downs)]
Calls    == [n : 1..MaxSelects, room : Rooms, snap : {<<None>>} \cup Seq(Entries)]

TypeOK ==
    /\ room \in Rooms \cup {None}
    /\ ws \in 0..Len(conns) /\ open \in BOOLEAN /\ timer \in BOOLEAN
    /\ queue \in Seq(Payloads)
    /\ messages \in [Rooms -> Seq(Entries)]
    /\ lists \subseteq Calls
    /\ answers \subseteq [room : Rooms, body : Bodies, state : States]
    /\ uploads \in [Files -> {"none", "stored", "over"}]
    /\ written \in [Bodies -> Rooms \cup {None}]
    /\ conns \in Seq(Sockets)
    /\ docs \in [Rooms -> Seq(Docs)]
    /\ unsaved \subseteq Payloads /\ outbox \subseteq Events
    /\ arrived \in [Rooms -> Seq([body : Bodies, conn : Nat])]
    /\ sends \in Seq(Texts \cup Files)
    /\ excused \subseteq Bodies /\ missed \subseteq Bodies
    /\ selects \in 0..MaxSelects /\ losses \in 0..MaxLosses /\ changes \in 0..MaxChanges
    /\ repeated \subseteq Repeats

Init ==
    /\ room = None /\ ws = 0 /\ open = FALSE /\ timer = FALSE
    /\ queue = <<>>
    /\ messages = [r \in Rooms |-> <<>>]
    /\ lists = {} /\ answers = {}
    /\ uploads = [f \in Files |-> "none"]
    /\ written = [b \in Bodies |-> None]
    /\ conns = <<>>
    /\ docs = [r \in Rooms |-> <<>>]
    /\ unsaved = {} /\ outbox = {}
    /\ arrived = [r \in Rooms |-> <<>>]
    /\ sends = <<>>
    /\ excused = {} /\ missed = {}
    /\ selects = 0 /\ losses = 0 /\ changes = 0 /\ repeated = {}

---------------------------------------------------------------------------
(* The store: chatStore.ts.                                                *)

Has(list, b, id) == \E i \in DOMAIN list : list[i].body = b /\ list[i].id = id

\* Mutant: the store does not look for the id.
AppendMessage(list, e) == Append(list, e)

\* An id that the client makes up is in no list.
AddMessage(list, e) ==
    IF e.id # "fresh" /\ Has(list, e.body, e.id) THEN list ELSE Append(list, e)

\* Mutant: an edit brings a deleted message back.
ReviveMessage(list, b, id, s) ==
    [i \in DOMAIN list |->
       IF list[i].body = b /\ list[i].id = id THEN [list[i] EXCEPT !.state = s] ELSE list[i]]

\* updateMessage and deleteMessage.  MessageList shows a deleted message as
\* deleted whatever its text has become.
ChangeMessage(list, b, id, s) ==
    [i \in DOMAIN list |->
       IF list[i].body = b /\ list[i].id = id /\ list[i].state # Deleted
         THEN [list[i] EXCEPT !.state = s] ELSE list[i]]

---------------------------------------------------------------------------
(* The server as the tab sees it.                                          *)

StateOf(r, b) ==
    LET i == CHOOSE i \in DOMAIN docs[r] : docs[r][i].body = b IN docs[r][i].state

Stored(r) == {docs[r][i].body : i \in DOMAIN docs[r]}

\* FindChatByRoom: sorted by created_at, without the deleted, cut at the limit:
\* the oldest.
Kept(r) == OnlyIn(docs[r], [body : Bodies, state : States \ {Deleted}])

History(r) ==
    [i \in 1..(IF Len(Kept(r)) < HistoryLimit THEN Len(Kept(r)) ELSE HistoryLimit) |->
       [body |-> Kept(r)[i].body, id |-> "doc", state |-> Kept(r)[i].state]]

Shown(list) == {list[i].body : i \in DOMAIN list}

MsgEvent(r, b, id) == [room |-> r, ev |-> "MSG", body |-> b, id |-> id, state |-> 0]
NewState(ev) == IF ev = "MSG_EDIT" THEN changes + 1 ELSE Deleted

\* The changes among the events of a connection that goes.
Undelivered(c) ==
    {conns[c].down[i].body :
       i \in {j \in DOMAIN conns[c].down : conns[c].down[j].ev \in {"MSG_EDIT", "MSG_DELETE"}}}

\* The new messages among the events for room r.
NewOut(r) == {e.body : e \in {d \in outbox : d.ev = "MSG" /\ d.room = r}}

\* The tab shows room r, and its connection has the history behind it.
Watching(r) == room = r /\ ws # 0 /\ conns[ws].phase \in {"fetched", "listed"}

\* What the tab has missed once the event of message b in room r is lost.  A file
\* has no document.
Missing(b, r) == IF Watching(r) /\ b \notin Files THEN {b} ELSE {}

\* The history on its way to the tab.
Log(r) ==
    [i \in DOMAIN History(r) |->
       [ev |-> "CHATLOG", body |-> History(r)[i].body, id |-> "doc",
        state |-> History(r)[i].state]]

\* RoomWebSocket: the upgrade and the history (nothing is read from the
\* connection in between), which is left out when the query fails; then Register.
\* A message that was broadcast and is not stored yet is in neither; one beyond the
\* limit is not in the history.
FetchHistory(c) ==
    /\ conns[c].phase = "requested"
    /\ \E log \in {Log(conns[c].room), <<>>} :
         LET r == conns[c].room
             stored == Shown(Kept(r)) \cup {p.body : p \in {u \in unsaved : u.room = r}}
             coming == Shown(log) \cup Shown(messages[r]) \cup NewOut(r)
         IN  /\ conns' = [conns EXCEPT ![c].phase = "fetched",
                                       ![c].down = IF ws = c THEN log ELSE <<>>]
             /\ excused' = IF ws = c THEN excused \cup (stored \ coming) ELSE excused
    /\ UNCHANGED <<tabVars, queue, messages, lists, answers, uploads, written, srvVars,
                   missed, bounds, sends>>

Register(c) ==
    /\ conns[c].phase = "fetched"
    /\ conns' = [conns EXCEPT ![c].phase = "listed"]
    /\ UNCHANGED <<tabVars, queue, messages, lists, answers, uploads, written, srvVars,
                   excused, missed, bounds, sends>>

\* readPump: the room is that of the connection.  A file is not stored; what is
\* refused (rate, length, a full queue) goes nowhere; and once the hub has stopped,
\* what the insert queue took is not broadcast and readPump returns.
ServerReads(c) ==
    /\ conns[c].phase = "listed" /\ conns[c].up # <<>>
    /\ LET b == Head(conns[c].up).body
           r == conns[c].room
           rest == Tail(conns[c].up)
           taken == IF b \in Files THEN unsaved ELSE unsaved \cup {[body |-> b, room |-> r]}
           goesOn == [conns EXCEPT ![c].up = rest,
                        ![c].phase = IF ws # c /\ rest = <<>> THEN "gone" ELSE @]
       IN  /\ arrived' = [arrived EXCEPT ![r] = Append(@, [body |-> b, conn |-> c])]
           /\ \/ /\ unsaved' = taken
                 /\ outbox' = outbox \cup {MsgEvent(r, b, "live")}
                 /\ conns' = goesOn /\ UNCHANGED excused
              \/ conns' = goesOn /\ UNCHANGED <<unsaved, outbox, excused>>
              \/ /\ unsaved' = taken
                 /\ conns' = [conns EXCEPT ![c].up = <<>>, ![c].phase = "gone"]
                 /\ excused' = excused \cup (IF ws # c THEN Missing(b, r) ELSE {})
                 /\ UNCHANGED outbox
    /\ UNCHANGED <<tabVars, queue, messages, lists, answers, uploads, written, docs,
                   missed, bounds, sends>>

\* An insert worker, whose InsertMany may fail.
Store(u) ==
    /\ u \in unsaved
    /\ unsaved' = unsaved \ {u}
    /\ \/ docs' = [docs EXCEPT ![u.room] = Append(@, [body |-> u.body, state |-> 0])]
       \/ UNCHANGED docs
    /\ UNCHANGED <<tabVars, queue, messages, lists, answers, uploads, written, conns,
                   outbox, arrived, excused, missed, bounds, sends>>

\* The event of the last change of a message is on its way to the tab.
Coming(r, b) ==
    LET Changes(e) == e.body = b /\ e.ev \in {"MSG_EDIT", "MSG_DELETE"} /\ e.state = StateOf(r, b)
    IN  \/ \E o \in outbox : Changes(o)
        \/ ws # 0 /\ \E i \in DOMAIN conns[ws].down : Changes(conns[ws].down[i])

\* State s of a message is shown after a later one, which will not come again.
\* No edit is shown after a deletion.
Overtaken(r, b, s) ==
    /\ StateOf(r, b) \notin {s, Deleted}
    /\ ~Coming(r, b)

\* The hub hands an event to the tab's connection, if it lists it.  Handlers
\* bring their events to the hub in any order, and the broker may hand one on
\* twice: the event stays, to come again.
Broadcast(e) ==
    /\ e \in outbox
    /\ \/ outbox' = outbox \ {e} /\ UNCHANGED repeated
       \/ /\ e.body \in Repeats \ repeated
          /\ repeated' = repeated \cup {e.body}
          /\ UNCHANGED outbox
    /\ LET here   == ws # 0 /\ conns[ws].room = e.room
           listed == here /\ conns[ws].phase = "listed"
           change == e.ev # "MSG"
           swapped == /\ e.id = "doc" /\ e.state # StateOf(e.room, e.body)
                      /\ ~\E o \in outbox : o.body = e.body /\ o.state = StateOf(e.room, e.body)
                      /\ change => StateOf(e.room, e.body) # Deleted
           down   == [ev |-> e.ev, body |-> e.body, id |-> e.id, state |-> e.state]
       IN  /\ conns' = IF listed THEN [conns EXCEPT ![ws].down = Append(@, down)] ELSE conns
           /\ missed' = IF swapped \/ (change /\ ~listed) THEN missed \cup {e.body} ELSE missed
           /\ excused' = IF ~change /\ here /\ conns[ws].phase = "fetched" /\ e.body \notin Files
                           THEN excused \cup {e.body} ELSE excused
    /\ UNCHANGED <<tabVars, queue, messages, lists, answers, uploads, written, docs,
                   unsaved, arrived, selects, losses, changes, sends>>

\* An event that the tab's hub never hands out: its handler gives up after five
\* seconds, finds no hub or a stopped one; the hub stops before it takes it; or
\* Redis takes it, and the hub does not hear or its channel is full.
Drop(e) ==
    /\ e \in outbox
    /\ outbox' = outbox \ {e}
    /\ missed' = IF e.ev = "MSG" THEN missed ELSE missed \cup {e.body}
    /\ excused' = IF e.ev = "MSG" THEN excused \cup Missing(e.body, e.room) ELSE excused
    /\ UNCHANGED <<tabVars, queue, messages, lists, answers, uploads, written, conns, docs,
                   unsaved, arrived, bounds, sends>>

\* Another user, or this one in another tab, sends a text over a connection, whose
\* hub may have stopped, or a reply with ReplyMessageHandler.
PeerText(b, r) ==
    /\ b \in Peers /\ written[b] = None
    /\ written' = [written EXCEPT ![b] = r]
    /\ unsaved' = unsaved \cup {[body |-> b, room |-> r]}
    /\ \/ outbox' = outbox \cup {MsgEvent(r, b, "live")} /\ UNCHANGED excused
       \/ excused' = excused \cup Missing(b, r) /\ UNCHANGED outbox
    /\ UNCHANGED <<tabVars, queue, messages, lists, answers, uploads, conns, docs, arrived,
                   missed, bounds, sends>>

PeerReply(b, r) ==
    /\ b \in Peers /\ written[b] = None
    /\ written' = [written EXCEPT ![b] = r]
    /\ docs' = [docs EXCEPT ![r] = Append(@, [body |-> b, state |-> 0])]
    /\ outbox' = outbox \cup {MsgEvent(r, b, "doc")}
    /\ UNCHANGED <<tabVars, queue, messages, lists, answers, uploads, conns, unsaved, arrived,
                   excused, missed, bounds, sends>>

\* EditMessageHandler and DeleteMessageHandler: the document, then the event.
Change(r, b, ev) ==
    /\ changes < MaxChanges
    /\ b \in Stored(r) /\ StateOf(r, b) # Deleted
    /\ changes' = changes + 1
    /\ docs' = [docs EXCEPT ![r] =
                  [i \in DOMAIN @ |-> IF @[i].body = b THEN [@[i] EXCEPT !.state = NewState(ev)]
                                      ELSE @[i]]]
    /\ outbox' = outbox \cup {[room |-> r, ev |-> ev, body |-> b, id |-> "doc", state |-> NewState(ev)]}
    /\ UNCHANGED <<tabVars, queue, messages, lists, uploads, written, conns, unsaved,
                   arrived, excused, missed, selects, losses, repeated, sends>>

PeerChange(r, b, ev) == b \in Peers /\ Change(r, b, ev) /\ UNCHANGED answers

---------------------------------------------------------------------------
(* useWebSocket.                                                           *)

\* connect: a new socket for room r, after the connections cs.
Connect(cs, r) ==
    /\ conns' = Append(cs, [room |-> r, phase |-> "requested", up |-> <<>>, down |-> <<>>])
    /\ ws' = Len(cs) + 1

\* The socket is closed without onclose.  What it has sent is still read.
Detached ==
    IF ws = 0 THEN conns
    ELSE [conns EXCEPT ![ws].down = <<>>,
                       ![ws].phase = IF conns[ws].up = <<>> THEN "gone" ELSE @]

\* A room is opened: the effects of useWebSocket (clean-up, connect) and of
\* ChatRoom (list the messages).
Select(r) ==
    /\ selects < MaxSelects /\ r # room
    /\ selects' = selects + 1
    /\ room' = r
    /\ Connect(Detached, r)
    /\ open' = FALSE /\ timer' = FALSE
    /\ lists' = lists \cup {[n |-> selects + 1, room |-> r, snap |-> <<None>>]}
    /\ missed' = missed \cup (IF ws = 0 THEN {} ELSE Undelivered(ws))
    /\ UNCHANGED <<queue, messages, answers, uploads, written, srvVars, excused, losses, changes,
                   repeated, sends>>

\* leaveRoom and deleteRoom: no room is open.
Deselect ==
    /\ room # None
    /\ room' = None /\ ws' = 0 /\ open' = FALSE /\ timer' = FALSE
    /\ conns' = Detached
    /\ missed' = missed \cup (IF ws = 0 THEN {} ELSE Undelivered(ws))
    /\ UNCHANGED <<queue, messages, lists, answers, uploads, written, srvVars, excused, bounds, sends>>

\* The connection is lost, or the server closes it: onclose.  What the tab has
\* sent is lost, or still read.
Lose ==
    /\ losses < MaxLosses /\ ws # 0
    /\ losses' = losses + 1
    /\ conns' \in {Detached,
                   [conns EXCEPT ![ws].phase = "gone", ![ws].up = <<>>, ![ws].down = <<>>]}
    /\ missed' = missed \cup Undelivered(ws)
    /\ ws' = 0 /\ open' = FALSE /\ timer' = TRUE
    /\ UNCHANGED <<room, queue, messages, lists, answers, uploads, written, srvVars, excused,
                   selects, changes, repeated, sends>>

\* The scheduled connect().
Reconnect ==
    /\ timer /\ timer' = FALSE
    /\ Connect(conns, room)
    /\ UNCHANGED <<room, open, queue, messages, lists, answers, uploads, written, srvVars,
                   excused, missed, bounds, sends>>

\* Mutant: the queue is flushed whatever room its payloads are for.
FlushAll(q, r) == <<q, <<>>>>

\* flushOfflineQueue: what is sent, and what remains.
Flush(q, r) ==
    <<OnlyIn(q, [body : Bodies, room : {r}]), OnlyIn(q, [body : Bodies, room : Rooms \ {r}])>>

\* Mutant: the queue is flushed by the first connection only.
OpensFlushOnce ==
    /\ ws # 0 /\ ~open
    /\ conns[ws].phase # "requested"
    /\ open' = TRUE
    /\ conns' = [conns EXCEPT ![ws].up = IF ws = 1 THEN Flush(queue, room)[1] ELSE <<>>]
    /\ queue' = IF ws = 1 THEN Flush(queue, room)[2] ELSE queue
    /\ UNCHANGED <<room, ws, timer, messages, lists, answers, uploads, written, srvVars,
                   excused, missed, bounds, sends>>

\* onopen.
Opens ==
    /\ ws # 0 /\ ~open
    /\ conns[ws].phase # "requested"
    /\ open' = TRUE
    /\ conns' = [conns EXCEPT ![ws].up = Flush(queue, room)[1]]
    /\ queue' = Flush(queue, room)[2]
    /\ UNCHANGED <<room, ws, timer, messages, lists, answers, uploads, written, srvVars,
                   excused, missed, bounds, sends>>

\* sendMessage: the socket of the room that is open, whatever room p is for.
SendMessage(p) ==
    IF open
      THEN conns' = [conns EXCEPT ![ws].up = Append(@, p)] /\ UNCHANGED queue
      ELSE queue' = Append(queue, p) /\ UNCHANGED conns

\* Mutant: CHATLOG is for the first connection of the tab only.
ReceiveFirstLog(e, r) ==
    messages' = [messages EXCEPT ![r] =
        CASE e.ev = "MSG" \/ (e.ev = "CHATLOG" /\ ws = 1) ->
               AddMessage(@, [body |-> e.body, id |-> e.id, state |-> e.state])
          [] e.ev = "CHATLOG" /\ ws # 1 -> @
          [] OTHER -> ChangeMessage(@, e.body, e.id, e.state)]

\* onmessage.
Receive(e, r) ==
    messages' = [messages EXCEPT ![r] =
        IF e.ev \in {"CHATLOG", "MSG"}
          THEN AddMessage(@, [body |-> e.body, id |-> e.id, state |-> e.state])
          ELSE ChangeMessage(@, e.body, e.id, e.state)]

OnMessage ==
    /\ open /\ conns[ws].down # <<>>
    /\ Receive(Head(conns[ws].down), room)
    /\ conns' = [conns EXCEPT ![ws].down = Tail(@)]
    /\ UNCHANGED <<tabVars, queue, lists, answers, uploads, written, srvVars, excused, missed,
                   bounds, sends>>

---------------------------------------------------------------------------
(* The components.                                                         *)

\* MessageInput, sendText.
SendText(t) ==
    /\ t \in Texts /\ room # None
    /\ written[t] = None /\ \A s \in 1..(t - 1) : written[s] # None
    /\ written' = [written EXCEPT ![t] = room]
    /\ SendMessage([body |-> t, room |-> room])
    /\ sends' = Append(sends, t)
    /\ UNCHANGED <<tabVars, messages, lists, answers, uploads, srvVars, excused, missed, bounds>>

\* MessageInput, uploadFile: the request, with UploadFileHandler, whose event
\* has no id, ...
Upload(f) ==
    /\ uploads[f] = "none" /\ room # None
    /\ uploads' = [uploads EXCEPT ![f] = "stored"]
    /\ written' = [written EXCEPT ![f] = room]
    /\ outbox' = outbox \cup {MsgEvent(room, f, "fresh")}
    /\ UNCHANGED <<tabVars, queue, messages, lists, answers, conns, docs, unsaved, arrived,
                   excused, missed, bounds, sends>>

\* ... and its answer, after which the client sends an event of its own, or an
\* error.
UploadAnswered(f) ==
    /\ uploads[f] = "stored"
    /\ uploads' = [uploads EXCEPT ![f] = "over"]
    /\ \/ SendMessage([body |-> f, room |-> written[f]]) /\ sends' = Append(sends, f)
       \/ UNCHANGED <<queue, conns, sends>>
    /\ UNCHANGED <<tabVars, messages, lists, answers, written, srvVars, excused, missed, bounds>>

\* ChatRoom: GetRoomMessagesHandler without before and after, ...
ListAnswered(l) ==
    /\ l \in lists /\ l.snap = <<None>>
    /\ lists' = (lists \ {l}) \cup {[l EXCEPT !.snap = History(l.room)]}
    /\ UNCHANGED <<tabVars, queue, messages, answers, uploads, written, conns, srvVars, excused,
                   missed, bounds, sends>>

\* ... and setMessages, which replaces what came meanwhile; or an error.
ListArrives(l) ==
    /\ l \in lists
    /\ lists' = lists \ {l}
    /\ \/ /\ l.snap # <<None>>
          /\ messages' = [messages EXCEPT ![l.room] = l.snap]
          /\ LET got  == Shown(l.snap)
                 late == {b \in got : \E i \in DOMAIN l.snap :
                            /\ l.snap[i].body = b /\ l.snap[i].state # StateOf(l.room, b)
                            /\ ~Coming(l.room, b)}
                 kept == {b \in missed : written[b] # l.room
                            \/ (ws # 0 /\ b \in Shown(conns[ws].down))}
             IN  /\ excused' = (excused \cup Shown(messages[l.room])) \ (got \cup Files)
                 /\ missed' = kept \cup late
       \/ UNCHANGED <<messages, excused, missed>>
    /\ UNCHANGED <<tabVars, queue, answers, uploads, written, conns, srvVars, bounds, sends>>

\* MessageList, handleEdit and handleDelete, of a message of the user, sent from
\* this tab or from another, whose id the server knows (any other gets an
\* error); the store follows the answer.
OwnChange(b, ev) ==
    /\ room # None /\ Has(messages[room], b, "doc")
    /\ Change(room, b, ev)
    /\ answers' = answers \cup {[room |-> room, body |-> b, state |-> NewState(ev)]}

ChangeAnswered(a) ==
    /\ a \in answers
    /\ answers' = answers \ {a}
    /\ messages' = [messages EXCEPT ![a.room] = ChangeMessage(@, a.body, "doc", a.state)]
    /\ missed' = IF Overtaken(a.room, a.body, a.state) THEN missed \cup {a.body} ELSE missed
    /\ UNCHANGED <<tabVars, queue, lists, uploads, written, conns, srvVars, excused, bounds, sends>>

---------------------------------------------------------------------------
Handler(c) == FetchHistory(c) \/ Register(c) \/ ServerReads(c)

Server ==
    \/ \E c \in DOMAIN conns : Handler(c)
    \/ \E u \in unsaved : Store(u)
    \/ \E e \in outbox : Broadcast(e) \/ Drop(e)
    \/ \E l \in lists : ListAnswered(l)

Others ==
    \/ \E b \in Peers, r \in Rooms : PeerText(b, r) \/ PeerReply(b, r)
    \/ \E b \in Peers, r \in Rooms, ev \in {"MSG_EDIT", "MSG_DELETE"} : PeerChange(r, b, ev)

Tab ==
    \/ \E r \in Rooms : Select(r)
    \/ Deselect \/ Lose \/ Reconnect \/ Opens \/ OnMessage
    \/ \E t \in Texts : SendText(t)
    \/ \E f \in Files : Upload(f) \/ UploadAnswered(f)
    \/ \E l \in lists : ListArrives(l)
    \/ \E b \in Texts \cup Peers, ev \in {"MSG_EDIT", "MSG_DELETE"} : OwnChange(b, ev)
    \/ \E a \in answers : ChangeAnswered(a)

Next == Server \/ Others \/ Tab

Spec == Init /\ [][Next]_vars

\* A request is answered, timers fire, and so does onopen.
FairSpec ==
    /\ Spec
    /\ \A c \in 1..(MaxSelects + MaxLosses) : WF_vars(c \in DOMAIN conns /\ FetchHistory(c))
    /\ WF_vars(Reconnect) /\ WF_vars(Opens)

---------------------------------------------------------------------------
(* Properties.                                                             *)

\* A message of the tab reaches the server at most once, queued or not; a text in
\* the room it was written for (#175); and what comes over one connection comes in
\* the order of the calls of sendMessage.
SentOnceInOrder ==
    \A r \in Rooms : \A j \in DOMAIN arrived[r] :
      LET b == arrived[r][j].body
      IN  /\ b \in Texts => written[b] = r
          /\ \A q \in Rooms \ {r} : \A i \in DOMAIN arrived[q] : arrived[q][i].body # b
          /\ \A i \in 1..(j - 1) :
               /\ arrived[r][i].body # b
               /\ arrived[r][i].conn = arrived[r][j].conn =>
                    \E m, n \in DOMAIN sends :
                      m < n /\ sends[m] = arrived[r][i].body /\ sends[n] = b

\* A message is shown at most once under each of its ids, however often the
\* history comes again, twice in all, though the broker hand its events on twice;
\* the event of an upload alone, which has no id, is then shown twice.
ShownOncePerId ==
    \A r \in Rooms : \A i, j \in DOMAIN messages[r] :
      /\ messages[r][i].body = messages[r][j].body
      /\ messages[r][i].id = messages[r][j].id
      => i = j \/ (messages[r][i].id = "fresh" /\ messages[r][i].body \in Repeats)

\* The tab is connected, and nothing of room r is under way.
Settled(r) ==
    /\ room = r /\ open
    /\ conns[ws].phase = "listed" /\ conns[ws].down = <<>>
    /\ \A l \in lists : l.room # r
    /\ \A e \in outbox : e.room # r
    /\ \A u \in unsaved : u.room # r

\* A stored message that a settled tab does not show was overwritten by the answer
\* of a list call; or was broadcast before the registration and stored after the
\* fetch of the history; or was not in that history, beyond its limit or because
\* the query failed; or its event was lost on the way to the tab's hub.
MissingNeedsCause ==
    \A r \in Rooms : Settled(r) =>
      Shown(Kept(r)) \subseteq excused \cup Shown(messages[r])

\* A settled tab shows a message of the history in a state that is not its
\* document's only if the event of the change never came (the tab was away, or
\* the event was lost on the way to its hub), or something older came after it: the
\* event of another edit, late or once more, the answer to the tab's own edit, a
\* list of messages, the event of a reply itself.  The order of an edit and a deletion does not matter.
StaleNeedsCause ==
    \A r \in Rooms : Settled(r) =>
      \A j \in DOMAIN messages[r] :
        LET e == messages[r][j]
        IN  e.id = "doc" => e.body \in missed \/ e.state = StateOf(r, e.body)

\* What is queued for a room is sent once the room stays open.
QueuedIsSent ==
    \A r \in Rooms :
      (room = r /\ \E i \in DOMAIN queue : queue[i].room = r)
        ~> (room # r \/ \A i \in DOMAIN queue : queue[i].room # r)
=============================================================================

-------------------------- MODULE WebClientProofs --------------------------
(***************************************************************************)
(* Proofs about WebClient, for any number of rooms, messages, files,       *)
(* connections and changes, and any limit of the history: what the tab     *)
(* sends reaches the server once and in order, no message is shown twice   *)
(* under an id of the server's, and what a settled tab lacks, or shows out *)
(* of date, has one of the named causes.                                   *)
(***************************************************************************)
EXTENDS WebClient, FiltersProofs

(***************************************************************************)
(* Types.                                                                  *)
(***************************************************************************)

\* The constants as the proofs use them.
LEMMA Bounds ==
    /\ MaxTexts \in Nat /\ HistoryLimit \in Nat /\ MaxSelects \in Nat
    /\ MaxLosses \in Nat /\ MaxChanges \in Nat
    /\ None \notin Rooms
    /\ Texts \cap Peers = {} /\ Texts \cap Files = {} /\ Peers \cap Files = {}
    /\ Bodies = Texts \cup Peers \cup Files
    /\ Deleted \in States /\ 0 \in States /\ Deleted # 0
<1>1. /\ MaxTexts \in Nat /\ HistoryLimit \in Nat /\ MaxSelects \in Nat
      /\ MaxLosses \in Nat /\ MaxChanges \in Nat /\ None \notin Rooms
  BY ClientAssumption
<1>2. Texts \cap (Peers \cup Files) = {} /\ Peers \cap Files = {}
  BY ClientAssumption DEF Texts
<1>3. Deleted \in States /\ 0 \in States /\ Deleted # 0
  BY <1>1 DEF Deleted, States
<1>4. QED
  BY <1>1, <1>2, <1>3 DEF Bodies

\* What FindChatByRoom returns.
LEMMA HistoryType ==
    ASSUME TypeOK, NEW r \in Rooms
    PROVE  Kept(r) \in Seq(Docs) /\ History(r) \in Seq(Entries)
<1>1. docs[r] \in Seq(Docs)
  BY DEF TypeOK
<1>2. Kept(r) \in Seq(Docs)
  BY <1>1, OnlyInType DEF Kept
<1> DEFINE k == Kept(r)
           n == IF Len(k) < HistoryLimit THEN Len(k) ELSE HistoryLimit
<1>3. n \in Nat /\ n <= Len(k) /\ Len(k) \in Nat
  BY <1>2, Bounds
<1>4. \A i \in 1..n : k[i].body \in Bodies /\ k[i].state \in States
  <2> HIDE DEF k, n
  <2>1. \A i \in 1..n : i \in 1..Len(k)
    BY <1>3
  <2>2. k \in Seq(Docs)
    BY <1>2 DEF k
  <2>3. \A i \in 1..n : k[i] \in Docs
    BY <2>1, <2>2
  <2>4. QED
    BY <2>3 DEF Docs
<1>5. History(r) = [i \in 1..n |-> [body |-> k[i].body, id |-> "doc", state |-> k[i].state]]
  BY DEF History
<1> HIDE DEF k, n
<1>6. \A i \in 1..n : [body |-> k[i].body, id |-> "doc", state |-> k[i].state] \in Entries
  BY <1>4 DEF Entries, Ids
<1>7. History(r) \in [1..n -> Entries]
  BY <1>5, <1>6
<1>8. QED
  BY <1>2, <1>3, <1>7

\* addMessage, and updateMessage and deleteMessage.
LEMMA AddType ==
    ASSUME NEW list \in Seq(Entries), NEW e \in Entries
    PROVE  AddMessage(list, e) \in Seq(Entries)
<1>1. Append(list, e) \in Seq(Entries)
  OBVIOUS
<1>2. QED
  BY <1>1 DEF AddMessage

LEMMA ChangeType ==
    ASSUME NEW list \in Seq(Entries), NEW b, NEW id, NEW s \in States
    PROVE  /\ ChangeMessage(list, b, id, s) \in Seq(Entries)
           /\ DOMAIN ChangeMessage(list, b, id, s) = DOMAIN list
           /\ \A i \in DOMAIN list :
                /\ ChangeMessage(list, b, id, s)[i].body = list[i].body
                /\ ChangeMessage(list, b, id, s)[i].id = list[i].id
<1> DEFINE t == ChangeMessage(list, b, id, s)
<1>1. /\ DOMAIN t = DOMAIN list
      /\ \A i \in DOMAIN list :
           t[i] = IF list[i].body = b /\ list[i].id = id /\ list[i].state # Deleted
                    THEN [list[i] EXCEPT !.state = s] ELSE list[i]
  BY DEF ChangeMessage
<1>2. \A i \in DOMAIN list : list[i] \in Entries
  OBVIOUS
<1>3. \A i \in DOMAIN list :
        t[i] \in Entries /\ t[i].body = list[i].body /\ t[i].id = list[i].id
  BY <1>1, <1>2 DEF Entries
<1>4. t = [i \in DOMAIN list |-> t[i]]
  BY DEF ChangeMessage
<1> HIDE DEF t
<1>5. t \in Seq(Entries)
  <2>1. DOMAIN list = 1..Len(list) /\ Len(list) \in Nat
    OBVIOUS
  <2>2. t \in [1..Len(list) -> Entries]
    BY <1>3, <1>4, <2>1
  <2>3. QED
    BY <2>1, <2>2
<1>6. QED
  BY <1>1, <1>3, <1>5 DEF t

\* What is sent of the queue and what remains of it.
LEMMA FlushType ==
    ASSUME NEW q \in Seq(Payloads), NEW r \in Rooms
    PROVE  Flush(q, r)[1] \in Seq(Payloads) /\ Flush(q, r)[2] \in Seq(Payloads)
BY OnlyInType DEF Flush

\* A connection, and one that changes.
LEMMA SocketAt ==
    ASSUME TypeOK, NEW c \in DOMAIN conns
    PROVE  /\ c \in Nat /\ c \in 1..Len(conns) /\ conns[c] \in Sockets
           /\ conns[c].room \in Rooms /\ conns[c].phase \in Phases
           /\ conns[c].up \in Seq(Payloads) /\ conns[c].down \in Seq(Downs)
<1>1. conns \in Seq(Sockets)
  BY DEF TypeOK
<1>2. c \in 1..Len(conns) /\ conns[c] \in Sockets
  BY <1>1
<1>3. QED
  BY <1>1, <1>2 DEF Sockets
LEMMA SocketType ==
    ASSUME TypeOK, NEW c \in DOMAIN conns, NEW s \in Sockets
    PROVE  [conns EXCEPT ![c] = s] \in Seq(Sockets)
             /\ Len([conns EXCEPT ![c] = s]) = Len(conns)
<1>1. conns \in Seq(Sockets) /\ c \in 1..Len(conns)
  BY DEF TypeOK
<1>2. QED
  BY <1>1, ExceptSeq

LEMMA DetachedType ==
    ASSUME TypeOK
    PROVE  Detached \in Seq(Sockets) /\ Len(Detached) = Len(conns)
<1>1. CASE ws = 0
  BY <1>1 DEF Detached, TypeOK
<1>2. CASE ws # 0
  <2> DEFINE p == IF conns[ws].up = <<>> THEN "gone" ELSE conns[ws].phase
             s == [conns[ws] EXCEPT !.down = <<>>, !.phase = p]
  <2>1. ws \in DOMAIN conns /\ conns[ws] \in Sockets
    BY <1>2 DEF TypeOK
  <2>2. s \in Sockets
    <3>1. p \in Phases /\ <<>> \in Seq(Downs)
      BY <2>1 DEF Sockets, Phases
    <3> HIDE DEF p
    <3>2. QED
      BY <2>1, <3>1 DEF Sockets
  <2>3. Detached = [conns EXCEPT ![ws] = s]
    BY <1>2 DEF Detached
  <2> HIDE DEF s
  <2>4. QED
    BY <2>1, <2>2, <2>3, SocketType
<1>3. QED
  BY <1>1, <1>2

LEMMA TypeInit == Init => TypeOK
<1> SUFFICES ASSUME Init PROVE TypeOK
  OBVIOUS
<1>1. /\ <<>> \in Seq(Payloads) /\ <<>> \in Seq(Entries) /\ <<>> \in Seq(Sockets)
      /\ <<>> \in Seq(Docs) /\ <<>> \in Seq([body : Bodies, conn : Nat])
      /\ <<>> \in Seq(Texts \cup Files) /\ Len(<<>>) = 0
      /\ 0 \in 0..MaxSelects /\ 0 \in 0..MaxLosses /\ 0 \in 0..MaxChanges
  BY Bounds
<1>2. /\ messages \in [Rooms -> Seq(Entries)] /\ docs \in [Rooms -> Seq(Docs)]
      /\ arrived \in [Rooms -> Seq([body : Bodies, conn : Nat])]
      /\ uploads \in [Files -> {"none", "stored", "over"}]
      /\ written \in [Bodies -> Rooms \cup {None}]
  BY <1>1 DEF Init
<1>3. /\ queue \in Seq(Payloads) /\ conns \in Seq(Sockets) /\ sends \in Seq(Texts \cup Files)
      /\ ws \in 0..Len(conns)
  BY <1>1 DEF Init
<1>4. QED
  BY <1>1, <1>2, <1>3 DEF Init, TypeOK

LEMMA LogType ==
    ASSUME TypeOK, NEW r \in Rooms
    PROVE  Log(r) \in Seq(Downs)
<1> DEFINE h == History(r)
<1>1. h \in Seq(Entries)
  BY HistoryType
<1> HIDE DEF h
<1>2. DOMAIN h = 1..Len(h) /\ Len(h) \in Nat /\ \A i \in 1..Len(h) : h[i] \in Entries
  BY <1>1
<1>3. \A i \in 1..Len(h) :
        [ev |-> "CHATLOG", body |-> h[i].body, id |-> "doc", state |-> h[i].state] \in Downs
  BY <1>2 DEF Entries, Downs, Ids
<1>4. Log(r) = [i \in 1..Len(h) |->
        [ev |-> "CHATLOG", body |-> h[i].body, id |-> "doc", state |-> h[i].state]]
  BY <1>2 DEF Log, h
<1>5. Log(r) \in [1..Len(h) -> Downs]
  BY <1>3, <1>4
<1>6. QED
  BY <1>2, <1>5

\* The messages shown in a list, or kept by the database, are messages.
LEMMA ShownType ==
    /\ \A list \in Seq(Entries) : Shown(list) \subseteq Bodies
    /\ \A list \in Seq(Docs) : Shown(list) \subseteq Bodies
    /\ \A list \in Seq(Downs) : Shown(list) \subseteq Bodies
<1>1. ASSUME NEW list \in Seq(Entries) PROVE Shown(list) \subseteq Bodies
  <2>1. \A i \in DOMAIN list : list[i] \in Entries
    OBVIOUS
  <2>2. QED
    BY <2>1 DEF Shown, Entries
<1>2. ASSUME NEW list \in Seq(Docs) PROVE Shown(list) \subseteq Bodies
  <2>1. \A i \in DOMAIN list : list[i] \in Docs
    OBVIOUS
  <2>2. QED
    BY <2>1 DEF Shown, Docs
<1>3. ASSUME NEW list \in Seq(Downs) PROVE Shown(list) \subseteq Bodies
  <2>1. \A i \in DOMAIN list : list[i] \in Downs
    OBVIOUS
  <2>2. QED
    BY <2>1 DEF Shown, Downs
<1>4. QED
  BY <1>1, <1>2, <1>3

\* The handlers of the connections, as the connections see them.
LEMMA FetchFacts ==
    ASSUME TypeOK, NEW c \in DOMAIN conns, FetchHistory(c)
    PROVE  /\ conns' \in Seq(Sockets) /\ Len(conns') = Len(conns) /\ DOMAIN conns' = DOMAIN conns
           /\ \A d \in DOMAIN conns :
                conns'[d].room = conns[d].room /\ conns'[d].up = conns[d].up
           /\ \A d \in DOMAIN conns \ {c} : conns'[d] = conns[d]
           /\ conns'[c].phase = "fetched"
           /\ conns'[c].down \in {Log(conns[c].room), <<>>}
<1>0. /\ conns[c] \in Sockets /\ conns[c].room \in Rooms
  BY SocketAt
<1> DEFINE logs == {Log(conns[c].room), <<>>}
<1>a. PICK log \in logs :
        conns' = [conns EXCEPT ![c].phase = "fetched", ![c].down = IF ws = c THEN log ELSE <<>>]
  BY DEF FetchHistory
<1> DEFINE d == IF ws = c THEN log ELSE <<>>
           s == [conns[c] EXCEPT !.phase = "fetched", !.down = d]
<1>1. d \in Seq(Downs) /\ d \in logs
  <2>1. Log(conns[c].room) \in Seq(Downs) /\ <<>> \in Seq(Downs)
    BY <1>0, LogType
  <2>2. QED
    BY <2>1
<1>2. conns' = [conns EXCEPT ![c] = s]
  BY <1>a, Zenon
<1> HIDE DEF d
<1>3. /\ s \in Sockets /\ s.room = conns[c].room /\ s.up = conns[c].up
      /\ s.phase = "fetched" /\ s.down = d
  BY <1>0, <1>1 DEF Sockets, Phases
<1> HIDE DEF s
<1>4. conns' \in Seq(Sockets) /\ Len(conns') = Len(conns)
  BY <1>2, <1>3, SocketType
<1>5. DOMAIN conns' = DOMAIN conns /\ conns'[c] = s
      /\ \A e \in DOMAIN conns \ {c} : conns'[e] = conns[e]
  BY <1>2
<1>6. QED
  BY <1>1, <1>3, <1>4, <1>5

LEMMA RegisterFacts ==
    ASSUME TypeOK, NEW c \in DOMAIN conns, Register(c)
    PROVE  /\ conns' \in Seq(Sockets) /\ Len(conns') = Len(conns) /\ DOMAIN conns' = DOMAIN conns
           /\ \A d \in DOMAIN conns : /\ conns'[d].room = conns[d].room
                                     /\ conns'[d].up = conns[d].up
                                     /\ conns'[d].down = conns[d].down
           /\ \A d \in DOMAIN conns \ {c} : conns'[d] = conns[d]
           /\ conns[c].phase = "fetched"
<1>0. /\ conns[c] \in Sockets /\ conns[c].room \in Rooms
  BY SocketAt
<1> DEFINE s == [conns[c] EXCEPT !.phase = "listed"]
<1>1. conns' = [conns EXCEPT ![c] = s] /\ conns[c].phase = "fetched"
  BY DEF Register
<1>2. /\ s \in Sockets /\ s.room = conns[c].room /\ s.up = conns[c].up
      /\ s.down = conns[c].down
  BY <1>0 DEF Sockets, Phases
<1> HIDE DEF s
<1>3. conns' \in Seq(Sockets) /\ Len(conns') = Len(conns)
  BY <1>1, <1>2, SocketType
<1>4. DOMAIN conns' = DOMAIN conns /\ conns'[c] = s
      /\ \A e \in DOMAIN conns \ {c} : conns'[e] = conns[e]
  BY <1>1
<1>5. QED
  BY <1>1, <1>2, <1>3, <1>4

LEMMA ReadFacts ==
    ASSUME TypeOK, NEW c \in DOMAIN conns, ServerReads(c)
    PROVE  /\ conns' \in Seq(Sockets) /\ Len(conns') = Len(conns) /\ DOMAIN conns' = DOMAIN conns
           /\ \A d \in DOMAIN conns :
                conns'[d].room = conns[d].room /\ conns'[d].down = conns[d].down
           /\ \A d \in DOMAIN conns \ {c} : conns'[d] = conns[d]
           /\ conns[c].up \in Seq(Payloads) /\ conns[c].up # <<>>
           /\ conns'[c].up \in {Tail(conns[c].up), <<>>} /\ Head(conns[c].up) \in Payloads
           /\ conns'[c].phase \in {conns[c].phase, "gone"}
<1>0. /\ conns[c] \in Sockets /\ conns[c].room \in Rooms
      /\ conns[c].up \in Seq(Payloads) /\ conns[c].phase \in Phases
  BY SocketAt
<1>1. /\ conns[c].up # <<>>
      /\ \E up \in {Tail(conns[c].up), <<>>}, ph \in {conns[c].phase, "gone"} :
           conns' = [conns EXCEPT ![c].up = up, ![c].phase = ph]
  <2> DEFINE rest == Tail(conns[c].up)
             now  == IF ws # c /\ rest = <<>> THEN "gone" ELSE conns[c].phase
  <2>1. /\ conns[c].up # <<>>
        /\ \/ conns' = [conns EXCEPT ![c].up = rest, ![c].phase = now]
           \/ conns' = [conns EXCEPT ![c].up = <<>>, ![c].phase = "gone"]
    BY DEF ServerReads
  <2>2. now \in {conns[c].phase, "gone"}
    OBVIOUS
  <2> HIDE DEF rest, now
  <2>3. QED
    BY <2>1, <2>2 DEF rest
<1>2. Head(conns[c].up) \in Payloads /\ Tail(conns[c].up) \in Seq(Payloads)
  BY <1>0, <1>1, HeadTailProperties, EmptySeq
<1>3. PICK up \in {Tail(conns[c].up), <<>>}, ph \in {conns[c].phase, "gone"} :
        conns' = [conns EXCEPT ![c].up = up, ![c].phase = ph]
  BY <1>1
<1> DEFINE s == [conns[c] EXCEPT !.up = up, !.phase = ph]
<1>4. conns' = [conns EXCEPT ![c] = s]
  BY <1>3
<1>5. up \in Seq(Payloads) /\ ph \in Phases
  <2>1. <<>> \in Seq(Payloads) /\ "gone" \in Phases
    BY DEF Phases
  <2>2. QED
    BY <1>0, <1>2, <2>1
<1>6. /\ s \in Sockets /\ s.room = conns[c].room /\ s.up = up
      /\ s.down = conns[c].down /\ s.phase = ph
  BY <1>0, <1>5 DEF Sockets
<1> HIDE DEF s
<1>7. conns' \in Seq(Sockets) /\ Len(conns') = Len(conns)
  BY <1>4, <1>6, SocketType
<1>8. DOMAIN conns' = DOMAIN conns /\ conns'[c] = s
      /\ \A e \in DOMAIN conns \ {c} : conns'[e] = conns[e]
  BY <1>4
<1>9. QED
  BY <1>0, <1>1, <1>2, <1>6, <1>7, <1>8

\* What is missed is the message whose event is lost.
LEMMA MissingType == \A b, r : Missing(b, r) \subseteq {b}
BY DEF Missing

\* The handlers of the connections.
LEMMA TypeHandler ==
    ASSUME TypeOK, NEW c \in DOMAIN conns, Handler(c)
    PROVE  TypeOK'
<1>0. /\ c \in Nat /\ conns[c] \in Sockets /\ conns[c].room \in Rooms
      /\ conns[c].up \in Seq(Payloads) /\ conns[c].phase \in Phases
  BY SocketAt
<1> DEFINE r == conns[c].room
<1>1. CASE FetchHistory(c)
  <2>4. conns' \in Seq(Sockets) /\ Len(conns') = Len(conns)
    BY <1>1, FetchFacts
  <2>5. excused' \subseteq Bodies
    <3>1. Shown(Kept(r)) \subseteq Bodies
      BY <1>0, HistoryType, ShownType
    <3>2. {p.body : p \in {u \in unsaved : u.room = r}} \subseteq Bodies
      BY DEF TypeOK, Payloads
    <3>3. excused \subseteq Bodies
      BY DEF TypeOK
    <3>4. excused' \subseteq
            excused \cup Shown(Kept(r)) \cup {p.body : p \in {u \in unsaved : u.room = r}}
      BY <1>1 DEF FetchHistory
    <3>5. QED
      BY <3>1, <3>2, <3>3, <3>4
  <2>6. QED
    BY <1>1, <2>4, <2>5 DEF FetchHistory, TypeOK, tabVars, srvVars, bounds
<1>2. CASE Register(c)
  <2>3. conns' \in Seq(Sockets) /\ Len(conns') = Len(conns)
    BY <1>2, RegisterFacts
  <2>4. QED
    BY <1>2, <2>3 DEF Register, TypeOK, tabVars, srvVars, bounds
<1>3. CASE ServerReads(c)
  <2> DEFINE b == Head(conns[c].up).body
  <2>1. conns' \in Seq(Sockets) /\ Len(conns') = Len(conns) /\ b \in Bodies
    BY <1>3, ReadFacts DEF Payloads
  <2>3. /\ arrived' = [arrived EXCEPT ![r] = Append(@, [body |-> b, conn |-> c])]
        /\ outbox' \subseteq outbox \cup {MsgEvent(r, b, "live")}
        /\ unsaved' \subseteq unsaved \cup {[body |-> b, room |-> r]}
        /\ excused' \subseteq excused \cup {b}
        /\ UNCHANGED <<tabVars, queue, messages, lists, answers, uploads, written, docs,
                       missed, bounds, sends>>
    BY <1>3, MissingType DEF ServerReads
  <2> HIDE DEF b
  <2>6. arrived' \in [Rooms -> Seq([body : Bodies, conn : Nat])]
    <3>1. arrived[r] \in Seq([body : Bodies, conn : Nat])
      BY <1>0 DEF TypeOK
    <3>2. Append(arrived[r], [body |-> b, conn |-> c]) \in Seq([body : Bodies, conn : Nat])
      BY <1>0, <2>1, <3>1
    <3>3. QED
      BY <1>0, <2>3, <3>2 DEF TypeOK
  <2>7. outbox' \subseteq Events /\ unsaved' \subseteq Payloads /\ excused' \subseteq Bodies
    <3>1. MsgEvent(r, b, "live") \in Events /\ [body |-> b, room |-> r] \in Payloads
      BY <1>0, <2>1, Bounds DEF MsgEvent, Events, Payloads, Ids
    <3>2. QED
      BY <2>1, <2>3, <3>1 DEF TypeOK
  <2>8. QED
    BY <2>1, <2>3, <2>6, <2>7 DEF TypeOK, tabVars, bounds
<1>4. QED
  BY <1>1, <1>2, <1>3 DEF Handler

\* The insert workers, the hubs, and the answers of the server.
LEMMA TypeServer ==
    ASSUME TypeOK, Server
    PROVE  TypeOK'
<1>1. ASSUME NEW u \in unsaved, Store(u) PROVE TypeOK'
  <2>1. /\ docs' = [docs EXCEPT ![u.room] = Append(@, [body |-> u.body, state |-> 0])]
           \/ docs' = docs
        /\ unsaved' = unsaved \ {u}
        /\ UNCHANGED <<tabVars, queue, messages, lists, answers, uploads, written, conns,
                       outbox, arrived, excused, missed, bounds, sends>>
    BY <1>1 DEF Store
  <2>2. u.room \in Rooms /\ docs[u.room] \in Seq(Docs) /\ [body |-> u.body, state |-> 0] \in Docs
    BY Bounds DEF TypeOK, Payloads, Docs
  <2>3. docs' \in [Rooms -> Seq(Docs)]
    <3>1. Append(docs[u.room], [body |-> u.body, state |-> 0]) \in Seq(Docs)
      BY <2>2
    <3>2. QED
      BY <2>1, <2>2, <3>1 DEF TypeOK
  <2>4. QED
    BY <2>1, <2>3 DEF TypeOK, tabVars, bounds
<1>2. ASSUME NEW e \in outbox, Broadcast(e) PROVE TypeOK'
  <2> DEFINE down == [ev |-> e.ev, body |-> e.body, id |-> e.id, state |-> e.state]
  <2>1. /\ outbox' \subseteq outbox /\ repeated' \subseteq repeated \cup Repeats
        /\ \/ conns' = conns
           \/ ws # 0 /\ conns' = [conns EXCEPT ![ws].down = Append(@, down)]
        /\ missed' \subseteq missed \cup {e.body} /\ excused' \subseteq excused \cup {e.body}
        /\ UNCHANGED <<tabVars, queue, messages, lists, answers, uploads, written, docs,
                       unsaved, arrived, selects, losses, changes, sends>>
    BY <1>2 DEF Broadcast
  <2>2. e.body \in Bodies /\ down \in Downs
    BY DEF TypeOK, Events, Downs
  <2>3. conns' \in Seq(Sockets) /\ Len(conns') = Len(conns)
    <3>1. CASE conns' = conns
      BY <3>1 DEF TypeOK
    <3>2. CASE ws # 0 /\ conns' = [conns EXCEPT ![ws].down = Append(@, down)]
      <4> HIDE DEF down
      <4> DEFINE a == Append(conns[ws].down, down)
                 s == [conns[ws] EXCEPT !.down = a]
      <4>1. ws \in DOMAIN conns /\ conns[ws] \in Sockets
        BY <3>2 DEF TypeOK
      <4>2. a \in Seq(Downs)
        BY <2>2, <4>1 DEF Sockets
      <4>3. conns' = [conns EXCEPT ![ws] = s]
        BY <3>2
      <4> HIDE DEF a
      <4>4. s \in Sockets
        BY <4>1, <4>2 DEF Sockets
      <4> HIDE DEF s
      <4>5. QED
        BY <4>1, <4>3, <4>4, SocketType
    <3>3. QED
      BY <2>1, <3>1, <3>2
  <2>4. /\ outbox' \subseteq Events /\ missed' \subseteq Bodies /\ excused' \subseteq Bodies
        /\ repeated' \subseteq Repeats
    BY <2>1, <2>2 DEF TypeOK
  <2>5. QED
    BY <2>1, <2>3, <2>4 DEF TypeOK, tabVars
<1>3. ASSUME NEW e \in outbox, Drop(e) PROVE TypeOK'
  <2>1. /\ outbox' = outbox \ {e}
        /\ missed' \subseteq missed \cup {e.body} /\ excused' \subseteq excused \cup {e.body}
        /\ UNCHANGED <<tabVars, queue, messages, lists, answers, uploads, written, conns, docs,
                       unsaved, arrived, bounds, sends>>
    BY <1>3, MissingType DEF Drop
  <2>2. e.body \in Bodies
    BY DEF TypeOK, Events
  <2>3. outbox' \subseteq Events /\ missed' \subseteq Bodies /\ excused' \subseteq Bodies
    BY <2>1, <2>2 DEF TypeOK
  <2>4. QED
    BY <2>1, <2>3 DEF TypeOK, tabVars, bounds
<1>4. ASSUME NEW l \in lists, ListAnswered(l) PROVE TypeOK'
  <2> DEFINE h == History(l.room)
  <2>1. /\ lists' = (lists \ {l}) \cup {[l EXCEPT !.snap = h]}
        /\ UNCHANGED <<tabVars, queue, messages, answers, uploads, written, conns, srvVars,
                       excused, missed, bounds, sends>>
    BY <1>4 DEF ListAnswered
  <2>2. l \in Calls /\ h \in Seq(Entries)
    <3>1. l \in Calls /\ l.room \in Rooms
      BY DEF TypeOK, Calls
    <3>2. QED
      BY <3>1, HistoryType
  <2> HIDE DEF h
  <2>3. [l EXCEPT !.snap = h] \in Calls
    BY <2>2 DEF Calls
  <2>4. lists' \subseteq Calls
    BY <2>1, <2>3 DEF TypeOK
  <2>5. QED
    BY <2>1, <2>4 DEF TypeOK, tabVars, srvVars, bounds
<1>5. QED
  BY <1>1, <1>2, <1>3, <1>4, TypeHandler DEF Server

\* EditChat and DeleteChat.
LEMMA ChangeFacts ==
    ASSUME TypeOK, NEW r \in Rooms, NEW b, NEW ev \in {"MSG_EDIT", "MSG_DELETE"},
           Change(r, b, ev)
    PROVE  /\ NewState(ev) \in States /\ changes' \in 0..MaxChanges /\ b \in Bodies
           /\ docs' \in [Rooms -> Seq(Docs)]
           /\ \A q \in Rooms : DOMAIN docs'[q] = DOMAIN docs[q]
           /\ \A q \in Rooms : \A i \in DOMAIN docs[q] :
                /\ docs'[q][i].body = docs[q][i].body
                /\ docs'[q][i].state = IF q = r /\ docs[q][i].body = b THEN NewState(ev)
                                       ELSE docs[q][i].state
           /\ outbox' \subseteq Events
           /\ outbox' = outbox \cup {[room |-> r, ev |-> ev, body |-> b, id |-> "doc",
                                      state |-> NewState(ev)]}
           /\ UNCHANGED <<tabVars, queue, messages, lists, uploads, written, conns, unsaved,
                          arrived, excused, missed, selects, losses, repeated, sends>>
<1>1. /\ changes < MaxChanges /\ changes' = changes + 1 /\ b \in Stored(r)
      /\ docs' = [docs EXCEPT ![r] =
                  [i \in DOMAIN @ |-> IF @[i].body = b THEN [@[i] EXCEPT !.state = NewState(ev)]
                                      ELSE @[i]]]
      /\ outbox' = outbox \cup {[room |-> r, ev |-> ev, body |-> b, id |-> "doc",
                                 state |-> NewState(ev)]}
      /\ UNCHANGED <<tabVars, queue, messages, lists, uploads, written, conns, unsaved,
                     arrived, excused, missed, selects, losses, repeated, sends>>
  BY DEF Change
<1>2. NewState(ev) \in States /\ changes' \in 0..MaxChanges
  <2>1. changes \in Nat /\ MaxChanges \in Nat /\ changes < MaxChanges
    BY <1>1, Bounds DEF TypeOK
  <2>2. changes + 1 \in 0..MaxChanges /\ changes + 1 \in States /\ Deleted \in States
    BY <2>1 DEF States, Deleted
  <2>3. QED
    BY <1>1, <2>2 DEF NewState
<1> DEFINE n == NewState(ev)
           d == docs[r]
           e == [i \in DOMAIN d |-> IF d[i].body = b THEN [d[i] EXCEPT !.state = n] ELSE d[i]]
<1>3. d \in Seq(Docs) /\ docs' = [docs EXCEPT ![r] = e]
  BY <1>1 DEF TypeOK
<1> HIDE DEF n
<1>4. \A i \in DOMAIN d : d[i] \in Docs
  BY <1>3
<1>5. b \in Bodies
  BY <1>1, <1>4 DEF Stored, Docs
<1>6. \A i \in DOMAIN d : /\ e[i] \in Docs /\ e[i].body = d[i].body
                          /\ e[i].state = IF d[i].body = b THEN n ELSE d[i].state
  BY <1>2, <1>4 DEF Docs, n
<1>7. e \in Seq(Docs) /\ DOMAIN e = DOMAIN d
  <2>1. DOMAIN d = 1..Len(d) /\ Len(d) \in Nat
    BY <1>3
  <2>2. e \in [1..Len(d) -> Docs]
    BY <1>6, <2>1
  <2>3. QED
    BY <2>1, <2>2
<1> HIDE DEF e
<1>8. /\ docs' \in [Rooms -> Seq(Docs)] /\ docs'[r] = e
      /\ \A q \in Rooms \ {r} : docs'[q] = docs[q]
  BY <1>3, <1>7 DEF TypeOK
<1>9. \A q \in Rooms : DOMAIN docs'[q] = DOMAIN docs[q]
  BY <1>7, <1>8
<1>10. \A q \in Rooms : \A i \in DOMAIN docs[q] :
         /\ docs'[q][i].body = docs[q][i].body
         /\ docs'[q][i].state = IF q = r /\ docs[q][i].body = b THEN n ELSE docs[q][i].state
  BY <1>6, <1>8
<1>11. outbox' \subseteq Events
  BY <1>1, <1>2, <1>5 DEF TypeOK, Events, Ids
<1>12. QED
  BY <1>1, <1>2, <1>5, <1>8, <1>9, <1>10, <1>11 DEF n

\* Other users.
LEMMA TypeOthers ==
    ASSUME TypeOK, Others
    PROVE  TypeOK'
<1>1. ASSUME NEW b \in Peers, NEW r \in Rooms, PeerText(b, r) PROVE TypeOK'
  <2>1. /\ written' = [written EXCEPT ![b] = r]
        /\ unsaved' = unsaved \cup {[body |-> b, room |-> r]}
        /\ outbox' \subseteq outbox \cup {MsgEvent(r, b, "live")}
        /\ excused' \subseteq excused \cup {b}
        /\ UNCHANGED <<tabVars, queue, messages, lists, answers, uploads, conns, docs, arrived,
                       missed, bounds, sends>>
    BY <1>1, MissingType DEF PeerText
  <2>2. /\ [body |-> b, room |-> r] \in Payloads /\ MsgEvent(r, b, "live") \in Events
        /\ written' \in [Bodies -> Rooms \cup {None}] /\ b \in Bodies
    BY <2>1, Bounds DEF Payloads, Events, MsgEvent, Ids, TypeOK
  <2>3. QED
    BY <2>1, <2>2 DEF TypeOK, tabVars, bounds
<1>2. ASSUME NEW b \in Peers, NEW r \in Rooms, PeerReply(b, r) PROVE TypeOK'
  <2>1. /\ written' = [written EXCEPT ![b] = r]
        /\ docs' = [docs EXCEPT ![r] = Append(@, [body |-> b, state |-> 0])]
        /\ outbox' = outbox \cup {MsgEvent(r, b, "doc")}
        /\ UNCHANGED <<tabVars, queue, messages, lists, answers, uploads, conns, unsaved,
                       arrived, excused, missed, bounds, sends>>
    BY <1>2 DEF PeerReply
  <2>2. /\ [body |-> b, state |-> 0] \in Docs /\ MsgEvent(r, b, "doc") \in Events
        /\ written' \in [Bodies -> Rooms \cup {None}] /\ docs[r] \in Seq(Docs)
    BY <2>1, Bounds DEF Docs, Events, MsgEvent, Ids, TypeOK
  <2>3. Append(docs[r], [body |-> b, state |-> 0]) \in Seq(Docs)
    BY <2>2
  <2>4. docs' \in [Rooms -> Seq(Docs)]
    BY <2>1, <2>3 DEF TypeOK
  <2>5. QED
    BY <2>1, <2>2, <2>4 DEF TypeOK, tabVars, bounds
<1>3. ASSUME NEW b \in Peers, NEW r \in Rooms, NEW ev \in {"MSG_EDIT", "MSG_DELETE"},
             PeerChange(r, b, ev)
      PROVE  TypeOK'
  <2>1. Change(r, b, ev) /\ answers' = answers
    BY <1>3 DEF PeerChange
  <2>2. /\ changes' \in 0..MaxChanges /\ docs' \in [Rooms -> Seq(Docs)] /\ outbox' \subseteq Events
        /\ UNCHANGED <<tabVars, queue, messages, lists, uploads, written, conns, unsaved,
                       arrived, excused, missed, selects, losses, repeated, sends>>
    BY <2>1, ChangeFacts
  <2>3. QED
    BY <2>1, <2>2 DEF TypeOK, tabVars
<1>4. QED
  BY <1>1, <1>2, <1>3 DEF Others

(***************************************************************************)
(* The socket in use belongs to the room that is open; a reconnection is   *)
(* scheduled only without one.  An upload is for a room.                   *)
(***************************************************************************)
TabInv ==
    /\ ws # 0 => room # None /\ room = conns[ws].room
    /\ timer => ws = 0 /\ room # None
    /\ open => ws # 0
    /\ \A f \in Files : uploads[f] # "none" => written[f] # None

LEMMA TabSocket ==
    ASSUME TypeOK, ws # 0
    PROVE  ws \in DOMAIN conns
BY DEF TypeOK

\* A new socket.
LEMMA ConnectFacts ==
    ASSUME NEW cs \in Seq(Sockets), NEW r \in Rooms, Connect(cs, r)
    PROVE  /\ conns' \in Seq(Sockets) /\ Len(conns') = Len(cs) + 1
           /\ ws' = Len(cs) + 1 /\ ws' \in 0..Len(conns') /\ ws' # 0
           /\ \A c \in DOMAIN cs : c \in DOMAIN conns' /\ conns'[c] = cs[c] /\ c # ws'
           /\ \A c \in DOMAIN conns' : c = ws' \/ c \in DOMAIN cs
           /\ ws' \in DOMAIN conns'
           /\ conns'[ws'].room = r /\ conns'[ws'].phase = "requested"
           /\ conns'[ws'].up = <<>> /\ conns'[ws'].down = <<>>
<1> DEFINE s == [room |-> r, phase |-> "requested", up |-> <<>>, down |-> <<>>]
<1>1. s \in Sockets
  <2>1. <<>> \in Seq(Payloads) /\ <<>> \in Seq(Downs)
    OBVIOUS
  <2>2. QED
    BY <2>1 DEF Sockets, Phases
<1>2. conns' = Append(cs, s) /\ ws' = Len(cs) + 1
  BY DEF Connect
<1> HIDE DEF s
<1>3. /\ conns' \in Seq(Sockets) /\ Len(conns') = Len(cs) + 1 /\ Len(cs) \in Nat
      /\ \A c \in 1..Len(cs) : conns'[c] = cs[c]
      /\ conns'[Len(cs) + 1] = s
      /\ DOMAIN conns' = 1..(Len(cs) + 1) /\ DOMAIN cs = 1..Len(cs)
  BY <1>1, <1>2, AppendProperties, LenProperties
<1>4. QED
  BY <1>2, <1>3 DEF s

\* What a closed socket keeps.
LEMMA DetachedFacts ==
    ASSUME TypeOK
    PROVE  /\ Detached \in Seq(Sockets) /\ Len(Detached) = Len(conns)
           /\ DOMAIN Detached = DOMAIN conns
           /\ \A c \in DOMAIN conns :
                /\ Detached[c].room = conns[c].room /\ Detached[c].up = conns[c].up
                /\ Detached[c].down = IF c = ws THEN <<>> ELSE conns[c].down
<1>1. Detached \in Seq(Sockets) /\ Len(Detached) = Len(conns)
  BY DetachedType
<1>2. conns \in Seq(Sockets)
  BY DEF TypeOK
<1>3. DOMAIN Detached = DOMAIN conns
  BY <1>1, <1>2
<1>4. ASSUME NEW c \in DOMAIN conns
      PROVE  /\ Detached[c].room = conns[c].room /\ Detached[c].up = conns[c].up
             /\ Detached[c].down = IF c = ws THEN <<>> ELSE conns[c].down
  <2>1. c \in Nat /\ c # 0 /\ conns[c] \in Sockets
    BY SocketAt
  <2>2. QED
    BY <2>1 DEF Detached, Sockets
<1>5. QED
  BY <1>1, <1>3, <1>4

LEMMA UndeliveredType ==
    ASSUME TypeOK, NEW c \in DOMAIN conns
    PROVE  Undelivered(c) \subseteq Bodies
<1>1. conns[c].down \in Seq(Downs)
  BY SocketAt
<1>2. \A i \in DOMAIN conns[c].down : conns[c].down[i] \in Downs
  BY <1>1
<1>3. QED
  BY <1>2 DEF Undelivered, Downs

\* What SendMessage does.
LEMMA SendFacts ==
    ASSUME TypeOK, TabInv, NEW p \in Payloads, SendMessage(p)
    PROVE  /\ conns' \in Seq(Sockets) /\ Len(conns') = Len(conns) /\ DOMAIN conns' = DOMAIN conns
           /\ queue' \in Seq(Payloads)
           /\ \A c \in DOMAIN conns :
                /\ conns'[c].room = conns[c].room /\ conns'[c].down = conns[c].down
                /\ conns'[c].phase = conns[c].phase
           /\ IF open THEN /\ queue' = queue /\ ws \in DOMAIN conns
                           /\ conns'[ws].up = Append(conns[ws].up, p)
                           /\ \A c \in DOMAIN conns \ {ws} : conns'[c].up = conns[c].up
                      ELSE queue' = Append(queue, p) /\ conns' = conns
<1>0. conns \in Seq(Sockets) /\ queue \in Seq(Payloads)
  BY DEF TypeOK
<1>1. CASE open
  <2> DEFINE a == Append(conns[ws].up, p)
             s == [conns[ws] EXCEPT !.up = a]
  <2>1. ws \in DOMAIN conns /\ conns[ws] \in Sockets
    BY <1>1, TabSocket, SocketAt DEF TabInv
  <2>2. a \in Seq(Payloads)
    BY <2>1 DEF Sockets
  <2>3. conns' = [conns EXCEPT ![ws] = s] /\ queue' = queue
    BY <1>1 DEF SendMessage
  <2> HIDE DEF a
  <2>4. /\ s \in Sockets /\ s.up = a /\ s.room = conns[ws].room
        /\ s.down = conns[ws].down /\ s.phase = conns[ws].phase
    BY <2>1, <2>2 DEF Sockets
  <2> HIDE DEF s
  <2>5. conns' \in Seq(Sockets) /\ Len(conns') = Len(conns)
    BY <2>1, <2>3, <2>4, SocketType
  <2>6. DOMAIN conns' = DOMAIN conns /\ conns'[ws] = s
        /\ \A c \in DOMAIN conns \ {ws} : conns'[c] = conns[c]
    BY <2>1, <2>3
  <2>7. QED
    BY <1>0, <1>1, <2>1, <2>3, <2>4, <2>5, <2>6 DEF a
<1>2. CASE ~open
  <2>1. queue' = Append(queue, p) /\ conns' = conns
    BY <1>2 DEF SendMessage
  <2>2. Append(queue, p) \in Seq(Payloads)
    BY <1>0
  <2>3. QED
    BY <1>0, <1>2, <2>1, <2>2
<1>3. QED
  BY <1>1, <1>2

\* onopen, as the connections see it.
LEMMA OpensFacts ==
    ASSUME TypeOK, TabInv, Opens
    PROVE  /\ ws \in DOMAIN conns /\ room \in Rooms /\ ~open /\ open'
           /\ conns' \in Seq(Sockets) /\ Len(conns') = Len(conns) /\ DOMAIN conns' = DOMAIN conns
           /\ conns'[ws].up = Flush(queue, room)[1] /\ queue' = Flush(queue, room)[2]
           /\ \A c \in DOMAIN conns \ {ws} : conns'[c].up = conns[c].up
           /\ \A c \in DOMAIN conns :
                /\ conns'[c].room = conns[c].room /\ conns'[c].down = conns[c].down
                /\ conns'[c].phase = conns[c].phase
<1> DEFINE a == Flush(queue, room)[1]
           s == [conns[ws] EXCEPT !.up = a]
<1>1. ws # 0 /\ ~open /\ open' /\ conns' = [conns EXCEPT ![ws] = s] /\ queue' = Flush(queue, room)[2]
  BY DEF Opens
<1>2. ws \in DOMAIN conns /\ conns[ws] \in Sockets /\ room \in Rooms
  <2>1. ws \in DOMAIN conns
    BY <1>1, TabSocket
  <2>2. QED
    BY <1>1, <2>1, SocketAt DEF TabInv
<1>3. a \in Seq(Payloads)
  BY <1>2, FlushType DEF TypeOK
<1> HIDE DEF a
<1>4. /\ s \in Sockets /\ s.up = a /\ s.room = conns[ws].room
      /\ s.down = conns[ws].down /\ s.phase = conns[ws].phase
  BY <1>2, <1>3 DEF Sockets
<1> HIDE DEF s
<1>5. conns' \in Seq(Sockets) /\ Len(conns') = Len(conns)
  BY <1>1, <1>2, <1>4, SocketType
<1>6. DOMAIN conns' = DOMAIN conns /\ conns'[ws] = s
      /\ \A c \in DOMAIN conns \ {ws} : conns'[c] = conns[c]
  BY <1>1, <1>2
<1>7. QED
  BY <1>1, <1>2, <1>4, <1>5, <1>6 DEF a

\* onmessage, as the connections see it.
LEMMA OnMessageFacts ==
    ASSUME TypeOK, TabInv, OnMessage
    PROVE  /\ ws \in DOMAIN conns /\ room \in Rooms /\ conns[ws].down # <<>>
           /\ Head(conns[ws].down) \in Downs
           /\ conns' \in Seq(Sockets) /\ Len(conns') = Len(conns) /\ DOMAIN conns' = DOMAIN conns
           /\ conns'[ws].down = Tail(conns[ws].down)
           /\ \A c \in DOMAIN conns \ {ws} : conns'[c].down = conns[c].down
           /\ \A c \in DOMAIN conns :
                /\ conns'[c].room = conns[c].room /\ conns'[c].up = conns[c].up
                /\ conns'[c].phase = conns[c].phase
<1> DEFINE t == Tail(conns[ws].down)
           s == [conns[ws] EXCEPT !.down = t]
<1>1. open /\ conns[ws].down # <<>> /\ conns' = [conns EXCEPT ![ws] = s]
  BY DEF OnMessage
<1>2. ws \in DOMAIN conns /\ conns[ws] \in Sockets /\ room \in Rooms
      /\ conns[ws].down \in Seq(Downs)
  <2>1. ws \in DOMAIN conns /\ ws # 0
    BY <1>1, TabSocket DEF TabInv
  <2>2. QED
    BY <2>1, SocketAt DEF TabInv
<1>3. t \in Seq(Downs) /\ Head(conns[ws].down) \in Downs
  BY <1>1, <1>2, HeadTailProperties, EmptySeq
<1> HIDE DEF t
<1>4. /\ s \in Sockets /\ s.down = t /\ s.room = conns[ws].room
      /\ s.up = conns[ws].up /\ s.phase = conns[ws].phase
  BY <1>2, <1>3 DEF Sockets
<1> HIDE DEF s
<1>5. conns' \in Seq(Sockets) /\ Len(conns') = Len(conns)
  BY <1>1, <1>2, <1>4, SocketType
<1>6. DOMAIN conns' = DOMAIN conns /\ conns'[ws] = s
      /\ \A c \in DOMAIN conns \ {ws} : conns'[c] = conns[c]
  BY <1>1, <1>2
<1>7. QED
  BY <1>1, <1>2, <1>3, <1>4, <1>5, <1>6 DEF t

\* onclose, as the connections see it.
LEMMA LoseFacts ==
    ASSUME TypeOK, TabInv, Lose
    PROVE  /\ ws \in DOMAIN conns /\ room # None
           /\ conns' \in Seq(Sockets) /\ Len(conns') = Len(conns) /\ DOMAIN conns' = DOMAIN conns
           /\ \A c \in DOMAIN conns :
                /\ conns'[c].room = conns[c].room
                /\ conns'[c].down = IF c = ws THEN <<>> ELSE conns[c].down
           /\ \/ \A c \in DOMAIN conns : conns'[c].up = conns[c].up
              \/ /\ conns'[ws].up = <<>>
                 /\ \A c \in DOMAIN conns \ {ws} : conns'[c].up = conns[c].up
<1> DEFINE s == [conns[ws] EXCEPT !.phase = "gone", !.up = <<>>, !.down = <<>>]
<1>1. /\ ws # 0
      /\ conns' = Detached \/ conns' = [conns EXCEPT ![ws] = s]
  BY DEF Lose
<1>2. ws \in DOMAIN conns /\ conns[ws] \in Sockets /\ room # None
  <2>1. ws \in DOMAIN conns
    BY <1>1, TabSocket
  <2>2. QED
    BY <1>1, <2>1, SocketAt DEF TabInv
<1>3. CASE conns' = Detached
  BY <1>2, <1>3, DetachedFacts
<1>4. CASE conns' = [conns EXCEPT ![ws] = s]
  <2>1. <<>> \in Seq(Payloads) /\ <<>> \in Seq(Downs)
    OBVIOUS
  <2>2. s \in Sockets /\ s.up = <<>> /\ s.room = conns[ws].room /\ s.down = <<>>
    BY <1>2, <2>1 DEF Sockets, Phases
  <2> HIDE DEF s
  <2>3. conns' \in Seq(Sockets) /\ Len(conns') = Len(conns)
    BY <1>2, <1>4, <2>2, SocketType
  <2>4. DOMAIN conns' = DOMAIN conns /\ conns'[ws] = s
        /\ \A c \in DOMAIN conns \ {ws} : conns'[c] = conns[c]
    BY <1>2, <1>4
  <2>5. QED
    BY <1>2, <2>2, <2>3, <2>4
<1>5. QED
  BY <1>1, <1>3, <1>4

\* The tab's own steps.
LEMMA TypeSockets ==
    ASSUME TypeOK, TabInv, (\E r \in Rooms : Select(r)) \/ Deselect \/ Lose \/ Reconnect
    PROVE  TypeOK' /\ TabInv'
<1>1. ASSUME NEW r \in Rooms, Select(r) PROVE TypeOK' /\ TabInv'
  <2>1. /\ selects < MaxSelects /\ selects' = selects + 1 /\ room' = r
        /\ Connect(Detached, r) /\ open' = FALSE /\ timer' = FALSE
        /\ lists' = lists \cup {[n |-> selects + 1, room |-> r, snap |-> <<None>>]}
        /\ missed' = missed \cup (IF ws = 0 THEN {} ELSE Undelivered(ws))
        /\ UNCHANGED <<queue, messages, answers, uploads, written, srvVars, excused, losses,
                       changes, repeated, sends>>
    BY <1>1 DEF Select
  <2>2. /\ conns' \in Seq(Sockets) /\ ws' \in 0..Len(conns') /\ ws' # 0
        /\ conns'[ws'].room = r
    BY <2>1, DetachedType, ConnectFacts
  <2>3. selects + 1 \in 1..MaxSelects /\ selects' \in 0..MaxSelects
    BY <2>1, Bounds DEF TypeOK
  <2>4. lists' \subseteq Calls
    BY <2>1, <2>3 DEF TypeOK, Calls
  <2>5. missed' \subseteq Bodies
    BY <2>1, TabSocket, UndeliveredType DEF TypeOK
  <2>6. TypeOK'
    BY <2>1, <2>2, <2>3, <2>4, <2>5 DEF TypeOK, srvVars
  <2>7. TabInv'
    BY <2>1, <2>2, Bounds DEF TabInv
  <2>8. QED
    BY <2>6, <2>7
<1>2. CASE Deselect
  <2>1. /\ room' = None /\ ws' = 0 /\ open' = FALSE /\ timer' = FALSE
        /\ conns' = Detached
        /\ missed' = missed \cup (IF ws = 0 THEN {} ELSE Undelivered(ws))
        /\ UNCHANGED <<queue, messages, lists, answers, uploads, written, srvVars, excused,
                       bounds, sends>>
    BY <1>2 DEF Deselect
  <2>2. conns' \in Seq(Sockets) /\ ws' \in 0..Len(conns')
    <3>1. conns' \in Seq(Sockets)
      BY <2>1, DetachedType
    <3>2. QED
      BY <2>1, <3>1, LenProperties
  <2>3. missed' \subseteq Bodies
    BY <2>1, TabSocket, UndeliveredType DEF TypeOK
  <2>4. QED
    BY <2>1, <2>2, <2>3 DEF TypeOK, TabInv, srvVars, bounds
<1>3. CASE Lose
  <2>1. /\ losses < MaxLosses /\ losses' = losses + 1
        /\ missed' = missed \cup Undelivered(ws)
        /\ ws' = 0 /\ open' = FALSE /\ timer' = TRUE
        /\ UNCHANGED <<room, queue, messages, lists, answers, uploads, written, srvVars,
                       excused, selects, changes, repeated, sends>>
    BY <1>3 DEF Lose
  <2>2. conns' \in Seq(Sockets) /\ ws' \in 0..Len(conns') /\ room # None /\ ws \in DOMAIN conns
    <3>1. conns' \in Seq(Sockets) /\ room # None /\ ws \in DOMAIN conns
      BY <1>3, LoseFacts
    <3>2. QED
      BY <2>1, <3>1, LenProperties
  <2>3. missed' \subseteq Bodies
    BY <2>1, <2>2, UndeliveredType DEF TypeOK
  <2>4. losses' \in 0..MaxLosses
    BY <2>1, Bounds DEF TypeOK
  <2>5. QED
    BY <2>1, <2>2, <2>3, <2>4 DEF TypeOK, TabInv, srvVars
<1>4. CASE Reconnect
  <2>1. /\ timer /\ timer' = FALSE /\ Connect(conns, room)
        /\ UNCHANGED <<room, open, queue, messages, lists, answers, uploads, written, srvVars,
                       excused, missed, bounds, sends>>
    BY <1>4 DEF Reconnect
  <2>2. room \in Rooms /\ ~open /\ conns \in Seq(Sockets) /\ room # None
    BY <2>1 DEF TypeOK, TabInv
  <2>3. /\ conns' \in Seq(Sockets) /\ ws' \in 0..Len(conns') /\ ws' # 0
        /\ conns'[ws'].room = room
    BY <2>1, <2>2, ConnectFacts
  <2>4. QED
    BY <2>1, <2>2, <2>3 DEF TypeOK, TabInv, srvVars, bounds
<1>5. QED
  BY <1>1, <1>2, <1>3, <1>4

LEMMA TypeMessages ==
    ASSUME TypeOK, TabInv,
           Opens \/ OnMessage \/ (\E t \in Texts : SendText(t))
             \/ (\E f \in Files : Upload(f) \/ UploadAnswered(f))
    PROVE  TypeOK' /\ TabInv'
<1>1. CASE Opens
  <2>1. UNCHANGED <<room, ws, timer, messages, lists, answers, uploads, written, srvVars,
                    excused, missed, bounds, sends>> /\ open' = TRUE
    BY <1>1 DEF Opens
  <2>2. /\ conns' \in Seq(Sockets) /\ Len(conns') = Len(conns) /\ ws # 0
        /\ \A c \in DOMAIN conns : conns'[c].room = conns[c].room
        /\ ws \in DOMAIN conns /\ queue' = Flush(queue, room)[2] /\ room \in Rooms
    BY <1>1, OpensFacts DEF Opens
  <2>3. queue' \in Seq(Payloads)
    BY <2>2, FlushType DEF TypeOK
  <2>4. TypeOK'
    BY <2>1, <2>2, <2>3 DEF TypeOK, srvVars, bounds
  <2>5. TabInv'
    BY <2>1, <2>2 DEF TabInv
  <2>6. QED
    BY <2>4, <2>5
<1>2. CASE OnMessage
  <2> DEFINE e == Head(conns[ws].down)
  <2>1. /\ UNCHANGED <<tabVars, queue, lists, answers, uploads, written, srvVars, excused,
                       missed, bounds, sends>>
        /\ Receive(e, room)
    BY <1>2 DEF OnMessage
  <2>2. /\ conns' \in Seq(Sockets) /\ Len(conns') = Len(conns)
        /\ \A c \in DOMAIN conns : conns'[c].room = conns[c].room
        /\ ws \in DOMAIN conns /\ room \in Rooms /\ e \in Downs
    BY <1>2, OnMessageFacts
  <2> HIDE DEF e
  <2> DEFINE x == [body |-> e.body, id |-> e.id, state |-> e.state]
             old == messages[room]
             new == IF e.ev \in {"CHATLOG", "MSG"} THEN AddMessage(old, x)
                    ELSE ChangeMessage(old, e.body, e.id, e.state)
  <2>3. messages' = [messages EXCEPT ![room] = new]
    BY <2>1 DEF Receive
  <2>4. x \in Entries /\ old \in Seq(Entries) /\ e.state \in States
    BY <2>2 DEF Downs, Entries, TypeOK
  <2> HIDE DEF x, old
  <2>5. new \in Seq(Entries)
    BY <2>4, AddType, ChangeType
  <2> HIDE DEF new
  <2>6. messages' \in [Rooms -> Seq(Entries)]
    BY <2>2, <2>3, <2>5 DEF TypeOK
  <2>7. TypeOK'
    BY <2>1, <2>2, <2>6 DEF TypeOK, tabVars, srvVars, bounds
  <2>8. TabInv'
    BY <2>1, <2>2 DEF TabInv, tabVars
  <2>9. QED
    BY <2>7, <2>8
<1>3. ASSUME NEW t \in Texts, SendText(t) PROVE TypeOK' /\ TabInv'
  <2> DEFINE p == [body |-> t, room |-> room]
  <2>1. /\ room # None /\ written' = [written EXCEPT ![t] = room] /\ SendMessage(p)
        /\ sends' = Append(sends, t)
        /\ UNCHANGED <<tabVars, messages, lists, answers, uploads, srvVars, excused, missed,
                       bounds>>
    BY <1>3 DEF SendText
  <2>2. room \in Rooms /\ p \in Payloads /\ t \in Bodies
    BY <2>1, Bounds DEF TypeOK, Payloads
  <2> HIDE DEF p
  <2>3. /\ conns' \in Seq(Sockets) /\ Len(conns') = Len(conns) /\ queue' \in Seq(Payloads)
        /\ \A c \in DOMAIN conns : conns'[c].room = conns[c].room
    BY <2>1, <2>2, SendFacts
  <2>4. sends' \in Seq(Texts \cup Files)
    <3>1. sends \in Seq(Texts \cup Files) /\ t \in Texts \cup Files
      BY DEF TypeOK
    <3>2. QED
      BY <2>1, <3>1, AppendProperties
  <2>5. written' \in [Bodies -> Rooms \cup {None}]
    BY <2>1, <2>2 DEF TypeOK
  <2>6. TypeOK'
    BY <2>1, <2>3, <2>4, <2>5 DEF TypeOK, tabVars, srvVars, bounds
  <2>7. \A f \in Files : written'[f] = written[f]
    BY <2>1, Bounds DEF TypeOK
  <2>8. TabInv'
    BY <2>1, <2>3, <2>7, TabSocket DEF TabInv, tabVars
  <2>9. QED
    BY <2>6, <2>8
<1>4. ASSUME NEW f \in Files, Upload(f) PROVE TypeOK' /\ TabInv'
  <2>1. /\ room # None /\ uploads' = [uploads EXCEPT ![f] = "stored"]
        /\ written' = [written EXCEPT ![f] = room]
        /\ outbox' = outbox \cup {MsgEvent(room, f, "fresh")}
        /\ UNCHANGED <<tabVars, queue, messages, lists, answers, conns, docs, unsaved, arrived,
                       excused, missed, bounds, sends>>
    BY <1>4 DEF Upload
  <2>2. room \in Rooms /\ f \in Bodies
    BY <2>1, Bounds DEF TypeOK
  <2>3. MsgEvent(room, f, "fresh") \in Events
    BY <2>2, Bounds DEF MsgEvent, Events, Ids
  <2>4. /\ uploads' \in [Files -> {"none", "stored", "over"}] /\ outbox' \subseteq Events
        /\ written' \in [Bodies -> Rooms \cup {None}]
    BY <2>1, <2>2, <2>3 DEF TypeOK
  <2>5. TypeOK'
    BY <2>1, <2>4 DEF TypeOK, tabVars, bounds
  <2>6. \A g \in Files : uploads'[g] # "none" => written'[g] # None
    BY <2>1, <2>2, Bounds DEF TypeOK, TabInv
  <2>7. TabInv'
    BY <2>1, <2>6 DEF TabInv, tabVars
  <2>8. QED
    BY <2>5, <2>7
<1>5. ASSUME NEW f \in Files, UploadAnswered(f) PROVE TypeOK' /\ TabInv'
  <2> DEFINE p == [body |-> f, room |-> written[f]]
  <2>1. /\ uploads[f] = "stored" /\ uploads' = [uploads EXCEPT ![f] = "over"]
        /\ \/ SendMessage(p) /\ sends' = Append(sends, f)
           \/ UNCHANGED <<queue, conns, sends>>
        /\ UNCHANGED <<tabVars, messages, lists, answers, written, srvVars, excused, missed,
                       bounds>>
    BY <1>5 DEF UploadAnswered
  <2>2. uploads' \in [Files -> {"none", "stored", "over"}]
    BY <2>1 DEF TypeOK
  <2>3. CASE SendMessage(p) /\ sends' = Append(sends, f)
    <3>1. p \in Payloads
      BY <2>1, Bounds DEF TypeOK, TabInv, Payloads
    <3> HIDE DEF p
    <3>2. /\ conns' \in Seq(Sockets) /\ Len(conns') = Len(conns) /\ queue' \in Seq(Payloads)
          /\ \A c \in DOMAIN conns : conns'[c].room = conns[c].room
      BY <2>3, <3>1, SendFacts
    <3>3. sends' \in Seq(Texts \cup Files)
      <4>1. sends \in Seq(Texts \cup Files) /\ f \in Texts \cup Files
        BY DEF TypeOK
      <4>2. QED
        BY <2>3, <4>1, AppendProperties
    <3>4. TypeOK'
      BY <2>1, <2>2, <3>2, <3>3 DEF TypeOK, tabVars, srvVars, bounds
    <3>5. TabInv'
      <4>1. \A g \in Files : uploads'[g] # "none" => written'[g] # None
        BY <2>1 DEF TypeOK, TabInv
      <4>2. QED
        BY <2>1, <3>2, <4>1, TabSocket DEF TabInv, tabVars
    <3>6. QED
      BY <3>4, <3>5
  <2>4. CASE UNCHANGED <<queue, conns, sends>>
    <3>1. \A g \in Files : uploads'[g] # "none" => written'[g] # None
      BY <2>1 DEF TypeOK, TabInv
    <3>2. QED
      BY <2>1, <2>2, <2>4, <3>1 DEF TypeOK, TabInv, tabVars, srvVars, bounds
  <2>5. QED
    BY <2>1, <2>3, <2>4
<1>6. QED
  BY <1>1, <1>2, <1>3, <1>4, <1>5

\* The answers to list calls, edits and deletions.
LEMMA TypeAnswers ==
    ASSUME TypeOK, TabInv,
           \/ \E l \in lists : ListArrives(l)
           \/ \E b \in Texts \cup Peers, ev \in {"MSG_EDIT", "MSG_DELETE"} : OwnChange(b, ev)
           \/ \E a \in answers : ChangeAnswered(a)
    PROVE  TypeOK' /\ TabInv'
<1>1. ASSUME NEW l \in lists, ListArrives(l) PROVE TypeOK' /\ TabInv'
  <2>1. /\ lists' = lists \ {l}
        /\ \/ /\ l.snap # <<None>> /\ messages' = [messages EXCEPT ![l.room] = l.snap]
              /\ excused' \subseteq excused \cup Shown(messages[l.room])
              /\ missed' \subseteq missed \cup Shown(l.snap)
           \/ UNCHANGED <<messages, excused, missed>>
        /\ UNCHANGED <<tabVars, queue, answers, uploads, written, conns, srvVars, bounds, sends>>
    BY <1>1 DEF ListArrives
  <2>2. l \in Calls /\ l.room \in Rooms
    BY DEF TypeOK, Calls
  <2>3. /\ messages' \in [Rooms -> Seq(Entries)]
        /\ excused' \subseteq Bodies /\ missed' \subseteq Bodies
    <3>1. CASE UNCHANGED <<messages, excused, missed>>
      BY <3>1 DEF TypeOK
    <3>2. CASE /\ l.snap # <<None>> /\ messages' = [messages EXCEPT ![l.room] = l.snap]
               /\ excused' \subseteq excused \cup Shown(messages[l.room])
               /\ missed' \subseteq missed \cup Shown(l.snap)
      <4>1. l.snap \in Seq(Entries) /\ messages[l.room] \in Seq(Entries)
        BY <2>2, <3>2 DEF TypeOK, Calls
      <4>2. Shown(l.snap) \subseteq Bodies /\ Shown(messages[l.room]) \subseteq Bodies
        BY <4>1, ShownType
      <4>3. excused' \subseteq Bodies /\ missed' \subseteq Bodies
        BY <3>2, <4>2 DEF TypeOK
      <4>4. messages' \in [Rooms -> Seq(Entries)]
        BY <2>2, <3>2, <4>1 DEF TypeOK
      <4>5. QED
        BY <4>3, <4>4
    <3>3. QED
      BY <2>1, <3>1, <3>2
  <2>4. lists' \subseteq Calls
    BY <2>1 DEF TypeOK
  <2>5. QED
    BY <2>1, <2>3, <2>4 DEF TypeOK, TabInv, tabVars, srvVars, bounds
<1>2. ASSUME NEW b \in Texts \cup Peers, NEW ev \in {"MSG_EDIT", "MSG_DELETE"}, OwnChange(b, ev)
      PROVE  TypeOK' /\ TabInv'
  <2>1. /\ room \in Rooms /\ Change(room, b, ev)
        /\ answers' = answers \cup {[room |-> room, body |-> b, state |-> NewState(ev)]}
    BY <1>2 DEF OwnChange, TypeOK
  <2>2. /\ changes' \in 0..MaxChanges /\ docs' \in [Rooms -> Seq(Docs)] /\ outbox' \subseteq Events
        /\ NewState(ev) \in States /\ b \in Bodies
        /\ UNCHANGED <<tabVars, queue, messages, lists, uploads, written, conns, unsaved,
                       arrived, excused, missed, selects, losses, repeated, sends>>
    BY <2>1, ChangeFacts
  <2>3. answers' \subseteq [room : Rooms, body : Bodies, state : States]
    BY <2>1, <2>2 DEF TypeOK
  <2>4. TypeOK'
    BY <2>2, <2>3 DEF TypeOK, tabVars
  <2>5. TabInv'
    BY <2>2 DEF TabInv, tabVars
  <2>6. QED
    BY <2>4, <2>5
<1>3. ASSUME NEW a \in answers, ChangeAnswered(a) PROVE TypeOK' /\ TabInv'
  <2> DEFINE new == ChangeMessage(messages[a.room], a.body, "doc", a.state)
  <2>1. /\ answers' = answers \ {a} /\ messages' = [messages EXCEPT ![a.room] = new]
        /\ missed' \subseteq missed \cup {a.body}
        /\ UNCHANGED <<tabVars, queue, lists, uploads, written, conns, srvVars, excused, bounds,
                       sends>>
    BY <1>3 DEF ChangeAnswered
  <2>2. /\ a.room \in Rooms /\ a.body \in Bodies /\ a.state \in States
        /\ messages[a.room] \in Seq(Entries)
    BY DEF TypeOK
  <2>3. new \in Seq(Entries)
    BY <2>2, ChangeType
  <2> HIDE DEF new
  <2>4. messages' \in [Rooms -> Seq(Entries)] /\ missed' \subseteq Bodies
    BY <2>1, <2>2, <2>3 DEF TypeOK
  <2>5. answers' \subseteq [room : Rooms, body : Bodies, state : States]
    BY <2>1 DEF TypeOK
  <2>6. QED
    BY <2>1, <2>4, <2>5 DEF TypeOK, TabInv, tabVars, srvVars, bounds
<1>4. QED
  BY <1>1, <1>2, <1>3

\* What the server and other users do leaves the socket to the tab.
LEMMA TabKept ==
    ASSUME TypeOK, TabInv, Server \/ Others
    PROVE  TabInv'
<1>1. /\ UNCHANGED <<tabVars, uploads>>
      /\ \A c \in DOMAIN conns : conns'[c].room = conns[c].room
      /\ \A f \in Files : written[f] # None => written'[f] # None
  <2>1. ASSUME NEW c \in DOMAIN conns, Handler(c)
        PROVE  /\ UNCHANGED <<tabVars, uploads, written>>
               /\ \A d \in DOMAIN conns : conns'[d].room = conns[d].room
    <3>1. UNCHANGED <<tabVars, uploads, written>>
      BY <2>1 DEF Handler, FetchHistory, Register, ServerReads
    <3>2. QED
      BY <2>1, <3>1, FetchFacts, RegisterFacts, ReadFacts DEF Handler
  <2>2. ASSUME NEW e \in outbox, Broadcast(e)
        PROVE  /\ UNCHANGED <<tabVars, uploads, written>>
               /\ \A d \in DOMAIN conns : conns'[d].room = conns[d].room
    <3>1. \A d \in DOMAIN conns : conns[d] \in Sockets
      BY SocketAt
    <3>2. QED
      BY <2>2, <3>1 DEF Broadcast, Sockets
  <2>3. ASSUME \/ \E u \in unsaved : Store(u)
               \/ \E e \in outbox : Drop(e)
               \/ \E l \in lists : ListAnswered(l)
        PROVE  UNCHANGED <<tabVars, uploads, written, conns>>
    BY <2>3 DEF Store, Drop, ListAnswered
  <2>4. ASSUME NEW b \in Peers, NEW r \in Rooms, PeerText(b, r) \/ PeerReply(b, r)
        PROVE  UNCHANGED <<tabVars, uploads, conns>>
                 /\ \A f \in Files : written[f] # None => written'[f] # None
    BY <2>4, Bounds DEF PeerText, PeerReply, TypeOK
  <2>5. ASSUME NEW b \in Peers, NEW r \in Rooms, NEW ev \in {"MSG_EDIT", "MSG_DELETE"},
               PeerChange(r, b, ev)
        PROVE  UNCHANGED <<tabVars, uploads, written, conns>>
    BY <2>5 DEF PeerChange, Change
  <2>6. QED
    BY <2>1, <2>2, <2>3, <2>4, <2>5 DEF Server, Others
<1>2. ws # 0 => ws \in DOMAIN conns
  BY TabSocket
<1>3. QED
  BY <1>1, <1>2 DEF TabInv, tabVars

TypeInv == TypeOK /\ TabInv

LEMMA TypeStep == TypeInv /\ [Next]_vars => TypeInv'
<1> SUFFICES ASSUME TypeOK, TabInv, [Next]_vars PROVE TypeOK' /\ TabInv'
  BY DEF TypeInv
<1>1. CASE Server
  BY <1>1, TypeServer, TabKept
<1>2. CASE Others
  BY <1>2, TypeOthers, TabKept
<1>3. CASE Tab
  BY <1>3, TypeSockets, TypeMessages, TypeAnswers DEF Tab
<1>4. CASE UNCHANGED vars
  BY <1>4 DEF TypeOK, TabInv, vars, tabVars, srvVars, bounds
<1>5. QED
  BY <1>1, <1>2, <1>3, <1>4 DEF Next

LEMMA TypeStart == Init => TypeInv
<1>1. Init => TabInv
  BY DEF Init, TabInv
<1>2. QED
  BY <1>1, TypeInit DEF TypeInv

\* The types of WebClient: in particular what is queued and what goes over a
\* connection names a room, and wsRef is a connection that was made.
THEOREM TypeCorrect == Spec => []TypeOK
<1>1. TypeInv => TypeOK
  BY DEF TypeInv
<1>2. QED
  BY <1>1, TypeStart, TypeStep, PTL DEF Spec

(***************************************************************************)
(* What the tab sends.  Each connection is a line from the tab to the      *)
(* server; the offline queue is one more.                                  *)
(***************************************************************************)
UpOf   == [c \in DOMAIN conns |-> conns[c].up]
RoomOf == [c \in DOMAIN conns |-> conns[c].room]

Among(ss) == {ss[i] : i \in DOMAIN ss}

\* In the sequence ss, a comes before b.
Before(ss, a, b) == \E m, n \in DOMAIN ss : m < n /\ ss[m] = a /\ ss[n] = b

\* The bodies of s are in the order in which they are in ss.
Sorted(ss, s) == \A i, j \in DOMAIN s : i < j => Before(ss, s[i].body, s[j].body)

\* sendMessage is called once for a body: for a text when it is written, for a
\* file when its upload is answered.
SendsOnce ==
    /\ \A i, j \in DOMAIN sends : sends[i] = sends[j] => i = j
    /\ \A b \in Among(sends) : /\ b \in Texts => written[b] # None
                               /\ b \in Files => uploads[b] = "over"

\* What was sent is in the queue, on one connection or at the server, once.
OnePlace ==
    /\ Shown(queue) \subseteq Among(sends)
    /\ \A c \in DOMAIN UpOf :
         /\ Shown(UpOf[c]) \subseteq Among(sends) \ Shown(queue)
         /\ \A d \in DOMAIN UpOf \ {c} : Shown(UpOf[c]) \cap Shown(UpOf[d]) = {}
    /\ \A r \in Rooms :
         /\ Shown(arrived[r]) \subseteq Among(sends) \ Shown(queue)
         /\ \A c \in DOMAIN UpOf : Shown(arrived[r]) \cap Shown(UpOf[c]) = {}
         /\ \A q \in Rooms \ {r} : Shown(arrived[r]) \cap Shown(arrived[q]) = {}
         /\ \A i, j \in DOMAIN arrived[r] : arrived[r][i].body = arrived[r][j].body => i = j

\* What is queued, and what goes over one connection, is in the order of the calls.
InLine ==
    /\ Sorted(sends, queue)
    /\ \A c \in DOMAIN UpOf : Sorted(sends, UpOf[c])
    /\ \A r \in Rooms : \A j \in DOMAIN arrived[r] :
         /\ arrived[r][j].conn \in DOMAIN UpOf
         /\ RoomOf[arrived[r][j].conn] = r
         /\ \A p \in Shown(UpOf[arrived[r][j].conn]) : Before(sends, arrived[r][j].body, p)
         /\ \A i \in 1..(j - 1) : arrived[r][i].conn = arrived[r][j].conn =>
              Before(sends, arrived[r][i].body, arrived[r][j].body)

\* A text is where it was written for.
TextsAtHome ==
    /\ \A i \in DOMAIN queue : queue[i].body \in Texts => written[queue[i].body] = queue[i].room
    /\ \A c \in DOMAIN UpOf : \A b \in Shown(UpOf[c]) \cap Texts : written[b] = RoomOf[c]
    /\ \A r \in Rooms : \A b \in Shown(arrived[r]) \cap Texts : written[b] = r

\* Nothing is sent over a socket before it is open.
NothingEarly ==
    ws # 0 /\ ~open =>
      /\ UpOf[ws] = <<>>
      /\ \A r \in Rooms : \A i \in DOMAIN arrived[r] : arrived[r][i].conn # ws

LineInv == SendsOnce /\ OnePlace /\ InLine /\ TextsAtHome

\* Bodies and order in a sequence that is empty, grows or shrinks.
LEMMA ShownEmpty == Shown(<<>>) = {}
BY DEF Shown

LEMMA ShownAppend ==
    ASSUME NEW S, NEW s \in Seq(S), NEW e \in S
    PROVE  Shown(Append(s, e)) = Shown(s) \cup {e.body}
<1> DEFINE t == Append(s, e)
<1>1. /\ DOMAIN t = 1..(Len(s) + 1) /\ Len(s) \in Nat /\ DOMAIN s = 1..Len(s)
      /\ \A i \in 1..Len(s) : t[i] = s[i]
      /\ t[Len(s) + 1] = e
  BY AppendProperties, LenProperties
<1> HIDE DEF t
<1>2. \A i \in DOMAIN t : i \in DOMAIN s \/ i = Len(s) + 1
  BY <1>1
<1>3. Len(s) + 1 \in DOMAIN t /\ \A i \in DOMAIN s : i \in DOMAIN t /\ t[i] = s[i]
  BY <1>1
<1>4. QED
  BY <1>1, <1>2, <1>3 DEF Shown, t

LEMMA ShownTail ==
    ASSUME NEW S, NEW s \in Seq(S), s # <<>>
    PROVE  Shown(s) = {Head(s).body} \cup Shown(Tail(s))
<1> DEFINE t == Tail(s)
<1>1. /\ t \in Seq(S) /\ Len(t) = Len(s) - 1 /\ Len(s) \in Nat \ {0}
      /\ \A i \in 1..Len(t) : t[i] = s[i + 1]
      /\ Head(s) = s[1]
      /\ DOMAIN s = 1..Len(s) /\ DOMAIN t = 1..Len(t)
  BY HeadTailProperties, EmptySeq, LenProperties
<1> HIDE DEF t
<1>2. \A i \in DOMAIN t : i + 1 \in DOMAIN s /\ t[i] = s[i + 1]
  BY <1>1
<1>3. \A i \in DOMAIN s : i = 1 \/ (i - 1 \in DOMAIN t /\ t[i - 1] = s[i])
  BY <1>1
<1>4. 1 \in DOMAIN s
  BY <1>1
<1>5. Shown(t) \subseteq Shown(s) /\ s[1].body \in Shown(s)
  BY <1>2, <1>4 DEF Shown
<1>6. \A b \in Shown(s) : b = s[1].body \/ b \in Shown(t)
  BY <1>3 DEF Shown
<1>7. QED
  BY <1>1, <1>5, <1>6 DEF t

LEMMA BeforeFacts ==
    ASSUME NEW S, NEW ss \in Seq(S), NEW x \in S
    PROVE  /\ \A a, b : Before(ss, a, b) => Before(Append(ss, x), a, b)
           /\ \A a \in Among(ss) : Before(Append(ss, x), a, x)
           /\ Among(Append(ss, x)) = Among(ss) \cup {x}
           /\ (\A i, j \in DOMAIN ss : ss[i] = ss[j] => i = j) =>
                \A a : ~Before(ss, a, a)
<1> DEFINE t == Append(ss, x)
<1>1. /\ DOMAIN t = 1..(Len(ss) + 1) /\ Len(ss) \in Nat /\ DOMAIN ss = 1..Len(ss)
      /\ \A i \in 1..Len(ss) : t[i] = ss[i]
      /\ t[Len(ss) + 1] = x
  BY AppendProperties, LenProperties
<1> HIDE DEF t
<1>2. \A i \in DOMAIN t : i \in DOMAIN ss \/ i = Len(ss) + 1
  BY <1>1
<1>3. /\ Len(ss) + 1 \in DOMAIN t
      /\ \A i \in DOMAIN ss : i \in DOMAIN t /\ t[i] = ss[i] /\ i < Len(ss) + 1
  BY <1>1
<1>4. \A a, b : Before(ss, a, b) => Before(t, a, b)
  BY <1>3 DEF Before
<1>5. \A a \in Among(ss) : Before(t, a, x)
  BY <1>1, <1>3 DEF Before, Among
<1>6. Among(t) = Among(ss) \cup {x}
  BY <1>1, <1>2, <1>3 DEF Among
<1>7. ASSUME \A i, j \in DOMAIN ss : ss[i] = ss[j] => i = j, NEW a, Before(ss, a, a)
      PROVE  FALSE
  BY <1>1, <1>7 DEF Before
<1>8. QED
  BY <1>4, <1>5, <1>6, <1>7 DEF t

LEMMA SortedAppend ==
    ASSUME NEW S, NEW s \in Seq(S), NEW e \in S, NEW ss, Sorted(ss, s),
           \A b \in Shown(s) : Before(ss, b, e.body)
    PROVE  Sorted(ss, Append(s, e))
<1> DEFINE t == Append(s, e)
<1>1. /\ DOMAIN t = 1..(Len(s) + 1) /\ Len(s) \in Nat /\ DOMAIN s = 1..Len(s)
      /\ \A i \in 1..Len(s) : t[i] = s[i]
      /\ t[Len(s) + 1] = e
  BY AppendProperties, LenProperties
<1> HIDE DEF t
<1>2. ASSUME NEW i \in DOMAIN t, NEW j \in DOMAIN t, i < j
      PROVE  Before(ss, t[i].body, t[j].body)
  <2>1. i \in DOMAIN s /\ t[i] = s[i] /\ s[i].body \in Shown(s)
    BY <1>1, <1>2 DEF Shown
  <2>2. CASE j \in DOMAIN s
    BY <1>1, <1>2, <2>1, <2>2 DEF Sorted
  <2>3. CASE j = Len(s) + 1
    BY <1>1, <2>1, <2>3
  <2>4. QED
    BY <1>1, <2>2, <2>3
<1>3. QED
  BY <1>2 DEF Sorted, t

LEMMA SortedTail ==
    ASSUME NEW S, NEW s \in Seq(S), s # <<>>, NEW ss, Sorted(ss, s)
    PROVE  /\ Sorted(ss, Tail(s))
           /\ \A p \in Shown(Tail(s)) : Before(ss, Head(s).body, p)
<1> DEFINE t == Tail(s)
<1>1. /\ t \in Seq(S) /\ Len(t) = Len(s) - 1 /\ Len(s) \in Nat \ {0}
      /\ \A i \in 1..Len(t) : t[i] = s[i + 1]
      /\ Head(s) = s[1]
      /\ DOMAIN s = 1..Len(s) /\ DOMAIN t = 1..Len(t)
  BY HeadTailProperties, EmptySeq, LenProperties
<1> HIDE DEF t
<1>2. \A i \in DOMAIN t : i + 1 \in DOMAIN s /\ t[i] = s[i + 1] /\ 1 < i + 1 /\ i \in Nat
  BY <1>1
<1>3. Sorted(ss, t)
  <2> SUFFICES ASSUME NEW i \in DOMAIN t, NEW j \in DOMAIN t, i < j
               PROVE  Before(ss, t[i].body, t[j].body)
    BY DEF Sorted
  <2>1. i + 1 < j + 1
    BY <1>2
  <2>2. QED
    BY <1>2, <2>1 DEF Sorted
<1>4. \A p \in Shown(t) : Before(ss, s[1].body, p)
  <2>1. 1 \in DOMAIN s
    BY <1>1
  <2>2. QED
    BY <1>2, <2>1 DEF Sorted, Shown
<1>5. QED
  BY <1>1, <1>3, <1>4 DEF t

Distinct(ss) == \A i, j \in DOMAIN ss : ss[i] = ss[j] => i = j

WrittenFor(q, r) == {q[i].body : i \in {j \in DOMAIN q : q[j].room = r}}

\* flushOfflineQueue keeps the order of both parts.
LEMMA FlushFacts ==
    ASSUME NEW q \in Seq(Payloads), NEW r \in Rooms,
           NEW S, NEW ss \in Seq(S), Sorted(ss, q), Distinct(ss)
    PROVE  /\ Sorted(ss, Flush(q, r)[1]) /\ Sorted(ss, Flush(q, r)[2])
           /\ Shown(Flush(q, r)[1]) \subseteq Shown(q) /\ Shown(Flush(q, r)[2]) \subseteq Shown(q)
           /\ Shown(Flush(q, r)[1]) \cap Shown(Flush(q, r)[2]) = {}
           /\ Shown(Flush(q, r)[1]) \subseteq WrittenFor(q, r)
           /\ Among(Flush(q, r)[2]) \subseteq Among(q)
<1> DEFINE K == [body : Bodies, room : {r}]
           L == [body : Bodies, room : Rooms \ {r}]
           f == OnlyIn(q, K)
           g == OnlyIn(q, L)
           R == {x \in Payloads \X Payloads : Before(ss, x[1].body, x[2].body)}
<1>1. Flush(q, r)[1] = f /\ Flush(q, r)[2] = g
  BY DEF Flush
<1>2. f \in Seq(Payloads) /\ g \in Seq(Payloads)
  BY OnlyInType
<1>3. /\ \A i \in 1..Len(f) : f[i] \in K /\ \E j \in 1..Len(q) : f[i] = q[j]
      /\ \A i \in 1..Len(g) : g[i] \in L /\ \E j \in 1..Len(q) : g[i] = q[j]
  <2> HIDE DEF K, L
  <2>1. QED
    BY OnlyInFrom
<1>4. \A s \in Seq(Payloads) : Sorted(ss, s) <=> \A i, j \in 1..Len(s) : i < j => <<s[i], s[j]>> \in R
  <2> SUFFICES ASSUME NEW s \in Seq(Payloads)
               PROVE  Sorted(ss, s) <=> \A i, j \in 1..Len(s) : i < j => <<s[i], s[j]>> \in R
    OBVIOUS
  <2>1. DOMAIN s = 1..Len(s) /\ \A i \in 1..Len(s) : s[i] \in Payloads
    OBVIOUS
  <2>2. \A x, y \in Payloads : <<x, y>> \in R <=> Before(ss, x.body, y.body)
    OBVIOUS
  <2> HIDE DEF R
  <2>3. QED
    BY <2>1, <2>2 DEF Sorted
<1>5. Sorted(ss, f) /\ Sorted(ss, g)
  <2> HIDE DEF K, L, R
  <2>1. \A i, j \in 1..Len(q) : i < j => <<q[i], q[j]>> \in R
    BY <1>4
  <2>2. \A i, j \in 1..Len(f) : i < j => <<f[i], f[j]>> \in R
    BY <2>1, OnlyInOrdered
  <2>3. \A i, j \in 1..Len(g) : i < j => <<g[i], g[j]>> \in R
    BY <2>1, OnlyInOrdered
  <2> HIDE DEF f, g
  <2>4. QED
    BY <1>2, <1>4, <2>2, <2>3
<1> HIDE DEF f, g, R
<1>6. /\ DOMAIN f = 1..Len(f) /\ DOMAIN g = 1..Len(g) /\ DOMAIN q = 1..Len(q)
      /\ \A i \in DOMAIN q : i \in Int
  BY <1>2
<1>7. /\ \A i \in DOMAIN f : f[i].room = r /\ \E j \in DOMAIN q : f[i] = q[j]
      /\ \A i \in DOMAIN g : g[i].room # r /\ \E j \in DOMAIN q : g[i] = q[j]
  BY <1>3, <1>6
<1>8. Shown(f) \cap Shown(g) = {}
  <2> SUFFICES ASSUME NEW i \in DOMAIN f, NEW j \in DOMAIN g, f[i].body = g[j].body PROVE FALSE
    BY DEF Shown
  <2>1. PICK m \in DOMAIN q : f[i] = q[m]
    BY <1>7
  <2>2. PICK n \in DOMAIN q : g[j] = q[n]
    BY <1>7
  <2>3. m # n
    BY <1>7, <2>1, <2>2
  <2>4. Before(ss, q[m].body, q[n].body) \/ Before(ss, q[n].body, q[m].body)
    BY <1>6, <2>3 DEF Sorted
  <2>5. q[m].body = q[n].body
    BY <2>1, <2>2
  <2>6. ~Before(ss, q[m].body, q[m].body)
    <3>1. DOMAIN ss \subseteq Int
      BY LenProperties
    <3>2. QED
      BY <3>1 DEF Before, Distinct
  <2>7. QED
    BY <2>4, <2>5, <2>6
<1>9. Shown(f) \subseteq Shown(q) /\ Shown(g) \subseteq Shown(q)
  BY <1>7 DEF Shown
<1>10. Shown(f) \subseteq WrittenFor(q, r) /\ Among(g) \subseteq Among(q)
  BY <1>7 DEF Shown, WrittenFor, Among
<1>11. QED
  BY <1>1, <1>5, <1>8, <1>9, <1>10

LEMMA UpTypes ==
    ASSUME TypeOK
    PROVE  /\ DOMAIN UpOf = DOMAIN conns /\ DOMAIN RoomOf = DOMAIN conns
           /\ DOMAIN conns = 1..Len(conns) /\ Len(conns) \in Nat
           /\ \A c \in DOMAIN conns : /\ UpOf[c] = conns[c].up /\ UpOf[c] \in Seq(Payloads)
                                      /\ RoomOf[c] = conns[c].room /\ RoomOf[c] \in Rooms
           /\ sends \in Seq(Texts \cup Files)
           /\ \A r \in Rooms : /\ arrived[r] \in Seq([body : Bodies, conn : Nat])
                               /\ DOMAIN arrived[r] = 1..Len(arrived[r]) /\ Len(arrived[r]) \in Nat
<1>1. /\ conns \in Seq(Sockets) /\ sends \in Seq(Texts \cup Files)
      /\ \A r \in Rooms : arrived[r] \in Seq([body : Bodies, conn : Nat])
  BY DEF TypeOK
<1>2. /\ DOMAIN conns = 1..Len(conns) /\ Len(conns) \in Nat
      /\ \A r \in Rooms : DOMAIN arrived[r] = 1..Len(arrived[r]) /\ Len(arrived[r]) \in Nat
  BY <1>1
<1>3. \A c \in DOMAIN conns : conns[c].up \in Seq(Payloads) /\ conns[c].room \in Rooms
  BY SocketAt
<1>4. QED
  BY <1>1, <1>2, <1>3 DEF UpOf, RoomOf

\* Nothing is lost in a step that sends nothing: connections are made, or are
\* emptied, and texts and uploads go on elsewhere.
LEMMA LineQuiet ==
    ASSUME TypeOK, LineInv,
           UNCHANGED <<queue, arrived, sends>>,
           \A c \in DOMAIN UpOf : c \in DOMAIN UpOf' /\ RoomOf'[c] = RoomOf[c],
           \A c \in DOMAIN UpOf' : UpOf'[c] = <<>> \/ (c \in DOMAIN UpOf /\ UpOf'[c] = UpOf[c]),
           \A b \in Texts : written[b] # None => written'[b] = written[b],
           \A f \in Files : uploads[f] = "over" => uploads'[f] = "over"
    PROVE  LineInv'
<1>1. /\ UNCHANGED <<queue, arrived, sends>>
      /\ Shown(<<>>) = {} /\ Sorted(sends, <<>>)
      /\ \A c \in DOMAIN UpOf' : Shown(UpOf'[c]) = {} \/ (c \in DOMAIN UpOf /\ UpOf'[c] = UpOf[c])
  BY ShownEmpty DEF Sorted
<1>2. SendsOnce'
  <2>1. \A b \in Among(sends) : /\ b \in Texts => written'[b] # None
                                /\ b \in Files => uploads'[b] = "over"
    BY DEF LineInv, SendsOnce
  <2>2. QED
    BY <1>1, <2>1 DEF LineInv, SendsOnce
<1>3. OnePlace'
  <2>1. \A c \in DOMAIN UpOf' :
          /\ Shown(UpOf'[c]) \subseteq Among(sends) \ Shown(queue)
          /\ \A d \in DOMAIN UpOf' \ {c} : Shown(UpOf'[c]) \cap Shown(UpOf'[d]) = {}
    BY <1>1 DEF LineInv, OnePlace
  <2>2. \A r \in Rooms : \A c \in DOMAIN UpOf' : Shown(arrived[r]) \cap Shown(UpOf'[c]) = {}
    BY <1>1 DEF LineInv, OnePlace
  <2>3. QED
    BY <1>1, <2>1, <2>2 DEF LineInv, OnePlace
<1>4. InLine'
  <2>1. \A c \in DOMAIN UpOf' : Sorted(sends, UpOf'[c])
    BY <1>1 DEF LineInv, InLine
  <2>2. \A r \in Rooms : \A j \in DOMAIN arrived[r] :
          /\ arrived[r][j].conn \in DOMAIN UpOf'
          /\ RoomOf'[arrived[r][j].conn] = r
          /\ \A p \in Shown(UpOf'[arrived[r][j].conn]) : Before(sends, arrived[r][j].body, p)
    BY <1>1 DEF LineInv, InLine
  <2>3. Sorted(sends, queue) /\ \A r \in Rooms : \A j \in DOMAIN arrived[r] : \A i \in 1..(j - 1) :
          arrived[r][i].conn = arrived[r][j].conn => Before(sends, arrived[r][i].body, arrived[r][j].body)
    BY DEF LineInv, InLine
  <2>4. QED
    BY <1>1, <2>1, <2>2, <2>3 DEF InLine
<1>5. TextsAtHome'
  <2>1. \A b \in Among(sends) \cap Texts : written'[b] = written[b]
    BY DEF LineInv, SendsOnce
  <2>2. \A i \in DOMAIN queue : queue[i].body \in Among(sends)
    BY DEF LineInv, OnePlace, Shown
  <2>3. \A c \in DOMAIN UpOf' : \A b \in Shown(UpOf'[c]) \cap Texts :
          c \in DOMAIN UpOf /\ b \in Shown(UpOf[c]) /\ b \in Among(sends)
    BY <1>1 DEF LineInv, OnePlace
  <2>4. \A r \in Rooms : \A b \in Shown(arrived[r]) \cap Texts : b \in Among(sends)
    BY DEF LineInv, OnePlace
  <2>5. QED
    BY <1>1, <2>1, <2>2, <2>3, <2>4 DEF LineInv, TextsAtHome
<1>6. QED
  BY <1>2, <1>3, <1>4, <1>5 DEF LineInv

\* readPump takes the next message of its connection.
LEMMA LineRead ==
    ASSUME TypeOK, LineInv, NothingEarly, NEW c \in DOMAIN conns, ServerReads(c)
    PROVE  LineInv' /\ NothingEarly'
<1> DEFINE r == conns[c].room
           b == Head(conns[c].up).body
           e == [body |-> b, conn |-> c]
           old == arrived[r]
           new == Append(old, e)
<1>1. /\ arrived' = [arrived EXCEPT ![r] = new]
      /\ UNCHANGED <<tabVars, queue, uploads, written, sends>>
  BY DEF ServerReads
<1>2. /\ DOMAIN conns' = DOMAIN conns /\ r \in Rooms /\ c \in Nat /\ b \in Bodies
      /\ \A d \in DOMAIN conns : conns'[d].room = conns[d].room
      /\ \A d \in DOMAIN conns \ {c} : conns'[d] = conns[d]
      /\ conns[c].up \in Seq(Payloads) /\ conns[c].up # <<>>
      /\ conns'[c].up \in {Tail(conns[c].up), <<>>}
  BY ReadFacts, SocketAt DEF Payloads
<1>3. /\ DOMAIN UpOf = DOMAIN conns /\ DOMAIN UpOf' = DOMAIN conns /\ RoomOf' = RoomOf
      /\ \A d \in DOMAIN conns \ {c} : UpOf'[d] = UpOf[d]
      /\ UpOf[c] = conns[c].up /\ UpOf'[c] \in {Tail(UpOf[c]), <<>>} /\ RoomOf[c] = r
  BY <1>2 DEF UpOf, RoomOf
<1>4. b \in Shown(UpOf[c]) /\ Shown(UpOf'[c]) \subseteq Shown(UpOf[c])
  <2>1. Shown(UpOf[c]) = {b} \cup Shown(Tail(UpOf[c]))
    BY <1>2, <1>3, ShownTail
  <2>2. QED
    BY <1>3, <2>1, ShownEmpty
<1>5. /\ Sorted(sends, UpOf'[c])
      /\ \A p \in Shown(UpOf'[c]) : Before(sends, b, p)
  <2>1. Sorted(sends, conns[c].up)
    BY <1>3 DEF LineInv, InLine
  <2>2. /\ Sorted(sends, Tail(UpOf[c]))
        /\ \A p \in Shown(Tail(UpOf[c])) : Before(sends, b, p)
    BY <1>2, <1>3, <2>1, SortedTail
  <2>3. Sorted(sends, <<>>)
    BY DEF Sorted
  <2>4. QED
    BY <1>3, <2>2, <2>3, ShownEmpty
<1>6. \A a : ~Before(sends, a, a)
  <2>1. sends \in Seq(Texts \cup Files)
    BY DEF TypeOK
  <2>2. DOMAIN sends \subseteq Int
    BY <2>1
  <2>3. QED
    BY <2>2 DEF Before, LineInv, SendsOnce
<1>7. b \notin Shown(UpOf'[c])
  BY <1>5, <1>6
<1>8. /\ new \in Seq([body : Bodies, conn : Nat]) /\ Shown(new) = Shown(old) \cup {b}
      /\ DOMAIN old = 1..Len(old) /\ Len(old) \in Nat /\ DOMAIN new = 1..(Len(old) + 1)
      /\ \A i \in DOMAIN old : new[i] = old[i]
      /\ new[Len(old) + 1].body = b /\ new[Len(old) + 1].conn = c
  <2>1. old \in Seq([body : Bodies, conn : Nat]) /\ e \in [body : Bodies, conn : Nat] /\ e.body = b
    BY <1>2 DEF TypeOK
  <2> DEFINE Arrivals == [body : Bodies, conn : Nat]
  <2>0. old \in Seq(Arrivals) /\ e \in Arrivals
    BY <2>1
  <2> HIDE DEF e, old, b, Arrivals
  <2>2. Shown(new) = Shown(old) \cup {b}
    <3>1. Shown(Append(old, e)) = Shown(old) \cup {e.body}
      BY <2>0, ShownAppend
    <3>2. QED
      BY <2>1, <3>1
  <2>3. /\ new \in Seq([body : Bodies, conn : Nat])
        /\ DOMAIN old = 1..Len(old) /\ Len(old) \in Nat /\ DOMAIN new = 1..(Len(old) + 1)
        /\ \A i \in DOMAIN old : new[i] = old[i]
        /\ new[Len(old) + 1] = e
    BY <2>1, AppendProperties, LenProperties
  <2>4. e.body = b /\ e.conn = c
    BY DEF e
  <2>5. QED
    BY <2>2, <2>3, <2>4
<1>9. /\ arrived'[r] = new /\ \A q \in Rooms \ {r} : arrived'[q] = arrived[q]
  BY <1>1, <1>2 DEF TypeOK
<1> HIDE DEF r, b, new
<1>10. \A i \in DOMAIN new : i \in DOMAIN old \/ i = Len(old) + 1
  BY <1>8
<1>11. \A i \in DOMAIN old : old[i].body \in Shown(old)
  BY DEF Shown
<1> HIDE DEF old
<1>12. SendsOnce'
  BY <1>1 DEF LineInv, SendsOnce
<1>13. OnePlace'
  <2>1. b \in Among(sends) /\ b \notin Shown(queue) /\ b \notin Shown(old)
        /\ (\A d \in DOMAIN conns \ {c} : b \notin Shown(UpOf[d]))
        /\ (\A q \in Rooms : b \notin Shown(arrived[q]))
    BY <1>2, <1>3, <1>4 DEF LineInv, OnePlace, old
  <2>2. \A d \in DOMAIN UpOf' : Shown(UpOf'[d]) \subseteq Shown(UpOf[d]) /\ d \in DOMAIN UpOf
                                /\ b \notin Shown(UpOf'[d])
    BY <1>3, <1>4, <1>7, <2>1
  <2>3. \A q \in Rooms : Shown(arrived'[q]) = IF q = r THEN Shown(arrived[q]) \cup {b}
                                              ELSE Shown(arrived[q])
    BY <1>8, <1>9 DEF old
  <2>4. \A d \in DOMAIN UpOf' :
          /\ Shown(UpOf'[d]) \subseteq Among(sends) \ Shown(queue)
          /\ \A f \in DOMAIN UpOf' \ {d} : Shown(UpOf'[d]) \cap Shown(UpOf'[f]) = {}
    BY <2>2 DEF LineInv, OnePlace
  <2>5. \A q \in Rooms :
         /\ Shown(arrived'[q]) \subseteq Among(sends) \ Shown(queue)
         /\ \A d \in DOMAIN UpOf' : Shown(arrived'[q]) \cap Shown(UpOf'[d]) = {}
         /\ \A p \in Rooms \ {q} : Shown(arrived'[q]) \cap Shown(arrived'[p]) = {}
    <3>1. \A q \in Rooms : Shown(arrived'[q]) \subseteq Among(sends) \ Shown(queue)
      <4>1. \A q \in Rooms : Shown(arrived[q]) \subseteq Among(sends) \ Shown(queue)
        BY DEF LineInv, OnePlace
      <4>2. ASSUME NEW q \in Rooms
            PROVE  Shown(arrived'[q]) \subseteq Among(sends) \ Shown(queue)
        <5>1. Shown(arrived'[q]) \subseteq Shown(arrived[q]) \cup {b}
          BY <2>3
        <5>2. QED
          BY <2>1, <4>1, <5>1
      <4>3. QED
        BY <4>2
    <3>2. \A q \in Rooms : \A d \in DOMAIN UpOf' : Shown(arrived'[q]) \cap Shown(UpOf'[d]) = {}
      <4>1. \A q \in Rooms : \A d \in DOMAIN UpOf : Shown(arrived[q]) \cap Shown(UpOf[d]) = {}
        BY DEF LineInv, OnePlace
      <4>2. ASSUME NEW q \in Rooms, NEW d \in DOMAIN UpOf'
            PROVE  Shown(arrived'[q]) \cap Shown(UpOf'[d]) = {}
        <5>1. /\ Shown(arrived'[q]) \subseteq Shown(arrived[q]) \cup {b}
              /\ d \in DOMAIN UpOf /\ Shown(UpOf'[d]) \subseteq Shown(UpOf[d]) \ {b}
          BY <2>2, <2>3
        <5>2. QED
          BY <4>1, <5>1
      <4>3. QED
        BY <4>2
    <3>3. \A q \in Rooms : \A p \in Rooms \ {q} : Shown(arrived'[q]) \cap Shown(arrived'[p]) = {}
      <4>1. \A q \in Rooms : \A p \in Rooms \ {q} : Shown(arrived[q]) \cap Shown(arrived[p]) = {}
        BY DEF LineInv, OnePlace
      <4>2. ASSUME NEW q \in Rooms, NEW p \in Rooms \ {q}
            PROVE  Shown(arrived'[q]) \cap Shown(arrived'[p]) = {}
        <5>1. /\ b \notin Shown(arrived[q]) /\ b \notin Shown(arrived[p])
              /\ Shown(arrived[q]) \cap Shown(arrived[p]) = {}
          BY <2>1, <4>1
        <5>2. /\ Shown(arrived'[q]) \subseteq Shown(arrived[q]) \cup {b}
              /\ q # r => Shown(arrived'[q]) = Shown(arrived[q])
          BY <2>3
        <5>3. /\ Shown(arrived'[p]) \subseteq Shown(arrived[p]) \cup {b}
              /\ p # r => Shown(arrived'[p]) = Shown(arrived[p])
          BY <2>3
        <5>4. q # r \/ p # r
          OBVIOUS
        <5>5. QED
          BY <5>1, <5>2, <5>3, <5>4
      <4>3. QED
        BY <4>2
    <3>4. QED
      BY <3>1, <3>2, <3>3
  <2>6. \A i, j \in DOMAIN new : new[i].body = new[j].body => i = j
    <3>1. \A i, j \in DOMAIN old : old[i].body = old[j].body => i = j
      BY <1>2 DEF LineInv, OnePlace, old, r
    <3>2. QED
      BY <1>8, <1>10, <1>11, <2>1, <3>1
  <2>7. \A q \in Rooms : \A i, j \in DOMAIN arrived'[q] :
          arrived'[q][i].body = arrived'[q][j].body => i = j
    BY <1>9, <2>6 DEF LineInv, OnePlace
  <2>8. QED
    BY <1>1, <2>4, <2>5, <2>7 DEF LineInv, OnePlace
<1>14. InLine'
  <2>1. \A d \in DOMAIN UpOf' : Sorted(sends, UpOf'[d])
    BY <1>3, <1>5 DEF LineInv, InLine
  <2>2. \A d \in DOMAIN UpOf' : d \in DOMAIN UpOf /\ Shown(UpOf'[d]) \subseteq Shown(UpOf[d])
    BY <1>3, <1>4
  <2> DEFINE Good(q, l, j) ==
                /\ l[j].conn \in DOMAIN UpOf'
                /\ RoomOf'[l[j].conn] = q
                /\ \A p \in Shown(UpOf'[l[j].conn]) : Before(sends, l[j].body, p)
                /\ \A i \in 1..(j - 1) : l[i].conn = l[j].conn => Before(sends, l[i].body, l[j].body)
  <2>3. \A q \in Rooms : \A j \in DOMAIN arrived[q] : Good(q, arrived[q], j)
    BY <1>3, <2>2 DEF LineInv, InLine
  <2>4. \A j \in DOMAIN old : Good(r, new, j)
    <3>1. \A j \in DOMAIN old : Good(r, old, j)
      BY <1>2, <2>3 DEF old, r
    <3>2. \A j \in DOMAIN old : \A i \in 1..(j - 1) : i \in DOMAIN old
      BY <1>8
    <3>3. QED
      BY <1>8, <3>1, <3>2
  <2>5. Good(r, new, Len(old) + 1)
    <3>1. \A i \in 1..(Len(old) + 1 - 1) : i \in DOMAIN old
      BY <1>8
    <3>2. \A i \in DOMAIN old : old[i].conn = c => Before(sends, old[i].body, b)
      BY <1>2, <1>4 DEF LineInv, InLine, old, r
    <3>3. /\ new[Len(old) + 1].conn \in DOMAIN UpOf' /\ RoomOf'[new[Len(old) + 1].conn] = r
          /\ \A p \in Shown(UpOf'[new[Len(old) + 1].conn]) : Before(sends, new[Len(old) + 1].body, p)
      BY <1>3, <1>5, <1>8
    <3>4. \A i \in 1..(Len(old) + 1 - 1) : new[i].conn = new[Len(old) + 1].conn =>
             Before(sends, new[i].body, new[Len(old) + 1].body)
      BY <1>8, <3>1, <3>2
    <3>5. QED
      BY <3>3, <3>4
  <2>6. \A q \in Rooms : \A j \in DOMAIN arrived'[q] : Good(q, arrived'[q], j)
    <3> HIDE DEF Good
    <3>1. QED
      BY <1>9, <1>10, <2>3, <2>4, <2>5
  <2>7. QED
    BY <1>1, <2>1, <2>6 DEF LineInv, InLine
<1>15. TextsAtHome'
  <2>1. \A d \in DOMAIN UpOf' : d \in DOMAIN UpOf /\ Shown(UpOf'[d]) \subseteq Shown(UpOf[d])
    BY <1>3, <1>4
  <2>2. b \in Texts => written[b] = r
    BY <1>2, <1>3, <1>4 DEF LineInv, TextsAtHome
  <2>3. \A q \in Rooms : \A a \in Shown(arrived'[q]) \cap Texts : written[a] = q
    BY <1>8, <1>9, <2>2 DEF LineInv, TextsAtHome, old
  <2>4. QED
    BY <1>1, <1>3, <2>1, <2>3 DEF LineInv, TextsAtHome
<1>16. NothingEarly'
  <2> SUFFICES ASSUME ws' # 0, ~open'
               PROVE  /\ UpOf'[ws'] = <<>>
                      /\ \A q \in Rooms : \A i \in DOMAIN arrived'[q] : arrived'[q][i].conn # ws'
    BY DEF NothingEarly
  <2>1. /\ ws' = ws /\ ws # 0 /\ ~open /\ UpOf[ws] = <<>> /\ ws \in DOMAIN conns
        /\ \A q \in Rooms : \A i \in DOMAIN arrived[q] : arrived[q][i].conn # ws
    BY <1>1, TabSocket DEF NothingEarly, tabVars
  <2>2. ws # c
    BY <1>2, <1>3, <2>1
  <2>3. \A i \in DOMAIN new : new[i].conn # ws
    <3>1. \A i \in DOMAIN old : old[i].conn # ws
      BY <1>2, <2>1 DEF old, r
    <3>2. QED
      BY <1>8, <1>10, <2>2, <3>1
  <2>4. QED
    BY <1>3, <1>9, <2>1, <2>2, <2>3
<1>17. QED
  BY <1>12, <1>13, <1>14, <1>15, <1>16 DEF LineInv

\* onopen: the texts of this room go from the queue to the new line, on which
\* nothing was sent before.
LEMMA LineOpens ==
    ASSUME TypeOK, TabInv, LineInv, NothingEarly, Opens
    PROVE  LineInv' /\ NothingEarly'
<1> DEFINE a == Flush(queue, room)[1]
           z == Flush(queue, room)[2]
<1>1. /\ UNCHANGED <<arrived, uploads, written, sends, room, ws>> /\ open' /\ ~open /\ ws # 0
      /\ queue' = z
  BY DEF Opens, srvVars
<1>2. /\ DOMAIN conns' = DOMAIN conns /\ ws \in DOMAIN conns /\ room \in Rooms
      /\ conns'[ws].up = a /\ conns[ws].room = room
      /\ \A c \in DOMAIN conns \ {ws} : conns'[c].up = conns[c].up
      /\ \A c \in DOMAIN conns : conns'[c].room = conns[c].room
  BY <1>1, OpensFacts DEF TabInv
<1>3. /\ DOMAIN UpOf = DOMAIN conns /\ DOMAIN UpOf' = DOMAIN conns /\ RoomOf' = RoomOf
      /\ \A c \in DOMAIN conns \ {ws} : UpOf'[c] = UpOf[c]
      /\ UpOf'[ws] = a /\ RoomOf[ws] = room
  BY <1>2 DEF UpOf, RoomOf
<1>4. /\ UpOf[ws] = <<>> /\ Shown(UpOf[ws]) = {}
      /\ \A r \in Rooms : \A i \in DOMAIN arrived[r] : arrived[r][i].conn # ws
  BY <1>1, ShownEmpty DEF NothingEarly
<1>5. /\ Sorted(sends, a) /\ Sorted(sends, z)
      /\ Shown(a) \subseteq Shown(queue) /\ Shown(z) \subseteq Shown(queue)
      /\ Shown(a) \cap Shown(z) = {}
      /\ Shown(a) \subseteq WrittenFor(queue, room) /\ Among(z) \subseteq Among(queue)
  <2> DEFINE S == Texts \cup Files
  <2>1. queue \in Seq(Payloads) /\ sends \in Seq(S)
    BY DEF TypeOK
  <2>2. Sorted(sends, queue) /\ Distinct(sends)
    BY DEF LineInv, InLine, SendsOnce, Distinct
  <2>3. room \in Rooms
    BY <1>2
  <2> HIDE DEF S, a, z
  <2>4. /\ Sorted(sends, Flush(queue, room)[1]) /\ Sorted(sends, Flush(queue, room)[2])
        /\ Shown(Flush(queue, room)[1]) \subseteq Shown(queue)
        /\ Shown(Flush(queue, room)[2]) \subseteq Shown(queue)
        /\ Shown(Flush(queue, room)[1]) \cap Shown(Flush(queue, room)[2]) = {}
        /\ Shown(Flush(queue, room)[1]) \subseteq WrittenFor(queue, room)
        /\ Among(Flush(queue, room)[2]) \subseteq Among(queue)
    BY <2>1, <2>2, <2>3, FlushFacts
  <2>5. QED
    BY <2>4 DEF a, z
<1> HIDE DEF a, z
<1>6. SendsOnce'
  BY <1>1 DEF LineInv, SendsOnce
<1>7. OnePlace'
  <2>1. /\ Shown(queue) \subseteq Among(sends)
        /\ \A c \in DOMAIN UpOf : Shown(UpOf[c]) \cap Shown(queue) = {}
        /\ \A c \in DOMAIN UpOf : Shown(UpOf[c]) \subseteq Among(sends)
        /\ \A c \in DOMAIN UpOf : \A d \in DOMAIN UpOf \ {c} : Shown(UpOf[c]) \cap Shown(UpOf[d]) = {}
    BY DEF LineInv, OnePlace
  <2>2. /\ \A r \in Rooms : Shown(arrived[r]) \subseteq Among(sends) \ Shown(queue)
        /\ \A r \in Rooms : \A c \in DOMAIN UpOf : Shown(arrived[r]) \cap Shown(UpOf[c]) = {}
    BY DEF LineInv, OnePlace
  <2>3. Shown(z) \subseteq Among(sends) /\ Shown(a) \subseteq Among(sends) \ Shown(z)
    BY <1>5, <2>1
  <2>4. \A c \in DOMAIN UpOf' : /\ c \in DOMAIN UpOf
                                /\ Shown(UpOf'[c]) = IF c = ws THEN Shown(a) ELSE Shown(UpOf[c])
    BY <1>3
  <2>5. \A c \in DOMAIN UpOf' : Shown(UpOf'[c]) \subseteq Among(sends) \ Shown(z)
    BY <1>5, <2>1, <2>3, <2>4
  <2>6. ASSUME NEW c \in DOMAIN UpOf', NEW d \in DOMAIN UpOf' \ {c}
        PROVE  Shown(UpOf'[c]) \cap Shown(UpOf'[d]) = {}
    BY <1>5, <2>1, <2>4
  <2>7. ASSUME NEW r \in Rooms, NEW c \in DOMAIN UpOf'
        PROVE  Shown(arrived[r]) \cap Shown(UpOf'[c]) = {}
    BY <1>5, <2>2, <2>4
  <2>8. \A r \in Rooms : Shown(arrived[r]) \subseteq Among(sends) \ Shown(z)
    BY <1>5, <2>2
  <2>9. QED
    BY <1>1, <2>3, <2>5, <2>6, <2>7, <2>8 DEF LineInv, OnePlace
<1>8. InLine'
  <2>1. Sorted(sends, z) /\ \A c \in DOMAIN UpOf' : Sorted(sends, UpOf'[c])
    BY <1>3, <1>5 DEF LineInv, InLine
  <2>2. \A r \in Rooms : \A j \in DOMAIN arrived[r] :
          LET c == arrived[r][j].conn
          IN  c \in DOMAIN UpOf /\ c # ws /\ UpOf'[c] = UpOf[c]
    BY <1>3, <1>4 DEF LineInv, InLine
  <2>3. \A r \in Rooms : \A j \in DOMAIN arrived[r] :
          /\ arrived[r][j].conn \in DOMAIN UpOf'
          /\ RoomOf'[arrived[r][j].conn] = r
          /\ \A p \in Shown(UpOf'[arrived[r][j].conn]) : Before(sends, arrived[r][j].body, p)
    BY <1>3, <2>2 DEF LineInv, InLine
  <2>4. QED
    BY <1>1, <2>1, <2>3 DEF LineInv, InLine
<1>9. TextsAtHome'
  <2>1. \A i \in DOMAIN queue : queue[i].body \in Texts => written[queue[i].body] = queue[i].room
    BY DEF LineInv, TextsAtHome
  <2>2. \A j \in DOMAIN z : z[j].body \in Texts => written[z[j].body] = z[j].room
    BY <1>5, <2>1 DEF Among
  <2>3. \A b \in Shown(a) \cap Texts : written[b] = room
    BY <1>5, <2>1 DEF WrittenFor
  <2>4. \A c \in DOMAIN UpOf' : \A b \in Shown(UpOf'[c]) \cap Texts : written[b] = RoomOf'[c]
    BY <1>3, <2>3 DEF LineInv, TextsAtHome
  <2>5. QED
    BY <1>1, <2>2, <2>4 DEF LineInv, TextsAtHome
<1>10. NothingEarly'
  BY <1>1 DEF NothingEarly
<1>11. QED
  BY <1>6, <1>7, <1>8, <1>9, <1>10 DEF LineInv

\* sendMessage, for a body it was not called for before.
LEMMA LineSend ==
    ASSUME TypeOK, TabInv, LineInv, NothingEarly, NEW p \in Payloads,
           p.body \in Texts \cup Files, p.body \notin Among(sends),
           SendMessage(p), sends' = Append(sends, p.body),
           UNCHANGED <<arrived, ws, open>>,
           p.body \in Texts => p.room = room /\ written'[p.body] = room,
           p.body \in Files => uploads'[p.body] = "over",
           \A b \in Texts : written[b] # None => written'[b] = written[b],
           \A f \in Files : uploads[f] = "over" => uploads'[f] = "over",
           None \notin Rooms
    PROVE  LineInv' /\ NothingEarly'
<1>1. /\ sends \in Seq(Texts \cup Files) /\ queue \in Seq(Payloads)
      /\ DOMAIN UpOf = DOMAIN conns /\ DOMAIN conns = 1..Len(conns)
      /\ \A c \in DOMAIN UpOf : UpOf[c] \in Seq(Payloads)
  BY UpTypes DEF TypeOK
<1>2. /\ DOMAIN conns' = DOMAIN conns
      /\ \A c \in DOMAIN conns : conns'[c].room = conns[c].room
      /\ IF open THEN /\ queue' = queue /\ ws \in DOMAIN conns
                      /\ conns'[ws].up = Append(conns[ws].up, p)
                      /\ \A c \in DOMAIN conns \ {ws} : conns'[c].up = conns[c].up
                 ELSE queue' = Append(queue, p) /\ conns' = conns
  BY SendFacts
<1>3. /\ DOMAIN UpOf' = DOMAIN UpOf /\ RoomOf' = RoomOf
      /\ open => /\ queue' = queue /\ ws \in DOMAIN UpOf /\ UpOf'[ws] = Append(UpOf[ws], p)
                 /\ RoomOf[ws] = room
                 /\ \A c \in DOMAIN UpOf \ {ws} : UpOf'[c] = UpOf[c]
      /\ ~open => queue' = Append(queue, p) /\ UpOf' = UpOf
  BY <1>2 DEF UpOf, RoomOf, TabInv
<1> DEFINE x == p.body
<1>4. /\ Among(sends') = Among(sends) \cup {x}
      /\ \A a, b : Before(sends, a, b) => Before(sends', a, b)
      /\ \A a \in Among(sends) : Before(sends', a, x)
  <2> DEFINE S == Texts \cup Files
  <2>1. sends \in Seq(S) /\ x \in S /\ sends' = Append(sends, x)
    BY <1>1
  <2> HIDE DEF S, x
  <2>2. /\ Among(Append(sends, x)) = Among(sends) \cup {x}
        /\ \A a, b : Before(sends, a, b) => Before(Append(sends, x), a, b)
        /\ \A a \in Among(sends) : Before(Append(sends, x), a, x)
    BY <2>1, BeforeFacts
  <2>3. QED
    BY <2>1, <2>2
<1>5. /\ open => Shown(UpOf'[ws]) = Shown(UpOf[ws]) \cup {x}
      /\ ~open => Shown(queue') = Shown(queue) \cup {x}
  <2>1. ASSUME open PROVE Shown(Append(UpOf[ws], p)) = Shown(UpOf[ws]) \cup {p.body}
    <3>1. UpOf[ws] \in Seq(Payloads)
      BY <1>1, <1>3, <2>1
    <3>2. QED
      BY <3>1, ShownAppend
  <2>2. Shown(Append(queue, p)) = Shown(queue) \cup {p.body}
    BY <1>1, ShownAppend
  <2>3. QED
    BY <1>3, <2>1, <2>2
<1>6. \A s : Sorted(sends, s) => Sorted(sends', s)
  BY <1>4 DEF Sorted
<1>7. /\ Shown(queue) \subseteq Among(sends)
      /\ \A c \in DOMAIN UpOf : Shown(UpOf[c]) \subseteq Among(sends)
      /\ \A r \in Rooms : Shown(arrived[r]) \subseteq Among(sends)
  BY DEF LineInv, OnePlace
<1>8. SendsOnce'
  <2>1. /\ DOMAIN sends = 1..Len(sends) /\ Len(sends) \in Nat
        /\ DOMAIN sends' = 1..(Len(sends) + 1) /\ sends'[Len(sends) + 1] = x
        /\ \A i \in 1..Len(sends) : sends'[i] = sends[i]
    BY <1>1, AppendProperties, LenProperties
  <2>2. \A i \in DOMAIN sends' : \/ i \in DOMAIN sends /\ sends'[i] = sends[i] /\ sends'[i] # x
                                 \/ i = Len(sends) + 1 /\ sends'[i] = x
    <3>1. \A i \in DOMAIN sends : sends[i] \in Among(sends)
      BY DEF Among
    <3>2. \A i \in DOMAIN sends' : i \in DOMAIN sends \/ i = Len(sends) + 1
      BY <2>1
    <3>3. \A i \in DOMAIN sends : sends'[i] = sends[i] /\ sends'[i] # x
      BY <2>1, <3>1
    <3>4. QED
      BY <2>1, <3>2, <3>3
  <2>3. \A i, j \in DOMAIN sends' : sends'[i] = sends'[j] => i = j
    BY <2>2 DEF LineInv, SendsOnce
  <2>4. \A b \in Among(sends) : /\ b \in Texts => written'[b] # None
                                /\ b \in Files => uploads'[b] = "over"
    BY DEF LineInv, SendsOnce
  <2>5. x \in Texts => written'[x] # None
    BY DEF Payloads
  <2>6. QED
    BY <1>4, <2>3, <2>4, <2>5 DEF SendsOnce
<1> HIDE DEF x
<1>9. /\ x \in Texts \cup Files /\ x \notin Among(sends) /\ x \notin Shown(queue)
      /\ \A c \in DOMAIN UpOf : x \notin Shown(UpOf[c])
      /\ \A r \in Rooms : x \notin Shown(arrived[r])
  BY <1>7 DEF x
<1>10. /\ Shown(queue') = IF open THEN Shown(queue) ELSE Shown(queue) \cup {x}
       /\ \A c \in DOMAIN UpOf : Shown(UpOf'[c]) = IF open /\ c = ws THEN Shown(UpOf[c]) \cup {x}
                                                   ELSE Shown(UpOf[c])
  BY <1>3, <1>5
<1>11. OnePlace'
  <2>1. /\ \A c \in DOMAIN UpOf : Shown(UpOf[c]) \cap Shown(queue) = {}
        /\ \A c \in DOMAIN UpOf : \A d \in DOMAIN UpOf \ {c} : Shown(UpOf[c]) \cap Shown(UpOf[d]) = {}
        /\ \A r \in Rooms : Shown(arrived[r]) \cap Shown(queue) = {}
        /\ \A r \in Rooms : \A c \in DOMAIN UpOf : Shown(arrived[r]) \cap Shown(UpOf[c]) = {}
    BY DEF LineInv, OnePlace
  <2>2. Shown(queue') \subseteq Among(sends')
    BY <1>4, <1>7, <1>10
  <2>3. ASSUME NEW c \in DOMAIN UpOf
        PROVE  Shown(UpOf'[c]) \subseteq Among(sends') \ Shown(queue')
    <3>1. /\ Shown(UpOf[c]) \subseteq Among(sends) /\ Shown(UpOf[c]) \cap Shown(queue) = {}
          /\ x \notin Shown(queue) /\ x \notin Shown(UpOf[c])
      BY <1>7, <1>9, <2>1
    <3>2. CASE open
      <4>1. Shown(queue') = Shown(queue) /\ Shown(UpOf'[c]) \subseteq Shown(UpOf[c]) \cup {x}
        BY <1>10, <3>2
      <4>2. QED
        BY <1>4, <3>1, <4>1
    <3>3. CASE ~open
      <4>1. Shown(queue') = Shown(queue) \cup {x} /\ Shown(UpOf'[c]) = Shown(UpOf[c])
        BY <1>10, <3>3
      <4>2. QED
        BY <1>4, <3>1, <4>1
    <3>4. QED
      BY <3>2, <3>3
  <2>4. ASSUME NEW c \in DOMAIN UpOf, NEW d \in DOMAIN UpOf \ {c}
        PROVE  Shown(UpOf'[c]) \cap Shown(UpOf'[d]) = {}
    <3>1. /\ Shown(UpOf[c]) \cap Shown(UpOf[d]) = {} /\ c # d /\ d \in DOMAIN UpOf
          /\ x \notin Shown(UpOf[c]) /\ x \notin Shown(UpOf[d])
      BY <1>9, <2>1
    <3>2. Shown(UpOf'[c]) = Shown(UpOf[c]) \/ Shown(UpOf'[d]) = Shown(UpOf[d])
      BY <1>10, <3>1
    <3>3. Shown(UpOf'[c]) \subseteq Shown(UpOf[c]) \cup {x}
      BY <1>10
    <3>4. Shown(UpOf'[d]) \subseteq Shown(UpOf[d]) \cup {x}
      BY <1>10, <3>1
    <3>5. QED
      BY <3>1, <3>2, <3>3, <3>4
  <2>5. ASSUME NEW r \in Rooms
        PROVE  Shown(arrived[r]) \subseteq Among(sends') \ Shown(queue')
    BY <1>4, <1>7, <1>9, <1>10, <2>1
  <2>6. ASSUME NEW r \in Rooms, NEW c \in DOMAIN UpOf
        PROVE  Shown(arrived[r]) \cap Shown(UpOf'[c]) = {}
    BY <1>9, <1>10, <2>1
  <2>7. QED
    BY <1>3, <2>2, <2>3, <2>4, <2>5, <2>6 DEF LineInv, OnePlace
<1>12. InLine'
  <2>1. Sorted(sends', queue')
    <3>1. Sorted(sends', queue)
      BY <1>6 DEF LineInv, InLine
    <3>2. \A b \in Shown(queue) : Before(sends', b, p.body)
      BY <1>4, <1>7 DEF x
    <3>3. Sorted(sends', Append(queue, p))
      BY <1>1, <3>1, <3>2, SortedAppend
    <3>4. QED
      BY <1>3, <3>1, <3>3
  <2>2. \A c \in DOMAIN UpOf' : Sorted(sends', UpOf'[c])
    <3>1. \A c \in DOMAIN UpOf : Sorted(sends', UpOf[c])
      BY <1>6 DEF LineInv, InLine
    <3>2. ASSUME open PROVE Sorted(sends', Append(UpOf[ws], p))
      <4>1. ws \in DOMAIN UpOf /\ UpOf[ws] \in Seq(Payloads)
        BY <1>1, <1>3, <3>2
      <4>2. \A b \in Shown(UpOf[ws]) : Before(sends', b, p.body)
        BY <1>4, <1>7, <4>1 DEF x
      <4>3. QED
        BY <3>1, <4>1, <4>2, SortedAppend
    <3>3. QED
      BY <1>3, <3>1, <3>2
  <2>3. \A r \in Rooms : \A j \in DOMAIN arrived[r] :
          /\ arrived[r][j].body \in Among(sends)
          /\ arrived[r][j].conn \in DOMAIN UpOf
          /\ RoomOf[arrived[r][j].conn] = r
          /\ \A b \in Shown(UpOf[arrived[r][j].conn]) : Before(sends, arrived[r][j].body, b)
          /\ \A i \in 1..(j - 1) : arrived[r][i].conn = arrived[r][j].conn =>
               Before(sends, arrived[r][i].body, arrived[r][j].body)
    BY <1>7 DEF LineInv, InLine, Shown
  <2>4. \A r \in Rooms : \A j \in DOMAIN arrived[r] :
          /\ arrived[r][j].conn \in DOMAIN UpOf'
          /\ RoomOf'[arrived[r][j].conn] = r
          /\ \A b \in Shown(UpOf'[arrived[r][j].conn]) : Before(sends', arrived[r][j].body, b)
          /\ \A i \in 1..(j - 1) : arrived[r][i].conn = arrived[r][j].conn =>
               Before(sends', arrived[r][i].body, arrived[r][j].body)
    <3>1. \A c \in DOMAIN UpOf : \A b \in Shown(UpOf'[c]) : b \in Shown(UpOf[c]) \/ b = x
      BY <1>10
    <3>2. ASSUME NEW r \in Rooms, NEW j \in DOMAIN arrived[r]
          PROVE  /\ arrived[r][j].conn \in DOMAIN UpOf'
                 /\ RoomOf'[arrived[r][j].conn] = r
                 /\ \A b \in Shown(UpOf'[arrived[r][j].conn]) : Before(sends', arrived[r][j].body, b)
                 /\ \A i \in 1..(j - 1) : arrived[r][i].conn = arrived[r][j].conn =>
                      Before(sends', arrived[r][i].body, arrived[r][j].body)
      <4> DEFINE c == arrived[r][j].conn
                 y == arrived[r][j].body
      <4>1. /\ y \in Among(sends) /\ c \in DOMAIN UpOf /\ RoomOf[c] = r
            /\ \A b \in Shown(UpOf[c]) : Before(sends, y, b)
            /\ \A i \in 1..(j - 1) : arrived[r][i].conn = c => Before(sends, arrived[r][i].body, y)
        BY <2>3
      <4> HIDE DEF c, y
      <4>2. \A b \in Shown(UpOf'[c]) : Before(sends', y, b)
        BY <1>4, <3>1, <4>1
      <4>3. \A i \in 1..(j - 1) : arrived[r][i].conn = c => Before(sends', arrived[r][i].body, y)
        BY <1>4, <4>1
      <4>4. c \in DOMAIN UpOf' /\ RoomOf'[c] = r
        BY <1>3, <4>1
      <4>5. QED
        BY <4>2, <4>3, <4>4 DEF c, y
    <3>3. QED
      BY <3>2
  <2>5. QED
    BY <2>1, <2>2, <2>4 DEF InLine
<1>13. TextsAtHome'
  <2>1. /\ \A b \in Among(sends) \cap Texts : written'[b] = written[b]
        /\ x \in Texts => p.room = room /\ written'[x] = room
    BY DEF LineInv, SendsOnce, x
  <2>2. \A i \in DOMAIN queue : queue[i].body \in Texts => written'[queue[i].body] = queue[i].room
    BY <1>7, <2>1 DEF LineInv, TextsAtHome, Shown
  <2>3. \A c \in DOMAIN UpOf : \A b \in Shown(UpOf[c]) \cap Texts : written'[b] = RoomOf[c]
    BY <1>7, <2>1 DEF LineInv, TextsAtHome
  <2>4. \A r \in Rooms : \A b \in Shown(arrived[r]) \cap Texts : written'[b] = r
    BY <1>7, <2>1 DEF LineInv, TextsAtHome
  <2>5. \A i \in DOMAIN queue' : queue'[i].body \in Texts => written'[queue'[i].body] = queue'[i].room
    <3>1. CASE open
      BY <1>3, <2>2, <3>1
    <3>2. CASE ~open
      <4>1. \A i \in DOMAIN queue' : (i \in DOMAIN queue /\ queue'[i] = queue[i]) \/ queue'[i] = p
        BY <1>1, <1>3, <3>2, AppendProperties, LenProperties
      <4>2. QED
        BY <2>1, <2>2, <4>1 DEF x
    <3>3. QED
      BY <3>1, <3>2
  <2>6. \A c \in DOMAIN UpOf' : \A b \in Shown(UpOf'[c]) \cap Texts : written'[b] = RoomOf'[c]
    BY <1>3, <1>10, <2>1, <2>3
  <2>7. QED
    BY <2>4, <2>5, <2>6 DEF TextsAtHome
<1>14. NothingEarly'
  BY <1>3 DEF NothingEarly
<1>15. QED
  BY <1>8, <1>11, <1>12, <1>13, <1>14 DEF LineInv

SendInv == LineInv /\ NothingEarly

\* LineQuiet in terms of the connections; a socket that is new is empty.
LEMMA NoSend ==
    ASSUME TypeOK, SendInv,
           UNCHANGED <<queue, arrived, sends>>,
           \A c \in DOMAIN conns : c \in DOMAIN conns' /\ conns'[c].room = conns[c].room,
           \A c \in DOMAIN conns' : conns'[c].up = <<>>
                                    \/ (c \in DOMAIN conns /\ conns'[c].up = conns[c].up),
           \A b \in Texts : written[b] # None => written'[b] = written[b],
           \A f \in Files : uploads[f] = "over" => uploads'[f] = "over",
           \/ ws' = 0
           \/ ws' = ws /\ open' = open
           \/ ws' \in DOMAIN conns' \ DOMAIN conns
    PROVE  SendInv'
<1>1. /\ DOMAIN UpOf = DOMAIN conns /\ DOMAIN UpOf' = DOMAIN conns'
      /\ \A c \in DOMAIN UpOf : c \in DOMAIN UpOf' /\ RoomOf'[c] = RoomOf[c]
      /\ \A c \in DOMAIN UpOf' : UpOf'[c] = <<>> \/ (c \in DOMAIN UpOf /\ UpOf'[c] = UpOf[c])
  BY DEF UpOf, RoomOf
<1>2. LineInv'
  BY <1>1, LineQuiet DEF SendInv
<1>3. NothingEarly'
  <2> SUFFICES ASSUME ws' # 0, ~open'
               PROVE  /\ UpOf'[ws'] = <<>>
                      /\ \A r \in Rooms : \A i \in DOMAIN arrived[r] : arrived[r][i].conn # ws'
    BY DEF NothingEarly
  <2>1. CASE ws' = ws /\ open' = open
    <3>1. ws \in DOMAIN UpOf'
      BY <1>1, <2>1, TabSocket
    <3>2. QED
      BY <1>1, <2>1, <3>1 DEF SendInv, NothingEarly
  <2>2. CASE ws' \in DOMAIN conns' \ DOMAIN conns
    <3>1. \A r \in Rooms : \A i \in DOMAIN arrived[r] : arrived[r][i].conn \in DOMAIN UpOf
      BY DEF SendInv, LineInv, InLine
    <3>2. QED
      BY <1>1, <2>2, <3>1
  <2>3. QED
    BY <2>1, <2>2
<1>4. QED
  BY <1>2, <1>3 DEF SendInv

\* The steps that leave the connections, or all but what is under way to the tab,
\* as they are.
LEMMA SendServer ==
    ASSUME TypeOK, SendInv, Server \/ Others
    PROVE  SendInv'
<1>1. ASSUME NEW c \in DOMAIN conns, FetchHistory(c) \/ Register(c) PROVE SendInv'
  <2>1. /\ UNCHANGED <<queue, arrived, sends, written, uploads, ws, open>>
        /\ DOMAIN conns' = DOMAIN conns
        /\ \A d \in DOMAIN conns : conns'[d].room = conns[d].room /\ conns'[d].up = conns[d].up
    <3>1. UNCHANGED <<queue, arrived, sends, written, uploads, ws, open>>
      BY <1>1 DEF FetchHistory, Register, tabVars, srvVars
    <3>2. QED
      BY <1>1, <3>1, FetchFacts, RegisterFacts
  <2>2. QED
    BY <2>1, NoSend
<1>2. ASSUME NEW c \in DOMAIN conns, ServerReads(c) PROVE SendInv'
  BY <1>2, LineRead DEF SendInv
<1>3. ASSUME NEW e \in outbox, Broadcast(e) PROVE SendInv'
  <2>1. /\ UNCHANGED <<queue, arrived, sends, written, uploads, ws, open>>
        /\ DOMAIN conns' = DOMAIN conns
        /\ \A d \in DOMAIN conns : conns'[d].room = conns[d].room /\ conns'[d].up = conns[d].up
    <3>1. \A d \in DOMAIN conns : conns[d] \in Sockets
      BY SocketAt
    <3>2. QED
      BY <1>3, <3>1 DEF Broadcast, Sockets, tabVars
  <2>2. QED
    BY <2>1, NoSend
<1>4. ASSUME \/ \E u \in unsaved : Store(u)
             \/ \E e \in outbox : Drop(e)
             \/ \E l \in lists : ListAnswered(l)
             \/ \E b \in Peers, r \in Rooms, ev \in {"MSG_EDIT", "MSG_DELETE"} : PeerChange(r, b, ev)
      PROVE  SendInv'
  <2>1. UNCHANGED <<queue, arrived, sends, written, uploads, ws, open, conns>>
    BY <1>4 DEF Store, Drop, ListAnswered, PeerChange, Change, tabVars, srvVars
  <2>2. QED
    BY <2>1, NoSend
<1>5. ASSUME NEW b \in Peers, NEW r \in Rooms, PeerText(b, r) \/ PeerReply(b, r) PROVE SendInv'
  <2>1. /\ UNCHANGED <<queue, arrived, sends, uploads, ws, open, conns>>
        /\ written' = [written EXCEPT ![b] = r]
    BY <1>5 DEF PeerText, PeerReply, tabVars
  <2>2. \A t \in Texts : written'[t] = written[t]
    BY <2>1, Bounds DEF TypeOK
  <2>3. QED
    BY <2>1, <2>2, NoSend
<1>6. QED
  BY <1>1, <1>2, <1>3, <1>4, <1>5 DEF Server, Others, Handler

LEMMA SendSockets ==
    ASSUME TypeOK, TabInv, SendInv,
           (\E r \in Rooms : Select(r)) \/ Deselect \/ Lose \/ Reconnect \/ Opens \/ OnMessage
    PROVE  SendInv'
<1>1. ASSUME NEW r \in Rooms, Select(r) PROVE SendInv'
  <2>1. /\ UNCHANGED <<queue, arrived, sends, written, uploads>> /\ Connect(Detached, r)
    BY <1>1 DEF Select, srvVars
  <2>2. /\ Detached \in Seq(Sockets) /\ DOMAIN Detached = DOMAIN conns
        /\ \A c \in DOMAIN conns : Detached[c].room = conns[c].room /\ Detached[c].up = conns[c].up
    BY DetachedFacts
  <2>3. /\ \A c \in DOMAIN Detached : c \in DOMAIN conns' /\ conns'[c] = Detached[c] /\ c # ws'
        /\ \A c \in DOMAIN conns' : c = ws' \/ c \in DOMAIN Detached
        /\ ws' \in DOMAIN conns' /\ conns'[ws'].up = <<>>
    BY <2>1, <2>2, ConnectFacts
  <2>4. QED
    BY <2>1, <2>2, <2>3, NoSend
<1>2. CASE Deselect
  <2>1. /\ UNCHANGED <<queue, arrived, sends, written, uploads>> /\ ws' = 0 /\ conns' = Detached
    BY <1>2 DEF Deselect, srvVars
  <2>2. QED
    BY <2>1, DetachedFacts, NoSend
<1>3. CASE Lose
  <2>1. UNCHANGED <<queue, arrived, sends, written, uploads>> /\ ws' = 0
    BY <1>3 DEF Lose, srvVars
  <2>2. /\ DOMAIN conns' = DOMAIN conns
        /\ \A c \in DOMAIN conns : conns'[c].room = conns[c].room
        /\ \A c \in DOMAIN conns : conns'[c].up = <<>> \/ conns'[c].up = conns[c].up
    BY <1>3, LoseFacts
  <2>3. QED
    BY <2>1, <2>2, NoSend
<1>4. CASE Reconnect
  <2>1. /\ UNCHANGED <<queue, arrived, sends, written, uploads>>
        /\ Connect(conns, room) /\ room \in Rooms /\ conns \in Seq(Sockets)
    BY <1>4 DEF Reconnect, srvVars, TabInv, TypeOK
  <2>2. /\ \A c \in DOMAIN conns : c \in DOMAIN conns' /\ conns'[c] = conns[c] /\ c # ws'
        /\ \A c \in DOMAIN conns' : c = ws' \/ c \in DOMAIN conns
        /\ ws' \in DOMAIN conns' /\ conns'[ws'].up = <<>>
    BY <2>1, ConnectFacts
  <2>3. QED
    BY <2>1, <2>2, NoSend
<1>5. CASE Opens
  BY <1>5, LineOpens DEF SendInv
<1>6. CASE OnMessage
  <2>1. UNCHANGED <<queue, arrived, sends, written, uploads, ws, open>>
    BY <1>6 DEF OnMessage, tabVars, srvVars
  <2>2. /\ DOMAIN conns' = DOMAIN conns
        /\ \A c \in DOMAIN conns : conns'[c].room = conns[c].room /\ conns'[c].up = conns[c].up
    BY <1>6, OnMessageFacts
  <2>3. QED
    BY <2>1, <2>2, NoSend
<1>7. QED
  BY <1>1, <1>2, <1>3, <1>4, <1>5, <1>6

\* A text is sent when it is written; a file when its upload is answered.
LEMMA SendComponents ==
    ASSUME TypeOK, TabInv, SendInv,
           \/ \E t \in Texts : SendText(t)
           \/ \E f \in Files : Upload(f) \/ UploadAnswered(f)
           \/ \E l \in lists : ListArrives(l)
           \/ \E b \in Texts \cup Peers, ev \in {"MSG_EDIT", "MSG_DELETE"} : OwnChange(b, ev)
           \/ \E a \in answers : ChangeAnswered(a)
    PROVE  SendInv'
<1>1. ASSUME NEW t \in Texts, SendText(t) PROVE SendInv'
  <2> DEFINE p == [body |-> t, room |-> room]
  <2>1. /\ room # None /\ written[t] = None /\ written' = [written EXCEPT ![t] = room]
        /\ SendMessage(p) /\ sends' = Append(sends, t)
        /\ UNCHANGED <<arrived, uploads, ws, open>>
    BY <1>1 DEF SendText, tabVars, srvVars
  <2>2. room \in Rooms /\ p \in Payloads /\ p.body = t /\ p.room = room /\ t \in Bodies
    BY <2>1, Bounds DEF TypeOK, Payloads
  <2> HIDE DEF p
  <2>3. t \notin Among(sends)
    BY <2>1 DEF SendInv, LineInv, SendsOnce
  <2>4. /\ written'[t] = room /\ t \notin Files
        /\ \A b \in Texts : written[b] # None => written'[b] = written[b]
    BY <2>1, <2>2, Bounds DEF TypeOK
  <2>5. QED
    BY <2>1, <2>2, <2>3, <2>4, Bounds, LineSend DEF SendInv
<1>2. ASSUME NEW f \in Files, Upload(f) PROVE SendInv'
  <2>1. /\ UNCHANGED <<queue, arrived, sends, ws, open, conns>> /\ uploads[f] = "none"
        /\ uploads' = [uploads EXCEPT ![f] = "stored"] /\ written' = [written EXCEPT ![f] = room]
    BY <1>2 DEF Upload, tabVars
  <2>2. /\ \A t \in Texts : written'[t] = written[t]
        /\ \A g \in Files : uploads[g] = "over" => uploads'[g] = "over"
    BY <2>1, Bounds DEF TypeOK
  <2>3. QED
    BY <2>1, <2>2, NoSend
<1>3. ASSUME NEW f \in Files, UploadAnswered(f) PROVE SendInv'
  <2> DEFINE p == [body |-> f, room |-> written[f]]
  <2>1. /\ uploads[f] = "stored" /\ uploads' = [uploads EXCEPT ![f] = "over"]
        /\ \/ SendMessage(p) /\ sends' = Append(sends, f)
           \/ UNCHANGED <<queue, conns, sends>>
        /\ UNCHANGED <<arrived, written, ws, open>>
    BY <1>3 DEF UploadAnswered, tabVars, srvVars
  <2>2. p \in Payloads /\ p.body = f /\ f \notin Texts
    BY <2>1, Bounds DEF TypeOK, TabInv, Payloads
  <2>3. /\ uploads'[f] = "over"
        /\ \A g \in Files : uploads[g] = "over" => uploads'[g] = "over"
    BY <2>1 DEF TypeOK
  <2>4. f \notin Among(sends)
    BY <2>1 DEF SendInv, LineInv, SendsOnce
  <2> HIDE DEF p
  <2>5. CASE SendMessage(p) /\ sends' = Append(sends, f)
    BY <2>1, <2>2, <2>3, <2>4, <2>5, Bounds, LineSend DEF SendInv
  <2>6. CASE UNCHANGED <<queue, conns, sends>>
    BY <2>1, <2>3, <2>6, NoSend
  <2>7. QED
    BY <2>1, <2>5, <2>6
<1>4. ASSUME \/ \E l \in lists : ListArrives(l)
             \/ \E b \in Texts \cup Peers, ev \in {"MSG_EDIT", "MSG_DELETE"} : OwnChange(b, ev)
             \/ \E a \in answers : ChangeAnswered(a)
      PROVE  SendInv'
  <2>1. UNCHANGED <<queue, arrived, sends, written, uploads, ws, open, conns>>
    BY <1>4 DEF ListArrives, OwnChange, Change, ChangeAnswered, tabVars, srvVars
  <2>2. QED
    BY <2>1, NoSend
<1>5. QED
  BY <1>1, <1>2, <1>3, <1>4

LEMMA SendStart == Init => SendInv
<1> SUFFICES ASSUME Init PROVE SendInv
  OBVIOUS
<1>1. /\ sends = <<>> /\ queue = <<>> /\ conns = <<>> /\ ws = 0
      /\ \A r \in Rooms : arrived[r] = <<>>
  BY DEF Init
<1>2. /\ Shown(<<>>) = {} /\ Among(<<>>) = {} /\ DOMAIN <<>> = {} /\ DOMAIN UpOf = {}
  BY <1>1, ShownEmpty DEF Among, UpOf
<1>3. SendsOnce /\ OnePlace /\ InLine /\ TextsAtHome /\ NothingEarly
  BY <1>1, <1>2 DEF SendsOnce, OnePlace, InLine, TextsAtHome, NothingEarly, Sorted
<1>4. QED
  BY <1>3 DEF SendInv, LineInv

LEMMA SendStep == TypeInv /\ SendInv /\ [Next]_vars => SendInv'
<1> SUFFICES ASSUME TypeOK, TabInv, SendInv, [Next]_vars PROVE SendInv'
  BY DEF TypeInv
<1>1. CASE Server \/ Others
  BY <1>1, SendServer
<1>2. CASE Tab
  BY <1>2, SendSockets, SendComponents DEF Tab
<1>3. CASE UNCHANGED vars
  <2>1. UNCHANGED <<queue, arrived, sends, written, uploads, ws, open, conns>>
    BY <1>3 DEF vars, tabVars, srvVars
  <2>2. QED
    BY <2>1, NoSend
<1>4. QED
  BY <1>1, <1>2, <1>3 DEF Next

\* useWebSocket, readPump: whatever is queued, flushed, lost with a connection or
\* sent again after it, the server reads each message once, a text in its room
\* (#175), and the messages of a connection in the order of sendMessage.
THEOREM SentOnce == Spec => []SentOnceInOrder
<1>1. TypeInv /\ SendInv => SentOnceInOrder
  <2> SUFFICES ASSUME TypeOK, LineInv, NEW r \in Rooms, NEW j \in DOMAIN arrived[r]
               PROVE
                 LET b == arrived[r][j].body
                 IN  /\ b \in Texts => written[b] = r
                     /\ \A q \in Rooms \ {r} : \A i \in DOMAIN arrived[q] : arrived[q][i].body # b
                     /\ \A i \in 1..(j - 1) :
                          /\ arrived[r][i].body # b
                          /\ arrived[r][i].conn = arrived[r][j].conn =>
                               \E m, n \in DOMAIN sends :
                                 m < n /\ sends[m] = arrived[r][i].body /\ sends[n] = b
    BY DEF TypeInv, SendInv, SentOnceInOrder
  <2> DEFINE b == arrived[r][j].body
  <2>1. b \in Shown(arrived[r])
    BY DEF Shown
  <2>2. b \in Texts => written[b] = r
    BY <2>1 DEF LineInv, TextsAtHome
  <2>3. \A q \in Rooms \ {r} : \A i \in DOMAIN arrived[q] : arrived[q][i].body # b
    BY <2>1 DEF LineInv, OnePlace, Shown
  <2>4. ASSUME NEW i \in 1..(j - 1)
        PROVE  /\ arrived[r][i].body # b
               /\ arrived[r][i].conn = arrived[r][j].conn => Before(sends, arrived[r][i].body, b)
    <3>1. i \in DOMAIN arrived[r] /\ i # j
      <4>1. DOMAIN arrived[r] = 1..Len(arrived[r]) /\ Len(arrived[r]) \in Nat
        BY UpTypes
      <4>2. QED
        BY <4>1
    <3>2. QED
      BY <3>1 DEF LineInv, OnePlace, InLine
  <2>5. QED
    BY <2>2, <2>3, <2>4 DEF Before
<1>2. QED
  BY <1>1, TypeStart, TypeStep, SendStart, SendStep, PTL DEF Spec

(***************************************************************************)
(* What is stored.                                                         *)
(***************************************************************************)
Pending(r) == {u.body : u \in {v \in unsaved : v.room = r}}

\* The messages that may be stored in room r: the texts that were read there, and
\* those written there from elsewhere.
Home(r) == (Texts \cap Shown(arrived[r])) \cup {b \in Peers : written[b] = r}

OneBody(s) == \A i, j \in DOMAIN s : s[i].body = s[j].body => i = j

\* A message has at most one document, or is on its way to the insert queue.
StoredOnce ==
    \A r \in Rooms :
      /\ OneBody(docs[r])
      /\ Shown(docs[r]) \cap Pending(r) = {}
      /\ Shown(docs[r]) \cup Pending(r) \subseteq Home(r)

\* No message is stored in two rooms.
LEMMA HomesApart ==
    ASSUME TypeOK, LineInv, NEW r \in Rooms, NEW q \in Rooms \ {r}
    PROVE  Home(r) \cap Home(q) = {}
<1>1. Shown(arrived[r]) \cap Shown(arrived[q]) = {}
  BY DEF LineInv, OnePlace
<1>2. QED
  BY <1>1, Bounds DEF Home

LEMMA OneBodyAppend ==
    ASSUME NEW S, NEW s \in Seq(S), NEW e \in S, OneBody(s), e.body \notin Shown(s)
    PROVE  OneBody(Append(s, e))
<1> DEFINE t == Append(s, e)
<1>1. /\ DOMAIN t = 1..(Len(s) + 1) /\ Len(s) \in Nat /\ DOMAIN s = 1..Len(s)
      /\ \A i \in 1..Len(s) : t[i] = s[i]
      /\ t[Len(s) + 1] = e
  BY AppendProperties, LenProperties
<1> HIDE DEF t
<1>2. \A i \in DOMAIN t : \/ i \in DOMAIN s /\ t[i] = s[i] /\ t[i].body # e.body
                          \/ i = Len(s) + 1 /\ t[i] = e
  <2>1. \A i \in DOMAIN s : s[i].body \in Shown(s)
    BY DEF Shown
  <2>2. QED
    BY <1>1, <2>1
<1>3. OneBody(t)
  BY <1>2 DEF OneBody
<1>4. QED
  BY <1>3 DEF t

\* A step that stores nothing and writes nothing for the insert queue.
LEMMA StoredQuiet ==
    ASSUME StoredOnce,
           \A r \in Rooms : /\ OneBody(docs'[r]) /\ Shown(docs'[r]) = Shown(docs[r])
                            /\ Shown(arrived[r]) \subseteq Shown(arrived'[r]),
           unsaved' \subseteq unsaved,
           \A b \in Peers : written[b] \in Rooms => written'[b] = written[b]
    PROVE  StoredOnce'
<1> SUFFICES ASSUME NEW r \in Rooms
             PROVE  /\ OneBody(docs'[r])
                    /\ Shown(docs'[r]) \cap Pending(r)' = {}
                    /\ Shown(docs'[r]) \cup Pending(r)' \subseteq Home(r)'
  BY DEF StoredOnce
<1>1. Pending(r)' \subseteq Pending(r)
  BY DEF Pending
<1>2. Home(r) \subseteq Home(r)'
  BY DEF Home
<1>3. QED
  BY <1>1, <1>2 DEF StoredOnce

\* A message goes to the insert queue, or without it into the database.
LEMMA StoredNew ==
    ASSUME TypeOK, StoredOnce, NEW r \in Rooms, NEW b \in Bodies,
           b \notin Home(r), b \in Home(r)',
           \A q \in Rooms : Home(q) \subseteq Home(q)',
           \/ /\ unsaved' = unsaved \cup {[body |-> b, room |-> r]}
              /\ docs' = docs
           \/ /\ docs' = [docs EXCEPT ![r] = Append(@, [body |-> b, state |-> 0])]
              /\ unsaved' = unsaved
    PROVE  StoredOnce'
<1>1. b \notin Shown(docs[r]) /\ b \notin Pending(r)
  BY DEF StoredOnce
<1>2. CASE unsaved' = unsaved \cup {[body |-> b, room |-> r]} /\ docs' = docs
  <2>1. \A q \in Rooms : Pending(q)' = IF q = r THEN Pending(q) \cup {b} ELSE Pending(q)
    <3> DEFINE n == [body |-> b, room |-> r]
    <3>1. unsaved' = unsaved \cup {n} /\ n.body = b /\ n.room = r
      BY <1>2
    <3> HIDE DEF n
    <3>2. Pending(r)' = Pending(r) \cup {b}
      BY <3>1 DEF Pending
    <3>3. ASSUME NEW q \in Rooms, q # r PROVE Pending(q)' = Pending(q)
      BY <3>1, <3>3 DEF Pending
    <3>4. QED
      BY <3>2, <3>3
  <2>2. ASSUME NEW q \in Rooms
        PROVE  /\ OneBody(docs'[q])
               /\ Shown(docs'[q]) \cap Pending(q)' = {}
               /\ Shown(docs'[q]) \cup Pending(q)' \subseteq Home(q)'
    <3>1. /\ OneBody(docs[q]) /\ Shown(docs[q]) \cap Pending(q) = {}
          /\ Shown(docs[q]) \cup Pending(q) \subseteq Home(q)' /\ docs'[q] = docs[q]
      BY <1>2 DEF StoredOnce
    <3>2. QED
      BY <1>1, <2>1, <3>1
  <2>3. QED
    BY <2>2 DEF StoredOnce
<1>3. CASE docs' = [docs EXCEPT ![r] = Append(@, [body |-> b, state |-> 0])] /\ unsaved' = unsaved
  <2> DEFINE d == [body |-> b, state |-> 0]
             old == docs[r]
  <2>1. old \in Seq(Docs) /\ d \in Docs /\ d.body = b /\ b \notin Shown(old) /\ OneBody(old)
    BY <1>1, Bounds DEF TypeOK, Docs, StoredOnce
  <2>2. docs'[r] = Append(old, d) /\ \A q \in Rooms \ {r} : docs'[q] = docs[q]
    BY <1>3 DEF TypeOK
  <2> HIDE DEF d, old
  <2>3. OneBody(Append(old, d)) /\ Shown(Append(old, d)) = Shown(old) \cup {b}
    BY <2>1, OneBodyAppend, ShownAppend
  <2>4. \A q \in Rooms : Pending(q)' = Pending(q)
    BY <1>3 DEF Pending
  <2>5. ASSUME NEW q \in Rooms
        PROVE  /\ OneBody(docs'[q])
               /\ Shown(docs'[q]) \cap Pending(q)' = {}
               /\ Shown(docs'[q]) \cup Pending(q)' \subseteq Home(q)'
    <3>1. /\ OneBody(docs[q]) /\ Shown(docs[q]) \cap Pending(q) = {}
          /\ Shown(docs[q]) \cup Pending(q) \subseteq Home(q)'
      BY DEF StoredOnce
    <3>2. CASE q = r
      BY <1>1, <2>2, <2>3, <2>4, <3>1, <3>2 DEF old
    <3>3. CASE q # r
      BY <2>2, <2>4, <3>1, <3>3
    <3>4. QED
      BY <3>2, <3>3
  <2>6. QED
    BY <2>5 DEF StoredOnce
<1>4. QED
  BY <1>2, <1>3

\* An insert worker.
LEMMA StoredStore ==
    ASSUME TypeOK, StoredOnce, NEW u \in unsaved, Store(u)
    PROVE  StoredOnce'
<1>1. /\ unsaved' = unsaved \ {u} /\ UNCHANGED <<arrived, written>>
      /\ \/ docs' = [docs EXCEPT ![u.room] = Append(@, [body |-> u.body, state |-> 0])]
         \/ docs' = docs
  BY DEF Store
<1>2. u \in Payloads /\ u.room \in Rooms /\ u.body \in Bodies
  BY DEF TypeOK, Payloads
<1>3. CASE docs' = docs
  BY <1>1, <1>3, StoredQuiet DEF StoredOnce
<1>4. CASE docs' = [docs EXCEPT ![u.room] = Append(@, [body |-> u.body, state |-> 0])]
  <2> DEFINE d == [body |-> u.body, state |-> 0]
             old == docs[u.room]
  <2>1. u.body \in Pending(u.room)
    BY DEF Pending
  <2>2. /\ old \in Seq(Docs) /\ d \in Docs /\ d.body = u.body
        /\ u.body \notin Shown(old) /\ OneBody(old)
    BY <1>2, <2>1, Bounds DEF TypeOK, Docs, StoredOnce
  <2>3. docs'[u.room] = Append(old, d) /\ \A q \in Rooms \ {u.room} : docs'[q] = docs[q]
    BY <1>2, <1>4 DEF TypeOK
  <2> HIDE DEF d, old
  <2>4. OneBody(Append(old, d)) /\ Shown(Append(old, d)) = Shown(old) \cup {u.body}
    BY <2>2, OneBodyAppend, ShownAppend
  <2>5. \A q \in Rooms : Pending(q)' \subseteq Pending(q) /\ Home(q)' = Home(q)
    BY <1>1 DEF Pending, Home
  <2>6. u.body \notin Pending(u.room)'
    <3> SUFFICES ASSUME NEW v \in unsaved, v # u, v.room = u.room, v.body = u.body PROVE FALSE
      BY <1>1 DEF Pending
    <3>1. v \in Payloads
      BY DEF TypeOK
    <3>2. QED
      BY <1>2, <3>1 DEF Payloads
  <2>7. ASSUME NEW q \in Rooms
        PROVE  /\ OneBody(docs'[q])
               /\ Shown(docs'[q]) \cap Pending(q)' = {}
               /\ Shown(docs'[q]) \cup Pending(q)' \subseteq Home(q)'
    <3>1. /\ OneBody(docs[q]) /\ Shown(docs[q]) \cap Pending(q) = {}
          /\ Shown(docs[q]) \cup Pending(q) \subseteq Home(q)'
          /\ Pending(q)' \subseteq Pending(q)
      BY <2>5 DEF StoredOnce
    <3>2. CASE q = u.room
      <4>1. docs[q] = old /\ docs'[q] = Append(old, d)
        BY <2>3, <3>2 DEF old
      <4>2. u.body \in Home(q)' /\ u.body \notin Pending(q)'
        BY <2>1, <2>5, <2>6, <3>2 DEF StoredOnce
      <4>3. QED
        BY <2>4, <3>1, <4>1, <4>2
    <3>3. CASE q # u.room
      BY <2>3, <3>1, <3>3
    <3>4. QED
      BY <3>2, <3>3
  <2>8. QED
    BY <2>7 DEF StoredOnce
<1>5. QED
  BY <1>1, <1>3, <1>4

\* readPump, as the rooms see it.
LEMMA ArrivedFacts ==
    ASSUME TypeOK, NEW c \in DOMAIN conns, ServerReads(c)
    PROVE  \A q \in Rooms :
             Shown(arrived'[q]) = IF q = conns[c].room
                                    THEN Shown(arrived[q]) \cup {Head(conns[c].up).body}
                                    ELSE Shown(arrived[q])
<1> DEFINE r == conns[c].room
           b == Head(conns[c].up).body
           e == [body |-> b, conn |-> c]
           old == arrived[r]
           Arrivals == [body : Bodies, conn : Nat]
<1>1. /\ arrived' = [arrived EXCEPT ![r] = Append(old, e)] /\ r \in Rooms
      /\ c \in Nat /\ b \in Bodies
  BY ReadFacts, SocketAt DEF ServerReads, Payloads
<1>2. old \in Seq(Arrivals) /\ e \in Arrivals /\ e.body = b
  BY <1>1 DEF TypeOK
<1>3. arrived'[r] = Append(old, e) /\ \A q \in Rooms \ {r} : arrived'[q] = arrived[q]
  BY <1>1 DEF TypeOK
<1> HIDE DEF old, e, Arrivals, b, r
<1>4. Shown(Append(old, e)) = Shown(old) \cup {b}
  BY <1>2, ShownAppend
<1>5. QED
  BY <1>3, <1>4 DEF old, b, r

LEMMA StoredServer ==
    ASSUME TypeOK, SendInv, StoredOnce, Server
    PROVE  StoredOnce'
<1>1. ASSUME NEW c \in DOMAIN conns, ServerReads(c) PROVE StoredOnce'
  <2>0. PICK r, b : r = conns[c].room /\ b = Head(conns[c].up).body
    OBVIOUS
  <2>1. /\ UNCHANGED <<docs, written>>
        /\ \/ unsaved' = unsaved
           \/ b \notin Files /\ unsaved' = unsaved \cup {[body |-> b, room |-> r]}
    BY <1>1, <2>0, Zenon DEF ServerReads
  <2>2. /\ b \in Bodies /\ r \in Rooms /\ conns[c].up \in Seq(Payloads) /\ conns[c].up # <<>>
    BY <1>1, <2>0, ReadFacts, SocketAt DEF Payloads
  <2>3. \A q \in Rooms : Shown(arrived'[q]) = IF q = r THEN Shown(arrived[q]) \cup {b}
                                              ELSE Shown(arrived[q])
    BY <1>1, <2>0, ArrivedFacts
  <2>4. b \in Shown(UpOf[c]) /\ c \in DOMAIN UpOf
    <3>1. UpOf[c] = conns[c].up /\ c \in DOMAIN UpOf
      BY DEF UpOf
    <3>2. QED
      BY <2>0, <2>2, <3>1, ShownTail
  <2>5. b \in Texts \cup Files /\ b \notin Shown(arrived[r])
    <3>1. sends \in Seq(Texts \cup Files)
      BY DEF TypeOK
    <3>2. Among(sends) \subseteq Texts \cup Files
      BY <3>1 DEF Among
    <3>3. QED
      BY <2>2, <2>4, <3>2 DEF SendInv, LineInv, OnePlace
  <2>6. CASE unsaved' = unsaved
    <3>1. \A q \in Rooms : OneBody(docs[q]) /\ Shown(arrived[q]) \subseteq Shown(arrived'[q])
      BY <2>3 DEF StoredOnce
    <3>2. QED
      BY <2>1, <2>6, <3>1, StoredQuiet
  <2>7. CASE b \notin Files /\ unsaved' = unsaved \cup {[body |-> b, room |-> r]}
    <3>1. b \notin Home(r) /\ b \in Home(r)'
      BY <2>2, <2>3, <2>5, <2>7, Bounds DEF Home
    <3>2. \A q \in Rooms : Home(q) \subseteq Home(q)'
      BY <2>1, <2>3 DEF Home
    <3>3. QED
      BY <2>1, <2>2, <2>7, <3>1, <3>2, StoredNew
  <2>8. QED
    BY <2>1, <2>6, <2>7
<1>2. ASSUME \/ \E c \in DOMAIN conns : FetchHistory(c) \/ Register(c)
             \/ \E e \in outbox : Broadcast(e) \/ Drop(e)
             \/ \E l \in lists : ListAnswered(l)
      PROVE  StoredOnce'
  <2>1. UNCHANGED <<docs, unsaved, arrived, written>>
    BY <1>2 DEF FetchHistory, Register, Broadcast, Drop, ListAnswered, srvVars
  <2>2. QED
    BY <2>1, StoredQuiet DEF StoredOnce
<1>3. QED
  BY <1>1, <1>2, StoredStore DEF Server, Handler

\* Edits and deletions change no body.
LEMMA StoredChange ==
    ASSUME TypeOK, StoredOnce, NEW r \in Rooms, NEW b, NEW ev \in {"MSG_EDIT", "MSG_DELETE"},
           Change(r, b, ev)
    PROVE  StoredOnce' /\ \A q \in Rooms : Shown(docs'[q]) = Shown(docs[q])
<1>1. /\ \A q \in Rooms : DOMAIN docs'[q] = DOMAIN docs[q]
      /\ \A q \in Rooms : \A i \in DOMAIN docs[q] : docs'[q][i].body = docs[q][i].body
      /\ UNCHANGED <<unsaved, arrived, written>>
  BY ChangeFacts
<1>2. \A q \in Rooms : Shown(docs'[q]) = Shown(docs[q])
  BY <1>1 DEF Shown
<1>3. \A q \in Rooms : OneBody(docs'[q])
  BY <1>1 DEF StoredOnce, OneBody
<1>4. QED
  BY <1>1, <1>2, <1>3, StoredQuiet

LEMMA StoredOthers ==
    ASSUME TypeOK, StoredOnce, Others
    PROVE  StoredOnce'
<1>1. ASSUME NEW b \in Peers, NEW r \in Rooms, PeerText(b, r) \/ PeerReply(b, r)
      PROVE  StoredOnce'
  <2>1. /\ written[b] = None /\ written' = [written EXCEPT ![b] = r] /\ UNCHANGED arrived
        /\ \/ /\ unsaved' = unsaved \cup {[body |-> b, room |-> r]}
              /\ docs' = docs
           \/ /\ docs' = [docs EXCEPT ![r] = Append(@, [body |-> b, state |-> 0])]
              /\ unsaved' = unsaved
    BY <1>1 DEF PeerText, PeerReply
  <2>2. /\ b \in Bodies /\ b \notin Texts /\ b \notin Files /\ written'[b] = r
        /\ \A a \in Peers \ {b} : written'[a] = written[a]
    BY <2>1, Bounds DEF TypeOK
  <2>3. b \notin Home(r) /\ b \in Home(r)' /\ \A q \in Rooms : Home(q) \subseteq Home(q)'
    BY <2>1, <2>2, Bounds DEF Home
  <2>4. QED
    BY <2>1, <2>2, <2>3, StoredNew
<1>2. ASSUME NEW b \in Peers, NEW r \in Rooms, NEW ev \in {"MSG_EDIT", "MSG_DELETE"},
             PeerChange(r, b, ev)
      PROVE  StoredOnce'
  BY <1>2, StoredChange DEF PeerChange
<1>3. QED
  BY <1>1, <1>2 DEF Others

LEMMA StoredTab ==
    ASSUME TypeOK, StoredOnce, Tab
    PROVE  StoredOnce'
<1>1. ASSUME NEW b \in Texts \cup Peers, NEW ev \in {"MSG_EDIT", "MSG_DELETE"}, OwnChange(b, ev)
      PROVE  StoredOnce'
  <2>1. room \in Rooms /\ Change(room, b, ev)
    BY <1>1 DEF OwnChange, TypeOK
  <2>2. QED
    BY <2>1, StoredChange
<1>2. ASSUME \/ \E r \in Rooms : Select(r)
             \/ Deselect \/ Lose \/ Reconnect \/ Opens \/ OnMessage
             \/ \E t \in Texts : SendText(t)
             \/ \E f \in Files : Upload(f) \/ UploadAnswered(f)
             \/ \E l \in lists : ListArrives(l)
             \/ \E a \in answers : ChangeAnswered(a)
      PROVE  StoredOnce'
  <2>1. UNCHANGED <<docs, unsaved, arrived>>
    BY <1>2 DEF Select, Deselect, Lose, Reconnect, Opens, OnMessage, SendText, Upload,
                UploadAnswered, ListArrives, ChangeAnswered, srvVars
  <2>2. \A b \in Peers : written'[b] = written[b]
    <3>1. \/ UNCHANGED written
          \/ \E t \in Texts \cup Files : written' = [written EXCEPT ![t] = room]
      BY <1>2 DEF Select, Deselect, Lose, Reconnect, Opens, OnMessage, SendText, Upload,
                  UploadAnswered, ListArrives, ChangeAnswered
    <3>2. QED
      BY <3>1, Bounds DEF TypeOK
  <2>3. QED
    BY <2>1, <2>2, StoredQuiet DEF StoredOnce
<1>3. QED
  BY <1>1, <1>2 DEF Tab

LEMMA StoredStep == TypeInv /\ SendInv /\ StoredOnce /\ [Next]_vars => StoredOnce'
<1>1. CASE UNCHANGED vars
  <2>1. StoredOnce => StoredOnce'
    BY <1>1, StoredQuiet DEF StoredOnce, vars, srvVars
  <2>2. QED
    BY <2>1
<1>2. QED
  BY <1>1, StoredServer, StoredOthers, StoredTab DEF TypeInv, Next

(***************************************************************************)
(* What is shown.                                                          *)
(***************************************************************************)

\* What comes to the tab; nothing without a socket.
Inbound == IF ws = 0 THEN <<>> ELSE conns[ws].down

\* The client makes up the id of e, and the broker does not hand it on twice.
Once(e) == e.id = "fresh" /\ e.body \notin Repeats

FreshIn(s) == {s[i].body : i \in {j \in DOMAIN s : Once(s[j])}}
FreshOut   == {e.body : e \in {d \in outbox : Once(d)}}

FreshOnce(s) ==
    \A i, j \in DOMAIN s : Once(s[i]) /\ Once(s[j]) /\ s[i].body = s[j].body => i = j

\* ShownOncePerId, of one list.
NoTwice(s) ==
    \A i, j \in DOMAIN s :
      s[i].body = s[j].body /\ s[i].id = s[j].id
        => i = j \/ (s[i].id = "fresh" /\ s[i].body \in Repeats)

Begun == {f \in Files : uploads[f] # "none"}

\* The event of an upload that the broker does not repeat is on its way to the hub,
\* on its way to the tab, or shown: once.
FreshPlace ==
    /\ \A d, e \in outbox : Once(d) /\ Once(e) /\ d.body = e.body => d = e
    /\ FreshOut \subseteq Begun /\ FreshIn(Inbound) \subseteq Begun
    /\ FreshOut \cap FreshIn(Inbound) = {}
    /\ FreshOnce(Inbound)
    /\ \A r \in Rooms : /\ FreshIn(messages[r]) \subseteq Begun \ FreshOut
                        /\ FreshIn(messages[r]) \cap FreshIn(Inbound) = {}

\* The answer to a list call has a message once, under the id of its document.
SnapsOnce ==
    \A l \in lists : l.snap # <<None>> =>
      /\ OneBody(l.snap) /\ FreshIn(l.snap) = {}
      /\ Shown(l.snap) \subseteq Shown(docs[l.room])

LEMMA FreshAppend ==
    ASSUME NEW S, NEW s \in Seq(S), NEW e \in S
    PROVE  /\ FreshIn(Append(s, e)) = FreshIn(s) \cup (IF Once(e) THEN {e.body} ELSE {})
           /\ FreshOnce(s) /\ (Once(e) => e.body \notin FreshIn(s))
                => FreshOnce(Append(s, e))
           /\ NoTwice(s) /\ (~Has(s, e.body, e.id) \/ (e.id = "fresh" /\ e.body \in Repeats))
                => NoTwice(Append(s, e))
<1> DEFINE t == Append(s, e)
<1>1. /\ DOMAIN t = 1..(Len(s) + 1) /\ Len(s) \in Nat /\ DOMAIN s = 1..Len(s)
      /\ \A i \in 1..Len(s) : t[i] = s[i]
      /\ t[Len(s) + 1] = e
  BY AppendProperties, LenProperties
<1> HIDE DEF t
<1>2. \A i \in DOMAIN t : \/ i \in DOMAIN s /\ t[i] = s[i]
                          \/ i = Len(s) + 1 /\ t[i] = e
  BY <1>1
<1>3. Len(s) + 1 \in DOMAIN t /\ \A i \in DOMAIN s : i \in DOMAIN t /\ t[i] = s[i]
  BY <1>1
<1>4. FreshIn(t) = FreshIn(s) \cup (IF Once(e) THEN {e.body} ELSE {})
  <2>1. \A i \in DOMAIN t : Once(t[i]) =>
          t[i].body \in FreshIn(s) \/ (Once(e) /\ t[i].body = e.body)
    BY <1>2 DEF FreshIn
  <2>2. FreshIn(t) \subseteq FreshIn(s) \cup (IF Once(e) THEN {e.body} ELSE {})
    BY <2>1 DEF FreshIn
  <2>3. FreshIn(s) \subseteq FreshIn(t)
    BY <1>3 DEF FreshIn
  <2>4. Once(e) => e.body \in FreshIn(t)
    BY <1>1, <1>3 DEF FreshIn
  <2>5. QED
    BY <2>2, <2>3, <2>4
<1>5. ASSUME FreshOnce(s), Once(e) => e.body \notin FreshIn(s) PROVE FreshOnce(t)
  <2>1. \A i \in DOMAIN s : Once(s[i]) => s[i].body \in FreshIn(s)
    BY DEF FreshIn
  <2>2. QED
    BY <1>2, <1>5, <2>1 DEF FreshOnce
<1>6. ASSUME NoTwice(s), ~Has(s, e.body, e.id) \/ (e.id = "fresh" /\ e.body \in Repeats)
      PROVE  NoTwice(t)
  BY <1>2, <1>6 DEF NoTwice, Has
<1>7. QED
  BY <1>4, <1>5, <1>6 DEF t

LEMMA FreshTail ==
    ASSUME NEW S, NEW s \in Seq(S), s # <<>>, FreshOnce(s)
    PROVE  /\ FreshIn(Tail(s)) \subseteq FreshIn(s) /\ FreshOnce(Tail(s))
           /\ Once(Head(s)) => /\ Head(s).body \in FreshIn(s)
                                      /\ Head(s).body \notin FreshIn(Tail(s))
<1> DEFINE t == Tail(s)
<1>1. /\ t \in Seq(S) /\ Len(t) = Len(s) - 1 /\ Len(s) \in Nat \ {0}
      /\ \A i \in 1..Len(t) : t[i] = s[i + 1]
      /\ Head(s) = s[1]
      /\ DOMAIN s = 1..Len(s) /\ DOMAIN t = 1..Len(t)
  BY HeadTailProperties, EmptySeq, LenProperties
<1> HIDE DEF t
<1>2. 1 \in DOMAIN s /\ \A i \in DOMAIN t : i + 1 \in DOMAIN s /\ t[i] = s[i + 1] /\ i + 1 # 1
  BY <1>1
<1>3. FreshIn(t) \subseteq FreshIn(s)
  BY <1>2 DEF FreshIn
<1>4. FreshOnce(t)
  <2> SUFFICES ASSUME NEW i \in DOMAIN t, NEW j \in DOMAIN t,
                      Once(t[i]), Once(t[j]), t[i].body = t[j].body
               PROVE  i = j
    BY DEF FreshOnce
  <2>1. i + 1 = j + 1
    BY <1>2 DEF FreshOnce
  <2>2. QED
    BY <1>1, <2>1
<1>5. Once(s[1]) => s[1].body \in FreshIn(s) /\ s[1].body \notin FreshIn(t)
  BY <1>2 DEF FreshOnce, FreshIn
<1>6. QED
  BY <1>1, <1>3, <1>4, <1>5 DEF t

\* addMessage shows a message under an id that is new, or made up.
LEMMA AddFacts ==
    ASSUME NEW list \in Seq(Entries), NEW e \in Entries
    PROVE  /\ FreshIn(AddMessage(list, e))
                = FreshIn(list) \cup (IF Once(e) THEN {e.body} ELSE {})
           /\ NoTwice(list) /\ (Once(e) => e.body \notin FreshIn(list))
                => NoTwice(AddMessage(list, e))
           /\ Shown(AddMessage(list, e)) = Shown(list) \cup {e.body}
<1>1. /\ FreshIn(Append(list, e)) = FreshIn(list) \cup (IF Once(e) THEN {e.body} ELSE {})
      /\ NoTwice(list) /\ (~Has(list, e.body, e.id) \/ (e.id = "fresh" /\ e.body \in Repeats))
           => NoTwice(Append(list, e))
      /\ Shown(Append(list, e)) = Shown(list) \cup {e.body}
  BY FreshAppend, ShownAppend
<1>2. CASE e.id # "fresh" /\ Has(list, e.body, e.id)
  <2>1. AddMessage(list, e) = list
    BY <1>2 DEF AddMessage
  <2>2. e.body \in Shown(list)
    BY <1>2 DEF Has, Shown
  <2>3. QED
    BY <1>2, <2>1, <2>2 DEF Once
<1>3. CASE ~(e.id # "fresh" /\ Has(list, e.body, e.id))
  <2>1. AddMessage(list, e) = Append(list, e)
    BY <1>3 DEF AddMessage
  <2>2. Has(list, e.body, e.id) /\ Once(e) => e.body \in FreshIn(list)
    BY DEF Has, FreshIn, Once
  <2>3. QED
    BY <1>1, <1>3, <2>1, <2>2 DEF Once
<1>4. QED
  BY <1>2, <1>3

LEMMA ChangeKeeps ==
    ASSUME NEW list \in Seq(Entries), NEW b, NEW id, NEW s \in States
    PROVE  /\ FreshIn(ChangeMessage(list, b, id, s)) = FreshIn(list)
           /\ NoTwice(list) => NoTwice(ChangeMessage(list, b, id, s))
           /\ Shown(ChangeMessage(list, b, id, s)) = Shown(list)
<1> DEFINE t == ChangeMessage(list, b, id, s)
<1>1. DOMAIN t = DOMAIN list /\ \A i \in DOMAIN list : t[i].body = list[i].body /\ t[i].id = list[i].id
  BY ChangeType
<1> HIDE DEF t
<1>2. FreshIn(t) = FreshIn(list)
  BY <1>1 DEF FreshIn, Once
<1>3. NoTwice(list) => NoTwice(t)
  BY <1>1 DEF NoTwice
<1>4. Shown(t) = Shown(list)
  BY <1>1 DEF Shown
<1>5. QED
  BY <1>2, <1>3, <1>4 DEF t

LEMMA FreshQuiet ==
    ASSUME FreshPlace,
           \A e \in outbox' : e.id = "fresh" => e \in outbox,
           FreshIn(Inbound') \subseteq FreshIn(Inbound), FreshOnce(Inbound'),
           \A r \in Rooms : FreshIn(messages'[r]) \subseteq FreshIn(messages[r]),
           \A f \in Files : uploads[f] # "none" => uploads'[f] # "none"
    PROVE  FreshPlace'
<1>1. FreshOut' \subseteq FreshOut
  BY DEF FreshOut, Once
<1>2. Begun \subseteq Begun'
  BY DEF Begun
<1>3. \A d, e \in outbox' : Once(d) /\ Once(e) /\ d.body = e.body => d = e
  BY DEF FreshPlace, Once
<1>4. /\ FreshOut' \subseteq Begun' /\ FreshIn(Inbound') \subseteq Begun'
      /\ FreshOut' \cap FreshIn(Inbound') = {}
  BY <1>1, <1>2 DEF FreshPlace
<1>5. ASSUME NEW r \in Rooms
      PROVE  /\ FreshIn(messages'[r]) \subseteq Begun' \ FreshOut'
             /\ FreshIn(messages'[r]) \cap FreshIn(Inbound') = {}
  <2>1. /\ FreshIn(messages[r]) \subseteq Begun \ FreshOut
        /\ FreshIn(messages[r]) \cap FreshIn(Inbound) = {}
        /\ FreshIn(messages'[r]) \subseteq FreshIn(messages[r])
    BY DEF FreshPlace
  <2>2. QED
    BY <1>1, <1>2, <2>1
<1>6. QED
  BY <1>3, <1>4, <1>5 DEF FreshPlace

\* A step after which the same, or nothing, comes to the tab.
LEMMA FreshStill ==
    ASSUME FreshPlace,
           \A e \in outbox' : e.id = "fresh" => e \in outbox,
           Inbound' = Inbound \/ Inbound' = <<>>,
           UNCHANGED messages,
           \A f \in Files : uploads[f] # "none" => uploads'[f] # "none"
    PROVE  FreshPlace'
<1>1. FreshIn(<<>>) = {} /\ FreshOnce(<<>>)
  BY DEF FreshIn, FreshOnce
<1>2. FreshIn(Inbound') \subseteq FreshIn(Inbound) /\ FreshOnce(Inbound')
  BY <1>1 DEF FreshPlace
<1>3. QED
  BY <1>2, FreshQuiet

\* The documents that are not deleted.
Living(s) == {s[i].body : i \in {j \in DOMAIN s : s[j].state # Deleted}}

LEMMA KeptBodies ==
    ASSUME TypeOK, NEW r \in Rooms
    PROVE  Shown(Kept(r)) = Living(docs[r])
<1> DEFINE s == docs[r]
           K == [body : Bodies, state : States \ {Deleted}]
           k == OnlyIn(s, K)
<1>1. s \in Seq(Docs)
  BY DEF TypeOK
<1> HIDE DEF K, s
<1>2. \A i \in 1..Len(k) : k[i] \in K /\ \E j \in 1..Len(s) : k[i] = s[j]
  BY <1>1, OnlyInFrom
<1>3. ASSUME NEW x, x \in K, \E i \in 1..Len(s) : s[i] = x
      PROVE  \E i \in 1..Len(k) : k[i] = x
  BY <1>1, <1>3, OnlyInElements
<1>4. k \in Seq(Docs)
  BY <1>1, OnlyInType
<1> HIDE DEF k
<1>5. DOMAIN k = 1..Len(k) /\ DOMAIN s = 1..Len(s) /\ \A i \in DOMAIN s : s[i] \in Docs
  BY <1>1, <1>4
<1>6. Shown(k) \subseteq Living(s)
  <2> SUFFICES ASSUME NEW i \in DOMAIN k PROVE k[i].body \in Living(s)
    BY DEF Shown
  <2>1. PICK j \in DOMAIN s : k[i] = s[j] /\ s[j] \in K
    BY <1>2, <1>5
  <2>2. s[j].state # Deleted
    BY <2>1 DEF K
  <2>3. QED
    BY <2>1, <2>2 DEF Living
<1>7. Living(s) \subseteq Shown(k)
  <2> SUFFICES ASSUME NEW j \in DOMAIN s, s[j].state # Deleted PROVE s[j].body \in Shown(k)
    BY DEF Living
  <2>1. s[j] \in K
    BY <1>5 DEF Docs, K
  <2>2. PICK i \in 1..Len(k) : k[i] = s[j]
    BY <1>3, <1>5, <2>1
  <2>3. QED
    BY <1>5, <2>2 DEF Shown
<1>8. Kept(r) = k
  BY DEF Kept, k, K, s
<1>9. QED
  BY <1>6, <1>7, <1>8 DEF s

LEMMA KeptOnce ==
    ASSUME TypeOK, NEW r \in Rooms, OneBody(docs[r])
    PROVE  OneBody(Kept(r))
<1> DEFINE s == docs[r]
           K == [body : Bodies, state : States \ {Deleted}]
           k == OnlyIn(s, K)
           R == {x \in Docs \X Docs : x[1].body # x[2].body}
<1>1. s \in Seq(Docs) /\ k \in Seq(Docs)
  BY OnlyInType DEF TypeOK
<1>2. \A x, y \in Docs : <<x, y>> \in R <=> x.body # y.body
  OBVIOUS
<1> HIDE DEF K, R
<1>3. \A i, j \in 1..Len(s) : i < j => <<s[i], s[j]>> \in R
  <2> HIDE DEF s
  <2>1. OneBody(s)
    BY DEF s
  <2>2. QED
    BY <1>1, <1>2, <2>1 DEF OneBody
<1> HIDE DEF s
<1>4. \A i, j \in 1..Len(k) : i < j => <<k[i], k[j]>> \in R
  BY <1>1, <1>3, OnlyInOrdered
<1> HIDE DEF k
<1>5. \A i, j \in 1..Len(k) : i < j => k[i].body # k[j].body
  <2>1. \A i \in 1..Len(k) : k[i] \in Docs
    BY <1>1
  <2>2. QED
    BY <1>2, <1>4, <2>1
<1>6. OneBody(k)
  <2> SUFFICES ASSUME NEW i \in DOMAIN k, NEW j \in DOMAIN k, k[i].body = k[j].body, i # j
               PROVE  FALSE
    BY DEF OneBody
  <2>1. i \in 1..Len(k) /\ j \in 1..Len(k) /\ i \in Int /\ j \in Int
    BY <1>1
  <2>2. i < j \/ j < i
    BY <2>1
  <2>3. QED
    BY <1>5, <2>1, <2>2
<1>7. QED
  BY <1>6 DEF Kept, k, K, s

\* FindChatByRoom returns each message once, under the id of its document.
LEMMA HistoryFacts ==
    ASSUME TypeOK, StoredOnce, NEW r \in Rooms
    PROVE  /\ OneBody(History(r)) /\ FreshIn(History(r)) = {}
           /\ Shown(History(r)) \subseteq Shown(docs[r])
<1> DEFINE k == Kept(r)
           h == History(r)
           n == IF Len(k) < HistoryLimit THEN Len(k) ELSE HistoryLimit
<1>1. k \in Seq(Docs) /\ OneBody(k) /\ Shown(k) = Living(docs[r])
  BY HistoryType, KeptOnce, KeptBodies DEF StoredOnce
<1>2. n \in Nat /\ n <= Len(k) /\ DOMAIN k = 1..Len(k)
  BY <1>1, Bounds
<1>3. h = [i \in 1..n |-> [body |-> k[i].body, id |-> "doc", state |-> k[i].state]]
  BY DEF History
<1>4. Living(docs[r]) \subseteq Shown(docs[r])
  BY DEF Living, Shown
<1> HIDE DEF k, n, h
<1>5. DOMAIN h = 1..n /\ \A i \in 1..n : i \in DOMAIN k /\ h[i].body = k[i].body /\ h[i].id = "doc"
  BY <1>2, <1>3
<1>6. OneBody(h)
  BY <1>1, <1>5 DEF OneBody
<1>7. FreshIn(h) = {}
  BY <1>5 DEF FreshIn, Once
<1>8. Shown(h) \subseteq Shown(k)
  BY <1>5 DEF Shown
<1>9. QED
  BY <1>1, <1>4, <1>6, <1>7, <1>8 DEF h

\* The log on its way to the tab is that history.
LEMMA LogFacts ==
    ASSUME TypeOK, NEW r \in Rooms
    PROVE  FreshIn(Log(r)) = {} /\ FreshOnce(Log(r)) /\ Shown(Log(r)) = Shown(History(r))
             /\ \A i \in DOMAIN Log(r) : Log(r)[i].ev = "CHATLOG"
<1> DEFINE h == History(r)
           g == Log(r)
<1>1. g = [i \in DOMAIN h |->
             [ev |-> "CHATLOG", body |-> h[i].body, id |-> "doc", state |-> h[i].state]]
  BY DEF Log
<1> HIDE DEF g, h
<1>2. /\ DOMAIN g = DOMAIN h
      /\ \A i \in DOMAIN h : g[i].ev = "CHATLOG" /\ g[i].body = h[i].body /\ g[i].id = "doc"
  BY <1>1
<1>3. FreshIn(g) = {} /\ FreshOnce(g) /\ Shown(g) = Shown(h)
  BY <1>2 DEF FreshIn, FreshOnce, Once, Shown
<1>4. QED
  BY <1>2, <1>3 DEF g, h

LEMMA InboundType ==
    ASSUME TypeOK
    PROVE  Inbound \in Seq(Downs)
<1>1. <<>> \in Seq(Downs)
  OBVIOUS
<1>2. CASE ws = 0
  BY <1>1, <1>2 DEF Inbound
<1>3. CASE ws # 0
  BY <1>3, TabSocket, SocketAt DEF Inbound
<1>4. QED
  BY <1>2, <1>3

Down(e)   == [ev |-> e.ev, body |-> e.body, id |-> e.id, state |-> e.state]
Listed(r) == ws # 0 /\ conns[ws].room = r /\ conns[ws].phase = "listed"

\* The hub, as the tab sees it.
LEMMA BroadcastFacts ==
    ASSUME TypeOK, NEW e \in outbox, Broadcast(e)
    PROVE  /\ outbox' = outbox \ {e} \/ (e.body \in Repeats /\ outbox' = outbox)
           /\ UNCHANGED <<tabVars, queue, messages, lists, uploads, written, docs, unsaved, arrived>>
           /\ \A d \in DOMAIN conns : /\ conns'[d].room = conns[d].room
                                     /\ conns'[d].phase = conns[d].phase
           /\ Down(e) \in Downs
           /\ Inbound' = IF Listed(e.room) THEN Append(Inbound, Down(e)) ELSE Inbound
           /\ excused' = IF e.ev = "MSG" /\ ws # 0 /\ conns[ws].room = e.room
                              /\ conns[ws].phase = "fetched" /\ e.body \notin Files
                           THEN excused \cup {e.body} ELSE excused
<1> DEFINE d == Down(e)
           a == Append(conns[ws].down, d)
           s == [conns[ws] EXCEPT !.down = a]
<1>1. /\ outbox' = outbox \ {e} \/ (e.body \in Repeats /\ outbox' = outbox)
      /\ UNCHANGED <<tabVars, queue, messages, lists, uploads, written, docs, unsaved, arrived>>
      /\ conns' = IF Listed(e.room) THEN [conns EXCEPT ![ws].down = Append(@, d)] ELSE conns
  BY DEF Broadcast, Listed, Down
<1>2. excused' = IF e.ev = "MSG" /\ ws # 0 /\ conns[ws].room = e.room
                      /\ conns[ws].phase = "fetched" /\ e.body \notin Files
                   THEN excused \cup {e.body} ELSE excused
  BY DEF Broadcast
<1>3. d \in Downs
  BY DEF TypeOK, Events, Downs, Down
<1> HIDE DEF d
<1>4. CASE ~Listed(e.room)
  BY <1>1, <1>2, <1>3, <1>4 DEF Inbound, d, tabVars
<1>5. CASE Listed(e.room)
  <2>1. ws # 0 /\ ws \in DOMAIN conns /\ conns[ws] \in Sockets
    BY <1>5, TabSocket, SocketAt DEF Listed
  <2>2. conns' = [conns EXCEPT ![ws] = s]
    BY <1>1, <1>5
  <2> HIDE DEF a
  <2>3. s.room = conns[ws].room /\ s.phase = conns[ws].phase /\ s.down = a
    BY <2>1 DEF Sockets
  <2> HIDE DEF s
  <2>4. conns'[ws] = s /\ \A c \in DOMAIN conns \ {ws} : conns'[c] = conns[c]
    BY <2>1, <2>2
  <2>5. Inbound' = Append(Inbound, d)
    BY <1>1, <2>1, <2>3, <2>4 DEF Inbound, tabVars, a
  <2>6. QED
    BY <1>1, <1>2, <1>3, <1>5, <2>3, <2>4, <2>5 DEF d
<1>6. QED
  BY <1>4, <1>5

\* The tab's socket hands an event of an upload on from the hub to the tab.
LEMMA FreshBroadcast ==
    ASSUME TypeOK, FreshPlace, NEW e \in outbox, Broadcast(e)
    PROVE  FreshPlace'
<1>1. /\ outbox' = outbox \ {e} \/ (e.body \in Repeats /\ outbox' = outbox)
      /\ UNCHANGED <<messages, uploads>>
      /\ Down(e) \in Downs /\ Inbound \in Seq(Downs)
      /\ Inbound' = Inbound \/ Inbound' = Append(Inbound, Down(e))
  BY BroadcastFacts, InboundType
<1>2. CASE Inbound' = Inbound
  BY <1>1, <1>2, FreshStill
<1>3. CASE Inbound' = Append(Inbound, Down(e))
  <2> DEFINE d == Down(e)
             F == IF Once(e) THEN {e.body} ELSE {}
  <2>1. Once(d) = Once(e) /\ d.body = e.body
    BY DEF Down, Once
  <2> HIDE DEF d
  <2>2. Once(e) => e.body \in FreshOut
    BY DEF FreshOut
  <2>3. F \subseteq FreshOut
    BY <2>2
  <2>4. /\ FreshIn(Inbound') = FreshIn(Inbound) \cup F
        /\ FreshOnce(Inbound')
    <3>1. /\ FreshIn(Append(Inbound, d)) = FreshIn(Inbound) \cup F
          /\ FreshOnce(Inbound) /\ (Once(d) => d.body \notin FreshIn(Inbound))
               => FreshOnce(Append(Inbound, d))
      BY <1>1, <2>1, FreshAppend DEF d
    <3>2. FreshOnce(Inbound) /\ (Once(d) => d.body \notin FreshIn(Inbound))
      BY <2>1, <2>2 DEF FreshPlace
    <3>3. QED
      BY <1>3, <3>1, <3>2 DEF d
  <2>5. FreshOut' \subseteq FreshOut \ F
    <3> SUFFICES ASSUME NEW x \in outbox, Once(x), Once(e) => x # e
                 PROVE  x.body \in FreshOut \ F
      BY <1>1 DEF FreshOut, Once
    <3>1. x.body \in FreshOut
      BY DEF FreshOut
    <3>2. Once(e) => x.body # e.body
      BY DEF FreshPlace
    <3>3. QED
      BY <3>1, <3>2
  <2>6. Begun' = Begun
    BY <1>1 DEF Begun
  <2> HIDE DEF F
  <2>7. \A x, y \in outbox' : Once(x) /\ Once(y) /\ x.body = y.body => x = y
    BY <1>1 DEF FreshPlace
  <2>8. /\ FreshOut' \subseteq Begun' /\ FreshIn(Inbound') \subseteq Begun'
        /\ FreshOut' \cap FreshIn(Inbound') = {}
    BY <2>3, <2>4, <2>5, <2>6 DEF FreshPlace
  <2>9. ASSUME NEW r \in Rooms
        PROVE  /\ FreshIn(messages'[r]) \subseteq Begun' \ FreshOut'
               /\ FreshIn(messages'[r]) \cap FreshIn(Inbound') = {}
    <3>1. /\ FreshIn(messages[r]) \subseteq Begun \ FreshOut /\ messages'[r] = messages[r]
          /\ FreshIn(messages[r]) \cap FreshIn(Inbound) = {}
      BY <1>1 DEF FreshPlace
    <3>2. QED
      BY <2>3, <2>4, <2>5, <2>6, <3>1
  <2>10. QED
    BY <2>4, <2>7, <2>8, <2>9 DEF FreshPlace
<1>4. QED
  BY <1>1, <1>2, <1>3

LEMMA FreshServer ==
    ASSUME TypeOK, FreshPlace, Server \/ Others
    PROVE  FreshPlace'
<1>1. ASSUME NEW c \in DOMAIN conns, FetchHistory(c) PROVE FreshPlace'
  <2>1. UNCHANGED <<outbox, messages, uploads, ws>>
    BY <1>1 DEF FetchHistory, tabVars, srvVars
  <2>2. CASE ws = c
    <3>1. Inbound' \in {Log(conns[c].room), <<>>} /\ conns[c].room \in Rooms
      <4>1. conns'[c].down \in {Log(conns[c].room), <<>>}
        BY <1>1, <2>2, FetchFacts
      <4>2. ws # 0 /\ conns[c].room \in Rooms
        BY <2>2, SocketAt
      <4>3. QED
        BY <2>1, <2>2, <4>1, <4>2 DEF Inbound
    <3>2. FreshIn(Inbound') = {} /\ FreshOnce(Inbound')
      <4>1. FreshIn(<<>>) = {} /\ FreshOnce(<<>>)
        BY DEF FreshIn, FreshOnce
      <4>2. QED
        BY <3>1, <4>1, LogFacts
    <3>3. QED
      BY <2>1, <3>2, FreshQuiet
  <2>3. CASE ws # c
    <3>1. ws # 0 => conns'[ws] = conns[ws]
      BY <1>1, <2>3, TabSocket, FetchFacts
    <3>2. Inbound' = Inbound
      BY <2>1, <3>1 DEF Inbound
    <3>3. QED
      BY <2>1, <3>2, FreshStill
  <2>4. QED
    BY <2>2, <2>3
<1>2. ASSUME NEW c \in DOMAIN conns, Register(c) \/ ServerReads(c) PROVE FreshPlace'
  <2>1. UNCHANGED <<messages, uploads, ws>>
    BY <1>2 DEF Register, ServerReads, tabVars
  <2>2. \A e \in outbox' : e.id = "fresh" => e \in outbox
    BY <1>2 DEF Register, ServerReads, MsgEvent, srvVars
  <2>3. \A d \in DOMAIN conns : conns'[d].down = conns[d].down
    BY <1>2, RegisterFacts, ReadFacts
  <2>4. Inbound' = Inbound
    BY <2>1, <2>3, TabSocket DEF Inbound
  <2>5. QED
    BY <2>1, <2>2, <2>4, FreshStill
<1>3. ASSUME \/ \E u \in unsaved : Store(u)
             \/ \E e \in outbox : Drop(e)
             \/ \E l \in lists : ListAnswered(l)
             \/ \E b \in Peers, r \in Rooms : PeerText(b, r) \/ PeerReply(b, r)
             \/ \E b \in Peers, r \in Rooms, ev \in {"MSG_EDIT", "MSG_DELETE"} : PeerChange(r, b, ev)
      PROVE  FreshPlace'
  <2>1. UNCHANGED <<messages, uploads, ws, conns>>
    BY <1>3 DEF Store, Drop, ListAnswered, PeerText, PeerReply, PeerChange, Change, tabVars
  <2>2. \A e \in outbox' : e.id = "fresh" => e \in outbox
    <3>1. ASSUME \/ \E u \in unsaved : Store(u)
                 \/ \E e \in outbox : Drop(e)
                 \/ \E l \in lists : ListAnswered(l)
          PROVE  outbox' \subseteq outbox
      BY <3>1 DEF Store, Drop, ListAnswered, srvVars
    <3>2. ASSUME NEW b \in Peers, NEW r \in Rooms, PeerText(b, r) \/ PeerReply(b, r)
          PROVE  \A e \in outbox' : e.id = "fresh" => e \in outbox
      BY <3>2 DEF PeerText, PeerReply, MsgEvent
    <3>3. ASSUME NEW b \in Peers, NEW r \in Rooms, NEW ev \in {"MSG_EDIT", "MSG_DELETE"},
                 PeerChange(r, b, ev)
          PROVE  \A e \in outbox' : e.id = "fresh" => e \in outbox
      BY <3>3 DEF PeerChange, Change
    <3>4. QED
      BY <1>3, <3>1, <3>2, <3>3
  <2>3. Inbound' = Inbound
    BY <2>1 DEF Inbound
  <2>4. QED
    BY <2>1, <2>2, <2>3, FreshStill
<1>4. QED
  BY <1>1, <1>2, <1>3, FreshBroadcast DEF Server, Others, Handler

\* onmessage: an event of an upload is shown, and comes no more.
LEMMA ShowOnMessage ==
    ASSUME TypeOK, TabInv, FreshPlace, ShownOncePerId, OnMessage
    PROVE  FreshPlace' /\ ShownOncePerId'
<1> DEFINE e == Head(conns[ws].down)
           x == [body |-> e.body, id |-> e.id, state |-> e.state]
           old == messages[room]
           new == IF e.ev \in {"CHATLOG", "MSG"} THEN AddMessage(old, x)
                  ELSE ChangeMessage(old, e.body, e.id, e.state)
           F == IF Once(e) THEN {e.body} ELSE {}
<1>1. /\ UNCHANGED <<tabVars, outbox, uploads>> /\ Receive(e, room)
      /\ Inbound = conns[ws].down /\ Inbound # <<>>
  BY DEF OnMessage, srvVars, TabInv, Inbound
<1>2. /\ ws \in DOMAIN conns /\ room \in Rooms /\ e \in Downs
      /\ conns'[ws].down = Tail(conns[ws].down)
  BY OnMessageFacts
<1>3. Inbound' = Tail(Inbound) /\ Inbound \in Seq(Downs) /\ Head(Inbound) = e
  BY <1>1, <1>2, InboundType DEF Inbound, tabVars, OnMessage, TabInv
<1>4. /\ FreshIn(Inbound') \subseteq FreshIn(Inbound) /\ FreshOnce(Inbound')
      /\ F \subseteq FreshIn(Inbound) /\ F \cap FreshIn(Inbound') = {}
  <2>1. FreshOnce(Inbound)
    BY DEF FreshPlace
  <2> HIDE DEF e
  <2>2. /\ FreshIn(Tail(Inbound)) \subseteq FreshIn(Inbound) /\ FreshOnce(Tail(Inbound))
        /\ Once(Head(Inbound)) => /\ Head(Inbound).body \in FreshIn(Inbound)
                                         /\ Head(Inbound).body \notin FreshIn(Tail(Inbound))
    BY <1>1, <1>3, <2>1, FreshTail
  <2>3. QED
    BY <1>3, <2>2
<1> HIDE DEF e
<1>5. messages' = [messages EXCEPT ![room] = new]
  BY <1>1 DEF Receive
<1>6. x \in Entries /\ old \in Seq(Entries) /\ e.state \in States /\ Once(x) = Once(e) /\ x.body = e.body
  BY <1>2 DEF Downs, Entries, TypeOK, Once
<1>7. /\ FreshIn(old) \cap FreshIn(Inbound) = {} /\ NoTwice(old)
  BY <1>2 DEF FreshPlace, ShownOncePerId, NoTwice
<1> HIDE DEF x, old
<1>8. FreshIn(new) \subseteq FreshIn(old) \cup F /\ NoTwice(new)
  <2>1. CASE e.ev \in {"CHATLOG", "MSG"}
    <3>1. Once(e) => e.body \notin FreshIn(old)
      BY <1>4, <1>7
    <3>2. /\ FreshIn(AddMessage(old, x)) = FreshIn(old) \cup (IF Once(x) THEN {x.body} ELSE {})
          /\ NoTwice(old) /\ (Once(x) => x.body \notin FreshIn(old))
               => NoTwice(AddMessage(old, x))
      BY <1>6, AddFacts
    <3>3. QED
      BY <1>6, <1>7, <2>1, <3>1, <3>2
  <2>2. CASE e.ev \notin {"CHATLOG", "MSG"}
    BY <1>6, <1>7, <2>2, ChangeKeeps
  <2>3. QED
    BY <2>1, <2>2
<1> HIDE DEF new, F
<1>9. messages'[room] = new /\ \A q \in Rooms \ {room} : messages'[q] = messages[q]
  BY <1>2, <1>5 DEF TypeOK
<1>10. ShownOncePerId'
  BY <1>8, <1>9 DEF ShownOncePerId, NoTwice
<1>11. Begun' = Begun /\ FreshOut' = FreshOut
  BY <1>1 DEF Begun, FreshOut
<1>12. FreshPlace'
  <2>1. /\ FreshIn(Inbound) \subseteq Begun /\ FreshOut \cap FreshIn(Inbound) = {}
        /\ FreshOut \subseteq Begun
    BY DEF FreshPlace
  <2>2. ASSUME NEW q \in Rooms
        PROVE  /\ FreshIn(messages'[q]) \subseteq Begun \ FreshOut
               /\ FreshIn(messages'[q]) \cap FreshIn(Inbound') = {}
    <3>1. /\ FreshIn(messages[q]) \subseteq Begun \ FreshOut
          /\ FreshIn(messages[q]) \cap FreshIn(Inbound) = {}
      BY DEF FreshPlace
    <3>2. FreshIn(messages'[q]) \subseteq FreshIn(messages[q]) \cup F
      BY <1>8, <1>9 DEF old
    <3>3. QED
      BY <1>4, <2>1, <3>1, <3>2
  <2>3. \A d, f \in outbox' : Once(d) /\ Once(f) /\ d.body = f.body => d = f
    BY <1>1 DEF FreshPlace
  <2>4. QED
    BY <1>4, <1>11, <2>1, <2>2, <2>3 DEF FreshPlace
<1>13. QED
  BY <1>10, <1>12

\* An upload makes an event whose id the client will make up.
LEMMA FreshUpload ==
    ASSUME TypeOK, FreshPlace, NEW f \in Files, Upload(f)
    PROVE  FreshPlace'
<1> DEFINE n == MsgEvent(room, f, "fresh")
<1>1. /\ uploads[f] = "none" /\ uploads' = [uploads EXCEPT ![f] = "stored"]
      /\ outbox' = outbox \cup {n} /\ UNCHANGED <<messages, conns, ws>>
      /\ n.id = "fresh" /\ n.body = f
  BY DEF Upload, MsgEvent, tabVars
<1> HIDE DEF n
<1>2. Begun' = Begun \cup {f} /\ f \notin Begun
  BY <1>1 DEF Begun, TypeOK
<1>3. FreshOut' \subseteq FreshOut \cup {f}
  BY <1>1 DEF FreshOut
<1>4. Inbound' = Inbound
  BY <1>1 DEF Inbound
<1>5. \A d, e \in outbox' : Once(d) /\ Once(e) /\ d.body = e.body => d = e
  <2>1. \A d \in outbox : Once(d) => d.body \in FreshOut
    BY DEF FreshOut
  <2>2. \A d \in outbox : Once(d) => d.body # f
    BY <1>2, <2>1 DEF FreshPlace
  <2>3. QED
    BY <1>1, <2>2 DEF FreshPlace
<1>6. QED
  BY <1>1, <1>2, <1>3, <1>4, <1>5 DEF FreshPlace

\* What the tab sends changes nothing that comes to it.
LEMMA TabSends ==
    ASSUME TypeOK, TabInv,
           (\E t \in Texts : SendText(t)) \/ (\E f \in Files : UploadAnswered(f))
    PROVE  /\ UNCHANGED ws
           /\ \A c \in DOMAIN conns : /\ conns'[c].room = conns[c].room
                                     /\ conns'[c].phase = conns[c].phase
                                     /\ conns'[c].down = conns[c].down
<1>1. ASSUME NEW t \in Texts, SendText(t)
      PROVE  \E p \in Payloads : SendMessage(p) /\ UNCHANGED ws
  <2>1. /\ room # None /\ SendMessage([body |-> t, room |-> room]) /\ UNCHANGED ws
    BY <1>1 DEF SendText, tabVars
  <2>2. [body |-> t, room |-> room] \in Payloads
    BY <2>1, Bounds DEF TypeOK, Payloads
  <2>3. QED
    BY <2>1, <2>2
<1>2. ASSUME NEW f \in Files, UploadAnswered(f)
      PROVE  UNCHANGED ws /\ (UNCHANGED conns \/ \E p \in Payloads : SendMessage(p))
  <2>1. /\ uploads[f] = "stored" /\ UNCHANGED ws
        /\ SendMessage([body |-> f, room |-> written[f]]) \/ UNCHANGED conns
    BY <1>2 DEF UploadAnswered, tabVars
  <2>2. [body |-> f, room |-> written[f]] \in Payloads
    BY <2>1, Bounds DEF TypeOK, TabInv, Payloads
  <2>3. QED
    BY <2>1, <2>2
<1>3. ASSUME NEW p \in Payloads, SendMessage(p)
      PROVE  \A c \in DOMAIN conns : /\ conns'[c].room = conns[c].room
                                    /\ conns'[c].phase = conns[c].phase
                                    /\ conns'[c].down = conns[c].down
  BY <1>3, SendFacts
<1>4. QED
  BY <1>1, <1>2, <1>3

\* setMessages, and the answer to an edit or a deletion of the tab.
LEMMA ShowAnswers ==
    ASSUME TypeOK, FreshPlace, SnapsOnce, ShownOncePerId,
           (\E l \in lists : ListArrives(l)) \/ (\E a \in answers : ChangeAnswered(a))
    PROVE  FreshPlace' /\ ShownOncePerId'
<1>1. ASSUME NEW r \in Rooms, NEW new, messages' = [messages EXCEPT ![r] = new],
             FreshIn(new) \subseteq FreshIn(messages[r]), NoTwice(new),
             UNCHANGED <<outbox, conns, uploads, ws>>
      PROVE  FreshPlace' /\ ShownOncePerId'
  <2>1. messages'[r] = new /\ \A q \in Rooms \ {r} : messages'[q] = messages[q]
    BY <1>1 DEF TypeOK
  <2>2. \A q \in Rooms : FreshIn(messages'[q]) \subseteq FreshIn(messages[q])
    BY <1>1, <2>1
  <2>3. Inbound' = Inbound /\ FreshOnce(Inbound)
    BY <1>1 DEF Inbound, FreshPlace
  <2>4. FreshPlace'
    BY <1>1, <2>2, <2>3, FreshQuiet
  <2>5. \A q \in Rooms : NoTwice(messages'[q])
    BY <1>1, <2>1 DEF ShownOncePerId, NoTwice
  <2>6. QED
    BY <2>4, <2>5 DEF ShownOncePerId, NoTwice
<1>2. ASSUME NEW l \in lists, ListArrives(l) PROVE FreshPlace' /\ ShownOncePerId'
  <2>1. l.room \in Rooms /\ UNCHANGED <<outbox, conns, uploads, ws>>
    BY <1>2 DEF ListArrives, TypeOK, Calls, tabVars, srvVars
  <2>2. CASE UNCHANGED messages
    <3>1. Inbound' = Inbound
      BY <2>1 DEF Inbound
    <3>2. QED
      BY <2>1, <2>2, <3>1, FreshStill DEF ShownOncePerId
  <2>3. CASE l.snap # <<None>> /\ messages' = [messages EXCEPT ![l.room] = l.snap]
    <3>1. FreshIn(l.snap) = {} /\ NoTwice(l.snap)
      BY <2>3 DEF SnapsOnce, OneBody, NoTwice
    <3>2. QED
      BY <1>1, <2>1, <2>3, <3>1
  <2>4. QED
    BY <1>2, <2>2, <2>3 DEF ListArrives
<1>3. ASSUME NEW a \in answers, ChangeAnswered(a) PROVE FreshPlace' /\ ShownOncePerId'
  <2> DEFINE new == ChangeMessage(messages[a.room], a.body, "doc", a.state)
  <2>1. /\ messages' = [messages EXCEPT ![a.room] = new]
        /\ UNCHANGED <<outbox, conns, uploads, ws>>
    BY <1>3 DEF ChangeAnswered, tabVars, srvVars
  <2>2. /\ a.room \in Rooms /\ a.state \in States /\ messages[a.room] \in Seq(Entries)
        /\ NoTwice(messages[a.room])
    BY DEF TypeOK, ShownOncePerId, NoTwice
  <2>3. FreshIn(new) = FreshIn(messages[a.room]) /\ NoTwice(new)
    BY <2>2, ChangeKeeps
  <2> HIDE DEF new
  <2>4. QED
    BY <1>1, <2>1, <2>2, <2>3
<1>4. QED
  BY <1>2, <1>3

LEMMA ShowTab ==
    ASSUME TypeOK, TabInv, FreshPlace, SnapsOnce, ShownOncePerId, Tab
    PROVE  FreshPlace' /\ ShownOncePerId'
<1>1. ASSUME NEW r \in Rooms, Select(r) PROVE FreshPlace' /\ ShownOncePerId'
  <2>1. UNCHANGED <<outbox, messages, uploads>> /\ Connect(Detached, r)
    BY <1>1 DEF Select, srvVars
  <2>2. Inbound' = <<>>
    BY <2>1, DetachedType, ConnectFacts DEF Inbound
  <2>3. QED
    BY <2>1, <2>2, FreshStill DEF ShownOncePerId
<1>2. CASE Deselect \/ Lose
  <2>1. UNCHANGED <<outbox, messages, uploads>> /\ ws' = 0
    BY <1>2 DEF Deselect, Lose, srvVars
  <2>2. Inbound' = <<>>
    BY <2>1 DEF Inbound
  <2>3. QED
    BY <2>1, <2>2, FreshStill DEF ShownOncePerId
<1>3. CASE Reconnect
  <2>1. /\ UNCHANGED <<outbox, messages, uploads>>
        /\ Connect(conns, room) /\ room \in Rooms /\ conns \in Seq(Sockets)
    BY <1>3 DEF Reconnect, srvVars, TabInv, TypeOK
  <2>2. Inbound' = <<>>
    BY <2>1, ConnectFacts DEF Inbound
  <2>3. QED
    BY <2>1, <2>2, FreshStill DEF ShownOncePerId
<1>4. ASSUME \/ Opens
             \/ \E t \in Texts : SendText(t)
             \/ \E f \in Files : UploadAnswered(f)
      PROVE  FreshPlace' /\ ShownOncePerId'
  <2>1. /\ UNCHANGED <<outbox, messages, ws>>
        /\ \A f \in Files : uploads[f] # "none" => uploads'[f] # "none"
    <3>1. CASE Opens
      BY <3>1 DEF Opens, srvVars
    <3>2. ASSUME NEW t \in Texts, SendText(t)
          PROVE  UNCHANGED <<outbox, messages, ws, uploads>>
      BY <3>2 DEF SendText, tabVars, srvVars
    <3>3. ASSUME NEW f \in Files, UploadAnswered(f)
          PROVE  UNCHANGED <<outbox, messages, ws>> /\ uploads' = [uploads EXCEPT ![f] = "over"]
      BY <3>3 DEF UploadAnswered, tabVars, srvVars
    <3>4. QED
      BY <1>4, <3>1, <3>2, <3>3 DEF TypeOK
  <2>2. \A c \in DOMAIN conns : conns'[c].down = conns[c].down
    BY <1>4, OpensFacts, TabSends
  <2>3. Inbound' = Inbound
    BY <2>1, <2>2, TabSocket DEF Inbound
  <2>4. QED
    BY <2>1, <2>3, FreshStill DEF ShownOncePerId
<1>5. ASSUME NEW f \in Files, Upload(f) PROVE FreshPlace' /\ ShownOncePerId'
  BY <1>5, FreshUpload DEF Upload, ShownOncePerId
<1>6. ASSUME NEW b \in Texts \cup Peers, NEW ev \in {"MSG_EDIT", "MSG_DELETE"}, OwnChange(b, ev)
      PROVE  FreshPlace' /\ ShownOncePerId'
  <2>1. /\ UNCHANGED <<messages, uploads, ws, conns>>
        /\ \A e \in outbox' : e.id = "fresh" => e \in outbox
    BY <1>6 DEF OwnChange, Change, tabVars
  <2>2. Inbound' = Inbound
    BY <2>1 DEF Inbound
  <2>3. QED
    BY <2>1, <2>2, FreshStill DEF ShownOncePerId
<1>7. QED
  BY <1>1, <1>2, <1>3, <1>4, <1>5, <1>6, ShowOnMessage, ShowAnswers DEF Tab

\* The state of b in the documents d.
StateIn(d, b) == LET i == CHOOSE i \in DOMAIN d : d[i].body = b IN d[i].state

LEMMA StateAt ==
    ASSUME NEW d, OneBody(d), NEW i \in DOMAIN d
    PROVE  StateIn(d, d[i].body) = d[i].state
<1> DEFINE j == CHOOSE j \in DOMAIN d : d[j].body = d[i].body
<1>1. j \in DOMAIN d /\ d[j].body = d[i].body
  OBVIOUS
<1>2. j = i
  BY <1>1 DEF OneBody
<1>3. StateIn(d, d[i].body) = d[j].state
  BY DEF StateIn
<1>4. QED
  BY <1>2, <1>3

LEMMA StateAppend ==
    ASSUME NEW S, NEW d \in Seq(S), NEW e \in S, OneBody(d), e.body \notin Shown(d)
    PROVE  /\ StateIn(Append(d, e), e.body) = e.state
           /\ \A b \in Shown(d) : StateIn(Append(d, e), b) = StateIn(d, b)
<1> DEFINE t == Append(d, e)
<1>1. OneBody(t)
  BY OneBodyAppend
<1>2. /\ DOMAIN t = 1..(Len(d) + 1) /\ Len(d) \in Nat /\ DOMAIN d = 1..Len(d)
      /\ \A i \in 1..Len(d) : t[i] = d[i]
      /\ t[Len(d) + 1] = e
  BY AppendProperties, LenProperties
<1> HIDE DEF t
<1>3. Len(d) + 1 \in DOMAIN t /\ \A i \in DOMAIN d : i \in DOMAIN t /\ t[i] = d[i]
  BY <1>2
<1>4. StateIn(t, e.body) = e.state
  BY <1>1, <1>2, <1>3, StateAt
<1>5. ASSUME NEW i \in DOMAIN d PROVE StateIn(t, d[i].body) = StateIn(d, d[i].body)
  <2>1. StateIn(t, t[i].body) = t[i].state
    BY <1>1, <1>3, StateAt
  <2>2. StateIn(d, d[i].body) = d[i].state
    BY StateAt
  <2>3. QED
    BY <1>3, <2>1, <2>2
<1>6. QED
  BY <1>4, <1>5 DEF Shown, t

\* The model's names for the two.
LEMMA StateNames ==
    ASSUME NEW r
    PROVE  /\ Stored(r) = Shown(docs[r]) /\ Stored(r)' = Shown(docs'[r])
           /\ \A b : StateOf(r, b) = StateIn(docs[r], b)
           /\ \A b : StateOf(r, b)' = StateIn(docs'[r], b)
BY DEF Stored, Shown, StateOf, StateIn

\* What a step does to the documents: nothing, or it adds a new one, or it is an edit
\* or a deletion.
AddsDoc(q, b) ==
    /\ \A r \in Rooms : b \notin Shown(docs[r])
    /\ docs' = [docs EXCEPT ![q] = Append(@, [body |-> b, state |-> 0])]

LEMMA AddsStored ==
    ASSUME TypeOK, LineInv, StoredOnce, NEW u \in unsaved, Store(u)
    PROVE  UNCHANGED docs \/ \E q \in Rooms, b \in Bodies : AddsDoc(q, b)
<1>1. u.room \in Rooms /\ u.body \in Bodies
  BY DEF TypeOK, Payloads
<1>2. u.body \in Pending(u.room)
  BY DEF Pending
<1>3. ASSUME NEW r \in Rooms PROVE u.body \notin Shown(docs[r])
  <2>1. CASE r = u.room
    BY <1>2, <2>1 DEF StoredOnce
  <2>2. CASE r # u.room
    <3>1. Home(r) \cap Home(u.room) = {}
      BY <1>1, <2>2, HomesApart
    <3>2. u.body \in Home(u.room) /\ Shown(docs[r]) \subseteq Home(r)
      BY <1>1, <1>2 DEF StoredOnce
    <3>3. QED
      BY <3>1, <3>2
  <2>3. QED
    BY <2>1, <2>2
<1>4. \/ docs' = [docs EXCEPT ![u.room] = Append(@, [body |-> u.body, state |-> 0])]
      \/ UNCHANGED docs
  BY DEF Store
<1>5. QED
  BY <1>1, <1>3, <1>4 DEF AddsDoc

LEMMA AddsPeers ==
    ASSUME TypeOK, StoredOnce, NEW b \in Peers, NEW q \in Rooms, PeerText(b, q) \/ PeerReply(b, q)
    PROVE  UNCHANGED docs \/ AddsDoc(q, b)
<1>1. /\ written[b] = None
      /\ \/ docs' = [docs EXCEPT ![q] = Append(@, [body |-> b, state |-> 0])]
         \/ UNCHANGED docs
  BY DEF PeerText, PeerReply
<1>2. ASSUME NEW r \in Rooms PROVE b \notin Shown(docs[r])
  <2>1. b \notin Texts /\ None \notin Rooms
    BY Bounds
  <2>2. b \notin Home(r)
    BY <1>1, <2>1 DEF Home
  <2>3. QED
    BY <2>2 DEF StoredOnce
<1>3. QED
  BY <1>1, <1>2 DEF AddsDoc

LEMMA DocsStep ==
    ASSUME TypeOK, LineInv, StoredOnce, [Next]_vars
    PROVE  \/ UNCHANGED docs
           \/ \E q \in Rooms, b \in Bodies : AddsDoc(q, b)
           \/ \E q \in Rooms, b \in Bodies, ev \in {"MSG_EDIT", "MSG_DELETE"} : Change(q, b, ev)
<1>1. CASE Server
  <2>1. ASSUME \/ \E c \in DOMAIN conns : Handler(c)
               \/ \E e \in outbox : Broadcast(e) \/ Drop(e)
               \/ \E l \in lists : ListAnswered(l)
        PROVE  docs' = docs
    BY <2>1 DEF Handler, FetchHistory, Register, ServerReads, Broadcast, Drop, ListAnswered,
                srvVars
  <2>2. QED
    BY <1>1, <2>1, AddsStored DEF Server
<1>2. CASE Others
  <2>1. Peers \subseteq Bodies
    BY Bounds
  <2>2. QED
    BY <1>2, <2>1, AddsPeers DEF Others, PeerChange
<1>3. CASE Tab
  <2>1. ASSUME \/ \E q \in Rooms : Select(q)
               \/ Deselect \/ Lose \/ Reconnect \/ Opens \/ OnMessage
               \/ \E t \in Texts : SendText(t)
               \/ \E f \in Files : Upload(f) \/ UploadAnswered(f)
               \/ \E l \in lists : ListArrives(l)
               \/ \E a \in answers : ChangeAnswered(a)
        PROVE  docs' = docs
    BY <2>1 DEF Select, Deselect, Lose, Reconnect, Opens, OnMessage, SendText, Upload,
                UploadAnswered, ListArrives, ChangeAnswered, srvVars
  <2>2. ASSUME NEW b \in Texts \cup Peers, NEW ev \in {"MSG_EDIT", "MSG_DELETE"},
               OwnChange(b, ev)
        PROVE  room \in Rooms /\ b \in Bodies /\ Change(room, b, ev)
    BY <2>2, Bounds DEF OwnChange, TypeOK
  <2>3. QED
    BY <1>3, <2>1, <2>2 DEF Tab
<1>4. QED
  BY <1>1, <1>2, <1>3 DEF Next, vars, srvVars


\* Documents stay; a change brings no deleted one back and undoes no edit.
Grows(d, e) ==
    /\ Shown(d) \subseteq Shown(e)
    /\ \A b \in Shown(d) : \/ StateIn(e, b) = StateIn(d, b)
                           \/ StateIn(d, b) # Deleted /\ StateIn(e, b) # 0

\* What EditChat and DeleteChat leave in the documents.
LEMMA StateChange ==
    ASSUME TypeOK, StoredOnce, NEW q \in Rooms, NEW b, NEW ev \in {"MSG_EDIT", "MSG_DELETE"},
           Change(q, b, ev)
    PROVE  /\ \A r \in Rooms : Shown(docs'[r]) = Shown(docs[r])
           /\ b \in Shown(docs[q]) /\ StateIn(docs[q], b) # Deleted
           /\ StateIn(docs'[q], b) = NewState(ev) /\ NewState(ev) # 0
           /\ \A r \in Rooms : \A a \in Shown(docs[r]) :
                r # q \/ a # b => StateIn(docs'[r], a) = StateIn(docs[r], a)
<1>1. /\ \A r \in Rooms : DOMAIN docs'[r] = DOMAIN docs[r]
      /\ \A r \in Rooms : \A i \in DOMAIN docs[r] :
           /\ docs'[r][i].body = docs[r][i].body
           /\ docs'[r][i].state = IF r = q /\ docs[r][i].body = b THEN NewState(ev)
                                  ELSE docs[r][i].state
  BY ChangeFacts
<1>2. ASSUME NEW r \in Rooms PROVE OneBody(docs[r]) /\ OneBody(docs'[r])
  BY <1>1 DEF StoredOnce, OneBody
<1>3. \A r \in Rooms : Shown(docs'[r]) = Shown(docs[r])
  BY <1>1 DEF Shown
<1>4. ASSUME NEW r \in Rooms, NEW i \in DOMAIN docs[r]
      PROVE  /\ StateIn(docs[r], docs[r][i].body) = docs[r][i].state
             /\ StateIn(docs'[r], docs[r][i].body) = docs'[r][i].state
  <2>1. StateIn(docs[r], docs[r][i].body) = docs[r][i].state
    BY <1>2, StateAt
  <2>2. i \in DOMAIN docs'[r] /\ docs'[r][i].body = docs[r][i].body
    BY <1>1
  <2>3. StateIn(docs'[r], docs'[r][i].body) = docs'[r][i].state
    BY <1>2, <2>2, StateAt
  <2>4. QED
    BY <2>1, <2>2, <2>3
<1>5. /\ b \in Shown(docs[q]) /\ StateIn(docs[q], b) # Deleted
  BY StateNames DEF Change
<1>6. StateIn(docs'[q], b) = NewState(ev)
  <2>1. PICK i \in DOMAIN docs[q] : docs[q][i].body = b
    BY <1>5 DEF Shown
  <2>2. QED
    BY <1>1, <1>4, <2>1
<1>7. NewState(ev) # 0
  BY Bounds DEF NewState, TypeOK
<1>8. ASSUME NEW r \in Rooms, NEW a \in Shown(docs[r]), r # q \/ a # b
      PROVE  StateIn(docs'[r], a) = StateIn(docs[r], a)
  <2>1. PICK i \in DOMAIN docs[r] : docs[r][i].body = a
    BY DEF Shown
  <2>2. QED
    BY <1>1, <1>4, <1>8, <2>1
<1>9. QED
  BY <1>3, <1>5, <1>6, <1>7, <1>8

\* A new document.
LEMMA StateNew ==
    ASSUME TypeOK, StoredOnce, NEW q \in Rooms, NEW b \in Bodies, AddsDoc(q, b)
    PROVE  /\ \A r \in Rooms : Shown(docs'[r]) = IF r = q THEN Shown(docs[r]) \cup {b}
                                                 ELSE Shown(docs[r])
           /\ \A r \in Rooms : \A a \in Shown(docs[r]) :
                StateIn(docs'[r], a) = StateIn(docs[r], a)
           /\ StateIn(docs'[q], b) = 0
<1> DEFINE d == [body |-> b, state |-> 0]
           old == docs[q]
<1>1. /\ old \in Seq(Docs) /\ d \in Docs /\ d.body = b /\ d.state = 0
      /\ OneBody(old) /\ b \notin Shown(old)
      /\ docs'[q] = Append(old, d) /\ \A r \in Rooms \ {q} : docs'[r] = docs[r]
  BY Bounds DEF TypeOK, Docs, AddsDoc, StoredOnce
<1> HIDE DEF d, old
<1>2. Shown(Append(old, d)) = Shown(old) \cup {d.body}
  BY <1>1, ShownAppend
<1>3. /\ StateIn(Append(old, d), d.body) = d.state
      /\ \A a \in Shown(old) : StateIn(Append(old, d), a) = StateIn(old, a)
  BY <1>1, StateAppend
<1>4. QED
  BY <1>1, <1>2, <1>3 DEF old

LEMMA DocsGrow ==
    ASSUME TypeOK, LineInv, StoredOnce, [Next]_vars, NEW r \in Rooms
    PROVE  Grows(docs[r], docs'[r])
<1>1. CASE UNCHANGED docs
  BY <1>1 DEF Grows
<1>2. ASSUME NEW q \in Rooms, NEW b \in Bodies, AddsDoc(q, b) PROVE Grows(docs[r], docs'[r])
  BY <1>2, StateNew DEF Grows
<1>3. ASSUME NEW q \in Rooms, NEW b \in Bodies, NEW ev \in {"MSG_EDIT", "MSG_DELETE"},
             Change(q, b, ev)
      PROVE  Grows(docs[r], docs'[r])
  BY <1>3, StateChange DEF Grows
<1>4. QED
  BY <1>1, <1>2, <1>3, DocsStep

\* GetRoomMessagesHandler answers with the history.
LEMMA ListsStep ==
    ASSUME TypeOK, [Next]_vars, NEW l \in lists'
    PROVE  l \in lists \/ l.snap = <<None>> \/ (l.room \in Rooms /\ l.snap = History(l.room))
<1>1. ASSUME NEW r \in Rooms, Select(r) PROVE l \in lists \/ l.snap = <<None>>
  BY <1>1 DEF Select
<1>2. ASSUME NEW k \in lists, ListAnswered(k)
      PROVE  l \in lists \/ (l.room \in Rooms /\ l.snap = History(l.room))
  <2>1. k \in Calls /\ lists' = (lists \ {k}) \cup {[k EXCEPT !.snap = History(k.room)]}
    BY <1>2 DEF ListAnswered, TypeOK
  <2>2. QED
    BY <2>1 DEF Calls
<1>3. ASSUME NEW k \in lists, ListArrives(k) PROVE l \in lists
  BY <1>3 DEF ListArrives
<1>4. ASSUME \/ \E c \in DOMAIN conns : Handler(c)
             \/ \E u \in unsaved : Store(u)
             \/ \E e \in outbox : Broadcast(e) \/ Drop(e)
             \/ Others
      PROVE  lists' = lists
  BY <1>4 DEF Others, PeerText, PeerReply, PeerChange, Change, Handler, FetchHistory, Register,
              ServerReads, Store, Broadcast, Drop
<1>5. ASSUME \/ Deselect \/ Lose \/ Reconnect \/ Opens \/ OnMessage
             \/ \E t \in Texts : SendText(t)
             \/ \E f \in Files : Upload(f) \/ UploadAnswered(f)
             \/ \E b \in Texts \cup Peers, ev \in {"MSG_EDIT", "MSG_DELETE"} : OwnChange(b, ev)
             \/ \E a \in answers : ChangeAnswered(a)
      PROVE  lists' = lists
  BY <1>5 DEF Deselect, Lose, Reconnect, Opens, OnMessage, SendText, Upload, UploadAnswered,
              OwnChange, Change, ChangeAnswered
<1>6. QED
  BY <1>1, <1>2, <1>3, <1>4, <1>5 DEF Next, Server, Tab, vars

LEMMA SnapsStep ==
    ASSUME TypeOK, LineInv, StoredOnce, SnapsOnce, [Next]_vars
    PROVE  SnapsOnce'
<1>1. ASSUME NEW r \in Rooms PROVE Shown(docs[r]) \subseteq Shown(docs'[r])
  BY DocsGrow DEF Grows
<1>2. ASSUME NEW l \in lists', l.snap # <<None>>
      PROVE  /\ OneBody(l.snap) /\ FreshIn(l.snap) = {}
             /\ Shown(l.snap) \subseteq Shown(docs'[l.room])
  <2>1. CASE l \in lists
    <3>1. l.room \in Rooms
      BY <2>1 DEF TypeOK, Calls
    <3>2. QED
      BY <1>1, <1>2, <2>1, <3>1 DEF SnapsOnce
  <2>2. CASE l.room \in Rooms /\ l.snap = History(l.room)
    BY <1>1, <2>2, HistoryFacts
  <2>3. QED
    BY <1>2, <2>1, <2>2, ListsStep
<1>3. QED
  BY <1>2 DEF SnapsOnce

ShowInv == StoredOnce /\ SnapsOnce /\ FreshPlace /\ ShownOncePerId

LEMMA ShowStart == Init => ShowInv
<1> SUFFICES ASSUME Init PROVE ShowInv
  OBVIOUS
<1>1. /\ unsaved = {} /\ outbox = {} /\ lists = {} /\ ws = 0
      /\ \A r \in Rooms : docs[r] = <<>> /\ messages[r] = <<>>
  BY DEF Init
<1>2. FreshIn(<<>>) = {} /\ FreshOnce(<<>>) /\ OneBody(<<>>) /\ NoTwice(<<>>) /\ Shown(<<>>) = {}
  BY ShownEmpty DEF FreshIn, FreshOnce, OneBody, NoTwice
<1>3. Inbound = <<>> /\ FreshOut = {} /\ \A r \in Rooms : Pending(r) = {}
  BY <1>1 DEF Inbound, FreshOut, Pending
<1>4. StoredOnce /\ SnapsOnce /\ FreshPlace /\ ShownOncePerId
  BY <1>1, <1>2, <1>3 DEF StoredOnce, SnapsOnce, FreshPlace, ShownOncePerId, NoTwice
<1>5. QED
  BY <1>4 DEF ShowInv

LEMMA ShowStep == TypeInv /\ SendInv /\ ShowInv /\ [Next]_vars => ShowInv'
<1> SUFFICES ASSUME TypeInv, TypeOK, TabInv, SendInv, LineInv, StoredOnce, SnapsOnce, FreshPlace,
                    ShownOncePerId, [Next]_vars
             PROVE  StoredOnce' /\ SnapsOnce' /\ FreshPlace' /\ ShownOncePerId'
  BY DEF TypeInv, SendInv, ShowInv
<1>1. StoredOnce' /\ SnapsOnce'
  BY StoredStep, SnapsStep
<1>2. FreshPlace' /\ ShownOncePerId'
  <2>1. CASE Server \/ Others
    <3>1. UNCHANGED messages
      BY <2>1 DEF Server, Others, Handler, FetchHistory, Register, ServerReads, Store, Broadcast,
                  Drop, ListAnswered, PeerText, PeerReply, PeerChange, Change
    <3>2. QED
      BY <2>1, <3>1, FreshServer DEF ShownOncePerId
  <2>2. CASE Tab
    BY <2>2, ShowTab
  <2>3. CASE UNCHANGED vars
    <3>1. UNCHANGED <<messages, outbox, uploads, conns, ws>>
      BY <2>3 DEF vars, tabVars, srvVars
    <3>2. Inbound' = Inbound
      BY <3>1 DEF Inbound
    <3>3. QED
      BY <3>1, <3>2, FreshStill DEF ShownOncePerId
  <2>4. QED
    BY <2>1, <2>2, <2>3 DEF Next
<1>3. QED
  BY <1>1, <1>2

\* addMessage, setMessages: however often the history comes again, over a new
\* connection or as a list, whatever is uploaded meanwhile, and though events come
\* twice, the store has a message at most once under each of its ids.  Only the
\* event of an upload, which has no id, is shown as often as it comes.
THEOREM ShownOnce == Spec => []ShownOncePerId
<1>1. ShowInv => ShownOncePerId
  BY DEF ShowInv
<1>2. QED
  BY <1>1, TypeStart, TypeStep, SendStart, SendStep, ShowStart, ShowStep, PTL DEF Spec

(***************************************************************************)
(* What a tab may lack.                                                    *)
(***************************************************************************)

\* New messages among what comes to the tab.
NewIn(s) == {s[i].body : i \in {j \in DOMAIN s : s[j].ev \in {"CHATLOG", "MSG"}}}

\* A message that is stored, or will be, is shown, on its way to the tab or excused.
Covered(r) ==
    Living(docs[r]) \cup Pending(r)
      \subseteq Shown(messages[r]) \cup excused \cup NewOut(r) \cup NewIn(Inbound)

CoverInv == \A r \in Rooms : Watching(r) => Covered(r)

LEMMA LivingAppend ==
    ASSUME NEW S, NEW s \in Seq(S), NEW d \in S
    PROVE  Living(Append(s, d)) \subseteq Living(s) \cup {d.body}
<1> DEFINE t == Append(s, d)
<1>1. /\ DOMAIN t = 1..(Len(s) + 1) /\ Len(s) \in Nat /\ DOMAIN s = 1..Len(s)
      /\ \A i \in 1..Len(s) : t[i] = s[i]
      /\ t[Len(s) + 1] = d
  BY AppendProperties, LenProperties
<1> HIDE DEF t
<1>2. \A i \in DOMAIN t : (i \in DOMAIN s /\ t[i] = s[i]) \/ t[i] = d
  BY <1>1
<1>3. Living(t) \subseteq Living(s) \cup {d.body}
  BY <1>2 DEF Living
<1>4. QED
  BY <1>3 DEF t

LEMMA NewAppend ==
    ASSUME NEW S, NEW s \in Seq(S), NEW d \in S
    PROVE  /\ NewIn(s) \subseteq NewIn(Append(s, d))
           /\ d.ev = "MSG" => d.body \in NewIn(Append(s, d))
<1> DEFINE t == Append(s, d)
<1>1. /\ DOMAIN t = 1..(Len(s) + 1) /\ Len(s) \in Nat /\ DOMAIN s = 1..Len(s)
      /\ \A i \in 1..Len(s) : t[i] = s[i]
      /\ t[Len(s) + 1] = d
  BY AppendProperties, LenProperties
<1> HIDE DEF t
<1>2. Len(s) + 1 \in DOMAIN t /\ \A i \in DOMAIN s : i \in DOMAIN t /\ t[i] = s[i]
  BY <1>1
<1>3. NewIn(s) \subseteq NewIn(t)
  BY <1>2 DEF NewIn
<1>4. d.ev = "MSG" => d.body \in NewIn(t)
  BY <1>1, <1>2 DEF NewIn
<1>5. QED
  BY <1>3, <1>4 DEF t

LEMMA NewTail ==
    ASSUME NEW S, NEW s \in Seq(S), s # <<>>
    PROVE  NewIn(s) \subseteq NewIn(Tail(s))
             \cup (IF Head(s).ev \in {"CHATLOG", "MSG"} THEN {Head(s).body} ELSE {})
<1> DEFINE t == Tail(s)
<1>1. /\ t \in Seq(S) /\ Len(t) = Len(s) - 1 /\ Len(s) \in Nat \ {0}
      /\ \A i \in 1..Len(t) : t[i] = s[i + 1]
      /\ Head(s) = s[1]
      /\ DOMAIN s = 1..Len(s) /\ DOMAIN t = 1..Len(t)
  BY HeadTailProperties, EmptySeq, LenProperties
<1> HIDE DEF t
<1>2. \A i \in DOMAIN s : i = 1 \/ (i - 1 \in DOMAIN t /\ t[i - 1] = s[i])
  BY <1>1
<1>3. \A i \in DOMAIN s : s[i].ev \in {"CHATLOG", "MSG"} =>
        s[i].body \in NewIn(t) \/ (s[1].ev \in {"CHATLOG", "MSG"} /\ s[i].body = s[1].body)
  BY <1>2 DEF NewIn
<1>4. QED
  BY <1>1, <1>3 DEF NewIn, t

\* A step that stores nothing new and loses nothing.
LEMMA CoverStay ==
    ASSUME CoverInv, NEW r \in Rooms, Watching(r)' => Watching(r),
           Living(docs'[r]) \subseteq Living(docs[r]), unsaved' \subseteq unsaved,
           Shown(messages[r]) \subseteq Shown(messages'[r]),
           excused \subseteq excused', outbox \subseteq outbox', Inbound' = Inbound
    PROVE  Watching(r)' => Covered(r)'
<1>1. Pending(r)' \subseteq Pending(r) /\ NewOut(r) \subseteq NewOut(r)'
  BY DEF Pending, NewOut
<1>2. QED
  BY <1>1 DEF CoverInv, Covered

LEMMA WatchSame ==
    ASSUME NEW r, UNCHANGED <<room, ws>>, ws # 0 => conns'[ws].phase = conns[ws].phase
    PROVE  Watching(r)' = Watching(r)
BY DEF Watching

\* RoomWebSocket sends what is stored; what it leaves out, or is not stored yet, is
\* shown already, still to be broadcast, or excused.
LEMMA CoverFetch ==
    ASSUME TypeOK, TabInv, CoverInv, NEW c \in DOMAIN conns, FetchHistory(c)
    PROVE  CoverInv'
<1> SUFFICES ASSUME NEW r \in Rooms PROVE Watching(r)' => Covered(r)'
  BY DEF CoverInv
<1>1. UNCHANGED <<tabVars, messages, docs, unsaved, outbox>>
  BY DEF FetchHistory, srvVars
<1>2. CASE ws = c
  <2> SUFFICES ASSUME room = r PROVE Covered(r)'
    BY <1>1 DEF Watching, tabVars
  <2>1. conns[c].room = r /\ ws # 0 /\ conns[c] \in Sockets
    BY <1>2, SocketAt DEF TabInv
  <2>2. PICK log \in {Log(r), <<>>} :
          /\ conns' = [conns EXCEPT ![c].phase = "fetched", ![c].down = log]
          /\ excused' = excused \cup
               ((Shown(Kept(r)) \cup {p.body : p \in {u \in unsaved : u.room = r}})
                  \ (Shown(log) \cup Shown(messages[r]) \cup NewOut(r)))
    BY <1>2, <2>1 DEF FetchHistory
  <2>3. conns'[c].down = log
    BY <2>1, <2>2 DEF Sockets
  <2>4. Inbound' = log
    BY <1>1, <1>2, <2>1, <2>3 DEF Inbound, tabVars
  <2>5. NewIn(log) = Shown(log)
    <3>1. NewIn(Log(r)) = Shown(Log(r))
      BY LogFacts DEF NewIn, Shown
    <3>2. NewIn(<<>>) = Shown(<<>>)
      BY DEF NewIn, Shown
    <3>3. QED
      BY <3>1, <3>2
  <2>6. Shown(Kept(r)) = Living(docs[r])
    BY KeptBodies
  <2>7. Pending(r) = {p.body : p \in {u \in unsaved : u.room = r}}
    BY DEF Pending
  <2>8. Living(docs[r]) \cup Pending(r)
          \subseteq Shown(messages[r]) \cup excused' \cup NewOut(r) \cup NewIn(log)
    BY <2>2, <2>5, <2>6, <2>7
  <2>9. Pending(r)' = Pending(r) /\ NewOut(r)' = NewOut(r)
    BY <1>1 DEF Pending, NewOut
  <2>10. QED
    BY <1>1, <2>4, <2>8, <2>9 DEF Covered
<1>3. CASE ws # c
  <2>1. ws # 0 => conns'[ws] = conns[ws]
    BY <1>3, TabSocket, FetchFacts
  <2>2. excused' = excused
    BY <1>3 DEF FetchHistory
  <2>3. Inbound' = Inbound /\ Watching(r)' = Watching(r)
    BY <1>1, <2>1, WatchSame DEF Inbound, tabVars
  <2>4. QED
    BY <1>1, <2>2, <2>3, CoverStay
<1>4. QED
  BY <1>2, <1>3

\* The hub hands a new message to the tab's connection if it lists it; when its
\* event is lost, the tab that watches the room is excused.
LEMMA CoverBroadcast ==
    ASSUME TypeOK, TabInv, StoredOnce, CoverInv, NEW e \in outbox, Broadcast(e) \/ Drop(e)
    PROVE  CoverInv'
<1> SUFFICES ASSUME NEW r \in Rooms, Watching(r)' PROVE Covered(r)'
  BY DEF CoverInv
<1>1. /\ outbox' = outbox \ {e} \/ outbox' = outbox
      /\ UNCHANGED <<tabVars, messages, docs, unsaved>>
      /\ ws # 0 => conns'[ws].phase = conns[ws].phase
  <2>1. CASE Broadcast(e)
    BY <2>1, BroadcastFacts, TabSocket
  <2>2. CASE Drop(e)
    BY <2>2 DEF Drop
  <2>3. QED
    BY <2>1, <2>2
<1>2. Watching(r) /\ Covered(r)
  BY <1>1, WatchSame DEF tabVars, CoverInv
<1>3. /\ Pending(r)' = Pending(r)
      /\ NewOut(r) \subseteq NewOut(r)' \cup (IF e.ev = "MSG" /\ e.room = r THEN {e.body} ELSE {})
  BY <1>1 DEF Pending, NewOut
<1>4. ASSUME e.body \in Living(docs[r]) \cup Pending(r) PROVE e.body \notin Files
  <2>1. e.body \in Home(r)
    BY <1>4 DEF StoredOnce, Living, Shown
  <2>2. QED
    BY <2>1, Bounds DEF Home
<1>5. CASE Broadcast(e)
  <2>1. /\ Down(e) \in Downs /\ Inbound \in Seq(Downs)
        /\ Inbound' = IF Listed(e.room) THEN Append(Inbound, Down(e)) ELSE Inbound
        /\ excused' = IF e.ev = "MSG" /\ ws # 0 /\ conns[ws].room = e.room
                           /\ conns[ws].phase = "fetched" /\ e.body \notin Files
                        THEN excused \cup {e.body} ELSE excused
    BY <1>5, BroadcastFacts, InboundType
  <2>2. Down(e).ev = e.ev /\ Down(e).body = e.body
    BY DEF Down
  <2>3. /\ NewIn(Inbound) \subseteq NewIn(Inbound')
        /\ Listed(e.room) /\ e.ev = "MSG" => e.body \in NewIn(Inbound')
    BY <2>1, <2>2, NewAppend
  <2>4. ASSUME e.ev = "MSG", e.room = r, e.body \in Living(docs[r]) \cup Pending(r)
        PROVE  e.body \in excused' \cup NewIn(Inbound')
    <3>1. ws # 0 /\ conns[ws].room = e.room
      BY <1>2, <2>4 DEF Watching, TabInv
    <3>2. CASE conns[ws].phase = "listed"
      BY <2>3, <2>4, <3>1, <3>2 DEF Listed
    <3>3. CASE conns[ws].phase = "fetched"
      BY <1>4, <2>1, <2>4, <3>1, <3>3
    <3>4. QED
      BY <1>2, <3>2, <3>3 DEF Watching
  <2>5. QED
    BY <1>1, <1>2, <1>3, <2>1, <2>3, <2>4 DEF Covered
<1>6. CASE Drop(e)
  <2>1. /\ excused' = IF e.ev = "MSG" THEN excused \cup Missing(e.body, e.room) ELSE excused
        /\ UNCHANGED conns
    BY <1>6 DEF Drop
  <2>2. Inbound' = Inbound
    BY <1>1, <2>1 DEF Inbound, tabVars
  <2>3. ASSUME e.ev = "MSG", e.room = r, e.body \in Living(docs[r]) \cup Pending(r)
        PROVE  e.body \in excused'
    BY <1>2, <1>4, <2>1, <2>3 DEF Missing
  <2>4. excused \subseteq excused'
    BY <2>1
  <2>5. QED
    BY <1>1, <1>2, <1>3, <2>2, <2>3, <2>4 DEF Covered
<1>7. QED
  BY <1>5, <1>6

\* A new message in room q comes with its event, or is missed.
LEMMA CoverNew ==
    ASSUME CoverInv, NEW q \in Rooms, NEW b,
           outbox \subseteq outbox', excused \subseteq excused',
           Watching(q)' => b \in NewOut(q)' \cup excused',
           \A r \in Rooms : Living(docs'[r]) \cup Pending(r)'
             \subseteq Living(docs[r]) \cup Pending(r) \cup (IF r = q THEN {b} ELSE {}),
           UNCHANGED messages, Inbound' = Inbound,
           \A r \in Rooms : Watching(r)' => Watching(r)
    PROVE  CoverInv'
<1> SUFFICES ASSUME NEW r \in Rooms, Watching(r)', Covered(r) PROVE Covered(r)'
  BY DEF CoverInv
<1>1. NewOut(r) \subseteq NewOut(r)'
  BY DEF NewOut
<1>2. Living(docs'[r]) \cup Pending(r)'
        \subseteq Living(docs[r]) \cup Pending(r) \cup (IF r = q THEN {b} ELSE {})
  OBVIOUS
<1>3. CASE r = q
  BY <1>1, <1>2, <1>3 DEF Covered
<1>4. CASE r # q
  BY <1>1, <1>2, <1>4 DEF Covered
<1>5. QED
  BY <1>3, <1>4

\* The event of a new message.
LEMMA EventNew ==
    ASSUME NEW q, NEW b, NEW id
    PROVE  outbox' = outbox \cup {MsgEvent(q, b, id)} => outbox \subseteq outbox' /\ b \in NewOut(q)'
BY DEF NewOut, MsgEvent

LEMMA PendingNew ==
    ASSUME NEW q, NEW b, unsaved' \subseteq unsaved \cup {[body |-> b, room |-> q]}
    PROVE  \A r : Pending(r)' \subseteq Pending(r) \cup (IF r = q THEN {b} ELSE {})
<1> DEFINE n == [body |-> b, room |-> q]
<1>1. n.body = b /\ n.room = q /\ unsaved' \subseteq unsaved \cup {n}
  OBVIOUS
<1> HIDE DEF n
<1>2. QED
  BY <1>1 DEF Pending

LEMMA CoverReads ==
    ASSUME TypeOK, CoverInv, NEW c \in DOMAIN conns, ServerReads(c)
    PROVE  CoverInv'
<1>1. PICK q, b : q = conns[c].room /\ b = Head(conns[c].up).body
  OBVIOUS
<1>2. /\ UNCHANGED <<tabVars, messages, docs>>
      /\ \/ /\ outbox' = outbox \cup {MsgEvent(q, b, "live")}
            /\ unsaved' \subseteq unsaved \cup {[body |-> b, room |-> q]}
            /\ UNCHANGED excused
         \/ UNCHANGED <<outbox, unsaved, excused>>
         \/ /\ UNCHANGED outbox
            /\ unsaved' = IF b \in Files THEN unsaved ELSE unsaved \cup {[body |-> b, room |-> q]}
            /\ conns' = [conns EXCEPT ![c].up = <<>>, ![c].phase = "gone"]
            /\ excused' = excused \cup (IF ws # c THEN Missing(b, q) ELSE {})
  BY <1>1, Zenon DEF ServerReads
<1>3. /\ conns[c] \in Sockets /\ q \in Rooms
      /\ ws # 0 => /\ conns'[ws].phase \in {conns[ws].phase, "gone"}
                   /\ conns'[ws].down = conns[ws].down
      /\ ws # 0 /\ ws # c => conns'[ws] = conns[ws]
  <2>1. ws # 0 => ws \in DOMAIN conns
    BY TabSocket
  <2>2. \A d \in DOMAIN conns : conns'[d].phase \in {conns[d].phase, "gone"}
    BY ReadFacts
  <2>3. QED
    BY <1>1, <2>1, <2>2, ReadFacts, SocketAt
<1>4. Inbound' = Inbound /\ \A r \in Rooms : Watching(r)' => Watching(r)
  BY <1>2, <1>3 DEF Inbound, Watching, tabVars
<1>5. CASE unsaved' = unsaved
  <2>1. outbox \subseteq outbox' /\ excused \subseteq excused'
    BY <1>2
  <2>2. QED
    BY <1>2, <1>4, <1>5, <2>1, CoverStay DEF CoverInv
<1>6. ASSUME unsaved' \subseteq unsaved \cup {[body |-> b, room |-> q]}
      PROVE  \A r \in Rooms : Living(docs'[r]) \cup Pending(r)'
               \subseteq Living(docs[r]) \cup Pending(r) \cup (IF r = q THEN {b} ELSE {})
  <2>1. docs' = docs
    BY <1>2
  <2>2. QED
    BY <1>6, <2>1, PendingNew
<1>7. CASE /\ outbox' = outbox \cup {MsgEvent(q, b, "live")} /\ UNCHANGED excused
           /\ unsaved' \subseteq unsaved \cup {[body |-> b, room |-> q]}
  <2>1. outbox \subseteq outbox' /\ b \in NewOut(q)'
    BY <1>7, EventNew
  <2>2. QED
    BY <1>2, <1>3, <1>4, <1>6, <1>7, <2>1, CoverNew
<1>8. CASE /\ b \notin Files /\ UNCHANGED outbox
           /\ unsaved' = unsaved \cup {[body |-> b, room |-> q]}
           /\ conns' = [conns EXCEPT ![c].up = <<>>, ![c].phase = "gone"]
           /\ excused' = excused \cup (IF ws # c THEN Missing(b, q) ELSE {})
  <2>1. ASSUME Watching(q)' PROVE b \in excused'
    <3>1. ws # c
      <4>1. conns'[c] = [conns[c] EXCEPT !.up = <<>>, !.phase = "gone"]
        <5>1. conns \in Seq(Sockets)
          BY DEF TypeOK
        <5>2. QED
          BY <1>8, <5>1
      <4>2. conns'[c].phase = "gone"
        BY <1>3, <4>1 DEF Sockets
      <4>3. QED
        BY <1>2, <2>1, <4>2 DEF Watching, tabVars
    <3>2. Watching(q)
      BY <1>3, <1>4, <2>1
    <3>3. QED
      BY <1>8, <3>1, <3>2 DEF Missing
  <2>2. excused \subseteq excused'
    BY <1>8
  <2>3. QED
    BY <1>2, <1>3, <1>4, <1>6, <1>8, <2>1, <2>2, CoverNew
<1>9. QED
  BY <1>2, <1>5, <1>7, <1>8

\* An insert worker: what is pending is stored, or given up.
LEMMA CoverStore ==
    ASSUME TypeOK, CoverInv, NEW u \in unsaved, Store(u)
    PROVE  CoverInv'
<1> SUFFICES ASSUME NEW r \in Rooms, Watching(r)' PROVE Covered(r)'
  BY DEF CoverInv
<1>1. /\ UNCHANGED <<tabVars, messages, conns, outbox, excused>> /\ unsaved' \subseteq unsaved
      /\ \/ docs' = [docs EXCEPT ![u.room] = Append(@, [body |-> u.body, state |-> 0])]
         \/ docs' = docs
  BY DEF Store
<1>2. u.room \in Rooms /\ u.body \in Bodies
  BY DEF TypeOK, Payloads
<1>3. Covered(r)
  BY <1>1 DEF CoverInv, Watching, tabVars
<1>4. /\ Inbound' = Inbound /\ NewOut(r)' = NewOut(r) /\ Pending(r)' \subseteq Pending(r)
      /\ u.room = r => u.body \in Pending(r)
  BY <1>1 DEF Inbound, NewOut, Pending, tabVars
<1>5. Living(docs'[r]) \subseteq Living(docs[r]) \cup Pending(r)
  <2>1. CASE docs'[r] = docs[r]
    BY <2>1
  <2>2. CASE docs'[r] # docs[r]
    <3> DEFINE d == [body |-> u.body, state |-> 0]
               old == docs[r]
    <3>1. u.room = r /\ docs'[r] = Append(old, d) /\ old \in Seq(Docs) /\ d \in Docs
            /\ d.body = u.body
      BY <1>1, <1>2, <2>2, Bounds DEF TypeOK, Docs
    <3> HIDE DEF d, old
    <3>2. Living(Append(old, d)) \subseteq Living(old) \cup {u.body}
      BY <3>1, LivingAppend
    <3>3. QED
      BY <1>4, <3>1, <3>2 DEF old
  <2>3. QED
    BY <2>1, <2>2
<1>6. QED
  BY <1>1, <1>3, <1>4, <1>5 DEF Covered

LEMMA CoverPeers ==
    ASSUME TypeOK, CoverInv, NEW b \in Peers, NEW q \in Rooms, PeerText(b, q) \/ PeerReply(b, q)
    PROVE  CoverInv'
<1>1. UNCHANGED <<tabVars, messages, conns>>
  BY DEF PeerText, PeerReply
<1>2. Inbound' = Inbound /\ \A r \in Rooms : Watching(r)' = Watching(r)
  BY <1>1 DEF Inbound, Watching, tabVars
<1>3. \A r \in Rooms : Living(docs'[r]) \cup Pending(r)'
        \subseteq Living(docs[r]) \cup Pending(r) \cup (IF r = q THEN {b} ELSE {})
  <2>1. CASE PeerText(b, q)
    BY <2>1, PendingNew DEF PeerText
  <2>2. CASE PeerReply(b, q)
    <3> DEFINE d == [body |-> b, state |-> 0]
               old == docs[q]
    <3>1. /\ docs'[q] = Append(old, d) /\ old \in Seq(Docs) /\ d \in Docs /\ d.body = b
          /\ \A r \in Rooms \ {q} : docs'[r] = docs[r]
      BY <2>2, Bounds DEF PeerReply, TypeOK, Docs
    <3> HIDE DEF d, old
    <3>2. Living(Append(old, d)) \subseteq Living(old) \cup {b}
      BY <3>1, LivingAppend
    <3>3. \A r \in Rooms : Pending(r)' = Pending(r)
      BY <2>2 DEF PeerReply, Pending
    <3>4. QED
      BY <3>1, <3>2, <3>3 DEF old
  <2>3. QED
    BY <2>1, <2>2
<1>4. \/ outbox' = outbox \cup {MsgEvent(q, b, "live")} /\ UNCHANGED excused
      \/ outbox' = outbox \cup {MsgEvent(q, b, "doc")} /\ UNCHANGED excused
      \/ UNCHANGED outbox /\ excused' = excused \cup Missing(b, q)
  BY DEF PeerText, PeerReply
<1>5. outbox \subseteq outbox' /\ excused \subseteq excused'
  BY <1>4
<1>6. ASSUME Watching(q)' PROVE b \in NewOut(q)' \cup excused'
  <2>1. Watching(q) /\ b \notin Files
    BY <1>2, <1>6, Bounds
  <2>2. b \in Missing(b, q)
    BY <2>1 DEF Missing
  <2>3. QED
    BY <1>4, <2>2, EventNew
<1>7. QED
  BY <1>1, <1>2, <1>3, <1>5, <1>6, CoverNew

\* A change revives no document.
LEMMA CoverChange ==
    ASSUME TypeOK, StoredOnce, CoverInv, NEW q \in Rooms, NEW b,
           NEW ev \in {"MSG_EDIT", "MSG_DELETE"}, Change(q, b, ev)
    PROVE  CoverInv'
<1>1. /\ UNCHANGED <<tabVars, messages, conns, excused, unsaved>> /\ outbox \subseteq outbox'
      /\ b \in Stored(q) /\ StateOf(q, b) # Deleted
  BY DEF Change
<1>2. /\ \A r \in Rooms : DOMAIN docs'[r] = DOMAIN docs[r]
      /\ \A r \in Rooms : \A i \in DOMAIN docs[r] :
           /\ docs'[r][i].body = docs[r][i].body
           /\ r # q \/ docs[r][i].body # b => docs'[r][i].state = docs[r][i].state
  BY ChangeFacts
<1>3. \A i \in DOMAIN docs[q] : docs[q][i].body = b => docs[q][i].state # Deleted
  <2>1. \A i, j \in DOMAIN docs[q] : docs[q][i].body = b /\ docs[q][j].body = b => i = j
    BY DEF StoredOnce, OneBody
  <2>2. QED
    BY <1>1, <2>1 DEF StateOf
<1>4. \A r \in Rooms : Living(docs'[r]) \subseteq Living(docs[r])
  BY <1>2, <1>3 DEF Living
<1>5. Inbound' = Inbound /\ \A r \in Rooms : Watching(r)' = Watching(r)
  BY <1>1 DEF Inbound, Watching, tabVars
<1>6. QED
  BY <1>1, <1>4, <1>5, CoverStay DEF CoverInv

LEMMA CoverOnMessage ==
    ASSUME TypeOK, TabInv, CoverInv, OnMessage
    PROVE  CoverInv'
<1> SUFFICES ASSUME NEW r \in Rooms, Watching(r)' PROVE Covered(r)'
  BY DEF CoverInv
<1> DEFINE e == Head(conns[ws].down)
           x == [body |-> e.body, id |-> e.id, state |-> e.state]
           old == messages[room]
           new == IF e.ev \in {"CHATLOG", "MSG"} THEN AddMessage(old, x)
                  ELSE ChangeMessage(old, e.body, e.id, e.state)
           F == IF e.ev \in {"CHATLOG", "MSG"} THEN {e.body} ELSE {}
<1>1. /\ UNCHANGED <<tabVars, srvVars, excused>> /\ Receive(e, room)
      /\ Inbound = conns[ws].down /\ Inbound # <<>>
  BY DEF OnMessage, TabInv, Inbound
<1>2. /\ ws \in DOMAIN conns /\ room \in Rooms /\ e \in Downs
      /\ conns'[ws].down = Tail(conns[ws].down) /\ conns'[ws].phase = conns[ws].phase
  BY OnMessageFacts
<1>3. /\ Inbound' = Tail(Inbound) /\ Inbound \in Seq(Downs) /\ Head(Inbound) = e
      /\ Watching(r) /\ room = r
  BY <1>1, <1>2, InboundType DEF Inbound, tabVars, OnMessage, TabInv, Watching
<1>4. NewIn(Inbound) \subseteq NewIn(Inbound') \cup F
  <2> HIDE DEF e
  <2>1. NewIn(Inbound) \subseteq NewIn(Tail(Inbound))
             \cup (IF Head(Inbound).ev \in {"CHATLOG", "MSG"} THEN {Head(Inbound).body} ELSE {})
    BY <1>1, <1>3, NewTail
  <2>2. QED
    BY <1>3, <2>1
<1> HIDE DEF e
<1>5. messages' = [messages EXCEPT ![room] = new]
  BY <1>1 DEF Receive
<1>6. x \in Entries /\ old \in Seq(Entries) /\ e.state \in States /\ x.body = e.body
  BY <1>2 DEF Downs, Entries, TypeOK
<1> HIDE DEF x, old
<1>7. Shown(new) = Shown(old) \cup F
  <2>1. Shown(AddMessage(old, x)) = Shown(old) \cup {x.body}
    BY <1>6, AddFacts
  <2>2. Shown(ChangeMessage(old, e.body, e.id, e.state)) = Shown(old)
    BY <1>6, ChangeKeeps
  <2>3. QED
    BY <1>6, <2>1, <2>2
<1> HIDE DEF new, F
<1>8. Shown(messages'[r]) = Shown(messages[r]) \cup F
  BY <1>2, <1>3, <1>5, <1>7 DEF TypeOK, old
<1>9. Covered(r) /\ Pending(r)' = Pending(r) /\ NewOut(r)' = NewOut(r)
  BY <1>1, <1>3 DEF CoverInv, Pending, NewOut, srvVars
<1>10. QED
  BY <1>1, <1>4, <1>8, <1>9 DEF Covered, srvVars

\* setMessages: what the list lacks and the tab has shown is excused; what another
\* room's list has is not of this room.
LEMMA CoverArrives ==
    ASSUME TypeOK, LineInv, StoredOnce, SnapsOnce, CoverInv, NEW l \in lists, ListArrives(l)
    PROVE  CoverInv'
<1> SUFFICES ASSUME NEW r \in Rooms, Watching(r)' PROVE Covered(r)'
  BY DEF CoverInv
<1>1. UNCHANGED <<tabVars, srvVars, conns>> /\ l.room \in Rooms
  BY DEF ListArrives, TypeOK, Calls
<1>2. /\ Covered(r) /\ Inbound' = Inbound /\ Pending(r)' = Pending(r) /\ NewOut(r)' = NewOut(r)
      /\ docs' = docs
  BY <1>1 DEF CoverInv, Watching, Inbound, Pending, NewOut, tabVars, srvVars
<1>3. CASE UNCHANGED <<messages, excused>>
  BY <1>2, <1>3 DEF Covered
<1>4. CASE /\ l.snap # <<None>> /\ messages' = [messages EXCEPT ![l.room] = l.snap]
           /\ excused' = (excused \cup Shown(messages[l.room])) \ (Shown(l.snap) \cup Files)
  <2>1. \A b \in Living(docs[r]) \cup Pending(r) : b \in Home(r) /\ b \notin Files
    <3>1. Living(docs[r]) \cup Pending(r) \subseteq Home(r)
      BY DEF StoredOnce, Living, Shown
    <3>2. QED
      BY <3>1, Bounds DEF Home
  <2>2. CASE r = l.room
    <3>1. messages'[r] = l.snap
      BY <1>1, <1>4, <2>2 DEF TypeOK
    <3>2. QED
      BY <1>2, <1>4, <2>1, <2>2, <3>1 DEF Covered
  <2>3. CASE r # l.room
    <3>1. messages'[r] = messages[r]
      BY <1>1, <1>4, <2>3 DEF TypeOK
    <3>2. Shown(l.snap) \subseteq Home(l.room)
      BY <1>1, <1>4 DEF SnapsOnce, StoredOnce
    <3>3. Home(r) \cap Home(l.room) = {}
      BY <1>1, <2>3, HomesApart
    <3>4. QED
      BY <1>2, <1>4, <2>1, <3>1, <3>2, <3>3 DEF Covered
  <2>4. QED
    BY <2>2, <2>3
<1>5. QED
  BY <1>3, <1>4 DEF ListArrives

LEMMA CoverServer ==
    ASSUME TypeOK, TabInv, StoredOnce, CoverInv, Server
    PROVE  CoverInv'
<1>1. ASSUME NEW c \in DOMAIN conns, Register(c) PROVE CoverInv'
  <2>1. UNCHANGED <<tabVars, messages, docs, unsaved, outbox, excused>>
    BY <1>1 DEF Register, srvVars
  <2>2. /\ \A d \in DOMAIN conns : conns'[d].down = conns[d].down
        /\ \A d \in DOMAIN conns \ {c} : conns'[d].phase = conns[d].phase
        /\ conns[c].phase = "fetched"
    BY <1>1, RegisterFacts
  <2>3. Inbound' = Inbound /\ \A r \in Rooms : Watching(r)' => Watching(r)
    BY <2>1, <2>2, TabSocket DEF Inbound, Watching, tabVars
  <2>4. QED
    BY <2>1, <2>3, CoverStay DEF CoverInv
<1>2. ASSUME NEW l \in lists, ListAnswered(l) PROVE CoverInv'
  <2>1. UNCHANGED <<tabVars, messages, docs, unsaved, outbox, excused, conns>>
    BY <1>2 DEF ListAnswered, srvVars
  <2>2. Inbound' = Inbound /\ \A r \in Rooms : Watching(r)' = Watching(r)
    BY <2>1 DEF Inbound, Watching, tabVars
  <2>3. QED
    BY <2>1, <2>2, CoverStay DEF CoverInv
<1>3. QED
  BY <1>1, <1>2, CoverFetch, CoverReads, CoverStore, CoverBroadcast DEF Server, Handler

\* A tab whose connection is new, or gone, watches nothing.
LEMMA CoverTab ==
    ASSUME TypeOK, TabInv, LineInv, StoredOnce, SnapsOnce, CoverInv, Tab
    PROVE  CoverInv'
<1>1. ASSUME NEW r \in Rooms, Select(r) PROVE CoverInv'
  <2>1. Connect(Detached, r)
    BY <1>1 DEF Select
  <2>2. conns'[ws'].phase = "requested"
    BY <2>1, DetachedType, ConnectFacts
  <2>3. QED
    BY <2>2 DEF CoverInv, Watching
<1>2. CASE Deselect \/ Lose
  <2>1. ws' = 0
    BY <1>2 DEF Deselect, Lose
  <2>2. QED
    BY <2>1 DEF CoverInv, Watching
<1>3. CASE Reconnect
  <2>1. Connect(conns, room) /\ room \in Rooms /\ conns \in Seq(Sockets)
    BY <1>3 DEF Reconnect, TabInv, TypeOK
  <2>2. conns'[ws'].phase = "requested"
    BY <2>1, ConnectFacts
  <2>3. QED
    BY <2>2 DEF CoverInv, Watching
<1>4. ASSUME \/ Opens
             \/ \E t \in Texts : SendText(t)
             \/ \E f \in Files : UploadAnswered(f)
      PROVE  CoverInv'
  <2>1. UNCHANGED <<room, ws, messages, docs, unsaved, outbox, excused>>
    BY <1>4 DEF Opens, SendText, UploadAnswered, tabVars, srvVars
  <2>2. \A c \in DOMAIN conns : conns'[c].down = conns[c].down /\ conns'[c].phase = conns[c].phase
    BY <1>4, OpensFacts, TabSends
  <2>3. Inbound' = Inbound /\ \A r \in Rooms : Watching(r)' = Watching(r)
    BY <2>1, <2>2, TabSocket, WatchSame DEF Inbound
  <2>4. QED
    BY <2>1, <2>3, CoverStay DEF CoverInv
<1>5. ASSUME NEW f \in Files, Upload(f) PROVE CoverInv'
  <2>1. UNCHANGED <<tabVars, messages, docs, unsaved, excused, conns>> /\ outbox \subseteq outbox'
    BY <1>5 DEF Upload
  <2>2. Inbound' = Inbound /\ \A r \in Rooms : Watching(r)' = Watching(r)
    BY <2>1 DEF Inbound, Watching, tabVars
  <2>3. QED
    BY <2>1, <2>2, CoverStay DEF CoverInv
<1>6. ASSUME NEW b, NEW ev \in {"MSG_EDIT", "MSG_DELETE"}, OwnChange(b, ev) PROVE CoverInv'
  <2>1. room \in Rooms /\ Change(room, b, ev)
    BY <1>6 DEF OwnChange, TypeOK
  <2>2. QED
    BY <2>1, CoverChange
<1>7. ASSUME NEW a \in answers, ChangeAnswered(a) PROVE CoverInv'
  <2> DEFINE new == ChangeMessage(messages[a.room], a.body, "doc", a.state)
  <2>1. /\ messages' = [messages EXCEPT ![a.room] = new]
        /\ UNCHANGED <<tabVars, docs, unsaved, outbox, excused, conns>>
    BY <1>7 DEF ChangeAnswered, srvVars
  <2>2. a.room \in Rooms /\ a.state \in States /\ messages[a.room] \in Seq(Entries)
    BY DEF TypeOK
  <2>3. Shown(new) = Shown(messages[a.room])
    BY <2>2, ChangeKeeps
  <2> HIDE DEF new
  <2>4. \A r \in Rooms : Shown(messages'[r]) = Shown(messages[r])
    BY <2>1, <2>2, <2>3 DEF TypeOK
  <2>5. Inbound' = Inbound /\ \A r \in Rooms : Watching(r)' = Watching(r)
    BY <2>1 DEF Inbound, Watching, tabVars
  <2>6. QED
    BY <2>1, <2>4, <2>5, CoverStay DEF CoverInv
<1>8. QED
  BY <1>1, <1>2, <1>3, <1>4, <1>5, <1>6, <1>7, CoverOnMessage, CoverArrives DEF Tab

LEMMA CoverStart == Init => CoverInv
BY DEF Init, CoverInv, Watching

LEMMA CoverStep == TypeInv /\ SendInv /\ ShowInv /\ CoverInv /\ [Next]_vars => CoverInv'
<1> SUFFICES ASSUME TypeOK, TabInv, LineInv, StoredOnce, SnapsOnce, CoverInv, [Next]_vars
             PROVE  CoverInv'
  BY DEF TypeInv, SendInv, ShowInv
<1>1. CASE Server
  BY <1>1, CoverServer
<1>2. CASE Others
  BY <1>2, CoverPeers, CoverChange DEF Others, PeerChange
<1>3. CASE Tab
  BY <1>3, CoverTab
<1>4. CASE UNCHANGED vars
  <2>1. UNCHANGED <<tabVars, messages, docs, unsaved, outbox, excused, conns>>
    BY <1>4 DEF vars, srvVars
  <2>2. Inbound' = Inbound /\ \A r \in Rooms : Watching(r)' = Watching(r)
    BY <2>1 DEF Inbound, Watching, tabVars
  <2>3. QED
    BY <2>1, <2>2, CoverStay DEF CoverInv
<1>5. QED
  BY <1>1, <1>2, <1>3, <1>4 DEF Next

\* When nothing is under way, nothing else covers a message than the store, or a
\* reason to lack it.
LEMMA CoverSettled == TypeInv /\ CoverInv => MissingNeedsCause
<1> SUFFICES ASSUME TypeOK, TabInv, CoverInv, NEW r \in Rooms, Settled(r)
             PROVE  Shown(Kept(r)) \subseteq excused \cup Shown(messages[r])
  BY DEF TypeInv, MissingNeedsCause
<1>1. Watching(r) /\ Inbound = <<>> /\ NewOut(r) = {}
  BY DEF Settled, Watching, Inbound, NewOut, TabInv
<1>2. NewIn(<<>>) = {}
  BY DEF NewIn
<1>3. Living(docs[r]) \subseteq Shown(messages[r]) \cup excused
  BY <1>1, <1>2 DEF CoverInv, Covered
<1>4. QED
  BY <1>3, KeptBodies

\* The history over the WebSocket, the list of messages and the live events
\* together: a tab that has settled in a room shows every message the room keeps,
\* unless it was overwritten by setMessages; or was left out of the history, beyond
\* its limit or because the query failed; or was broadcast while the tab was not
\* registered and stored after its history was read; or its event never came to the
\* tab's hub (readPump returned or a handler gave up, the hub was gone or stopped
\* before it took the event, or Redis did not bring it to a hub that hears).
THEOREM MissingHasCause == Spec => []MissingNeedsCause
<1>1. QED
  BY TypeStart, TypeStep, SendStart, SendStep, ShowStart, ShowStep, CoverStart, CoverStep,
     CoverSettled, PTL DEF Spec

(***************************************************************************)
(* What the tab is told of a message: it has a document, no state is ahead *)
(* of the document's, and a deleted one stays deleted.                     *)
(***************************************************************************)
IsChange(e) == e.ev \in {"MSG_EDIT", "MSG_DELETE"}

KnownIn(d, b, s) ==
    /\ b \in Shown(d)
    /\ s # 0 => StateIn(d, b) # 0
    /\ s = Deleted => StateIn(d, b) = Deleted

AllKnown(d, ss) == \A i \in DOMAIN ss : ss[i].id = "doc" => KnownIn(d, ss[i].body, ss[i].state)

DocChanges(ss) == \A i \in DOMAIN ss : IsChange(ss[i]) => ss[i].id = "doc"

KnownOut ==
    \A e \in outbox : /\ e.ev = "MSG" => e.state = 0
                      /\ IsChange(e) => e.id = "doc"
                      /\ e.id = "doc" => KnownIn(docs[e.room], e.body, e.state)

\* Nothing comes before the history.
KnownLine ==
    /\ DocChanges(Inbound)
    /\ ws # 0 => AllKnown(docs[room], Inbound)
    /\ ws # 0 /\ conns[ws].phase = "requested" => Inbound = <<>>

KnownShown   == \A r \in Rooms : AllKnown(docs[r], messages[r])
KnownSnaps   == \A l \in lists : l.snap # <<None>> => AllKnown(docs[l.room], l.snap)
KnownAnswers == \A a \in answers : KnownIn(docs[a.room], a.body, a.state)

KnownInv == KnownOut /\ KnownLine /\ KnownShown /\ KnownSnaps /\ KnownAnswers

LEMMA KnownStays ==
    ASSUME NEW d, NEW e, Grows(d, e)
    PROVE  /\ \A b, s : KnownIn(d, b, s) => KnownIn(e, b, s)
           /\ \A ss : AllKnown(d, ss) => AllKnown(e, ss)
<1>1. \A b, s : KnownIn(d, b, s) => KnownIn(e, b, s)
  BY Bounds DEF Grows, KnownIn
<1>2. QED
  BY <1>1 DEF AllKnown

\* The state of a document is known, and so is that of a new one.
LEMMA KnownNow ==
    ASSUME NEW d, NEW b \in Shown(d)
    PROVE  KnownIn(d, b, StateIn(d, b)) /\ KnownIn(d, b, 0)
BY Bounds DEF KnownIn

\* The history has the states of the documents.
LEMMA HistoryStates ==
    ASSUME TypeOK, StoredOnce, NEW r \in Rooms
    PROVE  /\ \A i \in DOMAIN History(r) :
                /\ History(r)[i].body \in Shown(docs[r])
                /\ History(r)[i].state = StateIn(docs[r], History(r)[i].body)
           /\ AllKnown(docs[r], History(r)) /\ AllKnown(docs[r], Log(r))
<1> DEFINE d == docs[r]
           k == Kept(r)
           h == History(r)
           g == Log(r)
           n == IF Len(k) < HistoryLimit THEN Len(k) ELSE HistoryLimit
<1>1. d \in Seq(Docs) /\ OneBody(d) /\ k \in Seq(Docs)
  BY HistoryType DEF TypeOK, StoredOnce
<1>2. \A i \in 1..Len(k) : \E j \in 1..Len(d) : k[i] = d[j]
  <2> DEFINE K == [body : Bodies, state : States \ {Deleted}]
  <2>1. k = OnlyIn(d, K)
    BY DEF Kept
  <2> HIDE DEF K, k, d
  <2>2. QED
    BY <1>1, <2>1, OnlyInFrom
<1>3. n \in Nat /\ n <= Len(k) /\ DOMAIN k = 1..Len(k) /\ DOMAIN d = 1..Len(d)
  BY <1>1, Bounds
<1>4. h = [i \in 1..n |-> [body |-> k[i].body, id |-> "doc", state |-> k[i].state]]
  BY DEF History
<1>5. g = [i \in DOMAIN h |->
             [ev |-> "CHATLOG", body |-> h[i].body, id |-> "doc", state |-> h[i].state]]
  BY DEF Log
<1> HIDE DEF d, k, h, g, n
<1>6. /\ DOMAIN h = 1..n /\ \A i \in 1..n : h[i].body = k[i].body /\ h[i].state = k[i].state
      /\ DOMAIN g = 1..n /\ \A i \in 1..n : g[i].body = h[i].body /\ g[i].state = h[i].state
  BY <1>4, <1>5
<1>7. ASSUME NEW i \in DOMAIN h
      PROVE  h[i].body \in Shown(d) /\ h[i].state = StateIn(d, h[i].body)
  <2>1. i \in 1..Len(k) /\ h[i].body = k[i].body /\ h[i].state = k[i].state
    BY <1>3, <1>6
  <2>2. PICK j \in DOMAIN d : k[i] = d[j]
    BY <1>2, <1>3, <2>1
  <2>3. StateIn(d, d[j].body) = d[j].state
    BY <1>1, StateAt
  <2>4. QED
    BY <2>1, <2>2, <2>3 DEF Shown
<1>8. AllKnown(d, h) /\ AllKnown(d, g)
  BY <1>6, <1>7, KnownNow DEF AllKnown
<1>9. QED
  BY <1>7, <1>8 DEF d, h, g

\* A list that grows, shrinks or is changed.
LEMMA KnownAppend ==
    ASSUME NEW d, NEW S, NEW ss \in Seq(S), NEW e \in S, AllKnown(d, ss),
           e.id = "doc" => KnownIn(d, e.body, e.state)
    PROVE  AllKnown(d, Append(ss, e))
<1> DEFINE t == Append(ss, e)
<1>1. \A i \in DOMAIN t : (i \in DOMAIN ss /\ t[i] = ss[i]) \/ t[i] = e
  BY AppendProperties, LenProperties
<1> HIDE DEF t
<1>2. AllKnown(d, t)
  BY <1>1 DEF AllKnown
<1>3. QED
  BY <1>2 DEF t

LEMMA KnownChange ==
    ASSUME NEW d, NEW list \in Seq(Entries), NEW b, NEW s \in States, AllKnown(d, list),
           KnownIn(d, b, s)
    PROVE  AllKnown(d, ChangeMessage(list, b, "doc", s))
<1> DEFINE new == ChangeMessage(list, b, "doc", s)
<1>1. /\ DOMAIN new = DOMAIN list
      /\ \A i \in DOMAIN list : new[i].body = list[i].body /\ new[i].id = list[i].id
  BY ChangeType
<1>2. ASSUME NEW i \in DOMAIN list
      PROVE  new[i].state = list[i].state \/ (new[i].body = b /\ new[i].state = s)
  <2>1. list[i] \in Entries
    OBVIOUS
  <2>2. \/ new[i] = list[i]
        \/ list[i].body = b /\ new[i] = [list[i] EXCEPT !.state = s]
    BY DEF ChangeMessage
  <2> HIDE DEF new
  <2>3. QED
    BY <2>1, <2>2 DEF Entries
<1> HIDE DEF new
<1>3. AllKnown(d, new)
  BY <1>1, <1>2 DEF AllKnown
<1>4. QED
  BY <1>3 DEF new

\* What comes to the tab stays as it is ...
LEMMA LineKept ==
    ASSUME TypeOK, TabInv,
           \/ \E c \in DOMAIN conns : Register(c) \/ ServerReads(c) \/ (ws # c /\ FetchHistory(c))
           \/ \E u \in unsaved : Store(u)
           \/ \E e \in outbox : Drop(e)
           \/ \E l \in lists : ListAnswered(l) \/ ListArrives(l)
           \/ Others \/ Opens
           \/ \E t \in Texts : SendText(t)
           \/ \E f \in Files : Upload(f) \/ UploadAnswered(f)
           \/ \E b \in Texts \cup Peers, ev \in {"MSG_EDIT", "MSG_DELETE"} : OwnChange(b, ev)
           \/ \E a \in answers : ChangeAnswered(a)
           \/ UNCHANGED vars
    PROVE  /\ UNCHANGED <<room, ws>> /\ Inbound' = Inbound
           /\ ws # 0 /\ conns'[ws].phase = "requested" => conns[ws].phase = "requested"
<1>1. ASSUME UNCHANGED <<room, ws, conns>>
      PROVE  /\ UNCHANGED <<room, ws>> /\ Inbound' = Inbound
             /\ ws # 0 /\ conns'[ws].phase = "requested" => conns[ws].phase = "requested"
  BY <1>1 DEF Inbound
<1>2. ASSUME NEW c \in DOMAIN conns, UNCHANGED <<room, ws>>,
             \A d \in DOMAIN conns : d = ws => /\ conns'[d].down = conns[d].down
                                               /\ conns'[d].phase # "requested"
                                                    \/ conns'[d].phase = conns[d].phase
      PROVE  /\ UNCHANGED <<room, ws>> /\ Inbound' = Inbound
             /\ ws # 0 /\ conns'[ws].phase = "requested" => conns[ws].phase = "requested"
  BY <1>2, TabSocket DEF Inbound
<1>3. ASSUME NEW c \in DOMAIN conns, Register(c) \/ ServerReads(c) \/ (ws # c /\ FetchHistory(c))
      PROVE  /\ UNCHANGED <<room, ws>> /\ Inbound' = Inbound
             /\ ws # 0 /\ conns'[ws].phase = "requested" => conns[ws].phase = "requested"
  <2>1. UNCHANGED <<room, ws>>
    BY <1>3 DEF Register, ServerReads, FetchHistory, tabVars
  <2>2. CASE Register(c)
    <3>1. conns'[c].phase = "listed"
      <4>1. conns[c] \in Sockets /\ conns' = [conns EXCEPT ![c].phase = "listed"]
        BY <2>2, SocketAt DEF Register
      <4>2. conns'[c] = [conns[c] EXCEPT !.phase = "listed"]
        BY <4>1
      <4>3. QED
        BY <4>1, <4>2 DEF Sockets
    <3>2. QED
      BY <1>2, <2>1, <2>2, <3>1, RegisterFacts
  <2>3. CASE ServerReads(c)
    BY <1>2, <2>1, <2>3, ReadFacts
  <2>4. CASE ws # c /\ FetchHistory(c)
    BY <1>2, <2>1, <2>4, FetchFacts
  <2>5. QED
    BY <1>3, <2>2, <2>3, <2>4
<1>4. ASSUME \/ Opens
             \/ \E t \in Texts : SendText(t)
             \/ \E f \in Files : UploadAnswered(f)
      PROVE  /\ UNCHANGED <<room, ws>> /\ Inbound' = Inbound
             /\ ws # 0 /\ conns'[ws].phase = "requested" => conns[ws].phase = "requested"
  <2>1. UNCHANGED <<room, ws>>
    BY <1>4 DEF Opens, SendText, UploadAnswered, tabVars
  <2>2. \A d \in DOMAIN conns : conns'[d].down = conns[d].down /\ conns'[d].phase = conns[d].phase
    BY <1>4, OpensFacts, TabSends
  <2>3. QED
    BY <2>1, <2>2, TabSocket DEF Inbound
<1>5. ASSUME \/ \E u \in unsaved : Store(u)
             \/ \E e \in outbox : Drop(e)
             \/ \E l \in lists : ListAnswered(l) \/ ListArrives(l)
             \/ Others
             \/ \E f \in Files : Upload(f)
             \/ \E b \in Texts \cup Peers, ev \in {"MSG_EDIT", "MSG_DELETE"} : OwnChange(b, ev)
             \/ \E a \in answers : ChangeAnswered(a)
             \/ UNCHANGED vars
      PROVE  UNCHANGED <<room, ws, conns>>
  BY <1>5 DEF Store, Drop, ListAnswered, ListArrives, Others, PeerText, PeerReply, PeerChange,
              Change, Upload, OwnChange, ChangeAnswered, vars, tabVars
<1>6. QED
  BY <1>1, <1>3, <1>4, <1>5

\* ... or is lost with the connection ...
LEMMA LineLost ==
    ASSUME TypeOK, TabInv, (\E r \in Rooms : Select(r)) \/ Deselect \/ Lose \/ Reconnect
    PROVE  Inbound' = <<>> /\ (Reconnect => Inbound = <<>>)
<1>1. ASSUME NEW r \in Rooms, NEW cs \in Seq(Sockets), Connect(cs, r) PROVE Inbound' = <<>>
  BY <1>1, ConnectFacts DEF Inbound
<1>2. ASSUME NEW r \in Rooms, Select(r) PROVE Inbound' = <<>>
  BY <1>1, <1>2, DetachedType DEF Select
<1>3. ASSUME Deselect \/ Lose PROVE Inbound' = <<>>
  <2>1. ws' = 0
    BY <1>3 DEF Deselect, Lose
  <2>2. QED
    BY <2>1 DEF Inbound
<1>4. CASE Reconnect
  <2>1. Connect(conns, room) /\ room \in Rooms /\ conns \in Seq(Sockets) /\ ws = 0
    BY <1>4 DEF Reconnect, TabInv, TypeOK
  <2>2. QED
    BY <1>1, <2>1 DEF Inbound
<1>5. ASSUME Reconnect PROVE Inbound = <<>>
  BY <1>5 DEF Reconnect, TabInv, Inbound
<1>6. QED
  BY <1>2, <1>3, <1>4, <1>5

\* ... or the history comes first ...
LEMMA LineFetched ==
    ASSUME TypeOK, TabInv, KnownLine, NEW c \in DOMAIN conns, FetchHistory(c), ws = c
    PROVE  /\ UNCHANGED <<room, ws>> /\ ws # 0 /\ room \in Rooms
           /\ Inbound = <<>> /\ Inbound' \in {Log(room), <<>>} /\ conns'[ws].phase = "fetched"
<1>1. UNCHANGED <<room, ws>> /\ conns[c].phase = "requested" /\ c # 0
  <2>1. c # 0
    BY SocketAt
  <2>2. QED
    BY <2>1 DEF FetchHistory, tabVars
<1>2. conns[c].room \in Rooms /\ room = conns[c].room
  BY <1>1, SocketAt DEF TabInv
<1>3. QED
  BY <1>1, <1>2, FetchFacts DEF Inbound, KnownLine

\* ... or an event goes on its way to the tab, or comes to it.
LEMMA LineBroadcast ==
    ASSUME TypeOK, TabInv, NEW e \in outbox, Broadcast(e)
    PROVE  /\ UNCHANGED <<room, ws>> /\ Inbound \in Seq(Downs) /\ Down(e) \in Downs
           /\ IF Listed(e.room) THEN e.room = room /\ Inbound' = Append(Inbound, Down(e))
              ELSE Inbound' = Inbound
           /\ ws # 0 => conns'[ws].phase = conns[ws].phase
           /\ Listed(e.room) => ws # 0 /\ conns[ws].phase = "listed"
BY BroadcastFacts, InboundType, TabSocket DEF Listed, TabInv, tabVars

LEMMA LineReceived ==
    ASSUME TypeOK, TabInv, OnMessage
    PROVE  /\ UNCHANGED <<room, ws>> /\ room \in Rooms /\ ws # 0
           /\ Inbound \in Seq(Downs) /\ Inbound # <<>> /\ Head(Inbound) \in Downs
           /\ Inbound' = Tail(Inbound) /\ Receive(Head(Inbound), room)
           /\ conns'[ws].phase = conns[ws].phase
<1>1. UNCHANGED <<room, ws>> /\ ws # 0 /\ Receive(Head(conns[ws].down), room)
  BY DEF OnMessage, TabInv, tabVars
<1>2. QED
  BY <1>1, OnMessageFacts, InboundType DEF Inbound

\* The first of a sequence and the others.
LEMMA HeadTail ==
    ASSUME NEW S, NEW s \in Seq(S), s # <<>>
    PROVE  /\ Len(s) \in Nat /\ DOMAIN s = 1..Len(s) /\ 1 \in DOMAIN s /\ Head(s) = s[1]
           /\ \A i \in DOMAIN Tail(s) : i + 1 \in DOMAIN s /\ i + 1 > 1 /\ Tail(s)[i] = s[i + 1]
           /\ \A i \in DOMAIN s : i > 1 => i - 1 \in DOMAIN Tail(s) /\ Tail(s)[i - 1] = s[i]
           /\ DOMAIN Tail(s) \subseteq Nat
<1>1. /\ Len(s) \in Nat /\ Len(s) # 0 /\ Len(Tail(s)) = Len(s) - 1 /\ Tail(s) \in Seq(S)
      /\ \A i \in 1..Len(Tail(s)) : Tail(s)[i] = s[i + 1]
  BY HeadTailProperties, EmptySeq
<1>2. DOMAIN s = 1..Len(s) /\ DOMAIN Tail(s) = 1..Len(Tail(s)) /\ Head(s) = s[1]
  BY <1>1, LenProperties
<1> DEFINE t == Tail(s)
<1> HIDE DEF t
<1>3. QED
  BY <1>1, <1>2

\* An event that is new, as KnownOut wants it.
KnownEvent(e, dd) ==
    /\ e.ev = "MSG" => e.state = 0
    /\ IsChange(e) => e.id = "doc"
    /\ e.id = "doc" => KnownIn(dd[e.room], e.body, e.state)

LEMMA KnownOutStep ==
    ASSUME TypeOK, LineInv, StoredOnce, KnownOut, [Next]_vars
    PROVE  KnownOut'
<1>1. ASSUME NEW r, NEW b, NEW id, id # "doc" PROVE KnownEvent(MsgEvent(r, b, id), docs')
  BY <1>1 DEF KnownEvent, IsChange, MsgEvent
<1>2. ASSUME NEW c \in DOMAIN conns, ServerReads(c), NEW e \in outbox'
      PROVE  e \in outbox \/ KnownEvent(e, docs')
  <2> DEFINE n == MsgEvent(conns[c].room, Head(conns[c].up).body, "live")
  <2>1. outbox' = outbox \cup {n} \/ outbox' = outbox
    BY <1>2 DEF ServerReads
  <2>2. KnownEvent(n, docs')
    BY <1>1
  <2> HIDE DEF n
  <2>3. QED
    BY <2>1, <2>2
<1>3. ASSUME NEW b \in Peers, NEW q \in Rooms, PeerText(b, q), NEW e \in outbox'
      PROVE  e \in outbox \/ KnownEvent(e, docs')
  BY <1>1, <1>3 DEF PeerText
<1>4. ASSUME NEW b \in Peers, NEW q \in Rooms, PeerReply(b, q), NEW e \in outbox'
      PROVE  e \in outbox \/ KnownEvent(e, docs')
  <2>1. b \in Bodies
    BY Bounds
  <2>2. docs' = [docs EXCEPT ![q] = Append(@, [body |-> b, state |-> 0])]
    BY <1>4 DEF PeerReply
  <2>3. written[b] = None /\ b \notin Texts /\ None \notin Rooms
    BY <1>4, Bounds DEF PeerReply
  <2>4. AddsDoc(q, b)
    BY <2>2, <2>3 DEF AddsDoc, StoredOnce, Home
  <2>5. b \in Shown(docs'[q])
    <3>1. \A r \in Rooms : Shown(docs'[r]) = IF r = q THEN Shown(docs[r]) \cup {b}
                                             ELSE Shown(docs[r])
      BY <2>1, <2>4, StateNew
    <3>2. QED
      BY <3>1
  <2>6. KnownIn(docs'[q], b, 0)
    BY <2>5, KnownNow
  <2> DEFINE n == MsgEvent(q, b, "doc")
  <2>7. n.ev = "MSG" /\ n.state = 0 /\ n.room = q /\ n.body = b /\ (e \in outbox \/ e = n)
    BY <1>4 DEF PeerReply, MsgEvent
  <2> HIDE DEF n
  <2>8. QED
    BY <2>6, <2>7 DEF KnownEvent, IsChange
<1>5. ASSUME NEW b, NEW q \in Rooms, NEW ev \in {"MSG_EDIT", "MSG_DELETE"}, Change(q, b, ev),
             NEW e \in outbox'
      PROVE  e \in outbox \/ KnownEvent(e, docs')
  <2> DEFINE n == [room |-> q, ev |-> ev, body |-> b, id |-> "doc", state |-> NewState(ev)]
  <2>1. /\ n.ev = ev /\ n.state = NewState(ev) /\ n.room = q /\ n.body = b /\ n.id = "doc"
        /\ e \in outbox \/ e = n
    BY <1>5 DEF Change
  <2> HIDE DEF n
  <2>2. b \in Shown(docs'[q]) /\ StateIn(docs'[q], b) = NewState(ev)
    BY <1>5, StateChange
  <2>3. KnownIn(docs'[q], b, NewState(ev))
    BY <2>2, KnownNow
  <2>4. QED
    BY <2>1, <2>3 DEF KnownEvent, IsChange
<1>6. ASSUME NEW f \in Files, Upload(f), NEW e \in outbox'
      PROVE  e \in outbox \/ KnownEvent(e, docs')
  BY <1>1, <1>6 DEF Upload
<1>7. ASSUME \/ \E c \in DOMAIN conns : FetchHistory(c) \/ Register(c)
             \/ \E u \in unsaved : Store(u)
             \/ \E d \in outbox : Broadcast(d) \/ Drop(d)
             \/ \E l \in lists : ListAnswered(l)
      PROVE  outbox' \subseteq outbox
  BY <1>7 DEF FetchHistory, Register, Store, Broadcast, Drop, ListAnswered, srvVars
<1>8. ASSUME \/ \E r \in Rooms : Select(r)
             \/ Deselect \/ Lose \/ Reconnect \/ Opens \/ OnMessage
             \/ \E t \in Texts : SendText(t)
             \/ \E f \in Files : UploadAnswered(f)
             \/ \E l \in lists : ListArrives(l)
             \/ \E a \in answers : ChangeAnswered(a)
      PROVE  outbox' \subseteq outbox
  BY <1>8 DEF Select, Deselect, Lose, Reconnect, Opens, OnMessage, SendText, UploadAnswered,
              ListArrives, ChangeAnswered, srvVars
<1>9. ASSUME NEW b, NEW ev \in {"MSG_EDIT", "MSG_DELETE"}, OwnChange(b, ev)
      PROVE  room \in Rooms /\ Change(room, b, ev)
  BY <1>9 DEF OwnChange, TypeOK
<1>10. ASSUME NEW e \in outbox' PROVE e \in outbox \/ KnownEvent(e, docs')
  <2>1. CASE Server
    BY <1>2, <1>7, <2>1 DEF Server, Handler
  <2>2. CASE Others
    BY <1>3, <1>4, <1>5, <2>2 DEF Others, PeerChange
  <2>3. CASE Tab
    BY <1>5, <1>6, <1>8, <1>9, <2>3 DEF Tab
  <2>4. QED
    BY <2>1, <2>2, <2>3 DEF Next, vars, srvVars
<1>11. ASSUME NEW e \in outbox', e \in outbox PROVE KnownEvent(e, docs')
  <2>1. e.room \in Rooms
    BY <1>11 DEF TypeOK, Events
  <2>2. QED
    BY <1>11, <2>1, DocsGrow, KnownStays DEF KnownOut, KnownEvent
<1>12. \A e \in outbox' : KnownEvent(e, docs')
  BY <1>10, <1>11
<1>13. QED
  BY <1>12 DEF KnownOut, KnownEvent

\* What is handed to the tab comes from the documents or from an event.
LEMMA KnownLineStep ==
    ASSUME TypeInv, TypeInv', LineInv, StoredOnce, KnownOut, KnownLine, [Next]_vars
    PROVE  KnownLine'
<1>1. TypeOK /\ TabInv /\ TabInv' /\ TypeOK'
  BY DEF TypeInv
<1>2. ASSUME UNCHANGED <<room, ws>>, Inbound' = Inbound,
             ws # 0 /\ conns'[ws].phase = "requested" => conns[ws].phase = "requested"
      PROVE  KnownLine'
  <2>1. ASSUME ws # 0 PROVE AllKnown(docs'[room], Inbound)
    <3>1. room \in Rooms
      BY <1>1, <2>1 DEF TabInv, TypeOK
    <3>2. QED
      BY <1>1, <2>1, <3>1, DocsGrow, KnownStays DEF KnownLine
  <2>2. QED
    BY <1>2, <2>1 DEF KnownLine
<1>3. ASSUME Inbound' = <<>> PROVE KnownLine'
  BY <1>3 DEF KnownLine, DocChanges, AllKnown
<1>4. ASSUME NEW c \in DOMAIN conns, FetchHistory(c), ws = c PROVE KnownLine'
  <2>1. /\ UNCHANGED <<room, ws>> /\ ws # 0 /\ room \in Rooms
        /\ Inbound' \in {Log(room), <<>>} /\ conns'[ws].phase = "fetched"
    BY <1>1, <1>4, LineFetched
  <2>2. AllKnown(docs[room], Log(room)) /\ docs' = docs
    BY <1>1, <1>4, <2>1, HistoryStates DEF FetchHistory, srvVars
  <2>3. DocChanges(Log(room))
    BY <1>1, <2>1, LogFacts DEF DocChanges, IsChange
  <2>4. CASE Inbound' = Log(room)
    BY <2>1, <2>2, <2>3, <2>4 DEF KnownLine
  <2>5. CASE Inbound' = <<>>
    BY <1>3, <2>5
  <2>6. QED
    BY <2>1, <2>4, <2>5
<1>5. ASSUME NEW e \in outbox, Broadcast(e) PROVE KnownLine'
  <2>1. /\ UNCHANGED <<room, ws>> /\ Inbound \in Seq(Downs) /\ Down(e) \in Downs
        /\ IF Listed(e.room) THEN e.room = room /\ Inbound' = Append(Inbound, Down(e))
           ELSE Inbound' = Inbound
        /\ ws # 0 => conns'[ws].phase = conns[ws].phase
        /\ Listed(e.room) => ws # 0 /\ conns[ws].phase = "listed"
    BY <1>1, <1>5, LineBroadcast
  <2>2. CASE ~Listed(e.room)
    BY <1>2, <2>1, <2>2
  <2>3. CASE Listed(e.room)
    <3> DEFINE d == Down(e)
    <3>1. d.ev = e.ev /\ d.body = e.body /\ d.id = e.id /\ d.state = e.state
      BY DEF Down
    <3> HIDE DEF d
    <3>2. AllKnown(docs[room], Append(Inbound, d))
      BY <2>1, <2>3, <3>1, KnownAppend DEF KnownOut, KnownLine, d
    <3>3. IsChange(d) => d.id = "doc"
      BY <3>1 DEF KnownOut, IsChange
    <3>4. DocChanges(Append(Inbound, d))
      <4> DEFINE t == Append(Inbound, d)
      <4>1. \A i \in DOMAIN t : (i \in DOMAIN Inbound /\ t[i] = Inbound[i]) \/ t[i] = d
        BY <2>1, AppendProperties, LenProperties DEF d
      <4> HIDE DEF t
      <4>2. DocChanges(t)
        BY <3>3, <4>1 DEF KnownLine, DocChanges
      <4>3. QED
        BY <4>2 DEF t
    <3>5. docs' = docs
      BY <1>5 DEF Broadcast
    <3>6. QED
      BY <2>1, <2>3, <3>2, <3>4, <3>5 DEF KnownLine, d
  <2>4. QED
    BY <2>2, <2>3
<1>6. ASSUME OnMessage PROVE KnownLine'
  <2>1. /\ UNCHANGED <<room, ws>> /\ ws # 0 /\ Inbound \in Seq(Downs) /\ Inbound # <<>>
        /\ Inbound' = Tail(Inbound) /\ conns'[ws].phase = conns[ws].phase
    BY <1>1, <1>6, LineReceived
  <2>2. \A i \in DOMAIN Tail(Inbound) : i + 1 \in DOMAIN Inbound /\ Tail(Inbound)[i] = Inbound[i + 1]
    BY <2>1, HeadTail
  <2>3. DocChanges(Tail(Inbound)) /\ AllKnown(docs[room], Tail(Inbound))
    BY <2>1, <2>2 DEF KnownLine, DocChanges, AllKnown
  <2>4. docs' = docs /\ conns[ws].phase # "requested"
    BY <1>6, <2>1 DEF OnMessage, srvVars, KnownLine
  <2>5. QED
    BY <2>1, <2>3, <2>4 DEF KnownLine
<1>7. CASE Server
  <2>1. ASSUME NEW c \in DOMAIN conns, Register(c) \/ ServerReads(c) \/ (ws # c /\ FetchHistory(c))
        PROVE  KnownLine'
    BY <1>1, <1>2, <2>1, LineKept
  <2>2. ASSUME \/ \E u \in unsaved : Store(u)
               \/ \E e \in outbox : Drop(e)
               \/ \E l \in lists : ListAnswered(l)
        PROVE  KnownLine'
    BY <1>1, <1>2, <2>2, LineKept
  <2>3. QED
    BY <1>4, <1>5, <1>7, <2>1, <2>2 DEF Server, Handler
<1>8. CASE Others
  BY <1>1, <1>2, <1>8, LineKept
<1>9. CASE Tab
  <2>1. ASSUME (\E r \in Rooms : Select(r)) \/ Deselect \/ Lose \/ Reconnect PROVE KnownLine'
    BY <1>1, <1>3, <2>1, LineLost
  <2>2. ASSUME \/ Opens
               \/ \E t \in Texts : SendText(t)
               \/ \E f \in Files : Upload(f) \/ UploadAnswered(f)
               \/ \E l \in lists : ListArrives(l)
               \/ \E b \in Texts \cup Peers, ev \in {"MSG_EDIT", "MSG_DELETE"} : OwnChange(b, ev)
               \/ \E a \in answers : ChangeAnswered(a)
        PROVE  KnownLine'
    BY <1>1, <1>2, <2>2, LineKept
  <2>3. QED
    BY <1>6, <1>9, <2>1, <2>2 DEF Tab
<1>10. CASE UNCHANGED vars
  BY <1>1, <1>2, <1>10, LineKept
<1>11. QED
  BY <1>7, <1>8, <1>9, <1>10 DEF Next

LEMMA KnownSnapsStep ==
    ASSUME TypeOK, LineInv, StoredOnce, KnownSnaps, [Next]_vars
    PROVE  KnownSnaps'
<1>1. ASSUME NEW l \in lists', l.snap # <<None>> PROVE AllKnown(docs'[l.room], l.snap)
  <2>1. CASE l \in lists
    <3>1. l.room \in Rooms /\ AllKnown(docs[l.room], l.snap)
      BY <1>1, <2>1 DEF TypeOK, Calls, KnownSnaps
    <3>2. QED
      BY <3>1, DocsGrow, KnownStays
  <2>2. CASE l.room \in Rooms /\ l.snap = History(l.room)
    <3>1. AllKnown(docs[l.room], l.snap)
      BY <2>2, HistoryStates
    <3>2. QED
      BY <2>2, <3>1, DocsGrow, KnownStays
  <2>3. QED
    BY <1>1, <2>1, <2>2, ListsStep
<1>2. QED
  BY <1>1 DEF KnownSnaps

LEMMA KnownAnswersStep ==
    ASSUME TypeOK, LineInv, StoredOnce, KnownAnswers, [Next]_vars
    PROVE  KnownAnswers'
<1>1. ASSUME NEW b, NEW ev \in {"MSG_EDIT", "MSG_DELETE"}, OwnChange(b, ev), NEW a \in answers'
      PROVE  a \in answers \/ KnownIn(docs'[a.room], a.body, a.state)
  <2> DEFINE n == [room |-> room, body |-> b, state |-> NewState(ev)]
  <2>1. n.room = room /\ n.body = b /\ n.state = NewState(ev) /\ (a \in answers \/ a = n)
    BY <1>1 DEF OwnChange
  <2>2. room \in Rooms /\ Change(room, b, ev)
    BY <1>1 DEF OwnChange, TypeOK
  <2> HIDE DEF n
  <2>3. b \in Shown(docs'[room]) /\ StateIn(docs'[room], b) = NewState(ev)
    BY <2>2, StateChange
  <2>4. KnownIn(docs'[room], b, NewState(ev))
    BY <2>3, KnownNow
  <2>5. QED
    BY <2>1, <2>4
<1>2. ASSUME \/ Server \/ Others
             \/ \E r \in Rooms : Select(r)
             \/ Deselect \/ Lose \/ Reconnect \/ Opens \/ OnMessage
             \/ \E t \in Texts : SendText(t)
             \/ \E f \in Files : Upload(f) \/ UploadAnswered(f)
             \/ \E l \in lists : ListArrives(l)
             \/ \E a \in answers : ChangeAnswered(a)
             \/ UNCHANGED vars
      PROVE  answers' \subseteq answers
  BY <1>2 DEF Server, Handler, FetchHistory, Register, ServerReads, Store, Broadcast, Drop,
              ListAnswered, Others, PeerText, PeerReply, PeerChange, Select, Deselect, Lose,
              Reconnect, Opens, OnMessage, SendText, Upload, UploadAnswered, ListArrives,
              ChangeAnswered, vars
<1>3. ASSUME NEW a \in answers' PROVE KnownIn(docs'[a.room], a.body, a.state)
  <2>1. a \in answers \/ KnownIn(docs'[a.room], a.body, a.state)
    BY <1>1, <1>2 DEF Next, Tab
  <2>2. CASE a \in answers
    <3>1. a.room \in Rooms /\ KnownIn(docs[a.room], a.body, a.state)
      BY <2>2 DEF TypeOK, KnownAnswers
    <3>2. QED
      BY <3>1, DocsGrow, KnownStays
  <2>3. QED
    BY <2>1, <2>2
<1>4. QED
  BY <1>3 DEF KnownAnswers

\* The store.
LEMMA ShownStep ==
    ASSUME [Next]_vars
    PROVE  \/ UNCHANGED messages
           \/ OnMessage
           \/ \E l \in lists : ListArrives(l)
           \/ \E a \in answers : ChangeAnswered(a)
BY DEF Next, Server, Handler, FetchHistory, Register, ServerReads, Store, Broadcast, Drop,
       ListAnswered, Others, PeerText, PeerReply, PeerChange, Change, Tab, Select, Deselect, Lose,
       Reconnect, Opens, SendText, Upload, UploadAnswered, OwnChange, vars

\* onmessage, as the store sees it.
LEMMA ReceiveFacts ==
    ASSUME TypeOK, NEW e \in Downs, NEW q \in Rooms, Receive(e, q)
    PROVE  /\ \A r \in Rooms \ {q} : messages'[r] = messages[r]
           /\ messages[q] \in Seq(Entries) /\ e.state \in States
           /\ [body |-> e.body, id |-> e.id, state |-> e.state] \in Entries
           /\ messages'[q] =
                IF e.ev \in {"CHATLOG", "MSG"}
                  THEN AddMessage(messages[q], [body |-> e.body, id |-> e.id, state |-> e.state])
                  ELSE ChangeMessage(messages[q], e.body, e.id, e.state)
BY DEF Receive, TypeOK, Downs, Entries

LEMMA KnownShownStep ==
    ASSUME TypeInv, LineInv, StoredOnce, KnownInv, [Next]_vars
    PROVE  KnownShown'
<1>1. TypeOK /\ TabInv /\ KnownLine /\ KnownShown /\ KnownSnaps /\ KnownAnswers
  BY DEF TypeInv, KnownInv
<1>2. ASSUME \A r \in Rooms : AllKnown(docs[r], messages'[r]) PROVE KnownShown'
  BY <1>1, <1>2, DocsGrow, KnownStays DEF KnownShown
<1>3. CASE UNCHANGED messages
  BY <1>1, <1>2, <1>3 DEF KnownShown
<1>4. CASE OnMessage
  <2> DEFINE e == Head(Inbound)
             x == [body |-> e.body, id |-> e.id, state |-> e.state]
             old == messages[room]
  <2>1. /\ room \in Rooms /\ ws # 0 /\ Inbound \in Seq(Downs) /\ Inbound # <<>> /\ e \in Downs
        /\ Receive(e, room)
    BY <1>1, <1>4, LineReceived
  <2>2. 1 \in DOMAIN Inbound /\ e = Inbound[1]
    BY <2>1, HeadTail
  <2>3. (IsChange(e) => e.id = "doc") /\ (e.id = "doc" => KnownIn(docs[room], e.body, e.state))
    BY <1>1, <2>1, <2>2 DEF KnownLine, AllKnown, DocChanges
  <2> HIDE DEF e
  <2>4. /\ \A r \in Rooms \ {room} : messages'[r] = messages[r]
        /\ old \in Seq(Entries) /\ e.state \in States /\ x \in Entries
        /\ messages'[room] = IF e.ev \in {"CHATLOG", "MSG"} THEN AddMessage(old, x)
                             ELSE ChangeMessage(old, e.body, e.id, e.state)
    BY <1>1, <2>1, ReceiveFacts
  <2>5. AllKnown(docs[room], old) /\ x.id = e.id /\ x.body = e.body /\ x.state = e.state
    BY <1>1, <2>1 DEF KnownShown
  <2> HIDE DEF x, old
  <2>6. AllKnown(docs[room], messages'[room])
    <3>1. CASE e.ev \in {"CHATLOG", "MSG"}
      <4>1. AllKnown(docs[room], Append(old, x))
        BY <2>3, <2>4, <2>5, KnownAppend
      <4>2. QED
        BY <2>4, <2>5, <3>1, <4>1 DEF AddMessage
    <3>2. CASE e.ev \notin {"CHATLOG", "MSG"}
      <4>1. IsChange(e)
        BY <2>1, <3>2 DEF Downs, IsChange
      <4>2. AllKnown(docs[room], ChangeMessage(old, e.body, "doc", e.state))
        BY <2>3, <2>4, <2>5, <4>1, KnownChange
      <4>3. QED
        BY <2>3, <2>4, <3>2, <4>1, <4>2
    <3>3. QED
      BY <3>1, <3>2
  <2>7. QED
    BY <1>1, <1>2, <2>4, <2>6 DEF KnownShown
<1>5. ASSUME NEW l \in lists, ListArrives(l) PROVE KnownShown'
  <2>1. l.room \in Rooms
    BY <1>1 DEF TypeOK, Calls
  <2>2. \/ UNCHANGED messages
        \/ l.snap # <<None>> /\ messages' = [messages EXCEPT ![l.room] = l.snap]
    BY <1>5 DEF ListArrives
  <2>3. \A r \in Rooms : \/ messages'[r] = messages[r]
                         \/ r = l.room /\ l.snap # <<None>> /\ messages'[r] = l.snap
    BY <1>1, <2>1, <2>2 DEF TypeOK
  <2>4. QED
    BY <1>1, <1>2, <2>3 DEF KnownShown, KnownSnaps
<1>6. ASSUME NEW a \in answers, ChangeAnswered(a) PROVE KnownShown'
  <2> DEFINE new == ChangeMessage(messages[a.room], a.body, "doc", a.state)
  <2>1. messages' = [messages EXCEPT ![a.room] = new]
    BY <1>6 DEF ChangeAnswered
  <2>2. a.room \in Rooms /\ a.state \in States /\ messages[a.room] \in Seq(Entries)
    BY <1>1 DEF TypeOK
  <2>3. AllKnown(docs[a.room], new)
    BY <1>1, <2>2, KnownChange DEF KnownShown, KnownAnswers
  <2> HIDE DEF new
  <2>4. \A r \in Rooms : messages'[r] = messages[r] \/ (r = a.room /\ messages'[r] = new)
    BY <1>1, <2>1, <2>2 DEF TypeOK
  <2>5. QED
    BY <1>1, <1>2, <2>3, <2>4 DEF KnownShown
<1>7. QED
  BY <1>3, <1>4, <1>5, <1>6, ShownStep

LEMMA KnownStart == Init => KnownInv
<1> SUFFICES ASSUME Init PROVE KnownInv
  OBVIOUS
<1>1. /\ outbox = {} /\ lists = {} /\ answers = {} /\ ws = 0
      /\ \A r \in Rooms : messages[r] = <<>>
  BY DEF Init
<1>2. Inbound = <<>> /\ DocChanges(<<>>) /\ \A d : AllKnown(d, <<>>)
  BY <1>1 DEF Inbound, DocChanges, AllKnown
<1>3. QED
  BY <1>1, <1>2 DEF KnownInv, KnownOut, KnownLine, KnownShown, KnownSnaps, KnownAnswers

LEMMA KnownStep == TypeInv /\ SendInv /\ ShowInv /\ KnownInv /\ [Next]_vars => KnownInv'
<1> SUFFICES ASSUME TypeInv, TypeOK, LineInv, StoredOnce, KnownInv, KnownOut, KnownLine, KnownSnaps,
                    KnownAnswers, [Next]_vars
             PROVE  KnownOut' /\ KnownLine' /\ KnownShown' /\ KnownSnaps' /\ KnownAnswers'
  BY DEF TypeInv, SendInv, ShowInv, KnownInv
<1>1. QED
  BY TypeStep, KnownOutStep, KnownLineStep, KnownShownStep, KnownSnapsStep, KnownAnswersStep

(***************************************************************************)
(* What a tab may show out of date.                                        *)
(***************************************************************************)

\* The event of the change that gave b its state s; a state of b that is another;
\* one that would show it.  Nothing is shown over a deletion.
IsNow(e, b, s) == IsChange(e) /\ e.body = b /\ e.state = s
Lags(e, b, s)  == e.id = "doc" /\ e.body = b /\ e.state # s
Harms(e, b, s) == Lags(e, b, s) /\ (IsChange(e) => s # Deleted)

Sent(out, b, s) == \E e \in out : IsNow(e, b, s)

\* A list that is not up to date is followed by the event of the last change, and
\* so is all that would make it so.
Mended(list, line, b, s) ==
    (\E j \in DOMAIN list : Lags(list[j], b, s)) => \E k \in DOMAIN line : IsNow(line[k], b, s)

LastWord(line, b, s) ==
    \A i \in DOMAIN line :
      Harms(line[i], b, s) => \E k \in DOMAIN line : i < k /\ IsNow(line[k], b, s)

Caught(list, line, b, s) == Mended(list, line, b, s) /\ LastWord(line, b, s)

\* The tab has missed the last change of b, or it is on its way to the hub, or
\* what the tab shows, and what comes to it, ends with it.
UpToDate(r, b, s) ==
    \/ b \in missed
    \/ Sent(outbox, b, s)
    \/ Caught(messages[r], Inbound, b, s)

StaleInv == \A r \in Rooms : \A b \in Shown(docs[r]) : UpToDate(r, b, StateIn(docs[r], b))

LEMMA StoredApart ==
    ASSUME TypeOK, LineInv, StoredOnce, NEW r \in Rooms, NEW q \in Rooms,
           NEW b \in Shown(docs[r]), b \in Shown(docs[q])
    PROVE  r = q
<1>1. b \in Home(r) /\ b \in Home(q)
  BY DEF StoredOnce
<1>2. QED
  BY <1>1, HomesApart

LEMMA ComingNames ==
    ASSUME NEW r, NEW b
    PROVE  Coming(r, b) <=> \/ Sent(outbox, b, StateIn(docs[r], b))
                            \/ \E i \in DOMAIN Inbound : IsNow(Inbound[i], b, StateIn(docs[r], b))
<1>1. StateOf(r, b) = StateIn(docs[r], b)
  BY StateNames
<1>2. DOMAIN <<>> = {}
  OBVIOUS
<1>3. QED
  BY <1>1, <1>2 DEF Coming, Sent, IsNow, IsChange, Inbound

\* A step of the server that tells the tab nothing.  Of a new document it has heard
\* nothing yet.
LEMMA StaleStays ==
    ASSUME TypeOK, TabInv, LineInv, StoredOnce, KnownInv, StaleInv,
           UNCHANGED docs \/ \E q \in Rooms, b \in Bodies : AddsDoc(q, b),
           missed \subseteq missed', outbox \subseteq outbox', UNCHANGED messages,
           Inbound' = Inbound
    PROVE  StaleInv'
<1>1. ASSUME NEW r \in Rooms, NEW b, NEW s, UpToDate(r, b, s) PROVE UpToDate(r, b, s)'
  BY <1>1 DEF UpToDate, Sent
<1>2. CASE UNCHANGED docs
  BY <1>1, <1>2 DEF StaleInv
<1>3. ASSUME NEW q \in Rooms, NEW a \in Bodies, AddsDoc(q, a) PROVE StaleInv'
  <2> SUFFICES ASSUME NEW r \in Rooms, NEW b \in Shown(docs'[r])
               PROVE  UpToDate(r, b, StateIn(docs[r], b))'
    BY DEF StaleInv
  <2>1. CASE b \in Shown(docs[r])
    <3>1. StateIn(docs'[r], b) = StateIn(docs[r], b)
      BY <1>3, <2>1, StateNew
    <3>2. UpToDate(r, b, StateIn(docs[r], b))
      BY <2>1 DEF StaleInv
    <3>3. QED
      BY <3>1, <3>2 DEF UpToDate, Sent
  <2>2. CASE b \notin Shown(docs[r])
    <3>1. b = a
      BY <1>3, <2>2, StateNew
    <3>2. \A p \in Rooms : b \notin Shown(docs[p])
      BY <1>3, <3>1 DEF AddsDoc
    <3>3. \A j \in DOMAIN messages[r] : ~(messages[r][j].id = "doc" /\ messages[r][j].body = b)
      BY <3>2 DEF KnownInv, KnownShown, AllKnown, KnownIn
    <3>4. \A i \in DOMAIN Inbound : ~(Inbound[i].id = "doc" /\ Inbound[i].body = b)
      <4>1. CASE ws = 0
        BY <4>1 DEF Inbound
      <4>2. CASE ws # 0
        <5>1. room \in Rooms
          BY <4>2 DEF TabInv, TypeOK
        <5>2. QED
          BY <3>2, <4>2, <5>1 DEF KnownInv, KnownLine, AllKnown, KnownIn
      <4>3. QED
        BY <4>1, <4>2
    <3>5. ASSUME NEW s PROVE Caught(messages[r], Inbound, b, s)
      BY <3>3, <3>4 DEF Caught, Mended, LastWord, Lags, Harms
    <3>6. QED
      BY <3>5 DEF UpToDate
  <2>3. QED
    BY <2>1, <2>2
<1>4. QED
  BY <1>2, <1>3

\* RoomWebSocket: the history is up to date, if it comes, and nothing was under way.
LEMMA StaleFetch ==
    ASSUME TypeOK, TabInv, LineInv, StoredOnce, KnownInv, StaleInv,
           NEW c \in DOMAIN conns, FetchHistory(c), ws = c
    PROVE  StaleInv'
<1>1. UNCHANGED <<docs, messages, outbox, missed>>
  BY DEF FetchHistory, srvVars
<1>2. room \in Rooms /\ Inbound = <<>> /\ Inbound' \in {Log(room), <<>>}
  BY LineFetched DEF KnownInv
<1> SUFFICES ASSUME NEW r \in Rooms, NEW b \in Shown(docs[r]), NEW s, s = StateIn(docs[r], b),
                    Caught(messages[r], Inbound, b, s)
             PROVE  Caught(messages[r], Inbound', b, s)
  BY <1>1, <1>2 DEF StaleInv, UpToDate
<1>3. \A j \in DOMAIN messages[r] : ~Lags(messages[r][j], b, s)
  BY <1>2 DEF Caught, Mended
<1>4. \A i \in DOMAIN Log(room) : ~Lags(Log(room)[i], b, s)
  <2> SUFFICES ASSUME NEW i \in DOMAIN Log(room), Log(room)[i].body = b
               PROVE  Log(room)[i].state = s
    BY DEF Lags
  <2>1. /\ i \in DOMAIN History(room) /\ Log(room)[i].body = History(room)[i].body
        /\ Log(room)[i].state = History(room)[i].state
    BY DEF Log
  <2>2. b \in Shown(docs[room]) /\ Log(room)[i].state = StateIn(docs[room], b)
    BY <1>2, <2>1, HistoryStates
  <2>3. r = room
    BY <1>2, <2>2, StoredApart
  <2>4. QED
    BY <2>2, <2>3
<1>5. Caught(messages[r], Log(room), b, s)
  BY <1>3, <1>4 DEF Caught, Mended, LastWord, Harms
<1>6. QED
  BY <1>2, <1>5

\* A line that an event joins.
LEMMA CaughtAppend ==
    ASSUME NEW S, NEW line \in Seq(S), NEW e \in S, NEW list, NEW b, NEW s
    PROVE  /\ IsNow(e, b, s) => Caught(list, Append(line, e), b, s)
           /\ Caught(list, line, b, s) /\ ~Harms(e, b, s) => Caught(list, Append(line, e), b, s)
<1> DEFINE t == Append(line, e)
           n == Len(line) + 1
<1>1. /\ DOMAIN t = 1..n /\ Len(line) \in Nat /\ DOMAIN line = 1..Len(line)
      /\ \A i \in 1..Len(line) : t[i] = line[i]
      /\ t[n] = e
  BY AppendProperties, LenProperties
<1> HIDE DEF t
<1>2. /\ n \in DOMAIN t
      /\ \A i \in DOMAIN t : i < n \/ i = n
      /\ \A i \in DOMAIN t : i < n => i \in DOMAIN line
      /\ \A i \in DOMAIN line : i \in DOMAIN t /\ t[i] = line[i]
  BY <1>1
<1>3. ASSUME IsNow(e, b, s) PROVE Caught(list, t, b, s)
  <2>1. ~Harms(e, b, s)
    BY <1>3 DEF IsNow, Harms, Lags
  <2>2. QED
    BY <1>1, <1>2, <1>3, <2>1 DEF Caught, Mended, LastWord
<1>4. ASSUME Caught(list, line, b, s), ~Harms(e, b, s) PROVE Caught(list, t, b, s)
  BY <1>1, <1>2, <1>4 DEF Caught, Mended, LastWord
<1>5. QED
  BY <1>3, <1>4 DEF t

\* The hub: an event that is overtaken by a later one makes the tab miss the later.
LEMMA StaleBroadcast ==
    ASSUME TypeOK, TabInv, LineInv, StoredOnce, KnownInv, StaleInv, NEW e \in outbox, Broadcast(e)
    PROVE  StaleInv'
<1> DEFINE d == Down(e)
<1>1. /\ UNCHANGED <<docs, messages>> /\ missed \subseteq missed'
      /\ outbox \ {e} \subseteq outbox'
  BY DEF Broadcast
<1>2. e.ev # "MSG" /\ ~Listed(e.room) => e.body \in missed'
  BY DEF Broadcast, Listed
<1>3. /\ e.id = "doc" /\ e.state # StateIn(docs[e.room], e.body)
      /\ ~\E o \in outbox : o.body = e.body /\ o.state = StateIn(docs[e.room], e.body)
      /\ e.ev # "MSG" => StateIn(docs[e.room], e.body) # Deleted
      => e.body \in missed'
  <2>1. StateOf(e.room, e.body) = StateIn(docs[e.room], e.body)
    BY StateNames
  <2> DEFINE n == StateOf(e.room, e.body)
  <2>2. /\ e.id = "doc" /\ e.state # n
        /\ ~\E o \in outbox : o.body = e.body /\ o.state = n
        /\ e.ev # "MSG" => n # Deleted
        => e.body \in missed'
    BY DEF Broadcast
  <2> HIDE DEF n
  <2>3. n = StateIn(docs[e.room], e.body)
    BY <2>1 DEF n
  <2>4. QED
    BY <2>2, <2>3
<1>4. /\ Inbound \in Seq(Downs) /\ d \in Downs
      /\ IF Listed(e.room) THEN Inbound' = Append(Inbound, d) ELSE Inbound' = Inbound
  BY LineBroadcast
<1>5. d.ev = e.ev /\ d.body = e.body /\ d.id = e.id /\ d.state = e.state
  BY DEF Down
<1>6. e.room \in Rooms /\ \A o \in outbox : o.ev \in {"MSG", "MSG_EDIT", "MSG_DELETE"}
  BY DEF TypeOK, Events
<1> HIDE DEF d
<1> SUFFICES ASSUME NEW r \in Rooms, NEW b \in Shown(docs[r]), NEW s, s = StateIn(docs[r], b),
                    UpToDate(r, b, s), b \notin missed'
             PROVE  Sent(outbox', b, s) \/ Caught(messages[r], Inbound', b, s)
  BY <1>1 DEF StaleInv, UpToDate
<1>7. CASE Sent(outbox, b, s)
  <2>1. PICK o \in outbox : IsNow(o, b, s)
    BY <1>7 DEF Sent
  <2>2. CASE o = e
    <3>1. IsNow(d, b, s) /\ Listed(e.room)
      BY <1>2, <1>5, <2>1, <2>2 DEF IsNow, IsChange
    <3>2. Caught(messages[r], Append(Inbound, d), b, s)
      BY <1>4, <3>1, CaughtAppend
    <3>3. QED
      BY <1>4, <3>1, <3>2
  <2>3. QED
    BY <1>1, <2>1, <2>2 DEF Sent
<1>8. CASE Caught(messages[r], Inbound, b, s)
  <2>1. CASE ~Listed(e.room)
    BY <1>4, <1>8, <2>1
  <2>2. CASE Listed(e.room) /\ ~Harms(d, b, s)
    BY <1>4, <1>8, <2>2, CaughtAppend
  <2>3. CASE Harms(d, b, s)
    <3>1. /\ e.id = "doc" /\ e.body = b /\ e.state # s
          /\ IsChange(e) => s # Deleted
      BY <1>5, <2>3 DEF Harms, Lags, IsChange
    <3>2. KnownIn(docs[e.room], b, e.state)
      BY <3>1 DEF KnownInv, KnownOut
    <3>3. e.room = r
      BY <1>6, <3>2, StoredApart DEF KnownIn
    <3>4. PICK o \in outbox : o.body = b /\ o.state = s
      BY <1>3, <1>6, <3>1, <3>3 DEF IsChange
    <3>5. o.ev # "MSG"
      <4>1. o.ev = "MSG" => s = 0
        BY <3>4 DEF KnownInv, KnownOut
      <4>2. s = 0 => e.state = 0
        BY <3>2, <3>3 DEF KnownIn
      <4>3. QED
        BY <3>1, <4>1, <4>2
    <3>6. IsNow(o, b, s) /\ o # e
      BY <1>6, <3>1, <3>4, <3>5 DEF IsNow, IsChange
    <3>7. QED
      BY <1>1, <3>6 DEF Sent
  <2>4. QED
    BY <2>1, <2>2, <2>3
<1>9. QED
  BY <1>1, <1>7, <1>8 DEF UpToDate

\* An event is lost: the tab misses what it was to tell.
LEMMA StaleDrop ==
    ASSUME TypeOK, TabInv, StaleInv, NEW e \in outbox, Drop(e)
    PROVE  StaleInv'
<1>1. /\ UNCHANGED <<docs, messages>> /\ outbox' = outbox \ {e} /\ missed \subseteq missed'
      /\ e.ev # "MSG" => e.body \in missed'
  BY DEF Drop
<1>2. Inbound' = Inbound
  BY LineKept
<1>3. ASSUME NEW r \in Rooms, NEW b, NEW s, UpToDate(r, b, s) PROVE UpToDate(r, b, s)'
  BY <1>1, <1>2, <1>3 DEF UpToDate, Sent, IsNow, IsChange
<1>4. QED
  BY <1>1, <1>3 DEF StaleInv

\* EditMessageHandler and DeleteMessageHandler: the event of the change follows it.
LEMMA StaleChange ==
    ASSUME TypeOK, StoredOnce, StaleInv, NEW q \in Rooms, NEW a,
           NEW ev \in {"MSG_EDIT", "MSG_DELETE"}, Change(q, a, ev)
    PROVE  StaleInv'
<1> DEFINE n == [room |-> q, ev |-> ev, body |-> a, id |-> "doc", state |-> NewState(ev)]
<1>1. /\ UNCHANGED <<tabVars, conns, messages, missed>> /\ outbox' = outbox \cup {n}
      /\ n.ev = ev /\ n.body = a /\ n.state = NewState(ev)
  BY DEF Change
<1>2. Inbound' = Inbound
  BY <1>1 DEF Inbound, tabVars
<1>3. IsNow(n, a, NewState(ev))
  BY <1>1 DEF IsNow, IsChange
<1> HIDE DEF n
<1> SUFFICES ASSUME NEW r \in Rooms, NEW b \in Shown(docs'[r])
             PROVE  UpToDate(r, b, StateIn(docs[r], b))'
  BY DEF StaleInv
<1>4. b \in Shown(docs[r])
  BY StateChange
<1>5. CASE r = q /\ b = a
  <2>1. StateIn(docs'[r], b) = NewState(ev)
    BY <1>5, StateChange
  <2>2. Sent(outbox', b, StateIn(docs'[r], b))
    BY <1>1, <1>3, <1>5, <2>1 DEF Sent
  <2>3. QED
    BY <2>2 DEF UpToDate
<1>6. CASE r # q \/ b # a
  <2>1. StateIn(docs'[r], b) = StateIn(docs[r], b)
    BY <1>4, <1>6, StateChange
  <2>2. UpToDate(r, b, StateIn(docs[r], b))
    BY <1>4 DEF StaleInv
  <2>3. QED
    BY <1>1, <1>2, <2>1, <2>2 DEF UpToDate, Sent
<1>7. QED
  BY <1>5, <1>6

\* A connection that goes: the tab misses the changes that were on their way.
LEMMA StaleLost ==
    ASSUME TypeOK, TabInv, StaleInv, (\E q \in Rooms : Select(q)) \/ Deselect \/ Lose \/ Reconnect
    PROVE  StaleInv'
<1>1. UNCHANGED <<docs, messages, outbox>> /\ missed \subseteq missed'
  BY DEF Select, Deselect, Lose, Reconnect, srvVars
<1>2. Inbound' = <<>> /\ (Reconnect => Inbound = <<>>)
  BY LineLost
<1>3. ASSUME NEW k \in DOMAIN Inbound, IsChange(Inbound[k]) PROVE Inbound[k].body \in missed'
  <2>1. ws # 0 /\ Inbound = conns[ws].down /\ ~Reconnect
    BY <1>2, <1>3 DEF Inbound
  <2>2. Inbound[k].body \in Undelivered(ws)
    BY <1>3, <2>1 DEF Undelivered, IsChange
  <2>3. Undelivered(ws) \subseteq missed'
    BY <2>1 DEF Select, Deselect, Lose
  <2>4. QED
    BY <2>2, <2>3
<1> SUFFICES ASSUME NEW r \in Rooms, NEW b \in Shown(docs[r]), NEW s,
                    Caught(messages[r], Inbound, b, s), b \notin missed'
             PROVE  Caught(messages[r], <<>>, b, s)
  BY <1>1, <1>2 DEF StaleInv, UpToDate
<1>4. \A j \in DOMAIN messages[r] : ~Lags(messages[r][j], b, s)
  BY <1>3 DEF Caught, Mended, IsNow
<1>5. QED
  BY <1>4 DEF Caught, Mended, LastWord

\* onmessage: an event that would make the store out of date is followed by another.
LEMMA StaleReceive ==
    ASSUME TypeOK, TabInv, LineInv, StoredOnce, KnownInv, StaleInv, OnMessage
    PROVE  StaleInv'
<1> DEFINE e == Head(Inbound)
           x == [body |-> e.body, id |-> e.id, state |-> e.state]
           old == messages[room]
           rest == Tail(Inbound)
<1>1. UNCHANGED <<docs, outbox, missed>>
  BY DEF OnMessage, srvVars
<1>2. /\ room \in Rooms /\ ws # 0 /\ Inbound \in Seq(Downs) /\ Inbound # <<>> /\ e \in Downs
      /\ Inbound' = rest /\ Receive(e, room)
  BY LineReceived
<1>3. /\ 1 \in DOMAIN Inbound /\ e = Inbound[1] /\ DOMAIN Inbound \subseteq Nat \ {0}
      /\ \A i \in DOMAIN rest : i \in Nat /\ i + 1 \in DOMAIN Inbound /\ rest[i] = Inbound[i + 1]
      /\ \A i \in DOMAIN Inbound : i > 1 => i - 1 \in DOMAIN rest /\ rest[i - 1] = Inbound[i]
  BY <1>2, HeadTail
<1>4. (IsChange(e) => e.id = "doc") /\ (e.id = "doc" => KnownIn(docs[room], e.body, e.state))
  BY <1>2, <1>3 DEF KnownInv, KnownLine, AllKnown, DocChanges
<1> HIDE DEF e, rest
<1>5. /\ \A r \in Rooms \ {room} : messages'[r] = messages[r]
      /\ old \in Seq(Entries) /\ e.state \in States /\ x \in Entries
      /\ messages'[room] = IF e.ev \in {"CHATLOG", "MSG"} THEN AddMessage(old, x)
                           ELSE ChangeMessage(old, e.body, e.id, e.state)
  BY <1>2, ReceiveFacts
<1>6. x.id = e.id /\ x.body = e.body /\ x.state = e.state
  OBVIOUS
<1> HIDE DEF x
<1> SUFFICES ASSUME NEW r \in Rooms, NEW b \in Shown(docs[r]), NEW s, s = StateIn(docs[r], b),
                    Caught(messages[r], Inbound, b, s)
             PROVE  Caught(messages'[r], rest, b, s)
  BY <1>1, <1>2 DEF StaleInv, UpToDate
\* What is left of the line.
<1>7. ASSUME NEW k \in DOMAIN Inbound, k > 1, IsNow(Inbound[k], b, s)
      PROVE  \E i \in DOMAIN rest : i = k - 1 /\ IsNow(rest[i], b, s)
  BY <1>3, <1>7
<1>8. LastWord(rest, b, s)
  <2> SUFFICES ASSUME NEW i \in DOMAIN rest, Harms(rest[i], b, s)
               PROVE  \E k \in DOMAIN rest : i < k /\ IsNow(rest[k], b, s)
    BY DEF LastWord
  <2>1. i \in Nat /\ i + 1 \in DOMAIN Inbound /\ Harms(Inbound[i + 1], b, s)
    BY <1>3
  <2>2. PICK k \in DOMAIN Inbound : i + 1 < k /\ IsNow(Inbound[k], b, s)
    BY <2>1 DEF Caught, LastWord
  <2>3. k > 1 /\ k - 1 > i
    BY <1>3, <2>1, <2>2
  <2>4. QED
    BY <1>7, <2>2, <2>3
\* The list, and the event that comes to it.
<1>9. ASSUME NEW j \in DOMAIN messages[r], Lags(messages[r][j], b, s), ~IsNow(e, b, s)
      PROVE  \E k \in DOMAIN rest : IsNow(rest[k], b, s)
  <2>1. PICK k \in DOMAIN Inbound : IsNow(Inbound[k], b, s)
    BY <1>9 DEF Caught, Mended
  <2>2. k > 1
    BY <1>3, <1>9, <2>1
  <2>3. QED
    BY <1>7, <2>1, <2>2
<1>10. ASSUME Harms(e, b, s) PROVE \E k \in DOMAIN rest : IsNow(rest[k], b, s)
  <2>1. PICK k \in DOMAIN Inbound : 1 < k /\ IsNow(Inbound[k], b, s)
    BY <1>3, <1>10 DEF Caught, LastWord
  <2>2. QED
    BY <1>3, <1>7, <2>1
<1>11. CASE r # room
  <2>1. ~IsNow(e, b, s)
    <3>1. IsNow(e, b, s) => b \in Shown(docs[room])
      BY <1>4 DEF IsNow, KnownIn
    <3>2. QED
      BY <1>2, <1>11, <3>1, StoredApart
  <2>2. messages'[r] = messages[r]
    BY <1>5, <1>11
  <2>3. Mended(messages'[r], rest, b, s)
    BY <1>9, <2>1, <2>2 DEF Mended
  <2>4. QED
    BY <1>8, <2>3 DEF Caught
<1>12. CASE r = room /\ e.ev \in {"CHATLOG", "MSG"}
  <2>1. ~IsChange(e) /\ ~IsNow(e, b, s)
    BY <1>12 DEF IsNow, IsChange
  <2>2. messages'[r] = old \/ messages'[r] = Append(old, x)
    BY <1>5, <1>12 DEF AddMessage
  <2>3. \A j \in DOMAIN messages'[r] :
          (j \in DOMAIN old /\ messages'[r][j] = old[j]) \/ messages'[r][j] = x
    <3> DEFINE t == Append(old, x)
    <3>1. \A j \in DOMAIN t : (j \in DOMAIN old /\ t[j] = old[j]) \/ t[j] = x
      BY <1>5, AppendProperties, LenProperties
    <3> HIDE DEF t
    <3>2. messages'[r] = old \/ messages'[r] = t
      BY <2>2 DEF t
    <3>3. QED
      BY <3>1, <3>2
  <2>4. Lags(x, b, s) => Harms(e, b, s)
    BY <1>6, <2>1 DEF Lags, Harms
  <2>5. Mended(messages'[r], rest, b, s)
    <3> SUFFICES ASSUME NEW j \in DOMAIN messages'[r], Lags(messages'[r][j], b, s)
                 PROVE  \E k \in DOMAIN rest : IsNow(rest[k], b, s)
      BY DEF Mended
    <3>1. CASE j \in DOMAIN old /\ messages'[r][j] = old[j]
      BY <1>9, <1>12, <2>1, <3>1
    <3>2. CASE messages'[r][j] = x
      BY <1>10, <2>4, <3>2
    <3>3. QED
      BY <2>3, <3>1, <3>2
  <2>6. QED
    BY <1>8, <2>5 DEF Caught
<1>13. CASE r = room /\ e.ev \notin {"CHATLOG", "MSG"}
  <2> DEFINE new == ChangeMessage(old, e.body, "doc", e.state)
  <2>1. IsChange(e) /\ e.id = "doc"
    BY <1>2, <1>4, <1>13 DEF Downs, IsChange
  <2>2. messages'[r] = new
    BY <1>5, <1>13, <2>1
  <2>3. DOMAIN new = DOMAIN old /\ \A j \in DOMAIN old : new[j].body = old[j].body /\ new[j].id = old[j].id
    BY <1>5, ChangeType
  <2>4. ASSUME NEW j \in DOMAIN old
        PROVE  \/ old[j].body = e.body /\ old[j].id = "doc" /\ old[j].state # Deleted
                    /\ new[j].state = e.state
               \/ new[j] = old[j]
                    /\ ~(old[j].body = e.body /\ old[j].id = "doc" /\ old[j].state # Deleted)
    <3>1. old[j] \in Entries
      BY <1>5
    <3>2. \/ old[j].body = e.body /\ old[j].id = "doc" /\ old[j].state # Deleted
               /\ new[j] = [old[j] EXCEPT !.state = e.state]
          \/ new[j] = old[j]
               /\ ~(old[j].body = e.body /\ old[j].id = "doc" /\ old[j].state # Deleted)
      BY DEF ChangeMessage
    <3> HIDE DEF new
    <3>3. QED
      BY <3>1, <3>2 DEF Entries
  <2> HIDE DEF new
  <2>5. ASSUME NEW j \in DOMAIN new, Lags(new[j], b, s)
        PROVE  \E k \in DOMAIN rest : IsNow(rest[k], b, s)
    <3>1. j \in DOMAIN old /\ old[j].body = b /\ old[j].id = "doc" /\ new[j].state # s
      BY <2>3, <2>5 DEF Lags
    <3>2. CASE e.body = b /\ old[j].state # Deleted /\ new[j].state = e.state
      <4>1. Lags(e, b, s) /\ ~IsNow(e, b, s)
        BY <2>1, <3>1, <3>2 DEF Lags, IsNow
      <4>2. CASE s # Deleted
        BY <1>10, <4>1, <4>2 DEF Harms
      <4>3. CASE s = Deleted
        <5>1. Lags(old[j], b, s)
          BY <3>1, <3>2, <4>3 DEF Lags
        <5>2. QED
          BY <1>9, <1>13, <3>1, <4>1, <5>1
      <4>4. QED
        BY <4>2, <4>3
    <3>3. CASE new[j] = old[j] /\ ~(e.body = b /\ old[j].state # Deleted)
      <4>1. Lags(old[j], b, s)
        BY <3>1, <3>3 DEF Lags
      <4>2. old[j].state = Deleted => s = Deleted
        BY <1>2, <1>13, <3>1 DEF KnownInv, KnownShown, AllKnown, KnownIn
      <4>3. ~IsNow(e, b, s)
        BY <3>3, <4>1, <4>2 DEF IsNow, Lags
      <4>4. QED
        BY <1>9, <1>13, <3>1, <4>1, <4>3
    <3>4. QED
      BY <2>4, <3>1, <3>2, <3>3
  <2>6. Mended(messages'[r], rest, b, s)
    BY <2>2, <2>5 DEF Mended
  <2>7. QED
    BY <1>8, <2>6 DEF Caught
<1>14. QED
  BY <1>11, <1>12, <1>13

\* A message stored in a room was written for it.
LEMMA StoredWritten ==
    ASSUME LineInv, StoredOnce, NEW r \in Rooms, NEW b \in Shown(docs[r])
    PROVE  written[b] = r
<1>1. b \in Home(r)
  BY DEF StoredOnce
<1>2. b \in Texts \cap Shown(arrived[r]) => written[b] = r
  BY DEF LineInv, TextsAtHome
<1>3. QED
  BY <1>1, <1>2 DEF Home

\* setMessages: what the list shows out of date is coming, or missed; what was
\* missed is not any more.
LEMMA StaleArrives ==
    ASSUME TypeOK, TabInv, LineInv, StoredOnce, KnownInv, StaleInv, NEW l \in lists, ListArrives(l)
    PROVE  StaleInv'
<1>1. UNCHANGED <<docs, outbox>> /\ Inbound' = Inbound /\ l.room \in Rooms
  BY LineKept DEF ListArrives, srvVars, TypeOK, Calls
<1>2. CASE UNCHANGED <<messages, missed>>
  BY <1>1, <1>2 DEF StaleInv, UpToDate
<1>3. CASE /\ l.snap # <<None>> /\ messages' = [messages EXCEPT ![l.room] = l.snap]
           /\ \A b \in missed : written[b] # l.room
                                  \/ (ws # 0 /\ b \in Shown(conns[ws].down)) => b \in missed'
           /\ \A i \in DOMAIN l.snap : l.snap[i].state # StateOf(l.room, l.snap[i].body)
                                         /\ ~Coming(l.room, l.snap[i].body)
                                         => l.snap[i].body \in missed'
  <2> SUFFICES ASSUME NEW r \in Rooms, NEW b \in Shown(docs[r]), NEW s, s = StateIn(docs[r], b),
                      UpToDate(r, b, s), b \notin missed', ~Sent(outbox, b, s)
               PROVE  Caught(messages'[r], Inbound, b, s)
    BY <1>1 DEF StaleInv, UpToDate
  <2>1. written[b] = r
    BY StoredWritten
  <2>2. CASE r # l.room
    <3>1. messages'[r] = messages[r] /\ b \notin missed
      BY <1>1, <1>3, <2>1, <2>2 DEF TypeOK
    <3>2. QED
      BY <3>1 DEF UpToDate
  <2>3. CASE r = l.room
    <3>1. messages'[r] = l.snap
      BY <1>1, <1>3, <2>3 DEF TypeOK
    <3>2. Mended(l.snap, Inbound, b, s)
      <4> SUFFICES ASSUME NEW j \in DOMAIN l.snap, Lags(l.snap[j], b, s)
                   PROVE  \E k \in DOMAIN Inbound : IsNow(Inbound[k], b, s)
        BY DEF Mended
      <4>1. StateOf(r, b) = s
        BY StateNames
      <4>2. Coming(r, b)
        BY <1>3, <2>3, <4>1 DEF Lags
      <4>3. QED
        BY <4>2, ComingNames
    <3>3. LastWord(Inbound, b, s)
      <4>1. CASE b \in missed
        <5>1. \A i \in DOMAIN Inbound : Inbound[i].body # b
          BY <1>3, <4>1 DEF Inbound, Shown
        <5>2. QED
          BY <5>1 DEF LastWord, Harms, Lags
      <4>2. CASE b \notin missed
        BY <4>2 DEF UpToDate, Caught
      <4>3. QED
        BY <4>1, <4>2
    <3>4. QED
      BY <3>1, <3>2, <3>3 DEF Caught
  <2>4. QED
    BY <2>2, <2>3
<1>4. QED
  <2>1. CASE UNCHANGED <<messages, missed>>
    BY <1>2, <2>1
  <2>2. CASE ~UNCHANGED <<messages, missed>>
    BY <1>3, <2>2 DEF ListArrives, Shown
  <2>3. QED
    BY <2>1, <2>2

\* The answer to the tab's own change: it is the last, or that is coming, or missed.
LEMMA StaleAnswered ==
    ASSUME TypeOK, TabInv, StaleInv, NEW a \in answers, ChangeAnswered(a)
    PROVE  StaleInv'
<1> DEFINE old == messages[a.room]
           new == ChangeMessage(old, a.body, "doc", a.state)
<1>1. /\ UNCHANGED <<docs, outbox>> /\ Inbound' = Inbound /\ missed \subseteq missed'
      /\ Overtaken(a.room, a.body, a.state) => a.body \in missed'
      /\ messages' = [messages EXCEPT ![a.room] = new]
  BY LineKept DEF ChangeAnswered, srvVars
<1>2. a.room \in Rooms /\ a.state \in States /\ old \in Seq(Entries)
  BY DEF TypeOK
<1>3. DOMAIN new = DOMAIN old /\ \A j \in DOMAIN old : new[j].body = old[j].body /\ new[j].id = old[j].id
  BY <1>2, ChangeType
<1>4. ASSUME NEW j \in DOMAIN old
      PROVE  \/ old[j].body = a.body /\ old[j].state # Deleted /\ new[j].state = a.state
             \/ new[j] = old[j]
  <2>1. old[j] \in Entries
    BY <1>2
  <2>2. \/ old[j].body = a.body /\ old[j].state # Deleted
             /\ new[j] = [old[j] EXCEPT !.state = a.state]
        \/ new[j] = old[j]
    BY DEF ChangeMessage
  <2> HIDE DEF new
  <2>3. QED
    BY <2>1, <2>2 DEF Entries
<1> HIDE DEF new
<1> SUFFICES ASSUME NEW r \in Rooms, NEW b \in Shown(docs[r]), NEW s, s = StateIn(docs[r], b),
                    Caught(messages[r], Inbound, b, s), b \notin missed', ~Sent(outbox, b, s)
             PROVE  Mended(messages'[r], Inbound, b, s)
  BY <1>1 DEF StaleInv, UpToDate, Caught
<1>5. CASE r # a.room
  <2>1. messages'[r] = messages[r]
    BY <1>1, <1>2, <1>5 DEF TypeOK
  <2>2. QED
    BY <2>1 DEF Caught
<1>6. CASE r = a.room
  <2>1. messages'[r] = new /\ messages[r] = old
    BY <1>1, <1>2, <1>6 DEF TypeOK
  <2> SUFFICES ASSUME NEW j \in DOMAIN new, Lags(new[j], b, s)
               PROVE  \E k \in DOMAIN Inbound : IsNow(Inbound[k], b, s)
    BY <2>1 DEF Mended
  <2>2. j \in DOMAIN old /\ old[j].body = b /\ old[j].id = "doc" /\ new[j].state # s
    BY <1>3 DEF Lags
  <2>3. CASE Lags(old[j], b, s)
    BY <2>1, <2>2, <2>3 DEF Caught, Mended
  <2>4. CASE a.body = b /\ old[j].state # Deleted /\ new[j].state = a.state
    <3>1. CASE s = Deleted
      BY <2>2, <2>3, <2>4, <3>1 DEF Lags
    <3>2. CASE s # Deleted
      <4>1. StateOf(a.room, a.body) = s
        BY <1>6, <2>4, StateNames
      <4>2. Coming(r, b)
        BY <1>1, <1>6, <2>2, <2>4, <3>2, <4>1 DEF Overtaken
      <4>3. QED
        BY <4>2, ComingNames
    <3>3. QED
      BY <3>1, <3>2
  <2>5. QED
    BY <1>4, <2>2, <2>3, <2>4 DEF Lags
<1>7. QED
  BY <1>5, <1>6

LEMMA StaleStart == Init => StaleInv
BY ShownEmpty DEF Init, StaleInv

\* What neither tells the tab anything nor makes it miss anything.
LEMMA StaleQuiet ==
    ASSUME TypeOK, TabInv, LineInv, StoredOnce, KnownInv, StaleInv, [Next]_vars,
           \/ \E c \in DOMAIN conns : Register(c) \/ ServerReads(c) \/ (ws # c /\ FetchHistory(c))
           \/ \E u \in unsaved : Store(u)
           \/ \E l \in lists : ListAnswered(l)
           \/ \E b \in Peers, r \in Rooms : PeerText(b, r) \/ PeerReply(b, r)
           \/ Opens
           \/ \E t \in Texts : SendText(t)
           \/ \E f \in Files : Upload(f) \/ UploadAnswered(f)
           \/ UNCHANGED vars
    PROVE  StaleInv'
<1>1. UNCHANGED <<messages, missed>> /\ outbox \subseteq outbox'
  BY DEF Register, ServerReads, FetchHistory, Store, ListAnswered, PeerText, PeerReply, Opens,
         SendText, Upload, UploadAnswered, vars, srvVars
<1>2. Inbound' = Inbound
  <2>1. (\E b \in Peers, r \in Rooms : PeerText(b, r) \/ PeerReply(b, r)) => Others
    BY DEF Others
  <2>2. QED
    BY <2>1, LineKept
<1>3. UNCHANGED docs \/ \E q \in Rooms, b \in Bodies : AddsDoc(q, b)
  <2>1. ASSUME NEW u \in unsaved, Store(u)
        PROVE  UNCHANGED docs \/ \E q \in Rooms, b \in Bodies : AddsDoc(q, b)
    BY <2>1, AddsStored
  <2>2. ASSUME NEW b \in Peers, NEW q \in Rooms, PeerText(b, q) \/ PeerReply(b, q)
        PROVE  UNCHANGED docs \/ AddsDoc(q, b)
    BY <2>2, AddsPeers
  <2>3. ASSUME \/ \E c \in DOMAIN conns : Register(c) \/ ServerReads(c) \/ FetchHistory(c)
               \/ \E l \in lists : ListAnswered(l)
               \/ Opens
               \/ \E t \in Texts : SendText(t)
               \/ \E f \in Files : Upload(f) \/ UploadAnswered(f)
               \/ UNCHANGED vars
        PROVE  UNCHANGED docs
    BY <2>3 DEF Register, ServerReads, FetchHistory, ListAnswered, Opens, SendText, Upload,
                UploadAnswered, vars, srvVars
  <2>4. QED
    BY <2>1, <2>2, <2>3, Bounds
<1>4. QED
  BY <1>1, <1>2, <1>3, StaleStays

LEMMA StaleStep ==
    TypeInv /\ SendInv /\ ShowInv /\ KnownInv /\ StaleInv /\ [Next]_vars => StaleInv'
<1> SUFFICES ASSUME TypeOK, TabInv, LineInv, StoredOnce, KnownInv, StaleInv, [Next]_vars
             PROVE  StaleInv'
  BY DEF TypeInv, SendInv, ShowInv
<1>1. CASE Server
  <2>1. ASSUME NEW c \in DOMAIN conns, Handler(c) PROVE StaleInv'
    BY <2>1, StaleQuiet, StaleFetch DEF Handler
  <2>2. QED
    BY <1>1, <2>1, StaleQuiet, StaleBroadcast, StaleDrop DEF Server
<1>2. CASE Others
  BY <1>2, StaleQuiet, StaleChange DEF Others, PeerChange
<1>3. CASE Tab
  <2>1. ASSUME NEW b, NEW ev \in {"MSG_EDIT", "MSG_DELETE"}, OwnChange(b, ev) PROVE StaleInv'
    <3>1. room \in Rooms /\ Change(room, b, ev)
      BY <2>1 DEF OwnChange, TypeOK
    <3>2. QED
      BY <3>1, StaleChange
  <2>2. QED
    BY <1>3, <2>1, StaleQuiet, StaleLost, StaleReceive, StaleArrives, StaleAnswered DEF Tab
<1>4. CASE UNCHANGED vars
  BY <1>4, StaleQuiet
<1>5. QED
  BY <1>1, <1>2, <1>3, <1>4 DEF Next

\* When nothing is under way, what the tab has not missed is up to date.
LEMMA StaleSettled ==
    TypeInv /\ SendInv /\ ShowInv /\ KnownInv /\ StaleInv => StaleNeedsCause
<1> SUFFICES ASSUME TypeOK, TabInv, LineInv, StoredOnce, KnownInv, StaleInv,
                    NEW r \in Rooms, Settled(r), NEW j \in DOMAIN messages[r],
                    messages[r][j].id = "doc", messages[r][j].body \notin missed
             PROVE  messages[r][j].state = StateOf(r, messages[r][j].body)
  BY DEF TypeInv, SendInv, ShowInv, StaleNeedsCause
<1> DEFINE b == messages[r][j].body
           s == StateIn(docs[r], b)
<1>1. b \in Shown(docs[r])
  BY DEF KnownInv, KnownShown, AllKnown, KnownIn
<1>2. Inbound = <<>> /\ \A e \in outbox : e.room # r
  BY DEF Settled, Inbound, TabInv
<1>3. ~Sent(outbox, b, s)
  <2> SUFFICES ASSUME NEW e \in outbox, IsNow(e, b, s) PROVE FALSE
    BY DEF Sent
  <2>1. e.room \in Rooms /\ e.body = b
    BY DEF TypeOK, Events, IsNow
  <2>2. b \in Shown(docs[e.room])
    BY <2>1 DEF KnownInv, KnownOut, KnownIn, IsNow
  <2>3. QED
    BY <1>1, <1>2, <2>1, <2>2, StoredApart
<1>4. ~Lags(messages[r][j], b, s)
  BY <1>1, <1>2, <1>3 DEF StaleInv, UpToDate, Caught, Mended
<1>5. StateOf(r, b) = s
  BY StateNames
<1>6. QED
  BY <1>4, <1>5 DEF Lags

\* Edits and deletions, over the events, the history, the lists and the answers to
\* the tab's own: a tab that has settled in a room shows each message of the history
\* as its document has it, unless the event of the last change never came to it, or
\* something older came after that event.
THEOREM StaleHasCause == Spec => []StaleNeedsCause
<1>1. QED
  BY TypeStart, TypeStep, SendStart, SendStep, ShowStart, ShowStep, KnownStart, KnownStep,
     StaleStart, StaleStep, StaleSettled, PTL DEF Spec

=============================================================================

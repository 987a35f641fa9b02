------------------------------ MODULE History ------------------------------
(***************************************************************************)
(* The messages of a room as they are read: the list, the pages before a   *)
(* time and the messages after a time of GetRoomMessagesHandler            *)
(* (server/handler/room.go) over the queries of pkg/mongoDB/chat.go, while *)
(* messages are written and deleted.  Every query sorts by created_at      *)
(* only, which the writer gives a message before it inserts it.            *)
(***************************************************************************)
EXTENDS Naturals, FiniteSets, FiniteSetsExt

CONSTANTS
    Written,     \* the messages the room will have
    ListLimit,   \* of FindChatByRoom (100)
    PageLimit,   \* of a page before a time (50, or what the client asks for)
    AfterLimit,  \* of FindChatByRoomAfter (200)
    Instants     \* bound on the clock, in the milliseconds that BSON keeps

HistoryAssumption ==
    ListLimit \in Nat /\ PageLimit \in Nat \ {0} /\ AfterLimit \in Nat /\ Instants \in Nat

VARIABLES
    instant,
    place,       \* where each message is
    at,          \* its created_at
    phase,       \* what the client is doing
    cursor,      \* the created_at its next request is about
    hasMore,     \* has_more of its last page
    shown,       \* messages it has got
    aim,         \* history: the messages it should get by going back
    edges,       \* history: the times its requests were about
    tardy        \* history: inserted when the client had passed their time

writers == <<instant, place, at, tardy>>
pages == <<writers, phase, cursor, hasMore, shown, aim, edges>>

HistoryTypeOK ==
    /\ instant \in 0..Instants
    /\ place \in [Written -> {"none", "stamped", "stored", "deleted"}]
    /\ at \in [Written -> 0..Instants]
    /\ phase \in {"away", "back", "ended", "following"}
    /\ cursor \in 0..(Instants + 1)
    /\ hasMore \in BOOLEAN
    /\ shown \subseteq Written /\ aim \subseteq Written /\ tardy \subseteq Written
    /\ edges \subseteq 0..(Instants + 1)

HistoryInit ==
    /\ instant = 0
    /\ place = [m \in Written |-> "none"]
    /\ at = [m \in Written |-> 0]
    /\ phase = "away"
    /\ cursor = 0 /\ hasMore = FALSE
    /\ shown = {} /\ aim = {} /\ edges = {} /\ tardy = {}

Stored == {m \in Written : place[m] = "stored"}

---------------------------------------------------------------------------
(* The writers: insert workers and handlers, of one server or several.     *)

HistoryTick ==
    /\ instant < Instants
    /\ instant' = instant + 1
    /\ UNCHANGED <<place, at, phase, cursor, hasMore, shown, aim, edges, tardy>>

\* CreatedAt: time.Now(), in the loop over a batch or for a single message.
Stamp(m) ==
    /\ place[m] = "none"
    /\ place' = [place EXCEPT ![m] = "stamped"]
    /\ at' = [at EXCEPT ![m] = instant]
    /\ UNCHANGED <<instant, phase, cursor, hasMore, shown, aim, edges, tardy>>

\* InsertMany or InsertOne reaches the collection; writers do not wait for
\* each other.
InsertChat(m) ==
    /\ place[m] = "stamped"
    /\ place' = [place EXCEPT ![m] = "stored"]
    /\ tardy' = IF phase = "following" /\ at[m] < cursor THEN tardy \cup {m} ELSE tardy
    /\ UNCHANGED <<instant, at, phase, cursor, hasMore, shown, aim, edges>>

\* DeleteChat, as far as the queries see it.
Delete(m) ==
    /\ place[m] = "stored"
    /\ place' = [place EXCEPT ![m] = "deleted"]
    /\ UNCHANGED <<instant, at, phase, cursor, hasMore, shown, aim, edges, tardy>>

---------------------------------------------------------------------------
(* The queries.  What a limit leaves out of messages with the same time is *)
(* up to the database.                                                     *)

Pages(candidates, limit) ==
    {page \in SUBSET candidates : Cardinality(page) = Min({limit, Cardinality(candidates)})}

Earliest(candidates, limit) ==
    {page \in Pages(candidates, limit) :
       \A m \in page, n \in candidates \ page : at[m] <= at[n]}

Latest(candidates, limit) ==
    {page \in Pages(candidates, limit) :
       \A m \in page, n \in candidates \ page : at[m] >= at[n]}

FindChatByRoom == Earliest(Stored, ListLimit)

FindChatByRoomBefore(time) == Latest({m \in Stored : at[m] < time}, PageLimit)

\* Mutant: the limit keeps the newest.
FindNewestAfter(time) == Latest({m \in Stored : at[m] > time}, AfterLimit)

FindChatByRoomAfter(time) == Earliest({m \in Stored : at[m] > time}, AfterLimit)

Oldest(page, else) == IF page = {} THEN else ELSE Min({at[m] : m \in page})
Newest(page, else) == IF page = {} THEN else ELSE Max({at[m] : m \in page})

---------------------------------------------------------------------------
(* GetRoomMessagesHandler, and a client that uses what it answers.         *)

Ask(page, new, more, next) ==
    /\ shown' = shown \cup page
    /\ hasMore' = more
    /\ cursor' = new
    /\ phase' = next
    /\ edges' = edges \cup {new}
    /\ UNCHANGED writers

\* Without a time: the oldest, so that what is newer than a full list is out
\* of reach of a client that then asks for what is before.
List ==
    /\ phase = "away"
    /\ \E page \in FindChatByRoom :
         LET full == Cardinality(page) >= ListLimit IN
         /\ Ask(page, Oldest(page, 0), full, "back")
         /\ aim' = {m \in Stored : full => at[m] < Newest(page, 0)}

\* The client goes back from now.
GoBack ==
    /\ phase = "away"
    /\ Ask({}, instant + 1, TRUE, "back")
    /\ aim' = Stored

\* Mutant: a page that is full is taken for the last.
BeforeShort ==
    /\ phase = "back" /\ hasMore
    /\ \E page \in FindChatByRoomBefore(cursor) :
         Ask(page, Oldest(page, cursor), Cardinality(page) > PageLimit, "back")
    /\ UNCHANGED aim

\* before=: has_more says whether the page is full.
Before ==
    /\ phase = "back" /\ hasMore
    /\ \E page \in FindChatByRoomBefore(cursor) :
         Ask(page, Oldest(page, cursor), Cardinality(page) = PageLimit, "back")
    /\ UNCHANGED aim

\* The client has it all, as far as it can know.
NoMore ==
    /\ phase = "back" /\ ~hasMore
    /\ phase' = "ended"
    /\ UNCHANGED <<writers, cursor, hasMore, shown, aim, edges>>

\* A client that has everything goes away, and follows from the newest.
Leave ==
    /\ phase = "away"
    /\ Ask(Stored, Newest(Stored, 0), FALSE, "following")
    /\ UNCHANGED aim

\* after=: has_more is never said.
After ==
    /\ phase = "following"
    /\ \E page \in FindChatByRoomAfter(cursor) :
         Ask(page, Newest(page, cursor), FALSE, "following")
    /\ UNCHANGED aim

HistoryNext ==
    \/ HistoryTick \/ List \/ GoBack \/ Before \/ NoMore \/ Leave \/ After
    \/ \E m \in Written : Stamp(m) \/ InsertChat(m) \/ Delete(m)

HistorySpec == HistoryInit /\ [][HistoryNext]_pages

---------------------------------------------------------------------------
(* Properties.                                                             *)

\* Going back page by page, while others write and delete, shows every message
\* that was there at the outset and still is, up to where the client began,
\* except those that share their time with the edge of a page.
BackMissesNeedCause ==
    phase = "ended" => \A m \in (aim \cap Stored) \ shown : at[m] \in edges

\* A client that follows misses only what it has yet to ask for, what shares
\* its time with the last message of an answer, and what was inserted after
\* messages that were given a later time.
AfterMissesNeedCause ==
    phase = "following" =>
      \A m \in Stored \ shown : at[m] > cursor \/ at[m] \in edges \/ m \in tardy
=============================================================================

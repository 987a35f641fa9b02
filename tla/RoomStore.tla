----------------------------- MODULE RoomStore -----------------------------
(***************************************************************************)
(* One room in MongoDB, its document and its messages, and the HTTP        *)
(* handlers that work on them at the same time: join, leave, delete (with  *)
(* pkg/mongoDB/room.go), edit, delete and reply to a message (with         *)
(* server/handler/message.go and pkg/mongoDB/chat.go), and upload a file   *)
(* (with server/handler/upload.go and pkg/mongoDB/file.go).                *)
(*                                                                         *)
(* A handler is a sequence of database calls, each atomic on its document; *)
(* everything may happen between two of them.  Any call may fail.          *)
(***************************************************************************)
EXTENDS Integers, Sequences, FiniteSets, Filters

CONSTANTS
    Requests,     \* HTTP requests, each served once
    Users,
    Founder,      \* who created the room ("system" for the default room)
    IsDefault,    \* room.IsDefault
    IsPublic,     \* room.IsPublic
    MaxMembers,   \* req.MaxMembers
    Posts,        \* messages that the insert workers may write to the room
    AuthorOf,     \* the user of each of them
    NoUser, NoMsg, Blank

ASSUME RoomAssumption ==
    /\ Founder \in Users /\ NoUser \notin Users
    /\ IsDefault \in BOOLEAN /\ IsPublic \in BOOLEAN /\ MaxMembers \in Nat
    /\ AuthorOf \in [Posts -> Users]
ASSUME NamesAssumption ==
    /\ Posts \cap Requests = {}
    /\ NoMsg \notin Posts \cup Requests /\ Blank \notin Posts \cup Requests

\* A message is named by the post, or by the request whose reply it is; a text
\* by the message it was written for, or by the request that edited it.
Messages == Posts \cup Requests
Texts == Messages \cup {Blank}

VARIABLES
    present,   \* the room's document exists
    members,   \* room.Members
    owner,     \* room.CreatedBy
    chat,      \* state of each message: "none", "kept", "deleted" or "purged"
    text,      \* its text
    author,    \* its user
    step,      \* where the handler of each request stands
    user,      \* its user
    target,    \* the message it is about
    found,     \* the room's members as LeaveRoom read them
    disk,      \* uploads whose file is below uploads/
    metas,     \* uploads whose metadata is in the database
    overlap,   \* history: two leaves of the room, or a leave and a join, overlapped
    failed,    \* history: a database call of a handler failed half way
    late       \* history: a message was written after the room had been deleted

roomVars == <<present, members, owner>>
chatVars == <<chat, text, author>>
fileVars == <<disk, metas>>
reqVars  == <<step, user, target, found>>
histVars == <<overlap, failed, late>>
vars == <<roomVars, chatVars, fileVars, reqVars, histVars>>

LeaveSteps == {"leavePull", "ownerPull", "leaveTransfer", "leaveDelete"}
JoinSteps  == {"joinCount", "joinUpdate"}
Steps == {"new", "done", "removeOne", "purge", "purgeFiles", "edit", "editUpdate",
          "sayEdit", "deleteMsg", "sayDelete", "reply",
          "replyInsert", "sayReply",
          "saveFile", "insertMeta", "removeFile", "sayFile"}
           \cup LeaveSteps \cup JoinSteps

TypeOK ==
    /\ present \in BOOLEAN
    /\ members \in Seq(Users)
    /\ owner \in Users
    /\ chat \in [Messages -> {"none", "kept", "deleted", "purged"}]
    /\ text \in [Messages -> Texts]
    /\ author \in [Messages -> Users \cup {NoUser}]
    /\ step \in [Requests -> Steps]
    /\ user \in [Requests -> Users]
    /\ target \in [Requests -> Messages \cup {NoMsg}]
    /\ found \in [Requests -> Seq(Users)]
    /\ disk \subseteq Requests /\ metas \subseteq Requests
    /\ overlap \in BOOLEAN /\ failed \in BOOLEAN /\ late \in BOOLEAN

Init ==
    /\ present = TRUE
    /\ members = IF IsDefault THEN <<>> ELSE <<Founder>>
    /\ owner = Founder
    /\ chat = [m \in Messages |-> "none"]
    /\ text = [m \in Messages |-> Blank]
    /\ author = [m \in Messages |-> NoUser]
    /\ step = [q \in Requests |-> "new"]
    /\ user = [q \in Requests |-> Founder]
    /\ target = [q \in Requests |-> NoMsg]
    /\ found = [q \in Requests |-> <<>>]
    /\ disk = {} /\ metas = {}
    /\ overlap = FALSE /\ failed = FALSE /\ late = FALSE

\* CreateRoom: a room asked for without a limit gets one; the default room has
\* none (0).
Limit == IF MaxMembers = 0 /\ ~IsDefault THEN 100 ELSE MaxMembers

MemberSet == {members[i] : i \in DOMAIN members}

Without(list, u) == OnlyIn(list, Users \ {u})

Goto(q, s) == step' = [step EXCEPT ![q] = s]

\* requireRoomMember.
MayEnter(u) == present /\ (IsPublic \/ IsDefault \/ u \in MemberSet)

Leaving(q) == step[q] \in LeaveSteps
Joining(q) == step[q] \in JoinSteps

---------------------------------------------------------------------------
(* JoinRoomHandler and JoinRoom.                                           *)

\* FindRoomByID, and the password of a private room.
JoinFind(q, u) ==
    /\ step[q] = "new"
    /\ present
    /\ Goto(q, "joinCount")
    /\ user' = [user EXCEPT ![q] = u]
    /\ overlap' = (overlap \/ \E p \in Requests : Leaving(p))
    /\ UNCHANGED <<fileVars, roomVars, chatVars, target, found, failed, late>>

\* CountDocuments: who is a member already has joined.
JoinCount(q) ==
    /\ step[q] = "joinCount"
    /\ Goto(q, IF present /\ user[q] \in MemberSet THEN "done" ELSE "joinUpdate")
    /\ UNCHANGED <<fileVars, roomVars, chatVars, user, target, found, histVars>>

\* Mutant: the limit is checked where the count is, not in the update.
JoinUpdateUnchecked(q) ==
    /\ step[q] = "joinUpdate"
    /\ members' = IF present /\ user[q] \notin MemberSet THEN Append(members, user[q]) ELSE members
    /\ Goto(q, "done")
    /\ UNCHANGED <<fileVars, present, owner, chatVars, user, target, found, histVars>>

\* UpdateOne: the limit is part of the filter.
JoinUpdate(q) ==
    /\ step[q] = "joinUpdate"
    /\ members' = IF /\ present /\ user[q] \notin MemberSet
                     /\ Limit = 0 \/ Len(members) < Limit
                    THEN Append(members, user[q]) ELSE members
    /\ Goto(q, "done")
    /\ UNCHANGED <<fileVars, present, owner, chatVars, user, target, found, histVars>>

---------------------------------------------------------------------------
(* LeaveRoom.                                                              *)

\* FindRoomByID: what is read here decides on the owner below.
LeaveFind(q, u) ==
    /\ step[q] = "new"
    /\ present
    /\ Goto(q, IF owner = u /\ ~IsDefault THEN "ownerPull" ELSE "leavePull")
    /\ user' = [user EXCEPT ![q] = u]
    /\ found' = [found EXCEPT ![q] = members]
    /\ overlap' = (overlap \/ \E p \in Requests : Leaving(p) \/ Joining(p))
    /\ UNCHANGED <<fileVars, roomVars, chatVars, target, failed, late>>

\* Mutant: the room of a leaving creator is deleted with its members.
LeavePullDeletes(q) ==
    /\ step[q] \in {"leavePull", "ownerPull"}
    /\ members' = IF present THEN Without(members, user[q]) ELSE members
    /\ Goto(q, IF step[q] = "leavePull" THEN "done" ELSE "leaveDelete")
    /\ UNCHANGED <<fileVars, present, owner, chatVars, user, target, found, histVars>>

\* $pull; an error ends the handler.  The creator goes on, with the members of
\* the document read before.
LeavePull(q) ==
    /\ step[q] \in {"leavePull", "ownerPull"}
    /\ \/ /\ members' = IF present THEN Without(members, user[q]) ELSE members
          /\ Goto(q, IF step[q] = "leavePull" THEN "done"
                     ELSE IF Without(found[q], user[q]) = <<>> THEN "leaveDelete"
                     ELSE "leaveTransfer")
       \/ Goto(q, "done") /\ UNCHANGED members
    /\ UNCHANGED <<fileVars, present, owner, chatVars, user, target, found, histVars>>

\* Mutant: the first of all the members becomes the creator.
LeaveTransferToFirst(q) ==
    /\ step[q] = "leaveTransfer"
    /\ Goto(q, "done")
    /\ owner' = IF present THEN Head(found[q]) ELSE owner
    /\ UNCHANGED <<fileVars, present, members, chatVars, user, target, found, histVars>>

\* Mutant: the creator who leaves is unset.
LeaveTransferToNobody(q) ==
    /\ step[q] = "leaveTransfer"
    /\ Goto(q, "done")
    /\ owner' = NoUser
    /\ UNCHANGED <<fileVars, present, members, chatVars, user, target, found, histVars>>

\* The first of the members read before becomes the creator; an error is not
\* looked at.
LeaveTransfer(q) ==
    /\ step[q] = "leaveTransfer"
    /\ Goto(q, "done")
    /\ \/ /\ owner' = IF present THEN Head(Without(found[q], user[q])) ELSE owner
          /\ UNCHANGED failed
       \/ failed' = TRUE /\ UNCHANGED owner
    /\ UNCHANGED <<fileVars, present, members, chatVars, user, target, found, overlap, late>>

\* DeleteOne; an error is not looked at.
LeaveDelete(q) ==
    /\ step[q] = "leaveDelete"
    /\ Goto(q, "purge")
    /\ \/ present' = FALSE /\ UNCHANGED failed
       \/ failed' = TRUE /\ UNCHANGED present
    /\ UNCHANGED <<fileVars, members, owner, chatVars, user, target, found, overlap, late>>

---------------------------------------------------------------------------
(* DeleteRoom and AdminDeleteRoom (whose user is any administrator).       *)

RemoveFind(q, u) ==
    /\ step[q] = "new"
    /\ present /\ ~IsDefault
    /\ Goto(q, "removeOne")
    /\ user' = [user EXCEPT ![q] = u]
    /\ UNCHANGED <<fileVars, roomVars, chatVars, target, found, histVars>>

DeleteRoom(q, u) == owner = u /\ RemoveFind(q, u)

\* AdminRequired has passed; the creator does not matter.
AdminDeleteRoom(q, u) == RemoveFind(q, u)

\* Mutant: the messages of the room are left behind.
RemoveOneOnly(q) ==
    /\ step[q] = "removeOne"
    /\ present' = FALSE
    /\ Goto(q, "done")
    /\ UNCHANGED <<fileVars, members, owner, chatVars, user, target, found, histVars>>

\* DeleteOne by id: an error ends the handler.
RemoveOne(q) ==
    /\ step[q] = "removeOne"
    /\ \/ present' = FALSE /\ Goto(q, "purge")
       \/ Goto(q, "done") /\ UNCHANGED present
    /\ UNCHANGED <<fileVars, members, owner, chatVars, user, target, found, histVars>>

\* DeleteMany of the room's messages; an error is not looked at.
Purge(q) ==
    /\ step[q] = "purge"
    /\ Goto(q, "purgeFiles")
    /\ \/ /\ chat' = [m \in Messages |-> IF chat[m] = "none" THEN "none" ELSE "purged"]
          /\ UNCHANGED failed
       \/ failed' = TRUE /\ UNCHANGED chat
    /\ UNCHANGED <<fileVars, roomVars, text, author, user, target, found, overlap, late>>

\* DeleteMany of the metadata of its files, which stay on the disk.
PurgeFiles(q) ==
    /\ step[q] = "purgeFiles"
    /\ Goto(q, "done")
    /\ \/ metas' = {} /\ UNCHANGED failed
       \/ failed' = TRUE /\ UNCHANGED metas
    /\ UNCHANGED <<disk, roomVars, chatVars, user, target, found, overlap, late>>

---------------------------------------------------------------------------
(* Messages.                                                               *)

\* InsertOne or InsertMany: nothing asks whether the room is still there.
Insert(m, u) ==
    /\ chat[m] = "none"
    /\ chat' = [chat EXCEPT ![m] = "kept"]
    /\ text' = [text EXCEPT ![m] = m]
    /\ author' = [author EXCEPT ![m] = u]
    /\ late' = (late \/ ~present)

\* An insert worker writes a message of a connection (InsertPipeline).
Post(m) ==
    /\ Insert(m, AuthorOf[m])
    /\ UNCHANGED <<fileVars, roomVars, reqVars, overlap, failed>>

\* requireRoomMember at the head of a handler about message m.
Enter(q, u, m, s) ==
    /\ step[q] = "new"
    /\ MayEnter(u)
    /\ Goto(q, s)
    /\ user' = [user EXCEPT ![q] = u]
    /\ target' = [target EXCEPT ![q] = m]
    /\ UNCHANGED <<fileVars, roomVars, chatVars, found, histVars>>

EditMessageHandler(q, u, m)   == Enter(q, u, m, "edit")
DeleteMessageHandler(q, u, m) == Enter(q, u, m, "deleteMsg")
ReplyMessageHandler(q, u, m)  == Enter(q, u, m, "reply")

\* At the end of a handler its event goes to the hub, unless there is none, it
\* is stopped, or five seconds pass: what comes of it is not in the database
\* (WebClient).
Say(q, s) ==
    /\ step[q] = s
    /\ Goto(q, "done")
    /\ UNCHANGED <<fileVars, roomVars, chatVars, user, target, found, histVars>>

Owns(q) == chat[target[q]] = "kept" /\ author[target[q]] = user[q]

\* EditChat, FindOne: not the author's, deleted, gone, or older than five
\* minutes ends the handler.
EditFind(q) ==
    /\ step[q] = "edit"
    /\ \/ Goto(q, "done")
       \/ Owns(q) /\ Goto(q, "editUpdate")
    /\ UNCHANGED <<fileVars, roomVars, chatVars, user, target, found, histVars>>

\* Mutant: the update relies on what FindOne returned.
EditUpdateUnchecked(q) ==
    /\ step[q] = "editUpdate"
    /\ text' = [text EXCEPT ![target[q]] = q]
    /\ Goto(q, "sayEdit")
    /\ UNCHANGED <<fileVars, roomVars, chat, author, user, target, found, histVars>>

\* FindOneAndUpdate, with the conditions in its filter.
EditUpdate(q) ==
    /\ step[q] = "editUpdate"
    /\ IF Owns(q)
         THEN /\ text' = [text EXCEPT ![target[q]] = q]
              /\ Goto(q, "sayEdit")
         ELSE Goto(q, "done") /\ UNCHANGED text
    /\ UNCHANGED <<fileVars, roomVars, chat, author, user, target, found, histVars>>

\* DeleteChat: FindOneAndUpdate.
DeleteMsg(q) ==
    /\ step[q] = "deleteMsg"
    /\ IF Owns(q)
         THEN /\ chat' = [chat EXCEPT ![target[q]] = "deleted"]
              /\ text' = [text EXCEPT ![target[q]] = Blank]
              /\ Goto(q, "sayDelete")
         ELSE Goto(q, "done") /\ UNCHANGED <<chat, text>>
    /\ UNCHANGED <<fileVars, roomVars, author, user, target, found, histVars>>

\* FindChatByID of the parent.
ReplyFind(q) ==
    /\ step[q] = "reply"
    /\ Goto(q, IF chat[target[q]] = "kept" THEN "replyInsert" ELSE "done")
    /\ UNCHANGED <<fileVars, roomVars, chatVars, user, target, found, histVars>>

\* InsertChatWithReply; an error ends the handler.
ReplyInsert(q) ==
    /\ step[q] = "replyInsert"
    /\ \/ Insert(q, user[q]) /\ Goto(q, "sayReply")
       \/ Goto(q, "done") /\ UNCHANGED <<chatVars, late>>
    /\ UNCHANGED <<fileVars, roomVars, user, target, found, overlap, failed>>

SayEdit(q)   == Say(q, "sayEdit")
SayDelete(q) == Say(q, "sayDelete")
SayReply(q)  == Say(q, "sayReply")

---------------------------------------------------------------------------
(* UploadFileHandler.  A file is named by the request that brings it.      *)

UploadFileHandler(q, u) == Enter(q, u, NoMsg, "saveFile")

\* Mutant: the metadata comes without the file being looked at.
SaveFileUnchecked(q) ==
    /\ step[q] = "saveFile"
    /\ disk' \in {disk, disk \cup {q}}
    /\ Goto(q, "insertMeta")
    /\ UNCHANGED <<metas, roomVars, chatVars, user, target, found, histVars>>

\* os.Create and io.Copy.  A copy that fails leaves a part of the file, which
\* is removed.
SaveFile(q) ==
    /\ step[q] = "saveFile"
    /\ \/ disk' = disk \cup {q} /\ Goto(q, "insertMeta")
       \/ disk' = disk \cup {q} /\ Goto(q, "removeFile")
       \/ Goto(q, "done") /\ UNCHANGED disk
    /\ UNCHANGED <<metas, roomVars, chatVars, user, target, found, histVars>>

\* InsertFileMetadata.  An error (after a timeout) does not say that nothing
\* was inserted.
InsertMeta(q) ==
    /\ step[q] = "insertMeta"
    /\ \/ /\ metas' = metas \cup {q}
          /\ late' = (late \/ ~present)
          /\ \/ Goto(q, "sayFile") /\ UNCHANGED failed
             \/ Goto(q, "removeFile") /\ failed' = TRUE
       \/ Goto(q, "removeFile") /\ UNCHANGED <<metas, late, failed>>
    /\ UNCHANGED <<disk, roomVars, chatVars, user, target, found, overlap>>

\* os.Remove; an error is not looked at.
RemoveFile(q) ==
    /\ step[q] = "removeFile"
    /\ Goto(q, "done")
    /\ \/ disk' = disk \ {q} /\ UNCHANGED failed
       \/ failed' = TRUE /\ UNCHANGED disk
    /\ UNCHANGED <<metas, roomVars, chatVars, user, target, found, overlap, late>>

SayFile(q) == Say(q, "sayFile")

---------------------------------------------------------------------------
RequestNext(q) ==
    \/ \E u \in Users :
         \/ JoinFind(q, u) \/ LeaveFind(q, u)
         \/ DeleteRoom(q, u) \/ AdminDeleteRoom(q, u)
         \/ UploadFileHandler(q, u)
         \/ \E m \in Messages \ {q} :
              \/ EditMessageHandler(q, u, m)
              \/ DeleteMessageHandler(q, u, m)
              \/ ReplyMessageHandler(q, u, m)
    \/ JoinCount(q) \/ JoinUpdate(q)
    \/ LeavePull(q) \/ LeaveTransfer(q) \/ LeaveDelete(q)
    \/ RemoveOne(q) \/ Purge(q) \/ PurgeFiles(q)
    \/ EditFind(q) \/ EditUpdate(q) \/ SayEdit(q)
    \/ DeleteMsg(q) \/ SayDelete(q)
    \/ ReplyFind(q) \/ ReplyInsert(q) \/ SayReply(q)
    \/ SaveFile(q) \/ InsertMeta(q) \/ RemoveFile(q) \/ SayFile(q)

Next ==
    \/ \E q \in Requests : RequestNext(q)
    \/ \E m \in Posts : Post(m)

Spec == Init /\ [][Next]_vars

---------------------------------------------------------------------------
(* Properties.                                                             *)

\* However many join at once, the room has no more members than it admits,
\* and nobody twice (the atomic update of JoinRoom).
WithinLimit ==
    /\ Limit # 0 => Len(members) <= Limit
    /\ \A i, j \in DOMAIN members : members[i] = members[j] => i = j

\* A room whose creator is no member of it, which nobody can delete from
\* within and nobody inherits, comes only from two leaves (or a leave and a
\* join) that overlapped, or from a database call that failed half way.
OwnerIsMember ==
    /\ present /\ ~IsDefault
    /\ \A q \in Requests : ~Leaving(q)
    /\ ~overlap /\ ~failed
    => owner \in MemberSet

\* The room of a creator who leaves stays with the members who stay, unless
\* they joined while he was leaving.
MembersKeepRoom ==
    [][present /\ ~present' /\ MemberSet # {}
         => overlap \/ \E q \in Requests : step[q] = "removeOne"]_vars

\* A message that was deleted is never edited, or given a text again, whatever
\* edit was under way (the filters of EditChat and DeleteChat).
DeletedStaysBlank ==
    [][\A m \in Messages : chat[m] \in {"deleted", "purged"} =>
         chat'[m] \in {"deleted", "purged"} /\ text'[m] = text[m]]_vars

\* Messages and file metadata of a deleted room are left in the database only
\* if they were written after the deletion, or if their deletion failed.
NoOrphans ==
    /\ ~present /\ ~late /\ ~failed
    /\ \A q \in Requests : step[q] \notin {"purge", "purgeFiles"}
    => metas = {} /\ \A m \in Messages : chat[m] \in {"none", "purged"}

\* When an upload is over, its file is on the disk exactly if its metadata is
\* in the database (#206), unless the metadata was inserted by a call that
\* reported an error, a removal failed, or the room has been deleted.
UploadsAreWhole ==
    present /\ ~failed =>
      \A q \in Requests : step[q] \in {"sayFile", "done"} => (q \in disk <=> q \in metas)
=============================================================================

--------------------------- MODULE RoomStoreProofs ---------------------------
(***************************************************************************)
(* Proofs about RoomStore, for any number of requests, users and messages: *)
(* a deleted message stays deleted, a deleted room leaves nothing behind,  *)
(* a file and its metadata come and go together, a room has no more        *)
(* members than it admits, and one of them owns it.                        *)
(***************************************************************************)
EXTENDS RoomStore, FiltersProofs, TLAPS

(***************************************************************************)
(* The types of what these properties speak of.                            *)
(***************************************************************************)
DataTypes ==
    /\ present \in BOOLEAN /\ failed \in BOOLEAN /\ late \in BOOLEAN
    /\ chat \in [Messages -> {"none", "kept", "deleted", "purged"}]
    /\ text \in [Messages -> Texts]
    /\ step \in [Requests -> Steps]
    /\ target \in [Requests -> Messages \cup {NoMsg}]
    /\ disk \subseteq Requests /\ metas \subseteq Requests

\* The calls that touch neither the messages nor the files, and do not delete
\* the room.
Other(q) ==
    \/ \E u \in Users :
         \/ JoinFind(q, u) \/ LeaveFind(q, u)
         \/ DeleteRoom(q, u) \/ AdminDeleteRoom(q, u)
         \/ UploadFileHandler(q, u)
         \/ \E m \in Messages \ {q} :
              \/ EditMessageHandler(q, u, m)
              \/ DeleteMessageHandler(q, u, m)
              \/ ReplyMessageHandler(q, u, m)
    \/ JoinCount(q) \/ JoinUpdate(q) \/ LeavePull(q) \/ LeaveTransfer(q)
    \/ EditFind(q) \/ ReplyFind(q)
    \/ SayEdit(q) \/ SayDelete(q) \/ SayReply(q) \/ SayFile(q)

\* The steps between which they take a request.
Idle == {"new", "joinCount", "joinUpdate", "leavePull", "ownerPull", "leaveTransfer",
         "edit", "reply", "sayEdit", "sayDelete", "sayReply"}
Ahead == {"joinCount", "joinUpdate", "leavePull", "ownerPull", "leaveTransfer",
          "leaveDelete", "removeOne", "edit", "editUpdate", "deleteMsg", "reply",
          "replyInsert", "saveFile"}

\* What such a call does.
LEMMA OtherStep ==
    ASSUME DataTypes, NEW q \in Requests, Other(q)
    PROVE  /\ UNCHANGED <<present, chat, text, disk, metas, late>>
           /\ failed' \in BOOLEAN /\ (failed => failed')
           /\ target' \in [Requests -> Messages \cup {NoMsg}]
           /\ \E s \in Ahead \cup {"done"} :
                /\ step' = [step EXCEPT ![q] = s]
                /\ step[q] \in Idle \/ (step[q] = "sayFile" /\ s = "done")
<1>1. ASSUME NEW u \in Users,
             JoinFind(q, u) \/ LeaveFind(q, u) \/ DeleteRoom(q, u) \/ AdminDeleteRoom(q, u)
      PROVE  /\ UNCHANGED <<present, chat, text, disk, metas, late, failed, target>>
             /\ \E s \in Ahead : step' = [step EXCEPT ![q] = s]
             /\ step[q] \in Idle
  BY <1>1 DEF JoinFind, LeaveFind, DeleteRoom, AdminDeleteRoom, RemoveFind, Goto, Ahead, Idle,
              fileVars, roomVars, chatVars, histVars
<1>2. ASSUME NEW u \in Users, NEW m \in Messages \cup {NoMsg},
             NEW s \in {"edit", "deleteMsg", "reply", "saveFile"}, Enter(q, u, m, s)
      PROVE  /\ UNCHANGED <<present, chat, text, disk, metas, late, failed>>
             /\ target' \in [Requests -> Messages \cup {NoMsg}]
             /\ step' = [step EXCEPT ![q] = s] /\ s \in Ahead
             /\ step[q] \in Idle
  BY <1>2 DEF Enter, Goto, Ahead, Idle, fileVars, roomVars, chatVars, histVars, DataTypes
<1>3. ASSUME JoinCount(q) \/ JoinUpdate(q) \/ EditFind(q) \/ ReplyFind(q)
      PROVE  /\ UNCHANGED <<present, chat, text, disk, metas, late, failed, target>>
             /\ \E s \in Ahead \cup {"done"} : step' = [step EXCEPT ![q] = s]
             /\ step[q] \in Idle
  BY <1>3 DEF JoinCount, JoinUpdate, EditFind, ReplyFind, Goto, Ahead, Idle,
              fileVars, roomVars, chatVars, histVars
<1>4. ASSUME LeavePull(q) \/ LeaveTransfer(q)
      PROVE  /\ UNCHANGED <<present, chat, text, disk, metas, late, target>>
             /\ failed' = failed \/ failed' = TRUE
             /\ \E s \in Ahead \cup {"done"} : step' = [step EXCEPT ![q] = s]
             /\ step[q] \in Idle
  BY <1>4 DEF LeavePull, LeaveTransfer, Goto, Ahead, Idle, fileVars, chatVars, histVars
<1>5. ASSUME SayEdit(q) \/ SayDelete(q) \/ SayReply(q) \/ SayFile(q)
      PROVE  /\ UNCHANGED <<present, chat, text, disk, metas, late, failed, target>>
             /\ step' = [step EXCEPT ![q] = "done"]
             /\ step[q] \in Idle \/ step[q] = "sayFile"
  BY <1>5 DEF SayEdit, SayDelete, SayReply, SayFile, Say, Goto, Idle,
              fileVars, roomVars, chatVars, histVars
<1>6. failed \in BOOLEAN /\ target \in [Requests -> Messages \cup {NoMsg}]
  BY DEF DataTypes
<1>7. CASE \E u \in Users :
             \/ JoinFind(q, u) \/ LeaveFind(q, u) \/ DeleteRoom(q, u) \/ AdminDeleteRoom(q, u)
  BY <1>1, <1>6, <1>7
<1>8. CASE \E u \in Users :
             \/ UploadFileHandler(q, u)
             \/ \E m \in Messages \ {q} :
                  \/ EditMessageHandler(q, u, m) \/ DeleteMessageHandler(q, u, m)
                  \/ ReplyMessageHandler(q, u, m)
  <2>1. PICK u \in Users, m \in Messages \cup {NoMsg},
             s \in {"edit", "deleteMsg", "reply", "saveFile"} : Enter(q, u, m, s)
    BY <1>8 DEF UploadFileHandler, EditMessageHandler, DeleteMessageHandler,
                ReplyMessageHandler
  <2>2. QED
    BY <1>2, <1>6, <2>1
<1>9. CASE JoinCount(q) \/ JoinUpdate(q) \/ EditFind(q) \/ ReplyFind(q)
  BY <1>3, <1>6, <1>9
<1>10. CASE LeavePull(q) \/ LeaveTransfer(q)
  BY <1>4, <1>6, <1>10
<1>11. CASE SayEdit(q) \/ SayDelete(q) \/ SayReply(q) \/ SayFile(q)
  BY <1>5, <1>6, <1>11
<1>12. QED
  BY <1>7, <1>8, <1>9, <1>10, <1>11 DEF Other

\* The calls that do more.
LEMMA NextCases ==
    ASSUME Next
    PROVE  \/ \E q \in Requests :
                \/ Other(q) \/ LeaveDelete(q) \/ RemoveOne(q) \/ Purge(q) \/ PurgeFiles(q)
                \/ EditUpdate(q) \/ DeleteMsg(q) \/ ReplyInsert(q)
                \/ SaveFile(q) \/ InsertMeta(q) \/ RemoveFile(q)
           \/ \E m \in Posts : Post(m)
BY DEF Next, RequestNext, Other

\* What an insert writes.
LEMMA InsertTypes ==
    ASSUME DataTypes, NEW m \in Messages, NEW u, Insert(m, u)
    PROVE  /\ chat' \in [Messages -> {"none", "kept", "deleted", "purged"}]
           /\ text' \in [Messages -> Texts]
           /\ late' \in BOOLEAN
<1>1. m \in Texts
  BY DEF Texts
<1>2. QED
  BY <1>1 DEF DataTypes, Insert

\* The types are kept.
LEMMA DataTypesStep == DataTypes /\ [Next]_vars => DataTypes'
<1> SUFFICES ASSUME DataTypes, [Next]_vars PROVE DataTypes'
  OBVIOUS
<1>1. CASE UNCHANGED vars
  BY <1>1 DEF DataTypes, vars, roomVars, chatVars, fileVars, reqVars, histVars
<1>2. ASSUME NEW q \in Requests, Other(q) PROVE DataTypes'
  <2>1. Ahead \cup {"done"} \subseteq Steps
    BY DEF Ahead, Steps, LeaveSteps, JoinSteps
  <2>2. QED
    BY <1>2, <2>1, OtherStep DEF DataTypes
<1>3. ASSUME NEW q \in Requests, LeaveDelete(q) \/ RemoveOne(q) PROVE DataTypes'
  <2>1. {"purge", "done"} \subseteq Steps
    BY DEF Steps
  <2>2. QED
    BY <1>3, <2>1 DEF DataTypes, LeaveDelete, RemoveOne, Goto, chatVars, fileVars, histVars
<1>4. ASSUME NEW q \in Requests, Purge(q) \/ PurgeFiles(q) PROVE DataTypes'
  <2>1. {"purgeFiles", "done"} \subseteq Steps
    BY DEF Steps
  <2>2. QED
    BY <1>4, <2>1 DEF DataTypes, Purge, PurgeFiles, Goto, roomVars, chatVars, fileVars, histVars
<1>5. ASSUME NEW q \in Requests, EditUpdate(q) \/ DeleteMsg(q) PROVE DataTypes'
  <2>1. {"sayEdit", "sayDelete", "done"} \subseteq Steps /\ q \in Texts /\ Blank \in Texts
    BY DEF Steps, Texts, Messages
  <2>2. QED
    BY <1>5, <2>1 DEF DataTypes, EditUpdate, DeleteMsg, Goto, roomVars, fileVars, histVars
<1>6. ASSUME NEW q \in Requests, ReplyInsert(q) PROVE DataTypes'
  <2>1. {"sayReply", "done"} \subseteq Steps /\ q \in Messages
    BY DEF Steps, Messages
  <2>2. /\ chat' \in [Messages -> {"none", "kept", "deleted", "purged"}]
        /\ text' \in [Messages -> Texts]
        /\ late' \in BOOLEAN
    BY <1>6, <2>1, InsertTypes DEF ReplyInsert, DataTypes, chatVars
  <2>3. /\ UNCHANGED <<present, failed, target, disk, metas>>
        /\ \E s \in {"sayReply", "done"} : step' = [step EXCEPT ![q] = s]
    BY <1>6 DEF ReplyInsert, Goto, roomVars, fileVars
  <2>4. QED
    BY <2>1, <2>2, <2>3 DEF DataTypes
<1>7. ASSUME NEW q \in Requests, SaveFile(q) \/ InsertMeta(q) \/ RemoveFile(q) PROVE DataTypes'
  <2>1. {"insertMeta", "removeFile", "sayFile", "done"} \subseteq Steps
    BY DEF Steps
  <2>2. QED
    BY <1>7, <2>1 DEF DataTypes, SaveFile, InsertMeta, RemoveFile, Goto, roomVars, chatVars,
                      histVars
<1>8. ASSUME NEW m \in Posts, Post(m) PROVE DataTypes'
  <2>1. m \in Messages
    BY DEF Messages
  <2>2. QED
    BY <1>8, <2>1, InsertTypes DEF DataTypes, Post, roomVars, fileVars, reqVars
<1>9. QED
  BY <1>1, <1>2, <1>3, <1>4, <1>5, <1>6, <1>7, <1>8, NextCases

\* And they hold at the start.
LEMMA DataTypesInit == Init => DataTypes
BY DEF Init, DataTypes, Texts, Steps

(***************************************************************************)
(* What is deleted stays deleted.                                          *)
(***************************************************************************)

\* An edit asks again in its update whether the message is there, an insert
\* only writes a message that was never written.
LEMMA BlankStep ==
    ASSUME DataTypes, [Next]_vars, NEW m \in Messages, chat[m] \in {"deleted", "purged"}
    PROVE  chat'[m] \in {"deleted", "purged"} /\ text'[m] = text[m]
<1>1. CASE UNCHANGED vars
  BY <1>1 DEF vars, chatVars
<1>2. ASSUME NEW q \in Requests, Other(q) PROVE UNCHANGED <<chat, text>>
  BY <1>2, OtherStep
<1>3. ASSUME NEW q \in Requests,
             \/ LeaveDelete(q) \/ RemoveOne(q) \/ PurgeFiles(q)
             \/ SaveFile(q) \/ InsertMeta(q) \/ RemoveFile(q)
      PROVE  UNCHANGED <<chat, text>>
  BY <1>3 DEF LeaveDelete, RemoveOne, PurgeFiles, SaveFile, InsertMeta, RemoveFile, chatVars
<1>4. ASSUME NEW q \in Requests, Purge(q)
      PROVE  chat'[m] \in {"deleted", "purged"} /\ text'[m] = text[m]
  BY <1>4 DEF Purge, DataTypes
<1>5. ASSUME NEW q \in Requests, EditUpdate(q) \/ DeleteMsg(q)
      PROVE  chat'[m] = chat[m] /\ text'[m] = text[m]
  <2>1. Owns(q) => target[q] # m
    BY DEF Owns
  <2>2. QED
    BY <1>5, <2>1 DEF EditUpdate, DeleteMsg, DataTypes
<1>6. ASSUME NEW x \in Messages, NEW u, Insert(x, u)
      PROVE  chat'[m] = chat[m] /\ text'[m] = text[m]
  BY <1>6 DEF Insert, DataTypes
<1>7. ASSUME NEW q \in Requests, ReplyInsert(q)
      PROVE  chat'[m] = chat[m] /\ text'[m] = text[m]
  <2>1. q \in Messages
    BY DEF Messages
  <2>2. QED
    BY <1>6, <1>7, <2>1 DEF ReplyInsert, chatVars
<1>8. ASSUME NEW x \in Posts, Post(x)
      PROVE  chat'[m] = chat[m] /\ text'[m] = text[m]
  <2>1. x \in Messages
    BY DEF Messages
  <2>2. QED
    BY <1>6, <1>8, <2>1 DEF Post
<1>9. QED
  BY <1>1, <1>2, <1>3, <1>4, <1>5, <1>7, <1>8, NextCases

\* A deleted message is never edited, or given a text again.
THEOREM DeletedStays == Spec => DeletedStaysBlank
<1>1. DataTypes /\ [Next]_vars =>
        [\A m \in Messages : chat[m] \in {"deleted", "purged"} =>
           chat'[m] \in {"deleted", "purged"} /\ text'[m] = text[m]]_vars
  BY BlankStep
<1>2. QED
  BY <1>1, DataTypesInit, DataTypesStep, PTL DEF Spec, DeletedStaysBlank

(***************************************************************************)
(* Files and their metadata.                                               *)
(***************************************************************************)

\* Who deletes metadata has deleted the room, or failed to; an upload has left
\* what its handler has come to.
FilesFollow ==
    /\ \A q \in Requests : step[q] \in {"purge", "purgeFiles"} => ~present \/ failed
    /\ \A q \in Requests :
         /\ step[q] \in {"insertMeta", "removeFile"} =>
              q \in disk /\ (q \notin metas \/ failed)
         /\ step[q] \notin {"insertMeta", "removeFile", "sayFile", "done"} =>
              q \notin disk /\ q \notin metas

FileInv == DataTypes /\ FilesFollow /\ UploadsAreWhole

\* A step of one request leaves the others where they are.
LEMMA FileStep == FileInv /\ [Next]_vars => FileInv'
<1> SUFFICES ASSUME FileInv, [Next]_vars PROVE FilesFollow' /\ UploadsAreWhole'
  BY DataTypesStep DEF FileInv
<1> USE DEF FileInv
<1>1. CASE UNCHANGED vars
  BY <1>1 DEF FilesFollow, UploadsAreWhole, vars, roomVars, fileVars, reqVars, histVars
<1>2. ASSUME NEW q \in Requests, Other(q) PROVE FilesFollow' /\ UploadsAreWhole'
  <2>1. /\ UNCHANGED <<present, disk, metas>> /\ (failed => failed')
        /\ \E s \in Ahead \cup {"done"} :
             /\ step' = [step EXCEPT ![q] = s]
             /\ step[q] \in Idle \/ (step[q] = "sayFile" /\ s = "done")
    BY <1>2, OtherStep
  <2>2. QED
    BY <2>1 DEF FilesFollow, UploadsAreWhole, DataTypes, Ahead, Idle
<1>3. ASSUME NEW q \in Requests, LeaveDelete(q) \/ RemoveOne(q)
      PROVE  FilesFollow' /\ UploadsAreWhole'
  <2>1. /\ UNCHANGED <<disk, metas>> /\ (failed => failed')
        /\ step[q] \in {"leaveDelete", "removeOne"}
        /\ \/ step' = [step EXCEPT ![q] = "purge"] /\ (present' = FALSE \/ failed')
              /\ (present' => present)
           \/ step' = [step EXCEPT ![q] = "done"] /\ UNCHANGED <<present, failed>>
    BY <1>3 DEF LeaveDelete, RemoveOne, Goto, fileVars, histVars
  <2>2. QED
    BY <2>1 DEF FilesFollow, UploadsAreWhole, DataTypes
<1>4. ASSUME NEW q \in Requests, Purge(q) PROVE FilesFollow' /\ UploadsAreWhole'
  <2>1. /\ UNCHANGED <<disk, metas, present>> /\ (failed => failed')
        /\ step[q] = "purge" /\ step' = [step EXCEPT ![q] = "purgeFiles"]
    BY <1>4 DEF Purge, Goto, fileVars, roomVars
  <2>2. QED
    BY <2>1 DEF FilesFollow, UploadsAreWhole, DataTypes
<1>5. ASSUME NEW q \in Requests, PurgeFiles(q) PROVE FilesFollow' /\ UploadsAreWhole'
  <2>1. /\ UNCHANGED <<disk, present>> /\ (failed => failed') /\ metas' \subseteq metas
        /\ step[q] = "purgeFiles" /\ step' = [step EXCEPT ![q] = "done"]
    BY <1>5 DEF PurgeFiles, Goto, roomVars
  <2>2. ~present \/ failed
    BY <2>1 DEF FilesFollow
  <2>3. QED
    BY <2>1, <2>2 DEF FilesFollow, UploadsAreWhole, DataTypes
<1>6. ASSUME NEW q \in Requests, EditUpdate(q) \/ DeleteMsg(q) \/ ReplyInsert(q)
      PROVE  FilesFollow' /\ UploadsAreWhole'
  <2>1. /\ UNCHANGED <<disk, metas, present, failed>>
        /\ step[q] \in {"editUpdate", "deleteMsg", "replyInsert"}
        /\ \E s \in {"sayEdit", "sayDelete", "sayReply", "done"} : step' = [step EXCEPT ![q] = s]
    BY <1>6 DEF EditUpdate, DeleteMsg, ReplyInsert, Goto, fileVars, roomVars, histVars
  <2>2. QED
    BY <2>1 DEF FilesFollow, UploadsAreWhole, DataTypes
<1>7. ASSUME NEW q \in Requests, SaveFile(q) PROVE FilesFollow' /\ UploadsAreWhole'
  <2>1. /\ UNCHANGED <<metas, present, failed>> /\ step[q] = "saveFile"
        /\ \/ disk' = disk \cup {q} /\ step' = [step EXCEPT ![q] = "insertMeta"]
           \/ disk' = disk \cup {q} /\ step' = [step EXCEPT ![q] = "removeFile"]
           \/ disk' = disk /\ step' = [step EXCEPT ![q] = "done"]
    BY <1>7 DEF SaveFile, Goto, roomVars, histVars
  <2>2. QED
    BY <2>1 DEF FilesFollow, UploadsAreWhole, DataTypes
<1>8. ASSUME NEW q \in Requests, InsertMeta(q) PROVE FilesFollow' /\ UploadsAreWhole'
  <2>1. /\ UNCHANGED <<disk, present>> /\ step[q] = "insertMeta"
        /\ \/ /\ metas' = metas \cup {q} /\ failed' = failed
              /\ step' = [step EXCEPT ![q] = "sayFile"]
           \/ /\ metas' = metas \cup {q} /\ failed' = TRUE
              /\ step' = [step EXCEPT ![q] = "removeFile"]
           \/ /\ metas' = metas /\ failed' = failed
              /\ step' = [step EXCEPT ![q] = "removeFile"]
    BY <1>8 DEF InsertMeta, Goto, roomVars
  <2>2. QED
    BY <2>1 DEF FilesFollow, UploadsAreWhole, DataTypes
<1>9. ASSUME NEW q \in Requests, RemoveFile(q) PROVE FilesFollow' /\ UploadsAreWhole'
  <2>1. /\ UNCHANGED <<metas, present>> /\ step[q] = "removeFile"
        /\ step' = [step EXCEPT ![q] = "done"]
        /\ \/ disk' = disk \ {q} /\ failed' = failed
           \/ disk' = disk /\ failed' = TRUE
    BY <1>9 DEF RemoveFile, Goto, roomVars
  <2>2. QED
    BY <2>1 DEF FilesFollow, UploadsAreWhole, DataTypes
<1>10. ASSUME NEW m \in Posts, Post(m) PROVE FilesFollow' /\ UploadsAreWhole'
  BY <1>10 DEF Post, FilesFollow, UploadsAreWhole, roomVars, fileVars, reqVars
<1>11. QED
  BY <1>1, <1>2, <1>3, <1>4, <1>5, <1>6, <1>7, <1>8, <1>9, <1>10, NextCases

\* When an upload is over, its file is there exactly if its metadata is, but
\* for the failures that UploadsAreWhole names.
THEOREM UploadsStayWhole == Spec => []UploadsAreWhole
<1>1. Init => FileInv
  BY DataTypesInit DEF FileInv, FilesFollow, UploadsAreWhole, Init
<1>2. FileInv => UploadsAreWhole
  BY DEF FileInv
<1>3. QED
  BY <1>1, <1>2, FileStep, PTL DEF Spec

(***************************************************************************)
(* A deleted room leaves nothing behind.                                   *)
(***************************************************************************)

\* Until somebody has purged the room, somebody is about to.
SomebodyPurges ==
    ~present /\ ~late /\ ~failed =>
        \/ \E q \in Requests : step[q] = "purge"
        \/ /\ \A m \in Messages : chat[m] \in {"none", "purged"}
           /\ metas = {} \/ \E q \in Requests : step[q] = "purgeFiles"

\* Two deletions at once purge twice, which does no harm.
LEMMA PurgeStep == DataTypes /\ SomebodyPurges /\ [Next]_vars => SomebodyPurges'
<1> SUFFICES ASSUME DataTypes, SomebodyPurges, [Next]_vars,
                    ~present', ~late', ~failed'
             PROVE  \/ \E q \in Requests : step'[q] = "purge"
                    \/ /\ \A m \in Messages : chat'[m] \in {"none", "purged"}
                       /\ metas' = {} \/ \E q \in Requests : step'[q] = "purgeFiles"
  BY DEF SomebodyPurges
<1> DEFINE Goal == \/ \E q \in Requests : step'[q] = "purge"
                   \/ /\ \A m \in Messages : chat'[m] \in {"none", "purged"}
                      /\ metas' = {} \/ \E q \in Requests : step'[q] = "purgeFiles"
<1>1. CASE UNCHANGED vars
  BY <1>1 DEF SomebodyPurges, vars, roomVars, chatVars, fileVars, reqVars, histVars
<1>2. ASSUME NEW q \in Requests, step[q] \notin {"purge", "purgeFiles"},
             NEW s, step' = [step EXCEPT ![q] = s],
             UNCHANGED <<present, late, metas>>, failed => failed',
             \A m \in Messages : chat[m] \in {"none", "purged"} =>
               chat'[m] \in {"none", "purged"}
      PROVE  Goal
  <2>1. ~present /\ ~late /\ ~failed
    BY <1>2
  <2>2. \A p \in Requests : step[p] \in {"purge", "purgeFiles"} => step'[p] = step[p]
    BY <1>2 DEF DataTypes
  <2>3. CASE \E p \in Requests : step[p] = "purge"
    BY <2>2, <2>3
  <2>4. CASE /\ \A m \in Messages : chat[m] \in {"none", "purged"}
             /\ metas = {} \/ \E p \in Requests : step[p] = "purgeFiles"
    BY <1>2, <2>2, <2>4
  <2>5. QED
    BY <2>1, <2>3, <2>4 DEF SomebodyPurges
<1>3. ASSUME NEW q \in Requests, Other(q) PROVE Goal
  <2>1. PICK s \in Ahead \cup {"done"} :
          /\ step' = [step EXCEPT ![q] = s]
          /\ step[q] \in Idle \/ (step[q] = "sayFile" /\ s = "done")
    BY <1>3, OtherStep
  <2>2. step[q] \notin {"purge", "purgeFiles"}
    BY <2>1 DEF Idle
  <2>3. UNCHANGED <<present, chat, late, metas>> /\ (failed => failed')
    BY <1>3, OtherStep
  <2> HIDE DEF Goal
  <2>4. QED
    BY <1>2, <2>1, <2>2, <2>3
<1>4. ASSUME NEW q \in Requests, LeaveDelete(q) \/ RemoveOne(q) PROVE Goal
  <2>1. CASE step' = [step EXCEPT ![q] = "purge"]
    BY <2>1 DEF DataTypes
  <2>2. CASE step' # [step EXCEPT ![q] = "purge"]
    <3>1. /\ step' = [step EXCEPT ![q] = "done"] /\ step[q] = "removeOne"
          /\ UNCHANGED <<present, late, metas, failed, chat>>
      BY <1>4, <2>2 DEF LeaveDelete, RemoveOne, Goto, fileVars, chatVars, histVars
    <3> HIDE DEF Goal
    <3>2. QED
      BY <1>2, <3>1
  <2>3. QED
    BY <2>1, <2>2
<1>5. ASSUME NEW q \in Requests, Purge(q) PROVE Goal
  <2>1. /\ step' = [step EXCEPT ![q] = "purgeFiles"]
        /\ chat' = [m \in Messages |-> IF chat[m] = "none" THEN "none" ELSE "purged"]
    BY <1>5 DEF Purge, Goto
  <2>2. step'[q] = "purgeFiles"
    BY <2>1 DEF DataTypes
  <2>3. QED
    BY <2>1, <2>2
<1>6. ASSUME NEW q \in Requests, PurgeFiles(q) PROVE Goal
  <2>1. /\ step' = [step EXCEPT ![q] = "done"] /\ step[q] = "purgeFiles"
        /\ metas' = {} /\ UNCHANGED <<present, chat, late, failed>>
    BY <1>6 DEF PurgeFiles, Goto, roomVars, chatVars
  <2>2. \A p \in Requests : step[p] = "purge" => step'[p] = "purge"
    BY <2>1 DEF DataTypes
  <2>3. QED
    BY <2>1, <2>2 DEF SomebodyPurges
<1>7. ASSUME NEW q \in Requests, EditUpdate(q) \/ DeleteMsg(q) PROVE Goal
  <2>1. /\ step[q] \in {"editUpdate", "deleteMsg"}
        /\ \E s \in {"sayEdit", "sayDelete", "done"} : step' = [step EXCEPT ![q] = s]
        /\ UNCHANGED <<present, late, metas, failed>>
        /\ chat' = chat \/ (Owns(q) /\ chat' = [chat EXCEPT ![target[q]] = "deleted"])
    BY <1>7 DEF EditUpdate, DeleteMsg, Goto, roomVars, fileVars, histVars
  <2>2. \A m \in Messages : chat[m] \in {"none", "purged"} => chat'[m] \in {"none", "purged"}
    BY <2>1 DEF Owns, DataTypes
  <2> HIDE DEF Goal
  <2>3. QED
    BY <1>2, <2>1, <2>2
<1>8. ASSUME NEW x, NEW u, Insert(x, u), UNCHANGED present PROVE FALSE
  BY <1>8 DEF Insert
<1>9. ASSUME NEW q \in Requests, ReplyInsert(q) PROVE Goal
  <2>1. CASE Insert(q, user[q])
    BY <1>8, <1>9, <2>1 DEF ReplyInsert, roomVars
  <2>2. CASE ~Insert(q, user[q])
    <3>1. /\ step[q] = "replyInsert" /\ step' = [step EXCEPT ![q] = "done"]
          /\ UNCHANGED <<present, late, metas, failed, chat>>
      BY <1>9, <2>2 DEF ReplyInsert, Goto, roomVars, fileVars, chatVars
    <3> HIDE DEF Goal
    <3>2. QED
      BY <1>2, <3>1
  <2>3. QED
    BY <2>1, <2>2
<1>10. ASSUME NEW q \in Requests, SaveFile(q) \/ InsertMeta(q) \/ RemoveFile(q) PROVE Goal
  <2>1. /\ step[q] \in {"saveFile", "insertMeta", "removeFile"}
        /\ \E s \in {"insertMeta", "removeFile", "sayFile", "done"} :
             step' = [step EXCEPT ![q] = s]
        /\ UNCHANGED <<present, chat>> /\ (failed => failed')
        /\ (metas' = metas /\ late' = late) \/ late' = (late \/ ~present)
    BY <1>10 DEF SaveFile, InsertMeta, RemoveFile, Goto, roomVars, chatVars, histVars
  <2>2. metas' = metas /\ late' = late
    <3>1. ~present /\ ~late'
      BY <2>1
    <3>2. late' # (late \/ ~present)
      BY <3>1, Zenon
    <3>3. QED
      BY <2>1, <3>2, Zenon
  <2> HIDE DEF Goal
  <2>3. QED
    BY <1>2, <2>1, <2>2
<1>11. ASSUME NEW m \in Posts, Post(m) PROVE Goal
  BY <1>8, <1>11 DEF Post, roomVars
<1>12. QED
  BY <1>1, <1>3, <1>4, <1>5, <1>6, <1>7, <1>9, <1>10, <1>11, NextCases

\* However many delete a room at once, nothing of it is left that was not
\* written after the deletion, unless a call failed.
THEOREM NothingLeft == Spec => []NoOrphans
<1>1. Init => SomebodyPurges
  BY DEF Init, SomebodyPurges
<1>2. SomebodyPurges => NoOrphans
  BY DEF SomebodyPurges, NoOrphans
<1>3. QED
  BY <1>1, <1>2, DataTypesInit, DataTypesStep, PurgeStep, PTL DEF Spec

(***************************************************************************)
(* Members and owner of the room, and the requests about them.             *)
(***************************************************************************)
RoomTypes ==
    /\ members \in Seq(Users)
    /\ owner \in Users
    /\ user \in [Requests -> Users]
    /\ found \in [Requests -> Seq(Users)]
    /\ overlap \in BOOLEAN

\* A creator who hands the room over has found somebody else in it.
HasHeir ==
    \A q \in Requests : step[q] = "leaveTransfer" => Without(found[q], user[q]) # <<>>

\* What is left of a list without one of its members.
LEMMA WithoutFacts ==
    ASSUME NEW l \in Seq(Users), NEW u
    PROVE  /\ Without(l, u) \in Seq(Users)
           /\ Len(Without(l, u)) <= Len(l)
           /\ \A i \in 1..Len(l) : l[i] # u =>
                \E j \in 1..Len(Without(l, u)) : Without(l, u)[j] = l[i]
           /\ (\A i, j \in 1..Len(l) : l[i] = l[j] => i = j) =>
                \A i, j \in 1..Len(Without(l, u)) : Without(l, u)[i] = Without(l, u)[j] => i = j
<1>1. Without(l, u) \in Seq(Users) /\ Len(Without(l, u)) <= Len(l)
  BY OnlyInType DEF Without
<1>2. ASSUME NEW i \in 1..Len(l), l[i] # u
      PROVE  \E j \in 1..Len(Without(l, u)) : Without(l, u)[j] = l[i]
  <2> DEFINE x == l[i]
             K == Users \ {u}
  <2>1. x \in K
    BY <1>2, ElementOfSeq
  <2>2. \E k \in 1..Len(l) : l[k] = x
    OBVIOUS
  <2>3. Without(l, u) = OnlyIn(l, K)
    BY DEF Without
  <2> HIDE DEF x, K
  <2>4. \E j \in 1..Len(OnlyIn(l, K)) : OnlyIn(l, K)[j] = x
    BY <2>1, <2>2, OnlyInElements
  <2>5. QED
    BY <2>3, <2>4 DEF x
<1>3. ASSUME \A i, j \in 1..Len(l) : l[i] = l[j] => i = j
      PROVE  \A i, j \in 1..Len(Without(l, u)) : Without(l, u)[i] = Without(l, u)[j] => i = j
  BY <1>3, OnlyInDistinct DEF Without
<1>4. QED
  BY <1>1, <1>2, <1>3

\* The calls that leave members and owner alone, and are no part of a leave
\* before and after: only the deletion by the owner or an administrator makes
\* the room disappear, and only JoinCount goes on to a join.
Aside(q) ==
    /\ UNCHANGED <<members, owner, found, overlap>>
    /\ present' = present \/ (present' = FALSE /\ step[q] = "removeOne")
    /\ failed => failed'
    /\ step[q] \notin LeaveSteps \cup {"joinUpdate"}
    /\ \E s \in Steps \ LeaveSteps, u \in Users :
         /\ step' = [step EXCEPT ![q] = s]
         /\ user' = [user EXCEPT ![q] = u]
         /\ s \in JoinSteps => step[q] = "joinCount"

LEMMA RoomCases ==
    ASSUME DataTypes, RoomTypes, Next
    PROVE  \/ \E q \in Requests :
                \/ Aside(q)
                \/ \E u \in Users : JoinFind(q, u) \/ LeaveFind(q, u)
                \/ JoinUpdate(q) \/ LeavePull(q) \/ LeaveTransfer(q) \/ LeaveDelete(q)
           \/ UNCHANGED <<roomVars, step, user, found, overlap, failed>>
<1> DEFINE Late == {"done", "purge", "purgeFiles", "editUpdate", "sayEdit", "sayDelete",
                    "replyInsert", "sayReply", "insertMeta", "removeFile", "sayFile"}
           Early == {"removeOne", "edit", "deleteMsg", "reply", "saveFile"}
<1>1. /\ Late \subseteq Steps \ (LeaveSteps \cup JoinSteps)
      /\ Early \subseteq Steps \ (LeaveSteps \cup JoinSteps)
      /\ "joinCount" \notin LeaveSteps \cup {"joinUpdate"}
      /\ {"joinUpdate", "done"} \subseteq Steps \ LeaveSteps /\ "done" \notin JoinSteps
  BY DEF Steps, LeaveSteps, JoinSteps
<1>2. ASSUME NEW q \in Requests, UNCHANGED <<members, owner, found, overlap, user>>,
             present' = present \/ (present' = FALSE /\ step[q] = "removeOne"),
             failed => failed',
             step[q] \in Late \cup Early, NEW s \in Late, step' = [step EXCEPT ![q] = s]
      PROVE  Aside(q)
  <2>1. user' = [user EXCEPT ![q] = user[q]] /\ user[q] \in Users
    BY <1>2 DEF RoomTypes
  <2>2. s \in Steps \ LeaveSteps /\ s \notin JoinSteps
    BY <1>1, <1>2
  <2>3. step[q] \notin LeaveSteps \cup {"joinUpdate"}
    BY <1>2 DEF LeaveSteps
  <2>4. QED
    BY <1>2, <2>1, <2>2, <2>3 DEF Aside
<1>3. ASSUME NEW q \in Requests, UNCHANGED <<members, owner, found, overlap, present, failed>>,
             step[q] = "new", NEW s \in Early, step' = [step EXCEPT ![q] = s],
             NEW u \in Users, user' = [user EXCEPT ![q] = u]
      PROVE  Aside(q)
  <2>1. s \in Steps \ LeaveSteps /\ s \notin JoinSteps
    BY <1>1, <1>3
  <2>2. step[q] \notin LeaveSteps \cup {"joinUpdate"}
    BY <1>3 DEF LeaveSteps
  <2>3. QED
    BY <1>3, <2>1, <2>2 DEF Aside
<1>4. ASSUME NEW q \in Requests, NEW u \in Users, DeleteRoom(q, u) \/ AdminDeleteRoom(q, u)
      PROVE  Aside(q)
  <2>1. RemoveFind(q, u)
    BY <1>4 DEF DeleteRoom, AdminDeleteRoom
  <2>2. QED
    BY <1>3, <2>1 DEF RemoveFind, Goto, roomVars, histVars
<1>5. ASSUME NEW q \in Requests, NEW u \in Users, NEW m,
             NEW s \in {"edit", "deleteMsg", "reply", "saveFile"}, Enter(q, u, m, s)
      PROVE  Aside(q)
  BY <1>3, <1>5 DEF Enter, Goto, roomVars, histVars
<1>6. ASSUME NEW q \in Requests, NEW u \in Users,
             \/ UploadFileHandler(q, u)
             \/ \E m \in Messages \ {q} :
                  \/ EditMessageHandler(q, u, m) \/ DeleteMessageHandler(q, u, m)
                  \/ ReplyMessageHandler(q, u, m)
      PROVE  Aside(q)
  BY <1>5, <1>6 DEF UploadFileHandler, EditMessageHandler, DeleteMessageHandler,
                    ReplyMessageHandler
<1>7. ASSUME NEW q \in Requests, JoinCount(q) PROVE Aside(q)
  <2>1. user' = [user EXCEPT ![q] = user[q]] /\ user[q] \in Users
    BY <1>7 DEF RoomTypes, JoinCount
  <2>2. PICK s \in {"joinUpdate", "done"} : step' = [step EXCEPT ![q] = s]
    BY <1>7 DEF JoinCount, Goto
  <2>3. /\ UNCHANGED <<members, owner, found, overlap, present, failed>>
        /\ step[q] = "joinCount"
    BY <1>7 DEF JoinCount, roomVars, histVars
  <2>4. QED
    BY <1>1, <2>1, <2>2, <2>3 DEF Aside
<1>8. ASSUME NEW q \in Requests, RemoveOne(q) \/ Purge(q) \/ PurgeFiles(q) PROVE Aside(q)
  <2>1. /\ UNCHANGED <<members, owner, found, overlap, user>> /\ (failed => failed')
        /\ present' = present \/ (present' = FALSE /\ step[q] = "removeOne")
        /\ step[q] \in Late \cup Early
        /\ \E s \in Late : step' = [step EXCEPT ![q] = s]
    BY <1>8 DEF RemoveOne, Purge, PurgeFiles, Goto, roomVars, histVars
  <2>2. QED
    BY <1>2, <2>1
<1>9. ASSUME NEW q \in Requests, \/ EditFind(q) \/ EditUpdate(q) \/ DeleteMsg(q)
                                 \/ ReplyFind(q) \/ ReplyInsert(q)
      PROVE  Aside(q)
  <2>1. /\ UNCHANGED <<members, owner, found, overlap, user, present, failed>>
        /\ step[q] \in Late \cup Early
        /\ \E s \in Late : step' = [step EXCEPT ![q] = s]
    BY <1>9 DEF EditFind, EditUpdate, DeleteMsg, ReplyFind, ReplyInsert, Goto, roomVars, histVars
  <2>2. QED
    BY <1>2, <2>1
<1>10. ASSUME NEW q \in Requests, SayEdit(q) \/ SayDelete(q) \/ SayReply(q) \/ SayFile(q)
       PROVE  Aside(q)
  <2>1. /\ UNCHANGED <<members, owner, found, overlap, user, present, failed>>
        /\ step[q] \in Late
        /\ step' = [step EXCEPT ![q] = "done"]
    BY <1>10 DEF SayEdit, SayDelete, SayReply, SayFile, Say, Goto, roomVars, histVars
  <2>2. QED
    BY <1>2, <2>1
<1>11. ASSUME NEW q \in Requests, SaveFile(q) \/ InsertMeta(q) \/ RemoveFile(q) PROVE Aside(q)
  <2>1. /\ UNCHANGED <<members, owner, found, overlap, user, present>> /\ (failed => failed')
        /\ step[q] \in Late \cup Early
        /\ \E s \in Late : step' = [step EXCEPT ![q] = s]
    BY <1>11 DEF SaveFile, InsertMeta, RemoveFile, Goto, roomVars, histVars
  <2>2. QED
    BY <1>2, <2>1
<1>12. ASSUME NEW m \in Posts, Post(m)
       PROVE  UNCHANGED <<roomVars, step, user, found, overlap, failed>>
  BY <1>12 DEF Post, reqVars
<1>13. QED
  BY <1>4, <1>6, <1>7, <1>8, <1>9, <1>10, <1>11, <1>12 DEF Next, RequestNext

LEMMA RoomTypesInit == Init => RoomTypes /\ HasHeir
<1>1. Founder \in Users
  BY RoomAssumption
<1>2. <<>> \in Seq(Users) /\ <<Founder>> \in Seq(Users)
  BY <1>1
<1> SUFFICES ASSUME Init PROVE RoomTypes /\ HasHeir
  OBVIOUS
<1>3. members \in Seq(Users) /\ owner \in Users /\ overlap \in BOOLEAN
  BY <1>1, <1>2 DEF Init
<1>4. user \in [Requests -> Users] /\ found \in [Requests -> Seq(Users)]
  <2>1. user = [q \in Requests |-> Founder] /\ found = [q \in Requests |-> <<>>]
    BY DEF Init
  <2>2. QED
    BY <1>1, <1>2, <2>1, Zenon
<1>5. \A q \in Requests : step[q] # "leaveTransfer"
  BY DEF Init
<1>6. QED
  BY <1>3, <1>4, <1>5 DEF RoomTypes, HasHeir

\* The types, and the heir: what is found is never empty without the creator
\* when the room is handed over, so Members[0] exists.
LEMMA RoomTypesStep ==
    DataTypes /\ RoomTypes /\ HasHeir /\ [Next]_vars => RoomTypes' /\ HasHeir'
<1> SUFFICES ASSUME DataTypes, RoomTypes, HasHeir, [Next]_vars PROVE RoomTypes' /\ HasHeir'
  OBVIOUS
<1>0. step \in [Requests -> Steps]
  BY DEF DataTypes
<1>1. CASE UNCHANGED <<roomVars, step, user, found, overlap, failed>>
  BY <1>1 DEF RoomTypes, HasHeir, roomVars
<1>2. ASSUME NEW q \in Requests, Aside(q) PROVE RoomTypes' /\ HasHeir'
  <2>1. PICK s \in Steps \ LeaveSteps, u \in Users :
          step' = [step EXCEPT ![q] = s] /\ user' = [user EXCEPT ![q] = u]
    BY <1>2 DEF Aside
  <2>2. UNCHANGED <<members, owner, found, overlap>> /\ s # "leaveTransfer"
    BY <1>2, <2>1 DEF Aside, LeaveSteps
  <2>3. QED
    BY <1>0, <2>1, <2>2 DEF RoomTypes, HasHeir
<1>3. ASSUME NEW q \in Requests, NEW u \in Users, JoinFind(q, u) PROVE RoomTypes' /\ HasHeir'
  BY <1>0, <1>3 DEF RoomTypes, HasHeir, JoinFind, Goto, roomVars
<1>4. ASSUME NEW q \in Requests, NEW u \in Users, LeaveFind(q, u) PROVE RoomTypes' /\ HasHeir'
  BY <1>0, <1>4 DEF RoomTypes, HasHeir, LeaveFind, Goto, roomVars
<1>5. ASSUME NEW q \in Requests, JoinUpdate(q) PROVE RoomTypes' /\ HasHeir'
  <2>1. user[q] \in Users /\ Append(members, user[q]) \in Seq(Users)
    BY AppendProperties DEF RoomTypes
  <2>2. QED
    BY <1>0, <1>5, <2>1 DEF RoomTypes, HasHeir, JoinUpdate, Goto, histVars
<1>6. ASSUME NEW q \in Requests, LeavePull(q) PROVE RoomTypes' /\ HasHeir'
  <2>1. Without(members, user[q]) \in Seq(Users)
    BY WithoutFacts DEF RoomTypes
  <2>2. /\ UNCHANGED <<owner, user, found, overlap>>
        /\ members' \in {members, Without(members, user[q])}
        /\ \E s \in {"done", "leaveDelete", "leaveTransfer"} :
             /\ step' = [step EXCEPT ![q] = s]
             /\ s = "leaveTransfer" => Without(found[q], user[q]) # <<>>
    BY <1>6 DEF LeavePull, Goto, histVars
  <2>3. QED
    BY <1>0, <2>1, <2>2 DEF RoomTypes, HasHeir
<1>7. ASSUME NEW q \in Requests, LeaveTransfer(q) PROVE RoomTypes' /\ HasHeir'
  <2>1. Without(found[q], user[q]) \in Seq(Users) /\ Without(found[q], user[q]) # <<>>
    BY <1>7, WithoutFacts DEF RoomTypes, HasHeir, LeaveTransfer
  <2>2. Head(Without(found[q], user[q])) \in Users
    BY <2>1, HeadTailProperties
  <2>3. /\ UNCHANGED <<members, user, found, overlap>>
        /\ owner' \in {owner, Head(Without(found[q], user[q]))}
        /\ step' = [step EXCEPT ![q] = "done"]
    BY <1>7 DEF LeaveTransfer, Goto
  <2>4. QED
    BY <1>0, <2>2, <2>3 DEF RoomTypes, HasHeir
<1>8. ASSUME NEW q \in Requests, LeaveDelete(q) PROVE RoomTypes' /\ HasHeir'
  <2>1. /\ UNCHANGED <<members, owner, user, found, overlap>>
        /\ step' = [step EXCEPT ![q] = "purge"]
    BY <1>8 DEF LeaveDelete, Goto
  <2>2. QED
    BY <1>0, <2>1 DEF RoomTypes, HasHeir
<1>9. CASE UNCHANGED vars
  BY <1>1, <1>9 DEF vars, reqVars, histVars
<1>10. QED
  BY <1>1, <1>2, <1>3, <1>4, <1>5, <1>6, <1>7, <1>8, <1>9, RoomCases

\* Only JoinUpdate and LeavePull change the members.
LEMMA MembersStep ==
    ASSUME DataTypes, RoomTypes, [Next]_vars
    PROVE  \/ members' = members
           \/ \E q \in Requests : JoinUpdate(q) \/ LeavePull(q)
<1>1. ASSUME NEW q \in Requests, Aside(q) PROVE members' = members
  BY <1>1 DEF Aside
<1>2. ASSUME NEW q \in Requests, NEW u \in Users, JoinFind(q, u) \/ LeaveFind(q, u)
      PROVE  members' = members
  BY <1>2 DEF JoinFind, LeaveFind, roomVars
<1>3. ASSUME NEW q \in Requests, LeaveTransfer(q) \/ LeaveDelete(q) PROVE members' = members
  BY <1>3 DEF LeaveTransfer, LeaveDelete
<1>4. CASE UNCHANGED roomVars
  BY <1>4 DEF roomVars
<1>5. QED
  BY <1>1, <1>2, <1>3, <1>4, RoomCases DEF vars

\* A join appends under the limit, a leave takes somebody out.
LEMMA LimitStep ==
    DataTypes /\ RoomTypes /\ WithinLimit /\ [Next]_vars => WithinLimit'
<1> SUFFICES ASSUME DataTypes, RoomTypes, WithinLimit, [Next]_vars PROVE WithinLimit'
  OBVIOUS
<1>0. members \in Seq(Users) /\ DOMAIN members = 1..Len(members) /\ Len(members) \in Nat
      /\ Limit \in Nat
  BY RoomAssumption, LenProperties DEF RoomTypes, Limit
<1>1. CASE members' = members
  BY <1>1 DEF WithinLimit, Limit
<1>2. ASSUME NEW q \in Requests, JoinUpdate(q), members' # members PROVE WithinLimit'
  <2>1. /\ user[q] \notin MemberSet /\ (Limit = 0 \/ Len(members) < Limit)
        /\ members' = Append(members, user[q]) /\ user[q] \in Users
    BY <1>2 DEF JoinUpdate, RoomTypes
  <2>2. /\ members' \in Seq(Users) /\ Len(members') = Len(members) + 1
        /\ members'[Len(members) + 1] = user[q]
        /\ \A i \in 1..Len(members) : members'[i] = members[i] /\ members[i] # user[q]
    BY <1>0, <2>1, AppendProperties DEF MemberSet
  <2>3. \A i, j \in 1..(Len(members) + 1) : members'[i] = members'[j] => i = j
    <3>1. \A i, j \in 1..Len(members) : members[i] = members[j] => i = j
      BY <1>0 DEF WithinLimit
    <3> DEFINE n == Len(members)
               last == user[q]
    <3>2. n \in Nat /\ members'[n + 1] = last
          /\ \A i \in 1..n : members'[i] = members[i] /\ members[i] # last
      BY <1>0, <2>2
    <3> HIDE DEF n, last
    <3>3. \A i, j \in 1..n : members[i] = members[j] => i = j
      BY <3>1 DEF n
    <3>4. \A i, j \in 1..(n + 1) : members'[i] = members'[j] => i = j
      <4>1. \A i \in 1..(n + 1) : i \in 1..n \/ i = n + 1
        BY <3>2
      <4>2. QED
        BY <3>2, <3>3, <4>1, Zenon
    <3>5. QED
      BY <3>4 DEF n
  <2>4. DOMAIN members' = 1..(Len(members) + 1)
    BY <2>2, LenProperties
  <2>5. Limit' # 0 => Len(members') <= Limit'
    BY <1>0, <2>1, <2>2 DEF Limit
  <2>6. QED
    BY <2>3, <2>4, <2>5 DEF WithinLimit
<1>3. ASSUME NEW q \in Requests, LeavePull(q), members' # members PROVE WithinLimit'
  <2> DEFINE r == Without(members, user[q])
  <2>1. members' = r
    BY <1>3 DEF LeavePull
  <2>2. \A i, j \in 1..Len(members) : members[i] = members[j] => i = j
    BY <1>0 DEF WithinLimit
  <2>3. /\ r \in Seq(Users) /\ Len(r) <= Len(members)
        /\ \A i, j \in 1..Len(r) : r[i] = r[j] => i = j
    BY <1>0, <2>2, WithoutFacts
  <2> HIDE DEF r
  <2>4. DOMAIN r = 1..Len(r) /\ Len(r) \in Nat
    BY <2>3, LenProperties
  <2>5. QED
    BY <1>0, <2>1, <2>3, <2>4 DEF WithinLimit, Limit
<1>4. QED
  BY <1>1, <1>2, <1>3, MembersStep

\* However many join at once, the room has no more members than it admits, and
\* nobody twice.
THEOREM RoomWithinLimit == Spec => []WithinLimit
<1> DEFINE I == DataTypes /\ RoomTypes /\ HasHeir /\ WithinLimit
<1>1. Init => WithinLimit
  BY RoomAssumption DEF Init, WithinLimit, Limit
<1>2. Init => I
  BY <1>1, DataTypesInit, RoomTypesInit
<1>3. I /\ [Next]_vars => I'
  BY DataTypesStep, RoomTypesStep, LimitStep
<1>4. QED
  BY <1>2, <1>3, PTL DEF Spec

(***************************************************************************)
(* Who owns the room.                                                      *)
(***************************************************************************)

\* As long as no two leaves, and no leave and a join, overlapped, whoever
\* leaves is alone with the members.
Apart ==
    ~overlap => \A p, q \in Requests : p # q /\ Leaving(p) => ~Leaving(q) /\ ~Joining(q)

\* So what the creator read when he began to leave is still what is there.
Handover ==
    ~overlap => \A q \in Requests :
        /\ step[q] = "ownerPull" => found[q] = members
        /\ present /\ step[q] = "leaveTransfer" =>
             members = Without(found[q], user[q]) /\ members # <<>>
        /\ present /\ step[q] = "leaveDelete" => members = <<>>

\* Who leaves as somebody else than the creator still is somebody else; until
\* the creator has left, he is a member.
OwnerStays ==
    present /\ ~IsDefault /\ ~overlap /\ ~failed =>
        /\ \A q \in Requests : step[q] = "leavePull" => user[q] # owner
        /\ (\A q \in Requests : step[q] \notin {"leaveTransfer", "leaveDelete"})
             => owner \in MemberSet

\* Only JoinFind and LeaveFind begin something, and they look for the others
\* at that moment.
LEMMA ApartStep == DataTypes /\ RoomTypes /\ Apart /\ [Next]_vars => Apart'
<1> SUFFICES ASSUME DataTypes, RoomTypes, Apart, [Next]_vars, ~overlap' PROVE Apart'
  BY DEF Apart
<1>0. step \in [Requests -> Steps]
  BY DEF DataTypes
<1>1. CASE UNCHANGED <<roomVars, step, user, found, overlap, failed>>
  BY <1>1 DEF Apart, Leaving, Joining
<1>2. ASSUME NEW q \in Requests, overlap' = overlap, NEW s,
             step' = [step EXCEPT ![q] = s],
             s \in LeaveSteps => step[q] \in LeaveSteps,
             s \in JoinSteps => step[q] \in JoinSteps
      PROVE  Apart'
  BY <1>0, <1>2 DEF Apart, Leaving, Joining
<1>3. ASSUME NEW q \in Requests, Aside(q) PROVE Apart'
  BY <1>2, <1>3 DEF Aside, JoinSteps
<1>4. ASSUME NEW q \in Requests, NEW u \in Users, JoinFind(q, u) PROVE Apart'
  <2>1. /\ ~overlap /\ step' = [step EXCEPT ![q] = "joinCount"]
        /\ \A p \in Requests : ~Leaving(p)
    BY <1>4 DEF JoinFind, Goto
  <2>2. "joinCount" \notin LeaveSteps
    BY DEF LeaveSteps
  <2>3. \A p \in Requests : ~(step'[p] \in LeaveSteps)
    BY <1>0, <2>1, <2>2 DEF Leaving
  <2>4. QED
    BY <2>3 DEF Apart, Leaving
<1>5. ASSUME NEW q \in Requests, NEW u \in Users, LeaveFind(q, u) PROVE Apart'
  <2>1. /\ ~overlap
        /\ \E s \in LeaveSteps : step' = [step EXCEPT ![q] = s]
        /\ \A p \in Requests : ~Leaving(p) /\ ~Joining(p)
    BY <1>5 DEF LeaveFind, Goto, LeaveSteps
  <2>2. \A p \in Requests : p # q => ~(step'[p] \in LeaveSteps) /\ ~(step'[p] \in JoinSteps)
    BY <1>0, <2>1 DEF Leaving, Joining
  <2>3. QED
    BY <2>2 DEF Apart, Leaving, Joining
<1>6. ASSUME NEW q \in Requests,
             JoinUpdate(q) \/ LeavePull(q) \/ LeaveTransfer(q) \/ LeaveDelete(q)
      PROVE  Apart'
  <2>1. /\ overlap' = overlap
        /\ \E s \in {"done", "leaveTransfer", "leaveDelete", "purge"} :
             /\ step' = [step EXCEPT ![q] = s]
             /\ s \in {"leaveTransfer", "leaveDelete"} => step[q] \in LeaveSteps
    BY <1>6 DEF JoinUpdate, LeavePull, LeaveTransfer, LeaveDelete, Goto, histVars, LeaveSteps
  <2>2. QED
    BY <1>2, <2>1 DEF LeaveSteps, JoinSteps
<1>7. QED
  BY <1>1, <1>3, <1>4, <1>5, <1>6, RoomCases DEF vars, reqVars, histVars

\* Nobody else changes the members between the steps of a leave.
LEMMA HandoverStep ==
    DataTypes /\ RoomTypes /\ Apart /\ Handover /\ [Next]_vars => Handover'
<1> SUFFICES ASSUME DataTypes, RoomTypes, Apart, Handover, [Next]_vars, ~overlap'
             PROVE  Handover'
  BY DEF Handover
<1>0. /\ step \in [Requests -> Steps] /\ found \in [Requests -> Seq(Users)]
      /\ user \in [Requests -> Users] /\ members \in Seq(Users) /\ overlap \in BOOLEAN
  BY DEF DataTypes, RoomTypes
<1>1. CASE UNCHANGED <<roomVars, step, user, found, overlap, failed>>
  BY <1>1 DEF Handover, roomVars
<1>2. ASSUME NEW q \in Requests, Aside(q) PROVE Handover'
  <2>1. PICK s \in Steps \ LeaveSteps, u \in Users :
          step' = [step EXCEPT ![q] = s] /\ user' = [user EXCEPT ![q] = u]
    BY <1>2 DEF Aside
  <2>2. UNCHANGED <<members, found, overlap>> /\ (present' => present)
    BY <1>2 DEF Aside
  <2>3. s \notin {"ownerPull", "leaveTransfer", "leaveDelete"}
    BY <2>1 DEF LeaveSteps
  <2>4. QED
    BY <1>0, <2>1, <2>2, <2>3 DEF Handover
<1>3. ASSUME NEW q \in Requests, NEW u \in Users, JoinFind(q, u) PROVE Handover'
  BY <1>0, <1>3 DEF Handover, JoinFind, Goto, roomVars
<1>4. ASSUME NEW q \in Requests, NEW u \in Users, LeaveFind(q, u) PROVE Handover'
  BY <1>0, <1>4 DEF Handover, LeaveFind, Goto, roomVars
<1>5. ASSUME NEW q \in Requests, JoinUpdate(q) PROVE Handover'
  <2>1. /\ step[q] = "joinUpdate" /\ ~overlap /\ Joining(q)
        /\ step' = [step EXCEPT ![q] = "done"]
    BY <1>5 DEF JoinUpdate, Goto, histVars, Joining, JoinSteps
  <2>2. \A p \in Requests : ~Leaving(p)
    BY <2>1 DEF Apart, Leaving, LeaveSteps
  <2>3. \A p \in Requests : step'[p] \notin LeaveSteps
    BY <1>0, <2>1, <2>2 DEF Leaving, LeaveSteps
  <2>4. QED
    BY <2>3 DEF Handover, LeaveSteps
<1>6. ASSUME NEW q \in Requests, LeavePull(q) PROVE Handover'
  <2>1. /\ ~overlap /\ Leaving(q) /\ UNCHANGED <<present, user, found>>
        /\ step[q] \in {"leavePull", "ownerPull"}
    BY <1>6 DEF LeavePull, histVars, Leaving, LeaveSteps
  <2>2. \A p \in Requests : p # q => step[p] \notin LeaveSteps
    BY <2>1 DEF Apart, Leaving
  <2>3. ASSUME step'[q] \notin LeaveSteps, \A p \in Requests : p # q => step'[p] = step[p]
        PROVE  Handover'
    BY <2>2, <2>3 DEF Handover, LeaveSteps
  <2>4. CASE step' = [step EXCEPT ![q] = "done"]
    BY <1>0, <2>3, <2>4 DEF LeaveSteps
  <2>5. CASE step' # [step EXCEPT ![q] = "done"]
    <3>1. /\ step[q] = "ownerPull"
          /\ members' = IF present THEN Without(members, user[q]) ELSE members
          /\ step' = [step EXCEPT ![q] =
               IF Without(found[q], user[q]) = <<>> THEN "leaveDelete" ELSE "leaveTransfer"]
      BY <1>6, <2>1, <2>5 DEF LeavePull, Goto
    <3>2. found[q] = members
      BY <2>1, <3>1 DEF Handover
    <3>3. \A p \in Requests : p # q => step'[p] \notin LeaveSteps
      BY <1>0, <2>2, <3>1
    <3>4. step'[q] = IF Without(found[q], user[q]) = <<>> THEN "leaveDelete"
                     ELSE "leaveTransfer"
      BY <1>0, <3>1
    <3>5. present => members' = Without(found'[q], user'[q])
      BY <2>1, <3>1, <3>2
    <3>6. QED
      BY <2>1, <3>3, <3>4, <3>5 DEF Handover, LeaveSteps
  <2>6. QED
    BY <2>4, <2>5
<1>7. ASSUME NEW q \in Requests, LeaveTransfer(q) \/ LeaveDelete(q) PROVE Handover'
  <2>1. /\ ~overlap /\ UNCHANGED <<members, user, found>> /\ (present' => present)
        /\ \E s \in {"done", "purge"} : step' = [step EXCEPT ![q] = s]
    BY <1>7 DEF LeaveTransfer, LeaveDelete, Goto
  <2>2. QED
    BY <1>0, <2>1 DEF Handover
<1>8. QED
  BY <1>1, <1>2, <1>3, <1>4, <1>5, <1>6, <1>7, RoomCases DEF vars, reqVars, histVars

\* The creator stays a member until his own leave, and the next one is chosen
\* among those who stayed.
LEMMA OwnerStep ==
    /\ DataTypes /\ RoomTypes /\ HasHeir /\ Apart /\ Handover /\ OwnerStays /\ [Next]_vars
    => OwnerStays'
<1> SUFFICES ASSUME DataTypes, RoomTypes, HasHeir, Apart, Handover, OwnerStays, [Next]_vars,
                    present', ~IsDefault, ~overlap', ~failed'
             PROVE  OwnerStays'
  BY DEF OwnerStays
<1>0. /\ step \in [Requests -> Steps] /\ user \in [Requests -> Users]
      /\ members \in Seq(Users) /\ DOMAIN members = 1..Len(members) /\ Len(members) \in Nat
  BY LenProperties DEF DataTypes, RoomTypes
<1>1. CASE UNCHANGED <<roomVars, step, user, found, overlap, failed>>
  BY <1>1 DEF OwnerStays, roomVars, MemberSet
<1>2. ASSUME NEW q \in Requests, NEW s, step' = [step EXCEPT ![q] = s],
             UNCHANGED <<members, owner, present, overlap, failed>>,
             \A p \in Requests : p # q => user'[p] = user[p],
             s = "leavePull" => user'[q] # owner,
             step[q] \notin {"leaveTransfer", "leaveDelete"},
             s \notin {"leaveTransfer", "leaveDelete"}
      PROVE  OwnerStays'
  <2>1. present /\ ~overlap /\ ~failed
    BY <1>2
  <2>2. \A p \in Requests : step'[p] = "leavePull" => user'[p] # owner'
    BY <1>0, <1>2, <2>1 DEF OwnerStays
  <2>3. ASSUME \A p \in Requests : step'[p] \notin {"leaveTransfer", "leaveDelete"}
        PROVE  owner' \in MemberSet'
    <3>1. \A p \in Requests : step[p] \notin {"leaveTransfer", "leaveDelete"}
      BY <1>0, <1>2, <2>3
    <3>2. QED
      BY <1>2, <2>1, <3>1 DEF OwnerStays, MemberSet
  <2>4. QED
    BY <2>2, <2>3 DEF OwnerStays
<1>3. ASSUME NEW q \in Requests, Aside(q) PROVE OwnerStays'
  <2>1. PICK s \in Steps \ LeaveSteps, u \in Users :
          step' = [step EXCEPT ![q] = s] /\ user' = [user EXCEPT ![q] = u]
    BY <1>3 DEF Aside
  <2>2. /\ UNCHANGED <<members, owner, overlap>> /\ failed' = failed /\ present' = present
        /\ step[q] \notin {"leaveTransfer", "leaveDelete"}
        /\ s \notin {"leavePull", "leaveTransfer", "leaveDelete"}
    <3>1. failed' = FALSE /\ present' = TRUE
      BY DataTypesStep DEF DataTypes
    <3>2. failed = FALSE /\ present = TRUE
      BY <1>3, <3>1 DEF Aside, DataTypes
    <3>3. QED
      BY <1>3, <2>1, <3>1, <3>2 DEF Aside, LeaveSteps
  <2>3. \A p \in Requests : p # q => user'[p] = user[p]
    BY <1>0, <2>1
  <2>4. QED
    BY <1>2, <2>1, <2>2, <2>3
<1>4. ASSUME NEW q \in Requests, NEW u \in Users, JoinFind(q, u) PROVE OwnerStays'
  <2>1. /\ step' = [step EXCEPT ![q] = "joinCount"] /\ step[q] = "new"
        /\ UNCHANGED <<members, owner, present, failed>>
        /\ user' = [user EXCEPT ![q] = u] /\ overlap' = overlap
    <3>1. ~overlap /\ overlap \in BOOLEAN /\ overlap' \in BOOLEAN
      BY <1>4 DEF JoinFind, RoomTypes
    <3>2. QED
      BY <1>4, <3>1 DEF JoinFind, Goto, roomVars
  <2>2. \A p \in Requests : p # q => user'[p] = user[p]
    BY <1>0, <2>1
  <2>3. QED
    BY <1>2, <2>1, <2>2
<1>5. ASSUME NEW q \in Requests, NEW u \in Users, LeaveFind(q, u) PROVE OwnerStays'
  <2>1. /\ step[q] = "new" /\ UNCHANGED <<members, owner, present, failed>>
        /\ step' = [step EXCEPT ![q] = IF owner = u THEN "ownerPull" ELSE "leavePull"]
        /\ user' = [user EXCEPT ![q] = u] /\ overlap' = overlap
    <3>1. ~overlap /\ overlap \in BOOLEAN /\ overlap' \in BOOLEAN
      BY <1>5 DEF LeaveFind, RoomTypes
    <3>2. QED
      BY <1>5, <3>1 DEF LeaveFind, Goto, roomVars
  <2>2. /\ \A p \in Requests : p # q => user'[p] = user[p]
        /\ user'[q] = u
    BY <1>0, <2>1
  <2>3. CASE owner = u
    BY <1>2, <2>1, <2>2, <2>3
  <2>4. CASE owner # u
    BY <1>2, <2>1, <2>2, <2>4
  <2>5. QED
    BY <2>3, <2>4
<1>6. ASSUME NEW q \in Requests, JoinUpdate(q) PROVE OwnerStays'
  <2>1. /\ step[q] = "joinUpdate" /\ step' = [step EXCEPT ![q] = "done"]
        /\ UNCHANGED <<present, owner, user, overlap, failed>>
        /\ members' \in {members, Append(members, user[q])} /\ user[q] \in Users
    BY <1>0, <1>6 DEF JoinUpdate, Goto, histVars
  <2>2. MemberSet \subseteq MemberSet'
    <3>1. CASE members' = members
      BY <3>1 DEF MemberSet
    <3>2. CASE members' = Append(members, user[q])
      <4>1. /\ members' \in Seq(Users) /\ Len(members') = Len(members) + 1
            /\ \A i \in 1..Len(members) : members'[i] = members[i]
        BY <1>0, <2>1, <3>2, AppendProperties
      <4>2. DOMAIN members' = 1..Len(members')
        BY <4>1, LenProperties
      <4>3. \A i \in DOMAIN members : i \in DOMAIN members' /\ members'[i] = members[i]
        BY <1>0, <4>1, <4>2
      <4>4. QED
        BY <4>3 DEF MemberSet
    <3>3. QED
      BY <2>1, <3>1, <3>2
  <2>3. \A p \in Requests : step'[p] \notin {"leaveTransfer", "leaveDelete"} =>
          step[p] \notin {"leaveTransfer", "leaveDelete"}
    BY <1>0, <2>1
  <2>4. \A p \in Requests : step'[p] = "leavePull" => step[p] = "leavePull"
    BY <1>0, <2>1
  <2>5. QED
    BY <2>1, <2>2, <2>3, <2>4 DEF OwnerStays
<1>7. ASSUME NEW q \in Requests, LeavePull(q) PROVE OwnerStays'
  <2>1. UNCHANGED <<present, owner, user, overlap, failed>>
    BY <1>7 DEF LeavePull, histVars
  <2>2. \A p \in Requests : step'[p] = "leavePull" => step[p] = "leavePull"
    BY <1>0, <1>7 DEF LeavePull, Goto
  <2>3. ASSUME \A p \in Requests : step'[p] \notin {"leaveTransfer", "leaveDelete"}
        PROVE  owner' \in MemberSet'
    <3>1. /\ step[q] \in {"leavePull", "ownerPull"} /\ step' = [step EXCEPT ![q] = "done"]
          /\ \/ members' = members
             \/ step[q] = "leavePull" /\ members' = Without(members, user[q])
      BY <1>0, <1>7, <2>3 DEF LeavePull, Goto
    <3>2. \A p \in Requests : step[p] \notin {"leaveTransfer", "leaveDelete"}
      BY <1>0, <2>3, <3>1
    <3>3. owner \in MemberSet
      BY <2>1, <3>2 DEF OwnerStays
    <3>4. CASE members' = members
      BY <2>1, <3>3, <3>4 DEF MemberSet
    <3>5. CASE step[q] = "leavePull" /\ members' = Without(members, user[q])
      <4>1. owner # user[q]
        BY <2>1, <3>5 DEF OwnerStays
      <4>2. PICK i \in 1..Len(members) : members[i] = owner
        BY <1>0, <3>3 DEF MemberSet
      <4>3. members' \in Seq(Users) /\ \E j \in 1..Len(members') : members'[j] = owner
        BY <1>0, <3>5, <4>1, <4>2, WithoutFacts
      <4>4. DOMAIN members' = 1..Len(members')
        BY <4>3, LenProperties
      <4>5. QED
        BY <2>1, <4>3, <4>4 DEF MemberSet
    <3>6. QED
      BY <3>1, <3>4, <3>5
  <2>4. QED
    BY <2>1, <2>2, <2>3 DEF OwnerStays
<1>8. ASSUME NEW q \in Requests, LeaveTransfer(q) PROVE OwnerStays'
  <2>1. /\ step[q] = "leaveTransfer" /\ step' = [step EXCEPT ![q] = "done"]
        /\ UNCHANGED <<present, members, user, found, overlap>>
        /\ owner' = Head(Without(found[q], user[q]))
    BY <1>8 DEF LeaveTransfer, Goto
  <2>2. owner' = Head(members) /\ members # <<>>
    BY <2>1 DEF Handover
  <2>3. Len(members) > 0 /\ owner' = members[1]
    BY <1>0, <2>2, EmptySeq, HeadTailProperties
  <2>4. owner' \in MemberSet'
    <3>1. 1 \in DOMAIN members
      BY <1>0, <2>3
    <3>2. QED
      BY <2>1, <2>3, <3>1 DEF MemberSet
  <2>5. \A p \in Requests : step'[p] # "leavePull"
    <3>1. \A p \in Requests : p # q => step[p] \notin LeaveSteps
      BY <2>1 DEF Apart, Leaving, LeaveSteps
    <3>2. QED
      BY <1>0, <2>1, <3>1 DEF LeaveSteps
  <2>6. QED
    BY <2>4, <2>5 DEF OwnerStays
<1>9. ASSUME NEW q \in Requests, LeaveDelete(q) PROVE OwnerStays'
  BY <1>9 DEF LeaveDelete
<1>10. QED
  BY <1>1, <1>3, <1>4, <1>5, <1>6, <1>7, <1>8, <1>9, RoomCases DEF vars, reqVars, histVars

RoomInv ==
    DataTypes /\ RoomTypes /\ HasHeir /\ Apart /\ Handover /\ OwnerStays

LEMMA RoomInvInit == Init => RoomInv
<1> SUFFICES ASSUME Init PROVE Apart /\ Handover /\ OwnerStays
  BY DataTypesInit, RoomTypesInit DEF RoomInv
<1>1. \A q \in Requests : step[q] = "new"
  BY DEF Init
<1>2. ASSUME ~IsDefault PROVE owner \in MemberSet
  <2>1. members = <<Founder>> /\ owner = Founder
    BY <1>2 DEF Init
  <2>2. 1 \in DOMAIN members /\ members[1] = owner
    BY <2>1
  <2>3. QED
    BY <2>2 DEF MemberSet
<1>3. QED
  BY <1>1, <1>2 DEF Apart, Handover, OwnerStays, Leaving, LeaveSteps

LEMMA RoomInvStep == RoomInv /\ [Next]_vars => RoomInv'
BY DataTypesStep, RoomTypesStep, ApartStep, HandoverStep, OwnerStep DEF RoomInv

\* A room whose creator is no member of it comes only from leaves (or a leave
\* and a join) that overlapped, or from a call that failed half way.
THEOREM OwnerRemainsMember == Spec => []OwnerIsMember
<1>1. RoomInv => OwnerIsMember
  BY DEF RoomInv, OwnerStays, OwnerIsMember, Leaving, LeaveSteps
<1>2. QED
  BY <1>1, RoomInvInit, RoomInvStep, PTL DEF Spec

\* The room of a creator who leaves stays with the members who stay: only he
\* who found himself alone deletes it, or somebody may delete any room.
THEOREM RoomStaysWithMembers == Spec => MembersKeepRoom
<1>1. ASSUME RoomInv, [Next]_vars, present, ~present', MemberSet # {}, ~overlap
      PROVE  \E q \in Requests : step[q] = "removeOne"
  <2>1. CASE UNCHANGED present
    BY <1>1, <2>1
  <2>2. ASSUME NEW q \in Requests, Aside(q) PROVE step[q] = "removeOne"
    BY <1>1, <2>2 DEF Aside
  <2>3. ASSUME NEW q \in Requests, LeaveDelete(q) PROVE FALSE
    <3>1. members = <<>>
      BY <1>1, <2>3 DEF LeaveDelete, RoomInv, Handover
    <3>2. QED
      BY <1>1, <3>1 DEF MemberSet
  <2>4. ASSUME NEW q \in Requests,
               \/ JoinUpdate(q) \/ LeavePull(q) \/ LeaveTransfer(q)
               \/ \E u \in Users : JoinFind(q, u) \/ LeaveFind(q, u)
        PROVE  UNCHANGED present
    BY <2>4 DEF JoinUpdate, LeavePull, LeaveTransfer, JoinFind, LeaveFind, roomVars
  <2>5. QED
    BY <1>1, <2>1, <2>2, <2>3, <2>4, RoomCases DEF RoomInv, vars, roomVars
<1>2. RoomInv /\ [Next]_vars =>
        [present /\ ~present' /\ MemberSet # {}
           => overlap \/ \E q \in Requests : step[q] = "removeOne"]_vars
  BY <1>1
<1>3. QED
  BY <1>2, RoomInvInit, RoomInvStep, PTL DEF Spec, MembersKeepRoom

(***************************************************************************)
(* All the types.                                                          *)
(***************************************************************************)
AuthorTypes == author \in [Messages -> Users \cup {NoUser}]

\* Only an insert gives an author.
LEMMA AuthorCases ==
    ASSUME RoomTypes, Next
    PROVE  author' = author \/ \E m \in Messages, u \in Users : author' = [author EXCEPT ![m] = u]
<1>1. ASSUME NEW q \in Requests, NEW u \in Users,
             \/ JoinFind(q, u) \/ LeaveFind(q, u)
             \/ DeleteRoom(q, u) \/ AdminDeleteRoom(q, u)
      PROVE  UNCHANGED author
  BY <1>1 DEF JoinFind, LeaveFind, DeleteRoom, AdminDeleteRoom, RemoveFind, chatVars
<1>2. ASSUME NEW q \in Requests, NEW u \in Users,
             \/ UploadFileHandler(q, u)
             \/ \E m \in Messages \ {q} :
                  \/ EditMessageHandler(q, u, m) \/ DeleteMessageHandler(q, u, m)
                  \/ ReplyMessageHandler(q, u, m)
      PROVE  UNCHANGED author
  BY <1>2 DEF UploadFileHandler, EditMessageHandler, DeleteMessageHandler,
              ReplyMessageHandler, Enter, chatVars
<1>3. ASSUME NEW q \in Requests,
             \/ JoinCount(q) \/ JoinUpdate(q) \/ LeavePull(q) \/ LeaveTransfer(q)
             \/ LeaveDelete(q) \/ RemoveOne(q) \/ Purge(q) \/ PurgeFiles(q)
      PROVE  UNCHANGED author
  BY <1>3 DEF JoinCount, JoinUpdate, LeavePull, LeaveTransfer, LeaveDelete, RemoveOne, Purge,
              PurgeFiles, chatVars
<1>4. ASSUME NEW q \in Requests,
             \/ EditFind(q) \/ EditUpdate(q) \/ DeleteMsg(q) \/ ReplyFind(q)
             \/ SaveFile(q) \/ InsertMeta(q) \/ RemoveFile(q)
             \/ SayEdit(q) \/ SayDelete(q) \/ SayReply(q) \/ SayFile(q)
      PROVE  UNCHANGED author
  BY <1>4 DEF EditFind, EditUpdate, DeleteMsg, ReplyFind, SaveFile, InsertMeta, RemoveFile,
              SayEdit, SayDelete, SayReply, SayFile, Say, chatVars
<1>5. ASSUME NEW q \in Requests, ReplyInsert(q)
      PROVE  author' = author \/ author' = [author EXCEPT ![q] = user[q]]
  BY <1>5 DEF ReplyInsert, Insert, chatVars
<1>6. ASSUME NEW m \in Posts, Post(m) PROVE author' = [author EXCEPT ![m] = AuthorOf[m]]
  BY <1>6 DEF Post, Insert
<1>7. /\ \A q \in Requests : q \in Messages /\ user[q] \in Users
      /\ \A m \in Posts : m \in Messages /\ AuthorOf[m] \in Users
  BY RoomAssumption DEF Messages, RoomTypes
<1>8. QED
  BY <1>1, <1>2, <1>3, <1>4, <1>5, <1>6, <1>7 DEF Next, RequestNext

AllTypes == DataTypes /\ RoomTypes /\ HasHeir /\ AuthorTypes

LEMMA AllTypesInit == Init => AllTypes
BY DataTypesInit, RoomTypesInit DEF AllTypes, AuthorTypes, Init

LEMMA AllTypesStep == AllTypes /\ [Next]_vars => AllTypes'
<1> SUFFICES ASSUME AllTypes, [Next]_vars PROVE AuthorTypes'
  BY DataTypesStep, RoomTypesStep DEF AllTypes
<1>1. CASE UNCHANGED vars
  BY <1>1 DEF AllTypes, AuthorTypes, vars, chatVars
<1>2. CASE Next
  BY <1>2, AuthorCases DEF AllTypes, AuthorTypes
<1>3. QED
  BY <1>1, <1>2

LEMMA AllTypesAll == AllTypes => TypeOK
BY DEF AllTypes, DataTypes, RoomTypes, AuthorTypes, TypeOK

\* The types of the room, its messages, its files and the requests about them.
THEOREM RoomTypeCorrect == Spec => []TypeOK
BY AllTypesInit, AllTypesStep, AllTypesAll, PTL DEF Spec

=============================================================================

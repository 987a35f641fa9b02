--------------------------- MODULE InsertPipeline ---------------------------
(***************************************************************************)
(* How chat messages get to MongoDB: readPump puts them into insertQueue,  *)
(* the insert workers gather them in batches and write those with          *)
(* InsertMany (server/handler/ws_client.go, pkg/mongoDB/chat.go), and the  *)
(* shutdown of the server drains the queue (cmd/serve.go).                 *)
(***************************************************************************)
EXTENDS Naturals, Sequences, FiniteSets

CONSTANTS
    Senders,      \* connections whose readPump is running
    Workers,      \* insert workers (4)
    QueueSize,    \* insertQueueSize (1024)
    BatchSize,    \* insertBatchSize (50)
    MaxSend,      \* bound: messages per sender
    NoMsg

ASSUME SizesAssumption ==
    /\ Workers # {}
    /\ QueueSize \in Nat /\ BatchSize \in Nat \ {0} /\ MaxSend \in Nat

\* The nth message of a sender.
Messages == Senders \X (1..MaxSend)

ASSUME NoMsgAssumption == NoMsg \notin Messages

VARIABLES
    pump,       \* where readPump stands
    hand,       \* the message it is storing and broadcasting
    sent,       \* number of messages it has read
    queue,      \* insertQueue
    qClosed,    \* insertQueue is closed
    worker,     \* where each worker stands
    batch,      \* its batch
    stored,     \* how many documents MongoDB holds of each message
    refused,    \* history: messages whose InsertMany failed before them
    accepted,   \* history: messages insertQueue took
    offered,    \* history: messages the hub's Broadcast took
    stop,       \* h.stop is closed
    main        \* where serve.go stands

pumpVars   == <<pump, hand, sent>>
workerVars == <<worker, batch>>
dbVars     == <<stored, refused>>
vars == <<pumpVars, queue, qClosed, workerVars, dbVars, accepted, offered, stop, main>>

TypeOK ==
    /\ pump \in [Senders -> {"reading", "storing", "broadcasting", "returned", "panicked"}]
    /\ hand \in [Senders -> Messages \cup {NoMsg}]
    /\ sent \in [Senders -> 0..MaxSend]
    /\ queue \in Seq(Messages) /\ Len(queue) <= QueueSize
    /\ qClosed \in BOOLEAN
    /\ worker \in [Workers -> {"select", "inserting", "lastInsert", "done"}]
    /\ batch \in [Workers -> Seq(Messages)]
    /\ \A w \in Workers : Len(batch[w]) <= BatchSize
    /\ stored \in [Messages -> Nat]
    /\ refused \subseteq Messages /\ accepted \subseteq Messages
    /\ offered \subseteq Messages
    /\ stop \in BOOLEAN
    /\ main \in {"serving", "stopping", "draining", "exited", "killed"}

Init ==
    /\ pump = [c \in Senders |-> "reading"]
    /\ hand = [c \in Senders |-> NoMsg]
    /\ sent = [c \in Senders |-> 0]
    /\ queue = <<>> /\ qClosed = FALSE
    /\ worker = [w \in Workers |-> "select"]
    /\ batch = [w \in Workers |-> <<>>]
    /\ stored = [m \in Messages |-> 0]
    /\ refused = {} /\ accepted = {} /\ offered = {}
    /\ stop = FALSE
    /\ main = "serving"

Running == main \notin {"exited", "killed"}

---------------------------------------------------------------------------
(* readPump, from a MSG that passed its checks.                            *)

Read(c) ==
    /\ Running
    /\ pump[c] = "reading" /\ sent[c] < MaxSend
    /\ sent' = [sent EXCEPT ![c] = @ + 1]
    /\ hand' = [hand EXCEPT ![c] = <<c, sent[c] + 1>>]
    /\ pump' = [pump EXCEPT ![c] = "storing"]
    /\ UNCHANGED <<queue, qClosed, workerVars, dbVars, accepted, offered, stop, main>>

\* case insertQueue <- chatMessage; on a closed channel it panics, and the
\* Recover middleware ends the handler.
Enqueue(c) ==
    /\ Running
    /\ pump[c] = "storing"
    /\ IF qClosed
         THEN /\ pump' = [pump EXCEPT ![c] = "panicked"]
              /\ UNCHANGED <<queue, accepted>>
         ELSE /\ Len(queue) < QueueSize
              /\ queue' = Append(queue, hand[c])
              /\ accepted' = accepted \cup {hand[c]}
              /\ pump' = [pump EXCEPT ![c] = "broadcasting"]
    /\ UNCHANGED <<hand, sent, qClosed, workerVars, dbVars, offered, stop, main>>

\* case <-time.After(insertTimeout): the message is dropped and the client
\* warned (HubFanout has the warning).
EnqueueTimeout(c) ==
    /\ Running
    /\ pump[c] = "storing"
    /\ ~qClosed /\ Len(queue) = QueueSize
    /\ pump' = [pump EXCEPT ![c] = "reading"]
    /\ hand' = [hand EXCEPT ![c] = NoMsg]
    /\ UNCHANGED <<sent, queue, qClosed, workerVars, dbVars, accepted, offered, stop, main>>

\* case c.Hub.Broadcast <- msg.
Offer(c) ==
    /\ Running
    /\ pump[c] = "broadcasting"
    /\ offered' = offered \cup {hand[c]}
    /\ pump' = [pump EXCEPT ![c] = "reading"]
    /\ hand' = [hand EXCEPT ![c] = NoMsg]
    /\ UNCHANGED <<sent, queue, qClosed, workerVars, dbVars, accepted, stop, main>>

\* Mutant: a busy hub is not waited for.
OfferGivesUp(c) ==
    /\ Running
    /\ pump[c] = "broadcasting"
    /\ pump' = [pump EXCEPT ![c] = "returned"]
    /\ UNCHANGED <<hand, sent, queue, qClosed, workerVars, dbVars, accepted, offered,
                   stop, main>>

\* case <-c.Hub.stop.
OfferStopped(c) ==
    /\ Running
    /\ pump[c] = "broadcasting"
    /\ stop
    /\ pump' = [pump EXCEPT ![c] = "returned"]
    /\ UNCHANGED <<hand, sent, queue, qClosed, workerVars, dbVars, accepted, offered,
                   stop, main>>

\* The connection is gone.
ReadEnds(c) ==
    /\ Running
    /\ pump[c] = "reading"
    /\ pump' = [pump EXCEPT ![c] = "returned"]
    /\ UNCHANGED <<hand, sent, queue, qClosed, workerVars, dbVars, accepted, offered,
                   stop, main>>

---------------------------------------------------------------------------
(* runInsertWorker.                                                        *)

\* case msg, ok := <-insertQueue: what was buffered comes out of a closed
\* channel too; the batch is flushed when it is full.
Receive(w) ==
    /\ Running
    /\ worker[w] = "select"
    /\ queue # <<>>
    /\ queue' = Tail(queue)
    /\ batch' = [batch EXCEPT ![w] = Append(@, Head(queue))]
    /\ worker' = [worker EXCEPT ![w] =
                    IF Len(batch[w]) + 1 >= BatchSize THEN "inserting" ELSE @]
    /\ UNCHANGED <<pumpVars, qClosed, dbVars, accepted, offered, stop, main>>

\* The queue is closed and drained: a last flush, and the worker returns.
ReceiveClosed(w) ==
    /\ Running
    /\ worker[w] = "select"
    /\ queue = <<>> /\ qClosed
    /\ worker' = [worker EXCEPT ![w] = IF batch[w] = <<>> THEN "done" ELSE "lastInsert"]
    /\ UNCHANGED <<pumpVars, queue, qClosed, batch, dbVars, accepted, offered, stop, main>>

\* Mutant: only a full batch is flushed.
TickerFlushesFull(w) ==
    /\ Running
    /\ worker[w] = "select"
    /\ Len(batch[w]) >= BatchSize
    /\ worker' = [worker EXCEPT ![w] = "inserting"]
    /\ UNCHANGED <<pumpVars, queue, qClosed, batch, dbVars, accepted, offered, stop, main>>

\* case <-ticker.C, with something to flush.
Ticker(w) ==
    /\ Running
    /\ worker[w] = "select"
    /\ batch[w] # <<>>
    /\ worker' = [worker EXCEPT ![w] = "inserting"]
    /\ UNCHANGED <<pumpVars, queue, qClosed, batch, dbVars, accepted, offered, stop, main>>

InBatch(w, lo, hi) == {batch[w][i] : i \in lo..hi}

\* Mutant: a batch that failed is kept, the part that was written included.
InsertManyRetried(w) ==
    /\ Running
    /\ worker[w] \in {"inserting", "lastInsert"}
    /\ \E k \in 0..Len(batch[w]) :
         /\ stored' = [m \in Messages |-> IF m \in InBatch(w, 1, k) THEN stored[m] + 1 ELSE stored[m]]
         /\ batch' = IF k = Len(batch[w]) THEN [batch EXCEPT ![w] = <<>>] ELSE batch
    /\ worker' = [worker EXCEPT ![w] = IF @ = "inserting" THEN "select" ELSE "done"]
    /\ UNCHANGED <<pumpVars, queue, qClosed, refused, accepted, offered, stop, main>>

\* InsertMany writes the documents in order and stops at the first error: the
\* error is logged, and the rest of the batch is gone.
InsertMany(w) ==
    /\ Running
    /\ worker[w] \in {"inserting", "lastInsert"}
    /\ \E k \in 0..Len(batch[w]) :
         /\ stored' = [m \in Messages |-> IF m \in InBatch(w, 1, k) THEN stored[m] + 1 ELSE stored[m]]
         /\ refused' = refused \cup InBatch(w, k + 1, Len(batch[w]))
    /\ batch' = [batch EXCEPT ![w] = <<>>]
    /\ worker' = [worker EXCEPT ![w] = IF @ = "inserting" THEN "select" ELSE "done"]
    /\ UNCHANGED <<pumpVars, queue, qClosed, accepted, offered, stop, main>>

---------------------------------------------------------------------------
(* serve.go, after the signal.                                             *)

\* ShutdownAll closes the stop channels.
ShutdownAll ==
    /\ main = "serving"
    /\ stop' = TRUE
    /\ main' = "stopping"
    /\ UNCHANGED <<pumpVars, queue, qClosed, workerVars, dbVars, accepted, offered>>

\* e.Shutdown returned, and ShutdownInsertQueue closes the queue; hijacked
\* connections were not waited for.
CloseQueue ==
    /\ main = "stopping"
    /\ qClosed' = TRUE
    /\ main' = "draining"
    /\ UNCHANGED <<pumpVars, queue, workerVars, dbVars, accepted, offered, stop>>

\* e.Shutdown times out: e.Logger.Fatal.
ShutdownFails ==
    /\ main = "stopping"
    /\ main' = "killed"
    /\ UNCHANGED <<pumpVars, queue, qClosed, workerVars, dbVars, accepted, offered, stop>>

\* Mutant: the workers are not waited for.
ExitAtOnce ==
    /\ main = "draining"
    /\ main' = "exited"
    /\ UNCHANGED <<pumpVars, queue, qClosed, workerVars, dbVars, accepted, offered, stop>>

\* insertWg.Wait returns, and so does main.
Exit ==
    /\ main = "draining"
    /\ \A w \in Workers : worker[w] = "done"
    /\ main' = "exited"
    /\ UNCHANGED <<pumpVars, queue, qClosed, workerVars, dbVars, accepted, offered, stop>>

---------------------------------------------------------------------------
Next ==
    \/ \E c \in Senders : \/ Read(c) \/ Enqueue(c) \/ EnqueueTimeout(c)
                          \/ Offer(c) \/ OfferStopped(c) \/ ReadEnds(c)
    \/ \E w \in Workers : Receive(w) \/ ReceiveClosed(w) \/ Ticker(w) \/ InsertMany(w)
    \/ ShutdownAll \/ CloseQueue \/ ShutdownFails \/ Exit

Spec == Init /\ [][Next]_vars

\* The workers run, and InsertMany returns (it has a timeout).  The tick and
\* the queue compete for the worker's select, which favours neither: strong
\* fairness.
Fairness ==
    \A w \in Workers :
        /\ WF_vars(Receive(w)) /\ WF_vars(ReceiveClosed(w)) /\ WF_vars(InsertMany(w))
        /\ SF_vars(Ticker(w))

FairSpec == Spec /\ Fairness /\ WF_vars(Exit)

---------------------------------------------------------------------------
(* Properties.                                                             *)

InQueue == {queue[i] : i \in DOMAIN queue}
Pending(w) == {batch[w][i] : i \in DOMAIN batch[w]}

\* Every message the queue took is in exactly one place: waiting, in the batch
\* of one worker, in MongoDB (once), or refused by it.
InOnePlace ==
    /\ \A m \in accepted :
         \/ m \in InQueue \cup refused \/ stored[m] = 1
         \/ \E w \in Workers : m \in Pending(w)
    /\ \A m \in InQueue \cup refused \cup UNION {Pending(w) : w \in Workers} :
         stored[m] = 0 /\ m \in accepted
    /\ InQueue \cap refused = {}
    /\ \A w \in Workers : Pending(w) \cap (InQueue \cup refused) = {}
    /\ \A v, w \in Workers : v # w => Pending(v) \cap Pending(w) = {}
    /\ \A m \in Messages : stored[m] \in {0, 1} /\ (stored[m] = 1 => m \in accepted)
    /\ \A i, j \in DOMAIN queue : queue[i] = queue[j] => i = j
    /\ \A w \in Workers : \A i, j \in DOMAIN batch[w] : batch[w][i] = batch[w][j] => i = j

\* When main returns, the queue and the batches have been written: of the
\* messages taken, only those that MongoDB refused are missing.
DrainedAtExit ==
    main = "exited" => \A m \in accepted : stored[m] = 1 \/ m \in refused

\* MongoDB holds a message that the room was not shown only because the hub
\* was stopped, or for as long as readPump is offering it.
StoredIsOffered ==
    \A m \in accepted :
        m \in offered \/ stop \/ (pump[m[1]] = "broadcasting" /\ hand[m[1]] = m)

\* What was taken does not wait for ever: it is written or refused, with the
\* queue open or closed, full batches or not.
TakenIsWritten ==
    \A m \in Messages :
        (m \in accepted) ~> (stored[m] = 1 \/ m \in refused \/ main = "killed")
=============================================================================

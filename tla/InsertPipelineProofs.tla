------------------------ MODULE InsertPipelineProofs ------------------------
(***************************************************************************)
(* Proofs about InsertPipeline, for any number of senders and workers and  *)
(* any size of queue and batch: a message that the queue took is in one    *)
(* place, and has been written or refused when the server exits.           *)
(***************************************************************************)
EXTENDS InsertPipeline, SequenceTheorems, TLAPS

(***************************************************************************)
(* Sequences without repetition, as queues and batches are.                *)
(***************************************************************************)
Elements(s) == {s[i] : i \in DOMAIN s}

NoneTwice(s) == \A i, j \in DOMAIN s : s[i] = s[j] => i = j

\* What Append does to one.
LEMMA AppendOne ==
    ASSUME NEW S, NEW s \in Seq(S), NEW x \in S
    PROVE  /\ Elements(Append(s, x)) = Elements(s) \cup {x}
           /\ NoneTwice(s) /\ x \notin Elements(s) => NoneTwice(Append(s, x))
<1>1. /\ Append(s, x) \in Seq(S) /\ Len(Append(s, x)) = Len(s) + 1
      /\ DOMAIN Append(s, x) = 1..(Len(s) + 1) /\ DOMAIN s = 1..Len(s) /\ Len(s) \in Nat
      /\ \A i \in 1..Len(s) : Append(s, x)[i] = s[i]
      /\ Append(s, x)[Len(s) + 1] = x
  OBVIOUS
<1>2. Elements(Append(s, x)) = Elements(s) \cup {x}
  <2>1. \A i \in DOMAIN Append(s, x) : Append(s, x)[i] \in Elements(s) \cup {x}
    BY <1>1 DEF Elements
  <2>2. x \in Elements(Append(s, x))
    BY <1>1 DEF Elements
  <2>3. \A i \in DOMAIN s : s[i] \in Elements(Append(s, x))
    BY <1>1 DEF Elements
  <2>4. QED
    BY <2>1, <2>2, <2>3 DEF Elements
<1>3. ASSUME NoneTwice(s), x \notin Elements(s) PROVE NoneTwice(Append(s, x))
  <2>1. \A i \in 1..Len(s) : s[i] # x
    BY <1>1, <1>3 DEF Elements
  <2>2. QED
    BY <1>1, <1>3, <2>1 DEF NoneTwice
<1>4. QED
  BY <1>2, <1>3

\* What taking the first does.
LEMMA TailOne ==
    ASSUME NEW S, NEW s \in Seq(S), s # <<>>, NoneTwice(s)
    PROVE  /\ Head(s) \in S /\ Head(s) \in Elements(s)
           /\ Tail(s) \in Seq(S) /\ Len(Tail(s)) = Len(s) - 1
           /\ Elements(Tail(s)) = Elements(s) \ {Head(s)}
           /\ NoneTwice(Tail(s))
<1>1. /\ Tail(s) \in Seq(S) /\ Len(Tail(s)) = Len(s) - 1
      /\ Len(s) \in Nat /\ Len(s) >= 1 /\ DOMAIN s = 1..Len(s)
      /\ DOMAIN Tail(s) = 1..(Len(s) - 1)
      /\ Head(s) = s[1] /\ Head(s) \in S
      /\ \A i \in 1..(Len(s) - 1) : Tail(s)[i] = s[i + 1]
  BY HeadTailProperties, EmptySeq
<1>2. Head(s) \in Elements(s)
  BY <1>1 DEF Elements
<1>3. NoneTwice(Tail(s))
  BY <1>1 DEF NoneTwice
<1>4. \A i \in DOMAIN Tail(s) : Tail(s)[i] \in Elements(s) /\ Tail(s)[i] # Head(s)
  BY <1>1 DEF Elements, NoneTwice
<1>5. ASSUME NEW i \in DOMAIN s, s[i] # Head(s) PROVE s[i] \in Elements(Tail(s))
  <2>1. i # 1 /\ i - 1 \in 1..(Len(s) - 1) /\ (i - 1) + 1 = i
    BY <1>1, <1>5
  <2>2. Tail(s)[i - 1] = s[i]
    BY <1>1, <2>1
  <2>3. QED
    BY <1>1, <2>1, <2>2 DEF Elements
<1>6. QED
  BY <1>1, <1>2, <1>3, <1>4, <1>5 DEF Elements

(***************************************************************************)
(* What InOnePlace relies on: the message in the hand of a sender that is  *)
(* storing is new, a worker that has returned left nothing behind, and one *)
(* that waits has room in its batch.                                       *)
(***************************************************************************)
HandIsNew ==
    /\ \A m \in accepted : m[2] <= sent[m[1]]
    /\ \A c \in Senders : pump[c] \in {"storing", "broadcasting"} =>
         hand[c] \in Messages /\ hand[c][1] = c /\ hand[c][2] <= sent[c]
    /\ \A c \in Senders : pump[c] = "storing" => hand[c] \notin accepted

WorkersKeepUp ==
    /\ \A w \in Workers : worker[w] = "done" => batch[w] = <<>>
    /\ \A w \in Workers : worker[w] \in {"lastInsert", "done"} => queue = <<>> /\ qClosed
    /\ main = "exited" => \A w \in Workers : worker[w] = "done"
    /\ \A w \in Workers : worker[w] = "select" => Len(batch[w]) < BatchSize

Inv == TypeOK /\ HandIsNew /\ WorkersKeepUp

\* The first state.
LEMMA InvInit == Init => Inv /\ InOnePlace /\ StoredIsOffered
<1> SUFFICES ASSUME Init PROVE Inv /\ InOnePlace /\ StoredIsOffered
  OBVIOUS
<1>1. TypeOK
  <2>1. <<>> \in Seq(Messages) /\ Len(<<>>) = 0 /\ 0 \in 0..MaxSend /\ 0 <= QueueSize
        /\ 0 <= BatchSize
    BY SizesAssumption
  <2>2. \A w \in Workers : Len(batch[w]) <= BatchSize
    BY <2>1 DEF Init
  <2>3. batch \in [Workers -> Seq(Messages)] /\ queue \in Seq(Messages)
        /\ Len(queue) <= QueueSize
    BY <2>1 DEF Init
  <2>4. /\ hand \in [Senders -> Messages \cup {NoMsg}]
        /\ sent \in [Senders -> 0..MaxSend]
        /\ stored \in [Messages -> Nat]
    BY <2>1 DEF Init
  <2>5. QED
    BY <2>2, <2>3, <2>4 DEF Init, TypeOK
<1>2. HandIsNew /\ WorkersKeepUp
  <2>1. Len(<<>>) = 0 /\ 0 < BatchSize
    BY SizesAssumption
  <2>2. QED
    BY <2>1 DEF Init, HandIsNew, WorkersKeepUp
<1>3. InOnePlace /\ StoredIsOffered
  BY DEF Init, InOnePlace, StoredIsOffered, InQueue, Pending
<1>4. QED
  BY <1>1, <1>2, <1>3 DEF Inv

\* The types, by what moves: first readPump.
LEMMA PumpTypes ==
    ASSUME Inv, NEW c \in Senders,
           \/ Read(c) \/ Enqueue(c) \/ EnqueueTimeout(c) \/ Offer(c)
           \/ OfferStopped(c) \/ ReadEnds(c)
    PROVE  TypeOK'
<1> USE DEF Inv, TypeOK
<1>1. CASE Read(c)
  <2>1. /\ sent[c] \in 0..MaxSend /\ sent[c] < MaxSend /\ MaxSend \in Nat
        /\ pump' = [pump EXCEPT ![c] = "storing"]
        /\ sent' = [sent EXCEPT ![c] = @ + 1]
        /\ hand' = [hand EXCEPT ![c] = <<c, sent[c] + 1>>]
        /\ UNCHANGED <<queue, qClosed, worker, batch, stored, refused, accepted, offered,
                       stop, main>>
    BY <1>1, SizesAssumption DEF Read, workerVars, dbVars
  <2>2. sent[c] + 1 \in 1..MaxSend /\ sent[c] + 1 \in 0..MaxSend
    BY <2>1
  <2>3. <<c, sent[c] + 1>> \in Messages
    BY <2>2 DEF Messages
  <2>4. QED
    BY <2>1, <2>2, <2>3
<1>2. CASE Enqueue(c)
  <2>1. pump[c] = "storing"
        /\ UNCHANGED <<hand, sent, qClosed, worker, batch, stored, refused, offered,
                       stop, main>>
    BY <1>2 DEF Enqueue, workerVars, dbVars
  <2>2. CASE qClosed
    <3>1. pump' = [pump EXCEPT ![c] = "panicked"] /\ UNCHANGED <<queue, accepted>>
      BY <1>2, <2>2 DEF Enqueue
    <3>2. QED
      BY <2>1, <3>1
  <2>3. CASE ~qClosed
    <3>1. /\ Len(queue) < QueueSize /\ queue' = Append(queue, hand[c])
          /\ accepted' = accepted \cup {hand[c]}
          /\ pump' = [pump EXCEPT ![c] = "broadcasting"]
      BY <1>2, <2>3 DEF Enqueue
    <3>2. hand[c] \in Messages
      BY <2>1 DEF HandIsNew
    <3>3. queue' \in Seq(Messages) /\ Len(queue') <= QueueSize
      BY <3>1, <3>2, SizesAssumption
    <3>4. QED
      BY <2>1, <3>1, <3>2, <3>3
  <2>4. QED
    BY <2>2, <2>3
<1>3. CASE EnqueueTimeout(c)
  BY <1>3 DEF EnqueueTimeout, workerVars, dbVars
<1>4. CASE Offer(c)
  <2>1. /\ pump[c] = "broadcasting" /\ offered' = offered \cup {hand[c]}
        /\ pump' = [pump EXCEPT ![c] = "reading"]
        /\ hand' = [hand EXCEPT ![c] = NoMsg]
        /\ UNCHANGED <<sent, queue, qClosed, worker, batch, stored, refused, accepted,
                       stop, main>>
    BY <1>4 DEF Offer, workerVars, dbVars
  <2>2. hand[c] \in Messages
    BY <2>1 DEF HandIsNew
  <2>3. QED
    BY <2>1, <2>2
<1>5. CASE OfferStopped(c) \/ ReadEnds(c)
  BY <1>5 DEF OfferStopped, ReadEnds, workerVars, dbVars
<1>6. QED
  BY <1>1, <1>2, <1>3, <1>4, <1>5

\* The part of a batch that InsertMany writes, and the part it does not.
LEMMA BatchParts ==
    ASSUME Inv, InOnePlace, NEW w \in Workers, NEW k \in 0..Len(batch[w])
    PROVE  /\ InBatch(w, 1, k) \cup InBatch(w, k + 1, Len(batch[w])) = Pending(w)
           /\ InBatch(w, 1, k) \cap InBatch(w, k + 1, Len(batch[w])) = {}
           /\ Pending(w) \subseteq Messages
<1>1. /\ batch[w] \in Seq(Messages) /\ Len(batch[w]) \in Nat
      /\ DOMAIN batch[w] = 1..Len(batch[w])
      /\ \A i \in 1..Len(batch[w]) : batch[w][i] \in Messages
  BY DEF Inv, TypeOK
<1>2. \A i, j \in 1..Len(batch[w]) : batch[w][i] = batch[w][j] => i = j
  BY <1>1 DEF InOnePlace
<1>3. \A i \in 1..Len(batch[w]) : i \in 1..k \/ i \in (k + 1)..Len(batch[w])
  BY <1>1
<1>4. /\ \A i \in 1..k : i \in 1..Len(batch[w])
      /\ \A i \in (k + 1)..Len(batch[w]) : i \in 1..Len(batch[w]) /\ i \notin 1..k
  BY <1>1
<1>5. QED
  BY <1>1, <1>2, <1>3, <1>4 DEF InBatch, Pending

\* The types, as the workers move them.
LEMMA WorkerTypes ==
    ASSUME Inv, InOnePlace, NEW w \in Workers,
           Receive(w) \/ ReceiveClosed(w) \/ Ticker(w) \/ InsertMany(w)
    PROVE  TypeOK'
<1> USE DEF Inv, TypeOK
<1>1. CASE Receive(w)
  <2>1. /\ worker[w] = "select" /\ queue # <<>>
        /\ queue' = Tail(queue)
        /\ batch' = [batch EXCEPT ![w] = Append(@, Head(queue))]
        /\ worker' = [worker EXCEPT ![w] =
                        IF Len(batch[w]) + 1 >= BatchSize THEN "inserting" ELSE @]
        /\ UNCHANGED <<pump, hand, sent, qClosed, stored, refused, accepted, offered,
                       stop, main>>
    BY <1>1 DEF Receive, pumpVars, dbVars
  <2>2. NoneTwice(queue) /\ queue \in Seq(Messages) /\ Len(queue) \in Nat
    BY DEF NoneTwice, InOnePlace
  <2>3. /\ Head(queue) \in Messages /\ Tail(queue) \in Seq(Messages)
        /\ Len(Tail(queue)) = Len(queue) - 1
    BY <2>1, <2>2, TailOne
  <2>4. queue' \in Seq(Messages) /\ Len(queue') <= QueueSize
    BY <2>1, <2>2, <2>3, SizesAssumption
  <2>5. /\ Append(batch[w], Head(queue)) \in Seq(Messages)
        /\ Len(Append(batch[w], Head(queue))) <= BatchSize
    <3>1. Len(batch[w]) < BatchSize
      BY <2>1 DEF WorkersKeepUp
    <3>2. QED
      BY <2>3, <3>1, SizesAssumption
  <2>6. batch' \in [Workers -> Seq(Messages)] /\ \A v \in Workers : Len(batch'[v]) <= BatchSize
    BY <2>1, <2>5
  <2>7. worker' \in [Workers -> {"select", "inserting", "lastInsert", "done"}]
    BY <2>1
  <2>8. QED
    BY <2>1, <2>4, <2>6, <2>7
<1>2. CASE ReceiveClosed(w)
  BY <1>2 DEF ReceiveClosed, pumpVars, dbVars
<1>3. CASE Ticker(w)
  BY <1>3 DEF Ticker, pumpVars, dbVars
<1>4. CASE InsertMany(w)
  <2>1. PICK k \in 0..Len(batch[w]) :
          /\ stored' = [m \in Messages |->
                          IF m \in InBatch(w, 1, k) THEN stored[m] + 1 ELSE stored[m]]
          /\ refused' = refused \cup InBatch(w, k + 1, Len(batch[w]))
    BY <1>4 DEF InsertMany
  <2>2. /\ batch' = [batch EXCEPT ![w] = <<>>]
        /\ worker' = [worker EXCEPT ![w] = IF @ = "inserting" THEN "select" ELSE "done"]
        /\ UNCHANGED <<pump, hand, sent, queue, qClosed, accepted, offered, stop, main>>
    BY <1>4 DEF InsertMany, pumpVars
  <2>3. refused' \subseteq Messages
    BY <2>1, BatchParts
  <2>4. <<>> \in Seq(Messages) /\ Len(<<>>) = 0 /\ 0 <= BatchSize
    BY SizesAssumption
  <2>5. batch' \in [Workers -> Seq(Messages)] /\ \A v \in Workers : Len(batch'[v]) <= BatchSize
    BY <2>2, <2>4
  <2>6. stored' \in [Messages -> Nat]
    BY <2>1
  <2>7. QED
    BY <2>2, <2>3, <2>5, <2>6
<1>5. QED
  BY <1>1, <1>2, <1>3, <1>4

\* Hands and workers.
LEMMA HandStep ==
    ASSUME Inv, InOnePlace, [Next]_vars PROVE HandIsNew'
<1> USE DEF Inv, TypeOK, HandIsNew
<1>1. ASSUME NEW c \in Senders, Read(c) PROVE HandIsNew'
  <2>1. /\ sent[c] < MaxSend /\ sent[c] \in 0..MaxSend
        /\ pump' = [pump EXCEPT ![c] = "storing"]
        /\ sent' = [sent EXCEPT ![c] = @ + 1]
        /\ hand' = [hand EXCEPT ![c] = <<c, sent[c] + 1>>]
        /\ accepted' = accepted
    BY <1>1 DEF Read
  <2>2. <<c, sent[c] + 1>> \in Messages
    BY <2>1, SizesAssumption DEF Messages
  <2>3. <<c, sent[c] + 1>> \notin accepted
    BY <2>1
  <2>4. \A d \in Senders : sent[d] \in Int /\ sent[d] <= sent'[d]
    BY <2>1
  <2>5. \A m \in accepted : m[1] \in Senders /\ m[2] \in Int
    BY DEF Messages
  <2>6. \A m \in accepted' : m[2] <= sent'[m[1]]
    BY <2>1, <2>4, <2>5
  <2>7. \A m \in Messages : m[2] \in Int
    BY DEF Messages
  <2>8. QED
    BY <2>1, <2>2, <2>3, <2>4, <2>6, <2>7
<1>2. ASSUME NEW c \in Senders, Enqueue(c) PROVE HandIsNew'
  <2>1. pump[c] = "storing" /\ hand' = hand /\ sent' = sent
    BY <1>2 DEF Enqueue
  <2>2. CASE qClosed
    BY <1>2, <2>1, <2>2 DEF Enqueue
  <2>3. CASE ~qClosed
    <3>1. /\ accepted' = accepted \cup {hand[c]}
          /\ pump' = [pump EXCEPT ![c] = "broadcasting"]
      BY <1>2, <2>3 DEF Enqueue
    <3>2. \A d \in Senders : d # c /\ pump[d] = "storing" => hand[d] # hand[c]
      <4>1. \A d \in Senders : pump[d] = "storing" => hand[d][1] = d
        OBVIOUS
      <4>2. QED
        BY <2>1, <4>1, Zenon
    <3>3. QED
      BY <2>1, <3>1, <3>2
  <2>4. QED
    BY <2>2, <2>3
<1>3. ASSUME NEW c \in Senders,
             EnqueueTimeout(c) \/ Offer(c) \/ OfferStopped(c) \/ ReadEnds(c)
      PROVE  HandIsNew'
  <2>1. /\ sent' = sent /\ accepted' = accepted
        /\ \E x \in {"reading", "returned"} : pump' = [pump EXCEPT ![c] = x]
        /\ \A d \in Senders \ {c} : hand'[d] = hand[d]
    BY <1>3 DEF EnqueueTimeout, Offer, OfferStopped, ReadEnds
  <2>2. QED
    BY <2>1
<1>4. CASE UNCHANGED <<pump, hand, sent, accepted>>
  BY <1>4
<1>5. QED
  BY <1>1, <1>2, <1>3, <1>4
     DEF Next, vars, pumpVars, Receive, ReceiveClosed, Ticker, InsertMany, ShutdownAll,
         CloseQueue, ShutdownFails, Exit

\* A worker that waits has room in its batch; one that ends has found the closed
\* queue empty and written what it had, and main does not end before it.
LEMMA WorkersStep ==
    ASSUME Inv, InOnePlace, [Next]_vars PROVE WorkersKeepUp'
<1> USE DEF Inv, TypeOK, WorkersKeepUp
<1>1. ASSUME NEW c \in Senders, Enqueue(c) PROVE WorkersKeepUp'
  BY <1>1 DEF Enqueue, workerVars, Running
<1>2. ASSUME NEW w \in Workers, Receive(w) PROVE WorkersKeepUp'
  <2>1. /\ worker[w] = "select" /\ queue # <<>> /\ main' = main /\ main # "exited"
        /\ batch' = [batch EXCEPT ![w] = Append(@, Head(queue))]
        /\ worker' = [worker EXCEPT ![w] =
                        IF Len(batch[w]) + 1 >= BatchSize THEN "inserting" ELSE @]
    BY <1>2 DEF Receive, Running
  <2>2. Head(queue) \in Messages
    BY <2>1
  <2>3. Len(Append(batch[w], Head(queue))) = Len(batch[w]) + 1 /\ Len(batch[w]) \in Nat
    BY <2>2
  <2>4. worker'[w] = "select" => Len(batch'[w]) < BatchSize
    BY <2>1, <2>3, SizesAssumption
  <2>5. \A v \in Workers : worker'[v] \notin {"lastInsert", "done"}
    BY <2>1
  <2>6. QED
    BY <2>1, <2>4, <2>5
<1>3. ASSUME NEW w \in Workers, ReceiveClosed(w) \/ Ticker(w) PROVE WorkersKeepUp'
  BY <1>3 DEF ReceiveClosed, Ticker, Running
<1>4. ASSUME NEW w \in Workers, InsertMany(w) PROVE WorkersKeepUp'
  <2>1. /\ worker[w] \in {"inserting", "lastInsert"} /\ main' = main /\ main # "exited"
        /\ batch' = [batch EXCEPT ![w] = <<>>]
        /\ worker' = [worker EXCEPT ![w] = IF @ = "inserting" THEN "select" ELSE "done"]
        /\ queue' = queue /\ qClosed' = qClosed
    BY <1>4 DEF InsertMany, Running
  <2>2. Len(<<>>) = 0 /\ 0 < BatchSize
    BY SizesAssumption
  <2>3. QED
    BY <2>1, <2>2
<1>5. CASE ShutdownAll \/ CloseQueue \/ ShutdownFails \/ Exit
  BY <1>5 DEF ShutdownAll, CloseQueue, ShutdownFails, Exit, workerVars
<1>6. CASE UNCHANGED <<queue, qClosed, worker, batch, main>>
  BY <1>6
<1>7. QED
  BY <1>1, <1>2, <1>3, <1>4, <1>5, <1>6
     DEF Next, vars, workerVars, Read, EnqueueTimeout, Offer, OfferStopped, ReadEnds

\* Every step keeps the invariant.
LEMMA InvStep == ASSUME Inv, InOnePlace, [Next]_vars PROVE Inv'
<1>1. TypeOK'
  <2>1. CASE ShutdownAll \/ CloseQueue \/ ShutdownFails \/ Exit
    BY <2>1 DEF ShutdownAll, CloseQueue, ShutdownFails, Exit, Inv, TypeOK, pumpVars,
                workerVars, dbVars
  <2>2. CASE UNCHANGED vars
    BY <2>2 DEF Inv, TypeOK, vars, pumpVars, workerVars, dbVars
  <2>3. QED
    BY <2>1, <2>2, PumpTypes, WorkerTypes DEF Next
<1>2. QED
  BY <1>1, HandStep, WorkersStep DEF Inv

\* No step takes a message from its place to two, or to none.
LEMMA PlaceStep == ASSUME Inv, InOnePlace, [Next]_vars PROVE InOnePlace'
<1> USE DEF InQueue, Pending
<1>1. ASSUME NEW c \in Senders, Enqueue(c), ~qClosed PROVE InOnePlace'
  <2>1. /\ queue' = Append(queue, hand[c]) /\ accepted' = accepted \cup {hand[c]}
        /\ UNCHANGED <<batch, stored, refused>> /\ pump[c] = "storing"
    BY <1>1 DEF Enqueue, workerVars, dbVars
  <2>2. /\ queue \in Seq(Messages) /\ hand[c] \in Messages /\ hand[c] \notin accepted
    BY <2>1 DEF Inv, TypeOK, HandIsNew
  <2>3. /\ hand[c] \notin InQueue \cup refused /\ stored[hand[c]] = 0
        /\ \A w \in Workers : hand[c] \notin Pending(w)
    BY <2>2 DEF InOnePlace
  <2>4. NoneTwice(queue)
    BY DEF NoneTwice, InOnePlace
  <2>5. InQueue' = InQueue \cup {hand[c]} /\ NoneTwice(queue')
    BY <2>1, <2>2, <2>3, <2>4, AppendOne DEF Elements
  <2>6. \A w \in Workers : Pending(w)' = Pending(w)
    BY <2>1
  <2> HIDE DEF InQueue, Pending
  <2>7. QED
    BY <2>1, <2>2, <2>3, <2>5, <2>6 DEF InOnePlace, NoneTwice
<1>2. ASSUME NEW w \in Workers, Receive(w) PROVE InOnePlace'
  <2>1. /\ queue # <<>> /\ queue' = Tail(queue)
        /\ batch' = [batch EXCEPT ![w] = Append(@, Head(queue))]
        /\ UNCHANGED <<accepted, stored, refused>>
    BY <1>2 DEF Receive, dbVars
  <2>2. NoneTwice(queue) /\ queue \in Seq(Messages) /\ batch[w] \in Seq(Messages)
        /\ NoneTwice(batch[w]) /\ batch \in [Workers -> Seq(Messages)]
    BY DEF NoneTwice, InOnePlace, Inv, TypeOK
  <2>3. /\ Head(queue) \in Messages /\ Head(queue) \in InQueue
        /\ InQueue' = InQueue \ {Head(queue)} /\ NoneTwice(queue')
    <3>1. /\ Head(queue) \in Messages /\ Head(queue) \in Elements(queue)
          /\ Elements(Tail(queue)) = Elements(queue) \ {Head(queue)}
          /\ NoneTwice(Tail(queue))
      BY <2>1, <2>2, TailOne
    <3>2. Elements(queue) = InQueue /\ Elements(queue') = InQueue'
      BY DEF Elements
    <3> HIDE DEF InQueue
    <3>3. QED
      BY <2>1, <3>1, <3>2
  <2>4. Head(queue) \notin Elements(batch[w])
    BY <2>3 DEF InOnePlace, Elements
  <2>5. /\ Pending(w)' = Pending(w) \cup {Head(queue)}
        /\ NoneTwice(batch'[w])
    <3>1. batch'[w] = Append(batch[w], Head(queue))
      BY <2>1, <2>2
    <3>2. /\ Elements(Append(batch[w], Head(queue))) = Elements(batch[w]) \cup {Head(queue)}
          /\ NoneTwice(Append(batch[w], Head(queue)))
      BY <2>2, <2>3, <2>4, AppendOne
    <3>3. Elements(batch[w]) = Pending(w) /\ Elements(batch'[w]) = Pending(w)'
      BY DEF Elements
    <3> HIDE DEF Pending
    <3>4. QED
      BY <3>1, <3>2, <3>3
  <2>6. \A v \in Workers \ {w} : Pending(v)' = Pending(v) /\ batch'[v] = batch[v]
    BY <2>1, <2>2
  <2> HIDE DEF InQueue, Pending
  <2>7. /\ \A m \in accepted' :
             \/ m \in InQueue' \cup refused' \/ stored'[m] = 1
             \/ \E v \in Workers : m \in Pending(v)'
        /\ \A m \in InQueue' \cup refused' \cup UNION {Pending(v)' : v \in Workers} :
             stored'[m] = 0 /\ m \in accepted'
    BY <2>1, <2>3, <2>5, <2>6 DEF InOnePlace
  <2>8. /\ InQueue' \cap refused' = {}
        /\ \A v \in Workers : Pending(v)' \cap (InQueue' \cup refused') = {}
        /\ \A u, v \in Workers : u # v => Pending(u)' \cap Pending(v)' = {}
    BY <2>1, <2>3, <2>5, <2>6 DEF InOnePlace
  <2>9. /\ \A i, j \in DOMAIN queue' : queue'[i] = queue'[j] => i = j
        /\ \A v \in Workers : \A i, j \in DOMAIN batch'[v] :
             batch'[v][i] = batch'[v][j] => i = j
    BY <2>3, <2>5, <2>6 DEF InOnePlace, NoneTwice
  <2>10. \A m \in Messages : stored'[m] \in {0, 1} /\ (stored'[m] = 1 => m \in accepted')
    BY <2>1 DEF InOnePlace
  <2>11. QED
    BY <2>7, <2>8, <2>9, <2>10 DEF InOnePlace
<1>3. ASSUME NEW w \in Workers, InsertMany(w) PROVE InOnePlace'
  <2>1. PICK k \in 0..Len(batch[w]) :
          /\ stored' = [m \in Messages |->
                          IF m \in InBatch(w, 1, k) THEN stored[m] + 1 ELSE stored[m]]
          /\ refused' = refused \cup InBatch(w, k + 1, Len(batch[w]))
    BY <1>3 DEF InsertMany
  <2>2. /\ batch' = [batch EXCEPT ![w] = <<>>] /\ batch \in [Workers -> Seq(Messages)]
        /\ UNCHANGED <<queue, accepted>>
    BY <1>3 DEF InsertMany, Inv, TypeOK
  <2>3. /\ InBatch(w, 1, k) \cup InBatch(w, k + 1, Len(batch[w])) = Pending(w)
        /\ InBatch(w, 1, k) \cap InBatch(w, k + 1, Len(batch[w])) = {}
        /\ Pending(w) \subseteq Messages
    BY BatchParts
  <2>4. /\ InQueue' = InQueue /\ Pending(w)' = {}
        /\ \A v \in Workers \ {w} : Pending(v)' = Pending(v) /\ batch'[v] = batch[v]
        /\ batch'[w] = <<>>
    BY <2>2
  <2> HIDE DEF InQueue, Pending
  <2> DEFINE W == InBatch(w, 1, k)   R == InBatch(w, k + 1, Len(batch[w]))
  <2>5. /\ W \cup R = Pending(w) /\ W \cap R = {} /\ Pending(w) \subseteq Messages
        /\ refused' = refused \cup R
        /\ \A m \in Messages : stored'[m] = IF m \in W THEN stored[m] + 1 ELSE stored[m]
    BY <2>1, <2>3
  <2> HIDE DEF W, R
  <2>6. \A m \in Pending(w) : stored[m] = 0 /\ m \in accepted
    BY DEF InOnePlace
  <2>7. /\ InQueue \subseteq Messages /\ refused \subseteq Messages /\ accepted \subseteq Messages
        /\ \A v \in Workers : Pending(v) \subseteq Messages
    <3>1. \A v \in Workers : batch[v] \in Seq(Messages)
      BY DEF Inv, TypeOK
    <3>2. QED
      BY <3>1 DEF InQueue, Pending, Inv, TypeOK
  <2>8. /\ \A m \in W : stored'[m] = 1
        /\ \A m \in Messages \ W : stored'[m] = stored[m]
    BY <2>5, <2>6
  <2>9. \A m \in accepted' :
             \/ m \in InQueue' \cup refused' \/ stored'[m] = 1
             \/ \E v \in Workers : m \in Pending(v)'
    <3> SUFFICES ASSUME NEW m \in accepted'
                 PROVE  \/ m \in InQueue' \cup refused' \/ stored'[m] = 1
                        \/ \E v \in Workers : m \in Pending(v)'
      OBVIOUS
    <3>1. m \in accepted /\ m \in Messages
      BY <2>2, <2>7
    <3>2. CASE m \in W \cup R
      BY <2>5, <2>8, <3>2
    <3>3. CASE m \notin W \cup R
      BY <2>4, <2>5, <2>8, <3>1, <3>3 DEF InOnePlace
    <3>4. QED
      BY <3>2, <3>3
  <2>10. \A m \in InQueue' \cup refused' \cup UNION {Pending(v)' : v \in Workers} :
             stored'[m] = 0 /\ m \in accepted'
    <3>1. /\ \A m \in InQueue \cup refused : m \notin Pending(w)
          /\ \A v \in Workers \ {w} : \A m \in Pending(v) : m \notin Pending(w)
      BY DEF InOnePlace
    <3>2. \A m \in InQueue' \cup refused : stored'[m] = 0 /\ m \in accepted'
      BY <2>2, <2>4, <2>5, <2>7, <2>8, <3>1 DEF InOnePlace
    <3>3. \A m \in R : stored'[m] = 0 /\ m \in accepted'
      BY <2>2, <2>5, <2>6, <2>8
    <3>4. \A v \in Workers : \A m \in Pending(v)' : stored'[m] = 0 /\ m \in accepted'
      <4> SUFFICES ASSUME NEW v \in Workers \ {w}, NEW m \in Pending(v)
                   PROVE  stored'[m] = 0 /\ m \in accepted'
        BY <2>4
      <4>1. m \notin W /\ m \in Messages
        BY <2>5, <2>7, <3>1
      <4>2. stored[m] = 0 /\ m \in accepted
        BY DEF InOnePlace
      <4>3. QED
        BY <2>2, <2>8, <4>1, <4>2
    <3>5. QED
      BY <2>5, <3>2, <3>3, <3>4
  <2>11. /\ InQueue' \cap refused' = {}
         /\ \A v \in Workers : Pending(v)' \cap (InQueue' \cup refused') = {}
         /\ \A u, v \in Workers : u # v => Pending(u)' \cap Pending(v)' = {}
    BY <2>4, <2>5 DEF InOnePlace
  <2>12. /\ \A i, j \in DOMAIN queue' : queue'[i] = queue'[j] => i = j
         /\ \A v \in Workers : \A i, j \in DOMAIN batch'[v] :
              batch'[v][i] = batch'[v][j] => i = j
    BY <2>2, <2>4 DEF InOnePlace
  <2>13. \A m \in Messages : stored'[m] \in {0, 1} /\ (stored'[m] = 1 => m \in accepted')
    BY <2>2, <2>5, <2>6, <2>8 DEF InOnePlace
  <2>14. QED
    BY <2>9, <2>10, <2>11, <2>12, <2>13 DEF InOnePlace
<1>4. CASE UNCHANGED <<queue, batch, stored, refused, accepted>>
  <2>1. /\ queue' = queue /\ batch' = batch /\ stored' = stored /\ refused' = refused
        /\ accepted' = accepted
    BY <1>4
  <2>2. InQueue' = InQueue /\ \A w \in Workers : Pending(w)' = Pending(w)
    BY <2>1
  <2> HIDE DEF InQueue, Pending
  <2>3. QED
    BY <2>1, <2>2 DEF InOnePlace
<1>5. QED
  BY <1>1, <1>2, <1>3, <1>4
     DEF Next, vars, pumpVars, workerVars, dbVars, Read, Enqueue, EnqueueTimeout, Offer,
         OfferStopped, ReadEnds, ReceiveClosed, Ticker, ShutdownAll, CloseQueue,
         ShutdownFails, Exit

\* What the queue has taken is being offered to the hub, unless it was
\* stopped.
LEMMA OfferedStep ==
    ASSUME Inv, StoredIsOffered, [Next]_vars PROVE StoredIsOffered'
<1> USE DEF Inv, TypeOK
<1>1. \A m \in Messages : m[1] \in Senders
  BY DEF Messages
<1>2. ASSUME NEW c \in Senders, Enqueue(c) PROVE StoredIsOffered'
  <2>1. /\ pump[c] = "storing" /\ hand' = hand /\ offered' = offered /\ stop' = stop
        /\ \E x \in {"panicked", "broadcasting"} : pump' = [pump EXCEPT ![c] = x]
    BY <1>2 DEF Enqueue
  <2>2. hand[c] \in Messages /\ hand[c][1] = c
    BY <2>1 DEF HandIsNew
  <2>3. CASE accepted' = accepted
    <3>1. \A m \in accepted : pump[m[1]] = "broadcasting" =>
                                pump'[m[1]] = "broadcasting"
      BY <1>1, <2>1
    <3>2. QED
      BY <2>1, <2>3, <3>1 DEF StoredIsOffered
  <2>4. CASE accepted' = accepted \cup {hand[c]} /\ pump' = [pump EXCEPT ![c] = "broadcasting"]
    <3>1. \A m \in accepted : pump[m[1]] = "broadcasting" =>
                                pump'[m[1]] = "broadcasting"
      BY <1>1, <2>4
    <3>2. pump'[hand[c][1]] = "broadcasting" /\ hand'[hand[c][1]] = hand[c]
      BY <2>1, <2>2, <2>4
    <3>3. QED
      BY <2>1, <2>4, <3>1, <3>2 DEF StoredIsOffered
  <2>5. QED
    BY <1>2, <2>3, <2>4 DEF Enqueue
<1>3. ASSUME NEW c \in Senders, Read(c) \/ EnqueueTimeout(c) \/ ReadEnds(c)
      PROVE  StoredIsOffered'
  <2>1. /\ pump[c] # "broadcasting" /\ accepted' = accepted /\ offered' = offered
        /\ stop' = stop
        /\ \A d \in Senders \ {c} : pump'[d] = pump[d] /\ hand'[d] = hand[d]
    BY <1>3 DEF Read, EnqueueTimeout, ReadEnds
  <2>2. QED
    BY <1>1, <2>1 DEF StoredIsOffered
<1>4. ASSUME NEW c \in Senders, Offer(c) PROVE StoredIsOffered'
  <2>1. /\ accepted' = accepted /\ offered' = offered \cup {hand[c]} /\ stop' = stop
        /\ \A d \in Senders \ {c} : pump'[d] = pump[d] /\ hand'[d] = hand[d]
    BY <1>4 DEF Offer
  <2>2. QED
    BY <1>1, <2>1 DEF StoredIsOffered
<1>5. ASSUME NEW c \in Senders, OfferStopped(c) PROVE StoredIsOffered'
  BY <1>5 DEF OfferStopped, StoredIsOffered
<1>6. CASE ShutdownAll
  BY <1>6 DEF ShutdownAll, StoredIsOffered
<1>7. CASE UNCHANGED <<pump, hand, accepted, offered, stop>>
  BY <1>7 DEF StoredIsOffered
<1>8. QED
  BY <1>2, <1>3, <1>4, <1>5, <1>6, <1>7
     DEF Next, vars, pumpVars, Receive, ReceiveClosed, Ticker, InsertMany, CloseQueue,
         ShutdownFails, Exit

\* For any number of senders and workers and any size of queue and batch:
\* every variable keeps its type.
THEOREM TypeCorrect == Spec => []TypeOK
<1>1. Inv /\ InOnePlace /\ [Next]_vars => Inv' /\ InOnePlace'
  BY InvStep, PlaceStep
<1>2. Init => Inv /\ InOnePlace
  BY InvInit
<1>3. Inv => TypeOK
  BY DEF Inv
<1>4. QED
  BY <1>1, <1>2, <1>3, PTL DEF Spec

\* Every message that the queue took is in exactly one place, and in MongoDB
\* at most once, whatever batches fail (runInsertWorker, InsertManyChat).
THEOREM OnePlace == Spec => []InOnePlace
<1>1. Inv /\ InOnePlace /\ [Next]_vars => Inv' /\ InOnePlace'
  BY InvStep, PlaceStep
<1>2. Init => Inv /\ InOnePlace
  BY InvInit
<1>3. QED
  BY <1>1, <1>2, PTL DEF Spec

\* When the server has exited, each of them was written, once, or refused by
\* MongoDB (ShutdownInsertQueue).
THEOREM Drained == Spec => []DrainedAtExit
<1>1. Inv /\ InOnePlace /\ [Next]_vars => Inv' /\ InOnePlace'
  BY InvStep, PlaceStep
<1>2. Init => Inv /\ InOnePlace
  BY InvInit
<1>3. Inv /\ InOnePlace => DrainedAtExit
  <2> SUFFICES ASSUME Inv, InOnePlace, main = "exited", NEW m \in accepted
               PROVE  stored[m] = 1 \/ m \in refused
    BY DEF DrainedAtExit
  <2>1. \A w \in Workers : batch[w] = <<>> /\ queue = <<>>
    BY DEF Inv, WorkersKeepUp
  <2>2. \A w \in Workers : Pending(w) = {}
    BY <2>1 DEF Pending
  <2>3. InQueue = {}
    BY <2>1, SizesAssumption DEF InQueue
  <2>4. QED
    BY <2>2, <2>3 DEF InOnePlace
<1>4. QED
  BY <1>1, <1>2, <1>3, PTL DEF Spec

\* No message is in MongoDB that the room was not shown, unless its hub was
\* stopped or is being offered it (readPump stores before it broadcasts).
THEOREM Offered == Spec => []StoredIsOffered
<1>1. /\ Inv /\ InOnePlace /\ [Next]_vars => Inv' /\ InOnePlace'
      /\ Inv /\ StoredIsOffered /\ [Next]_vars => StoredIsOffered'
  BY InvStep, PlaceStep, OfferedStep
<1>2. Init => Inv /\ InOnePlace /\ StoredIsOffered
  BY InvInit
<1>3. QED
  BY <1>1, <1>2, PTL DEF Spec
=============================================================================

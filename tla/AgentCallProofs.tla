-------------------------- MODULE AgentCallProofs --------------------------
(***************************************************************************)
(* The calls of agents.  Agent.stream, for any size of the queue, any      *)
(* number of pieces and any cancellations: what the consumer is given, and *)
(* what the events tell.  A recorded call, for any tasks, keys, sessions   *)
(* and crashes: what the file of the recording holds.  The runs of any     *)
(* tree of agents under a tape and the trace observer: what is recorded of *)
(* each run, whatever fails or is cancelled, and in whichever order the    *)
(* event loop takes the ready calls.  And the agents themselves, in any    *)
(* tree, under any edits, compounds, clones and writes: what is undone,    *)
(* what EvoGradient finds, and what a Parameter shows.                     *)
(***************************************************************************)
EXTENDS Stream, Cassette, MCAgentRun, SeqLemmas, FiniteSetTheorems

-----------------------------------------------------------------------------
(* What is on its way through a stream *)

Item == [kind : {"chunk", "result", "error", "done"}, n : Nat]

StreamType ==
  /\ reader \in {"new", "getting", "holding", "joining", "closed"}
  /\ left \in {"none", "done", "closed", "cancelled"}
  /\ failure \in BOOLEAN /\ slot \in BOOLEAN
  /\ driver \in [at : {"none", "waiting", "asking", "putting", "over"}, item : Item]
  /\ buffer \in Seq(Item) /\ seen \in Seq(Item)
  /\ sent \in Nat
  /\ events \in Seq({"start", "chunk", "end", "error"})

PutsChunk == driver.at = "putting" /\ driver.item.kind = "chunk"

\* Nothing the driver may still do brings another chunk.
Finishing == driver.at = "over" \/ (driver.at = "putting" /\ driver.item.kind # "chunk")

\* The driver, its slot, and the generator that started it and joins it.
DriverOK ==
  /\ driver.at = "none" => reader \in {"new", "closed"}
  /\ reader = "new" => sent = 0 /\ seen = <<>> /\ driver.at = "none" /\ buffer = <<>> /\ ~failure /\ left = "none"
  /\ reader = "closed" => driver.at \in {"none", "over"}
  /\ driver.at \in {"none", "waiting"} => ~slot
  /\ slot => driver.at = "asking" \/ PutsChunk
  /\ left = "done" => reader \in {"joining", "closed"} /\ driver.at = "over"
  /\ PutsChunk => driver.item = Chunk(sent) /\ sent > 0
  /\ driver.at = "putting" /\ driver.item.kind # "chunk" => driver.item \in {Result, Error, Sentinel}

Everything == Append(Chunks(sent), Result)

\* The consumer has been given everything, or the error is out.
ToldAll == seen = Everything \/ (failure /\ seen = Chunks(sent))

\* The first k items of the queue are the chunks that follow those seen.
ChunksBuffered(k) ==
  /\ k \in 0 .. Len(buffer) /\ seen = Chunks(Len(seen)) /\ ~failure
  /\ \A i \in 1 .. k : buffer[i] = Chunk(Len(seen) + i)

\* What is on its way to a consumer that has not left: chunks without a gap, then
\* one result or error, then the sentinel.
Flowing ==
  /\ driver.at \in {"waiting", "asking"} \/ (driver.at = "putting" /\ driver.item # Sentinel)
  /\ ChunksBuffered(Len(buffer))
  /\ Len(seen) + Len(buffer) + (IF PutsChunk THEN 1 ELSE 0) = sent

Ending ==
  /\ driver.at = "putting" /\ driver.item = Sentinel
  /\ \/ buffer = <<>> /\ ToldAll
     \/ /\ buffer # <<>> /\ ChunksBuffered(Len(buffer) - 1)
        /\ buffer[Len(buffer)] \in {Result, Error}
        /\ Len(seen) + Len(buffer) = sent + 1

EndedTold ==
  /\ driver.at = "over" /\ buffer # <<>> /\ buffer[Len(buffer)] = Sentinel
  /\ \/ Len(buffer) = 1 /\ ToldAll
     \/ /\ Len(buffer) > 1 /\ ChunksBuffered(Len(buffer) - 2)
        /\ buffer[Len(buffer) - 1] \in {Result, Error}
        /\ Len(seen) + Len(buffer) = sent + 2

SeenOK ==
  /\ (\E n \in 0 .. sent : seen = Chunks(n)) \/ (Finishing /\ seen = Everything)
  /\ left = "done" => failure \/ seen = Everything
  /\ reader \in {"getting", "holding"} => Flowing \/ Ending \/ EndedTold

\* A verdict is the last event, and the run is over.
EventsOK ==
  /\ \A n \in 1 .. Len(events) : events[n] \in {"end", "error"} => n = Len(events) /\ reader = "closed"
  /\ reader = "closed" => Len(events) > 0 /\ events[Len(events)] \in {"end", "error"}

StreamInv == StreamType /\ DriverOK /\ SeenOK /\ EventsOK

-----------------------------------------------------------------------------
(* Items and runs of chunks *)

LEMMA Items ==
  /\ Result \in Item /\ Error \in Item /\ Sentinel \in Item
  /\ \A n \in Nat : Chunk(n) \in Item /\ Chunk(n).kind = "chunk"
  /\ Result.kind = "result" /\ Error.kind = "error" /\ Sentinel.kind = "done"
  BY DEF Item, Result, Error, Sentinel, Chunk

LEMMA ChunkRuns ==
  ASSUME NEW n \in Nat
  PROVE  /\ Chunks(n) \in Seq(Item) /\ Len(Chunks(n)) = n
         /\ Chunks(0) = <<>>
         /\ Append(Chunks(n), Chunk(n + 1)) = Chunks(n + 1)
<1>1. ASSUME NEW m \in Nat
      PROVE  /\ Chunks(m) \in Seq(Item) /\ Len(Chunks(m)) = m
             /\ \A k \in 1 .. m : Chunks(m)[k] = Chunk(k)
  <2>1. Chunks(m) \in [1 .. m -> Item] /\ \A k \in 1 .. m : Chunks(m)[k] = Chunk(k)
    BY Items DEF Chunks
  <2> HIDE DEF Chunks
  <2>2. QED
    BY <2>1
<1>2. Chunks(0) = <<>>
  BY <1>1, EmptySeq
<1>3. Append(Chunks(n), Chunk(n + 1)) = Chunks(n + 1)
  <2> DEFINE s == Chunks(n)
             t == Chunks(n + 1)
  <2>1. /\ s \in Seq(Item) /\ Len(s) = n /\ \A k \in 1 .. n : s[k] = Chunk(k)
        /\ t \in Seq(Item) /\ Len(t) = n + 1 /\ \A k \in 1 .. n + 1 : t[k] = Chunk(k)
    BY <1>1
  <2>2. Chunk(n + 1) \in Item
    BY Items
  <2> HIDE DEF s, t
  <2>3. Append(s, Chunk(n + 1)) \in Seq(Item) /\ Len(Append(s, Chunk(n + 1))) = n + 1
    BY <2>1, <2>2
  <2>4. \A k \in 1 .. n + 1 : Append(s, Chunk(n + 1))[k] = t[k]
    BY <2>1, <2>2
  <2>5. Append(s, Chunk(n + 1)) = t
    BY <2>1, <2>3, <2>4, SeqEqual
  <2>6. QED
    BY <2>5 DEF s, t
<1>4. QED
  BY <1>1, <1>2, <1>3

\* The head of the queue leaves it, the others move up.
LEMMA Shifted ==
  ASSUME NEW S, NEW q \in Seq(S), q # <<>>
  PROVE  /\ Head(q) = q[1] /\ Tail(q) \in Seq(S) /\ Len(q) \in Nat \ {0} /\ Len(Tail(q)) = Len(q) - 1
         /\ \A i \in 1 .. Len(Tail(q)) : Tail(q)[i] = q[i + 1]
  BY EmptySeq, HeadTailProperties

\* A newcomer joins the queue at its end.
LEMMA Joined ==
  ASSUME NEW S, NEW q \in Seq(S), NEW e \in S
  PROVE  /\ Append(q, e) \in Seq(S) /\ Len(q) \in Nat /\ Len(Append(q, e)) = Len(q) + 1
         /\ Append(q, e)[Len(q) + 1] = e /\ Append(q, e) # <<>>
         /\ \A i \in 1 .. Len(q) : Append(q, e)[i] = q[i]
  OBVIOUS

LEMMA InitStream == StreamInit => StreamInv
<1> SUFFICES ASSUME StreamInit PROVE StreamInv
  OBVIOUS
<1>1. driver = [at |-> "none", item |-> Sentinel] /\ driver.at = "none" /\ ~PutsChunk
  BY DEF StreamInit, Idle, At, PutsChunk
<1>2. StreamType
  <2>1. driver \in [at : {"none", "waiting", "asking", "putting", "over"}, item : Item]
    BY <1>1, Items
  <2>2. buffer \in Seq(Item) /\ seen \in Seq(Item) /\ events \in Seq({"start", "chunk", "end", "error"})
    BY EmptySeq DEF StreamInit
  <2>3. QED
    BY <2>1, <2>2 DEF StreamInit, StreamType
<1>3. DriverOK
  BY <1>1 DEF StreamInit, DriverOK
<1>4. SeenOK
  <2>1. seen = Chunks(0) /\ sent = 0
    BY ChunkRuns DEF StreamInit
  <2>2. 0 \in 0 .. sent
    BY <2>1
  <2>3. QED
    BY <2>1, <2>2 DEF StreamInit, SeenOK
<1>5. EventsOK
  BY DEF StreamInit, EventsOK
<1>6. QED
  BY <1>2, <1>3, <1>4, <1>5 DEF StreamInv

-----------------------------------------------------------------------------
(* Each step keeps the invariant *)

DriverType == [at : {"none", "waiting", "asking", "putting", "over"}, item : Item]

\* A driver that is sent somewhere is there, with its item.
LEMMA StreamMoves ==
  ASSUME NEW w \in {"none", "waiting", "asking", "putting", "over"}, NEW item \in Item
  PROVE  /\ At(w, item) \in DriverType /\ At(w, item).at = w /\ At(w, item).item = item
         /\ Idle(w) \in DriverType /\ Idle(w).at = w /\ Idle(w).item = Sentinel
  BY Items DEF At, Idle, DriverType

LEMMA OpenKeeps == StreamInv /\ Open => StreamInv'
<1> SUFFICES ASSUME StreamInv, Open PROVE StreamInv'
  OBVIOUS
<1>1. /\ reader' = "getting" /\ driver' \in DriverType /\ driver'.at = "waiting"
      /\ sent' = 0 /\ seen' = <<>> /\ buffer' = <<>> /\ ~failure' /\ left' = "none" /\ ~slot'
  BY StreamMoves, Items DEF Open, StreamInv, DriverOK
<1>2. StreamType'
  <2>1. events' \in Seq({"start", "chunk", "end", "error"})
    BY DEF Open
  <2>2. buffer' \in Seq(Item) /\ seen' \in Seq(Item)
    BY <1>1, EmptySeq
  <2>3. QED
    BY <1>1, <2>1, <2>2 DEF Open, StreamInv, StreamType, DriverType
<1>3. DriverOK'
  BY <1>1 DEF DriverOK, PutsChunk
<1>4. SeenOK'
  <2>1. seen' = Chunks(0)
    BY <1>1, ChunkRuns
  <2>2. Len(seen') = 0 /\ Len(buffer') = 0
    BY <1>1, EmptySeq
  <2>3. Flowing'
    BY <1>1, <2>1, <2>2 DEF Flowing, ChunksBuffered, PutsChunk
  <2>4. (\E n \in 0 .. sent : seen = Chunks(n))'
    BY <1>1, <2>1
  <2>5. QED
    BY <1>1, <2>3, <2>4 DEF SeenOK
<1>5. EventsOK'
  BY <1>1 DEF Open, EventsOK
<1>6. QED
  BY <1>2, <1>3, <1>4, <1>5 DEF StreamInv

LEMMA OpenRejectsKeeps == StreamInv /\ OpenRejects => StreamInv'
<1> SUFFICES ASSUME StreamInv, OpenRejects PROVE StreamInv'
  OBVIOUS
<1>1. /\ reader' = "closed" /\ driver' = driver /\ driver.at = "none"
      /\ sent' = 0 /\ seen' = <<>> /\ seen = <<>> /\ buffer' = buffer /\ failure' /\ left' = "none" /\ slot' = slot
  BY DEF OpenRejects, StreamInv, DriverOK
<1>2. StreamType'
  <2>1. events' \in Seq({"start", "chunk", "end", "error"})
    BY DEF OpenRejects
  <2>2. QED
    BY <1>1, <2>1 DEF OpenRejects, StreamInv, StreamType
<1>3. DriverOK'
  BY <1>1 DEF StreamInv, DriverOK, PutsChunk
<1>4. SeenOK'
  <2>1. (\E n \in 0 .. sent : seen = Chunks(n))'
    BY <1>1, ChunkRuns
  <2>2. QED
    BY <1>1, <2>1 DEF SeenOK
<1>5. EventsOK'
  BY <1>1 DEF OpenRejects, EventsOK
<1>6. QED
  BY <1>2, <1>3, <1>4, <1>5 DEF StreamInv

LEMMA AdmitKeeps == StreamInv /\ Admit => StreamInv'
<1> SUFFICES ASSUME StreamInv, Admit PROVE StreamInv'
  OBVIOUS
<1>1. /\ driver.at = "waiting" /\ driver' \in DriverType /\ driver'.at = "asking" /\ slot'
      /\ UNCHANGED <<reader, left, failure, buffer, sent, events, seen>>
  BY StreamMoves, Items DEF Admit
<1>2. StreamType'
  BY <1>1 DEF StreamInv, StreamType, DriverType
<1>3. DriverOK'
  BY <1>1 DEF StreamInv, DriverOK, PutsChunk
<1>4. SeenOK'
  <2>1. Flowing => Flowing'
    BY <1>1 DEF Flowing, ChunksBuffered, PutsChunk
  <2>2. (\E n \in 0 .. sent : seen = Chunks(n))' /\ left' # "done"
    BY <1>1 DEF StreamInv, DriverOK, SeenOK, Finishing
  <2>3. QED
    BY <1>1, <2>1, <2>2 DEF StreamInv, SeenOK, Ending, EndedTold
<1>5. EventsOK'
  BY <1>1 DEF StreamInv, EventsOK
<1>6. QED
  BY <1>2, <1>3, <1>4, <1>5 DEF StreamInv

LEMMA PieceKeeps == StreamInv /\ Piece => StreamInv'
<1> SUFFICES ASSUME StreamInv, Piece PROVE StreamInv'
  OBVIOUS
<1>0. sent \in Nat /\ sent' = sent + 1 /\ sent' \in Nat
  BY DEF Piece, StreamInv, StreamType
<1>1. /\ driver.at = "asking" /\ driver' \in DriverType /\ driver'.at = "putting"
      /\ driver'.item = Chunk(sent') /\ driver'.item.kind = "chunk"
      /\ UNCHANGED <<reader, left, failure, slot, buffer, events, seen>>
  <2>1. Chunk(sent') \in Item /\ Chunk(sent').kind = "chunk"
    BY <1>0, Items
  <2>2. QED
    BY <2>1, StreamMoves DEF Piece
<1>2. StreamType'
  BY <1>0, <1>1 DEF StreamInv, StreamType, DriverType
<1>3. DriverOK'
  BY <1>0, <1>1 DEF StreamInv, DriverOK, PutsChunk
<1>4. SeenOK'
  <2>1. Flowing => Flowing'
    <3>1. Sentinel.kind # "chunk"
      BY Items
    <3>2. Len(seen) \in Nat /\ Len(buffer) \in Nat
      BY DEF StreamInv, StreamType
    <3>3. ~PutsChunk /\ PutsChunk'
      BY <1>1 DEF PutsChunk
    <3>4. ChunksBuffered(Len(buffer)) => ChunksBuffered(Len(buffer))'
      BY <1>1 DEF ChunksBuffered
    <3>5. Len(seen) + Len(buffer) = sent => Len(seen) + Len(buffer) + 1 = sent'
      BY <1>0, <3>2
    <3>6. driver'.at = "putting" /\ driver'.item # Sentinel
      BY <1>1, <3>1
    <3>7. seen' = seen /\ buffer' = buffer
      BY <1>1
    <3>8. QED
      BY <3>2, <3>3, <3>4, <3>5, <3>6, <3>7 DEF Flowing
  <2>2. (\E n \in 0 .. sent : seen = Chunks(n))'
    BY <1>0, <1>1 DEF StreamInv, SeenOK, Finishing
  <2>3. left' # "done"
    BY <1>1 DEF StreamInv, DriverOK
  <2>4. QED
    BY <1>1, <2>1, <2>2, <2>3 DEF StreamInv, SeenOK, Ending, EndedTold
<1>5. EventsOK'
  BY <1>1 DEF StreamInv, EventsOK
<1>6. QED
  BY <1>2, <1>3, <1>4, <1>5 DEF StreamInv

\* The driver is done asking: it puts the result or the error next.
LEMMA CompleteKeeps ==
  ASSUME NEW item \in {Result, Error}, StreamInv, Complete(item)
  PROVE  StreamInv'
<1>0. item \in Item /\ item.kind # "chunk" /\ item # Sentinel
  BY Items
<1>1. /\ driver.at \in {"asking", "waiting"} /\ driver' \in DriverType /\ driver'.at = "putting"
      /\ driver'.item = item /\ ~slot'
      /\ UNCHANGED <<reader, left, failure, buffer, sent, events, seen>>
  BY <1>0, StreamMoves DEF Complete
<1>2. StreamType'
  BY <1>1 DEF StreamInv, StreamType, DriverType, Complete
<1>3. DriverOK'
  BY <1>0, <1>1 DEF StreamInv, DriverOK, PutsChunk
<1>4. SeenOK'
  <2>1. Flowing => Flowing'
    BY <1>0, <1>1 DEF Flowing, ChunksBuffered, PutsChunk
  <2>2. (\E n \in 0 .. sent : seen = Chunks(n))' /\ left' # "done"
    BY <1>1 DEF StreamInv, DriverOK, SeenOK, Finishing
  <2>3. QED
    BY <1>1, <2>1, <2>2 DEF StreamInv, SeenOK, Ending, EndedTold
<1>5. EventsOK'
  BY <1>1 DEF StreamInv, EventsOK
<1>6. QED
  BY <1>2, <1>3, <1>4, <1>5 DEF StreamInv

\* An item that is put: a chunk, then a result or error, then the sentinel.
LEMMA PutKeeps == StreamInv /\ Put => StreamInv'
<1> SUFFICES ASSUME StreamInv, Put PROVE StreamInv'
  OBVIOUS
<1> DEFINE item == driver.item
<1>0. /\ driver.at = "putting" /\ item \in Item /\ buffer \in Seq(Item) /\ seen \in Seq(Item)
      /\ sent \in Nat /\ Len(seen) \in Nat /\ Len(buffer) \in Nat
  BY DEF Put, StreamInv, StreamType
<1>1. /\ UNCHANGED <<reader, left, failure, slot, sent, seen>>
      /\ buffer' = Append(buffer, item) /\ driver' = AfterPut(item) /\ events' = Told(item)
  BY DEF Put
<1>2. /\ buffer' \in Seq(Item) /\ Len(buffer') = Len(buffer) + 1 /\ buffer'[Len(buffer) + 1] = item
      /\ buffer' # <<>> /\ \A i \in 1 .. Len(buffer) : buffer'[i] = buffer[i]
  BY <1>0, <1>1, Joined
<1>3. /\ item.kind = "chunk" => item = Chunk(sent) /\ sent > 0 /\ item # Sentinel
      /\ item.kind # "chunk" => item \in {Result, Error, Sentinel}
  BY <1>0, Items DEF StreamInv, DriverOK, PutsChunk
<1>4. /\ driver' \in DriverType
      /\ item.kind = "chunk" => driver'.at = "asking"
      /\ item \in {Result, Error} => driver'.at = "putting" /\ driver'.item = Sentinel
      /\ item = Sentinel => driver'.at = "over"
  BY <1>0, <1>1, StreamMoves, Items DEF AfterPut
<1>5. reader # "closed" /\ left # "done" /\ driver'.at \notin {"none", "waiting"} /\ ~PutsChunk'
      /\ reader # "new"
  BY <1>0, <1>3, <1>4, Items DEF StreamInv, DriverOK, PutsChunk
<1>6. StreamType'
  <2>1. events' \in Seq({"start", "chunk", "end", "error"})
    BY <1>1 DEF Told, StreamInv, StreamType
  <2>2. QED
    BY <1>1, <1>2, <1>4, <2>1 DEF StreamInv, StreamType, DriverType
<1>7. DriverOK'
  <2>1. slot => item.kind = "chunk"
    BY <1>0 DEF StreamInv, DriverOK, PutsChunk
  <2>2. slot' => driver'.at = "asking"
    BY <1>1, <1>4, <2>1
  <2>3. driver'.at = "putting" => driver'.item = Sentinel
    BY <1>3, <1>4
  <2>4. QED
    BY <1>1, <1>5, <2>2, <2>3 DEF DriverOK
<1>8. SeenOK'
  <2>1. Finishing => Finishing'
    BY <1>0, <1>3, <1>4, Items DEF Finishing
  <2>2. ((\E n \in 0 .. sent : seen = Chunks(n)) \/ (Finishing /\ seen = Everything))'
    BY <1>1, <2>1 DEF StreamInv, SeenOK, Everything
  <2>3. ASSUME reader \in {"getting", "holding"}
        PROVE  (Flowing \/ Ending \/ EndedTold)'
    <3>0. Flowing \/ Ending
      BY <1>0, <2>3 DEF StreamInv, SeenOK, EndedTold
    <3>1. CASE item.kind = "chunk"
      <4>1. Flowing /\ PutsChunk
        BY <1>0, <1>3, <3>0, <3>1 DEF Ending, PutsChunk
      <4>2. Len(seen) + Len(buffer) + 1 = sent
        BY <4>1 DEF Flowing
      <4>3. ChunksBuffered(Len(buffer))'
        <5>1. seen' = Chunks(Len(seen')) /\ ~failure' /\ Len(buffer') \in 0 .. Len(buffer')
          BY <1>0, <1>1, <1>2, <4>1 DEF Flowing, ChunksBuffered
        <5>2. \A i \in 1 .. Len(buffer) : buffer'[i] = Chunk(Len(seen') + i)
          BY <1>0, <1>1, <1>2, <4>1 DEF Flowing, ChunksBuffered
        <5>3. buffer'[Len(buffer) + 1] = Chunk(Len(seen') + (Len(buffer) + 1))
          <6>1. Len(seen') + (Len(buffer) + 1) = sent
            BY <1>0, <1>1, <4>2
          <6>2. QED
            BY <1>2, <1>3, <3>1, <6>1
        <5>4. ASSUME NEW i \in 1 .. Len(buffer')
              PROVE  buffer'[i] = Chunk(Len(seen') + i)
          <6>1. i \in 1 .. Len(buffer) \/ i = Len(buffer) + 1
            BY <1>0, <1>2
          <6>2. QED
            BY <5>2, <5>3, <6>1
        <5>5. QED
          BY <5>1, <5>4 DEF ChunksBuffered
      <4>4. Flowing'
        BY <1>0, <1>1, <1>2, <1>4, <1>5, <3>1, <4>2, <4>3 DEF Flowing
      <4>5. QED
        BY <4>4
    <3>2. CASE item \in {Result, Error}
      <4>1. Flowing /\ ~PutsChunk
        BY <1>0, <3>0, <3>2, Items DEF Ending, PutsChunk
      <4>2. Len(seen) + Len(buffer) = sent
        BY <1>0, <4>1 DEF Flowing
      <4>3. ChunksBuffered(Len(buffer) - 1)'
        BY <1>0, <1>1, <1>2, <4>1 DEF Flowing, ChunksBuffered
      <4>4. Ending'
        <5>1. buffer'[Len(buffer')] \in {Result, Error} /\ Len(seen') + Len(buffer') = sent' + 1
          BY <1>0, <1>1, <1>2, <3>2, <4>2
        <5>2. QED
          BY <1>2, <1>4, <3>2, <4>3, <5>1 DEF Ending
      <4>5. QED
        BY <4>4
    <3>3. CASE item = Sentinel
      <4>1. Ending
        BY <1>0, <3>0, <3>3 DEF Flowing
      <4>2. CASE buffer = <<>> /\ ToldAll
        <5>1. Len(buffer') = 1 /\ buffer'[1] = Sentinel
          BY <1>2, <3>3, <4>2, EmptySeq
        <5>2. ToldAll'
          BY <1>1, <4>2 DEF ToldAll, Everything
        <5>3. QED
          BY <1>2, <1>4, <3>3, <5>1, <5>2 DEF EndedTold
      <4>3. CASE ~(buffer = <<>> /\ ToldAll)
        <5>1. /\ buffer # <<>> /\ ChunksBuffered(Len(buffer) - 1) /\ buffer[Len(buffer)] \in {Result, Error}
              /\ Len(seen) + Len(buffer) = sent + 1
          BY <4>1, <4>3 DEF Ending
        <5>2. Len(buffer) > 0
          BY <1>0, <5>1, EmptySeq
        <5>3. ChunksBuffered(Len(buffer) - 2)'
          BY <1>0, <1>1, <1>2, <5>1, <5>2 DEF ChunksBuffered
        <5>4. EndedTold'
          BY <1>0, <1>1, <1>2, <1>4, <3>3, <5>1, <5>2, <5>3 DEF EndedTold
        <5>5. QED
          BY <5>4
      <4>4. QED
        BY <4>2, <4>3
    <3>4. QED
      BY <1>3, <3>1, <3>2, <3>3
  <2>4. QED
    BY <1>1, <1>5, <2>2, <2>3 DEF SeenOK
<1>9. EventsOK'
  <2>1. \A n \in 1 .. Len(events) : events[n] \notin {"end", "error"}
    BY <1>5 DEF StreamInv, EventsOK
  <2>2. \A n \in 1 .. Len(events') : events'[n] \notin {"end", "error"}
    BY <1>1, <2>1 DEF Told, StreamInv, StreamType
  <2>3. QED
    BY <1>1, <1>5, <2>2 DEF EventsOK
<1>10. QED
  BY <1>6, <1>7, <1>8, <1>9 DEF StreamInv

\* A chunk at the head of the queue is handed over.
LEMMA ChunkTaken ==
  ASSUME NEW k \in Nat \ {0}, StreamInv, Get, ChunksBuffered(k)
  PROVE  /\ reader' = "holding" /\ seen' = Chunks(Len(seen) + 1) /\ Len(seen') = Len(seen) + 1
         /\ seen' \in Seq(Item) /\ ~failure' /\ left' = left
         /\ \A i \in 1 .. k - 1 : buffer'[i] = Chunk(Len(seen') + i)
<1>1. /\ buffer \in Seq(Item) /\ seen \in Seq(Item) /\ buffer # <<>> /\ Len(seen) \in Nat
      /\ k <= Len(buffer) /\ seen = Chunks(Len(seen))
  BY DEF StreamInv, StreamType, Get, ChunksBuffered
<1>2. Head(buffer) = Chunk(Len(seen) + 1) /\ \A i \in 1 .. Len(buffer) - 1 : buffer'[i] = buffer[i + 1]
  BY <1>1, Shifted DEF Get, ChunksBuffered
<1>3. Chunk(Len(seen) + 1) \notin {Sentinel, Error}
  BY <1>1, Items
<1>4. reader' = "holding" /\ seen' = Append(seen, Chunk(Len(seen) + 1)) /\ left' = left /\ ~failure'
  BY <1>2, <1>3 DEF Get, ChunksBuffered
<1>5. seen' = Chunks(Len(seen) + 1)
  <2> DEFINE n == Len(seen)
  <2>1. seen = Chunks(n) /\ n \in Nat /\ seen' = Append(seen, Chunk(n + 1))
    BY <1>1, <1>4
  <2> HIDE DEF n
  <2>2. seen' = Chunks(n + 1)
    BY <2>1, ChunkRuns
  <2>3. QED
    BY <2>2 DEF n
<1>6. seen' \in Seq(Item) /\ Len(seen') = Len(seen) + 1
  BY <1>1, <1>5, ChunkRuns
<1>7. ASSUME NEW i \in 1 .. k - 1
      PROVE  buffer'[i] = Chunk(Len(seen') + i)
  <2>1. buffer'[i] = buffer[i + 1] /\ i + 1 \in 1 .. k
    BY <1>1, <1>2
  <2>2. buffer[i + 1] = Chunk(Len(seen) + (i + 1))
    BY <2>1 DEF ChunksBuffered
  <2>3. Len(seen) + (i + 1) = Len(seen') + i
    BY <1>1, <1>6
  <2>4. QED
    BY <2>1, <2>2, <2>3
<1>8. QED
  BY <1>4, <1>5, <1>6, <1>7

\* The verdict of the call, a result or an error, is handed over after all chunks.
LEMMA VerdictTaken ==
  ASSUME StreamInv, Get, Head(buffer) \in {Result, Error}, seen = Chunks(sent)
  PROVE  /\ ToldAll' /\ left' = left /\ reader' \in {"getting", "holding"} /\ seen' \in Seq(Item)
         /\ seen' = Chunks(sent) \/ seen' = Everything
<1>1. Result \notin {Sentinel, Error} /\ Error # Sentinel /\ seen \in Seq(Item) /\ Result \in Item
  BY Items DEF StreamInv, StreamType
<1>2. sent' = sent /\ Everything' = Everything /\ Chunks(sent)' = Chunks(sent)
  BY DEF Get, Everything
<1>3. CASE Head(buffer) = Result
  BY <1>1, <1>2, <1>3 DEF Get, ToldAll, Everything
<1>4. CASE Head(buffer) = Error
  BY <1>1, <1>2, <1>4 DEF Get, ToldAll
<1>5. QED
  BY <1>3, <1>4

\* An item that moves from the queue to the consumer is still counted.
LEMMA Counted ==
  ASSUME NEW a \in Nat, NEW b \in Nat, NEW c, c = a + 1, NEW d, d = b - 1
  PROVE  /\ c + d = a + b
         /\ \A e \in Nat : c + d + e = a + b + e
  OBVIOUS

LEMMA GetKeeps == StreamInv /\ Get => StreamInv'
<1> SUFFICES ASSUME StreamInv, Get PROVE StreamInv'
  OBVIOUS
<1>0. /\ reader = "getting" /\ buffer # <<>> /\ buffer \in Seq(Item) /\ seen \in Seq(Item)
      /\ sent \in Nat /\ Len(seen) \in Nat /\ left # "done" /\ driver.at # "none"
  BY DEF Get, StreamInv, StreamType, DriverOK
<1>1. /\ UNCHANGED <<driver, slot, sent, events>> /\ buffer' = Tail(buffer)
      /\ Finishing' = Finishing /\ PutsChunk' = PutsChunk /\ Everything' = Everything
  BY DEF Get, Finishing, PutsChunk, Everything
<1>2. /\ Head(buffer) = buffer[1] /\ buffer' \in Seq(Item) /\ Len(buffer) \in Nat \ {0}
      /\ Len(buffer') = Len(buffer) - 1 /\ \A i \in 1 .. Len(buffer') : buffer'[i] = buffer[i + 1]
  BY <1>0, <1>1, Shifted
\* What is to be shown, by what is on its way.
<1> DEFINE Told1 ==
      /\ reader' \in {"getting", "holding", "joining"} /\ seen' \in Seq(Item)
      /\ (\E n \in 0 .. sent : seen' = Chunks(n)) \/ (Finishing /\ seen' = Everything)
      /\ reader' \in {"getting", "holding"} => left' = left /\ (Flowing \/ Ending \/ EndedTold)'
      /\ reader' = "joining" => driver.at = "over" /\ left' = "done" /\ (failure' \/ seen' = Everything)
<1>3. ASSUME Flowing PROVE Told1
  <2>1. ChunksBuffered(Len(buffer))
    BY <1>3 DEF Flowing
  <2>2. /\ reader' = "holding" /\ seen' = Chunks(Len(seen) + 1) /\ Len(seen') = Len(seen) + 1
        /\ seen' \in Seq(Item) /\ ~failure' /\ left' = left
        /\ \A i \in 1 .. Len(buffer) - 1 : buffer'[i] = Chunk(Len(seen') + i)
    BY <1>2, <2>1, ChunkTaken
  <2>3. Flowing'
    <3>1. ChunksBuffered(Len(buffer))'
      BY <1>2, <2>2 DEF ChunksBuffered
    <3>2. Len(seen) + Len(buffer) + (IF PutsChunk THEN 1 ELSE 0) = sent
      BY <1>3 DEF Flowing
    <3>3. Len(seen') + Len(buffer') + (IF PutsChunk THEN 1 ELSE 0) = sent
      <4>1. Len(seen') = Len(seen) + 1 /\ Len(buffer') = Len(buffer) - 1
        BY <1>2, <2>2
      <4>2. QED
        BY <1>0, <1>2, <3>2, <4>1, Counted
    <3>4. Len(seen') + Len(buffer') + (IF PutsChunk' THEN 1 ELSE 0) = sent'
      BY <1>1, <3>3
    <3>5. QED
      BY <1>1, <1>3, <3>1, <3>4 DEF Flowing
  <2>4. Len(seen) + 1 \in 0 .. sent
    BY <1>0, <1>2, <1>3 DEF Flowing
  <2>5. QED
    BY <2>2, <2>3, <2>4
<1>4. ASSUME Ending PROVE Told1
  <2>0. Finishing /\ driver.at = "putting" /\ driver.item = Sentinel
    BY <1>4, Items DEF Ending, Finishing
  <2>1. /\ ChunksBuffered(Len(buffer) - 1) /\ buffer[Len(buffer)] \in {Result, Error}
        /\ Len(seen) + Len(buffer) = sent + 1
    BY <1>0, <1>4 DEF Ending
  <2>2. CASE Len(buffer) = 1
    <3>1. seen = Chunks(sent) /\ Head(buffer) \in {Result, Error} /\ buffer' = <<>>
      <4>1. Len(seen) = sent
        BY <1>0, <2>1, <2>2
      <4>2. buffer' = <<>>
        BY <1>2, <2>2, EmptySeq
      <4>3. QED
        BY <1>2, <2>1, <2>2, <4>1, <4>2 DEF ChunksBuffered
    <3>2. /\ ToldAll' /\ left' = left /\ reader' \in {"getting", "holding"} /\ seen' \in Seq(Item)
          /\ seen' = Chunks(sent) \/ seen' = Everything
      BY <3>1, VerdictTaken
    <3>3. Ending'
      BY <1>1, <2>0, <3>1, <3>2 DEF Ending
    <3>4. sent \in 0 .. sent
      BY <1>0
    <3>5. QED
      BY <2>0, <3>2, <3>3, <3>4
  <2>3. CASE Len(buffer) > 1
    <3>1. /\ reader' = "holding" /\ seen' = Chunks(Len(seen) + 1) /\ Len(seen') = Len(seen) + 1
          /\ seen' \in Seq(Item) /\ ~failure' /\ left' = left
          /\ \A i \in 1 .. (Len(buffer) - 1) - 1 : buffer'[i] = Chunk(Len(seen') + i)
      BY <1>2, <2>1, <2>3, ChunkTaken
    <3>2. ChunksBuffered(Len(buffer) - 1)'
      <4>1. Len(buffer') = Len(buffer) - 1 /\ Len(buffer') - 1 \in 0 .. Len(buffer')
        BY <1>2, <2>3
      <4>2. \A i \in 1 .. Len(buffer') - 1 : buffer'[i] = Chunk(Len(seen') + i)
        BY <3>1, <4>1
      <4>3. QED
        BY <3>1, <4>1, <4>2 DEF ChunksBuffered
    <3>3. Ending'
      <4>1. buffer'[Len(buffer')] \in {Result, Error} /\ buffer' # <<>>
        BY <1>2, <2>1, <2>3, EmptySeq
      <4>2. Len(seen') + Len(buffer') = sent' + 1
        <5>1. Len(seen') = Len(seen) + 1 /\ Len(buffer') = Len(buffer) - 1 /\ sent' = sent
          BY <1>1, <1>2, <3>1
        <5>2. Len(seen') + Len(buffer') = Len(seen) + Len(buffer)
          BY <1>0, <1>2, <5>1, Counted
        <5>3. QED
          BY <2>1, <5>1, <5>2
      <4>3. QED
        BY <1>1, <2>0, <3>2, <4>1, <4>2 DEF Ending
    <3>4. Len(seen) + 1 \in 0 .. sent
      BY <1>0, <1>2, <2>1, <2>3
    <3>5. QED
      BY <3>1, <3>3, <3>4
  <2>4. QED
    BY <1>2, <2>2, <2>3
<1>5. ASSUME EndedTold PROVE Told1
  <2>0. Finishing /\ driver.at = "over" /\ buffer[Len(buffer)] = Sentinel
    BY <1>5 DEF EndedTold, Finishing
  <2>1. CASE Len(buffer) = 1
    <3>1. ToldAll /\ Head(buffer) = Sentinel
      BY <1>2, <1>5, <2>0, <2>1 DEF EndedTold
    <3>2. /\ reader' = "joining" /\ left' = "done" /\ seen' = seen /\ (failure => failure')
      BY <3>1, Items DEF Get
    <3>3. sent \in 0 .. sent
      BY <1>0
    <3>4. QED
      BY <1>0, <2>0, <3>1, <3>2, <3>3 DEF ToldAll
  <2>2. ASSUME Len(buffer) > 1
        PROVE  /\ ChunksBuffered(Len(buffer) - 2) /\ buffer[Len(buffer) - 1] \in {Result, Error}
               /\ Len(seen) + Len(buffer) = sent + 2
    BY <1>2, <1>5, <2>2 DEF EndedTold
  <2>3. CASE Len(buffer) = 2
    <3>1. /\ seen = Chunks(sent) /\ Head(buffer) \in {Result, Error} /\ Len(buffer') = 1
          /\ buffer'[1] = Sentinel /\ buffer' # <<>>
      <4>1. Len(seen) = sent
        BY <1>0, <2>2, <2>3
      <4>2. Len(buffer') = 1 /\ buffer'[1] = Sentinel /\ buffer' # <<>>
        BY <1>2, <2>0, <2>3, EmptySeq
      <4>3. QED
        BY <1>2, <2>2, <2>3, <4>1, <4>2 DEF ChunksBuffered
    <3>2. /\ ToldAll' /\ left' = left /\ reader' \in {"getting", "holding"} /\ seen' \in Seq(Item)
          /\ seen' = Chunks(sent) \/ seen' = Everything
      BY <3>1, VerdictTaken
    <3>3. EndedTold'
      BY <1>1, <2>0, <3>1, <3>2 DEF EndedTold
    <3>4. sent \in 0 .. sent
      BY <1>0
    <3>5. QED
      BY <2>0, <3>2, <3>3, <3>4
  <2>4. CASE Len(buffer) > 2
    <3>1. /\ reader' = "holding" /\ seen' = Chunks(Len(seen) + 1) /\ Len(seen') = Len(seen) + 1
          /\ seen' \in Seq(Item) /\ ~failure' /\ left' = left
          /\ \A i \in 1 .. (Len(buffer) - 2) - 1 : buffer'[i] = Chunk(Len(seen') + i)
      BY <1>2, <2>2, <2>4, ChunkTaken
    <3>2. ChunksBuffered(Len(buffer) - 2)'
      BY <1>2, <2>4, <3>1 DEF ChunksBuffered
    <3>3. EndedTold'
      <4>1. buffer'[Len(buffer') - 1] \in {Result, Error} /\ buffer'[Len(buffer')] = Sentinel /\ buffer' # <<>>
        BY <1>2, <2>0, <2>2, <2>4, EmptySeq
      <4>2. Len(seen') + Len(buffer') = sent' + 2
        <5>1. Len(seen') = Len(seen) + 1 /\ Len(buffer') = Len(buffer) - 1 /\ sent' = sent
          BY <1>1, <1>2, <3>1
        <5>2. Len(seen') + Len(buffer') = Len(seen) + Len(buffer)
          BY <1>0, <1>2, <5>1, Counted
        <5>3. QED
          BY <2>2, <2>4, <5>1, <5>2
      <4>3. Len(buffer') > 1
        BY <1>2, <2>4
      <4>4. QED
        BY <1>1, <2>0, <3>2, <4>1, <4>2, <4>3 DEF EndedTold
    <3>4. Len(seen) + 1 \in 0 .. sent
      BY <1>0, <1>2, <2>2, <2>4
    <3>5. QED
      BY <3>1, <3>3, <3>4
  <2>5. QED
    BY <1>2, <2>1, <2>3, <2>4
<1>6. Told1
  BY <1>0, <1>3, <1>4, <1>5 DEF StreamInv, SeenOK
<1> HIDE DEF Told1
<1>7. StreamType'
  <2>1. left' \in {"none", "done", "closed", "cancelled"} /\ failure' \in BOOLEAN
    BY DEF Get, StreamInv, StreamType
  <2>2. QED
    BY <1>1, <1>2, <1>6, <2>1 DEF StreamInv, StreamType, Told1
<1>8. DriverOK'
  BY <1>0, <1>1, <1>6 DEF StreamInv, DriverOK, Told1, PutsChunk
<1>9. SeenOK'
  BY <1>0, <1>1, <1>6 DEF StreamInv, SeenOK, Told1
<1>10. EventsOK'
  BY <1>0, <1>1, <1>6 DEF StreamInv, EventsOK, Told1
<1>11. QED
  BY <1>7, <1>8, <1>9, <1>10 DEF StreamInv

\* The consumer comes back for more, leaves at an item, or is cancelled waiting for one.
LEMMA ReaderMoves ==
  ASSUME StreamInv, Ask \/ Leave \/ CancelGet
  PROVE  StreamInv'
<1>1. /\ reader \in {"getting", "holding"} /\ reader' \in {"getting", "joining"} /\ left # "done" /\ left' # "done"
      /\ left' \in {"none", "done", "closed", "cancelled"} /\ driver.at # "none"
      /\ UNCHANGED <<failure, driver, slot, buffer, sent, events, seen>>
  BY DEF Ask, Leave, CancelGet, StreamInv, StreamType, DriverOK
<1>2. StreamType'
  BY <1>1 DEF StreamInv, StreamType
<1>3. DriverOK'
  BY <1>1 DEF StreamInv, DriverOK, PutsChunk
<1>4. SeenOK'
  BY <1>1 DEF StreamInv, SeenOK, Flowing, Ending, EndedTold, ToldAll, ChunksBuffered, Finishing, PutsChunk, Everything
<1>5. EventsOK'
  BY <1>1 DEF StreamInv, EventsOK
<1>6. QED
  BY <1>2, <1>3, <1>4, <1>5 DEF StreamInv

LEMMA CancelJoinKeeps == StreamInv /\ CancelJoin => StreamInv'
<1> SUFFICES ASSUME StreamInv, CancelJoin PROVE StreamInv'
  OBVIOUS
<1>1. /\ reader = "joining" /\ left # "done" /\ driver.at \in {"waiting", "asking", "putting"}
      /\ slot' = FALSE /\ driver.item \in Item
      /\ UNCHANGED <<reader, left, failure, buffer, sent, events, seen>>
  BY DEF CancelJoin, StreamInv, StreamType, DriverOK
<1>2. /\ driver' \in DriverType /\ driver'.at \in {"putting", "over"}
      /\ driver'.at = "putting" => driver'.item \in {Error, Sentinel}
  BY <1>1, StreamMoves, Items DEF CancelJoin, AfterCancel
<1>3. ~PutsChunk' /\ Finishing'
  BY <1>2, Items DEF PutsChunk, Finishing
<1>4. StreamType'
  BY <1>1, <1>2 DEF StreamInv, StreamType, DriverType
<1>5. DriverOK'
  BY <1>1, <1>2, <1>3 DEF DriverOK
<1>6. SeenOK'
  BY <1>1, <1>3 DEF StreamInv, SeenOK, Everything
<1>7. EventsOK'
  BY <1>1 DEF StreamInv, EventsOK
<1>8. QED
  BY <1>4, <1>5, <1>6, <1>7 DEF StreamInv

LEMMA JoinKeeps == StreamInv /\ JoinDriver => StreamInv'
<1> SUFFICES ASSUME StreamInv, JoinDriver PROVE StreamInv'
  OBVIOUS
<1> DEFINE verdict == IF left = "done" /\ ~failure THEN "end" ELSE "error"
<1>1. /\ reader = "joining" /\ reader' = "closed" /\ driver.at = "over" /\ events' = Append(events, verdict)
      /\ events \in Seq({"start", "chunk", "end", "error"}) /\ verdict \in {"end", "error"}
      /\ UNCHANGED <<left, failure, driver, slot, buffer, sent, seen>>
  BY DEF JoinDriver, DriverOver, StreamInv, StreamType
<1> HIDE DEF verdict
<1>2. /\ events' \in Seq({"start", "chunk", "end", "error"}) /\ Len(events) \in Nat
      /\ Len(events') = Len(events) + 1 /\ events'[Len(events) + 1] = verdict
      /\ \A i \in 1 .. Len(events) : events'[i] = events[i]
  BY <1>1, Joined
<1>3. StreamType'
  BY <1>1, <1>2 DEF StreamInv, StreamType
<1>4. DriverOK'
  BY <1>1 DEF StreamInv, DriverOK, PutsChunk
<1>5. SeenOK'
  BY <1>1 DEF StreamInv, SeenOK, Finishing, Everything
<1>6. EventsOK'
  <2>1. \A n \in 1 .. Len(events) : events[n] \notin {"end", "error"}
    BY <1>1 DEF StreamInv, EventsOK
  <2>2. QED
    BY <1>1, <1>2, <2>1 DEF EventsOK
<1>7. QED
  BY <1>3, <1>4, <1>5, <1>6 DEF StreamInv

LEMMA StreamStays == StreamInv /\ UNCHANGED streamvars => StreamInv'
<1> SUFFICES ASSUME StreamInv, UNCHANGED streamvars PROVE StreamInv'
  OBVIOUS
<1>1. UNCHANGED <<reader, left, failure, driver, slot, buffer, sent, events, seen>>
  BY DEF streamvars
<1>2. QED
  BY <1>1 DEF StreamInv, StreamType, DriverOK, SeenOK, EventsOK, Flowing, Ending, EndedTold, ToldAll,
               ChunksBuffered, Finishing, PutsChunk, Everything

LEMMA StreamStep == StreamInv /\ [StreamNext]_streamvars => StreamInv'
<1> SUFFICES ASSUME StreamInv, [StreamNext]_streamvars PROVE StreamInv'
  OBVIOUS
<1>1. CASE Open  BY <1>1, OpenKeeps
<1>2. CASE OpenRejects  BY <1>2, OpenRejectsKeeps
<1>3. CASE Drive
  <2>1. CASE Admit  BY <2>1, AdmitKeeps
  <2>2. CASE Piece  BY <2>2, PieceKeeps
  <2>3. CASE Complete(Result)  BY <2>3, CompleteKeeps
  <2>4. CASE Complete(Error)  BY <2>4, CompleteKeeps
  <2>5. CASE Put  BY <2>5, PutKeeps
  <2>6. QED
    BY <1>3, <2>1, <2>2, <2>3, <2>4, <2>5 DEF Drive
<1>4. CASE Receive
  BY <1>4, GetKeeps, JoinKeeps DEF Receive
<1>5. CASE Ask \/ Leave \/ CancelGet  BY <1>5, ReaderMoves
<1>6. CASE CancelJoin  BY <1>6, CancelJoinKeeps
<1>7. CASE UNCHANGED streamvars  BY <1>7, StreamStays
<1>8. QED
  BY <1>1, <1>2, <1>3, <1>4, <1>5, <1>6, <1>7 DEF StreamNext

\* What is between the provider and a consumer is always a run of chunks, one
\* result or error, and the sentinel, as far as they have come (the inductive invariant).
THEOREM StreamInvariant == StreamSpec => []StreamInv
<1>1. StreamInit => StreamInv
  BY InitStream
<1>2. StreamInv /\ [StreamNext]_streamvars => StreamInv'
  BY StreamStep
<1>3. QED
  BY <1>1, <1>2, PTL DEF StreamSpec

LEMMA StreamInvSound == StreamInv => StreamSound
<1> SUFFICES ASSUME StreamInv PROVE StreamSound
  OBVIOUS
<1>1. StreamTold
  <2>1. sent \in Nat
    BY DEF StreamInv, StreamType
  <2>2. 0 \in 0 .. sent
    BY <2>1
  <2>3. QED
    BY <2>2 DEF StreamInv, SeenOK, StreamTold, Everything
<1>2. VerdictIsLast
  <2>1. events \in Seq({"start", "chunk", "end", "error"}) /\ DOMAIN events = 1 .. Len(events) /\ Len(events) \in Nat
    BY DEF StreamInv, StreamType
  <2>2. Verdicts \subseteq {Len(events)}
    BY <2>1 DEF StreamInv, EventsOK, Verdicts
  <2>3. reader = "closed" <=> Verdicts # {}
    <3>1. ASSUME reader = "closed" PROVE Len(events) \in Verdicts
      <4>1. Len(events) > 0 /\ events[Len(events)] \in {"end", "error"}
        BY <3>1 DEF StreamInv, EventsOK
      <4>2. Len(events) \in DOMAIN events
        BY <2>1, <4>1
      <4>3. QED
        BY <4>1, <4>2 DEF Verdicts
    <3>2. ASSUME NEW n \in Verdicts PROVE reader = "closed"
      BY <2>1 DEF StreamInv, EventsOK, Verdicts
    <3>3. QED
      BY <3>1, <3>2
  <2>4. reader = "closed" => ~slot /\ driver.at \in {"none", "over"}
    BY DEF StreamInv, DriverOK, PutsChunk
  <2>5. QED
    BY <2>2, <2>3, <2>4 DEF VerdictIsLast
<1>3. QED
  BY <1>1, <1>2 DEF StreamSound

\* However slow or unfaithful its consumer, a stream loses, repeats and reorders
\* nothing, and its one verdict comes when all is over.
THEOREM StreamAlwaysSound == StreamSpec => []StreamSound
<1>1. QED
  BY StreamInvariant, StreamInvSound, PTL

-----------------------------------------------------------------------------
(* Recordings *)

FileLine == [key : Key, answer : Nat \ {0}, since : Nat]
CallState == [at : {"idle", "trying", "backoff"}, key : Key \cup {0}, tried : Nat, since : Nat]

CassetteType ==
  /\ cassette \in Seq(FileLine) /\ mode \in {"none", "record", "replay"}
  /\ entries \in [Key -> Nat] /\ unfiled \subseteq Key /\ answers \in Nat
  /\ asking \in [Asker -> CallState]
  /\ \A c \in Asker : asking[c].at # "idle" => asking[c].key \in Key

\* A key whose line could not be written has its answer in the session.
UnfiledKnown == \A k \in Key : entries[k] = 0 => k \notin unfiled

\* While a recorded call is under way, its key was not on file when it began.
UnderWay ==
  mode = "record" =>
    \A c \in Asker : asking[c].at # "idle" =>
      /\ asking[c].since <= Len(cassette)
      /\ \A i \in 1 .. asking[c].since : cassette[i].key # asking[c].key

CassetteInv == CassetteType /\ UnfiledKnown /\ UnderWay /\ RecordingSound

\* The lines of a key, and its last one.
LEMMA LinesWithin ==
  ASSUME NEW lines \in Seq(FileLine), NEW k \in Key
  PROVE  /\ LinesOf(lines, k) \subseteq 1 .. Len(lines) /\ DOMAIN lines = 1 .. Len(lines) /\ Len(lines) \in Nat
         /\ LinesOf(lines, k) # {} => Max(LinesOf(lines, k)) \in LinesOf(lines, k)
         /\ Loaded(lines)[k] \in Nat
         /\ Loaded(lines)[k] = 0 => LinesOf(lines, k) = {}
<1> DEFINE own == LinesOf(lines, k)
<1>1. own \subseteq 1 .. Len(lines) /\ DOMAIN lines = 1 .. Len(lines) /\ Len(lines) \in Nat
  BY DEF LinesOf
<1>2. Loaded(lines)[k] = IF own = {} THEN 0 ELSE lines[Max(own)].answer
  BY DEF Loaded
<1> HIDE DEF own
<1>3. own # {} => Max(own) \in own
  BY <1>1, BoundedMax
<1>4. \A i \in 1 .. Len(lines) : lines[i].answer \in Nat \ {0}
  <2>1. \A l \in FileLine : l.answer \in Nat \ {0}
    BY DEF FileLine
  <2>2. \A i \in 1 .. Len(lines) : lines[i] \in FileLine
    OBVIOUS
  <2>3. QED
    BY <2>1, <2>2
<1>5. own # {} => Loaded(lines)[k] \in Nat \ {0}
  BY <1>1, <1>2, <1>3, <1>4
<1>6. QED
  BY <1>1, <1>2, <1>3, <1>5 DEF own

\* A line that is appended is the last one of its key, and of no other.
LEMMA LineAppended ==
  ASSUME NEW lines \in Seq(FileLine), NEW line \in FileLine
  PROVE  LET new == Append(lines, line)
         IN  /\ new \in Seq(FileLine) /\ Len(new) = Len(lines) + 1 /\ new[Len(lines) + 1] = line
             /\ \A i \in 1 .. Len(lines) : new[i] = lines[i]
             /\ Loaded(new)[line.key] = line.answer
             /\ \A k \in Key : k # line.key => Loaded(new)[k] = Loaded(lines)[k]
<1> DEFINE new == Append(lines, line)
           n == Len(lines) + 1
<1>1. /\ new \in Seq(FileLine) /\ Len(new) = n /\ new[n] = line /\ DOMAIN new = 1 .. n /\ n \in Nat
      /\ DOMAIN lines = 1 .. Len(lines) /\ Len(lines) \in Nat /\ \A i \in 1 .. Len(lines) : new[i] = lines[i]
  OBVIOUS
<1> HIDE DEF new
<1>2. ASSUME NEW k \in Key
      PROVE  LinesOf(new, k) = LinesOf(lines, k) \cup (IF k = line.key THEN {n} ELSE {})
  <2>1. \A i \in 1 .. n : i \in 1 .. Len(lines) \/ i = n
    BY <1>1
  <2>2. 1 .. Len(lines) \subseteq 1 .. n /\ n \in 1 .. n /\ n \notin 1 .. Len(lines)
    BY <1>1
  <2> HIDE DEF n
  <2>3. QED
    BY <1>1, <2>1, <2>2 DEF LinesOf
<1>3. line.key \in Key /\ Loaded(new)[line.key] = line.answer
  <2>1. line.key \in Key
    BY DEF FileLine
  <2> DEFINE own == LinesOf(new, line.key)
  <2>2. n \in own /\ own \subseteq 1 .. n
    BY <1>1, <1>2, <2>1, LinesWithin
  <2>3. Loaded(new)[line.key] = new[Max(own)].answer
    BY <2>1, <2>2 DEF Loaded
  <2> HIDE DEF own
  <2>4. Max(own) \in own /\ Max(own) >= n
    <3>1. Max(own) \in own /\ \A j \in own : Max(own) >= j
      BY <1>1, <2>2, BoundedMax
    <3>2. QED
      BY <2>2, <3>1
  <2>5. Max(own) = n
    <3>1. \A m \in 1 .. n : m >= n => m = n
      BY <1>1
    <3>2. QED
      BY <2>2, <2>4, <3>1
  <2>6. QED
    BY <1>1, <2>1, <2>3, <2>5
<1>4. ASSUME NEW k \in Key, k # line.key
      PROVE  Loaded(new)[k] = Loaded(lines)[k]
  <2> DEFINE own == LinesOf(lines, k)
  <2>1. LinesOf(new, k) = own /\ own \subseteq 1 .. Len(lines)
    BY <1>2, <1>4, LinesWithin
  <2>2. own # {} => Max(own) \in own
    BY LinesWithin
  <2>3. /\ Loaded(new)[k] = IF own = {} THEN 0 ELSE new[Max(own)].answer
        /\ Loaded(lines)[k] = IF own = {} THEN 0 ELSE lines[Max(own)].answer
    BY <2>1 DEF Loaded
  <2> HIDE DEF own
  <2>4. QED
    BY <1>1, <2>1, <2>2, <2>3
<1>5. QED
  BY <1>1, <1>3, <1>4 DEF new

\* The session answers what is on file, as far as it could be written.
LEMMA Alike ==
  ReplayAnswersAlike <=> (mode # "none" => \A k \in Key \ unfiled : entries[k] = Loaded(cassette)[k])
  BY DEF ReplayAnswersAlike, Loaded

LEMMA InitCassette == CassetteInit => CassetteInv
<1> SUFFICES ASSUME CassetteInit PROVE CassetteInv
  OBVIOUS
<1>1. NotAsking \in CallState /\ NotAsking.at = "idle"
  BY DEF NotAsking, CallState
<1>2. CassetteType
  <2>1. cassette \in Seq(FileLine) /\ entries \in [Key -> Nat] /\ asking \in [Asker -> CallState]
    BY <1>1, EmptySeq DEF CassetteInit, Unknown
  <2>2. \A c \in Asker : asking[c].at = "idle"
    BY <1>1 DEF CassetteInit
  <2>3. QED
    BY <2>1, <2>2 DEF CassetteInit, CassetteType
<1>3. UnfiledKnown /\ UnderWay /\ RecordingSound
  BY EmptySeq DEF CassetteInit, UnfiledKnown, UnderWay, RecordingSound, AskedOnce, ReplayAnswersAlike
<1>4. QED
  BY <1>2, <1>3 DEF CassetteInv

\* A session that ends, or is killed, leaves nothing but the file.
LEMMA SessionOver ==
  ASSUME CassetteInv, mode' = "none", entries' = Unknown, unfiled' = {}, answers' = answers,
         asking' = [c \in Asker |-> NotAsking], cassette' = cassette
  PROVE  CassetteInv'
<1>1. NotAsking \in CallState /\ NotAsking.at = "idle"
  BY DEF NotAsking, CallState
<1>2. \A c \in Asker : asking'[c].at = "idle"
  BY <1>1
<1>3. CassetteType'
  BY <1>1, <1>2 DEF CassetteInv, CassetteType, Unknown
<1>4. UnfiledKnown' /\ UnderWay' /\ RecordingSound'
  BY DEF CassetteInv, UnfiledKnown, UnderWay, RecordingSound, AskedOnce, ReplayAnswersAlike
<1>5. QED
  BY <1>3, <1>4 DEF CassetteInv

\* What is said of the file and the session alone stays true while they stay.
LEMMA FileKept ==
  ASSUME UNCHANGED <<cassette, mode, entries, unfiled>>
  PROVE  (UnfiledKnown <=> UnfiledKnown') /\ (RecordingSound <=> RecordingSound')
<1>1. UnfiledKnown <=> UnfiledKnown'
  BY DEF UnfiledKnown
<1>2. AskedOnce <=> AskedOnce'
  BY DEF AskedOnce
<1>3. \A k \in Key : LinesOf(cassette, k)' = LinesOf(cassette, k)
  BY DEF LinesOf
<1>4. ReplayAnswersAlike <=> ReplayAnswersAlike'
  BY Zenon, <1>3 DEF ReplayAnswersAlike
<1>5. QED
  BY <1>1, <1>2, <1>4 DEF RecordingSound

\* A call that makes an attempt, rests or ends without an answer.
LEMMA CallMoves ==
  ASSUME CassetteInv, UNCHANGED <<cassette, mode, entries, unfiled, answers>>, NEW c \in Asker,
         \A d \in Asker \ {c} : asking'[d] = asking[d], asking' \in [Asker -> CallState],
         asking'[c].at # "idle" => asking'[c].key \in Key,
         mode = "record" /\ asking'[c].at # "idle" =>
           /\ asking'[c].since <= Len(cassette)
           /\ \A i \in 1 .. asking'[c].since : cassette[i].key # asking'[c].key
  PROVE  CassetteInv'
<1>1. CassetteType'
  BY DEF CassetteInv, CassetteType
<1>2. UnderWay'
  BY DEF CassetteInv, UnderWay
<1>3. UnfiledKnown' /\ RecordingSound'
  BY FileKept DEF CassetteInv
<1>4. QED
  BY <1>1, <1>2, <1>3 DEF CassetteInv

LEMMA AskKeeps ==
  ASSUME CassetteInv, NEW c \in Asker, NEW k \in Key, AskFor(c, k)
  PROVE  CassetteInv'
<1>1. /\ UNCHANGED <<cassette, mode, entries, unfiled, answers>> /\ mode # "replay" /\ entries[k] = 0
      /\ asking' = [asking EXCEPT ![c] = Attempt(k, 1, Len(cassette))]
      /\ asking \in [Asker -> CallState] /\ cassette \in Seq(FileLine) /\ Len(cassette) \in Nat
  BY DEF AskFor, CassetteInv, CassetteType
<1>2. Attempt(k, 1, Len(cassette)) \in CallState
  BY <1>1 DEF CallState, Attempt
<1>3. /\ asking' \in [Asker -> CallState] /\ \A d \in Asker \ {c} : asking'[d] = asking[d]
      /\ asking'[c].key = k /\ asking'[c].since = Len(cassette)
  BY <1>1, <1>2 DEF Attempt
<1>4. ASSUME mode = "record" PROVE \A i \in 1 .. Len(cassette) : cassette[i].key # k
  <2>1. k \notin unfiled
    BY <1>1 DEF CassetteInv, UnfiledKnown
  <2>2. Loaded(cassette)[k] = 0
    BY <1>1, <1>4, <2>1, Alike DEF CassetteInv, RecordingSound
  <2>3. LinesOf(cassette, k) = {}
    BY <1>1, <2>2, LinesWithin
  <2>4. QED
    BY <1>1, <2>3 DEF LinesOf
<1>5. QED
  BY <1>1, <1>3, <1>4, CallMoves

LEMMA TriesKeep ==
  ASSUME CassetteInv, NEW c \in Asker, AttemptFails(c) \/ RetryNow(c) \/ GiveUp(c) \/ CancelAsk(c)
  PROVE  CassetteInv'
<1>1. /\ UNCHANGED <<cassette, mode, entries, unfiled, answers>> /\ asking[c].at # "idle"
      /\ asking \in [Asker -> CallState] /\ asking[c] \in CallState /\ asking[c].key \in Key
  BY DEF AttemptFails, RetryNow, GiveUp, CancelAsk, CassetteInv, CassetteType
<1>2. NotAsking \in CallState /\ NotAsking.at = "idle"
  BY DEF NotAsking, CallState
<1>3. PICK s \in CallState : /\ asking' = [asking EXCEPT ![c] = s]
                             /\ s.at = "idle" \/ (s.key = asking[c].key /\ s.since = asking[c].since)
  <2>1. CASE Ended(c)
    <3>1. asking' = [asking EXCEPT ![c] = NotAsking]
      BY <2>1 DEF Ended
    <3>2. QED
      BY <1>2, <3>1
  <2>2. CASE asking' = [asking EXCEPT ![c].at = "backoff"]
    <3> DEFINE s == [asking[c] EXCEPT !.at = "backoff"]
    <3>1. s \in CallState /\ s.key = asking[c].key /\ s.since = asking[c].since
      BY <1>1, SMT DEF CallState
    <3>2. asking' = [asking EXCEPT ![c] = s]
      BY <2>2, SMT
    <3> HIDE DEF s
    <3>3. QED
      BY <3>1, <3>2
  <2>3. CASE asking' = [asking EXCEPT ![c] = Attempt(@.key, @.tried + 1, @.since)]
    <3> DEFINE s == Attempt(asking[c].key, asking[c].tried + 1, asking[c].since)
    <3>1. s \in CallState /\ s.key = asking[c].key /\ s.since = asking[c].since
      BY <1>1 DEF CallState, Attempt
    <3>2. asking' = [asking EXCEPT ![c] = s]
      BY <2>3
    <3> HIDE DEF s
    <3>3. QED
      BY <3>1, <3>2
  <2>4. Ended(c) \/ asking' = [asking EXCEPT ![c].at = "backoff"]
        \/ asking' = [asking EXCEPT ![c] = Attempt(@.key, @.tried + 1, @.since)]
    BY SMT DEF AttemptFails, RetryNow, GiveUp, CancelAsk
  <2>5. QED
    BY <2>1, <2>2, <2>3, <2>4
<1>4. asking' \in [Asker -> CallState] /\ asking'[c] = s /\ \A d \in Asker \ {c} : asking'[d] = asking[d]
  BY <1>1, <1>3
<1>5. mode = "record" => /\ asking[c].since <= Len(cassette)
                         /\ \A i \in 1 .. asking[c].since : cassette[i].key # asking[c].key
  BY <1>1 DEF CassetteInv, UnderWay
<1>6. QED
  BY <1>1, <1>3, <1>4, <1>5, CallMoves

LEMMA AnsweredKeeps ==
  ASSUME CassetteInv, NEW c \in Asker, NEW filed \in BOOLEAN, Answered(c, filed)
  PROVE  CassetteInv'
<1> DEFINE key == asking[c].key
           line == Line(c)
<1>1. /\ cassette \in Seq(FileLine) /\ mode \in {"none", "record", "replay"} /\ entries \in [Key -> Nat]
      /\ unfiled \subseteq Key /\ answers \in Nat /\ asking \in [Asker -> CallState]
      /\ key \in Key /\ asking[c].at # "idle" /\ asking[c].since \in Nat /\ answers' = answers + 1 /\ mode' = mode
      /\ Len(cassette) \in Nat
  BY DEF Answered, CassetteInv, CassetteType, CallState
<1>2. /\ asking' \in [Asker -> CallState] /\ asking'[c].at = "idle"
      /\ \A d \in Asker \ {c} : asking'[d] = asking[d]
  <2>1. NotAsking \in CallState /\ NotAsking.at = "idle"
    BY DEF NotAsking, CallState
  <2>2. asking' = [asking EXCEPT ![c] = NotAsking]
    BY DEF Answered, Ended
  <2>3. QED
    BY <1>1, <2>1, <2>2
<1>3. \A d \in Asker : asking'[d].at # "idle" => d # c /\ asking'[d] = asking[d] /\ asking'[d].key \in Key
  BY <1>1, <1>2 DEF CassetteInv, CassetteType
<1>4. line \in FileLine /\ line.key = key /\ line.answer = answers + 1 /\ line.since = asking[c].since
  BY <1>1 DEF Line, FileLine
<1>5. CASE mode # "record"
  <2>1. UNCHANGED <<entries, cassette, unfiled>>
    BY <1>5 DEF Answered
  <2>2. CassetteType'
    BY <1>1, <1>2, <1>3, <2>1 DEF CassetteType
  <2>3. UnfiledKnown' /\ RecordingSound'
    BY <1>1, <2>1, FileKept DEF CassetteInv
  <2>4. UnderWay'
    BY <1>1, <1>5 DEF UnderWay
  <2>5. QED
    BY <2>2, <2>3, <2>4 DEF CassetteInv
<1>6. CASE mode = "record" /\ filed
  <2>1. /\ cassette' = Append(cassette, line) /\ unfiled' = unfiled \ {key}
        /\ entries' = [entries EXCEPT ![key] = answers + 1]
    BY <1>1, <1>6 DEF Answered
  <2> HIDE DEF line, key
  <2>2. /\ entries' \in [Key -> Nat] /\ entries'[key] = answers + 1
        /\ \A k \in Key : k # key => entries'[k] = entries[k]
    BY <1>1, <2>1
  <2>3. /\ cassette' \in Seq(FileLine) /\ Len(cassette') = Len(cassette) + 1
        /\ cassette'[Len(cassette) + 1] = line /\ \A i \in 1 .. Len(cassette) : cassette'[i] = cassette[i]
        /\ Loaded(cassette')[key] = answers + 1
        /\ \A k \in Key : k # key => Loaded(cassette')[k] = Loaded(cassette)[k]
    BY <1>1, <1>4, <2>1, LineAppended
  <2>4. CassetteType'
    BY <1>1, <1>2, <1>3, <2>1, <2>2, <2>3 DEF CassetteType
  <2>5. UnfiledKnown'
    BY <1>1, <2>1, <2>2 DEF CassetteInv, UnfiledKnown
  <2>6. UnderWay'
    <3>1. ASSUME NEW d \in Asker, asking'[d].at # "idle"
          PROVE  /\ asking'[d].since <= Len(cassette')
                 /\ \A i \in 1 .. asking'[d].since : cassette'[i].key # asking'[d].key
      <4>1. d # c /\ asking'[d] = asking[d] /\ asking[d].at # "idle"
        BY <1>3, <3>1
      <4>2. asking[d].since <= Len(cassette) /\ \A i \in 1 .. asking[d].since : cassette[i].key # asking[d].key
        BY <1>6, <4>1 DEF CassetteInv, UnderWay
      <4>3. asking[d].since \in Nat
        BY <1>1 DEF CallState
      <4>4. QED
        BY <1>1, <2>3, <4>1, <4>2, <4>3
    <3>2. QED
      BY <3>1 DEF UnderWay
  <2>7. AskedOnce'
    <3>1. DOMAIN cassette = 1 .. Len(cassette) /\ DOMAIN cassette' = 1 .. Len(cassette) + 1
      BY <1>1, <2>3
    <3>2. SUFFICES ASSUME NEW i \in 1 .. Len(cassette) + 1, NEW j \in 1 .. Len(cassette) + 1, i < j,
                          cassette'[i].key = cassette'[j].key
                   PROVE  cassette'[j].since < i
      BY <3>1 DEF AskedOnce
    <3>3. i \in 1 .. Len(cassette) /\ cassette'[i] = cassette[i]
      BY <1>1, <2>3, <3>2
    <3>4. CASE j \in 1 .. Len(cassette)
      BY <2>3, <3>1, <3>2, <3>3, <3>4 DEF CassetteInv, RecordingSound, AskedOnce
    <3>5. CASE j = Len(cassette) + 1
      <4>1. cassette[i].key = key /\ cassette'[j].since = asking[c].since
        BY <1>4, <2>3, <3>2, <3>3, <3>5
      <4>2. \A n \in 1 .. asking[c].since : cassette[n].key # key
        BY <1>1, <1>6 DEF CassetteInv, UnderWay, key
      <4>3. QED
        BY <1>1, <3>3, <4>1, <4>2
    <3>6. QED
      BY <1>1, <3>2, <3>4, <3>5
  <2>8. ReplayAnswersAlike'
    <3>1. \A k \in Key \ unfiled : entries[k] = Loaded(cassette)[k]
      BY <1>6, Alike DEF CassetteInv, RecordingSound
    <3>2. \A k \in Key \ unfiled' : entries'[k] = Loaded(cassette')[k]
      BY <2>1, <2>2, <2>3, <3>1
    <3>3. QED
      BY <3>2 DEF ReplayAnswersAlike, Loaded
  <2>9. QED
    BY <2>4, <2>5, <2>6, <2>7, <2>8 DEF CassetteInv, RecordingSound
<1>7. CASE mode = "record" /\ ~filed
  <2>1. /\ cassette' = cassette /\ unfiled' = unfiled \cup {key}
        /\ entries' = [entries EXCEPT ![key] = answers + 1]
    BY <1>1, <1>7 DEF Answered
  <2> HIDE DEF line, key
  <2>2. /\ entries' \in [Key -> Nat] /\ entries'[key] = answers + 1
        /\ \A k \in Key : k # key => entries'[k] = entries[k]
    BY <1>1, <2>1
  <2>3. CassetteType'
    BY <1>1, <1>2, <1>3, <2>1, <2>2 DEF CassetteType
  <2>4. UnfiledKnown'
    BY <1>1, <2>1, <2>2 DEF CassetteInv, UnfiledKnown
  <2>5. UnderWay'
    BY <1>3, <1>7, <2>1 DEF CassetteInv, UnderWay
  <2>6. RecordingSound'
    <3>1. AskedOnce'
      BY <2>1 DEF CassetteInv, RecordingSound, AskedOnce
    <3>2. \A k \in Key \ unfiled : entries[k] = Loaded(cassette)[k]
      BY <1>7, Alike DEF CassetteInv, RecordingSound
    <3>3. \A k \in Key \ unfiled' : entries'[k] = Loaded(cassette')[k]
      BY <2>1, <2>2, <3>2
    <3>4. QED
      BY <3>1, <3>3 DEF RecordingSound, ReplayAnswersAlike, Loaded
  <2>7. QED
    BY <2>3, <2>4, <2>5, <2>6 DEF CassetteInv
<1>8. QED
  BY <1>5, <1>6, <1>7

\* A session starts with what is on file, and nobody asking.
LEMMA SessionOpens ==
  ASSUME CassetteInv, NEW m \in {"record", "replay"}, OpenSession(m)
  PROVE  CassetteInv'
<1>1. /\ entries' = Loaded(cassette) /\ unfiled' = {} /\ mode' = m /\ UNCHANGED <<cassette, asking, answers>>
      /\ \A c \in Asker : asking[c].at = "idle"
  BY DEF OpenSession, NotAsking
<1>2. Loaded(cassette) \in [Key -> Nat]
  <2>1. \A k \in Key : Loaded(cassette)[k] \in Nat
    BY LinesWithin DEF CassetteInv, CassetteType
  <2>2. QED
    BY <2>1 DEF Loaded
<1>3. CassetteType'
  BY <1>1, <1>2 DEF CassetteInv, CassetteType
<1>4. UnfiledKnown' /\ UnderWay' /\ AskedOnce'
  BY <1>1 DEF CassetteInv, UnfiledKnown, UnderWay, RecordingSound, AskedOnce
<1>5. ReplayAnswersAlike'
  BY <1>1 DEF ReplayAnswersAlike, Loaded
<1>6. QED
  BY <1>3, <1>4, <1>5 DEF CassetteInv, RecordingSound

LEMMA DiscardKeeps ==
  ASSUME CassetteInv, Discard
  PROVE  CassetteInv'
<1>1. cassette' = <<>> /\ cassette' \in Seq(FileLine) /\ mode = "none"
      /\ UNCHANGED <<mode, entries, unfiled, asking, answers>>
  BY EmptySeq DEF Discard
<1>2. CassetteType'
  BY <1>1 DEF CassetteInv, CassetteType
<1>3. UnfiledKnown' /\ UnderWay' /\ AskedOnce' /\ ReplayAnswersAlike'
  BY <1>1 DEF CassetteInv, UnfiledKnown, UnderWay, AskedOnce, ReplayAnswersAlike
<1>4. QED
  BY <1>2, <1>3 DEF CassetteInv, RecordingSound

LEMMA CassetteStep == CassetteInv /\ [CassetteNext]_cassettevars => CassetteInv'
<1> SUFFICES ASSUME CassetteInv, [CassetteNext]_cassettevars PROVE CassetteInv'
  OBVIOUS
<1>1. ASSUME NEW m \in {"record", "replay"}, OpenSession(m) PROVE CassetteInv'
  BY <1>1, SessionOpens
<1>2. CASE CloseSession
  BY <1>2, SessionOver DEF CloseSession
<1>3. CASE Discard
  BY <1>3, DiscardKeeps
<1>4. CASE CassetteCrash
  BY <1>4, SessionOver DEF CassetteCrash
<1>5. ASSUME NEW c \in Asker, AttemptFails(c) \/ RetryNow(c) \/ GiveUp(c) \/ CancelAsk(c) PROVE CassetteInv'
  BY <1>5, TriesKeep
<1>6. ASSUME NEW c \in Asker, NEW filed \in BOOLEAN, Answered(c, filed) PROVE CassetteInv'
  BY <1>6, AnsweredKeeps
<1>7. ASSUME NEW c \in Asker, NEW k \in Key, AskFor(c, k) PROVE CassetteInv'
  BY <1>7, AskKeeps
<1>8. CASE UNCHANGED cassettevars
  <2>1. UNCHANGED <<cassette, mode, entries, unfiled, asking, answers>>
    BY <1>8 DEF cassettevars
  <2>2. CassetteType' /\ UnderWay'
    BY <2>1 DEF CassetteInv, CassetteType, UnderWay
  <2>3. QED
    BY <2>1, <2>2, FileKept DEF CassetteInv
<1>9. QED
  BY <1>1, <1>2, <1>3, <1>4, <1>5, <1>6, <1>7, <1>8 DEF CassetteNext, Goes

\* A recording is what its replays will be, for any tasks, keys, sessions and crashes:
\* the provider is asked again for what is on file only by calls that were under way
\* at once, and a session answers what a replay of its file would (cassette_context).
THEOREM RecordingAlwaysSound == CassetteSpec => []RecordingSound
<1>1. CassetteInit => CassetteInv
  BY InitCassette
<1>2. CassetteInv /\ [CassetteNext]_cassettevars => CassetteInv'
  BY CassetteStep
<1>3. CassetteInv => RecordingSound
  BY DEF CassetteInv
<1>4. QED
  BY <1>1, <1>2, <1>3, PTL DEF CassetteSpec

-----------------------------------------------------------------------------
(* The runs of a tree of agents                                              *)

-----------------------------------------------------------------------------
(* The tree of the sites *)

LEMMA RunTree ==
  /\ \A s \in Sites : ToSet(Kids[s]) \subseteq Sites
  /\ \A s \in Sites : s # Root => Parent[s] \in Sites /\ s \in ToSet(Kids[Parent[s]])
  /\ \A p \in Sites : \A s \in ToSet(Kids[p]) : s # Root /\ Parent[s] = p /\ s # p
<1>1. \A s \in Sites : Kids[s] \in Seq(Sites)
  BY AgentRunAssumption
<1>2. \A s \in Sites : ToSet(Kids[s]) \subseteq Sites
  BY <1>1, ToSetWithin
<1>3. \A S \in SUBSET Sites : Root \in S /\ (\A s \in S : ToSet(Kids[s]) \subseteq S) => S = Sites
  BY AgentRunAssumption
<1>4. Root \in Sites /\ \A s \in Sites : Root \notin ToSet(Kids[s])
  BY AgentRunAssumption
<1>5. \A p, q \in Sites : p # q => ToSet(Kids[p]) \cap ToSet(Kids[q]) = {}
  BY AgentRunAssumption
<1>6. \A s \in Sites : s # Root => \E p \in Sites : s \in ToSet(Kids[p])
  <2> DEFINE S == {Root} \cup {s \in Sites : \E p \in Sites : s \in ToSet(Kids[p])}
  <2>1. S \in SUBSET Sites /\ Root \in S /\ \A s \in S : ToSet(Kids[s]) \subseteq S
    BY <1>2, <1>4
  <2>2. S = Sites
    BY <2>1, <1>3
  <2>3. QED
    BY <2>2
<1>7. \A s \in Sites : Parent[s] = IF s = Root THEN s ELSE CHOOSE p \in Sites : s \in ToSet(Kids[p])
  BY Zenon DEF Parent
<1>8. \A s \in Sites : s # Root => Parent[s] \in Sites /\ s \in ToSet(Kids[Parent[s]])
  <2>1. ASSUME NEW s \in Sites, s # Root
        PROVE  Parent[s] \in Sites /\ s \in ToSet(Kids[Parent[s]])
    <3>1. \E p \in Sites : s \in ToSet(Kids[p])
      BY <1>6, <2>1
    <3>2. Parent[s] = CHOOSE p \in Sites : s \in ToSet(Kids[p])
      BY <1>7, <2>1
    <3>3. QED
      BY <3>1, <3>2, Zenon
  <2>2. QED
    BY <2>1
<1>9. ASSUME NEW p \in Sites, NEW s \in ToSet(Kids[p])
      PROVE  s # Root /\ Parent[s] = p /\ s # p
  <2>1. s \in Sites /\ s # Root
    BY <1>2, <1>4
  <2>2. Parent[s] = p
    BY <1>5, <1>8, <2>1
  <2>3. s # p
    <3>1. SUFFICES ASSUME s \in ToSet(Kids[s]), Parent[s] = s PROVE FALSE
      BY <2>2
    <3>2. DEFINE S == Sites \ {s}
    <3>3. S \in SUBSET Sites /\ Root \in S
      BY <2>1, <1>4
    <3>4. ASSUME NEW t \in S PROVE ToSet(Kids[t]) \subseteq S
      <4>1. t \in Sites /\ t # s /\ ToSet(Kids[t]) \cap ToSet(Kids[s]) = {}
        BY <1>5, <2>1
      <4>2. QED
        BY <4>1, <3>1, <1>2
    <3>5. S = Sites
      BY <3>3, <3>4, <1>3
    <3>6. QED
      BY <3>5, <2>1
  <2>4. QED
    BY <2>1, <2>2, <2>3
<1>10. QED
  BY <1>2, <1>8, <1>9

\* The same of invocations.
LEMMA RunFamilies ==
  /\ \A i \in Invocation : i[1] \in Run /\ i[2] \in Sites /\ i = <<i[1], i[2]>>
  /\ \A i \in Invocation : \A k \in Below(i) :
       k \in Invocation /\ ~IsRoot(k) /\ Up(k) = i /\ k # i /\ k[1] = i[1]
  /\ \A k \in Invocation : ~IsRoot(k) => Up(k) \in Invocation /\ k \in Below(Up(k)) /\ Up(k)[1] = k[1]
  /\ \A r \in Run : <<r, Root>> \in Invocation /\ IsRoot(<<r, Root>>) /\ <<r, Root>>[1] = r
  /\ \A i \in Invocation : IsRoot(i) => i = <<i[1], Root>>
<1>1. \A i \in Invocation : i[1] \in Run /\ i[2] \in Sites /\ i = <<i[1], i[2]>>
  BY DEF Invocation
<1>2. \A r \in Run, s \in Sites : <<r, s>> \in Invocation /\ <<r, s>>[1] = r /\ <<r, s>>[2] = s
  BY DEF Invocation
<1>3. ASSUME NEW i \in Invocation, NEW k \in Below(i)
      PROVE  k \in Invocation /\ ~IsRoot(k) /\ Up(k) = i /\ k # i /\ k[1] = i[1]
  <2>1. PICK s \in ToSet(Kids[i[2]]) : k = <<i[1], s>>
    BY DEF Below
  <2>2. i[2] \in Sites /\ i[1] \in Run /\ s \in Sites /\ s # Root /\ Parent[s] = i[2] /\ s # i[2]
    BY <1>1, RunTree
  <2>3. k[1] = i[1] /\ k[2] = s /\ k \in Invocation
    BY <1>2, <2>1, <2>2
  <2>4. Up(k) = <<i[1], i[2]>>
    BY <2>2, <2>3 DEF Up
  <2>5. QED
    BY <1>1, <2>2, <2>3, <2>4 DEF IsRoot
<1>4. ASSUME NEW k \in Invocation, ~IsRoot(k)
      PROVE  Up(k) \in Invocation /\ k \in Below(Up(k)) /\ Up(k)[1] = k[1]
  <2>1. k[1] \in Run /\ k[2] \in Sites /\ k[2] # Root /\ k = <<k[1], k[2]>>
    BY <1>1, <1>4 DEF IsRoot
  <2>2. Parent[k[2]] \in Sites /\ k[2] \in ToSet(Kids[Parent[k[2]]])
    BY <2>1, RunTree
  <2>3. Up(k) \in Invocation /\ Up(k)[1] = k[1] /\ Up(k)[2] = Parent[k[2]]
    BY <1>2, <2>1, <2>2 DEF Up
  <2>4. k \in Below(Up(k))
    BY <2>1, <2>2, <2>3 DEF Below
  <2>5. QED
    BY <2>3, <2>4
<1>5. \A r \in Run : <<r, Root>> \in Invocation /\ IsRoot(<<r, Root>>) /\ <<r, Root>>[1] = r
  BY <1>2, AgentRunAssumption DEF IsRoot
<1>6. \A i \in Invocation : IsRoot(i) => i = <<i[1], Root>>
  BY <1>1 DEF IsRoot
<1>7. QED
  BY <1>1, <1>3, <1>4, <1>5, <1>6

\* The n-th kid of a composite, which awaits each in one place.
LEMMA KidsOf ==
  ASSUME NEW i \in Invocation
  PROVE  /\ DOMAIN Kids[i[2]] = 1 .. Len(Kids[i[2]]) /\ Len(Kids[i[2]]) \in Nat
         /\ \A n \in 1 .. Len(Kids[i[2]]) : Kid(i, n) \in Below(i)
         /\ \A k \in Below(i) : \E n \in 1 .. Len(Kids[i[2]]) : k = Kid(i, n)
         /\ \A n, m \in 1 .. Len(Kids[i[2]]) : Kid(i, n) = Kid(i, m) => n = m
         /\ IsLeaf(i) => Below(i) = {}
         /\ ~IsLeaf(i) => Len(Kids[i[2]]) > 0
         /\ i[2] \in Routers => Len(Kids[i[2]]) > 1 /\ ~IsGather(i)
<1> DEFINE q == Kids[i[2]]
<1>1. i[2] \in Sites /\ q \in Seq(Sites) /\ IsInjective(q)
  BY RunFamilies, AgentRunAssumption
<1>2. DOMAIN q = 1 .. Len(q) /\ Len(q) \in Nat
  BY <1>1
<1>3. ToSet(q) = {q[n] : n \in 1 .. Len(q)}
  BY <1>2 DEF ToSet
<1>4. \A n, m \in 1 .. Len(q) : q[n] = q[m] => n = m
  BY <1>1, <1>2 DEF IsInjective
<1>5. q = <<>> => ToSet(q) = {}
  BY <1>3
<1>6. q # <<>> => Len(q) > 0
  BY <1>1
<1>7. i[2] \in Routers => Len(q) > 1 /\ i[2] \notin Gathers
  BY <1>1, AgentRunAssumption
<1>8. QED
  BY <1>2, <1>3, <1>4, <1>5, <1>6, <1>7 DEF Kid, Below, IsLeaf, IsGather

-----------------------------------------------------------------------------
(* Who is called, and who waits for whom *)

Active(i) == pc[i] \in {"task", "next", "open"}

CallType ==
  /\ run \in 0 .. Runs /\ turn \in Invocation \cup {None}
  /\ pc \in [Invocation -> {"idle", "task", "next", "open", "done"}]
  /\ result \in [Invocation -> {"none", "ok", "error"}]
  /\ \A i \in Invocation : result[i] # "none" <=> pc[i] = "done"
  /\ cancelled \subseteq Invocation

\* Runs are made one after the other, and a root is never a task of a gather.
OneRun ==
  \A i \in Invocation :
    /\ i[1] > run => pc[i] = "idle"
    /\ IsRoot(i) /\ i[1] < run => pc[i] = "done"
    /\ IsRoot(i) => pc[i] # "task"

\* An invocation is under one that waits for it, or was left behind by a gather that
\* has failed; a failure is on its way up, or has arrived.
Kept ==
  \A i \in Invocation : \A k \in Below(i) :
    /\ pc[k] # "idle" => pc[i] \in {"open", "done"}
    /\ Active(k) => pc[i] = "open" \/ (IsGather(i) /\ result[i] = "error")
    /\ pc[k] = "task" => IsGather(i)
    /\ result[k] = "error" => pc[i] = "open" \/ result[i] = "error"

\* A composite that awaits its kids in turn has one of them under way, and none when
\* it is its own turn.
InTurn ==
  /\ \A i \in Invocation : ~IsGather(i) => \A k, l \in Below(i) : Active(k) /\ Active(l) => k = l
  /\ \A i \in Invocation : pc[i] = "next" => turn = i
  /\ turn # None =>
       \/ pc[turn] = "next"
       \/ /\ pc[turn] = "open" /\ ~IsGather(turn) /\ ~IsLeaf(turn)
          /\ \A k \in Below(turn) : ~Active(k)

Called(i) == {k \in Below(i) : pc[k] # "idle"}

\* A router asks its first kid, then one of the others.
Asked(i) ==
  /\ Kid(i, 1) \in Called(i)
  /\ i[2] \in Routers => \A k, l \in Called(i) \ {Kid(i, 1)} : k = l

\* What a composite that has returned has called.
AllCalled(i) ==
  IF i[2] \in Routers
  THEN Kid(i, 1) \in Called(i) /\ \E k \in Called(i) \ {Kid(i, 1)} : Called(i) = {Kid(i, 1), k}
  ELSE Called(i) = Below(i)

Progress ==
  \A i \in Invocation :
    /\ pc[i] = "open" /\ ~IsGather(i) /\ ~IsLeaf(i) => Asked(i)
    /\ result[i] = "ok" => AllCalled(i)

CallInv == CallType /\ OneRun /\ Kept /\ InTurn /\ Progress

LEMMA CallStart == Init => CallInv
<1> SUFFICES ASSUME Init PROVE CallInv
  OBVIOUS
<1> USE DEF Init
<1>1. \A i \in Invocation : pc[i] = "idle" /\ result[i] = "none"
  OBVIOUS
<1>2. CallType
  BY AgentRunAssumption DEF CallType
<1>3. OneRun
  <2>1. \A i \in Invocation : i[1] \in Nat /\ i[1] > 0
    BY RunFamilies, AgentRunAssumption DEF Run
  <2>2. run = 0
    OBVIOUS
  <2>3. QED
    BY <1>1, <2>1, <2>2, Z3 DEF OneRun
<1>4. Kept
  <2> SUFFICES ASSUME NEW i \in Invocation, NEW k \in Below(i)
               PROVE  pc[k] = "idle" /\ result[k] = "none"
    BY DEF Kept, Active
  <2> QED  BY <1>1, RunFamilies
<1>5. InTurn
  <2>1. \A i \in Invocation : \A k \in Below(i) : ~Active(k)
    BY <1>1, RunFamilies DEF Active
  <2>2. QED
    BY <1>1, <2>1 DEF InTurn
<1>6. Progress
  BY <1>1 DEF Progress
<1>7. QED
  BY <1>2, <1>3, <1>4, <1>5, <1>6 DEF CallInv

\* The call of a root, and the cancellation of one.
LEMMA CallBegin == CallInv /\ Begin => CallInv'
<1> SUFFICES ASSUME CallInv, Begin PROVE CallInv'
  OBVIOUS
<1> USE DEF CallInv
<1> DEFINE new == <<run + 1, Root>>
<1>1. /\ run \in Nat /\ run + 1 \in Run /\ run' = run + 1 /\ run' \in 0 .. Runs
      /\ turn = None /\ turn' = new
      /\ pc' = [pc EXCEPT ![new] = "next"]
      /\ result' = result /\ cancelled' = cancelled
      /\ run > 0 => pc[<<run, Root>>] = "done"
  BY AgentRunAssumption DEF Begin, CallType, Run
<1>2. new \in Invocation /\ IsRoot(new) /\ new[1] = run + 1
  BY <1>1, RunFamilies
<1> HIDE DEF new
<1>3. /\ pc \in [Invocation -> {"idle", "task", "next", "open", "done"}]
      /\ \A i \in Invocation : result[i] # "none" <=> pc[i] = "done"
  BY DEF CallType
<1>4. /\ pc'[new] = "next" /\ pc[new] = "idle"
      /\ \A i \in Invocation : i # new => pc'[i] = pc[i]
      /\ \A i \in Invocation : \A k \in Below(i) : k # new /\ k \in Invocation /\ k[1] = i[1]
  <2>1. \A i \in Invocation : \A k \in Below(i) : k # new /\ k \in Invocation /\ k[1] = i[1]
    BY <1>2, RunFamilies
  <2>2. pc[new] = "idle"
    BY <1>1, <1>2 DEF OneRun
  <2>3. QED
    BY <1>1, <1>2, <1>3, <2>1, <2>2
<1>5. \A k \in Below(new) : pc[k] = "idle" /\ result[k] = "none"
  <2>1. \A k \in Below(new) : k \in Invocation /\ k[1] = run + 1
    BY <1>2, <1>4
  <2>2. QED
    BY <1>1, <1>3, <2>1 DEF OneRun, CallType
<1>6. CallType'
  BY <1>1, <1>2, <1>3, <1>4 DEF CallType
<1>7. OneRun'
  <2> SUFFICES ASSUME NEW i \in Invocation
               PROVE  /\ i[1] > run + 1 => pc'[i] = "idle"
                      /\ IsRoot(i) /\ i[1] < run + 1 => pc'[i] = "done"
                      /\ IsRoot(i) => pc'[i] # "task"
    BY <1>1 DEF OneRun, IsRoot
  <2>1. CASE i = new
    BY <2>1, <1>1, <1>2, <1>4
  <2>2. CASE i # new
    <3>1. i[1] \in Nat /\ pc'[i] = pc[i]
      BY <1>4, <2>2, RunFamilies DEF Run
    <3>2. IsRoot(i) /\ i[1] = run => pc[i] = "done"
      <4>1. SUFFICES ASSUME IsRoot(i), i[1] = run PROVE pc[i] = "done"
        OBVIOUS
      <4>2. i = <<run, Root>> /\ run > 0
        BY <4>1, RunFamilies, AgentRunAssumption DEF Run
      <4>3. QED
        BY <4>2, <1>1
    <3>3. QED
      BY <3>1, <3>2, <1>1 DEF OneRun
  <2>3. QED
    BY <2>1, <2>2
<1>8. Kept'
  <2> SUFFICES ASSUME NEW i \in Invocation, NEW k \in Below(i)
               PROVE  /\ pc'[k] # "idle" => pc'[i] \in {"open", "done"}
                      /\ Active(k)' => pc'[i] = "open" \/ (IsGather(i) /\ result'[i] = "error")
                      /\ pc'[k] = "task" => IsGather(i)
                      /\ result'[k] = "error" => pc'[i] = "open" \/ result'[i] = "error"
    BY DEF Kept, IsGather, Below
  <2>1. pc'[k] = pc[k]
    BY <1>4
  <2>2. CASE i = new
    BY <2>1, <2>2, <1>1, <1>5 DEF Active
  <2>3. CASE i # new
    BY <2>1, <2>3, <1>1, <1>4 DEF Kept, Active
  <2>4. QED
    BY <2>2, <2>3
<1>9. InTurn'
  <2>1. \A i \in Invocation : \A k \in Below(i) : pc'[k] = pc[k]
    BY <1>4
  <2>2. \A i \in Invocation : ~IsGather(i) => \A k, l \in Below(i) : Active(k)' /\ Active(l)' => k = l
    BY <2>1 DEF InTurn, Active
  <2>3. \A i \in Invocation : pc'[i] = "next" => i = new
    BY <1>1, <1>2, <1>4, NoneAssumption DEF InTurn
  <2>4. QED
    BY <1>1, <1>4, <2>2, <2>3 DEF InTurn, Active, IsGather, Below
<1>10. Progress'
  <2> SUFFICES ASSUME NEW i \in Invocation
               PROVE  /\ pc'[i] = "open" /\ ~IsGather(i) /\ ~IsLeaf(i) => Asked(i)'
                      /\ result'[i] = "ok" => AllCalled(i)'
    BY DEF Progress, IsGather, IsLeaf
  <2>1. Called(i)' = Called(i) /\ Kid(i, 1)' = Kid(i, 1)
    BY <1>4 DEF Called, Kid, Below
  <2>2. pc'[i] = "open" => pc[i] = "open"
    BY <1>4
  <2>3. QED
    BY <1>1, <2>1, <2>2 DEF Progress, Asked, AllCalled, Below
<1>11. QED
  BY <1>6, <1>7, <1>8, <1>9, <1>10

LEMMA CallCancel == CallInv /\ (Cancel \/ UNCHANGED vars) => CallInv'
<1> SUFFICES ASSUME CallInv, Cancel \/ UNCHANGED vars PROVE CallInv'
  OBVIOUS
<1> USE DEF CallInv
<1>1. /\ run' = run /\ pc' = pc /\ result' = result /\ turn' = turn
      /\ cancelled' \subseteq Invocation
  <2>1. CASE Cancel
    <3>1. run \in Run
      BY <2>1, AgentRunAssumption DEF CallType, Run, Cancel
    <3>2. {run} \X Sites \subseteq Invocation
      BY <3>1 DEF Invocation
    <3>3. QED
      BY <2>1, <3>2 DEF CallType, Cancel
  <2>2. CASE UNCHANGED vars
    BY <2>2 DEF vars, CallType
  <2>3. QED
    BY <2>1, <2>2
<1>2. CallType'
  BY <1>1 DEF CallType
<1>3. OneRun' /\ Kept' /\ InTurn'
  BY <1>1 DEF OneRun, Kept, InTurn, Active, IsRoot, IsGather, IsLeaf, Below
<1>4. \A i : Asked(i)' = Asked(i) /\ AllCalled(i)' = AllCalled(i)
  <2>1. \A i : Called(i)' = Called(i) /\ Kid(i, 1)' = Kid(i, 1)
    BY <1>1, Zenon DEF Called, Kid, Below
  <2>2. QED
    BY <2>1 DEF Asked, AllCalled, Below
<1>5. Progress'
  BY <1>1, <1>4 DEF Progress, IsGather, IsLeaf
<1>6. QED
  BY <1>2, <1>3, <1>5

-----------------------------------------------------------------------------
(* A step of an invocation: it starts, hands on to a kid, or ends *)

\* What is true when an invocation ends: its kids are over, unless a gather fails.
MayEnd(i, how) ==
  /\ Active(i) /\ how \in {"ok", "error"}
  /\ turn \in {None, i}
  /\ ~IsGather(i) => \A k \in Below(i) : ~Active(k)
  /\ how = "ok" => /\ AllCalled(i)
                   /\ \A k \in Below(i) : pc[k] = "idle" \/ result[k] = "ok"

HandsOn(i, k) ==
  /\ turn = i /\ pc[i] = "open" /\ k \in Below(i) /\ pc[k] = "idle"
  /\ i[2] \in Routers => Called(i) = {Kid(i, 1)}
  /\ \A l \in Below(i) : result[l] # "error"
  /\ pc' = [pc EXCEPT ![k] = "next"] /\ turn' = k
  /\ UNCHANGED <<run, result, cancelled, taping, tracing>>

Ends(i, how) ==
  /\ MayEnd(i, how) /\ Terminate(i, how)
  /\ \/ how = "ok" /\ pc[i] = "open" /\ TapeEnd(i) /\ TraceStep(i, TRUE)
     \/ how = "error" /\ pc[i] = "open" /\ TapeError(i) /\ TraceStep(i, FALSE)
     \/ how = "error" /\ pc[i] # "open" /\ UNCHANGED taping /\ TraceStep(i, FALSE)
     \/ how = "error" /\ pc[i] # "open" /\ UNCHANGED <<taping, tracing>>

LEMMA KidsAllOver ==
  ASSUME CallInv, NEW i \in Invocation, turn = i, pc[i] = "open"
  PROVE  /\ ~IsGather(i) /\ ~IsLeaf(i)
         /\ \A k \in Below(i) : ~Active(k) /\ (pc[k] = "idle" \/ pc[k] = "done")
<1>1. turn # None
  BY NoneAssumption
<1>2. ~IsGather(i) /\ ~IsLeaf(i) /\ \A k \in Below(i) : ~Active(k)
  BY <1>1 DEF CallInv, InTurn
<1>3. \A k \in Below(i) : pc[k] \in {"idle", "task", "next", "open", "done"}
  BY RunFamilies DEF CallInv, CallType
<1>4. QED
  BY <1>2, <1>3 DEF Active

LEMMA KidsIdle ==
  ASSUME CallInv, NEW i \in Invocation, pc[i] \in {"idle", "task", "next"}
  PROVE  \A k \in Below(i) : pc[k] = "idle" /\ result[k] = "none" /\ ~Active(k)
<1>1. \A k \in Below(i) : pc[k] = "idle"
  BY DEF CallInv, Kept
<1>2. \A k \in Below(i) : k \in Invocation /\ (result[k] # "none" <=> pc[k] = "done")
  BY RunFamilies DEF CallInv, CallType
<1>3. QED
  BY <1>1, <1>2 DEF Active

\* A composite whose turn it is, none of whose kids has failed, and which has no kid
\* left to await: it has called what it calls.
LEMMA NoneUpcoming ==
  ASSUME CallInv, NEW i \in Invocation, turn = i, pc[i] = "open",
         ~SomeError(Below(i)), Upcoming(i) = {}
  PROVE  AllCalled(i) /\ \A k \in Below(i) : pc[k] = "idle" \/ result[k] = "ok"
<1> DEFINE n == Len(Kids[i[2]])
<1>1. n \in Nat /\ n > 0 /\ DOMAIN Kids[i[2]] = 1 .. n /\ 1 \in 1 .. n
  BY KidsAllOver, KidsOf
<1>2. \A k \in Below(i) : pc[k] = "idle" \/ result[k] = "ok"
  <2>1. \A k \in Below(i) : k \in Invocation /\ (pc[k] = "idle" \/ pc[k] = "done")
    BY KidsAllOver, RunFamilies
  <2>2. \A k \in Below(i) : result[k] # "error"
    BY DEF SomeError
  <2>3. QED
    BY <2>1, <2>2 DEF CallInv, CallType
<1>3. Asked(i)
  BY KidsAllOver DEF CallInv, Progress
<1>4. Uncalled(i) \subseteq 1 .. n /\ 1 \notin Uncalled(i)
  BY <1>1, <1>3 DEF Uncalled, Asked, Called
<1> HIDE DEF n
<1>5. CASE i[2] \in Routers
  <2>1. n > 1 /\ \A m \in 1 .. n : Kid(i, m) \in Below(i)
    BY <1>5, KidsOf DEF n
  <2>2. Kid(i, 1) \in Below(i) /\ pc[Kid(i, 1)] # "idle" /\ result[Kid(i, 1)] = "ok"
    BY <1>2, <1>3 DEF Asked, Called
  <2>3. Uncalled(i) # 2 .. n
    <3>1. Branches(i) = {}
      BY <1>5 DEF Upcoming
    <3>2. Uncalled(i) = 2 .. n => 2 .. n = {}
      BY <1>5, <2>2, <3>1 DEF Branches, n
    <3>3. 2 \in 2 .. n
      BY <2>1, <1>1
    <3>4. QED
      BY <3>2, <3>3
  <2>4. PICK m \in 2 .. n : m \notin Uncalled(i)
    <3>1. Uncalled(i) \subseteq 2 .. n
      BY <1>1, <1>4
    <3>2. QED
      BY <2>3, <3>1
  <2>5. m \in 1 .. n /\ m # 1 /\ Kid(i, m) \in Below(i) /\ Kid(i, m) # Kid(i, 1)
    BY <1>1, <2>1, <2>4, KidsOf DEF n
  <2>6. pc[Kid(i, m)] # "idle"
    BY <2>4, <2>5, <1>1 DEF Uncalled
  <2>7. Kid(i, m) \in Called(i) \ {Kid(i, 1)} /\ Kid(i, 1) \in Called(i)
    BY <2>2, <2>5, <2>6 DEF Called
  <2>8. \A k \in Called(i) \ {Kid(i, 1)} : k = Kid(i, m)
    BY <1>3, <1>5, <2>7 DEF Asked
  <2>9. Called(i) = {Kid(i, 1), Kid(i, m)}
    BY <2>7, <2>8
  <2>10. QED
    BY <1>2, <1>5, <2>7, <2>9 DEF AllCalled
<1>6. CASE i[2] \notin Routers
  <2>1. {m \in Uncalled(i) : 1 .. m - 1 \cap Uncalled(i) = {}} = {}
    BY <1>6 DEF Upcoming
  <2>2. Uncalled(i) = {}
    <3>1. SUFFICES ASSUME Uncalled(i) # {} PROVE FALSE
      OBVIOUS
    <3>2. Uncalled(i) \subseteq Nat
      BY <1>1, <1>4
    <3>3. Min(Uncalled(i)) \in Uncalled(i) /\ \A y \in Uncalled(i) : Min(Uncalled(i)) <= y
      BY <3>1, <3>2, NatMin
    <3>4. 1 .. Min(Uncalled(i)) - 1 \cap Uncalled(i) = {}
      BY <3>2, <3>3
    <3>5. QED
      BY <2>1, <3>3, <3>4
  <2>3. \A k \in Below(i) : pc[k] # "idle"
    <3>1. \A k \in Below(i) : \E m \in 1 .. n : k = Kid(i, m)
      BY KidsOf DEF n
    <3>2. \A m \in 1 .. n : pc[Kid(i, m)] # "idle"
      BY <1>1, <2>2 DEF Uncalled
    <3>3. QED
      BY <3>1, <3>2
  <2>4. Called(i) = Below(i)
    BY <2>3 DEF Called
  <2>5. QED
    BY <1>2, <1>6, <2>4 DEF AllCalled
<1>7. QED
  BY <1>5, <1>6

LEMMA NextKid ==
  ASSUME CallInv, NEW i \in Invocation, turn = i, pc[i] = "open", NEW n \in Upcoming(i)
  PROVE  /\ Kid(i, n) \in Below(i) /\ pc[Kid(i, n)] = "idle"
         /\ i[2] \in Routers => Called(i) = {Kid(i, 1)}
<1> DEFINE len == Len(Kids[i[2]])
<1>1. n \in Uncalled(i)
  BY DEF Upcoming, Branches
<1>2. len \in Nat /\ DOMAIN Kids[i[2]] = 1 .. len /\ n \in 1 .. len
  BY <1>1, KidsOf DEF Uncalled
<1>3. Kid(i, n) \in Below(i) /\ pc[Kid(i, n)] = "idle"
  BY <1>1, <1>2, KidsOf DEF Uncalled
<1>4. CASE i[2] \in Routers
  <2>1. Uncalled(i) = 2 .. len
    BY <1>4 DEF Upcoming, Branches
  <2>2. \A k \in Below(i) : \E m \in 1 .. len : k = Kid(i, m)
    BY KidsOf
  <2> HIDE DEF len
  <2>3. \A m \in 1 .. len : m # 1 => pc[Kid(i, m)] = "idle"
    <3>1. \A m \in 1 .. len : m # 1 => m \in 2 .. len
      BY <1>2
    <3>2. QED
      BY <2>1, <3>1 DEF Uncalled
  <2>4. \A k \in Called(i) : k = Kid(i, 1)
    BY <2>2, <2>3 DEF Called
  <2>5. Asked(i)
    BY KidsAllOver DEF CallInv, Progress
  <2>6. QED
    BY <1>3, <2>4, <2>5 DEF Asked
<1>5. QED
  BY <1>3, <1>4

LEMMA StepIs ==
  ASSUME CallInv, NEW i \in Invocation, Step(i)
  PROVE  Start(i) \/ (\E k \in Below(i) : HandsOn(i, k)) \/ \E how \in {"ok", "error"} : Ends(i, how)
<1> USE DEF Active
<1>1. CASE Start(i)
  BY <1>1
<1>2. CASE Rejects(i)
  <2>1. pc[i] \in {"next", "task"} /\ turn \in {None, i}
    BY <1>2 DEF Rejects, Ready
  <2>2. MayEnd(i, "error")
    BY <2>1, KidsIdle DEF MayEnd
  <2>3. Ends(i, "error")
    BY <1>2, <2>1, <2>2 DEF Ends, Rejects
  <2>4. QED
    BY <2>3
<1>3. CASE NeverStarts(i)
  <2>1. pc[i] = "task" /\ turn = None
    BY <1>3 DEF NeverStarts
  <2>2. MayEnd(i, "error")
    BY <2>1, KidsIdle DEF MayEnd
  <2>3. Ends(i, "error")
    BY <1>3, <2>1, <2>2 DEF Ends, NeverStarts
  <2>4. QED
    BY <2>3
<1>4. CASE Answer(i)
  <2>1. pc[i] = "open" /\ turn = None /\ IsLeaf(i) /\ End(i)
    BY <1>4 DEF Answer, Suspended
  <2>2. Below(i) = {} /\ i[2] \notin Routers
    <3>1. ~(Len(Kids[i[2]]) > 1)
      BY <2>1 DEF IsLeaf
    <3>2. QED
      BY <2>1, <3>1, KidsOf
  <2>3. AllCalled(i)
    BY <2>2 DEF AllCalled, Called
  <2>4. MayEnd(i, "ok")
    BY <2>1, <2>2, <2>3 DEF MayEnd
  <2>5. Ends(i, "ok")
    BY <2>1, <2>4 DEF Ends, End
  <2>6. QED
    BY <2>5
<1>5. CASE Raise(i)
  <2>1. pc[i] = "open" /\ turn = None /\ IsLeaf(i) /\ Fail(i)
    BY <1>5 DEF Raise, Suspended
  <2>2. MayEnd(i, "error")
    BY <2>1, KidsOf DEF MayEnd
  <2>3. Ends(i, "error")
    BY <2>1, <2>2 DEF Ends, Fail
  <2>4. QED
    BY <2>3
<1>6. CASE Stage(i)
  <2>1. pc[i] = "open" /\ turn = i
    BY <1>6 DEF Stage
  <2>2. MayEnd(i, "error")
    BY <2>1, KidsAllOver DEF MayEnd
  <2>3. Fail(i) => Ends(i, "error")
    BY <2>1, <2>2 DEF Ends, Fail
  <2>4. ASSUME ~SomeError(Below(i)), Upcoming(i) = {}, End(i) PROVE Ends(i, "ok")
    <3>1. MayEnd(i, "ok")
      BY <2>1, <2>4, KidsAllOver, NoneUpcoming DEF MayEnd
    <3>2. QED
      BY <2>1, <2>4, <3>1 DEF Ends, End
  <2>5. ASSUME NEW n \in Upcoming(i), ~SomeError(Below(i)), pc' = [pc EXCEPT ![Kid(i, n)] = "next"], turn' = Kid(i, n),
               UNCHANGED <<run, result, cancelled, taping, tracing>>
        PROVE  HandsOn(i, Kid(i, n)) /\ Kid(i, n) \in Below(i)
    BY <2>1, <2>5, NextKid DEF HandsOn, SomeError
  <2>6. QED
    BY <1>6, <2>3, <2>4, <2>5 DEF Stage
<1>7. CASE Gathered(i)
  <2>1. pc[i] = "open" /\ turn = None /\ IsGather(i)
    BY <1>7 DEF Gathered, Suspended
  <2>2. MayEnd(i, "error")
    BY <2>1 DEF MayEnd
  <2>3. Fail(i) => Ends(i, "error")
    BY <2>1, <2>2 DEF Ends, Fail
  <2>4. ASSUME AllOk(Below(i)), End(i) PROVE Ends(i, "ok")
    <3>1. \A k \in Below(i) : result[k] = "ok" /\ pc[k] = "done"
      BY <2>4, RunFamilies DEF AllOk, CallInv, CallType
    <3>2. i[2] \notin Routers
      BY <2>1, KidsOf
    <3>3. AllCalled(i)
      BY <3>1, <3>2 DEF AllCalled, Called
    <3>4. MayEnd(i, "ok")
      BY <2>1, <3>1, <3>3 DEF MayEnd
    <3>5. QED
      BY <2>1, <2>4, <3>4 DEF Ends, End
  <2>5. QED
    BY <1>7, <2>3, <2>4 DEF Gathered
<1>8. QED
  BY <1>1, <1>2, <1>3, <1>4, <1>5, <1>6, <1>7 DEF Step

\* Calls that were made, and calls that are complete, stay so as long as no kid of
\* the composite is called.
LEMMA SameCalled ==
  ASSUME NEW i, \A k \in Below(i) : pc'[k] = "idle" <=> pc[k] = "idle"
  PROVE  Called(i)' = Called(i) /\ (Asked(i)' <=> Asked(i)) /\ (AllCalled(i)' <=> AllCalled(i))
<1>1. Below(i)' = Below(i) /\ Kid(i, 1)' = Kid(i, 1)
  BY DEF Below, Kid
<1>2. Called(i)' = Called(i)
  BY <1>1 DEF Called
<1>3. QED
  BY <1>1, <1>2 DEF Asked, AllCalled

\* Where an invocation ends, the one that awaited it has its turn.
LEMMA AwaitedEnds ==
  ASSUME CallInv, NEW i \in Invocation, NEW how, MayEnd(i, how), Terminate(i, how)
  PROVE  /\ run' = run /\ cancelled' = cancelled
         /\ pc'[i] = "done" /\ result'[i] = how /\ pc[i] # "idle" /\ pc[i] # "done" /\ result[i] = "none"
         /\ \A j \in Invocation : j # i => pc'[j] = pc[j] /\ result'[j] = result[j]
         /\ \/ turn' = None
            \/ /\ ~IsRoot(i) /\ turn' = Up(i) /\ pc[Up(i)] = "open" /\ ~IsGather(Up(i)) /\ ~IsLeaf(Up(i))
<1>1. /\ pc \in [Invocation -> {"idle", "task", "next", "open", "done"}]
      /\ result \in [Invocation -> {"none", "ok", "error"}]
      /\ \A j \in Invocation : result[j] # "none" <=> pc[j] = "done"
  BY DEF CallInv, CallType
<1>2. /\ run' = run /\ cancelled' = cancelled
      /\ pc'[i] = "done" /\ result'[i] = how /\ pc[i] # "idle" /\ pc[i] # "done" /\ result[i] = "none"
      /\ \A j \in Invocation : j # i => pc'[j] = pc[j] /\ result'[j] = result[j]
  BY <1>1 DEF Terminate, MayEnd, Active
<1>3. turn' = IF IsRoot(i) \/ IsGather(Up(i)) THEN None ELSE Up(i)
  BY DEF Terminate, Return
<1>4. ASSUME ~IsRoot(i), ~IsGather(Up(i))
      PROVE  pc[Up(i)] = "open" /\ ~IsLeaf(Up(i))
  <2>1. Up(i) \in Invocation /\ i \in Below(Up(i))
    BY <1>4, RunFamilies
  <2>2. pc[Up(i)] = "open"
    BY <1>4, <2>1 DEF CallInv, Kept, MayEnd
  <2>3. ~IsLeaf(Up(i))
    BY <2>1, KidsOf
  <2>4. QED
    BY <2>2, <2>3
<1>5. QED
  BY <1>2, <1>3, <1>4

LEMMA CallEnds ==
  ASSUME CallInv, NEW i \in Invocation, NEW how \in {"ok", "error"}, MayEnd(i, how), Terminate(i, how)
  PROVE  CallInv'
<1>1. /\ run' = run /\ cancelled' = cancelled
      /\ pc'[i] = "done" /\ result'[i] = how /\ pc[i] # "idle" /\ pc[i] # "done" /\ result[i] = "none"
      /\ \A j \in Invocation : j # i => pc'[j] = pc[j] /\ result'[j] = result[j]
  BY AwaitedEnds
<1>2. \/ turn' = None
      \/ /\ ~IsRoot(i) /\ turn' = Up(i) /\ pc[Up(i)] = "open" /\ ~IsGather(Up(i)) /\ ~IsLeaf(Up(i))
  BY AwaitedEnds
<1>3. \A j \in Invocation : \A k \in Below(j) : k \in Invocation /\ k # j
  BY RunFamilies
<1>4. ~IsRoot(i) => Up(i) \in Invocation /\ i \in Below(Up(i)) /\ Up(i) # i
  BY RunFamilies
<1>5. CallType'
  <2>1. turn' \in Invocation \cup {None}
    BY <1>2, <1>4
  <2>2. pc' \in [Invocation -> {"idle", "task", "next", "open", "done"}]
    BY DEF Terminate, CallInv, CallType
  <2>3. result' \in [Invocation -> {"none", "ok", "error"}]
    BY DEF Terminate, CallInv, CallType
  <2>4. \A j \in Invocation : result'[j] # "none" <=> pc'[j] = "done"
    BY <1>1 DEF CallInv, CallType
  <2>5. QED
    BY <1>1, <2>1, <2>2, <2>3, <2>4 DEF CallInv, CallType
<1>6. OneRun'
  BY <1>1 DEF CallInv, OneRun, IsRoot
<1>7. Kept'
  <2> SUFFICES ASSUME NEW j \in Invocation, NEW k \in Below(j)
               PROVE  /\ pc'[k] # "idle" => pc'[j] \in {"open", "done"}
                      /\ Active(k)' => pc'[j] = "open" \/ (IsGather(j) /\ result'[j] = "error")
                      /\ pc'[k] = "task" => IsGather(j)
                      /\ result'[k] = "error" => pc'[j] = "open" \/ result'[j] = "error"
    BY DEF Kept, IsGather, Below
  <2>0. k \in Invocation /\ k # j
    BY <1>3
  <2>1. CASE k = i
    <3>1. pc'[j] = pc[j] /\ result'[j] = result[j] /\ pc'[k] = "done"
      BY <1>1, <2>0, <2>1
    <3>2. pc[j] \in {"open", "done"} /\ (pc[j] = "open" \/ result[j] = "error")
      BY <2>1, <1>1 DEF CallInv, Kept, MayEnd
    <3>3. QED
      BY <3>1, <3>2 DEF Active
  <2>2. CASE j = i
    <3>1. pc'[k] = pc[k] /\ result'[k] = result[k] /\ pc'[j] = "done" /\ result'[j] = how
      BY <1>1, <2>0, <2>2
    <3>2. how = "ok" => ~Active(k) /\ result[k] # "error"
      BY <2>0, <2>2 DEF MayEnd, CallInv, CallType, Active
    <3>3. ~IsGather(j) => ~Active(k)
      BY <2>2 DEF MayEnd
    <3>4. pc[k] = "task" => IsGather(j)
      BY DEF CallInv, Kept
    <3>5. QED
      BY <3>1, <3>2, <3>3, <3>4 DEF Active
  <2>3. CASE k # i /\ j # i
    <3>1. pc'[k] = pc[k] /\ result'[k] = result[k] /\ pc'[j] = pc[j] /\ result'[j] = result[j]
      BY <1>1, <2>0, <2>3
    <3>2. QED
      BY <3>1 DEF CallInv, Kept, Active
  <2>4. QED
    BY <2>1, <2>2, <2>3
<1>8. InTurn'
  <2>1. \A j \in Invocation : Active(j)' => Active(j) /\ j # i
    BY <1>1 DEF Active
  <2>2. ASSUME NEW j \in Invocation, ~IsGather(j), NEW k \in Below(j), NEW l \in Below(j), Active(k)', Active(l)'
        PROVE  k = l
    BY <1>3, <2>1, <2>2 DEF CallInv, InTurn
  <2>3. \A j \in Invocation : pc'[j] # "next"
    <3>1. ASSUME NEW j \in Invocation, pc'[j] = "next" PROVE FALSE
      <4>1. j # i /\ pc[j] = "next"
        BY <1>1, <3>1
      <4>2. turn = j
        BY <4>1 DEF CallInv, InTurn
      <4>3. QED
        BY <4>1, <4>2, NoneAssumption DEF MayEnd
    <3>2. QED
      BY <3>1
  <2>4. ASSUME turn' # None
        PROVE  /\ pc'[turn'] = "open" /\ ~IsGather(turn') /\ ~IsLeaf(turn')
               /\ \A k \in Below(turn') : ~Active(k)'
    <3>1. ~IsRoot(i) /\ turn' = Up(i) /\ pc[Up(i)] = "open" /\ ~IsGather(Up(i)) /\ ~IsLeaf(Up(i))
      BY <1>2, <2>4
    <3>2. Up(i) \in Invocation /\ i \in Below(Up(i)) /\ pc'[Up(i)] = "open"
      BY <3>1, <1>1, <1>4
    <3>3. \A k \in Below(Up(i)) : ~Active(k)'
      BY <1>3, <2>1, <3>1, <3>2 DEF CallInv, InTurn, MayEnd
    <3>4. QED
      BY <3>1, <3>2, <3>3
  <2>5. QED
    BY <2>2, <2>3, <2>4 DEF InTurn, IsGather, IsLeaf, Below
<1>9. Progress'
  <2> SUFFICES ASSUME NEW j \in Invocation
               PROVE  /\ pc'[j] = "open" /\ ~IsGather(j) /\ ~IsLeaf(j) => Asked(j)'
                      /\ result'[j] = "ok" => AllCalled(j)'
    BY DEF Progress, IsGather, IsLeaf
  <2>1. \A k \in Below(j) : pc'[k] = "idle" <=> pc[k] = "idle"
    BY <1>1, <1>3
  <2>2. (Asked(j)' <=> Asked(j)) /\ (AllCalled(j)' <=> AllCalled(j))
    BY <2>1, SameCalled
  <2>3. CASE j = i
    BY <1>1, <2>2, <2>3 DEF MayEnd
  <2>4. CASE j # i
    BY <1>1, <2>2, <2>4 DEF CallInv, Progress
  <2>5. QED
    BY <2>3, <2>4
<1>10. QED
  BY <1>5, <1>6, <1>7, <1>8, <1>9 DEF CallInv

LEMMA CallHandsOn ==
  ASSUME CallInv, NEW i \in Invocation, NEW n \in Below(i), HandsOn(i, n)
  PROVE  CallInv'
<1>1. /\ turn = i /\ pc[i] = "open" /\ pc[n] = "idle"
      /\ i[2] \in Routers => Called(i) = {Kid(i, 1)}
      /\ pc' = [pc EXCEPT ![n] = "next"] /\ turn' = n
      /\ run' = run /\ result' = result /\ cancelled' = cancelled
  BY DEF HandsOn
<1>2. n \in Invocation /\ ~IsRoot(n) /\ Up(n) = i /\ n # i
  BY RunFamilies
<1>3. pc'[n] = "next" /\ \A j \in Invocation : j # n => pc'[j] = pc[j]
  BY <1>1, <1>2 DEF CallInv, CallType
<1>4. \A j \in Invocation : \A k \in Below(j) : k \in Invocation /\ k # j /\ Up(k) = j
  BY RunFamilies
<1>5. /\ ~IsGather(i) /\ ~IsLeaf(i)
      /\ \A k \in Below(i) : ~Active(k) /\ (pc[k] = "idle" \/ pc[k] = "done")
  BY <1>1, KidsAllOver
<1>6. \A k \in Below(n) : pc[k] = "idle" /\ result[k] = "none" /\ ~Active(k)
  BY <1>1, <1>2, KidsIdle
<1>7. CallType'
  BY <1>1, <1>2, <1>3 DEF CallInv, CallType
<1>8. OneRun'
  <2>1. i[1] = n[1]
    BY RunFamilies
  <2>2. ~(i[1] > run)
    BY <1>1 DEF CallInv, OneRun
  <2>3. QED
    BY <1>1, <1>2, <1>3, <2>1, <2>2 DEF CallInv, OneRun, IsRoot
<1>9. Kept'
  <2> SUFFICES ASSUME NEW j \in Invocation, NEW k \in Below(j)
               PROVE  /\ pc'[k] # "idle" => pc'[j] \in {"open", "done"}
                      /\ Active(k)' => pc'[j] = "open" \/ (IsGather(j) /\ result'[j] = "error")
                      /\ pc'[k] = "task" => IsGather(j)
                      /\ result'[k] = "error" => pc'[j] = "open" \/ result'[j] = "error"
    BY DEF Kept, IsGather, Below
  <2>0. k \in Invocation /\ k # j /\ Up(k) = j
    BY <1>4
  <2>1. CASE k = n
    BY <1>1, <1>2, <1>3, <1>5, <2>0, <2>1 DEF CallInv, CallType
  <2>2. CASE j = n
    <3>1. k # n /\ pc'[k] = "idle" /\ result'[k] = "none"
      BY <1>1, <1>3, <1>6, <2>0, <2>2
    <3>2. QED
      BY <3>1 DEF Active
  <2>3. CASE k # n /\ j # n
    BY <1>1, <1>3, <2>0, <2>3 DEF CallInv, Kept, Active
  <2>4. QED
    BY <2>1, <2>2, <2>3
<1>10. InTurn'
  <2>1. \A j \in Invocation : Active(j)' => Active(j) \/ j = n
    BY <1>3 DEF Active
  <2>2. ASSUME NEW j \in Invocation, ~IsGather(j), NEW k \in Below(j), NEW l \in Below(j), Active(k)', Active(l)'
        PROVE  k = l
    <3>1. k \in Invocation /\ l \in Invocation
      BY <1>4
    <3>2. CASE j = i
      BY <1>5, <2>1, <2>2, <3>1, <3>2
    <3>3. CASE j # i
      <4>1. k # n /\ l # n
        BY <1>2, <1>4, <3>3
      <4>2. Active(k) /\ Active(l)
        BY <2>1, <2>2, <3>1, <4>1
      <4>3. QED
        BY <2>2, <4>2 DEF CallInv, InTurn
    <3>4. QED
      BY <3>2, <3>3
  <2>3. ASSUME NEW j \in Invocation, pc'[j] = "next" PROVE turn' = j
    <3>1. CASE j # n
      <4>1. pc[j] = "next"
        BY <1>3, <2>3, <3>1
      <4>2. turn = j
        BY <4>1 DEF CallInv, InTurn
      <4>3. QED
        BY <1>1, <4>1, <4>2
    <3>2. QED
      BY <1>1, <3>1
  <2>4. pc'[turn'] = "next"
    BY <1>1, <1>3
  <2>5. QED
    BY <2>2, <2>3, <2>4 DEF InTurn, IsGather, IsLeaf, Below
<1>11. Progress'
  <2> SUFFICES ASSUME NEW j \in Invocation
               PROVE  /\ pc'[j] = "open" /\ ~IsGather(j) /\ ~IsLeaf(j) => Asked(j)'
                      /\ result'[j] = "ok" => AllCalled(j)'
    BY DEF Progress, IsGather, IsLeaf
  <2>1. CASE j = i
    <3>1. Asked(i)
      BY <1>1, <1>5 DEF CallInv, Progress
    <3>2. Called(i)' = Called(i) \cup {n}
      <4>1. Below(i)' = Below(i) /\ \A k \in Below(i) : pc'[k] # "idle" <=> pc[k] # "idle" \/ k = n
        BY <1>3, <1>4 DEF Below
      <4>2. QED
        BY <4>1 DEF Called
    <3>3. Kid(i, 1)' = Kid(i, 1)
      BY DEF Kid
    <3>4. Asked(i)'
      BY <1>1, <3>1, <3>2, <3>3 DEF Asked
    <3>5. result'[i] # "ok"
      BY <1>1 DEF CallInv, CallType
    <3>6. QED
      BY <2>1, <3>4, <3>5
  <2>2. CASE j # i
    <3>1. \A k \in Below(j) : pc'[k] = "idle" <=> pc[k] = "idle"
      BY <1>2, <1>3, <1>4, <2>2
    <3>2. (Asked(j)' <=> Asked(j)) /\ (AllCalled(j)' <=> AllCalled(j))
      BY <3>1, SameCalled
    <3>3. pc'[j] = "open" => pc[j] = "open"
      BY <1>3
    <3>4. QED
      BY <1>1, <3>2, <3>3 DEF CallInv, Progress
  <2>3. QED
    BY <2>1, <2>2
<1>12. QED
  BY <1>7, <1>8, <1>9, <1>10, <1>11 DEF CallInv

\* Where an invocation starts, its first kid is next, or all are made tasks.
LEMMA StartsAs ==
  ASSUME CallInv, NEW i \in Invocation, Start(i)
  PROVE  /\ run' = run /\ result' = result /\ cancelled' = cancelled
         /\ pc[i] \in {"next", "task"} /\ pc'[i] = "open" /\ turn \in {None, i}
         /\ \A j \in Invocation : pc'[j] = "next" => j # i /\ (pc[j] = "next" \/ turn' = j)
         /\ \A j \in Invocation : j # i /\ j \notin Below(i) => pc'[j] = pc[j]
         /\ \/ turn' = None /\ (IsLeaf(i) \/ IsGather(i)) /\ \A k \in Below(i) : pc'[k] = "task" /\ IsGather(i)
            \/ /\ ~IsLeaf(i) /\ ~IsGather(i) /\ turn' = Kid(i, 1) /\ Kid(i, 1) \in Below(i)
               /\ pc'[Kid(i, 1)] = "next" /\ \A k \in Below(i) : k # Kid(i, 1) => pc'[k] = "idle"
<1>1. /\ pc \in [Invocation -> {"idle", "task", "next", "open", "done"}]
      /\ run' = run /\ result' = result /\ cancelled' = cancelled
      /\ pc[i] \in {"next", "task"} /\ turn \in {None, i}
  BY DEF Start, Ready, CallInv, CallType
<1>2. \A k \in Below(i) : pc[k] = "idle" /\ k \in Invocation /\ k # i
  BY <1>1, KidsIdle, RunFamilies
<1>3. CASE IsLeaf(i) \/ IsGather(i)
  <2>1. /\ pc' = [j \in Invocation |-> IF j = i THEN "open" ELSE IF j \in Below(i) THEN "task" ELSE pc[j]]
        /\ turn' = None
    BY <1>3 DEF Start
  <2>2. \A k \in Below(i) : IsGather(i)
    BY <1>3, KidsOf
  <2>3. pc'[i] = "open" /\ \A k \in Below(i) : pc'[k] = "task"
    BY <2>1, <1>2
  <2>4. \A j \in Invocation : j # i /\ j \notin Below(i) => pc'[j] = pc[j]
    BY <2>1
  <2>5. \A j \in Invocation : pc'[j] = "next" => j # i /\ pc[j] = "next"
    BY <2>3, <2>4
  <2>6. QED
    BY <1>1, <1>3, <2>1, <2>2, <2>3, <2>4, <2>5
<1>4. CASE ~IsLeaf(i) /\ ~IsGather(i)
  <2>1. pc' = [pc EXCEPT ![i] = "open", ![Kid(i, 1)] = "next"] /\ turn' = Kid(i, 1)
    BY <1>4 DEF Start, Kid
  <2>2. Kid(i, 1) \in Below(i)
    <3>1. 1 \in 1 .. Len(Kids[i[2]])
      BY <1>4, KidsOf
    <3>2. QED
      BY <3>1, KidsOf
  <2>3. Kid(i, 1) \in Invocation /\ Kid(i, 1) # i
    BY <1>2, <2>2
  <2>4. pc'[i] = "open" /\ pc'[Kid(i, 1)] = "next" /\ \A j \in Invocation : j # i /\ j # Kid(i, 1) => pc'[j] = pc[j]
    BY <1>1, <2>1, <2>3
  <2>5. QED
    BY <1>1, <1>2, <1>4, <2>1, <2>2, <2>3, <2>4
<1>5. QED
  BY <1>3, <1>4

LEMMA CallStarts ==
  ASSUME CallInv, NEW i \in Invocation, Start(i)
  PROVE  CallInv'
<1>1. /\ run' = run /\ result' = result /\ cancelled' = cancelled
      /\ pc[i] \in {"next", "task"} /\ pc'[i] = "open" /\ turn \in {None, i}
      /\ \A j \in Invocation : pc'[j] = "next" => j # i /\ (pc[j] = "next" \/ turn' = j)
      /\ \A j \in Invocation : j # i /\ j \notin Below(i) => pc'[j] = pc[j]
  BY StartsAs
<1>2. \/ turn' = None /\ (IsLeaf(i) \/ IsGather(i)) /\ \A k \in Below(i) : pc'[k] = "task" /\ IsGather(i)
      \/ /\ ~IsLeaf(i) /\ ~IsGather(i) /\ turn' = Kid(i, 1) /\ Kid(i, 1) \in Below(i)
         /\ pc'[Kid(i, 1)] = "next" /\ \A k \in Below(i) : k # Kid(i, 1) => pc'[k] = "idle"
  BY StartsAs
<1>3. \A j \in Invocation : \A k \in Below(j) : k \in Invocation /\ ~IsRoot(k) /\ k # j /\ Up(k) = j /\ k[1] = j[1]
  BY RunFamilies
<1>4. \A k \in Below(i) : pc[k] = "idle" /\ result[k] = "none" /\ ~Active(k)
  BY <1>1, KidsIdle
<1>5. \A k \in Below(i) : pc'[k] \in {"idle", "next", "task"} /\ (pc'[k] = "task" => IsGather(i))
  BY <1>2
<1>6. CallType'
  <2>1. turn' \in Invocation \cup {None}
    BY <1>2, <1>3
  <2>2. pc' \in [Invocation -> {"idle", "task", "next", "open", "done"}]
    <3>1. pc' = [j \in Invocation |-> pc'[j]]
      BY Zenon DEF Start, CallInv, CallType
    <3>2. \A j \in Invocation : pc'[j] \in {"idle", "task", "next", "open", "done"}
      BY <1>1, <1>5 DEF CallInv, CallType
    <3>3. QED
      BY <3>1, <3>2
  <2>3. \A j \in Invocation : result'[j] # "none" <=> pc'[j] = "done"
    <3>1. ASSUME NEW j \in Invocation PROVE pc'[j] = "done" <=> pc[j] = "done"
      BY <1>1, <1>4, <1>5
    <3>2. QED
      BY <1>1, <3>1 DEF CallInv, CallType
  <2>4. QED
    BY <1>1, <2>1, <2>2, <2>3 DEF CallInv, CallType
<1>7. OneRun'
  <2>1. ~(i[1] > run)
    BY <1>1 DEF CallInv, OneRun
  <2>2. \A j \in Invocation : IsRoot(j) => j \notin Below(i)
    BY <1>3
  <2> SUFFICES ASSUME NEW j \in Invocation
               PROVE  /\ j[1] > run => pc'[j] = "idle"
                      /\ IsRoot(j) /\ j[1] < run => pc'[j] = "done"
                      /\ IsRoot(j) => pc'[j] # "task"
    BY <1>1 DEF OneRun, IsRoot
  <2>3. j \in Below(i) => j[1] = i[1]
    BY <1>3
  <2>4. j = i => ~(IsRoot(j) /\ j[1] < run)
    BY <1>1 DEF CallInv, OneRun
  <2>5. QED
    BY <1>1, <2>1, <2>2, <2>3, <2>4 DEF CallInv, OneRun
<1>8. Kept'
  <2> SUFFICES ASSUME NEW j \in Invocation, NEW k \in Below(j)
               PROVE  /\ pc'[k] # "idle" => pc'[j] \in {"open", "done"}
                      /\ Active(k)' => pc'[j] = "open" \/ (IsGather(j) /\ result'[j] = "error")
                      /\ pc'[k] = "task" => IsGather(j)
                      /\ result'[k] = "error" => pc'[j] = "open" \/ result'[j] = "error"
    BY DEF Kept, IsGather, Below
  <2>0. k \in Invocation /\ k # j /\ Up(k) = j
    BY <1>3
  <2>1. CASE j = i
    BY <1>1, <1>4, <1>5, <2>1
  <2>2. CASE k = i
    <3>1. j \notin Below(i) \/ FALSE
      BY <1>1, <1>4, <2>0, <2>2 DEF CallInv, Kept
    <3>2. pc'[j] = pc[j]
      BY <1>1, <2>0, <2>2, <3>1
    <3>3. QED
      BY <1>1, <2>2, <3>2 DEF CallInv, Kept, Active, CallType
  <2>3. CASE j # i /\ k # i
    <3>1. k \notin Below(i) /\ pc'[k] = pc[k]
      BY <1>1, <1>3, <2>0, <2>3
    <3>2. CASE j \in Below(i)
      <4>1. pc[k] = "idle" /\ result[k] = "none"
        BY <1>4, <3>2, KidsIdle
      <4>2. QED
        BY <1>1, <3>1, <4>1 DEF Active
    <3>3. CASE j \notin Below(i)
      <4>1. pc'[j] = pc[j]
        BY <1>1, <2>3, <3>3
      <4>2. QED
        BY <1>1, <3>1, <4>1 DEF CallInv, Kept, Active
    <3>4. QED
      BY <3>2, <3>3
  <2>4. QED
    BY <2>1, <2>2, <2>3
<1>9. InTurn'
  <2>1. \A j \in Invocation : j \notin Below(i) => (Active(j)' => Active(j))
    BY <1>1 DEF Active
  <2>2. ASSUME NEW j \in Invocation, ~IsGather(j), NEW k \in Below(j), NEW l \in Below(j), Active(k)', Active(l)'
        PROVE  k = l
    <3>1. k \in Invocation /\ l \in Invocation
      BY <1>3
    <3>2. CASE j = i
      <4>1. \A m \in Below(i) : m # Kid(i, 1) => pc'[m] = "idle"
        BY <1>2, <2>2, <3>2
      <4>2. QED
        BY <2>2, <3>2, <4>1 DEF Active
    <3>3. CASE j # i
      <4>1. k \notin Below(i) /\ l \notin Below(i)
        BY <1>3, <3>3
      <4>2. Active(k) /\ Active(l)
        BY <2>1, <2>2, <3>1, <4>1
      <4>3. QED
        BY <2>2, <4>2 DEF CallInv, InTurn
    <3>4. QED
      BY <3>2, <3>3
  <2>3. ASSUME NEW j \in Invocation, pc'[j] = "next" PROVE turn' = j
    <3>1. j # i /\ (pc[j] = "next" \/ turn' = j)
      BY <1>1, <2>3
    <3>2. pc[j] = "next" => turn = j
      BY DEF CallInv, InTurn
    <3>3. QED
      BY <1>1, <3>1, <3>2, NoneAssumption
  <2>4. turn' # None => pc'[turn'] = "next"
    BY <1>2
  <2>5. QED
    BY <2>2, <2>3, <2>4 DEF InTurn, IsGather, IsLeaf, Below
<1>10. Progress'
  <2> SUFFICES ASSUME NEW j \in Invocation
               PROVE  /\ pc'[j] = "open" /\ ~IsGather(j) /\ ~IsLeaf(j) => Asked(j)'
                      /\ result'[j] = "ok" => AllCalled(j)'
    BY DEF Progress, IsGather, IsLeaf
  <2>1. CASE j = i
    <3>1. result'[i] # "ok"
      BY <1>1 DEF CallInv, CallType
    <3>2. ASSUME ~IsGather(i), ~IsLeaf(i) PROVE Asked(i)'
      <4>1. Kid(i, 1) \in Below(i) /\ pc'[Kid(i, 1)] = "next" /\ \A k \in Below(i) : k # Kid(i, 1) => pc'[k] = "idle"
        BY <1>2, <3>2
      <4>2. Called(i)' = {Kid(i, 1)} /\ Kid(i, 1)' = Kid(i, 1)
        BY <4>1 DEF Called, Below, Kid
      <4>3. QED
        BY <4>2 DEF Asked
    <3>3. QED
      BY <2>1, <3>1, <3>2
  <2>2. CASE j # i
    <3>1. \A k \in Below(j) : pc'[k] = "idle" <=> pc[k] = "idle"
      <4>1. ASSUME NEW k \in Below(j) PROVE pc'[k] = "idle" <=> pc[k] = "idle"
        <5>1. k \in Invocation /\ k \notin Below(i)
          BY <1>3, <2>2
        <5>2. QED
          BY <1>1, <5>1
      <4>2. QED
        BY <4>1
    <3>2. (Asked(j)' <=> Asked(j)) /\ (AllCalled(j)' <=> AllCalled(j))
      BY <3>1, SameCalled
    <3>3. pc'[j] = "open" => pc[j] = "open"
      BY <1>1, <1>5, <2>2
    <3>4. QED
      BY <1>1, <3>2, <3>3 DEF CallInv, Progress
  <2>3. QED
    BY <2>1, <2>2
<1>11. QED
  BY <1>6, <1>7, <1>8, <1>9, <1>10 DEF CallInv

LEMMA CallStep == CallInv /\ [Next]_vars => CallInv'
<1> SUFFICES ASSUME CallInv, [Next]_vars PROVE CallInv'
  OBVIOUS
<1>1. ASSUME NEW i \in Current, Step(i) PROVE CallInv'
  <2>1. i \in Invocation
    BY DEF Current
  <2>2. ASSUME NEW k \in Below(i), HandsOn(i, k) PROVE CallInv'
    BY <2>1, <2>2, CallHandsOn
  <2>3. ASSUME NEW how \in {"ok", "error"}, Ends(i, how) PROVE CallInv'
    BY <2>1, <2>3, CallEnds DEF Ends
  <2>4. QED
    BY <1>1, <2>1, <2>2, <2>3, StepIs, CallStarts
<1>2. QED
  BY <1>1, CallBegin, CallCancel DEF Next

\* A run whose root has returned is over: whatever it called has returned.
LEMMA ReturnedIsOver ==
  ASSUME CallInv, NEW r \in Run, RootOk(r)
  PROVE  /\ \A i \in Invocation : i[1] = r => ~Active(i) /\ (pc[i] = "idle" \/ result[i] = "ok")
         /\ \A i \in Invocation : i[1] = r /\ pc[i] # "idle" => result[i] = "ok" /\ AllCalled(i)
<1> DEFINE S == {s \in Sites : pc[<<r, s>>] = "idle" \/ result[<<r, s>>] = "ok"}
<1>1. Root \in S
  BY AgentRunAssumption DEF RootOk
<1>2. ASSUME NEW s \in S, NEW t \in ToSet(Kids[s]) PROVE t \in S
  <2>1. s \in Sites /\ t \in Sites
    BY RunTree
  <2>2. <<r, s>> \in Invocation /\ <<r, t>> \in Invocation /\ <<r, t>> \in Below(<<r, s>>)
    BY <2>1 DEF Invocation, Below
  <2>3. pc[<<r, s>>] = "idle" => pc[<<r, t>>] = "idle"
    BY <2>2 DEF CallInv, Kept
  <2>4. result[<<r, s>>] = "ok" => ~Active(<<r, t>>) /\ result[<<r, t>>] # "error"
    BY <2>2 DEF CallInv, Kept, CallType
  <2>5. ~Active(<<r, t>>) /\ result[<<r, t>>] # "error" => pc[<<r, t>>] = "idle" \/ result[<<r, t>>] = "ok"
    BY <2>2 DEF CallInv, CallType, Active
  <2>6. QED
    BY <2>1, <2>3, <2>4, <2>5
<1>3. S \in SUBSET Sites /\ \A s \in S : ToSet(Kids[s]) \subseteq S
  BY <1>2
<1>4. S = Sites
  BY <1>1, <1>3, AgentRunAssumption
<1>5. ASSUME NEW i \in Invocation, i[1] = r
      PROVE  pc[i] = "idle" \/ result[i] = "ok"
  BY <1>4, <1>5, RunFamilies
<1>6. \A i \in Invocation : result[i] = "ok" => pc[i] = "done" /\ AllCalled(i)
  BY DEF CallInv, CallType, Progress
<1>7. QED
  BY <1>5, <1>6 DEF Active

-----------------------------------------------------------------------------
(* What has ended stays as it ended *)

LEMMA ResultsStay ==
  ASSUME CallInv, NEW i \in Current, Step(i)
  PROVE  /\ i \in Invocation /\ Active(i) /\ result[i] = "none"
         /\ run' = run /\ \A j \in Invocation : j # i => result'[j] = result[j]
         /\ \A j \in Invocation : pc[j] = "done" => pc'[j] = "done" /\ result'[j] = result[j]
<1>1. i \in Invocation /\ Active(i) /\ result[i] = "none"
  BY DEF Current, Active, CallInv, CallType
<1>2. ASSUME NEW k \in Below(i), HandsOn(i, k)
      PROVE  run' = run /\ result' = result /\ \A j \in Invocation : pc[j] = "done" => pc'[j] = "done"
  BY <1>2 DEF HandsOn, CallInv, CallType
<1>3. ASSUME NEW how \in {"ok", "error"}, Ends(i, how)
      PROVE  /\ run' = run /\ pc'[i] = "done"
             /\ \A j \in Invocation : j # i => pc'[j] = pc[j] /\ result'[j] = result[j]
  BY <1>1, <1>3, AwaitedEnds DEF Ends
<1>4. ASSUME Start(i)
      PROVE  run' = run /\ result' = result /\ \A j \in Invocation : pc[j] = "done" => pc'[j] = "done"
  <2>1. /\ run' = run /\ result' = result
        /\ \A j \in Invocation : j # i /\ j \notin Below(i) => pc'[j] = pc[j]
        /\ pc[i] \in {"next", "task"}
    BY <1>1, <1>4, StartsAs
  <2>2. \A k \in Below(i) : pc[k] = "idle"
    BY <1>1, <2>1, KidsIdle
  <2>3. QED
    BY <2>1, <2>2
<1>5. Start(i) \/ (\E k \in Below(i) : HandsOn(i, k)) \/ \E how \in {"ok", "error"} : Ends(i, how)
  BY <1>1, StepIs
<1>6. CASE Start(i)
  BY <1>1, <1>4, <1>6
<1>7. CASE \E k \in Below(i) : HandsOn(i, k)
  BY <1>1, <1>2, <1>7
<1>8. CASE \E how \in {"ok", "error"} : Ends(i, how)
  BY <1>1, <1>3, <1>8 DEF Active
<1>9. QED
  BY <1>5, <1>6, <1>7, <1>8

-----------------------------------------------------------------------------
(* The tape holds invocations that have started, and strays of failed runs only *)

TapeType ==
  /\ tape \in Seq(Invocation) /\ IsInjective(tape)
  /\ output \in [Invocation -> Invocation \cup {None}]
  /\ pending \in [Paths -> Seq(Invocation)]
  /\ \A i \in ToSet(tape) : pc[i] \in {"open", "done"}
  /\ OnlyFailedRunsStray

LEMMA TapeTypeStart == Init => TapeType
<1> SUFFICES ASSUME Init PROVE TapeType
  OBVIOUS
<1> USE DEF Init
<1>1. tape = <<>> /\ tape \in Seq(Invocation) /\ ToSet(tape) = {}
  BY ToSetEmpty
<1>2. IsInjective(tape)
  BY <1>1 DEF IsInjective
<1>3. QED
  BY <1>1, <1>2 DEF TapeType, OnlyFailedRunsStray

LEMMA PendingOf ==
  ASSUME TapeType, NEW i \in Invocation, ~NothingPending(i)
  PROVE  /\ pending[Path[i[2]]] \in Seq(Invocation) /\ pending[Path[i[2]]] # <<>>
         /\ Popped(i) \in Invocation /\ Front(pending[Path[i[2]]]) \in Seq(Invocation)
         /\ Path[i[2]] \in Paths
<1>1. Path[i[2]] \in Paths
  BY RunFamilies DEF Paths
<1>2. pending[Path[i[2]]] \in Seq(Invocation) /\ pending[Path[i[2]]] # <<>>
  BY <1>1 DEF TapeType, NothingPending
<1>3. QED
  BY <1>1, <1>2 DEF Popped, Last, Front

LEMMA TapeTypeStep ==
  ASSUME CallInv, TapeType, NEW i \in Current, Step(i)
  PROVE  TapeType'
<1>1. /\ i \in Invocation /\ Active(i) /\ run' = run
      /\ \A j \in Invocation : pc[j] = "done" => pc'[j] = "done" /\ result'[j] = result[j]
  BY ResultsStay
<1>2. /\ tape \in Seq(Invocation) /\ IsInjective(tape) /\ ToSet(tape) \subseteq Invocation
      /\ DOMAIN tape = 1 .. Len(tape)
  BY ToSetWithin DEF TapeType
<1>3. \A j \in ToSet(tape) : j[1] \in Run /\ j[1] # run => result'[<<j[1], Root>>] = "error"
  <2>1. ASSUME NEW j \in ToSet(tape), j[1] \in Run, j[1] # run PROVE result'[<<j[1], Root>>] = "error"
    <3>1. <<j[1], Root>> \in Invocation /\ result[<<j[1], Root>>] = "error"
      BY <2>1, RunFamilies DEF TapeType, OnlyFailedRunsStray
    <3>2. pc[<<j[1], Root>>] = "done"
      BY <3>1 DEF CallInv, CallType
    <3>3. QED
      BY <1>1, <3>1, <3>2
  <2>2. QED
    BY <2>1
<1>4. ASSUME ToSet(tape') \subseteq ToSet(tape) \cup {i},
             i \in ToSet(tape') => pc'[i] \in {"open", "done"},
             \A j \in ToSet(tape) : pc'[j] \in {"open", "done"}
      PROVE  OnlyFailedRunsStray' /\ \A j \in ToSet(tape') : pc'[j] \in {"open", "done"}
  <2>1. ASSUME NEW j \in ToSet(tape'), j[1] # run PROVE result'[<<j[1], Root>>] = "error"
    <3>1. CASE j \in ToSet(tape)
      <4>1. j[1] \in Run
        BY <1>2, <3>1, RunFamilies
      <4>2. QED
        BY <1>3, <2>1, <3>1, <4>1
    <3>2. CASE j = i
      <4>1. i[1] \in Run /\ run \in Nat /\ ~(i[1] > run) /\ i[1] < run
        <5>1. pc[i] # "idle" /\ i[1] # run
          BY <1>1, <2>1, <3>2 DEF Active
        <5>2. ~(i[1] > run)
          BY <1>1, <5>1 DEF CallInv, OneRun
        <5>3. i[1] \in Run /\ run \in Nat
          BY <1>1, RunFamilies, AgentRunAssumption DEF CallInv, CallType
        <5>4. i[1] \in Nat
          BY <5>3, AgentRunAssumption DEF Run
        <5>5. QED
          BY <5>1, <5>2, <5>3, <5>4
      <4>2. <<i[1], Root>> \in Invocation /\ IsRoot(<<i[1], Root>>) /\ <<i[1], Root>>[1] = i[1]
        BY <4>1, RunFamilies
      <4>3. pc[<<i[1], Root>>] = "done"
        BY <4>1, <4>2 DEF CallInv, OneRun
      <4>4. result[<<i[1], Root>>] # "ok"
        BY <1>1, <4>1, ReturnedIsOver DEF RootOk
      <4>5. result[<<i[1], Root>>] = "error"
        BY <4>2, <4>3, <4>4 DEF CallInv, CallType
      <4>6. QED
        BY <1>1, <3>2, <4>2, <4>3, <4>5
    <3>3. QED
      BY <1>4, <3>1, <3>2
  <2>2. QED
    BY <1>1, <1>4, <2>1 DEF OnlyFailedRunsStray
<1>5. CASE Start(i)
  <2>1. tape' = Append(tape, i) /\ pending' = [pending EXCEPT ![Path[i[2]]] = Append(pending[Path[i[2]]], i)] /\ output' = output
    BY <1>5 DEF Start, TapeStart, Opened
  <2>2. /\ pc[i] \in {"next", "task"} /\ pc'[i] = "open"
        /\ \A j \in Invocation : j # i /\ j \notin Below(i) => pc'[j] = pc[j]
        /\ \A k \in Below(i) : pc[k] = "idle"
    BY <1>1, <1>5, StartsAs, KidsIdle
  <2>3. i \notin ToSet(tape) /\ \A j \in ToSet(tape) : pc'[j] \in {"open", "done"}
    BY <1>2, <2>2 DEF TapeType
  <2>4. tape' \in Seq(Invocation) /\ IsInjective(tape') /\ ToSet(tape') = ToSet(tape) \cup {i}
    BY <1>1, <1>2, <2>1, <2>3, AppendNewcomer, ToSetAppend
  <2>5. pending' \in [Paths -> Seq(Invocation)]
    <3>1. Path[i[2]] \in Paths /\ pending[Path[i[2]]] \in Seq(Invocation)
      BY <1>1, RunFamilies DEF Paths, TapeType
    <3>2. Append(pending[Path[i[2]]], i) \in Seq(Invocation)
      BY <1>1, <3>1
    <3>3. QED
      BY <2>1, <3>1, <3>2 DEF TapeType
  <2>6. QED
    BY <1>4, <2>1, <2>2, <2>3, <2>4, <2>5 DEF TapeType
<1>6. ASSUME NEW k \in Below(i), HandsOn(i, k) PROVE TapeType'
  <2>1. tape' = tape /\ pending' = pending /\ output' = output /\ pc' = [pc EXCEPT ![k] = "next"] /\ pc[k] = "idle"
    BY <1>6 DEF HandsOn, taping
  <2>2. \A j \in ToSet(tape) : pc'[j] \in {"open", "done"}
    <3>1. \A j \in ToSet(tape) : j # k
      BY <2>1 DEF TapeType
    <3>2. QED
      BY <1>2, <2>1, <3>1 DEF TapeType, CallInv, CallType
  <2>3. QED
    BY <1>4, <2>1, <2>2 DEF TapeType
<1>7. ASSUME NEW how \in {"ok", "error"}, Ends(i, how) PROVE TapeType'
  <2>1. pc'[i] = "done" /\ \A j \in Invocation : j # i => pc'[j] = pc[j]
    BY <1>1, <1>7, AwaitedEnds DEF Ends
  <2>2. \A j \in ToSet(tape) : pc'[j] \in {"open", "done"}
    BY <1>2, <2>1 DEF TapeType
  <2>3. CASE UNCHANGED taping
    <3>1. tape' = tape /\ output' = output /\ pending' = pending
      BY <2>3 DEF taping
    <3>2. QED
      BY <1>4, <2>1, <2>2, <3>1 DEF TapeType
  <2>4. CASE /\ ~NothingPending(i) /\ PopPending(i)
              /\ \/ tape' = tape /\ output' = [output EXCEPT ![Popped(i)] = i]
                 \/ tape' = RemoveFirst(tape, Popped(i)) /\ output' = output
    <3>1. Popped(i) \in Invocation /\ pending' \in [Paths -> Seq(Invocation)]
      BY <1>1, <2>4, PendingOf DEF TapeType, PopPending
    <3>2. CASE tape' = tape /\ output' = [output EXCEPT ![Popped(i)] = i]
      <4>1. output' \in [Invocation -> Invocation \cup {None}]
        BY <1>1, <3>1, <3>2 DEF TapeType
      <4>2. QED
        BY <1>2, <1>4, <2>1, <2>2, <3>1, <3>2, <4>1 DEF TapeType
    <3>3. CASE tape' = RemoveFirst(tape, Popped(i)) /\ output' = output
      <4>1. /\ tape' \in Seq(Invocation) /\ IsInjective(tape')
            /\ \A n \in 1 .. Len(tape') : \E m \in 1 .. Len(tape) : tape'[n] = tape[m]
        BY <1>2, <3>1, <3>3, RemoveFirstFromDistinct
      <4>2. ToSet(tape') \subseteq ToSet(tape)
        <5>1. DOMAIN tape' = 1 .. Len(tape')
          BY <4>1
        <5>2. QED
          BY <1>2, <4>1, <5>1 DEF ToSet
      <4>3. QED
        BY <1>4, <2>1, <2>2, <3>1, <3>3, <4>1, <4>2 DEF TapeType
    <3>4. QED
      BY <2>4, <3>2, <3>3
  <2>5. QED
    BY <1>7, <2>3, <2>4 DEF Ends, TapeEnd, TapeError
<1>8. QED
  BY <1>1, <1>5, <1>6, <1>7, StepIs

LEMMA TapeTypeNext == CallInv /\ TapeType /\ [Next]_vars => TapeType'
<1> SUFFICES ASSUME CallInv, TapeType, [Next]_vars PROVE TapeType'
  OBVIOUS
<1>1. CASE Begin
  <2>1. tape' = <<>> /\ output' = [i \in Invocation |-> None] /\ pending' = [p \in Paths |-> <<>>]
    BY <1>1 DEF Begin
  <2>2. tape' \in Seq(Invocation) /\ ToSet(tape') = {} /\ IsInjective(tape')
    BY <2>1, ToSetEmpty DEF IsInjective
  <2>3. QED
    BY <2>1, <2>2 DEF TapeType, OnlyFailedRunsStray
<1>2. CASE Cancel \/ UNCHANGED vars
  <2>1. pc' = pc /\ run' = run /\ result' = result /\ tape' = tape /\ output' = output /\ pending' = pending
    BY <1>2 DEF Cancel, vars, taping
  <2>2. QED
    BY <2>1 DEF TapeType, OnlyFailedRunsStray
<1>3. QED
  BY <1>1, <1>2, TapeTypeStep DEF Next

-----------------------------------------------------------------------------
(* The trace of a run has each of its ended invocations once *)

\* The steps q tell of invocations of run r that have ended, each once and as it ended,
\* and of all that have returned.
Tells(q, r, res) ==
  /\ q \in Seq(TraceSteps)
  /\ \A n \in 1 .. Len(q) : /\ q[n].of \in Invocation /\ q[n].of[1] = r /\ res[q[n].of] # "none"
                            /\ q[n].ok <=> res[q[n].of] = "ok"
  /\ \A n, m \in 1 .. Len(q) : q[n].of = q[m].of => n = m
  /\ \A i \in Invocation : i[1] = r /\ res[i] = "ok" => \E n \in 1 .. Len(q) : q[n].of = i

TraceInv ==
  /\ partial \in [Run -> Seq(TraceSteps)]
  /\ traces \in [Run -> Seq(TraceSteps) \cup {None}]
  /\ \A r \in Run : result[<<r, Root>>] = "none" => Tells(partial[r], r, result)
  /\ \A r \in Run : RootOk(r) => Tells(traces[r], r, result)

LEMMA TraceStart == Init => TraceInv
<1> SUFFICES ASSUME Init PROVE TraceInv
  OBVIOUS
<1>1. partial \in [Run -> Seq(TraceSteps)] /\ traces \in [Run -> Seq(TraceSteps) \cup {None}]
  BY DEF Init
<1>2. \A r \in Run : <<r, Root>> \in Invocation /\ \A i \in Invocation : result[i] = "none"
  BY RunFamilies DEF Init
<1>3. ASSUME NEW r \in Run PROVE Tells(partial[r], r, result)
  <2>1. partial[r] = <<>> /\ partial[r] \in Seq(TraceSteps) /\ Len(partial[r]) = 0
    BY DEF Init
  <2>2. QED
    <3> DEFINE q == partial[r]
    <3>1. q \in Seq(TraceSteps) /\ \A n \in 1 .. Len(q) : FALSE
      BY <2>1
    <3>2. \A i \in Invocation : result[i] # "ok"
      BY <1>2
    <3> HIDE DEF q
    <3>3. Tells(q, r, result)
      BY <3>1, <3>2 DEF Tells
    <3>4. QED
      BY <3>3 DEF q
<1>4. QED
  BY <1>1, <1>2, <1>3 DEF TraceInv, RootOk

\* What is told stays told while invocations of other runs end, or others fail that
\* are not told of.
LEMMA StillTells ==
  ASSUME NEW q, NEW r \in Run, Tells(q, r, result),
         \A j \in Invocation : j[1] = r /\ result'[j] # result[j] => result[j] = "none" /\ result'[j] = "error"
  PROVE  Tells(q, r, result')
<1>1. \A n \in 1 .. Len(q) : q[n].of \in Invocation /\ q[n].of[1] = r /\ result[q[n].of] # "none"
  BY DEF Tells
<1>2. \A n \in 1 .. Len(q) : result'[q[n].of] = result[q[n].of]
  BY <1>1
<1>3. QED
  BY <1>1, <1>2 DEF Tells

LEMMA TellsOneMore ==
  ASSUME NEW q, NEW i \in Invocation, Tells(q, i[1], result), result[i] = "none",
         NEW how \in {"ok", "error"}, result'[i] = how,
         \A j \in Invocation : j # i => result'[j] = result[j],
         NEW ok \in BOOLEAN, ok <=> how = "ok"
  PROVE  Tells(Append(q, [of |-> i, ok |-> ok]), i[1], result')
<1> DEFINE e == [of |-> i, ok |-> ok]
           t == Append(q, e)
<1>1. q \in Seq(TraceSteps) /\ e \in TraceSteps
  BY DEF Tells, TraceSteps
<1>2. /\ t \in Seq(TraceSteps) /\ Len(t) = Len(q) + 1 /\ t[Len(q) + 1] = e /\ Len(q) \in Nat
      /\ \A n \in 1 .. Len(q) : t[n] = q[n]
  BY <1>1
<1>3. e.of = i /\ e.ok = ok
  OBVIOUS
<1>4. \A n \in 1 .. Len(t) : n \in 1 .. Len(q) \/ n = Len(q) + 1
  BY <1>2
<1>5. /\ \A n \in 1 .. Len(q) : /\ q[n].of \in Invocation /\ q[n].of[1] = i[1] /\ result[q[n].of] # "none"
                                /\ q[n].ok <=> result[q[n].of] = "ok"
      /\ \A n, m \in 1 .. Len(q) : q[n].of = q[m].of => n = m
      /\ \A j \in Invocation : j[1] = i[1] /\ result[j] = "ok" => \E n \in 1 .. Len(q) : q[n].of = j
  BY DEF Tells
<1>6. \A n \in 1 .. Len(q) : q[n].of # i /\ result'[q[n].of] = result[q[n].of]
  BY <1>5
<1> HIDE DEF t, e
<1>7. \A n \in 1 .. Len(t) : /\ t[n].of \in Invocation /\ t[n].of[1] = i[1] /\ result'[t[n].of] # "none"
                             /\ t[n].ok <=> result'[t[n].of] = "ok"
  BY <1>2, <1>3, <1>4, <1>5, <1>6
<1>8. \A n, m \in 1 .. Len(t) : t[n].of = t[m].of => n = m
  BY <1>2, <1>3, <1>4, <1>5, <1>6
<1>9. ASSUME NEW j \in Invocation, j[1] = i[1], result'[j] = "ok" PROVE \E n \in 1 .. Len(t) : t[n].of = j
  <2>1. CASE j = i
    <3>1. Len(q) + 1 \in 1 .. Len(t) /\ t[Len(q) + 1].of = i
      BY <1>2, <1>3
    <3>2. QED
      BY <2>1, <3>1
  <2>2. CASE j # i
    <3>1. PICK n \in 1 .. Len(q) : q[n].of = j
      BY <1>5, <1>9, <2>2
    <3>2. n \in 1 .. Len(t) /\ t[n].of = j
      BY <1>2, <3>1
    <3>3. QED
      BY <3>2
  <2>3. QED
    BY <2>1, <2>2
<1>10. Tells(t, i[1], result')
  BY <1>2, <1>7, <1>8, <1>9 DEF Tells, Invocation
<1>11. QED
  BY <1>10 DEF t, e

LEMMA TraceOfStep ==
  ASSUME CallInv, TraceInv, NEW i \in Current, Step(i)
  PROVE  TraceInv'
<1>1. /\ i \in Invocation /\ Active(i) /\ result[i] = "none" /\ run' = run /\ i[1] \in Run
      /\ \A j \in Invocation : j # i => result'[j] = result[j]
  BY ResultsStay, RunFamilies
<1>2. ~RootOk(i[1])
  BY <1>1, ReturnedIsOver
<1>3. \A r \in Run : <<r, Root>> \in Invocation /\ IsRoot(<<r, Root>>) /\ <<r, Root>>[1] = r
  BY RunFamilies
<1>4. ASSUME tracing' = tracing, result'[i] \in {"none", "error"}
      PROVE  TraceInv'
  <2>1. partial' = partial /\ traces' = traces
    BY <1>4 DEF tracing
  <2>2. \A r \in Run : \A q : Tells(q, r, result) => Tells(q, r, result')
    <3>1. \A j \in Invocation : result'[j] # result[j] => result[j] = "none" /\ result'[j] = "error"
      BY <1>1, <1>4
    <3>2. QED
      BY <3>1, StillTells
  <2>3. \A r \in Run : result'[<<r, Root>>] = "none" => result[<<r, Root>>] = "none"
    BY <1>1, <1>3
  <2>4. \A r \in Run : RootOk(r)' => RootOk(r)
    BY <1>1, <1>3, <1>4 DEF RootOk
  <2>5. ASSUME NEW r \in Run, result'[<<r, Root>>] = "none" PROVE Tells(partial[r], r, result')
    BY <2>2, <2>3, <2>5 DEF TraceInv
  <2>6. ASSUME NEW r \in Run, RootOk(r)' PROVE Tells(traces[r], r, result')
    BY <2>2, <2>4, <2>6 DEF TraceInv
  <2>7. QED
    BY <2>1, <2>5, <2>6 DEF TraceInv
<1>5. ASSUME NEW how \in {"ok", "error"}, NEW ok \in BOOLEAN, ok <=> how = "ok", result'[i] = how, TraceStep(i, ok)
      PROVE  TraceInv'
  <2> DEFINE steps == Append(partial[i[1]], [of |-> i, ok |-> ok])
  <2>1. /\ partial' = [partial EXCEPT ![i[1]] = IF IsRoot(i) THEN <<>> ELSE steps]
        /\ traces' = IF IsRoot(i) THEN [traces EXCEPT ![i[1]] = steps] ELSE traces
    BY <1>5 DEF TraceStep
  <2>2. steps \in Seq(TraceSteps)
    <3>1. [of |-> i, ok |-> ok] \in TraceSteps
      BY <1>1 DEF TraceSteps
    <3>2. partial[i[1]] \in Seq(TraceSteps)
      BY <1>1 DEF TraceInv
    <3>3. QED
      BY <3>1, <3>2
  <2>3. result[<<i[1], Root>>] = "none" => Tells(steps, i[1], result')
    <3>1. SUFFICES ASSUME result[<<i[1], Root>>] = "none" PROVE Tells(steps, i[1], result')
      OBVIOUS
    <3>2. Tells(partial[i[1]], i[1], result)
      BY <1>1, <3>1 DEF TraceInv
    <3>3. QED
      BY <1>1, <1>5, <3>2, TellsOneMore
  <2> HIDE DEF steps
  <2>4. partial' \in [Run -> Seq(TraceSteps)] /\ traces' \in [Run -> Seq(TraceSteps) \cup {None}]
    BY <1>1, <2>1, <2>2 DEF TraceInv
  <2>5. \A r \in Run : r # i[1] => partial'[r] = partial[r] /\ traces'[r] = traces[r]
    BY <1>1, <2>1 DEF TraceInv
  <2>6. ASSUME NEW r \in Run, r # i[1]
        PROVE  /\ result'[<<r, Root>>] = result[<<r, Root>>]
               /\ \A q : Tells(q, r, result) => Tells(q, r, result')
    <3>1. \A j \in Invocation : j[1] = r => result'[j] = result[j]
      BY <1>1, <2>6
    <3>2. QED
      BY <1>3, <3>1, StillTells
  <2>7. ASSUME NEW r \in Run, result'[<<r, Root>>] = "none" PROVE Tells(partial'[r], r, result')
    <3>1. CASE r # i[1]
      BY <2>5, <2>6, <2>7, <3>1 DEF TraceInv
    <3>2. CASE r = i[1]
      <4>1. ~IsRoot(i)
        <5>1. IsRoot(i) => i = <<i[1], Root>>
          BY <1>1, RunFamilies
        <5>2. QED
          BY <1>5, <2>7, <3>2, <5>1
      <4>2. partial'[r] = steps
        BY <1>1, <2>1, <3>2, <4>1 DEF TraceInv
      <4>3. result[<<i[1], Root>>] = "none"
        BY <1>1, <1>3, <2>7, <3>2, <4>1
      <4>4. QED
        BY <2>3, <3>2, <4>2, <4>3
    <3>3. QED
      BY <3>1, <3>2
  <2>8. ASSUME NEW r \in Run, RootOk(r)' PROVE Tells(traces'[r], r, result')
    <3>1. CASE r # i[1]
      BY <2>5, <2>6, <2>8, <3>1 DEF TraceInv, RootOk
    <3>2. CASE r = i[1]
      <4>1. IsRoot(i) /\ i = <<i[1], Root>>
        BY <1>1, <1>2, <1>3, <2>8, <3>2, RunFamilies DEF RootOk
      <4>2. traces'[r] = steps
        BY <1>1, <2>1, <3>2, <4>1 DEF TraceInv
      <4>3. QED
        BY <1>1, <2>3, <3>2, <4>1, <4>2
    <3>3. QED
      BY <3>1, <3>2
  <2>9. QED
    BY <2>4, <2>7, <2>8 DEF TraceInv
<1>6. CASE Start(i)
  <2>1. result' = result /\ tracing' = tracing
    BY <1>6 DEF Start
  <2>2. QED
    BY <1>1, <1>4, <2>1
<1>7. ASSUME NEW k \in Below(i), HandsOn(i, k) PROVE TraceInv'
  <2>1. result' = result /\ tracing' = tracing
    BY <1>7 DEF HandsOn
  <2>2. QED
    BY <1>1, <1>4, <2>1
<1>8. ASSUME NEW how \in {"ok", "error"}, Ends(i, how) PROVE TraceInv'
  <2>1. result'[i] = how
    BY <1>1, <1>8, AwaitedEnds DEF Ends
  <2>2. QED
    BY <1>4, <1>5, <1>8, <2>1 DEF Ends
<1>9. QED
  BY <1>1, <1>6, <1>7, <1>8, StepIs

LEMMA TraceNext == CallInv /\ TraceInv /\ [Next]_vars => TraceInv'
<1> SUFFICES ASSUME CallInv, TraceInv, [Next]_vars PROVE TraceInv'
  OBVIOUS
<1>1. CASE Begin \/ Cancel \/ UNCHANGED vars
  <2>1. partial' = partial /\ traces' = traces /\ result' = result
    BY <1>1 DEF Begin, Cancel, vars, tracing
  <2>2. QED
    BY <2>1 DEF TraceInv, Tells, RootOk
<1>2. QED
  BY <1>1, TraceOfStep DEF Next

LEMMA TwoElements ==
  ASSUME NEW a, NEW b, a # b
  PROVE  IsFiniteSet({a, b}) /\ Cardinality({a, b}) = 2
<1>1. IsFiniteSet({a}) /\ Cardinality({a}) = 1
  BY FS_Singleton
<1>2. IsFiniteSet({a} \cup {b}) /\ Cardinality({a} \cup {b}) = Cardinality({a}) + 1
  BY <1>1, FS_AddElement
<1>3. {a, b} = {a} \cup {b}
  OBVIOUS
<1>4. QED
  BY <1>1, <1>2, <1>3

\* AllCalled(i), said of the sites of a run.
LEMMA ReturnedRanAll ==
  ASSUME CallInv, NEW r \in Run, RootOk(r)
  PROVE  AllRan(r)
<1> SUFFICES ASSUME NEW s \in Ran(r)
             PROVE  IF s \in Routers
                    THEN Kids[s][1] \in Ran(r) /\ Cardinality(ToSet(Kids[s]) \cap Ran(r)) = 2
                    ELSE ToSet(Kids[s]) \subseteq Ran(r)
  BY DEF AllRan
<1> DEFINE i == <<r, s>>
<1>1. s \in Sites /\ i \in Invocation /\ i[1] = r /\ i[2] = s /\ pc[i] # "idle"
  BY DEF Ran, Invocation
<1>2. AllCalled(i)
  BY <1>1, ReturnedIsOver
<1>3. ToSet(Kids[s]) \subseteq Sites
  BY <1>1, RunTree
<1>4. \A t \in ToSet(Kids[s]) : t \in Ran(r) <=> <<r, t>> \in Called(i)
  BY <1>1, <1>3 DEF Called, Below, Ran
<1>5. \A k \in Called(i) : \E t \in ToSet(Kids[s]) : k = <<r, t>>
  BY <1>1 DEF Called, Below
<1>6. CASE s \notin Routers
  <2>1. Called(i) = Below(i)
    BY <1>1, <1>2, <1>6 DEF AllCalled
  <2>2. \A t \in ToSet(Kids[s]) : <<r, t>> \in Called(i)
    BY <1>1, <2>1 DEF Below
  <2>3. QED
    BY <1>4, <1>6, <2>2
<1>7. CASE s \in Routers
  <2>1. PICK k \in Called(i) \ {Kid(i, 1)} : Called(i) = {Kid(i, 1), k}
    BY <1>1, <1>2, <1>7 DEF AllCalled
  <2>2. Kid(i, 1) = <<r, Kids[s][1]>>
    BY <1>1 DEF Kid
  <2>3. PICK t \in ToSet(Kids[s]) : k = <<r, t>>
    BY <1>5, <2>1
  <2>4. Kids[s][1] \in ToSet(Kids[s])
    <3>1. Kid(i, 1) \in Called(i)
      BY <2>1
    <3>2. PICK u \in ToSet(Kids[s]) : Kid(i, 1) = <<r, u>>
      BY <1>5, <3>1
    <3>3. QED
      BY <2>2, <3>2
  <2>5. t # Kids[s][1]
    BY <2>1, <2>2, <2>3
  <2>6. ToSet(Kids[s]) \cap Ran(r) = {Kids[s][1], t}
    <3>1. \A u \in ToSet(Kids[s]) : u \in Ran(r) <=> u = Kids[s][1] \/ u = t
      <4>1. \A u \in ToSet(Kids[s]) : <<r, u>> \in Called(i) <=> <<r, u>> = <<r, Kids[s][1]>> \/ <<r, u>> = <<r, t>>
        BY <2>1, <2>2, <2>3
      <4>2. QED
        BY <1>4, <4>1
    <3>2. QED
      BY <2>3, <2>4, <3>1
  <2>7. Cardinality(ToSet(Kids[s]) \cap Ran(r)) = 2
    <3>1. Cardinality({Kids[s][1], t}) = 2
      BY <2>5, TwoElements
    <3>2. QED
      BY <2>6, <3>1
  <2>8. QED
    BY <1>7, <2>4, <2>6, <2>7
<1>8. QED
  BY <1>6, <1>7

LEMMA TraceIsWhole == CallInv /\ TraceInv => WholeTrace
<1> SUFFICES ASSUME CallInv, TraceInv, NEW r \in Run, RootOk(r)
             PROVE  /\ AllRan(r) /\ traces[r] # None /\ Len(traces[r]) = Cardinality(Ran(r))
                    /\ ToSet(traces[r]) = {[of |-> <<r, s>>, ok |-> TRUE] : s \in Ran(r)}
  BY DEF WholeTrace
<1> DEFINE q == traces[r]
<1>1. Tells(q, r, result)
  BY DEF TraceInv
<1>2. q \in Seq(TraceSteps) /\ Len(q) \in Nat /\ DOMAIN q = 1 .. Len(q) /\ q # None
  BY <1>1, NoneAssumption DEF Tells
<1> HIDE DEF q
<1>3. \A n \in 1 .. Len(q) : q[n] \in TraceSteps /\ q[n] = [of |-> q[n].of, ok |-> q[n].ok]
  <2>1. \A n \in 1 .. Len(q) : q[n] \in TraceSteps
    BY <1>2
  <2>2. \A e \in TraceSteps : e = [of |-> e.of, ok |-> e.ok]
    BY DEF TraceSteps
  <2>3. QED
    BY <2>1, <2>2
<1>4. \A i \in Invocation : i[1] = r => (pc[i] # "idle" <=> result[i] = "ok") /\ (result[i] # "none" => result[i] = "ok")
  BY ReturnedIsOver DEF CallInv, CallType
<1>5. ASSUME NEW n \in 1 .. Len(q)
      PROVE  q[n].of[2] \in Ran(r) /\ q[n].of = <<r, q[n].of[2]>> /\ q[n].ok = TRUE
  <2>1. q[n].of \in Invocation /\ q[n].of[1] = r /\ result[q[n].of] = "ok" /\ q[n].ok
    BY <1>1, <1>4 DEF Tells
  <2>2. q[n].of = <<r, q[n].of[2]>> /\ q[n].of[2] \in Sites /\ pc[q[n].of] # "idle"
    BY <1>4, <2>1, RunFamilies
  <2>3. q[n].ok = TRUE
    BY <1>3, <2>1 DEF TraceSteps
  <2>4. QED
    BY <2>2, <2>3 DEF Ran
<1>6. ASSUME NEW s \in Ran(r)
      PROVE  \E n \in 1 .. Len(q) : q[n].of = <<r, s>>
  <2>1. <<r, s>> \in Invocation /\ <<r, s>>[1] = r /\ pc[<<r, s>>] # "idle"
    BY DEF Ran, Invocation
  <2>2. result[<<r, s>>] = "ok"
    BY <1>4, <2>1
  <2>3. QED
    BY <1>1, <2>1, <2>2 DEF Tells
<1>7. ToSet(q) = {[of |-> <<r, s>>, ok |-> TRUE] : s \in Ran(r)}
  <2>1. ASSUME NEW n \in 1 .. Len(q) PROVE q[n] \in {[of |-> <<r, s>>, ok |-> TRUE] : s \in Ran(r)}
    <3>1. q[n] = [of |-> <<r, q[n].of[2]>>, ok |-> TRUE] /\ q[n].of[2] \in Ran(r)
      BY <1>3, <1>5
    <3>2. QED
      BY <3>1
  <2>2. ASSUME NEW s \in Ran(r) PROVE [of |-> <<r, s>>, ok |-> TRUE] \in ToSet(q)
    <3>1. PICK n \in 1 .. Len(q) : q[n].of = <<r, s>>
      BY <1>6
    <3>2. q[n] = [of |-> <<r, s>>, ok |-> TRUE]
      BY <1>3, <1>5, <3>1
    <3>3. QED
      BY <1>2, <3>1, <3>2 DEF ToSet
  <2>3. ToSet(q) = {q[n] : n \in 1 .. Len(q)}
    BY <1>2 DEF ToSet
  <2>4. QED
    BY <2>1, <2>2, <2>3
<1>8. Cardinality(Ran(r)) = Len(q)
  <2> DEFINE f == [n \in 1 .. Len(q) |-> q[n].of[2]]
  <2>1. f \in [1 .. Len(q) -> Ran(r)]
    BY <1>5
  <2>2. \A n, m \in 1 .. Len(q) : n # m => f[n] # f[m]
    <3>1. ASSUME NEW n \in 1 .. Len(q), NEW m \in 1 .. Len(q), f[n] = f[m] PROVE n = m
      <4>1. q[n].of = q[m].of
        BY <1>5, <3>1
      <4>2. QED
        BY <1>1, <4>1 DEF Tells
    <3>2. QED
      BY <3>1
  <2>3. \A s \in Ran(r) : \E n \in 1 .. Len(q) : f[n] = s
    <3>1. ASSUME NEW s \in Ran(r) PROVE \E n \in 1 .. Len(q) : f[n] = s
      <4>1. PICK n \in 1 .. Len(q) : q[n].of = <<r, s>>
        BY <1>6
      <4>2. f[n] = s
        BY <4>1
      <4>3. QED
        BY <4>2
    <3>2. QED
      BY <3>1
  <2> HIDE DEF f
  <2>4. ExistsBijection(1 .. Len(q), Ran(r))
    <3>1. DOMAIN f = 1 .. Len(q)
      BY <2>1
    <3>2. IsInjective(f)
      BY <2>2, <3>1 DEF IsInjective
    <3>3. QED
      BY <2>1, <2>3, <3>2 DEF ExistsBijection, Bijection, Injection, Surjection
  <2>5. QED
    BY <1>2, <2>4, FS_CountingElements
<1>9. QED
  BY <1>2, <1>7, <1>8, ReturnedRanAll DEF q

RunInv == CallInv /\ TapeType /\ TraceInv

\* The inductive invariant of the runs: who is called and by whom, what the tape may
\* hold, what each trace tells.
THEOREM RunInvariant == Spec => []RunInv
<1>1. Init => RunInv
  BY CallStart, TapeTypeStart, TraceStart DEF RunInv
<1>2. RunInv /\ [Next]_vars => RunInv'
  BY CallStep, TapeTypeNext, TraceNext DEF RunInv
<1>3. QED
  BY <1>1, <1>2, PTL DEF Spec

\* Whatever fails, is cancelled or is left behind by a gather: only a run that failed
\* leaves invocations that write into another run's tape, and the trace of a run
\* that returned has each of its invocations once.
THEOREM RunsStayApart == Spec => []RunsApart
<1>1. RunInv => RunsApart
  BY TraceIsWhole DEF RunInv, TapeType, RunsApart
<1>2. QED
  BY <1>1, RunInvariant, PTL

-----------------------------------------------------------------------------
(* The tape of a run that follows no failed one *)

\* Under way, or failed: not to be called again in its run.
Loose(i) == Active(i) \/ result[i] = "error"

\* What is under way in one run at one time has different paths, so a path finds an
\* entry.
LooseInv ==
  \A i, j \in Invocation :
    i[1] = j[1] /\ Loose(i) /\ Loose(j) /\ Path[i[2]] = Path[j[2]] => i = j

LEMMA LooseParent ==
  ASSUME CallInv, NEW j \in Invocation, Loose(j), ~IsRoot(j)
  PROVE  Up(j) \in Invocation /\ j \in Below(Up(j)) /\ Up(j)[1] = j[1] /\ Loose(Up(j))
<1>1. Up(j) \in Invocation /\ j \in Below(Up(j)) /\ Up(j)[1] = j[1]
  BY RunFamilies
<1>2. QED
  BY <1>1 DEF CallInv, Kept, Loose, Active

\* A kid that is called has the path of nothing loose.
LEMMA NewPath ==
  ASSUME CallInv, LooseInv, PathsApart, NEW i \in Invocation, Active(i),
         \A k \in Below(i) : ~Loose(k),
         NEW k \in Below(i), NEW j \in Invocation, j[1] = k[1], Path[j[2]] = Path[k[2]], j # k
  PROVE  ~Loose(j) /\ (j \in Below(i) => ~IsGather(i))
<1>1. k \in Invocation /\ ~IsRoot(k) /\ Up(k) = i /\ k[1] = i[1] /\ i[2] \in Sites
  BY RunFamilies
<1>2. /\ k[2] \in Sites /\ j[2] \in Sites /\ k[2] # j[2]
      /\ i = <<i[1], i[2]>> /\ i = <<k[1], Parent[k[2]]>>
  <2>1. k = <<k[1], k[2]>> /\ j = <<j[1], j[2]>> /\ k[2] \in Sites /\ j[2] \in Sites /\ i = <<i[1], i[2]>>
    BY <1>1, RunFamilies
  <2>2. QED
    BY <1>1, <2>1 DEF Up
<1>3. /\ Root \notin {k[2], j[2]} /\ Path[Parent[k[2]]] = Path[Parent[j[2]]]
      /\ Parent[k[2]] = Parent[j[2]] => Parent[k[2]] \notin Gathers
  BY <1>2 DEF PathsApart
<1>4. Parent[k[2]] = i[2]
  BY <1>2
<1>5. ASSUME Loose(j) PROVE FALSE
  <2>1. ~IsRoot(j)
    BY <1>3 DEF IsRoot
  <2>2. Up(j) \in Invocation /\ j \in Below(Up(j)) /\ Up(j)[1] = j[1] /\ Loose(Up(j))
    BY <1>5, <2>1, LooseParent
  <2>3. Path[Up(j)[2]] = Path[i[2]] /\ Up(j)[1] = i[1]
    BY <1>1, <1>3, <1>4, <2>2 DEF Up
  <2>4. Up(j) = i
    BY <2>2, <2>3 DEF LooseInv, Loose
  <2>5. QED
    BY <1>5, <2>2, <2>4
<1>6. ASSUME j \in Below(i) PROVE ~IsGather(i)
  <2>1. j[2] \in ToSet(Kids[i[2]])
    BY <1>6 DEF Below
  <2>2. Parent[j[2]] = i[2]
    BY <1>1, <2>1, RunTree
  <2>3. QED
    BY <1>3, <1>4, <2>2 DEF IsGather
<1>7. QED
  BY <1>5, <1>6

LEMMA LooseStep ==
  ASSUME CallInv, LooseInv, PathsApart, NEW i \in Current, Step(i)
  PROVE  LooseInv'
<1>1. i \in Invocation /\ Active(i) /\ result[i] = "none" /\ \A j \in Invocation : j # i => result'[j] = result[j]
  BY ResultsStay
<1>2. CASE Start(i)
  <2>1. /\ result' = result /\ pc[i] \in {"next", "task"}
        /\ \A j \in Invocation : j # i /\ j \notin Below(i) => pc'[j] = pc[j]
    BY <1>1, <1>2, StartsAs
  <2>2. \A k \in Below(i) : ~Loose(k)
    BY <2>1, <1>1, KidsIdle DEF Loose
  <2>3. \A j \in Invocation : Loose(j)' => Loose(j) \/ j \in Below(i)
    BY <1>1, <2>1 DEF Loose, Active
  <2>4. \A j, k \in Below(i) : Loose(j)' /\ Loose(k)' /\ j # k => IsGather(i)
    <3>1. \/ \A k \in Below(i) : IsGather(i)
          \/ \A k \in Below(i) : k # Kid(i, 1) => pc'[k] = "idle"
      BY <1>1, <1>2, StartsAs
    <3>2. \A k \in Below(i) : result'[k] = "none"
      BY <2>1, KidsIdle, <1>1
    <3>3. QED
      BY <3>1, <3>2 DEF Loose, Active
  <2>5. \A k \in Below(i) : k \in Invocation
    BY <1>1, RunFamilies
  <2>6. \A k \in Below(i), j \in Invocation : j[1] = k[1] /\ Path[j[2]] = Path[k[2]] /\ j # k =>
          ~Loose(j) /\ (j \in Below(i) => ~IsGather(i))
    BY <1>1, <2>2, NewPath
  <2>7. QED
    BY <2>3, <2>4, <2>5, <2>6 DEF LooseInv
<1>3. ASSUME NEW n \in Below(i), HandsOn(i, n) PROVE LooseInv'
  <2>1. /\ result' = result /\ turn = i /\ pc[i] = "open" /\ pc' = [pc EXCEPT ![n] = "next"]
        /\ \A k \in Below(i) : result[k] # "error"
    BY <1>3 DEF HandsOn
  <2>2. \A k \in Below(i) : ~Loose(k)
    BY <1>1, <2>1, KidsAllOver DEF Loose
  <2>3. \A j \in Invocation : Loose(j)' => Loose(j) \/ j = n
    BY <2>1 DEF Loose, Active, CallInv, CallType
  <2>4. n \in Invocation
    BY <1>1, RunFamilies
  <2>5. \A j \in Invocation : j[1] = n[1] /\ Path[j[2]] = Path[n[2]] /\ j # n => ~Loose(j)
    BY <1>1, <2>2, NewPath
  <2>6. QED
    BY <2>3, <2>4, <2>5 DEF LooseInv
<1>4. ASSUME NEW how \in {"ok", "error"}, Ends(i, how) PROVE LooseInv'
  <2>1. /\ pc'[i] = "done" /\ result'[i] = how
        /\ \A j \in Invocation : j # i => pc'[j] = pc[j] /\ result'[j] = result[j]
    BY <1>1, <1>4, AwaitedEnds DEF Ends
  <2>2. \A j \in Invocation : Loose(j)' => Loose(j)
    BY <1>1, <2>1 DEF Loose, Active
  <2>3. QED
    BY <2>2 DEF LooseInv
<1>5. QED
  BY <1>1, <1>2, <1>3, <1>4, StepIs

LEMMA LooseNext == ASSUME PathsApart PROVE CallInv /\ LooseInv /\ [Next]_vars => LooseInv'
<1> SUFFICES ASSUME CallInv, LooseInv, [Next]_vars PROVE LooseInv'
  OBVIOUS
<1>1. CASE Begin
  <2> DEFINE new == <<run + 1, Root>>
  <2>1. /\ run \in Nat /\ run + 1 \in Run /\ result' = result /\ pc' = [pc EXCEPT ![new] = "next"]
    BY <1>1, AgentRunAssumption DEF Begin, CallInv, CallType, Run
  <2>2. new \in Invocation /\ new[1] = run + 1
    BY <2>1, RunFamilies
  <2> HIDE DEF new
  <2>3. \A j \in Invocation : Loose(j)' => Loose(j) \/ j = new
    BY <2>1, <2>2 DEF Loose, Active, CallInv, CallType
  <2>4. \A j \in Invocation : j[1] = new[1] => ~Loose(j)
    <3>1. ASSUME NEW j \in Invocation, j[1] = run + 1 PROVE ~Loose(j)
      <4>1. pc[j] = "idle"
        BY <2>1, <3>1 DEF CallInv, OneRun
      <4>2. QED
        BY <4>1 DEF Loose, Active, CallInv, CallType
    <3>2. QED
      BY <2>2, <3>1
  <2>5. QED
    BY <2>3, <2>4 DEF LooseInv
<1>2. CASE Cancel \/ UNCHANGED vars
  <2>1. pc' = pc /\ result' = result
    BY <1>2 DEF Cancel, vars
  <2>2. QED
    BY <2>1 DEF LooseInv, Loose, Active
<1>3. QED
  BY <1>1, <1>2, LooseStep DEF Next

\* An entry comes after that of the invocation it is under, unless that one failed.
InOrder(q) ==
  \A n \in 1 .. Len(q) :
    \/ IsRoot(q[n])
    \/ result[Up(q[n])] = "error"
    \/ \E m \in 1 .. n - 1 : q[m] = Up(q[n])

\* The tape has what is under way and what has returned; what is under way is found
\* under its path, alone.
Recorded ==
  /\ ToSet(tape) = {i \in Invocation : i[1] = run /\ (pc[i] = "open" \/ result[i] = "ok")}
  /\ \A i \in Invocation : i[1] = run /\ pc[i] = "open" => pending[Path[i[2]]] = <<i>>
  /\ \A p \in Paths : pending[p] = <<>> \/ \E i \in Invocation : i[1] = run /\ pc[i] = "open" /\ Path[i[2]] = p
  /\ \A i \in Invocation : i[1] = run /\ result[i] = "ok" => output[i] = i
  /\ InOrder(tape)

TapeInv == Untroubled => Recorded

LEMMA UntroubledStep ==
  ASSUME CallInv, NEW i \in Current, Step(i), Untroubled'
  PROVE  Untroubled /\ i[1] = run
<1>1. /\ i \in Invocation /\ Active(i) /\ run' = run
      /\ \A j \in Invocation : pc[j] = "done" => result'[j] = result[j]
  BY ResultsStay
<1>2. run \in 0 .. Runs /\ run > 0 /\ run \in Run /\ i[1] \in Run
  BY <1>1, AgentRunAssumption, RunFamilies DEF Untroubled, CallInv, CallType, Run
<1>3. \A r \in 1 .. run - 1 : r \in Run /\ r < run
  BY <1>2, AgentRunAssumption DEF Run
<1>4. ASSUME NEW r \in 1 .. run - 1 PROVE RootOk(r)
  <2>1. <<r, Root>> \in Invocation /\ IsRoot(<<r, Root>>) /\ <<r, Root>>[1] = r
    BY <1>3, RunFamilies
  <2>2. pc[<<r, Root>>] = "done"
    BY <1>3, <2>1 DEF CallInv, OneRun
  <2>3. QED
    BY <1>1, <2>1, <2>2 DEF Untroubled, RootOk
<1>5. ~(i[1] > run)
  BY <1>1 DEF CallInv, OneRun, Active
<1>6. \A r \in 1 .. run - 1 : i[1] # r
  BY <1>1, <1>3, <1>4, ReturnedIsOver
<1>7. i[1] = run
  BY <1>2, <1>5, <1>6, AgentRunAssumption DEF Run
<1>8. QED
  BY <1>2, <1>4, <1>7 DEF Untroubled

\* Where an entry is made.
LEMMA RecordStart ==
  ASSUME CallInv, TapeType, LooseInv, Recorded, NEW i \in Current, i[1] = run, Start(i)
  PROVE  Recorded'
<1>1. /\ i \in Invocation /\ Active(i) /\ run' = run /\ result' = result
      /\ pc[i] \in {"next", "task"} /\ pc'[i] = "open" /\ result[i] = "none"
      /\ \A j \in Invocation : j # i => (pc'[j] = "open" <=> pc[j] = "open")
  <2>1. /\ i \in Invocation /\ Active(i) /\ result[i] = "none"
    BY ResultsStay DEF Step
  <2>2. /\ run' = run /\ result' = result /\ pc[i] \in {"next", "task"} /\ pc'[i] = "open"
        /\ \A j \in Invocation : j # i /\ j \notin Below(i) => pc'[j] = pc[j]
    BY <2>1, StartsAs
  <2>3. \A k \in Below(i) : pc[k] = "idle" /\ pc'[k] # "open"
    <3>1. \A k \in Below(i) : pc[k] = "idle"
      BY <2>1, <2>2, KidsIdle
    <3>2. \A k \in Below(i) : pc'[k] \in {"task", "next", "idle"}
      BY <2>1, StartsAs
    <3>3. QED
      BY <3>1, <3>2
  <2>4. QED
    BY <2>1, <2>2, <2>3
<1>2. /\ tape' = Append(tape, i) /\ output' = output
      /\ pending' = [pending EXCEPT ![Path[i[2]]] = Append(pending[Path[i[2]]], i)]
  BY DEF Start, TapeStart, Opened
<1>3. Path[i[2]] \in Paths /\ \A j \in Invocation : Path[j[2]] \in Paths
  BY <1>1, RunFamilies DEF Paths
<1>4. \A j \in Invocation : j[1] = run /\ pc[j] = "open" => Path[j[2]] # Path[i[2]]
  BY <1>1 DEF LooseInv, Loose, Active
<1>5. pending[Path[i[2]]] = <<>> /\ Append(<<>>, i) = <<i>>
  BY <1>3, <1>4 DEF Recorded
<1>6. /\ pending'[Path[i[2]]] = <<i>>
      /\ \A p \in Paths : p # Path[i[2]] => pending'[p] = pending[p]
  BY <1>2, <1>3, <1>5 DEF TapeType
<1>7. tape \in Seq(Invocation) /\ ToSet(tape') = ToSet(tape) \cup {i}
  BY <1>1, <1>2, ToSetAppend DEF TapeType
<1>8. ToSet(tape') = {j \in Invocation : j[1] = run' /\ (pc'[j] = "open" \/ result'[j] = "ok")}
  BY <1>1, <1>7 DEF Recorded
<1>9. \A j \in Invocation : j[1] = run' /\ pc'[j] = "open" => pending'[Path[j[2]]] = <<j>>
  BY <1>1, <1>3, <1>4, <1>6 DEF Recorded
<1>10. \A p \in Paths : pending'[p] = <<>> \/ \E j \in Invocation : j[1] = run' /\ pc'[j] = "open" /\ Path[j[2]] = p
  <2>1. ASSUME NEW p \in Paths, pending'[p] # <<>>
        PROVE  \E j \in Invocation : j[1] = run' /\ pc'[j] = "open" /\ Path[j[2]] = p
    <3>1. CASE p = Path[i[2]]
      BY <1>1, <3>1
    <3>2. CASE p # Path[i[2]]
      <4>1. PICK j \in Invocation : j[1] = run /\ pc[j] = "open" /\ Path[j[2]] = p
        BY <1>6, <2>1, <3>2 DEF Recorded
      <4>2. pc'[j] = "open"
        BY <1>1, <4>1
      <4>3. QED
        BY <1>1, <4>1, <4>2
    <3>3. QED
      BY <3>1, <3>2
  <2>2. QED
    BY <2>1
<1>11. \A j \in Invocation : j[1] = run' /\ result'[j] = "ok" => output'[j] = j
  BY <1>1, <1>2 DEF Recorded
<1>12. InOrder(tape)'
  <2>1. /\ Len(tape') = Len(tape) + 1 /\ Len(tape) \in Nat /\ tape'[Len(tape) + 1] = i
        /\ \A n \in 1 .. Len(tape) : tape'[n] = tape[n]
    BY <1>2, <1>7
  <2>2. ASSUME NEW n \in 1 .. Len(tape')
        PROVE  IsRoot(tape'[n]) \/ result'[Up(tape'[n])] = "error" \/ \E m \in 1 .. n - 1 : tape'[m] = Up(tape'[n])
    <3>1. CASE n \in 1 .. Len(tape)
      <4>1. IsRoot(tape[n]) \/ result[Up(tape[n])] = "error" \/ \E m \in 1 .. n - 1 : tape[m] = Up(tape[n])
        BY <3>1 DEF Recorded, InOrder
      <4>2. \A m \in 1 .. n - 1 : tape'[m] = tape[m]
        BY <2>1, <3>1
      <4>3. QED
        BY <1>1, <2>1, <3>1, <4>1, <4>2
    <3>2. CASE n = Len(tape) + 1
      <4>1. SUFFICES ASSUME ~IsRoot(i), result[Up(i)] # "error" PROVE \E m \in 1 .. Len(tape) : tape[m] = Up(i)
        BY <1>1, <2>1, <3>2
      <4>2. Up(i) \in Invocation /\ i \in Below(Up(i)) /\ Up(i)[1] = run
        BY <1>1, <4>1, RunFamilies
      <4>3. pc[Up(i)] = "open"
        BY <1>1, <4>1, <4>2 DEF CallInv, Kept
      <4>4. Up(i) \in ToSet(tape)
        BY <4>2, <4>3 DEF Recorded
      <4>5. DOMAIN tape = 1 .. Len(tape)
        BY <1>7
      <4>6. QED
        BY <4>4, <4>5 DEF ToSet
    <3>3. QED
      BY <2>1, <2>2, <3>1, <3>2
  <2>3. QED
    BY <2>2 DEF InOrder, IsRoot, Up
<1>13. QED
  BY <1>1, <1>8, <1>9, <1>10, <1>11, <1>12 DEF Recorded

\* Where an entry is closed, or taken back.
LEMMA RecordEnd ==
  ASSUME CallInv, TapeType, LooseInv, Recorded, NEW i \in Current, i[1] = run,
         NEW how \in {"ok", "error"}, Ends(i, how)
  PROVE  Recorded'
<1>1. /\ i \in Invocation /\ Active(i) /\ run' = run /\ MayEnd(i, how)
      /\ pc'[i] = "done" /\ result'[i] = how /\ pc[i] # "done" /\ result[i] = "none"
      /\ \A j \in Invocation : j # i => pc'[j] = pc[j] /\ result'[j] = result[j]
  <2>1. i \in Invocation
    BY DEF Current
  <2>2. QED
    BY <2>1, AwaitedEnds DEF Ends, MayEnd
<1>2. /\ tape \in Seq(Invocation) /\ IsInjective(tape) /\ DOMAIN tape = 1 .. Len(tape)
      /\ \A n \in 1 .. Len(tape) : tape[n] \in Invocation /\ tape[n] \in ToSet(tape)
  <2>1. tape \in Seq(Invocation) /\ IsInjective(tape)
    BY DEF TapeType
  <2>2. QED
    BY <2>1 DEF ToSet
<1>3. \A j \in Invocation : result[j] = "error" => result'[j] = "error"
  BY <1>1
<1>4. CASE pc[i] # "open"
  <2>1. how = "error" /\ tape' = tape /\ pending' = pending /\ output' = output
    BY <1>4 DEF Ends, taping
  <2>2. ToSet(tape') = {j \in Invocation : j[1] = run' /\ (pc'[j] = "open" \/ result'[j] = "ok")}
    BY <1>1, <1>4, <2>1 DEF Recorded
  <2>3. \A j \in Invocation : j[1] = run' /\ pc'[j] = "open" => pending'[Path[j[2]]] = <<j>>
    BY <1>1, <2>1 DEF Recorded
  <2>4. \A p \in Paths : pending'[p] = <<>> \/ \E j \in Invocation : j[1] = run' /\ pc'[j] = "open" /\ Path[j[2]] = p
    <3>1. \A j \in Invocation : pc[j] = "open" => pc'[j] = "open"
      BY <1>1, <1>4
    <3>2. QED
      BY <1>1, <2>1, <3>1 DEF Recorded
  <2>5. \A j \in Invocation : j[1] = run' /\ result'[j] = "ok" => output'[j] = j
    BY <1>1, <2>1 DEF Recorded
  <2>6. InOrder(tape)'
    <3>1. \A n \in 1 .. Len(tape) : ~IsRoot(tape[n]) => Up(tape[n]) \in Invocation
      BY <1>2, RunFamilies
    <3>2. QED
      BY <1>3, <2>1, <3>1 DEF Recorded, InOrder, IsRoot, Up
  <2>7. QED
    BY <2>2, <2>3, <2>4, <2>5, <2>6, Zenon DEF Recorded
<1>5. CASE pc[i] = "open"
  <2>1. /\ Path[i[2]] \in Paths /\ pending[Path[i[2]]] = <<i>> /\ ~NothingPending(i)
        /\ Popped(i) = i /\ Front(pending[Path[i[2]]]) = <<>>
    <3>1. Path[i[2]] \in Paths
      BY <1>1, RunFamilies DEF Paths
    <3>2. pending[Path[i[2]]] = <<i>>
      BY <1>1, <1>5 DEF Recorded
    <3>3. <<i>> # <<>> /\ Last(<<i>>) = i /\ Front(<<i>>) = <<>>
      BY DEF Last, Front
    <3>4. QED
      BY <3>1, <3>2, <3>3 DEF NothingPending, Popped
  <2>2. /\ pending' = [pending EXCEPT ![Path[i[2]]] = <<>>]
        /\ \/ how = "ok" /\ tape' = tape /\ output' = [output EXCEPT ![i] = i]
           \/ how = "error" /\ tape' = RemoveFirst(tape, i) /\ output' = output
    BY <1>5, <2>1 DEF Ends, TapeEnd, TapeError, PopPending
  <2>3. /\ pending'[Path[i[2]]] = <<>>
        /\ \A p \in Paths : p # Path[i[2]] => pending'[p] = pending[p]
    BY <2>1, <2>2 DEF TapeType
  <2>4. \A j \in Invocation : j # i /\ j[1] = run /\ pc[j] = "open" => Path[j[2]] # Path[i[2]]
    BY <1>1 DEF LooseInv, Loose, Active
  <2>5. \A j \in Invocation : j[1] = run' /\ pc'[j] = "open" => pending'[Path[j[2]]] = <<j>>
    <3>1. ASSUME NEW j \in Invocation, j[1] = run, pc'[j] = "open" PROVE pending'[Path[j[2]]] = <<j>>
      <4>1. j # i /\ pc[j] = "open" /\ Path[j[2]] \in Paths
        BY <1>1, <3>1, RunFamilies DEF Paths
      <4>2. QED
        BY <2>3, <2>4, <3>1, <4>1 DEF Recorded
    <3>2. QED
      BY <1>1, <3>1
  <2>6. \A p \in Paths : pending'[p] = <<>> \/ \E j \in Invocation : j[1] = run' /\ pc'[j] = "open" /\ Path[j[2]] = p
    <3>1. ASSUME NEW p \in Paths, pending'[p] # <<>>
          PROVE  \E j \in Invocation : j[1] = run' /\ pc'[j] = "open" /\ Path[j[2]] = p
      <4>1. p # Path[i[2]] /\ pending[p] # <<>>
        BY <2>3, <3>1
      <4>2. PICK j \in Invocation : j[1] = run /\ pc[j] = "open" /\ Path[j[2]] = p
        BY <4>1 DEF Recorded
      <4>3. j # i
        BY <4>1, <4>2
      <4>4. QED
        BY <1>1, <4>2, <4>3
    <3>2. QED
      BY <3>1
  <2>7. \A j \in Invocation : j[1] = run' /\ result'[j] = "ok" => output'[j] = j
    <3>1. ASSUME NEW j \in Invocation, j[1] = run, result'[j] = "ok" PROVE output'[j] = j
      <4>1. CASE j = i
        BY <1>1, <2>2, <3>1, <4>1 DEF TapeType
      <4>2. CASE j # i
        BY <1>1, <2>2, <3>1, <4>2 DEF TapeType, Recorded
      <4>3. QED
        BY <4>1, <4>2
    <3>2. QED
      BY <1>1, <3>1
  <2>8. CASE how = "ok"
    <3>1. tape' = tape
      BY <2>2, <2>8
    <3>2. ToSet(tape') = {j \in Invocation : j[1] = run' /\ (pc'[j] = "open" \/ result'[j] = "ok")}
      BY <1>1, <1>5, <2>8, <3>1 DEF Recorded
    <3>3. InOrder(tape)'
      <4>1. \A n \in 1 .. Len(tape) : ~IsRoot(tape[n]) => Up(tape[n]) \in Invocation
        BY <1>2, RunFamilies
      <4>2. QED
        BY <1>3, <3>1, <4>1 DEF Recorded, InOrder, IsRoot, Up
    <3>4. QED
      BY <2>5, <2>6, <2>7, <3>2, <3>3, Zenon DEF Recorded
  <2>9. CASE how = "error"
    <3>1. PICK k \in 1 .. Len(tape) : tape[k] = i
      <4>1. i \in ToSet(tape)
        BY <1>1, <1>5 DEF Recorded
      <4>2. QED
        BY <1>2, <4>1 DEF ToSet
    <3>2. tape' = RemoveFirst(tape, tape[k])
      BY <2>2, <2>9, <3>1
    <3>3. /\ tape' \in Seq(Invocation) /\ Len(tape') = Len(tape) - 1
          /\ \A n \in 1 .. Len(tape') : tape'[n] = IF n < k THEN tape[n] ELSE tape[n + 1]
      BY <1>2, <3>2, RemoveFirstIs
    <3>4. ToSet(tape') = ToSet(tape) \ {i}
      <4>1. \A n, m \in 1 .. Len(tape) : tape[n] = tape[m] => n = m
        BY <1>2 DEF IsInjective
      <4>2. ASSUME NEW n \in 1 .. Len(tape') PROVE tape'[n] \in ToSet(tape) /\ tape'[n] # i
        <5>1. CASE n < k
          BY <1>2, <3>1, <3>3, <4>1, <5>1
        <5>2. CASE ~(n < k)
          <6>1. n + 1 \in 1 .. Len(tape) /\ n + 1 # k /\ tape'[n] = tape[n + 1]
            BY <1>2, <3>3, <5>2
          <6>2. QED
            BY <1>2, <3>1, <4>1, <6>1
        <5>3. QED
          BY <5>1, <5>2
      <4>3. ASSUME NEW m \in 1 .. Len(tape), tape[m] # i PROVE \E n \in 1 .. Len(tape') : tape'[n] = tape[m]
        <5>1. CASE m < k
          <6>1. m \in 1 .. Len(tape') /\ tape'[m] = tape[m]
            BY <1>2, <3>3, <5>1
          <6>2. QED
            BY <6>1
        <5>2. CASE m > k
          <6>1. m - 1 \in 1 .. Len(tape') /\ ~(m - 1 < k) /\ (m - 1) + 1 = m
            BY <1>2, <3>3, <5>2
          <6>2. tape'[m - 1] = tape[m]
            BY <3>3, <6>1
          <6>3. QED
            BY <6>1, <6>2
        <5>3. m # k
          BY <3>1, <4>3
        <5>4. QED
          BY <5>1, <5>2, <5>3
      <4>4. DOMAIN tape' = 1 .. Len(tape')
        BY <3>3
      <4>5. ToSet(tape') = {tape'[n] : n \in 1 .. Len(tape')} /\ ToSet(tape) = {tape[n] : n \in 1 .. Len(tape)}
        BY <1>2, <4>4 DEF ToSet
      <4>6. \A x \in ToSet(tape') : x \in ToSet(tape) /\ x # i
        BY <4>2, <4>5
      <4>7. \A x \in ToSet(tape) : x # i => x \in ToSet(tape')
        BY <4>3, <4>5
      <4>8. QED
        BY <4>6, <4>7
    <3>5. ToSet(tape') = {j \in Invocation : j[1] = run' /\ (pc'[j] = "open" \/ result'[j] = "ok")}
      BY <1>1, <1>5, <2>9, <3>4 DEF Recorded
    <3>6. InOrder(tape)'
      <4>1. ASSUME NEW n \in 1 .. Len(tape')
            PROVE  IsRoot(tape'[n]) \/ result'[Up(tape'[n])] = "error" \/ \E m \in 1 .. n - 1 : tape'[m] = Up(tape'[n])
        <5> DEFINE was == IF n < k THEN n ELSE n + 1
        <5>1. was \in 1 .. Len(tape) /\ tape'[n] = tape[was]
          BY <1>2, <3>3
        <5>2. SUFFICES ASSUME ~IsRoot(tape[was]), result'[Up(tape[was])] # "error"
                       PROVE  \E m \in 1 .. n - 1 : tape'[m] = Up(tape[was])
          BY <5>1
        <5>3. Up(tape[was]) \in Invocation /\ Up(tape[was]) # i /\ result[Up(tape[was])] # "error"
          <6>1. Up(tape[was]) \in Invocation
            BY <1>2, <5>1, <5>2, RunFamilies
          <6>2. QED
            BY <1>1, <1>3, <2>9, <5>2, <6>1
        <5>4. PICK m \in 1 .. was - 1 : tape[m] = Up(tape[was])
          BY <5>1, <5>2, <5>3 DEF Recorded, InOrder
        <5>5. m # k
          BY <3>1, <5>3, <5>4
        <5>6. CASE m < k
          <6>1. m \in 1 .. n - 1 /\ m \in 1 .. Len(tape')
            BY <1>2, <3>3, <5>1, <5>6
          <6>2. tape'[m] = tape[m]
            BY <3>3, <5>6, <6>1
          <6>3. QED
            BY <5>4, <6>1, <6>2
        <5>7. CASE m > k
          <6>1. m - 1 \in 1 .. n - 1 /\ m - 1 \in 1 .. Len(tape') /\ ~(m - 1 < k) /\ (m - 1) + 1 = m
            BY <1>2, <3>3, <5>1, <5>7
          <6>2. tape'[m - 1] = tape[m]
            BY <3>3, <6>1
          <6>3. QED
            BY <5>4, <6>1, <6>2
        <5>8. QED
          BY <5>5, <5>6, <5>7
      <4>2. QED
        BY <4>1 DEF InOrder, IsRoot, Up
    <3>7. QED
      BY <2>5, <2>6, <2>7, <3>5, <3>6, Zenon DEF Recorded
  <2>10. QED
    BY <2>8, <2>9
<1>6. QED
  BY <1>4, <1>5

LEMMA RecordNext == CallInv /\ TapeType /\ LooseInv /\ TapeInv /\ [Next]_vars => TapeInv'
<1> SUFFICES ASSUME CallInv, TapeType, LooseInv, TapeInv, [Next]_vars, Untroubled'
             PROVE  Recorded'
  BY DEF TapeInv
<1>1. CASE Begin
  <2> DEFINE new == <<run + 1, Root>>
  <2>1. /\ run' = run + 1 /\ run + 1 \in Run /\ result' = result /\ pc' = [pc EXCEPT ![new] = "next"]
        /\ tape' = <<>> /\ pending' = [p \in Paths |-> <<>>]
    BY <1>1, AgentRunAssumption DEF Begin, CallInv, CallType, Run
  <2>2. new \in Invocation
    BY <2>1, RunFamilies
  <2> HIDE DEF new
  <2>3. \A j \in Invocation : j[1] = run' => pc'[j] # "open" /\ result'[j] = "none"
    <3>1. ASSUME NEW j \in Invocation, j[1] = run' PROVE pc[j] = "idle"
      <4>1. run \in Nat /\ j[1] = run + 1
        BY <2>1, <3>1, AgentRunAssumption DEF CallInv, CallType
      <4>2. j[1] > run
        BY <4>1
      <4>3. QED
        BY <4>2 DEF CallInv, OneRun
    <3>2. QED
      BY <2>1, <2>2, <3>1 DEF CallInv, CallType
  <2>4. ToSet(tape') = {} /\ Len(tape') = 0
    BY <2>1, ToSetEmpty
  <2>5. InOrder(tape)'
    <3>1. \A n \in 1 .. Len(tape') : FALSE
      BY <2>4
    <3>2. QED
      BY <3>1 DEF InOrder
  <2>6. ToSet(tape') = {j \in Invocation : j[1] = run' /\ (pc'[j] = "open" \/ result'[j] = "ok")}
    BY <2>3, <2>4
  <2>7. \A p \in Paths : pending'[p] = <<>>
    BY <2>1
  <2>8. QED
    BY <2>3, <2>5, <2>6, <2>7 DEF Recorded
<1>2. CASE Cancel \/ UNCHANGED vars
  <2>1. /\ run' = run /\ pc' = pc /\ result' = result
        /\ tape' = tape /\ output' = output /\ pending' = pending
    BY <1>2 DEF Cancel, vars, taping
  <2>2. Untroubled
    BY <2>1 DEF Untroubled, RootOk
  <2>3. Recorded' = Recorded
    BY <2>1 DEF Recorded, InOrder, IsRoot, Up
  <2>4. QED
    BY <2>2, <2>3 DEF TapeInv
<1>3. ASSUME NEW i \in Current, Step(i) PROVE Recorded'
  <2>1. Untroubled /\ i[1] = run /\ i \in Invocation /\ Recorded
    BY <1>3, UntroubledStep DEF TapeInv, Current
  <2>2. ASSUME NEW n \in Below(i), HandsOn(i, n) PROVE Recorded'
    <3>1. /\ run' = run /\ result' = result /\ pc[n] = "idle" /\ pc' = [pc EXCEPT ![n] = "next"]
          /\ tape' = tape /\ output' = output /\ pending' = pending
      BY <2>2 DEF HandsOn, taping
    <3>2. \A j \in Invocation : pc'[j] = "open" <=> pc[j] = "open"
      BY <2>1, <3>1, RunFamilies DEF CallInv, CallType
    <3>3. ToSet(tape') = {j \in Invocation : j[1] = run' /\ (pc'[j] = "open" \/ result'[j] = "ok")}
      BY <2>1, <3>1, <3>2 DEF Recorded
    <3>4. InOrder(tape)'
      BY <2>1, <3>1 DEF Recorded, InOrder, IsRoot, Up
    <3>5. QED
      BY <2>1, <3>1, <3>2, <3>3, <3>4 DEF Recorded
  <2>3. QED
    BY <1>3, <2>1, <2>2, StepIs, RecordStart, RecordEnd
<1>4. QED
  BY <1>1, <1>2, <1>3 DEF Next

LEMMA TapeIsWhole ==
  ASSUME RunInv, TapeInv
  PROVE  TapeSound
<1> USE DEF RunInv
<1>1. TypeOK
  BY DEF TypeOK, CallInv, CallType, TapeType, TraceInv
<1>2. WholeTape
  <2> SUFFICES ASSUME Untroubled, RootOk(run)
               PROVE  /\ AllRan(run) /\ ToSet(tape) = {run} \X Ran(run)
                      /\ \A i \in ToSet(tape) : output[i] = i
    BY DEF WholeTape
  <2>1. run \in Run
    BY AgentRunAssumption DEF Untroubled, CallInv, CallType, Run
  <2>2. Recorded
    BY DEF TapeInv
  <2>3. \A i \in Invocation : i[1] = run => (pc[i] = "open" \/ result[i] = "ok" <=> pc[i] # "idle") /\ (pc[i] # "idle" => result[i] = "ok")
    BY <2>1, ReturnedIsOver DEF CallInv, CallType, Active
  <2>4. ToSet(tape) = {i \in Invocation : i[1] = run /\ pc[i] # "idle"}
    BY <2>2, <2>3 DEF Recorded
  <2>5. ToSet(tape) = {run} \X Ran(run)
    <3>1. \A i \in {run} \X Ran(run) : i \in Invocation /\ i[1] = run /\ pc[i] # "idle"
      BY <2>1 DEF Ran, Invocation
    <3>2. ASSUME NEW i \in Invocation, i[1] = run, pc[i] # "idle" PROVE i \in {run} \X Ran(run)
      <4>1. i[2] \in Sites /\ i = <<run, i[2]>>
        BY <3>2, RunFamilies
      <4>2. i[2] \in Ran(run)
        BY <3>2, <4>1 DEF Ran
      <4>3. QED
        BY <4>1, <4>2
    <3>3. QED
      BY <2>4, <3>1, <3>2
  <2>6. \A i \in ToSet(tape) : output[i] = i
    BY <2>2, <2>3, <2>4 DEF Recorded
  <2>7. QED
    BY <2>1, <2>5, <2>6, ReturnedRanAll
<1>3. ParentsFirst
  <2>1. DOMAIN tape = 1 .. Len(tape)
    BY DEF TapeType
  <2>2. QED
    BY <2>1 DEF ParentsFirst, TapeInv, Recorded, InOrder
<1>4. QED
  BY <1>1, <1>2, <1>3 DEF TapeSound

\* Whatever tree is run and however its runs end: the tape of a run that returned, and
\* follows no failed one, has each of its invocations with its own output, and an
\* entry comes after that of its parent.
THEOREM TapeAlwaysSound == ASSUME PathsApart PROVE Spec => []TapeSound
<1>1. Init => LooseInv /\ TapeInv
  <2> SUFFICES ASSUME Init PROVE LooseInv /\ TapeInv
    OBVIOUS
  <2>1. \A i \in Invocation : ~Loose(i)
    BY DEF Init, Loose, Active
  <2>2. ~Untroubled
    BY DEF Init, Untroubled
  <2>3. QED
    BY <2>1, <2>2 DEF LooseInv, TapeInv
<1>2. RunInv /\ LooseInv /\ TapeInv /\ [Next]_vars => LooseInv' /\ TapeInv'
  BY LooseNext, RecordNext DEF RunInv
<1>3. RunInv /\ TapeInv => TapeSound
  BY TapeIsWhole
<1>4. QED
  BY <1>1, <1>2, <1>3, RunInvariant, PTL DEF Spec

-----------------------------------------------------------------------------
(* Agents that are edited and optimized (AgentTree): walks and their trees *)

\* A walk over agents A that lets them be edited.
WalkOK(W, A) ==
  /\ DOMAIN W = 1 .. Len(W) /\ Len(W) \in Nat
  /\ \A i \in DOMAIN W : W[i].agent \in A
  /\ \A i, j \in DOMAIN W : W[i].path = W[j].path => W[i].agent = W[j].agent
  /\ IsFiniteSet(A) /\ Cardinality(A) < Configs

Hung(W, path) == {W[i].agent : i \in {j \in DOMAIN W : W[j].path = path}}

\* Trees with one walk: all they may become.
TreesOf(W, A) ==
  {t \in [walk : {W}, role : [A -> Nat], rules : [A -> Seq(Nat)],
          cfg : [A -> Objects \cup {NoConfig}], temp : [Objects -> Nat]] :
     \A a \in A : t.cfg[a] # NoConfig => t.temp[t.cfg[a]] # NoConfig}

\* What is to be seen of two trees is the same.
LooksAlike(t, u, A) ==
  t.role = u.role /\ t.rules = u.rules /\ \A a \in A : Temperature(t, a) = Temperature(u, a)

\* A config once there stays.
KeepsConfigs(t, u, A) == \A a \in A : t.cfg[a] # NoConfig => u.cfg[a] # NoConfig

\* What an edit may note.
Olds(e) == IF e.kind \in {"append", "drop"} THEN Seq(Nat)
           ELSE IF e.kind = "role" THEN Nat ELSE Nat \ {NoConfig}
NotesOf(W) ==
  {b \in [DOMAIN Edit -> Seq(Nat \cup Seq(Nat))] :
     \A n \in DOMAIN Edit :
       b[n] # <<>> => Hung(W, Edit[n].path) # {} /\ \E v \in Olds(Edit[n]) : b[n] = <<v>>}
Edits(W, A) == [tree : TreesOf(W, A), before : NotesOf(W), done : Nat, ok : BOOLEAN]

-----------------------------------------------------------------------------
(* Trees and Configurations *)

LEMMA TreeIs ==
  ASSUME NEW W, NEW A, NEW t \in TreesOf(W, A)
  PROVE  /\ t.walk = W /\ t.role \in [A -> Nat] /\ t.rules \in [A -> Seq(Nat)]
         /\ t.cfg \in [A -> Objects \cup {NoConfig}] /\ t.temp \in [Objects -> Nat]
         /\ Agents(t) = A
         /\ t = [walk |-> t.walk, role |-> t.role, rules |-> t.rules, cfg |-> t.cfg, temp |-> t.temp]
         /\ \A a \in A : t.cfg[a] # NoConfig => t.cfg[a] \in Objects /\ t.temp[t.cfg[a]] # NoConfig
         /\ \A a \in A : Temperature(t, a) = IF t.cfg[a] = NoConfig THEN NoConfig ELSE t.temp[t.cfg[a]]
         /\ \A a \in A : Temperature(t, a) \in Nat /\ (Temperature(t, a) = NoConfig <=> t.cfg[a] = NoConfig)
<1>1. /\ t \in [walk : {W}, role : [A -> Nat], rules : [A -> Seq(Nat)],
               cfg : [A -> Objects \cup {NoConfig}], temp : [Objects -> Nat]]
      /\ \A a \in A : t.cfg[a] # NoConfig => t.temp[t.cfg[a]] # NoConfig
  BY DEF TreesOf
<1>2. /\ t.walk = W /\ t.role \in [A -> Nat] /\ t.rules \in [A -> Seq(Nat)]
      /\ t.cfg \in [A -> Objects \cup {NoConfig}] /\ t.temp \in [Objects -> Nat]
      /\ t = [walk |-> t.walk, role |-> t.role, rules |-> t.rules, cfg |-> t.cfg, temp |-> t.temp]
  BY <1>1
<1>3. Agents(t) = A
  BY <1>2 DEF Agents
<1>4. \A a \in A : t.cfg[a] # NoConfig => t.cfg[a] \in Objects /\ t.temp[t.cfg[a]] # NoConfig /\ t.temp[t.cfg[a]] \in Nat
  BY <1>1, <1>2
<1>5. \A a \in A : Temperature(t, a) = IF t.cfg[a] = NoConfig THEN NoConfig ELSE t.temp[t.cfg[a]]
  BY DEF Temperature
<1>6. \A a \in A : Temperature(t, a) \in Nat /\ (Temperature(t, a) = NoConfig <=> t.cfg[a] = NoConfig)
  BY <1>4, <1>5 DEF NoConfig
<1>7. QED
  BY <1>2, <1>3, <1>4, <1>5, <1>6

LEMMA TreeMade ==
  ASSUME NEW W, NEW A, NEW role \in [A -> Nat], NEW rules \in [A -> Seq(Nat)],
         NEW cfg \in [A -> Objects \cup {NoConfig}], NEW temp \in [Objects -> Nat],
         \A a \in A : cfg[a] # NoConfig => temp[cfg[a]] # NoConfig
  PROVE  [walk |-> W, role |-> role, rules |-> rules, cfg |-> cfg, temp |-> temp] \in TreesOf(W, A)
  BY DEF TreesOf

LEMMA HungIs ==
  ASSUME NEW W, NEW A, WalkOK(W, A), NEW t \in TreesOf(W, A), NEW path
  PROVE  /\ Resolve(t, path) = Hung(W, path) /\ Hung(W, path) \subseteq A
         /\ Hung(W, path) # {} => The(Resolve(t, path)) \in A
         /\ The(Resolve(t, path)) = The(Hung(W, path))
<1>1. Resolve(t, path) = Hung(W, path)
  BY TreeIs DEF Resolve, Hung
<1>2. Hung(W, path) \subseteq A
  BY DEF Hung, WalkOK
<1>3. Hung(W, path) # {} => The(Hung(W, path)) \in Hung(W, path)
  BY DEF The
<1>4. QED
  BY <1>1, <1>2, <1>3

\* There is a Configuration left.
LEMMA UnusedIs ==
  ASSUME NEW W, NEW A, WalkOK(W, A), NEW t \in TreesOf(W, A)
  PROVE  Unused(t) \in Objects /\ \A a \in A : t.cfg[a] # Unused(t)
<1>1. Agents(t) = A /\ t.cfg \in [A -> Objects \cup {NoConfig}]
  BY TreeIs
<1>2. \E o \in Objects : \A a \in A : t.cfg[a] # o
  <2>1. SUFFICES ASSUME \A o \in Objects : \E a \in A : t.cfg[a] = o PROVE FALSE
    OBVIOUS
  <2> DEFINE holder == [o \in Objects |-> CHOOSE a \in A : t.cfg[a] = o]
  <2>2. holder \in [Objects -> A] /\ \A o \in Objects : t.cfg[holder[o]] = o
    BY <2>1
  <2>3. IsFiniteSet(Objects) /\ Cardinality(Objects) = Configs
    BY AgentTreeAssumption, FS_Interval DEF Objects
  <2> HIDE DEF holder
  <2>4. PICK x, y \in Objects : x # y /\ holder[x] = holder[y]
    BY <2>2, <2>3, FS_PigeonHole DEF WalkOK
  <2>5. QED
    BY <2>2, <2>4
<1>3. QED
  BY <1>1, <1>2 DEF Unused

LEMMA ConfigureIs ==
  ASSUME NEW W, NEW A, WalkOK(W, A), NEW t \in TreesOf(W, A), NEW a \in A, NEW v \in Nat \ {NoConfig}
  PROVE  LET u == Configure(t, a, v)
         IN /\ u \in TreesOf(W, A) /\ u.role = t.role /\ u.rules = t.rules
            /\ u.cfg[a] \in Objects /\ \A b \in A \ {a} : u.cfg[b] = t.cfg[b]
            /\ \A b \in A : u.cfg[b] = u.cfg[a] => b = a
            /\ Temperature(u, a) = v /\ \A b \in A \ {a} : Temperature(u, b) = Temperature(t, b)
<1> DEFINE o == Unused(t)
           u == Configure(t, a, v)
           cfg == [t.cfg EXCEPT ![a] = o]
           temp == [t.temp EXCEPT ![o] = v]
<1>1. o \in Objects /\ \A b \in A : t.cfg[b] # o
  BY UnusedIs
<1>2. /\ t.walk = W /\ t.role \in [A -> Nat] /\ t.rules \in [A -> Seq(Nat)]
      /\ t.cfg \in [A -> Objects \cup {NoConfig}] /\ t.temp \in [Objects -> Nat]
      /\ t = [walk |-> t.walk, role |-> t.role, rules |-> t.rules, cfg |-> t.cfg, temp |-> t.temp]
      /\ \A b \in A : t.cfg[b] # NoConfig => t.cfg[b] \in Objects /\ t.temp[t.cfg[b]] # NoConfig
  BY TreeIs
<1>3. u = [walk |-> W, role |-> t.role, rules |-> t.rules, cfg |-> cfg, temp |-> temp]
  <2>1. u = [t EXCEPT !.cfg[a] = o, !.temp[o] = v]
    BY DEF Configure
  <2> HIDE DEF u, o
  <2>2. QED
    BY <1>2, <2>1
<1>4. o # NoConfig
  BY <1>1, AgentTreeAssumption DEF Objects, NoConfig
<1> HIDE DEF o, u
<1>5. /\ cfg \in [A -> Objects \cup {NoConfig}] /\ temp \in [Objects -> Nat]
      /\ cfg[a] = o /\ temp[o] = v
      /\ \A b \in A \ {a} : cfg[b] = t.cfg[b] /\ cfg[b] # o
      /\ \A x \in Objects \ {o} : temp[x] = t.temp[x]
  BY <1>1, <1>2
<1> HIDE DEF cfg, temp
<1>6. \A b \in A \ {a} : cfg[b] # NoConfig => cfg[b] \in Objects \ {o} /\ temp[cfg[b]] = t.temp[t.cfg[b]]
  BY <1>2, <1>5
<1>7. \A b \in A : cfg[b] # NoConfig => temp[cfg[b]] # NoConfig
  BY <1>2, <1>5, <1>6
<1>8. u \in TreesOf(W, A)
  BY <1>2, <1>3, <1>5, <1>7, TreeMade
<1>9. u.cfg = cfg /\ u.temp = temp /\ u.role = t.role /\ u.rules = t.rules
  BY <1>3
<1>10. Temperature(u, a) = v
  BY <1>4, <1>5, <1>9 DEF Temperature
<1>11. \A b \in A \ {a} : Temperature(u, b) = Temperature(t, b)
  BY <1>5, <1>6, <1>9 DEF Temperature
<1>12. QED
  BY <1>1, <1>5, <1>8, <1>9, <1>10, <1>11 DEF u

-----------------------------------------------------------------------------
(* One edit, and its undo *)

WithRole(t, a, v) == [t EXCEPT !.role[a] = v]
WithRules(t, a, v) == [t EXCEPT !.rules[a] = v]

LEMMA RoleIs ==
  ASSUME NEW W, NEW A, NEW t \in TreesOf(W, A), NEW a \in A, NEW v \in Nat,
         NEW u, u = WithRole(t, a, v)
  PROVE  /\ u \in TreesOf(W, A) /\ u.role = [t.role EXCEPT ![a] = v] /\ u.rules = t.rules
         /\ u.cfg = t.cfg /\ u.temp = t.temp
<1> DEFINE to == [t.role EXCEPT ![a] = v]
<1>1. /\ t.walk = W /\ t.role \in [A -> Nat] /\ t.rules \in [A -> Seq(Nat)]
      /\ t.cfg \in [A -> Objects \cup {NoConfig}] /\ t.temp \in [Objects -> Nat]
      /\ \A b \in A : t.cfg[b] # NoConfig => t.temp[t.cfg[b]] # NoConfig
  BY TreeIs
<1>2. t = [walk |-> t.walk, role |-> t.role, rules |-> t.rules, cfg |-> t.cfg, temp |-> t.temp]
  BY TreeIs
<1>3. u = [walk |-> W, role |-> to, rules |-> t.rules, cfg |-> t.cfg, temp |-> t.temp]
  BY <1>1, <1>2 DEF WithRole
<1>4. to \in [A -> Nat]
  BY <1>1
<1> HIDE DEF to
<1>5. u \in TreesOf(W, A)
  <2>1. [walk |-> W, role |-> to, rules |-> t.rules, cfg |-> t.cfg, temp |-> t.temp] \in TreesOf(W, A)
    BY <1>1, <1>4, TreeMade
  <2>2. QED
    BY <1>3, <2>1
<1>6. u.role = to /\ u.rules = t.rules /\ u.cfg = t.cfg /\ u.temp = t.temp
  BY <1>3
<1>7. QED
  BY <1>5, <1>6 DEF to

LEMMA RulesAre ==
  ASSUME NEW W, NEW A, NEW t \in TreesOf(W, A), NEW a \in A, NEW v \in Seq(Nat),
         NEW u, u = WithRules(t, a, v)
  PROVE  /\ u \in TreesOf(W, A) /\ u.rules = [t.rules EXCEPT ![a] = v] /\ u.role = t.role
         /\ u.cfg = t.cfg /\ u.temp = t.temp
<1> DEFINE to == [t.rules EXCEPT ![a] = v]
<1>1. /\ t.walk = W /\ t.role \in [A -> Nat] /\ t.rules \in [A -> Seq(Nat)]
      /\ t.cfg \in [A -> Objects \cup {NoConfig}] /\ t.temp \in [Objects -> Nat]
      /\ \A b \in A : t.cfg[b] # NoConfig => t.temp[t.cfg[b]] # NoConfig
  BY TreeIs
<1>2. t = [walk |-> t.walk, role |-> t.role, rules |-> t.rules, cfg |-> t.cfg, temp |-> t.temp]
  BY TreeIs
<1>3. u = [walk |-> W, role |-> t.role, rules |-> to, cfg |-> t.cfg, temp |-> t.temp]
  BY <1>1, <1>2 DEF WithRules
<1>4. to \in [A -> Seq(Nat)]
  BY <1>1
<1> HIDE DEF to
<1>5. u \in TreesOf(W, A)
  <2>1. [walk |-> W, role |-> t.role, rules |-> to, cfg |-> t.cfg, temp |-> t.temp] \in TreesOf(W, A)
    BY <1>1, <1>4, TreeMade
  <2>2. QED
    BY <1>3, <2>1
<1>6. u.rules = to /\ u.role = t.role /\ u.cfg = t.cfg /\ u.temp = t.temp
  BY <1>3
<1>7. QED
  BY <1>5, <1>6 DEF to

\* What an edit's undo makes of a tree, by the kind of the edit.
LEMMA RestoredIs ==
  ASSUME NEW W, NEW A, WalkOK(W, A), NEW t \in TreesOf(W, A), NEW a \in A, NEW n \in DOMAIN Edit,
         NEW old \in Olds(Edit[n])
  PROVE  LET e == Edit[n] u == Restored(t, e, a, old)
         IN /\ u \in TreesOf(W, A) /\ KeepsConfigs(t, u, A)
            /\ e.kind \in {"append", "drop"} =>
                 /\ u.rules = [t.rules EXCEPT ![a] = old] /\ u.role = t.role
                 /\ \A b \in A : Temperature(u, b) = Temperature(t, b)
            /\ e.kind = "role" =>
                 /\ u.role = [t.role EXCEPT ![a] = old] /\ u.rules = t.rules
                 /\ \A b \in A : Temperature(u, b) = Temperature(t, b)
            /\ e.kind = "temp" =>
                 /\ u.rules = t.rules /\ u.role = t.role /\ Temperature(u, a) = old
                 /\ \A b \in A \ {a} : Temperature(u, b) = Temperature(t, b)
<1> DEFINE e == Edit[n] u == Restored(t, e, a, old)
<1>1. e.kind \in {"append", "drop", "role", "temp"}
  BY AgentTreeAssumption
<1> HIDE DEF e
<1>2. old \in Olds(e)
  BY DEF e
<1>3. CASE e.kind \in {"append", "drop"}
  <2>1. old \in Seq(Nat) /\ u = WithRules(t, a, old)
    BY <1>2, <1>3 DEF Olds, Restored, WithRules
  <2> HIDE DEF u
  <2>2. /\ u \in TreesOf(W, A) /\ u.rules = [t.rules EXCEPT ![a] = old] /\ u.role = t.role
        /\ u.cfg = t.cfg /\ u.temp = t.temp
    BY <2>1, RulesAre
  <2>3. QED
    BY <1>3, <2>2 DEF KeepsConfigs, Temperature, u, e
<1>4. CASE e.kind = "role"
  <2>1. old \in Nat /\ u = WithRole(t, a, old)
    BY <1>2, <1>4 DEF Olds, Restored, WithRole
  <2> HIDE DEF u
  <2>2. /\ u \in TreesOf(W, A) /\ u.role = [t.role EXCEPT ![a] = old] /\ u.rules = t.rules
        /\ u.cfg = t.cfg /\ u.temp = t.temp
    BY <2>1, RoleIs
  <2>3. QED
    BY <1>4, <2>2 DEF KeepsConfigs, Temperature, u, e
<1>5. CASE e.kind = "temp"
  <2>1. old \in Nat \ {NoConfig} /\ u = Configure(t, a, old)
    BY <1>2, <1>5 DEF Olds, Restored
  <2> HIDE DEF u
  <2>2. /\ u \in TreesOf(W, A) /\ u.rules = t.rules /\ u.role = t.role
        /\ u.cfg[a] \in Objects /\ \A b \in A \ {a} : u.cfg[b] = t.cfg[b]
        /\ Temperature(u, a) = old /\ \A b \in A \ {a} : Temperature(u, b) = Temperature(t, b)
    BY <2>1, ConfigureIs
  <2>3. u.cfg[a] # NoConfig
    BY <2>2, AgentTreeAssumption DEF Objects, NoConfig
  <2>4. KeepsConfigs(t, u, A)
    BY <2>2, <2>3 DEF KeepsConfigs
  <2>5. QED
    BY <1>5, <2>2, <2>4 DEF u, e
<1>6. QED
  BY <1>1, <1>3, <1>4, <1>5

LEMMA EditedIs ==
  ASSUME NEW W, NEW A, WalkOK(W, A), NEW t \in TreesOf(W, A), NEW n \in DOMAIN Edit, ~Refused(t, Edit[n])
  PROVE  LET e == Edit[n] a == The(Hung(W, e.path)) u == Edited(t, e, a)
         IN /\ a \in A /\ Hung(W, e.path) # {} /\ Resolve(t, e.path) = Hung(W, e.path)
            /\ u \in TreesOf(W, A) /\ KeepsConfigs(t, u, A) /\ Old(t, e, a) \in Olds(e)
            /\ e.kind \in {"append", "drop"} =>
                 /\ u.role = t.role /\ Old(t, e, a) = t.rules[a]
                 /\ \E v \in Seq(Nat) : u.rules = [t.rules EXCEPT ![a] = v]
                 /\ \A b \in A : Temperature(u, b) = Temperature(t, b)
            /\ e.kind = "role" =>
                 /\ u.rules = t.rules /\ Old(t, e, a) = t.role[a]
                 /\ \E v \in Nat : u.role = [t.role EXCEPT ![a] = v]
                 /\ \A b \in A : Temperature(u, b) = Temperature(t, b)
            /\ e.kind = "temp" =>
                 /\ u.rules = t.rules /\ u.role = t.role /\ Old(t, e, a) = Temperature(t, a)
                 /\ \A b \in A \ {a} : Temperature(u, b) = Temperature(t, b)
<1> DEFINE e == Edit[n] a == The(Hung(W, e.path)) u == Edited(t, e, a)
<1>1. e.kind \in {"append", "drop", "role", "temp"} /\ e.arg \in Nat /\ (e.kind = "temp" => e.arg # NoConfig)
  BY AgentTreeAssumption
<1>2. Resolve(t, e.path) # {} /\ Resolve(t, e.path) = Hung(W, e.path) /\ The(Resolve(t, e.path)) = a
  <2>1. Resolve(t, e.path) # {}
    BY Zenon DEF Refused
  <2>2. QED
    BY <2>1, HungIs
<1>3. a \in A
  BY <1>2, HungIs
<1>4. /\ t.rules \in [A -> Seq(Nat)] /\ t.role \in [A -> Nat]
      /\ Temperature(t, a) \in Nat /\ (Temperature(t, a) = NoConfig <=> t.cfg[a] = NoConfig)
  BY <1>3, TreeIs
<1>5. /\ e.kind = "drop" => t.rules[a] # <<>>
      /\ e.kind = "temp" => t.cfg[a] # NoConfig
  BY <1>2, Zenon DEF Refused
<1> HIDE DEF e, a
<1>6. CASE e.kind \in {"append", "drop"}
  <2> DEFINE v == IF e.kind = "append" THEN Append(t.rules[a], e.arg) ELSE Tail(t.rules[a])
  <2>1. v \in Seq(Nat)
    BY <1>1, <1>3, <1>4, <1>5, <1>6
  <2>2. u = WithRules(t, a, v)
    BY <1>6 DEF Edited, WithRules
  <2> HIDE DEF u, v
  <2>3. /\ u \in TreesOf(W, A) /\ u.rules = [t.rules EXCEPT ![a] = v] /\ u.role = t.role
        /\ u.cfg = t.cfg /\ u.temp = t.temp
    BY <1>3, <2>1, <2>2, RulesAre
  <2>4. Old(t, e, a) = t.rules[a] /\ Old(t, e, a) \in Olds(e)
    BY <1>3, <1>4, <1>6 DEF Old, Olds
  <2>5. KeepsConfigs(t, u, A) /\ \A b \in A : Temperature(u, b) = Temperature(t, b)
    BY <2>3 DEF KeepsConfigs, Temperature
  <2>6. QED
    BY <1>2, <1>3, <1>6, <2>1, <2>3, <2>4, <2>5 DEF u, e, a
<1>7. CASE e.kind = "role"
  <2>1. u = WithRole(t, a, e.arg)
    BY <1>7 DEF Edited, WithRole
  <2> HIDE DEF u
  <2>2. /\ u \in TreesOf(W, A) /\ u.role = [t.role EXCEPT ![a] = e.arg] /\ u.rules = t.rules
        /\ u.cfg = t.cfg /\ u.temp = t.temp
    BY <1>1, <1>3, <2>1, RoleIs
  <2>3. Old(t, e, a) = t.role[a] /\ Old(t, e, a) \in Olds(e)
    BY <1>3, <1>4, <1>7 DEF Old, Olds
  <2>4. KeepsConfigs(t, u, A) /\ \A b \in A : Temperature(u, b) = Temperature(t, b)
    BY <2>2 DEF KeepsConfigs, Temperature
  <2>5. QED
    BY <1>1, <1>2, <1>3, <1>7, <2>2, <2>3, <2>4 DEF u, e, a
<1>8. CASE e.kind = "temp"
  <2>1. u = Configure(t, a, e.arg)
    BY <1>8 DEF Edited
  <2> HIDE DEF u
  <2>2. /\ u \in TreesOf(W, A) /\ u.rules = t.rules /\ u.role = t.role
        /\ u.cfg[a] \in Objects /\ \A b \in A \ {a} : u.cfg[b] = t.cfg[b]
        /\ \A b \in A \ {a} : Temperature(u, b) = Temperature(t, b)
    BY <1>1, <1>3, <1>8, <2>1, ConfigureIs
  <2>3. u.cfg[a] # NoConfig
    BY <2>2, AgentTreeAssumption DEF Objects, NoConfig
  <2>4. KeepsConfigs(t, u, A)
    BY <2>2, <2>3 DEF KeepsConfigs
  <2>5. Old(t, e, a) = Temperature(t, a) /\ Old(t, e, a) \in Olds(e)
    BY <1>4, <1>5, <1>8 DEF Old, Olds
  <2>6. QED
    BY <1>2, <1>3, <1>8, <2>2, <2>4, <2>5 DEF u, e, a
<1>9. QED
  BY <1>1, <1>6, <1>7, <1>8

\* The undo of an edit brings back what was to be seen, from whatever looks like
\* the tree that was edited.
LEMMA EditUndone ==
  ASSUME NEW W, NEW A, WalkOK(W, A), NEW t \in TreesOf(W, A), NEW n \in DOMAIN Edit, ~Refused(t, Edit[n]),
         NEW x \in TreesOf(W, A), LooksAlike(x, Edited(t, Edit[n], The(Hung(W, Edit[n].path))), A)
  PROVE  LET e == Edit[n] a == The(Hung(W, e.path)) u == Restored(x, e, a, Old(t, e, a))
         IN u \in TreesOf(W, A) /\ LooksAlike(u, t, A)
<1> DEFINE e == Edit[n] a == The(Hung(W, e.path)) y == Edited(t, e, a) old == Old(t, e, a)
           u == Restored(x, e, a, old)
<1>1. /\ a \in A /\ old \in Olds(e)
      /\ e.kind \in {"append", "drop"} =>
           /\ y.role = t.role /\ old = t.rules[a]
           /\ \E v \in Seq(Nat) : y.rules = [t.rules EXCEPT ![a] = v]
           /\ \A b \in A : Temperature(y, b) = Temperature(t, b)
      /\ e.kind = "role" =>
           /\ y.rules = t.rules /\ old = t.role[a]
           /\ \E v \in Nat : y.role = [t.role EXCEPT ![a] = v]
           /\ \A b \in A : Temperature(y, b) = Temperature(t, b)
      /\ e.kind = "temp" =>
           /\ y.rules = t.rules /\ y.role = t.role /\ old = Temperature(t, a)
           /\ \A b \in A \ {a} : Temperature(y, b) = Temperature(t, b)
  BY EditedIs
<1>2. x.role = y.role /\ x.rules = y.rules /\ \A b \in A : Temperature(x, b) = Temperature(y, b)
  BY DEF LooksAlike
<1>3. e.kind \in {"append", "drop", "role", "temp"}
  BY AgentTreeAssumption
<1>4. t.rules \in [A -> Seq(Nat)] /\ t.role \in [A -> Nat]
  BY TreeIs
<1> HIDE DEF a, old
<1>5. /\ u \in TreesOf(W, A)
      /\ e.kind \in {"append", "drop"} =>
           /\ u.rules = [x.rules EXCEPT ![a] = old] /\ u.role = x.role
           /\ \A b \in A : Temperature(u, b) = Temperature(x, b)
      /\ e.kind = "role" =>
           /\ u.role = [x.role EXCEPT ![a] = old] /\ u.rules = x.rules
           /\ \A b \in A : Temperature(u, b) = Temperature(x, b)
      /\ e.kind = "temp" =>
           /\ u.rules = x.rules /\ u.role = x.role /\ Temperature(u, a) = old
           /\ \A b \in A \ {a} : Temperature(u, b) = Temperature(x, b)
  BY <1>1, RestoredIs
<1> HIDE DEF u, y, e
<1>6. CASE e.kind \in {"append", "drop"}
  <2>1. PICK v \in Seq(Nat) : y.rules = [t.rules EXCEPT ![a] = v]
    BY <1>1, <1>6
  <2>2. [[t.rules EXCEPT ![a] = v] EXCEPT ![a] = t.rules[a]] = t.rules
    BY <1>1, <1>4
  <2>3. QED
    BY <1>1, <1>2, <1>5, <1>6, <2>1, <2>2 DEF LooksAlike, u, e, a, old
<1>7. CASE e.kind = "role"
  <2>1. PICK v \in Nat : y.role = [t.role EXCEPT ![a] = v]
    BY <1>1, <1>7
  <2>2. [[t.role EXCEPT ![a] = v] EXCEPT ![a] = t.role[a]] = t.role
    BY <1>1, <1>4
  <2>3. QED
    BY <1>1, <1>2, <1>5, <1>7, <2>1, <2>2 DEF LooksAlike, u, e, a, old
<1>8. CASE e.kind = "temp"
  BY <1>1, <1>2, <1>5, <1>8 DEF LooksAlike, u, e, a, old
<1>9. QED
  BY <1>3, <1>6, <1>7, <1>8

-----------------------------------------------------------------------------
(* A compound, and its undo *)

LEMMA EditsIs ==
  ASSUME NEW W, NEW A, NEW s \in Edits(W, A)
  PROVE  /\ s.tree \in TreesOf(W, A) /\ s.before \in NotesOf(W) /\ s.done \in Nat /\ s.ok \in BOOLEAN
         /\ s = [tree |-> s.tree, before |-> s.before, done |-> s.done, ok |-> s.ok]
         /\ \A d \in Nat, o \in BOOLEAN : [tree |-> s.tree, before |-> s.before, done |-> d, ok |-> o] \in Edits(W, A)
  BY DEF Edits

TakenUp(s) == [s EXCEPT !.ok = TRUE]

LEMMA TakenUpIs ==
  ASSUME NEW W, NEW A, NEW s \in Edits(W, A), NEW r, r = TakenUp(s)
  PROVE  /\ r = [tree |-> s.tree, before |-> s.before, done |-> s.done, ok |-> TRUE]
         /\ r \in Edits(W, A)
<1>1. r = [tree |-> s.tree, before |-> s.before, done |-> s.done, ok |-> TRUE]
  BY DEF Edits, TakenUp
<1>2. s.tree \in TreesOf(W, A) /\ s.before \in NotesOf(W) /\ s.done \in Nat
  BY EditsIs
<1>3. QED
  BY <1>1, <1>2 DEF Edits

LEMMA NotesAre ==
  ASSUME NEW W, NEW b \in NotesOf(W), NEW n \in DOMAIN Edit
  PROVE  /\ DOMAIN b = DOMAIN Edit
         /\ b[n] # <<>> => Hung(W, Edit[n].path) # {} /\ b[n] = <<Head(b[n])>> /\ Head(b[n]) \in Olds(Edit[n])
         /\ [b EXCEPT ![n] = <<>>] \in NotesOf(W)
         /\ \A v \in Olds(Edit[n]) : Hung(W, Edit[n].path) # {} => [b EXCEPT ![n] = <<v>>] \in NotesOf(W)
<1>1. /\ b \in [DOMAIN Edit -> Seq(Nat \cup Seq(Nat))]
      /\ \A m \in DOMAIN Edit :
           b[m] # <<>> => Hung(W, Edit[m].path) # {} /\ \E v \in Olds(Edit[m]) : b[m] = <<v>>
  BY DEF NotesOf
<1>2. \A v : Head(<<v>>) = v
  OBVIOUS
<1>3. b[n] # <<>> => Hung(W, Edit[n].path) # {} /\ b[n] = <<Head(b[n])>> /\ Head(b[n]) \in Olds(Edit[n])
  BY <1>1, <1>2
<1>4. [b EXCEPT ![n] = <<>>] \in NotesOf(W)
  <2> DEFINE x == [b EXCEPT ![n] = <<>>]
  <2>1. x \in [DOMAIN Edit -> Seq(Nat \cup Seq(Nat))] /\ x[n] = <<>> /\ \A m \in DOMAIN Edit \ {n} : x[m] = b[m]
    BY <1>1
  <2> HIDE DEF x
  <2>2. x \in NotesOf(W)
    BY <1>1, <2>1 DEF NotesOf
  <2>3. QED
    BY <2>2 DEF x
<1>5. ASSUME NEW v \in Olds(Edit[n]), Hung(W, Edit[n].path) # {} PROVE [b EXCEPT ![n] = <<v>>] \in NotesOf(W)
  <2> DEFINE x == [b EXCEPT ![n] = <<v>>]
  <2>1. v \in Nat \cup Seq(Nat)
    BY DEF Olds
  <2>2. <<v>> \in Seq(Nat \cup Seq(Nat))
    BY <2>1
  <2>3. x \in [DOMAIN Edit -> Seq(Nat \cup Seq(Nat))] /\ x[n] = <<v>> /\ \A m \in DOMAIN Edit \ {n} : x[m] = b[m]
    BY <1>1, <2>2
  <2> HIDE DEF x
  <2>4. x \in NotesOf(W)
    BY <1>1, <1>5, <2>3 DEF NotesOf
  <2>5. QED
    BY <2>4 DEF x
<1>6. QED
  BY <1>1, <1>3, <1>4, <1>5

LEMMA KeepsOn ==
  ASSUME NEW A, NEW t, NEW u, NEW v, KeepsConfigs(t, u, A), KeepsConfigs(u, v, A)
  PROVE  KeepsConfigs(t, v, A)
  BY DEF KeepsConfigs

Noting(b, n, v) == [b EXCEPT ![n] = v]

LEMMA ApplyEditIs ==
  ASSUME NEW W, NEW A, WalkOK(W, A), NEW s \in Edits(W, A), NEW n \in DOMAIN Edit
  PROVE  LET e == Edit[n] a == The(Hung(W, e.path)) r == ApplyEdit(s, n)
         IN /\ r \in Edits(W, A) /\ KeepsConfigs(s.tree, r.tree, A)
            /\ \/ ~s.ok /\ r = s
               \/ ~r.ok /\ r.tree = s.tree /\ r.before = s.before /\ r.done = s.done
               \/ /\ s.ok /\ ~Refused(s.tree, e) /\ r.ok /\ r.done = s.done + 1
                  /\ r.tree = Edited(s.tree, e, a) /\ r.before = Noting(s.before, n, <<Old(s.tree, e, a)>>)
<1> DEFINE e == Edit[n] a == The(Hung(W, e.path)) r == ApplyEdit(s, n)
<1>1. /\ s.tree \in TreesOf(W, A) /\ s.before \in NotesOf(W) /\ s.done \in Nat /\ s.ok \in BOOLEAN
      /\ s = [tree |-> s.tree, before |-> s.before, done |-> s.done, ok |-> s.ok]
      /\ \A d \in Nat, o \in BOOLEAN : [tree |-> s.tree, before |-> s.before, done |-> d, ok |-> o] \in Edits(W, A)
  BY EditsIs
<1>2. \A t : KeepsConfigs(t, t, A)
  BY DEF KeepsConfigs
<1>3. The(Resolve(s.tree, e.path)) = a
  BY <1>1, HungIs
<1> HIDE DEF e, a
<1>4. r = IF ~s.ok THEN s
          ELSE IF Refused(s.tree, e) THEN [s EXCEPT !.ok = FALSE]
          ELSE [tree |-> Edited(s.tree, e, a), before |-> [s.before EXCEPT ![n] = <<Old(s.tree, e, a)>>],
                done |-> s.done + 1, ok |-> TRUE]
  BY <1>3 DEF ApplyEdit, e
<1> HIDE DEF r
<1>5. CASE ~s.ok
  BY <1>2, <1>4, <1>5 DEF r, e, a
<1>6. CASE s.ok /\ Refused(s.tree, e)
  <2>1. r = [tree |-> s.tree, before |-> s.before, done |-> s.done, ok |-> FALSE]
    BY <1>1, <1>4, <1>6
  <2>2. r \in Edits(W, A)
    BY <1>1, <2>1
  <2>3. ~r.ok /\ r.tree = s.tree /\ r.before = s.before /\ r.done = s.done
    BY <2>1
  <2>4. QED
    BY <1>2, <2>2, <2>3 DEF r, e, a
<1>7. CASE s.ok /\ ~Refused(s.tree, e)
  <2> DEFINE u == Edited(s.tree, e, a) old == Old(s.tree, e, a) b == [s.before EXCEPT ![n] = <<old>>]
  <2>1. u \in TreesOf(W, A) /\ KeepsConfigs(s.tree, u, A) /\ old \in Olds(e) /\ Hung(W, e.path) # {}
    BY <1>1, <1>7, EditedIs DEF e, a
  <2> HIDE DEF u, old
  <2>2. b \in NotesOf(W)
    BY <1>1, <2>1, NotesAre DEF e
  <2>3. r = [tree |-> u, before |-> b, done |-> s.done + 1, ok |-> TRUE]
    BY <1>4, <1>7 DEF u, old
  <2> HIDE DEF b
  <2>4. r \in Edits(W, A)
    BY <1>1, <2>1, <2>2, <2>3 DEF Edits
  <2>5. r.tree = u /\ r.before = b /\ r.done = s.done + 1 /\ r.ok
    BY <2>3
  <2>6. QED
    BY <1>7, <2>1, <2>4, <2>5 DEF r, e, a, b, u, old, Noting
<1>8. QED
  BY <1>5, <1>6, <1>7

LEMMA UndoEditIs ==
  ASSUME NEW W, NEW A, WalkOK(W, A), NEW s \in Edits(W, A), NEW n \in DOMAIN Edit
  PROVE  LET e == Edit[n] a == The(Hung(W, e.path)) r == UndoEdit(s, n)
         IN /\ r \in Edits(W, A) /\ KeepsConfigs(s.tree, r.tree, A) /\ r.done = s.done
            /\ s.ok /\ s.before[n] # <<>> =>
                 /\ r.ok /\ r.before = Noting(s.before, n, <<>>)
                 /\ r.tree = Restored(s.tree, e, a, Head(s.before[n]))
<1> DEFINE e == Edit[n] a == The(Hung(W, e.path)) r == UndoEdit(s, n)
<1>1. /\ s.tree \in TreesOf(W, A) /\ s.before \in NotesOf(W) /\ s.done \in Nat /\ s.ok \in BOOLEAN
      /\ s = [tree |-> s.tree, before |-> s.before, done |-> s.done, ok |-> s.ok]
      /\ \A d \in Nat, o \in BOOLEAN : [tree |-> s.tree, before |-> s.before, done |-> d, ok |-> o] \in Edits(W, A)
  BY EditsIs
<1>2. \A t : KeepsConfigs(t, t, A)
  BY DEF KeepsConfigs
<1>3. The(Resolve(s.tree, e.path)) = a
  BY <1>1, HungIs
<1>4. CASE ~s.ok
  <2>1. r = s
    BY <1>4 DEF UndoEdit
  <2>2. QED
    BY <1>2, <1>4, <2>1
<1>5. CASE s.ok /\ s.before[n] = <<>>
  <2>1. r = [s EXCEPT !.ok = FALSE]
    BY <1>5 DEF UndoEdit
  <2> HIDE DEF r
  <2>2. r = [tree |-> s.tree, before |-> s.before, done |-> s.done, ok |-> FALSE]
    BY <1>1, <2>1
  <2>3. r \in Edits(W, A) /\ r.tree = s.tree /\ r.done = s.done
    BY <1>1, <2>2
  <2>4. QED
    BY <1>2, <1>5, <2>3 DEF r
<1>6. CASE s.ok /\ s.before[n] # <<>>
  <2> DEFINE old == Head(s.before[n]) u == Restored(s.tree, e, a, old) b == [s.before EXCEPT ![n] = <<>>]
  <2>1. r = [s EXCEPT !.tree = Restored(@, e, The(Resolve(@, e.path)), Head(s.before[n])), !.before[n] = <<>>]
    BY <1>6 DEF UndoEdit
  <2>2. old \in Olds(e) /\ Hung(W, e.path) # {} /\ b \in NotesOf(W)
    BY <1>1, <1>6, NotesAre
  <2>3. a \in A
    BY <1>1, <2>2, HungIs
  <2>4. u \in TreesOf(W, A) /\ KeepsConfigs(s.tree, u, A)
    BY <1>1, <2>2, <2>3, RestoredIs
  <2> HIDE DEF r
  <2>5. r = [tree |-> u, before |-> b, done |-> s.done, ok |-> s.ok]
    BY <1>1, <1>3, <2>1
  <2> HIDE DEF u, b
  <2>6. r \in Edits(W, A) /\ r.tree = u /\ r.before = b /\ r.done = s.done /\ r.ok
    BY <1>1, <1>6, <2>2, <2>4, <2>5 DEF Edits
  <2>7. QED
    BY <2>4, <2>6 DEF r, u, b, Noting
<1>7. QED
  BY <1>1, <1>4, <1>5, <1>6

\* The compound, edit by edit.
LEMMA AppliedIs ==
  ASSUME NEW W, NEW A, WalkOK(W, A), NEW s \in Edits(W, A), NEW c \in Seq(DOMAIN Edit)
  PROVE  \E g \in [0 .. Len(c) -> Edits(W, A)] :
           /\ g[0] = s /\ \A k \in 1 .. Len(c) : g[k] = ApplyEdit(g[k - 1], c[k])
           /\ AppliedAll(s, c) = g[Len(c)]
<1> DEFINE E == Edits(W, A)
           N == Len(c)
           step == [k \in 1 .. N |-> [x \in E |-> ApplyEdit(x, c[k])]]
           Unfolds(f) == f = [k \in 0 .. N |-> IF k = 0 THEN s ELSE ApplyEdit(f[k - 1], c[k])]
           ch == CHOOSE f : Unfolds(f)
<1>1. N \in Nat /\ \A k \in 1 .. N : c[k] \in DOMAIN Edit
  OBVIOUS
<1>2. \A k \in 1 .. N, x \in E : ApplyEdit(x, c[k]) \in E
  BY <1>1, ApplyEditIs
<1>3. AppliedAll(s, c) = ch[N]
  BY DEF AppliedAll
<1> HIDE DEF E, N
<1>4. step \in [1 .. N -> [E -> E]]
  BY <1>2
<1>5. \A k \in 1 .. N, x \in E : step[k][x] = ApplyEdit(x, c[k])
  OBVIOUS
<1> HIDE DEF step
<1>6. s \in E
  BY DEF E
<1>7. PICK g \in [0 .. N -> E] : Iterates(g, s, step, N)
  BY <1>1, <1>4, <1>6, IterationExists
<1>8. \A k \in 0 .. N : g[k] = IF k = 0 THEN s ELSE ApplyEdit(g[k - 1], c[k])
  <2> SUFFICES ASSUME NEW k \in 0 .. N
               PROVE  g[k] = IF k = 0 THEN s ELSE ApplyEdit(g[k - 1], c[k])
    OBVIOUS
  <2>1. g[k] = IF k = 0 THEN s ELSE step[k][g[k - 1]]
    BY <1>7 DEF Iterates
  <2>2. CASE k = 0
    BY <2>1, <2>2
  <2>3. CASE k # 0
    <3>1. k \in 1 .. N /\ k - 1 \in 0 .. N
      BY <1>1, <2>3
    <3>2. g[k - 1] \in E
      BY <3>1
    <3>3. QED
      BY <1>5, <2>1, <2>3, <3>1, <3>2
  <2>4. QED
    BY <2>2, <2>3
<1>9. Unfolds(g)
  BY <1>8
<1>10. Unfolds(ch)
  <2> HIDE DEF Unfolds
  <2> QED  BY <1>9
<1>11. g = ch
  <2>1. \A k \in 0 .. N : g[k] = ch[k]
    <3> DEFINE P == {k \in 0 .. N : g[k] = ch[k]}
    <3>1. ch = [k \in 0 .. N |-> IF k = 0 THEN s ELSE ApplyEdit(ch[k - 1], c[k])]
      BY <1>10
    <3> HIDE DEF ch
    <3>2. 0 \in P
      BY <1>1, <1>8, <3>1
    <3>3. \A k \in 1 .. N : k - 1 \in P => k \in P
      BY <1>1, <1>8, <3>1
    <3> HIDE DEF P
    <3>4. \A k \in 0 .. N : k \in P
      BY <1>1, <3>2, <3>3, Climb
    <3>5. QED
      BY <3>4 DEF P
  <2>2. g \in [0 .. N -> E]
    OBVIOUS
  <2>3. ch = [k \in 0 .. N |-> ch[k]]
    <3>1. ch = [k \in 0 .. N |-> IF k = 0 THEN s ELSE ApplyEdit(ch[k - 1], c[k])]
      BY <1>10
    <3> HIDE DEF ch
    <3>2. QED
      BY <3>1
  <2> HIDE DEF ch
  <2>4. QED
    BY <2>1, <2>2, <2>3
<1>12. QED
  <2> HIDE DEF ch
  <2>1. g[0] = s /\ \A k \in 1 .. N : g[k] = ApplyEdit(g[k - 1], c[k])
    BY <1>1, <1>8
  <2>2. AppliedAll(s, c) = g[N]
    BY <1>3, <1>11
  <2>3. QED
    BY <2>1, <2>2 DEF E, N

\* Its undo, edit by edit.
LEMMA RolledIs ==
  ASSUME NEW W, NEW A, WalkOK(W, A), NEW s \in Edits(W, A), NEW c \in Seq(DOMAIN Edit), NEW n \in 0 .. Len(c)
  PROVE  \E g \in [0 .. n -> Edits(W, A)] :
           /\ g[0] = TakenUp(s) /\ \A k \in 1 .. n : g[k] = UndoEdit(g[k - 1], c[n - k + 1])
           /\ RolledBack(s, c, n) = g[n]
<1> DEFINE E == Edits(W, A)
           N == n
           base == TakenUp(s)
           step == [k \in 1 .. N |-> [x \in E |-> UndoEdit(x, c[n - k + 1])]]
           Unfolds(f) == f = [k \in 0 .. N |-> IF k = 0 THEN base ELSE UndoEdit(f[k - 1], c[n - k + 1])]
           ch == CHOOSE f : Unfolds(f)
<1>1. N \in Nat /\ \A k \in 1 .. N : c[n - k + 1] \in DOMAIN Edit
  OBVIOUS
<1>2. \A k \in 1 .. N, x \in E : UndoEdit(x, c[n - k + 1]) \in E
  BY <1>1, UndoEditIs
<1>3. RolledBack(s, c, n) = ch[N]
  BY DEF RolledBack, TakenUp
<1> HIDE DEF E, N, base
<1>4. step \in [1 .. N -> [E -> E]]
  BY <1>2
<1>5. \A k \in 1 .. N, x \in E : step[k][x] = UndoEdit(x, c[n - k + 1])
  OBVIOUS
<1> HIDE DEF step
<1>6. base \in E
  <2>1. base = TakenUp(s)
    BY DEF base
  <2>2. QED
    BY <2>1, TakenUpIs DEF E
<1>7. PICK g \in [0 .. N -> E] : Iterates(g, base, step, N)
  BY <1>1, <1>4, <1>6, IterationExists
<1>8. \A k \in 0 .. N : g[k] = IF k = 0 THEN base ELSE UndoEdit(g[k - 1], c[n - k + 1])
  <2> SUFFICES ASSUME NEW k \in 0 .. N
               PROVE  g[k] = IF k = 0 THEN base ELSE UndoEdit(g[k - 1], c[n - k + 1])
    OBVIOUS
  <2>1. g[k] = IF k = 0 THEN base ELSE step[k][g[k - 1]]
    BY <1>7 DEF Iterates
  <2>2. CASE k = 0
    BY <2>1, <2>2
  <2>3. CASE k # 0
    <3>1. k \in 1 .. N /\ k - 1 \in 0 .. N
      BY <1>1, <2>3
    <3>2. g[k - 1] \in E
      BY <3>1
    <3>3. QED
      BY <1>5, <2>1, <2>3, <3>1, <3>2
  <2>4. QED
    BY <2>2, <2>3
<1>9. Unfolds(g)
  BY <1>8
<1>10. Unfolds(ch)
  <2> HIDE DEF Unfolds
  <2> QED  BY <1>9
<1>11. g = ch
  <2>1. \A k \in 0 .. N : g[k] = ch[k]
    <3> DEFINE P == {k \in 0 .. N : g[k] = ch[k]}
    <3>1. ch = [k \in 0 .. N |-> IF k = 0 THEN base ELSE UndoEdit(ch[k - 1], c[n - k + 1])]
      BY <1>10
    <3> HIDE DEF ch
    <3>2. 0 \in P
      BY <1>1, <1>8, <3>1
    <3>3. \A k \in 1 .. N : k - 1 \in P => k \in P
      BY <1>1, <1>8, <3>1
    <3> HIDE DEF P
    <3>4. \A k \in 0 .. N : k \in P
      BY <1>1, <3>2, <3>3, Climb
    <3>5. QED
      BY <3>4 DEF P
  <2>2. g \in [0 .. N -> E]
    OBVIOUS
  <2>3. ch = [k \in 0 .. N |-> ch[k]]
    <3>1. ch = [k \in 0 .. N |-> IF k = 0 THEN base ELSE UndoEdit(ch[k - 1], c[n - k + 1])]
      BY <1>10
    <3> HIDE DEF ch
    <3>2. QED
      BY <3>1
  <2> HIDE DEF ch
  <2>4. QED
    BY <2>1, <2>2, <2>3
<1>12. QED
  <2> HIDE DEF ch
  <2>1. g[0] = base /\ \A k \in 1 .. N : g[k] = UndoEdit(g[k - 1], c[n - k + 1])
    BY <1>1, <1>8
  <2>2. RolledBack(s, c, n) = g[N]
    BY <1>3, <1>11
  <2>3. QED
    BY <2>1, <2>2 DEF E, N, base

\* The j-th edit of c was applied in g.
Spot(W, n) == The(Hung(W, Edit[n].path))
Noted(W, g, c, j) == <<Old(g[j - 1].tree, Edit[c[j]], Spot(W, c[j]))>>
Took(W, g, c, j) ==
  /\ ~Refused(g[j - 1].tree, Edit[c[j]])
  /\ g[j].tree = Edited(g[j - 1].tree, Edit[c[j]], Spot(W, c[j]))
  /\ g[j].before = Noting(g[j - 1].before, c[j], Noted(W, g, c, j))

\* What was applied of a compound is a prefix of it.
LEMMA AppliedPrefix ==
  ASSUME NEW W, NEW A, WalkOK(W, A), NEW s \in Edits(W, A), s.done = 0, s.ok, NEW c \in Seq(DOMAIN Edit),
         NEW g \in [0 .. Len(c) -> Edits(W, A)], g[0] = s, \A k \in 1 .. Len(c) : g[k] = ApplyEdit(g[k - 1], c[k])
  PROVE  LET d == g[Len(c)].done
         IN /\ d \in 0 .. Len(c) /\ g[Len(c)].tree = g[d].tree /\ g[Len(c)].before = g[d].before
            /\ g[Len(c)].ok => d = Len(c)
            /\ KeepsConfigs(s.tree, g[Len(c)].tree, A)
            /\ \A j \in 1 .. d : Took(W, g, c, j)
<1> DEFINE N == Len(c)
           Good(k) == LET d == g[k].done
                      IN /\ d \in 0 .. k /\ g[k].tree = g[d].tree /\ g[k].before = g[d].before
                         /\ g[k].ok => d = k
                         /\ KeepsConfigs(s.tree, g[k].tree, A)
                         /\ \A j \in 1 .. d : Took(W, g, c, j)
           P == {k \in 0 .. N : Good(k)}
<1>0. \A x \in Edits(W, A), n \in DOMAIN Edit :
        /\ KeepsConfigs(x.tree, ApplyEdit(x, n).tree, A)
        /\ \/ ~x.ok /\ ApplyEdit(x, n) = x
           \/ /\ ~ApplyEdit(x, n).ok /\ ApplyEdit(x, n).tree = x.tree /\ ApplyEdit(x, n).before = x.before
              /\ ApplyEdit(x, n).done = x.done
           \/ /\ x.ok /\ ~Refused(x.tree, Edit[n]) /\ ApplyEdit(x, n).ok /\ ApplyEdit(x, n).done = x.done + 1
              /\ ApplyEdit(x, n).tree = Edited(x.tree, Edit[n], Spot(W, n))
              /\ ApplyEdit(x, n).before = Noting(x.before, n, <<Old(x.tree, Edit[n], Spot(W, n))>>)
  BY ApplyEditIs DEF Spot
<1>1. N \in Nat /\ \A k \in 1 .. N : c[k] \in DOMAIN Edit
  OBVIOUS
<1>2. 0 \in P
  <2>1. KeepsConfigs(s.tree, s.tree, A)
    BY DEF KeepsConfigs
  <2>2. Good(0)
    BY <2>1
  <2>3. QED
    BY <1>1, <2>2
<1>3. ASSUME NEW k \in 1 .. N, k - 1 \in P PROVE k \in P
  <2> DEFINE n == c[k] x == g[k - 1] d == x.done
  <2>1. x \in Edits(W, A) /\ n \in DOMAIN Edit /\ k \in 0 .. N /\ k \in Nat /\ g[k] = ApplyEdit(x, n)
    BY <1>1
  <2> HIDE DEF x, n
  <2>2. /\ d \in 0 .. k - 1 /\ x.tree = g[d].tree /\ x.before = g[d].before
        /\ x.ok => d = k - 1
        /\ KeepsConfigs(s.tree, x.tree, A)
        /\ \A j \in 1 .. d : Took(W, g, c, j)
    BY <1>3 DEF x
  <2>3. /\ KeepsConfigs(x.tree, g[k].tree, A)
        /\ \/ ~x.ok /\ g[k] = x
           \/ ~g[k].ok /\ g[k].tree = x.tree /\ g[k].before = x.before /\ g[k].done = x.done
           \/ /\ x.ok /\ ~Refused(x.tree, Edit[n]) /\ g[k].ok /\ g[k].done = x.done + 1
              /\ g[k].tree = Edited(x.tree, Edit[n], Spot(W, n))
              /\ g[k].before = Noting(x.before, n, <<Old(x.tree, Edit[n], Spot(W, n))>>)
    BY <1>0, <2>1
  <2>4. KeepsConfigs(s.tree, g[k].tree, A)
    BY <2>2, <2>3, KeepsOn
  <2>5. CASE ~g[k].ok /\ g[k].tree = x.tree /\ g[k].before = x.before /\ g[k].done = x.done
    <3>1. Good(k)
      BY <2>1, <2>2, <2>4, <2>5
    <3>2. QED
      BY <2>1, <3>1
  <2>6. CASE /\ x.ok /\ ~Refused(x.tree, Edit[n]) /\ g[k].ok /\ g[k].done = x.done + 1
             /\ g[k].tree = Edited(x.tree, Edit[n], Spot(W, n))
             /\ g[k].before = Noting(x.before, n, <<Old(x.tree, Edit[n], Spot(W, n))>>)
    <3>1. Took(W, g, c, k)
      BY <2>6 DEF Took, Noted, x, n
    <3>2. g[k].done = k /\ k - 1 = d
      BY <2>1, <2>2, <2>6
    <3>3. \A j \in 1 .. k : j \in 1 .. k - 1 \/ j = k
      BY <2>1
    <3>4. \A j \in 1 .. k : Took(W, g, c, j)
      BY <2>2, <3>1, <3>2, <3>3
    <3>5. Good(k)
      BY <2>1, <2>4, <3>2, <3>4
    <3>6. QED
      BY <2>1, <3>5
  <2>7. QED
    BY <2>3, <2>5, <2>6
<1> HIDE DEF Good
<1>4. \A k \in 0 .. N : k \in P
  <2> HIDE DEF P, N
  <2> QED  BY <1>1, <1>2, <1>3, Climb
<1>5. Good(N)
  BY <1>1, <1>4
<1>6. QED
  BY <1>5 DEF Good

\* What the edits that were applied have noted is still noted: no edit is applied twice.
LEMMA NotedAll ==
  ASSUME NEW W, NEW A, NEW c \in Seq(DOMAIN Edit), IsInjective(c), NEW d \in 0 .. Len(c),
         NEW g \in [0 .. Len(c) -> Edits(W, A)], \A j \in 1 .. d : Took(W, g, c, j)
  PROVE  \A j \in 1 .. d : g[d].before[c[j]] = Noted(W, g, c, j)
<1> DEFINE Good(m) == \A j \in 1 .. m : g[m].before[c[j]] = Noted(W, g, c, j)
           P == {m \in 0 .. d : Good(m)}
<1>1. d \in Nat /\ Len(c) \in Nat /\ d <= Len(c) /\ \A k \in 1 .. Len(c) : c[k] \in DOMAIN Edit
  OBVIOUS
<1>2. 0 \in P
  BY <1>1
<1>3. ASSUME NEW m \in 1 .. d, m - 1 \in P PROVE m \in P
  <2>1. m \in 1 .. Len(c) /\ m - 1 \in 0 .. Len(c) /\ m \in 0 .. d /\ m \in Nat
    BY <1>1
  <2>2. g[m].before = [g[m - 1].before EXCEPT ![c[m]] = Noted(W, g, c, m)]
    BY DEF Took, Noting
  <2>3. DOMAIN g[m - 1].before = DOMAIN Edit /\ c[m] \in DOMAIN Edit
    <3>1. g[m - 1] \in Edits(W, A)
      BY <2>1
    <3>2. g[m - 1].before \in NotesOf(W)
      BY <3>1, EditsIs
    <3>3. c[m] \in DOMAIN Edit
      BY <1>1, <2>1
    <3>4. QED
      BY <3>2, <3>3, NotesAre
  <2>4. \A j \in 1 .. m - 1 : c[j] # c[m] /\ g[m - 1].before[c[j]] = Noted(W, g, c, j) /\ c[j] \in DOMAIN Edit
    <3>1. \A j \in 1 .. m - 1 : j \in 1 .. Len(c) /\ j # m
      BY <1>1, <2>1
    <3>2. \A i, j \in 1 .. Len(c) : c[i] = c[j] => i = j
      BY DEF IsInjective
    <3>3. QED
      BY <1>1, <1>3, <2>1, <3>1, <3>2
  <2>5. g[m].before[c[m]] = Noted(W, g, c, m)
    BY <2>2, <2>3
  <2>6. \A j \in 1 .. m - 1 : g[m].before[c[j]] = Noted(W, g, c, j)
    BY <2>2, <2>3, <2>4
  <2>7. \A j \in 1 .. m : j \in 1 .. m - 1 \/ j = m
    BY <2>1
  <2>8. Good(m)
    BY <2>5, <2>6, <2>7
  <2>9. QED
    BY <2>1, <2>8
<1> HIDE DEF Good
<1>4. \A m \in 0 .. d : m \in P
  <2> HIDE DEF P
  <2> QED  BY <1>1, <1>2, <1>3, Climb
<1>5. Good(d)
  BY <1>1, <1>4
<1>6. QED
  BY <1>5 DEF Good

\* The prefix undone, last edit first, leaves what was to be seen before.
LEMMA RollsBack ==
  ASSUME NEW W, NEW A, WalkOK(W, A), NEW c \in Seq(DOMAIN Edit), IsInjective(c), NEW d \in 0 .. Len(c),
         NEW g \in [0 .. Len(c) -> Edits(W, A)], \A j \in 1 .. d : Took(W, g, c, j),
         NEW x \in Edits(W, A), x.tree = g[d].tree, x.before = g[d].before
  PROVE  /\ RolledBack(x, c, d) \in Edits(W, A) /\ RolledBack(x, c, d).ok
         /\ LooksAlike(RolledBack(x, c, d).tree, g[0].tree, A)
<1>0. \A y \in Edits(W, A), n \in DOMAIN Edit :
        y.ok /\ y.before[n] # <<>> =>
          /\ UndoEdit(y, n).ok /\ UndoEdit(y, n).before = Noting(y.before, n, <<>>)
          /\ UndoEdit(y, n).tree = Restored(y.tree, Edit[n], Spot(W, n), Head(y.before[n]))
  BY UndoEditIs DEF Spot
<1>1. /\ d \in Nat /\ Len(c) \in Nat /\ d <= Len(c) /\ \A k \in 1 .. Len(c) : c[k] \in DOMAIN Edit
      /\ \A i, j \in 1 .. Len(c) : c[i] = c[j] => i = j
  BY DEF IsInjective
<1>2. PICK r \in [0 .. d -> Edits(W, A)] :
        /\ r[0] = TakenUp(x) /\ \A k \in 1 .. d : r[k] = UndoEdit(r[k - 1], c[d - k + 1])
        /\ RolledBack(x, c, d) = r[d]
  BY RolledIs
<1>3. \A j \in 1 .. d : g[d].before[c[j]] = Noted(W, g, c, j)
  BY NotedAll
<1> DEFINE Good(k) == /\ r[k].ok /\ LooksAlike(r[k].tree, g[d - k].tree, A)
                      /\ \A j \in 1 .. d - k : r[k].before[c[j]] = Noted(W, g, c, j)
           P == {k \in 0 .. d : Good(k)}
<1>4. 0 \in P
  <2>1. r[0].tree = x.tree /\ r[0].before = x.before /\ r[0].ok
    <3>1. r[0] = [tree |-> x.tree, before |-> x.before, done |-> x.done, ok |-> TRUE]
      BY <1>2, TakenUpIs
    <3>2. QED
      BY <3>1
  <2>2. d - 0 = d /\ LooksAlike(g[d].tree, g[d].tree, A)
    BY <1>1 DEF LooksAlike
  <2>3. Good(0)
    BY <1>3, <2>1, <2>2
  <2>4. QED
    BY <1>1, <2>3
<1>5. ASSUME NEW k \in 1 .. d, k - 1 \in P PROVE k \in P
  <2> DEFINE i == d - k + 1 y == r[k - 1] t == g[i - 1].tree
  <2>1. /\ i \in 1 .. d /\ i \in 1 .. Len(c) /\ i - 1 \in 0 .. Len(c) /\ i - 1 = d - k /\ i = d - (k - 1)
        /\ k \in 0 .. d /\ k - 1 \in 0 .. d
    BY <1>1
  <2> HIDE DEF i
  <2>2. y.ok /\ LooksAlike(y.tree, g[i].tree, A) /\ \A j \in 1 .. i : y.before[c[j]] = Noted(W, g, c, j)
    BY <1>5, <2>1
  <2>3. y \in Edits(W, A) /\ c[i] \in DOMAIN Edit /\ r[k] = UndoEdit(y, c[i])
    BY <1>1, <1>2, <2>1 DEF i
  <2>4. y.tree \in TreesOf(W, A) /\ y.before \in NotesOf(W) /\ t \in TreesOf(W, A)
    <3>1. g[i - 1] \in Edits(W, A)
      BY <2>1
    <3>2. QED
      BY <2>3, <3>1, EditsIs
  <2> HIDE DEF y
  <2>5. /\ ~Refused(t, Edit[c[i]]) /\ g[i].tree = Edited(t, Edit[c[i]], Spot(W, c[i]))
        /\ Noted(W, g, c, i) = <<Old(t, Edit[c[i]], Spot(W, c[i]))>>
    BY <2>1 DEF Took, Noted
  <2> HIDE DEF t
  <2>6. /\ y.before[c[i]] # <<>>
        /\ Head(y.before[c[i]]) = Old(t, Edit[c[i]], Spot(W, c[i]))
    <3>1. y.before[c[i]] = <<Old(t, Edit[c[i]], Spot(W, c[i]))>>
      BY <2>1, <2>2, <2>5
    <3>2. QED
      BY <3>1
  <2>7. /\ r[k].ok /\ r[k].before = Noting(y.before, c[i], <<>>)
        /\ r[k].tree = Restored(y.tree, Edit[c[i]], Spot(W, c[i]), Old(t, Edit[c[i]], Spot(W, c[i])))
    BY <1>0, <2>2, <2>3, <2>6
  <2>8. LooksAlike(r[k].tree, t, A)
    BY <2>2, <2>3, <2>4, <2>5, <2>7, EditUndone DEF Spot
  <2>9. \A j \in 1 .. i - 1 : r[k].before[c[j]] = Noted(W, g, c, j)
    <3>1. DOMAIN y.before = DOMAIN Edit
      BY <2>3, <2>4, NotesAre
    <3>2. \A j \in 1 .. i - 1 : j \in 1 .. i /\ j \in 1 .. Len(c) /\ c[j] # c[i] /\ c[j] \in DOMAIN Edit
      BY <1>1, <2>1
    <3>3. QED
      BY <2>2, <2>7, <3>1, <3>2 DEF Noting
  <2>10. Good(k)
    BY <2>1, <2>7, <2>8, <2>9 DEF t
  <2>11. QED
    BY <2>1, <2>10
<1> HIDE DEF Good
<1>6. \A k \in 0 .. d : k \in P
  <2> HIDE DEF P
  <2> QED  BY <1>1, <1>4, <1>5, Climb
<1>7. Good(d) /\ d \in 0 .. d /\ d - d = 0
  BY <1>1, <1>6
<1>8. QED
  BY <1>2, <1>7 DEF Good

LEMMA RolledKeeps ==
  ASSUME NEW W, NEW A, WalkOK(W, A), NEW s \in Edits(W, A), NEW c \in Seq(DOMAIN Edit), NEW n \in 0 .. Len(c)
  PROVE  RolledBack(s, c, n) \in Edits(W, A) /\ KeepsConfigs(s.tree, RolledBack(s, c, n).tree, A)
<1>0. \A x \in Edits(W, A), m \in DOMAIN Edit :
        UndoEdit(x, m) \in Edits(W, A) /\ KeepsConfigs(x.tree, UndoEdit(x, m).tree, A)
  BY UndoEditIs
<1>1. n \in Nat /\ Len(c) \in Nat /\ n <= Len(c) /\ \A k \in 1 .. Len(c) : c[k] \in DOMAIN Edit
  OBVIOUS
<1>2. PICK r \in [0 .. n -> Edits(W, A)] :
        /\ r[0] = TakenUp(s) /\ \A k \in 1 .. n : r[k] = UndoEdit(r[k - 1], c[n - k + 1])
        /\ RolledBack(s, c, n) = r[n]
  BY RolledIs
<1> DEFINE P == {k \in 0 .. n : KeepsConfigs(s.tree, r[k].tree, A)}
<1>3. 0 \in P
  <2>1. r[0] = [tree |-> s.tree, before |-> s.before, done |-> s.done, ok |-> TRUE]
    BY <1>2, TakenUpIs
  <2>2. r[0].tree = s.tree
    BY <2>1
  <2>3. QED
    BY <1>1, <2>2 DEF KeepsConfigs
<1>4. ASSUME NEW k \in 1 .. n, k - 1 \in P PROVE k \in P
  <2>1. k \in 0 .. n /\ k - 1 \in 0 .. n /\ n - k + 1 \in 1 .. Len(c)
    BY <1>1
  <2>2. KeepsConfigs(s.tree, r[k - 1].tree, A) /\ r[k - 1] \in Edits(W, A)
    BY <1>4, <2>1
  <2>3. KeepsConfigs(r[k - 1].tree, r[k].tree, A)
    BY <1>0, <1>1, <1>2, <2>1, <2>2
  <2>4. QED
    BY <2>1, <2>2, <2>3, KeepsOn
<1>5. \A k \in 0 .. n : k \in P
  <2> HIDE DEF P
  <2> QED  BY <1>1, <1>3, <1>4, Climb
<1>6. QED
  BY <1>1, <1>2, <1>5

LEMMA UndoIs ==
  ASSUME NEW W, NEW A, WalkOK(W, A), NEW t \in TreesOf(W, A), NEW b \in NotesOf(W),
         NEW c \in Seq(DOMAIN Edit), NEW n \in 0 .. Len(c)
  PROVE  /\ Undo(t, b, c, n).tree \in TreesOf(W, A) /\ Undo(t, b, c, n).before \in NotesOf(W)
         /\ KeepsConfigs(t, Undo(t, b, c, n).tree, A)
<1> DEFINE s == [tree |-> t, before |-> b, done |-> n, ok |-> TRUE]
<1>1. s \in Edits(W, A) /\ s.tree = t
  BY DEF Edits
<1>2. Undo(t, b, c, n) = RolledBack(s, c, n)
  BY DEF Undo
<1> HIDE DEF s
<1>3. RolledBack(s, c, n) \in Edits(W, A) /\ KeepsConfigs(t, RolledBack(s, c, n).tree, A)
  BY <1>1, RolledKeeps
<1>4. QED
  BY <1>2, <1>3, EditsIs

LEMMA ApplyCompoundIs ==
  ASSUME NEW W, NEW A, WalkOK(W, A), NEW t \in TreesOf(W, A), NEW b \in NotesOf(W), NEW c \in Compounds,
         NEW r, r = ApplyCompound(t, b, c)
  PROVE  /\ r.tree \in TreesOf(W, A) /\ r.before \in NotesOf(W) /\ r.done \in 0 .. Len(c)
         /\ KeepsConfigs(t, r.tree, A)
         /\ r.ok => LooksAlike(Undo(r.tree, r.before, c, r.done).tree, t, A)
         /\ ~r.ok => LooksAlike(r.tree, t, A)
<1> DEFINE s0 == [tree |-> t, before |-> b, done |-> 0, ok |-> TRUE]
           s == AppliedAll(s0, c)
           back == RolledBack(s, c, s.done)
<1>1. c \in Seq(DOMAIN Edit) /\ IsInjective(c) /\ Len(c) \in Nat
  BY AgentTreeAssumption
<1>2. s0 \in Edits(W, A) /\ s0.tree = t /\ s0.done = 0 /\ s0.ok
  BY DEF Edits
<1>3. r = IF s.ok THEN s ELSE [back EXCEPT !.done = IF back.ok THEN 0 ELSE s.done, !.ok = FALSE]
  BY DEF ApplyCompound
<1> HIDE DEF s0
<1>4. PICK g \in [0 .. Len(c) -> Edits(W, A)] :
        g[0] = s0 /\ (\A k \in 1 .. Len(c) : g[k] = ApplyEdit(g[k - 1], c[k])) /\ s = g[Len(c)]
  BY <1>1, <1>2, AppliedIs
<1> DEFINE d == s.done
<1> HIDE DEF s
<1>5. /\ d \in 0 .. Len(c) /\ s.tree = g[d].tree /\ s.before = g[d].before
      /\ KeepsConfigs(t, s.tree, A) /\ \A j \in 1 .. d : Took(W, g, c, j)
  <2> DEFINE e == g[Len(c)].done
  <2>1. /\ e \in 0 .. Len(c) /\ g[Len(c)].tree = g[e].tree /\ g[Len(c)].before = g[e].before
        /\ KeepsConfigs(s0.tree, g[Len(c)].tree, A) /\ \A j \in 1 .. e : Took(W, g, c, j)
    BY <1>1, <1>2, <1>4, AppliedPrefix
  <2>2. e = d
    BY <1>4
  <2> HIDE DEF e, d
  <2>3. QED
    BY <1>2, <1>4, <2>1, <2>2
<1>6. s \in Edits(W, A)
  BY <1>1, <1>4
<1>7. /\ s.tree \in TreesOf(W, A) /\ s.before \in NotesOf(W) /\ s.ok \in BOOLEAN
  BY <1>6, EditsIs
<1>8. g[0].tree = t
  BY <1>2, <1>4
<1> HIDE DEF d
<1>9. CASE s.ok
  <2> DEFINE x == [tree |-> s.tree, before |-> s.before, done |-> d, ok |-> TRUE]
  <2>1. x \in Edits(W, A) /\ x.tree = g[d].tree /\ x.before = g[d].before
    BY <1>1, <1>5, <1>7 DEF Edits
  <2>2. Undo(s.tree, s.before, c, d) = RolledBack(x, c, d)
    BY DEF Undo
  <2> HIDE DEF x
  <2>3. LooksAlike(RolledBack(x, c, d).tree, g[0].tree, A)
    BY <1>1, <1>5, <2>1, RollsBack
  <2>4. r = s
    BY <1>3, <1>9
  <2>5. QED
    BY <1>5, <1>7, <1>8, <1>9, <2>2, <2>3, <2>4 DEF d
<1>10. CASE ~s.ok
  <2>1. back \in Edits(W, A) /\ back.ok /\ LooksAlike(back.tree, t, A)
    BY <1>1, <1>5, <1>6, <1>8, RollsBack DEF d
  <2>2. KeepsConfigs(s.tree, back.tree, A)
    BY <1>1, <1>5, <1>6, RolledKeeps DEF d
  <2> HIDE DEF back
  <2>3. r = [back EXCEPT !.done = IF back.ok THEN 0 ELSE s.done, !.ok = FALSE]
    BY <1>3, <1>10
  <2>4. /\ back = [tree |-> back.tree, before |-> back.before, done |-> back.done, ok |-> back.ok]
        /\ back.tree \in TreesOf(W, A) /\ back.before \in NotesOf(W)
    BY <2>1, EditsIs
  <2>5. r.tree = back.tree /\ r.before = back.before /\ r.done = 0 /\ ~r.ok
    BY <2>1, <2>3, <2>4
  <2>6. KeepsConfigs(t, back.tree, A)
    BY <1>5, <2>2, KeepsOn
  <2>7. QED
    BY <1>1, <2>1, <2>4, <2>5, <2>6
<1>11. QED
  BY <1>7, <1>9, <1>10

-----------------------------------------------------------------------------
(* The state of a tree *)

PathsIn(W) == {W[i].path : i \in DOMAIN W}

LEMMA StateIs ==
  ASSUME NEW W, NEW A, WalkOK(W, A), NEW t \in TreesOf(W, A)
  PROVE  /\ DOMAIN State(t) = PathsIn(W)
         /\ State(t) = [p \in PathsIn(W) |-> State(t)[p]]
         /\ \A i \in DOMAIN W : State(t)[W[i].path] = Fields(t, W[i].agent)
<1>1. t.walk = W
  BY TreeIs
<1>2. {w.path : w \in ToSet(W)} = PathsIn(W) /\ \A i \in DOMAIN W : W[i].path \in PathsIn(W)
  BY DEF ToSet, PathsIn
<1>3. State(t) = [p \in PathsIn(W) |-> Fields(t, The(Resolve(t, p)))]
  BY <1>1, <1>2 DEF State
<1>4. ASSUME NEW i \in DOMAIN W PROVE The(Resolve(t, W[i].path)) = W[i].agent
  <2>1. Resolve(t, W[i].path) = {W[i].agent}
    BY <1>1 DEF Resolve, WalkOK
  <2>2. QED
    BY <2>1 DEF The
<1>5. QED
  BY <1>2, <1>3, <1>4

LEMMA StateSame ==
  ASSUME NEW W, NEW A, WalkOK(W, A), NEW t \in TreesOf(W, A), NEW u \in TreesOf(W, A), LooksAlike(t, u, A)
  PROVE  State(t) = State(u)
<1>1. \A i \in DOMAIN W : W[i].agent \in A
  BY DEF WalkOK
<1>2. \A a \in A : Fields(t, a) = Fields(u, a)
  BY DEF LooksAlike, Fields
<1>3. \A i \in DOMAIN W : State(t)[W[i].path] = State(u)[W[i].path]
  <2>1. \A i \in DOMAIN W : State(t)[W[i].path] = Fields(t, W[i].agent)
    BY StateIs
  <2>2. \A i \in DOMAIN W : State(u)[W[i].path] = Fields(u, W[i].agent)
    BY StateIs
  <2>3. QED
    BY <1>1, <1>2, <2>1, <2>2
<1> DEFINE D == PathsIn(W)
<1>4. \A p \in D : State(t)[p] = State(u)[p]
  BY <1>3 DEF PathsIn
<1>5. State(t) = [p \in D |-> State(t)[p]] /\ State(u) = [p \in D |-> State(u)[p]]
  BY StateIs
<1>6. QED
  <2> HIDE DEF D
  <2> QED  BY <1>4, <1>5

\* If apply fails partway what was applied is undone, and so does undo().
LEMMA CompoundsAreUndone ==
  ASSUME NEW W, NEW A, WalkOK(W, A), NEW t \in TreesOf(W, A), NEW b \in NotesOf(W), NEW c \in Compounds,
         NEW s, s = ApplyCompound(t, b, c)
  PROVE  State(IF s.ok THEN Undo(s.tree, s.before, c, s.done).tree ELSE s.tree) = State(t)
<1>1. /\ s.tree \in TreesOf(W, A) /\ s.before \in NotesOf(W) /\ s.done \in 0 .. Len(c)
      /\ s.ok => LooksAlike(Undo(s.tree, s.before, c, s.done).tree, t, A)
      /\ ~s.ok => LooksAlike(s.tree, t, A)
  BY ApplyCompoundIs
<1>2. CASE s.ok
  <2>1. Undo(s.tree, s.before, c, s.done).tree \in TreesOf(W, A)
    BY <1>1, AgentTreeAssumption, UndoIs
  <2>2. QED
    BY <1>1, <1>2, <2>1, StateSame
<1>3. CASE ~s.ok
  BY <1>1, <1>3, StateSame
<1>4. QED
  BY <1>2, <1>3

-----------------------------------------------------------------------------
(* clone and load_state *)

LEMMA WalkIs ==
  ASSUME NEW W, NEW A, WellHung(W, A)
  PROVE  /\ DOMAIN W = 1 .. Len(W) /\ Len(W) \in Nat /\ Len(W) < Configs
         /\ \A i \in DOMAIN W :
              /\ W[i] = [path |-> W[i].path, agent |-> W[i].agent, chain |-> W[i].chain]
              /\ W[i].agent = Last(W[i].chain) /\ W[i].agent \in A
         /\ \A i, j \in DOMAIN W : W[i].path = W[j].path => W[i] = W[j]
         /\ A = {W[i].agent : i \in DOMAIN W}
<1>1. W \in Seq(ToSet(W)) /\ Len(W) < Configs
  BY DEF WellHung
<1>2. DOMAIN W = 1 .. Len(W) /\ Len(W) \in Nat
  BY <1>1
<1>3. ToSet(W) = {W[i] : i \in DOMAIN W}
  BY DEF ToSet
<1>4. A = {W[i].agent : i \in DOMAIN W}
  BY <1>3 DEF WellHung
<1>5. \A i \in DOMAIN W : W[i] \in ToSet(W)
  BY <1>3
<1>6. QED
  BY <1>1, <1>2, <1>4, <1>5 DEF WellHung

\* What is seen at the places of a walk is no more than the places.
LEMMA FewOf ==
  ASSUME NEW N \in Nat, N < Configs, NEW f, DOMAIN f = 1 .. N, NEW A, A = {f[i] : i \in 1 .. N}
  PROVE  IsFiniteSet(A) /\ Cardinality(A) < Configs
<1> DEFINE h == [i \in 1 .. N |-> f[i]]
<1>1. IsFiniteSet(1 .. N) /\ Cardinality(1 .. N) = N
  BY FS_Interval
<1>2. h \in Surjection(1 .. N, A)
  BY DEF Surjection
<1> HIDE DEF h
<1>3. IsFiniteSet(A) /\ Cardinality(A) <= Cardinality(1 .. N)
  BY <1>1, <1>2, FS_Surjection
<1>4. Cardinality(A) \in Nat
  BY <1>3, FS_CardinalityType
<1>5. QED
  BY <1>1, <1>3, <1>4, AgentTreeAssumption

LEMMA HungWell ==
  ASSUME NEW W, NEW A, WellHung(W, A)
  PROVE  WalkOK(W, A)
<1> DEFINE f == [i \in 1 .. Len(W) |-> W[i].agent]
<1>1. /\ DOMAIN W = 1 .. Len(W) /\ Len(W) \in Nat /\ Len(W) < Configs
      /\ \A i \in DOMAIN W : W[i].agent \in A
      /\ \A i, j \in DOMAIN W : W[i].path = W[j].path => W[i] = W[j]
      /\ A = {W[i].agent : i \in DOMAIN W}
  BY WalkIs
<1>2. A = {f[i] : i \in 1 .. Len(W)}
  BY <1>1
<1>3. IsFiniteSet(A) /\ Cardinality(A) < Configs
  <2>1. DOMAIN f = 1 .. Len(W)
    OBVIOUS
  <2> HIDE DEF f
  <2>2. Len(W) \in Nat /\ Len(W) < Configs
    BY <1>1
  <2>3. QED
    BY <1>2, <2>1, <2>2, FewOf
<1>4. QED
  BY <1>1, <1>3 DEF WalkOK

LEMMA NumberedIs ==
  ASSUME NEW A, IsFiniteSet(A), Cardinality(A) < Configs
  PROVE  Numbered(A) \in [A -> Objects] /\ \A a, b \in A : Numbered(A)[a] = Numbered(A)[b] => a = b
<1>1. Cardinality(A) \in Nat
  BY FS_CardinalityType
<1>2. ExistsBijection(A, 1 .. Cardinality(A))
  <2>1. IsFiniteSet(1 .. Cardinality(A)) /\ Cardinality(1 .. Cardinality(A)) = Cardinality(A)
    BY <1>1, FS_Interval
  <2>2. QED
    BY <2>1, FS_SameCardinalityBij
<1>3. PICK n : n \in Bijection(A, 1 .. Cardinality(A))
  BY <1>2 DEF ExistsBijection
<1>4. n \in [A -> 1 .. Cardinality(A)] /\ IsInjective(n)
  BY <1>3 DEF Bijection, Injection
<1>5. Numbered(A) \in [A -> 1 .. Cardinality(A)] /\ IsInjective(Numbered(A))
  BY <1>4 DEF Numbered
<1>6. 1 .. Cardinality(A) \subseteq Objects
  BY <1>1, AgentTreeAssumption DEF Objects
<1>7. QED
  BY <1>5, <1>6 DEF IsInjective

LEMMA SeparateIs ==
  ASSUME NEW A, IsFiniteSet(A), Cardinality(A) < Configs, NEW temp \in [A -> Nat],
         NEW own, own = Separate(A, temp)
  PROVE  /\ own.cfg \in [A -> Objects \cup {NoConfig}] /\ own.temp \in [Objects -> Nat]
         /\ \A a \in A : own.cfg[a] # NoConfig <=> temp[a] # NoConfig
         /\ \A a \in A : own.cfg[a] # NoConfig => own.temp[own.cfg[a]] = temp[a]
<1> DEFINE n == Numbered(A)
           cfg == [a \in A |-> IF temp[a] = NoConfig THEN NoConfig ELSE n[a]]
           at(o) == CHOOSE a \in A : n[a] = o
           tem == [o \in Objects |-> IF \E a \in A : n[a] = o THEN temp[at(o)] ELSE NoConfig]
<1>1. n \in [A -> Objects] /\ \A a, b \in A : n[a] = n[b] => a = b
  BY NumberedIs
<1>2. own = [cfg |-> cfg, temp |-> tem]
  BY DEF Separate
<1> HIDE DEF n
<1>3. NoConfig \notin Objects /\ NoConfig \in Nat
  BY AgentTreeAssumption DEF Objects, NoConfig
<1>4. cfg \in [A -> Objects \cup {NoConfig}]
  BY <1>1
<1>5. \A o \in Objects : (\E a \in A : n[a] = o) => at(o) \in A /\ n[at(o)] = o
  OBVIOUS
<1> HIDE DEF at
<1>6. tem \in [Objects -> Nat]
  BY <1>3, <1>5
<1>7. \A a \in A : at(n[a]) = a
  BY <1>1, <1>5
<1>8. \A a \in A : tem[n[a]] = temp[a]
  BY <1>1, <1>7
<1>9. \A a \in A : cfg[a] = IF temp[a] = NoConfig THEN NoConfig ELSE n[a]
  OBVIOUS
<1> HIDE DEF tem, cfg
<1>10. own.cfg = cfg /\ own.temp = tem
  BY <1>2
<1>11. \A a \in A : cfg[a] # NoConfig <=> temp[a] # NoConfig
  BY <1>1, <1>3, <1>9
<1>12. QED
  BY <1>4, <1>6, <1>8, <1>9, <1>10, <1>11

\* The walk of a clone, and its agents.
Cloned(W) == [i \in DOMAIN W |-> [W[i] EXCEPT !.agent = W[i].chain]]
Chains(W) == {W[i].chain : i \in DOMAIN W}

LEMMA CloneIs ==
  ASSUME NEW W, NEW A, WellHung(W, A), NEW t \in TreesOf(W, A)
  PROVE  /\ WalkOK(Cloned(W), Chains(W)) /\ CloneOf(t) \in TreesOf(Cloned(W), Chains(W))
         /\ DOMAIN Cloned(W) = DOMAIN W
         /\ \A i \in DOMAIN W : /\ Cloned(W)[i].path = W[i].path /\ Cloned(W)[i].agent = W[i].chain
                                /\ Temperature(CloneOf(t), W[i].chain) = Temperature(t, W[i].agent)
<1> DEFINE V == Cloned(W)
           C == Chains(W)
           temp == [c \in C |-> Temperature(t, Last(c))]
           own == Separate(C, temp)
           role == [c \in C |-> t.role[Last(c)]]
           rules == [c \in C |-> t.rules[Last(c)]]
<1>1. /\ DOMAIN W = 1 .. Len(W) /\ Len(W) \in Nat /\ Len(W) < Configs
      /\ \A i \in DOMAIN W :
           /\ W[i] = [path |-> W[i].path, agent |-> W[i].agent, chain |-> W[i].chain]
           /\ W[i].agent = Last(W[i].chain) /\ W[i].agent \in A
      /\ \A i, j \in DOMAIN W : W[i].path = W[j].path => W[i] = W[j]
  BY WalkIs
<1>2. /\ t.walk = W /\ t.role \in [A -> Nat] /\ t.rules \in [A -> Seq(Nat)]
      /\ \A a \in A : Temperature(t, a) \in Nat
  BY TreeIs
<1>3. DOMAIN V = DOMAIN W /\ \A i \in DOMAIN W : V[i].path = W[i].path /\ V[i].agent = W[i].chain
  <2>1. DOMAIN V = DOMAIN W /\ \A i \in DOMAIN W : V[i] = [W[i] EXCEPT !.agent = W[i].chain]
    BY DEF Cloned
  <2>2. ASSUME NEW i \in DOMAIN W PROVE V[i].path = W[i].path /\ V[i].agent = W[i].chain
    <3>1. V[i] = [W[i] EXCEPT !.agent = W[i].chain]
      BY <2>1
    <3>2. W[i] = [path |-> W[i].path, agent |-> W[i].agent, chain |-> W[i].chain]
      BY <1>1
    <3> HIDE DEF V
    <3>3. QED
      BY <3>1, <3>2
  <2>3. QED
    BY <2>1, <2>2
<1>4. Len(V) = Len(W)
  BY <1>1, <1>3
<1>5. IsFiniteSet(C) /\ Cardinality(C) < Configs
  <2> DEFINE f == [i \in 1 .. Len(W) |-> W[i].chain]
  <2>1. C = {f[i] : i \in 1 .. Len(W)} /\ DOMAIN f = 1 .. Len(W)
    BY <1>1 DEF Chains
  <2> HIDE DEF f
  <2>2. QED
    BY <1>1, <2>1, FewOf
<1>6. \A c \in C : Last(c) \in A /\ \E i \in DOMAIN W : c = W[i].chain
  BY <1>1 DEF Chains
<1>7. \A i \in DOMAIN W : W[i].chain \in C /\ Last(W[i].chain) = W[i].agent
  BY <1>1 DEF Chains
<1> HIDE DEF V, C
<1>8. WalkOK(V, C)
  <2>1. \A i \in DOMAIN V : V[i].agent \in C
    BY <1>3, <1>7
  <2>2. \A i, j \in DOMAIN V : V[i].path = V[j].path => V[i].agent = V[j].agent
    BY <1>1, <1>3
  <2>3. QED
    BY <1>1, <1>3, <1>4, <1>5, <2>1, <2>2 DEF WalkOK
<1>9. temp \in [C -> Nat] /\ role \in [C -> Nat] /\ rules \in [C -> Seq(Nat)]
  BY <1>2, <1>6
<1>10. CloneOf(t) = [walk |-> V, role |-> role, rules |-> rules, cfg |-> own.cfg, temp |-> own.temp]
  <2>1. C = {w.chain : w \in ToSet(W)}
    BY DEF ToSet, C, Chains
  <2>2. QED
    BY <1>2, <2>1 DEF CloneOf, V, Cloned
<1>11. \A i \in DOMAIN W : temp[W[i].chain] = Temperature(t, W[i].agent)
  BY <1>7
<1> HIDE DEF temp, role, rules
<1>12. /\ own.cfg \in [C -> Objects \cup {NoConfig}] /\ own.temp \in [Objects -> Nat]
       /\ \A a \in C : own.cfg[a] # NoConfig <=> temp[a] # NoConfig
       /\ \A a \in C : own.cfg[a] # NoConfig => own.temp[own.cfg[a]] = temp[a]
  BY <1>5, <1>9, SeparateIs
<1> HIDE DEF own
<1>13. CloneOf(t) \in TreesOf(V, C)
  <2> DEFINE cfg == own.cfg tem == own.temp
  <2>0. /\ cfg \in [C -> Objects \cup {NoConfig}] /\ tem \in [Objects -> Nat]
        /\ \A a \in C : cfg[a] # NoConfig => tem[cfg[a]] # NoConfig
    BY <1>12
  <2> HIDE DEF cfg, tem
  <2>1. [walk |-> V, role |-> role, rules |-> rules, cfg |-> cfg, temp |-> tem] \in TreesOf(V, C)
    BY <1>9, <2>0, TreeMade
  <2>2. QED
    BY <1>10, <2>1 DEF cfg, tem
<1>14. CloneOf(t).cfg = own.cfg /\ CloneOf(t).temp = own.temp
  BY <1>10
<1>15. \A a \in C : Temperature(CloneOf(t), a) = temp[a]
  BY <1>12, <1>14 DEF Temperature
<1>16. QED
  BY <1>3, <1>7, <1>8, <1>11, <1>13, <1>15 DEF V, C

LEMMA LastPathIs ==
  ASSUME NEW W, NEW A, WellHung(W, A), NEW t \in TreesOf(W, A), NEW a \in A
  PROVE  \E i \in DOMAIN W : W[i].agent = a /\ LastPath(t, a) = W[i].path
<1> DEFINE at == {i \in DOMAIN W : W[i].agent = a}
           k == CHOOSE i \in at : \A j \in at : j <= i
<1>1. t.walk = W
  BY TreeIs
<1>2. DOMAIN W = 1 .. Len(W) /\ Len(W) \in Nat /\ A = {W[i].agent : i \in DOMAIN W}
  BY WalkIs
<1>3. at # {} /\ at \subseteq 1 .. Len(W)
  BY <1>2
<1>4. LastPath(t, a) = W[k].path
  BY <1>1 DEF LastPath
<1>5. \E i \in at : \A j \in at : j <= i
  <2>1. \E i \in at : \A j \in at : i >= j
    <3> HIDE DEF at
    <3> QED  BY <1>2, <1>3, BoundedMax
  <2>2. QED
    BY <1>3, <2>1
<1>6. k \in at
  <2> HIDE DEF at
  <2> QED  BY <1>5
<1> HIDE DEF k
<1>7. QED
  BY <1>4, <1>6

LEMMA LoadIs ==
  ASSUME NEW W, NEW A, WellHung(W, A), NEW t \in TreesOf(W, A), NEW st,
         \A i \in DOMAIN W : /\ st[W[i].path].role \in Nat /\ st[W[i].path].rules \in Seq(Nat)
                             /\ st[W[i].path].temp \in Nat,
         NEW l, l = LoadState(t, st)
  PROVE  /\ l \in TreesOf(W, A)
         /\ \A a \in A : /\ l.role[a] = st[LastPath(t, a)].role /\ l.rules[a] = st[LastPath(t, a)].rules
                         /\ Temperature(l, a) = st[LastPath(t, a)].temp
<1> DEFINE got == [a \in A |-> st[LastPath(t, a)]]
           role == [a \in A |-> got[a].role]
           rules == [a \in A |-> got[a].rules]
           temp == [a \in A |-> got[a].temp]
           own == Separate(A, temp)
<1>1. /\ t.walk = W /\ Agents(t) = A
      /\ t = [walk |-> t.walk, role |-> t.role, rules |-> t.rules, cfg |-> t.cfg, temp |-> t.temp]
  BY TreeIs
<1>2. IsFiniteSet(A) /\ Cardinality(A) < Configs
  BY HungWell DEF WalkOK
<1>3. \A a \in A : got[a].role \in Nat /\ got[a].rules \in Seq(Nat) /\ got[a].temp \in Nat
  <2>1. \A a \in A : got[a] = st[LastPath(t, a)]
    OBVIOUS
  <2>2. \A a \in A : \E i \in DOMAIN W : W[i].agent = a /\ LastPath(t, a) = W[i].path
    BY LastPathIs
  <2>3. QED
    BY <2>1, <2>2
<1>4. temp \in [A -> Nat] /\ role \in [A -> Nat] /\ rules \in [A -> Seq(Nat)]
  BY <1>3
<1>5. l = [t EXCEPT !.role = role, !.rules = rules, !.cfg = own.cfg, !.temp = own.temp]
  BY <1>1 DEF LoadState
<1>6. /\ \A a \in A : temp[a] = st[LastPath(t, a)].temp
      /\ \A a \in A : role[a] = st[LastPath(t, a)].role
      /\ \A a \in A : rules[a] = st[LastPath(t, a)].rules
  OBVIOUS
<1> HIDE DEF got, role, rules, temp
<1>7. /\ own.cfg \in [A -> Objects \cup {NoConfig}] /\ own.temp \in [Objects -> Nat]
      /\ \A a \in A : own.cfg[a] # NoConfig <=> temp[a] # NoConfig
      /\ \A a \in A : own.cfg[a] # NoConfig => own.temp[own.cfg[a]] = temp[a]
  BY <1>2, <1>4, SeparateIs
<1> HIDE DEF own
<1>8. l = [walk |-> W, role |-> role, rules |-> rules, cfg |-> own.cfg, temp |-> own.temp]
  BY <1>1, <1>5
<1>9. l \in TreesOf(W, A)
  <2> DEFINE cfg == own.cfg tem == own.temp
  <2>0. /\ cfg \in [A -> Objects \cup {NoConfig}] /\ tem \in [Objects -> Nat]
        /\ \A a \in A : cfg[a] # NoConfig => tem[cfg[a]] # NoConfig
    BY <1>7
  <2> HIDE DEF cfg, tem
  <2>1. [walk |-> W, role |-> role, rules |-> rules, cfg |-> cfg, temp |-> tem] \in TreesOf(W, A)
    BY <1>4, <2>0, TreeMade
  <2>2. QED
    BY <1>8, <2>1 DEF cfg, tem
<1>10. l.cfg = own.cfg /\ l.temp = own.temp /\ l.role = role /\ l.rules = rules
  BY <1>8
<1>11. \A a \in A : Temperature(l, a) = temp[a]
  BY <1>7, <1>10 DEF Temperature
<1>12. QED
  BY <1>6, <1>9, <1>10, <1>11

-----------------------------------------------------------------------------
(* What EvoGradient found *)

NoNotes == [n \in DOMAIN Edit |-> <<>>]

LEMMA NoNotesAre == ASSUME NEW W PROVE NoNotes \in NotesOf(W)
<1>1. <<>> \in Seq(Nat \cup Seq(Nat))
  OBVIOUS
<1>2. QED
  BY <1>1 DEF NoNotes, NotesOf

LEMMA FoundIs ==
  ASSUME NEW W, NEW A, WellHung(W, A), NEW t \in TreesOf(W, A), NEW c \in Compounds,
         NEW m, m = ApplyCompound(CloneOf(t), NoNotes, c), NEW l, l = LoadState(t, State(m.tree))
  PROVE  /\ l \in TreesOf(W, A) /\ KeepsConfigs(t, l, A)
         /\ DOMAIN State(m.tree) = PathsIn(W)
         /\ State(m.tree) = [p \in PathsIn(W) |-> State(m.tree)[p]]
         /\ \A i \in DOMAIN W : State(m.tree)[W[i].path] = Fields(m.tree, W[i].chain)
         /\ \A a \in A : \E j \in DOMAIN W : W[j].agent = a /\ Fields(l, a) = State(m.tree)[W[j].path]
<1> DEFINE V == Cloned(W)
           C == Chains(W)
           st == State(m.tree)
<1>1. /\ WalkOK(V, C) /\ CloneOf(t) \in TreesOf(V, C) /\ DOMAIN V = DOMAIN W
      /\ \A i \in DOMAIN W : /\ V[i].path = W[i].path /\ V[i].agent = W[i].chain
                             /\ Temperature(CloneOf(t), W[i].chain) = Temperature(t, W[i].agent)
  BY CloneIs
<1>2. NoNotes \in NotesOf(V)
  BY NoNotesAre
<1>3. m.tree \in TreesOf(V, C) /\ KeepsConfigs(CloneOf(t), m.tree, C)
  BY <1>1, <1>2, ApplyCompoundIs
<1>4. \A i \in DOMAIN W : W[i].chain \in C
  BY DEF Chains
<1> HIDE DEF V, C, st
<1>5. PathsIn(V) = PathsIn(W)
  BY <1>1 DEF PathsIn
<1>6. /\ DOMAIN st = PathsIn(W)
      /\ st = [p \in PathsIn(W) |-> st[p]]
  <2>1. DOMAIN st = PathsIn(V) /\ st = [p \in PathsIn(V) |-> st[p]]
    BY <1>1, <1>3, StateIs DEF st
  <2>2. QED
    BY <1>5, <2>1
<1>7. \A i \in DOMAIN W : st[W[i].path] = Fields(m.tree, W[i].chain)
  <2>1. \A i \in DOMAIN V : st[V[i].path] = Fields(m.tree, V[i].agent)
    BY <1>1, <1>3, StateIs DEF st
  <2>2. QED
    BY <1>1, <2>1
<1>8. \A b \in C : /\ m.tree.role[b] \in Nat /\ m.tree.rules[b] \in Seq(Nat) /\ Temperature(m.tree, b) \in Nat
                   /\ Temperature(m.tree, b) = NoConfig <=> m.tree.cfg[b] = NoConfig
                   /\ Temperature(CloneOf(t), b) = NoConfig <=> CloneOf(t).cfg[b] = NoConfig
  <2>1. /\ m.tree.role \in [C -> Nat] /\ m.tree.rules \in [C -> Seq(Nat)]
        /\ \A b \in C : Temperature(m.tree, b) \in Nat /\ (Temperature(m.tree, b) = NoConfig <=> m.tree.cfg[b] = NoConfig)
    BY <1>3, TreeIs
  <2>2. \A b \in C : Temperature(CloneOf(t), b) = NoConfig <=> CloneOf(t).cfg[b] = NoConfig
    BY <1>1, TreeIs
  <2>3. QED
    BY <2>1, <2>2
<1>9. \A i \in DOMAIN W : /\ st[W[i].path].role = m.tree.role[W[i].chain] /\ st[W[i].path].rules = m.tree.rules[W[i].chain]
                          /\ st[W[i].path].temp = Temperature(m.tree, W[i].chain)
                          /\ st[W[i].path] = [role |-> st[W[i].path].role, rules |-> st[W[i].path].rules, temp |-> st[W[i].path].temp]
  <2> SUFFICES ASSUME NEW i \in DOMAIN W
               PROVE  /\ st[W[i].path].role = m.tree.role[W[i].chain] /\ st[W[i].path].rules = m.tree.rules[W[i].chain]
                      /\ st[W[i].path].temp = Temperature(m.tree, W[i].chain)
                      /\ st[W[i].path] = [role |-> st[W[i].path].role, rules |-> st[W[i].path].rules, temp |-> st[W[i].path].temp]
    OBVIOUS
  <2> DEFINE x == st[W[i].path]
  <2>1. x = [role |-> m.tree.role[W[i].chain], rules |-> m.tree.rules[W[i].chain], temp |-> Temperature(m.tree, W[i].chain)]
    BY <1>7 DEF Fields
  <2> HIDE DEF x
  <2>2. /\ x.role = m.tree.role[W[i].chain] /\ x.rules = m.tree.rules[W[i].chain]
        /\ x.temp = Temperature(m.tree, W[i].chain)
        /\ x = [role |-> x.role, rules |-> x.rules, temp |-> x.temp]
    BY <2>1
  <2>3. QED
    BY <2>2 DEF x
<1>10. \A i \in DOMAIN W : /\ st[W[i].path].role \in Nat /\ st[W[i].path].rules \in Seq(Nat)
                           /\ st[W[i].path].temp \in Nat
  BY <1>4, <1>8, <1>9
<1>11. l = LoadState(t, st)
  BY DEF st
<1>12. /\ l \in TreesOf(W, A)
       /\ \A a \in A : /\ l.role[a] = st[LastPath(t, a)].role /\ l.rules[a] = st[LastPath(t, a)].rules
                       /\ Temperature(l, a) = st[LastPath(t, a)].temp
  BY <1>10, <1>11, LoadIs
<1>13. \A a \in A : \E j \in DOMAIN W : W[j].agent = a /\ LastPath(t, a) = W[j].path
  BY LastPathIs
<1>14. \A a \in A : \E j \in DOMAIN W : W[j].agent = a /\ Fields(l, a) = st[W[j].path]
  <2> SUFFICES ASSUME NEW a \in A PROVE \E j \in DOMAIN W : W[j].agent = a /\ Fields(l, a) = st[W[j].path]
    OBVIOUS
  <2>1. PICK j \in DOMAIN W : W[j].agent = a /\ LastPath(t, a) = W[j].path
    BY <1>13
  <2>2. /\ l.role[a] = st[W[j].path].role /\ l.rules[a] = st[W[j].path].rules
        /\ Temperature(l, a) = st[W[j].path].temp
    BY <1>12, <2>1
  <2>3. Fields(l, a) = [role |-> st[W[j].path].role, rules |-> st[W[j].path].rules, temp |-> st[W[j].path].temp]
    BY <2>2 DEF Fields
  <2>4. QED
    BY <1>9, <2>1, <2>3
<1>15. KeepsConfigs(t, l, A)
  <2> SUFFICES ASSUME NEW a \in A, t.cfg[a] # NoConfig PROVE l.cfg[a] # NoConfig
    BY DEF KeepsConfigs
  <2>1. PICK j \in DOMAIN W : W[j].agent = a /\ LastPath(t, a) = W[j].path
    BY <1>13
  <2>2. Temperature(t, a) # NoConfig
    BY TreeIs
  <2>3. Temperature(CloneOf(t), W[j].chain) # NoConfig /\ W[j].chain \in C
    BY <1>1, <1>4, <2>1, <2>2
  <2>4. m.tree.cfg[W[j].chain] # NoConfig
    BY <1>3, <1>8, <2>3 DEF KeepsConfigs
  <2>5. Temperature(l, a) # NoConfig
    <3>1. Temperature(l, a) = st[W[j].path].temp
      BY <1>12, <2>1
    <3>2. st[W[j].path].temp = Temperature(m.tree, W[j].chain)
      BY <1>9
    <3>3. QED
      BY <1>8, <2>3, <2>4, <3>1, <3>2
  <2>6. QED
    BY <1>12, <2>5, TreeIs
<1>16. QED
  BY <1>6, <1>7, <1>12, <1>14, <1>15 DEF st

\* No agent under two parents: what was found is what is written.
LEMMA FoundIsLoaded ==
  ASSUME NEW W, NEW A, WellHung(W, A), NEW t \in TreesOf(W, A), NEW c \in Compounds,
         NEW m, m = ApplyCompound(CloneOf(t), NoNotes, c),
         \A i, j \in DOMAIN W : W[i].agent = W[j].agent => W[i].chain = W[j].chain
  PROVE  State(LoadState(t, State(m.tree))) = State(m.tree)
<1> DEFINE l == LoadState(t, State(m.tree))
           D == PathsIn(W)
<1>0. l = LoadState(t, State(m.tree))
  OBVIOUS
<1> HIDE DEF l
<1>1. /\ l \in TreesOf(W, A)
      /\ State(m.tree) = [p \in D |-> State(m.tree)[p]]
      /\ \A i \in DOMAIN W : State(m.tree)[W[i].path] = Fields(m.tree, W[i].chain)
      /\ \A a \in A : \E j \in DOMAIN W : W[j].agent = a /\ Fields(l, a) = State(m.tree)[W[j].path]
  BY <1>0, FoundIs
<1>2. WalkOK(W, A) /\ \A i \in DOMAIN W : W[i].agent \in A
  BY HungWell DEF WalkOK
<1>3. /\ State(l) = [p \in D |-> State(l)[p]]
      /\ \A i \in DOMAIN W : State(l)[W[i].path] = Fields(l, W[i].agent)
  BY <1>1, <1>2, StateIs
<1>4. \A i \in DOMAIN W : State(l)[W[i].path] = State(m.tree)[W[i].path]
  BY <1>1, <1>2, <1>3
<1>5. \A p \in D : State(l)[p] = State(m.tree)[p]
  BY <1>4 DEF PathsIn
<1>6. QED
  <2> HIDE DEF D
  <2>1. State(l) = State(m.tree)
    BY <1>1, <1>3, <1>5
  <2>2. QED
    BY <2>1 DEF l

-----------------------------------------------------------------------------
(* The handles of an optimizer *)

Holder(W, h) == The(Hung(W, h.path))

\* No agent has its config in one handle and its temperature in another.
HandlesOK(W, t, H) ==
  /\ \A h \in DOMAIN H :
       /\ H[h] = [value |-> H[h].value, grad |-> H[h].grad]
       /\ Hung(W, h.path) # {} /\ h.field \in {"role", "rules", "temp", "config"}
       /\ h.field \in {"temp", "config"} => t.cfg[Holder(W, h)] # NoConfig
  /\ \A h, k \in DOMAIN H : h.field = "temp" /\ k.field = "config" => Holder(W, h) # Holder(W, k)

SameIn(W, t, h, k) ==
  /\ h.field = k.field
  /\ \/ Holder(W, h) = Holder(W, k)
     \/ h.field = "temp" /\ t.cfg[Holder(W, h)] = t.cfg[Holder(W, k)]
Lone(W, t, H, h) == \A k \in DOMAIN H : SameIn(W, t, h, k) => k = h
LiveIn(W, t, H) ==
  \A h \in DOMAIN H : Lone(W, t, H, h) => H[h].value = Read(t, Holder(W, h), h.field)

LEMMA HolderIs ==
  ASSUME NEW W, NEW A, WalkOK(W, A), NEW t, NEW H, HandlesOK(W, t, H), NEW h \in DOMAIN H
  PROVE  Holder(W, h) \in A
  BY DEF HandlesOK, Holder, Hung, The, WalkOK

LEMMA ReadIs ==
  ASSUME NEW t, NEW a, NEW f
  PROVE  /\ f = "role" => Read(t, a, f) = t.role[a]
         /\ f = "rules" => Read(t, a, f) = t.rules[a]
         /\ f = "temp" => Read(t, a, f) = Temperature(t, a)
         /\ f = "config" => Read(t, a, f) = t.cfg[a]
  BY DEF Read

LEMMA HandlesKept ==
  ASSUME NEW W, NEW A, WalkOK(W, A), NEW t, NEW u, NEW H, HandlesOK(W, t, H), KeepsConfigs(t, u, A)
  PROVE  HandlesOK(W, u, H)
<1>1. \A h \in DOMAIN H : Holder(W, h) \in A
  BY HolderIs
<1>2. QED
  BY <1>1 DEF HandlesOK, KeepsConfigs

Filled(r, x) == [r EXCEPT !.value = x]

\* Values are put into the handles.
LEMMA HandlesFilled ==
  ASSUME NEW W, NEW t, NEW H, HandlesOK(W, t, H), NEW G, DOMAIN G = DOMAIN H,
         \A h \in DOMAIN H : G[h] = H[h] \/ \E x : G[h] = Filled(H[h], x)
  PROVE  HandlesOK(W, t, G)
<1>1. ASSUME NEW h \in DOMAIN H PROVE G[h] = [value |-> G[h].value, grad |-> G[h].grad]
  <2>1. H[h] = [value |-> H[h].value, grad |-> H[h].grad]
    BY DEF HandlesOK
  <2>2. CASE G[h] = H[h]
    BY <2>1, <2>2
  <2>3. ASSUME NEW x, G[h] = Filled(H[h], x) PROVE G[h] = [value |-> G[h].value, grad |-> G[h].grad]
    BY <2>1, <2>3 DEF Filled
  <2>4. QED
    BY <2>2, <2>3
<1>2. QED
  BY <1>1 DEF HandlesOK

\* What is written of t through h.
PutAt(t, a, f, v) ==
  CASE f = "role"  -> [t EXCEPT !.role[a] = v]
    [] f = "rules" -> [t EXCEPT !.rules[a] = <<v>>]
    [] f = "temp"  -> [t EXCEPT !.temp[t.cfg[a]] = v]
    [] f = "config" -> Configure(t, a, v)

\* What a write leaves as it was, seen from an agent.
LEMMA PutIs ==
  ASSUME NEW W, NEW A, WalkOK(W, A), NEW t \in TreesOf(W, A), NEW a \in A,
         NEW f \in {"role", "rules", "temp", "config"}, f \in {"temp", "config"} => t.cfg[a] # NoConfig,
         NEW v \in Nat \ {NoConfig}, NEW u, u = PutAt(t, a, f, v)
  PROVE  /\ u \in TreesOf(W, A) /\ KeepsConfigs(t, u, A)
         /\ \A b \in A : /\ ~(f = "role" /\ b = a) => u.role[b] = t.role[b]
                         /\ ~(f = "rules" /\ b = a) => u.rules[b] = t.rules[b]
                         /\ ~(f = "config" /\ b = a) => u.cfg[b] = t.cfg[b]
                         /\ \/ f = "config" /\ b = a
                            \/ f = "temp" /\ t.cfg[b] = t.cfg[a]
                            \/ Temperature(u, b) = Temperature(t, b)
<1>1. /\ t.walk = W /\ t.role \in [A -> Nat] /\ t.rules \in [A -> Seq(Nat)]
      /\ t.cfg \in [A -> Objects \cup {NoConfig}] /\ t.temp \in [Objects -> Nat]
      /\ \A b \in A : t.cfg[b] # NoConfig => t.cfg[b] \in Objects /\ t.temp[t.cfg[b]] # NoConfig
  BY TreeIs
<1>2. t = [walk |-> t.walk, role |-> t.role, rules |-> t.rules, cfg |-> t.cfg, temp |-> t.temp]
  BY TreeIs
<1>3. CASE f = "role"
  <2>1. u = WithRole(t, a, v)
    BY <1>3 DEF PutAt, WithRole
  <2>2. /\ u \in TreesOf(W, A) /\ u.role = [t.role EXCEPT ![a] = v] /\ u.rules = t.rules
        /\ u.cfg = t.cfg /\ u.temp = t.temp
    BY <2>1, RoleIs
  <2>3. QED
    BY <1>1, <1>3, <2>2 DEF KeepsConfigs, Temperature
<1>4. CASE f = "rules"
  <2>1. u = WithRules(t, a, <<v>>) /\ <<v>> \in Seq(Nat)
    BY <1>4 DEF PutAt, WithRules
  <2> DEFINE to == <<v>>
  <2> HIDE DEF to
  <2>2. /\ u \in TreesOf(W, A) /\ u.rules = [t.rules EXCEPT ![a] = to] /\ u.role = t.role
        /\ u.cfg = t.cfg /\ u.temp = t.temp
    <3>1. to \in Seq(Nat) /\ u = WithRules(t, a, to)
      BY <2>1 DEF to
    <3>2. QED
      BY <3>1, RulesAre
  <2>3. QED
    BY <1>1, <1>4, <2>2 DEF KeepsConfigs, Temperature
<1>5. CASE f = "temp"
  <2> DEFINE tem == [t.temp EXCEPT ![t.cfg[a]] = v]
  <2>1. u = [t EXCEPT !.temp[t.cfg[a]] = v]
    BY <1>5 DEF PutAt
  <2>2. u = [walk |-> W, role |-> t.role, rules |-> t.rules, cfg |-> t.cfg, temp |-> tem]
    BY <1>1, <1>2, <2>1
  <2>3. t.cfg[a] \in Objects
    BY <1>1, <1>5
  <2>4. tem \in [Objects -> Nat] /\ tem[t.cfg[a]] = v /\ \A o \in Objects \ {t.cfg[a]} : tem[o] = t.temp[o]
    BY <1>1, <2>3
  <2> HIDE DEF tem
  <2>5. \A b \in A : t.cfg[b] # NoConfig => tem[t.cfg[b]] # NoConfig
    BY <1>1, <2>4
  <2>6. [walk |-> W, role |-> t.role, rules |-> t.rules, cfg |-> t.cfg, temp |-> tem] \in TreesOf(W, A)
    BY <1>1, <2>4, <2>5, TreeMade
  <2>7. u \in TreesOf(W, A)
    BY <2>2, <2>6
  <2>8. u.role = t.role /\ u.rules = t.rules /\ u.cfg = t.cfg /\ u.temp = tem
    BY <2>2
  <2>9. \A b \in A : t.cfg[b] # t.cfg[a] => Temperature(u, b) = Temperature(t, b)
    BY <1>1, <2>4, <2>8 DEF Temperature
  <2>10. QED
    BY <1>5, <2>7, <2>8, <2>9 DEF KeepsConfigs
<1>6. CASE f = "config"
  <2>1. u = Configure(t, a, v)
    BY <1>6 DEF PutAt
  <2>2. /\ u \in TreesOf(W, A) /\ u.role = t.role /\ u.rules = t.rules
        /\ u.cfg[a] \in Objects /\ \A b \in A \ {a} : u.cfg[b] = t.cfg[b]
        /\ \A b \in A \ {a} : Temperature(u, b) = Temperature(t, b)
    BY <2>1, ConfigureIs
  <2>3. u.cfg[a] # NoConfig
    BY <2>2, AgentTreeAssumption DEF Objects, NoConfig
  <2>4. QED
    BY <1>6, <2>2, <2>3 DEF KeepsConfigs
<1>7. QED
  BY <1>3, <1>4, <1>5, <1>6

Fill(H, h, x) == [H EXCEPT ![h].value = x]

\* A handle that is written is read back; of the others those that are the only one
\* to their place were so before, and what is there is untouched.
LEMMA WriteKeeps ==
  ASSUME NEW W, NEW A, WalkOK(W, A), NEW t \in TreesOf(W, A), NEW H, HandlesOK(W, t, H), NEW h \in DOMAIN H,
         NEW v \in Written, NEW u, u = PutAt(t, Holder(W, h), h.field, v),
         NEW G, G = Fill(H, h, Read(u, Holder(W, h), h.field))
  PROVE  /\ u \in TreesOf(W, A) /\ HandlesOK(W, u, G)
         /\ LiveIn(W, t, H) => LiveIn(W, u, G)
<1> DEFINE a == Holder(W, h) f == h.field
<1>1. /\ a \in A /\ f \in {"role", "rules", "temp", "config"} /\ (f \in {"temp", "config"} => t.cfg[a] # NoConfig)
      /\ v \in Nat \ {NoConfig}
  BY HolderIs, AgentTreeAssumption DEF HandlesOK
<1>2. /\ u \in TreesOf(W, A) /\ KeepsConfigs(t, u, A)
      /\ \A b \in A : /\ ~(f = "role" /\ b = a) => u.role[b] = t.role[b]
                      /\ ~(f = "rules" /\ b = a) => u.rules[b] = t.rules[b]
                      /\ ~(f = "config" /\ b = a) => u.cfg[b] = t.cfg[b]
                      /\ \/ f = "config" /\ b = a
                         \/ f = "temp" /\ t.cfg[b] = t.cfg[a]
                         \/ Temperature(u, b) = Temperature(t, b)
  BY <1>1, PutIs
<1>3. DOMAIN G = DOMAIN H /\ G[h] = Filled(H[h], Read(u, a, f)) /\ \A k \in DOMAIN H \ {h} : G[k] = H[k]
  BY DEF Fill, Filled
<1>4. HandlesOK(W, u, G)
  <2>1. HandlesOK(W, u, H)
    BY <1>2, HandlesKept
  <2>2. \A k \in DOMAIN H : G[k] = H[k] \/ \E x : G[k] = Filled(H[k], x)
    BY <1>3
  <2>3. QED
    BY <1>3, <2>1, <2>2, HandlesFilled
<1>5. G[h].value = Read(u, a, f)
  <2>1. H[h] = [value |-> H[h].value, grad |-> H[h].grad]
    BY DEF HandlesOK
  <2>2. QED
    BY <1>3, <2>1 DEF Filled
<1>6. ASSUME NEW k \in DOMAIN H, k # h, Lone(W, u, H, k)
      PROVE  Lone(W, t, H, k) /\ Read(u, Holder(W, k), k.field) = Read(t, Holder(W, k), k.field)
  <2> DEFINE b == Holder(W, k)
  <2>1. b \in A /\ k.field \in {"role", "rules", "temp", "config"}
    BY HolderIs DEF HandlesOK
  <2>2. ~SameIn(W, u, k, h)
    BY <1>6 DEF Lone
  <2>3. k.field # f \/ b # a
    BY <2>2 DEF SameIn
  <2>4. \A j \in DOMAIN H : j.field = "temp" /\ f = "config" => Holder(W, j) # a
    BY DEF HandlesOK
  <2>5. \A j \in DOMAIN H : SameIn(W, t, k, j) => SameIn(W, u, k, j)
    <3> SUFFICES ASSUME NEW j \in DOMAIN H, SameIn(W, t, k, j), ~SameIn(W, u, k, j) PROVE FALSE
      OBVIOUS
    <3>1. Holder(W, j) \in A
      BY HolderIs
    <3>2. k.field = "temp" /\ j.field = "temp" /\ t.cfg[b] = t.cfg[Holder(W, j)] /\ u.cfg[b] # u.cfg[Holder(W, j)]
      BY DEF SameIn
    <3>3. f = "config" /\ (b = a \/ Holder(W, j) = a)
      BY <1>2, <2>1, <3>1, <3>2
    <3>4. QED
      BY <2>4, <3>2, <3>3
  <2>6. Lone(W, t, H, k)
    BY <1>6, <2>5 DEF Lone
  <2>7. k.field = "temp" /\ f = "temp" => t.cfg[b] # t.cfg[a]
    <3>1. ~SameIn(W, t, k, h)
      BY <1>6, <2>6 DEF Lone
    <3>2. QED
      BY <3>1 DEF SameIn
  <2>8. k.field = "temp" => Temperature(u, b) = Temperature(t, b)
    BY <1>2, <2>1, <2>4, <2>7
  <2>9. /\ k.field = "role" => u.role[b] = t.role[b]
        /\ k.field = "rules" => u.rules[b] = t.rules[b]
        /\ k.field = "config" => u.cfg[b] = t.cfg[b]
    BY <1>2, <2>1, <2>3
  <2>10. Read(u, b, k.field) = Read(t, b, k.field)
    BY <2>1, <2>8, <2>9, ReadIs
  <2>11. QED
    BY <2>6, <2>10
<1>7. ASSUME LiveIn(W, t, H) PROVE LiveIn(W, u, G)
  <2>1. \A k \in DOMAIN H : Lone(W, u, G, k) <=> Lone(W, u, H, k)
    BY <1>3 DEF Lone
  <2>2. ASSUME NEW k \in DOMAIN H, Lone(W, u, G, k) PROVE G[k].value = Read(u, Holder(W, k), k.field)
    <3>1. CASE k = h
      BY <1>5, <3>1
    <3>2. CASE k # h
      BY <1>3, <1>6, <1>7, <2>1, <2>2, <3>2 DEF LiveIn
    <3>3. QED
      BY <3>1, <3>2
  <2>3. QED
    BY <1>3, <2>2 DEF LiveIn
<1>8. QED
  BY <1>2, <1>4, <1>7

\* Handles that are read are live.
LEMMA ReadLive ==
  ASSUME NEW W, NEW t, NEW H, HandlesOK(W, t, H),
         NEW G, G = [h \in DOMAIN H |-> Filled(H[h], Read(t, Holder(W, h), h.field))]
  PROVE  HandlesOK(W, t, G) /\ LiveIn(W, t, G)
<1>1. DOMAIN G = DOMAIN H /\ \A h \in DOMAIN H : G[h] = Filled(H[h], Read(t, Holder(W, h), h.field))
  OBVIOUS
<1>2. \A h \in DOMAIN H : G[h] = H[h] \/ \E x : G[h] = Filled(H[h], x)
  BY <1>1
<1>3. HandlesOK(W, t, G)
  BY <1>1, <1>2, HandlesFilled
<1>4. ASSUME NEW h \in DOMAIN H PROVE G[h].value = Read(t, Holder(W, h), h.field)
  <2>1. H[h] = [value |-> H[h].value, grad |-> H[h].grad]
    BY DEF HandlesOK
  <2>2. G[h] = Filled(H[h], Read(t, Holder(W, h), h.field))
    BY <1>1
  <2>3. QED
    BY <2>1, <2>2 DEF Filled
<1>5. QED
  BY <1>1, <1>3, <1>4 DEF LiveIn

-----------------------------------------------------------------------------
(* The invariant *)

\* With the walk W over the agents A, which nothing changes.
InvOf(W, A) ==
  /\ WellHung(W, A) /\ tree \in TreesOf(W, A) /\ before \in NotesOf(W)
  /\ applied \in [Compounds -> Nat] /\ \A c \in Compounds : applied[c] <= Len(c)
  /\ HandlesOK(W, tree, handles)
  /\ ~tweaked => LiveIn(W, tree, handles)
TreeInv == \E W, A : InvOf(W, A)

LEMMA TreeStarts == TreeInit => TreeInv
<1> SUFFICES ASSUME TreeInit PROVE TreeInv
  OBVIOUS
<1>1. PICK f \in Families :
        tree = [walk |-> WalkOf(f), cfg |-> f.cfg,
                role |-> [a \in DOMAIN f.kids |-> 0], rules |-> [a \in DOMAIN f.kids |-> <<0>>],
                temp |-> [o \in Objects |-> 1]]
  BY DEF TreeInit
<1> DEFINE W == WalkOf(f) A == DOMAIN f.kids
<1>2. WellHung(W, A) /\ f.cfg \in [A -> Objects \cup {NoConfig}]
  BY AgentTreeAssumption
<1>3. tree \in TreesOf(W, A)
  <2> DEFINE role == [a \in A |-> 0] rules == [a \in A |-> <<0>>] temp == [o \in Objects |-> 1] cfg == f.cfg
  <2>1. role \in [A -> Nat] /\ rules \in [A -> Seq(Nat)] /\ temp \in [Objects -> Nat]
    OBVIOUS
  <2>2. tree = [walk |-> W, role |-> role, rules |-> rules, cfg |-> cfg, temp |-> temp]
    BY <1>1
  <2>3. cfg \in [A -> Objects \cup {NoConfig}] /\ \A a \in A : cfg[a] # NoConfig => temp[cfg[a]] # NoConfig
    <3>1. \A o \in Objects : temp[o] # NoConfig
      BY DEF NoConfig
    <3> HIDE DEF temp
    <3>2. QED
      BY <1>2, <3>1
  <2> HIDE DEF W, A, role, rules, temp, cfg
  <2>4. QED
    BY <2>1, <2>2, <2>3, TreeMade
<1>4. before = NoNotes /\ applied = [c \in Compounds |-> 0] /\ handles = <<>>
  BY DEF TreeInit, NoNotes
<1>5. before \in NotesOf(W)
  BY <1>4, NoNotesAre
<1>6. applied \in [Compounds -> Nat] /\ \A c \in Compounds : applied[c] <= Len(c)
  <2>1. \A c \in Compounds : Len(c) \in Nat /\ applied[c] = 0
    BY <1>4, AgentTreeAssumption
  <2>2. QED
    BY <1>4, <2>1
<1>7. HandlesOK(W, tree, handles) /\ LiveIn(W, tree, handles)
  BY <1>4 DEF HandlesOK, LiveIn
<1>8. InvOf(W, A)
  BY <1>2, <1>3, <1>5, <1>6, <1>7 DEF InvOf
<1>9. QED
  BY <1>8 DEF TreeInv

LEMMA InvIs ==
  ASSUME NEW W, NEW A, InvOf(W, A)
  PROVE  /\ WellHung(W, A) /\ WalkOK(W, A) /\ tree \in TreesOf(W, A) /\ before \in NotesOf(W)
         /\ applied \in [Compounds -> Nat] /\ \A c \in Compounds : applied[c] <= Len(c)
         /\ HandlesOK(W, tree, handles) /\ (~tweaked => LiveIn(W, tree, handles))
         /\ \A h : AgentOf(h) = Holder(W, h)
         /\ \A c \in Compounds : c \in Seq(DOMAIN Edit) /\ Len(c) \in Nat
<1>1. WellHung(W, A) /\ tree \in TreesOf(W, A)
  BY DEF InvOf
<1>2. WalkOK(W, A)
  BY <1>1, HungWell
<1>3. \A h : AgentOf(h) = Holder(W, h)
  BY <1>1, <1>2, HungIs DEF AgentOf, Holder
<1>4. QED
  BY <1>2, <1>3, AgentTreeAssumption DEF InvOf

LEMMA ApplyKeeps ==
  ASSUME NEW W, NEW A, InvOf(W, A), NEW c \in Compounds, Apply(c)
  PROVE  InvOf(W, A)'
<1> DEFINE s == ApplyCompound(tree, before, c)
<1>1. /\ WellHung(W, A) /\ WalkOK(W, A) /\ tree \in TreesOf(W, A) /\ before \in NotesOf(W)
      /\ applied \in [Compounds -> Nat] /\ \A d \in Compounds : applied[d] <= Len(d)
      /\ HandlesOK(W, tree, handles) /\ \A d \in Compounds : Len(d) \in Nat
  BY InvIs
<1>2. /\ tree' = s.tree /\ before' = s.before /\ applied' = [applied EXCEPT ![c] = s.done]
      /\ tweaked' = TRUE /\ handles' = handles
  BY DEF Apply
<1>3. /\ s.tree \in TreesOf(W, A) /\ s.before \in NotesOf(W) /\ s.done \in 0 .. Len(c)
      /\ KeepsConfigs(tree, s.tree, A)
  BY <1>1, ApplyCompoundIs
<1> HIDE DEF s
<1>4. HandlesOK(W, tree', handles')
  BY <1>1, <1>2, <1>3, HandlesKept
<1>5. applied' \in [Compounds -> Nat] /\ \A d \in Compounds : applied'[d] <= Len(d)
  BY <1>1, <1>2, <1>3
<1>6. QED
  BY <1>1, <1>2, <1>3, <1>4, <1>5 DEF InvOf

LEMMA UndoLastKeeps ==
  ASSUME NEW W, NEW A, InvOf(W, A), NEW c \in Compounds, UndoLast(c)
  PROVE  InvOf(W, A)'
<1> DEFINE s == Undo(tree, before, c, applied[c])
<1>1. /\ WellHung(W, A) /\ WalkOK(W, A) /\ tree \in TreesOf(W, A) /\ before \in NotesOf(W)
      /\ applied \in [Compounds -> Nat] /\ \A d \in Compounds : applied[d] <= Len(d)
      /\ HandlesOK(W, tree, handles) /\ \A d \in Compounds : d \in Seq(DOMAIN Edit) /\ Len(d) \in Nat
  BY InvIs
<1>2. /\ tree' = s.tree /\ before' = s.before /\ applied' = (IF s.ok THEN [applied EXCEPT ![c] = 0] ELSE applied)
      /\ tweaked' = TRUE /\ handles' = handles
  BY DEF UndoLast
<1>3. s.tree \in TreesOf(W, A) /\ s.before \in NotesOf(W) /\ KeepsConfigs(tree, s.tree, A)
  <2>1. applied[c] \in 0 .. Len(c)
    BY <1>1
  <2>2. QED
    BY <1>1, <2>1, UndoIs
<1> HIDE DEF s
<1>4. HandlesOK(W, tree', handles')
  BY <1>1, <1>2, <1>3, HandlesKept
<1>5. applied' \in [Compounds -> Nat] /\ \A d \in Compounds : applied'[d] <= Len(d)
  BY <1>1, <1>2
<1>6. QED
  BY <1>1, <1>2, <1>3, <1>4, <1>5 DEF InvOf

LEMMA EvolveKeeps ==
  ASSUME NEW W, NEW A, InvOf(W, A), NEW c \in Compounds, Evolve(c)
  PROVE  InvOf(W, A)'
<1> DEFINE m == Mutated(c)
<1>1. /\ WellHung(W, A) /\ WalkOK(W, A) /\ tree \in TreesOf(W, A) /\ before \in NotesOf(W)
      /\ applied \in [Compounds -> Nat] /\ \A d \in Compounds : applied[d] <= Len(d)
      /\ HandlesOK(W, tree, handles) /\ \A h : AgentOf(h) = Holder(W, h)
  BY InvIs
<1>2. /\ tree' = LoadState(tree, State(m.tree)) /\ tweaked' = FALSE /\ before' = before /\ applied' = applied
      /\ handles' = [h \in DOMAIN handles |-> Filled(handles[h], Read(tree', AgentOf(h), h.field))]
  BY DEF Evolve, ReadAll, Filled
<1>3. m = ApplyCompound(CloneOf(tree), NoNotes, c)
  BY DEF Mutated, NoNotes
<1> HIDE DEF m
<1>4. tree' \in TreesOf(W, A) /\ KeepsConfigs(tree, tree', A)
  BY <1>1, <1>2, <1>3, FoundIs
<1>6. HandlesOK(W, tree', handles)
  BY <1>1, <1>4, HandlesKept
<1>7. handles' = [h \in DOMAIN handles |-> Filled(handles[h], Read(tree', Holder(W, h), h.field))]
  BY <1>1, <1>2
<1>8. HandlesOK(W, tree', handles') /\ LiveIn(W, tree', handles')
  BY <1>6, <1>7, ReadLive
<1>9. QED
  BY <1>1, <1>2, <1>4, <1>8 DEF InvOf

LEMMA OpenTreeKeeps ==
  ASSUME NEW W, NEW A, InvOf(W, A), OpenHandles
  PROVE  InvOf(W, A)'
<1>1. /\ WellHung(W, A) /\ WalkOK(W, A) /\ tree \in TreesOf(W, A) /\ before \in NotesOf(W)
      /\ applied \in [Compounds -> Nat] /\ \A d \in Compounds : applied[d] <= Len(d)
      /\ \A h : AgentOf(h) = Holder(W, h)
  BY InvIs
<1> DEFINE S == UNION {{[path |-> w.path, field |-> f] : f \in Declared(w.agent)} : w \in ToSet(tree.walk)}
           grad(h) == IF h.field \in DOMAIN flags[AgentOf(h)] THEN flags[AgentOf(h)][h.field] ELSE TRUE
<1>2. /\ handles' = [h \in S |-> [value |-> Read(tree, AgentOf(h), h.field), grad |-> grad(h)]]
      /\ tree' = tree /\ before' = before /\ applied' = applied
  BY DEF OpenHandles
<1> HIDE DEF grad
<1>3. ASSUME NEW h \in S
      PROVE  /\ Hung(W, h.path) # {} /\ h.field \in Declared(Holder(W, h))
  <2>1. tree.walk = W /\ ToSet(W) = {W[i] : i \in DOMAIN W}
    BY <1>1, TreeIs DEF ToSet
  <2>2. PICK w \in ToSet(W) : \E f \in Declared(w.agent) : h = [path |-> w.path, field |-> f]
    BY <2>1
  <2>3. PICK f \in Declared(w.agent) : h = [path |-> w.path, field |-> f]
    BY <2>2
  <2>4. PICK i \in DOMAIN W : w = W[i]
    BY <2>1
  <2>5. h.path = W[i].path /\ h.field = f
    BY <2>3, <2>4
  <2>6. Hung(W, W[i].path) = {W[i].agent}
    BY <1>1 DEF Hung, WalkOK
  <2>7. Holder(W, h) = W[i].agent
    BY <2>5, <2>6 DEF Holder, The
  <2>8. QED
    BY <2>3, <2>4, <2>5, <2>6, <2>7
<1> HIDE DEF S
<1>4. DOMAIN handles' = S /\ \A h \in S : handles'[h] = [value |-> Read(tree, Holder(W, h), h.field), grad |-> grad(h)]
  BY <1>1, <1>2
<1>5. \A h \in S : /\ handles'[h] = [value |-> handles'[h].value, grad |-> handles'[h].grad]
                   /\ handles'[h].value = Read(tree, Holder(W, h), h.field)
  BY <1>4
<1>6. \A a : /\ Declared(a) \subseteq {"role", "rules", "temp", "config"}
             /\ "temp" \in Declared(a) \/ "config" \in Declared(a) => tree.cfg[a] # NoConfig
             /\ ~("temp" \in Declared(a) /\ "config" \in Declared(a))
  BY DEF Declared
<1>7. HandlesOK(W, tree, handles')
  <2>1. \A h \in S : /\ h.field \in {"role", "rules", "temp", "config"}
                     /\ h.field \in {"temp", "config"} => tree.cfg[Holder(W, h)] # NoConfig
    BY <1>3, <1>6
  <2>2. \A h, k \in S : h.field = "temp" /\ k.field = "config" => Holder(W, h) # Holder(W, k)
    BY <1>3, <1>6
  <2>3. QED
    BY <1>3, <1>4, <1>5, <2>1, <2>2 DEF HandlesOK
<1>8. LiveIn(W, tree, handles')
  BY <1>4, <1>5 DEF LiveIn
<1>9. QED
  BY <1>1, <1>2, <1>7, <1>8 DEF InvOf

LEMMA WriteKeepsInv ==
  ASSUME NEW W, NEW A, InvOf(W, A), NEW h \in DOMAIN handles, NEW v \in Written, Write(h, v)
  PROVE  InvOf(W, A)'
<1>1. /\ WellHung(W, A) /\ WalkOK(W, A) /\ tree \in TreesOf(W, A) /\ before \in NotesOf(W)
      /\ applied \in [Compounds -> Nat] /\ \A d \in Compounds : applied[d] <= Len(d)
      /\ HandlesOK(W, tree, handles) /\ (~tweaked => LiveIn(W, tree, handles))
      /\ AgentOf(h) = Holder(W, h)
  BY InvIs
<1>2. /\ tree' = PutAt(tree, AgentOf(h), h.field, v)
      /\ handles' = Fill(handles, h, Read(PutAt(tree, AgentOf(h), h.field, v), AgentOf(h), h.field))
      /\ before' = before /\ applied' = applied /\ tweaked' = tweaked
  BY DEF Write, PutAt, Fill
<1>3. /\ tree' = PutAt(tree, Holder(W, h), h.field, v)
      /\ handles' = Fill(handles, h, Read(tree', Holder(W, h), h.field))
  BY <1>1, <1>2
<1>4. /\ tree' \in TreesOf(W, A) /\ HandlesOK(W, tree', handles')
      /\ LiveIn(W, tree, handles) => LiveIn(W, tree', handles')
  BY <1>1, <1>3, WriteKeeps
<1>5. QED
  BY <1>1, <1>2, <1>4 DEF InvOf

LEMMA TreeSteps == TreeInv /\ [TreeNext]_treevars => TreeInv'
<1> SUFFICES ASSUME TreeInv, [TreeNext]_treevars PROVE TreeInv'
  OBVIOUS
<1>1. PICK W, A : InvOf(W, A)
  BY DEF TreeInv
<1> SUFFICES InvOf(W, A)'
  BY DEF TreeInv
<1>2. ASSUME NEW c \in Compounds, Apply(c) \/ UndoLast(c) \/ Evolve(c) PROVE InvOf(W, A)'
  BY <1>1, <1>2, ApplyKeeps, UndoLastKeeps, EvolveKeeps
<1>3. CASE OpenHandles
  BY <1>1, <1>3, OpenTreeKeeps
<1>4. ASSUME NEW call \in FlagCalls, SetFlags(call) PROVE InvOf(W, A)'
  <2>1. UNCHANGED <<tree, before, applied, handles, tweaked>>
    BY <1>4 DEF SetFlags
  <2>2. QED
    BY <1>1, <2>1 DEF InvOf
<1>5. ASSUME NEW h \in DOMAIN handles, NEW v \in Written, Write(h, v) PROVE InvOf(W, A)'
  BY <1>1, <1>5, WriteKeepsInv
<1>6. CASE UNCHANGED treevars
  <2>1. UNCHANGED <<tree, before, applied, handles, tweaked>>
    BY <1>6 DEF treevars
  <2>2. QED
    BY <1>1, <2>1 DEF InvOf
<1>7. QED
  BY <1>2, <1>3, <1>4, <1>5, <1>6 DEF TreeNext

LEMMA TreeInvSound == TreeInv => TreeSound
<1> SUFFICES ASSUME TreeInv PROVE TreeSound
  OBVIOUS
<1>1. PICK W, A : InvOf(W, A)
  BY DEF TreeInv
<1>2. /\ WellHung(W, A) /\ WalkOK(W, A) /\ tree \in TreesOf(W, A) /\ before \in NotesOf(W)
      /\ (~tweaked => LiveIn(W, tree, handles)) /\ \A h : AgentOf(h) = Holder(W, h)
  BY <1>1, InvIs
<1>3. CompoundsRollBack
  BY <1>2, CompoundsAreUndone DEF CompoundsRollBack
<1>4. FoundIsWritten
  <2> SUFFICES ASSUME OneParent, NEW c \in Compounds
               PROVE  State(LoadState(tree, State(Mutated(c).tree))) = State(Mutated(c).tree)
    BY Zenon DEF FoundIsWritten
  <2>1. Mutated(c) = ApplyCompound(CloneOf(tree), NoNotes, c)
    BY DEF Mutated, NoNotes
  <2>2. tree.walk = W
    BY <1>2, TreeIs
  <2>3. \A i, j \in DOMAIN W : W[i].agent = W[j].agent => W[i].chain = W[j].chain
    BY <2>2 DEF OneParent, ToSet
  <2>4. QED
    BY <1>2, <2>1, <2>3, FoundIsLoaded
<1>5. HandlesLive
  <2>1. \A h, k : Same(h, k) <=> SameIn(W, tree, h, k)
    BY <1>2 DEF Same, SameIn
  <2>2. QED
    BY <1>2, <2>1 DEF HandlesLive, LiveIn, Lone
<1>6. QED
  BY <1>3, <1>4, <1>5 DEF TreeSound

\* A compound that is refused or undone leaves no field under any path changed, what
\* EvoGradient found is what the root becomes unless an agent hangs under two
\* parents, and a handle that nothing else writes to shows what is there.
THEOREM TreeAlwaysSound == TreeSpec => []TreeSound
<1>1. TreeSpec => []TreeInv
  BY TreeStarts, TreeSteps, PTL DEF TreeSpec
<1>2. QED
  BY <1>1, TreeInvSound, PTL

\* The same of the agents beside which others run.
THEOREM EditsAlwaysSound == MCSpec => []EditsSound
<1> DEFINE Inv == program = "tree" => TreeInv
<1>1. MCInit => Inv
  BY TreeStarts DEF MCInit
<1>2. Inv /\ [MCNext]_<<program, vars, treevars>> => Inv'
  <2> SUFFICES ASSUME Inv, [MCNext]_<<program, vars, treevars>>, program' = "tree" PROVE TreeInv'
    OBVIOUS
  <2>1. CASE program = "tree" /\ TreeNext
    BY <2>1, TreeSteps
  <2>2. CASE program = "run" /\ UNCHANGED program
    BY <2>2
  <2>3. CASE UNCHANGED <<program, vars, treevars>>
    <3>1. program = "tree" /\ UNCHANGED treevars
      BY <2>3
    <3>2. QED
      BY <3>1, TreeSteps
  <2>4. QED
    BY <2>1, <2>2, <2>3, Zenon DEF MCNext
<1>3. Inv => EditsSound
  BY TreeInvSound DEF EditsSound
<1>4. QED
  <2> HIDE DEF Inv
  <2> QED  BY <1>1, <1>2, <1>3, PTL DEF MCSpec

=============================================================================

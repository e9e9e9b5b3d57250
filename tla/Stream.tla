------------------------------- MODULE Stream -------------------------------
(***************************************************************************)
(* Agent.stream of core/agent.py: a driver task consumes the stream of the *)
(* provider (_stream_forward, under a slot) and puts chunks, the result or *)
(* an error, and a sentinel into a bounded queue; the generator hands them *)
(* to its consumer, who may pause, leave early or be cancelled, and joins  *)
(* the driver before it raises the last event of the run.                  *)
(***************************************************************************)
EXTENDS Naturals, Sequences

CONSTANTS BufferSize, \* maxsize of the queue (64)
          Pieces, \* bound: pieces the provider sends
          Cancels \* bound: cancellations of the consumer

ASSUME StreamAssumption == {BufferSize, Pieces, Cancels} \subseteq Nat /\ BufferSize > 0

VARIABLES reader,  \* where the generator stands
          left,    \* what ended its loop: "done", "closed" (GeneratorExit), "cancelled"
          failure, \* final_error is set
          driver,  \* where the driver stands, and the item it is about to put
          slot,    \* the driver holds its slot
          buffer,
          sent,    \* pieces the provider has sent
          events,  \* the events of this run
          seen,    \* history variable: the items given to the consumer
          cancels  \* bounds the cancellations

streamvars == <<reader, left, failure, driver, slot, buffer, sent, events, seen, cancels>>

Chunk(n) == [kind |-> "chunk", n |-> n]
Result == [kind |-> "result", n |-> 0]
Error == [kind |-> "error", n |-> 0]
Sentinel == [kind |-> "done", n |-> 0]

At(where, item) == [at |-> where, item |-> item]
Idle(where) == At(where, Sentinel)
Holds(item) == driver = At("putting", item)

-----------------------------------------------------------------------------
(* The generator up to its first item *)

Open ==
  /\ reader = "new"
  /\ reader' = "getting" /\ driver' = Idle("waiting")
  /\ events' = <<"start">>
  /\ UNCHANGED <<left, failure, slot, buffer, sent, seen, cancels>>

\* validate or forward_in raises: there is no driver.
OpenRejects ==
  /\ reader = "new"
  /\ reader' = "closed" /\ failure' = TRUE
  /\ events' = <<"start", "error">>
  /\ UNCHANGED <<left, driver, slot, buffer, sent, seen, cancels>>

-----------------------------------------------------------------------------
(* The driver *)

Admit ==
  /\ driver.at = "waiting"
  /\ driver' = Idle("asking") /\ slot' = TRUE
  /\ UNCHANGED <<reader, left, failure, buffer, sent, events, seen, cancels>>

\* A piece is to be put while the slot is held.
Piece ==
  /\ driver.at = "asking" /\ sent < Pieces
  /\ sent' = sent + 1
  /\ driver' = At("putting", Chunk(sent'))
  /\ UNCHANGED <<reader, left, failure, slot, buffer, events, seen, cancels>>

\* The stream of the provider is over, or fails; so may the set-up of the call, the
\* parsing and the check of the output.
Complete(item) ==
  /\ driver.at = "asking" \/ (driver.at = "waiting" /\ item = Error)
  /\ driver' = At("putting", item) /\ slot' = FALSE
  /\ UNCHANGED <<reader, left, failure, buffer, sent, events, seen, cancels>>

\* Mutant: after an error the driver does not put its sentinel.
AfterPutNoSentinel(item) ==
  IF item.kind \in {"done", "error"} THEN Idle("over")
  ELSE IF item.kind = "chunk" THEN Idle("asking") ELSE At("putting", Sentinel)

\* What follows an item that was put, or whose put was cancelled.
AfterPut(item) ==
  IF item = Sentinel THEN Idle("over")
  ELSE IF item.kind = "chunk" THEN Idle("asking") ELSE At("putting", Sentinel)
AfterCancel(item) ==
  IF item = Sentinel THEN Idle("over")
  ELSE IF item = Error THEN At("putting", Sentinel) ELSE At("putting", Error)

Room == Len(buffer) < BufferSize
Told(item) == IF item.kind = "chunk" THEN Append(events, "chunk") ELSE events

\* Mutant: put_nowait, and a full queue loses the item.
PutOrDrop ==
  /\ driver.at = "putting"
  /\ buffer' = IF Room THEN Append(buffer, driver.item) ELSE buffer
  /\ driver' = AfterPut(driver.item) /\ events' = Told(driver.item)
  /\ UNCHANGED <<reader, left, failure, slot, sent, seen, cancels>>

\* put waits for room; on_chunk then raises the chunk's event.
Put ==
  /\ driver.at = "putting" /\ Room
  /\ buffer' = Append(buffer, driver.item)
  /\ driver' = AfterPut(driver.item) /\ events' = Told(driver.item)
  /\ UNCHANGED <<reader, left, failure, slot, sent, seen, cancels>>

-----------------------------------------------------------------------------
(* The generator and its consumer *)

Get ==
  /\ reader = "getting" /\ buffer # <<>>
  /\ LET item == Head(buffer) IN
     /\ buffer' = Tail(buffer)
     /\ failure' = (failure \/ item = Error)
     /\ reader' = CASE item = Sentinel -> "joining" [] item = Error -> "getting" [] OTHER -> "holding"
     /\ left' = IF item = Sentinel THEN "done" ELSE left
     /\ seen' = IF reader' = "holding" THEN Append(seen, item) ELSE seen
  /\ UNCHANGED <<driver, slot, sent, events, cancels>>

\* The consumer asks for the next item, or closes the generator.
Ask ==
  /\ reader = "holding"
  /\ reader' = "getting"
  /\ UNCHANGED <<left, failure, driver, slot, buffer, sent, events, seen, cancels>>

Leave ==
  /\ reader = "holding"
  /\ reader' = "joining" /\ left' = "closed"
  /\ UNCHANGED <<failure, driver, slot, buffer, sent, events, seen, cancels>>

\* A task cancelled in queue.get goes on to await the driver; cancelled there, it
\* hands the cancellation on to the driver.
CancelGet ==
  /\ reader = "getting" /\ cancels < Cancels
  /\ cancels' = cancels + 1
  /\ reader' = "joining" /\ left' = "cancelled"
  /\ UNCHANGED <<failure, driver, slot, buffer, sent, events, seen>>

CancelJoin ==
  /\ reader = "joining" /\ driver.at # "over" /\ cancels < Cancels
  /\ cancels' = cancels + 1
  /\ driver' = IF driver.at = "putting" THEN AfterCancel(driver.item) ELSE At("putting", Error)
  /\ slot' = FALSE
  /\ UNCHANGED <<reader, left, failure, buffer, sent, events, seen>>

DriverOver == driver.at = "over"

\* Everything but an exhausted stream without an error ends in an error event,
\* a consumer that leaves at the result included.
JoinDriver ==
  /\ reader = "joining" /\ DriverOver
  /\ reader' = "closed"
  /\ events' = Append(events, IF left = "done" /\ ~failure THEN "end" ELSE "error")
  /\ UNCHANGED <<left, failure, driver, slot, buffer, sent, seen, cancels>>

-----------------------------------------------------------------------------

StreamInit ==
  /\ reader = "new" /\ left = "none" /\ failure = FALSE
  /\ driver = Idle("none") /\ slot = FALSE
  /\ buffer = <<>> /\ sent = 0 /\ events = <<>> /\ seen = <<>> /\ cancels = 0

Drive == Admit \/ Piece \/ Complete(Result) \/ Complete(Error) \/ Put
Receive == Get \/ JoinDriver

StreamNext == Open \/ OpenRejects \/ Drive \/ Receive \/ Ask \/ Leave \/ CancelGet \/ CancelJoin

\* The event loop goes on, and a provider ends its stream; a consumer may stay away.
StreamFairness == WF_streamvars(Drive) /\ WF_streamvars(Receive)

StreamSpec == StreamInit /\ [][StreamNext]_streamvars /\ StreamFairness

-----------------------------------------------------------------------------
(* Properties *)

Verdicts == {n \in DOMAIN events : events[n] \in {"end", "error"}}
Chunks(n) == [k \in 1 .. n |-> Chunk(k)]

\* However slow the consumer and full the queue, it is given the chunks as the
\* provider sent them, without a gap, and the result after the last of them; a
\* stream it exhausts without an error has given it everything.
StreamTold ==
  /\ \E n \in 0 .. sent : seen = Chunks(n) \/ seen = Append(Chunks(sent), Result)
  /\ left = "done" /\ ~failure => seen = Append(Chunks(sent), Result)

\* A run raises one "end" or "error", after every chunk event it ever raises, and
\* by then its driver is over and holds no slot.
VerdictIsLast ==
  /\ Verdicts \subseteq {Len(events)}
  /\ reader = "closed" <=> Verdicts # {}
  /\ reader = "closed" => ~slot /\ driver.at \in {"none", "over"}

\* A consumer left while the driver waits to put into a full queue: nobody will
\* read it again, and the slot stays taken while what it waits to put is a chunk.
LeftStuck == reader = "joining" /\ left # "done" /\ driver.at = "putting" /\ ~Room

\* A consumer that asks is answered, and one that leaves or is cancelled gets out,
\* unless it left with more items to come than the queue has room for.
StreamEnds == reader \in {"getting", "joining"} ~> reader \in {"holding", "closed"} \/ LeftStuck

\* What the stream and the events tell of an invocation, together.
StreamSound ==
  /\ StreamTold
  /\ VerdictIsLast

=============================================================================

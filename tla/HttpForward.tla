---------------------------- MODULE HttpForward ----------------------------
(***************************************************************************)
(* The HTTP forwarding observer of operad/dashboard.py: a bounded queue    *)
(* filled by the agent's thread, a daemon thread that drains it in batches *)
(* and POSTs them, and _flush_sync, run by atexit on the main thread.      *)
(*                                                                         *)
(* The two threads that post are "drain" and "flush"; an action is one     *)
(* call on the shared queue, or one attempt of a POST.  An event is the    *)
(* number of its emission.  A request stays on the wire until the server   *)
(* serves it, which may be long after its client has given up.             *)
(***************************************************************************)
EXTENDS Naturals, FiniteSets, SequencesExt

CONSTANTS Events,    \* bound: events emitted
          Capacity,  \* _QUEUE_CAPACITY
          BatchSize, \* _DRAIN_BATCH_SIZE
          Attempts,  \* attempts of a POST
          Faults     \* of "refuse", "slow"

ASSUME HttpForwardAssumption ==
  /\ Events \in Nat /\ Capacity \in Nat \ {0}
  /\ BatchSize \in Nat \ {0} /\ Attempts \in Nat \ {0}
  /\ Faults \subseteq {"refuse", "slow"}

Thread == {"drain", "flush"}

VARIABLES emitted,  \* events emitted so far
          queue,
          stop,     \* the threading.Event
          pc, batch, attempt, \* of each thread
          answer,   \* of each thread's request: "none", "ok"
          wire,     \* requests the server has yet to serve
          received, \* what the server has ingested
          excused,  \* history: events dropped on a full queue or after three attempts
          prompt    \* history: no wait for a POST has timed out

poster == <<pc, batch, attempt, answer>>
vars == <<emitted, queue, stop, poster, wire, received, excused, prompt>>

Goto(th, where) == pc' = [pc EXCEPT ![th] = where]
NoFlush == pc["flush"] = "idle"
Exited == pc["flush"] = "exited"

-----------------------------------------------------------------------------
(* The agent's side *)

\* on_event and post_graph: put_nowait, or drop when the queue is full.
Emit ==
  /\ NoFlush /\ emitted < Events
  /\ emitted' = emitted + 1
  /\ \/ /\ Len(queue) < Capacity
        /\ queue' = Append(queue, emitted')
        /\ UNCHANGED excused
     \/ /\ Len(queue) = Capacity
        /\ excused' = excused \cup {emitted'}
        /\ UNCHANGED queue
  /\ UNCHANGED <<stop, poster, wire, received, prompt>>

-----------------------------------------------------------------------------
(* _post_batch_sync *)

StartPost(th) ==
  /\ Goto(th, "send")
  /\ attempt' = [attempt EXCEPT ![th] = 1]

\* What a thread does once the POST is over.
After(th) == IF th = "drain" THEN "loop" ELSE "exited"

EndPost(th) ==
  /\ Goto(th, After(th))
  /\ batch' = [batch EXCEPT ![th] = <<>>]

\* urlopen sends the request.
Send(th) ==
  /\ pc[th] = "send" /\ ~Exited
  /\ wire' = wire \cup {[from |-> th, number |-> attempt[th], body |-> batch[th]]}
  /\ answer' = [answer EXCEPT ![th] = "none"]
  /\ Goto(th, "wait")
  /\ UNCHANGED <<emitted, queue, stop, batch, attempt, received, excused, prompt>>

Mine(th) == {r \in wire : r.from = th /\ r.number = attempt[th] /\ r.body = batch[th]}

\* The /_ingest endpoint of the dashboard ingests the batch, in one go.
Serve(r) ==
  /\ wire' = wire \ {r}
  /\ received' = received \o r.body
  /\ answer' = [th \in Thread |-> IF pc[th] = "wait" /\ r \in Mine(th)
                                  THEN "ok" ELSE answer[th]]
  /\ UNCHANGED <<emitted, queue, stop, pc, batch, attempt, excused, prompt>>

PostDone(th) ==
  /\ pc[th] = "wait" /\ answer[th] = "ok" /\ ~Exited
  /\ EndPost(th)
  /\ UNCHANGED <<emitted, queue, stop, attempt, answer, wire, received, excused, prompt>>

GivesUp(th) == attempt[th] = Attempts

\* An attempt failed: try again, or drop the batch for good.
Failed(th) ==
  \/ /\ ~GivesUp(th)
     /\ attempt' = [attempt EXCEPT ![th] = @ + 1]
     /\ Goto(th, "send")
     /\ UNCHANGED <<batch, excused>>
  \/ /\ GivesUp(th)
     /\ excused' = excused \cup ToSet(batch[th])
     /\ EndPost(th)
     /\ UNCHANGED attempt

\* The connection is refused, or dies before the server has read the request.
Refused(th) ==
  /\ "refuse" \in Faults
  /\ pc[th] = "wait" /\ answer[th] = "none" /\ ~Exited
  /\ wire' = wire \ Mine(th)
  /\ Failed(th)
  /\ UNCHANGED <<emitted, queue, stop, answer, received, prompt>>

\* urlopen times out, before or after the server got hold of the request: if
\* after, it may be served all the same.
TimesOut(th) ==
  /\ "slow" \in Faults
  /\ pc[th] = "wait" /\ ~Exited
  /\ wire' \in {wire, wire \ Mine(th)}
  /\ prompt' = FALSE
  /\ Failed(th)
  /\ UNCHANGED <<emitted, queue, stop, answer, received>>

-----------------------------------------------------------------------------
(* _drain_loop *)

\* `while not stop.is_set()`
Check ==
  /\ pc["drain"] = "loop" /\ ~Exited
  /\ Goto("drain", IF stop THEN "stopped" ELSE "get")
  /\ UNCHANGED <<emitted, queue, stop, batch, attempt, answer, wire, received, excused, prompt>>

\* Mutant: the newest event is taken first.
PopNewest(th) ==
  /\ queue # <<>>
  /\ batch' = [batch EXCEPT ![th] = Append(@, Last(queue))]
  /\ queue' = Front(queue)

Pop(th) ==
  /\ queue # <<>>
  /\ batch' = [batch EXCEPT ![th] = Append(@, Head(queue))]
  /\ queue' = Tail(queue)

\* queue.get(timeout=0.05)
GetFirst ==
  /\ pc["drain"] = "get" /\ ~Exited
  /\ Pop("drain")
  /\ Goto("drain", "fill")
  /\ UNCHANGED <<emitted, stop, attempt, answer, wire, received, excused, prompt>>

GetEmpty ==
  /\ pc["drain"] = "get" /\ queue = <<>> /\ ~Exited
  /\ Goto("drain", "loop")
  /\ UNCHANGED <<emitted, queue, stop, batch, attempt, answer, wire, received, excused, prompt>>

\* get_nowait up to the size of a batch.
Fill ==
  /\ pc["drain"] = "fill" /\ ~Exited
  /\ Len(batch["drain"]) < BatchSize
  /\ Pop("drain")
  /\ UNCHANGED <<emitted, stop, pc, attempt, answer, wire, received, excused, prompt>>

\* Mutant: a batch filled while the stop flag was raised is not posted.
FullDropsOnStop ==
  /\ pc["drain"] = "fill" /\ ~Exited
  /\ Len(batch["drain"]) = BatchSize \/ queue = <<>>
  /\ \/ ~stop /\ StartPost("drain") /\ UNCHANGED batch
     \/ stop /\ EndPost("drain") /\ UNCHANGED attempt
  /\ UNCHANGED <<emitted, queue, stop, answer, wire, received, excused, prompt>>

Full ==
  /\ pc["drain"] = "fill" /\ ~Exited
  /\ Len(batch["drain"]) = BatchSize \/ queue = <<>>
  /\ StartPost("drain")
  /\ UNCHANGED <<emitted, queue, stop, batch, answer, wire, received, excused, prompt>>

-----------------------------------------------------------------------------
(* _flush_sync *)

\* Mutant: the flush does not raise the flag.
BeginFlushSilently ==
  /\ NoFlush
  /\ Goto("flush", "join")
  /\ UNCHANGED <<emitted, queue, stop, batch, attempt, answer, wire, received, excused, prompt>>

BeginFlush ==
  /\ NoFlush
  /\ stop' = TRUE
  /\ Goto("flush", "join")
  /\ UNCHANGED <<emitted, queue, batch, attempt, answer, wire, received, excused, prompt>>

\* join() returns when the drain thread is over, or after two seconds: the time
\* an attempt may wait for its answer, and less than a second attempt needs.
Joined ==
  \/ pc["drain"] = "stopped"
  \/ /\ "slow" \in Faults
     /\ pc["drain"] = "wait" \/ (pc["drain"] = "send" /\ attempt["drain"] > 1)

Join ==
  /\ pc["flush"] = "join" /\ Joined
  /\ Goto("flush", "collect")
  /\ prompt' = (prompt /\ pc["drain"] = "stopped")
  /\ UNCHANGED <<emitted, queue, stop, batch, attempt, answer, wire, received, excused>>

Collect ==
  /\ pc["flush"] = "collect"
  /\ Pop("flush")
  /\ UNCHANGED <<emitted, stop, pc, attempt, answer, wire, received, excused, prompt>>

\* The residual is posted, unless there is none; then the process exits, and
\* the daemon thread with it.
Collected ==
  /\ pc["flush"] = "collect" /\ queue = <<>>
  /\ \/ batch["flush"] # <<>> /\ StartPost("flush")
     \/ batch["flush"] = <<>> /\ Goto("flush", "exited") /\ UNCHANGED attempt
  /\ UNCHANGED <<emitted, queue, stop, batch, answer, wire, received, excused, prompt>>

-----------------------------------------------------------------------------

Init ==
  /\ emitted = 0 /\ queue = <<>> /\ stop = FALSE
  /\ pc = [th \in Thread |-> IF th = "drain" THEN "loop" ELSE "idle"]
  /\ batch = [th \in Thread |-> <<>>]
  /\ attempt = [th \in Thread |-> 0]
  /\ answer = [th \in Thread |-> "none"]
  /\ wire = {} /\ received = <<>> /\ excused = {} /\ prompt = TRUE

Post(th) == Send(th) \/ PostDone(th) \/ Refused(th) \/ TimesOut(th)
Drain == Check \/ GetFirst \/ GetEmpty \/ Fill \/ Full
Flush == Join \/ Collect \/ Collected

Done == Exited /\ wire = {} /\ UNCHANGED vars

Next ==
  \/ Emit \/ BeginFlush
  \/ Drain \/ Flush
  \/ \E th \in Thread : Post(th)
  \/ \E r \in wire : Serve(r)
  \/ Done

Spec == Init /\ [][Next]_vars

\* The threads run and a POST ends, if only by its timeout.
Fairness ==
  /\ WF_vars(Drain \/ Post("drain")) /\ WF_vars(Flush \/ Post("flush"))
  /\ WF_vars(\E r \in wire : Serve(r))

FairSpec == Spec /\ Fairness

-----------------------------------------------------------------------------
(* Properties *)

TypeOK ==
  /\ emitted \in 0 .. Events /\ stop \in BOOLEAN
  /\ queue \in Seq(1 .. Events) /\ Len(queue) <= Capacity
  /\ pc["drain"] \in {"loop", "get", "fill", "send", "wait", "stopped"}
  /\ pc["flush"] \in {"idle", "join", "collect", "send", "wait", "exited"}
  /\ batch \in [Thread -> Seq(1 .. Events)] /\ Len(batch["drain"]) <= BatchSize
  /\ attempt \in [Thread -> 0 .. Attempts]
  /\ answer \in [Thread -> {"none", "ok"}]
  /\ wire \subseteq [from : Thread, number : 1 .. Attempts, body : Seq(1 .. Events)]
  /\ received \in Seq(1 .. Events) /\ excused \subseteq 1 .. Events
  /\ prompt \in BOOLEAN

\* Events that have not reached the dashboard, nor will, for none of the reasons
\* the documentation gives.
Lost == (1 .. emitted) \ (ToSet(received) \cup excused \cup UNION {ToSet(r.body) : r \in wire})

\* "No events are lost as long as the process exits cleanly": once the process
\* is gone, an event is received, still on the wire, or was dropped because the
\* queue was full or three attempts to post it had failed.
NothingLost == Exited => Lost = {}

\* What the code does keep: an event is lost at exit only if the drain thread
\* held it, hence no more than a batch, and none when no wait timed out.
LossBounded ==
  Exited => Lost \subseteq ToSet(batch["drain"]) /\ (prompt => Lost = {})

\* Until a wait for a POST times out, events arrive in order and once, whatever
\* is refused and whichever thread posts.
Channel == INSTANCE LossyFifo WITH sent <- emitted, got <- received
OrderWhilePrompt ==
  Channel!FifoInit /\ [][prompt' => Channel!FifoNext]_<<emitted, received>>

\* A dashboard that is down does not keep the process from exiting.
FlushEnds == pc["flush"] = "join" ~> Exited

=============================================================================

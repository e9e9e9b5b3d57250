---------------------------- MODULE EventsProofs ----------------------------
(***************************************************************************)
(* Events on their way to the dashboard, and what it makes of them.        *)
(* The HTTP forwarder, for any number of events, any capacity, batch size  *)
(* and number of attempts: its type invariant, and what it loses at exit:  *)
(* at most the batch of the drain thread, and no event while nothing times *)
(* out.  The dashboard, for any runs, ends of them, bounds of its registry *)
(* and queues, and any number of edits and restarts: what it archives is   *)
(* what its registry came to, and no verdict is taken back.                *)
(***************************************************************************)
EXTENDS HttpForward, Dashboard, SeqLemmas, FiniteSetTheorems

-----------------------------------------------------------------------------
(* The type invariant *)

\* What ties the threads' places to their batches and attempts.
Control ==
  /\ \A th \in Thread : pc[th] \in {"send", "wait"} => attempt[th] # 0
  /\ pc["drain"] \in {"loop", "get", "stopped"} => batch["drain"] = <<>>
  /\ pc["flush"] \in {"idle", "join", "exited"} => batch["flush"] = <<>>
  /\ pc \in [Thread -> {"loop", "get", "fill", "send", "wait", "stopped",
                        "idle", "join", "collect", "exited"}]

TypeInv == TypeOK /\ Control

LEMMA InitType == Init => TypeInv
<1> SUFFICES ASSUME Init PROVE TypeInv
  OBVIOUS
<1>2. /\ pc["drain"] = "loop" /\ pc["flush"] = "idle"
      /\ batch["drain"] = <<>> /\ batch["flush"] = <<>>
  BY DEF Init, Thread
<1>3. <<>> \in Seq(1 .. Events) /\ Len(<<>>) = 0
  OBVIOUS
<1>4. /\ batch \in [Thread -> Seq(1 .. Events)]
      /\ attempt \in [Thread -> 0 .. Attempts]
      /\ answer \in [Thread -> {"none", "ok"}]
  BY <1>3, HttpForwardAssumption DEF Init
<1>5. TypeOK
  <2>1. emitted \in 0 .. Events /\ stop \in BOOLEAN
    <3>1. emitted \in 0 .. Events
      BY HttpForwardAssumption DEF Init
    <3>2. stop \in BOOLEAN
      BY Zenon DEF Init
    <3>3. QED
      BY <3>1, <3>2
  <2>2. queue \in Seq(1 .. Events) /\ Len(queue) <= Capacity
    BY <1>3, HttpForwardAssumption DEF Init
  <2>3. Len(batch["drain"]) <= BatchSize
    BY <1>2, <1>3, HttpForwardAssumption
  <2>4. wire = {} /\ excused = {} /\ received \in Seq(1 .. Events)
    BY <1>3 DEF Init
  <2>5. prompt \in BOOLEAN
    BY Zenon DEF Init
  <2>6. QED
    BY <1>2, <1>4, <2>1, <2>2, <2>3, <2>4, <2>5 DEF TypeOK
<1>6. pc \in [Thread -> {"loop", "get", "fill", "send", "wait", "stopped",
                         "idle", "join", "collect", "exited"}]
  BY DEF Init
<1>7. \A th \in Thread : pc[th] \notin {"send", "wait"}
  BY <1>2 DEF Thread
<1>8. Control
  BY <1>2, <1>6, <1>7, Zenon DEF Control
<1>9. QED
  BY <1>5, <1>8 DEF TypeInv

\* Every step but those of the flush and the drain loop, by the thread posting.
LEMMA PostType ==
  ASSUME TypeInv, NEW th \in Thread, Post(th)
  PROVE  TypeInv'
<1> USE HttpForwardAssumption DEF Thread
<1>1. CASE Send(th)
  <2>1. attempt[th] \in 1 .. Attempts
    BY <1>1 DEF Send, TypeInv, TypeOK, Control
  <2>2. [from |-> th, number |-> attempt[th], body |-> batch[th]]
          \in [from : Thread, number : 1 .. Attempts, body : Seq(1 .. Events)]
    BY <2>1 DEF TypeInv, TypeOK
  <2>3. TypeOK'
    BY <1>1, <2>2 DEF Send, Goto, TypeInv, TypeOK, Control
  <2>4. Control'
    BY <1>1 DEF Send, Goto, TypeInv, TypeOK, Control
  <2>5. QED
    BY <2>3, <2>4 DEF TypeInv
<1>2. CASE PostDone(th)
  <2>1. TypeOK'
    BY <1>2 DEF PostDone, EndPost, After, Goto, TypeInv, TypeOK
  <2>2. Control'
    BY <1>2 DEF PostDone, EndPost, After, Goto, TypeInv, TypeOK, Control
  <2>3. QED
    BY <2>1, <2>2 DEF TypeInv
<1>3. ASSUME pc[th] = "wait", Failed(th), wire' \subseteq wire, prompt' \in BOOLEAN,
             UNCHANGED <<emitted, queue, stop, answer, received>>
      PROVE  TypeInv'
  <2>1. CASE ~GivesUp(th) /\ attempt' = [attempt EXCEPT ![th] = @ + 1]
             /\ Goto(th, "send") /\ UNCHANGED <<batch, excused>>
    <3>1. attempt[th] \in 0 .. Attempts - 1
      BY <2>1 DEF GivesUp, TypeInv, TypeOK
    <3>2. attempt' \in [Thread -> 0 .. Attempts] /\ attempt'[th] # 0
      BY <2>1, <3>1 DEF TypeInv, TypeOK
    <3>3. TypeOK'
      BY <1>3, <2>1, <3>2 DEF Goto, TypeInv, TypeOK, Control
    <3>4. Control'
      BY <1>3, <2>1, <3>2 DEF Goto, TypeInv, TypeOK, Control
    <3>5. QED
      BY <3>3, <3>4 DEF TypeInv
  <2>2. CASE excused' = excused \cup ToSet(batch[th]) /\ EndPost(th) /\ UNCHANGED attempt
    <3>1. ToSet(batch[th]) \subseteq 1 .. Events
      BY DEF TypeInv, TypeOK, ToSet
    <3>2. batch' \in [Thread -> Seq(1 .. Events)] /\ Len(batch'["drain"]) <= BatchSize
      BY <2>2 DEF EndPost, TypeInv, TypeOK
    <3>3. /\ pc'["drain"] \in {"loop", "get", "fill", "send", "wait", "stopped"}
          /\ pc'["flush"] \in {"idle", "join", "collect", "send", "wait", "exited"}
      BY <2>2 DEF EndPost, After, Goto, TypeInv, TypeOK, Control
    <3>4. excused' \subseteq 1 .. Events
      BY <2>2, <3>1 DEF TypeInv, TypeOK
    <3>5. TypeOK'
      BY <1>3, <2>2, <3>2, <3>3, <3>4 DEF TypeInv, TypeOK
    <3>6. Control'
      BY <1>3, <2>2 DEF EndPost, After, Goto, TypeInv, TypeOK, Control
    <3>7. QED
      BY <3>5, <3>6 DEF TypeInv
  <2>3. QED
    BY <1>3, <2>1, <2>2 DEF Failed
<1>4. CASE Refused(th)
  BY <1>3, <1>4 DEF Refused, TypeInv, TypeOK
<1>5. CASE TimesOut(th)
  BY <1>3, <1>5 DEF TimesOut
<1>6. QED
  BY <1>1, <1>2, <1>4, <1>5 DEF Post

LEMMA EmitType == ASSUME TypeInv, Emit PROVE TypeInv'
<1> USE HttpForwardAssumption
<1>1. emitted' \in 1 .. Events /\ emitted' \in 0 .. Events
  BY DEF Emit, TypeInv, TypeOK
<1>2. queue' \in Seq(1 .. Events) /\ Len(queue') <= Capacity /\ excused' \subseteq 1 .. Events
  <2>1. CASE queue' = Append(queue, emitted') /\ Len(queue) < Capacity /\ UNCHANGED excused
    <3>1. queue \in Seq(1 .. Events) /\ excused \subseteq 1 .. Events
      BY DEF TypeInv, TypeOK
    <3>2. queue' \in Seq(1 .. Events) /\ Len(queue') = Len(queue) + 1
      BY <1>1, <2>1, <3>1
    <3>3. Len(queue') <= Capacity
      BY <2>1, <3>1, <3>2
    <3>4. QED
      BY <2>1, <3>1, <3>2, <3>3
  <2>2. CASE excused' = excused \cup {emitted'} /\ UNCHANGED queue
    BY <1>1, <2>2 DEF TypeInv, TypeOK
  <2>3. QED
    BY <2>1, <2>2 DEF Emit
<1>3. UNCHANGED <<stop, pc, batch, attempt, answer, wire, received, prompt>>
  BY DEF Emit, poster
<1>4. TypeOK'
  BY <1>1, <1>2, <1>3 DEF TypeInv, TypeOK
<1>5. Control'
  BY <1>3 DEF TypeInv, Control
<1>6. QED
  BY <1>4, <1>5 DEF TypeInv

LEMMA ServeType == ASSUME TypeInv, NEW r \in wire, Serve(r) PROVE TypeInv'
<1>1. r.body \in Seq(1 .. Events)
  BY DEF TypeInv, TypeOK
<1>2. received' \in Seq(1 .. Events)
  BY <1>1 DEF Serve, TypeInv, TypeOK
<1>3. answer' \in [Thread -> {"none", "ok"}] /\ wire' \subseteq wire
  BY DEF Serve, TypeInv, TypeOK
<1>4. UNCHANGED <<emitted, queue, stop, pc, batch, attempt, excused, prompt>>
  BY DEF Serve
<1>5. TypeOK'
  BY <1>2, <1>3, <1>4 DEF TypeInv, TypeOK
<1>6. Control'
  BY <1>4 DEF TypeInv, Control
<1>7. QED
  BY <1>5, <1>6 DEF TypeInv

\* What taking the head of the queue does to the queue and the taker's batch.
LEMMA PopType ==
  ASSUME TypeInv, NEW th \in Thread, Pop(th)
  PROVE  /\ queue' \in Seq(1 .. Events) /\ Len(queue') <= Capacity
         /\ batch' \in [Thread -> Seq(1 .. Events)]
         /\ Len(batch'[th]) = Len(batch[th]) + 1 /\ batch'[th] # <<>>
         /\ \A u \in Thread \ {th} : batch'[u] = batch[u]
         /\ ToSet(batch'[th]) = ToSet(batch[th]) \cup {Head(queue)}
         /\ ToSet(queue) = {Head(queue)} \cup ToSet(queue')
<1>1. queue \in Seq(1 .. Events) /\ queue # <<>> /\ batch[th] \in Seq(1 .. Events)
  BY DEF TypeInv, TypeOK, Pop
<1>2. /\ Head(queue) \in 1 .. Events /\ Tail(queue) \in Seq(1 .. Events)
      /\ Len(Tail(queue)) = Len(queue) - 1
      /\ ToSet(queue) = {Head(queue)} \cup ToSet(Tail(queue))
  BY <1>1, ToSetHeadTail
<1>3. queue' = Tail(queue) /\ batch' = [batch EXCEPT ![th] = Append(@, Head(queue))]
  BY DEF Pop
<1>4. batch'[th] = Append(batch[th], Head(queue))
  BY <1>3 DEF TypeInv, TypeOK
<1>5. /\ batch'[th] \in Seq(1 .. Events)
      /\ Len(batch'[th]) = Len(batch[th]) + 1 /\ batch'[th] # <<>>
  BY <1>1, <1>2, <1>4
<1>6. batch' \in [Thread -> Seq(1 .. Events)] /\ \A u \in Thread \ {th} : batch'[u] = batch[u]
  BY <1>3, <1>4, <1>5 DEF TypeInv, TypeOK
<1>7. ToSet(batch'[th]) = ToSet(batch[th]) \cup {Head(queue)}
  BY <1>1, <1>2, <1>4, ToSetAppend
<1>8. Len(queue') <= Capacity
  BY <1>1, <1>2, <1>3, HttpForwardAssumption DEF TypeInv, TypeOK
<1>9. QED
  BY <1>2, <1>3, <1>5, <1>6, <1>7, <1>8

LEMMA DrainType == ASSUME TypeInv, Drain PROVE TypeInv'
<1> USE HttpForwardAssumption
<1>0. "drain" \in Thread /\ "flush" \in Thread /\ "drain" # "flush"
  BY DEF Thread
<1>1. CASE Check
  <2>1. /\ pc'["drain"] \in {"get", "stopped"} /\ pc'["flush"] = pc["flush"]
        /\ batch["drain"] = <<>>
    BY <1>0, <1>1 DEF Check, Goto, TypeInv, Control
  <2>2. UNCHANGED <<emitted, queue, stop, batch, attempt, answer, wire, received, excused, prompt>>
    BY <1>1 DEF Check
  <2>3. TypeOK'
    BY <2>1, <2>2 DEF TypeInv, TypeOK
  <2>4. Control'
    BY <1>1, <2>1, <2>2 DEF Check, Goto, TypeInv, Control, Thread
  <2>5. QED
    BY <2>3, <2>4 DEF TypeInv
<1>2. CASE GetFirst
  <2>1. Pop("drain") /\ batch["drain"] = <<>>
    BY <1>2 DEF GetFirst, TypeInv, Control
  <2>2. /\ queue' \in Seq(1 .. Events) /\ Len(queue') <= Capacity
        /\ batch' \in [Thread -> Seq(1 .. Events)]
        /\ Len(batch'["drain"]) = Len(batch["drain"]) + 1
        /\ batch'["flush"] = batch["flush"]
    BY <1>0, <2>1, PopType
  <2>3. Len(batch'["drain"]) <= BatchSize
    BY <2>1, <2>2
  <2>4. pc'["drain"] = "fill" /\ pc'["flush"] = pc["flush"]
    BY <1>0, <1>2 DEF GetFirst, Goto, TypeInv, Control
  <2>5. UNCHANGED <<emitted, stop, attempt, answer, wire, received, excused, prompt>>
    BY <1>2 DEF GetFirst
  <2>6. TypeOK'
    BY <2>2, <2>3, <2>4, <2>5 DEF TypeInv, TypeOK
  <2>7. Control'
    BY <1>2, <2>2, <2>4, <2>5 DEF GetFirst, Goto, TypeInv, Control, Thread
  <2>8. QED
    BY <2>6, <2>7 DEF TypeInv
<1>3. CASE GetEmpty
  <2>1. pc'["drain"] = "loop" /\ pc'["flush"] = pc["flush"] /\ batch["drain"] = <<>>
    BY <1>0, <1>3 DEF GetEmpty, Goto, TypeInv, Control
  <2>2. UNCHANGED <<emitted, queue, stop, batch, attempt, answer, wire, received, excused, prompt>>
    BY <1>3 DEF GetEmpty
  <2>3. TypeOK'
    BY <2>1, <2>2 DEF TypeInv, TypeOK
  <2>4. Control'
    BY <1>3, <2>1, <2>2 DEF GetEmpty, Goto, TypeInv, Control, Thread
  <2>5. QED
    BY <2>3, <2>4 DEF TypeInv
<1>4. CASE Fill
  <2>1. Pop("drain") /\ pc["drain"] = "fill" /\ Len(batch["drain"]) < BatchSize
    BY <1>4 DEF Fill
  <2>2. /\ queue' \in Seq(1 .. Events) /\ Len(queue') <= Capacity
        /\ batch' \in [Thread -> Seq(1 .. Events)]
        /\ Len(batch'["drain"]) = Len(batch["drain"]) + 1
        /\ batch'["flush"] = batch["flush"]
    BY <1>0, <2>1, PopType
  <2>3. Len(batch["drain"]) \in Nat
    BY <1>0 DEF TypeInv, TypeOK
  <2>4. Len(batch'["drain"]) <= BatchSize
    BY <2>1, <2>2, <2>3
  <2>5. UNCHANGED <<emitted, stop, pc, attempt, answer, wire, received, excused, prompt>>
    BY <1>4 DEF Fill
  <2>6. TypeOK'
    BY <2>2, <2>4, <2>5 DEF TypeInv, TypeOK
  <2>7. Control'
    BY <2>1, <2>2, <2>5 DEF TypeInv, Control
  <2>8. QED
    BY <2>6, <2>7 DEF TypeInv
<1>5. CASE Full
  <2>1. pc'["drain"] = "send" /\ pc'["flush"] = pc["flush"]
    BY <1>0, <1>5 DEF Full, StartPost, Goto, TypeInv, Control
  <2>2. UNCHANGED <<emitted, queue, stop, batch, answer, wire, received, excused, prompt>>
    BY <1>5 DEF Full
  <2>3. attempt' \in [Thread -> 0 .. Attempts] /\ attempt'["drain"] = 1
        /\ attempt'["flush"] = attempt["flush"]
    BY <1>0, <1>5 DEF Full, StartPost, TypeInv, TypeOK
  <2>4. TypeOK'
    BY <2>1, <2>2, <2>3 DEF TypeInv, TypeOK
  <2>5. Control'
    BY <1>5, <2>1, <2>2, <2>3 DEF Full, StartPost, Goto, TypeInv, Control, Thread
  <2>6. QED
    BY <2>4, <2>5 DEF TypeInv
<1>6. QED
  BY <1>1, <1>2, <1>3, <1>4, <1>5 DEF Drain

LEMMA FlushType == ASSUME TypeInv, BeginFlush \/ Flush PROVE TypeInv'
<1> USE HttpForwardAssumption
<1>0. "drain" \in Thread /\ "flush" \in Thread /\ "drain" # "flush"
  BY DEF Thread
<1>1. CASE BeginFlush
  <2>1. pc["flush"] = "idle" /\ pc'["flush"] = "join" /\ pc'["drain"] = pc["drain"]
    BY <1>0, <1>1 DEF BeginFlush, NoFlush, Goto, TypeInv, Control
  <2>2. stop' = TRUE /\ UNCHANGED <<emitted, queue, batch, attempt, answer, wire, received, excused, prompt>>
    BY <1>1 DEF BeginFlush
  <2>3. TypeOK'
    BY <2>1, <2>2 DEF TypeInv, TypeOK
  <2>4. Control'
    BY <1>1, <2>1, <2>2 DEF BeginFlush, Goto, TypeInv, Control, Thread
  <2>5. QED
    BY <2>3, <2>4 DEF TypeInv
<1>2. CASE Join
  <2>1. pc["flush"] = "join" /\ pc'["flush"] = "collect" /\ pc'["drain"] = pc["drain"]
    BY <1>0, <1>2 DEF Join, Goto, TypeInv, Control
  <2>2. UNCHANGED <<emitted, queue, stop, batch, attempt, answer, wire, received, excused>>
    BY <1>2 DEF Join
  <2>6. prompt' \in BOOLEAN
    BY <1>2 DEF Join
  <2>3. TypeOK'
    BY <2>1, <2>2, <2>6 DEF TypeInv, TypeOK
  <2>4. Control'
    BY <1>2, <2>1, <2>2 DEF Join, Goto, TypeInv, Control, Thread
  <2>5. QED
    BY <2>3, <2>4 DEF TypeInv
<1>3. CASE Collect
  <2>1. Pop("flush") /\ pc["flush"] = "collect"
    BY <1>3 DEF Collect
  <2>2. /\ queue' \in Seq(1 .. Events) /\ Len(queue') <= Capacity
        /\ batch' \in [Thread -> Seq(1 .. Events)]
        /\ batch'["drain"] = batch["drain"]
    BY <1>0, <2>1, PopType
  <2>3. UNCHANGED <<emitted, stop, pc, attempt, answer, wire, received, excused, prompt>>
    BY <1>3 DEF Collect
  <2>4. TypeOK'
    BY <2>2, <2>3 DEF TypeInv, TypeOK
  <2>5. Control'
    BY <2>1, <2>2, <2>3 DEF TypeInv, Control
  <2>6. QED
    BY <2>4, <2>5 DEF TypeInv
<1>4. CASE Collected
  <2>1. /\ pc'["drain"] = pc["drain"]
        /\ \/ pc'["flush"] = "send" /\ attempt' = [attempt EXCEPT !["flush"] = 1]
           \/ pc'["flush"] = "exited" /\ batch["flush"] = <<>> /\ attempt' = attempt
    BY <1>0, <1>4 DEF Collected, StartPost, Goto, TypeInv, Control
  <2>2. UNCHANGED <<emitted, queue, stop, batch, answer, wire, received, excused, prompt>>
    BY <1>4 DEF Collected
  <2>3. attempt' \in [Thread -> 0 .. Attempts]
    <3>1. 1 \in 0 .. Attempts /\ attempt \in [Thread -> 0 .. Attempts]
      BY DEF TypeInv, TypeOK
    <3>2. QED
      BY <2>1, <3>1
  <2>4. TypeOK'
    BY <2>1, <2>2, <2>3 DEF TypeInv, TypeOK
  <2>5. /\ \A th \in Thread : pc'[th] \in {"send", "wait"} => attempt'[th] # 0
    BY <1>0, <2>1 DEF TypeInv, TypeOK, Control, Thread
  <2>6. pc' \in [Thread -> {"loop", "get", "fill", "send", "wait", "stopped",
                            "idle", "join", "collect", "exited"}]
    BY <1>4 DEF Collected, StartPost, Goto, TypeInv, Control
  <2>7. Control'
    BY <2>1, <2>2, <2>5, <2>6 DEF TypeInv, Control
  <2>8. QED
    BY <2>4, <2>7 DEF TypeInv
<1>5. QED
  BY <1>1, <1>2, <1>3, <1>4 DEF Flush

LEMMA NextType == ASSUME TypeInv, [Next]_vars PROVE TypeInv'
<1>1. CASE UNCHANGED vars
  BY <1>1 DEF vars, poster, TypeInv, TypeOK, Control
<1>2. CASE Done
  BY <1>1, <1>2 DEF Done
<1>3. QED
  BY <1>1, <1>2, EmitType, FlushType, DrainType, PostType, ServeType DEF Next

\* At every moment the queue is within its capacity and the drain thread's
\* batch within _DRAIN_BATCH_SIZE, no attempt is one too many, and each thread is
\* where its part of the handler can be.
THEOREM HttpTypeOK == Spec => []TypeOK
<1>1. Spec => []TypeInv
  BY InitType, NextType, PTL DEF Spec
<1>2. TypeInv => TypeOK
  BY DEF TypeInv
<1>3. QED
  BY <1>1, <1>2, PTL

-----------------------------------------------------------------------------
(* What is lost at exit *)

\* An event emitted is in the queue, in a thread's hands, received or excused.
Account ==
  1 .. emitted \subseteq ToSet(queue) \cup ToSet(batch["drain"]) \cup ToSet(batch["flush"])
                         \cup ToSet(received) \cup excused

\* A thread that has its answer holds what the server has ingested.
Answered ==
  \A th \in Thread :
    pc[th] = "wait" /\ answer[th] = "ok" => ToSet(batch[th]) \subseteq ToSet(received)

\* The flush collects after the drain thread is over, unless it was kept waiting,
\* and posts all there is.
Handover ==
  /\ prompt /\ pc["flush"] \in {"collect", "send", "wait", "exited"} => pc["drain"] = "stopped"
  /\ pc["flush"] \in {"send", "wait", "exited"} => queue = <<>>

LossInv == TypeInv /\ Account /\ Answered /\ Handover

LEMMA LossInit == Init => LossInv
<1> SUFFICES ASSUME Init PROVE LossInv
  OBVIOUS
<1>1. TypeInv
  BY InitType
<1>2. pc["flush"] = "idle" /\ \A th \in Thread : answer[th] = "none"
  BY DEF Init, Thread
<1>3. Account
  <2>1. 1 .. 0 = {}
    OBVIOUS
  <2>2. QED
    BY <2>1 DEF Init, Account
<1>4. Answered /\ Handover
  BY <1>2 DEF Answered, Handover
<1>5. QED
  BY <1>1, <1>3, <1>4 DEF LossInv

LEMMA LossEmit == ASSUME LossInv, Emit PROVE LossInv'
<1>1. TypeInv /\ TypeInv'
  BY EmitType DEF LossInv
<1>2. UNCHANGED <<pc, batch, answer, received>> /\ pc["flush"] = "idle"
  BY DEF Emit, poster, NoFlush
<1>3. Account'
  <2>1. emitted \in Nat /\ emitted' = emitted + 1 /\ queue \in Seq(1 .. Events) /\ emitted' \in 1 .. Events
    BY <1>1, HttpForwardAssumption DEF Emit, TypeInv, TypeOK
  <2>2. 1 .. emitted' = (1 .. emitted) \cup {emitted'}
    BY <2>1
  <2>3. \/ ToSet(queue') = ToSet(queue) \cup {emitted'} /\ excused' = excused
        \/ queue' = queue /\ excused' = excused \cup {emitted'}
    <3>1. \A e \in 1 .. Events : ToSet(Append(queue, e)) = ToSet(queue) \cup {e}
      BY <2>1, ToSetAppend
    <3>2. \/ queue' = Append(queue, emitted') /\ excused' = excused
          \/ queue' = queue /\ excused' = excused \cup {emitted'}
      BY DEF Emit
    <3>3. QED
      BY <2>1, <3>1, <3>2
  <2>4. QED
    BY <1>2, <2>2, <2>3 DEF LossInv, Account
<1>4. Answered'
  BY <1>2 DEF LossInv, Answered
<1>5. Handover'
  BY <1>2 DEF Handover
<1>6. QED
  BY <1>1, <1>3, <1>4, <1>5 DEF LossInv

LEMMA LossServe == ASSUME LossInv, NEW r \in wire, Serve(r) PROVE LossInv'
<1>1. TypeInv /\ TypeInv'
  BY ServeType DEF LossInv
<1>2. UNCHANGED <<emitted, queue, pc, batch, excused, prompt>> /\ received' = received \o r.body
  BY DEF Serve
<1>3. ToSet(received') = ToSet(received) \cup ToSet(r.body)
  <2>1. received \in Seq(1 .. Events) /\ r.body \in Seq(1 .. Events)
    BY <1>1 DEF TypeInv, TypeOK
  <2>2. QED
    BY <1>2, <2>1, ToSetConcat
<1>4. Account'
  BY <1>2, <1>3 DEF LossInv, Account
<1>5. Answered'
  <2>1. SUFFICES ASSUME NEW th \in Thread, pc[th] = "wait", answer'[th] = "ok"
                 PROVE  ToSet(batch[th]) \subseteq ToSet(received')
    BY <1>2 DEF Answered
  <2>2. answer[th] = "ok" \/ r.body = batch[th]
    BY <2>1 DEF Serve, Mine
  <2>3. QED
    BY <1>3, <2>1, <2>2 DEF LossInv, Answered
<1>6. Handover'
  BY <1>2 DEF LossInv, Handover
<1>7. QED
  BY <1>1, <1>4, <1>5, <1>6 DEF LossInv

LEMMA LossPost ==
  ASSUME LossInv, NEW th \in Thread, Post(th)
  PROVE  LossInv'
<1>1. TypeInv /\ TypeInv'
  BY PostType DEF LossInv
<1>2. th \in {"drain", "flush"} /\ pc[th] \in {"send", "wait"}
  BY DEF Post, Send, PostDone, Refused, TimesOut, Thread
<1>3. CASE Send(th)
  <2>1. UNCHANGED <<emitted, queue, batch, received, excused, prompt>>
    BY <1>3 DEF Send
  <2>2. pc'[th] = "wait" /\ answer'[th] = "none" /\ pc[th] = "send"
        /\ \A u \in Thread \ {th} : pc'[u] = pc[u] /\ answer'[u] = answer[u]
    BY <1>1, <1>3 DEF Send, Goto, TypeInv, TypeOK, Control
  <2>3. Account'
    BY <2>1 DEF LossInv, Account
  <2>4. Answered'
    BY <2>1, <2>2 DEF LossInv, Answered
  <2>5. Handover'
    BY <1>2, <2>1, <2>2 DEF LossInv, Handover, Thread
  <2>6. QED
    BY <1>1, <2>3, <2>4, <2>5 DEF LossInv
<1>4. ASSUME EndPost(th), pc[th] = "wait", UNCHANGED <<emitted, queue, answer, received>>,
             prompt' => prompt, excused \subseteq excused', ToSet(batch[th]) \subseteq ToSet(received) \cup excused'
      PROVE  LossInv'
  <2>1. /\ pc'[th] = After(th) /\ batch'[th] = <<>>
        /\ \A u \in Thread \ {th} : pc'[u] = pc[u] /\ batch'[u] = batch[u]
    BY <1>1, <1>4 DEF EndPost, Goto, TypeInv, TypeOK, Control
  <2>2. Account'
    BY <1>2, <1>4, <2>1, ToSetEmpty DEF LossInv, Account, Thread
  <2>3. Answered'
    <3>1. pc'[th] # "wait"
      BY <2>1 DEF After
    <3>2. QED
      BY <1>4, <2>1, <3>1 DEF LossInv, Answered
  <2>4. Handover'
    <3>1. CASE th = "drain"
      <4>1. pc["drain"] = "wait" /\ pc'["flush"] = pc["flush"]
        BY <1>4, <2>1, <3>1 DEF Thread
      <4>2. QED
        BY <1>4, <4>1 DEF LossInv, Handover
    <3>2. CASE th = "flush"
      <4>1. pc["flush"] = "wait" /\ pc'["drain"] = pc["drain"]
        BY <1>4, <2>1, <3>2 DEF Thread
      <4>2. QED
        BY <1>4, <4>1 DEF LossInv, Handover
    <3>3. QED
      BY <1>2, <3>1, <3>2
  <2>5. QED
    BY <1>1, <2>2, <2>3, <2>4 DEF LossInv
<1>5. CASE PostDone(th)
  <2>1. /\ EndPost(th) /\ pc[th] = "wait" /\ answer[th] = "ok"
        /\ UNCHANGED <<emitted, queue, answer, received, excused, prompt>>
    BY <1>5 DEF PostDone
  <2>2. ToSet(batch[th]) \subseteq ToSet(received)
    BY <2>1 DEF LossInv, Answered
  <2>3. QED
    BY <1>4, <2>1, <2>2
<1>6. CASE Refused(th) \/ TimesOut(th)
  <2>1. /\ pc[th] = "wait" /\ Failed(th) /\ (prompt' => prompt)
        /\ UNCHANGED <<emitted, queue, answer, received>>
    BY <1>6 DEF Refused, TimesOut
  <2>2. CASE excused' = excused \cup ToSet(batch[th]) /\ EndPost(th)
    BY <1>4, <2>1, <2>2
  <2>3. CASE Goto(th, "send") /\ UNCHANGED <<batch, excused>>
    <3>1. pc'[th] = "send" /\ \A u \in Thread \ {th} : pc'[u] = pc[u]
      BY <1>1, <2>3 DEF Goto, TypeInv, Control
    <3>2. Account'
      BY <2>1, <2>3 DEF LossInv, Account
    <3>3. Answered'
      BY <2>1, <2>3, <3>1 DEF LossInv, Answered
    <3>4. Handover'
      BY <1>2, <2>1, <3>1 DEF LossInv, Handover, Thread
    <3>5. QED
      BY <1>1, <3>2, <3>3, <3>4 DEF LossInv
  <2>4. QED
    BY <2>1, <2>2, <2>3 DEF Failed
<1>7. QED
  BY <1>3, <1>5, <1>6 DEF Post

\* A thread takes the head of the queue.
LEMMA LossPop ==
  ASSUME LossInv, NEW th \in Thread, Pop(th), UNCHANGED <<emitted, answer, received, excused>>,
         pc[th] # "wait", pc'[th] # "wait", \A u \in Thread \ {th} : pc'[u] = pc[u]
  PROVE  Account' /\ Answered'
<1>1. /\ \A u \in Thread \ {th} : batch'[u] = batch[u]
      /\ ToSet(batch'[th]) = ToSet(batch[th]) \cup {Head(queue)}
      /\ ToSet(queue) = {Head(queue)} \cup ToSet(queue')
  BY PopType DEF LossInv
<1>2. th \in {"drain", "flush"} /\ "drain" \in Thread /\ "flush" \in Thread
  BY DEF Thread
<1>3. Account'
  <2>1. ToSet(batch["drain"]) \cup ToSet(batch["flush"]) \cup ToSet(queue)
          = ToSet(batch'["drain"]) \cup ToSet(batch'["flush"]) \cup ToSet(queue')
    BY <1>1, <1>2
  <2>2. QED
    BY <2>1 DEF LossInv, Account
<1>4. Answered'
  BY <1>1 DEF LossInv, Answered
<1>5. QED
  BY <1>3, <1>4

LEMMA LossDrain == ASSUME LossInv, Drain PROVE LossInv'
<1>0. "drain" \in Thread /\ "flush" \in Thread /\ Thread \ {"drain"} = {"flush"}
  BY DEF Thread
<1>1. TypeInv /\ TypeInv' /\ pc["drain"] \in {"loop", "get", "fill"}
  BY DrainType DEF LossInv, Drain, Check, GetFirst, GetEmpty, Fill, Full
<1>2. pc'["flush"] = pc["flush"] /\ pc'["drain"] # "wait"
  BY <1>0, <1>1 DEF Drain, Check, GetFirst, GetEmpty, Fill, Full, StartPost, Goto, TypeInv, Control
<1>3. UNCHANGED <<emitted, answer, received, excused>>
  BY DEF Drain, Check, GetFirst, GetEmpty, Fill, Full
<1>4. prompt' = prompt /\ (queue = <<>> => queue' = <<>>)
  BY DEF Drain, Check, GetFirst, GetEmpty, Fill, Full, Pop
<1>5. Handover'
  <2>1. prompt => pc["flush"] \notin {"collect", "send", "wait", "exited"}
    BY <1>1 DEF LossInv, Handover
  <2>2. pc["flush"] \in {"send", "wait", "exited"} => queue' = <<>>
    BY <1>4 DEF LossInv, Handover
  <2>3. QED
    BY <1>2, <1>4, <2>1, <2>2 DEF Handover
<1>6. CASE Pop("drain")
  <2>1. Account' /\ Answered'
    BY <1>0, <1>1, <1>2, <1>3, <1>6, LossPop
  <2>2. QED
    BY <1>1, <1>5, <2>1 DEF LossInv
<1>7. CASE UNCHANGED <<queue, batch>>
  <2>1. Account'
    BY <1>3, <1>7 DEF LossInv, Account
  <2>2. Answered'
    BY <1>0, <1>2, <1>3, <1>7 DEF LossInv, Answered, Thread
  <2>3. QED
    BY <1>1, <1>5, <2>1, <2>2 DEF LossInv
<1>8. QED
  BY <1>6, <1>7 DEF Drain, Check, GetFirst, GetEmpty, Fill, Full

LEMMA LossFlush ==
  ASSUME LossInv, BeginFlush \/ Flush
  PROVE  LossInv'
<1>0. "drain" \in Thread /\ "flush" \in Thread /\ Thread \ {"flush"} = {"drain"}
  BY DEF Thread
<1>1. TypeInv /\ TypeInv' /\ pc["flush"] \in {"idle", "join", "collect"}
  BY FlushType DEF LossInv, BeginFlush, NoFlush, Flush, Join, Collect, Collected
<1>2. pc'["drain"] = pc["drain"] /\ pc'["flush"] # "wait"
  BY <1>0, <1>1
     DEF BeginFlush, Flush, Join, Collect, Collected, StartPost, Goto, TypeInv, Control
<1>3. UNCHANGED <<emitted, answer, received, excused>>
  BY DEF BeginFlush, Flush, Join, Collect, Collected
<1>4. Handover'
  <2>1. CASE BeginFlush
    <3>1. pc'["flush"] = "join"
      BY <1>0, <1>1, <2>1 DEF BeginFlush, Goto, TypeInv, Control
    <3>2. QED
      BY <3>1 DEF Handover
  <2>2. CASE Join
    <3>1. pc'["flush"] = "collect" /\ (prompt' => pc["drain"] = "stopped")
      BY <1>0, <1>1, <2>2 DEF Join, Goto, TypeInv, Control
    <3>2. QED
      BY <1>2, <3>1 DEF Handover
  <2>3. CASE Collect
    <3>1. pc["flush"] = "collect" /\ pc' = pc /\ prompt' = prompt
      BY <2>3 DEF Collect
    <3>2. QED
      BY <3>1 DEF LossInv, Handover
  <2>4. CASE Collected
    <3>1. pc["flush"] = "collect" /\ queue' = <<>> /\ prompt' = prompt
      BY <2>4 DEF Collected
    <3>2. prompt => pc["drain"] = "stopped"
      BY <3>1 DEF LossInv, Handover
    <3>3. QED
      BY <1>2, <3>1, <3>2 DEF Handover
  <2>5. QED
    BY <2>1, <2>2, <2>3, <2>4 DEF Flush
<1>5. CASE Pop("flush")
  <2>1. Account' /\ Answered'
    BY <1>0, <1>1, <1>2, <1>3, <1>5, LossPop
  <2>2. QED
    BY <1>1, <1>4, <2>1 DEF LossInv
<1>6. CASE UNCHANGED <<queue, batch>>
  <2>1. Account'
    BY <1>3, <1>6 DEF LossInv, Account
  <2>2. Answered'
    BY <1>0, <1>2, <1>3, <1>6 DEF LossInv, Answered, Thread
  <2>3. QED
    BY <1>1, <1>4, <2>1, <2>2 DEF LossInv
<1>7. QED
  BY <1>5, <1>6 DEF BeginFlush, Flush, Join, Collect, Collected

LEMMA LossNext == ASSUME LossInv, [Next]_vars PROVE LossInv'
<1>1. CASE UNCHANGED vars
  <2>1. TypeInv'
    BY NextType DEF LossInv
  <2>2. Account' /\ Answered' /\ Handover'
    BY <1>1 DEF vars, poster, LossInv, Account, Answered, Handover
  <2>3. QED
    BY <2>1, <2>2 DEF LossInv
<1>2. CASE Done
  BY <1>1, <1>2 DEF Done
<1>3. QED
  BY <1>1, <1>2, LossEmit, LossServe, LossPost, LossDrain, LossFlush DEF Next

LEMMA LossBound == LossInv => LossBounded
<1> SUFFICES ASSUME LossInv, Exited
             PROVE  /\ Lost \subseteq ToSet(batch["drain"])
                    /\ prompt => Lost = {}
  BY DEF LossBounded
<1>1. queue = <<>> /\ batch["flush"] = <<>>
  BY DEF LossInv, Handover, TypeInv, Control, Exited
<1>2. Lost \subseteq ToSet(batch["drain"])
  BY <1>1, ToSetEmpty DEF LossInv, Account, Lost
<1>3. ASSUME prompt PROVE Lost = {}
  <2>1. batch["drain"] = <<>>
    BY <1>3 DEF LossInv, Handover, TypeInv, Control, Exited
  <2>2. QED
    BY <1>2, <2>1, ToSetEmpty
<1>4. QED
  BY <1>2, <1>3

\* When the process exits, the queue is empty and only the batch that the drain
\* thread was kept from posting is lost, and none if no wait timed out.
THEOREM HttpLossBounded == Spec => []LossBounded
<1>1. Init => LossInv
  BY LossInit
<1>2. LossInv /\ [Next]_vars => LossInv'
  BY LossNext
<1>3. QED
  BY <1>1, <1>2, LossBound, PTL DEF Spec

LEMMA StaysPrompt ==
  ASSUME "slow" \notin Faults, prompt, [Next]_vars
  PROVE  prompt'
<1>1. CASE UNCHANGED prompt
  BY <1>1
<1>2. CASE Join
  BY <1>2 DEF Join, Joined
<1>3. CASE \E th \in Thread : TimesOut(th)
  BY <1>3 DEF TimesOut
<1>4. QED
  BY <1>1, <1>2, <1>3 DEF Next, vars, Emit, BeginFlush, Drain, Check, GetFirst, GetEmpty,
     Fill, Full, Flush, Collect, Collected, Post, Send, PostDone, Refused, Serve, Done

\* Where no POST times out, the process does not exit with an event in the
\* queue or in a thread's hands: what was neither dropped on a full queue nor
\* given up after the last attempt has reached the dashboard.
THEOREM HttpNothingLost ==
  ASSUME "slow" \notin Faults
  PROVE  Spec => []NothingLost
<1>1. Init => LossInv /\ prompt
  BY LossInit DEF Init
<1>2. LossInv /\ prompt /\ [Next]_vars => (LossInv /\ prompt)'
  BY LossNext, StaysPrompt
<1>3. LossInv /\ prompt => NothingLost
  BY LossBound DEF LossBounded, NothingLost
<1>4. QED
  BY <1>1, <1>2, <1>3, PTL DEF Spec

-----------------------------------------------------------------------------
(* The order of arrival *)

\* Events of a thread's batch that have not arrived.
Held(th) == IF pc[th] = "wait" /\ answer[th] = "ok" THEN {} ELSE ToSet(batch[th])

\* What has arrived is older than what a thread holds, and that older than what waits.
InLine ==
  /\ Rising(received) /\ Rising(queue) /\ \A th \in Thread : Rising(batch[th])
  /\ \A x \in ToSet(received), y \in ToSet(queue) : x < y
  /\ \A th \in Thread : \A x \in ToSet(received), y \in Held(th) : x < y
  /\ \A th \in Thread : \A x \in ToSet(batch[th]), y \in ToSet(queue) : x < y
  /\ \A x \in ToSet(received) \cup ToSet(queue) : x <= emitted
  /\ \A th \in Thread : \A x \in ToSet(batch[th]) : x <= emitted

\* The requests on the wire are those that threads wait for.
Requests ==
  \A r \in wire : /\ pc[r.from] = "wait" /\ answer[r.from] = "none"
                  /\ r.number = attempt[r.from] /\ r.body = batch[r.from]

\* No request is empty.
Loaded == \A th \in Thread : pc[th] \in {"send", "wait", "fill"} => batch[th] # <<>>

LineInv == LossInv /\ (prompt => InLine /\ Requests) /\ Loaded

LEMMA LineInit == Init => LineInv
<1> SUFFICES ASSUME Init PROVE LineInv
  OBVIOUS
<1>1. LossInv
  BY LossInit
<1>2. /\ emitted = 0 /\ queue = <<>> /\ received = <<>> /\ wire = {}
      /\ \A th \in Thread : batch[th] = <<>> /\ pc[th] \in {"loop", "idle"}
  BY DEF Init, Thread
<1>3. Rising(<<>>)
  <2>1. Len(<<>>) = 0
    OBVIOUS
  <2>2. QED
    BY <2>1 DEF Rising
<1>4. \A th \in Thread : Held(th) = {} /\ ToSet(batch[th]) = {}
  BY <1>2, ToSetEmpty DEF Held
<1>5. ToSet(received) = {} /\ ToSet(queue) = {}
  BY <1>2, ToSetEmpty
<1>6. InLine
  BY <1>2, <1>3, <1>4, <1>5, Zenon DEF InLine
<1>7. Requests /\ Loaded
  BY <1>2 DEF Requests, Loaded
<1>8. QED
  BY <1>1, <1>6, <1>7 DEF LineInv

\* Events that stay where they are, or are given up, stay in line.
LEMMA LineShrinks ==
  ASSUME InLine, UNCHANGED <<emitted, queue, received>>,
         \A th \in Thread : batch'[th] \in {batch[th], <<>>} /\ Held(th)' \subseteq Held(th)
  PROVE  InLine'
<1>1. Rising(<<>>)
  <2>1. Len(<<>>) = 0
    OBVIOUS
  <2>2. QED
    BY <2>1 DEF Rising
<1>2. \A th \in Thread : Rising(batch'[th]) /\ ToSet(batch'[th]) \subseteq ToSet(batch[th])
  BY <1>1, ToSetEmpty DEF InLine
<1>3. QED
  BY <1>2 DEF InLine

\* A thread takes the head of the queue while the other holds nothing.
LEMMA LinePops ==
  ASSUME LossInv, InLine, NEW th \in Thread, Pop(th), pc[th] # "wait", pc'[th] # "wait",
         \A u \in Thread \ {th} : batch[u] = <<>>, UNCHANGED <<emitted, received>>
  PROVE  InLine'
<1>0. 1 .. Events \subseteq Nat
  OBVIOUS
<1>1. /\ queue \in Seq(1 .. Events) /\ queue # <<>> /\ batch[th] \in Seq(1 .. Events)
      /\ queue' = Tail(queue) /\ batch'[th] = Append(batch[th], Head(queue))
      /\ Head(queue) \in 1 .. Events
  <2>1. queue \in Seq(1 .. Events) /\ queue # <<>> /\ batch \in [Thread -> Seq(1 .. Events)]
    BY DEF LossInv, TypeInv, TypeOK, Pop
  <2>2. Head(queue) \in 1 .. Events
    BY <2>1, ToSetHeadTail
  <2>3. QED
    BY <2>1, <2>2 DEF Pop
<1>2. /\ \A u \in Thread \ {th} : batch'[u] = batch[u]
      /\ ToSet(batch'[th]) = ToSet(batch[th]) \cup {Head(queue)}
      /\ ToSet(queue) = {Head(queue)} \cup ToSet(queue')
  BY PopType DEF LossInv
<1>3. Rising(queue') /\ \A x \in ToSet(queue') : Head(queue) < x
  BY <1>0, <1>1, RisingTail DEF InLine
<1>4. \A x \in ToSet(batch[th]) : x < Head(queue)
  BY <1>2 DEF InLine
<1>5. Rising(batch'[th])
  BY <1>0, <1>1, <1>4, RisingAppend DEF InLine
<1>6. \A u \in Thread \ {th} : ToSet(batch'[u]) = {} /\ Held(u)' = {}
  BY <1>2, ToSetEmpty DEF Held
<1>7. Held(th) = ToSet(batch[th]) /\ Held(th)' = ToSet(batch'[th])
  BY DEF Held
<1>8. \A u \in Thread : Rising(batch'[u])
  BY <1>2, <1>5 DEF InLine
<1>9. \A u \in Thread : \A x \in ToSet(received'), y \in Held(u)' : x < y
  <2>1. \A x \in ToSet(received), y \in ToSet(batch'[th]) : x < y
    BY <1>2, <1>7 DEF InLine
  <2>2. QED
    BY <1>6, <1>7, <2>1
<1>10. \A u \in Thread : \A x \in ToSet(batch'[u]), y \in ToSet(queue') : x < y
  <2>1. \A x \in ToSet(batch'[th]), y \in ToSet(queue') : x < y
    BY <1>2, <1>3 DEF InLine
  <2>2. QED
    BY <1>6, <2>1
<1>11. \A u \in Thread : \A x \in ToSet(batch'[u]) : x <= emitted'
  <2>1. \A x \in ToSet(batch'[th]) : x <= emitted'
    BY <1>2 DEF InLine
  <2>2. QED
    BY <1>6, <2>1
<1>12. QED
  BY <1>2, <1>3, <1>8, <1>9, <1>10, <1>11 DEF InLine

\* Requests that stay on the wire are those of threads that go on waiting.
LEMMA RequestsStay ==
  ASSUME Requests, wire' \subseteq wire,
         \A r \in wire' : /\ pc'[r.from] = pc[r.from] /\ answer'[r.from] = answer[r.from]
                          /\ attempt'[r.from] = attempt[r.from] /\ batch'[r.from] = batch[r.from]
  PROVE  Requests'
  BY DEF Requests

LEMMA LineEmit == ASSUME LineInv, Emit PROVE LineInv'
<1>1. LossInv /\ LossInv'
  BY LossEmit DEF LineInv
<1>2. UNCHANGED <<pc, batch, attempt, answer, wire, received, prompt>>
  BY DEF Emit, poster
<1>3. Loaded' /\ (prompt' => Requests')
  BY <1>2 DEF LineInv, Loaded, Requests
<1>4. ASSUME prompt PROVE InLine'
  <2>0. InLine
    BY <1>4 DEF LineInv
  <2>1. /\ emitted' = emitted + 1 /\ emitted \in Nat /\ queue \in Seq(1 .. Events) /\ emitted' \in 1 .. Events
        /\ received \in Seq(1 .. Events) /\ \A th \in Thread : batch[th] \in Seq(1 .. Events)
    BY <1>1, HttpForwardAssumption DEF Emit, LossInv, TypeInv, TypeOK
  <2>2. /\ ToSet(received) \subseteq Nat /\ ToSet(queue) \subseteq Nat
        /\ \A th \in Thread : ToSet(batch[th]) \subseteq Nat
    <3>1. ToSet(received) \subseteq 1 .. Events /\ ToSet(queue) \subseteq 1 .. Events
      BY <2>1, ToSetWithin
    <3>2. \A th \in Thread : ToSet(batch[th]) \subseteq 1 .. Events
      BY <2>1, ToSetWithin
    <3>3. QED
      BY <3>1, <3>2
  <2>3. /\ \A x \in ToSet(received) \cup ToSet(queue) : x < emitted'
        /\ \A th \in Thread : \A x \in ToSet(batch[th]) : x < emitted'
    <3>1. \A x \in Nat : x <= emitted => x < emitted'
      BY <2>1
    <3>2. QED
      BY <2>0, <2>2, <3>1 DEF InLine
  <2>4. /\ Rising(queue')
        /\ ToSet(queue') \subseteq ToSet(queue) \cup {emitted'}
    <3>1. CASE queue' = queue
      BY <2>0, <3>1 DEF InLine
    <3>2. CASE queue' = Append(queue, emitted')
      <4>1. 1 .. Events \subseteq Nat
        OBVIOUS
      <4>2. Rising(Append(queue, emitted'))
        BY <2>0, <2>1, <2>3, <4>1, RisingAppend DEF InLine
      <4>3. QED
        BY <2>1, <3>2, <4>2, ToSetAppend
    <3>3. QED
      BY <3>1, <3>2 DEF Emit
  <2>5. \A th \in Thread : Held(th)' = Held(th)
    BY <1>2 DEF Held
  <2>6. /\ \A x \in ToSet(received'), y \in ToSet(queue') : x < y
        /\ \A th \in Thread : \A x \in ToSet(batch'[th]), y \in ToSet(queue') : x < y
    BY <1>2, <2>0, <2>3, <2>4 DEF InLine
  <2>7. /\ \A x \in ToSet(received') \cup ToSet(queue') : x <= emitted'
        /\ \A th \in Thread : \A x \in ToSet(batch'[th]) : x <= emitted'
    <3>1. emitted' <= emitted' /\ \A x \in Nat : x < emitted' => x <= emitted'
      BY <2>1
    <3>2. QED
      BY <1>2, <2>2, <2>3, <2>4, <3>1
  <2>8. QED
    BY <1>2, <2>0, <2>4, <2>5, <2>6, <2>7 DEF InLine
<1>5. QED
  BY <1>1, <1>2, <1>3, <1>4 DEF LineInv

LEMMA LineServe == ASSUME LineInv, NEW r \in wire, Serve(r) PROVE LineInv'
<1>1. LossInv /\ LossInv'
  BY LossServe DEF LineInv
<1>2. /\ UNCHANGED <<emitted, queue, pc, batch, attempt, prompt>> /\ received' = received \o r.body
      /\ wire' = wire \ {r}
      /\ \A th \in Thread : answer'[th] = IF pc[th] = "wait" /\ r \in Mine(th) THEN "ok" ELSE answer[th]
  BY DEF Serve
<1>3. Loaded'
  BY <1>2 DEF LineInv, Loaded
<1>4. wire \subseteq [from : Thread, number : 1 .. Attempts, body : Seq(1 .. Events)]
  BY <1>1 DEF LossInv, TypeInv, TypeOK
<1>5. ASSUME prompt PROVE Requests' /\ InLine'
  <2> DEFINE th == r.from
  <2>0. InLine /\ Requests
    BY <1>5 DEF LineInv
  <2>1. th \in Thread /\ pc[th] = "wait" /\ r.number = attempt[th] /\ r.body = batch[th] /\ r \in Mine(th)
    BY <1>4, <2>0 DEF Requests, Mine
  <2>2. Requests'
    <3>1. SUFFICES ASSUME NEW q \in wire' PROVE answer'[q.from] = answer[q.from]
      BY <1>2, <2>0, RequestsStay
    <3>2. q \in wire /\ q # r
      BY <1>2
    <3>3. q.from # th
      <4>1. SUFFICES ASSUME q.from = th PROVE q = r
        BY <3>2
      <4>2. q.number = r.number /\ q.body = r.body
        BY <2>0, <2>1, <3>2, <4>1 DEF Requests
      <4>3. QED
        BY <1>4, <3>2, <4>1, <4>2
    <3>4. q.from \in Thread /\ r \notin Mine(q.from)
      BY <1>4, <3>2, <3>3 DEF Mine
    <3>5. QED
      BY <1>2, <3>4
  <2>3. ASSUME NEW u \in Thread, u # th PROVE batch[u] = <<>>
    <3>1. CASE th = "drain"
      <4>1. u = "flush" /\ pc["drain"] = "wait"
        BY <2>1, <2>3, <3>1 DEF Thread
      <4>2. pc["flush"] \in {"idle", "join"}
        BY <1>1, <1>5, <4>1 DEF LossInv, Handover, TypeInv, TypeOK
      <4>3. QED
        BY <1>1, <4>1, <4>2 DEF LossInv, TypeInv, Control
    <3>2. CASE th = "flush"
      <4>1. u = "drain" /\ pc["flush"] = "wait"
        BY <2>1, <2>3, <3>2 DEF Thread
      <4>2. pc["drain"] = "stopped"
        BY <1>1, <1>5, <4>1 DEF LossInv, Handover
      <4>3. QED
        BY <1>1, <4>1, <4>2 DEF LossInv, TypeInv, Control
    <3>3. QED
      BY <2>1, <3>1, <3>2 DEF Thread
  <2>4. Held(th) = ToSet(batch[th])
    BY <2>0, <2>1 DEF Held, Requests
  <2>5. Held(th)' = {} /\ \A u \in Thread : u # th => Held(u)' = {}
    <3>1. answer'[th] = "ok"
      BY <1>2, <2>1
    <3>2. QED
      BY <1>2, <2>1, <2>3, <3>1, ToSetEmpty DEF Held
  <2>6. received \in Seq(1 .. Events) /\ batch[th] \in Seq(1 .. Events) /\ received' = received \o batch[th]
    BY <1>1, <1>2, <2>1 DEF LossInv, TypeInv, TypeOK
  <2>7. Rising(received')
    <3>1. 1 .. Events \subseteq Nat
      OBVIOUS
    <3>2. Rising(received) /\ Rising(batch[th]) /\ \A x \in ToSet(received), y \in ToSet(batch[th]) : x < y
      BY <2>0, <2>1, <2>4 DEF InLine
    <3> HIDE DEF th
    <3>3. QED
      BY <2>6, <3>1, <3>2, RisingConcat
  <2>8. ToSet(received') = ToSet(received) \cup ToSet(batch[th])
    <3> HIDE DEF th
    <3> QED  BY <2>6, ToSetConcat
  <2>9. InLine'
    <3>1. \A x \in ToSet(received'), y \in ToSet(queue') : x < y
      BY <1>2, <2>0, <2>1, <2>8 DEF InLine
    <3>2. \A x \in ToSet(received') \cup ToSet(queue') : x <= emitted'
      BY <1>2, <2>0, <2>1, <2>8 DEF InLine
    <3>3. \A u \in Thread : Held(u)' = {}
      BY <2>5
    <3> HIDE DEF th
    <3>4. QED
      BY <1>2, <2>0, <2>7, <3>1, <3>2, <3>3 DEF InLine
  <2>10. QED
    BY <2>2, <2>9
<1>6. QED
  BY <1>1, <1>2, <1>3, <1>5 DEF LineInv

LEMMA LinePost == ASSUME LineInv, NEW th \in Thread, Post(th) PROVE LineInv'
<1>1. LossInv /\ LossInv' /\ UNCHANGED <<emitted, queue, received>>
  BY LossPost DEF LineInv, Post, Send, PostDone, Refused, TimesOut
<1>2. wire \subseteq [from : Thread, number : 1 .. Attempts, body : Seq(1 .. Events)]
  BY <1>1 DEF LossInv, TypeInv, TypeOK
\* What any end of an attempt comes to.
<1>3. ASSUME pc[th] = "wait", wire' \subseteq wire, prompt' => prompt, answer' = answer,
             prompt' => \A r \in wire' : r.from # th,
             pc'[th] \notin {"wait", "fill"}, pc'[th] = "send" => batch'[th] = batch[th],
             batch'[th] \in {batch[th], <<>>},
             prompt' /\ batch'[th] # <<>> => answer[th] = "none",
             \A u \in Thread \ {th} : pc'[u] = pc[u] /\ batch'[u] = batch[u] /\ attempt'[u] = attempt[u]
      PROVE  LineInv'
  <2>1. Loaded'
    BY <1>3 DEF LineInv, Loaded
  <2>2. ASSUME prompt' PROVE Requests' /\ InLine'
    <3>0. prompt /\ InLine /\ Requests
      BY <1>3, <2>2 DEF LineInv
    <3>1. \A r \in wire' : r.from \in Thread \ {th}
      BY <1>2, <1>3, <2>2
    <3>2. Requests'
      BY <1>3, <3>0, <3>1, RequestsStay
    <3>3. \A u \in Thread : Held(u)' \subseteq Held(u)
      <4>1. \A u \in Thread \ {th} : Held(u)' = Held(u)
        BY <1>3 DEF Held
      <4>2. Held(th)' \subseteq Held(th)
        BY <1>3, <2>2, ToSetEmpty DEF Held
      <4>3. QED
        BY <4>1, <4>2
    <3>4. InLine'
      BY <1>1, <1>3, <3>0, <3>3, LineShrinks
    <3>5. QED
      BY <3>2, <3>4
  <2>3. QED
    BY <1>1, <2>1, <2>2 DEF LineInv
<1>4. CASE Send(th)
  <2>1. /\ pc[th] = "send" /\ pc'[th] = "wait" /\ answer'[th] = "none" /\ UNCHANGED <<batch, attempt, prompt>>
        /\ wire' = wire \cup {[from |-> th, number |-> attempt[th], body |-> batch[th]]}
        /\ \A u \in Thread \ {th} : pc'[u] = pc[u] /\ answer'[u] = answer[u]
    BY <1>1, <1>4 DEF Send, Goto, LossInv, TypeInv, TypeOK, Control
  <2>2. Loaded'
    BY <2>1 DEF LineInv, Loaded
  <2>3. ASSUME prompt PROVE Requests' /\ InLine'
    <3>0. InLine /\ Requests
      BY <2>3 DEF LineInv
    <3>1. \A r \in wire : r.from \in Thread \ {th}
      BY <1>2, <2>1, <3>0 DEF Requests
    <3>2. Requests'
      BY <2>1, <3>0, <3>1 DEF Requests
    <3>3. \A u \in Thread : Held(u)' \subseteq Held(u)
      BY <2>1 DEF Held
    <3>4. InLine'
      BY <1>1, <2>1, <3>0, <3>3, LineShrinks
    <3>5. QED
      BY <3>2, <3>4
  <2>4. QED
    BY <1>1, <2>1, <2>2, <2>3 DEF LineInv
<1>5. CASE PostDone(th)
  <2>1. /\ pc[th] = "wait" /\ answer[th] = "ok" /\ UNCHANGED <<wire, prompt, attempt, answer>>
        /\ pc'[th] = After(th) /\ batch'[th] = <<>>
        /\ \A u \in Thread \ {th} : pc'[u] = pc[u] /\ batch'[u] = batch[u]
    BY <1>1, <1>5 DEF PostDone, EndPost, Goto, LossInv, TypeInv, TypeOK, Control
  <2>2. prompt => \A r \in wire : r.from # th
    BY <2>1 DEF LineInv, Requests
  <2>3. QED
    BY <1>3, <2>1, <2>2 DEF After
<1>6. CASE Refused(th) \/ TimesOut(th)
  <2>1. /\ pc[th] = "wait" /\ wire' \subseteq wire /\ answer' = answer /\ Failed(th) /\ (prompt' => prompt)
        /\ prompt' => wire' = wire \ Mine(th) /\ answer[th] = "none"
    BY <1>6 DEF Refused, TimesOut
  <2>2. prompt' => \A r \in wire' : r.from # th
    BY <2>1 DEF LineInv, Requests, Mine
  <2>3. /\ pc'[th] \in {"send", After(th)} /\ (pc'[th] = "send" => batch'[th] = batch[th])
        /\ batch'[th] \in {batch[th], <<>>}
        /\ \A u \in Thread \ {th} : pc'[u] = pc[u] /\ batch'[u] = batch[u] /\ attempt'[u] = attempt[u]
    BY <1>1, <2>1 DEF Failed, EndPost, Goto, After, LossInv, TypeInv, TypeOK, Control
  <2>4. QED
    BY <1>3, <2>1, <2>2, <2>3 DEF After
<1>7. QED
  BY <1>4, <1>5, <1>6 DEF Post

LEMMA LineDrain == ASSUME LineInv, Drain PROVE LineInv'
<1>0. "drain" \in Thread /\ "flush" \in Thread /\ Thread = {"drain", "flush"}
  BY DEF Thread
<1>1. LossInv /\ LossInv' /\ pc["drain"] \in {"loop", "get", "fill"} /\ pc["drain"] # "wait"
  BY LossDrain DEF LineInv, Drain, Check, GetFirst, GetEmpty, Fill, Full
<1>2. pc'["flush"] = pc["flush"] /\ pc'["drain"] # "wait" /\ attempt'["flush"] = attempt["flush"]
  BY <1>0, <1>1 DEF Drain, Check, GetFirst, GetEmpty, Fill, Full, StartPost, Goto, LossInv, TypeInv, TypeOK, Control
<1>3. UNCHANGED <<emitted, answer, received, wire, prompt>>
  BY DEF Drain, Check, GetFirst, GetEmpty, Fill, Full
<1>4. batch'["flush"] = batch["flush"]
  BY <1>0, <1>1 DEF Drain, Check, GetFirst, GetEmpty, Fill, Full, Pop, LossInv, TypeInv, TypeOK
<1>5. prompt => Requests'
  <2>1. ASSUME prompt, NEW r \in wire PROVE r.from = "flush"
    <3>1. r.from \in Thread /\ pc[r.from] = "wait"
      BY <1>1, <2>1 DEF LineInv, Requests, LossInv, TypeInv, TypeOK
    <3>2. QED
      BY <1>0, <1>1, <3>1
  <2>2. QED
    BY <1>2, <1>3, <1>4, <2>1, RequestsStay DEF LineInv
<1>6. CASE Pop("drain")
  <2>1. batch'["drain"] # <<>>
    BY <1>0, <1>1, <1>6, PopType DEF LossInv
  <2>2. Loaded'
    BY <1>0, <1>2, <1>4, <2>1 DEF LineInv, Loaded
  <2>3. ASSUME prompt PROVE InLine'
    <3>1. pc["flush"] \in {"idle", "join"}
      BY <1>1, <2>3 DEF LossInv, Handover, TypeInv, TypeOK
    <3>2. batch["flush"] = <<>>
      BY <1>1, <3>1 DEF LossInv, TypeInv, Control
    <3>3. QED
      BY <1>0, <1>1, <1>2, <1>3, <1>6, <2>3, <3>2, LinePops DEF LineInv
  <2>4. QED
    BY <1>1, <1>3, <1>5, <2>2, <2>3 DEF LineInv
<1>7. CASE UNCHANGED <<queue, batch>>
  <2>1. pc'["drain"] \in {"send", "fill"} => pc["drain"] = "fill"
    BY <1>0, <1>1, <1>7 DEF Drain, Check, GetFirst, GetEmpty, Fill, Full, Pop, StartPost, Goto, LossInv, TypeInv, TypeOK, Control
  <2>2. Loaded'
    BY <1>0, <1>2, <1>7, <2>1 DEF LineInv, Loaded
  <2>3. ASSUME prompt PROVE InLine'
    <3>1. \A u \in Thread : Held(u)' \subseteq Held(u)
      BY <1>0, <1>1, <1>2, <1>3, <1>7 DEF Held
    <3>2. QED
      BY <1>3, <1>7, <2>3, <3>1, LineShrinks DEF LineInv
  <2>4. QED
    BY <1>1, <1>3, <1>5, <2>2, <2>3 DEF LineInv
<1>8. QED
  BY <1>6, <1>7 DEF Drain, Check, GetFirst, GetEmpty, Fill, Full

LEMMA LineFlush == ASSUME LineInv, BeginFlush \/ Flush PROVE LineInv'
<1>0. "drain" \in Thread /\ "flush" \in Thread /\ Thread = {"drain", "flush"}
  BY DEF Thread
<1>1. LossInv /\ LossInv' /\ pc["flush"] \in {"idle", "join", "collect"} /\ pc["flush"] # "wait"
  BY LossFlush DEF LineInv, BeginFlush, NoFlush, Flush, Join, Collect, Collected
<1>2. pc'["drain"] = pc["drain"] /\ pc'["flush"] # "wait" /\ attempt'["drain"] = attempt["drain"]
  BY <1>0, <1>1 DEF BeginFlush, Flush, Join, Collect, Collected, StartPost, Goto, LossInv, TypeInv, TypeOK, Control
<1>3. UNCHANGED <<emitted, answer, received, wire>> /\ (prompt' => prompt)
  <2>1. UNCHANGED <<emitted, answer, received, wire>>
    BY DEF BeginFlush, Flush, Join, Collect, Collected
  <2>2. CASE Join
    BY <2>1, <2>2, Zenon DEF Join
  <2>3. CASE BeginFlush \/ Collect \/ Collected
    BY <2>1, <2>3 DEF BeginFlush, Collect, Collected
  <2>4. QED
    BY <2>2, <2>3 DEF Flush
<1>4. batch'["drain"] = batch["drain"]
  BY <1>0, <1>1 DEF BeginFlush, Flush, Join, Collect, Collected, Pop, LossInv, TypeInv, TypeOK
<1>5. prompt => Requests'
  <2>1. ASSUME prompt, NEW r \in wire PROVE r.from = "drain"
    <3>1. r.from \in Thread /\ pc[r.from] = "wait"
      BY <1>1, <2>1 DEF LineInv, Requests, LossInv, TypeInv, TypeOK
    <3>2. QED
      BY <1>0, <1>1, <3>1
  <2>2. QED
    BY <1>2, <1>3, <1>4, <2>1, RequestsStay DEF LineInv
<1>6. CASE Collect
  <2>0. Pop("flush") /\ pc' = pc /\ pc["flush"] = "collect"
    BY <1>6 DEF Collect
  <2>1. batch'["flush"] # <<>>
    BY <1>0, <1>1, <2>0, PopType DEF LossInv
  <2>2. Loaded'
    BY <1>0, <1>2, <1>4, <2>1 DEF LineInv, Loaded
  <2>3. ASSUME prompt PROVE InLine'
    <3>1. pc["drain"] = "stopped"
      BY <1>1, <2>0, <2>3 DEF LossInv, Handover
    <3>2. batch["drain"] = <<>>
      BY <1>1, <3>1 DEF LossInv, TypeInv, Control
    <3>3. QED
      BY <1>0, <1>1, <1>2, <1>3, <2>0, <2>3, <3>2, LinePops DEF LineInv
  <2>4. QED
    BY <1>1, <1>3, <1>5, <2>2, <2>3 DEF LineInv
<1>7. CASE BeginFlush \/ Join \/ Collected
  <2>0. UNCHANGED <<queue, batch>>
    BY <1>7 DEF BeginFlush, Join, Collected
  <2>1. pc'["flush"] \in {"send", "wait", "fill"} => batch["flush"] # <<>>
    BY <1>0, <1>1, <1>7 DEF BeginFlush, Join, Collected, StartPost, Goto, LossInv, TypeInv, TypeOK, Control
  <2>2. Loaded'
    BY <1>0, <1>2, <2>0, <2>1 DEF LineInv, Loaded
  <2>3. ASSUME prompt PROVE InLine'
    <3>1. \A u \in Thread : Held(u)' \subseteq Held(u)
      BY <1>0, <1>1, <1>2, <1>3, <2>0 DEF Held
    <3>2. QED
      BY <1>3, <2>0, <2>3, <3>1, LineShrinks DEF LineInv
  <2>4. QED
    BY <1>1, <1>3, <1>5, <2>2, <2>3 DEF LineInv
<1>8. QED
  BY <1>6, <1>7 DEF Flush

LEMMA LineNext == ASSUME LineInv, [Next]_vars PROVE LineInv'
<1>1. CASE UNCHANGED vars
  <2>1. LossInv'
    BY LossNext DEF LineInv
  <2>2. UNCHANGED <<emitted, queue, pc, batch, attempt, answer, wire, received, prompt>>
    BY <1>1 DEF vars, poster
  <2>3. \A th \in Thread : Held(th)' \subseteq Held(th)
    BY <2>2 DEF Held
  <2>4. Loaded' /\ (Requests => Requests') /\ (InLine => InLine')
    BY <2>2, <2>3, LineShrinks DEF LineInv, Loaded, Requests
  <2>5. QED
    BY <2>1, <2>2, <2>4 DEF LineInv
<1>2. CASE Done
  BY <1>1, <1>2 DEF Done
<1>3. QED
  BY <1>1, <1>2, LineEmit, LineServe, LinePost, LineDrain, LineFlush DEF Next

\* What a step shows of the channel: the emission of an event, or the arrival of a
\* batch, all of it newer than what has arrived.
LEMMA FifoStep ==
  ASSUME LineInv, LineInv', [Next]_vars
  PROVE  [prompt' => Channel!FifoNext]_<<emitted, received>>
<1>1. CASE UNCHANGED <<emitted, received>>
  BY <1>1
<1>2. CASE Emit
  BY <1>2 DEF Emit, Channel!FifoNext, Channel!Send
<1>3. ASSUME NEW r \in wire, Serve(r), prompt' PROVE Channel!FifoNext
  <2>1. InLine' /\ Requests /\ emitted' = emitted
    BY <1>3 DEF LineInv, Serve
  <2>2. /\ r.from \in Thread /\ r.body = batch[r.from] /\ r.body # <<>> /\ r.body \in Seq(1 .. Events)
        /\ received \in Seq(1 .. Events) /\ received' = received \o r.body
    <3>1. r \in [from : Thread, number : 1 .. Attempts, body : Seq(1 .. Events)]
      BY <1>3 DEF LineInv, LossInv, TypeInv, TypeOK
    <3>2. pc[r.from] = "wait" /\ r.body = batch[r.from]
      BY <1>3, <2>1 DEF Requests
    <3>3. r.body # <<>>
      BY <3>1, <3>2 DEF LineInv, Loaded
    <3>4. received \in Seq(1 .. Events) /\ received' = received \o r.body
      BY <1>3 DEF Serve, LineInv, LossInv, TypeInv, TypeOK
    <3>5. QED
      BY <3>1, <3>2, <3>3, <3>4
  <2>3. received' # received /\ IsPrefix(received, received')
    <3>1. Len(received') = Len(received) + Len(r.body) /\ Len(r.body) > 0 /\ Len(received) \in Nat
      BY <2>2, EmptySeq
    <3>2. \A i \in 1 .. Len(received) : received'[i] = received[i]
      BY <2>2
    <3>3. SubSeq(received', 1, Len(received)) = received
      <4>1. received' \in Seq(1 .. Events)
        BY <2>2
      <4>2. QED
        BY <2>2, <3>1, <3>2, <4>1, SubSeqProperties, SeqEqual
    <3>4. QED
      BY <3>1, <3>3 DEF IsPrefix
  <2>4. Channel!InOrder(received')
    BY <2>1 DEF InLine, Rising, Channel!InOrder
  <2>5. ToSet(received') \subseteq 1 .. emitted
    <3>1. received' \in Seq(1 .. Events) /\ emitted \in Nat
      BY <2>2, HttpForwardAssumption DEF LineInv, LossInv, TypeInv, TypeOK
    <3>2. ToSet(received') \subseteq 1 .. Events /\ \A x \in ToSet(received') : x <= emitted
      BY <2>1, <3>1, ToSetWithin DEF InLine
    <3>3. QED
      BY <3>1, <3>2
  <2>6. QED
    BY <2>1, <2>3, <2>4, <2>5
       DEF Channel!FifoNext, Channel!Deliver, Channel!IsPrefix, IsPrefix, Channel!ToSet, ToSet
<1>4. CASE Drain \/ BeginFlush \/ Flush \/ Done \/ UNCHANGED vars
  BY <1>4 DEF vars, Drain, Check, GetFirst, GetEmpty, Fill, Full, BeginFlush, Flush, Join, Collect, Collected, Done
<1>5. ASSUME NEW th \in Thread, Post(th) PROVE UNCHANGED <<emitted, received>>
  BY <1>5 DEF Post, Send, PostDone, Refused, TimesOut
<1>6. QED
  BY <1>1, <1>2, <1>3, <1>4, <1>5 DEF Next

\* As long as no wait for a POST has timed out, the dashboard is given the events in
\* the order of their emission and each at most once, whichever thread posts them
\* and whatever is refused: the forwarder implements the lossy FIFO channel.
THEOREM HttpOrderWhilePrompt == Spec => OrderWhilePrompt
<1>1. Init => LineInv
  BY LineInit
<1>2. LineInv /\ [Next]_vars => LineInv'
  BY LineNext
<1>3. Init => Channel!FifoInit
  BY DEF Init, Channel!FifoInit
<1>4. LineInv /\ LineInv' /\ [Next]_vars => [prompt' => Channel!FifoNext]_<<emitted, received>>
  BY FifoStep
<1>5. QED
  BY <1>1, <1>2, <1>3, <1>4, PTL DEF Spec, OrderWhilePrompt

-----------------------------------------------------------------------------
(* What the dashboard keeps *)

KindsOf(r) == {"more"} \cup Endings[r]
HasEnd(events) == \E n \in 1 .. Len(events) : IsTerminal(events[n])

\* What the registry may have of a run.
InfoOK(r, i) == /\ i \in Info /\ Len(i.events) <= PerRun
                /\ \A n \in 1 .. Len(i.events) : i.events[n] \in KindsOf(r)
RowOK(r, row) == /\ row \in ArchivedRows /\ Len(row.events) <= PerRun
                 /\ \A n \in 1 .. Len(row.events) : row.events[n] \in KindsOf(r)

Job == [id : Nat \X Nat, run : Run, of : Info \cup {Gone}, stage : {"queued", "read", "writing"},
        state : States, total : Nat, notes : Nat]

\* A snapshot of a run that is as it was started with.
JobOK(j) ==
  /\ j \in Job
  /\ IF j.of = Gone THEN Live(j.run) ELSE InfoOK(j.run, j.of) /\ j.run \notin whole

BudgetType == [ingests : Nat, edits : Nat, restarts : Nat, removals : Nat, connects : Nat]

RegistryInv ==
  /\ order \in Seq(Run) /\ Len(order) <= RunCapacity /\ IsInjective(order)
  /\ ToSet(order) = {r \in Run : Live(r)}
  /\ info \in [Run -> Info \cup {Gone}] /\ \A r \in Run : Live(r) => InfoOK(r, info[r])
  /\ archive \in [Run -> ArchivedRows \cup {Gone}] /\ \A r \in Run : archive[r] # Gone => RowOK(r, archive[r])
  /\ \A j \in jobs : JobOK(j)
  /\ clock \in Nat /\ saving \in 0 .. Runs /\ budget \in BudgetType
  /\ whole \subseteq Run

\* What has ended has one of its verdicts, and a snapshot that has read another than
\* the run has now was overtaken.
Known(r) ==
  /\ archive[r] # Gone => Live(r)
  /\ Live(r) => /\ info[r].state \in {"running"} \cup Verdicts(r)
                /\ HasEnd(info[r].events) => info[r].state \in Verdicts(r)
  /\ \A j \in jobs : j.run = r => /\ info[r].state \in Verdicts(r)
                                  /\ j.stage # "queued" => /\ j.state \in Verdicts(r)
                                                           /\ j.state = info[r].state \/ r \in overtaken
  /\ archive[r] # Gone => /\ archive[r].state \in {"running"} \cup Verdicts(r)
                          /\ HasEnd(archive[r].events) => info[r].state \in Verdicts(r)

VerdictInv == \A r \in whole : Known(r)

\* The row of r is as the registry has it.
Filed(r) == /\ archive[r] # Gone /\ archive[r].events = info[r].events
            /\ archive[r].state \in Verdicts(r) /\ (archive[r].state = info[r].state \/ r \in overtaken)

\* A snapshot that will file r as it is, unless r goes on or it gives up.
Brings(j, r) == j.run = r /\ (j.stage = "writing" => j.total = info[r].total)

SettleInv ==
  \A r \in whole : EndedLast(r) => r \in lost \/ Filed(r) \/ \E j \in jobs : Brings(j, r)

\* What is still unread are the newest.
Recent(q, n) ==
  LET unread == Among(q, Nat \ {0})
  IN \A i \in 1 .. Len(unread) : unread[i] = n - Len(unread) + i

FeedInv == feed # Gone => feed \in Seq(0 .. clock) /\ Len(feed) <= QueueSize /\ Recent(feed, clock)

DashInv == RegistryInv /\ VerdictInv /\ SettleInv /\ FeedInv

-----------------------------------------------------------------------------

\* What is terminal has one of the verdicts of its run, whatever was before.
LEMMA KindFacts ==
  ASSUME NEW r \in Run
  PROVE  /\ Endings[r] \subseteq {"end", "error", "algo_end", "algo_error"}
         /\ KindsOf(r) \subseteq EventKinds
         /\ Verdicts(r) \subseteq States
         /\ \A k \in KindsOf(r) : IsTerminal(k) <=> k \in Endings[r]
<1>1. Endings[r] \subseteq {"end", "error", "algo_end", "algo_error"}
  BY DashboardAssumption DEF Run
<1>2. KindsOf(r) \subseteq EventKinds
  BY <1>1 DEF KindsOf, EventKinds, OfAlgorithm
<1>3. \A k \in KindsOf(r) : IsTerminal(k) <=> k \in Endings[r]
  BY <1>1 DEF KindsOf, IsTerminal, OfAlgorithm
<1>4. Verdicts(r) \subseteq States
  BY <1>1 DEF Verdicts, AgentState, AlgoState, States
<1>5. QED
  BY <1>1, <1>2, <1>3, <1>4

\* record_envelope.
LEMMA RecordedIs ==
  ASSUME NEW r \in Run, NEW i, InfoOK(r, i), NEW kind \in KindsOf(r)
  PROVE  /\ InfoOK(r, Recorded(i, kind))
         /\ Recorded(i, kind).total = i.total + 1 /\ Recorded(i, kind).notes = i.notes
         /\ Recorded(i, kind).events = Bounded(Append(i.events, kind))
         /\ Recorded(i, kind).events # <<>> /\ Last(Recorded(i, kind).events) = kind
         /\ IsTerminal(kind) => Recorded(i, kind).state \in Verdicts(r)
         /\ ~IsTerminal(kind) => Recorded(i, kind).state = i.state
<1> DEFINE new == Recorded(i, kind)
<1>1. i \in Info /\ kind \in EventKinds /\ PerRun \in Nat \ {0}
  BY KindFacts, DashboardAssumption DEF InfoOK
<1>2. i.events \in Seq(EventKinds) /\ i.total \in Nat /\ i.notes \in Nat /\ i.state \in States
  BY <1>1 DEF Info
<1>3. /\ new.events = Bounded(Append(i.events, kind)) /\ new.total = i.total + 1 /\ new.notes = i.notes
      /\ new.state = IF kind \in OfAlgorithm THEN AlgoState(i.state, kind) ELSE AgentState(i.state, kind)
      /\ new = [state |-> new.state, events |-> new.events, total |-> new.total, notes |-> new.notes]
  <2> DEFINE E == Bounded(Append(i.events, kind))
             T == i.total + 1
             S == IF kind \in OfAlgorithm THEN AlgoState(i.state, kind) ELSE AgentState(i.state, kind)
  <2>1. new = [i EXCEPT !.events = E, !.total = T, !.state = S]
    BY DEF Recorded
  <2> HIDE DEF E, T, S, new
  <2>2. [i EXCEPT !.events = E, !.total = T, !.state = S]
          = [state |-> S, events |-> E, total |-> T, notes |-> i.notes]
    <3>1. PICK s0, e0, t0, n0 : i = [state |-> s0, events |-> e0, total |-> t0, notes |-> n0]
      BY <1>1 DEF Info
    <3>2. [i EXCEPT !.events = E] = [state |-> s0, events |-> E, total |-> t0, notes |-> n0]
      BY <3>1
    <3>3. [[state |-> s0, events |-> E, total |-> t0, notes |-> n0] EXCEPT !.total = T]
            = [state |-> s0, events |-> E, total |-> T, notes |-> n0]
      OBVIOUS
    <3>4. [[state |-> s0, events |-> E, total |-> T, notes |-> n0] EXCEPT !.state = S]
            = [state |-> S, events |-> E, total |-> T, notes |-> n0]
      OBVIOUS
    <3>5. [i EXCEPT !.events = E, !.total = T, !.state = S]
            = [[[i EXCEPT !.events = E] EXCEPT !.total = T] EXCEPT !.state = S]
      BY <3>1
    <3>6. i.notes = n0
      BY <3>1
    <3>7. QED
      BY <3>2, <3>3, <3>4, <3>5, <3>6
  <2>3. QED
    BY <2>1, <2>2 DEF E, T, S
<1> HIDE DEF new
<1>4. new.state \in States
  BY <1>2, <1>3 DEF AlgoState, AgentState, States
<1>5. /\ new.events \in Seq(EventKinds) /\ Len(new.events) <= PerRun /\ new.events # <<>>
      /\ Last(new.events) = kind
      /\ \A n \in 1 .. Len(new.events) : new.events[n] \in KindsOf(r)
  <2> DEFINE e == Append(i.events, kind)
  <2>1. /\ e \in Seq(EventKinds) /\ Len(e) = Len(i.events) + 1 /\ e[Len(e)] = kind /\ Len(i.events) <= PerRun
        /\ \A n \in 1 .. Len(e) : e[n] \in KindsOf(r)
    BY <1>1, <1>2 DEF InfoOK
  <2>2. Len(i.events) \in Nat
    BY <1>2
  <2> HIDE DEF e
  <2>3. CASE Len(e) > PerRun
    <3>1. e # <<>>
      BY <2>1, <2>2
    <3>2. new.events = Tail(e) /\ Tail(e) \in Seq(EventKinds) /\ Len(Tail(e)) = Len(e) - 1
      BY <1>3, <2>1, <2>3, <3>1 DEF Bounded, e
    <3>3. \A n \in 1 .. Len(e) - 1 : Tail(e)[n] = e[n + 1]
      BY <2>1, <3>1
    <3>4. Len(e) - 1 = PerRun
      BY <1>1, <2>1, <2>2, <2>3
    <3>5. /\ \A n \in 1 .. PerRun : Tail(e)[n] \in KindsOf(r)
          /\ Tail(e)[PerRun] = kind
      BY <1>1, <2>1, <3>3, <3>4
    <3>6. Len(new.events) = PerRun /\ PerRun \in Nat \ {0} /\ new.events \in Seq(EventKinds)
      BY <1>1, <3>2, <3>4
    <3>7. new.events # <<>> /\ Last(new.events) = kind
      BY <3>2, <3>5, <3>6 DEF Last
    <3>8. \A n \in 1 .. Len(new.events) : new.events[n] \in KindsOf(r)
      BY <3>2, <3>5, <3>6
    <3>9. QED
      BY <3>6, <3>7, <3>8
  <2>4. CASE ~(Len(e) > PerRun)
    <3>1. new.events = e
      BY <1>3, <2>4 DEF Bounded, e
    <3>2. QED
      BY <1>1, <2>1, <2>2, <2>4, <3>1 DEF Last
  <2>5. QED
    BY <2>3, <2>4
<1>6. new \in Info
  BY <1>2, <1>3, <1>4, <1>5 DEF Info
<1>7. InfoOK(r, new)
  BY <1>5, <1>6 DEF InfoOK
<1>8. ASSUME IsTerminal(kind) PROVE new.state \in Verdicts(r)
  <2>1. kind \in Endings[r] /\ kind \in {"end", "error", "algo_end", "algo_error"}
    BY <1>8, KindFacts
  <2>2. new.state = AgentState(AlgoState("running", kind), kind)
    BY <1>3, <2>1 DEF AlgoState, AgentState, OfAlgorithm
  <2>3. QED
    BY <2>1, <2>2 DEF Verdicts
<1>9. ASSUME ~IsTerminal(kind) PROVE new.state = i.state
  <2>1. kind = "more"
    BY <1>9, KindFacts DEF KindsOf
  <2>2. QED
    BY <1>3, <2>1 DEF AlgoState, AgentState, OfAlgorithm
<1>10. QED
  BY <1>3, <1>5, <1>7, <1>8, <1>9 DEF new

LEMMA NewInfoIs == ASSUME NEW r \in Run PROVE InfoOK(r, NewInfo)
<1>1. NewInfo \in Info /\ Len(NewInfo.events) = 0
  BY DEF NewInfo, Info, States
<1>2. QED
  BY <1>1, DashboardAssumption DEF InfoOK

-----------------------------------------------------------------------------
(* The registry's order *)

LEMMA TouchIs ==
  ASSUME NEW r \in Run, NEW o \in Seq(Run), IsInjective(o)
  PROVE  /\ Touch(r, o) \in Seq(Run) /\ IsInjective(Touch(r, o)) /\ ToSet(Touch(r, o)) = ToSet(o) \cup {r}
         /\ Touch(r, o)[Len(Touch(r, o))] = r /\ Len(Touch(r, o)) \in 1 .. Len(o) + 1
<1> DEFINE others == Among(o, Run \ {r})
<1>1. others \in Seq(Run) /\ ToSet(others) = ToSet(o) \cap (Run \ {r}) /\ IsInjective(others)
  BY AmongSound
<1>2. ToSet(o) \subseteq Run
  BY ToSetWithin
<1>3. Len(others) <= Len(o) /\ Len(others) \in Nat /\ Len(o) \in Nat
  <2>1. Among(o, {r}) \in Seq(Run)
    BY AmongSound
  <2>2. Len(others) + Len(Among(o, {r})) = Len(o)
    BY <1>2, AmongParts
  <2>3. QED
    BY <1>1, <2>1, <2>2
<1> HIDE DEF others
<1>4. Touch(r, o) = Append(others, r)
  BY DEF Touch, others
<1>5. IsInjective(Append(others, r))
  BY <1>1, AppendNewcomer
<1>6. ToSet(Append(others, r)) = ToSet(o) \cup {r}
  BY <1>1, <1>2, ToSetAppend
<1>7. Append(others, r) \in Seq(Run) /\ Len(Append(others, r)) = Len(others) + 1
      /\ Append(others, r)[Len(others) + 1] = r
  BY <1>1
<1>8. QED
  BY <1>3, <1>4, <1>5, <1>6, <1>7

\* What is touched is not evicted.
LEMMA EvictedIs ==
  ASSUME NEW r \in Run, NEW o \in Seq(Run), IsInjective(o), Len(o) \in 1 .. RunCapacity + 1, o[Len(o)] = r,
         NEW kept, kept = IF Evicted(o) = {} THEN o ELSE Tail(o)
  PROVE  /\ r \notin Evicted(o) /\ Evicted(o) \subseteq ToSet(o)
         /\ kept \in Seq(Run) /\ IsInjective(kept) /\ Len(kept) <= RunCapacity
         /\ ToSet(kept) = ToSet(o) \ Evicted(o)
<1>1. RunCapacity \in Nat \ {0} /\ Len(o) \in Nat \ {0}
  BY DashboardAssumption
<1>2. CASE Len(o) > RunCapacity
  <2>1. Evicted(o) = {Head(o)} /\ Len(o) = RunCapacity + 1
    BY <1>1, <1>2 DEF Evicted
  <2>2. o # <<>> /\ Len(o) # 1 /\ 1 \in 1 .. Len(o) /\ Len(o) \in 1 .. Len(o) /\ Head(o) = o[1]
    BY <1>1, <2>1
  <2>3. o[1] # o[Len(o)]
    <3>1. DOMAIN o = 1 .. Len(o)
      OBVIOUS
    <3>2. \A i, j \in 1 .. Len(o) : o[i] = o[j] => i = j
      BY <3>1, Zenon DEF IsInjective
    <3>3. QED
      BY <2>2, <3>2
  <2>4. kept = Tail(o)
    BY <2>1
  <2>5. /\ Tail(o) \in Seq(Run) /\ Len(Tail(o)) = Len(o) - 1 /\ ToSet(o) = {Head(o)} \cup ToSet(Tail(o))
        /\ IsInjective(Tail(o)) /\ Head(o) \notin ToSet(Tail(o))
    BY <2>2, ToSetHeadTail, TailOfDistinct
  <2>6. QED
    BY <1>1, <2>1, <2>2, <2>3, <2>4, <2>5
<1>3. CASE ~(Len(o) > RunCapacity)
  BY <1>1, <1>3 DEF Evicted
<1>4. QED
  BY <1>2, <1>3

-----------------------------------------------------------------------------
(* Restart *)

\* The events of a row give back a RunInfo that has them, and a verdict if they have one.
LEMMA ReplayedIs ==
  ASSUME NEW r \in Run, RowOK(r, archive[r])
  PROVE  /\ InfoOK(r, Replayed(r)) /\ Replayed(r).events = archive[r].events
         /\ Replayed(r).state \in {"running"} \cup Verdicts(r)
         /\ HasEnd(archive[r].events) => Replayed(r).state \in Verdicts(r)
<1> DEFINE ev == archive[r].events
           N == Len(ev)
           A == {i \in Info : InfoOK(r, i)}
           step == [n \in 1 .. N |-> [x \in A |-> Recorded(x, ev[n])]]
           Goes(f) == f = [n \in 0 .. N |-> IF n = 0 THEN NewInfo ELSE Recorded(f[n - 1], ev[n])]
           ch == CHOOSE f : Goes(f)
<1>1. ev \in Seq(EventKinds) /\ N \in Nat /\ N <= PerRun /\ PerRun \in Nat /\ \A n \in 1 .. N : ev[n] \in KindsOf(r)
  BY DashboardAssumption DEF RowOK, ArchivedRows
<1>2. \A x \in A, k \in KindsOf(r) : Recorded(x, k) \in A
  BY RecordedIs DEF InfoOK
<1>3. NewInfo \in A
  BY NewInfoIs DEF InfoOK
<1>4. \A x \in A : InfoOK(r, x) /\ x \in Info
  OBVIOUS
<1> HIDE DEF A, ev, N
<1>5. step \in [1 .. N -> [A -> A]]
  BY <1>1, <1>2
<1>6. \A n \in 1 .. N, x \in A : step[n][x] = Recorded(x, ev[n])
  OBVIOUS
<1> HIDE DEF step
<1>7. PICK g \in [0 .. N -> A] : Iterates(g, NewInfo, step, N)
  BY <1>1, <1>3, <1>5, IterationExists
<1>8. \A n \in 0 .. N : g[n] = IF n = 0 THEN NewInfo ELSE Recorded(g[n - 1], ev[n])
  <2> SUFFICES ASSUME NEW n \in 0 .. N
               PROVE  g[n] = IF n = 0 THEN NewInfo ELSE Recorded(g[n - 1], ev[n])
    OBVIOUS
  <2>1. g[n] = IF n = 0 THEN NewInfo ELSE step[n][g[n - 1]]
    BY <1>7 DEF Iterates
  <2>2. CASE n = 0
    BY <2>1, <2>2
  <2>3. CASE n # 0
    <3>1. n \in 1 .. N /\ n - 1 \in 0 .. N
      BY <1>1, <2>3
    <3>2. g[n - 1] \in A
      BY <3>1
    <3>3. QED
      BY <1>6, <2>1, <2>3, <3>1, <3>2
  <2>4. QED
    BY <2>2, <2>3
<1>9. Goes(g)
  BY <1>8
<1>10. Goes(ch)
  <2> HIDE DEF Goes
  <2> QED  BY <1>9
<1>11. Replayed(r) = ch[N]
  BY DEF Replayed, N, ev
<1> HIDE DEF ch
<1>12. /\ ch[0] = NewInfo
       /\ \A n \in 1 .. N : ch[n] = Recorded(ch[n - 1], ev[n])
  <2>1. ch = [n \in 0 .. N |-> IF n = 0 THEN NewInfo ELSE Recorded(ch[n - 1], ev[n])]
    BY <1>10
  <2>2. 0 \in 0 .. N /\ \A n \in 1 .. N : n \in 0 .. N /\ n # 0
    BY <1>1
  <2>3. QED
    BY <2>1, <2>2
<1> DEFINE Good(n) == /\ ch[n] \in A /\ ch[n].events = SubSeq(ev, 1, n)
                      /\ ch[n].state \in {"running"} \cup Verdicts(r)
                      /\ (\E m \in 1 .. n : IsTerminal(ev[m])) => ch[n].state \in Verdicts(r)
           P == {n \in 0 .. N : Good(n)}
<1>13. 0 \in P
  <2>1. NewInfo.events = <<>> /\ NewInfo.state = "running"
    BY DEF NewInfo
  <2>2. SubSeq(ev, 1, 0) = <<>> /\ 1 .. 0 = {}
    BY <1>1
  <2>3. ch[0] = NewInfo
    BY <1>12
  <2>4. Good(0)
    BY <1>3, <2>1, <2>2, <2>3
  <2>5. QED
    BY <1>1, <2>4
<1>14. ASSUME NEW n \in 1 .. N, n - 1 \in P PROVE n \in P
  <2>1. Good(n - 1) /\ n \in 0 .. N /\ n \in Nat
    BY <1>1, <1>14
  <2>2. ch[n] = Recorded(ch[n - 1], ev[n]) /\ ev[n] \in KindsOf(r) /\ InfoOK(r, ch[n - 1])
    BY <1>1, <1>4, <1>12, <2>1
  <2>3. /\ InfoOK(r, ch[n]) /\ ch[n].events = Bounded(Append(ch[n - 1].events, ev[n]))
        /\ IsTerminal(ev[n]) => ch[n].state \in Verdicts(r)
        /\ ~IsTerminal(ev[n]) => ch[n].state = ch[n - 1].state
    BY <2>2, RecordedIs
  <2>4. Bounded(Append(SubSeq(ev, 1, n - 1), ev[n])) = SubSeq(ev, 1, n)
    <3> DEFINE t == Append(SubSeq(ev, 1, n - 1), ev[n])
               u == SubSeq(ev, 1, n)
    <3>1. ev[n] \in EventKinds /\ SubSeq(ev, 1, n - 1) \in Seq(EventKinds) /\ Len(SubSeq(ev, 1, n - 1)) = n - 1
          /\ \A i \in 1 .. n - 1 : SubSeq(ev, 1, n - 1)[i] = ev[i]
      BY <1>1 DEF N
    <3>2. t \in Seq(EventKinds) /\ Len(t) = n /\ t[n] = ev[n] /\ \A i \in 1 .. n - 1 : t[i] = ev[i]
      BY <2>1, <3>1
    <3>3. u \in Seq(EventKinds) /\ Len(u) = n /\ \A i \in 1 .. n : u[i] = ev[i]
      BY <1>1, <2>1 DEF N
    <3>4. \A i \in 1 .. n : i = n \/ i \in 1 .. n - 1
      BY <2>1
    <3> HIDE DEF t, u
    <3>5. t = u
      BY <3>2, <3>3, <3>4, SeqEqual
    <3>6. Bounded(t) = t
      BY <1>1, <2>1, <3>2 DEF Bounded
    <3>7. QED
      BY <3>5, <3>6 DEF t, u
  <2>5. ch[n] \in A
    BY <2>3 DEF A, InfoOK
  <2>6. ASSUME NEW m \in 1 .. n, IsTerminal(ev[m]), ~IsTerminal(ev[n]) PROVE ch[n - 1].state \in Verdicts(r)
    <3>1. m \in 1 .. n - 1
      BY <2>1, <2>6
    <3>2. QED
      BY <2>1, <2>6, <3>1
  <2>7. QED
    BY <2>1, <2>3, <2>4, <2>5, <2>6
<1>15. N \in P
  <2> HIDE DEF P
  <2>1. \A n \in 0 .. N : n \in P
    BY <1>1, <1>13, <1>14, Climb
  <2>2. QED
    BY <1>1, <2>1
<1>16. SubSeq(ev, 1, N) = ev
  BY <1>1 DEF N
<1>17. QED
  BY <1>4, <1>11, <1>15, <1>16 DEF HasEnd, N, ev

\* The runs a restart takes up are few enough.
LEMMA HydratedIs ==
  ASSUME NEW o, o = Among([n \in Run |-> Runs + 1 - n], Hydrated)
  PROVE  o \in Seq(Run) /\ IsInjective(o) /\ ToSet(o) = Hydrated /\ Len(o) <= RunCapacity
<1> DEFINE all == [n \in Run |-> Runs + 1 - n]
<1>1. Runs \in Nat /\ RunCapacity \in Nat \ {0} /\ Hydrated \subseteq Replayable /\ Replayable \subseteq Run
  BY DashboardAssumption DEF Hydrated, Replayable
<1>2. all \in Seq(Run) /\ IsInjective(all) /\ Run \subseteq ToSet(all)
  <2>1. \A n \in Run : all[n] \in Run
    BY <1>1 DEF Run
  <2>2. all \in [1 .. Runs -> Run]
    BY <2>1 DEF Run
  <2>3. all \in Seq(Run) /\ DOMAIN all = Run
    <3> HIDE DEF all
    <3> QED  BY <1>1, <2>2 DEF Run
  <2>4. \A i, j \in Run : all[i] = all[j] => i = j
    BY <1>1 DEF Run
  <2>5. \A r \in Run : r = all[Runs + 1 - r] /\ Runs + 1 - r \in Run
    BY <1>1 DEF Run
  <2> HIDE DEF all
  <2>6. IsInjective(all)
    BY <2>3, <2>4 DEF IsInjective
  <2>7. QED
    BY <2>3, <2>5, <2>6 DEF ToSet
<1> HIDE DEF all
<1>3. o = Among(all, Hydrated)
  BY DEF all
<1>4. o \in Seq(Run) /\ ToSet(o) = ToSet(all) \cap Hydrated /\ IsInjective(o)
  <2>1. all \in Seq(Run) /\ IsInjective(all)
    BY <1>2
  <2>2. /\ Among(all, Hydrated) \in Seq(Run) /\ ToSet(Among(all, Hydrated)) = ToSet(all) \cap Hydrated
        /\ IsInjective(Among(all, Hydrated))
    BY <2>1, AmongSound, Zenon
  <2>3. QED
    BY <1>3, <2>2, Zenon
<1>5. ToSet(o) = Hydrated
  BY <1>1, <1>2, <1>4
<1>6. IsFiniteSet(Run)
  BY <1>1, FS_Interval DEF Run
<1>7. IsFiniteSet(Hydrated)
  BY <1>1, <1>6, FS_Subset
<1>8. Cardinality(Hydrated) <= RunCapacity
  <2>1. CASE Hydrated = {}
    BY <1>1, <2>1, FS_EmptySet
  <2>2. CASE Hydrated # {}
    <3>1. PICK top \in Hydrated : \A x \in Hydrated : top >= x
      BY <1>1, <2>2, BoundedMax DEF Run
    <3> DEFINE below == {x \in Replayable : x < top}
    <3>2. Cardinality(below) < RunCapacity
      BY <3>1 DEF Hydrated
    <3>3. Hydrated \ {top} \subseteq below
      <4>1. \A x \in Hydrated : x \in Nat /\ top \in Nat
        BY <1>1, <3>1 DEF Run
      <4>2. QED
        BY <1>1, <3>1, <4>1
    <3>4. IsFiniteSet(below)
      BY <1>1, <1>6, FS_Subset
    <3> HIDE DEF below
    <3>5. Cardinality(Hydrated \ {top}) <= Cardinality(below)
      BY <3>3, <3>4, FS_Subset
    <3>6. Cardinality(Hydrated \ {top}) = Cardinality(Hydrated) - 1
      BY <1>7, <3>1, FS_RemoveElement
    <3>7. Cardinality(Hydrated) \in Nat /\ Cardinality(below) \in Nat
      BY <1>7, <3>4, FS_CardinalityType
    <3>8. QED
      BY <1>1, <3>2, <3>5, <3>6, <3>7
  <2>3. QED
    BY <2>1, <2>2
<1>9. Len(o) <= Cardinality(Hydrated)
  <2>1. DOMAIN o = 1 .. Len(o) /\ Len(o) \in Nat
    BY <1>4
  <2>2. o \in Injection(1 .. Len(o), Hydrated)
    <3>1. \A n \in 1 .. Len(o) : o[n] \in Hydrated
      BY <1>5, <2>1 DEF ToSet
    <3>2. o \in [1 .. Len(o) -> Hydrated]
      BY <1>4, <3>1
    <3>3. \A i, j \in 1 .. Len(o) : o[i] = o[j] => i = j
      BY <1>4, <2>1, Zenon DEF IsInjective
    <3>4. QED
      BY <2>1, <3>2, <3>3 DEF Injection, IsInjective
  <2>3. Cardinality(1 .. Len(o)) <= Cardinality(Hydrated)
    BY <1>7, <2>2, FS_Injection
  <2>4. Cardinality(1 .. Len(o)) = Len(o)
    BY <2>1, FS_Interval
  <2>5. QED
    BY <2>3, <2>4
<1>10. Cardinality(Hydrated) \in Nat /\ Len(o) \in Nat
  BY <1>4, <1>7, FS_CardinalityType
<1>11. QED
  BY <1>1, <1>4, <1>5, <1>8, <1>9, <1>10

-----------------------------------------------------------------------------
(* Subscribers *)

LEMMA RecentTail ==
  ASSUME NEW n \in Nat, NEW q \in Seq(0 .. n), q # <<>>, Recent(q, n)
  PROVE  Recent(Tail(q), n)
<1> DEFINE S == Nat \ {0}
           u == Among(q, S)
           v == Among(Tail(q), S)
           h == Head(q)
<1>1. h \in 0 .. n /\ Tail(q) \in Seq(0 .. n)
  OBVIOUS
<1>2. u = IF h \in S THEN <<h>> \o v ELSE v
  BY AmongTail
<1>3. v \in Seq(0 .. n)
  BY <1>1, AmongSound
<1>4. \A i \in 1 .. Len(u) : u[i] = n - Len(u) + i
  BY DEF Recent
<1> HIDE DEF u, v, h
<1>5. CASE u = <<h>> \o v
  <2>1. Len(v) \in Nat /\ Len(u) = Len(v) + 1 /\ \A i \in 1 .. Len(v) : v[i] = u[i + 1] /\ i + 1 \in 1 .. Len(u)
    BY <1>1, <1>3, <1>5
  <2>2. \A i \in 1 .. Len(v) : v[i] = n - Len(v) + i
    BY <1>4, <2>1
  <2>3. QED
    BY <2>2 DEF Recent, v, S
<1>6. CASE u = v
  BY <1>4, <1>6 DEF Recent, v, S
<1>7. QED
  BY <1>2, <1>5, <1>6

\* An envelope that is put, or what is none of them (0).
LEMMA RecentPut ==
  ASSUME NEW n \in Nat, NEW q \in Seq(0 .. n), Len(q) <= QueueSize, Recent(q, n), NEW m \in {n, n + 1},
         NEW x, x = IF m = n THEN 0 ELSE m
  PROVE  /\ PutDropOldest(q, x) \in Seq(0 .. m) /\ Len(PutDropOldest(q, x)) <= QueueSize
         /\ Recent(PutDropOldest(q, x), m)
<1> DEFINE p == IF Len(q) = QueueSize THEN Tail(q) ELSE q
           S == Nat \ {0}
           u == Among(p, S)
<1>1. QueueSize \in Nat \ {0} /\ m \in Nat /\ x \in 0 .. m
  BY DashboardAssumption
<1>2. p \in Seq(0 .. n) /\ Len(p) < QueueSize /\ Recent(p, n)
  <2>1. CASE Len(q) = QueueSize
    <3>1. q # <<>> /\ Tail(q) \in Seq(0 .. n) /\ Len(Tail(q)) = Len(q) - 1
      BY <1>1, <2>1
    <3>2. Recent(Tail(q), n)
      BY <3>1, RecentTail
    <3>3. QED
      BY <1>1, <2>1, <3>1, <3>2
  <2>2. CASE Len(q) # QueueSize
    BY <1>1, <2>2
  <2>3. QED
    BY <2>1, <2>2
<1>3. PutDropOldest(q, x) = Append(p, x)
  BY DEF PutDropOldest
<1> HIDE DEF p
<1>4. p \in Seq(0 .. m) /\ Append(p, x) \in Seq(0 .. m) /\ Len(Append(p, x)) = Len(p) + 1
  <2>1. 0 .. n \subseteq 0 .. m
    OBVIOUS
  <2>2. p \in Seq(0 .. m)
    BY <1>2, <2>1
  <2>3. QED
    BY <1>1, <2>2
<1>5. Among(Append(p, x), S) = (IF x \in S THEN Append(u, x) ELSE u) /\ u \in Seq(0 .. m)
  <2>1. Among(p, S) \in Seq(0 .. m)
    BY <1>4, AmongSound
  <2>2. Among(Append(p, x), S) = IF x \in S THEN Append(Among(p, S), x) ELSE Among(p, S)
    <3>1. \A R, y : p \in Seq(R) /\ y \in R =>
             Among(Append(p, y), S) = IF y \in S THEN Append(Among(p, S), y) ELSE Among(p, S)
      <4> HIDE DEF S, p
      <4> QED  BY AmongAppend
    <3> DEFINE R == 0 .. m
    <3>2. p \in Seq(R) /\ x \in R
      BY <1>1, <1>4
    <3> HIDE DEF R, S
    <3>3. QED
      BY <3>1, <3>2, Zenon
  <2>3. QED
    BY <2>1, <2>2
<1>6. \A i \in 1 .. Len(u) : u[i] = n - Len(u) + i
  BY <1>2 DEF Recent
<1> HIDE DEF u
<1> DEFINE w == Among(Append(p, x), S)
<1>7. \A i \in 1 .. Len(w) : w[i] = m - Len(w) + i
  <2>1. CASE m = n
    <3>1. w = u
      BY <1>5, <2>1
    <3>2. QED
      BY <1>6, <2>1, <3>1
  <2>2. CASE m = n + 1
    <3>1. w = Append(u, x) /\ x = n + 1
      <4>1. m # n /\ n + 1 \in S
        BY <2>2
      <4>2. x = n + 1
        BY <2>2, <4>1
      <4>3. QED
        BY <1>5, <4>1, <4>2
    <3> HIDE DEF w
    <3>2. /\ Len(w) = Len(u) + 1 /\ Len(u) \in Nat /\ w[Len(u) + 1] = n + 1
          /\ \A i \in 1 .. Len(u) : w[i] = u[i]
      <4>1. u \in Seq(0 .. m) /\ x \in 0 .. m
        BY <1>1, <1>5
      <4>2. QED
        BY <3>1, <4>1
    <3>3. \A i \in 1 .. Len(w) : i = Len(u) + 1 \/ i \in 1 .. Len(u)
      BY <3>2
    <3>4. QED
      BY <1>6, <2>2, <3>2, <3>3
  <2>3. QED
    BY <2>1, <2>2
<1>8. Recent(Append(p, x), m)
  BY <1>7 DEF Recent
<1>9. Len(p) \in Nat
  BY <1>2
<1>10. QED
  <2>1. Len(Append(p, x)) <= QueueSize
    BY <1>1, <1>2, <1>4, <1>9
  <2>2. QED
    BY <1>3, <1>4, <1>8, <2>1

-----------------------------------------------------------------------------
(* What the registry does with a run *)

\* Who keeps its RunInfo keeps its snapshots.
LEMMA DetachedIs ==
  ASSUME RegistryInv, NEW rs, rs \subseteq Run, NEW j \in Detached(jobs, rs)
  PROVE  \E k \in jobs :
           /\ j.id = k.id /\ j.run = k.run /\ j.stage = k.stage /\ j.state = k.state
           /\ j.total = k.total /\ j.notes = k.notes /\ j \in Job
           /\ IF k.run \in rs /\ k.of = Gone THEN j.of = info[k.run] ELSE j = k
<1>1. PICK k \in jobs : j = IF k.run \in rs /\ k.of = Gone THEN [k EXCEPT !.of = info[k.run]] ELSE k
  BY DEF Detached
<1>2. k \in Job /\ info[k.run] \in Info \cup {Gone}
  BY DEF RegistryInv, JobOK, Job
<1>3. CASE k.run \in rs /\ k.of = Gone
  <2>1. j = [k EXCEPT !.of = info[k.run]]
    BY <1>1, <1>3
  <2>2. /\ j.id = k.id /\ j.run = k.run /\ j.stage = k.stage /\ j.state = k.state
        /\ j.total = k.total /\ j.notes = k.notes /\ j \in Job /\ j.of = info[k.run]
    BY <1>2, <2>1 DEF Job
  <2>3. QED
    BY <1>3, <2>2
<1>4. CASE ~(k.run \in rs /\ k.of = Gone)
  BY <1>1, <1>2, <1>4
<1>5. QED
  BY <1>3, <1>4

\* The condition on a new RunInfo of run r in the place of the one there was.
Continues(r, i) ==
  /\ i.state \in {"running"} \cup Verdicts(r)
  /\ HasEnd(i.events) => i.state \in Verdicts(r)
  /\ Live(r) /\ info[r].state \in Verdicts(r) => i.state \in Verdicts(r)

LEMMA RegistryKeeps ==
  ASSUME RegistryInv, VerdictInv, SettleInv, NEW r \in Run, NEW i, InfoOK(r, i),
         NEW replaced \in SUBSET {r}, NEW new, \A j \in new : j \in Job /\ j.run = r /\ j.of = Gone /\ j.stage = "queued",
         r \in whole \ replaced =>
           /\ Continues(r, i)
           /\ new # {} => i.state \in Verdicts(r)
           /\ i.events # <<>> /\ IsTerminal(Last(i.events)) => new # {} \/ (Live(r) /\ i = info[r])
           /\ r \notin overtaken' => ~ReadAnother(r, i.state)
           /\ new # {} \/ ((r \in lost => r \in lost') /\ (r \in overtaken => r \in overtaken')),
         \A x \in Run \ {r} : (x \in lost' <=> x \in lost) /\ (x \in overtaken' <=> x \in overtaken),
         Registry(r, i, replaced, new), archive' = archive,
         clock' \in Nat, saving' \in 0 .. Runs, budget' \in BudgetType
  PROVE  RegistryInv' /\ VerdictInv' /\ SettleInv'
<1> DEFINE o == Touch(r, order)
           dropped == Evicted(o)
<1>1. /\ order' = IF dropped = {} THEN o ELSE Tail(o)
      /\ info' = [x \in Run |-> IF x \in dropped THEN Gone ELSE IF x = r THEN i ELSE info[x]]
      /\ jobs' = Detached(jobs, dropped \cup replaced) \cup new
      /\ whole' = whole \ (dropped \cup replaced)
  BY DEF Registry
<1>2. /\ o \in Seq(Run) /\ IsInjective(o) /\ ToSet(o) = ToSet(order) \cup {r}
      /\ o[Len(o)] = r /\ Len(o) \in 1 .. Len(order) + 1
  BY TouchIs DEF RegistryInv
<1>3. Len(o) \in 1 .. RunCapacity + 1
  BY <1>2, DashboardAssumption DEF RegistryInv
<1> HIDE DEF o
<1>4. /\ r \notin dropped /\ dropped \subseteq ToSet(o)
      /\ order' \in Seq(Run) /\ IsInjective(order') /\ Len(order') <= RunCapacity
      /\ ToSet(order') = ToSet(o) \ dropped
  BY <1>1, <1>2, <1>3, EvictedIs
<1> HIDE DEF dropped
<1>5. i \in Info /\ i # Gone
  BY GoneAssumption DEF InfoOK
<1>6. /\ info' \in [Run -> Info \cup {Gone}] /\ info'[r] = i
      /\ \A x \in Run : x \in dropped => info'[x] = Gone /\ (x # r => Live(x))
      /\ \A x \in Run : x \notin dropped /\ x # r => info'[x] = info[x]
  <2>1. \A x \in dropped : x # r => x \in ToSet(order)
    BY <1>2, <1>4
  <2>2. QED
    BY <1>1, <1>4, <1>5, <2>1 DEF RegistryInv
<1>7. \A x \in Run : Live(x)' <=> x = r \/ (Live(x) /\ x \notin dropped)
  BY <1>4, <1>5, <1>6 DEF Live
<1>8. ToSet(order') = {x \in Run : Live(x)'}
  BY <1>2, <1>4, <1>7 DEF RegistryInv
<1>9. \A x \in Run : Live(x)' => InfoOK(x, info'[x])
  BY <1>6, <1>7 DEF RegistryInv
<1>10. dropped \cup replaced \subseteq Run
  BY <1>4, <1>2, ToSetWithin
<1>11. ASSUME NEW j \in jobs'
       PROVE  /\ j \in new \/ \E k \in jobs :
                   /\ j.run = k.run /\ j.stage = k.stage /\ j.state = k.state /\ j.total = k.total /\ j \in Job
                   /\ IF k.run \in dropped \cup replaced /\ k.of = Gone THEN j.of = info[k.run] ELSE j = k
  BY <1>1, <1>10, <1>11, DetachedIs
<1>12. ASSUME NEW j \in jobs' PROVE JobOK(j)'
  <2>1. CASE j \in new
    <3>1. j \in Job /\ j.run = r /\ j.of = Gone
      BY <2>1
    <3>2. QED
      BY <1>7, <3>1 DEF JobOK
  <2>2. CASE j \notin new
    <3>1. PICK k \in jobs : /\ j.run = k.run /\ j \in Job
                            /\ IF k.run \in dropped \cup replaced /\ k.of = Gone THEN j.of = info[k.run] ELSE j = k
      BY <1>11, <2>2
    <3>2. JobOK(k) /\ k.run \in Run
      BY DEF RegistryInv, JobOK, Job
    <3>3. CASE k.run \in dropped \cup replaced /\ k.of = Gone
      <4>1. Live(k.run) /\ j.of = info[k.run] /\ InfoOK(k.run, info[k.run])
        BY <3>1, <3>2, <3>3 DEF JobOK, RegistryInv
      <4>2. j.of # Gone /\ j.run \notin whole'
        BY <1>1, <3>1, <3>3, <4>1 DEF Live
      <4>3. QED
        BY <3>1, <4>1, <4>2 DEF JobOK
    <3>4. CASE k.of # Gone
      <4>1. InfoOK(k.run, k.of) /\ k.run \notin whole /\ j = k
        BY <3>1, <3>2, <3>4 DEF JobOK
      <4>2. QED
        BY <1>1, <3>1, <3>4, <4>1 DEF JobOK
    <3>5. CASE k.of = Gone /\ k.run \notin dropped \cup replaced
      <4>1. j = k /\ Live(k.run) /\ k.run \notin dropped
        BY <3>1, <3>2, <3>5 DEF JobOK
      <4>2. Live(k.run)'
        BY <1>7, <3>2, <4>1
      <4>3. QED
        BY <3>1, <3>5, <4>1, <4>2 DEF JobOK
    <3>6. QED
      BY <3>3, <3>4, <3>5
  <2>3. QED
    BY <2>1, <2>2
<1>13. RegistryInv'
  <2>1. /\ archive' \in [Run -> ArchivedRows \cup {Gone}]
        /\ \A x \in Run : archive'[x] # Gone => RowOK(x, archive'[x])
        /\ whole' \subseteq Run
    BY <1>1 DEF RegistryInv
  <2>2. QED
    BY <1>4, <1>6, <1>8, <1>9, <1>12, <2>1 DEF RegistryInv
<1>14. \A j \in jobs' : j.run \in whole' => j \in new \/ j \in jobs
  <2> SUFFICES ASSUME NEW j \in jobs', j.run \in whole', j \notin new PROVE j \in jobs
    OBVIOUS
  <2>1. PICK k \in jobs : /\ j.run = k.run
                          /\ IF k.run \in dropped \cup replaced /\ k.of = Gone THEN j.of = info[k.run] ELSE j = k
    BY <1>11
  <2>2. QED
    BY <1>1, <2>1
<1>15. \A x \in whole' : x \in whole /\ x \notin dropped /\ x \notin replaced /\ x \in Run
  BY <1>1 DEF RegistryInv
<1>16. VerdictInv'
  <2> SUFFICES ASSUME NEW x \in whole'
               PROVE  /\ archive[x] # Gone => Live(x)'
                      /\ Live(x)' => /\ info'[x].state \in {"running"} \cup Verdicts(x)
                                     /\ HasEnd(info'[x].events) => info'[x].state \in Verdicts(x)
                      /\ \A j \in jobs' : j.run = x =>
                           /\ info'[x].state \in Verdicts(x)
                           /\ j.stage # "queued" => /\ j.state \in Verdicts(x)
                                                    /\ j.state = info'[x].state \/ x \in overtaken'
                      /\ archive[x] # Gone => /\ archive[x].state \in {"running"} \cup Verdicts(x)
                                              /\ HasEnd(archive[x].events) => info'[x].state \in Verdicts(x)
    <3>1. archive' = archive
      OBVIOUS
    <3>2. QED
      BY <3>1 DEF VerdictInv, Known, Verdicts, HasEnd, Live
  <2>1. x \in whole /\ x \notin dropped /\ x \notin replaced /\ x \in Run
    BY <1>15
  <2>2. archive[x] # Gone => Live(x)
    BY <2>1 DEF VerdictInv, Known
  <2>3. Live(x) => Live(x)'
    BY <1>7, <2>1
  <2>4. /\ Live(x) => /\ info[x].state \in {"running"} \cup Verdicts(x)
                      /\ HasEnd(info[x].events) => info[x].state \in Verdicts(x)
        /\ \A j \in jobs : j.run = x =>
             /\ info[x].state \in Verdicts(x)
             /\ j.stage # "queued" => /\ j.state \in Verdicts(x)
                                      /\ j.state = info[x].state \/ x \in overtaken
        /\ archive[x] # Gone => /\ archive[x].state \in {"running"} \cup Verdicts(x)
                                /\ HasEnd(archive[x].events) => info[x].state \in Verdicts(x)
    BY <2>1 DEF VerdictInv, Known
  <2>5. CASE x # r
    <3>1. info'[x] = info[x] /\ (Live(x)' => Live(x))
      BY <1>6, <1>7, <2>1, <2>5
    <3>2. \A j \in jobs' : j.run = x => j \in jobs
      BY <1>14, <2>5
    <3>3. x \in overtaken' <=> x \in overtaken
      BY <2>1, <2>5
    <3>4. QED
      BY <2>2, <2>3, <2>4, <3>1, <3>2, <3>3
  <2>6. CASE x = r
    <3>1. info'[x] = i /\ Live(x)'
      BY <1>6, <1>7, <2>6
    <3>2. /\ Continues(x, i) /\ (new # {} => i.state \in Verdicts(x))
          /\ x \notin overtaken' => ~ReadAnother(x, i.state)
      BY <2>1, <2>6
    <3>3. \A j \in jobs : j.run = x => Live(x)
      <4>1. ASSUME NEW j \in jobs, j.run = x PROVE Live(x)
        BY <2>1, <4>1 DEF RegistryInv, JobOK
      <4>2. QED
        BY <4>1
    <3>4. ASSUME NEW j \in jobs', j.run = x
          PROVE  /\ i.state \in Verdicts(x)
                 /\ j.stage # "queued" => j.state \in Verdicts(x) /\ (j.state = i.state \/ x \in overtaken')
      <4>1. CASE j \in new
        BY <3>2, <3>4, <4>1
      <4>2. CASE j \in jobs
        <5>1. Live(x) /\ info[x].state \in Verdicts(x) /\ (j.stage # "queued" => j.state \in Verdicts(x))
          BY <2>4, <3>3, <3>4, <4>2
        <5>2. i.state \in Verdicts(x)
          BY <3>2, <5>1 DEF Continues
        <5>3. j.stage # "queued" => j.state = i.state \/ x \in overtaken'
          BY <3>2, <3>4, <4>2 DEF ReadAnother
        <5>4. QED
          BY <5>1, <5>2, <5>3
      <4>3. QED
        BY <1>14, <3>4, <4>1, <4>2
    <3>5. ASSUME archive[x] # Gone, HasEnd(archive[x].events) PROVE i.state \in Verdicts(x)
      BY <2>2, <2>4, <3>2, <3>5 DEF Continues
    <3>6. i.state \in {"running"} \cup Verdicts(x) /\ (HasEnd(i.events) => i.state \in Verdicts(x))
      BY <3>2 DEF Continues
    <3>7. QED
      BY <2>4, <3>1, <3>4, <3>5, <3>6
  <2>7. QED
    BY <2>5, <2>6
<1>17. SettleInv'
  <2> SUFFICES ASSUME NEW x \in whole', EndedLast(x)', x \notin lost'
               PROVE  Filed(x)' \/ \E j \in jobs' : Brings(j, x)'
    BY DEF SettleInv
  <2>1. x \in whole /\ x \notin dropped /\ x \notin replaced /\ x \in Run
    BY <1>15
  <2>2. CASE /\ info'[x] = info[x] /\ Live(x) /\ x \notin lost
             /\ x \in overtaken => x \in overtaken'
    <3>1. EndedLast(x)
      BY <2>2 DEF EndedLast
    <3>2. Filed(x) \/ \E j \in jobs : Brings(j, x)
      BY <2>1, <2>2, <3>1 DEF SettleInv
    <3>3. Filed(x) => Filed(x)'
      BY <2>2 DEF Filed, Verdicts
    <3>4. ASSUME NEW j \in jobs, Brings(j, x) PROVE j \in jobs' /\ Brings(j, x)'
      <4>1. j.run = x
        BY <3>4 DEF Brings
      <4>2. j \in Detached(jobs, dropped \cup replaced)
        BY <2>1, <4>1 DEF Detached
      <4>3. QED
        BY <1>1, <2>2, <3>4, <4>2 DEF Brings
    <3>5. QED
      BY <3>2, <3>3, <3>4
  <2>3. CASE x # r
    <3>1. (x \in lost' <=> x \in lost) /\ (x \in overtaken' <=> x \in overtaken)
      BY <2>1, <2>3
    <3>2. info'[x] = info[x] /\ Live(x)
      BY <1>6, <1>7, <2>1, <2>3 DEF EndedLast
    <3>3. QED
      BY <2>2, <3>1, <3>2
  <2>4. CASE x = r
    <3>1. info'[x] = i /\ i.events # <<>> /\ IsTerminal(Last(i.events))
      BY <1>6, <2>4 DEF EndedLast
    <3>2. /\ new # {} \/ (Live(r) /\ i = info[r])
          /\ new # {} \/ ((r \in lost => r \in lost') /\ (r \in overtaken => r \in overtaken'))
      BY <2>1, <2>4, <3>1
    <3>3. CASE new = {}
      <4>1. /\ Live(x) /\ info'[x] = info[x] /\ x \notin lost
            /\ x \in overtaken => x \in overtaken'
        BY <2>4, <3>1, <3>2, <3>3
      <4>2. QED
        BY <2>2, <4>1
    <3>4. CASE new # {}
      <4>1. PICK j \in new : TRUE
        BY <3>4
      <4>2. j \in jobs' /\ j.run = x /\ j.stage = "queued"
        BY <1>1, <2>4
      <4>3. QED
        BY <4>2 DEF Brings
    <3>5. QED
      BY <3>3, <3>4
  <2>5. QED
    BY <2>3, <2>4
<1>18. QED
  BY <1>13, <1>16, <1>17

-----------------------------------------------------------------------------
(* The steps *)

LEMMA DashInitInv == DashInit => DashInv
<1> SUFFICES ASSUME DashInit PROVE DashInv
  OBVIOUS
<1> USE DEF DashInit
<1>1. \A r \in Run : ~Live(r)
  BY DEF Live
<1>2. RegistryInv
  <2>1. <<>> \in Seq(Run) /\ Len(<<>>) <= RunCapacity /\ IsInjective(<<>>)
    BY DashboardAssumption DEF IsInjective
  <2>2. ToSet(<<>>) = {r \in Run : Live(r)}
    BY <1>1, ToSetEmpty
  <2>3. 0 \in 0 .. Runs /\ budget \in BudgetType
    BY DashboardAssumption DEF BudgetType
  <2>4. QED
    BY <1>1, <2>1, <2>2, <2>3 DEF RegistryInv
<1>3. VerdictInv
  BY <1>1 DEF VerdictInv, Known
<1>4. SettleInv
  BY <1>1 DEF SettleInv, EndedLast
<1>5. FeedInv
  BY DEF FeedInv
<1>6. QED
  BY <1>2, <1>3, <1>4, <1>5 DEF DashInv

\* What is fed to a subscriber.
LEMMA BroadcastKeeps ==
  ASSUME FeedInv, clock \in Nat, clock' = clock + 1, Broadcast
  PROVE  FeedInv'
<1>1. CASE feed = Gone
  BY <1>1 DEF Broadcast, FeedInv
<1>2. CASE feed # Gone
  <2>1. feed \in Seq(0 .. clock) /\ Len(feed) <= QueueSize /\ Recent(feed, clock)
    BY <1>2 DEF FeedInv
  <2>2. feed' = PutDropOldest(feed, clock + 1) /\ clock + 1 \in {clock, clock + 1} /\ clock + 1 # clock
    BY <1>2 DEF Broadcast
  <2>3. feed' \in Seq(0 .. clock + 1) /\ Len(feed') <= QueueSize /\ Recent(feed', clock + 1)
    BY <2>1, <2>2, RecentPut
  <2>4. Recent(feed, clock)' <=> Recent(feed', clock + 1)
    BY DEF Recent
  <2>5. QED
    BY <2>3, <2>4 DEF FeedInv
<1>3. QED
  BY <1>1, <1>2

LEMMA FeedSame ==
  ASSUME FeedInv, UNCHANGED <<feed, clock>>
  PROVE  FeedInv'
<1>1. Recent(feed, clock)' <=> Recent(feed, clock)
  BY DEF Recent
<1>2. QED
  BY <1>1 DEF FeedInv

LEMMA IngestKeeps ==
  ASSUME DashInv, NEW r \in Run, NEW kind \in KindsOf(r), Ingest(r, kind)
  PROVE  DashInv'
<1> DEFINE i == Recorded(Ensured(r), kind)
           job == NewJob(<<clock', 0>>, r, Gone)
           new == IF IsTerminal(kind) THEN {job} ELSE {}
<1>1. /\ clock' = clock + 1 /\ Registry(r, i, {}, new) /\ Broadcast
      /\ archive' = archive /\ saving' = saving /\ budget' = budget
      /\ lost' = IF IsTerminal(kind) THEN lost \ {r} ELSE lost
      /\ overtaken' = IF ~IsTerminal(kind) THEN overtaken
                      ELSE IF ReadAnother(r, i.state) THEN overtaken \cup {r}
                      ELSE overtaken \ {r}
  BY DEF Ingest
<1>2. RegistryInv /\ VerdictInv /\ SettleInv /\ FeedInv
  BY DEF DashInv
<1>3. clock' \in Nat /\ saving' \in 0 .. Runs /\ budget' \in BudgetType
  BY <1>1, <1>2 DEF RegistryInv
<1>4. InfoOK(r, Ensured(r))
  BY <1>2, NewInfoIs DEF Ensured, RegistryInv
<1>5. /\ InfoOK(r, i) /\ i.events # <<>> /\ Last(i.events) = kind
      /\ i.events = Bounded(Append(Ensured(r).events, kind))
      /\ IsTerminal(kind) => i.state \in Verdicts(r)
      /\ ~IsTerminal(kind) => i.state = Ensured(r).state
  BY <1>4, RecordedIs
<1>6. job \in Job /\ job.run = r /\ job.of = Gone /\ job.stage = "queued"
  BY <1>3 DEF NewJob, Job, States
<1>7. \A j \in new : j \in Job /\ j.run = r /\ j.of = Gone /\ j.stage = "queued"
  BY <1>6
<1>8. HasEnd(i.events) => IsTerminal(kind) \/ HasEnd(Ensured(r).events)
  <2> DEFINE e == Ensured(r).events
             t == Append(e, kind)
  <2>1. e \in Seq(EventKinds) /\ kind \in EventKinds
    BY <1>4, KindFacts DEF InfoOK, Info
  <2>2. t \in Seq(EventKinds) /\ Len(t) = Len(e) + 1 /\ t[Len(t)] = kind /\ \A n \in 1 .. Len(e) : t[n] = e[n]
        /\ Len(e) \in Nat
    BY <2>1
  <2> HIDE DEF e, t
  <2>3. \A n \in 1 .. Len(t) : n = Len(t) \/ n \in 1 .. Len(e)
    BY <2>2
  <2>4. HasEnd(t) => IsTerminal(kind) \/ HasEnd(e)
    BY <2>2, <2>3 DEF HasEnd
  <2>5. t # <<>> /\ Len(Tail(t)) = Len(t) - 1 /\ \A n \in 1 .. Len(t) - 1 : Tail(t)[n] = t[n + 1] /\ n + 1 \in 1 .. Len(t)
    BY <2>2
  <2>6. HasEnd(Tail(t)) => HasEnd(t)
    BY <2>5 DEF HasEnd
  <2>7. i.events = Tail(t) \/ i.events = t
    BY <1>5 DEF Bounded, t, e
  <2>8. QED
    BY <2>4, <2>6, <2>7 DEF e
<1> HIDE DEF i
<1>9. ASSUME r \in whole PROVE Continues(r, i)
  <2> SUFFICES /\ i.state \in {"running"} \cup Verdicts(r)
               /\ HasEnd(i.events) => i.state \in Verdicts(r)
               /\ Live(r) /\ info[r].state \in Verdicts(r) => i.state \in Verdicts(r)
    BY DEF Continues
  <2>1. CASE IsTerminal(kind)
    BY <1>5, <2>1
  <2>2. CASE ~IsTerminal(kind)
    <3>1. CASE Live(r)
      <4>1. /\ info[r].state \in {"running"} \cup Verdicts(r)
            /\ HasEnd(info[r].events) => info[r].state \in Verdicts(r)
        BY <1>2, <1>9, <3>1 DEF VerdictInv, Known
      <4>2. Ensured(r) = info[r]
        BY <3>1 DEF Ensured
      <4>3. QED
        BY <1>5, <1>8, <2>2, <4>1, <4>2
    <3>2. CASE ~Live(r)
      <4>1. Ensured(r).state = "running" /\ Ensured(r).events = <<>>
        BY <3>2 DEF Ensured, NewInfo
      <4>2. ~HasEnd(Ensured(r).events)
        BY <4>1 DEF HasEnd
      <4>3. QED
        BY <1>5, <1>8, <2>2, <3>2, <4>1, <4>2
    <3>3. QED
      BY <3>1, <3>2
  <2>3. QED
    BY <2>1, <2>2
<1>10. /\ new # {} => i.state \in Verdicts(r)
       /\ i.events # <<>> /\ IsTerminal(Last(i.events)) => new # {}
  BY <1>5
<1>a. /\ new # {} <=> IsTerminal(kind)
      /\ new # {} \/ ((r \in lost => r \in lost') /\ (r \in overtaken => r \in overtaken'))
  BY <1>1
<1>b. \A x \in Run \ {r} : (x \in lost' <=> x \in lost) /\ (x \in overtaken' <=> x \in overtaken)
  BY <1>1
<1>c. ASSUME r \in whole, r \notin overtaken' PROVE ~ReadAnother(r, i.state)
  <2>1. CASE IsTerminal(kind)
    BY <1>1, <1>c, <2>1
  <2>2. CASE ~IsTerminal(kind)
    <3>1. r \notin overtaken /\ i.state = Ensured(r).state
      BY <1>1, <1>5, <1>c, <2>2
    <3> SUFFICES ASSUME NEW j \in jobs, j.run = r, j.stage # "queued" PROVE j.state = i.state
      BY DEF ReadAnother
    <3>2. j.state = info[r].state
      BY <1>2, <1>c, <3>1 DEF VerdictInv, Known
    <3>3. Live(r)
      BY <1>2, <1>c DEF RegistryInv, JobOK
    <3>4. QED
      BY <3>1, <3>2, <3>3 DEF Ensured
  <2>3. QED
    BY <2>1, <2>2
<1> HIDE DEF new, job
<1>11. RegistryInv' /\ VerdictInv' /\ SettleInv'
  <2>1. {} \in SUBSET {r}
    OBVIOUS
  <2>2. r \in whole \ {} =>
           /\ Continues(r, i)
           /\ new # {} => i.state \in Verdicts(r)
           /\ i.events # <<>> /\ IsTerminal(Last(i.events)) => new # {} \/ (Live(r) /\ i = info[r])
           /\ r \notin overtaken' => ~ReadAnother(r, i.state)
           /\ new # {} \/ ((r \in lost => r \in lost') /\ (r \in overtaken => r \in overtaken'))
    BY <1>9, <1>10, <1>a, <1>c
  <2>3. QED
    BY <1>1, <1>2, <1>3, <1>5, <1>7, <1>b, <2>1, <2>2, RegistryKeeps
<1>12. FeedInv'
  BY <1>1, <1>2, BroadcastKeeps DEF RegistryInv
<1>13. QED
  BY <1>11, <1>12 DEF DashInv

LEMMA GraphKeeps ==
  ASSUME DashInv, NEW r \in Run, PostGraph(r)
  PROVE  DashInv'
<1> DEFINE i == Ensured(r)
<1>1. /\ Registry(r, i, {}, {}) /\ archive' = archive /\ feed' = feed /\ clock' = clock
      /\ saving' = saving /\ budget' = budget /\ lost' = lost /\ overtaken' = overtaken
  BY DEF PostGraph
<1>2. RegistryInv /\ VerdictInv /\ SettleInv /\ FeedInv
  BY DEF DashInv
<1>3. clock' \in Nat /\ saving' \in 0 .. Runs /\ budget' \in BudgetType
  BY <1>1, <1>2 DEF RegistryInv
<1>4. InfoOK(r, i)
  BY <1>2, NewInfoIs DEF Ensured, RegistryInv
<1>5. ASSUME r \in whole
      PROVE  /\ Continues(r, i)
             /\ i.events # <<>> /\ IsTerminal(Last(i.events)) => Live(r) /\ i = info[r]
             /\ r \notin overtaken => ~ReadAnother(r, i.state)
  <2>1. CASE Live(r)
    <3>1. i = info[r]
      BY <2>1 DEF Ensured
    <3>2. /\ info[r].state \in {"running"} \cup Verdicts(r)
          /\ HasEnd(info[r].events) => info[r].state \in Verdicts(r)
          /\ r \notin overtaken => ~ReadAnother(r, info[r].state)
      BY <1>2, <1>5, <2>1 DEF VerdictInv, Known, ReadAnother
    <3>3. QED
      BY <2>1, <3>1, <3>2 DEF Continues
  <2>2. CASE ~Live(r)
    <3>1. i.state = "running" /\ i.events = <<>>
      BY <2>2 DEF Ensured, NewInfo
    <3>2. ~HasEnd(i.events)
      BY <3>1 DEF HasEnd
    <3>3. ~ReadAnother(r, i.state)
      BY <1>2, <1>5, <2>2 DEF ReadAnother, RegistryInv, JobOK
    <3>4. QED
      BY <2>2, <3>1, <3>2, <3>3 DEF Continues
  <2>3. QED
    BY <2>1, <2>2
<1> HIDE DEF i
<1>6. RegistryInv' /\ VerdictInv' /\ SettleInv'
  <2> DEFINE new == {}
  <2>1. {} \in SUBSET {r} /\ \A j \in new : j \in Job /\ j.run = r /\ j.of = Gone /\ j.stage = "queued"
    OBVIOUS
  <2>2. r \in whole \ {} =>
           /\ Continues(r, i)
           /\ new # {} => i.state \in Verdicts(r)
           /\ i.events # <<>> /\ IsTerminal(Last(i.events)) => new # {} \/ (Live(r) /\ i = info[r])
           /\ r \notin overtaken' => ~ReadAnother(r, i.state)
           /\ new # {} \/ ((r \in lost => r \in lost') /\ (r \in overtaken => r \in overtaken'))
    BY <1>1, <1>5
  <2>3. Registry(r, i, {}, new)
    BY <1>1
  <2> HIDE DEF new
  <2>4. QED
    BY <1>1, <1>2, <1>3, <1>4, <2>1, <2>2, <2>3, RegistryKeeps
<1>7. QED
  BY <1>1, <1>2, <1>6, FeedSame DEF DashInv

LEMMA RestoreKeeps ==
  ASSUME DashInv, NEW r \in Run, RestoreRow(r)
  PROVE  DashInv'
<1> DEFINE row == archive[r]
           i == [state |-> row.state, events |-> row.events, total |-> Len(row.events), notes |-> row.notes]
<1>1. /\ archive[r] # Gone /\ budget.removals > 0 /\ budget' = [budget EXCEPT !.removals = @ - 1]
      /\ Registry(r, i, {r}, {}) /\ archive' = archive /\ feed' = feed /\ clock' = clock /\ saving' = saving
      /\ lost' = lost /\ overtaken' = overtaken
  BY DEF RestoreRow
<1>2. RegistryInv /\ VerdictInv /\ SettleInv /\ FeedInv
  BY DEF DashInv
<1>3. clock' \in Nat /\ saving' \in 0 .. Runs /\ budget' \in BudgetType
  BY <1>1, <1>2 DEF RegistryInv, BudgetType
<1>4. InfoOK(r, i)
  <2>1. RowOK(r, row)
    BY <1>1, <1>2 DEF RegistryInv
  <2>2. row.events \in Seq(EventKinds) /\ row.state \in States /\ row.notes \in Nat /\ Len(row.events) \in Nat
    BY <2>1 DEF RowOK, ArchivedRows
  <2> HIDE DEF row
  <2>3. i \in Info /\ i.events = row.events
    BY <2>2 DEF Info
  <2> HIDE DEF i
  <2>4. QED
    BY <2>1, <2>3 DEF RowOK, InfoOK
<1> HIDE DEF i
<1>5. RegistryInv' /\ VerdictInv' /\ SettleInv'
  <2> DEFINE new == {}
  <2>1. {r} \in SUBSET {r} /\ r \notin whole \ {r}
        /\ \A j \in new : j \in Job /\ j.run = r /\ j.of = Gone /\ j.stage = "queued"
    OBVIOUS
  <2>2. Registry(r, i, {r}, new)
    BY <1>1
  <2> HIDE DEF new
  <2>3. QED
    BY <1>1, <1>2, <1>3, <1>4, <2>1, <2>2, RegistryKeeps
<1>6. QED
  BY <1>1, <1>2, <1>5, FeedSame DEF DashInv

\* What touches neither a run nor a row.
LEMMA RunsSame ==
  ASSUME RegistryInv, VerdictInv, SettleInv,
         UNCHANGED <<order, info, archive, jobs, clock, saving, whole, lost, overtaken>>,
         budget' \in BudgetType
  PROVE  RegistryInv' /\ VerdictInv' /\ SettleInv'
<1>1. RegistryInv'
  <2>1. \A j \in jobs : JobOK(j)' <=> JobOK(j)
    BY DEF JobOK, Live
  <2>2. QED
    BY <2>1 DEF RegistryInv, Live
<1>2. VerdictInv'
  BY DEF VerdictInv, Known, Live
<1>3. SettleInv'
  BY DEF SettleInv, EndedLast, Live, Filed, Brings
<1>4. QED
  BY <1>1, <1>2, <1>3

LEMMA ListenKeeps ==
  ASSUME DashInv, Subscribe \/ ReadFeed \/ SeedSnapshots \/ Disconnect
  PROVE  DashInv'
<1>1. RegistryInv /\ VerdictInv /\ SettleInv /\ FeedInv
  BY DEF DashInv
<1>2. /\ UNCHANGED <<order, info, archive, jobs, clock, saving, whole, lost, overtaken>>
      /\ budget' \in BudgetType
  BY <1>1 DEF Subscribe, ReadFeed, SeedSnapshots, Disconnect, RegistryInv, BudgetType
<1>3. RegistryInv' /\ VerdictInv' /\ SettleInv'
  BY <1>1, <1>2, RunsSame
<1>4. clock \in Nat
  BY <1>1 DEF RegistryInv
<1>5. ASSUME feed' \in Seq(0 .. clock), Len(feed') <= QueueSize, Recent(feed', clock) PROVE FeedInv'
  <2>1. Recent(feed, clock)' <=> Recent(feed', clock)
    BY <1>2 DEF Recent
  <2>2. QED
    BY <1>2, <1>5, <2>1 DEF FeedInv
<1>6. CASE Subscribe
  <2>1. feed' = <<>> /\ Len(<<>>) <= QueueSize /\ <<>> \in Seq(0 .. clock)
    BY <1>6, DashboardAssumption DEF Subscribe
  <2>2. Among(<<>>, Nat \ {0}) = <<>>
    BY AmongEmpty
  <2>3. Recent(feed', clock)
    BY <2>1, <2>2 DEF Recent
  <2>4. QED
    BY <1>3, <1>5, <2>1, <2>3 DEF DashInv
<1>7. CASE ReadFeed
  <2>1. feed # <<>> /\ feed' = Tail(feed) /\ feed \in Seq(0 .. clock) /\ Len(feed) <= QueueSize /\ Recent(feed, clock)
    BY <1>1, <1>7 DEF ReadFeed, FeedInv
  <2>2. Recent(feed', clock)
    BY <1>4, <2>1, RecentTail
  <2>3. Tail(feed) \in Seq(0 .. clock) /\ Len(Tail(feed)) = Len(feed) - 1
    BY <2>1
  <2>4. feed' \in Seq(0 .. clock) /\ Len(feed') <= QueueSize
    BY <2>1, <2>3, DashboardAssumption
  <2>5. QED
    BY <1>3, <1>5, <2>2, <2>4 DEF DashInv
<1>8. CASE SeedSnapshots
  <2>1. /\ feed \in Seq(0 .. clock) /\ Len(feed) <= QueueSize /\ Recent(feed, clock)
        /\ feed' = PutDropOldest(PutDropOldest(PutDropOldest(feed, 0), 0), 0)
    BY <1>1, <1>8 DEF SeedSnapshots, FeedInv
  <2>2. \A q \in Seq(0 .. clock) : Len(q) <= QueueSize /\ Recent(q, clock) =>
          /\ PutDropOldest(q, 0) \in Seq(0 .. clock) /\ Len(PutDropOldest(q, 0)) <= QueueSize
          /\ Recent(PutDropOldest(q, 0), clock)
    <3> SUFFICES ASSUME NEW q \in Seq(0 .. clock), Len(q) <= QueueSize, Recent(q, clock)
                 PROVE  /\ PutDropOldest(q, 0) \in Seq(0 .. clock) /\ Len(PutDropOldest(q, 0)) <= QueueSize
                        /\ Recent(PutDropOldest(q, 0), clock)
      OBVIOUS
    <3>1. clock \in {clock, clock + 1}
      OBVIOUS
    <3>2. QED
      BY <1>4, <3>1, RecentPut
  <2>3. feed' \in Seq(0 .. clock) /\ Len(feed') <= QueueSize /\ Recent(feed', clock)
    <3> DEFINE one == PutDropOldest(feed, 0)
               two == PutDropOldest(one, 0)
    <3>1. one \in Seq(0 .. clock) /\ Len(one) <= QueueSize /\ Recent(one, clock)
      BY <2>1, <2>2
    <3> HIDE DEF one
    <3>2. two \in Seq(0 .. clock) /\ Len(two) <= QueueSize /\ Recent(two, clock)
      BY <2>2, <3>1
    <3> HIDE DEF two
    <3>3. feed' = PutDropOldest(two, 0)
      BY <2>1 DEF one, two
    <3>4. QED
      BY <2>2, <3>2, <3>3
  <2>4. QED
    BY <1>3, <1>5, <2>3 DEF DashInv
<1>9. CASE Disconnect
  BY <1>3, <1>9 DEF Disconnect, FeedInv, DashInv
<1>10. QED
  BY <1>6, <1>7, <1>8, <1>9

\* A snapshot goes on: what it has read is of the run as it is.
LEMMA JobGoesOn ==
  ASSUME RegistryInv, VerdictInv, SettleInv, NEW j \in jobs, NEW k \in Job, k.run = j.run, k.of = j.of, Step(j, k),
         UNCHANGED <<order, info, archive, clock, saving, whole, lost, overtaken, budget>>,
         j.run \in whole => /\ k.state \in Verdicts(j.run)
                            /\ k.state = info[j.run].state \/ j.run \in overtaken,
         j.run \in whole /\ k.stage = "writing" => k.total = info[j.run].total
  PROVE  RegistryInv' /\ VerdictInv' /\ SettleInv'
<1>1. jobs' = (jobs \ {j}) \cup {k}
  BY DEF Step
<1>2. JobOK(j) /\ \A x \in jobs : JobOK(x)' <=> JobOK(x)
  BY DEF RegistryInv, JobOK, Live
<1>3. JobOK(k)'
  BY <1>2 DEF JobOK, Live
<1>4. RegistryInv'
  BY <1>1, <1>2, <1>3 DEF RegistryInv, Live
<1>5. VerdictInv'
  <2> SUFFICES ASSUME NEW r \in whole, NEW x \in jobs', x.run = r
               PROVE  /\ info[r].state \in Verdicts(r)
                      /\ x.stage # "queued" => /\ x.state \in Verdicts(r)
                                               /\ x.state = info[r].state \/ r \in overtaken
    BY DEF VerdictInv, Known, Live
  <2>1. CASE x \in jobs
    BY <2>1 DEF VerdictInv, Known
  <2>2. CASE x = k
    BY <2>2 DEF VerdictInv, Known
  <2>3. QED
    BY <1>1, <2>1, <2>2
<1>6. SettleInv'
  <2> SUFFICES ASSUME NEW r \in whole, EndedLast(r), r \notin lost
               PROVE  Filed(r) \/ \E x \in jobs' : Brings(x, r)
    BY DEF SettleInv, EndedLast, Live, Filed, Brings
  <2>1. Filed(r) \/ \E x \in jobs : Brings(x, r)
    BY DEF SettleInv
  <2>2. ASSUME NEW x \in jobs, Brings(x, r) PROVE \E y \in jobs' : Brings(y, r)
    <3>1. CASE x = j
      <4>1. Brings(k, r)
        BY <2>2, <3>1 DEF Brings
      <4>2. QED
        BY <1>1, <4>1
    <3>2. CASE x # j
      BY <1>1, <2>2, <3>2
    <3>3. QED
      BY <3>1, <3>2
  <2>3. QED
    BY <2>1, <2>2
<1>7. QED
  BY <1>4, <1>5, <1>6

\* The RunInfo that a snapshot reads.
LEMMA InfoOfIs ==
  ASSUME RegistryInv, NEW j \in jobs
  PROVE  /\ j \in Job /\ j.run \in Run /\ InfoOK(j.run, InfoOf(j))
         /\ j.run \in whole => j.of = Gone /\ Live(j.run) /\ InfoOf(j) = info[j.run]
<1>1. JobOK(j) /\ j \in Job /\ j.run \in Run
  BY DEF RegistryInv, JobOK, Job
<1>2. QED
  BY <1>1 DEF JobOK, InfoOf, RegistryInv

LEMMA ReadKeepsRuns ==
  ASSUME DashInv, NEW j \in jobs, ReadSummary(j)
  PROVE  DashInv'
<1> DEFINE k == [j EXCEPT !.stage = "read", !.state = InfoOf(j).state, !.notes = InfoOf(j).notes]
<1>1. /\ j.stage = "queued" /\ Step(j, k)
      /\ UNCHANGED <<order, info, archive, feed, clock, saving, whole, lost, overtaken, budget>>
  BY DEF ReadSummary
<1>2. RegistryInv /\ VerdictInv /\ SettleInv /\ FeedInv
  BY DEF DashInv
<1>3. /\ j \in Job /\ j.run \in Run /\ InfoOK(j.run, InfoOf(j))
      /\ j.run \in whole => j.of = Gone /\ Live(j.run) /\ InfoOf(j) = info[j.run]
  BY <1>2, InfoOfIs
<1>4. InfoOf(j).state \in States /\ InfoOf(j).notes \in Nat
  BY <1>3 DEF InfoOK, Info
<1> DEFINE st == InfoOf(j).state
           no == InfoOf(j).notes
<1>5. k \in Job /\ k.run = j.run /\ k.of = j.of /\ k.stage = "read" /\ k.state = st
  <2> HIDE DEF st, no
  <2>1. st \in States /\ no \in Nat
    BY <1>4 DEF st, no
  <2>2. k = [j EXCEPT !.stage = "read", !.state = st, !.notes = no]
    BY DEF st, no
  <2> HIDE DEF k
  <2>3. QED
    BY <1>3, <2>1, <2>2 DEF Job
<1> HIDE DEF k
<1>6. j.run \in whole => k.state \in Verdicts(j.run) /\ k.state = info[j.run].state
  BY <1>2, <1>3, <1>5 DEF VerdictInv, Known
<1>7. RegistryInv' /\ VerdictInv' /\ SettleInv'
  <2>1. k.stage # "writing"
    BY <1>5
  <2>2. QED
    BY <1>1, <1>2, <1>5, <1>6, <2>1, JobGoesOn
<1>8. QED
  BY <1>1, <1>2, <1>7, FeedSame DEF DashInv

LEMMA LockKeeps ==
  ASSUME DashInv, NEW j \in jobs, TakeLock(j)
  PROVE  DashInv'
<1> DEFINE to == InfoOf(j).total
           k == [j EXCEPT !.stage = "writing", !.total = to]
<1>1. /\ j.stage = "read" /\ Step(j, k)
      /\ UNCHANGED <<order, info, archive, feed, clock, saving, whole, lost, overtaken, budget>>
  BY DEF TakeLock
<1>2. RegistryInv /\ VerdictInv /\ SettleInv /\ FeedInv
  BY DEF DashInv
<1>3. /\ j \in Job /\ j.run \in Run /\ InfoOK(j.run, InfoOf(j))
      /\ j.run \in whole => j.of = Gone /\ Live(j.run) /\ InfoOf(j) = info[j.run]
  BY <1>2, InfoOfIs
<1>4. to \in Nat
  BY <1>3 DEF InfoOK, Info
<1>5. j.run \in whole => to = info[j.run].total
  BY <1>3
<1> HIDE DEF to
<1>6. k \in Job /\ k.run = j.run /\ k.of = j.of /\ k.stage = "writing" /\ k.state = j.state /\ k.total = to
  BY <1>3, <1>4 DEF Job
<1> HIDE DEF k
<1>7. j.run \in whole => /\ k.state \in Verdicts(j.run)
                         /\ k.state = info[j.run].state \/ j.run \in overtaken
  <2>1. j.stage # "queued"
    BY <1>1
  <2>2. QED
    BY <1>2, <1>6, <2>1 DEF VerdictInv, Known
<1>8. RegistryInv' /\ VerdictInv' /\ SettleInv'
  BY <1>1, <1>2, <1>5, <1>6, <1>7, JobGoesOn
<1>9. QED
  BY <1>1, <1>2, <1>8, FeedSame DEF DashInv

\* A row that has the events of x, and its state or another of its verdicts.
AsItIs(x, row) ==
  /\ row.events = info[x].events
  /\ row.state = info[x].state \/ (x \in overtaken /\ row.state \in Verdicts(x))

\* The archive changes, and of what the registry has at most the notes.
LEMMA ArchiveKeeps ==
  ASSUME RegistryInv, VerdictInv, SettleInv, UNCHANGED <<order, clock, overtaken>>,
         info' \in [Run -> Info \cup {Gone}], archive' \in [Run -> ArchivedRows \cup {Gone}],
         jobs' \in SUBSET jobs, whole' \in SUBSET whole, saving' \in 0 .. Runs, budget' \in BudgetType,
         lost \subseteq lost',
         \A x \in Run : /\ Live(x)' <=> Live(x)
                        /\ Live(x) => /\ InfoOK(x, info'[x]) /\ info'[x].state = info[x].state
                                      /\ info'[x].events = info[x].events /\ info'[x].total = info[x].total,
         \A x \in Run : archive'[x] # Gone => RowOK(x, archive'[x]),
         \A x \in whole' :
           /\ archive[x] # Gone => archive'[x] # Gone
           /\ archive'[x] # Gone =>
                \/ archive[x] # Gone /\ archive'[x].events = archive[x].events /\ archive'[x].state = archive[x].state
                \/ Live(x) /\ AsItIs(x, archive'[x]),
         \A x \in whole', j \in jobs \ jobs' :
           Brings(j, x) => x \in lost' \/ (Live(x) /\ archive'[x] # Gone /\ AsItIs(x, archive'[x]))
  PROVE  RegistryInv' /\ VerdictInv' /\ SettleInv'
<1>1. RegistryInv'
  <2>1. {r \in Run : Live(r)'} = {r \in Run : Live(r)}
    OBVIOUS
  <2>2. ASSUME NEW j \in jobs' PROVE JobOK(j)'
    <3>1. JobOK(j) /\ j.run \in Run
      BY DEF RegistryInv, JobOK, Job
    <3>2. QED
      BY <3>1 DEF JobOK
  <2>3. whole' \subseteq Run
    BY DEF RegistryInv
  <2>4. QED
    BY <2>1, <2>2, <2>3 DEF RegistryInv
<1>2. VerdictInv'
  <2> SUFFICES ASSUME NEW x \in whole'
               PROVE  /\ archive'[x] # Gone => Live(x)'
                      /\ Live(x)' => /\ info'[x].state \in {"running"} \cup Verdicts(x)
                                     /\ HasEnd(info'[x].events) => info'[x].state \in Verdicts(x)
                      /\ \A j \in jobs' : j.run = x =>
                           /\ info'[x].state \in Verdicts(x)
                           /\ j.stage # "queued" => /\ j.state \in Verdicts(x)
                                                    /\ j.state = info'[x].state \/ x \in overtaken
                      /\ archive'[x] # Gone => /\ archive'[x].state \in {"running"} \cup Verdicts(x)
                                               /\ HasEnd(archive'[x].events) => info'[x].state \in Verdicts(x)
    BY DEF VerdictInv, Known, Verdicts, HasEnd
  <2>1. x \in whole /\ x \in Run
    BY DEF RegistryInv
  <2>2. archive[x] # Gone => Live(x)
    BY <2>1 DEF VerdictInv, Known
  <2>3. /\ Live(x) => /\ info[x].state \in {"running"} \cup Verdicts(x)
                      /\ HasEnd(info[x].events) => info[x].state \in Verdicts(x)
        /\ \A j \in jobs : j.run = x =>
             /\ info[x].state \in Verdicts(x)
             /\ j.stage # "queued" => /\ j.state \in Verdicts(x)
                                      /\ j.state = info[x].state \/ x \in overtaken
        /\ archive[x] # Gone => /\ archive[x].state \in {"running"} \cup Verdicts(x)
                                /\ HasEnd(archive[x].events) => info[x].state \in Verdicts(x)
    BY <2>1 DEF VerdictInv, Known
  <2>4. \A j \in jobs' : j.run = x => Live(x)
    <3> SUFFICES ASSUME NEW j \in jobs', j.run = x PROVE Live(x)
      OBVIOUS
    <3>1. JobOK(j)
      BY DEF RegistryInv
    <3>2. QED
      BY <2>1, <3>1 DEF JobOK
  <2>5. Live(x) => /\ Live(x)' /\ info'[x].state = info[x].state /\ info'[x].events = info[x].events
    BY <2>1
  <2>6. CASE archive'[x] = Gone
    BY <2>1, <2>3, <2>4, <2>5, <2>6
  <2>7. CASE archive[x] # Gone /\ archive'[x].events = archive[x].events /\ archive'[x].state = archive[x].state
    BY <2>1, <2>2, <2>3, <2>4, <2>5, <2>7
  <2>8. CASE Live(x) /\ AsItIs(x, archive'[x])
    BY <2>1, <2>3, <2>4, <2>5, <2>8 DEF AsItIs
  <2>9. QED
    BY <2>6, <2>7, <2>8
<1>3. SettleInv'
  <2> SUFFICES ASSUME NEW x \in whole', EndedLast(x)', x \notin lost'
               PROVE  Filed(x)' \/ \E j \in jobs' : Brings(j, x)'
    BY DEF SettleInv
  <2>1. x \in whole /\ x \in Run /\ x \notin lost
    BY DEF RegistryInv
  <2>2. /\ Live(x) /\ info'[x].state = info[x].state /\ info'[x].events = info[x].events
        /\ info'[x].total = info[x].total /\ EndedLast(x)
    BY <2>1 DEF EndedLast
  <2>3. Filed(x) \/ \E j \in jobs : Brings(j, x)
    BY <2>1, <2>2 DEF SettleInv
  <2>4. info[x].state \in Verdicts(x)
    <3>1. InfoOK(x, info[x])
      BY <2>1, <2>2 DEF RegistryInv
    <3>2. info[x].events \in Seq(EventKinds) /\ info[x].events # <<>> /\ IsTerminal(Last(info[x].events))
      BY <2>2, <3>1 DEF InfoOK, Info, EndedLast
    <3>3. Len(info[x].events) \in 1 .. Len(info[x].events)
          /\ Last(info[x].events) = info[x].events[Len(info[x].events)]
      BY <3>2 DEF Last
    <3>4. HasEnd(info[x].events)
      BY <3>2, <3>3 DEF HasEnd
    <3>5. QED
      BY <2>1, <2>2, <3>4 DEF VerdictInv, Known
  <2>5. ASSUME archive'[x] # Gone, AsItIs(x, archive'[x])
        PROVE  Filed(x)'
    BY <2>2, <2>4, <2>5 DEF Filed, AsItIs, Verdicts
  <2>6. CASE Filed(x)
    <3>1. archive[x] # Gone /\ archive[x].events = info[x].events
          /\ archive[x].state \in Verdicts(x) /\ (archive[x].state = info[x].state \/ x \in overtaken)
      BY <2>6 DEF Filed
    <3>2. AsItIs(x, archive'[x]) /\ archive'[x] # Gone
      BY <3>1 DEF AsItIs
    <3>3. QED
      BY <2>5, <3>2
  <2>7. ASSUME NEW j \in jobs, Brings(j, x) PROVE Filed(x)' \/ \E k \in jobs' : Brings(k, x)'
    <3>1. CASE j \in jobs'
      BY <2>2, <2>7, <3>1 DEF Brings
    <3>2. CASE j \notin jobs'
      BY <2>5, <2>7, <3>2
    <3>3. QED
      BY <3>1, <3>2
  <2>8. QED
    BY <2>3, <2>6, <2>7
<1>4. QED
  BY <1>1, <1>2, <1>3

LEMMA InfoSame ==
  ASSUME RegistryInv, info' = info
  PROVE  /\ info' \in [Run -> Info \cup {Gone}]
         /\ \A x \in Run : /\ Live(x)' <=> Live(x)
                           /\ Live(x) => /\ InfoOK(x, info'[x]) /\ info'[x].state = info[x].state
                                         /\ info'[x].events = info[x].events /\ info'[x].total = info[x].total
  BY DEF RegistryInv, Live

\* The row that is made of a summary.
LEMMA RowIs ==
  ASSUME NEW r \in Run, NEW i, InfoOK(r, i), NEW summary, summary.state \in States, summary.notes \in Nat
  PROVE  /\ RowOK(r, Row(summary, i)) /\ Row(summary, i) \in ArchivedRows /\ Row(summary, i) # Gone
         /\ Row(summary, i).events = i.events /\ Row(summary, i).state = summary.state
<1> DEFINE row == Row(summary, i)
<1>1. i.events \in Seq(EventKinds)
  BY DEF InfoOK, Info
<1>2. row = [state |-> summary.state, notes |-> summary.notes, events |-> i.events]
  BY DEF Row
<1> HIDE DEF row
<1>3. row \in ArchivedRows /\ row.events = i.events /\ row.state = summary.state
  BY <1>1, <1>2 DEF ArchivedRows
<1>4. RowOK(r, row)
  BY <1>3 DEF RowOK, InfoOK
<1>5. QED
  BY <1>3, <1>4, GoneAssumption DEF row

LEMMA CommitKeeps ==
  ASSUME DashInv, NEW j \in jobs, Commit(j)
  PROVE  DashInv'
<1> DEFINE row == Row(j, InfoOf(j))
           files == InfoOf(j).total = j.total
<1>1. /\ j.stage = "writing" /\ jobs' = jobs \ {j}
      /\ archive' = IF files THEN [archive EXCEPT ![j.run] = row] ELSE archive
      /\ UNCHANGED <<order, info, feed, clock, saving, whole, lost, overtaken, budget>>
  BY DEF Commit
<1>2. RegistryInv /\ VerdictInv /\ SettleInv /\ FeedInv
  BY DEF DashInv
<1>3. /\ j \in Job /\ j.run \in Run /\ InfoOK(j.run, InfoOf(j))
      /\ j.run \in whole => j.of = Gone /\ Live(j.run) /\ InfoOf(j) = info[j.run]
  BY <1>2, InfoOfIs
<1>4. j.state \in States /\ j.notes \in Nat
  BY <1>3 DEF Job
<1>5. /\ RowOK(j.run, row) /\ row \in ArchivedRows /\ row # Gone
      /\ row.events = InfoOf(j).events /\ row.state = j.state
  BY <1>3, <1>4, RowIs
<1> HIDE DEF row
<1>6. j.run \in whole => AsItIs(j.run, row)
  <2> SUFFICES ASSUME j.run \in whole PROVE AsItIs(j.run, row)
    OBVIOUS
  <2>1. j.state \in Verdicts(j.run) /\ (j.state = info[j.run].state \/ j.run \in overtaken)
    BY <1>1, <1>2 DEF VerdictInv, Known
  <2>2. row.events = info[j.run].events
    BY <1>3, <1>5
  <2>3. QED
    BY <1>5, <2>1, <2>2 DEF AsItIs
<1>8. /\ archive' \in [Run -> ArchivedRows \cup {Gone}]
      /\ \A x \in Run : archive'[x] # Gone => RowOK(x, archive'[x])
      /\ files => archive'[j.run] = row
      /\ \A x \in Run : x # j.run \/ ~files => archive'[x] = archive[x]
  BY <1>1, <1>2, <1>3, <1>5 DEF RegistryInv
<1>9. \A x \in whole' :
        /\ archive[x] # Gone => archive'[x] # Gone
        /\ archive'[x] # Gone =>
             \/ archive[x] # Gone /\ archive'[x].events = archive[x].events /\ archive'[x].state = archive[x].state
             \/ Live(x) /\ AsItIs(x, archive'[x])
  <2> SUFFICES ASSUME NEW x \in whole, x \in Run
               PROVE  /\ archive[x] # Gone => archive'[x] # Gone
                      /\ archive'[x] # Gone =>
                           \/ archive[x] # Gone /\ archive'[x].events = archive[x].events /\ archive'[x].state = archive[x].state
                           \/ Live(x) /\ AsItIs(x, archive'[x])
    BY <1>1, <1>2 DEF RegistryInv
  <2>1. CASE x = j.run /\ files
    BY <1>3, <1>5, <1>6, <1>8, <2>1
  <2>2. CASE ~(x = j.run /\ files)
    BY <1>8, <2>2
  <2>3. QED
    BY <2>1, <2>2
<1>10. \A x \in whole', k \in jobs \ jobs' :
         Brings(k, x) => Live(x) /\ archive'[x] # Gone /\ AsItIs(x, archive'[x])
  <2> SUFFICES ASSUME NEW x \in whole, Brings(j, x)
               PROVE  Live(x) /\ archive'[x] # Gone /\ AsItIs(x, archive'[x])
    BY <1>1
  <2>1. x = j.run /\ j.total = info[x].total
    BY <1>1 DEF Brings
  <2>2. files /\ Live(x)
    BY <1>3, <2>1
  <2>3. QED
    BY <1>5, <1>6, <1>8, <2>1, <2>2
<1>11. /\ info' \in [Run -> Info \cup {Gone}]
       /\ \A x \in Run : /\ Live(x)' <=> Live(x)
                         /\ Live(x) => /\ InfoOK(x, info'[x]) /\ info'[x].state = info[x].state
                                       /\ info'[x].events = info[x].events /\ info'[x].total = info[x].total
  BY <1>1, <1>2, InfoSame
<1>12. jobs' \in SUBSET jobs /\ whole' \in SUBSET whole /\ saving' \in 0 .. Runs /\ budget' \in BudgetType
  BY <1>1, <1>2 DEF RegistryInv
<1>13. RegistryInv' /\ VerdictInv' /\ SettleInv'
  <2>1. UNCHANGED <<order, clock, overtaken>> /\ lost \subseteq lost'
    BY <1>1
  <2>2. QED
    BY <1>2, <1>8, <1>9, <1>10, <1>11, <1>12, <2>1, ArchiveKeeps
<1>14. QED
  BY <1>1, <1>2, <1>13, FeedSame DEF DashInv

\* A snapshot that gives up leaves its run lost.
LEMMA GiveUpKeeps ==
  ASSUME DashInv, NEW j \in jobs, GiveUp(j)
  PROVE  DashInv'
<1>1. /\ jobs' = jobs \ {j} /\ lost' = lost \cup {j.run}
      /\ UNCHANGED <<order, info, archive, feed, clock, saving, whole, overtaken, budget>>
  BY DEF GiveUp
<1>2. RegistryInv /\ VerdictInv /\ SettleInv /\ FeedInv
  BY DEF DashInv
<1>3. /\ archive' \in [Run -> ArchivedRows \cup {Gone}] /\ archive' = archive
      /\ \A x \in Run : archive'[x] # Gone => RowOK(x, archive'[x])
      /\ saving' \in 0 .. Runs /\ budget' \in BudgetType
  BY <1>1, <1>2 DEF RegistryInv
<1>4. \A x \in whole', k \in jobs \ jobs' : Brings(k, x) => x \in lost'
  BY <1>1 DEF Brings
<1>5. /\ info' \in [Run -> Info \cup {Gone}]
      /\ \A x \in Run : /\ Live(x)' <=> Live(x)
                        /\ Live(x) => /\ InfoOK(x, info'[x]) /\ info'[x].state = info[x].state
                                      /\ info'[x].events = info[x].events /\ info'[x].total = info[x].total
  BY <1>1, <1>2, InfoSame
<1>6. /\ jobs' \in SUBSET jobs /\ whole' \in SUBSET whole /\ UNCHANGED <<order, clock, overtaken>>
      /\ lost \subseteq lost'
  BY <1>1
<1>7. RegistryInv' /\ VerdictInv' /\ SettleInv'
  BY <1>2, <1>3, <1>4, <1>5, <1>6, ArchiveKeeps
<1>8. QED
  BY <1>1, <1>2, <1>7, FeedSame DEF DashInv

LEMMA SetFailsKeeps ==
  ASSUME DashInv, SetFails
  PROVE  DashInv'
<1>1. saving' = 0 /\ UNCHANGED <<order, info, archive, jobs, feed, clock, whole, lost, overtaken, budget>>
  BY DEF SetFails
<1>2. RegistryInv /\ VerdictInv /\ SettleInv /\ FeedInv
  BY DEF DashInv
<1>3. /\ archive' \in [Run -> ArchivedRows \cup {Gone}] /\ archive' = archive
      /\ \A x \in Run : archive'[x] # Gone => RowOK(x, archive'[x])
      /\ saving' \in 0 .. Runs /\ budget' \in BudgetType
  BY <1>1, <1>2, DashboardAssumption DEF RegistryInv
<1>4. /\ info' \in [Run -> Info \cup {Gone}]
      /\ \A x \in Run : /\ Live(x)' <=> Live(x)
                        /\ Live(x) => /\ InfoOK(x, info'[x]) /\ info'[x].state = info[x].state
                                      /\ info'[x].events = info[x].events /\ info'[x].total = info[x].total
  BY <1>1, <1>2, InfoSame
<1>5. /\ jobs' \in SUBSET jobs /\ whole' \in SUBSET whole /\ UNCHANGED <<order, clock, overtaken>>
      /\ lost \subseteq lost' /\ jobs \ jobs' = {}
  BY <1>1
<1>6. RegistryInv' /\ VerdictInv' /\ SettleInv'
  BY <1>2, <1>3, <1>4, <1>5, ArchiveKeeps
<1>7. QED
  BY <1>1, <1>2, <1>6, FeedSame DEF DashInv

\* Notes that are kept in the RunInfo change nothing else of it.
LEMMA NotedIs ==
  ASSUME RegistryInv, NEW r \in Run, Live(r), NEW n \in Nat, info' = [info EXCEPT ![r].notes = n]
  PROVE  /\ info'[r] \in Info /\ info'[r].notes = n /\ InfoOK(r, info'[r])
         /\ info' \in [Run -> Info \cup {Gone}]
         /\ \A x \in Run : /\ Live(x)' <=> Live(x)
                           /\ Live(x) => /\ InfoOK(x, info'[x]) /\ info'[x].state = info[x].state
                                         /\ info'[x].events = info[x].events /\ info'[x].total = info[x].total
<1>1. InfoOK(r, info[r]) /\ info[r] \in Info /\ info \in [Run -> Info \cup {Gone}]
  BY DEF RegistryInv, InfoOK
<1>2. /\ info'[r] \in Info /\ info'[r].state = info[r].state /\ info'[r].events = info[r].events
      /\ info'[r].total = info[r].total /\ info'[r].notes = n
      /\ \A x \in Run : x # r => info'[x] = info[x]
  <2> DEFINE i == [info[r] EXCEPT !.notes = n]
  <2>1. i \in Info /\ i.state = info[r].state /\ i.events = info[r].events /\ i.total = info[r].total /\ i.notes = n
    BY <1>1 DEF Info
  <2>2. info' = [info EXCEPT ![r] = i]
    OBVIOUS
  <2> HIDE DEF i
  <2>3. info'[r] = i /\ \A x \in Run : x # r => info'[x] = info[x]
    BY <1>1, <2>2
  <2>4. QED
    BY <2>1, <2>3
<1>3. info'[r] # Gone /\ InfoOK(r, info'[r])
  BY <1>1, <1>2, GoneAssumption DEF InfoOK
<1>4. info' \in [Run -> Info \cup {Gone}]
  <2>1. info' = [x \in Run |-> info'[x]]
    BY <1>1
  <2>2. \A x \in Run : info'[x] \in Info \cup {Gone}
    BY <1>1, <1>2
  <2>3. QED
    BY <2>1, <2>2
<1>5. ASSUME NEW x \in Run
      PROVE  /\ Live(x)' <=> Live(x)
             /\ Live(x) => /\ InfoOK(x, info'[x]) /\ info'[x].state = info[x].state
                           /\ info'[x].events = info[x].events /\ info'[x].total = info[x].total
  <2>1. CASE x = r
    BY <1>2, <1>3, <2>1 DEF Live
  <2>2. CASE x # r
    BY <1>2, <2>2 DEF Live, RegistryInv
  <2>3. QED
    BY <2>1, <2>2
<1>6. QED
  BY <1>2, <1>3, <1>4, <1>5

\* The RunInfo has the notes, and the archive has not.
LEMMA EditFailsKeeps ==
  ASSUME DashInv, NEW r \in Run, EditFails(r)
  PROVE  DashInv'
<1> DEFINE n == budget.edits
<1>1. /\ budget.edits > 0 /\ budget' = [budget EXCEPT !.edits = @ - 1] /\ Live(r)
      /\ info' = [info EXCEPT ![r].notes = n]
      /\ UNCHANGED <<order, archive, jobs, feed, clock, saving, whole, lost, overtaken>>
  BY DEF EditFails
<1>2. RegistryInv /\ VerdictInv /\ SettleInv /\ FeedInv
  BY DEF DashInv
<1>3. budget' \in BudgetType /\ saving' \in 0 .. Runs /\ n \in Nat
  BY <1>1, <1>2 DEF RegistryInv, BudgetType
<1> HIDE DEF n
<1>4. /\ info' \in [Run -> Info \cup {Gone}]
      /\ \A x \in Run : /\ Live(x)' <=> Live(x)
                        /\ Live(x) => /\ InfoOK(x, info'[x]) /\ info'[x].state = info[x].state
                                      /\ info'[x].events = info[x].events /\ info'[x].total = info[x].total
  BY <1>1, <1>2, <1>3, NotedIs
<1>5. /\ archive' \in [Run -> ArchivedRows \cup {Gone}] /\ archive' = archive
      /\ \A x \in Run : archive'[x] # Gone => RowOK(x, archive'[x])
  BY <1>1, <1>2 DEF RegistryInv
<1>6. /\ jobs' \in SUBSET jobs /\ whole' \in SUBSET whole /\ UNCHANGED <<order, clock, overtaken>>
      /\ lost \subseteq lost' /\ jobs \ jobs' = {}
  BY <1>1
<1>7. RegistryInv' /\ VerdictInv' /\ SettleInv'
  BY <1>2, <1>3, <1>4, <1>5, <1>6, ArchiveKeeps
<1>8. QED
  BY <1>1, <1>2, <1>7, FeedSame DEF DashInv

LEMMA EditKeeps ==
  ASSUME DashInv, NEW r \in Run, EditNotes(r)
  PROVE  DashInv'
<1> DEFINE row == Row(info'[r], info'[r])
           n == budget.edits
<1>1. /\ budget.edits > 0 /\ budget' = [budget EXCEPT !.edits = @ - 1] /\ saving' = r
      /\ Live(r) => info' = [info EXCEPT ![r].notes = n] /\ archive' = [archive EXCEPT ![r] = row]
      /\ ~Live(r) => UNCHANGED <<info, archive>>
      /\ UNCHANGED <<order, jobs, feed, clock, whole, lost, overtaken>>
  BY DEF EditNotes
<1>2. RegistryInv /\ VerdictInv /\ SettleInv /\ FeedInv
  BY DEF DashInv
<1>3. budget' \in BudgetType /\ saving' \in 0 .. Runs /\ n \in Nat
  BY <1>1, <1>2 DEF RegistryInv, BudgetType, Run
<1>4. jobs' \in SUBSET jobs /\ whole' \in SUBSET whole /\ UNCHANGED <<order, clock, overtaken>> /\ jobs \ jobs' = {} /\ lost \subseteq lost'
  BY <1>1
<1>5. CASE ~Live(r)
  <2>1. /\ info' \in [Run -> Info \cup {Gone}]
        /\ \A x \in Run : /\ Live(x)' <=> Live(x)
                          /\ Live(x) => /\ InfoOK(x, info'[x]) /\ info'[x].state = info[x].state
                                        /\ info'[x].events = info[x].events /\ info'[x].total = info[x].total
    BY <1>1, <1>2, <1>5, InfoSame
  <2>2. /\ archive' \in [Run -> ArchivedRows \cup {Gone}] /\ \A x \in Run : archive'[x] # Gone => RowOK(x, archive'[x])
        /\ archive' = archive
    BY <1>1, <1>2, <1>5 DEF RegistryInv
  <2>3. RegistryInv' /\ VerdictInv' /\ SettleInv'
    <3> HIDE DEF row, n
    <3> QED  BY <1>2, <1>3, <1>4, <2>1, <2>2, ArchiveKeeps
  <2>4. QED
    BY <1>1, <1>2, <2>3, FeedSame DEF DashInv
<1>6. CASE Live(r)
  <2>1. info' = [info EXCEPT ![r].notes = n] /\ archive' = [archive EXCEPT ![r] = row]
    BY <1>1, <1>6
  <2>2. n \in Nat
    BY <1>3
  <2> HIDE DEF n
  <2>3. /\ info'[r] \in Info /\ info'[r].state = info[r].state /\ info'[r].events = info[r].events
        /\ InfoOK(r, info'[r])
    BY <1>2, <1>6, <2>1, <2>2, NotedIs
  <2>5. info' \in [Run -> Info \cup {Gone}]
    BY <1>2, <1>6, <2>1, <2>2, NotedIs
  <2>6. \A x \in Run : /\ Live(x)' <=> Live(x)
                       /\ Live(x) => /\ InfoOK(x, info'[x]) /\ info'[x].state = info[x].state
                                     /\ info'[x].events = info[x].events /\ info'[x].total = info[x].total
    BY <1>2, <1>6, <2>1, <2>2, NotedIs
  <2>7. /\ RowOK(r, row) /\ row \in ArchivedRows /\ row # Gone
        /\ row.events = info'[r].events /\ row.state = info'[r].state
    <3>1. info'[r].state \in States /\ info'[r].notes \in Nat
      BY <2>3 DEF Info
    <3>2. QED
      BY <2>3, <3>1, RowIs
  <2> HIDE DEF row
  <2>8. /\ archive' \in [Run -> ArchivedRows \cup {Gone}]
        /\ \A x \in Run : archive'[x] # Gone => RowOK(x, archive'[x])
        /\ archive'[r] = row /\ \A x \in Run : x # r => archive'[x] = archive[x]
    BY <1>2, <2>1, <2>7 DEF RegistryInv
  <2>9. \A x \in whole' :
          /\ archive[x] # Gone => archive'[x] # Gone
          /\ archive'[x] # Gone =>
               \/ archive[x] # Gone /\ archive'[x].events = archive[x].events /\ archive'[x].state = archive[x].state
               \/ Live(x) /\ AsItIs(x, archive'[x])
    <3> SUFFICES ASSUME NEW x \in Run
                 PROVE  /\ archive[x] # Gone => archive'[x] # Gone
                        /\ archive'[x] # Gone =>
                             \/ archive[x] # Gone /\ archive'[x].events = archive[x].events /\ archive'[x].state = archive[x].state
                             \/ Live(x) /\ AsItIs(x, archive'[x])
      BY <1>1, <1>2 DEF RegistryInv
    <3>1. CASE x = r
      BY <1>6, <2>3, <2>7, <2>8, <3>1 DEF AsItIs
    <3>2. CASE x # r
      BY <2>8, <3>2
    <3>3. QED
      BY <3>1, <3>2
  <2>10. RegistryInv' /\ VerdictInv' /\ SettleInv'
    BY <1>2, <1>3, <1>4, <2>5, <2>6, <2>8, <2>9, ArchiveKeeps
  <2>11. QED
    BY <1>1, <1>2, <2>10, FeedSame DEF DashInv
<1>7. QED
  BY <1>5, <1>6

LEMMA SetNotesKeeps ==
  ASSUME DashInv, SetNotes
  PROVE  DashInv'
<1> DEFINE r == saving
           n == budget.edits + 1
<1>1. /\ saving # 0 /\ saving' = 0
      /\ archive[r] # Gone => archive' = [archive EXCEPT ![r].notes = n]
      /\ archive[r] = Gone => archive' = archive
      /\ UNCHANGED <<order, info, jobs, feed, clock, whole, lost, overtaken, budget>>
  BY DEF SetNotes
<1>2. RegistryInv /\ VerdictInv /\ SettleInv /\ FeedInv
  BY DEF DashInv
<1>3. budget' \in BudgetType /\ saving' \in 0 .. Runs /\ n \in Nat /\ r \in Run
  BY <1>1, <1>2, DashboardAssumption DEF RegistryInv, BudgetType, Run
<1>4. jobs' \in SUBSET jobs /\ whole' \in SUBSET whole /\ UNCHANGED <<order, clock, overtaken>> /\ jobs \ jobs' = {} /\ lost \subseteq lost'
  BY <1>1
<1> HIDE DEF r, n
<1>5. /\ archive' \in [Run -> ArchivedRows \cup {Gone}]
      /\ \A x \in Run : archive'[x] # Gone => RowOK(x, archive'[x])
      /\ \A x \in Run : archive[x] # Gone <=> archive'[x] # Gone
      /\ \A x \in Run : archive[x] # Gone => archive'[x].events = archive[x].events /\ archive'[x].state = archive[x].state
  <2>1. CASE archive[r] = Gone
    BY <1>1, <1>2, <2>1 DEF RegistryInv
  <2>2. CASE archive[r] # Gone
    <3> DEFINE row == [archive[r] EXCEPT !.notes = n]
    <3>1. archive \in [Run -> ArchivedRows \cup {Gone}] /\ RowOK(r, archive[r]) /\ archive[r] \in ArchivedRows
      BY <1>2, <1>3, <2>2 DEF RegistryInv, RowOK
    <3>2. row \in ArchivedRows /\ row.events = archive[r].events /\ row.state = archive[r].state
      BY <1>3, <3>1 DEF ArchivedRows
    <3>3. archive' = [archive EXCEPT ![r] = row]
      BY <1>1, <2>2
    <3> HIDE DEF row
    <3>4. row # Gone /\ RowOK(r, row)
      BY <3>1, <3>2, GoneAssumption DEF RowOK
    <3>5. archive' \in [Run -> ArchivedRows \cup {Gone}] /\ archive'[r] = row /\ \A x \in Run : x # r => archive'[x] = archive[x]
      BY <1>3, <3>1, <3>2, <3>3
    <3>6. \A x \in Run : archive[x] # Gone => RowOK(x, archive[x])
      BY <1>2 DEF RegistryInv
    <3>7. QED
      BY <2>2, <3>2, <3>4, <3>5, <3>6
  <2>3. QED
    BY <2>1, <2>2
<1>6. /\ info' \in [Run -> Info \cup {Gone}]
      /\ \A x \in Run : /\ Live(x)' <=> Live(x)
                        /\ Live(x) => /\ InfoOK(x, info'[x]) /\ info'[x].state = info[x].state
                                      /\ info'[x].events = info[x].events /\ info'[x].total = info[x].total
  BY <1>1, <1>2, InfoSame
<1>7. \A x \in whole' : x \in Run
  BY <1>1, <1>2 DEF RegistryInv
<1>8. RegistryInv' /\ VerdictInv' /\ SettleInv'
  BY <1>2, <1>3, <1>4, <1>5, <1>6, <1>7, ArchiveKeeps
<1>9. QED
  BY <1>1, <1>2, <1>8, FeedSame DEF DashInv

LEMMA DeleteKeeps ==
  ASSUME DashInv, NEW r \in Run, DeleteRow(r)
  PROVE  DashInv'
<1>1. /\ budget.removals > 0 /\ budget' = [budget EXCEPT !.removals = @ - 1]
      /\ archive' = [archive EXCEPT ![r] = Gone] /\ whole' = whole \ {r}
      /\ UNCHANGED <<order, info, jobs, feed, clock, saving, lost, overtaken>>
  BY DEF DeleteRow
<1>2. RegistryInv /\ VerdictInv /\ SettleInv /\ FeedInv
  BY DEF DashInv
<1>3. budget' \in BudgetType /\ saving' \in 0 .. Runs
  BY <1>1, <1>2 DEF RegistryInv, BudgetType
<1>4. jobs' \in SUBSET jobs /\ whole' \in SUBSET whole /\ UNCHANGED <<order, clock, overtaken>> /\ jobs \ jobs' = {} /\ lost \subseteq lost'
  BY <1>1
<1>5. /\ archive' \in [Run -> ArchivedRows \cup {Gone}]
      /\ \A x \in Run : archive'[x] # Gone => RowOK(x, archive'[x])
      /\ \A x \in whole' : archive'[x] = archive[x]
  BY <1>1, <1>2 DEF RegistryInv
<1>6. /\ info' \in [Run -> Info \cup {Gone}]
      /\ \A x \in Run : /\ Live(x)' <=> Live(x)
                        /\ Live(x) => /\ InfoOK(x, info'[x]) /\ info'[x].state = info[x].state
                                      /\ info'[x].events = info[x].events /\ info'[x].total = info[x].total
  BY <1>1, <1>2, InfoSame
<1>7. RegistryInv' /\ VerdictInv' /\ SettleInv'
  BY <1>2, <1>3, <1>4, <1>5, <1>6, ArchiveKeeps
<1>8. QED
  BY <1>1, <1>2, <1>7, FeedSame DEF DashInv

LEMMA RestartKeeps == ASSUME DashInv, Restart PROVE DashInv'
<1> DEFINE Ends(r) == {m \in DOMAIN archive[r].events : IsTerminal(archive[r].events[m])}
           Started(r, n) == NewJob(<<clock, n>>, r, IF r \in Hydrated THEN Gone ELSE Replayed(r))
<1>1. /\ budget.restarts > 0 /\ budget' = [budget EXCEPT !.restarts = @ - 1]
      /\ order' = Among([n \in Run |-> Runs + 1 - n], Hydrated)
      /\ info' = [r \in Run |-> IF r \in Hydrated THEN Replayed(r) ELSE Gone]
      /\ jobs' = UNION {{Started(r, n) : n \in Ends(r)} : r \in Replayable}
      /\ whole' = whole \ {r \in Run \ Hydrated : archive[r] # Gone}
      /\ feed' = Gone /\ saving' = 0 /\ archive' = archive /\ clock' = clock
  BY DEF Restart
<1>2. RegistryInv /\ VerdictInv
  BY DEF DashInv
<1>3. budget' \in BudgetType /\ saving' \in 0 .. Runs /\ clock \in Nat
  <2>1. budget \in BudgetType /\ clock \in Nat
    BY <1>2 DEF RegistryInv
  <2>2. budget' \in BudgetType
    BY <1>1, <2>1 DEF BudgetType
  <2>3. QED
    BY <1>1, <2>1, <2>2, DashboardAssumption
<1>4. Hydrated \subseteq Replayable /\ Replayable \subseteq Run
  BY DEF Hydrated, Replayable
<1>5. ASSUME NEW r \in Replayable
      PROVE  /\ RowOK(r, archive[r]) /\ archive[r] # Gone
             /\ InfoOK(r, Replayed(r)) /\ Replayed(r) # Gone /\ Replayed(r) \in Info
             /\ Replayed(r).events = archive[r].events
             /\ Replayed(r).state \in {"running"} \cup Verdicts(r)
             /\ HasEnd(archive[r].events) => Replayed(r).state \in Verdicts(r)
             /\ Ends(r) \subseteq Nat /\ (Ends(r) # {} => HasEnd(archive[r].events))
             /\ DOMAIN archive[r].events = 1 .. Len(archive[r].events)
  <2>1. RowOK(r, archive[r]) /\ archive[r] # Gone /\ r \in Run
    BY <1>2, <1>4 DEF RegistryInv, Replayable
  <2>2. /\ InfoOK(r, Replayed(r)) /\ Replayed(r).events = archive[r].events
        /\ Replayed(r).state \in {"running"} \cup Verdicts(r)
        /\ HasEnd(archive[r].events) => Replayed(r).state \in Verdicts(r)
    BY <2>1, ReplayedIs
  <2>3. Replayed(r) \in Info /\ Replayed(r) # Gone
    BY <2>2, GoneAssumption DEF InfoOK
  <2>4. DOMAIN archive[r].events = 1 .. Len(archive[r].events)
    BY <2>1 DEF RowOK, ArchivedRows
  <2>5. Ends(r) \subseteq Nat /\ (Ends(r) # {} => HasEnd(archive[r].events))
    BY <2>4 DEF HasEnd
  <2>6. QED
    BY <2>1, <2>2, <2>3, <2>4, <2>5
<1>6. /\ order' \in Seq(Run) /\ IsInjective(order') /\ ToSet(order') = Hydrated /\ Len(order') <= RunCapacity
  BY <1>1, HydratedIs
<1>7. /\ \A r \in Run : Live(r)' <=> r \in Hydrated
      /\ \A r \in Hydrated : info'[r] = Replayed(r)
      /\ info' \in [Run -> Info \cup {Gone}]
  BY <1>1, <1>4, <1>5 DEF Live
<1> HIDE DEF Ends
<1>8. \A j \in jobs' : \E r \in Replayable : \E n \in Ends(r) : j = Started(r, n)
  BY <1>1
<1>9. \A r \in Replayable : \A n \in Ends(r) :
        LET j == Started(r, n)
        IN /\ j \in Job /\ j.run = r /\ j.stage = "queued" /\ j \in jobs'
           /\ j.of = IF r \in Hydrated THEN Gone ELSE Replayed(r)
  <2> SUFFICES ASSUME NEW r \in Replayable, NEW n \in Ends(r)
               PROVE  /\ Started(r, n) \in Job /\ Started(r, n).run = r /\ Started(r, n).stage = "queued"
                      /\ Started(r, n) \in jobs'
                      /\ Started(r, n).of = IF r \in Hydrated THEN Gone ELSE Replayed(r)
    OBVIOUS
  <2>1. Started(r, n) \in jobs'
    BY <1>1
  <2>2. n \in Nat /\ r \in Run /\ Replayed(r) \in Info
    BY <1>4, <1>5
  <2>3. "running" \in States
    BY DEF States
  <2>4. QED
    BY <1>3, <2>1, <2>2, <2>3 DEF NewJob, Job
<1>10. ASSUME NEW j \in jobs' PROVE JobOK(j)'
  <2>1. PICK r \in Replayable : \E n \in Ends(r) : j = Started(r, n)
    BY <1>8
  <2>2. PICK n \in Ends(r) : j = Started(r, n)
    BY <2>1
  <2>3. j \in Job /\ j.run = r /\ j.of = IF r \in Hydrated THEN Gone ELSE Replayed(r)
    BY <1>9, <2>2
  <2>4. CASE r \in Hydrated
    BY <1>4, <1>7, <2>3, <2>4 DEF JobOK
  <2>5. CASE r \notin Hydrated
    <3>1. j.of = Replayed(r) /\ j.of # Gone /\ InfoOK(r, Replayed(r)) /\ archive[r] # Gone /\ r \in Run
      BY <1>4, <1>5, <2>3, <2>5
    <3>2. r \notin whole'
      BY <1>1, <2>5, <3>1
    <3>3. QED
      BY <2>3, <3>1, <3>2 DEF JobOK
  <2>6. QED
    BY <2>4, <2>5
<1>11. RegistryInv'
  <2>1. {r \in Run : Live(r)'} = Hydrated
    BY <1>4, <1>7
  <2>2. \A r \in Run : Live(r)' => InfoOK(r, info'[r])
    BY <1>4, <1>5, <1>7
  <2>3. /\ archive' \in [Run -> ArchivedRows \cup {Gone}]
        /\ \A r \in Run : archive'[r] # Gone => RowOK(r, archive'[r])
        /\ whole' \subseteq Run /\ clock' \in Nat
    BY <1>1, <1>2 DEF RegistryInv
  <2>4. QED
    BY <1>3, <1>6, <1>7, <1>10, <2>1, <2>2, <2>3 DEF RegistryInv
<1>12. \A r \in whole' : r \in whole /\ r \in Run /\ (archive[r] # Gone => r \in Hydrated)
  BY <1>1, <1>2 DEF RegistryInv
<1>13. VerdictInv'
  <2> SUFFICES ASSUME NEW x \in whole'
               PROVE  /\ archive[x] # Gone => Live(x)'
                      /\ Live(x)' => /\ info'[x].state \in {"running"} \cup Verdicts(x)
                                     /\ HasEnd(info'[x].events) => info'[x].state \in Verdicts(x)
                      /\ \A j \in jobs' : j.run = x => info'[x].state \in Verdicts(x) /\ j.stage = "queued"
                      /\ archive[x] # Gone => /\ archive[x].state \in {"running"} \cup Verdicts(x)
                                              /\ HasEnd(archive[x].events) => info'[x].state \in Verdicts(x)
    BY <1>1 DEF VerdictInv, Known, Verdicts, HasEnd
  <2>1. x \in whole /\ x \in Run /\ (archive[x] # Gone => x \in Hydrated)
    BY <1>12
  <2>2. x \in Hydrated => /\ info'[x].events = archive[x].events
                          /\ info'[x].state \in {"running"} \cup Verdicts(x)
                          /\ HasEnd(archive[x].events) => info'[x].state \in Verdicts(x)
    BY <1>4, <1>5, <1>7
  <2>3. ASSUME NEW j \in jobs', j.run = x
        PROVE  info'[x].state \in Verdicts(x) /\ j.stage = "queued"
    <3>a. PICK r \in Replayable : \E n \in Ends(r) : j = Started(r, n)
      BY <1>8
    <3>1. PICK n \in Ends(r) : j = Started(r, n)
      BY <3>a
    <3>2. r = x /\ j.stage = "queued"
      BY <1>9, <2>3, <3>1
    <3>3. x \in Hydrated /\ HasEnd(archive[x].events)
      BY <1>5, <2>1, <3>1, <3>2
    <3>4. QED
      BY <2>2, <3>2, <3>3
  <2>4. archive[x] # Gone => archive[x].state \in {"running"} \cup Verdicts(x)
    BY <1>2, <2>1 DEF VerdictInv, Known
  <2>5. QED
    BY <1>7, <2>1, <2>2, <2>3, <2>4
<1>14. SettleInv'
  <2> SUFFICES ASSUME NEW x \in whole', EndedLast(x)' PROVE \E j \in jobs' : Brings(j, x)'
    BY DEF SettleInv
  <2>1. x \in Run /\ Live(x)' /\ info'[x].events # <<>> /\ IsTerminal(Last(info'[x].events))
    BY <1>12 DEF EndedLast
  <2>2. x \in Hydrated /\ x \in Replayable
    BY <1>4, <1>7, <2>1
  <2>3. /\ info'[x].events = archive[x].events /\ archive[x].events \in Seq(EventKinds)
    BY <1>5, <1>7, <2>2 DEF RowOK, ArchivedRows
  <2> DEFINE n == Len(archive[x].events)
  <2>4. n \in 1 .. Len(archive[x].events) /\ Last(archive[x].events) = archive[x].events[n]
    BY <2>1, <2>3 DEF Last
  <2>5. n \in Ends(x)
    BY <1>5, <2>1, <2>2, <2>3, <2>4 DEF Ends
  <2>6. Started(x, n) \in jobs' /\ Started(x, n).run = x /\ Started(x, n).stage = "queued"
    BY <1>9, <2>2, <2>5
  <2>7. QED
    BY <2>6 DEF Brings
<1>15. FeedInv'
  BY <1>1 DEF FeedInv
<1>16. QED
  BY <1>11, <1>13, <1>14, <1>15 DEF DashInv

LEMMA DashStep == DashInv /\ [DashNext]_dashvars => DashInv'
<1> SUFFICES ASSUME DashInv, [DashNext]_dashvars PROVE DashInv'
  OBVIOUS
<1>1. CASE UNCHANGED dashvars
  <2>1. UNCHANGED <<order, info, archive, jobs, feed, clock, saving, whole, lost, overtaken, budget>>
    BY <1>1 DEF dashvars
  <2>2. RegistryInv /\ VerdictInv /\ SettleInv /\ FeedInv /\ budget' \in BudgetType
    BY <2>1 DEF DashInv, RegistryInv
  <2>3. QED
    BY <2>1, <2>2, RunsSame, FeedSame DEF DashInv
<1>2. ASSUME NEW r \in Run, NEW kind \in {"more"} \cup Endings[r], Ingest(r, kind) PROVE DashInv'
  BY <1>2, IngestKeeps DEF KindsOf
<1>3. ASSUME NEW r \in Run, PostGraph(r) \/ EditNotes(r) \/ EditFails(r) \/ DeleteRow(r) \/ RestoreRow(r)
      PROVE DashInv'
  BY <1>3, GraphKeeps, EditKeeps, EditFailsKeeps, DeleteKeeps, RestoreKeeps
<1>4. CASE Subscribe \/ ReadFeed \/ SeedSnapshots \/ Disconnect
  BY <1>4, ListenKeeps
<1>5. ASSUME NEW j \in jobs, ReadSummary(j) \/ TakeLock(j) \/ Commit(j) \/ GiveUp(j) PROVE DashInv'
  BY <1>5, ReadKeepsRuns, LockKeeps, CommitKeeps, GiveUpKeeps
<1>6. CASE SetNotes \/ SetFails
  BY <1>6, SetNotesKeeps, SetFailsKeeps
<1>7. CASE Restart
  BY <1>7, RestartKeeps
<1>8. QED
  BY <1>1, <1>2, <1>3, <1>4, <1>5, <1>6, <1>7 DEF DashNext, Loop, Snapshot

LEMMA DashInvSound == DashInv => ArchiveSound
<1> SUFFICES ASSUME DashInv PROVE ArchiveSound
  OBVIOUS
<1>1. RegistryInv /\ SettleInv /\ FeedInv
  BY DEF DashInv
<1>2. DashTypeOK
  <2>1. \A j \in jobs : j.run \in Run /\ j.state \in States
    BY <1>1 DEF RegistryInv, JobOK, Job
  <2>2. \A r \in Run : Live(r) => info[r] \in Info /\ Len(info[r].events) <= PerRun
    BY <1>1 DEF RegistryInv, InfoOK
  <2>3. \A r \in Run : archive[r] # Gone => archive[r].state \in States
    BY <1>1 DEF RegistryInv, RowOK, ArchivedRows
  <2>4. feed # Gone => feed \in Seq(0 .. clock) /\ Len(feed) <= QueueSize
    BY <1>1 DEF FeedInv
  <2>5. QED
    BY <1>1, <2>1, <2>2, <2>3, <2>4 DEF DashTypeOK, RegistryInv
<1>3. ArchiveSettles
  <2> SUFFICES ASSUME NEW r \in whole \ lost, EndedLast(r), {j \in jobs : j.run = r} = {} PROVE Filed(r)
    BY DEF ArchiveSettles, Filed
  <2>1. \A j \in jobs : j.run # r
    OBVIOUS
  <2>2. QED
    BY <1>1, <2>1 DEF SettleInv, Brings
<1>4. FeedIsRecent
  <2> SUFFICES ASSUME feed # Gone
               PROVE  LET unread == Among(feed, Nat \ {0})
                      IN \A i \in DOMAIN unread : unread[i] = clock - Len(unread) + i
    BY DEF FeedIsRecent
  <2> DEFINE unread == Among(feed, Nat \ {0})
  <2>1. feed \in Seq(0 .. clock) /\ Recent(feed, clock)
    BY <1>1 DEF FeedInv
  <2>2. unread \in Seq(0 .. clock)
    BY <2>1, AmongSound
  <2>3. \A i \in 1 .. Len(unread) : unread[i] = clock - Len(unread) + i
    BY <2>1 DEF Recent
  <2> HIDE DEF unread
  <2>4. DOMAIN unread = 1 .. Len(unread)
    BY <2>2
  <2>5. QED
    BY <2>3, <2>4 DEF unread
<1>5. QED
  BY <1>2, <1>3, <1>4 DEF ArchiveSound

\* A run that has ended is archived with the events of the registry and one of its
\* verdicts once its snapshots are over, unless one of them gave up on the lock, and
\* subscribers have the newest envelopes, for any number of runs, capacity, restarts.
THEOREM ArchiveAlwaysSound == DashSpec => []ArchiveSound
<1>1. DashInit => DashInv
  BY DashInitInv
<1>2. DashInv /\ [DashNext]_dashvars => DashInv'
  BY DashStep
<1>3. DashInv => ArchiveSound
  BY DashInvSound
<1> QED BY <1>1, <1>2, <1>3, PTL DEF DashSpec

=============================================================================

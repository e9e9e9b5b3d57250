-------------------------- MODULE SlotsPoolProofs --------------------------
(***************************************************************************)
(* What tasks share.  The semaphore of an endpoint, for any number of      *)
(* tasks and permits: no permit is lost or duplicated, whatever await a    *)
(* task is cancelled at, so the gates implement bounded admission.  The    *)
(* queues of its counters, and the amounts on them: what a window may hold *)
(* beyond its limit, and what the TPM counter may hold beyond the real     *)
(* costs.  The sandbox pool, for any workers, calls and faults: the        *)
(* workers, the queue of idle ones and the calls agree at all times, and   *)
(* every step leases, returns or drops one worker, as WorkerLease has it.  *)
(***************************************************************************)
EXTENDS Slots, SandboxPool, SeqLemmas, FiniteSetTheorems

PastGate == {"rpmWait", "tpmWait", "call"}
Places == Waiting \cup {"idle", "call"}

SemType == [free : Nat, queue : Seq(Task), granted : SUBSET Task]

Out(s, p) == {t \in Task : p[t] \in PastGate} \cup s.granted

\* The inductive invariant, as a predicate of a semaphore and a pc so that the
\* lemmas can speak of the intermediate states of one step.
GateShape(s, p) ==
  /\ s \in SemType
  /\ p \in [Task -> Places]
  /\ IsInjective(s.queue)
  /\ \A i \in 1 .. Len(s.queue) : p[s.queue[i]] = "semWait"
  /\ \A t \in s.granted : p[t] = "semWait"

GateOK(s, p) == GateShape(s, p) /\ s.free + Cardinality(Out(s, p)) = Cap

GateInv == GateOK(sem, pc) /\ cancelled \subseteq Task

\* Adding a task to, or taking it from, a set of tasks.
LEMMA CountTasks ==
  ASSUME NEW U, U \subseteq Task, NEW t \in Task
  PROVE  /\ Cardinality(U) \in Nat
         /\ t \notin U => Cardinality(U \cup {t}) = Cardinality(U) + 1
         /\ t \in U => Cardinality(U \ {t}) = Cardinality(U) - 1
<1>1. IsFiniteSet(U)
  BY FS_Subset, SlotsAssumption
<1>2. QED
  BY <1>1, FS_CardinalityType, FS_AddElement, FS_RemoveElement

LEMMA OutType ==
  ASSUME NEW s, NEW p, GateOK(s, p)
  PROVE  Out(s, p) \subseteq Task /\ Cardinality(Out(s, p)) \in Nat
<1>1. Out(s, p) \subseteq Task
  BY DEF GateOK, GateShape, Out, SemType
<1>2. QED
  BY <1>1, FS_Subset, FS_CardinalityType, SlotsAssumption

\* _wake_up_next does nothing, or moves one free permit to a queued task.
LEMMA WakeNextChoice ==
  ASSUME NEW s \in SemType
  PROVE  \/ WakeNext(s) = s
         \/ \E i \in 1 .. Len(s.queue) :
              /\ s.free > 0 /\ s.queue[i] \notin s.granted
              /\ WakeNext(s) = [s EXCEPT !.free = @ - 1,
                                         !.granted = @ \cup {s.queue[i]}]
<1> DEFINE queued == {i \in 1 .. Len(s.queue) :
                         s.queue[i] \notin s.granted \cup cancelled}
<1>1. CASE s.free = 0 \/ queued = {}
  BY <1>1 DEF WakeNext
<1>2. CASE ~(s.free = 0 \/ queued = {})
  <2>1. Min(queued) \in queued
    <3>1. queued \subseteq Nat /\ queued # {}
      BY <1>2
    <3> HIDE DEF queued
    <3> QED  BY <3>1, NatMin
  <2>2. WakeNext(s) = [s EXCEPT !.free = @ - 1,
                                !.granted = @ \cup {s.queue[Min(queued)]}]
    BY <1>2 DEF WakeNext
  <2>3. s.free > 0
    BY <1>2 DEF SemType
  <2>4. QED
    BY <2>1, <2>2, <2>3
<1>3. QED
  BY <1>1, <1>2

LEMMA WakeNextOK ==
  ASSUME NEW s, NEW p, GateOK(s, p)
  PROVE  /\ GateOK(WakeNext(s), p)
         /\ \/ Out(WakeNext(s), p) = Out(s, p)
            \/ \E d \in Task : /\ s.free > 0 /\ d \notin Out(s, p)
                               /\ Out(WakeNext(s), p) = Out(s, p) \cup {d}
<1>1. CASE WakeNext(s) = s
  BY <1>1
<1>2. ASSUME NEW i \in 1 .. Len(s.queue), s.free > 0, s.queue[i] \notin s.granted,
             WakeNext(s) = [s EXCEPT !.free = @ - 1, !.granted = @ \cup {s.queue[i]}]
      PROVE  /\ GateOK(WakeNext(s), p)
             /\ \E d \in Task : /\ s.free > 0 /\ d \notin Out(s, p)
                                /\ Out(WakeNext(s), p) = Out(s, p) \cup {d}
  <2> DEFINE d == s.queue[i]
             w == WakeNext(s)
  <2>1. d \in Task /\ p[d] = "semWait"
    BY DEF GateOK, GateShape, SemType
  <2>2. d \notin Out(s, p)
    BY <1>2, <2>1 DEF Out, PastGate
  <2>3. /\ w.free = s.free - 1 /\ w.queue = s.queue /\ w.granted = s.granted \cup {d}
        /\ w \in SemType
    <3>1. s \in SemType
      BY DEF GateOK, GateShape
    <3>2. w = [s EXCEPT !.free = s.free - 1, !.granted = s.granted \cup {d}]
      BY <1>2
    <3>3. s.free - 1 \in Nat
      BY <1>2, <3>1 DEF SemType
    <3> HIDE DEF w, d
    <3>4. QED
      BY <2>1, <3>1, <3>2, <3>3 DEF SemType
  <2> HIDE DEF w, d
  <2>4. Out(w, p) = Out(s, p) \cup {d}
    BY <2>3 DEF Out
  <2>5. Cardinality(Out(w, p)) = Cardinality(Out(s, p)) + 1
    BY <2>1, <2>2, <2>4, OutType, CountTasks
  <2>6. w.free + Cardinality(Out(w, p)) = Cap
    <3>1. s.free \in Nat /\ s.free + Cardinality(Out(s, p)) = Cap
      BY DEF GateOK, GateShape, SemType
    <3>2. QED
      BY <2>3, <2>5, <3>1, OutType
  <2>7. GateOK(w, p)
    BY <2>1, <2>3, <2>6 DEF GateOK, GateShape
  <2>8. QED
    BY <1>2, <2>1, <2>2, <2>4, <2>7 DEF w
<1>3. QED
  BY <1>1, <1>2, WakeNextChoice DEF GateOK, GateShape

-----------------------------------------------------------------------------
(* The moves of one task t through the semaphore. *)

SameWaiters(s2, s) == s2 \in SemType /\ s2.queue = s.queue /\ s2.granted = s.granted

\* A task takes a free permit without waiting (the count is done in CallStep).
LEMMA EnterOK ==
  ASSUME NEW s, NEW p, GateOK(s, p), NEW t \in Task, p[t] = "idle",
         NEW w \in PastGate, NEW s2, SameWaiters(s2, s)
  PROVE  /\ GateShape(s2, [p EXCEPT ![t] = w])
         /\ t \notin Out(s, p)
         /\ Out(s2, [p EXCEPT ![t] = w]) = Out(s, p) \cup {t}
<1> DEFINE p2 == [p EXCEPT ![t] = w]
<1>1. /\ s \in SemType /\ s2 \in SemType
      /\ s2.queue = s.queue /\ s2.granted = s.granted
  BY DEF GateOK, GateShape, SameWaiters
<1>2. p2 \in [Task -> Places] /\ p2[t] = w /\ \A u \in Task \ {t} : p2[u] = p[u]
  BY DEF GateOK, GateShape, PastGate, Places, Waiting
<1>3. t \notin Out(s, p) /\ Out(s2, p2) = Out(s, p) \cup {t}
  <2>1. t \notin s.granted
    BY DEF GateOK, GateShape
  <2>2. QED
    BY <1>1, <1>2, <2>1 DEF Out, PastGate
<1>4. /\ \A i \in 1 .. Len(s2.queue) : p2[s2.queue[i]] = "semWait"
      /\ \A u \in s2.granted : p2[u] = "semWait"
  BY <1>1, <1>2 DEF GateOK, GateShape, SemType
<1>5. QED
  BY <1>1, <1>2, <1>3, <1>4 DEF GateOK, GateShape

\* A task that holds a permit moves on to the next gate.
LEMMA MoveOK ==
  ASSUME NEW s, NEW p, GateOK(s, p), NEW t \in Task, p[t] \in PastGate,
         NEW w \in PastGate
  PROVE  /\ GateOK(s, [p EXCEPT ![t] = w])
         /\ Out(s, [p EXCEPT ![t] = w]) = Out(s, p)
<1> DEFINE p2 == [p EXCEPT ![t] = w]
<1>1. p2 \in [Task -> Places] /\ p2[t] = w /\ \A u \in Task \ {t} : p2[u] = p[u]
  BY DEF GateOK, GateShape, PastGate, Places, Waiting
<1>2. Out(s, p2) = Out(s, p)
  BY <1>1 DEF Out
<1>3. /\ \A i \in 1 .. Len(s.queue) : p2[s.queue[i]] = "semWait"
      /\ \A u \in s.granted : p2[u] = "semWait"
  BY <1>1 DEF GateOK, GateShape, SemType, PastGate
<1>4. QED
  BY <1>1, <1>2, <1>3 DEF GateOK, GateShape

\* A newcomer queues behind the others.
LEMMA QueueOK ==
  ASSUME NEW s, NEW p, GateOK(s, p), NEW t \in Task, p[t] = "idle"
  PROVE  /\ GateOK([s EXCEPT !.queue = Append(@, t)], [p EXCEPT ![t] = "semWait"])
         /\ Out([s EXCEPT !.queue = Append(@, t)], [p EXCEPT ![t] = "semWait"])
              = Out(s, p)
<1> DEFINE s2 == [s EXCEPT !.queue = Append(@, t)]
           p2 == [p EXCEPT ![t] = "semWait"]
<1>1. /\ s \in SemType /\ s2 \in SemType /\ s2.free = s.free
      /\ s2.queue = Append(s.queue, t) /\ s2.granted = s.granted
  <2>1. s \in SemType /\ Append(s.queue, t) \in Seq(Task)
    BY AppendProperties DEF GateOK, GateShape, SemType
  <2>2. QED
    BY <2>1 DEF SemType
<1>2. p2 \in [Task -> Places] /\ p2[t] = "semWait" /\ \A u \in Task \ {t} : p2[u] = p[u]
  BY DEF GateOK, GateShape, Places, Waiting
<1>3. t \notin s.granted /\ \A i \in 1 .. Len(s.queue) : s.queue[i] # t
  BY DEF GateOK, GateShape
<1>4. Out(s2, p2) = Out(s, p)
  BY <1>1, <1>2, <1>3 DEF Out, PastGate
<1>5. IsInjective(s2.queue)
  BY <1>1, <1>3, AppendToDistinct DEF GateOK, GateShape, SemType
<1>6. /\ \A i \in 1 .. Len(s2.queue) : p2[s2.queue[i]] = "semWait"
      /\ \A u \in s2.granted : p2[u] = "semWait"
  <2>1. s.queue \in Seq(Task) /\ s.granted \subseteq Task
    BY <1>1 DEF SemType
  <2>2. \A i \in 1 .. Len(s2.queue) :
          s2.queue[i] = t \/ \E j \in 1 .. Len(s.queue) : s2.queue[i] = s.queue[j]
    BY <1>1, <2>1
  <2>3. \A j \in 1 .. Len(s.queue) : s.queue[j] \in Task /\ p[s.queue[j]] = "semWait"
    BY <2>1 DEF GateOK, GateShape
  <2>4. QED
    BY <1>1, <1>2, <2>1, <2>2, <2>3 DEF GateOK, GateShape
<1>7. QED
  BY <1>1, <1>2, <1>4, <1>5, <1>6 DEF GateOK, GateShape

\* Dequeue takes a waiter out of the queue and out of the woken ones.
LEMMA DequeueType ==
  ASSUME NEW s \in SemType, IsInjective(s.queue), NEW t \in Task
  PROVE  /\ Dequeue(s, t) \in SemType
         /\ Dequeue(s, t).free = s.free
         /\ Dequeue(s, t).granted = s.granted \ {t}
         /\ IsInjective(Dequeue(s, t).queue)
         /\ \A i \in 1 .. Len(Dequeue(s, t).queue) :
              /\ Dequeue(s, t).queue[i] # t
              /\ \E j \in 1 .. Len(s.queue) : Dequeue(s, t).queue[i] = s.queue[j]
<1> DEFINE q == RemoveFirst(s.queue, t)
<1>1. /\ q \in Seq(Task) /\ IsInjective(q)
      /\ \A i \in 1 .. Len(q) : q[i] # t /\ \E j \in 1 .. Len(s.queue) : q[i] = s.queue[j]
  BY RemoveFirstFromDistinct DEF SemType
<1> HIDE DEF q
<1>2. Dequeue(s, t) = [s EXCEPT !.queue = q, !.granted = s.granted \ {t}]
  BY DEF Dequeue, q
<1>3. /\ Dequeue(s, t) \in SemType /\ Dequeue(s, t).free = s.free
      /\ Dequeue(s, t).granted = s.granted \ {t} /\ Dequeue(s, t).queue = q
  BY <1>1, <1>2 DEF SemType
<1>4. QED
  BY <1>1, <1>3

\* A woken waiter resumes and keeps the permit it was handed.
LEMMA ResumeOK ==
  ASSUME NEW s, NEW p, GateOK(s, p), NEW t \in s.granted, NEW w \in PastGate
  PROVE  /\ GateOK(Dequeue(s, t), [p EXCEPT ![t] = w])
         /\ Out(Dequeue(s, t), [p EXCEPT ![t] = w]) = Out(s, p)
<1> DEFINE s2 == Dequeue(s, t)
           p2 == [p EXCEPT ![t] = w]
<1>0. t \in Task /\ s \in SemType /\ IsInjective(s.queue)
  BY DEF GateOK, GateShape, SemType
<1>1. /\ s2 \in SemType /\ s2.free = s.free /\ s2.granted = s.granted \ {t}
      /\ IsInjective(s2.queue)
      /\ \A i \in 1 .. Len(s2.queue) :
           s2.queue[i] # t /\ \E j \in 1 .. Len(s.queue) : s2.queue[i] = s.queue[j]
  BY <1>0, DequeueType
<1> HIDE DEF s2
<1>2. p2 \in [Task -> Places] /\ p2[t] = w /\ \A u \in Task \ {t} : p2[u] = p[u]
  BY <1>0 DEF GateOK, GateShape, PastGate, Places, Waiting
<1>3. Out(s2, p2) = Out(s, p)
  BY <1>0, <1>1, <1>2 DEF Out, GateOK, GateShape, SemType
<1>4. \A j \in 1 .. Len(s.queue) : s.queue[j] \in Task /\ p[s.queue[j]] = "semWait"
  BY <1>0 DEF GateOK, GateShape, SemType
<1>5. /\ \A i \in 1 .. Len(s2.queue) : p2[s2.queue[i]] = "semWait"
      /\ \A u \in s2.granted : p2[u] = "semWait"
  BY <1>0, <1>1, <1>2, <1>4 DEF GateOK, GateShape, SemType
<1>6. QED
  BY <1>1, <1>2, <1>3, <1>5 DEF GateOK, GateShape, s2

\* A task past the semaphore, cancelled or done, puts its permit back.
LEMMA LeaveOK ==
  ASSUME NEW s, NEW p, GateOK(s, p), NEW t \in Task, p[t] \in PastGate
  PROVE  /\ GateOK([s EXCEPT !.free = @ + 1], [p EXCEPT ![t] = "idle"])
         /\ t \in Out(s, p)
         /\ Out([s EXCEPT !.free = @ + 1], [p EXCEPT ![t] = "idle"]) = Out(s, p) \ {t}
<1> DEFINE s2 == [s EXCEPT !.free = @ + 1]
           p2 == [p EXCEPT ![t] = "idle"]
<1>1. /\ s \in SemType /\ s2 \in SemType /\ s2.free = s.free + 1
      /\ s2.queue = s.queue /\ s2.granted = s.granted
  BY DEF GateOK, GateShape, SemType
<1>2. p2 \in [Task -> Places] /\ p2[t] = "idle" /\ \A u \in Task \ {t} : p2[u] = p[u]
  BY DEF GateOK, GateShape, Places, Waiting
<1>3. t \notin s.granted /\ \A i \in 1 .. Len(s.queue) : s.queue[i] # t
  BY DEF GateOK, GateShape, PastGate
<1>4. t \in Out(s, p) /\ Out(s2, p2) = Out(s, p) \ {t}
  BY <1>1, <1>2, <1>3 DEF Out, PastGate
<1>5. Cardinality(Out(s2, p2)) = Cardinality(Out(s, p)) - 1
  BY <1>4, OutType, CountTasks
<1>6. s2.free + Cardinality(Out(s2, p2)) = Cap
  <2>1. s.free \in Nat /\ s.free + Cardinality(Out(s, p)) = Cap
    BY DEF GateOK, GateShape, SemType
  <2> HIDE DEF s2, p2
  <2>2. QED
    BY <1>1, <1>5, <2>1, OutType
<1>7. /\ \A i \in 1 .. Len(s2.queue) : p2[s2.queue[i]] = "semWait"
      /\ \A u \in s2.granted : p2[u] = "semWait"
  BY <1>1, <1>2, <1>3 DEF GateOK, GateShape, SemType
<1>8. QED
  BY <1>1, <1>2, <1>4, <1>6, <1>7 DEF GateOK, GateShape

\* A waiter cancelled in the queue withdraws.
LEMMA WithdrawOK ==
  ASSUME NEW s, NEW p, GateOK(s, p), NEW t \in Task, p[t] = "semWait"
  PROVE  /\ GateShape(Dequeue(s, t), [p EXCEPT ![t] = "idle"])
         /\ Dequeue(s, t).free = s.free
         /\ Dequeue(s, t).granted = s.granted \ {t}
         /\ t \notin s.granted => /\ GateOK(Dequeue(s, t), [p EXCEPT ![t] = "idle"])
                                  /\ Out(Dequeue(s, t), [p EXCEPT ![t] = "idle"])
                                       = Out(s, p)
<1> DEFINE d == Dequeue(s, t)
           p2 == [p EXCEPT ![t] = "idle"]
<1>0. s \in SemType /\ IsInjective(s.queue)
  BY DEF GateOK, GateShape
<1>1. /\ d \in SemType /\ d.free = s.free /\ d.granted = s.granted \ {t}
      /\ IsInjective(d.queue)
      /\ \A i \in 1 .. Len(d.queue) :
           d.queue[i] # t /\ \E j \in 1 .. Len(s.queue) : d.queue[i] = s.queue[j]
  BY <1>0, DequeueType
<1> HIDE DEF d
<1>2. p2 \in [Task -> Places] /\ p2[t] = "idle" /\ \A u \in Task \ {t} : p2[u] = p[u]
  BY DEF GateOK, GateShape, Places, Waiting
<1>3. \A j \in 1 .. Len(s.queue) : s.queue[j] \in Task /\ p[s.queue[j]] = "semWait"
  BY <1>0 DEF GateOK, GateShape, SemType
<1>4. /\ \A i \in 1 .. Len(d.queue) : p2[d.queue[i]] = "semWait"
      /\ \A u \in d.granted : p2[u] = "semWait"
  BY <1>0, <1>1, <1>2, <1>3 DEF GateOK, GateShape, SemType
<1>5. ASSUME t \notin s.granted
      PROVE  GateOK(d, p2) /\ Out(d, p2) = Out(s, p)
  <2>1. Out(d, p2) = Out(s, p)
    BY <1>1, <1>2, <1>5 DEF Out, PastGate
  <2>2. QED
    BY <1>1, <1>2, <1>4, <2>1 DEF GateOK, GateShape
<1>6. QED
  BY <1>1, <1>2, <1>4, <1>5 DEF d, GateShape

\* A waiter cancelled after it was handed a permit puts it back.
LEMMA GiveBackOK ==
  ASSUME NEW s, NEW p, GateOK(s, p), NEW t \in s.granted
  PROVE  /\ GateOK([Dequeue(s, t) EXCEPT !.free = @ + 1], [p EXCEPT ![t] = "idle"])
         /\ t \in Out(s, p)
         /\ [Dequeue(s, t) EXCEPT !.free = @ + 1].free > 0
         /\ Out([Dequeue(s, t) EXCEPT !.free = @ + 1], [p EXCEPT ![t] = "idle"])
              = Out(s, p) \ {t}
<1> DEFINE d == Dequeue(s, t)
           b == [d EXCEPT !.free = @ + 1]
           p2 == [p EXCEPT ![t] = "idle"]
<1>0. t \in Task /\ p[t] = "semWait" /\ s.free \in Nat
  BY DEF GateOK, GateShape, SemType
<1>1. /\ d \in SemType /\ d.free = s.free /\ d.granted = s.granted \ {t}
      /\ IsInjective(d.queue) /\ p2 \in [Task -> Places]
      /\ \A i \in 1 .. Len(d.queue) : p2[d.queue[i]] = "semWait"
      /\ \A u \in d.granted : p2[u] = "semWait"
  <2>1. GateShape(d, p2) /\ d.free = s.free /\ d.granted = s.granted \ {t}
    BY <1>0, WithdrawOK
  <2> HIDE DEF d, p2
  <2>2. QED
    BY <2>1 DEF GateShape
<1>2. p2[t] = "idle" /\ \A u \in Task \ {t} : p2[u] = p[u]
  BY <1>0 DEF GateOK, GateShape
<1> HIDE DEF d, p2
<1>3. /\ b \in SemType /\ b.free = s.free + 1 /\ b.queue = d.queue
      /\ b.granted = s.granted \ {t}
  <2>1. d \in SemType /\ d.free = s.free /\ d.granted = s.granted \ {t}
    BY <1>1
  <2>2. QED
    BY <1>0, <2>1 DEF SemType
<1> HIDE DEF b
<1>4. t \in Out(s, p) /\ Out(b, p2) = Out(s, p) \ {t}
  BY <1>0, <1>2, <1>3 DEF Out, PastGate
<1>5. Cardinality(Out(b, p2)) = Cardinality(Out(s, p)) - 1
  BY <1>0, <1>4, OutType, CountTasks
<1>6. b.free + Cardinality(Out(b, p2)) = Cap
  <2>1. s.free + Cardinality(Out(s, p)) = Cap
    BY DEF GateOK, GateShape
  <2>2. QED
    BY <1>0, <1>3, <1>5, <2>1, OutType
<1>7. /\ \A i \in 1 .. Len(b.queue) : p2[b.queue[i]] = "semWait"
      /\ \A u \in b.granted : p2[u] = "semWait"
      /\ IsInjective(b.queue)
  BY <1>1, <1>3
<1>8. GateOK(b, p2) /\ b.free > 0
  BY <1>0, <1>1, <1>3, <1>6, <1>7 DEF GateOK, GateShape
<1>9. QED
  BY <1>4, <1>8 DEF b, d, p2

-----------------------------------------------------------------------------
(* The steps of the specification. *)

\* What a gate does to a task that reaches it: it is past the semaphore.
LEMMA GatesKeepPermit ==
  ASSUME NEW t \in Task
  PROVE  /\ TpmGate(t) => \E w \in PastGate : pc' = [pc EXCEPT ![t] = w]
         /\ RpmGate(t) => \E w \in PastGate : pc' = [pc EXCEPT ![t] = w]
  BY DEF TpmGate, RpmGate, TpmCharge, Goto, PastGate

\* The permits that are out after a step: nobody's changes, one task enters, one
\* leaves, or one leaves and its permit goes to another.
PermitMove ==
  LET old == Out(sem, pc)
      new == Out(sem', pc')
  IN \/ new = old
     \/ \E d \in Task \ old : sem.free > 0 /\ new = old \cup {d}
     \/ \E t \in old : new = old \ {t}
     \/ \E t \in old, d \in Task : d \notin old \ {t} /\ new = (old \ {t}) \cup {d}

LEMMA CallStep ==
  ASSUME GateInv, NEW t \in Task, Acquire(t)
  PROVE  GateOK(sem', pc') /\ PermitMove
<1>1. CASE ~Locked /\ sem' = [sem EXCEPT !.free = @ - 1] /\ RpmGate(t)
  <2>1. PICK w \in PastGate : pc' = [pc EXCEPT ![t] = w]
    BY <1>1, GatesKeepPermit
  <2>2. pc[t] = "idle" /\ sem.free # 0 /\ sem.free \in Nat
    BY <1>1 DEF Acquire, Locked, GateInv, GateOK, GateShape, SemType
  <2>3. /\ GateOK(sem', pc') /\ t \notin Out(sem, pc)
        /\ Out(sem', pc') = Out(sem, pc) \cup {t}
    <3>1. /\ sem' \in SemType /\ sem'.free + 1 = sem.free
          /\ sem'.queue = sem.queue /\ sem'.granted = sem.granted
      <4>1. sem \in SemType /\ sem.free - 1 \in Nat
        BY <2>2 DEF GateInv, GateOK, GateShape
      <4>2. sem' = [sem EXCEPT !.free = sem.free - 1]
        BY <1>1
      <4>3. QED
        BY <4>1, <4>2 DEF SemType
    <3>2. GateOK(sem, pc) /\ pc[t] = "idle"
      BY <2>2 DEF GateInv
    <3>3. /\ GateShape(sem', pc') /\ t \notin Out(sem, pc)
          /\ Out(sem', pc') = Out(sem, pc) \cup {t}
      <4>1. SameWaiters(sem', sem)
        BY <3>1 DEF SameWaiters
      <4>2. GateShape(sem', [pc EXCEPT ![t] = w])
        BY <3>2, <4>1, EnterOK
      <4>3. t \notin Out(sem, pc)
        BY <3>2, <4>1, EnterOK
      <4>4. Out(sem', [pc EXCEPT ![t] = w]) = Out(sem, pc) \cup {t}
        BY <3>2, <4>1, EnterOK
      <4>5. QED
        BY <2>1, <4>2, <4>3, <4>4
    <3>4. Cardinality(Out(sem', pc')) = Cardinality(Out(sem, pc)) + 1
      BY <3>2, <3>3, OutType, CountTasks
    <3>5. sem'.free + Cardinality(Out(sem', pc')) = Cap
      <4>1. /\ sem.free + Cardinality(Out(sem, pc)) = Cap
            /\ Cardinality(Out(sem, pc)) \in Nat /\ sem'.free \in Nat
        BY <3>1, <3>2, OutType DEF GateOK, SemType
      <4>2. QED
        BY <3>1, <3>4, <4>1
    <3>6. QED
      BY <3>3, <3>5 DEF GateOK
  <2>4. QED
    BY <2>2, <2>3 DEF PermitMove
<1>2. CASE /\ sem' = [sem EXCEPT !.queue = Append(@, t)]
           /\ pc' = [pc EXCEPT ![t] = "semWait"]
  BY <1>2, QueueOK DEF Acquire, GateInv, PermitMove
<1>3. QED
  BY <1>1, <1>2 DEF Acquire, Goto

LEMMA ResumeStep ==
  ASSUME GateInv, NEW t \in Task, SemResume(t) \/ RpmResume(t) \/ TpmResume(t)
  PROVE  GateOK(sem', pc') /\ PermitMove
<1>1. CASE SemResume(t)
  <2> DEFINE s2 == Dequeue(sem, t)
  <2>1. PICK w \in PastGate : pc' = [pc EXCEPT ![t] = w]
    BY <1>1, GatesKeepPermit DEF SemResume
  <2>2. t \in sem.granted /\ sem' = WakeNext(s2)
    BY <1>1 DEF SemResume
  <2>3. GateOK(s2, pc') /\ Out(s2, pc') = Out(sem, pc)
    BY <2>1, <2>2, ResumeOK DEF GateInv
  <2>4. s2.free = sem.free
    BY DEF Dequeue, GateInv, GateOK, GateShape, SemType
  <2> HIDE DEF s2
  <2>5. QED
    BY <2>2, <2>3, <2>4, WakeNextOK DEF PermitMove
<1>2. CASE RpmResume(t) \/ TpmResume(t)
  <2>1. PICK w \in PastGate : pc' = [pc EXCEPT ![t] = w]
    BY <1>2, GatesKeepPermit DEF RpmResume, TpmResume, TpmCharge, Goto, PastGate
  <2>2. pc[t] \in PastGate /\ sem' = sem
    BY <1>2 DEF RpmResume, TpmResume, PastGate
  <2>3. GateOK(sem, pc)
    BY DEF GateInv
  <2>4. /\ GateOK(sem, [pc EXCEPT ![t] = w])
        /\ Out(sem, [pc EXCEPT ![t] = w]) = Out(sem, pc)
    BY <2>2, <2>3, MoveOK
  <2>5. GateOK(sem', pc') /\ Out(sem', pc') = Out(sem, pc)
    BY <2>1, <2>2, <2>4
  <2>6. QED
    BY <2>5 DEF PermitMove
<1>3. QED
  BY <1>1, <1>2

LEMMA LeaveStep ==
  ASSUME GateInv, NEW t \in Task, pc[t] \in PastGate, sem' = Release(sem),
         pc' = [pc EXCEPT ![t] = "idle"]
  PROVE  GateOK(sem', pc') /\ PermitMove
<1> DEFINE s2 == [sem EXCEPT !.free = @ + 1]
<1>1. GateOK(s2, pc') /\ t \in Out(sem, pc) /\ Out(s2, pc') = Out(sem, pc) \ {t}
  BY LeaveOK DEF GateInv
<1>2. sem' = WakeNext(s2) /\ s2.free > 0
  BY DEF Release, GateInv, GateOK, GateShape, SemType
<1> HIDE DEF s2
<1>3. /\ GateOK(WakeNext(s2), pc')
      /\ \/ Out(WakeNext(s2), pc') = Out(s2, pc')
         \/ \E d \in Task \ Out(s2, pc') :
              s2.free > 0 /\ Out(WakeNext(s2), pc') = Out(s2, pc') \cup {d}
  BY <1>1, WakeNextOK
<1>4. QED
  BY <1>1, <1>2, <1>3 DEF PermitMove

LEMMA CancelledStep ==
  ASSUME GateInv, NEW t \in Task, Cancelled(t)
  PROVE  GateOK(sem', pc') /\ PermitMove
<1>1. pc' = [pc EXCEPT ![t] = "idle"]
  BY DEF Cancelled, Goto
<1>2. CASE RpmCancelled(t) \/ TpmCancelled(t)
  BY <1>1, <1>2, LeaveStep DEF RpmCancelled, TpmCancelled, PastGate
<1>3. CASE SemCancelled(t) /\ t \notin sem.granted
  <2>1. sem' = Dequeue(sem, t) /\ pc[t] = "semWait"
    BY <1>3 DEF SemCancelled
  <2>2. /\ GateOK(Dequeue(sem, t), [pc EXCEPT ![t] = "idle"])
        /\ Out(Dequeue(sem, t), [pc EXCEPT ![t] = "idle"]) = Out(sem, pc)
    BY <1>3, <2>1, WithdrawOK DEF GateInv
  <2>3. GateOK(sem', pc') /\ Out(sem', pc') = Out(sem, pc)
    BY <1>1, <2>1, <2>2
  <2>4. QED
    BY <2>3 DEF PermitMove
<1>4. CASE SemCancelled(t) /\ t \in sem.granted
  <2> DEFINE s2 == [Dequeue(sem, t) EXCEPT !.free = @ + 1]
  <2>1. /\ GateOK(s2, [pc EXCEPT ![t] = "idle"]) /\ t \in Out(sem, pc) /\ s2.free > 0
        /\ Out(s2, [pc EXCEPT ![t] = "idle"]) = Out(sem, pc) \ {t}
    BY <1>4, GiveBackOK DEF GateInv
  <2>2. sem' = WakeNext(s2)
    BY <1>4 DEF SemCancelled, Release
  <2> HIDE DEF s2
  <2>3. GateOK(s2, pc') /\ s2.free > 0 /\ Out(s2, pc') = Out(sem, pc) \ {t}
    BY <1>1, <2>1
  <2>4. /\ GateOK(WakeNext(s2), pc')
        /\ \/ Out(WakeNext(s2), pc') = Out(s2, pc')
           \/ \E d \in Task \ Out(s2, pc') :
                s2.free > 0 /\ Out(WakeNext(s2), pc') = Out(s2, pc') \cup {d}
    BY <2>3, WakeNextOK
  <2>5. QED
    BY <2>1, <2>2, <2>3, <2>4 DEF PermitMove
<1>5. QED
  BY <1>2, <1>3, <1>4 DEF Cancelled

-----------------------------------------------------------------------------
(* The invariant, and what it gives. *)

LEMMA InitGate == Init => GateInv
<1> SUFFICES ASSUME Init  PROVE  GateInv
  OBVIOUS
<1>1. sem \in SemType /\ IsInjective(sem.queue) /\ sem.queue = <<>> /\ sem.granted = {}
  BY SlotsAssumption DEF Init, SemType, IsInjective
<1>2. pc \in [Task -> Places] /\ cancelled \subseteq Task
  BY DEF Init, Places
<1>3. Out(sem, pc) = {}
  BY <1>1 DEF Init, Out, PastGate
<1>4. sem.free + Cardinality(Out(sem, pc)) = Cap
  <2>1. Cardinality(Out(sem, pc)) = 0
    BY <1>3, FS_EmptySet
  <2>2. sem.free = Cap /\ Cap \in Nat
    BY SlotsAssumption DEF Init
  <2>3. QED
    BY <2>1, <2>2
<1>5. QED
  BY <1>1, <1>2, <1>4 DEF GateInv, GateOK, GateShape

\* A step of the system keeps the invariant and moves at most one permit.
LEMMA NextGate == GateInv /\ [Next]_vars => GateInv' /\ PermitMove
<1> SUFFICES ASSUME GateInv, [Next]_vars  PROVE  GateInv' /\ PermitMove
  OBVIOUS
<1>1. ASSUME NEW t \in Task, Acquire(t)
      PROVE  GateInv' /\ PermitMove
  BY <1>1, CallStep DEF GateInv, Acquire
<1>2. ASSUME NEW t \in Task, SemResume(t) \/ RpmResume(t) \/ TpmResume(t)
      PROVE  GateInv' /\ PermitMove
  BY <1>2, ResumeStep DEF GateInv, SemResume, RpmResume, TpmResume
<1>3. ASSUME NEW t \in Task, Cancelled(t)
      PROVE  GateInv' /\ PermitMove
  BY <1>3, CancelledStep DEF GateInv, Cancelled
<1>4. ASSUME NEW t \in Task, NEW n, Finish(t, n)
      PROVE  GateInv' /\ PermitMove
  <2>1. /\ pc[t] \in PastGate /\ sem' = Release(sem)
        /\ pc' = [pc EXCEPT ![t] = "idle"] /\ cancelled' = cancelled \ {t}
    BY <1>4 DEF Finish, Goto, PastGate
  <2>2. QED
    BY <2>1, LeaveStep DEF GateInv
<1>5. ASSUME UNCHANGED <<sem, pc>>, cancelled' \subseteq Task
      PROVE  GateInv' /\ PermitMove
  BY <1>5 DEF GateInv, PermitMove
<1>6. ASSUME NEW t \in Task, CancelRequest(t)
      PROVE  GateInv' /\ PermitMove
  BY <1>5, <1>6 DEF CancelRequest, GateInv
<1>7. CASE UNCHANGED <<sem, pc, cancelled>>
  BY <1>5, <1>7 DEF GateInv
<1>8. QED
  BY <1>1, <1>2, <1>3, <1>4, <1>6, <1>7
     DEF Next, Resume, SetRpm, SetTpm, SetDefault, ReadOccupancy, Tick, vars

\* Whatever the tasks, the permits, the limits and the cancellations, the
\* invariant of the gates holds for ever.
THEOREM SlotsGateInv == Spec => []GateInv
  BY InitGate, NextGate, PTL DEF Spec

LEMMA OutIsHolders ==
  ASSUME GateInv
  PROVE  /\ Out(sem, pc) = Holders \cup Granted
         /\ Holders \cap Granted = {}
  BY DEF GateInv, GateOK, GateShape, SemType, Out, PastGate, Holders, Granted

\* Every permit is free, held, or on its way to a woken waiter: none is lost or
\* duplicated by any interleaving of calls, releases and cancellations.
THEOREM SlotsPermits == Spec => []PermitConservation
<1>1. GateInv => PermitConservation
  BY OutIsHolders DEF GateInv, GateOK, GateShape, PermitConservation
<1>2. QED
  BY <1>1, SlotsGateInv, PTL

\* The gates implement bounded admission: one caller comes, goes or is replaced
\* per step, and a newcomer finds fewer than Cap admitted.
THEOREM SlotsRefine == Spec => AdmissionRefined
<1>1. Init => Gate!AdmissionInit
  BY DEF Init, Gate!AdmissionInit, Holders, Granted
<1>2. GateInv /\ GateInv' /\ PermitMove
        => [Gate!AdmissionNext]_(Holders \cup Granted)
  <2> SUFFICES ASSUME GateInv, GateInv', PermitMove
               PROVE  [Gate!AdmissionNext]_(Holders \cup Granted)
    OBVIOUS
  <2>1. Out(sem, pc) = Holders \cup Granted
    BY OutIsHolders
  <2>2. Out(sem', pc') = (Holders \cup Granted)'
    BY DEF GateInv, GateOK, GateShape, SemType, Out, PastGate, Holders, Granted
  <2>3. Out(sem, pc) \subseteq Task /\ (sem.free > 0 => Cardinality(Out(sem, pc)) < Cap)
    <3>1. sem.free \in Nat /\ sem.free + Cardinality(Out(sem, pc)) = Cap
      BY DEF GateInv, GateOK, GateShape, SemType
    <3>2. QED
      BY <3>1, OutType, SlotsAssumption DEF GateInv
  <2>4. ASSUME NEW d \in Task \ Out(sem, pc), sem.free > 0,
               Out(sem', pc') = Out(sem, pc) \cup {d}
        PROVE  Gate!Admit(d)
    BY <2>1, <2>2, <2>3, <2>4 DEF Gate!Admit, Gate!Cardinality, Cardinality
  <2>5. ASSUME NEW t \in Out(sem, pc), Out(sem', pc') = Out(sem, pc) \ {t}
        PROVE  Gate!Leave(t)
    BY <2>1, <2>2, <2>5 DEF Gate!Leave
  <2>6. ASSUME NEW t \in Out(sem, pc), NEW d \in Task, d \notin Out(sem, pc) \ {t},
               Out(sem', pc') = (Out(sem, pc) \ {t}) \cup {d}
        PROVE  \/ (Holders \cup Granted)' = Holders \cup Granted
               \/ Gate!HandOver(t, d)
    BY <2>1, <2>2, <2>6 DEF Gate!HandOver
  <2>7. QED
    BY <2>1, <2>2, <2>3, <2>4, <2>5, <2>6 DEF PermitMove, Gate!AdmissionNext
<1>3. QED
  BY <1>1, <1>2, NextGate, SlotsGateInv, PTL
     DEF Spec, AdmissionRefined, Gate!AdmissionSpec

-----------------------------------------------------------------------------
(* No permit lies idle: as a predicate of a semaphore and of the tasks whose *)
(* cancellation is requested, for the intermediate states of a step.         *)

NoneIdle(s, gone) ==
  s.free > 0 /\ s.granted = {} => \A i \in 1 .. Len(s.queue) : s.queue[i] \in gone

\* Whatever the semaphore looks like, _wake_up_next leaves no permit idle.
LEMMA WakeNextUses ==
  ASSUME NEW s \in SemType
  PROVE  NoneIdle(WakeNext(s), cancelled) /\ WakeNext(s).queue = s.queue
<1> DEFINE queued == {i \in 1 .. Len(s.queue) : s.queue[i] \notin s.granted \cup cancelled}
<1>1. CASE s.free = 0 \/ queued = {}
  <2>1. WakeNext(s) = s
    BY <1>1 DEF WakeNext
  <2>2. s.granted = {} /\ queued = {} => \A i \in 1 .. Len(s.queue) : s.queue[i] \in cancelled
    OBVIOUS
  <2> HIDE DEF queued
  <2>3. QED
    BY <1>1, <2>1, <2>2 DEF NoneIdle, SemType
<1>2. CASE ~(s.free = 0 \/ queued = {})
  <2>1. WakeNext(s) = [s EXCEPT !.free = @ - 1, !.granted = @ \cup {s.queue[Min(queued)]}]
    BY <1>2 DEF WakeNext
  <2> HIDE DEF queued
  <2>2. WakeNext(s).granted # {} /\ WakeNext(s).queue = s.queue
    BY <2>1 DEF SemType
  <2>3. QED
    BY <2>2 DEF NoneIdle
<1>3. QED
  BY <1>1, <1>2

LEMMA ReleaseUses ==
  ASSUME NEW s \in SemType
  PROVE  NoneIdle(Release(s), cancelled) /\ Release(s).queue = s.queue
<1> DEFINE s2 == [s EXCEPT !.free = @ + 1]
<1>1. s2 \in SemType /\ s2.queue = s.queue /\ Release(s) = WakeNext(s2)
  BY DEF SemType, Release
<1> HIDE DEF s2
<1>2. QED
  BY <1>1, WakeNextUses

\* A task that is not in the queue may withdraw its cancellation.
LEMMA GoneFromQueue ==
  ASSUME NEW s, NEW gone, NEW t, NoneIdle(s, gone), \A i \in 1 .. Len(s.queue) : s.queue[i] # t
  PROVE  NoneIdle(s, gone \ {t})
  BY DEF NoneIdle

LEMMA CallUses ==
  ASSUME GateInv, NoneIdle(sem, cancelled), NEW t \in Task, Acquire(t)
  PROVE  NoneIdle(sem', cancelled')
<1>1. sem \in SemType /\ cancelled' = cancelled
  BY DEF GateInv, GateOK, GateShape, Acquire
<1>2. CASE ~Locked /\ sem' = [sem EXCEPT !.free = @ - 1]
  <2>1. sem.free \in Nat /\ sem.free > 0
    BY <1>1, <1>2 DEF Locked, SemType
  <2>2. sem'.free = sem.free - 1 /\ sem'.queue = sem.queue /\ sem'.granted = sem.granted
    BY <1>1, <1>2 DEF SemType
  <2>3. QED
    BY <1>1, <2>1, <2>2 DEF NoneIdle
<1>3. CASE Locked /\ sem' = [sem EXCEPT !.queue = Append(@, t)]
  <2>1. sem'.free = sem.free /\ sem'.granted = sem.granted
    BY <1>1, <1>3 DEF SemType
  <2>2. CASE sem.free = 0
    BY <2>1, <2>2 DEF NoneIdle
  <2>3. CASE \E u \in ToSet(sem.queue) : ~FutureCancelled(u)
    <3>1. PICK i \in 1 .. Len(sem.queue) : ~FutureCancelled(sem.queue[i])
      <4>1. DOMAIN sem.queue = 1 .. Len(sem.queue)
        BY <1>1 DEF SemType
      <4>2. QED
        BY <2>3, <4>1 DEF ToSet
    <3>2. sem.free > 0 => sem.granted # {}
      BY <3>1 DEF NoneIdle, FutureCancelled
    <3>3. QED
      BY <2>1, <3>2 DEF NoneIdle
  <2>4. QED
    BY <1>3, <2>2, <2>3 DEF Locked
<1>4. QED
  BY <1>2, <1>3 DEF Acquire

LEMMA CancelledUses ==
  ASSUME GateInv, NoneIdle(sem, cancelled), NEW t \in Task, Cancelled(t)
  PROVE  NoneIdle(sem', cancelled')
<1>1. /\ sem \in SemType /\ IsInjective(sem.queue) /\ cancelled' = cancelled \ {t}
      /\ \A i \in 1 .. Len(sem.queue) : pc[sem.queue[i]] = "semWait"
  BY DEF GateInv, GateOK, GateShape, Cancelled
<1>2. CASE RpmCancelled(t) \/ TpmCancelled(t)
  <2>1. sem' = Release(sem) /\ \A i \in 1 .. Len(sem.queue) : sem.queue[i] # t
    BY <1>1, <1>2 DEF RpmCancelled, TpmCancelled
  <2>2. QED
    BY <1>1, <2>1, ReleaseUses, GoneFromQueue
<1>3. CASE SemCancelled(t)
  <2> DEFINE s2 == Dequeue(sem, t)
  <2>1. /\ s2 \in SemType /\ s2.free = sem.free /\ s2.granted = sem.granted \ {t}
        /\ \A i \in 1 .. Len(s2.queue) :
             s2.queue[i] # t /\ \E j \in 1 .. Len(sem.queue) : s2.queue[i] = sem.queue[j]
    BY <1>1, DequeueType
  <2>2. sem' = IF t \in sem.granted THEN Release(s2) ELSE s2
    BY <1>3 DEF SemCancelled
  <2> HIDE DEF s2
  <2>3. CASE t \in sem.granted
    BY <1>1, <2>1, <2>2, <2>3, ReleaseUses, GoneFromQueue
  <2>4. CASE t \notin sem.granted
    <3>1. NoneIdle(s2, cancelled)
      BY <2>1, <2>4 DEF NoneIdle
    <3>2. QED
      BY <1>1, <2>1, <2>2, <2>4, <3>1, GoneFromQueue
  <2>5. QED
    BY <2>3, <2>4
<1>4. QED
  BY <1>2, <1>3 DEF Cancelled

LEMMA NextUses ==
  ASSUME GateInv, NoneIdle(sem, cancelled), [Next]_vars
  PROVE  NoneIdle(sem', cancelled')
<1>1. sem \in SemType /\ IsInjective(sem.queue)
  BY DEF GateInv, GateOK, GateShape
<1>2. ASSUME NEW t \in Task, SemResume(t)
      PROVE  NoneIdle(sem', cancelled')
  <2>1. Dequeue(sem, t) \in SemType
    BY <1>1, DequeueType
  <2>2. sem' = WakeNext(Dequeue(sem, t)) /\ cancelled' = cancelled
    BY <1>2 DEF SemResume
  <2>3. QED
    BY <2>1, <2>2, WakeNextUses
<1>3. ASSUME NEW t \in Task, NEW n, Finish(t, n)
      PROVE  NoneIdle(sem', cancelled')
  <2>1. sem' = Release(sem) /\ cancelled' = cancelled \ {t}
    BY <1>3 DEF Finish
  <2>2. \A i \in 1 .. Len(sem.queue) : sem.queue[i] # t
    BY <1>3 DEF Finish, GateInv, GateOK, GateShape
  <2>3. QED
    BY <1>1, <2>1, <2>2, ReleaseUses, GoneFromQueue
<1>4. ASSUME NEW t \in Task, CancelRequest(t)
      PROVE  NoneIdle(sem', cancelled')
  BY <1>4 DEF CancelRequest, NoneIdle
<1>5. ASSUME NEW t \in Task, RpmResume(t) \/ TpmResume(t)
      PROVE  NoneIdle(sem', cancelled')
  BY <1>5 DEF RpmResume, TpmResume
<1>6. CASE UNCHANGED <<sem, cancelled>>
  BY <1>6
<1>7. QED
  BY <1>2, <1>3, <1>4, <1>5, <1>6, CallUses, CancelledUses
     DEF Next, Resume, SetRpm, SetTpm, SetDefault, ReadOccupancy, Tick, vars

\* No permit stays free while a live task waits for one, unless a woken waiter is
\* about to pass the wakeup on: cancellations lose no wakeup.
THEOREM SlotsNoIdlePermit == Spec => []NoIdlePermit
<1>1. Init => NoneIdle(sem, cancelled)
  BY DEF Init, NoneIdle
<1>2. GateInv /\ NoneIdle(sem, cancelled) /\ [Next]_vars => NoneIdle(sem', cancelled')
  BY NextUses
<1>3. GateInv /\ NoneIdle(sem, cancelled) => NoIdlePermit
  <2>1. GateInv => DOMAIN sem.queue = 1 .. Len(sem.queue)
    BY DEF GateInv, GateOK, GateShape, SemType
  <2>2. QED
    BY <2>1 DEF NoneIdle, NoIdlePermit, ToSet
<1> DEFINE J == NoneIdle(sem, cancelled)
<1>4. J' <=> NoneIdle(sem', cancelled')
  BY DEF NoneIdle
<1> HIDE DEF J
<1>5. QED
  <2>1. Init => J
    BY <1>1 DEF J
  <2>2. GateInv /\ J /\ [Next]_vars => J'
    BY <1>2, <1>4 DEF J
  <2>3. GateInv /\ J => NoIdlePermit
    BY <1>3 DEF J
  <2>4. QED
    BY <2>1, <2>2, <2>3, SlotsGateInv, PTL DEF Spec

-----------------------------------------------------------------------------
(* The waiting queues of the RPM and TPM counters, for any tasks, limits and *)
(* windows: they hold suspended tasks only, each once, and let them go in the *)
(* order they came.                                                           *)

IsCounter(c) ==
  /\ "waiters" \in DOMAIN c
  /\ c.waiters \in Seq(Task) /\ IsInjective(c.waiters)

Suffix(old, new) == \E k \in 0 .. Len(old) : new = SubSeq(old, k + 1, Len(old))

\* A counter after a step that wakes waiters: those of a suffix are still queued.
Woken(c, d) == "waiters" \in DOMAIN d /\ Suffix(c.waiters, d.waiters)

\* The queue of a counter, with the place where its tasks are suspended.
QueueInv(c, p, place) ==
  IsCounter(c) /\ \A i \in 1 .. Len(c.waiters) : p[c.waiters[i]] = place

GhostInv == QueueInv(rpm, pc, "rpmWait") /\ QueueInv(tpm, pc, "tpmWait")

\* A queue that lets a waiter go has let go everyone before it.
InOrder(old, new) ==
  \A i \in Left(old, new), j \in DOMAIN old : j < i => old[j] \notin ToSet(new)

-----------------------------------------------------------------------------
(* The operations of a counter *)

LEMMA SameQueue ==
  ASSUME NEW c, IsCounter(c), NEW d, "waiters" \in DOMAIN d, d.waiters = c.waiters
  PROVE  Woken(c, d)
<1>1. c.waiters = SubSeq(c.waiters, 0 + 1, Len(c.waiters))
  BY DEF IsCounter
<1>2. 0 \in 0 .. Len(c.waiters)
  BY DEF IsCounter
<1>3. QED
  BY <1>1, <1>2 DEF Woken, Suffix

LEMMA WokenIsCounter ==
  ASSUME NEW c, IsCounter(c), NEW d, Woken(c, d)
  PROVE  IsCounter(d)
<1>1. PICK k \in 0 .. Len(c.waiters) :
        d.waiters = SubSeq(c.waiters, k + 1, Len(c.waiters))
  BY DEF Woken, Suffix
<1>2. d.waiters \in Seq(Task) /\ IsInjective(d.waiters)
  BY <1>1, SuffixOfDistinct DEF IsCounter
<1>3. QED
  BY <1>2 DEF IsCounter, Woken

LEMMA WokenTwice ==
  ASSUME NEW c, IsCounter(c), NEW d, Woken(c, d), NEW e, Woken(d, e)
  PROVE  Woken(c, e)
<1> DEFINE s == c.waiters
           n == Len(s)
<1>1. PICK k \in 0 .. n : d.waiters = SubSeq(s, k + 1, n)
  BY DEF Woken, Suffix
<1>2. s \in Seq(Task) /\ n \in Nat
  BY DEF IsCounter
<1>3. Len(d.waiters) = n - k
  BY <1>1, <1>2
<1>4. PICK j \in 0 .. n - k : e.waiters = SubSeq(d.waiters, j + 1, n - k)
  BY <1>3 DEF Woken, Suffix
<1> HIDE DEF s, n
<1>5. SubSeq(SubSeq(s, k + 1, n), j + 1, n - k) = SubSeq(s, (k + j) + 1, n)
  <2> DEFINE u == SubSeq(s, k + 1, n)
             v == SubSeq(u, j + 1, n - k)
             w == SubSeq(s, (k + j) + 1, n)
  <2>0. n = Len(s)
    BY DEF n
  <2>1. u \in Seq(Task) /\ Len(u) = n - k /\ \A i \in 1 .. n - k : u[i] = s[i + k]
    BY <1>2, <2>0
  <2>2. w \in Seq(Task) /\ Len(w) = n - (k + j) /\ \A i \in 1 .. n - (k + j) : w[i] = s[i + (k + j)]
    BY <1>2, <2>0
  <2> HIDE DEF u, w
  <2>3. v \in Seq(Task) /\ Len(v) = n - k - j /\ \A i \in 1 .. n - k - j : v[i] = u[i + j]
    BY <1>2, <2>1
  <2> HIDE DEF v
  <2>4. \A i \in 1 .. n - k - j : v[i] = w[i]
    <3> SUFFICES ASSUME NEW i \in 1 .. n - k - j  PROVE  v[i] = w[i]
      OBVIOUS
    <3>1. i + j \in 1 .. n - k /\ (i + j) + k = i + (k + j) /\ i \in 1 .. n - (k + j)
      BY <1>2
    <3>2. QED
      BY <2>1, <2>2, <2>3, <3>1
  <2>5. Len(v) = Len(w)
    BY <1>2, <2>2, <2>3
  <2>6. v = w
    BY <2>2, <2>3, <2>4, <2>5
  <2>7. QED
    BY <2>6 DEF u, v, w
<1>6. k + j \in 0 .. n
  BY <1>2
<1>7. QED
  BY <1>1, <1>4, <1>5, <1>6 DEF Woken, Suffix, s, n

\* _wake finds how many waiters go: those whose needs fit, up to the first that
\* does not.
LEMMA WokenCount ==
  ASSUME NEW c, c.waiters \in Seq(Task), NEW need
  PROVE  LET Over(k) == Promised(c, need)[k] > c.limit
             Stop(k) == (k > 0 => ~Over(k)) /\ (k < Len(c.waiters) => Over(k + 1))
             woken == CHOOSE k \in 0 .. Len(c.waiters) : Stop(k)
         IN woken \in 0 .. Len(c.waiters) /\ Stop(woken)
<1> DEFINE n == Len(c.waiters)
           Over(k) == Promised(c, need)[k] > c.limit
           Stop(k) == (k > 0 => ~Over(k)) /\ (k < n => Over(k + 1))
           woken == CHOOSE k \in 0 .. n : Stop(k)
<1>1. n \in Nat
  OBVIOUS
<1>2. \E k \in 0 .. n : Stop(k)
  <2> DEFINE K == {k \in 0 .. n : k = n \/ Over(k + 1)}
  <2> HIDE DEF Over, n
  <2>1. n \in K /\ K \subseteq Nat
    BY <1>1
  <2>2. PICK m \in K : \A k \in K : m <= k
    <3> HIDE DEF K
    <3> QED  BY <2>1, NatMin
  <2>3. m \in 0 .. n /\ (m < n => Over(m + 1))
    OBVIOUS
  <2>4. m > 0 => ~Over(m)
    <3> SUFFICES ASSUME m > 0, Over(m)  PROVE  FALSE
      OBVIOUS
    <3>1. m - 1 \in 0 .. n /\ (m - 1) + 1 = m /\ ~(m <= m - 1)
      BY <1>1, <2>3
    <3>2. m - 1 \in K
      BY <3>1
    <3>3. QED
      BY <2>2, <3>1, <3>2
  <2>5. QED
    BY <2>3, <2>4
<1>3. woken \in 0 .. n /\ Stop(woken)
  <2> HIDE DEF Stop, n
  <2> QED  BY <1>2
<1> HIDE DEF woken
<1>4. QED
  BY <1>3 DEF woken

\* _wake lets a prefix of the waiters go.
LEMMA WakeWoken ==
  ASSUME NEW c, IsCounter(c), NEW need
  PROVE  Woken(c, Wake(c, need))
<1> DEFINE n == Len(c.waiters)
           Over(k) == Promised(c, need)[k] > c.limit
           Stop(k) == (k > 0 => ~Over(k)) /\ (k < n => Over(k + 1))
           woken == CHOOSE k \in 0 .. n : Stop(k)
<1>1. n \in Nat
  BY DEF IsCounter
<1>3. woken \in 0 .. n
  BY WokenCount DEF IsCounter
<1>4. CASE c.waiters = <<>>
  <2>1. Wake(c, need) = c
    BY <1>4 DEF Wake
  <2>2. QED
    BY <2>1, SameQueue DEF IsCounter
<1>5. CASE c.waiters # <<>>
  <2>1. Expire(c).waiters = c.waiters /\ "waiters" \in DOMAIN Expire(c)
    BY DEF Expire, IsCounter
  <2>2. Wake(c, need) = [Expire(c) EXCEPT !.waiters = SubSeq(@, woken + 1, Len(@))]
    BY <1>5 DEF Wake
  <2> HIDE DEF woken
  <2>3. /\ Wake(c, need).waiters = SubSeq(c.waiters, woken + 1, n)
        /\ "waiters" \in DOMAIN Wake(c, need)
    BY <2>1, <2>2
  <2>4. QED
    BY <1>3, <2>3 DEF Woken, Suffix
<1>6. QED
  BY <1>4, <1>5

LEMMA ChargeWoken ==
  ASSUME NEW c, IsCounter(c), NEW n, NEW need
  PROVE  Woken(c, Charge(c, n, need))
<1> DEFINE d == [c EXCEPT !.used = [a \in Ages |-> Expire(c).used[a] + n]]
<1>1. d.waiters = c.waiters /\ "waiters" \in DOMAIN d
  BY DEF IsCounter
<1> HIDE DEF d
<1>2. IsCounter(d)
  BY <1>1 DEF IsCounter
<1>3. Woken(c, Wake(d, need))
  BY <1>1, <1>2, WakeWoken DEF Woken
<1>4. Charge(c, n, need) = c \/ Charge(c, n, need) = Wake(d, need)
  BY DEF Charge, d
<1>5. QED
  BY <1>3, <1>4, SameQueue DEF IsCounter

LEMMA RefundWoken ==
  ASSUME NEW c, IsCounter(c), NEW n, NEW need
  PROVE  Woken(c, Refund(c, n, need))
<1>1. \A f : LET d == [c EXCEPT !.used = f] IN Woken(c, Wake(d, need))
  <2> TAKE f
  <2> DEFINE d == [c EXCEPT !.used = f]
  <2>1. d.waiters = c.waiters /\ "waiters" \in DOMAIN d
    BY DEF IsCounter
  <2> HIDE DEF d
  <2>2. IsCounter(d)
    BY <2>1 DEF IsCounter
  <2>3. Woken(c, Wake(d, need))
    BY <2>1, <2>2, WakeWoken DEF Woken
  <2>4. QED
    BY <2>3 DEF d
<1>2. \/ Refund(c, n, need) = c
      \/ \E f : Refund(c, n, need) = Wake([c EXCEPT !.used = f], need)
  BY DEF Refund
<1>3. QED
  BY <1>1, <1>2, SameQueue DEF IsCounter

LEMMA SettleWoken ==
  ASSUME NEW c, IsCounter(c), NEW tok, NEW n
  PROVE  Woken(c, Settle(c, tok, n))
<1> DEFINE d == Refund(c, tok.reserved, Reserve)
           e == Charge(d, n, Reserve)
<1>1. Woken(c, d)
  BY RefundWoken
<1> HIDE DEF d
<1>2. IsCounter(d)
  BY <1>1, WokenIsCounter
<1>3. Woken(d, e)
  BY <1>2, ChargeWoken
<1> HIDE DEF e
<1>4. Woken(c, e)
  BY <1>1, <1>3, WokenTwice
<1>5. Settle(c, tok, n) = c \/ Settle(c, tok, n) = e
  BY DEF Settle, d, e
<1>6. QED
  BY <1>4, <1>5, SameQueue DEF IsCounter

-----------------------------------------------------------------------------
(* The steps of the tasks *)

\* Waiters are woken while a task that is not queued here moves, or none does.
LEMMA WokenQueue ==
  ASSUME NEW c, NEW d, Woken(c, d), NEW place, QueueInv(c, pc, place),
         NEW p, \A i \in 1 .. Len(c.waiters) : p[c.waiters[i]] = pc[c.waiters[i]]
  PROVE  QueueInv(d, p, place) /\ InOrder(c.waiters, d.waiters)
<1> DEFINE s == c.waiters
           n == Len(s)
           r == d.waiters
<1>1. IsCounter(c) /\ s \in Seq(Task) /\ n \in Nat /\ IsInjective(s)
  BY DEF QueueInv, IsCounter
<1>2. PICK k \in 0 .. n : r = SubSeq(s, k + 1, n)
  BY DEF Woken, Suffix
<1>3. /\ r \in Seq(Task) /\ Len(r) = n - k
      /\ \A i \in 1 .. n - k : r[i] = s[i + k] /\ i + k \in 1 .. n
  BY <1>1, <1>2
<1>4. IsCounter(d)
  BY <1>1, WokenIsCounter
<1>5. ASSUME NEW i \in 1 .. Len(r)  PROVE  p[r[i]] = place
  <2>1. i + k \in 1 .. n /\ r[i] = s[i + k]
    BY <1>3
  <2>2. QED
    BY <2>1 DEF QueueInv
<1>6. QueueInv(d, p, place)
  BY <1>4, <1>5 DEF QueueInv
<1> HIDE DEF s, n, r
<1>7. ASSUME NEW i \in Left(s, r), NEW j \in DOMAIN s, j < i, s[j] \in ToSet(r)
      PROVE  FALSE
  <2>1. i \in 1 .. n /\ j \in 1 .. n /\ s[i] \notin ToSet(r)
    BY <1>1 DEF Left, n
  <2>2. PICK m \in 1 .. n - k : r[m] = s[j]
    BY <1>3, <1>7 DEF ToSet
  <2>3. m + k \in 1 .. n /\ s[m + k] = s[j]
    BY <1>3, <2>2
  <2>4. m + k = j
    BY <1>1, <2>1, <2>3 DEF IsInjective, n
  <2>5. i - k \in 1 .. n - k /\ (i - k) + k = i
    BY <1>1, <1>7, <2>1, <2>4
  <2>6. r[i - k] = s[i] /\ i - k \in DOMAIN r
    BY <1>3, <2>5
  <2>7. QED
    BY <2>1, <2>6 DEF ToSet
<1>8. InOrder(s, r)
  BY <1>7 DEF InOrder
<1>9. QED
  BY <1>6, <1>8 DEF s, r

\* A task that is not suspended at this gate joins its queue.
LEMMA EnqueueQueue ==
  ASSUME GateInv, NEW c, NEW place, QueueInv(c, pc, place), NEW t \in Task, pc[t] # place
  PROVE  /\ QueueInv(Enqueue(c, t), [pc EXCEPT ![t] = place], place)
         /\ InOrder(c.waiters, Enqueue(c, t).waiters)
<1> DEFINE s == c.waiters
           d == Enqueue(c, t)
           p == [pc EXCEPT ![t] = place]
<1>1. s \in Seq(Task) /\ IsInjective(s) /\ \A i \in 1 .. Len(s) : s[i] # t
  BY DEF QueueInv, IsCounter
<1>2. d.waiters = Append(s, t) /\ "waiters" \in DOMAIN d
  BY DEF Enqueue, Expire, QueueInv, IsCounter
<1> HIDE DEF d
<1>3. IsCounter(d)
  BY <1>1, <1>2, AppendToDistinct DEF IsCounter
<1>4. \A i \in 1 .. Len(Append(s, t)) : p[Append(s, t)[i]] = place
  <2>1. pc \in [Task -> Places]
    BY DEF GateInv, GateOK, GateShape
  <2>2. \A i \in 1 .. Len(s) : p[s[i]] = place
    <3> SUFFICES ASSUME NEW i \in 1 .. Len(s)  PROVE  p[s[i]] = place
      OBVIOUS
    <3>1. s[i] \in Task /\ s[i] # t
      BY <1>1
    <3>2. pc[s[i]] = place
      BY DEF QueueInv
    <3>3. QED
      BY <2>1, <3>1, <3>2
  <2>3. p[t] = place
    BY <2>1
  <2> HIDE DEF p, s
  <2>4. ASSUME NEW i \in 1 .. Len(Append(s, t))  PROVE  p[Append(s, t)[i]] = place
    <3>1. (i \in 1 .. Len(s) /\ Append(s, t)[i] = s[i]) \/ Append(s, t)[i] = t
      BY <1>1
    <3>2. QED
      BY <2>2, <2>3, <3>1
  <2>5. QED
    BY <2>4
<1>5. Left(s, d.waiters) = {}
  <2>1. \A i \in DOMAIN s : s[i] \in ToSet(Append(s, t))
    BY <1>1 DEF ToSet
  <2>2. QED
    BY <1>2, <2>1 DEF Left
<1>6. QED
  BY <1>2, <1>3, <1>4, <1>5 DEF QueueInv, InOrder, d

\* A cancelled task withdraws from the queue it waits in.
LEMMA WithdrawQueue ==
  ASSUME GateInv, NEW c, NEW place, QueueInv(c, pc, place), NEW t \in cancelled
  PROVE  LET d == [c EXCEPT !.waiters = RemoveFirst(@, t)] IN
         /\ QueueInv(d, [pc EXCEPT ![t] = "idle"], place)
         /\ InOrder(c.waiters, d.waiters)
<1> DEFINE s == c.waiters
           d == [c EXCEPT !.waiters = RemoveFirst(@, t)]
           r == RemoveFirst(s, t)
           p == [pc EXCEPT ![t] = "idle"]
<1>1. s \in Seq(Task) /\ IsInjective(s) /\ t \in Task
  BY DEF QueueInv, IsCounter, GateInv
<1>2. d.waiters = r /\ "waiters" \in DOMAIN d
  BY DEF QueueInv, IsCounter
<1>3. /\ r \in Seq(Task) /\ IsInjective(r)
      /\ \A i \in 1 .. Len(r) : r[i] # t /\ \E j \in 1 .. Len(s) : r[i] = s[j]
      /\ \A j \in 1 .. Len(s) : s[j] # t => \E i \in 1 .. Len(r) : r[i] = s[j]
  <2> HIDE DEF s
  <2>1. r \in Seq(Task) /\ IsInjective(r)
    BY <1>1, RemoveFirstFromDistinct
  <2>2. \A i \in 1 .. Len(r) : r[i] # t /\ \E j \in 1 .. Len(s) : r[i] = s[j]
    BY <1>1, RemoveFirstFromDistinct
  <2>3. \A j \in 1 .. Len(s) : s[j] # t => \E i \in 1 .. Len(r) : r[i] = s[j]
    BY <1>1, RemoveFirstFromDistinct
  <2>4. QED
    BY <2>1, <2>2, <2>3
<1> HIDE DEF d, r
<1>4. ASSUME NEW i \in 1 .. Len(r)  PROVE  p[r[i]] = place
  <2>1. PICK j \in 1 .. Len(s) : r[i] = s[j]
    BY <1>3
  <2>2. pc[r[i]] = place /\ r[i] # t
    BY <1>3, <2>1 DEF QueueInv
  <2>3. pc \in [Task -> Places]
    BY DEF GateInv, GateOK, GateShape
  <2>4. r[i] \in Task
    BY <1>3
  <2>5. QED
    BY <2>2, <2>3, <2>4
<1>5. IsCounter(d)
  BY <1>2, <1>3 DEF IsCounter
<1>6. Left(s, r) = {}
  <2> SUFFICES ASSUME NEW j \in Left(s, r)  PROVE  FALSE
    OBVIOUS
  <2>1. j \in 1 .. Len(s) /\ s[j] \notin ToSet(r) /\ s[j] \notin cancelled
    BY <1>1 DEF Left
  <2>2. PICK i \in 1 .. Len(r) : r[i] = s[j]
    BY <1>3, <2>1
  <2>3. QED
    BY <1>3, <2>1, <2>2 DEF ToSet
<1>7. QED
  BY <1>2, <1>4, <1>5, <1>6 DEF QueueInv, InOrder, d

\* What one step does to both queues.
QueuesKept ==
  /\ GhostInv'
  /\ InOrder(rpm.waiters, rpm'.waiters) /\ InOrder(tpm.waiters, tpm'.waiters)

\* A queue and the task that moves: it is not in there.
LEMMA NotQueued ==
  ASSUME GateInv, NEW c, IsCounter(c), NEW t \in Task, NEW w, t \notin ToSet(c.waiters)
  PROVE  \A i \in 1 .. Len(c.waiters) : [pc EXCEPT ![t] = w][c.waiters[i]] = pc[c.waiters[i]]
<1> SUFFICES ASSUME NEW i \in 1 .. Len(c.waiters)
             PROVE  [pc EXCEPT ![t] = w][c.waiters[i]] = pc[c.waiters[i]]
  OBVIOUS
<1>1. c.waiters \in Seq(Task) /\ c.waiters[i] \in Task
  BY DEF IsCounter
<1>2. c.waiters[i] # t
  BY <1>1 DEF ToSet
<1>3. pc \in [Task -> Places]
  BY DEF GateInv, GateOK, GateShape
<1>4. QED
  BY <1>1, <1>2, <1>3

\* The gates: what they do to the queue of their counter and to the next.
LEMMA GateQueues ==
  ASSUME GateInv, GhostInv, NEW t \in Task, pc[t] \notin {"rpmWait", "tpmWait"}
  PROVE  /\ TpmGate(t) /\ Woken(rpm, rpm') => QueuesKept
         /\ RpmGate(t) => QueuesKept
<1>1. /\ QueueInv(rpm, pc, "rpmWait") /\ QueueInv(tpm, pc, "tpmWait")
      /\ IsCounter(rpm) /\ IsCounter(tpm)
  BY DEF GhostInv, QueueInv
<1>2. t \notin ToSet(rpm.waiters) /\ t \notin ToSet(tpm.waiters)
  BY <1>1 DEF QueueInv, IsCounter, ToSet
<1>3. ASSUME NEW w, pc' = [pc EXCEPT ![t] = w], Woken(rpm, rpm')
      PROVE  QueueInv(rpm', pc', "rpmWait") /\ InOrder(rpm.waiters, rpm'.waiters)
  <2>1. \A i \in 1 .. Len(rpm.waiters) : pc'[rpm.waiters[i]] = pc[rpm.waiters[i]]
    <3>1. \A i \in 1 .. Len(rpm.waiters) : rpm.waiters[i] \in Task /\ rpm.waiters[i] # t
      BY <1>1, <1>2 DEF IsCounter, ToSet
    <3>2. pc \in [Task -> Places]
      BY DEF GateInv, GateOK, GateShape
    <3>3. QED
      BY <1>3, <3>1, <3>2
  <2>2. QED
    BY <1>1, <1>3, <2>1, WokenQueue
<1>4. ASSUME NEW w, pc' = [pc EXCEPT ![t] = w], Woken(tpm, tpm')
      PROVE  QueueInv(tpm', pc', "tpmWait") /\ InOrder(tpm.waiters, tpm'.waiters)
  <2>1. \A i \in 1 .. Len(tpm.waiters) : pc'[tpm.waiters[i]] = pc[tpm.waiters[i]]
    <3>1. \A i \in 1 .. Len(tpm.waiters) : tpm.waiters[i] \in Task /\ tpm.waiters[i] # t
      BY <1>1, <1>2 DEF IsCounter, ToSet
    <3>2. pc \in [Task -> Places]
      BY DEF GateInv, GateOK, GateShape
    <3>3. QED
      BY <1>4, <3>1, <3>2
  <2>2. QED
    BY <1>1, <1>4, <2>1, WokenQueue
<1>5. ASSUME TpmGate(t), Woken(rpm, rpm')  PROVE  QueuesKept
  <2>1. CASE tpm' = Charge(tpm, Reserve[t], Reserve) /\ pc' = [pc EXCEPT ![t] = "call"]
    <3>1. Woken(tpm, tpm')
      BY <1>1, <2>1, ChargeWoken
    <3>2. QED
      BY <1>3, <1>4, <1>5, <2>1, <3>1 DEF QueuesKept, GhostInv
  <2>2. CASE tpm' = Enqueue(tpm, t) /\ pc' = [pc EXCEPT ![t] = "tpmWait"]
    <3>1. QueueInv(tpm', pc', "tpmWait") /\ InOrder(tpm.waiters, tpm'.waiters)
      BY <1>1, <2>2, EnqueueQueue
    <3>2. QED
      BY <1>3, <1>5, <2>2, <3>1 DEF QueuesKept, GhostInv
  <2>3. QED
    BY <1>5, <2>1, <2>2 DEF TpmGate, TpmCharge, Goto
<1>6. ASSUME RpmGate(t)  PROVE  QueuesKept
  <2>1. CASE rpm' = Charge(rpm, 1, One) /\ TpmGate(t)
    <3>1. Woken(rpm, rpm')
      BY <1>1, <2>1, ChargeWoken
    <3>2. QED
      BY <1>5, <2>1, <3>1
  <2>2. CASE rpm' = Enqueue(rpm, t) /\ pc' = [pc EXCEPT ![t] = "rpmWait"] /\ tpm' = tpm
    <3>1. QueueInv(rpm', pc', "rpmWait") /\ InOrder(rpm.waiters, rpm'.waiters)
      BY <1>1, <2>2, EnqueueQueue
    <3>2. Woken(tpm, tpm')
      BY <1>1, <2>2, SameQueue DEF IsCounter
    <3>3. QED
      BY <1>4, <2>2, <3>1, <3>2 DEF QueuesKept, GhostInv
  <2>3. QED
    BY <1>6, <2>1, <2>2 DEF RpmGate, Goto
<1>7. QED
  BY <1>5, <1>6

\* The waiters of a gate that a task has just passed do not include it.
LEMMA ResumeQueues ==
  ASSUME GateInv, GhostInv, NEW t \in Task, RpmResume(t) \/ TpmResume(t)
  PROVE  QueuesKept
<1>1. /\ QueueInv(rpm, pc, "rpmWait") /\ QueueInv(tpm, pc, "tpmWait")
      /\ IsCounter(rpm) /\ IsCounter(tpm)
  BY DEF GhostInv, QueueInv
<1>2. t \notin ToSet(rpm.waiters) /\ t \notin ToSet(tpm.waiters)
  BY <1>1 DEF QueueInv, IsCounter, ToSet, RpmResume, TpmResume
<1>3. ASSUME NEW w, pc' = [pc EXCEPT ![t] = w], Woken(rpm, rpm')
      PROVE  QueueInv(rpm', pc', "rpmWait") /\ InOrder(rpm.waiters, rpm'.waiters)
  <2>1. \A i \in 1 .. Len(rpm.waiters) : pc'[rpm.waiters[i]] = pc[rpm.waiters[i]]
    <3>1. \A i \in 1 .. Len(rpm.waiters) : rpm.waiters[i] \in Task /\ rpm.waiters[i] # t
      BY <1>1, <1>2 DEF IsCounter, ToSet
    <3>2. pc \in [Task -> Places]
      BY DEF GateInv, GateOK, GateShape
    <3>3. QED
      BY <1>3, <3>1, <3>2
  <2>2. QED
    BY <1>1, <1>3, <2>1, WokenQueue
<1>4. ASSUME NEW w, pc' = [pc EXCEPT ![t] = w], Woken(tpm, tpm')
      PROVE  QueueInv(tpm', pc', "tpmWait") /\ InOrder(tpm.waiters, tpm'.waiters)
  <2>1. \A i \in 1 .. Len(tpm.waiters) : pc'[tpm.waiters[i]] = pc[tpm.waiters[i]]
    <3>1. \A i \in 1 .. Len(tpm.waiters) : tpm.waiters[i] \in Task /\ tpm.waiters[i] # t
      BY <1>1, <1>2 DEF IsCounter, ToSet
    <3>2. pc \in [Task -> Places]
      BY DEF GateInv, GateOK, GateShape
    <3>3. QED
      BY <1>4, <3>1, <3>2
  <2>2. QED
    BY <1>1, <1>4, <2>1, WokenQueue
<1>5. Woken(rpm, rpm')
  BY <1>1, ChargeWoken, SameQueue DEF RpmResume, TpmResume, IsCounter
<1>6. CASE tpm' = Charge(tpm, Reserve[t], Reserve) /\ pc' = [pc EXCEPT ![t] = "call"]
  <2>1. Woken(tpm, tpm')
    BY <1>1, <1>6, ChargeWoken
  <2>2. QED
    BY <1>3, <1>4, <1>5, <1>6, <2>1 DEF QueuesKept, GhostInv
<1>7. CASE tpm' = Enqueue(tpm, t) /\ pc' = [pc EXCEPT ![t] = "tpmWait"] /\ RpmResume(t)
  <2>1. pc[t] # "tpmWait"
    BY <1>7 DEF RpmResume
  <2>2. QueueInv(tpm', pc', "tpmWait") /\ InOrder(tpm.waiters, tpm'.waiters)
    BY <1>1, <1>7, <2>1, EnqueueQueue
  <2>3. QED
    BY <1>3, <1>5, <1>7, <2>2 DEF QueuesKept, GhostInv
<1>8. QED
  BY <1>6, <1>7 DEF RpmResume, TpmResume, TpmGate, TpmCharge, Goto

\* A step that leaves pc alone, or moves a task that is in no queue.
LEMMA OtherQueues ==
  ASSUME GateInv, GhostInv, NEW t \in Task, NEW w,
         pc' = pc \/ (pc[t] \notin {"rpmWait", "tpmWait"} /\ pc' = [pc EXCEPT ![t] = w]),
         Woken(rpm, rpm'), Woken(tpm, tpm')
  PROVE  QueuesKept
<1>1. /\ QueueInv(rpm, pc, "rpmWait") /\ QueueInv(tpm, pc, "tpmWait")
      /\ IsCounter(rpm) /\ IsCounter(tpm)
  BY DEF GhostInv, QueueInv
<1>2. /\ \A i \in 1 .. Len(rpm.waiters) : pc'[rpm.waiters[i]] = pc[rpm.waiters[i]]
      /\ \A i \in 1 .. Len(tpm.waiters) : pc'[tpm.waiters[i]] = pc[tpm.waiters[i]]
  <2>1. CASE pc' = pc
    BY <2>1
  <2>2. CASE pc[t] \notin {"rpmWait", "tpmWait"} /\ pc' = [pc EXCEPT ![t] = w]
    <3>1. /\ \A i \in 1 .. Len(rpm.waiters) : rpm.waiters[i] # t
          /\ \A i \in 1 .. Len(tpm.waiters) : tpm.waiters[i] # t
      BY <1>1, <2>2 DEF QueueInv
    <3>2. \A i \in 1 .. Len(rpm.waiters) : pc'[rpm.waiters[i]] = pc[rpm.waiters[i]]
      <4>1. \A i \in 1 .. Len(rpm.waiters) :
               rpm.waiters[i] \in Task /\ rpm.waiters[i] # t
        BY <1>1, <3>1 DEF IsCounter
      <4>2. pc \in [Task -> Places]
        BY DEF GateInv, GateOK, GateShape
      <4>3. \A e \in Task : e # t => pc'[e] = pc[e]
        BY <2>2, <4>2
      <4>4. QED
        BY <4>1, <4>3
    <3>3. \A i \in 1 .. Len(tpm.waiters) : pc'[tpm.waiters[i]] = pc[tpm.waiters[i]]
      <4>1. \A i \in 1 .. Len(tpm.waiters) :
               tpm.waiters[i] \in Task /\ tpm.waiters[i] # t
        BY <1>1, <3>1 DEF IsCounter
      <4>2. pc \in [Task -> Places]
        BY DEF GateInv, GateOK, GateShape
      <4>3. \A e \in Task : e # t => pc'[e] = pc[e]
        BY <2>2, <4>2
      <4>4. QED
        BY <4>1, <4>3
    <3>4. QED
      BY <3>2, <3>3
  <2>3. QED
    BY <2>1, <2>2
<1>3. QueueInv(rpm', pc', "rpmWait") /\ InOrder(rpm.waiters, rpm'.waiters)
  BY <1>1, <1>2, WokenQueue
<1>4. QueueInv(tpm', pc', "tpmWait") /\ InOrder(tpm.waiters, tpm'.waiters)
  BY <1>1, <1>2, WokenQueue
<1>5. QED
  BY <1>3, <1>4 DEF QueuesKept, GhostInv

LEMMA CancelledQueues ==
  ASSUME GateInv, GhostInv, NEW t \in Task, Cancelled(t)
  PROVE  QueuesKept
<1>1. /\ QueueInv(rpm, pc, "rpmWait") /\ QueueInv(tpm, pc, "tpmWait")
      /\ IsCounter(rpm) /\ IsCounter(tpm)
  BY DEF GhostInv, QueueInv
<1>2. pc' = [pc EXCEPT ![t] = "idle"] /\ t \in cancelled
  BY DEF Cancelled, Goto
<1>3. ASSUME NEW c, NEW place, QueueInv(c, pc, place), pc[t] # place
      PROVE  QueueInv(c, pc', place) /\ InOrder(c.waiters, c.waiters)
  <2>1. t \notin ToSet(c.waiters) /\ IsCounter(c)
    BY <1>3 DEF QueueInv, IsCounter, ToSet
  <2>2. \A i \in 1 .. Len(c.waiters) : pc'[c.waiters[i]] = pc[c.waiters[i]]
    BY <1>2, <1>3, <2>1, NotQueued
  <2>3. Woken(c, c)
    BY <2>1, SameQueue DEF IsCounter
  <2>4. QED
    BY <1>3, <2>2, <2>3, WokenQueue
<1>4. CASE SemCancelled(t)
  <2>1. rpm' = rpm /\ tpm' = tpm /\ pc[t] = "semWait"
    BY <1>4 DEF SemCancelled
  <2>2. QED
    BY <1>1, <1>3, <2>1 DEF QueuesKept, GhostInv
<1>5. CASE RpmCancelled(t)
  <2>1. /\ rpm' = [rpm EXCEPT !.waiters = RemoveFirst(@, t)]
        /\ tpm' = tpm /\ pc[t] # "tpmWait"
    BY <1>5 DEF RpmCancelled
  <2>2. QueueInv(rpm', pc', "rpmWait") /\ InOrder(rpm.waiters, rpm'.waiters)
    BY <1>1, <1>2, <2>1, WithdrawQueue
  <2>3. QED
    BY <1>1, <1>3, <2>1, <2>2 DEF QueuesKept, GhostInv
<1>6. CASE TpmCancelled(t)
  <2>1. /\ tpm' = [tpm EXCEPT !.waiters = RemoveFirst(@, t)]
        /\ rpm' = rpm /\ pc[t] # "rpmWait"
    BY <1>6 DEF TpmCancelled
  <2>2. QueueInv(tpm', pc', "tpmWait") /\ InOrder(tpm.waiters, tpm'.waiters)
    BY <1>1, <1>2, <2>1, WithdrawQueue
  <2>3. QED
    BY <1>1, <1>3, <2>1, <2>2 DEF QueuesKept, GhostInv
<1>7. QED
  BY <1>4, <1>5, <1>6 DEF Cancelled

LEMMA FinishQueues ==
  ASSUME GateInv, GhostInv, NEW t \in Task, NEW n, Finish(t, n)
  PROVE  QueuesKept
<1> DEFINE done == [token[t] EXCEPT !.settled = TRUE]
           mid == Settle(tpm, token[t], n)
<1>1. IsCounter(rpm) /\ IsCounter(tpm)
  BY DEF GhostInv, QueueInv
<1>2. tpm' = Settle(mid, done, 0) /\ rpm' = rpm
  BY DEF Finish
<1>3. Woken(tpm, mid)
  BY <1>1, SettleWoken
<1> HIDE DEF mid, done
<1>4. IsCounter(mid)
  BY <1>1, <1>3, WokenIsCounter
<1>5. Woken(mid, tpm')
  BY <1>2, <1>4, SettleWoken
<1>6. Woken(tpm, tpm') /\ Woken(rpm, rpm')
  BY <1>1, <1>2, <1>3, <1>5, WokenTwice, SameQueue DEF IsCounter
<1>7. pc[t] \notin {"rpmWait", "tpmWait"} /\ pc' = [pc EXCEPT ![t] = "idle"]
  BY DEF Finish, Goto
<1>8. QED
  BY <1>6, <1>7, OtherQueues

-----------------------------------------------------------------------------
(* The theorems *)

LEMMA InitQueues == Init => GhostInv
  BY DEF Init, Counter, GhostInv, QueueInv, IsCounter, IsInjective

LEMMA NextQueues == GateInv /\ GhostInv /\ [Next]_vars => QueuesKept
<1> SUFFICES ASSUME GateInv, GhostInv, [Next]_vars  PROVE  QueuesKept
  OBVIOUS
<1>1. IsCounter(rpm) /\ IsCounter(tpm)
  BY DEF GhostInv, QueueInv
<1>2. Woken(rpm, rpm) /\ Woken(tpm, tpm)
  BY <1>1, SameQueue DEF IsCounter
<1>3. ASSUME NEW t \in Task, Acquire(t)  PROVE  QueuesKept
  <2>1. pc[t] = "idle"
    BY <1>3 DEF Acquire
  <2>2. CASE RpmGate(t)
    BY <2>1, <2>2, GateQueues
  <2>3. CASE pc' = [pc EXCEPT ![t] = "semWait"] /\ rpm' = rpm /\ tpm' = tpm
    BY <1>2, <2>1, <2>3, OtherQueues
  <2>4. QED
    BY <1>3, <2>2, <2>3 DEF Acquire, Goto
<1>4. ASSUME NEW t \in Task, SemResume(t)  PROVE  QueuesKept
  <2>1. pc[t] \notin {"rpmWait", "tpmWait"} /\ RpmGate(t)
    BY <1>4 DEF SemResume
  <2>2. QED
    BY <2>1, GateQueues
<1>5. ASSUME pc' = pc, Woken(rpm, rpm'), Woken(tpm, tpm')  PROVE  QueuesKept
  <2>1. QueueInv(rpm, pc, "rpmWait") /\ QueueInv(tpm, pc, "tpmWait")
    BY DEF GhostInv
  <2>2. QueueInv(rpm', pc', "rpmWait") /\ InOrder(rpm.waiters, rpm'.waiters)
    BY <1>5, <2>1, WokenQueue
  <2>3. QueueInv(tpm', pc', "tpmWait") /\ InOrder(tpm.waiters, tpm'.waiters)
    BY <1>5, <2>1, WokenQueue
  <2>4. QED
    BY <2>2, <2>3 DEF QueuesKept, GhostInv
<1>6. ASSUME NEW l, SetRpm(l) \/ SetTpm(l)  PROVE  QueuesKept
  <2>1. ASSUME NEW c, IsCounter(c), NEW need  PROVE  Woken(c, SetLimit(c, l, need))
    <3> DEFINE d == [c EXCEPT !.limit = l]
    <3>1. d.waiters = c.waiters /\ "waiters" \in DOMAIN d
      BY <2>1 DEF IsCounter
    <3> HIDE DEF d
    <3>2. IsCounter(d)
      BY <2>1, <3>1 DEF IsCounter
    <3>3. Woken(c, Wake(d, need))
      BY <3>1, <3>2, WakeWoken DEF Woken
    <3>4. QED
      BY <3>3 DEF SetLimit, d
  <2>2. QED
    BY <1>1, <1>2, <1>5, <1>6, <2>1 DEF SetRpm, SetTpm
<1>7. CASE ReadOccupancy \/ Tick
  <2>1. /\ "waiters" \in DOMAIN rpm' /\ rpm'.waiters = rpm.waiters
        /\ "waiters" \in DOMAIN tpm' /\ tpm'.waiters = tpm.waiters /\ pc' = pc
    BY <1>1, <1>7 DEF ReadOccupancy, Tick, Expire, IsCounter
  <2>2. QED
    BY <1>1, <1>5, <2>1, SameQueue
<1>8. CASE UNCHANGED <<rpm, tpm, pc>>
  BY <1>2, <1>5, <1>8
<1>9. QED
  BY <1>3, <1>4, <1>6, <1>7, <1>8, ResumeQueues, CancelledQueues, FinishQueues
     DEF Next, Resume, CancelRequest, SetDefault, vars

\* Whatever the limits, the windows and the cancellations, a counter's queue
\* holds only tasks suspended in its acquire, each of them once.
THEOREM SlotsNoGhosts == Spec => []NoGhostWaiters
<1>1. GhostInv => NoGhostWaiters
  BY DEF GhostInv, QueueInv, IsCounter, NoGhostWaiters, ToSet
<1>2. GateInv /\ GhostInv /\ [Next]_vars => GhostInv'
  BY NextQueues DEF QueuesKept
<1>3. QED
  BY <1>1, <1>2, InitQueues, SlotsGateInv, PTL DEF Spec

\* Wakeups fire in FIFO order: a waiter that is let go leaves nobody behind who
\* queued before it.
THEOREM SlotsFifo == Spec => FifoWakeups
<1>1. GateInv /\ GhostInv /\ [Next]_vars => GhostInv'
  BY NextQueues DEF QueuesKept
<1>2. GateInv /\ GhostInv /\ [Next]_vars =>
        [/\ \A i \in Left(rpm.waiters, rpm'.waiters), j \in DOMAIN rpm.waiters :
              j < i => rpm.waiters[j] \notin ToSet(rpm'.waiters)
         /\ \A i \in Left(tpm.waiters, tpm'.waiters), j \in DOMAIN tpm.waiters :
              j < i => tpm.waiters[j] \notin ToSet(tpm'.waiters)]_vars
  BY NextQueues DEF QueuesKept, InOrder
<1>3. QED
  BY <1>1, <1>2, InitQueues, SlotsGateInv, PTL DEF Spec, FifoWakeups

-----------------------------------------------------------------------------
(* Sums over a finite set *)

\* sum adds up f over the subsets of its domain, taking out an element at a time.
AddsUp(f, sum) ==
  sum = [S \in SUBSET DOMAIN f |->
           IF S = {} THEN 0 ELSE LET x == CHOOSE x \in S : TRUE IN f[x] + sum[S \ {x}]]

\* The recursion of SumOver has a solution: otherwise there is a least size of the
\* subsets for which it has none.
LEMMA SumExists ==
  ASSUME NEW f, IsFiniteSet(DOMAIN f)
  PROVE  \E sum : AddsUp(f, sum)
<1> DEFINE D == DOMAIN f
           ch(S) == CHOOSE x \in S : TRUE
           Sub(n) == {S \in SUBSET D : Cardinality(S) <= n}
           Solves(sum, T) == sum = [S \in T |-> IF S = {} THEN 0 ELSE f[ch(S)] + sum[S \ {ch(S)}]]
           Bad == {n \in Nat : ~ \E sum : Solves(sum, Sub(n))}
<1>1. \A S : S # {} => ch(S) \in S
  OBVIOUS
<1>2. \A S \in SUBSET D : IsFiniteSet(S) /\ Cardinality(S) \in Nat /\ Cardinality(S) <= Cardinality(D)
  BY FS_Subset, FS_CardinalityType
<1>3. \A S \in SUBSET D : \A x \in S : Cardinality(S \ {x}) = Cardinality(S) - 1
  BY <1>2, FS_RemoveElement
<1> HIDE DEF ch
<1>4. Bad = {}
  <2>1. SUFFICES ASSUME Bad # {} PROVE FALSE
    OBVIOUS
  <2>2. PICK n \in Bad : \A m \in Bad : n <= m
    <3>1. Bad \subseteq Nat
      OBVIOUS
    <3> HIDE DEF Bad
    <3>2. QED
      BY <2>1, <3>1, NatMin
  <2>3. n \in Nat /\ ~ \E sum : Solves(sum, Sub(n))
    OBVIOUS
  <2>4. CASE n = 0
    <3>1. \A S \in Sub(0) : S = {}
      <4>1. \A S \in SUBSET D : Cardinality(S) <= 0 => S = {}
        BY <1>2, FS_EmptySet
      <4>2. QED
        BY <4>1
    <3> DEFINE g == [S \in Sub(0) |-> 0]
    <3>2. Solves(g, Sub(0))
      <4> HIDE DEF Sub
      <4> QED  BY <3>1
    <3>3. QED
      <4> HIDE DEF g, Solves, Sub
      <4> QED  BY <2>3, <2>4, <3>2
  <2>5. CASE n # 0
    <3>1. n - 1 \in Nat /\ n - 1 \notin Bad
      <4>1. n - 1 \in Nat /\ ~(n <= n - 1)
        BY <2>3, <2>5
      <4> HIDE DEF Bad
      <4>2. QED
        BY <2>2, <4>1
    <3>2. \E sum : Solves(sum, Sub(n - 1))
      <4> HIDE DEF Solves, Sub
      <4> QED  BY <3>1
    <3>3. PICK g : Solves(g, Sub(n - 1))
      <4> HIDE DEF Solves, Sub
      <4> QED  BY <3>2
    <3> DEFINE h == [S \in Sub(n) |-> IF S = {} THEN 0 ELSE f[ch(S)] + g[S \ {ch(S)}]]
    <3>4. \A S \in Sub(n) : S # {} => S \ {ch(S)} \in Sub(n - 1) /\ S \ {ch(S)} \in Sub(n)
      <4> SUFFICES ASSUME NEW S \in Sub(n), S # {}
                   PROVE  S \ {ch(S)} \in Sub(n - 1) /\ S \ {ch(S)} \in Sub(n)
        OBVIOUS
      <4>1. S \in SUBSET D /\ Cardinality(S) <= n /\ ch(S) \in S /\ Cardinality(S) \in Nat
        BY <1>1, <1>2
      <4>2. Cardinality(S \ {ch(S)}) = Cardinality(S) - 1 /\ S \ {ch(S)} \in SUBSET D
        BY <1>3, <4>1
      <4>3. Cardinality(S \ {ch(S)}) <= n - 1 /\ Cardinality(S \ {ch(S)}) <= n
        BY <2>3, <4>1, <4>2
      <4>4. QED
        BY <4>2, <4>3
    <3>5. \A S \in Sub(n - 1) : S \in Sub(n)
      <4> SUFFICES ASSUME NEW S \in Sub(n - 1) PROVE S \in Sub(n)
        OBVIOUS
      <4>1. Cardinality(S) \in Nat /\ Cardinality(S) <= n - 1 /\ S \in SUBSET D
        BY <1>2
      <4>2. QED
        BY <2>3, <4>1
    <3> HIDE DEF Sub
    <3>6. \A S \in Sub(n - 1) : h[S] = g[S]
      BY <3>3, <3>5
    <3>7. \A S \in Sub(n) : S # {} => h[S \ {ch(S)}] = g[S \ {ch(S)}]
      BY <3>4, <3>6
    <3>8. h = [S \in Sub(n) |-> IF S = {} THEN 0 ELSE f[ch(S)] + h[S \ {ch(S)}]]
      BY <3>7
    <3>9. QED
      <4> HIDE DEF h
      <4> QED  BY <2>3, <3>8
  <2>6. QED
    BY <2>4, <2>5
<1>5. Sub(Cardinality(D)) = SUBSET D /\ Cardinality(D) \in Nat
  BY <1>2
<1>6. PICK sum : Solves(sum, SUBSET D)
  <2> HIDE DEF Solves, Sub
  <2>1. \A n \in Nat : \E sum : Solves(sum, Sub(n))
    BY <1>4
  <2>2. \E sum : Solves(sum, Sub(Cardinality(D)))
    BY <1>5, <2>1
  <2>3. QED
    BY <1>5, <2>2
<1>7. AddsUp(f, sum)
  BY <1>6 DEF AddsUp, ch
<1>8. QED
  BY <1>7

\* SumOver is the value of a solution at the whole domain.
LEMMA SumOverIs ==
  ASSUME NEW f, IsFiniteSet(DOMAIN f)
  PROVE  \E sum : AddsUp(f, sum) /\ SumOver(f) = sum[DOMAIN f]
<1> DEFINE s == CHOOSE sum : AddsUp(f, sum)
<1>1. AddsUp(f, s)
  BY SumExists, Zenon
<1>2. SumOver(f) = s[DOMAIN f]
  BY DEF SumOver, AddsUp
<1>3. QED
  BY <1>1, <1>2

\* Among some subsets of a finite set one has the fewest elements.
LEMMA SmallestSubset ==
  ASSUME NEW D, IsFiniteSet(D), NEW B, B \subseteq SUBSET D, B # {}
  PROVE  \E S \in B : \A T \in B : Cardinality(S) <= Cardinality(T)
<1> DEFINE Sizes == {Cardinality(S) : S \in B}
<1>1. \A S \in B : Cardinality(S) \in Nat
  BY FS_Subset, FS_CardinalityType
<1>2. Sizes \subseteq Nat /\ Sizes # {}
  BY <1>1
<1> HIDE DEF Sizes
<1>3. Min(Sizes) \in Sizes /\ \A n \in Sizes : Min(Sizes) <= n
  BY <1>2, NatMin
<1>4. QED
  BY <1>3 DEF Sizes

\* Any element may be taken out first.
LEMMA SumSplits ==
  ASSUME NEW D, IsFiniteSet(D), NEW f \in [D -> Nat], NEW sum, AddsUp(f, sum)
  PROVE  \A S \in SUBSET D : sum[S] \in Nat /\ \A t \in S : sum[S] = f[t] + sum[S \ {t}]
<1> DEFINE Splits(T) == sum[T] \in Nat /\ \A t \in T : sum[T] = f[t] + sum[T \ {t}]
           Bad == {T \in SUBSET D : ~Splits(T)}
           ch(T) == CHOOSE x \in T : TRUE
<1>1. /\ sum[{}] = 0
      /\ \A T \in SUBSET D : T # {} => ch(T) \in T /\ sum[T] = f[ch(T)] + sum[T \ {ch(T)}]
  <2>1. DOMAIN f = D
    OBVIOUS
  <2>2. \A T \in SUBSET D :
          sum[T] = IF T = {} THEN 0 ELSE f[ch(T)] + sum[T \ {ch(T)}]
    BY <2>1 DEF AddsUp
  <2>3. {} \in SUBSET D /\ \A T : T # {} => ch(T) \in T
    OBVIOUS
  <2> HIDE DEF ch
  <2>4. sum[{}] = 0
    BY <2>2, <2>3
  <2>5. QED
    BY <2>2, <2>3, <2>4
<1> HIDE DEF ch
<1>2. Bad = {}
  <2> SUFFICES ASSUME Bad # {}  PROVE FALSE
    OBVIOUS
  <2>1. PICK T \in Bad : \A U \in Bad : Cardinality(T) <= Cardinality(U)
    <3>1. Bad \subseteq SUBSET D
      OBVIOUS
    <3> HIDE DEF Bad
    <3>2. QED
      BY <3>1, SmallestSubset
  <2>2. T \in SUBSET D /\ ~Splits(T)
    OBVIOUS
  <2>3. T # {}
    <3>1. Splits({})
      BY <1>1
    <3> HIDE DEF Splits
    <3>2. QED
      BY <2>2, <3>1
  <2> DEFINE x == ch(T)
  <2>4. x \in T /\ x \in D /\ sum[T] = f[x] + sum[T \ {x}] /\ f[x] \in Nat
    BY <1>1, <2>2, <2>3
  <2> HIDE DEF x
  <2>5. ASSUME NEW U, U \subseteq T, U # T  PROVE Splits(U)
    <3>1. /\ Cardinality(T) \in Nat /\ Cardinality(U) \in Nat
          /\ Cardinality(U) < Cardinality(T)
      <4>1. IsFiniteSet(T)
        BY <2>2, FS_Subset
      <4>2. QED
        BY <2>5, <4>1, FS_Subset, FS_CardinalityType
    <3>2. U \notin Bad
      <4> HIDE DEF Bad
      <4> QED  BY <2>1, <3>1
    <3>3. U \in SUBSET D
      BY <2>2, <2>5
    <3> HIDE DEF Splits
    <3>4. QED
      BY <3>2, <3>3
  <2>6. sum[T] \in Nat
    <3>1. sum[T \ {x}] \in Nat
      <4>1. T \ {x} \subseteq T /\ T \ {x} # T
        BY <2>4
      <4>2. Splits(T \ {x})
        BY <2>5, <4>1
      <4>3. QED
        BY <4>2
    <3>2. QED
      BY <2>4, <3>1
  <2>7. ASSUME NEW t \in T  PROVE sum[T] = f[t] + sum[T \ {t}]
    <3>1. CASE t = x
      BY <2>4, <3>1
    <3>2. CASE t # x
      <4>0. /\ T \ {x} \subseteq T /\ T \ {x} # T /\ t \in T \ {x}
            /\ T \ {t} \subseteq T /\ T \ {t} # T /\ x \in T \ {t}
            /\ (T \ {t}) \ {x} \subseteq T /\ (T \ {t}) \ {x} # T
        BY <2>4, <3>2
      <4>1. sum[T \ {x}] = f[t] + sum[(T \ {x}) \ {t}]
        <5>1. Splits(T \ {x})
          BY <2>5, <4>0
        <5>2. QED
          BY <4>0, <5>1
      <4>2. sum[T \ {t}] = f[x] + sum[(T \ {t}) \ {x}]
        <5>1. Splits(T \ {t})
          BY <2>5, <4>0
        <5>2. QED
          BY <4>0, <5>1
      <4>3. (T \ {x}) \ {t} = (T \ {t}) \ {x}
        OBVIOUS
      <4>4. sum[(T \ {t}) \ {x}] \in Nat
        <5>1. Splits((T \ {t}) \ {x})
          BY <2>5, <4>0
        <5>2. QED
          BY <5>1
      <4>5. f[t] \in Nat
        BY <2>2
      <4> DEFINE r == sum[(T \ {t}) \ {x}]
                 a == f[t]
                 b == f[x]
      <4>6. sum[T \ {x}] = a + r /\ sum[T \ {t}] = b + r /\ sum[T] = b + sum[T \ {x}]
        BY <2>4, <4>1, <4>2, <4>3
      <4>7. a \in Nat /\ b \in Nat /\ r \in Nat
        BY <2>4, <4>4, <4>5
      <4> HIDE DEF r, a, b
      <4>8. sum[T] = b + (a + r) /\ a + sum[T \ {t}] = a + (b + r)
        BY <4>6
      <4>9. b + (a + r) = a + (b + r)
        BY <4>7
      <4>10. sum[T] = a + sum[T \ {t}]
        BY <4>8, <4>9
      <4>11. QED
        BY <4>10 DEF a
    <3>3. QED
      BY <3>1, <3>2
  <2>8. QED
    BY <2>2, <2>6, <2>7
<1>3. QED
  BY <1>2

\* Functions that agree on a set have the same sum there.
LEMMA SumsAgree ==
  ASSUME NEW D, IsFiniteSet(D), NEW f \in [D -> Nat], NEW g \in [D -> Nat],
         NEW F, AddsUp(f, F), NEW G, AddsUp(g, G),
         NEW S \in SUBSET D, \A x \in S : f[x] = g[x]
  PROVE  F[S] = G[S]
<1> DEFINE Bad == {T \in SUBSET S : F[T] # G[T]}
           ch(T) == CHOOSE x \in T : TRUE
<1>1. /\ F[{}] = 0 /\ G[{}] = 0
      /\ \A T \in SUBSET D : T # {} => /\ ch(T) \in T
                                       /\ F[T] = f[ch(T)] + F[T \ {ch(T)}]
                                       /\ G[T] = g[ch(T)] + G[T \ {ch(T)}]
  <2>1. DOMAIN f = D /\ DOMAIN g = D
    OBVIOUS
  <2>2. \A T \in SUBSET D :
          F[T] = IF T = {} THEN 0 ELSE f[ch(T)] + F[T \ {ch(T)}]
    BY <2>1 DEF AddsUp
  <2>3. \A T \in SUBSET D :
          G[T] = IF T = {} THEN 0 ELSE g[ch(T)] + G[T \ {ch(T)}]
    BY <2>1 DEF AddsUp
  <2>4. {} \in SUBSET D /\ \A T : T # {} => ch(T) \in T
    OBVIOUS
  <2> HIDE DEF ch
  <2>5. F[{}] = 0 /\ G[{}] = 0
    BY <2>2, <2>3, <2>4
  <2>6. QED
    BY <2>2, <2>3, <2>4, <2>5
<1> HIDE DEF ch
<1>2. Bad = {}
  <2> SUFFICES ASSUME Bad # {}  PROVE FALSE
    OBVIOUS
  <2>1. PICK T \in Bad : \A U \in Bad : Cardinality(T) <= Cardinality(U)
    <3>1. Bad \subseteq SUBSET S /\ IsFiniteSet(S)
      BY FS_Subset
    <3> HIDE DEF Bad
    <3>2. QED
      BY <3>1, SmallestSubset
  <2>2. T \in SUBSET S /\ T \in SUBSET D /\ F[T] # G[T]
    OBVIOUS
  <2>3. T # {}
    BY <1>1, <2>2
  <2> DEFINE x == ch(T)
  <2>4. x \in T /\ F[T] = f[x] + F[T \ {x}] /\ G[T] = g[x] + G[T \ {x}]
    BY <1>1, <2>2, <2>3
  <2> HIDE DEF x
  <2>5. f[x] = g[x]
    BY <2>2, <2>4
  <2>6. T \ {x} \notin Bad
    <3>1. IsFiniteSet(T)
      BY <2>2, FS_Subset
    <3>2. /\ Cardinality(T) \in Nat /\ Cardinality(T \ {x}) \in Nat
          /\ Cardinality(T \ {x}) < Cardinality(T)
      BY <2>4, <3>1, FS_Subset, FS_CardinalityType
    <3> HIDE DEF Bad
    <3>3. QED
      BY <2>1, <3>2
  <2>7. F[T \ {x}] = G[T \ {x}]
    BY <2>2, <2>6
  <2>8. QED
    BY <2>2, <2>4, <2>5, <2>7
<1>3. QED
  BY <1>2

\* What a change of one value does to the sum.
LEMMA SumOfChange ==
  ASSUME NEW D, IsFiniteSet(D), NEW t \in D, NEW f \in [D -> Nat], NEW g \in [D -> Nat],
         \A x \in D \ {t} : g[x] = f[x]
  PROVE  /\ SumOver(f) \in Nat /\ SumOver(g) \in Nat
         /\ SumOver(g) + f[t] = SumOver(f) + g[t]
         /\ f[t] <= SumOver(f)
<1>2. DOMAIN f = D /\ DOMAIN g = D /\ f[t] \in Nat /\ g[t] \in Nat
  OBVIOUS
<1>3. PICK F : AddsUp(f, F) /\ SumOver(f) = F[D]
  BY <1>2, SumOverIs
<1>4. PICK G : AddsUp(g, G) /\ SumOver(g) = G[D]
  BY <1>2, SumOverIs
<1>5. F[D] \in Nat /\ F[D] = f[t] + F[D \ {t}] /\ F[D \ {t}] \in Nat
  <2>1. D \in SUBSET D /\ D \ {t} \in SUBSET D
    OBVIOUS
  <2>2. \A S \in SUBSET D : F[S] \in Nat /\ \A x \in S : F[S] = f[x] + F[S \ {x}]
    <3>1. f \in [D -> Nat] /\ IsFiniteSet(D) /\ AddsUp(f, F)
      BY <1>3
    <3>2. QED
      BY <3>1, SumSplits
  <2>3. QED
    BY <2>1, <2>2
<1>6. G[D] \in Nat /\ G[D] = g[t] + G[D \ {t}]
  <2>1. D \in SUBSET D
    OBVIOUS
  <2>2. \A S \in SUBSET D : G[S] \in Nat /\ \A x \in S : G[S] = g[x] + G[S \ {x}]
    <3>1. g \in [D -> Nat] /\ IsFiniteSet(D) /\ AddsUp(g, G)
      BY <1>4
    <3>2. QED
      BY <3>1, SumSplits
  <2>3. QED
    BY <2>1, <2>2
<1>7. F[D \ {t}] = G[D \ {t}]
  <2>1. D \ {t} \in SUBSET D /\ \A x \in D \ {t} : f[x] = g[x]
    OBVIOUS
  <2>2. QED
    BY <1>3, <1>4, <2>1, SumsAgree
<1> DEFINE r == F[D \ {t}]
<1>8. SumOver(f) = f[t] + r /\ SumOver(g) = g[t] + r /\ r \in Nat
  BY <1>3, <1>4, <1>5, <1>6, <1>7
<1> HIDE DEF r
<1>9. QED
  BY <1>2, <1>8

-----------------------------------------------------------------------------
(* The amounts on the counters, for any limits, reserves and windows *)

CounterType == [limit : Nat, used : [Ages -> Nat], waiters : Seq(Task)]

\* d is c after some of its waiters may have been woken: the amounts of the window
\* are the same, and who lets a waiter go is below the limit.
OnlyWakes(c, d) ==
  /\ d \in CounterType /\ d.limit = c.limit
  /\ \A a \in Recent : d.used[a] = c.used[a]
  /\ d.waiters = c.waiters \/ d.used[Window] < d.limit

LEMMA AgesOf == /\ Window \in Ages /\ Window + 1 \in Ages /\ 0 \in Ages /\ Window \in Recent
                /\ 0 \in Recent /\ Window # Window + 1
                /\ \A a \in Recent : a \in Ages /\ a # Window + 1 /\ a \in Nat
                /\ \A a \in Recent : a # 0 => a - 1 \in Recent
  BY SlotsAssumption DEF Ages, Recent

LEMMA ExpireIs ==
  ASSUME NEW c \in CounterType
  PROVE  /\ Expire(c) \in CounterType /\ Expire(c).limit = c.limit
         /\ Expire(c).waiters = c.waiters
         /\ \A a \in Recent : Expire(c).used[a] = c.used[a]
         /\ Total(Expire(c)) = c.used[Window] /\ c.used[Window] \in Nat
<1> DEFINE u == [c.used EXCEPT ![Window + 1] = c.used[Window]]
<1>1. c.used \in [Ages -> Nat] /\ c.used[Window] \in Nat
  BY AgesOf DEF CounterType
<1>2. u \in [Ages -> Nat] /\ u[Window + 1] = c.used[Window] /\ \A a \in Recent : u[a] = c.used[a]
  BY <1>1, AgesOf
<1>3. Expire(c) = [c EXCEPT !.used = u]
  BY DEF Expire
<1> HIDE DEF u
<1>4. /\ Expire(c) \in CounterType /\ Expire(c).limit = c.limit
      /\ Expire(c).waiters = c.waiters /\ Expire(c).used = u
  BY <1>2, <1>3 DEF CounterType
<1>5. QED
  BY <1>1, <1>2, <1>4 DEF Total

\* sum is the running total of d, from b on.
RunningTotal(sum, n, b, d) ==
  sum = [k \in 0 .. n |-> IF k = 0 THEN b ELSE sum[k - 1] + d[k]]

\* The recursion of Promised has a solution: the waiters are taken one at a time.
LEMMA PromisedExists ==
  ASSUME NEW n \in Nat, NEW b, NEW d
  PROVE  \E sum : RunningTotal(sum, n, b, d)
<1> DEFINE Solves(sum, m) == sum = [k \in 0 .. m |-> IF k = 0 THEN b ELSE sum[k - 1] + d[k]]
           Bad == {m \in Nat : ~ \E sum : Solves(sum, m)}
<1>1. Bad = {}
  <2> SUFFICES ASSUME Bad # {}  PROVE FALSE
    OBVIOUS
  <2>1. PICK m \in Bad : \A k \in Bad : m <= k
    <3>1. Bad \subseteq Nat
      OBVIOUS
    <3> HIDE DEF Bad
    <3>2. QED
      BY <3>1, NatMin
  <2>2. m \in Nat /\ ~ \E sum : Solves(sum, m)
    OBVIOUS
  <2>3. CASE m = 0
    <3> DEFINE g == [k \in 0 .. 0 |-> b]
    <3>1. Solves(g, 0)
      OBVIOUS
    <3> HIDE DEF g, Solves
    <3>2. QED
      BY <2>2, <2>3, <3>1
  <2>4. CASE m # 0
    <3>1. m - 1 \in Nat /\ m - 1 \notin Bad
      <4>1. m - 1 \in Nat /\ ~(m <= m - 1)
        BY <2>2, <2>4
      <4> HIDE DEF Bad
      <4>2. QED
        BY <2>1, <4>1
    <3>2. PICK g : Solves(g, m - 1)
      <4> HIDE DEF Solves
      <4> QED  BY <3>1
    <3> DEFINE h == [k \in 0 .. m |-> IF k = 0 THEN b ELSE g[k - 1] + d[k]]
    <3>3. \A k \in 0 .. m - 1 : h[k] = g[k]
      BY <2>2, <2>4, <3>2
    <3>4. \A k \in 0 .. m : k # 0 => k - 1 \in 0 .. m - 1
      BY <2>2
    <3>5. h = [k \in 0 .. m |-> IF k = 0 THEN b ELSE h[k - 1] + d[k]]
      BY <3>3, <3>4
    <3>6. Solves(h, m)
      <4> HIDE DEF h
      <4> QED  BY <3>5
    <3> HIDE DEF Solves, h
    <3>7. QED
      BY <2>2, <3>6
  <2>5. QED
    BY <2>3, <2>4
<1>2. QED
  BY <1>1 DEF RunningTotal

\* Every waiter asks for something, so what is promised grows.
LEMMA PromisedGrows ==
  ASSUME NEW c \in CounterType, NEW need \in [Task -> Nat \ {0}]
  PROVE  \A k \in 0 .. Len(c.waiters) :
           /\ Promised(c, need)[k] \in Nat
           /\ k > 0 => c.used[Window] < Promised(c, need)[k]
<1> DEFINE n == Len(c.waiters)
           b == Total(Expire(c))
           d == [k \in 1 .. n |-> need[c.waiters[k]]]
           Solves(sum) == sum = [k \in 0 .. n |-> IF k = 0 THEN b ELSE sum[k - 1] + need[c.waiters[k]]]
           p == Promised(c, need)
           Good(k) == p[k] \in Nat /\ b <= p[k] /\ (k > 0 => b < p[k])
           Bad == {k \in 0 .. n : ~Good(k)}
<1>1. c.waiters \in Seq(Task) /\ n \in Nat /\ b \in Nat /\ b = c.used[Window]
  BY ExpireIs DEF CounterType
<1>2. \A k \in 1 .. n : need[c.waiters[k]] \in Nat /\ need[c.waiters[k]] > 0
  <2> SUFFICES ASSUME NEW k \in 1 .. n  PROVE need[c.waiters[k]] \in Nat /\ need[c.waiters[k]] > 0
    OBVIOUS
  <2>1. c.waiters[k] \in Task
    BY <1>1
  <2>2. need[c.waiters[k]] \in Nat \ {0}
    BY <2>1
  <2>3. QED
    BY <2>2
<1>3. \E sum : Solves(sum)
  <2> HIDE DEF b
  <2>0. PICK e : \A k \in 0 .. n : k # 0 => e[k] = need[c.waiters[k]]
    <3>1. \A k \in 0 .. n : k # 0 => d[k] = need[c.waiters[k]]
      BY <1>1
    <3> HIDE DEF d
    <3>2. QED
      BY <3>1
  <2>1. PICK g : RunningTotal(g, n, b, e)
    <3> HIDE DEF n
    <3> QED  BY <1>1, PromisedExists
  <2>3. Solves(g)
    BY <2>0, <2>1 DEF RunningTotal
  <2>4. QED
    BY <2>3
<1>4. Solves(p)
  <2>1. p = CHOOSE sum : Solves(sum)
    BY DEF Promised
  <2> HIDE DEF Solves, p
  <2>2. QED
    BY <1>3, <2>1
<1> HIDE DEF p, b
<1>5. p[0] = b /\ \A k \in 1 .. n : p[k] = p[k - 1] + need[c.waiters[k]]
  <2>1. \A k \in 0 .. n : p[k] = IF k = 0 THEN b ELSE p[k - 1] + need[c.waiters[k]]
    <3> HIDE DEF n
    <3> QED  BY <1>4
  <2>2. 0 \in 0 .. n /\ \A k \in 1 .. n : k \in 0 .. n /\ k # 0
    BY <1>1
  <2> HIDE DEF n
  <2>3. QED
    BY <2>1, <2>2
<1>6. Bad = {}
  <2> SUFFICES ASSUME Bad # {}  PROVE FALSE
    OBVIOUS
  <2>1. PICK k \in Bad : \A j \in Bad : k <= j
    <3>1. Bad \subseteq Nat
      BY <1>1
    <3> HIDE DEF Bad
    <3>2. QED
      BY <3>1, NatMin
  <2>2. k \in 0 .. n /\ ~Good(k)
    OBVIOUS
  <2>3. k # 0
    BY <1>1, <1>5, <2>2
  <2>4. k \in 1 .. n /\ k - 1 \in 0 .. n /\ ~(k <= k - 1)
    BY <1>1, <2>2, <2>3
  <2>5. k - 1 \notin Bad
    <3> HIDE DEF Bad
    <3> QED  BY <2>1, <2>4
  <2>6. p[k - 1] \in Nat /\ b <= p[k - 1]
    BY <2>4, <2>5
  <2>7. p[k] = p[k - 1] + need[c.waiters[k]] /\ need[c.waiters[k]] \in Nat /\ need[c.waiters[k]] > 0
    BY <1>2, <1>5, <2>4
  <2> DEFINE m == need[c.waiters[k]]
  <2> HIDE DEF m, Bad
  <2>8. p[k] = p[k - 1] + m /\ m \in Nat /\ m > 0
    BY <2>7 DEF m
  <2>9. p[k] \in Nat /\ b < p[k]
    BY <1>1, <2>6, <2>8
  <2>10. QED
    BY <1>1, <2>2, <2>9
<1>7. QED
  BY <1>1, <1>6 DEF p, b

\* _wake: the number of waiters that go, all of whose needs fit.
LEMMA WakeIs ==
  ASSUME NEW c \in CounterType, NEW need \in [Task -> Nat \ {0}]
  PROVE  OnlyWakes(c, Wake(c, need))
<1> DEFINE n == Len(c.waiters)
           Over(k) == Promised(c, need)[k] > c.limit
           Stop(k) == (k > 0 => ~Over(k)) /\ (k < n => Over(k + 1))
           woken == CHOOSE k \in 0 .. n : Stop(k)
<1>1. n \in Nat /\ c.waiters \in Seq(Task) /\ c.limit \in Nat
  BY DEF CounterType
<1>3. woken \in 0 .. n /\ Stop(woken)
  BY <1>1, WokenCount
<1>4. CASE c.waiters = <<>>
  <2>1. Wake(c, need) = c
    BY <1>4 DEF Wake
  <2>2. QED
    BY <2>1 DEF OnlyWakes
<1>5. CASE c.waiters # <<>>
  <2>1. /\ Expire(c) \in CounterType /\ Expire(c).limit = c.limit
        /\ Expire(c).waiters = c.waiters
        /\ \A a \in Recent : Expire(c).used[a] = c.used[a]
    BY ExpireIs
  <2> DEFINE q == SubSeq(c.waiters, woken + 1, n)
  <2>2. Wake(c, need) = [Expire(c) EXCEPT !.waiters = q]
    BY <1>5, <2>1 DEF Wake
  <2>3. q \in Seq(Task)
    <3> HIDE DEF woken
    <3> QED  BY <1>1, <1>3
  <2>4. woken = 0 => q = c.waiters
    <3> HIDE DEF woken
    <3> QED  BY <1>1
  <2>5. woken # 0 => c.used[Window] < c.limit
    <3> SUFFICES ASSUME woken # 0  PROVE c.used[Window] < c.limit
      OBVIOUS
    <3>1. woken \in 0 .. n /\ woken > 0 /\ ~Over(woken)
      <4> HIDE DEF woken, Over
      <4> QED  BY <1>1, <1>3
    <3>2. /\ Promised(c, need)[woken] \in Nat
          /\ c.used[Window] < Promised(c, need)[woken]
      <4> HIDE DEF woken
      <4> QED  BY <3>1, PromisedGrows
    <3>3. c.used[Window] \in Nat
      BY ExpireIs
    <3> HIDE DEF woken
    <3>4. QED
      BY <1>1, <3>1, <3>2, <3>3
  <2> HIDE DEF q, woken, n
  <2>6. /\ Wake(c, need) \in CounterType /\ Wake(c, need).limit = c.limit
        /\ Wake(c, need).used = Expire(c).used /\ Wake(c, need).waiters = q
    BY <2>1, <2>2, <2>3 DEF CounterType
  <2>7. \A a \in Recent : Wake(c, need).used[a] = c.used[a]
    BY <2>1, <2>6
  <2>8. Window \in Recent
    BY AgesOf
  <2>9. QED
    BY <2>4, <2>5, <2>6, <2>7, <2>8 DEF OnlyWakes
<1>6. QED
  BY <1>4, <1>5

\* The amounts of the window after n more were charged, or taken back.
Charged(c, d, n) == \A a \in Recent : d.used[a] = c.used[a] + n
Refunded(c, d, n) == \A a \in Recent : d.used[a] = Monus(c.used[a], n)
Same(c, d) == \A a \in Recent : d.used[a] = c.used[a]

\* A counter after one of its operations.
Keeps(c, d) ==
  /\ d \in CounterType /\ d.limit = c.limit
  /\ d.waiters = c.waiters \/ d.used[Window] < d.limit

LEMMA WakeKeeps ==
  ASSUME NEW c \in CounterType, NEW need \in [Task -> Nat \ {0}], NEW u \in [Ages -> Nat]
  PROVE  LET d == Wake([c EXCEPT !.used = u], need)
         IN Keeps(c, d) /\ \A a \in Recent : d.used[a] = u[a]
<1> DEFINE e == [c EXCEPT !.used = u]
           d == Wake(e, need)
<1>1. e \in CounterType /\ e.limit = c.limit /\ e.waiters = c.waiters /\ e.used = u
  BY DEF CounterType
<1> HIDE DEF e
<1>2. OnlyWakes(e, d)
  BY <1>1, WakeIs
<1> HIDE DEF d
<1>3. Keeps(c, d) /\ \A a \in Recent : d.used[a] = u[a]
  BY <1>1, <1>2 DEF OnlyWakes, Keeps
<1>4. QED
  BY <1>3 DEF d, e

LEMMA KeepsSelf ==
  ASSUME NEW c \in CounterType
  PROVE  Keeps(c, c) /\ Same(c, c)
  BY DEF Keeps, Same

LEMMA ChargeIs ==
  ASSUME NEW c \in CounterType, NEW need \in [Task -> Nat \ {0}], NEW n \in Nat
  PROVE  /\ Keeps(c, Charge(c, n, need))
         /\ c.limit = 0 => Same(c, Charge(c, n, need))
         /\ c.limit # 0 => Charged(c, Charge(c, n, need), n)
<1> DEFINE u == [a \in Ages |-> Expire(c).used[a] + n]
           d == Charge(c, n, need)
<1>1. u \in [Ages -> Nat] /\ \A a \in Recent : u[a] = c.used[a] + n
  <2>1. /\ Expire(c).used \in [Ages -> Nat]
        /\ \A a \in Recent : a \in Ages /\ Expire(c).used[a] = c.used[a]
    BY ExpireIs, AgesOf DEF CounterType
  <2> DEFINE v == Expire(c).used
  <2>2. v \in [Ages -> Nat] /\ \A a \in Recent : a \in Ages /\ v[a] = c.used[a]
    BY <2>1
  <2> HIDE DEF v
  <2>3. [a \in Ages |-> v[a] + n] \in [Ages -> Nat]
    BY <2>2
  <2>4. \A a \in Recent : [b \in Ages |-> v[b] + n][a] = c.used[a] + n
    BY <2>2
  <2>5. QED
    BY <2>3, <2>4 DEF v
<1>2. c.limit = 0 \/ n = 0 => d = c
  BY DEF Charge
<1>3. ~(c.limit = 0 \/ n = 0) => d = Wake([c EXCEPT !.used = u], need)
  BY DEF Charge
<1>4. \A a \in Recent : c.used[a] \in Nat
  BY AgesOf DEF CounterType
<1> HIDE DEF d, u
<1>5. CASE c.limit = 0 \/ n = 0
  <2>1. d = c /\ Keeps(c, d) /\ Same(c, d)
    BY <1>2, <1>5, KeepsSelf
  <2>2. n = 0 => Charged(c, d, n)
    BY <1>4, <2>1 DEF Charged
  <2>3. QED
    BY <1>5, <2>1, <2>2 DEF d
<1>6. CASE ~(c.limit = 0 \/ n = 0)
  <2>1. Keeps(c, d) /\ \A a \in Recent : d.used[a] = u[a]
    BY <1>1, <1>3, <1>6, WakeKeeps
  <2>2. Charged(c, d, n)
    BY <1>1, <2>1 DEF Charged
  <2>3. QED
    BY <1>6, <2>1, <2>2 DEF d
<1>7. QED
  BY <1>5, <1>6

LEMMA RefundIs ==
  ASSUME NEW c \in CounterType, NEW need \in [Task -> Nat \ {0}], NEW n \in Nat
  PROVE  /\ Keeps(c, Refund(c, n, need))
         /\ c.limit = 0 => Same(c, Refund(c, n, need))
         /\ c.limit # 0 => Refunded(c, Refund(c, n, need), n)
<1> DEFINE u == [a \in Ages |-> Monus(c.used[a], n)]
           d == Refund(c, n, need)
<1>1. \A a \in Ages : c.used[a] \in Nat /\ Monus(c.used[a], n) \in Nat
  BY DEF CounterType, Monus
<1>2. u \in [Ages -> Nat] /\ \A a \in Recent : u[a] = Monus(c.used[a], n)
  BY <1>1, AgesOf
<1>3. c.limit = 0 \/ n = 0 => d = c
  BY DEF Refund
<1>4. ~(c.limit = 0 \/ n = 0) => d = Wake([c EXCEPT !.used = u], need)
  BY DEF Refund
<1> HIDE DEF d, u
<1>5. CASE c.limit = 0 \/ n = 0
  <2>1. d = c /\ Keeps(c, d) /\ Same(c, d)
    BY <1>3, <1>5, KeepsSelf
  <2>2. n = 0 => Refunded(c, d, n)
    BY <1>1, <2>1, AgesOf DEF Refunded, Monus
  <2>3. QED
    BY <1>5, <2>1, <2>2 DEF d
<1>6. CASE ~(c.limit = 0 \/ n = 0)
  <2>1. Keeps(c, d) /\ \A a \in Recent : d.used[a] = u[a]
    BY <1>2, <1>4, <1>6, WakeKeeps
  <2>2. Refunded(c, d, n)
    BY <1>2, <2>1 DEF Refunded
  <2>3. QED
    BY <1>6, <2>1, <2>2 DEF d
<1>7. QED
  BY <1>5, <1>6

LEMMA EnqueueIs ==
  ASSUME NEW c \in CounterType, NEW t \in Task
  PROVE  /\ Enqueue(c, t) \in CounterType /\ Enqueue(c, t).limit = c.limit
         /\ Same(c, Enqueue(c, t)) /\ Enqueue(c, t).waiters = Append(c.waiters, t)
<1>1. /\ Expire(c) \in CounterType /\ Expire(c).limit = c.limit
      /\ Expire(c).waiters = c.waiters
      /\ \A a \in Recent : Expire(c).used[a] = c.used[a]
  BY ExpireIs
<1> DEFINE e == Expire(c)
           q == Append(c.waiters, t)
<1>2. q \in Seq(Task) /\ Enqueue(c, t) = [e EXCEPT !.waiters = q]
  BY <1>1, AppendProperties DEF CounterType, Enqueue
<1> HIDE DEF e, q
<1>3. e \in CounterType /\ e.limit = c.limit /\ \A a \in Recent : e.used[a] = c.used[a]
  BY <1>1 DEF e
<1>4. /\ Enqueue(c, t) \in CounterType /\ Enqueue(c, t).limit = e.limit
      /\ Enqueue(c, t).used = e.used /\ Enqueue(c, t).waiters = q
  BY <1>2, <1>3 DEF CounterType
<1>5. QED
  BY <1>3, <1>4 DEF Same, q

LEMMA WithdrawIs ==
  ASSUME NEW c \in CounterType, IsInjective(c.waiters), NEW t \in Task
  PROVE  LET d == [c EXCEPT !.waiters = RemoveFirst(@, t)]
         IN /\ d \in CounterType /\ d.limit = c.limit /\ Same(c, d)
            /\ \A u \in ToSet(c.waiters) : u # t => u \in ToSet(d.waiters)
<1> DEFINE r == RemoveFirst(c.waiters, t)
           d == [c EXCEPT !.waiters = r]
<1>1. c.waiters \in Seq(Task)
  BY DEF CounterType
<1>2. /\ r \in Seq(Task)
      /\ \A j \in 1 .. Len(c.waiters) : c.waiters[j] # t =>
           \E i \in 1 .. Len(r) : r[i] = c.waiters[j]
  BY <1>1, RemoveFirstFromDistinct
<1> HIDE DEF r
<1>3. d \in CounterType /\ d.limit = c.limit /\ d.used = c.used /\ d.waiters = r
  BY <1>2 DEF CounterType
<1> HIDE DEF d
<1>4. \A u \in ToSet(c.waiters) : u # t => u \in ToSet(r)
  BY <1>1, <1>2 DEF ToSet
<1>5. /\ d \in CounterType /\ d.limit = c.limit /\ Same(c, d)
      /\ \A u \in ToSet(c.waiters) : u # t => u \in ToSet(d.waiters)
  BY <1>3, <1>4 DEF Same
<1>6. QED
  BY <1>5 DEF d, r

LEMMA SetLimitIs ==
  ASSUME NEW c \in CounterType, NEW need \in [Task -> Nat \ {0}], NEW l \in Nat
  PROVE  LET d == SetLimit(c, l, need)
         IN /\ d \in CounterType /\ d.limit = l /\ Same(c, d)
            /\ d.waiters = c.waiters \/ d.used[Window] < l
<1> DEFINE e == [c EXCEPT !.limit = l]
           d == Wake(e, need)
<1>1. e \in CounterType /\ e.limit = l /\ e.waiters = c.waiters /\ e.used = c.used
  BY DEF CounterType
<1> HIDE DEF e
<1>2. OnlyWakes(e, d)
  BY <1>1, WakeIs
<1> HIDE DEF d
<1>3. /\ d \in CounterType /\ d.limit = l /\ Same(c, d)
      /\ d.waiters = c.waiters \/ d.used[Window] < l
  BY <1>1, <1>2 DEF OnlyWakes, Same
<1>4. QED
  BY <1>3 DEF SetLimit, d, e

TokenType == [reserved : Nat, settled : BOOLEAN]

LEMMA Needs == Reserve \in [Task -> Nat \ {0}] /\ One \in [Task -> Nat \ {0}]
  BY SlotsAssumption DEF One

\* SlotToken.settle: once, and then the reserve is taken back for the cost.
LEMMA SettleIs ==
  ASSUME NEW c \in CounterType, NEW tok \in TokenType, NEW n \in Nat
  PROVE  LET d == Settle(c, tok, n)
         IN /\ d \in CounterType /\ d.limit = c.limit
            /\ tok.settled => d = c
            /\ c.limit = 0 => Same(c, d)
            /\ ~tok.settled /\ c.limit # 0 =>
                 \A a \in Recent : d.used[a] = Monus(c.used[a], tok.reserved) + n
<1> DEFINE m == tok.reserved
           e == Refund(c, m, Reserve)
           d == Charge(e, n, Reserve)
<1>1. CASE tok.settled
  <2>1. Settle(c, tok, n) = c
    BY <1>1 DEF Settle
  <2>2. QED
    BY <1>1, <2>1 DEF Same
<1>2. CASE ~tok.settled
  <2>1. m \in Nat
    BY DEF TokenType
  <2> HIDE DEF m
  <2>2. /\ Keeps(c, e) /\ (c.limit = 0 => Same(c, e)) /\ (c.limit # 0 => Refunded(c, e, m))
    BY <2>1, RefundIs, Needs
  <2> HIDE DEF e
  <2>3. e \in CounterType /\ e.limit = c.limit
    BY <2>2 DEF Keeps
  <2>4. /\ Keeps(e, d) /\ (e.limit = 0 => Same(e, d)) /\ (e.limit # 0 => Charged(e, d, n))
    BY <2>3, ChargeIs, Needs
  <2> HIDE DEF d
  <2>5. d \in CounterType /\ d.limit = c.limit
    BY <2>3, <2>4 DEF Keeps
  <2>6. c.limit = 0 => Same(c, d)
    BY <2>2, <2>3, <2>4 DEF Same
  <2>7. c.limit # 0 => \A a \in Recent : d.used[a] = Monus(c.used[a], m) + n
    BY <2>2, <2>3, <2>4 DEF Refunded, Charged
  <2>8. Settle(c, tok, n) = d
    BY <1>2 DEF Settle, d, e, m
  <2>9. QED
    BY <1>2, <2>5, <2>6, <2>7, <2>8 DEF m
<1>3. QED
  BY <1>1, <1>2

\* A tick: what was charged at most a ticks ago was at most a - 1 ticks old before.
LEMMA TickIs ==
  /\ \A c \in CounterType :
       LET d == [c EXCEPT !.used = Older(@)]
       IN /\ d \in CounterType /\ d.limit = c.limit /\ d.waiters = c.waiters
          /\ \A a \in Recent : d.used[a] = IF a = 0 THEN 0 ELSE c.used[a - 1]
  /\ \A f \in [Recent -> Nat] :
       /\ Older(f) \in [Recent -> Nat]
       /\ \A a \in Recent : Older(f)[a] = IF a = 0 THEN 0 ELSE f[a - 1]
<1>1. ASSUME NEW c \in CounterType
      PROVE  LET d == [c EXCEPT !.used = Older(@)]
             IN /\ d \in CounterType /\ d.limit = c.limit /\ d.waiters = c.waiters
                /\ \A a \in Recent : d.used[a] = IF a = 0 THEN 0 ELSE c.used[a - 1]
  <2> DEFINE u == Older(c.used)
  <2>1. u \in [Ages -> Nat] /\ \A a \in Recent : u[a] = IF a = 0 THEN 0 ELSE c.used[a - 1]
    <3>1. c.used \in [Ages -> Nat]
      BY DEF CounterType
    <3> DEFINE v == c.used
    <3> HIDE DEF v
    <3>2. v \in [Ages -> Nat]
      BY <3>1 DEF v
    <3>3. \A a \in Ages : (IF a = 0 THEN 0 ELSE IF a > Window THEN v[a] ELSE v[a - 1]) \in Nat
      BY <3>2, SlotsAssumption DEF Ages
    <3>4. Older(v) = [a \in Ages |-> IF a = 0 THEN 0 ELSE IF a > Window THEN v[a] ELSE v[a - 1]]
      BY <3>2 DEF Older
    <3>5. \A a \in Recent : a \in Ages /\ ~(a > Window)
      BY SlotsAssumption DEF Ages, Recent
    <3>6. QED
      BY <3>3, <3>4, <3>5 DEF v
  <2> DEFINE d == [c EXCEPT !.used = u]
  <2> HIDE DEF u
  <2>2. d \in CounterType /\ d.limit = c.limit /\ d.waiters = c.waiters /\ d.used = u
    BY <2>1 DEF CounterType
  <2>3. QED
    BY <2>1, <2>2 DEF u
<1>2. ASSUME NEW f \in [Recent -> Nat]
      PROVE  /\ Older(f) \in [Recent -> Nat]
             /\ \A a \in Recent : Older(f)[a] = IF a = 0 THEN 0 ELSE f[a - 1]
  <2>1. Older(f) = [a \in Recent |-> IF a = 0 THEN 0 ELSE IF a > Window THEN f[a] ELSE f[a - 1]]
    BY DEF Older
  <2>2. \A a \in Recent : ~(a > Window) /\ (a # 0 => a - 1 \in Recent)
    BY SlotsAssumption DEF Recent
  <2>3. QED
    BY <2>1, <2>2
<1>3. QED
  BY <1>1, <1>2

-----------------------------------------------------------------------------
(* Type correctness *)

CounterInv ==
  /\ rpm \in CounterType /\ tpm \in CounterType
  /\ token \in [Task -> TokenType]
  /\ default \in Nat \ {0}
  /\ spent \in [Recent -> Nat]

LEMMA GateTypes ==
  ASSUME CounterInv, NEW t \in Task
  PROVE  /\ TpmGate(t) \/ TpmCharge(t) => tpm' \in CounterType /\ token' \in [Task -> TokenType]
         /\ RpmGate(t) => /\ rpm' \in CounterType /\ tpm' \in CounterType
                          /\ token' \in [Task -> TokenType]
<1>1. rpm \in CounterType /\ tpm \in CounterType /\ token \in [Task -> TokenType]
  BY DEF CounterInv
<1>2. Reserve[t] \in Nat
  BY SlotsAssumption
<1>3. Charge(tpm, Reserve[t], Reserve) \in CounterType /\ Charge(rpm, 1, One) \in CounterType
  BY <1>1, <1>2, ChargeIs, Needs DEF Keeps
<1>4. Enqueue(tpm, t) \in CounterType /\ Enqueue(rpm, t) \in CounterType
  BY <1>1, EnqueueIs
<1>5. [token EXCEPT ![t] = [reserved |-> Reserve[t], settled |-> FALSE]] \in [Task -> TokenType]
  BY <1>1, <1>2 DEF TokenType
<1>6. TpmGate(t) \/ TpmCharge(t) => tpm' \in CounterType /\ token' \in [Task -> TokenType]
  BY <1>1, <1>3, <1>4, <1>5 DEF TpmGate, TpmCharge
<1>7. QED
  BY <1>1, <1>3, <1>4, <1>6 DEF RpmGate

\* The second settle of acquire's `finally` finds the token settled.
LEMMA FinishIs ==
  ASSUME CounterInv, NEW t \in Task, NEW n \in Nat, Finish(t, n)
  PROVE  /\ tpm' = Settle(tpm, token[t], n)
         /\ tpm' \in CounterType
         /\ token' = [token EXCEPT ![t] = NoToken]
         /\ token' \in [Task -> TokenType]
         /\ spent' \in [Recent -> Nat]
         /\ \A a \in Recent : spent'[a] = spent[a] + n
<1> DEFINE done == [token[t] EXCEPT !.settled = TRUE]
           mid == Settle(tpm, token[t], n)
<1>1. token[t] \in TokenType /\ tpm \in CounterType /\ token \in [Task -> TokenType]
  BY DEF CounterInv
<1>2. mid \in CounterType
  BY <1>1, SettleIs
<1>3. done \in TokenType /\ done.settled
  BY <1>1 DEF TokenType
<1>4. tpm' = Settle(mid, done, 0)
  BY DEF Finish
<1>5. Settle(mid, done, 0) = mid
  BY <1>3 DEF Settle
<1> HIDE DEF mid, done
<1>6. token' = [token EXCEPT ![t] = NoToken] /\ spent' = [a \in Recent |-> spent[a] + n]
  BY DEF Finish
<1>7. token' \in [Task -> TokenType]
  BY <1>1, <1>6 DEF TokenType, NoToken
<1>8. spent \in [Recent -> Nat]
  BY DEF CounterInv
<1>9. spent' \in [Recent -> Nat] /\ \A a \in Recent : spent'[a] = spent[a] + n
  BY <1>6, <1>8
<1>10. QED
  BY <1>2, <1>4, <1>5, <1>6, <1>7, <1>9 DEF mid

LEMMA InitCounters == Init => CounterInv
<1> SUFFICES ASSUME Init  PROVE CounterInv
  OBVIOUS
<1>1. /\ rpm = [limit |-> Rpm0, used |-> Empty, waiters |-> <<>>]
      /\ tpm = [limit |-> Tpm0, used |-> Empty, waiters |-> <<>>]
  BY DEF Init, Counter
<1>2. Empty \in [Ages -> Nat]
  BY DEF Empty
<1>3. rpm \in CounterType /\ tpm \in CounterType
  BY <1>1, <1>2, SlotsAssumption DEF CounterType
<1>4. token \in [Task -> TokenType] /\ spent \in [Recent -> Nat] /\ default \in Nat \ {0}
  BY SlotsAssumption DEF Init, NoToken, TokenType
<1>5. QED
  BY <1>3, <1>4 DEF CounterInv

\* What a call costs.
LEMMA CostsAreNat == \A n \in Actual \cup {0} : n \in Nat
  BY SlotsAssumption

LEMMA NextCounters == GhostInv /\ CounterInv /\ cancelled \subseteq Task /\ [Next]_vars => CounterInv'
<1> SUFFICES ASSUME GhostInv, CounterInv, cancelled \subseteq Task, [Next]_vars  PROVE CounterInv'
  OBVIOUS
<1>1. /\ rpm \in CounterType /\ tpm \in CounterType /\ token \in [Task -> TokenType]
      /\ default \in Nat \ {0} /\ spent \in [Recent -> Nat]
      /\ IsInjective(rpm.waiters) /\ IsInjective(tpm.waiters)
  BY DEF CounterInv, GhostInv, QueueInv, IsCounter
<1>2. ASSUME NEW t \in Task, Acquire(t) \/ Resume(t)  PROVE CounterInv'
  <2>1. default' = default /\ spent' = spent
    BY <1>2 DEF Acquire, Resume, SemResume, RpmResume, TpmResume, Cancelled
  <2>2. ASSUME rpm' \in CounterType, tpm' \in CounterType, token' \in [Task -> TokenType]
        PROVE  CounterInv'
    BY <1>1, <2>1, <2>2 DEF CounterInv
  <2>3. CASE RpmGate(t)
    BY <2>2, <2>3, GateTypes
  <2>4. CASE UNCHANGED <<rpm, tpm, token>>
    BY <1>1, <2>2, <2>4
  <2>5. CASE rpm' = Charge(rpm, 1, One) /\ TpmGate(t)
    <3>1. Charge(rpm, 1, One) \in CounterType
      BY <1>1, ChargeIs, Needs DEF Keeps
    <3>2. QED
      BY <2>2, <2>5, <3>1, GateTypes
  <2>6. CASE rpm' = rpm /\ TpmCharge(t)
    BY <1>1, <2>2, <2>6, GateTypes
  <2>7. CASE rpm' = [rpm EXCEPT !.waiters = RemoveFirst(@, t)] /\ UNCHANGED <<tpm, token>>
    <3>1. rpm' \in CounterType
      BY <1>1, <2>7, WithdrawIs
    <3>2. QED
      BY <1>1, <2>2, <2>7, <3>1
  <2>8. CASE tpm' = [tpm EXCEPT !.waiters = RemoveFirst(@, t)] /\ UNCHANGED <<rpm, token>>
    <3>1. tpm' \in CounterType
      BY <1>1, <2>8, WithdrawIs
    <3>2. QED
      BY <1>1, <2>2, <2>8, <3>1
  <2>9. QED
    BY <1>2, <2>3, <2>4, <2>5, <2>6, <2>7, <2>8
       DEF Acquire, Resume, SemResume, RpmResume, TpmResume, Cancelled,
           SemCancelled, RpmCancelled, TpmCancelled
<1>3. ASSUME NEW t \in Task, NEW n \in Actual \cup {0}, Finish(t, n)  PROVE CounterInv'
  <2>1. n \in Nat
    BY CostsAreNat
  <2>2. rpm' = rpm /\ default' = default
    BY <1>3 DEF Finish
  <2>3. tpm' \in CounterType /\ token' \in [Task -> TokenType] /\ spent' \in [Recent -> Nat]
    BY <1>3, <2>1, FinishIs
  <2>4. QED
    BY <1>1, <2>2, <2>3 DEF CounterInv
<1>4. ASSUME NEW l \in RpmLimits, SetRpm(l)  PROVE CounterInv'
  <2>1. l \in Nat
    BY SlotsAssumption
  <2>2. rpm' \in CounterType
    BY <1>1, <1>4, <2>1, SetLimitIs, Needs DEF SetRpm
  <2>3. QED
    BY <1>1, <1>4, <2>2 DEF SetRpm, CounterInv
<1>5. ASSUME NEW l \in TpmLimits, SetTpm(l)  PROVE CounterInv'
  <2>1. l \in Nat
    BY SlotsAssumption
  <2>2. tpm' \in CounterType
    BY <1>1, <1>5, <2>1, SetLimitIs, Needs DEF SetTpm
  <2>3. QED
    BY <1>1, <1>5, <2>2 DEF SetTpm, CounterInv
<1>6. ASSUME NEW n \in Defaults, SetDefault(n)  PROVE CounterInv'
  BY <1>1, <1>6, SlotsAssumption DEF SetDefault, CounterInv
<1>7. CASE ReadOccupancy
  BY <1>1, <1>7, ExpireIs DEF ReadOccupancy, CounterInv
<1>8. CASE Tick
  <2>1. rpm' \in CounterType /\ tpm' \in CounterType /\ spent' \in [Recent -> Nat]
    BY <1>1, <1>8, TickIs DEF Tick
  <2>2. QED
    BY <1>1, <1>8, <2>1 DEF Tick, CounterInv
<1>9. CASE UNCHANGED <<rpm, tpm, token, default, spent>>
  BY <1>1, <1>9 DEF CounterInv
<1>10. QED
  BY <1>2, <1>3, <1>4, <1>5, <1>6, <1>7, <1>8, <1>9 DEF Next, CancelRequest, vars

LEMMA SlotsCounters == Spec => [](GateInv /\ GhostInv /\ CounterInv)
<1>1. GateInv /\ GhostInv /\ [Next]_vars => GhostInv'
  BY NextQueues DEF QueuesKept
<1>2. GateInv /\ GhostInv /\ CounterInv /\ [Next]_vars => CounterInv'
  BY NextCounters DEF GateInv
<1>3. QED
  BY <1>1, <1>2, InitQueues, InitCounters, SlotsGateInv, PTL DEF Spec

\* The state keeps its type: the semaphore never holds more permits than it was
\* created with, and no amount of a window goes below zero.
THEOREM SlotsTypeOK == Spec => []TypeOK
<1>1. GateInv /\ GhostInv /\ CounterInv => TypeOK
  <2> SUFFICES ASSUME GateInv, GhostInv, CounterInv  PROVE TypeOK
    OBVIOUS
  <2>1. sem \in [free : 0 .. Cap, queue : Seq(Task), granted : SUBSET Task]
    <3>1. sem \in SemType /\ sem.free + Cardinality(Out(sem, pc)) = Cap
      BY DEF GateInv, GateOK, GateShape
    <3>2. Cardinality(Out(sem, pc)) \in Nat
      BY OutType DEF GateInv
    <3>3. sem.free \in 0 .. Cap
      BY <3>1, <3>2, SlotsAssumption DEF SemType
    <3>4. QED
      BY <3>1, <3>3 DEF SemType
  <2>2. \A c \in {rpm, tpm} : /\ c.limit \in Nat /\ c.used \in [Ages -> Nat]
                              /\ c.waiters \in Seq(Task)
    BY DEF CounterInv, CounterType
  <2>3. pc \in [Task -> Waiting \cup {"idle", "call"}] /\ cancelled \subseteq Task
    BY DEF GateInv, GateOK, GateShape, Places
  <2>4. QED
    BY <2>1, <2>2, <2>3 DEF CounterInv, TokenType, TypeOK
<1>2. QED
  BY <1>1, SlotsCounters, PTL

-----------------------------------------------------------------------------
(* The TPM ledger *)

\* The reserves of the calls under way add up, and change with one task's token.
LEMMA ReservedIs ==
  ASSUME token \in [Task -> TokenType]
  PROVE  Reserved \in Nat
<1> DEFINE f == [t \in Task |-> token[t].reserved]
<1>1. f \in [Task -> Nat]
  BY DEF TokenType
<1>2. IsFiniteSet(Task)
  BY SlotsAssumption
<1>3. DOMAIN f = Task
  OBVIOUS
<1> HIDE DEF f
<1>4. PICK F : AddsUp(f, F) /\ SumOver(f) = F[Task]
  BY <1>2, <1>3, SumOverIs
<1>5. F[Task] \in Nat
  <2>1. \A S \in SUBSET Task : F[S] \in Nat
    BY <1>1, <1>2, <1>4, SumSplits
  <2>2. QED
    BY <2>1
<1>6. QED
  BY <1>4, <1>5 DEF Reserved, f

LEMMA ReservedChange ==
  ASSUME token \in [Task -> TokenType], token' \in [Task -> TokenType], NEW t \in Task,
         \A u \in Task \ {t} : token'[u] = token[u]
  PROVE  /\ Reserved \in Nat /\ Reserved' \in Nat
         /\ Reserved' + token[t].reserved = Reserved + token'[t].reserved
         /\ token[t].reserved <= Reserved
<1> DEFINE f == [u \in Task |-> token[u].reserved]
           g == [u \in Task |-> token'[u].reserved]
<1>1. /\ f \in [Task -> Nat] /\ g \in [Task -> Nat]
      /\ \A u \in Task \ {t} : g[u] = f[u]
      /\ f[t] = token[t].reserved /\ g[t] = token'[t].reserved
  BY DEF TokenType
<1>2. Reserved = SumOver(f) /\ Reserved' = SumOver(g)
  BY DEF Reserved
<1>3. IsFiniteSet(Task)
  BY SlotsAssumption
<1> HIDE DEF f, g
<1>4. /\ SumOver(f) \in Nat /\ SumOver(g) \in Nat
      /\ SumOver(g) + f[t] = SumOver(f) + g[t]
      /\ f[t] <= SumOver(f)
  BY <1>1, <1>3, SumOfChange
<1>5. QED
  BY <1>1, <1>2, <1>4

\* The counter never holds more than the real costs and the reserves under way,
\* of any age, and nothing while it is unlimited; who is not in a call reserves
\* nothing, and who is has not settled.
LedgerInv ==
  /\ \A a \in Recent : tpm.used[a] <= spent[a] + Reserved
  /\ tpm.limit = 0 => \A a \in Recent : tpm.used[a] = 0
  /\ \A t \in Task : IF pc[t] = "call" THEN ~token[t].settled ELSE token[t].reserved = 0

LEMMA InitLedger == Init => LedgerInv
<1> SUFFICES ASSUME Init  PROVE LedgerInv
  OBVIOUS
<1>1. CounterInv
  BY InitCounters
<1>2. Reserved \in Nat
  BY <1>1, ReservedIs DEF CounterInv
<1>3. \A a \in Recent : tpm.used[a] = 0 /\ spent[a] = 0
  BY AgesOf DEF Init, Counter, Empty
<1>4. \A t \in Task : pc[t] = "idle" /\ token[t].reserved = 0
  BY DEF Init, NoToken
<1>5. QED
  BY <1>2, <1>3, <1>4 DEF LedgerInv

\* A step that leaves the amounts of the window and the tokens alone.
LEMMA LedgerSame ==
  ASSUME CounterInv, LedgerInv, GateInv, Same(tpm, tpm'), token' = token, spent' = spent,
         tpm'.limit # 0 \/ tpm'.limit = tpm.limit,
         \/ pc' = pc
         \/ \E t \in Task, w \in Places : pc[t] # "call" /\ w # "call" /\ pc' = [pc EXCEPT ![t] = w]
  PROVE  LedgerInv'
<1>1. Reserved' = Reserved
  BY DEF Reserved
<1>2. \A a \in Recent : tpm'.used[a] <= spent'[a] + Reserved'
  BY <1>1 DEF LedgerInv, Same
<1>3. tpm'.limit = 0 => \A a \in Recent : tpm'.used[a] = 0
  BY DEF LedgerInv, Same
<1>4. pc \in [Task -> Places]
  BY DEF GateInv, GateOK, GateShape
<1>5. \A t \in Task : (pc'[t] = "call") <=> (pc[t] = "call")
  BY <1>4
<1>6. \A t \in Task : IF pc'[t] = "call" THEN ~token'[t].settled ELSE token'[t].reserved = 0
  BY <1>5 DEF LedgerInv
<1>7. QED
  BY <1>2, <1>3, <1>6 DEF LedgerInv

\* A task passes the TPM gate: what it is charged it also reserves.
LEMMA LedgerCharge ==
  ASSUME CounterInv, LedgerInv, GateInv, NEW t \in Task, pc[t] # "call",
         TpmCharge(t), spent' = spent
  PROVE  LedgerInv'
<1> DEFINE r == Reserve[t]
<1>1. r \in Nat
  BY SlotsAssumption
<1>2. /\ tpm \in CounterType /\ token \in [Task -> TokenType] /\ spent \in [Recent -> Nat]
      /\ pc \in [Task -> Places]
  BY DEF CounterInv, GateInv, GateOK, GateShape
<1>3. /\ tpm' = Charge(tpm, r, Reserve) /\ pc' = [pc EXCEPT ![t] = "call"]
      /\ token' = [token EXCEPT ![t] = [reserved |-> r, settled |-> FALSE]]
  BY DEF TpmCharge, Goto
<1> HIDE DEF r
<1>4. /\ tpm'.limit = tpm.limit
      /\ tpm.limit = 0 => Same(tpm, tpm')
      /\ tpm.limit # 0 => Charged(tpm, tpm', r)
  BY <1>1, <1>2, <1>3, ChargeIs, Needs DEF Keeps
<1>5. /\ token' \in [Task -> TokenType] /\ \A u \in Task \ {t} : token'[u] = token[u]
      /\ token'[t].reserved = r /\ ~token'[t].settled
  BY <1>1, <1>2, <1>3 DEF TokenType
<1>6. token[t].reserved = 0
  BY DEF LedgerInv
<1>7. Reserved \in Nat /\ Reserved' = Reserved + r
  BY <1>1, <1>2, <1>5, <1>6, ReservedChange
<1>8. \A a \in Recent : tpm.used[a] \in Nat /\ spent[a] \in Nat
  BY <1>2, AgesOf DEF CounterType
<1>9. \A a \in Recent : tpm'.used[a] <= spent'[a] + Reserved'
  <2> SUFFICES ASSUME NEW a \in Recent  PROVE tpm'.used[a] <= spent'[a] + Reserved'
    OBVIOUS
  <2>1. tpm.used[a] <= spent[a] + Reserved
    BY DEF LedgerInv
  <2>2. tpm'.used[a] = tpm.used[a] \/ tpm'.used[a] = tpm.used[a] + r
    BY <1>4 DEF Same, Charged
  <2>3. QED
    BY <1>1, <1>7, <1>8, <2>1, <2>2
<1>10. tpm'.limit = 0 => \A a \in Recent : tpm'.used[a] = 0
  BY <1>4 DEF LedgerInv, Same
<1>11. \A u \in Task : IF pc'[u] = "call" THEN ~token'[u].settled ELSE token'[u].reserved = 0
  BY <1>2, <1>3, <1>5 DEF LedgerInv
<1>12. QED
  BY <1>9, <1>10, <1>11 DEF LedgerInv

\* A call ends: its reserve is given back, from whatever events, for its cost.
LEMMA LedgerFinish ==
  ASSUME CounterInv, LedgerInv, GateInv, NEW t \in Task, NEW n \in Nat, Finish(t, n)
  PROVE  LedgerInv'
<1>1. /\ tpm \in CounterType /\ token \in [Task -> TokenType] /\ spent \in [Recent -> Nat]
      /\ pc \in [Task -> Places]
  BY DEF CounterInv, GateInv, GateOK, GateShape
<1>2. /\ tpm' = Settle(tpm, token[t], n)
      /\ token' = [token EXCEPT ![t] = NoToken]
      /\ token' \in [Task -> TokenType]
      /\ \A a \in Recent : spent'[a] = spent[a] + n
  BY FinishIs
<1>3. pc[t] = "call" /\ pc' = [pc EXCEPT ![t] = "idle"]
  BY DEF Finish, Goto
<1>4. token[t] \in TokenType /\ ~token[t].settled
  BY <1>1, <1>3 DEF LedgerInv
<1> DEFINE r == token[t].reserved
<1>5. r \in Nat
  BY <1>4 DEF TokenType
<1>6. /\ tpm'.limit = tpm.limit
      /\ tpm.limit = 0 => Same(tpm, tpm')
      /\ tpm.limit # 0 => \A a \in Recent : tpm'.used[a] = Monus(tpm.used[a], r) + n
  <2> DEFINE d == Settle(tpm, token[t], n)
  <2>1. /\ d.limit = tpm.limit
        /\ tpm.limit = 0 => Same(tpm, d)
        /\ ~token[t].settled /\ tpm.limit # 0 =>
             \A a \in Recent : d.used[a] = Monus(tpm.used[a], r) + n
    BY <1>1, <1>4, SettleIs
  <2> HIDE DEF d, r
  <2>2. tpm' = d
    BY <1>2 DEF d
  <2>3. QED
    BY <1>4, <2>1, <2>2
<1>7. /\ \A u \in Task \ {t} : token'[u] = token[u]
      /\ token'[t].reserved = 0
  BY <1>1, <1>2 DEF NoToken
<1>8. /\ Reserved \in Nat /\ Reserved' \in Nat
      /\ Reserved' + r = Reserved /\ r <= Reserved
  <2>1. /\ Reserved \in Nat /\ Reserved' \in Nat
        /\ Reserved' + token[t].reserved = Reserved + token'[t].reserved
        /\ token[t].reserved <= Reserved
    BY <1>1, <1>2, <1>7, ReservedChange
  <2>2. QED
    BY <1>5, <1>7, <2>1
<1> HIDE DEF r
<1>9. \A a \in Recent : tpm.used[a] \in Nat /\ spent[a] \in Nat
  BY <1>1, AgesOf DEF CounterType
<1>10. \A a \in Recent : tpm'.used[a] <= spent'[a] + Reserved'
  <2> SUFFICES ASSUME NEW a \in Recent  PROVE tpm'.used[a] <= spent'[a] + Reserved'
    OBVIOUS
  <2>1. tpm.used[a] <= spent[a] + Reserved /\ spent'[a] = spent[a] + n
    BY <1>2 DEF LedgerInv
  <2>2. CASE tpm.limit = 0
    <3>1. tpm'.used[a] = 0
      BY <1>6, <2>2 DEF LedgerInv, Same
    <3>2. QED
      BY <1>8, <1>9, <2>1, <3>1
  <2>3. CASE tpm.limit # 0
    <3>1. tpm'.used[a] = Monus(tpm.used[a], r) + n
      BY <1>6, <2>3
    <3>2. PICK v, k, o, q : v = tpm.used[a] /\ k = spent[a] /\ o = Reserved' /\ q = Reserved
      OBVIOUS
    <3>3. v \in Nat /\ k \in Nat /\ o \in Nat /\ q \in Nat /\ o + r = q /\ v <= k + q
      BY <1>8, <1>9, <2>1, <3>2
    <3>4. PICK m : m = Monus(v, r)
      OBVIOUS
    <3>5. m \in Nat /\ m <= k + o
      BY <1>5, <3>3, <3>4 DEF Monus
    <3>6. tpm'.used[a] = m + n /\ spent'[a] = k + n
      BY <2>1, <3>1, <3>2, <3>4
    <3>7. m + n <= (k + n) + o
      BY <3>3, <3>5
    <3>8. QED
      BY <3>2, <3>6, <3>7
  <2>4. QED
    BY <2>2, <2>3
<1>11. tpm'.limit = 0 => \A a \in Recent : tpm'.used[a] = 0
  BY <1>6 DEF LedgerInv, Same
<1>12. \A u \in Task : IF pc'[u] = "call" THEN ~token'[u].settled ELSE token'[u].reserved = 0
  BY <1>1, <1>3, <1>7 DEF LedgerInv
<1>13. QED
  BY <1>10, <1>11, <1>12 DEF LedgerInv

LEMMA NextLedger ==
  ASSUME 0 \notin TpmLimits
  PROVE  GateInv /\ GhostInv /\ CounterInv /\ LedgerInv /\ [Next]_vars => LedgerInv'
<1> SUFFICES ASSUME GateInv, GhostInv, CounterInv, LedgerInv, [Next]_vars  PROVE LedgerInv'
  OBVIOUS
<1>1. /\ rpm \in CounterType /\ tpm \in CounterType /\ token \in [Task -> TokenType]
      /\ spent \in [Recent -> Nat]
      /\ IsInjective(rpm.waiters) /\ IsInjective(tpm.waiters)
  BY DEF CounterInv, GhostInv, QueueInv, IsCounter
<1>2. /\ Same(tpm, tpm)
      /\ "idle" \in Places /\ "semWait" \in Places /\ "rpmWait" \in Places /\ "tpmWait" \in Places
  BY DEF Same, Places, Waiting
<1>3. ASSUME NEW t \in Task, pc[t] # "call", token' = token, spent' = spent,
             Same(tpm, tpm'), tpm'.limit = tpm.limit,
             NEW w \in Places, w # "call", pc' = [pc EXCEPT ![t] = w]
      PROVE  LedgerInv'
  BY <1>3, LedgerSame
<1>4. ASSUME NEW t \in Task, TpmGate(t), pc[t] # "call", spent' = spent
      PROVE  LedgerInv'
  <2>1. CASE TpmCharge(t)
    BY <1>4, <2>1, LedgerCharge
  <2>2. CASE tpm' = Enqueue(tpm, t) /\ Goto(t, "tpmWait") /\ UNCHANGED token
    <3>1. Same(tpm, tpm') /\ tpm'.limit = tpm.limit
      BY <1>1, <2>2, EnqueueIs
    <3>2. "tpmWait" # "call" /\ pc' = [pc EXCEPT ![t] = "tpmWait"]
      BY <2>2 DEF Goto
    <3>3. QED
      BY <1>2, <1>3, <1>4, <2>2, <3>1, <3>2
  <2>3. QED
    BY <1>4, <2>1, <2>2 DEF TpmGate
<1>5. ASSUME NEW t \in Task, RpmGate(t), pc[t] # "call", spent' = spent
      PROVE  LedgerInv'
  <2>1. CASE TpmGate(t)
    BY <1>4, <1>5, <2>1
  <2>2. CASE Goto(t, "rpmWait") /\ UNCHANGED <<tpm, token>>
    <3>1. "rpmWait" # "call" /\ pc' = [pc EXCEPT ![t] = "rpmWait"]
      BY <2>2 DEF Goto
    <3>2. QED
      BY <1>2, <1>3, <1>5, <2>2, <3>1
  <2>3. QED
    BY <1>5, <2>1, <2>2 DEF RpmGate
<1>6. ASSUME NEW t \in Task, Acquire(t)  PROVE LedgerInv'
  <2>1. pc[t] # "call" /\ spent' = spent
    BY <1>6 DEF Acquire
  <2>2. CASE RpmGate(t)
    BY <1>5, <2>1, <2>2
  <2>3. CASE Goto(t, "semWait") /\ UNCHANGED <<rpm, tpm, token>>
    <3>1. "semWait" # "call" /\ pc' = [pc EXCEPT ![t] = "semWait"]
      BY <2>3 DEF Goto
    <3>2. QED
      BY <1>2, <1>3, <2>1, <2>3, <3>1
  <2>4. QED
    BY <1>6, <2>2, <2>3 DEF Acquire
<1>7. ASSUME NEW t \in Task, SemResume(t)  PROVE LedgerInv'
  BY <1>5, <1>7 DEF SemResume
<1>8. ASSUME NEW t \in Task, RpmResume(t)  PROVE LedgerInv'
  BY <1>4, <1>8 DEF RpmResume
<1>9. ASSUME NEW t \in Task, TpmResume(t)  PROVE LedgerInv'
  BY <1>9, LedgerCharge DEF TpmResume
<1>10. ASSUME NEW t \in Task, Cancelled(t)  PROVE LedgerInv'
  <2>1. /\ pc' = [pc EXCEPT ![t] = "idle"] /\ token' = token /\ spent' = spent
        /\ "idle" # "call" /\ pc[t] # "call"
    BY <1>10 DEF Cancelled, SemCancelled, RpmCancelled, TpmCancelled, Goto
  <2>2. CASE tpm' = tpm
    BY <1>2, <1>3, <2>1, <2>2
  <2>3. CASE tpm' = [tpm EXCEPT !.waiters = RemoveFirst(@, t)]
    <3>1. Same(tpm, tpm') /\ tpm'.limit = tpm.limit
      BY <1>1, <2>3, WithdrawIs
    <3>2. QED
      BY <1>2, <1>3, <2>1, <3>1
  <2>4. QED
    BY <1>10, <2>2, <2>3 DEF Cancelled, SemCancelled, RpmCancelled, TpmCancelled
<1>11. ASSUME NEW t \in Task, NEW n \in Actual \cup {0}, Finish(t, n)  PROVE LedgerInv'
  BY <1>11, CostsAreNat, LedgerFinish
<1>12. ASSUME pc' = pc, token' = token, spent' = spent, Same(tpm, tpm'),
              tpm'.limit # 0 \/ tpm'.limit = tpm.limit
       PROVE  LedgerInv'
  BY <1>12, LedgerSame
<1>13. ASSUME NEW l \in TpmLimits, SetTpm(l)  PROVE LedgerInv'
  <2>1. l \in Nat /\ l # 0
    BY SlotsAssumption
  <2>2. Same(tpm, tpm') /\ tpm'.limit = l
    BY <1>1, <1>13, <2>1, SetLimitIs, Needs DEF SetTpm
  <2>3. QED
    BY <1>12, <1>13, <2>1, <2>2 DEF SetTpm
<1>14. CASE ReadOccupancy
  <2>1. Same(tpm, tpm') /\ tpm'.limit = tpm.limit
    BY <1>1, <1>14, ExpireIs DEF ReadOccupancy, Same
  <2>2. QED
    BY <1>12, <1>14, <2>1 DEF ReadOccupancy
<1>15. CASE Tick
  <2>1. /\ tpm'.limit = tpm.limit /\ pc' = pc /\ token' = token
        /\ \A a \in Recent : tpm'.used[a] = IF a = 0 THEN 0 ELSE tpm.used[a - 1]
        /\ \A a \in Recent : spent'[a] = IF a = 0 THEN 0 ELSE spent[a - 1]
    BY <1>1, <1>15, TickIs DEF Tick
  <2>2. Reserved' = Reserved /\ Reserved \in Nat
    BY <1>1, <2>1, ReservedIs DEF Reserved
  <2>3. \A a \in Recent : a # 0 => a - 1 \in Recent
    BY AgesOf
  <2>4. \A a \in Recent : tpm'.used[a] <= spent'[a] + Reserved'
    BY <2>1, <2>2, <2>3 DEF LedgerInv
  <2>5. tpm'.limit = 0 => \A a \in Recent : tpm'.used[a] = 0
    BY <2>1, <2>3 DEF LedgerInv
  <2>6. QED
    BY <2>1, <2>4, <2>5 DEF LedgerInv
<1>16. CASE UNCHANGED <<tpm, token, pc, spent>>
  BY <1>2, <1>12, <1>16
<1>17. QED
  BY <1>6, <1>7, <1>8, <1>9, <1>10, <1>11, <1>13, <1>14, <1>15, <1>16
     DEF Next, Resume, CancelRequest, SetRpm, SetDefault, vars

\* As long as nobody switches the TPM limit off under way, the counter never holds
\* more than the real costs of the window and the reserves of the calls under way,
\* although a settle may take its refund from the events of another call.
THEOREM SlotsLedgerCovered ==
  ASSUME 0 \notin TpmLimits
  PROVE  Spec => []LedgerCovered
<1>1. GateInv /\ GhostInv /\ CounterInv /\ LedgerInv => LedgerCovered
  <2> SUFFICES ASSUME CounterInv, LedgerInv  PROVE LedgerCovered
    OBVIOUS
  <2>1. Total(Expire(tpm)) = tpm.used[Window] /\ Window \in Recent
    BY ExpireIs, AgesOf DEF CounterInv
  <2>2. QED
    BY <2>1 DEF LedgerInv, LedgerCovered, Cost
<1>2. GateInv /\ GhostInv /\ CounterInv /\ LedgerInv /\ [Next]_vars => LedgerInv'
  BY NextLedger
<1>3. QED
  BY <1>1, <1>2, InitLedger, SlotsCounters, PTL DEF Spec

-----------------------------------------------------------------------------
(* The RPM window *)

\* The tasks a counter let through that have yet to charge.
Pending(c, p) == {t \in Task : p[t] = "rpmWait" /\ t \notin ToSet(c.waiters)}

Steady(c) == \A a \in Recent : a # 0 => c.used[a - 1] <= c.used[a]

\* With the limit it was created with: a window holds at most Cap - 1 requests
\* too many, those of the tasks that are still to charge included.
Bounded(c, p) == c.used[Window] + Cardinality(Pending(c, p)) <= Rpm0 + Cap - 1

RpmInv ==
  /\ rpm.limit = Rpm0
  /\ Steady(rpm)
  /\ Rpm0 # 0 => Bounded(rpm, pc)

\* All that wait or have passed hold a permit, so there are Cap of them at most.
LEMMA PendingCount ==
  ASSUME NEW s, NEW p, GateOK(s, p), NEW c
  PROVE  /\ Cardinality(Pending(c, p)) \in Nat /\ Cardinality(Pending(c, p)) <= Cap
         /\ \A t \in Task : p[t] \in PastGate /\ t \notin Pending(c, p) =>
              Cardinality(Pending(c, p)) <= Cap - 1
<1> DEFINE P == Pending(c, p)
           O == Out(s, p)
<1>1. P \subseteq O /\ O \subseteq Task /\ Cardinality(O) \in Nat
  <2>1. P \subseteq O
    BY DEF Pending, Out, PastGate
  <2>2. QED
    BY <2>1, OutType
<1>2. s.free \in Nat /\ s.free + Cardinality(O) = Cap
  BY DEF GateOK, GateShape, SemType
<1>3. \A t \in Task : p[t] \in PastGate => t \in O
  BY DEF Out
<1> HIDE DEF P, O
<1>4. IsFiniteSet(O) /\ Cap \in Nat
  BY <1>1, FS_Subset, SlotsAssumption
<1>5. Cardinality(P) \in Nat /\ Cardinality(P) <= Cardinality(O)
  BY <1>1, <1>4, FS_Subset, FS_CardinalityType
<1>6. ASSUME NEW t \in O, t \notin P  PROVE Cardinality(P) <= Cardinality(O) - 1
  <2>1. P # O
    BY <1>6
  <2>2. Cardinality(P) # Cardinality(O)
    BY <1>1, <1>4, <2>1, FS_Subset
  <2>3. QED
    BY <1>1, <1>5, <2>2
<1>7. /\ Cardinality(P) \in Nat /\ Cardinality(P) <= Cap
      /\ \A t \in Task : p[t] \in PastGate /\ t \notin P => Cardinality(P) <= Cap - 1
  <2>1. Cardinality(P) <= Cap
    BY <1>1, <1>2, <1>4, <1>5
  <2>2. ASSUME NEW t \in Task, p[t] \in PastGate, t \notin P  PROVE Cardinality(P) <= Cap - 1
    <3>1. Cardinality(P) <= Cardinality(O) - 1
      BY <1>3, <1>6, <2>2
    <3>2. QED
      BY <1>1, <1>2, <1>4, <1>5, <3>1
  <2>3. QED
    BY <1>5, <2>1, <2>2
<1>8. QED
  BY <1>7 DEF P

\* Fewer tasks are still to charge.
LEMMA PendingLess ==
  ASSUME NEW s, NEW p, GateOK(s, p), NEW c, NEW Q, Q \subseteq Pending(c, p)
  PROVE  /\ Cardinality(Q) \in Nat /\ Cardinality(Q) <= Cardinality(Pending(c, p))
         /\ \A t \in Pending(c, p) : t \notin Q => Cardinality(Q) + 1 <= Cardinality(Pending(c, p))
<1> DEFINE P == Pending(c, p)
<1>1. P \subseteq Task
  BY DEF Pending
<1> HIDE DEF P
<1>2. IsFiniteSet(P) /\ Cardinality(P) \in Nat
  BY <1>1, FS_Subset, FS_CardinalityType, SlotsAssumption
<1>3. Q \subseteq P
  BY DEF P
<1>4. Cardinality(Q) \in Nat /\ Cardinality(Q) <= Cardinality(P)
  BY <1>2, <1>3, FS_Subset, FS_CardinalityType
<1>5. ASSUME NEW t \in P, t \notin Q  PROVE Cardinality(Q) + 1 <= Cardinality(P)
  <2>1. Cardinality(P) # Cardinality(Q)
    BY <1>2, <1>3, <1>5, FS_Subset
  <2>2. QED
    BY <1>2, <1>4, <2>1
<1>6. QED
  BY <1>4, <1>5 DEF P

\* What a step may do to the window: less, or one request more of a task that was
\* still to charge, or it ends up below the limit with somebody woken, or at most
\* at the limit with a task past the gate that is not to charge here.
LEMMA BoundKept ==
  ASSUME GateInv, GateInv', CounterInv, CounterInv', Bounded(rpm, pc),
         \/ /\ rpm'.used[Window] <= rpm.used[Window]
            /\ Pending(rpm', pc') \subseteq Pending(rpm, pc)
         \/ /\ rpm'.used[Window] = rpm.used[Window] + 1
            /\ Pending(rpm', pc') \subseteq Pending(rpm, pc)
            /\ \E t \in Pending(rpm, pc) : t \notin Pending(rpm', pc')
         \/ rpm'.used[Window] < Rpm0
         \/ /\ rpm'.used[Window] <= Rpm0
            /\ \E t \in Task : pc'[t] \in PastGate /\ t \notin Pending(rpm', pc')
  PROVE  Bounded(rpm', pc')
<1> DEFINE P == Pending(rpm, pc)
           Q == Pending(rpm', pc')
           u == rpm.used[Window]
           v == rpm'.used[Window]
<1>1. GateOK(sem, pc) /\ GateOK(sem', pc')
  BY DEF GateInv
<1>2. u \in Nat /\ v \in Nat
  BY AgesOf DEF CounterInv, CounterType
<1>3. Cardinality(P) \in Nat
  BY <1>1, PendingCount
<1>4. /\ Cardinality(Q) \in Nat /\ Cardinality(Q) <= Cap
      /\ \A t \in Task : pc'[t] \in PastGate /\ t \notin Q => Cardinality(Q) <= Cap - 1
  BY <1>1, PendingCount
<1>5. Q \subseteq P => /\ Cardinality(Q) <= Cardinality(P)
                       /\ \A t \in P : t \notin Q => Cardinality(Q) + 1 <= Cardinality(P)
  BY <1>1, PendingLess
<1>6. u + Cardinality(P) <= Rpm0 + Cap - 1
  BY DEF Bounded
<1>7. \/ v <= u /\ Q \subseteq P
      \/ v = u + 1 /\ Q \subseteq P /\ \E t \in P : t \notin Q
      \/ v < Rpm0
      \/ v <= Rpm0 /\ \E t \in Task : pc'[t] \in PastGate /\ t \notin Q
  OBVIOUS
<1>8. Rpm0 \in Nat /\ Cap \in Nat
  BY SlotsAssumption
<1> HIDE DEF P, Q, u, v
<1>9. v + Cardinality(Q) <= Rpm0 + Cap - 1
  <2>1. CASE v <= u /\ Q \subseteq P
    BY <1>2, <1>3, <1>4, <1>5, <1>6, <1>8, <2>1
  <2>2. CASE v = u + 1 /\ Q \subseteq P /\ \E t \in P : t \notin Q
    <3>1. Cardinality(Q) + 1 <= Cardinality(P)
      BY <1>5, <2>2
    <3>2. QED
      BY <1>2, <1>3, <1>4, <1>6, <1>8, <2>2, <3>1
  <2>3. CASE v < Rpm0
    BY <1>2, <1>4, <1>8, <2>3
  <2>4. CASE v <= Rpm0 /\ \E t \in Task : pc'[t] \in PastGate /\ t \notin Q
    <3>1. Cardinality(Q) <= Cap - 1
      BY <1>4, <2>4
    <3>2. QED
      BY <1>2, <1>4, <1>8, <2>4, <3>1
  <2>5. QED
    BY <1>7, <2>1, <2>2, <2>3, <2>4
<1>10. QED
  BY <1>9 DEF Bounded, Q, v

LEMMA InitRpm == Init => RpmInv
<1> SUFFICES ASSUME Init  PROVE RpmInv
  OBVIOUS
<1>1. /\ rpm.limit = Rpm0 /\ \A a \in Recent : rpm.used[a] = 0
      /\ Pending(rpm, pc) = {}
  BY AgesOf DEF Init, Counter, Empty, Pending
<1>2. Steady(rpm)
  BY <1>1, AgesOf DEF Steady
<1>3. Cardinality({}) = 0 /\ rpm.used[Window] = 0
  BY <1>1, FS_EmptySet, AgesOf
<1>4. Bounded(rpm, pc)
  BY <1>1, <1>3, SlotsAssumption DEF Bounded
<1>5. QED
  BY <1>1, <1>2, <1>4 DEF RpmInv

\* A window that is the same, or whose charges all grew by as much, stays steady.
LEMMA SteadyKept ==
  ASSUME NEW c \in CounterType, Steady(c), NEW d, NEW n \in Nat, Same(c, d) \/ Charged(c, d, n)
  PROVE  Steady(d)
<1>1. \A a \in Recent : c.used[a] \in Nat /\ (a # 0 => a - 1 \in Recent)
  BY AgesOf DEF CounterType
<1>2. CASE Same(c, d)
  BY <1>1, <1>2 DEF Steady, Same
<1>3. CASE Charged(c, d, n)
  <2> SUFFICES ASSUME NEW a \in Recent, a # 0  PROVE d.used[a - 1] <= d.used[a]
    BY DEF Steady
  <2>1. /\ d.used[a] = c.used[a] + n /\ d.used[a - 1] = c.used[a - 1] + n
        /\ c.used[a - 1] <= c.used[a] /\ c.used[a] \in Nat /\ c.used[a - 1] \in Nat
    BY <1>1, <1>3 DEF Charged, Steady
  <2>2. QED
    BY <2>1
<1>4. QED
  BY <1>2, <1>3

\* A step that leaves the window alone: nobody new is to charge, or who was let
\* through found room.
LEMMA RpmSame ==
  ASSUME GateInv, GateInv', CounterInv, CounterInv', RpmInv,
         Same(rpm, rpm'), rpm'.limit = rpm.limit,
         \/ Pending(rpm', pc') \subseteq Pending(rpm, pc)
         \/ rpm'.used[Window] < rpm'.limit
  PROVE  RpmInv'
<1>1. Steady(rpm') /\ rpm'.limit = Rpm0
  BY SteadyKept DEF RpmInv, CounterInv
<1>2. rpm'.used[Window] = rpm.used[Window] /\ rpm.used[Window] \in Nat
  BY AgesOf DEF Same, CounterInv, CounterType
<1>3. Rpm0 # 0 => Bounded(rpm', pc')
  BY <1>1, <1>2, BoundKept DEF RpmInv
<1>4. QED
  BY <1>1, <1>3 DEF RpmInv

\* A task charges its request: it was under the limit when it came and nobody was
\* queued, or it was let through before.
LEMMA RpmCharged ==
  ASSUME GateInv, GateInv', CounterInv, CounterInv', RpmInv, NEW t \in Task,
         rpm' = Charge(rpm, 1, One), NEW w \in {"tpmWait", "call"}, pc' = [pc EXCEPT ![t] = w],
         Admits(rpm, 1) \/ t \in Pending(rpm, pc)
  PROVE  RpmInv'
<1>1. rpm \in CounterType /\ rpm' \in CounterType /\ pc \in [Task -> Places] /\ rpm.limit = Rpm0
  BY DEF CounterInv, GateInv, GateOK, GateShape, RpmInv
<1>2. /\ Keeps(rpm, rpm')
      /\ rpm.limit = 0 => Same(rpm, rpm')
      /\ rpm.limit # 0 => Charged(rpm, rpm', 1)
  BY <1>1, ChargeIs, Needs
<1>3. Steady(rpm') /\ rpm'.limit = Rpm0
  <2>1. Same(rpm, rpm') \/ Charged(rpm, rpm', 1)
    BY <1>2
  <2>2. Steady(rpm')
    BY <1>1, <2>1, SteadyKept DEF RpmInv
  <2>3. QED
    BY <1>1, <1>2, <2>2 DEF Keeps
<1>4. pc'[t] \in PastGate /\ t \notin Pending(rpm', pc')
  BY <1>1 DEF PastGate, Pending
<1>5. ASSUME Rpm0 # 0  PROVE Bounded(rpm', pc')
  <2>1. /\ rpm'.used[Window] = rpm.used[Window] + 1 /\ rpm.used[Window] \in Nat
        /\ rpm'.waiters = rpm.waiters \/ rpm'.used[Window] < Rpm0
    BY <1>1, <1>2, <1>5, AgesOf DEF Charged, Keeps, CounterType
  <2>2. Bounded(rpm, pc)
    BY <1>5 DEF RpmInv
  <2>3. CASE Admits(rpm, 1)
    <3>1. rpm.used[Window] + 1 <= Rpm0
      BY <1>1, <1>5, <2>3, ExpireIs DEF Admits
    <3>2. QED
      BY <1>4, <2>1, <2>2, <3>1, BoundKept
  <2>4. CASE t \in Pending(rpm, pc)
    <3>1. CASE rpm'.used[Window] < Rpm0
      BY <2>2, <3>1, BoundKept
    <3>2. CASE rpm'.waiters = rpm.waiters
      <4>1. Pending(rpm', pc') \subseteq Pending(rpm, pc)
        BY <1>1, <3>2 DEF Pending
      <4>2. QED
        BY <1>4, <2>1, <2>2, <2>4, <4>1, BoundKept
    <3>3. QED
      BY <2>1, <3>1, <3>2
  <2>5. QED
    BY <2>3, <2>4
<1>6. QED
  BY <1>3, <1>5 DEF RpmInv

LEMMA NextRpm ==
  ASSUME RpmLimits \subseteq {Rpm0}
  PROVE  /\ GateInv /\ GhostInv /\ CounterInv /\ RpmInv /\ [Next]_vars
         /\ GateInv' /\ CounterInv'
         => RpmInv'
<1> SUFFICES ASSUME GateInv, GhostInv, CounterInv, RpmInv, [Next]_vars, GateInv', CounterInv'
             PROVE  RpmInv'
  OBVIOUS
<1>1. /\ rpm \in CounterType /\ IsInjective(rpm.waiters) /\ pc \in [Task -> Places]
      /\ rpm.limit = Rpm0
  BY DEF CounterInv, GhostInv, QueueInv, IsCounter, GateInv, GateOK, GateShape, RpmInv
<1>2. ASSUME Same(rpm, rpm'), rpm'.limit = rpm.limit,
             Pending(rpm', pc') \subseteq Pending(rpm, pc)
      PROVE  RpmInv'
  BY <1>2, RpmSame
<1>3. ASSUME rpm' = rpm, NEW t \in Task, NEW w, w # "rpmWait",
             pc' = pc \/ pc' = [pc EXCEPT ![t] = w]
      PROVE  RpmInv'
  <2>1. Same(rpm, rpm') /\ rpm'.limit = rpm.limit
    BY <1>3 DEF Same
  <2>2. Pending(rpm', pc') \subseteq Pending(rpm, pc)
    BY <1>1, <1>3 DEF Pending
  <2>3. QED
    BY <1>2, <2>1, <2>2
<1>4. ASSUME NEW t \in Task, TpmGate(t) \/ TpmCharge(t)
      PROVE  \E w \in {"tpmWait", "call"} : pc' = [pc EXCEPT ![t] = w]
  BY <1>4 DEF TpmGate, TpmCharge, Goto
<1>5. ASSUME NEW t \in Task, RpmGate(t)  PROVE RpmInv'
  <2>1. CASE Admits(rpm, 1) /\ rpm' = Charge(rpm, 1, One) /\ TpmGate(t)
    <3>1. PICK w \in {"tpmWait", "call"} : pc' = [pc EXCEPT ![t] = w]
      BY <1>4, <2>1
    <3>2. QED
      BY <2>1, <3>1, RpmCharged
  <2>2. CASE rpm' = Enqueue(rpm, t) /\ pc' = [pc EXCEPT ![t] = "rpmWait"]
    <3>1. /\ Same(rpm, rpm') /\ rpm'.limit = rpm.limit
          /\ rpm'.waiters = Append(rpm.waiters, t) /\ rpm.waiters \in Seq(Task)
      BY <1>1, <2>2, EnqueueIs DEF CounterType
    <3>2. ToSet(rpm'.waiters) = ToSet(rpm.waiters) \cup {t}
      BY <3>1, ToSetAppend
    <3>3. Pending(rpm', pc') \subseteq Pending(rpm, pc)
      BY <1>1, <2>2, <3>2 DEF Pending
    <3>4. QED
      BY <1>2, <3>1, <3>3
  <2>3. QED
    BY <1>5, <2>1, <2>2 DEF RpmGate, Goto
<1>6. ASSUME NEW t \in Task, Acquire(t)  PROVE RpmInv'
  <2>1. CASE RpmGate(t)
    BY <1>5, <2>1
  <2>2. CASE rpm' = rpm /\ pc' = [pc EXCEPT ![t] = "semWait"]
    <3>1. "semWait" # "rpmWait"
      OBVIOUS
    <3>2. QED
      BY <1>3, <2>2, <3>1
  <2>3. QED
    BY <1>6, <2>1, <2>2 DEF Acquire, Goto
<1>7. ASSUME NEW t \in Task, SemResume(t)  PROVE RpmInv'
  BY <1>5, <1>7 DEF SemResume
<1>8. ASSUME NEW t \in Task, RpmResume(t)  PROVE RpmInv'
  <2>1. rpm' = Charge(rpm, 1, One) /\ TpmGate(t) /\ t \in Pending(rpm, pc)
    BY <1>8 DEF RpmResume, Pending
  <2>2. PICK w \in {"tpmWait", "call"} : pc' = [pc EXCEPT ![t] = w]
    BY <1>4, <2>1
  <2>3. QED
    BY <2>1, <2>2, RpmCharged
<1>9. ASSUME NEW t \in Task, TpmResume(t)  PROVE RpmInv'
  <2>1. rpm' = rpm /\ TpmCharge(t)
    BY <1>9 DEF TpmResume
  <2>2. PICK w \in {"tpmWait", "call"} : pc' = [pc EXCEPT ![t] = w]
    BY <1>4, <2>1
  <2>3. QED
    BY <1>3, <2>1, <2>2
<1>10. ASSUME NEW t \in Task, Cancelled(t)  PROVE RpmInv'
  <2>1. pc' = [pc EXCEPT ![t] = "idle"] /\ "idle" # "rpmWait"
    BY <1>10 DEF Cancelled, Goto
  <2>2. CASE rpm' = rpm
    BY <1>3, <2>1, <2>2
  <2>3. CASE rpm' = [rpm EXCEPT !.waiters = RemoveFirst(@, t)]
    <3>1. /\ Same(rpm, rpm') /\ rpm'.limit = rpm.limit
          /\ \A u \in ToSet(rpm.waiters) : u # t => u \in ToSet(rpm'.waiters)
      BY <1>1, <2>3, WithdrawIs
    <3>2. Pending(rpm', pc') \subseteq Pending(rpm, pc)
      BY <1>1, <2>1, <3>1 DEF Pending
    <3>3. QED
      BY <1>2, <3>1, <3>2
  <2>4. QED
    BY <1>10, <2>2, <2>3 DEF Cancelled, SemCancelled, RpmCancelled, TpmCancelled
<1>11. ASSUME NEW t \in Task, NEW n, Finish(t, n)  PROVE RpmInv'
  <2>1. rpm' = rpm /\ pc' = [pc EXCEPT ![t] = "idle"] /\ "idle" # "rpmWait"
    BY <1>11 DEF Finish, Goto
  <2>2. QED
    BY <1>3, <2>1
<1>12. ASSUME NEW l \in RpmLimits, SetRpm(l)  PROVE RpmInv'
  <2>1. l \in Nat /\ l = Rpm0
    BY SlotsAssumption
  <2>2. /\ Same(rpm, rpm') /\ rpm'.limit = l /\ pc' = pc
        /\ rpm'.waiters = rpm.waiters \/ rpm'.used[Window] < l
    BY <1>1, <1>12, <2>1, SetLimitIs, Needs DEF SetRpm
  <2>3. Pending(rpm', pc') \subseteq Pending(rpm, pc) \/ rpm'.used[Window] < rpm'.limit
    BY <2>2 DEF Pending
  <2>4. QED
    BY <1>1, <2>1, <2>2, <2>3, RpmSame
<1>13. CASE ReadOccupancy
  <2>1. /\ Same(rpm, rpm') /\ rpm'.limit = rpm.limit
        /\ Pending(rpm', pc') \subseteq Pending(rpm, pc)
    BY <1>1, <1>13, ExpireIs DEF ReadOccupancy, Same, Pending
  <2>2. QED
    BY <1>2, <2>1
<1>14. CASE Tick
  <2>1. /\ rpm'.limit = rpm.limit /\ rpm'.waiters = rpm.waiters /\ pc' = pc
        /\ \A a \in Recent : rpm'.used[a] = IF a = 0 THEN 0 ELSE rpm.used[a - 1]
    BY <1>1, <1>14, TickIs DEF Tick
  <2>2. \A a \in Recent : /\ rpm.used[a] \in Nat /\ a \in Nat
                          /\ a # 0 => a - 1 \in Recent /\ rpm.used[a - 1] <= rpm.used[a]
    BY <1>1, AgesOf DEF CounterType, RpmInv, Steady
  <2>3. Steady(rpm')
    <3> SUFFICES ASSUME NEW a \in Recent, a # 0  PROVE rpm'.used[a - 1] <= rpm'.used[a]
      BY DEF Steady
    <3> DEFINE b == a - 1
    <3>1. b \in Recent /\ rpm'.used[a] = rpm.used[b]
      BY <2>1, <2>2
    <3> HIDE DEF b
    <3>2. rpm'.used[b] <= rpm.used[b]
      BY <2>1, <2>2, <3>1
    <3>3. QED
      BY <3>1, <3>2 DEF b
  <2>4. rpm'.used[Window] <= rpm.used[Window]
    BY <2>1, <2>2, AgesOf
  <2>5. Pending(rpm', pc') \subseteq Pending(rpm, pc)
    BY <2>1 DEF Pending
  <2>6. Rpm0 # 0 => Bounded(rpm', pc')
    BY <2>4, <2>5, BoundKept DEF RpmInv
  <2>7. QED
    BY <1>1, <2>1, <2>3, <2>6 DEF RpmInv
<1>15. CASE UNCHANGED <<rpm, pc>>
  <2>1. /\ Same(rpm, rpm') /\ rpm'.limit = rpm.limit
        /\ Pending(rpm', pc') \subseteq Pending(rpm, pc)
    BY <1>15 DEF Same, Pending
  <2>2. QED
    BY <1>2, <2>1
<1>16. QED
  BY <1>6, <1>7, <1>8, <1>9, <1>10, <1>11, <1>12, <1>13, <1>14, <1>15
     DEF Next, Resume, CancelRequest, SetTpm, SetDefault, vars

\* As long as the RPM limit stays what it was, the requests of one window exceed it
\* by less than the number of permits, although a task charges an await after it was
\* let through and may then let the next one through.
THEOREM SlotsRpmOvershoot ==
  ASSUME RpmLimits \subseteq {Rpm0}
  PROVE  Spec => []RpmOvershoot
<1>1. GateInv /\ GhostInv /\ CounterInv /\ RpmInv => RpmOvershoot
  <2> SUFFICES ASSUME GateInv, CounterInv, RpmInv  PROVE RpmOvershoot
    OBVIOUS
  <2>1. Total(Expire(rpm)) = rpm.used[Window] /\ rpm.used[Window] \in Nat
    BY ExpireIs DEF CounterInv
  <2>2. Cardinality(Pending(rpm, pc)) \in Nat
    BY PendingCount DEF GateInv
  <2>3. Rpm0 \in Nat /\ Cap \in Nat
    BY SlotsAssumption
  <2>4. QED
    BY <2>1, <2>2, <2>3 DEF RpmInv, RpmOvershoot, Bounded
<1>2. /\ GateInv /\ GhostInv /\ CounterInv /\ RpmInv /\ [Next]_vars
      /\ GateInv' /\ CounterInv'
      => RpmInv'
  BY NextRpm
<1>3. QED
  BY <1>1, <1>2, InitRpm, SlotsCounters, PTL DEF Spec

-----------------------------------------------------------------------------
(* The sandbox pool *)

Stages == {"new", "starting", "getting", "awaiting", "killing", "done"}
Replies == {"none", "pending", "ok", "error", "cancelled"}
Outcomes == {"none", "closed", "result", "error", "timeout", "cancelled"}
Message == [id : Call, ok : BOOLEAN]

Quiet(w) == inbox[w] = <<>> /\ outbox[w] = <<>>

\* A worker not spawned yet is nowhere.
Unborn ==
  \A w \in Worker : proc[w] = "none" =>
    /\ ~alive[w] /\ w \notin ToSet(idle) /\ Quiet(w)
    /\ \A c \in Call : holds[c] # w

\* Without bad lines a reader runs as long as its worker passes for alive.
ReaderRuns == \A w \in Worker : alive[w] => listener[w] # "off"

\* A worker is with one call, or in the queue, or with nobody.
Exclusive ==
  /\ \A c \in Call : holds[c] # NoWorker <=> stage[c] \in {"awaiting", "killing"}
  /\ \A c, d \in Call : holds[c] = holds[d] /\ holds[c] # NoWorker => c = d
  /\ \A c \in Call : holds[c] \notin ToSet(idle)

\* A future is left only with the worker of its call, or by a call that is over.
FuturesAtHome == \A w \in Worker : \A c \in pending[w] : stage[c] = "done" \/ holds[c] = w

\* A live worker that is free, or whose call has its answer, has nothing to do.  Only
\* close() fails a future whose answer may still be under way.
QuietWhenFree ==
  /\ \A w \in ToSet(idle) : alive[w] => Quiet(w)
  /\ \A c \in Call : stage[c] = "awaiting" /\ reply[c] \in {"ok", "error"} /\ alive[holds[c]]
       => Quiet(holds[c]) \/ (closed /\ reply[c] = "error")

\* close() has set _closed before it waits for anything.
ClosingIsClosed == closing # "open" => closed

PoolInv ==
  /\ PoolTypeOK /\ Unborn /\ ReaderRuns /\ Exclusive /\ FuturesAtHome /\ QuietWhenFree
  /\ OneRequestPerWorker /\ AwaitedIsReachable

LEMMA InitPool == PoolInit => PoolInv
<1> SUFFICES ASSUME PoolInit PROVE PoolInv
  OBVIOUS
<1>1. ToSet(idle) = {} /\ idle \in Seq(Worker) /\ IsInjective(idle)
  BY ToSetEmpty DEF PoolInit, IsInjective
<1>2. PoolTypeOK
  <2>1. /\ inbox \in [Worker -> Seq(Call)] /\ outbox \in [Worker -> Seq(Message)]
        /\ pending \in [Worker -> SUBSET Call]
    BY DEF PoolInit
  <2>2. /\ alive \in [Worker -> BOOLEAN] /\ listener \in [Worker -> ReaderStates]
        /\ stdin \in [Worker -> BOOLEAN]
    BY DEF PoolInit, ReaderStates
  <2>3. QED
    BY <1>1, <2>1, <2>2 DEF PoolInit, PoolTypeOK, Message
<1>3. OneRequestPerWorker
  BY DEF PoolInit, OneRequestPerWorker
<1>4. QED
  BY <1>1, <1>2, <1>3, PoolAssumption DEF PoolInit, PoolInv, Unborn, ReaderRuns, Exclusive,
     FuturesAtHome, QuietWhenFree, AwaitedIsReachable, Quiet

-----------------------------------------------------------------------------
(* Steps of calls that leave the queue and the workers alone *)

LEMMA SameWorkers ==
  ASSUME PoolInv, UNCHANGED <<idle, worker>>, \A c \in Call : holds'[c] \in {holds[c], NoWorker}
  PROVE  Unborn' /\ ReaderRuns' /\ OneRequestPerWorker'
<1>1. \A w \in Worker : w # NoWorker
  BY PoolAssumption
<1>2. UNCHANGED <<idle, alive, listener, proc, inbox, outbox>>
  BY DEF worker
<1>3. Unborn'
  BY <1>1, <1>2 DEF PoolInv, Unborn, Quiet
<1>4. ReaderRuns' /\ OneRequestPerWorker'
  BY <1>2 DEF PoolInv, ReaderRuns, OneRequestPerWorker
<1>5. QED
  BY <1>3, <1>4

LEMMA BeginStep == ASSUME PoolInv, NEW c \in Call, Begin(c) PROVE PoolInv'
<1>1. /\ stage[c] = "new" /\ started' \in BOOLEAN
      /\ UNCHANGED <<workers, idle, worker, holds, reply, closer>>
  BY DEF PoolInv, PoolTypeOK, Begin, End, CallGoes
<1>2. /\ \E to \in {"getting", "starting", "done"} : stage' = [stage EXCEPT ![c] = to]
      /\ outcome' = outcome \/ outcome' = [outcome EXCEPT ![c] = "closed"]
  BY DEF Begin, End, CallGoes
<1>3. /\ UNCHANGED <<alive, pending, listener, proc, stdin, inbox, outbox, closed, closing, awaited>>
      /\ PoolTypeOK
  BY <1>1 DEF worker, closer, PoolInv
<1>4. stage \in [Call -> Stages] /\ outcome \in [Call -> Outcomes]
  BY <1>3 DEF PoolTypeOK, Stages, Outcomes
<1>5. stage' \in [Call -> Stages] /\ outcome' \in [Call -> Outcomes]
  BY <1>2, <1>4 DEF Stages, Outcomes
<1>6. PoolTypeOK'
  BY <1>1, <1>3, <1>5 DEF PoolTypeOK, Stages, Outcomes
<1>7. /\ stage[c] \notin {"awaiting", "killing"} /\ stage'[c] \notin {"awaiting", "killing"}
      /\ \A d \in Call : d # c => stage'[d] = stage[d]
      /\ stage[c] = "done" => stage'[c] = "done"
  BY <1>1, <1>2, <1>4
<1>8. Unborn' /\ ReaderRuns' /\ OneRequestPerWorker'
  <2>1. \A d \in Call : holds'[d] \in {holds[d], NoWorker}
    BY <1>1
  <2>2. QED
    BY <1>1, <2>1, SameWorkers
<1>9. Exclusive' /\ FuturesAtHome'
  <2>1. \A w \in Worker : pending[w] \subseteq Call
    BY <1>3 DEF PoolTypeOK
  <2>2. Exclusive'
    BY <1>1, <1>3, <1>7 DEF PoolInv, Exclusive
  <2>3. FuturesAtHome'
    BY <1>1, <1>3, <1>7, <2>1 DEF PoolInv, FuturesAtHome
  <2>4. QED
    BY <2>2, <2>3
<1>10. QuietWhenFree' /\ AwaitedIsReachable'
  BY <1>1, <1>3, <1>7 DEF PoolInv, PoolTypeOK, QuietWhenFree, AwaitedIsReachable, Quiet
<1>11. QED
  BY <1>6, <1>8, <1>9, <1>10 DEF PoolInv

LEMMA SpawnFailsStep == ASSUME PoolInv, NEW c \in Call, SpawnFails(c) PROVE PoolInv'
<1> USE DEF PoolInv, SpawnFails, End, worker, closer
<1>1. PoolTypeOK'
  BY DEF PoolTypeOK
<1>2. stage[c] = "starting" /\ stage'[c] = "done" /\ \A d \in Call : d # c => stage'[d] = stage[d]
  BY DEF PoolTypeOK
<1>3. Unborn' /\ ReaderRuns' /\ OneRequestPerWorker'
  BY SameWorkers
<1>4. Exclusive' /\ FuturesAtHome' /\ QuietWhenFree' /\ AwaitedIsReachable'
  BY <1>2 DEF Exclusive, FuturesAtHome, QuietWhenFree, closer, AwaitedIsReachable, Quiet, PoolTypeOK
<1>5. QED
  BY <1>1, <1>3, <1>4

\* A cancelled call lets go of its worker: nobody gets it back.
LEMMA CancelStep == ASSUME PoolInv, NEW c \in Call, Cancel(c) PROVE PoolInv'
<1> USE DEF PoolInv, Cancel, End, worker, closer
<1>1. PoolTypeOK'
  BY DEF PoolTypeOK
<1>2. /\ stage'[c] = "done" /\ holds'[c] = NoWorker
      /\ \A d \in Call : d # c => stage'[d] = stage[d] /\ holds'[d] = holds[d] /\ reply'[d] = reply[d]
  BY DEF PoolTypeOK
<1>3. NoWorker \notin ToSet(idle)
  BY PoolAssumption DEF PoolTypeOK, ToSet
<1>4. Unborn' /\ ReaderRuns' /\ OneRequestPerWorker'
  <2>1. UNCHANGED <<idle, worker>> /\ \A d \in Call : holds'[d] \in {holds[d], NoWorker}
    BY <1>2
  <2>2. QED
    BY <2>1, SameWorkers
<1>5. Exclusive' /\ FuturesAtHome' /\ QuietWhenFree' /\ AwaitedIsReachable'
  BY <1>2, <1>3 DEF Exclusive, FuturesAtHome, QuietWhenFree, closer, AwaitedIsReachable, Quiet, PoolTypeOK
<1>6. QED
  BY <1>1, <1>4, <1>5

\* _kill_worker, and the two ways into it.
LEMMA KillStep ==
  ASSUME PoolInv, NEW c \in Call, FailAndKill(c) \/ TimeOut(c)
  PROVE  PoolInv'
<1> DEFINE w == holds[c]
<1>1. /\ stage[c] = "awaiting" /\ w \in Worker
      /\ alive' = [alive EXCEPT ![w] = FALSE] /\ proc' = [proc EXCEPT ![w] = "dead"]
      /\ stage' = [stage EXCEPT ![c] = "killing"]
      /\ \E how \in Outcomes : outcome' = [outcome EXCEPT ![c] = how]
      /\ UNCHANGED <<started, workers, idle, pending, listener, stdin, inbox, outbox, holds, closer>>
  BY DEF PoolInv, PoolTypeOK, Exclusive, FailAndKill, TimeOut, Kill, Outcomes
<1>2. /\ reply' \in [Call -> Replies]
      /\ \A d \in Call : d # c => reply'[d] = reply[d]
  BY DEF PoolInv, PoolTypeOK, FailAndKill, TimeOut, Replies
<1> HIDE DEF w
<1>3. PoolTypeOK'
  BY <1>1, <1>2 DEF PoolInv, PoolTypeOK, Replies, Outcomes, closer
<1>4. /\ stage'[c] = "killing" /\ ~alive'[w] /\ proc'[w] = "dead" /\ holds[c] = w
      /\ \A d \in Call : d # c => stage'[d] = stage[d]
      /\ \A v \in Worker : v # w => alive'[v] = alive[v] /\ proc'[v] = proc[v]
  BY <1>1 DEF PoolInv, PoolTypeOK, w
<1>5. Unborn' /\ ReaderRuns' /\ OneRequestPerWorker'
  BY <1>1, <1>4 DEF PoolInv, Unborn, ReaderRuns, OneRequestPerWorker, Quiet
<1>6. Exclusive' /\ FuturesAtHome' /\ AwaitedIsReachable'
  BY <1>1, <1>2, <1>4 DEF PoolInv, PoolTypeOK, Exclusive, FuturesAtHome, AwaitedIsReachable
<1>7. QuietWhenFree'
  BY <1>1, <1>2, <1>4 DEF PoolInv, PoolTypeOK, Exclusive, QuietWhenFree, closer, Quiet, ToSet
<1>8. QED
  BY <1>3, <1>5, <1>6, <1>7 DEF PoolInv

LEMMA ReapedStep == ASSUME PoolInv, NEW c \in Call, Reaped(c) PROVE PoolInv'
<1> DEFINE w == holds[c]
           failed == {d \in pending[w] : reply[d] = "pending"}
<1>1. /\ stage[c] = "killing" /\ w \in Worker /\ NoWorker # w
      /\ reply' = SetAll(reply, failed, "error")
      /\ pending' = [pending EXCEPT ![w] = {}] /\ workers' = workers \ {w}
      /\ holds' = [holds EXCEPT ![c] = NoWorker] /\ stage' = [stage EXCEPT ![c] = "done"]
      /\ UNCHANGED <<outcome, started, idle, alive, listener, proc, stdin, inbox, outbox, closer>>
  BY PoolAssumption DEF PoolInv, PoolTypeOK, Exclusive, Reaped, CallGoes
<1> HIDE DEF w, failed
<1>2. /\ reply' \in [Call -> Replies]
      /\ \A d \in Call : reply'[d] = IF d \in failed THEN "error" ELSE reply[d]
  BY <1>1 DEF PoolInv, PoolTypeOK, SetAll, Replies
<1>3. /\ stage'[c] = "done" /\ holds'[c] = NoWorker /\ pending'[w] = {} /\ holds[c] = w
      /\ \A d \in Call : d # c => stage'[d] = stage[d] /\ holds'[d] = holds[d]
      /\ \A v \in Worker : v # w => pending'[v] = pending[v]
  BY <1>1 DEF PoolInv, PoolTypeOK, w
<1>4. \A d \in failed : stage'[d] = "done"
  BY <1>1, <1>3 DEF PoolInv, PoolTypeOK, FuturesAtHome, Exclusive, failed
<1>5. PoolTypeOK'
  BY <1>1, <1>2 DEF PoolInv, PoolTypeOK, Replies, closer
<1>6. NoWorker \notin ToSet(idle)
  BY PoolAssumption DEF PoolInv, PoolTypeOK, ToSet
<1>7. Unborn' /\ ReaderRuns' /\ OneRequestPerWorker'
  <2>1. \A v \in Worker : v # NoWorker
    BY PoolAssumption
  <2>2. Unborn'
    BY <1>1, <1>3, <2>1 DEF PoolInv, Unborn, Quiet
  <2>3. ReaderRuns' /\ OneRequestPerWorker'
    BY <1>1 DEF PoolInv, ReaderRuns, OneRequestPerWorker
  <2>4. QED
    BY <2>2, <2>3
<1>8. Exclusive' /\ FuturesAtHome'
  BY <1>1, <1>3, <1>6 DEF PoolInv, PoolTypeOK, Exclusive, FuturesAtHome
<1>9. AwaitedIsReachable' /\ QuietWhenFree'
  <2>1. \A d \in Call : stage'[d] = "awaiting" =>
          d # c /\ d \notin failed /\ stage[d] = "awaiting" /\ holds'[d] = holds[d]
          /\ reply'[d] = reply[d] /\ holds[d] \in Worker /\ holds[d] # w
    BY <1>2, <1>3, <1>4 DEF PoolInv, PoolTypeOK, Exclusive
  <2>2. QED
    BY <1>1, <1>3, <2>1 DEF PoolInv, AwaitedIsReachable, QuietWhenFree, closer, Quiet
<1>10. QED
  BY <1>5, <1>7, <1>8, <1>9 DEF PoolInv

-----------------------------------------------------------------------------
(* Steps of calls that take a worker from the queue or put one back *)

LEMMA IdleWorkers == PoolInv => ToSet(idle) \subseteq Worker
<1> SUFFICES ASSUME PoolInv, NEW i \in DOMAIN idle PROVE idle[i] \in Worker
  BY DEF ToSet
<1>1. QED
  BY DEF PoolInv, PoolTypeOK

LEMMA SpawnStep ==
  ASSUME PoolInv, NEW c \in Call, NEW w \in Worker, Spawn(c, w)
  PROVE  PoolInv'
<1>1. /\ stage[c] = "starting" /\ proc[w] = "none"
      /\ proc' = [proc EXCEPT ![w] = "up"] /\ alive' = [alive EXCEPT ![w] = TRUE]
      /\ listener' = [listener EXCEPT ![w] = "on"] /\ stdin' = [stdin EXCEPT ![w] = TRUE]
      /\ workers' = workers \cup {w} /\ idle' = Append(idle, w)
      /\ stage' = stage \/ stage' = [stage EXCEPT ![c] = "getting"]
      /\ UNCHANGED <<outcome, started, pending, inbox, outbox, holds, reply, closer>>
  BY DEF Spawn, PutIdle, CallGoes
<1>2. /\ idle \in Seq(Worker) /\ IsInjective(idle) /\ w \notin ToSet(idle)
      /\ ~alive[w] /\ Quiet(w) /\ \A d \in Call : holds[d] # w
  BY <1>1 DEF PoolInv, PoolTypeOK, Unborn
<1>3. /\ idle' \in Seq(Worker) /\ IsInjective(idle') /\ ToSet(idle') = ToSet(idle) \cup {w}
  BY <1>1, <1>2, ToSetAppend, AppendNewcomer
<1>4. /\ alive'[w] /\ listener'[w] = "on" /\ proc'[w] = "up" /\ stage'[c] \in {"starting", "getting"}
      /\ \A v \in Worker : v # w => alive'[v] = alive[v] /\ proc'[v] = proc[v] /\ listener'[v] = listener[v]
      /\ \A d \in Call : d # c => stage'[d] = stage[d]
  BY <1>1 DEF PoolInv, PoolTypeOK
<1>5. PoolTypeOK'
  <2>1. /\ alive' \in [Worker -> BOOLEAN] /\ listener' \in [Worker -> ReaderStates]
        /\ stdin' \in [Worker -> BOOLEAN]
    BY <1>1 DEF PoolInv, PoolTypeOK, ReaderStates
  <2>2. proc' \in [Worker -> {"none", "up", "dead"}]
    BY <1>1 DEF PoolInv, PoolTypeOK
  <2>3. stage' \in [Call -> Stages]
    <3>1. stage \in [Call -> Stages] /\ "getting" \in Stages
      BY DEF PoolInv, PoolTypeOK, Stages
    <3>2. QED
      BY <1>1, <3>1
  <2>4. /\ UNCHANGED <<outcome, started, pending, inbox, outbox, holds, reply>>
        /\ UNCHANGED <<closed, closing, awaited>> /\ workers' \subseteq Worker
    BY <1>1 DEF PoolInv, PoolTypeOK, closer
  <2>5. QED
    BY <1>3, <2>1, <2>2, <2>3, <2>4 DEF PoolInv, PoolTypeOK, Stages
<1>6. Unborn' /\ ReaderRuns' /\ OneRequestPerWorker'
  <2>1. Unborn'
    BY <1>1, <1>3, <1>4 DEF PoolInv, Unborn, Quiet
  <2>2. ReaderRuns'
    BY <1>4 DEF PoolInv, ReaderRuns
  <2>3. OneRequestPerWorker'
    BY <1>1 DEF PoolInv, OneRequestPerWorker
  <2>4. QED
    BY <2>1, <2>2, <2>3
<1>7. Exclusive'
  BY <1>1, <1>2, <1>3, <1>4 DEF PoolInv, Exclusive
<1>8. FuturesAtHome'
  BY <1>1, <1>4 DEF PoolInv, PoolTypeOK, FuturesAtHome
<1>9. QuietWhenFree'
  <2>1. \A v \in ToSet(idle') : alive'[v] => Quiet(v)
    BY <1>2, <1>3, <1>4, IdleWorkers DEF PoolInv, QuietWhenFree, closer
  <2>2. \A d \in Call : stage'[d] = "awaiting" => d # c /\ holds[d] \in Worker /\ holds[d] # w
    BY <1>2, <1>4 DEF PoolInv, PoolTypeOK, Exclusive
  <2>3. QED
    BY <1>1, <1>4, <2>1, <2>2 DEF PoolInv, QuietWhenFree, closer, Quiet
<1>10. AwaitedIsReachable'
  BY <1>1, <1>4 DEF PoolInv, PoolTypeOK, AwaitedIsReachable, Exclusive
<1>11. QED
  BY <1>5, <1>6, <1>7, <1>8, <1>9, <1>10 DEF PoolInv

\* What is left of the queue once its head is taken.
LEMMA TakenHead ==
  ASSUME PoolInv, idle # <<>>
  PROVE  /\ Head(idle) \in Worker /\ Tail(idle) \in Seq(Worker) /\ IsInjective(Tail(idle))
         /\ Head(idle) \in ToSet(idle) /\ Head(idle) \notin ToSet(Tail(idle))
         /\ ToSet(Tail(idle)) = ToSet(idle) \ {Head(idle)}
<1>1. idle \in Seq(Worker) /\ IsInjective(idle)
  BY DEF PoolInv, PoolTypeOK
<1>2. /\ Head(idle) \in Worker /\ Tail(idle) \in Seq(Worker)
      /\ ToSet(idle) = {Head(idle)} \cup ToSet(Tail(idle))
  BY <1>1, ToSetHeadTail
<1>3. IsInjective(Tail(idle)) /\ Head(idle) \notin ToSet(Tail(idle))
  BY <1>1, TailOfDistinct
<1>4. QED
  BY <1>2, <1>3

\* A call that ends with what it had at the head of the queue: the worker goes
\* (dropped or leaked), or is put back at the end.
LEMMA EndAtQueue ==
  ASSUME PoolInv, NEW c \in Call, stage[c] = "getting",
         idle' \in Seq(Worker), IsInjective(idle'), ToSet(idle') \subseteq ToSet(idle),
         NEW how \in Outcomes, End(c, how),
         \/ UNCHANGED <<pending, reply>>
         \/ \E w \in Worker : /\ pending' = [pending EXCEPT ![w] = @ \cup {c}]
                              /\ reply' = [reply EXCEPT ![c] = "pending"],
         UNCHANGED <<started, workers, alive, listener, proc, stdin, inbox, outbox, holds, closer>>
  PROVE  PoolInv'
<1>1. stage' = [stage EXCEPT ![c] = "done"] /\ outcome' = [outcome EXCEPT ![c] = how]
  BY DEF End
<1>2. stage'[c] = "done" /\ \A d \in Call : d # c => stage'[d] = stage[d] /\ reply'[d] = reply[d]
  BY <1>1 DEF PoolInv, PoolTypeOK
<1>3. PoolTypeOK'
  <2>1. pending' \in [Worker -> SUBSET Call] /\ reply' \in [Call -> Replies]
    <3>1. pending \in [Worker -> SUBSET Call] /\ reply \in [Call -> Replies] /\ "pending" \in Replies
      BY DEF PoolInv, PoolTypeOK, Replies
    <3>2. QED
      BY <3>1
  <2>2. stage' \in [Call -> Stages] /\ outcome' \in [Call -> Outcomes]
    BY <1>1 DEF PoolInv, PoolTypeOK, Stages, Outcomes
  <2>3. QED
    BY <2>1, <2>2 DEF PoolInv, PoolTypeOK, Stages, Outcomes, Replies, closer
<1>4. Unborn' /\ ReaderRuns' /\ OneRequestPerWorker'
  BY DEF PoolInv, Unborn, ReaderRuns, OneRequestPerWorker, Quiet
<1>5. Exclusive'
  BY <1>2 DEF PoolInv, Exclusive
<1>6. FuturesAtHome'
  <2>1. \A w \in Worker : pending'[w] \subseteq pending[w] \cup {c}
    <3>1. pending \in [Worker -> SUBSET Call]
      BY DEF PoolInv, PoolTypeOK
    <3>2. QED
      BY <3>1
  <2>2. QED
    BY <1>2, <2>1 DEF PoolInv, PoolTypeOK, FuturesAtHome
<1>7. QuietWhenFree'
  BY <1>2 DEF PoolInv, QuietWhenFree, closer, Quiet
<1>8. AwaitedIsReachable'
  <2>1. \A w \in Worker : pending[w] \subseteq pending'[w]
    <3>1. pending \in [Worker -> SUBSET Call]
      BY DEF PoolInv, PoolTypeOK
    <3>2. QED
      BY <3>1
  <2>2. \A d \in Call : stage[d] = "awaiting" => holds[d] \in Worker
    BY DEF PoolInv, PoolTypeOK, Exclusive
  <2>3. QED
    BY <1>2, <2>1, <2>2 DEF PoolInv, AwaitedIsReachable
<1>9. QED
  BY <1>3, <1>4, <1>5, <1>6, <1>7, <1>8 DEF PoolInv

LEMMA TakeDeadStep == ASSUME PoolInv, NEW c \in Call, TakeDead(c) PROVE PoolInv'
<1>1. /\ stage[c] = "getting" /\ idle # <<>> /\ idle' = Tail(idle) /\ End(c, "closed")
      /\ UNCHANGED <<started, workers, worker, holds, reply, closer>>
  BY DEF TakeDead
<1>2. /\ idle' \in Seq(Worker) /\ IsInjective(idle') /\ ToSet(idle') \subseteq ToSet(idle)
  BY <1>1, TakenHead
<1>3. QED
  BY <1>1, <1>2, EndAtQueue DEF Outcomes, worker

LEMMA TakeBadArgsStep ==
  ASSUME PoolInv, NEW c \in Call, NEW w \in Worker, TakeBadArgs(c, w)
  PROVE  PoolInv'
<1>1. /\ stage[c] = "getting" /\ idle # <<>> /\ idle' = Tail(idle) /\ End(c, "error")
      /\ pending' = [pending EXCEPT ![w] = @ \cup {c}]
      /\ reply' = [reply EXCEPT ![c] = "pending"]
      /\ UNCHANGED <<started, workers, alive, listener, proc, stdin, inbox, outbox, holds, closer>>
  BY DEF TakeBadArgs, Register
<1>2. /\ idle' \in Seq(Worker) /\ IsInjective(idle') /\ ToSet(idle') \subseteq ToSet(idle)
  BY <1>1, TakenHead
<1>3. QED
  BY <1>1, <1>2, EndAtQueue DEF Outcomes

LEMMA TakeBrokenStep ==
  ASSUME PoolInv, NEW c \in Call, NEW w \in Worker, TakeBroken(c, w)
  PROVE  PoolInv' /\ ToSet(idle') = ToSet(idle)
<1>1. /\ stage[c] = "getting" /\ idle # <<>> /\ w = Head(idle)
      /\ idle' = Append(Tail(idle), w) /\ End(c, "error")
      /\ pending' = [pending EXCEPT ![w] = @ \cup {c}]
      /\ reply' = [reply EXCEPT ![c] = "pending"]
      /\ UNCHANGED <<started, workers, alive, listener, proc, stdin, inbox, outbox, holds, closer>>
  BY DEF TakeBroken, Register
<1>2. /\ Tail(idle) \in Seq(Worker) /\ IsInjective(Tail(idle)) /\ w \notin ToSet(Tail(idle))
      /\ ToSet(Tail(idle)) = ToSet(idle) \ {w} /\ w \in ToSet(idle)
  BY <1>1, TakenHead
<1>3. /\ idle' \in Seq(Worker) /\ IsInjective(idle') /\ ToSet(idle') = ToSet(idle)
  <2>1. w \in Worker
    BY <1>1, TakenHead
  <2> DEFINE rest == Tail(idle)
  <2>2. /\ rest \in Seq(Worker) /\ IsInjective(rest) /\ w \notin ToSet(rest)
        /\ ToSet(rest) = ToSet(idle) \ {w} /\ idle' = Append(rest, w)
    BY <1>1, <1>2
  <2> HIDE DEF rest
  <2>3. idle' \in Seq(Worker) /\ IsInjective(idle')
    BY <2>1, <2>2, AppendNewcomer
  <2>4. ToSet(idle') = ToSet(rest) \cup {w}
    BY <2>1, <2>2, ToSetAppend
  <2>5. QED
    BY <1>2, <2>2, <2>3, <2>4
<1>4. QED
  BY <1>1, <1>3, EndAtQueue DEF Outcomes

LEMMA TakeStep ==
  ASSUME PoolInv, NEW c \in Call, NEW w \in Worker, Take(c, w)
  PROVE  PoolInv'
<1>1. /\ stage[c] = "getting" /\ idle # <<>> /\ w = Head(idle) /\ alive[w] /\ ~closed
      /\ pending' = [pending EXCEPT ![w] = @ \cup {c}]
      /\ reply' = [reply EXCEPT ![c] = "pending"]
      /\ idle' = Tail(idle)
      /\ inbox' = IF proc[w] = "up" THEN [inbox EXCEPT ![w] = Append(@, c)] ELSE inbox
      /\ holds' = [holds EXCEPT ![c] = w]
      /\ stage' = [stage EXCEPT ![c] = "awaiting"]
      /\ UNCHANGED <<started, workers, alive, listener, proc, stdin, outbox, outcome, closer>>
  BY DEF Take, Register, CallGoes
<1>2. /\ idle' \in Seq(Worker) /\ IsInjective(idle') /\ ToSet(idle') = ToSet(idle) \ {w}
      /\ w \in ToSet(idle)
  BY <1>1, TakenHead
<1>3. /\ inbox[w] = <<>> /\ outbox[w] = <<>> /\ proc[w] # "none"
      /\ listener[w] # "off"
      /\ \A d \in Call : holds[d] # w
  BY <1>1, <1>2 DEF PoolInv, QuietWhenFree, closer, Quiet, ReaderRuns, Unborn, Exclusive
<1>4. /\ stage'[c] = "awaiting" /\ holds'[c] = w /\ reply'[c] = "pending" /\ c \in pending'[w]
      /\ \A d \in Call : d # c => stage'[d] = stage[d] /\ holds'[d] = holds[d] /\ reply'[d] = reply[d]
      /\ pending'[w] = pending[w] \cup {c}
      /\ \A v \in Worker : v # w => pending'[v] = pending[v] /\ inbox'[v] = inbox[v]
      /\ inbox'[w] \in {<<>>, Append(<<>>, c)}
  BY <1>1, <1>3 DEF PoolInv, PoolTypeOK
<1>5. inbox' \in [Worker -> Seq(Call)]
  BY <1>1 DEF PoolInv, PoolTypeOK
<1>6. PoolTypeOK'
  <2>1. pending' \in [Worker -> SUBSET Call]
    BY <1>1 DEF PoolInv, PoolTypeOK
  <2>2. stage' \in [Call -> Stages] /\ reply' \in [Call -> Replies]
        /\ holds' \in [Call -> Worker \cup {NoWorker}]
    BY <1>1 DEF PoolInv, PoolTypeOK, Stages, Replies
  <2>3. QED
    BY <1>1, <1>2, <1>5, <2>1, <2>2 DEF PoolInv, PoolTypeOK, Stages, Replies, closer
<1>7. Unborn' /\ ReaderRuns'
  BY <1>1, <1>2, <1>3, <1>4 DEF PoolInv, Unborn, ReaderRuns, Quiet
<1>8. OneRequestPerWorker'
  <2>1. Len(<<>>) + Len(<<>>) <= 1 /\ Len(Append(<<>>, c)) + Len(<<>>) <= 1
    OBVIOUS
  <2>2. Len(inbox'[w]) + Len(outbox'[w]) <= 1
    BY <1>1, <1>3, <1>4, <2>1
  <2>3. QED
    BY <1>1, <1>4, <2>2 DEF PoolInv, OneRequestPerWorker
<1>9. Exclusive'
  <2>1. w # NoWorker
    BY PoolAssumption
  <2>2. QED
    BY <1>2, <1>3, <1>4, <2>1 DEF PoolInv, Exclusive
<1>10. FuturesAtHome'
  <2>1. holds[c] = NoWorker
    BY <1>1 DEF PoolInv, Exclusive
  <2>2. \A v \in Worker : v # NoWorker
    BY PoolAssumption
  <2>3. \A v \in Worker : c \notin pending[v]
    BY <1>1, <2>1, <2>2 DEF PoolInv, FuturesAtHome
  <2>4. \A v \in Worker : pending[v] \subseteq Call
    BY DEF PoolInv, PoolTypeOK
  <2>5. ASSUME NEW v \in Worker, NEW d \in pending'[v] PROVE stage'[d] = "done" \/ holds'[d] = v
    <3>1. CASE d = c
      BY <1>4, <2>3, <2>5, <3>1
    <3>2. CASE d # c
      <4>1. d \in pending[v]
        BY <1>4, <2>5, <3>2
      <4>2. QED
        BY <1>4, <2>4, <3>2, <4>1 DEF PoolInv, FuturesAtHome
    <3>3. QED
      BY <3>1, <3>2
  <2>6. QED
    BY <2>5 DEF FuturesAtHome
<1>11. QuietWhenFree'
  <2>1. \A v \in ToSet(idle') : v \in Worker /\ v \in ToSet(idle) /\ v # w
    BY <1>2, IdleWorkers
  <2>2. \A d \in Call : stage'[d] = "awaiting" /\ reply'[d] \in {"ok", "error"} =>
          d # c /\ stage[d] = "awaiting" /\ holds'[d] = holds[d] /\ holds[d] \in Worker /\ holds[d] # w
          /\ reply[d] = reply'[d]
    BY <1>3, <1>4 DEF PoolInv, PoolTypeOK, Exclusive
  <2>3. QED
    BY <1>1, <1>4, <2>1, <2>2 DEF PoolInv, QuietWhenFree, closer, Quiet
<1>12. AwaitedIsReachable'
  <2>1. \A d \in Call : d # c /\ stage'[d] = "awaiting" =>
          stage[d] = "awaiting" /\ holds'[d] = holds[d] /\ holds[d] \in Worker /\ holds[d] # w
          /\ reply[d] = reply'[d]
    BY <1>3, <1>4 DEF PoolInv, PoolTypeOK, Exclusive
  <2>2. QED
    BY <1>1, <1>3, <1>4, <2>1 DEF PoolInv, AwaitedIsReachable
<1>13. QED
  BY <1>6, <1>7, <1>8, <1>9, <1>10, <1>11, <1>12 DEF PoolInv

\* A call with its answer gives its worker back.
LEMMA ReturnStep ==
  ASSUME PoolInv, NEW c \in Call, Succeed(c) \/ FailAndReturn(c)
  PROVE  PoolInv' /\ holds[c] \in Worker /\ ToSet(idle') = ToSet(idle) \cup {holds[c]}
<1> DEFINE w == holds[c]
<1>1. /\ stage[c] = "awaiting" /\ reply[c] \in {"ok", "error"} /\ w \in Worker /\ w # NoWorker
      /\ idle' = Append(idle, w) /\ holds' = [holds EXCEPT ![c] = NoWorker]
      /\ stage' = [stage EXCEPT ![c] = "done"]
      /\ \E how \in Outcomes : outcome' = [outcome EXCEPT ![c] = how]
      /\ UNCHANGED <<started, workers, worker, reply, closer>>
  BY DEF PoolInv, PoolTypeOK, Exclusive, Succeed, FailAndReturn, PutIdle, End, Outcomes
<1>2. /\ idle \in Seq(Worker) /\ IsInjective(idle) /\ w \notin ToSet(idle)
      /\ alive[w] => Quiet(w)
  <2>1. idle \in Seq(Worker) /\ IsInjective(idle) /\ w \notin ToSet(idle)
    BY <1>1 DEF PoolInv, PoolTypeOK, Exclusive
  <2>2. reply[c] = "ok" \/ ~closed
    BY DEF Succeed, FailAndReturn
  <2>3. QED
    BY <1>1, <2>1, <2>2 DEF PoolInv, QuietWhenFree
<1> HIDE DEF w
<1>3. /\ idle' \in Seq(Worker) /\ IsInjective(idle') /\ ToSet(idle') = ToSet(idle) \cup {w}
  <2>1. idle' \in Seq(Worker) /\ IsInjective(idle')
    BY <1>1, <1>2, AppendNewcomer
  <2>2. QED
    BY <1>1, <1>2, <2>1, ToSetAppend
<1>4. /\ stage'[c] = "done" /\ holds'[c] = NoWorker /\ holds[c] = w
      /\ \A d \in Call : d # c => stage'[d] = stage[d] /\ holds'[d] = holds[d]
  BY <1>1 DEF PoolInv, PoolTypeOK, w
<1>5. PoolTypeOK'
  BY <1>1, <1>3 DEF PoolInv, PoolTypeOK, Outcomes, worker, closer
<1>6. Unborn' /\ ReaderRuns' /\ OneRequestPerWorker'
  <2>1. \A v \in Worker : v # NoWorker
    BY PoolAssumption
  <2>2. proc[w] # "none"
    BY <1>1, <1>4 DEF PoolInv, Unborn
  <2>3. Unborn'
    BY <1>1, <1>3, <1>4, <2>1, <2>2 DEF PoolInv, Unborn, Quiet, worker
  <2>4. ReaderRuns' /\ OneRequestPerWorker'
    BY <1>1 DEF PoolInv, ReaderRuns, OneRequestPerWorker, worker
  <2>5. QED
    BY <2>3, <2>4
<1>7. Exclusive'
  <2>1. \A d \in Call : d # c /\ holds[d] # NoWorker => holds[d] # w
    BY <1>1, <1>4 DEF PoolInv, Exclusive
  <2>2. NoWorker \notin ToSet(idle')
    BY <1>1, <1>3, IdleWorkers, PoolAssumption
  <2>3. QED
    BY <1>1, <1>3, <1>4, <2>1, <2>2 DEF PoolInv, Exclusive
<1>8. FuturesAtHome' /\ AwaitedIsReachable'
  BY <1>1, <1>4 DEF PoolInv, PoolTypeOK, FuturesAtHome, AwaitedIsReachable, worker
<1>9. QuietWhenFree'
  BY <1>1, <1>2, <1>3, <1>4 DEF PoolInv, QuietWhenFree, closer, Quiet, worker
<1>10. QED
  BY <1>1, <1>3, <1>4, <1>5, <1>6, <1>7, <1>8, <1>9 DEF PoolInv

-----------------------------------------------------------------------------
(* The reader of a worker, the process behind it, and close() *)

\* A pipe that is not empty holds one request, and the other pipe none.
LEMMA OnlyElement ==
  ASSUME NEW S, NEW s \in Seq(S), NEW T, NEW t \in Seq(T), s # <<>>, Len(s) + Len(t) <= 1
  PROVE  Head(s) \in S /\ Tail(s) = <<>> /\ t = <<>>
<1>1. Len(s) \in Nat /\ Len(t) \in Nat /\ Len(s) > 0
  OBVIOUS
<1>2. \A m, n \in Nat : m > 0 /\ m + n <= 1 => m = 1 /\ n = 0
  OBVIOUS
<1>3. Len(s) = 1 /\ Len(t) = 0
  BY <1>1, <1>2
<1>4. t = <<>>
  BY <1>3, EmptySeq
<1>5. Tail(s) = <<>> /\ Head(s) \in S
  <2>1. Head(s) \in S /\ Tail(s) \in Seq(S) /\ Len(Tail(s)) = Len(s) - 1
    BY HeadTailProperties
  <2>2. Len(Tail(s)) = 0
    BY <1>3, <2>1
  <2>3. QED
    BY <2>1, <2>2, EmptySeq
<1>6. QED
  BY <1>4, <1>5

LEMMA ReadLineStep == ASSUME PoolInv, NEW w \in Worker, ReadLine(w) PROVE PoolInv'
<1> DEFINE m == Head(outbox[w])
<1>1. /\ outbox[w] # <<>> /\ listener[w] = "on"
      /\ pending' = [pending EXCEPT ![w] = @ \ {m.id}]
      /\ reply' = IF m.id \in pending[w] /\ reply[m.id] = "pending"
                  THEN [reply EXCEPT ![m.id] = IF m.ok THEN "ok" ELSE "error"]
                  ELSE reply
      /\ outbox' = [outbox EXCEPT ![w] = Tail(@)]
      /\ UNCHANGED <<started, workers, idle, alive, listener, proc, stdin, inbox,
                     stage, holds, outcome, closer>>
  BY DEF ReadLine
<1>2. /\ inbox[w] \in Seq(Call) /\ outbox[w] \in Seq(Message)
      /\ Len(inbox[w]) + Len(outbox[w]) <= 1
  BY DEF PoolInv, PoolTypeOK, OneRequestPerWorker, Message
<1>3. m \in Message /\ Tail(outbox[w]) = <<>> /\ inbox[w] = <<>>
  <2>1. Len(outbox[w]) + Len(inbox[w]) <= 1
    <3>1. Len(outbox[w]) \in Nat /\ Len(inbox[w]) \in Nat
      BY <1>2
    <3>2. \A m1, n \in Nat : m1 + n <= 1 => n + m1 <= 1
      OBVIOUS
    <3>3. QED
      BY <1>2, <3>1, <3>2
  <2>2. QED
    BY <1>1, <1>2, <2>1, OnlyElement
<1>4. m.id \in Call
  BY <1>3 DEF Message
<1> HIDE DEF m
<1>5. /\ outbox'[w] = <<>> /\ inbox'[w] = <<>> /\ pending'[w] = pending[w] \ {m.id}
      /\ \A v \in Worker : v # w => outbox'[v] = outbox[v] /\ pending'[v] = pending[v]
      /\ \A d \in Call : d # m.id => reply'[d] = reply[d]
      /\ m.id \notin pending[w] => reply' = reply
      /\ m.id \in pending[w] => reply'[m.id] # "pending"
  BY <1>1, <1>3, <1>4 DEF PoolInv, PoolTypeOK
<1>6. PoolTypeOK'
  <2>1. pending' \in [Worker -> SUBSET Call]
    BY <1>1 DEF PoolInv, PoolTypeOK
  <2>2. outbox' \in [Worker -> Seq(Message)]
    <3>1. outbox \in [Worker -> Seq(Message)]
      BY DEF PoolInv, PoolTypeOK, Message
    <3>2. Tail(outbox[w]) \in Seq(Message)
      BY <1>3, EmptySeq
    <3>3. QED
      BY <1>1, <3>1, <3>2
  <2>3. reply' \in [Call -> Replies]
    BY <1>1 DEF PoolInv, PoolTypeOK, Replies
  <2>4. QED
    BY <1>1, <2>1, <2>2, <2>3 DEF PoolInv, PoolTypeOK, Replies, Message, closer
<1>7. Unborn' /\ ReaderRuns'
  BY <1>1, <1>5 DEF PoolInv, Unborn, ReaderRuns, Quiet
<1>8. OneRequestPerWorker'
  <2>1. Len(inbox'[w]) + Len(outbox'[w]) <= 1
    BY <1>5
  <2>2. QED
    BY <1>1, <1>5, <2>1 DEF PoolInv, OneRequestPerWorker
<1>9. Exclusive' /\ FuturesAtHome'
  <2>1. \A v \in Worker : pending'[v] \subseteq pending[v]
    BY <1>5
  <2>2. QED
    BY <1>1, <2>1 DEF PoolInv, Exclusive, FuturesAtHome
<1>10. QuietWhenFree'
  <2>1. \A v \in Worker : Quiet(v) => Quiet(v)'
    BY <1>1, <1>5 DEF Quiet
  <2>2. Quiet(w)'
    BY <1>5 DEF Quiet
  <2>3. \A v \in ToSet(idle) : alive[v] => Quiet(v)'
    BY <2>1, IdleWorkers DEF PoolInv, QuietWhenFree, closer
  <2>4. ASSUME NEW d \in Call, stage[d] = "awaiting", reply'[d] \in {"ok", "error"}, alive[holds[d]]
        PROVE  Quiet(holds[d])' \/ (closed' /\ reply'[d] = "error")
    <3>1. holds[d] \in Worker /\ holds' = holds /\ closed' = closed
      BY <1>1, <2>4 DEF PoolInv, PoolTypeOK, Exclusive, closer
    <3>2. CASE reply'[d] = reply[d]
      <4>1. Quiet(holds[d]) \/ (closed /\ reply[d] = "error")
        BY <2>4, <3>2 DEF PoolInv, QuietWhenFree
      <4>2. Quiet(holds[d]) => Quiet(holds[d])'
        BY <1>1, <1>5, <3>1 DEF Quiet
      <4>3. QED
        BY <3>1, <3>2, <4>1, <4>2
    <3>3. CASE reply'[d] # reply[d]
      <4>1. d \in pending[w]
        BY <1>5, <3>3
      <4>2. holds[d] = w
        BY <2>4, <4>1 DEF PoolInv, FuturesAtHome
      <4>3. QED
        BY <1>5, <3>1, <4>2 DEF Quiet
    <3>4. QED
      BY <3>2, <3>3
  <2>5. UNCHANGED <<idle, alive, stage, holds>>
    BY <1>1
  <2>6. QED
    BY <2>3, <2>4, <2>5 DEF QuietWhenFree, closer
<1>11. AwaitedIsReachable'
  BY <1>1, <1>4, <1>5 DEF PoolInv, PoolTypeOK, Exclusive, AwaitedIsReachable
<1>12. QED
  BY <1>6, <1>7, <1>8, <1>9, <1>10, <1>11 DEF PoolInv

LEMMA ReadEofStep == ASSUME PoolInv, NEW w \in Worker, ReadEof(w) PROVE PoolInv'
<1> DEFINE failed == {d \in pending[w] : reply[d] = "pending"}
<1>1. /\ alive' = [alive EXCEPT ![w] = FALSE] /\ listener' = [listener EXCEPT ![w] = "off"]
      /\ reply' = SetAll(reply, failed, "error")
      /\ pending' = [pending EXCEPT ![w] = {}]
      /\ UNCHANGED <<started, workers, idle, proc, stdin, inbox, outbox, stage, holds, outcome, closer>>
  BY DEF ReadEof
<1>2. \A d \in failed : d \in pending[w] /\ reply[d] = "pending"
  OBVIOUS
<1>3. \A d \in Call : d \notin failed => d \notin pending[w] \/ reply[d] # "pending"
  OBVIOUS
<1> HIDE DEF failed
<1>4. /\ reply' \in [Call -> Replies]
      /\ \A d \in Call : reply'[d] = IF d \in failed THEN "error" ELSE reply[d]
  BY <1>1 DEF PoolInv, PoolTypeOK, SetAll, Replies
<1>5. /\ ~alive'[w] /\ pending'[w] = {}
      /\ \A v \in Worker : v # w => alive'[v] = alive[v] /\ listener'[v] = listener[v] /\ pending'[v] = pending[v]
  BY <1>1 DEF PoolInv, PoolTypeOK
<1>6. PoolTypeOK'
  <2>1. /\ alive' \in [Worker -> BOOLEAN] /\ listener' \in [Worker -> ReaderStates]
        /\ pending' \in [Worker -> SUBSET Call]
    BY <1>1 DEF PoolInv, PoolTypeOK, ReaderStates
  <2>2. /\ UNCHANGED <<started, workers, idle, proc, stdin, inbox, outbox, stage, holds, outcome>>
        /\ UNCHANGED <<closed, closing, awaited>>
    BY <1>1 DEF closer
  <2>3. QED
    BY <1>4, <2>1, <2>2 DEF PoolInv, PoolTypeOK, Replies
<1>7. Unborn' /\ ReaderRuns' /\ OneRequestPerWorker'
  <2>1. Unborn'
    BY <1>1, <1>5 DEF PoolInv, Unborn, Quiet
  <2>2. ReaderRuns' /\ OneRequestPerWorker'
    BY <1>1, <1>5 DEF PoolInv, ReaderRuns, OneRequestPerWorker
  <2>3. QED
    BY <2>1, <2>2
<1>8. Exclusive' /\ FuturesAtHome'
  BY <1>1, <1>5 DEF PoolInv, PoolTypeOK, Exclusive, FuturesAtHome
<1>9. QuietWhenFree'
  <2>1. \A v \in ToSet(idle') : alive'[v] => v # w /\ alive[v]
    BY <1>1, <1>5, IdleWorkers
  <2>2. \A d \in Call : d \in failed /\ stage[d] = "awaiting" => holds[d] = w
    BY <1>2 DEF PoolInv, FuturesAtHome
  <2>3. \A d \in Call : stage[d] = "awaiting" /\ alive'[holds[d]] =>
          /\ holds[d] \in Worker /\ holds[d] # w /\ alive[holds[d]]
          /\ reply'[d] = reply[d]
    BY <1>4, <1>5, <2>2 DEF PoolInv, PoolTypeOK, Exclusive
  <2>4. QED
    BY <1>1, <2>1, <2>3 DEF PoolInv, QuietWhenFree, closer, Quiet
<1>10. AwaitedIsReachable'
  BY <1>1, <1>3, <1>4, <1>5 DEF PoolInv, PoolTypeOK, Exclusive, AwaitedIsReachable
<1>11. QED
  BY <1>6, <1>7, <1>8, <1>9, <1>10 DEF PoolInv

\* A reader that breaks changes nothing else.
LEMMA ReaderBreaksStep == ASSUME PoolInv, NEW w \in Worker, ReaderBreaks(w) PROVE PoolInv'
<1>1. /\ "badline" \in PoolFaults /\ listener' = [listener EXCEPT ![w] = "broke"]
      /\ UNCHANGED <<started, workers, idle, alive, pending, proc, stdin, inbox, outbox, caller, closer>>
  BY DEF ReaderBreaks
<1>2. PoolTypeOK'
  <2>1. listener' \in [Worker -> ReaderStates]
    BY <1>1 DEF PoolInv, PoolTypeOK, ReaderStates
  <2>2. QED
    BY <1>1, <2>1 DEF PoolInv, PoolTypeOK, caller, closer
<1>3. Unborn'
  BY <1>1 DEF PoolInv, Unborn, Quiet, caller
<1>4. ReaderRuns' /\ AwaitedIsReachable'
  BY <1>1 DEF PoolInv, ReaderRuns, AwaitedIsReachable, caller
<1>5. Exclusive' /\ FuturesAtHome' /\ QuietWhenFree' /\ OneRequestPerWorker'
  BY <1>1 DEF PoolInv, Exclusive, FuturesAtHome, QuietWhenFree, Quiet, OneRequestPerWorker, caller, closer
<1>6. QED
  BY <1>2, <1>3, <1>4, <1>5 DEF PoolInv

\* close() fails the futures of a worker whose reader is over.
LEMMA CloseDrainsStep == ASSUME PoolInv, ClosingIsClosed, NEW w \in Worker, CloseDrains(w) PROVE PoolInv'
<1> DEFINE failed == {d \in pending[w] : reply[d] = "pending"}
<1>1. /\ reply' = SetAll(reply, failed, "error")
      /\ pending' = [pending EXCEPT ![w] = {}] /\ awaited' = awaited \ {w}
      /\ UNCHANGED <<started, workers, idle, alive, listener, proc, stdin, inbox, outbox,
                     stage, holds, outcome, closed, closing>>
  BY DEF CloseDrains
<1>2. \A d \in Call : d \notin failed => d \notin pending[w] \/ reply[d] # "pending"
  OBVIOUS
<1> HIDE DEF failed
<1>3. /\ reply' \in [Call -> Replies]
      /\ \A d \in Call : reply'[d] = IF d \in failed THEN "error" ELSE reply[d]
  BY <1>1 DEF PoolInv, PoolTypeOK, SetAll, Replies
<1>4. pending'[w] = {} /\ \A v \in Worker : v # w => pending'[v] = pending[v]
  BY <1>1 DEF PoolInv, PoolTypeOK
<1>5. PoolTypeOK'
  <2>1. pending' \in [Worker -> SUBSET Call] /\ awaited' \subseteq Worker
    BY <1>1 DEF PoolInv, PoolTypeOK
  <2>2. QED
    BY <1>1, <1>3, <2>1 DEF PoolInv, PoolTypeOK, Replies
<1>6. Unborn' /\ ReaderRuns' /\ OneRequestPerWorker'
  BY <1>1 DEF PoolInv, Unborn, Quiet, ReaderRuns, OneRequestPerWorker
<1>7. Exclusive' /\ FuturesAtHome'
  BY <1>1, <1>4 DEF PoolInv, PoolTypeOK, Exclusive, FuturesAtHome
<1>8. QuietWhenFree'
  <2>1. closed /\ closed'
    BY <1>1 DEF ClosingIsClosed, CloseDrains
  <2>2. \A d \in Call : reply'[d] = "ok" => reply[d] = "ok"
    BY <1>3
  <2>3. \A d \in Call : reply'[d] \in {"ok", "error"} => reply'[d] = "error" \/ reply'[d] = "ok"
    OBVIOUS
  <2>4. QED
    BY <1>1, <2>1, <2>2, <2>3 DEF PoolInv, QuietWhenFree, Quiet
<1>9. AwaitedIsReachable'
  BY <1>1, <1>2, <1>3, <1>4 DEF PoolInv, PoolTypeOK, Exclusive, AwaitedIsReachable
<1>10. QED
  BY <1>5, <1>6, <1>7, <1>8, <1>9 DEF PoolInv

LEMMA AnswerStep ==
  ASSUME PoolInv, NEW w \in Worker, NEW ok \in BOOLEAN, Answer(w, ok)
  PROVE  PoolInv'
<1> DEFINE m == [id |-> Head(inbox[w]), ok |-> ok]
<1>1. /\ proc[w] = "up" /\ inbox[w] # <<>>
      /\ outbox' = [outbox EXCEPT ![w] = Append(@, m)]
      /\ inbox' = [inbox EXCEPT ![w] = Tail(@)]
      /\ UNCHANGED <<started, workers, idle, alive, pending, listener, proc, stdin, caller, closer>>
  BY DEF Answer
<1>2. /\ inbox[w] \in Seq(Call) /\ outbox[w] \in Seq(Message)
      /\ Len(inbox[w]) + Len(outbox[w]) <= 1
  BY DEF PoolInv, PoolTypeOK, OneRequestPerWorker, Message
<1>3. Tail(inbox[w]) = <<>> /\ outbox[w] = <<>> /\ Head(inbox[w]) \in Call
  BY <1>1, <1>2, OnlyElement
<1>4. m \in Message
  BY <1>3 DEF Message
<1> HIDE DEF m
<1>5. /\ inbox'[w] = <<>> /\ outbox'[w] = Append(<<>>, m)
      /\ \A v \in Worker : v # w => inbox'[v] = inbox[v] /\ outbox'[v] = outbox[v]
  BY <1>1, <1>3 DEF PoolInv, PoolTypeOK
<1>6. PoolTypeOK'
  <2>1. inbox' \in [Worker -> Seq(Call)]
    BY <1>1, <1>3 DEF PoolInv, PoolTypeOK
  <2>2. outbox' \in [Worker -> Seq(Message)]
    <3>1. outbox \in [Worker -> Seq(Message)]
      BY DEF PoolInv, PoolTypeOK, Message
    <3>2. QED
      BY <1>1, <1>4, <3>1
  <2>3. QED
    BY <1>1, <2>1, <2>2 DEF PoolInv, PoolTypeOK, Message, caller, closer
<1>7. Unborn'
  BY <1>1, <1>5 DEF PoolInv, Unborn, Quiet, caller
<1>8. OneRequestPerWorker'
  <2>1. Len(inbox'[w]) + Len(outbox'[w]) <= 1
    BY <1>4, <1>5
  <2>2. QED
    BY <1>5, <2>1 DEF PoolInv, OneRequestPerWorker
<1>9. ReaderRuns' /\ Exclusive' /\ FuturesAtHome' /\ AwaitedIsReachable'
  BY <1>1 DEF PoolInv, ReaderRuns, Exclusive, FuturesAtHome, AwaitedIsReachable, caller
<1>10. QuietWhenFree'
  <2>1. ~Quiet(w) /\ \A v \in Worker : Quiet(v) => Quiet(v)'
    BY <1>1, <1>5 DEF Quiet
  <2>2. \A d \in Call : stage[d] = "awaiting" => holds[d] \in Worker
    BY DEF PoolInv, PoolTypeOK, Exclusive
  <2>3. UNCHANGED <<idle, alive, stage, holds, reply, closed>>
    BY <1>1 DEF caller, closer
  <2>4. QED
    BY <2>1, <2>2, <2>3, IdleWorkers DEF PoolInv, QuietWhenFree
<1>11. QED
  BY <1>6, <1>7, <1>8, <1>9, <1>10 DEF PoolInv

\* The end of a process is seen by nobody until its pipes are read.
LEMMA DieStep ==
  ASSUME PoolInv, NEW w \in Worker, Exit(w) \/ CloseKills(w)
  PROVE  PoolInv'
<1>1. /\ proc[w] = "up" /\ proc' = [proc EXCEPT ![w] = "dead"]
      /\ UNCHANGED <<started, workers, idle, alive, pending, listener, stdin, inbox, outbox, caller, closer>>
  BY DEF Exit, CloseKills
<1>2. \A v \in Worker : proc'[v] = "none" => proc[v] = "none"
  BY <1>1 DEF PoolInv, PoolTypeOK
<1>3. PoolTypeOK'
  BY <1>1 DEF PoolInv, PoolTypeOK, caller, closer
<1>4. Unborn'
  BY <1>1, <1>2 DEF PoolInv, Unborn, Quiet, caller
<1>5. ReaderRuns' /\ Exclusive' /\ FuturesAtHome' /\ QuietWhenFree' /\ OneRequestPerWorker' /\ AwaitedIsReachable'
  BY <1>1 DEF PoolInv, ReaderRuns, Exclusive, FuturesAtHome, QuietWhenFree, closer, Quiet, OneRequestPerWorker,
     AwaitedIsReachable, caller
<1>6. QED
  BY <1>3, <1>4, <1>5 DEF PoolInv

LEMMA CloseStep == ASSUME PoolInv, Close \/ CloseReaped \/ CloseDone PROVE PoolInv'
<1>1. /\ UNCHANGED <<started, idle, alive, pending, listener, proc, inbox, outbox, caller>>
      /\ workers' \in {workers, {}} /\ awaited' \in {workers, awaited} /\ closed' \in BOOLEAN
      /\ closing' \in {"reaping", "draining", "done"} /\ (closed => closed')
      /\ stdin' = stdin \/ stdin' = SetAll(stdin, workers, FALSE)
  <2>1. closed \in BOOLEAN
    BY DEF PoolInv, PoolTypeOK
  <2>2. CASE Close
    <3>1. closed'
      BY <2>2 DEF Close
    <3>2. closed' \in BOOLEAN
      BY <2>2 DEF Close
    <3>3. QED
      BY <2>2, <3>1, <3>2 DEF Close
  <2>3. CASE CloseReaped \/ CloseDone
    <3>1. closed' = closed
      BY <2>3 DEF CloseReaped, CloseDone
    <3>2. QED
      BY <2>1, <2>3, <3>1 DEF CloseReaped, CloseDone, worker
  <2>4. QED
    BY <2>2, <2>3
<1>2. stdin' \in [Worker -> BOOLEAN]
  BY <1>1 DEF PoolInv, PoolTypeOK, SetAll
<1>3. PoolTypeOK'
  BY <1>1, <1>2 DEF PoolInv, PoolTypeOK, caller
<1>4. Unborn'
  BY <1>1 DEF PoolInv, Unborn, Quiet, caller
<1>5. ReaderRuns' /\ Exclusive' /\ FuturesAtHome' /\ OneRequestPerWorker' /\ AwaitedIsReachable'
  BY <1>1 DEF PoolInv, ReaderRuns, Exclusive, FuturesAtHome, OneRequestPerWorker, AwaitedIsReachable, caller
<1>6. QuietWhenFree'
  <2>1. \A w \in Worker : Quiet(w)' <=> Quiet(w)
    BY <1>1 DEF Quiet
  <2>2. \A d \in Call : stage[d] = "awaiting" => holds[d] \in Worker
    BY DEF PoolInv, PoolTypeOK, Exclusive
  <2>3. UNCHANGED <<idle, alive, stage, holds, reply>> /\ (closed => closed')
    BY <1>1 DEF caller
  <2>4. QED
    BY <2>1, <2>2, <2>3, IdleWorkers DEF PoolInv, QuietWhenFree
<1>7. QED
  BY <1>3, <1>4, <1>5, <1>6 DEF PoolInv

LEMMA NextClosing == ASSUME ClosingIsClosed, [PoolNext]_poolvars PROVE ClosingIsClosed'
<1>1. CASE UNCHANGED closer
  BY <1>1 DEF ClosingIsClosed, closer
<1>2. CASE Close
  BY <1>2 DEF ClosingIsClosed, Close
<1>3. CASE CloseReaped \/ CloseDone \/ \E w \in Worker : CloseDrains(w)
  BY <1>3 DEF ClosingIsClosed, CloseReaped, CloseDone, CloseDrains
<1>4. ASSUME NEW c \in Call, Begin(c) \/ Step(c) \/ SpawnFails(c) \/ TimeOut(c) \/ Cancel(c)
      PROVE  UNCHANGED closer
  <2>1. ASSUME NEW w \in Worker, Spawn(c, w) \/ Take(c, w) \/ TakeBroken(c, w) \/ TakeBadArgs(c, w)
        PROVE  UNCHANGED closer
    BY <2>1 DEF Spawn, Take, TakeBroken, TakeBadArgs
  <2>2. CASE Succeed(c) \/ FailAndReturn(c) \/ FailAndKill(c) \/ Reaped(c) \/ TakeDead(c)
    BY <2>2 DEF Succeed, FailAndReturn, FailAndKill, Kill, Reaped, TakeDead
  <2>3. CASE Begin(c) \/ SpawnFails(c) \/ TimeOut(c) \/ Cancel(c)
    BY <2>3 DEF Begin, SpawnFails, TimeOut, Kill, Cancel
  <2>4. QED
    BY <1>4, <2>1, <2>2, <2>3 DEF Step
<1>5. ASSUME NEW w \in Worker, \/ Pipe(w) \/ ReaderBreaks(w) \/ Exit(w) \/ CloseKills(w)
                               \/ \E ok \in BOOLEAN : Answer(w, ok)
      PROVE  UNCHANGED closer
  BY <1>5 DEF Pipe, ReadLine, ReadEof, ReaderBreaks, Exit, CloseKills, Answer, closer
<1>6. QED
  BY <1>1, <1>2, <1>3, <1>4, <1>5 DEF PoolNext, Finished, poolvars

LEMMA NextPool == ASSUME PoolInv, ClosingIsClosed, [PoolNext]_poolvars PROVE PoolInv'
<1>1. ASSUME NEW c \in Call, Begin(c) \/ Step(c) \/ SpawnFails(c) \/ TimeOut(c) \/ Cancel(c)
      PROVE  PoolInv'
  BY <1>1, BeginStep, SpawnFailsStep, CancelStep, KillStep, ReapedStep, SpawnStep, TakeDeadStep,
     TakeBadArgsStep, TakeBrokenStep, TakeStep, ReturnStep DEF Step
<1>2. ASSUME NEW w \in Worker, \/ Pipe(w) \/ ReaderBreaks(w) \/ Exit(w)
                               \/ CloseKills(w) \/ CloseDrains(w)
                               \/ \E ok \in BOOLEAN : Answer(w, ok)
      PROVE  PoolInv'
  BY <1>2, ReadLineStep, ReadEofStep, ReaderBreaksStep, DieStep, CloseDrainsStep, AnswerStep DEF Pipe
<1>3. CASE UNCHANGED poolvars
  BY <1>3, Zenon DEF poolvars, worker, caller, closer, PoolInv, PoolTypeOK, Unborn, ReaderRuns, Exclusive,
     FuturesAtHome, QuietWhenFree, Quiet, OneRequestPerWorker, AwaitedIsReachable
<1>4. QED
  BY <1>1, <1>2, <1>3, CloseStep DEF PoolNext, Finished

\* The invariant of the pool, whatever its size, the calls and the faults.
THEOREM PoolInvariant == PoolSpec => []PoolInv
<1>1. PoolInit => ClosingIsClosed
  BY DEF PoolInit, ClosingIsClosed
<1>2. QED
  BY <1>1, InitPool, NextPool, NextClosing, PTL DEF PoolSpec

\* A worker has one request at a time to answer, and a call that waits for its
\* answer is registered with the worker it holds, which nobody takes for dead, whatever
\* crashes, times out, is cancelled or closed.  That worker's reader runs, unless a bad
\* line may break it: no call waits on a worker that is known to be gone.
THEOREM PoolWorkersSound == PoolSpec => []WorkersSound
<1>1. PoolInv => WorkersSound
  BY DEF PoolInv, WorkersSound
<1>2. QED
  BY <1>1, PoolInvariant, PTL

-----------------------------------------------------------------------------
(* The pool implements the leasing of workers. *)

\* leaseOf, as a function of the variables it reads.
LeaseFrom(pr, ho, al, queued) == [w \in Worker |->
  IF pr[w] = "none" THEN "unborn"
  ELSE IF \E c \in Call : ho[c] = w THEN CHOOSE c \in Call : ho[c] = w
  ELSE IF al[w] /\ w \in queued THEN "free"
  ELSE "dropped"]

\* At most one call has a worker, and none has an unborn one.
Sole(pr, ho) ==
  /\ \A w \in Worker, c, d \in Call : ho[c] = w /\ ho[d] = w => c = d
  /\ \A w \in Worker, c \in Call : ho[c] = w => pr[w] # "none"

LEMMA LeaseCases ==
  ASSUME NEW pr, NEW ho, NEW al, NEW queued, Sole(pr, ho), NEW w \in Worker
  PROVE  LET l == LeaseFrom(pr, ho, al, queued)[w]
         IN /\ pr[w] = "none" => l = "unborn"
            /\ \A c \in Call : ho[c] = w => l = c
            /\ pr[w] # "none" /\ (\A c \in Call : ho[c] # w) =>
                 l = IF al[w] /\ w \in queued THEN "free" ELSE "dropped"
<1> DEFINE l == LeaseFrom(pr, ho, al, queued)[w]
<1>1. l = IF pr[w] = "none" THEN "unborn"
          ELSE IF \E c \in Call : ho[c] = w THEN CHOOSE c \in Call : ho[c] = w
          ELSE IF al[w] /\ w \in queued THEN "free"
          ELSE "dropped"
  BY DEF LeaseFrom
<1> HIDE DEF l
<1>2. ASSUME NEW c \in Call, ho[c] = w PROVE l = c
  <2>1. (CHOOSE d \in Call : ho[d] = w) = c
    <3>1. \A d \in Call : ho[d] = w => d = c
      BY <1>2 DEF Sole
    <3>2. QED
      BY <1>2, <3>1
  <2>2. pr[w] # "none"
    BY <1>2 DEF Sole
  <2>3. QED
    BY <1>1, <1>2, <2>1, <2>2
<1>3. QED
  BY <1>1, <1>2 DEF l

LEMMA LeaseOfNow ==
  ASSUME PoolInv
  PROVE  /\ Sole(proc, holds) /\ leaseOf = LeaseFrom(proc, holds, alive, ToSet(idle))
<1>1. \A w \in Worker : w # NoWorker
  BY PoolAssumption
<1>2. Sole(proc, holds)
  BY <1>1 DEF PoolInv, Exclusive, Unborn, Sole
<1>3. QED
  BY <1>2 DEF leaseOf, LeaseFrom

LEMMA LeaseOfNext ==
  ASSUME PoolInv'
  PROVE  /\ Sole(proc', holds') /\ leaseOf' = LeaseFrom(proc', holds', alive', ToSet(idle'))
<1>1. \A w \in Worker : w # NoWorker
  BY PoolAssumption
<1>2. Sole(proc', holds')
  BY <1>1 DEF PoolInv, Exclusive, Unborn, Sole
<1>3. QED
  BY <1>2 DEF leaseOf, LeaseFrom

\* What the lease of a worker is, now and next.
LEMMA LeaseNow ==
  ASSUME PoolInv, NEW w \in Worker
  PROVE  /\ proc[w] = "none" => leaseOf[w] = "unborn"
         /\ \A c \in Call : holds[c] = w => leaseOf[w] = c
         /\ proc[w] # "none" /\ (\A c \in Call : holds[c] # w) =>
              leaseOf[w] = IF alive[w] /\ w \in ToSet(idle) THEN "free" ELSE "dropped"
  BY LeaseOfNow, LeaseCases

LEMMA LeaseNext ==
  ASSUME PoolInv', NEW w \in Worker
  PROVE  /\ proc'[w] = "none" => leaseOf'[w] = "unborn"
         /\ \A c \in Call : holds'[c] = w => leaseOf'[w] = c
         /\ proc'[w] # "none" /\ (\A c \in Call : holds'[c] # w) =>
              leaseOf'[w] = IF alive'[w] /\ w \in ToSet(idle') THEN "free" ELSE "dropped"
  BY LeaseOfNext, LeaseCases

\* A step that changes nothing its lease depends on.
KeepsLease(w) ==
  /\ proc'[w] = "none" <=> proc[w] = "none"
  /\ \A c \in Call : holds'[c] = w <=> holds[c] = w
  /\ (\A c \in Call : holds[c] # w) =>
       ((alive'[w] /\ w \in ToSet(idle')) <=> (alive[w] /\ w \in ToSet(idle)))

LEMMA KeptLease ==
  ASSUME PoolInv, PoolInv', NEW w \in Worker, KeepsLease(w)
  PROVE  leaseOf'[w] = leaseOf[w]
<1>1. CASE proc[w] = "none"
  BY <1>1, LeaseNow, LeaseNext DEF KeepsLease
<1>2. CASE \E c \in Call : holds[c] = w
  <2>1. PICK c \in Call : holds[c] = w
    BY <1>2
  <2>2. holds'[c] = w
    BY <2>1 DEF KeepsLease
  <2>3. leaseOf[w] = c /\ leaseOf'[w] = c
    BY <2>1, <2>2, LeaseNow, LeaseNext
  <2>4. QED
    BY <2>3
<1>3. CASE proc[w] # "none" /\ \A c \in Call : holds[c] # w
  <2>1. proc'[w] # "none" /\ \A c \in Call : holds'[c] # w
    BY <1>3 DEF KeepsLease
  <2>2. /\ leaseOf[w] = IF alive[w] /\ w \in ToSet(idle) THEN "free" ELSE "dropped"
        /\ leaseOf'[w] = IF alive'[w] /\ w \in ToSet(idle') THEN "free" ELSE "dropped"
    BY <1>3, <2>1, LeaseNow, LeaseNext
  <2>3. QED
    BY <1>3, <2>2 DEF KeepsLease
<1>4. QED
  BY <1>1, <1>2, <1>3

LEMMA SameLeases ==
  ASSUME PoolInv, PoolInv', \A w \in Worker : KeepsLease(w)
  PROVE  UNCHANGED leaseOf
<1>1. \A w \in Worker : leaseOf'[w] = leaseOf[w]
  BY KeptLease
<1>2. leaseOf = [w \in Worker |-> leaseOf[w]] /\ leaseOf' = [w \in Worker |-> leaseOf'[w]]
  BY DEF leaseOf
<1>3. QED
  BY <1>1, <1>2

LEMMA OneLeaseMoves ==
  ASSUME PoolInv, PoolInv', NEW w \in Worker, \A v \in Worker : v # w => KeepsLease(v)
  PROVE  leaseOf' = [leaseOf EXCEPT ![w] = leaseOf'[w]]
<1>1. \A v \in Worker : v # w => leaseOf'[v] = leaseOf[v]
  BY KeptLease
<1>2. leaseOf = [v \in Worker |-> leaseOf[v]] /\ leaseOf' = [v \in Worker |-> leaseOf'[v]]
  BY DEF leaseOf
<1>3. QED
  BY <1>1, <1>2

\* A worker that is with nobody after the step, and not free, was dropped.
LEMMA DropsOne ==
  ASSUME PoolInv, PoolInv', NEW w \in Worker, \A v \in Worker : v # w => KeepsLease(v),
         proc[w] # "none", proc'[w] # "none", \A c \in Call : holds'[c] # w,
         ~(alive'[w] /\ w \in ToSet(idle'))
  PROVE  Leases!LeaseNext
<1>1. leaseOf' = [leaseOf EXCEPT ![w] = leaseOf'[w]] /\ leaseOf'[w] = "dropped"
  BY OneLeaseMoves, LeaseNext
<1>2. leaseOf[w] # "unborn"
  <2>1. CASE \E c \in Call : holds[c] = w
    BY <2>1, LeaseNow, LeaseAssumption
  <2>2. CASE \A c \in Call : holds[c] # w
    BY <2>2, LeaseNow
  <2>3. QED
    BY <2>1, <2>2
<1>3. Leases!Drop(w)
  BY <1>1, <1>2 DEF Leases!Drop
<1>4. QED
  BY <1>3 DEF Leases!LeaseNext

-----------------------------------------------------------------------------
(* What each step does to the leases *)

LEMMA SpawnLease ==
  ASSUME PoolInv, PoolInv', NEW c \in Call, NEW w \in Worker, Spawn(c, w)
  PROVE  Leases!LeaseNext
<1>1. /\ proc[w] = "none" /\ proc' = [proc EXCEPT ![w] = "up"] /\ alive' = [alive EXCEPT ![w] = TRUE]
      /\ idle' = Append(idle, w) /\ holds' = holds
  BY DEF Spawn, PutIdle
<1>2. /\ proc'[w] = "up" /\ alive'[w] /\ ToSet(idle') = ToSet(idle) \cup {w}
      /\ \A v \in Worker : v # w => proc'[v] = proc[v] /\ alive'[v] = alive[v]
      /\ \A d \in Call : holds[d] # w
  BY <1>1, ToSetAppend DEF PoolInv, PoolTypeOK, Unborn
<1>3. leaseOf' = [leaseOf EXCEPT ![w] = leaseOf'[w]]
  <2>1. \A v \in Worker : v # w => KeepsLease(v)
    BY <1>1, <1>2 DEF KeepsLease
  <2>2. QED
    BY <2>1, OneLeaseMoves
<1>4. leaseOf[w] = "unborn" /\ leaseOf'[w] = "free"
  BY <1>1, <1>2, LeaseNow, LeaseNext
<1>5. Leases!Spawned(w)
  BY <1>3, <1>4 DEF Leases!Spawned
<1>6. QED
  BY <1>5 DEF Leases!LeaseNext

LEMMA TakeLease ==
  ASSUME PoolInv, PoolInv', NEW c \in Call, NEW w \in Worker, Take(c, w)
  PROVE  Leases!LeaseNext
<1>1. /\ stage[c] = "getting" /\ idle # <<>> /\ w = Head(idle) /\ alive[w]
      /\ idle' = Tail(idle) /\ holds' = [holds EXCEPT ![c] = w]
      /\ UNCHANGED <<alive, proc>>
  BY DEF Take, Register
<1>2. ToSet(idle') = ToSet(idle) \ {w} /\ w \in ToSet(idle)
  BY <1>1, TakenHead
<1>3. /\ holds[c] = NoWorker /\ holds'[c] = w /\ \A d \in Call : d # c => holds'[d] = holds[d]
      /\ \A d \in Call : holds[d] # w
      /\ proc[w] # "none"
  <2>1. holds[c] = NoWorker /\ (\A d \in Call : holds[d] # w) /\ proc[w] # "none"
    BY <1>1, <1>2 DEF PoolInv, Exclusive, Unborn
  <2>2. holds \in [Call -> Worker \cup {NoWorker}]
    BY DEF PoolInv, PoolTypeOK
  <2>3. QED
    BY <1>1, <2>1, <2>2
<1>4. \A v \in Worker : v # NoWorker
  BY PoolAssumption
<1>5. leaseOf' = [leaseOf EXCEPT ![w] = leaseOf'[w]]
  <2>1. \A v \in Worker : v # w => KeepsLease(v)
    BY <1>1, <1>2, <1>3, <1>4 DEF KeepsLease
  <2>2. QED
    BY <2>1, OneLeaseMoves
<1>6. leaseOf[w] = "free" /\ leaseOf'[w] = c
  BY <1>1, <1>2, <1>3, LeaseNow, LeaseNext
<1>7. ASSUME NEW v \in Worker PROVE leaseOf[v] # c
  <2>1. CASE \E d \in Call : holds[d] = v
    BY <1>3, <1>4, <2>1, LeaseNow
  <2>2. CASE \A d \in Call : holds[d] # v
    BY <2>2, LeaseNow, LeaseAssumption
  <2>3. QED
    BY <2>1, <2>2
<1>8. Leases!Lease(w, c)
  BY <1>5, <1>6, <1>7 DEF Leases!Lease
<1>9. QED
  BY <1>8 DEF Leases!LeaseNext

LEMMA ReturnLease ==
  ASSUME PoolInv, PoolInv', NEW c \in Call, Succeed(c) \/ FailAndReturn(c)
  PROVE  Leases!LeaseNext
<1> DEFINE w == holds[c]
<1>1. w \in Worker /\ ToSet(idle') = ToSet(idle) \cup {w}
  BY ReturnStep
<1>2. holds' = [holds EXCEPT ![c] = NoWorker] /\ UNCHANGED <<alive, proc>>
  BY DEF Succeed, FailAndReturn, worker
<1>3. /\ \A d \in Call : d # c => holds[d] # w /\ holds'[d] = holds[d]
      /\ holds'[c] = NoWorker /\ proc[w] # "none"
  BY <1>1, <1>2, PoolAssumption DEF PoolInv, PoolTypeOK, Exclusive, Unborn
<1>4. \A v \in Worker : v # NoWorker
  BY PoolAssumption
<1>5. (\A v \in Worker : v # w => KeepsLease(v)) /\ \A d \in Call : holds'[d] # w
  BY <1>1, <1>2, <1>3, <1>4 DEF KeepsLease
<1>6. CASE alive[w]
  <2>1. leaseOf[w] = c /\ leaseOf'[w] = "free"
    BY <1>1, <1>2, <1>3, <1>5, <1>6, LeaseNow, LeaseNext
  <2>2. leaseOf' = [leaseOf EXCEPT ![w] = "free"]
    BY <1>1, <1>5, <2>1, OneLeaseMoves
  <2>3. Leases!Return(w)
    BY <2>1, <2>2 DEF Leases!Return
  <2>4. QED
    BY <1>1, <2>3 DEF Leases!LeaseNext
<1>7. CASE ~alive[w]
  BY <1>1, <1>2, <1>3, <1>5, <1>7, DropsOne
<1>8. QED
  BY <1>6, <1>7

\* A worker taken from the queue and not leased: dead, or out of a closed pool,
\* or lost to a call that cannot be sent.
LEMMA DiscardLease ==
  ASSUME PoolInv, PoolInv', NEW c \in Call, TakeDead(c) \/ \E w \in Worker : TakeBadArgs(c, w)
  PROVE  Leases!LeaseNext
<1> DEFINE w == Head(idle)
<1>1. idle # <<>> /\ idle' = Tail(idle) /\ UNCHANGED <<alive, proc, holds>>
  BY DEF TakeDead, TakeBadArgs, Register, worker
<1>2. w \in Worker /\ w \in ToSet(idle) /\ ToSet(idle') = ToSet(idle) \ {w}
  BY <1>1, TakenHead
<1>3. (\A d \in Call : holds[d] # w) /\ proc[w] # "none"
  BY <1>2 DEF PoolInv, Exclusive, Unborn
<1>4. \A v \in Worker : v # w => KeepsLease(v)
  BY <1>1, <1>2 DEF KeepsLease
<1>5. QED
  BY <1>1, <1>2, <1>3, <1>4, DropsOne

\* A call that lets go of its worker: it was killed, or the call cancelled.
LEMMA LetGoLease ==
  ASSUME PoolInv, PoolInv', NEW c \in Call, Reaped(c) \/ Cancel(c)
  PROVE  [Leases!LeaseNext]_leaseOf
<1>1. holds' = [holds EXCEPT ![c] = NoWorker] /\ UNCHANGED <<alive, proc, idle>>
  BY DEF Reaped, Cancel, worker
<1>2. holds'[c] = NoWorker /\ \A d \in Call : d # c => holds'[d] = holds[d]
  BY <1>1 DEF PoolInv, PoolTypeOK
<1>3. \A v \in Worker : v # NoWorker
  BY PoolAssumption
<1>4. CASE holds[c] = NoWorker
  <2>1. holds' = holds
    BY <1>1, <1>4 DEF PoolInv, PoolTypeOK
  <2>2. \A w \in Worker : KeepsLease(w)
    BY <1>1, <2>1 DEF KeepsLease
  <2>3. QED
    BY <2>2, SameLeases
<1>5. CASE holds[c] # NoWorker
  <2> DEFINE w == holds[c]
  <2>1. w \in Worker /\ w \notin ToSet(idle) /\ proc[w] # "none"
    BY <1>5 DEF PoolInv, PoolTypeOK, Exclusive, Unborn
  <2>2. \A d \in Call : holds'[d] # w
    BY <1>2, <1>3, <1>5, <2>1 DEF PoolInv, Exclusive
  <2>3. \A v \in Worker : v # w => KeepsLease(v)
    BY <1>1, <1>2, <1>3 DEF KeepsLease
  <2>4. QED
    BY <1>1, <2>1, <2>2, <2>3, DropsOne
<1>6. QED
  BY <1>4, <1>5

\* The worker of a call is killed: it stays leased until it is reaped.
LEMMA KillLease ==
  ASSUME PoolInv, PoolInv', NEW c \in Call, FailAndKill(c) \/ TimeOut(c)
  PROVE  UNCHANGED leaseOf
<1> DEFINE w == holds[c]
<1>1. /\ stage[c] = "awaiting" /\ alive' = [alive EXCEPT ![w] = FALSE]
      /\ proc' = [proc EXCEPT ![w] = "dead"] /\ UNCHANGED <<idle, holds>>
  BY DEF FailAndKill, TimeOut, Kill
<1>2. w \in Worker /\ w \notin ToSet(idle) /\ proc[w] # "none"
  <2>1. stage[c] = "awaiting"
    BY <1>1
  <2>2. w \in Worker /\ w \notin ToSet(idle)
    BY <2>1 DEF PoolInv, PoolTypeOK, Exclusive
  <2>3. QED
    BY <2>2 DEF PoolInv, Unborn
<1> HIDE DEF w
<1>3. /\ proc'[w] = "dead"
      /\ \A v \in Worker : v # w => alive'[v] = alive[v] /\ proc'[v] = proc[v]
  BY <1>1, <1>2 DEF PoolInv, PoolTypeOK
<1>4. \A v \in Worker : KeepsLease(v)
  BY <1>1, <1>2, <1>3 DEF KeepsLease
<1>5. QED
  BY <1>4, SameLeases

\* The reader finds its worker dead: a free one is dropped there and then.
LEMMA ReadEofLease ==
  ASSUME PoolInv, PoolInv', NEW w \in Worker, ReadEof(w)
  PROVE  [Leases!LeaseNext]_leaseOf
<1>1. proc[w] = "dead" /\ alive' = [alive EXCEPT ![w] = FALSE] /\ UNCHANGED <<idle, proc, holds>>
  BY DEF ReadEof
<1>2. ~alive'[w] /\ \A v \in Worker : v # w => alive'[v] = alive[v]
  BY <1>1 DEF PoolInv, PoolTypeOK
<1>3. \A v \in Worker : v # w => KeepsLease(v)
  BY <1>1, <1>2 DEF KeepsLease
<1>4. CASE \E c \in Call : holds[c] = w
  <2>1. KeepsLease(w)
    BY <1>1, <1>4 DEF KeepsLease
  <2>2. QED
    BY <1>3, <2>1, SameLeases
<1>5. CASE \A c \in Call : holds[c] # w
  BY <1>1, <1>2, <1>3, <1>5, DropsOne
<1>6. QED
  BY <1>4, <1>5

\* The other steps of calls, readers, processes and close().
LEMMA OtherLease ==
  ASSUME PoolInv, PoolInv',
         UNCHANGED <<alive, holds>>, ToSet(idle') = ToSet(idle),
         \A w \in Worker : proc'[w] = "none" <=> proc[w] = "none"
  PROVE  UNCHANGED leaseOf
<1>1. \A w \in Worker : KeepsLease(w)
  BY DEF KeepsLease
<1>2. QED
  BY <1>1, SameLeases

LEMMA PoolLease ==
  ASSUME PoolInv, PoolInv', [PoolNext]_poolvars
  PROVE  [Leases!LeaseNext]_leaseOf
<1>1. ASSUME NEW c \in Call, Begin(c) \/ SpawnFails(c)
      PROVE  UNCHANGED leaseOf
  BY <1>1, OtherLease DEF Begin, SpawnFails, worker
<1>2. ASSUME NEW c \in Call, NEW w \in Worker, TakeBroken(c, w)
      PROVE  UNCHANGED leaseOf
  BY <1>2, OtherLease, TakeBrokenStep DEF TakeBroken
<1>3. ASSUME NEW c \in Call, Begin(c) \/ Step(c) \/ SpawnFails(c) \/ TimeOut(c) \/ Cancel(c)
      PROVE  [Leases!LeaseNext]_leaseOf
  BY <1>1, <1>2, <1>3, SpawnLease, TakeLease, ReturnLease, DiscardLease, LetGoLease, KillLease DEF Step
<1>4. ASSUME NEW w \in Worker, \/ ReadLine(w) \/ ReaderBreaks(w) \/ CloseDrains(w)
                               \/ \E ok \in BOOLEAN : Answer(w, ok)
      PROVE  UNCHANGED leaseOf
  BY <1>4, OtherLease DEF ReadLine, ReaderBreaks, CloseDrains, Answer, caller
<1>5. ASSUME NEW w \in Worker, Exit(w) \/ CloseKills(w)
      PROVE  UNCHANGED leaseOf
  <2>1. proc[w] = "up" /\ proc' = [proc EXCEPT ![w] = "dead"] /\ UNCHANGED <<alive, holds, idle>>
    BY <1>5 DEF Exit, CloseKills, caller
  <2>2. \A v \in Worker : proc'[v] = "none" <=> proc[v] = "none"
    BY <2>1 DEF PoolInv, PoolTypeOK
  <2>3. QED
    BY <2>1, <2>2, OtherLease
<1>6. CASE Close \/ CloseReaped \/ CloseDone
  BY <1>6, OtherLease DEF Close, CloseReaped, CloseDone, worker, caller
<1>7. CASE UNCHANGED poolvars
  BY <1>7, OtherLease DEF poolvars, worker, caller
<1>8. QED
  BY <1>3, <1>4, <1>5, <1>6, <1>7, ReadEofLease DEF PoolNext, Pipe, Finished

\* Every step of the pool leases, returns or drops one worker, or leaves them all
\* as they are: a worker is with one call at a time, and one that was dropped is
\* never leased again.
THEOREM PoolRefines == PoolSpec => LeaseRefined
<1>1. PoolInit => Leases!LeaseInit
  BY DEF PoolInit, leaseOf, Leases!LeaseInit
<1>2. PoolInv /\ PoolInv' /\ [PoolNext]_poolvars => [Leases!LeaseNext]_leaseOf
  BY PoolLease
<1>3. QED
  BY <1>1, <1>2, PoolInvariant, PTL DEF PoolSpec, LeaseRefined, Leases!LeaseSpec
=============================================================================

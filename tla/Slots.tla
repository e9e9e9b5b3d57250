------------------------------- MODULE Slots -------------------------------
(***************************************************************************)
(* The per-endpoint gates of operad/runtime/slots.py: one (backend, host)  *)
(* key of the SlotRegistry, its asyncio.Semaphore, its RPM and TPM         *)
(* SlidingCounters, and the tasks inside `async with acquire(cfg)`.        *)
(*                                                                         *)
(* An action runs one task from the point where the event loop resumes it  *)
(* to its next suspension: nothing else runs in between, so a gate that    *)
(* lets the task pass at once is part of the same step as the gate before. *)
(* Time is a number of ticks.  A counter keeps, for every age 0..Window,   *)
(* the amount charged at most that many ticks ago, and for Window + 1 the  *)
(* total of the deque: what is old enough to expire may still be there,    *)
(* since expiry is lazy.                                                   *)
(***************************************************************************)
EXTENDS Naturals, FiniteSets, SequencesExt

CONSTANTS Task,       \* asyncio tasks that call leaf agents on this endpoint
          Cancellable,\* those whose caller may cancel them
          Cap,        \* the concurrency the semaphore is created with
          Window,     \* _WINDOW_SECONDS, in ticks
          Reserve,    \* task -> 2 * max_tokens of its configuration
          Actual,     \* token costs a call may turn out to have
          RpmLimits,  \* limits set_limit(rpm=...) is called with
          TpmLimits,  \* limits set_limit(tpm=...) is called with
          Rpm0, Tpm0, \* the limits configured before the first call
          Defaults    \* values set_default is called with

ASSUME SlotsAssumption ==
  /\ IsFiniteSet(Task) /\ Cancellable \subseteq Task
  /\ Cap \in Nat \ {0}
  /\ Window \in Nat \ {0}
  /\ Reserve \in [Task -> Nat \ {0}]
  /\ Actual \subseteq Nat
  /\ RpmLimits \subseteq Nat /\ TpmLimits \subseteq Nat
  /\ Rpm0 \in Nat /\ Tpm0 \in Nat
  /\ Defaults \subseteq Nat \ {0}

VARIABLES sem,      \* [free, queue, granted]: permits left, waiters, woken waiters
          rpm, tpm, \* SlidingCounters [limit, used, waiters]
          pc,       \* where each task is suspended
          cancelled,\* tasks whose cancellation has been requested
          token,    \* the SlotToken of each task [reserved, settled]
          default,  \* SlotRegistry.default
          spent     \* history: tokens really consumed at most so many ticks ago

vars == <<sem, rpm, tpm, pc, cancelled, token, default, spent>>

Ages   == 0 .. Window + 1
Recent == 0 .. Window
Empty  == [a \in Ages |-> 0]
NoToken == [reserved |-> 0, settled |-> TRUE]
Waiting == {"semWait", "rpmWait", "tpmWait"}

-----------------------------------------------------------------------------
(* SlidingCounter *)

Expire(c) == [c EXCEPT !.used[Window + 1] = c.used[Window]]

Total(c) == c.used[Window + 1]

\* Amount a waiter asked for: one request of rpm, its own reserve of tpm.
One == [t \in Task |-> 1]

\* Mutant: an off-by-one at the limit.
AdmitsOneMore(c, n) == c.limit = 0 \/ (Total(Expire(c)) < c.limit + n /\ c.waiters = <<>>)

\* The fast path of acquire: under the limit and nobody queued.
Admits(c, n) == c.limit = 0 \/ (Total(Expire(c)) + n <= c.limit /\ c.waiters = <<>>)

Enqueue(c, t) == [Expire(c) EXCEPT !.waiters = Append(@, t)]

\* Mutant: waiters are popped from the right end of the deque.
WakeNewest(c, need) ==
  LET room == c.limit - Total(Expire(c))
      k == IF room > 0 /\ c.waiters # <<>> THEN 1 ELSE 0
  IN [Expire(c) EXCEPT !.waiters = SubSeq(@, 1, Len(@) - k)]

\* The amount in the window with the needs of the first k waiters.
Promised(c, need) ==
  LET sum[k \in 0 .. Len(c.waiters)] ==
        IF k = 0 THEN Total(Expire(c)) ELSE sum[k - 1] + need[c.waiters[k]]
  IN sum

\* _wake: resolve the longest prefix of the waiters whose needs fit together.
Wake(c, need) ==
  LET e == Expire(c)
      Over(k) == Promised(c, need)[k] > c.limit
      woken == CHOOSE k \in 0 .. Len(c.waiters) :
                 /\ k > 0 => ~Over(k)
                 /\ k < Len(c.waiters) => Over(k + 1)
  IN IF c.waiters = <<>> THEN c
     ELSE [e EXCEPT !.waiters = SubSeq(@, woken + 1, Len(@))]

Charge(c, n, need) ==
  IF c.limit = 0 \/ n = 0 THEN c
  ELSE Wake([c EXCEPT !.used = [a \in Ages |-> Expire(c).used[a] + n]], need)

Monus(m, n) == IF m > n THEN m - n ELSE 0

\* refund: take n from the newest events first, whoever they belong to.
Refund(c, n, need) ==
  IF c.limit = 0 \/ n = 0 THEN c
  ELSE Wake([c EXCEPT !.used = [a \in Ages |-> Monus(c.used[a], n)]], need)

SetLimit(c, limit, need) == Wake([c EXCEPT !.limit = limit], need)

\* Mutant: a call that failed, of cost 0, keeps its reserve in the window.
SettleUnlessFree(c, tok, n) ==
  IF tok.settled \/ n = 0 THEN c ELSE Charge(Refund(c, tok.reserved, Reserve), n, Reserve)

\* SlotToken.settle: only the first call reaches the counter.
Settle(c, tok, n) ==
  IF tok.settled THEN c ELSE Charge(Refund(c, tok.reserved, Reserve), n, Reserve)

-----------------------------------------------------------------------------
(* asyncio.Semaphore *)

FutureCancelled(t) == t \in cancelled /\ t \notin sem.granted

\* Mutant: the fast path looks at the waiters only.
LockedByQueue == \E t \in ToSet(sem.queue) : ~FutureCancelled(t)

Locked == sem.free = 0 \/ \E t \in ToSet(sem.queue) : ~FutureCancelled(t)

\* _wake_up_next: hand one permit to the first waiter whose future is pending.
WakeNext(s) ==
  LET pending == {i \in 1 .. Len(s.queue) : s.queue[i] \notin s.granted \cup cancelled}
  IN IF s.free = 0 \/ pending = {} THEN s
     ELSE [s EXCEPT !.free = @ - 1, !.granted = @ \cup {s.queue[Min(pending)]}]

\* Mutant: release does not wake the next waiter.
ReleaseSilently(s) == [s EXCEPT !.free = @ + 1]

Release(s) == WakeNext([s EXCEPT !.free = @ + 1])

Dequeue(s, t) == [s EXCEPT !.queue = RemoveFirst(@, t), !.granted = @ \ {t}]

-----------------------------------------------------------------------------
(* acquire(cfg): semaphore, then RPM, then TPM *)

Goto(t, where) == pc' = [pc EXCEPT ![t] = where]

TpmCharge(t) ==
  /\ tpm' = Charge(tpm, Reserve[t], Reserve)
  /\ token' = [token EXCEPT ![t] = [reserved |-> Reserve[t], settled |-> FALSE]]
  /\ Goto(t, "call")

TpmGate(t) ==
  \/ /\ Admits(tpm, Reserve[t])
     /\ TpmCharge(t)
  \/ /\ ~Admits(tpm, Reserve[t])
     /\ tpm' = Enqueue(tpm, t)
     /\ Goto(t, "tpmWait")
     /\ UNCHANGED token

RpmGate(t) ==
  \/ /\ Admits(rpm, 1)
     /\ rpm' = Charge(rpm, 1, One)
     /\ TpmGate(t)
  \/ /\ ~Admits(rpm, 1)
     /\ rpm' = Enqueue(rpm, t)
     /\ Goto(t, "rpmWait")
     /\ UNCHANGED <<tpm, token>>

Acquire(t) ==
  /\ pc[t] = "idle"
  /\ \/ /\ ~Locked
        /\ sem' = [sem EXCEPT !.free = @ - 1]
        /\ RpmGate(t)
     \/ /\ Locked
        /\ sem' = [sem EXCEPT !.queue = Append(@, t)]
        /\ Goto(t, "semWait")
        /\ UNCHANGED <<rpm, tpm, token>>
  /\ UNCHANGED <<cancelled, default, spent>>

SemResume(t) ==
  /\ pc[t] = "semWait" /\ t \in sem.granted /\ t \notin cancelled
  /\ sem' = WakeNext(Dequeue(sem, t))
  /\ RpmGate(t)
  /\ UNCHANGED <<cancelled, default, spent>>

RpmResume(t) ==
  /\ pc[t] = "rpmWait" /\ t \notin ToSet(rpm.waiters) /\ t \notin cancelled
  /\ rpm' = Charge(rpm, 1, One)
  /\ TpmGate(t)
  /\ UNCHANGED <<sem, cancelled, default, spent>>

TpmResume(t) ==
  /\ pc[t] = "tpmWait" /\ t \notin ToSet(tpm.waiters) /\ t \notin cancelled
  /\ TpmCharge(t)
  /\ UNCHANGED <<sem, rpm, cancelled, default, spent>>

\* The provider call ends: Agent.forward settles with the real cost (0 when it
\* failed or was cancelled) and the `finally` of acquire settles again with 0.
Finish(t, n) ==
  /\ pc[t] = "call"
  /\ t \in cancelled => n = 0
  /\ LET done == [token[t] EXCEPT !.settled = TRUE]
     IN tpm' = Settle(Settle(tpm, token[t], n), done, 0)
  /\ token' = [token EXCEPT ![t] = NoToken]
  /\ sem' = Release(sem)
  /\ Goto(t, "idle")
  /\ cancelled' = cancelled \ {t}
  /\ spent' = [a \in Recent |-> spent[a] + n]
  /\ UNCHANGED <<rpm, default>>

CancelRequest(t) ==
  /\ t \in Cancellable /\ pc[t] # "idle" /\ t \notin cancelled
  /\ cancelled' = cancelled \cup {t}
  /\ UNCHANGED <<sem, rpm, tpm, pc, token, default, spent>>

\* Mutants: a cancelled waiter returns a permit it never had, or keeps one it had.
SemCancelledReleases(t) ==
  /\ pc[t] = "semWait"
  /\ sem' = Release(Dequeue(sem, t))
  /\ UNCHANGED <<rpm, tpm>>

SemCancelledKeeps(t) ==
  /\ pc[t] = "semWait"
  /\ sem' = Dequeue(sem, t)
  /\ UNCHANGED <<rpm, tpm>>

\* CancelledError is raised at the await: the waiter withdraws from its queue.
SemCancelled(t) ==
  /\ pc[t] = "semWait"
  /\ sem' = IF t \in sem.granted THEN Release(Dequeue(sem, t)) ELSE Dequeue(sem, t)
  /\ UNCHANGED <<rpm, tpm>>

\* Mutant: acquire has no `except` that removes the waiter.
RpmCancelledStays(t) ==
  /\ pc[t] = "rpmWait"
  /\ sem' = Release(sem)
  /\ UNCHANGED <<rpm, tpm>>

RpmCancelled(t) ==
  /\ pc[t] = "rpmWait"
  /\ rpm' = [rpm EXCEPT !.waiters = RemoveFirst(@, t)]
  /\ sem' = Release(sem)
  /\ UNCHANGED tpm

TpmCancelled(t) ==
  /\ pc[t] = "tpmWait"
  /\ tpm' = [tpm EXCEPT !.waiters = RemoveFirst(@, t)]
  /\ sem' = Release(sem)
  /\ UNCHANGED rpm

Cancelled(t) ==
  /\ t \in cancelled
  /\ SemCancelled(t) \/ RpmCancelled(t) \/ TpmCancelled(t)
  /\ Goto(t, "idle")
  /\ cancelled' = cancelled \ {t}
  /\ UNCHANGED <<token, default, spent>>

-----------------------------------------------------------------------------
(* SlotRegistry: set_limit, set_default and occupancy, and the clock *)

SetRpm(limit) ==
  /\ rpm' = SetLimit(rpm, limit, One)
  /\ UNCHANGED <<sem, tpm, pc, cancelled, token, default, spent>>

SetTpm(limit) ==
  /\ tpm' = SetLimit(tpm, limit, Reserve)
  /\ UNCHANGED <<sem, rpm, pc, cancelled, token, default, spent>>

SetDefault(n) ==
  /\ default' = n
  /\ UNCHANGED <<sem, rpm, tpm, pc, cancelled, token, spent>>

\* occupancy(): reading current() expires both windows.
Occupancy == default - sem.free

ReadOccupancy ==
  /\ rpm' = Expire(rpm) /\ tpm' = Expire(tpm)
  /\ UNCHANGED <<sem, pc, cancelled, token, default, spent>>

Older(f) == [a \in DOMAIN f |-> IF a = 0 THEN 0 ELSE IF a > Window THEN f[a] ELSE f[a - 1]]

Tick ==
  /\ rpm' = [rpm EXCEPT !.used = Older(@)]
  /\ tpm' = [tpm EXCEPT !.used = Older(@)]
  /\ spent' = Older(spent)
  /\ UNCHANGED <<sem, pc, cancelled, token, default>>

-----------------------------------------------------------------------------

Counter(limit) == [limit |-> limit, used |-> Empty, waiters |-> <<>>]

Init ==
  /\ sem = [free |-> Cap, queue |-> <<>>, granted |-> {}]
  /\ rpm = Counter(Rpm0) /\ tpm = Counter(Tpm0)
  /\ pc = [t \in Task |-> "idle"]
  /\ cancelled = {}
  /\ token = [t \in Task |-> NoToken]
  /\ default = Cap
  /\ spent = [a \in Recent |-> 0]

Resume(t) == SemResume(t) \/ RpmResume(t) \/ TpmResume(t) \/ Cancelled(t)

Next ==
  \/ \E t \in Task : Acquire(t) \/ Resume(t) \/ CancelRequest(t)
  \/ \E t \in Task, n \in Actual \cup {0} : Finish(t, n)
  \/ \E l \in RpmLimits : SetRpm(l)
  \/ \E l \in TpmLimits : SetTpm(l)
  \/ \E n \in Defaults : SetDefault(n)
  \/ ReadOccupancy
  \/ Tick

Spec == Init /\ [][Next]_vars

\* The event loop resumes what it can and a provider call ends (with_retry bounds
\* it).  Nothing schedules a new call, a set_limit or a look at the occupancy.
Fairness ==
  \A t \in Task : WF_vars(Resume(t)) /\ WF_vars(\E n \in Actual \cup {0} : Finish(t, n))

FairSpec == Spec /\ Fairness

-----------------------------------------------------------------------------
(* Properties *)

TypeOK ==
  /\ sem \in [free : 0 .. Cap, queue : Seq(Task), granted : SUBSET Task]
  /\ \A c \in {rpm, tpm} : /\ c.limit \in Nat
                           /\ c.used \in [Ages -> Nat]
                           /\ c.waiters \in Seq(Task)
  /\ pc \in [Task -> Waiting \cup {"idle", "call"}]
  /\ cancelled \subseteq Task
  /\ token \in [Task -> [reserved : Nat, settled : BOOLEAN]]
  /\ default \in Nat \ {0}
  /\ spent \in [Recent -> Nat]

Holders == {t \in Task : pc[t] \in {"rpmWait", "tpmWait", "call"}}

Granted == {t \in Task : t \in sem.granted}

\* Every permit of the semaphore is free, held past `async with sem`, or on its
\* way to a woken waiter, whatever await a task is cancelled at.
PermitConservation ==
  /\ Holders \cap Granted = {}
  /\ sem.free + Cardinality(Holders \cup Granted) = Cap

\* A permit is never left idle while a live task waits for one, unless a woken
\* waiter has yet to resume and pass the wakeup on.
NoIdlePermit ==
  sem.free > 0 /\ sem.granted = {} => ToSet(sem.queue) \subseteq cancelled

\* A counter's queue holds only tasks suspended in that counter's acquire, each
\* once: a cancelled waiter is not left behind to block those after it.
NoGhostWaiters ==
  /\ \A t \in ToSet(rpm.waiters) : pc[t] = "rpmWait"
  /\ \A t \in ToSet(tpm.waiters) : pc[t] = "tpmWait"
  /\ IsInjective(rpm.waiters) /\ IsInjective(tpm.waiters)

Left(old, new) == {i \in DOMAIN old : old[i] \notin ToSet(new) \cup cancelled}

\* "Wakeups fire in FIFO order": a counter that lets a waiter go has let go
\* everyone who queued before it.
FifoWakeups ==
  [][/\ \A i \in Left(rpm.waiters, rpm'.waiters), j \in DOMAIN rpm.waiters :
          j < i => rpm.waiters[j] \notin ToSet(rpm'.waiters)
     /\ \A i \in Left(tpm.waiters, tpm'.waiters), j \in DOMAIN tpm.waiters :
          j < i => tpm.waiters[j] \notin ToSet(tpm'.waiters)]_vars

\* A task charges only after it was let through, an await later, and the next
\* one may be let through in between.  While the limit stays what it was, that
\* costs at most one request for each other permit of the semaphore: the
\* requests of one window exceed the limit by no more.
RpmOvershoot == rpm.limit # 0 => Total(Expire(rpm)) <= rpm.limit + Cap - 1

Cost == spent[Window]

\* The sum of the values of f, in any order.
SumOver(f) ==
  LET sum[S \in SUBSET DOMAIN f] ==
        IF S = {} THEN 0
        ELSE LET x == CHOOSE x \in S : TRUE IN f[x] + sum[S \ {x}]
  IN sum[DOMAIN f]

\* The reserves of the calls under way.
Reserved == SumOver([t \in Task |-> token[t].reserved])

\* A settle may take its refund from another call's events.  Still the TPM
\* counter never holds more than the real costs of the last window and the
\* reserves of the calls under way: no reserve survives its call, and no cost
\* is charged twice.
LedgerCovered ==
  Total(Expire(tpm)) <= Cost + Reserved

\* A limit of 0 means unlimited, so nobody waits for it.
UnlimitedFreesWaiters == rpm.limit = 0 => rpm.waiters = <<>>

\* The gates implement bounded admission of callers.
Gate == INSTANCE BoundedAdmission
          WITH Caller <- Task, Limit <- Cap, admitted <- Holders \cup Granted
AdmissionRefined == Gate!AdmissionSpec

Queued == ToSet(rpm.waiters) \cup ToSet(tpm.waiters)

\* The endpoint is stalled: no call is under way and no woken waiter has yet to
\* resume, some permit is held by a task in a counter's queue and by nobody
\* else, and the semaphore's own waiters have no permit to take.
Stalled ==
  /\ Holders # {} /\ Holders = Queued
  /\ sem.granted = {}
  /\ sem.queue # <<>> => sem.free = 0

\* No waiter is passed over for ever, whatever its need: while calls go on at
\* the endpoint each one gets its turn, at the semaphore and at both counters.
\* The one thing that keeps a task waiting is that the endpoint has stalled for
\* good: the window may have rolled over since, but only a charge, a refund or a
\* set_limit wakes a counter's queue, and no timer does.
NoWaiterStarves ==
  \A t \in Task : []<>(pc[t] \notin Waiting) \/ <>[]Stalled

=============================================================================

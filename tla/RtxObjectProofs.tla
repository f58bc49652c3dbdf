--------------------------- MODULE RtxObjectProofs ---------------------------
(***************************************************************************)
(* The semaphores for any number of threads, tokens and semaphores: no     *)
(* token is lost or made, and no waiter overlooked, whatever services,     *)
(* timeouts and interrupts come between.                                   *)
(*                                                                         *)
(* The invariant of RtxThreadProofs speaks of the lists of all objects.    *)
(* The first half of this module shows that the functions that wake and    *)
(* enqueue threads keep it (RtxIsr), the second what they do to the        *)
(* semaphores.                                                             *)
(***************************************************************************)
EXTENDS RtxSemaphore, RtxThreadProofs

-----------------------------------------------------------------------------
(* Waking the first waiter of an object. *)

\* The fields that waking a thread does not touch.
Apart(s, r) ==
  /\ r.joinable = s.joinable /\ r.joiner = s.joiner /\ r.target = s.target
  /\ r.owned = s.owned /\ r.run = s.run /\ r.kernel = s.kernel /\ r.base = s.base
  /\ r.mutex = s.mutex /\ r.owner = s.owner /\ r.lock = s.lock
  /\ r.priority = s.priority

\* The first waiter t of o is on its way to the scheduler.
WakeOut(s, o) ==
  ThreadDelayRemove([s EXCEPT !.list[o] = Tail(@)], Head(s.list[o]))

WakeOutOnly(s, q, o, t) ==
  /\ t \in Thread /\ t \in ToSet(s.list[o]) /\ s.state[t] \in WaitKind(o)
  /\ Apart(s, q) /\ q.state = s.state /\ q.next = s.next
  /\ q.list = [s.list EXCEPT ![o] = Tail(s.list[o])]
  /\ ToSet(q.list[o]) = ToSet(s.list[o]) \ {t}
  /\ q.delay[t] = 0 /\ q.waitList = s.waitList \ {t}

\* It is out of its list and of the delay list.
LEMMA WakeOutGood ==
  ASSUME NEW s, Good(s, {}), Queues(s), NEW o \in Object, s.list[o] # << >>,
         NEW t, t = Head(s.list[o]),
         NEW q, q = WakeOut(s, o)
  PROVE  /\ Good(q, {t}) /\ Queues(q) /\ Unqueued(q, t)
         /\ WakeOutOnly(s, q, o, t)
<1> DEFINE s1 == [s EXCEPT !.list[o] = Tail(s.list[o])]
<1>1. /\ s \in Kernel /\ s.list \in [Object -> Seq(Thread)] /\ s.list[o] \in Seq(Thread)
      /\ s.state \in [Thread -> ThreadState]
  BY Fields DEF Good, Linked
<1>2. q = ThreadDelayRemove(s1, t)
  BY DEF WakeOut
<1>3. s1 \in Kernel
  <2>1. Tail(s.list[o]) \in Seq(Thread)
    BY <1>1
  <2> QED
    BY ONLY <1>1, <2>1, o \in Object, WithList
<1>4. /\ SamePlaces(s, s1) /\ s1.list = [s.list EXCEPT ![o] = Tail(s.list[o])]
      /\ Apart(s, s1) /\ s1.next = s.next
  BY <1>1 DEF Kernel, SamePlaces, Apart
<1> HIDE DEF s1
<1>5. Good(s1, {}) /\ {} \in SUBSET Thread
  BY <1>3, <1>4, PlacesKept
<1>6. /\ Queues(s1) /\ FirstOf(s, s1, o, t)
  <2>1. s1.list = [s.list EXCEPT ![o] = Tail(s.list[o])] /\ s1.priority = s.priority
        /\ \A u \in Thread \ {t} : s1.state[u] = s.state[u]
    BY <1>4 DEF SamePlaces
  <2>2. Queues(s) /\ s.list[o] # << >> /\ t = Head(s.list[o]) /\ o \in Object
    OBVIOUS
  <2> QED
    BY ONLY <1>1, <2>1, <2>2, HeadQueues
<1>7. /\ t \in Thread /\ t \in ToSet(s.list[o]) /\ s.state[t] \in WaitKind(o)
      /\ ToSet(s1.list[o]) = ToSet(s.list[o]) \ {t}
  BY <1>6 DEF FirstOf
<1>8. t \in Thread \ {} /\ IsBlocked(s1, t)
  BY <1>4, <1>7 DEF SamePlaces, IsBlocked, Waiting, WaitKind, QueueStates
<1>9. Good(q, {t}) /\ Undelayed(s1, q, t)
  <2>1. Good(q, {} \cup {t}) /\ Undelayed(s1, q, t)
    BY ONLY <1>2, <1>5, <1>8, DelayRemoveGood
  <2> QED
    BY <2>1
<1>10. /\ q.list = s1.list /\ q.priority = s1.priority /\ q.state = s1.state
       /\ q.next = s1.next /\ q.delay[t] = 0 /\ q.waitList = s.waitList \ {t}
       /\ Apart(s, q)
  BY <1>4, <1>9 DEF Undelayed, Frame, Apart, SamePlaces
<1>11. Queues(q)
  BY <1>3, <1>6, <1>10, QueuesKept
<1>12. Unqueued(q, t)
  <2>1. ASSUME NEW p \in Object, p # o PROVE t \notin ToSet(s.list[p])
    BY <1>7, <2>1 DEF Queues
  <2>2. \A p \in Object \ {o} : q.list[p] = s.list[p]
    BY <1>1, <1>4, <1>10
  <2> QED
    BY <1>7, <1>10, <2>1, <2>2 DEF Unqueued
<1> QED
  BY <1>4, <1>7, <1>9, <1>10, <1>11, <1>12 DEF WakeOutOnly, SamePlaces

\* The first waiter t of o has been woken up.
Woken(s, r, o, t) ==
  /\ t \in Thread /\ t \in ToSet(s.list[o])
  /\ r.run = s.run /\ r.kernel = s.kernel
  /\ r.list = [s.list EXCEPT ![o] = Tail(s.list[o])]
  /\ ToSet(r.list[o]) = ToSet(s.list[o]) \ {t}
  /\ Calm(s, r)

\* When the scheduler has it the record is settled again.
LEMMA WakeBack ==
  ASSUME NEW s, Settled(s),
         NEW o \in Object \ Mutex, s.list[o] # << >>, NEW t, t = Head(s.list[o]),
         NEW q, q = WakeOut(s, o),
         NEW r, Good(r, {}), Keeps(q, r, {t}), Started(r), r.state[t] \in {"Ready", "Running"}
  PROVE  Settled(r) /\ Woken(s, r, o, t)
<1>1. /\ Good(s, {}) /\ Queues(s) /\ s \in Kernel /\ JoinOK(s) /\ Plain(s) /\ Mutexes(s, {})
      /\ \A u \in Thread : Queued(s, u)
      /\ r \in Kernel /\ s.list \in [Object -> Seq(Thread)]
  BY Fields DEF Settled, Good, Linked
<1>2. /\ Good(q, {t}) /\ Queues(q) /\ Unqueued(q, t) /\ WakeOutOnly(s, q, o, t)
      /\ q \in Kernel
  <2>1. s.list[o] # << >> /\ t = Head(s.list[o]) /\ q = WakeOut(s, o) /\ o \in Object
    OBVIOUS
  <2>2. Good(q, {t}) /\ Queues(q) /\ Unqueued(q, t) /\ WakeOutOnly(s, q, o, t)
    BY ONLY <1>1, <2>1, WakeOutGood
  <2> QED
    BY <2>2 DEF Good, Linked
<1>3. /\ t \in Thread /\ t \in ToSet(s.list[o]) /\ s.state[t] \in QueueStates
      /\ q.state = s.state /\ q.waitList = s.waitList \ {t}
      /\ q.list = [s.list EXCEPT ![o] = Tail(s.list[o])]
      /\ ToSet(q.list[o]) = ToSet(s.list[o]) \ {t}
      /\ Apart(s, q)
  BY <1>2 DEF WakeOutOnly, WaitKind, QueueStates
<1>4. /\ Queues(r)
      /\ \A u \in Thread \ {t} : Queued(q, u) => Queued(r, u)
  <2>1. {t} \in SUBSET Thread /\ \A u \in {t} : Unqueued(q, u)
    BY <1>2, <1>3
  <2>2. Keeps(q, r, {t})
    OBVIOUS
  <2> QED
    BY ONLY <1>2, <2>1, <2>2, KeepsQueues
<1>5. r.list = q.list /\ Apart(s, r)
  BY <1>3 DEF Keeps, Frame, Apart
<1>6. \A u \in Thread \ {t} : /\ Life(r.state[u]) = Life(s.state[u])
                              /\ u \in s.waitList /\ r.state[u] = "WaitingJoin"
                                   => u \in r.waitList
  BY <1>3 DEF Keeps
<1>7. \A p \in Object \ {o} : r.list[p] = s.list[p]
  BY <1>1, <1>3, <1>5
<1>8. \A u \in Thread : Queued(r, u)
  <2>1. Queued(r, t)
    BY DEF Queued, QueueStates
  <2>2. ASSUME NEW u \in Thread \ {t} PROVE Queued(q, u)
    <3>1. Queued(s, u)
      BY <1>1
    <3>2. \A p \in Object : u \in ToSet(s.list[p]) => u \in ToSet(q.list[p])
      BY <1>3, <1>5, <1>7
    <3> QED
      BY <1>3, <3>1, <3>2 DEF Queued
  <2> QED
    BY <1>4, <2>1, <2>2
<1>9. SameLives(s, r)
  <2>1. \A x, y : Life(x) = Life(y) =>
          /\ x = "Inactive" <=> y = "Inactive"
          /\ x = "Terminated" <=> y = "Terminated"
          /\ x = "WaitingJoin" <=> y = "WaitingJoin"
    BY DEF Life, QueueStates
  <2> QED
    BY <1>3, <1>6, <2>1 DEF SameLives, QueueStates
<1>10. JoinOK(r)
  BY <1>1, <1>5, <1>9, JoinKept DEF Apart
<1>11. Plain(r)
  BY <1>1, <1>6, <1>9 DEF Plain, SameLives
<1>12. Mutexes(r, {})
  <2>1. SameLocks(s, r) /\ SameBoost(s, r)
    BY <1>5 DEF Apart, SameLocks, SameBoost
  <2>2. SameEmpty(s, r)
    BY <1>7 DEF SameEmpty
  <2> QED
    BY <1>1, <1>9, <2>1, <2>2, MutexesKept
<1>13. Calm(s, r)
  <2>1. ASSUME NEW u \in Thread, r.state[u] \in QueueStates PROVE r.state[u] = s.state[u]
    <3>1. u # t
      BY <2>1 DEF QueueStates
    <3>2. "Live" \notin QueueStates
      BY DEF QueueStates
    <3> QED
      BY <1>6, <2>1, <3>1, <3>2 DEF Life
  <2>2. \A p \in Object : \A u : u \in ToSet(r.list[p]) => u \in ToSet(s.list[p])
    BY <1>3, <1>5, <1>7
  <2> QED
    BY <2>1, <2>2 DEF Calm
<1> QED
  BY <1>3, <1>4, <1>5, <1>8, <1>10, <1>11, <1>12, <1>13 DEF Settled, Woken, Apart

\* osRtxThreadListGet and osRtxThreadWaitExit without dispatch
LEMMA WakeFirstGood ==
  ASSUME NEW s, Settled(s),
         NEW o \in Object \ Mutex, s.list[o] # << >>,
         NEW r, r = WakeFirst(s, o)
  PROVE  Settled(r) /\ Woken(s, r, o, Head(s.list[o])) /\ r.next = s.next
<1> DEFINE t == Head(s.list[o])
           q == WakeOut(s, o)
<1>1. t = Head(s.list[o]) /\ q = WakeOut(s, o)
  OBVIOUS
<1>2. r = ThreadReadyPut(q, t)
  BY DEF WakeFirst, WakeOut, ThreadWaitExit
<1> HIDE DEF t, q
<1>3. Good(s, {}) /\ Queues(s) /\ Started(s) /\ o \in Object
  BY DEF Settled
<1>4. Good(q, {t}) /\ Queues(q) /\ Unqueued(q, t) /\ WakeOutOnly(s, q, o, t)
  BY <1>1, <1>3, WakeOutGood
<1>5. /\ t \in Thread /\ {t} \in SUBSET Thread /\ t \in {t} /\ {t} \ {t} = {}
      /\ q.delay[t] \in 0..RobinTimeout /\ Linked(q, q.delayList, {t})
      /\ s.state[t] \in QueueStates /\ q.state = s.state /\ q.next = s.next
      /\ q.kernel = s.kernel
      /\ q \in Kernel /\ q.state \in [Thread -> ThreadState]
  BY <1>4, KernelAssumption, Fields DEF WakeOutOnly, Good, WaitKind, QueueStates, Linked, Apart
<1>6. Linked(r, q.delayList, {}) /\ Readied(q, r, t)
  BY ONLY <1>2, <1>5, ReadyPutGood
<1>7. Good(r, {})
  BY <1>4, <1>6 DEF Good, Readied, NotDue
<1>8. /\ r.state = [q.state EXCEPT ![t] = "Ready"] /\ r.next = s.next
      /\ r.waitList = q.waitList /\ Frame(q, r)
  BY <1>5, <1>6 DEF Readied
<1>9. Keeps(q, r, {t}) /\ r.state[t] = "Ready"
  BY <1>5, <1>8 DEF Keeps
<1>10. Started(r)
  <2>1. /\ r.state = [s.state EXCEPT ![t] = "Ready"] /\ r.kernel = s.kernel
        /\ s.state \in [Thread -> ThreadState]
        /\ s.state[t] \notin {"Inactive", "Running"} /\ Idle \in Thread
    BY <1>5, <1>8, ThreadAssumption DEF QueueStates, Frame
  <2> QED
    BY <1>3, <1>5, <1>8, <2>1 DEF Started, Runs
<1> QED
  BY <1>1, <1>7, <1>8, <1>9, <1>10, WakeBack

\* ... with dispatch
LEMMA WakeFirstDispatchGood ==
  ASSUME NEW s, Settled(s), s.next = s.run, s.kernel # "Ready",
         NEW o \in Object \ Mutex, s.list[o] # << >>,
         NEW r, r = WakeFirstDispatch(s, o)
  PROVE  Settled(r) /\ Woken(s, r, o, Head(s.list[o]))
<1> DEFINE t == Head(s.list[o])
           q == WakeOut(s, o)
<1>1. t = Head(s.list[o]) /\ q = WakeOut(s, o)
  OBVIOUS
<1>2. r = ThreadDispatch(q, t)
  BY DEF WakeFirstDispatch, WakeOut
<1> HIDE DEF t, q
<1>3. Good(s, {}) /\ Queues(s) /\ Runs(s) /\ o \in Object
  BY DEF Settled, Started
<1>4. Good(q, {t}) /\ Queues(q) /\ Unqueued(q, t) /\ WakeOutOnly(s, q, o, t)
  BY <1>1, <1>3, WakeOutGood
<1>5. /\ t \in Thread /\ {t} \in SUBSET Thread /\ t \in {t} /\ {t} \ {t} = {}
      /\ q.delay[t] \in 0..RobinTimeout /\ Linked(q, q.delayList, {t})
      /\ s.state[t] \in QueueStates /\ q.state = s.state /\ q.next = s.next
      /\ q.run = s.run /\ q.kernel = s.kernel
  BY <1>4, KernelAssumption DEF WakeOutOnly, Good, WaitKind, QueueStates, Apart
<1>6. Runs(q) /\ q.state[t] # "Running" /\ q.run = q.next /\ q.next \notin {t}
  BY <1>3, <1>5 DEF Runs, QueueStates
<1>7. Linked(r, q.delayList, {}) /\ Admitted(q, r, {t}, t)
  <2>1. Linked(r, q.delayList, {t} \ {t}) /\ Admitted(q, r, {t}, t)
    BY ONLY <1>2, <1>5, <1>6, DispatchGood
  <2> QED
    BY <1>5, <2>1
<1>8. Good(r, {})
  BY <1>4, <1>7 DEF Good, Admitted, NotDue
<1>9. Keeps(q, r, {t}) /\ r.state[t] \in {"Ready", "Running"} /\ Started(r)
  BY <1>5, <1>6, <1>7 DEF Admitted, Started, Keeps, Frame
<1> QED
  BY <1>1, <1>8, <1>9, WakeBack

-----------------------------------------------------------------------------
(* Waking all waiters of an object. *)

\* The loop of a delete started from s.
WakesFrom(s, o, n, f) ==
  f = [i \in 0..n |-> IF i = 0 THEN s ELSE WakeFirst(f[i-1], o)]

\* The loop is a recursive function: it exists.
LEMMA WakesExist ==
  ASSUME NEW s, NEW o, NEW n \in Nat
  PROVE  \E f : WakesFrom(s, o, n, f)
<1> DEFINE Ex(m) == \E f : WakesFrom(s, o, m, f)
           T == {m \in Nat : ~Ex(m)}
<1>1. SUFFICES ASSUME T # {} PROVE FALSE
  OBVIOUS
<1>2. PICK m : m = Min(T)
  OBVIOUS
<1>3. m \in Nat /\ ~Ex(m) /\ \A y \in T : m <= y
  <2>1. T \in SUBSET Nat
    OBVIOUS
  <2> QED
    BY <1>1, <1>2, <2>1, MinIs
<1>4. CASE m = 0
  <2> DEFINE g == [i \in 0..m |-> s]
  <2>1. g = [i \in 0..m |-> IF i = 0 THEN s ELSE WakeFirst(g[i-1], o)]
    BY <1>4
  <2> HIDE DEF g
  <2>2. Ex(m)
    BY <2>1 DEF WakesFrom
  <2> QED
    BY <1>3, <2>2
<1>5. CASE m # 0
  <2>1. m - 1 \in Nat /\ m - 1 \notin T
    <3>1. m - 1 \in Nat /\ ~(m <= m - 1)
      BY <1>3, <1>5
    <3> HIDE DEF T
    <3> QED
      BY <1>3, <3>1
  <2>2. PICK f : WakesFrom(s, o, m - 1, f)
    BY <2>1
  <2> DEFINE g == [i \in 0..m |-> IF i = m THEN WakeFirst(f[m-1], o) ELSE f[i]]
  <2>3. g = [i \in 0..m |-> IF i = 0 THEN s ELSE WakeFirst(g[i-1], o)]
    <3>1. ASSUME NEW i \in 0..m
          PROVE  g[i] = IF i = 0 THEN s ELSE WakeFirst(g[i-1], o)
      <4>1. CASE i = m
        <5>1. g[i] = WakeFirst(f[m-1], o) /\ g[i-1] = f[m-1]
          BY <1>3, <1>5, <2>1, <4>1
        <5> QED
          BY <1>5, <4>1, <5>1
      <4>2. CASE i # m
        <5>1. i \in 0..m-1 /\ (i # 0 => i - 1 \in 0..m-1 /\ i - 1 # m /\ i - 1 \in 0..m)
          BY <1>3, <2>1, <4>2
        <5>2. f[i] = IF i = 0 THEN s ELSE WakeFirst(f[i-1], o)
          BY ONLY <2>2, <5>1 DEF WakesFrom
        <5> QED
          BY <4>2, <5>1, <5>2
      <4> QED
        BY <4>1, <4>2
    <3> QED
      BY <3>1
  <2> HIDE DEF g
  <2>4. Ex(m)
    BY <2>3 DEF WakesFrom
  <2> QED
    BY <1>3, <2>4
<1> QED
  BY <1>4, <1>5

\* n threads have left the list of o.
Emptied(s, r, o, n) ==
  /\ Settled(r) /\ Calm(s, r)
  /\ r.run = s.run /\ r.next = s.next /\ r.kernel = s.kernel
  /\ Len(r.list[o]) = Len(s.list[o]) - n
  /\ \A p \in Object \ {o} : r.list[p] = s.list[p]

\* One round of the loop.
LEMMA WakesOne ==
  ASSUME NEW s \in Kernel, NEW o \in Object \ Mutex,
         NEW n \in 1..Len(s.list[o]),
         NEW w, Emptied(s, w, o, n - 1),
         NEW r, r = WakeFirst(w, o)
  PROVE  Emptied(s, r, o, n)
<1>1. /\ Settled(w) /\ Calm(s, w) /\ w.run = s.run /\ w.next = s.next /\ w.kernel = s.kernel
      /\ Len(w.list[o]) = Len(s.list[o]) - (n - 1)
      /\ \A p \in Object \ {o} : w.list[p] = s.list[p]
  BY DEF Emptied
<1>2. /\ w \in Kernel /\ w.list \in [Object -> Seq(Thread)]
      /\ s.list \in [Object -> Seq(Thread)]
  BY <1>1, Fields DEF Settled, Good, Linked
<1>3. /\ w.list[o] \in Seq(Thread) /\ s.list[o] \in Seq(Thread) /\ o \in Object
      /\ Len(s.list[o]) \in Nat
  BY <1>2
<1>4. w.list[o] # << >> /\ Len(Tail(w.list[o])) = Len(s.list[o]) - n
  <2> DEFINE q == w.list[o]
             l == Len(s.list[o])
  <2>1. q \in Seq(Thread) /\ l \in Nat /\ n \in 1..l /\ Len(q) = l - (n - 1)
    BY <1>1, <1>3
  <2> HIDE DEF q, l
  <2>2. q # << >> /\ Len(Tail(q)) = Len(q) - 1
    BY <2>1
  <2>3. Len(Tail(q)) = l - n
    BY <2>1, <2>2
  <2> QED
    BY <2>2, <2>3 DEF q, l
<1>5. Settled(r) /\ Woken(w, r, o, Head(w.list[o])) /\ r.next = w.next
  BY <1>1, <1>4, WakeFirstGood
<1>6. /\ r.list = [w.list EXCEPT ![o] = Tail(w.list[o])] /\ Calm(w, r)
      /\ r.run = w.run /\ r.kernel = w.kernel
  BY <1>5 DEF Woken
<1>7. Calm(s, r)
  BY <1>1, <1>6, CalmThen
<1>8. \A p \in Object \ {o} : r.list[p] = s.list[p]
  BY <1>1, <1>2, <1>6
<1>9. Len(r.list[o]) = Len(s.list[o]) - n
  <2>1. r.list[o] = Tail(w.list[o])
    BY <1>2, <1>3, <1>6
  <2> QED
    BY <1>4, <2>1
<1> QED
  BY <1>1, <1>5, <1>6, <1>7, <1>8, <1>9 DEF Emptied

\* The whole loop.
LEMMA WakesGood ==
  ASSUME NEW s, Settled(s), NEW o \in Object \ Mutex,
         NEW n, n = Len(s.list[o]), NEW f, WakesFrom(s, o, n, f)
  PROVE  Emptied(s, f[n], o, n)
<1> DEFINE Ok(i) == Emptied(s, f[i], o, i)
           T == {i \in Nat : i <= n /\ ~Ok(i)}
<1>1. n \in Nat /\ n = Len(s.list[o]) /\ s \in Kernel /\ s.list[o] \in Seq(Thread)
  BY Fields DEF Settled, Good, Linked
<1>2. SUFFICES ASSUME T # {} PROVE FALSE
  <2>1. n \notin T => Ok(n)
    BY <1>1
  <2> QED
    BY <1>1, <2>1
<1>3. PICK m : m = Min(T)
  OBVIOUS
<1>4. m \in Nat /\ m <= n /\ ~Ok(m) /\ \A y \in T : m <= y
  <2>1. T \in SUBSET Nat
    OBVIOUS
  <2> QED
    BY <1>2, <1>3, <2>1, MinIs
<1>5. m # 0
  <2>1. f[0] = s
    BY <1>1 DEF WakesFrom
  <2>2. Ok(0)
    BY <1>1, <2>1 DEF Emptied, Calm
  <2> QED
    BY <1>4, <2>2
<1>6. m \in 1..n /\ m - 1 \in Nat /\ m - 1 <= n /\ ~(m <= m - 1)
  BY <1>1, <1>4, <1>5
<1>7. Ok(m - 1)
  <2>1. m - 1 \notin T
    BY <1>4, <1>6
  <2> QED
    BY <1>6, <2>1
<1>8. f[m] = WakeFirst(f[m-1], o)
  BY <1>1, <1>6 DEF WakesFrom
<1>9. Emptied(s, f[m], o, m)
  <2>1. m \in 1..Len(s.list[o]) /\ Emptied(s, f[m-1], o, m - 1)
    BY <1>1, <1>6, <1>7
  <2> QED
    BY <1>1, <1>8, <2>1, WakesOne
<1> QED
  BY <1>4, <1>9

\* osRtxThreadDispatch(NULL) at the end of a handler
LEMMA DispatchSettled ==
  ASSUME NEW s, Settled(s), s.next = s.run, s.kernel # "Ready",
         NEW r, r = ThreadDispatchReady(s)
  PROVE  /\ Settled(r) /\ Calm(s, r) /\ r.list = s.list
         /\ r.run = s.run /\ r.kernel = s.kernel
<1>1. /\ Good(s, {}) /\ Runs(s) /\ {} \in SUBSET Thread
      /\ Linked(s, s.delayList, {}) /\ NotDue(s) /\ s.run = s.next /\ s.next \notin {}
  BY DEF Settled, Good, Started
<1>2. Linked(r, s.delayList, {}) /\ Rescheduled(s, r, {})
  BY ONLY <1>1, r = ThreadDispatchReady(s), DispatchReadyGood
<1>3. /\ Good(r, {}) /\ Keeps(s, r, {}) /\ Runs(r)
      /\ r.kernel = s.kernel /\ r.list = s.list /\ r.run = s.run
  BY <1>1, <1>2 DEF Good, NotDue, Rescheduled, Keeps, Frame
<1> QED
  BY <1>3, KeepsSettled, KeepsCalm

\* Nobody waits for o any more.
AllWoken(s, r, o) ==
  /\ Calm(s, r) /\ r.run = s.run /\ r.kernel = s.kernel
  /\ r.list[o] = << >>
  /\ \A p \in Object \ {o} : r.list[p] = s.list[p]

\* The waiters of a deleted object
LEMMA WakeAllGood ==
  ASSUME NEW s, Settled(s), s.next = s.run, s.kernel # "Ready", NEW o \in Object \ Mutex,
         NEW r, r = WakeAll(s, o)
  PROVE  Settled(r) /\ AllWoken(s, r, o)
<1>1. CASE s.list[o] = << >>
  <2>1. r = s
    BY <1>1 DEF WakeAll
  <2> QED
    BY <1>1, <2>1 DEF AllWoken, Calm
<1>2. CASE s.list[o] # << >>
  <2> DEFINE n == Len(s.list[o])
             f == CHOOSE g : WakesFrom(s, o, n, g)
             w == f[n]
  <2>1. r = ThreadDispatchReady(w)
    BY <1>2 DEF WakeAll, WakesFrom
  <2>2. n = Len(s.list[o]) /\ f = CHOOSE g : WakesFrom(s, o, n, g)
    OBVIOUS
  <2>3. w = f[n]
    OBVIOUS
  <2> HIDE DEF n, f, w
  <2>4. n \in Nat /\ s.list[o] \in Seq(Thread)
    BY <2>2, Fields DEF Settled, Good, Linked
  <2>5. WakesFrom(s, o, n, f)
    BY <2>2, <2>4, WakesExist
  <2>6. Emptied(s, w, o, n)
    BY <2>2, <2>3, <2>5, WakesGood
  <2>7. Settled(w) /\ w.next = w.run /\ w.kernel # "Ready"
    BY <2>6 DEF Emptied
  <2>8. /\ Settled(r) /\ Calm(w, r) /\ r.list = w.list /\ r.run = w.run /\ r.kernel = w.kernel
    BY <2>1, <2>7, DispatchSettled
  <2>9. w.list[o] = << >>
    <3>1. w.list[o] \in Seq(Thread)
      BY <2>7, Fields DEF Settled, Good, Linked
    <3>2. Len(w.list[o]) = 0
      BY <2>2, <2>4, <2>6 DEF Emptied
    <3> QED
      BY <3>1, <3>2
  <2>10. Calm(s, r)
    BY <2>6, <2>8, CalmThen DEF Emptied
  <2> QED
    BY <2>6, <2>8, <2>9, <2>10 DEF Emptied, AllWoken
<1> QED
  BY <1>1, <1>2

-----------------------------------------------------------------------------
(* Waiting for an object. *)

LEMMA WaitForGood ==
  ASSUME Settled(k), k.next = k.run, CanWait(k), NEW o \in Object \ Mutex,
         NEW x \in QueueStates \ {"WaitingMutex"}, NEW d \in (Nat \ {0}) \cup {Forever},
         NEW r, r = WaitFor(o, x, d)
  PROVE  Settled(r) /\ Enqueues(k, r, o, k.run, x)
<1> DEFINE w == ThreadWaitEnter(k, x, d)
<1>1. r = [w EXCEPT !.list[o] = ThreadListPut(w, @, k.run)]
  BY DEF WaitFor
<1>2. k.run \in Thread /\ o \in Object /\ x \in WaitKind(o) /\ (o \in Mutex => Held(k, o))
  BY DEF Settled, Started, Runs, CanWait, WaitKind
<1>3. w = ThreadWaitEnter(k, x, d)
  OBVIOUS
<1> HIDE DEF w
<1> QED
  BY <1>1, <1>2, <1>3, EnqueueGood

\* The record a handler leaves is the kernel record then, but for the switch.
LEMMA ReturnInv ==
  ASSUME Inv, NEW s, Settled(s), Return(s)
  PROVE  Inv' /\ k'.list = s.list /\ k'.state = s.state
<1>1. k' = ContextSwitch(s) /\ tick' = tick
  BY DEF Return
<1>2. Settled(k') /\ k'.next = k'.run /\ k'.list = s.list /\ k'.state = s.state
  BY <1>1, ReturnSettled
<1> QED
  BY <1>1, <1>2 DEF Inv

-----------------------------------------------------------------------------
(* Posts. *)

\* The object o is at n places of the sequence q, at least.
Posts(q, o, n) ==
  \E f \in [1..n -> 1..Len(q)] :
    /\ \A i \in 1..n : q[f[i]] = o
    /\ \A i, j \in 1..n : i < j => f[i] < f[j]

\* None are always there, and one that is there can be found.
LEMMA PostsNone ==
  ASSUME NEW q, NEW o
  PROVE  Posts(q, o, 0)
<1> DEFINE f == [i \in 1..0 |-> 1]
<1>1. 1..0 = {}
  OBVIOUS
<1>2. f \in [1..0 -> 1..Len(q)]
  BY <1>1
<1> HIDE DEF f
<1> QED
  BY <1>1, <1>2 DEF Posts

LEMMA PostsFound ==
  ASSUME NEW q \in Seq(Object), NEW o, NEW n \in Nat \ {0}, Posts(q, o, n)
  PROVE  o \in ToSet(q)
<1>1. PICK f \in [1..n -> 1..Len(q)] : \A i \in 1..n : q[f[i]] = o
  BY DEF Posts
<1>2. 1 \in 1..n
  OBVIOUS
<1>3. f[1] \in 1..Len(q) /\ q[f[1]] = o
  BY <1>1, <1>2
<1> QED
  BY <1>3, ToSetIs

\* Fewer are there as well.
LEMMA PostsFewer ==
  ASSUME NEW q, NEW o, NEW n \in Nat, Posts(q, o, n), NEW m \in Nat, m <= n
  PROVE  Posts(q, o, m)
<1>1. PICK f \in [1..n -> 1..Len(q)] : /\ \A i \in 1..n : q[f[i]] = o
                                       /\ \A i, j \in 1..n : i < j => f[i] < f[j]
  BY DEF Posts
<1> DEFINE g == [i \in 1..m |-> f[i]]
<1>2. \A i \in 1..m : i \in 1..n
  OBVIOUS
<1>3. /\ g \in [1..m -> 1..Len(q)]
      /\ \A i \in 1..m : g[i] = f[i]
  BY <1>1, <1>2
<1> HIDE DEF g
<1>4. /\ \A i \in 1..m : q[g[i]] = o
      /\ \A i, j \in 1..m : i < j => g[i] < g[j]
  BY <1>1, <1>2, <1>3
<1> QED
  BY <1>3, <1>4 DEF Posts

\* A post more loses none of those before ...
LEMMA PostsAppend ==
  ASSUME NEW q \in Seq(Object), NEW o, NEW n \in Nat, Posts(q, o, n), NEW p \in Object
  PROVE  Posts(Append(q, p), o, n)
<1>1. PICK f \in [1..n -> 1..Len(q)] : /\ \A i \in 1..n : q[f[i]] = o
                                       /\ \A i, j \in 1..n : i < j => f[i] < f[j]
  BY DEF Posts
<1>2. /\ Len(Append(q, p)) = Len(q) + 1 /\ Len(q) \in Nat
      /\ \A i \in 1..Len(q) : Append(q, p)[i] = q[i]
  OBVIOUS
<1>3. \A i \in 1..n : f[i] \in 1..Len(q)
  BY <1>1
<1>4. f \in [1..n -> 1..Len(Append(q, p))]
  BY <1>1, <1>2, <1>3
<1>5. \A i \in 1..n : Append(q, p)[f[i]] = o
  BY <1>1, <1>2, <1>3
<1> QED
  BY <1>1, <1>4, <1>5 DEF Posts

\* ... and is one more of its object.
LEMMA PostsMore ==
  ASSUME NEW q \in Seq(Object), NEW o \in Object, NEW n \in Nat, Posts(q, o, n)
  PROVE  Posts(Append(q, o), o, n + 1)
<1>1. PICK f \in [1..n -> 1..Len(q)] : /\ \A i \in 1..n : q[f[i]] = o
                                       /\ \A i, j \in 1..n : i < j => f[i] < f[j]
  BY DEF Posts
<1> DEFINE g == [i \in 1..n+1 |-> IF i = n + 1 THEN Len(q) + 1 ELSE f[i]]
           z == Append(q, o)
<1>2. /\ Len(z) = Len(q) + 1 /\ Len(q) \in Nat /\ z[Len(q) + 1] = o
      /\ \A i \in 1..Len(q) : z[i] = q[i]
  OBVIOUS
<1> HIDE DEF z
<1>3. \A i \in 1..n+1 : i = n + 1 \/ i \in 1..n
  OBVIOUS
<1>4. /\ n + 1 \in 1..n+1 /\ g[n+1] = Len(q) + 1
      /\ \A i \in 1..n : g[i] = f[i] /\ f[i] \in 1..Len(q) /\ f[i] < Len(q) + 1
  <2>1. \A i \in 1..n : i \in 1..n+1 /\ i # n + 1 /\ i < n + 1
    OBVIOUS
  <2>2. \A i \in 1..n : f[i] \in 1..Len(q)
    BY <1>1
  <2>3. \A i \in 1..n : f[i] < Len(q) + 1
    BY <1>2, <2>2
  <2> QED
    BY <2>1, <2>2, <2>3
<1>5. g \in [1..n+1 -> 1..Len(z)]
  <2>1. \A i \in 1..n+1 : g[i] \in 1..Len(z)
    BY <1>2, <1>3, <1>4
  <2> QED
    BY <2>1
<1> HIDE DEF g
<1>6. \A i \in 1..n+1 : z[g[i]] = o
  BY <1>1, <1>2, <1>3, <1>4
<1>7. ASSUME NEW i \in 1..n+1, NEW j \in 1..n+1, i < j PROVE g[i] < g[j]
  <2>1. i \in 1..n
    BY <1>7
  <2>2. CASE j = n + 1
    BY <1>4, <2>1, <2>2
  <2>3. CASE j # n + 1
    BY <1>1, <1>3, <1>4, <1>7, <2>1, <2>3
  <2> QED
    BY <2>2, <2>3
<1> QED
  BY <1>5, <1>6, <1>7 DEF Posts, z

\* The first post is handled: another object loses none ...
LEMMA PostsOther ==
  ASSUME NEW q \in Seq(Object), q # << >>, NEW o, Head(q) # o, NEW n \in Nat,
         Posts(q, o, n)
  PROVE  Posts(Tail(q), o, n)
<1>1. PICK f \in [1..n -> 1..Len(q)] : /\ \A i \in 1..n : q[f[i]] = o
                                       /\ \A i, j \in 1..n : i < j => f[i] < f[j]
  BY DEF Posts
<1> DEFINE g == [i \in 1..n |-> f[i] - 1]
           z == Tail(q)
<1>2. /\ Len(q) \in Nat /\ Len(z) = Len(q) - 1 /\ Head(q) = q[1]
      /\ \A i \in 1..Len(q) - 1 : z[i] = q[i+1]
  OBVIOUS
<1> HIDE DEF z
<1>3. \A i \in 1..n : f[i] \in 1..Len(q) /\ f[i] # 1
  BY <1>1, <1>2
<1>4. \A i \in 1..n : f[i] - 1 \in 1..Len(q) - 1 /\ (f[i] - 1) + 1 = f[i]
  BY <1>2, <1>3
<1>5. g \in [1..n -> 1..Len(z)] /\ \A i \in 1..n : g[i] = f[i] - 1
  BY <1>2, <1>4
<1> HIDE DEF g
<1>6. \A i \in 1..n : z[g[i]] = o
  BY <1>1, <1>2, <1>4, <1>5
<1>7. \A i, j \in 1..n : i < j => g[i] < g[j]
  BY <1>1, <1>3, <1>5
<1> QED
  BY <1>5, <1>6, <1>7 DEF Posts, z

\* ... and its own one.
LEMMA PostsOne ==
  ASSUME NEW q \in Seq(Object), q # << >>, NEW o, NEW n \in Nat \ {0}, Posts(q, o, n)
  PROVE  Posts(Tail(q), o, n - 1)
<1>1. PICK f \in [1..n -> 1..Len(q)] : /\ \A i \in 1..n : q[f[i]] = o
                                       /\ \A i, j \in 1..n : i < j => f[i] < f[j]
  BY DEF Posts
<1> DEFINE g == [i \in 1..n-1 |-> f[i+1] - 1]
           z == Tail(q)
<1>2. /\ Len(q) \in Nat /\ Len(z) = Len(q) - 1
      /\ \A i \in 1..Len(q) - 1 : z[i] = q[i+1]
  OBVIOUS
<1> HIDE DEF z
<1>3. \A i \in 1..n-1 : i + 1 \in 1..n /\ 1 < i + 1 /\ 1 \in 1..n
  OBVIOUS
<1>4. \A i \in 1..n : f[i] \in 1..Len(q)
  BY <1>1
<1>5. \A i \in 1..n-1 : f[i+1] \in 1..Len(q) /\ f[1] \in 1..Len(q) /\ f[1] < f[i+1]
  BY <1>1, <1>3, <1>4
<1>6. \A i \in 1..n-1 : f[i+1] - 1 \in 1..Len(q) - 1 /\ (f[i+1] - 1) + 1 = f[i+1]
  BY <1>2, <1>5
<1>7. g \in [1..n-1 -> 1..Len(z)] /\ \A i \in 1..n-1 : g[i] = f[i+1] - 1
  BY <1>2, <1>6
<1> HIDE DEF g
<1>8. ASSUME NEW i \in 1..n-1 PROVE z[g[i]] = o
  <2> DEFINE x == g[i]
  <2>1. x \in 1..Len(q) - 1 /\ x + 1 = f[i+1] /\ i + 1 \in 1..n
    BY <1>3, <1>6, <1>7
  <2> HIDE DEF x
  <2>2. z[x] = q[x+1] /\ q[f[i+1]] = o
    BY <1>1, <1>2, <2>1
  <2> QED
    BY <2>1, <2>2 DEF x
<1>9. ASSUME NEW i \in 1..n-1, NEW j \in 1..n-1, i < j PROVE g[i] < g[j]
  <2>1. i + 1 \in 1..n /\ j + 1 \in 1..n /\ i + 1 < j + 1
    BY <1>9
  <2>2. f[i+1] < f[j+1] /\ f[i+1] \in Int /\ f[j+1] \in Int
    BY <1>1, <1>4, <2>1
  <2>3. g[i] = f[i+1] - 1 /\ g[j] = f[j+1] - 1
    BY <1>7
  <2> QED
    BY <2>2, <2>3
<1> QED
  BY <1>7, <1>8, <1>9 DEF Posts, z

-----------------------------------------------------------------------------
(* The invariant of the semaphores. *)

\* The threads that wait for an object are in the lists of the objects E, and wait
\* in the states X.
Tidy(s, E, X) ==
  /\ \A u \in Thread : s.state[u] \in QueueStates => s.state[u] \in X
  /\ \A o \in Object \ E : s.list[o] = << >>

\* A calm step leaves it so, and empty lists empty.
LEMMA CalmTidy ==
  ASSUME NEW s \in Kernel, NEW r \in Kernel, Calm(s, r)
  PROVE  /\ SameEmpty(s, r)
         /\ \A E, X : Tidy(s, E, X) => Tidy(r, E, X)
<1>1. s.list \in [Object -> Seq(Thread)] /\ r.list \in [Object -> Seq(Thread)]
  BY Fields
<1>2. SameEmpty(s, r)
  BY <1>1, EmptySet DEF Calm, SameEmpty
<1> QED
  BY <1>2 DEF Calm, SameEmpty, Tidy

\* A handler is in progress, or a service that has still to wait.
SemaphoreHandler ==
  \/ svc \in {NoService, [what |-> "PendSV"]}
  \/ \E s \in sems, d \in Delays \cup {Forever} :
       svc = [what |-> "Wait", sem |-> s, timeout |-> d]

Counted ==
  /\ sems \subseteq Object
  /\ tokens \in [Object -> 0..MaxTokens] /\ held \in [Object -> 0..MaxTokens]
  /\ TokensConserved

\* A thread waits for s, or is about to.
Awaited(s) == k.list[s] # << >> \/ (At("Wait") /\ svc.sem = s)

\* While somebody waits every token of s is one that an interrupt has released and
\* PendSV has still to look at.
Supplied == \A s \in sems : Awaited(s) => Posts(posted, s, tokens[s])

SemaphoreInv ==
  /\ Inv /\ Tidy(k, sems, {"WaitingSemaphore"}) /\ posted \in Seq(Object)
  /\ SemaphoreHandler /\ Counted /\ Supplied

\* A step of the kernel that nobody starts to wait in.
LEMMA CalmStep ==
  ASSUME SemaphoreInv, Inv', Calm(k, k'), posted' = posted, Counted',
         svc' \in {NoService, [what |-> "PendSV"]},
         \A o \in Object \ sems' : k'.list[o] = << >>,
         \A s \in sems' : k'.list[s] # << >> => s \in sems /\ tokens'[s] <= tokens[s]
  PROVE  SemaphoreInv'
<1>1. /\ k \in Kernel /\ k' \in Kernel /\ sems \in SUBSET Object /\ sems' \in SUBSET Object
      /\ tokens \in [Object -> 0..MaxTokens] /\ tokens' \in [Object -> 0..MaxTokens]
  BY DEF SemaphoreInv, Inv, Settled, Good, Linked, Counted
<1>2. SameEmpty(k, k') /\ Tidy(k', sems, {"WaitingSemaphore"})
  BY <1>1, CalmTidy DEF SemaphoreInv
<1>3. Tidy(k, sems, {"WaitingSemaphore"})'
  BY <1>2 DEF Tidy
<1>4. ~At("Wait")'
  BY DEF At
<1>5. ASSUME NEW s \in sems', Awaited(s)' PROVE Posts(posted', s, tokens'[s])
  <2>1. k'.list[s] # << >> /\ s \in Object
    BY <1>1, <1>4, <1>5 DEF Awaited
  <2>2. s \in sems /\ tokens'[s] <= tokens[s] /\ k.list[s] # << >>
    BY <1>2, <2>1 DEF SameEmpty
  <2>3. tokens[s] \in Nat /\ tokens'[s] \in Nat
    BY <1>1, <2>1
  <2>4. Posts(posted, s, tokens[s])
    BY <2>2 DEF SemaphoreInv, Supplied, Awaited
  <2> QED
    BY <2>2, <2>3, <2>4, PostsFewer
<1>6. Supplied'
  BY <1>5 DEF Supplied
<1>7. SemaphoreHandler'
  BY DEF SemaphoreHandler
<1>8. posted' \in Seq(Object)
  BY DEF SemaphoreInv
<1> QED
  BY <1>3, <1>6, <1>7, <1>8 DEF SemaphoreInv

\* What every step finds.
LEMMA Found ==
  ASSUME SemaphoreInv, SemaphoreAssumption
  PROVE  /\ Inv /\ Settled(k) /\ k \in Kernel /\ k.next = k.run /\ Unowned(k)
         /\ Mutex = {} /\ MaxTokens \in Nat \ {0}
         /\ sems \in SUBSET Object
         /\ tokens \in [Object -> 0..MaxTokens] /\ held \in [Object -> 0..MaxTokens]
         /\ posted \in Seq(Object)
         /\ \A s \in sems : tokens[s] + held[s] = MaxTokens
         /\ \A o \in Object \ sems : k.list[o] = << >>
         /\ \A s : Chained(s) \in {NoService, [what |-> "PendSV"]}
<1>1. k \in Kernel /\ Mutex = {}
  BY DEF SemaphoreInv, Inv, Settled, Good, Linked, SemaphoreAssumption
<1>2. Unowned(k)
  <2>1. ASSUME NEW t \in Thread PROVE k.owned[t] = << >>
    <3>1. k.owned[t] \in Seq({})
      BY <1>1, Fields
    <3>2. Len(k.owned[t]) = 0
      <4>1. SUFFICES ASSUME Len(k.owned[t]) # 0 PROVE FALSE
        OBVIOUS
      <4>2. k.owned[t][1] \in {}
        BY <3>1, <4>1
      <4> QED
        BY <4>2
    <3> QED
      BY <3>1, <3>2
  <2> QED
    BY <2>1 DEF Unowned
<1>3. \A s : Chained(s) \in {NoService, [what |-> "PendSV"]}
  BY DEF Chained
<1> QED
  BY <1>1, <1>2, <1>3 DEF SemaphoreInv, Inv, Counted, Tidy, TokensConserved, SemaphoreAssumption

\* A thread calls: the kernel runs.
LEMMA CallRuns ==
  ASSUME Inv, NEW name, Service(name)
  PROVE  k.kernel # "Ready" /\ k.run \in Thread
<1>1. k.run \in Thread
  BY DEF Service, Call
<1> QED
  BY <1>1, Running DEF Inv

-----------------------------------------------------------------------------
(* The services. *)

\* The counts when nothing is counted.
LEMMA SameCounts ==
  ASSUME Counted, UNCHANGED semVars
  PROVE  Counted'
BY DEF Counted, semVars, TokensConserved

LEMMA ThreadStepKept ==
  ASSUME SemaphoreInv, SemaphoreAssumption, JoinersLeftAlone, ThreadStep, UNCHANGED semVars
  PROVE  SemaphoreInv'
<1>1. Inv' /\ Calm(k, k')
  <2>1. Inv /\ Unowned(k) /\ [Next]_vars
    BY Found DEF ThreadStep
  <2> QED
    BY <2>1, NextKept DEF Kept, Caught
<1>2. svc' \in {NoService, [what |-> "PendSV"]} /\ posted' = posted
  BY Found DEF ThreadStep
<1>3. Counted'
  BY SameCounts DEF SemaphoreInv
<1>4. /\ \A o \in Object \ sems' : k'.list[o] = << >>
      /\ \A s \in sems' : s \in sems /\ tokens'[s] <= tokens[s]
  <2>1. k \in Kernel /\ k' \in Kernel
    BY <1>1 DEF SemaphoreInv, Inv, Settled, Good, Linked
  <2>2. SameEmpty(k, k')
    BY <1>1, <2>1, CalmTidy
  <2>3. sems' = sems /\ tokens' = tokens
    BY DEF semVars
  <2>4. \A s \in sems : tokens[s] \in Nat
    BY Found
  <2> QED
    BY <2>2, <2>3, <2>4, Found DEF SameEmpty
<1> QED
  BY <1>1, <1>2, <1>3, <1>4, CalmStep

\* A service that only counts.
LEMMA CountStep ==
  ASSUME SemaphoreInv, SemaphoreAssumption, NEW name, Service(name), UNCHANGED << k, tick >>,
         Counted', sems \in SUBSET sems',
         \A s \in sems' : k.list[s] # << >> => tokens'[s] <= tokens[s]
  PROVE  SemaphoreInv'
<1>1. Inv' /\ Calm(k, k')
  BY SameCalm, Found DEF Inv
<1>2. svc' \in {NoService, [what |-> "PendSV"]} /\ posted' = posted
  BY Found DEF Service
<1>3. \A o \in Object \ sems' : k'.list[o] = << >>
  BY Found
<1>4. \A s \in sems' : k'.list[s] # << >> => s \in sems /\ tokens'[s] <= tokens[s]
  <2>1. sems' \in SUBSET Object
    BY DEF Counted
  <2> QED
    BY <2>1, Found
<1> QED
  BY <1>1, <1>2, <1>3, <1>4, CalmStep

\* The counts of one semaphore change, by something given back or granted.
LEMMA Counting ==
  ASSUME SemaphoreInv, SemaphoreAssumption, NEW s \in sems, sems' = sems,
         NEW a \in 0..MaxTokens, NEW b \in 0..MaxTokens, a + b = MaxTokens,
         tokens' = [tokens EXCEPT ![s] = a], held' = [held EXCEPT ![s] = b]
  PROVE  Counted'
<1>1. /\ s \in Object /\ tokens'[s] = a /\ held'[s] = b
      /\ \A x \in Object \ {s} : tokens'[x] = tokens[x] /\ held'[x] = held[x]
      /\ tokens' \in [Object -> 0..MaxTokens] /\ held' \in [Object -> 0..MaxTokens]
  BY Found
<1>2. \A x \in sems : tokens'[x] + held'[x] = MaxTokens
  BY <1>1, Found
<1> QED
  BY <1>1, <1>2, Found DEF Counted, TokensConserved

\* A token is granted, or given back.
LEMMA CountingDown ==
  ASSUME SemaphoreInv, SemaphoreAssumption, NEW s \in sems, sems' = sems, tokens[s] # 0,
         tokens' = [tokens EXCEPT ![s] = @ - 1], held' = [held EXCEPT ![s] = @ + 1]
  PROVE  Counted'
<1>1. /\ tokens[s] \in 0..MaxTokens /\ held[s] \in 0..MaxTokens /\ MaxTokens \in Nat
      /\ tokens[s] + held[s] = MaxTokens
  BY Found
<1>2. /\ tokens[s] - 1 \in 0..MaxTokens /\ held[s] + 1 \in 0..MaxTokens
      /\ (tokens[s] - 1) + (held[s] + 1) = MaxTokens
  BY <1>1
<1> QED
  BY <1>2, Counting

LEMMA CountingUp ==
  ASSUME SemaphoreInv, SemaphoreAssumption, NEW s \in sems, sems' = sems,
         tokens[s] < MaxTokens,
         tokens' = [tokens EXCEPT ![s] = @ + 1], held' = [held EXCEPT ![s] = @ - 1]
  PROVE  Counted'
<1>1. /\ tokens[s] \in 0..MaxTokens /\ held[s] \in 0..MaxTokens /\ MaxTokens \in Nat
      /\ tokens[s] + held[s] = MaxTokens
  BY Found
<1>2. /\ tokens[s] + 1 \in 0..MaxTokens /\ held[s] - 1 \in 0..MaxTokens
      /\ (tokens[s] + 1) + (held[s] - 1) = MaxTokens
  BY <1>1
<1> QED
  BY <1>2, Counting

LEMMA NewKept ==
  ASSUME SemaphoreInv, SemaphoreAssumption, NEW s \in Object, NEW n \in 0..MaxTokens,
         SemaphoreNew(s, n)
  PROVE  SemaphoreInv'
<1>1. /\ Service("SemaphoreNew") /\ UNCHANGED << k, tick >>
      /\ s \notin sems /\ sems' = sems \cup {s}
      /\ tokens' = [tokens EXCEPT ![s] = n] /\ held' = [held EXCEPT ![s] = MaxTokens - n]
  BY DEF SemaphoreNew
<1>2. /\ tokens'[s] = n /\ held'[s] = MaxTokens - n /\ n + (MaxTokens - n) = MaxTokens
      /\ \A x \in Object \ {s} : tokens'[x] = tokens[x] /\ held'[x] = held[x]
      /\ tokens' \in [Object -> 0..MaxTokens] /\ held' \in [Object -> 0..MaxTokens]
  <2>1. MaxTokens \in Nat /\ MaxTokens - n \in 0..MaxTokens
    BY Found
  <2> QED
    BY <1>1, <2>1, Found
<1>3. Counted'
  <2>1. \A x \in sems' : tokens'[x] + held'[x] = MaxTokens
    BY <1>1, <1>2, Found
  <2>2. sems' \in SUBSET Object
    BY <1>1, Found
  <2> QED
    BY <1>2, <2>1, <2>2 DEF Counted, TokensConserved
<1>4. \A x \in sems' : k.list[x] # << >> => tokens'[x] <= tokens[x]
  <2>1. k.list[s] = << >>
    BY <1>1, Found
  <2>2. \A x \in sems : tokens'[x] = tokens[x] /\ tokens[x] \in Nat
    BY <1>1, <1>2, Found
  <2> QED
    BY <1>1, <2>1, <2>2
<1> QED
  BY <1>1, <1>3, <1>4, CountStep

LEMMA AcquireKept ==
  ASSUME SemaphoreInv, SemaphoreAssumption, NEW s \in Object, SemaphoreAcquire(s)
  PROVE  SemaphoreInv'
<1>1. /\ Service("SemaphoreAcquire") /\ UNCHANGED << k, tick, sems >>
      /\ s \in sems /\ tokens[s] # 0
      /\ tokens' = [tokens EXCEPT ![s] = @ - 1] /\ held' = [held EXCEPT ![s] = @ + 1]
  BY DEF SemaphoreAcquire, Granted
<1>2. /\ tokens \in [Object -> 0..MaxTokens] /\ held \in [Object -> 0..MaxTokens]
      /\ tokens[s] \in 0..MaxTokens /\ held[s] \in 0..MaxTokens /\ MaxTokens \in Nat
  BY Found
<1>3. Counted'
  BY <1>1, CountingDown
<1>4. \A x \in sems' : tokens'[x] <= tokens[x]
  BY <1>1, <1>2, Found
<1> QED
  BY <1>1, <1>3, <1>4, CountStep

LEMMA ReleaseCountKept ==
  ASSUME SemaphoreInv, SemaphoreAssumption, NEW s \in Object, SemaphoreReleaseCount(s)
  PROVE  SemaphoreInv'
<1>1. /\ Service("SemaphoreRelease") /\ UNCHANGED << k, tick, sems >>
      /\ s \in sems /\ k.list[s] = << >> /\ tokens[s] < MaxTokens
      /\ tokens' = [tokens EXCEPT ![s] = @ + 1] /\ held' = [held EXCEPT ![s] = @ - 1]
  BY DEF SemaphoreReleaseCount, GaveBack
<1>2. /\ tokens \in [Object -> 0..MaxTokens] /\ tokens[s] \in 0..MaxTokens
      /\ MaxTokens \in Nat
  BY Found
<1>3. Counted'
  BY <1>1, CountingUp
<1>4. \A x \in sems' : k.list[x] # << >> => tokens'[x] <= tokens[x]
  BY <1>1, <1>2, Found
<1> QED
  BY <1>1, <1>3, <1>4, CountStep

\* No token is free: the thread is about to wait.
LEMMA AcquireNoneKept ==
  ASSUME SemaphoreInv, SemaphoreAssumption, NEW s \in Object,
         NEW d \in Delays \cup {Forever}, SemaphoreAcquireNone(s, d)
  PROVE  SemaphoreInv'
<1>1. /\ s \in sems /\ tokens[s] = 0 /\ UNCHANGED << k, tick, posted >>
      /\ svc = NoService /\ svc' = [what |-> "Wait", sem |-> s, timeout |-> d]
      /\ sems' = sems /\ tokens' = tokens /\ held' = held
  BY DEF SemaphoreAcquireNone, Enter, Quiet, semVars
<1>2. Inv' /\ Counted' /\ Tidy(k, sems, {"WaitingSemaphore"})' /\ posted' \in Seq(Object)
  BY <1>1 DEF SemaphoreInv, Inv, Counted, TokensConserved
<1>3. SemaphoreHandler'
  BY <1>1 DEF SemaphoreHandler
<1>4. ASSUME NEW x \in sems', Awaited(x)' PROVE Posts(posted', x, tokens'[x])
  <2>1. CASE x = s
    BY <1>1, <2>1, PostsNone
  <2>2. CASE x # s
    <3>1. k.list[x] # << >>
      BY <1>1, <1>4, <2>2 DEF Awaited, At
    <3> QED
      BY <1>1, <3>1 DEF SemaphoreInv, Supplied, Awaited
  <2> QED
    BY <2>1, <2>2
<1>5. Supplied'
  BY <1>4 DEF Supplied
<1> QED
  BY <1>2, <1>3, <1>5 DEF SemaphoreInv

\* A service that only wakes threads.
LEMMA WakeStep ==
  ASSUME SemaphoreInv, SemaphoreAssumption, NEW r, Settled(r), Calm(k, r), Return(r),
         svc' \in {NoService, [what |-> "PendSV"]}, UNCHANGED << posted, tokens, held >>,
         sems' \in SUBSET sems, \A s \in sems \ sems' : r.list[s] = << >>
  PROVE  SemaphoreInv'
<1>1. Inv' /\ k'.list = r.list /\ k'.state = r.state
  BY Found, ReturnInv
<1>2. Calm(k, k')
  BY <1>1 DEF Calm
<1>3. Counted'
  BY DEF SemaphoreInv, Counted, TokensConserved
<1>4. \A o \in Object \ sems' : k'.list[o] = << >>
  <2>1. k \in Kernel /\ k' \in Kernel
    BY <1>1 DEF SemaphoreInv, Inv, Settled, Good, Linked
  <2>2. SameEmpty(k, k')
    BY <1>2, <2>1, CalmTidy
  <2> QED
    BY <1>1, <2>2, Found DEF SameEmpty
<1>5. \A s \in sems' : s \in sems /\ tokens'[s] <= tokens[s]
  BY Found
<1> QED
  BY <1>1, <1>2, <1>3, <1>4, <1>5, CalmStep

LEMMA ReleaseKept ==
  ASSUME SemaphoreInv, SemaphoreAssumption, NEW s \in Object, SemaphoreRelease(s)
  PROVE  SemaphoreInv'
<1> DEFINE r == WakeFirstDispatch(k, s)
<1>1. /\ Service("SemaphoreRelease") /\ s \in sems /\ k.list[s] # << >> /\ Return(r)
      /\ UNCHANGED << sems, tokens, held >>
  BY DEF SemaphoreRelease, semVars
<1>2. r = WakeFirstDispatch(k, s)
  OBVIOUS
<1> HIDE DEF r
<1>3. Settled(r) /\ Woken(k, r, s, Head(k.list[s]))
  <2>1. Settled(k) /\ k.next = k.run /\ k.kernel # "Ready" /\ s \in Object \ Mutex
    BY <1>1, CallRuns, Found
  <2> QED
    BY <1>1, <1>2, <2>1, WakeFirstDispatchGood
<1>4. svc' \in {NoService, [what |-> "PendSV"]} /\ posted' = posted
  BY <1>1, Found DEF Service
<1>5. Calm(k, r) /\ sems' \in SUBSET sems /\ \A x \in sems \ sems' : r.list[x] = << >>
  BY <1>1, <1>3 DEF Woken
<1>6. UNCHANGED << posted, tokens, held >>
  BY <1>1, <1>4
<1> QED
  BY <1>1, <1>3, <1>4, <1>5, <1>6, WakeStep

LEMMA SemaphoreDeleteKept ==
  ASSUME SemaphoreInv, SemaphoreAssumption, NEW s \in Object, SemaphoreDelete(s)
  PROVE  SemaphoreInv'
<1> DEFINE r == WakeAll(k, s)
<1>1. /\ Service("SemaphoreDelete") /\ s \in sems /\ Return(r)
      /\ sems' = sems \ {s} /\ UNCHANGED << tokens, held >>
  BY DEF SemaphoreDelete
<1>2. r = WakeAll(k, s)
  OBVIOUS
<1> HIDE DEF r
<1>3. Settled(r) /\ AllWoken(k, r, s)
  <2>1. Settled(k) /\ k.next = k.run /\ k.kernel # "Ready" /\ s \in Object \ Mutex
    BY <1>1, CallRuns, Found
  <2> QED
    BY <1>2, <2>1, WakeAllGood
<1>4. svc' \in {NoService, [what |-> "PendSV"]} /\ posted' = posted
  BY <1>1, Found DEF Service
<1> QED
  BY <1>1, <1>3, <1>4, WakeStep DEF AllWoken

\* The rest of an acquire: the thread waits, if it can.
LEMMA SemaphoreAcquireWaitKept ==
  ASSUME SemaphoreInv, SemaphoreAssumption, SemaphoreAcquireWait
  PROVE  SemaphoreInv'
<1>1. At("Wait") /\ Leave(WaitFor(svc.sem, "WaitingSemaphore", svc.timeout))
      /\ sems' = sems /\ tokens' = tokens /\ held' = held
  BY DEF SemaphoreAcquireWait, semVars
<1>2. PICK s \in sems, d \in Delays \cup {Forever} :
        svc = [what |-> "Wait", sem |-> s, timeout |-> d]
  <2>1. svc # NoService /\ svc.what = "Wait"
    BY <1>1 DEF At
  <2>2. svc # [what |-> "PendSV"]
    BY <2>1
  <2> QED
    BY <2>1, <2>2 DEF SemaphoreInv, SemaphoreHandler
<1> DEFINE r == WaitFor(s, "WaitingSemaphore", d)
<1>3. /\ Return(r) /\ svc' \in {NoService, [what |-> "PendSV"]} /\ posted' = posted
      /\ Awaited(s) /\ s \in Object
  BY <1>1, <1>2, Found DEF Leave, Awaited
<1>4. r = WaitFor(s, "WaitingSemaphore", d)
  OBVIOUS
<1> HIDE DEF r
<1>5. CASE ~CanWait(k)
  <2>1. r = k
    BY <1>4, <1>5 DEF WaitFor
  <2>2. Settled(r) /\ Calm(k, r)
    BY <2>1, SameCalm, Found
  <2> QED
    BY <1>1, <1>3, <2>2, WakeStep
<1>6. CASE CanWait(k)
  <2>1. /\ Settled(k) /\ k.next = k.run /\ s \in Object \ Mutex
        /\ "WaitingSemaphore" \in QueueStates \ {"WaitingMutex"}
        /\ d \in (Nat \ {0}) \cup {Forever}
    BY <1>3, Found, ThreadAssumption DEF QueueStates
  <2>2. Settled(r) /\ Enqueues(k, r, s, k.run, "WaitingSemaphore")
    BY <1>4, <1>6, <2>1, WaitForGood
  <2>3. Inv' /\ k'.list = r.list /\ k'.state = r.state
    BY <1>3, <2>2, Found, ReturnInv
  <2>4. Counted' /\ posted' \in Seq(Object)
    BY <1>1, <1>3 DEF SemaphoreInv, Counted, TokensConserved
  <2>5. SemaphoreHandler' /\ ~At("Wait")'
    BY <1>3 DEF SemaphoreHandler, At
  <2>6. \A o \in Object \ {s} : k'.list[o] = k.list[o]
    BY <2>2, <2>3 DEF Enqueues
  <2>7. Tidy(k, sems, {"WaitingSemaphore"})'
    <3>1. \A u \in Thread : k'.state[u] \in QueueStates => k'.state[u] = "WaitingSemaphore"
      BY <2>2, <2>3 DEF Enqueues, SemaphoreInv, Tidy
    <3>2. \A o \in Object \ sems : k'.list[o] = << >>
      BY <2>6, Found
    <3> QED
      BY <1>1, <3>1, <3>2 DEF Tidy
  <2>8. ASSUME NEW x \in sems', Awaited(x)' PROVE Posts(posted', x, tokens'[x])
    <3>1. Awaited(x)
      BY <1>1, <1>3, <2>5, <2>6, <2>8, Found DEF Awaited
    <3> QED
      BY <1>1, <1>3, <3>1 DEF SemaphoreInv, Supplied
  <2>9. Supplied'
    BY <2>8 DEF Supplied
  <2> QED
    BY <2>3, <2>4, <2>5, <2>7, <2>9 DEF SemaphoreInv
<1> QED
  BY <1>5, <1>6

-----------------------------------------------------------------------------
(* Interrupts and PendSV. *)

\* A step that leaves the lists and the handler alone.
LEMMA IsrStep ==
  ASSUME SemaphoreInv, SemaphoreAssumption, UNCHANGED << k, tick, svc, sems >>,
         Counted', posted' \in Seq(Object),
         \A x \in sems : Posts(posted, x, tokens[x]) => Posts(posted', x, tokens'[x])
  PROVE  SemaphoreInv'
<1>1. Inv' /\ Tidy(k, sems, {"WaitingSemaphore"})' /\ SemaphoreHandler'
  BY DEF SemaphoreInv, Inv, SemaphoreHandler
<1>2. Supplied'
  BY DEF SemaphoreInv, Supplied, Awaited, At
<1> QED
  BY <1>1, <1>2 DEF SemaphoreInv

LEMMA IsrAcquireKept ==
  ASSUME SemaphoreInv, SemaphoreAssumption, NEW s \in Object, IsrAcquire(s)
  PROVE  SemaphoreInv'
<1>1. /\ UNCHANGED << k, tick, svc, sems, posted >>
      /\ s \in sems /\ tokens[s] # 0
      /\ tokens' = [tokens EXCEPT ![s] = @ - 1] /\ held' = [held EXCEPT ![s] = @ + 1]
  BY DEF IsrAcquire, Granted, Interrupt
<1>2. /\ tokens \in [Object -> 0..MaxTokens] /\ held \in [Object -> 0..MaxTokens]
      /\ tokens[s] \in 0..MaxTokens /\ held[s] \in 0..MaxTokens /\ MaxTokens \in Nat
      /\ posted \in Seq(Object)
  BY Found
<1>3. Counted'
  BY <1>1, CountingDown
<1>4. ASSUME NEW x \in sems, Posts(posted, x, tokens[x])
      PROVE  Posts(posted', x, tokens'[x])
  <2>1. tokens'[x] \in Nat /\ tokens[x] \in Nat /\ tokens'[x] <= tokens[x]
    BY <1>1, <1>2, Found
  <2> QED
    BY <1>1, <1>4, <2>1, PostsFewer
<1> QED
  BY <1>1, <1>2, <1>3, <1>4, IsrStep

LEMMA IsrReleaseKept ==
  ASSUME SemaphoreInv, SemaphoreAssumption, NEW s \in Object, IsrRelease(s)
  PROVE  SemaphoreInv'
<1>1. /\ UNCHANGED << k, tick, svc, sems >>
      /\ s \in sems /\ tokens[s] < MaxTokens /\ posted' = Append(posted, s)
      /\ tokens' = [tokens EXCEPT ![s] = @ + 1] /\ held' = [held EXCEPT ![s] = @ - 1]
  BY DEF IsrRelease, GaveBack, Interrupt, PostProcess
<1>2. /\ tokens \in [Object -> 0..MaxTokens] /\ tokens[s] \in 0..MaxTokens
      /\ MaxTokens \in Nat /\ posted \in Seq(Object) /\ posted' \in Seq(Object)
  BY <1>1, Found
<1>3. Counted'
  BY <1>1, CountingUp
<1>4. ASSUME NEW x \in sems, Posts(posted, x, tokens[x])
      PROVE  Posts(posted', x, tokens'[x])
  <2>1. tokens[x] \in Nat /\ x \in Object
    BY Found
  <2>2. CASE x = s
    <3>1. tokens'[x] = tokens[x] + 1
      BY <1>1, <1>2, <2>2
    <3> QED
      BY <1>1, <1>2, <1>4, <2>1, <2>2, <3>1, PostsMore
  <2>3. CASE x # s
    <3>1. tokens'[x] = tokens[x]
      BY <1>1, <1>2, <2>1, <2>3
    <3> QED
      BY <1>1, <1>2, <1>4, <2>1, <3>1, PostsAppend
  <2> QED
    BY <2>2, <2>3
<1> QED
  BY <1>1, <1>2, <1>3, <1>4, IsrStep

\* A waiter of o gets a token, if both are there.
Handed(s, o) ==
  o \in sems => \/ s.list[o] = << >>
                \/ tokens'[o] = 0
                \/ tokens[o] # 0 /\ tokens'[o] = tokens[o] - 1

\* The first post of o is handled.
LEMMA PendSVKept ==
  ASSUME SemaphoreInv, SemaphoreAssumption, NEW o \in Object, NEW s, PendSVStep(o, s),
         Settled(s), s.next = s.run, Calm(k, s), sems' = sems, Counted',
         \A x \in sems \ {o} : tokens'[x] = tokens[x],
         Handed(s, o)
  PROVE  SemaphoreInv'
<1>1. /\ At("PendSV") /\ posted # << >> /\ Head(posted) = o /\ posted' = Tail(posted)
      /\ k' = s /\ tick' = tick /\ svc' = svc
  BY DEF PendSVStep
<1>2. /\ Inv' /\ k \in Kernel /\ k' \in Kernel
      /\ posted \in Seq(Object) /\ posted' \in Seq(Object)
  BY <1>1, Found DEF Inv, Settled, Good, Linked
<1>3. SameEmpty(k, k') /\ Tidy(k', sems, {"WaitingSemaphore"})
  BY <1>1, <1>2, CalmTidy DEF SemaphoreInv
<1>4. Tidy(k, sems, {"WaitingSemaphore"})' /\ SemaphoreHandler' /\ ~At("Wait")'
  BY <1>1, <1>3 DEF Tidy, SemaphoreInv, SemaphoreHandler, At
<1>5. ASSUME NEW x \in sems', Awaited(x)' PROVE Posts(posted', x, tokens'[x])
  <2>1. x \in Object /\ x \in sems /\ tokens[x] \in Nat
    BY Found
  <2>2. k'.list[x] # << >> /\ k.list[x] # << >>
    BY <1>3, <1>4, <1>5, <2>1 DEF Awaited, SameEmpty
  <2>3. Posts(posted, x, tokens[x])
    BY <2>1, <2>2 DEF SemaphoreInv, Supplied, Awaited
  <2>4. CASE x # o
    <3>1. tokens'[x] = tokens[x]
      BY <2>1, <2>4
    <3> QED
      BY <1>1, <1>2, <2>1, <2>3, <2>4, <3>1, PostsOther
  <2>5. CASE x = o /\ tokens'[o] = 0
    BY <2>5, PostsNone
  <2>6. CASE x = o /\ tokens[o] # 0 /\ tokens'[o] = tokens[o] - 1
    BY <1>1, <1>2, <2>1, <2>3, <2>6, PostsOne
  <2> QED
    BY <1>1, <2>1, <2>2, <2>4, <2>5, <2>6 DEF Handed
<1>6. Supplied'
  BY <1>5 DEF Supplied
<1> QED
  BY <1>2, <1>4, <1>6 DEF SemaphoreInv

LEMMA PostProcessKept ==
  ASSUME SemaphoreInv, SemaphoreAssumption, NEW s \in Object, SemaphorePostProcess(s)
  PROVE  SemaphoreInv'
<1>1. CASE k.list[s] # << >> /\ tokens[s] # 0
  <2> DEFINE r == WakeFirst(k, s)
  <2>1. /\ s \in sems /\ PendSVStep(s, r) /\ sems' = sems
        /\ tokens' = [tokens EXCEPT ![s] = @ - 1] /\ held' = [held EXCEPT ![s] = @ + 1]
    BY <1>1 DEF SemaphorePostProcess, Granted
  <2>2. r = WakeFirst(k, s)
    OBVIOUS
  <2> HIDE DEF r
  <2>3. Settled(r) /\ Woken(k, r, s, Head(k.list[s])) /\ r.next = k.next
    <3>1. Settled(k) /\ s \in Object \ Mutex
      BY Found
    <3> QED
      BY <1>1, <2>2, <3>1, WakeFirstGood
  <2>4. r.next = r.run /\ Calm(k, r)
    BY <2>3, Found DEF Woken
  <2>5. /\ tokens \in [Object -> 0..MaxTokens] /\ held \in [Object -> 0..MaxTokens]
        /\ tokens[s] \in 0..MaxTokens /\ held[s] \in 0..MaxTokens /\ MaxTokens \in Nat
    BY Found
  <2>6. Counted'
    BY <1>1, <2>1, CountingDown
  <2>7. /\ tokens'[s] = tokens[s] - 1
        /\ \A x \in sems \ {s} : tokens'[x] = tokens[x]
    BY <2>1, <2>5, Found
  <2> QED
    BY <1>1, <2>1, <2>3, <2>4, <2>6, <2>7, PendSVKept DEF Handed
<1>2. CASE ~(k.list[s] # << >> /\ tokens[s] # 0)
  <2>1. /\ PendSVStep(s, k) /\ sems' = sems /\ tokens' = tokens /\ UNCHANGED semVars
        /\ \A x \in sems \ {s} : tokens'[x] = tokens[x]
    BY <1>2 DEF SemaphorePostProcess, semVars
  <2>2. Counted' /\ Settled(k) /\ k.next = k.run /\ Calm(k, k)
    BY <2>1, SameCounts, SameCalm, Found DEF SemaphoreInv
  <2>3. k.list[s] = << >> \/ tokens'[s] = 0
    BY <1>2, <2>1
  <2>4. Handed(k, s)
    BY <2>3 DEF Handed
  <2> QED
    BY <2>1, <2>2, <2>4, PendSVKept
<1> QED
  BY <1>1, <1>2

LEMMA PostProcessGoneKept ==
  ASSUME SemaphoreInv, SemaphoreAssumption, NEW s \in Object, PostProcessGone(s)
  PROVE  SemaphoreInv'
<1>1. /\ PendSVStep(s, k) /\ s \notin sems
      /\ sems' = sems /\ tokens' = tokens /\ UNCHANGED semVars
  BY DEF PostProcessGone, semVars
<1>2. Counted' /\ Settled(k) /\ k.next = k.run /\ Calm(k, k)
  BY <1>1, SameCounts, SameCalm, Found DEF SemaphoreInv
<1> QED
  BY <1>1, <1>2, PendSVKept DEF Handed

LEMMA PendSVExitKept ==
  ASSUME SemaphoreInv, SemaphoreAssumption, PendSVExit, UNCHANGED semVars
  PROVE  SemaphoreInv'
<1> DEFINE r == ThreadDispatchReady(k)
<1>1. /\ Return(r) /\ svc' \in {NoService, [what |-> "PendSV"]} /\ posted' = posted
      /\ sems' = sems /\ tokens' = tokens /\ held' = held
  BY Found DEF PendSVExit, Leave, semVars
<1>2. r = ThreadDispatchReady(k)
  OBVIOUS
<1> HIDE DEF r
<1>3. Settled(r) /\ Calm(k, r)
  <2>1. CASE k.kernel = "Ready"
    <3>1. r = k
      BY <1>2, <2>1 DEF ThreadDispatchReady, Preempts
    <3> QED
      BY <3>1, SameCalm, Found
  <2>2. CASE k.kernel # "Ready"
    BY <1>2, <2>2, Found, DispatchSettled
  <2> QED
    BY <2>1, <2>2
<1> QED
  BY <1>1, <1>3, WakeStep

LEMMA PendSVEntryKept ==
  ASSUME SemaphoreInv, SemaphoreAssumption, PendSVEntry, UNCHANGED semVars
  PROVE  SemaphoreInv'
<1>1. /\ UNCHANGED << k, tick, posted >> /\ svc' = [what |-> "PendSV"]
      /\ sems' = sems /\ tokens' = tokens
  BY DEF PendSVEntry, semVars
<1>2. Inv' /\ Calm(k, k') /\ Counted'
  BY <1>1, SameCalm, SameCounts DEF SemaphoreInv, Inv
<1>3. /\ \A o \in Object \ sems' : k'.list[o] = << >>
      /\ \A s \in sems' : s \in sems /\ tokens'[s] <= tokens[s]
  BY <1>1, Found
<1> QED
  BY <1>1, <1>2, <1>3, CalmStep

-----------------------------------------------------------------------------
(* The theorem. *)

LEMMA SemaphoreNextKept ==
  ASSUME SemaphoreInv, SemaphoreAssumption, JoinersLeftAlone, [SemaphoreNext]_allVars
  PROVE  SemaphoreInv'
<1>1. CASE UNCHANGED allVars
  <2>1. Inv' /\ Counted' /\ Tidy(k, sems, {"WaitingSemaphore"})' /\ posted' \in Seq(Object)
    BY <1>1 DEF allVars, SemaphoreInv, Inv, Counted, TokensConserved
  <2>2. SemaphoreHandler' /\ Supplied'
    BY <1>1 DEF allVars, SemaphoreInv, SemaphoreHandler, Supplied, Awaited, At
  <2> QED
    BY <2>1, <2>2 DEF SemaphoreInv
<1>2. CASE ThreadStep /\ UNCHANGED semVars
  BY <1>2, ThreadStepKept
<1>3. ASSUME NEW s \in Object, SemaphoreService(s) PROVE SemaphoreInv'
  <2>1. ASSUME NEW n \in 0..MaxTokens, SemaphoreNew(s, n) PROVE SemaphoreInv'
    BY <2>1, NewKept
  <2>2. ASSUME NEW d \in Delays \cup {Forever}, SemaphoreAcquireNone(s, d)
        PROVE  SemaphoreInv'
    BY <2>2, AcquireNoneKept
  <2> QED
    <3>1. ASSUME SemaphoreAcquire(s) PROVE SemaphoreInv'
      BY <3>1, AcquireKept
    <3>2. ASSUME SemaphoreRelease(s) PROVE SemaphoreInv'
      BY <3>2, ReleaseKept
    <3>3. ASSUME SemaphoreReleaseCount(s) PROVE SemaphoreInv'
      BY <3>3, ReleaseCountKept
    <3>4. ASSUME SemaphoreDelete(s) PROVE SemaphoreInv'
      BY <3>4, SemaphoreDeleteKept
    <3> QED
      BY <1>3, <2>1, <2>2, <3>1, <3>2, <3>3, <3>4 DEF SemaphoreService
<1>4. ASSUME NEW s \in Object, IsrAcquire(s) \/ IsrRelease(s) PROVE SemaphoreInv'
  BY <1>4, IsrAcquireKept, IsrReleaseKept
<1>5. CASE SemaphoreAcquireWait
  BY <1>5, SemaphoreAcquireWaitKept
<1>6. CASE PendSV
  <2>1. ASSUME NEW s \in Object, SemaphorePostProcess(s) \/ PostProcessGone(s)
        PROVE  SemaphoreInv'
    BY <2>1, PostProcessKept, PostProcessGoneKept
  <2> QED
    BY <1>6, <2>1, PendSVEntryKept, PendSVExitKept DEF PendSV
<1> QED
  BY <1>1, <1>2, <1>3, <1>4, <1>5, <1>6 DEF SemaphoreNext

LEMMA SemaphoreInitially ==
  ASSUME SemaphoreInit, SemaphoreAssumption
  PROVE  SemaphoreInv
<1>1. /\ Init /\ posted = << >> /\ svc = NoService /\ sems = {}
      /\ tokens = [s \in Object |-> 0] /\ held = [s \in Object |-> 0]
      /\ MaxTokens \in Nat
  BY DEF SemaphoreInit, IsrInit, SemaphoreAssumption
<1>2. Inv
  BY <1>1, Initially
<1>3. Tidy(k, sems, {"WaitingSemaphore"})
  BY <1>1 DEF Init, Tidy, QueueStates
<1>4. Counted
  BY <1>1 DEF Counted, TokensConserved
<1>5. SemaphoreHandler /\ Supplied /\ posted \in Seq(Object)
  BY <1>1 DEF SemaphoreHandler, Supplied
<1> QED
  BY <1>2, <1>3, <1>4, <1>5 DEF SemaphoreInv

\* What the semaphores promise follows from the invariant.
LEMMA SemaphoreInvCorrect ==
  ASSUME SemaphoreInv, SemaphoreAssumption
  PROVE  SemaphoreTypeOK /\ SemaphoreLinked /\ TokensConserved /\ WaiterPosted
<1>1. SemaphoreTypeOK
  <2>1. TypeOK
    BY InvConsistent DEF SemaphoreInv, ThreadsConsistent
  <2> QED
    BY <2>1 DEF SemaphoreTypeOK, SemaphoreInv, Counted
<1>2. SemaphoreLinked
  <2>1. k \in Kernel /\ Queues(k) /\ \A t \in Thread : Queued(k, t)
    BY Found DEF Settled
  <2>2. ASSUME NEW t \in Thread
        PROVE  k.state[t] \in {"WaitingSemaphore"}
                 <=> \E o \in Object : t \in ToSet(k.list[o])
    <3>1. ASSUME NEW o \in Object, t \in ToSet(k.list[o])
          PROVE  k.state[t] = "WaitingSemaphore"
      <4>1. k.state[t] \in QueueStates
        BY <2>1, <3>1 DEF Queues, WaitKind, QueueStates
      <4> QED
        BY <4>1 DEF SemaphoreInv, Tidy
    <3>2. k.state[t] = "WaitingSemaphore" => \E o \in Object : t \in ToSet(k.list[o])
      BY <2>1 DEF Queued, QueueStates
    <3> QED
      BY <3>1, <3>2
  <2>3. /\ \A o, p \in Object : o # p => ToSet(k.list[o]) \cap ToSet(k.list[p]) = {}
        /\ \A o \in Object : NoDuplicates(k.list[o])
    BY <2>1 DEF Queues
  <2>4. \A s \in Object \ sems : k.list[s] = << >>
    BY Found
  <2> QED
    BY <2>2, <2>3, <2>4 DEF SemaphoreLinked, WaitersLinked
<1>3. TokensConserved
  BY DEF SemaphoreInv, Counted
<1>4. WaiterPosted
  <2>1. ASSUME NEW s \in sems, BesideToken(s) PROVE s \in ToSet(posted)
    <3>1. k.list[s] # << >> /\ tokens[s] # 0
      BY <2>1 DEF BesideToken
    <3>2. tokens[s] \in Nat \ {0} /\ posted \in Seq(Object)
      BY <3>1, Found
    <3>3. Posts(posted, s, tokens[s])
      BY <3>1 DEF SemaphoreInv, Supplied, Awaited
    <3> QED
      BY <3>2, <3>3, PostsFound
  <2> QED
    BY <2>1 DEF WaiterPosted
<1> QED
  BY <1>1, <1>2, <1>3, <1>4

\* The semaphores lose and make no token, every waiting thread is in the list of one
\* existing semaphore, and none waits beside a token that no interrupt has posted, for
\* any number of threads, semaphores and tokens and however timeouts, terminations,
\* deletes and interrupts come between the steps of an acquire (rtx_semaphore.c).
THEOREM SemaphoresCorrect ==
  JoinersLeftAlone /\ SemaphoreAssumption =>
    (SemaphoreSpec => [](SemaphoreTypeOK /\ SemaphoreLinked /\ TokensConserved /\ WaiterPosted))
<1> SUFFICES ASSUME JoinersLeftAlone, SemaphoreAssumption
             PROVE  SemaphoreSpec =>
                      [](SemaphoreTypeOK /\ SemaphoreLinked /\ TokensConserved /\ WaiterPosted)
  OBVIOUS
<1>1. SemaphoreInit => SemaphoreInv
  BY SemaphoreInitially
<1>2. SemaphoreInv /\ [SemaphoreNext]_allVars => SemaphoreInv'
  BY SemaphoreNextKept
<1>3. SemaphoreInv => SemaphoreTypeOK /\ SemaphoreLinked /\ TokensConserved /\ WaiterPosted
  BY SemaphoreInvCorrect
<1> QED
  BY <1>1, <1>2, <1>3, PTL DEF SemaphoreSpec
=============================================================================

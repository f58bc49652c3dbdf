---------------------------- MODULE RtxMutexProofs ----------------------------
(***************************************************************************)
(* The mutexes, their owners and their waiters agree after every handler,  *)
(* for any number of threads and mutexes, whoever releases, deletes, times *)
(* out, ends or gets another priority.                                     *)
(*                                                                         *)
(* The invariant is that of RtxThreadProofs, which speaks of the mutexes   *)
(* already: this module shows that the functions of rtx_mutex.c keep it.   *)
(***************************************************************************)
EXTENDS RtxMutex, RtxThreadProofs

-----------------------------------------------------------------------------
(* What a handler leaves. *)

\* The record r that a handler leaves of s is settled, the mutexes have been passed
\* on as they may be, and nobody should preempt the running thread if nobody should
\* before.
Handled(s, r) ==
  /\ Settled(r) /\ Passes(s, r)
  /\ s.kernel = "Running" /\ r.kernel = "Running" /\ Highest(s, {}) => Highest(r, {})

\* What a step of a mutex function preserves.
MutexKept ==
  /\ Inv' /\ Passes(k, k') /\ tick' = tick
  /\ k.kernel = "Running" /\ k'.kernel = "Running" /\ Highest(k, {}) => Highest(k', {})

\* A mutex that changes hands does so in the eyes of whoever looks later.
LEMMA PassesThen ==
  ASSUME NEW s \in Kernel, NEW q, Passes(s, q), NEW r, SameLocks(q, r), SameLives(q, r)
  PROVE  Passes(s, r)
<1>1. \A m \in Mutex : HolderIn(r, m) = HolderIn(q, m)
  BY DEF SameLocks, HolderIn, Held
<1>2. \A u \in Thread : Lives(r, u) <=> Lives(q, u)
  BY DEF SameLives, Lives
<1>3. \A m \in Mutex : HolderIn(s, m) # NoThread => HolderIn(s, m) \in Thread
  BY Fields DEF HolderIn
<1> QED
  BY <1>1, <1>2, <1>3 DEF Passes, SameLocks

\* The switch at the return from a handler makes run.next the running thread.
LEMMA MutexReturned ==
  ASSUME Inv, NEW s, Handled(k, s), Return(s)
  PROVE  MutexKept
<1>1. Settled(s) /\ k' = ContextSwitch(s) /\ tick' = tick
  BY DEF Handled, Return
<1>2. /\ Settled(k') /\ k'.next = k'.run /\ k'.next = s.next /\ k'.kernel = s.kernel
      /\ Highest(s, {}) => Highest(k', {})
      /\ SameLocks(s, k') /\ SameLives(s, k')
  BY <1>1, ReturnSettled
<1>3. Passes(k, k')
  <2>1. k \in Kernel /\ Passes(k, s)
    BY DEF Inv, Settled, Good, Linked, Handled
  <2> QED
    BY <1>2, <2>1, PassesThen
<1> QED
  BY <1>1, <1>2, <1>3 DEF MutexKept, Inv, Handled

\* The fields of a settled record that the mutex functions look at.
LEMMA MutexFields ==
  ASSUME NEW s, Settled(s)
  PROVE  /\ s \in Kernel /\ Good(s, {}) /\ {} \in SUBSET Thread /\ s.mutex \in SUBSET Mutex
         /\ s.list \in [Object -> Seq(Thread)] /\ s.owned \in [Thread -> Seq(Mutex)]
         /\ s.owner \in [Mutex -> Thread \cup {NoThread}] /\ s.lock \in [Mutex -> Nat]
         /\ s.state \in [Thread -> ThreadState] /\ Object = Mutex
         /\ s.priority \in [Thread -> Nat]
<1>1. s \in Kernel /\ Good(s, {})
  BY DEF Settled, Good, Linked
<1>2. s.mutex \in SUBSET Mutex
  BY <1>1 DEF Kernel
<1> QED
  BY <1>1, <1>2, Fields, MutexAssumption

\* A record in which only the mutexes differ is settled when they are right.
LEMMA LockedSettled ==
  ASSUME NEW s, Settled(s),
         NEW r \in Kernel, SameLinks(s, r), Mutexes(r, {}),
         r.joinable = s.joinable, r.joiner = s.joiner, r.target = s.target,
         r.next = s.next, r.kernel = s.kernel
  PROVE  /\ Settled(r)
         /\ Passes(s, r) => Handled(s, r)
<1>1. s \in Kernel /\ Good(s, {}) /\ {} \in SUBSET Thread
  BY DEF Settled, Good, Linked
<1>2. Good(r, {})
  BY <1>1, LinksKept
<1>3. Plain(r) /\ \A t \in Thread : Queued(r, t)
  BY DEF SameLinks, Plain, Queued, Settled
<1>4. Queues(r)
  BY <1>1, QueuesKept DEF SameLinks, Settled
<1>5. JoinOK(r) /\ Started(r)
  BY DEF Settled, Started, Runs, JoinOK, SameLinks
<1>6. Settled(r)
  BY <1>2, <1>3, <1>4, <1>5 DEF Settled
<1> QED
  BY <1>6 DEF Handled, Highest, SameLinks

-----------------------------------------------------------------------------
(* Creating, and locking what nobody else has locked. *)

\* svcRtxMutexNew: nobody waits for a mutex that is not there.
LEMMA MutexNewHandled ==
  ASSUME NEW s, Settled(s), NEW m \in Mutex \ s.mutex,
         NEW r, r = [s EXCEPT !.mutex    = @ \cup {m},
                              !.list[m]  = << >>,
                              !.owner[m] = NoThread,
                              !.lock[m]  = 0]
  PROVE  Handled(s, r)
<1>1. /\ s \in Kernel /\ s.mutex \in SUBSET Mutex /\ s.list \in [Object -> Seq(Thread)]
      /\ s.owner \in [Mutex -> Thread \cup {NoThread}] /\ s.lock \in [Mutex -> Nat]
      /\ Object = Mutex /\ Mutexes(s, {})
  BY MutexFields DEF Settled
<1>2. s.list[m] = << >>
  BY <1>1 DEF Mutexes, Held
<1>3. /\ r.mutex = s.mutex \cup {m} /\ r.list = s.list
      /\ r.owner = [s.owner EXCEPT ![m] = NoThread] /\ r.lock = [s.lock EXCEPT ![m] = 0]
      /\ r.owned = s.owned /\ r.priority = s.priority /\ r.base = s.base
      /\ r.joinable = s.joinable /\ r.joiner = s.joiner /\ r.target = s.target
      /\ r.next = s.next /\ r.kernel = s.kernel /\ SameLinks(s, r)
  BY <1>1, <1>2 DEF Kernel, SameLinks
<1>4. r \in Kernel
  BY <1>1, <1>2, ZenonT(40) DEF Kernel
<1>5. \A x \in Mutex : /\ Held(r, x) <=> Held(s, x)
                       /\ Held(r, x) => r.owner[x] = s.owner[x]
  BY <1>1, <1>3 DEF Held
<1>6. Mutexes(r, {})
  <2>1. ASSUME NEW t \in Thread, Lives(r, t) PROVE Owns(r, t)
    <3>1. Owns(s, t)
      BY <1>1, <1>3, <2>1 DEF Mutexes, Lives, SameLinks
    <3> QED
      BY <1>3, <1>5, <3>1 DEF Owns
  <2>2. \A x \in Mutex : Held(r, x) => r.owner[x] \in Thread /\ Lives(r, r.owner[x])
    BY <1>1, <1>3, <1>5 DEF Mutexes, Lives, SameLinks
  <2> QED
    BY <1>1, <1>3, <1>5, <2>1, <2>2 DEF Mutexes
<1>7. Passes(s, r)
  BY <1>5 DEF Passes, HolderIn
<1> QED
  BY <1>3, <1>4, <1>6, <1>7, LockedSettled

\* svcRtxMutexAcquire of a free mutex
LEMMA AcquireHandled ==
  ASSUME NEW s, Settled(s), s.next = s.run, s.run \in Thread,
         NEW m \in s.mutex, s.lock[m] = 0,
         NEW r, r = MutexTake(s, m, s.run)
  PROVE  Handled(s, r)
<1> DEFINE c == s.run
<1>1. /\ s \in Kernel /\ s.mutex \in SUBSET Mutex /\ s.list \in [Object -> Seq(Thread)]
      /\ s.owner \in [Mutex -> Thread \cup {NoThread}] /\ s.lock \in [Mutex -> Nat]
      /\ Mutexes(s, {}) /\ Good(s, {}) /\ {} \in SUBSET Thread
  BY MutexFields DEF Settled
<1>2. c \in Thread /\ s.state[c] = "Running" /\ Lives(s, c) /\ m \in Mutex /\ ~Held(s, m)
  BY <1>1, Running DEF Lives, Held
<1>3. Good(r, {}) /\ TakenOnly(s, r, m, c)
  BY <1>1, <1>2, TakeGood
<1> HIDE DEF c
<1>4. /\ \A u \in Thread : Lives(s, u) => Owns(r, u)
  <2>1. /\ r.mutex = s.mutex /\ r.owner = [s.owner EXCEPT ![m] = c]
        /\ r.lock = [s.lock EXCEPT ![m] = 1]
        /\ r.owned = [s.owned EXCEPT ![c] = << m >> \o s.owned[c]]
        /\ r.priority = s.priority /\ r.base = s.base
    BY <1>3 DEF TakenOnly, SamePlaces
  <2>2. \A u \in Thread \ {} : Lives(s, u) => Owns(s, u)
    BY <1>1 DEF Mutexes
  <2>3. c \in Thread \ {}
    BY <1>2
  <2>4. \A u \in Thread \ {} : Lives(s, u) => Owns(r, u)
    BY ONLY <1>1, <1>2, <2>1, <2>2, <2>3, TakenOwns
  <2> QED
    BY <2>4
<1>5. \A x \in Mutex : /\ x # m => (Held(r, x) <=> Held(s, x)) /\ r.owner[x] = s.owner[x]
                       /\ x = m => Held(r, x) /\ r.owner[x] = c
  BY <1>1, <1>2, <1>3 DEF TakenOnly, Held
<1>6. Mutexes(r, {})
  <2>1. r.list = s.list /\ r.state = s.state
    BY <1>3 DEF TakenOnly, SamePlaces
  <2>2. \A x \in Mutex : Held(r, x) => r.owner[x] \in Thread /\ Lives(r, r.owner[x])
    BY <1>1, <1>2, <1>5, <2>1 DEF Mutexes, Lives
  <2>3. \A x \in Mutex : ~Held(r, x) => r.list[x] = << >>
    BY <1>1, <1>5, <2>1 DEF Mutexes
  <2> QED
    BY <1>4, <2>1, <2>2, <2>3 DEF Mutexes, Lives
<1>7. Passes(s, r)
  BY <1>2, <1>5 DEF Passes, HolderIn
<1>8. r \in Kernel
  BY <1>3 DEF Good, Linked
<1>9. /\ SameLinks(s, r) /\ r.joinable = s.joinable /\ r.joiner = s.joiner
      /\ r.target = s.target /\ r.next = s.next /\ r.kernel = s.kernel
  BY <1>3 DEF TakenOnly, SamePlaces, SameLinks
<1> QED
  BY <1>6, <1>7, <1>8, <1>9, LockedSettled

\* svcRtxMutexAcquire and -Release of a recursive lock that is not the last one.
LEMMA RelockHandled ==
  ASSUME NEW s, Settled(s), NEW m \in s.mutex, s.lock[m] # 0, NEW n \in Nat \ {0},
         NEW r, r = [s EXCEPT !.lock[m] = n]
  PROVE  Handled(s, r)
<1>1. /\ s \in Kernel /\ s.mutex \in SUBSET Mutex /\ s.lock \in [Mutex -> Nat]
      /\ Mutexes(s, {})
  BY MutexFields DEF Settled
<1>2. /\ r.lock = [s.lock EXCEPT ![m] = n]
      /\ r.mutex = s.mutex /\ r.list = s.list /\ r.owner = s.owner
      /\ r.owned = s.owned /\ r.priority = s.priority /\ r.base = s.base
      /\ r.joinable = s.joinable /\ r.joiner = s.joiner /\ r.target = s.target
      /\ r.next = s.next /\ r.kernel = s.kernel /\ SameLinks(s, r)
  BY <1>1 DEF Kernel, SameLinks
<1>3. r \in Kernel
  BY <1>1, WithLock
<1>4. \A x \in Mutex : Held(r, x) <=> Held(s, x)
  BY <1>1, <1>2 DEF Held
<1>5. Mutexes(r, {})
  <2>1. ASSUME NEW t \in Thread, Lives(r, t) PROVE Owns(r, t)
    <3>1. Owns(s, t)
      BY <1>1, <1>2, <2>1 DEF Mutexes, Lives, SameLinks
    <3> QED
      BY <1>2, <1>4, <3>1 DEF Owns
  <2>2. \A x \in Mutex : Held(r, x) => r.owner[x] \in Thread /\ Lives(r, r.owner[x])
    BY <1>1, <1>2, <1>4 DEF Mutexes, Lives, SameLinks
  <2> QED
    BY <1>1, <1>2, <1>4, <2>1, <2>2 DEF Mutexes
<1>6. Passes(s, r)
  BY <1>2, <1>4 DEF Passes, HolderIn
<1> QED
  BY <1>2, <1>3, <1>5, <1>6, LockedSettled
-----------------------------------------------------------------------------
(* Waiting for a mutex. *)

\* From s to r the priorities of owners have been set anew, no thread has moved
\* otherwise.
LEMMA RestoredSettled ==
  ASSUME NEW s, Settled(s), NEW r, Good(r, {}), Queues(r), Restored(s, r)
  PROVE  /\ Settled(r) /\ Passes(s, r) /\ r.run = s.run /\ r.next = s.next
         /\ r.state = s.state /\ r.kernel = s.kernel /\ SameLocks(s, r)
<1>1. /\ s \in Kernel /\ r \in Kernel /\ s.list \in [Object -> Seq(Thread)]
      /\ r.list \in [Object -> Seq(Thread)] /\ JoinOK(s) /\ Plain(s) /\ Started(s)
      /\ Mutexes(s, {}) /\ \A t \in Thread : Queued(s, t)
  BY Fields DEF Settled, Good, Linked
<1>2. /\ r.state = s.state /\ r.next = s.next /\ r.waitList = s.waitList
      /\ r.joinable = s.joinable /\ r.joiner = s.joiner /\ r.target = s.target
      /\ r.run = s.run /\ r.kernel = s.kernel /\ r.base = s.base
      /\ SameLocks(s, r) /\ SameLives(s, r)
      /\ \A o \in Object : ToSet(r.list[o]) = ToSet(s.list[o])
      /\ \A u \in Thread : \/ r.priority[u] = s.priority[u]
                           \/ ToSet(s.owned[u]) \cap PrioInherit # {}
  BY DEF Restored, Blocks, SameLocks, SameLives
<1>3. SameEmpty(s, r)
  BY <1>1, <1>2, EmptySet DEF SameEmpty
<1>4. SameBoost(s, r)
  BY <1>2 DEF SameBoost
<1>5. Mutexes(r, {})
  BY <1>1, <1>2, <1>3, <1>4, MutexesKept
<1>6. Plain(r) /\ JoinOK(r) /\ Started(r) /\ \A t \in Thread : Queued(r, t)
  BY <1>1, <1>2 DEF Plain, JoinOK, Started, Runs, Queued
<1>7. Owning(s, r)
  BY <1>2, OwningKept DEF SameLocks
<1> QED
  BY <1>2, <1>5, <1>6, <1>7 DEF Settled, Owning

\* The owner of a locked mutex has it in its list.
LEMMA OwnerHas ==
  ASSUME NEW s, Mutexes(s, {}), NEW m \in Mutex, Held(s, m)
  PROVE  /\ s.owner[m] \in Thread /\ Lives(s, s.owner[m]) /\ Owns(s, s.owner[m])
         /\ m \in ToSet(s.owned[s.owner[m]])
BY DEF Mutexes, Owns

\* A list that is sorted again leaves the priorities as they are.
LEMMA SortPriority ==
  ASSUME NEW s \in Kernel, NEW t \in Thread, NEW p,
         NEW r, r = ThreadListSort([s EXCEPT !.priority[t] = p], t)
  PROVE  r.priority = [s.priority EXCEPT ![t] = p]
BY DEF ThreadListSort, Kernel

\* svcRtxMutexAcquire raises the owner to the priority of the running thread.
LEMMA RaiseHandled ==
  ASSUME NEW s, Settled(s), s.next = s.run, s.run \in Thread,
         NEW m \in s.mutex, s.lock[m] # 0,
         NEW r, r = MutexRaise(s, m, s.run)
  PROVE  /\ Handled(s, r) /\ r.next = s.next /\ r.run = s.run /\ r.kernel = s.kernel
         /\ r.state = s.state /\ SameLocks(s, r)
<1> DEFINE o == s.owner[m]
           p == s.priority[s.run]
<1>1. /\ s \in Kernel /\ s.mutex \in SUBSET Mutex /\ Mutexes(s, {}) /\ Good(s, {})
      /\ {} \in SUBSET Thread /\ Queues(s) /\ s.priority \in [Thread -> Priority]
      /\ s.priority \in [Thread -> Nat]
  BY MutexFields, Fields DEF Settled
<1>2. m \in Mutex /\ Held(s, m)
  BY <1>1 DEF Held
<1>3. o \in Thread /\ m \in ToSet(s.owned[o])
  BY <1>1, <1>2, OwnerHas
<1>4. p \in Priority /\ p \in Nat
  BY <1>1
<1>5. r = IF m \in PrioInherit /\ s.priority[o] < p
          THEN ThreadListSort([s EXCEPT !.priority[o] = p], o) ELSE s
  BY DEF MutexRaise
<1>6. p = s.priority[s.run] /\ o = s.owner[m]
  OBVIOUS
<1> HIDE DEF o, p
<1>7. CASE m \in PrioInherit /\ s.priority[o] < p
  <2>1. r = ThreadListSort([s EXCEPT !.priority[o] = p], o)
    BY <1>5, <1>7
  <2>2. Linked(s, s.delayList, {}) /\ NotDue(s)
    BY <1>1 DEF Good
  <2>3. Linked(r, s.delayList, {}) /\ Queues(r) /\ Restored(s, r)
    BY ONLY <1>1, <1>3, <1>4, <1>7, <2>1, <2>2, RepriceGood
  <2>4. Good(r, {})
    BY <2>2, <2>3 DEF Good, NotDue, Restored
  <2>5. /\ Settled(r) /\ Passes(s, r) /\ r.run = s.run /\ r.next = s.next
        /\ r.state = s.state /\ r.kernel = s.kernel /\ SameLocks(s, r)
    BY <2>3, <2>4, RestoredSettled
  <2>6. r.priority = [s.priority EXCEPT ![o] = p]
    BY <1>1, <1>3, <2>1, SortPriority
  <2>7. o # s.run
    BY <1>4, <1>6, <1>7
  <2>8. Highest(s, {}) => Highest(r, {})
    BY <1>1, <1>3, <1>4, <1>6, <2>5, <2>6, <2>7 DEF Highest
  <2> QED
    BY <2>5, <2>8 DEF Handled
<1>8. CASE ~(m \in PrioInherit /\ s.priority[o] < p)
  <2>1. r = s
    BY <1>5, <1>8
  <2>2. Passes(s, s)
    BY DEF Passes
  <2> QED
    BY <2>1, <2>2 DEF Handled, SameLocks
<1> QED
  BY <1>7, <1>8

\* svcRtxMutexAcquire: the running thread waits for m.
LEMMA EnqueueHandled ==
  ASSUME NEW s, Settled(s), s.next = s.run, s.run \in Thread, CanWait(s),
         NEW m \in s.mutex, s.lock[m] # 0, NEW d \in (Nat \ {0}) \cup {Forever},
         NEW w, w = ThreadWaitEnter(s, "WaitingMutex", d),
         NEW r, r = [w EXCEPT !.list[m] = ThreadListPut(w, @, s.run)]
  PROVE  Handled(s, r)
<1>1. m \in Object /\ Held(s, m) /\ "WaitingMutex" \in WaitKind(m)
  BY MutexFields DEF Held, WaitKind
<1>2. Settled(r) /\ Enqueues(s, r, m, s.run, "WaitingMutex")
  BY <1>1, EnqueueGood
<1>3. Passes(s, r)
  BY <1>2 DEF Enqueues, Passes, HolderIn, Held, SameLocks
<1> QED
  BY <1>2, <1>3 DEF Handled, Enqueues
-----------------------------------------------------------------------------
(* Unlocking. *)

\* The handlers that unlock a mutex end with a dispatch.
LEMMA DispatchHandled ==
  ASSUME NEW s \in Kernel, NEW q, Settled(q), Passes(s, q), q.next = q.run,
         q.kernel # "Ready",
         NEW r, r = ThreadDispatchReady(q)
  PROVE  Handled(s, r)
<1>1. /\ Good(q, {}) /\ q \in Kernel /\ Runs(q) /\ {} \in SUBSET Thread
      /\ Linked(q, q.delayList, {}) /\ NotDue(q) /\ q.run = q.next /\ q.next \notin {}
  BY DEF Settled, Good, Linked, Started
<1>2. Linked(r, q.delayList, {}) /\ Rescheduled(q, r, {})
  BY ONLY <1>1, r = ThreadDispatchReady(q), DispatchReadyGood
<1>3. Good(r, {}) /\ Keeps(q, r, {}) /\ Runs(r) /\ r.kernel = q.kernel
  BY <1>1, <1>2 DEF Good, NotDue, Rescheduled, Keeps, Frame
<1>4. Settled(r)
  BY <1>3, KeepsSettled
<1>5. Passes(s, r)
  <2>1. SameLives(q, r) /\ SameLocks(q, r)
    BY <1>3 DEF SameLives, SameLocks, Keeps, Frame, Life, QueueStates
  <2> QED
    BY <2>1, PassesThen
<1>6. q.kernel = "Running" => Highest(r, {})
  BY <1>2 DEF Rescheduled
<1> QED
  BY <1>3, <1>4, <1>5, <1>6 DEF Handled

\* m leaves the list of its owner o.
LEMMA DropOwns ==
  ASSUME NEW s \in Kernel, Mutexes(s, {}), NEW m \in Mutex, Held(s, m),
         NEW o, o = s.owner[m], NEW r,
         r.owned = [s.owned EXCEPT ![o] = RemoveFirst(s.owned[o], m)],
         r.owner = s.owner, r.base = s.base, ~Held(r, m),
         \A x \in Mutex \ {m} : Held(r, x) <=> Held(s, x),
         \A u \in Thread \ {o} : r.priority[u] = s.priority[u],
         ToSet(r.owned[o]) \cap PrioInherit = {} => r.priority[o] = r.base[o]
  PROVE  \A u \in Thread : Lives(s, u) => Owns(r, u)
<1>1. s.owned \in [Thread -> Seq(Mutex)] /\ o \in Thread /\ Owns(s, o)
  BY Fields, OwnerHas
<1>2. ASSUME NEW u \in Thread \ {o}, Lives(s, u) PROVE Owns(r, u)
  <2>1. Owns(s, u) /\ r.owned[u] = s.owned[u] /\ r.priority[u] = s.priority[u]
    BY <1>1, <1>2 DEF Mutexes
  <2>2. \A x \in Mutex : x \in ToSet(r.owned[u]) <=> Held(r, x) /\ r.owner[x] = u
    BY <1>2, <2>1 DEF Owns
  <2> QED
    BY <2>1, <2>2 DEF Owns
<1>3. Owns(r, o)
  <2>1. /\ r.owned[o] = RemoveFirst(s.owned[o], m) /\ s.owned[o] \in Seq(Mutex)
        /\ NoDuplicates(s.owned[o])
    BY <1>1 DEF Owns
  <2>2. NoDuplicates(r.owned[o]) /\ ToSet(r.owned[o]) = ToSet(s.owned[o]) \ {m}
    BY <2>1, RemoveFirstList
  <2>3. \A x \in Mutex : x \in ToSet(r.owned[o]) <=> Held(r, x) /\ r.owner[x] = o
    BY <1>1, <2>2 DEF Owns
  <2> QED
    BY <2>2, <2>3 DEF Owns
<1> QED
  BY <1>2, <1>3

\* The own priority of a thread that is in no list may change.
LEMMA UnlistedPriority ==
  ASSUME NEW s, Good(s, {}), Queues(s), NEW t \in Thread, s.state[t] = "Running",
         NEW r \in Kernel, r.ready = s.ready, r.list = s.list, r.state = s.state,
         r.delay = s.delay, r.waitList = s.waitList, r.delayList = s.delayList,
         \A u \in Thread \ {t} : r.priority[u] = s.priority[u]
  PROVE  Good(r, {}) /\ Queues(r)
<1>1. /\ s \in Kernel /\ Linked(s, s.delayList, {}) /\ NotDue(s) /\ s.ready \in Seq(Thread)
      /\ s.state \in [Thread -> ThreadState]
  BY Fields DEF Good, Linked
<1>2. t \notin ToSet(s.ready)
  BY <1>1 DEF Linked, AtPlace
<1>3. \A i \in 1..Len(s.ready) : r.priority[s.ready[i]] = s.priority[s.ready[i]]
  BY <1>1, <1>2, ToSetIs
<1>4. SortedBy(r.ready, r.priority)
  BY <1>1, <1>3 DEF Linked, SortedBy
<1>5. Good(r, {})
  BY <1>1, <1>4 DEF Good, Linked, NotDue, AtPlace, Nowhere, IsBlocked
<1>6. Unqueued(s, t)
  BY QueuedWait DEF QueueStates
<1>7. Queues(r)
  <2>1. \A u \in Thread : \/ Unqueued(s, u)
                          \/ r.state[u] = s.state[u] /\ r.priority[u] = s.priority[u]
    BY <1>6
  <2> QED
    BY <1>1, <2>1, QueuesAlike
<1> QED
  BY <1>5, <1>7

\* m has been unlocked and nobody has got it yet.
Unlocked(s, r, m) ==
  /\ Good(r, {}) /\ Queues(r) /\ ~Held(r, m)
  /\ r.joinable = s.joinable /\ r.joiner = s.joiner /\ r.target = s.target
  /\ r.run = s.run /\ r.next = s.next /\ r.kernel = s.kernel
  /\ r.state = s.state /\ r.waitList = s.waitList /\ r.owner = s.owner
  /\ \A u \in Thread : Lives(s, u) => Owns(r, u)
  /\ \A x \in Mutex \ {m} : Held(r, x) <=> Held(s, x)

\* The last lock of a mutex is given up, and the running thread gets the priority it
\* is due.
ReleasedBy(s, m) ==
  LET s0 == MutexDrop([s EXCEPT !.lock[m] = 0], m, s.run)
  IN  [s0 EXCEPT !.priority[s.run] = InheritedPriority(s0, s.run, NoThread)]

LEMMA WithOwned ==
  ASSUME NEW s \in Kernel, NEW t \in Thread, NEW q \in Seq(Mutex)
  PROVE  [s EXCEPT !.owned[t] = q] \in Kernel
BY DEF Kernel

LEMMA WithPriorityOf ==
  ASSUME NEW s \in Kernel, NEW t \in Thread, NEW p \in Priority
  PROVE  [s EXCEPT !.priority[t] = p] \in Kernel
BY DEF Kernel

LEMMA ReleasedUnlocked ==
  ASSUME NEW s, Settled(s), s.next = s.run, s.run \in Thread,
         NEW m \in s.mutex, s.lock[m] # 0, s.owner[m] = s.run,
         NEW r, r = ReleasedBy(s, m)
  PROVE  Unlocked(s, r, m) /\ r.list = s.list /\ r.mutex = s.mutex
<1> DEFINE c  == s.run
           a  == [s EXCEPT !.lock[m] = 0]
           s0 == MutexDrop(a, m, c)
           p  == InheritedPriority(s0, c, NoThread)
<1>1. /\ s \in Kernel /\ s.mutex \in SUBSET Mutex /\ s.owned \in [Thread -> Seq(Mutex)]
      /\ s.lock \in [Mutex -> Nat] /\ Mutexes(s, {}) /\ Good(s, {}) /\ Queues(s)
      /\ s.priority \in [Thread -> Nat]
  BY MutexFields DEF Settled
<1>2. c \in Thread /\ s.state[c] = "Running" /\ m \in Mutex /\ Held(s, m) /\ c = s.owner[m]
  BY <1>1, Running DEF Held
<1>3. a \in Kernel /\ a = [s EXCEPT !.lock[m] = 0]
  BY <1>1, <1>2, WithLock
<1>4. s0 = [a EXCEPT !.owned[c] = RemoveFirst(a.owned[c], m)]
  BY DEF MutexDrop
<1>5. r = [s0 EXCEPT !.priority[c] = p]
  BY DEF ReleasedBy
<1>6. p = InheritedPriority(s0, c, NoThread) /\ c = s.run
  OBVIOUS
<1> HIDE DEF a, c, p, s0
<1>7. a.owned = s.owned /\ RemoveFirst(s.owned[c], m) \in Seq(Mutex)
  BY <1>1, <1>2, <1>3, RemoveFirstIn DEF Kernel
<1>8. s0 \in Kernel
  BY <1>2, <1>3, <1>4, <1>7, WithOwned
<1>9. p \in Priority
  BY <1>2, <1>6, <1>8, InheritedIs
<1>10. r \in Kernel
  BY <1>2, <1>5, <1>8, <1>9, WithPriorityOf
<1>11. /\ s0.owned = [s.owned EXCEPT ![c] = RemoveFirst(s.owned[c], m)]
       /\ s0.base = s.base /\ s0.lock = [s.lock EXCEPT ![m] = 0]
       /\ s0.priority = s.priority /\ s0.list = s.list /\ s0.ready = s.ready
       /\ s0.state = s.state /\ s0.delay = s.delay /\ s0.waitList = s.waitList
       /\ s0.delayList = s.delayList /\ s0.owner = s.owner /\ s0.mutex = s.mutex
       /\ s0.joinable = s.joinable /\ s0.joiner = s.joiner /\ s0.target = s.target
       /\ s0.run = s.run /\ s0.next = s.next /\ s0.kernel = s.kernel
  BY <1>1, <1>3, <1>4, <1>7 DEF Kernel
<1>12. /\ r.priority = [s.priority EXCEPT ![c] = p]
       /\ r.owned = s0.owned /\ r.base = s.base /\ r.lock = s0.lock
       /\ r.list = s.list /\ r.ready = s.ready
       /\ r.state = s.state /\ r.delay = s.delay /\ r.waitList = s.waitList
       /\ r.delayList = s.delayList /\ r.owner = s.owner /\ r.mutex = s.mutex
       /\ r.joinable = s.joinable /\ r.joiner = s.joiner /\ r.target = s.target
       /\ r.run = s.run /\ r.next = s.next /\ r.kernel = s.kernel
  BY <1>5, <1>8, <1>11 DEF Kernel
<1>13. \A u \in Thread \ {c} : r.priority[u] = s.priority[u]
  BY <1>1, <1>12
<1>14. Good(r, {}) /\ Queues(r)
  BY ONLY <1>1, <1>2, <1>10, <1>12, <1>13, UnlistedPriority
<1>15. ~Held(r, m) /\ \A x \in Mutex \ {m} : Held(r, x) <=> Held(s, x)
  BY <1>1, <1>2, <1>11, <1>12 DEF Held
<1>16. ToSet(r.owned[c]) \cap PrioInherit = {} => r.priority[c] = r.base[c]
  <2>1. ToSet(s0.owned[c]) \cap PrioInherit = {} => p = s0.base[c]
    BY <1>2, <1>6, <1>8, InheritedBase
  <2> QED
    BY <1>1, <1>2, <1>11, <1>12, <2>1
<1>17. \A u \in Thread : Lives(s, u) => Owns(r, u)
  <2>1. /\ r.owned = [s.owned EXCEPT ![c] = RemoveFirst(s.owned[c], m)]
        /\ r.owner = s.owner /\ r.base = s.base
    BY <1>11, <1>12
  <2> QED
    BY ONLY <1>1, <1>2, <1>13, <1>15, <1>16, <2>1, DropOwns
<1> QED
  BY <1>12, <1>14, <1>15, <1>17 DEF Unlocked

\* A mutex without waiters stays free.
LEMMA UnlockedSettled ==
  ASSUME NEW s, Settled(s), NEW m \in Mutex, NEW r, Unlocked(s, r, m),
         \A x \in Mutex : x # m => r.list[x] = s.list[x], r.list[m] = << >>,
         \A t \in Thread : Queued(r, t)
  PROVE  Settled(r)
<1>1. /\ JoinOK(s) /\ Plain(s) /\ Started(s) /\ Mutexes(s, {})
      /\ r.joinable = s.joinable /\ r.joiner = s.joiner /\ r.target = s.target
      /\ r.next = s.next /\ r.kernel = s.kernel
      /\ r.state = s.state /\ r.waitList = s.waitList /\ r.owner = s.owner
      /\ \A u \in Thread : Lives(s, u) => Owns(r, u)
      /\ ~Held(r, m) /\ \A x \in Mutex \ {m} : Held(r, x) <=> Held(s, x)
  BY DEF Settled, Unlocked
<1>2. JoinOK(r) /\ Plain(r) /\ Started(r)
  BY <1>1 DEF JoinOK, Plain, Started, Runs
<1>3. Mutexes(r, {})
  BY <1>1 DEF Mutexes, Lives
<1> QED
  BY <1>2, <1>3 DEF Settled, Unlocked

\* m belongs to w, and every other mutex to whom it belonged before.
PassedTo(s, r, m, w) ==
  /\ HolderIn(r, m) = w
  /\ \A x \in Mutex \ {m} : HolderIn(r, x) = HolderIn(s, x)

\* The first waiter of an unlocked mutex gets it.
LEMMA HandOverSettled ==
  ASSUME NEW s, Settled(s), s.kernel # "Ready",
         NEW m \in s.mutex, NEW q, Unlocked(s, q, m), q.list = s.list, q.mutex = s.mutex,
         s.list[m] # << >>,
         NEW r, r = MutexHandOver(q, m)
  PROVE  /\ Settled(r) /\ r.run = s.run /\ r.next = s.next /\ r.kernel = s.kernel
         /\ PassedTo(s, r, m, Head(s.list[m]))
<1> DEFINE w == Head(q.list[m])
<1>1. /\ s.mutex \in SUBSET Mutex /\ JoinOK(s) /\ Plain(s) /\ Started(s) /\ Mutexes(s, {})
      /\ \A u \in Thread : Queued(s, u)
      /\ s.state \in [Thread -> ThreadState]
  BY MutexFields DEF Settled
<1>2. /\ Good(q, {}) /\ Queues(q) /\ ~Held(q, m) /\ m \in Mutex
      /\ q.joinable = s.joinable /\ q.joiner = s.joiner /\ q.target = s.target
      /\ q.run = s.run /\ q.next = s.next /\ q.kernel = s.kernel
      /\ q.state = s.state /\ q.waitList = s.waitList /\ q.owner = s.owner
      /\ \A u \in Thread : Lives(s, u) => Owns(q, u)
      /\ \A x \in Mutex \ {m} : Held(q, x) <=> Held(s, x)
  BY <1>1 DEF Unlocked
<1>3. {} \in SUBSET Thread /\ \A t \in {} : Unqueued(q, t)
  OBVIOUS
<1>4. w = Head(q.list[m]) /\ w = Head(s.list[m]) /\ q.list[m] # << >>
  OBVIOUS
<1> HIDE DEF w
<1>5. Good(r, {}) /\ Queues(r) /\ HandedOver(q, r, m, w)
  BY ONLY <1>2, <1>3, <1>4, r = MutexHandOver(q, m), HandOverGood
<1>6. /\ q \in Kernel /\ r \in Kernel /\ q.list \in [Object -> Seq(Thread)]
      /\ q.owner \in [Mutex -> Thread \cup {NoThread}] /\ q.lock \in [Mutex -> Nat]
      /\ Object = Mutex
  BY <1>2, <1>5, Fields, MutexAssumption DEF Good, Linked
<1>7. /\ w \in Thread /\ s.state[w] = "WaitingMutex" /\ Lives(s, w) /\ w \in ToSet(q.list[m])
      /\ r.state = [s.state EXCEPT ![w] = "Ready"] /\ r.waitList = s.waitList \ {w}
      /\ r.list = [q.list EXCEPT ![m] = Tail(q.list[m])]
      /\ ToSet(r.list[m]) = ToSet(q.list[m]) \ {w}
      /\ r.joinable = s.joinable /\ r.joiner = s.joiner /\ r.target = s.target
      /\ r.run = s.run /\ r.next = s.next /\ r.kernel = s.kernel
  BY <1>2, <1>5 DEF HandedOver, Lives
<1>8. /\ r.owner = [q.owner EXCEPT ![m] = w] /\ r.lock = [q.lock EXCEPT ![m] = 1]
      /\ r.owned = [q.owned EXCEPT ![w] = << m >> \o q.owned[w]]
      /\ r.priority = q.priority /\ r.base = q.base /\ r.mutex = q.mutex
  BY <1>5 DEF HandedOver
<1>9. \A u \in Thread : Lives(s, u) => Owns(r, u)
  <2>1. \A u \in Thread \ {} : Lives(q, u) => Owns(q, u)
    BY <1>2 DEF Lives
  <2>2. w \in Thread \ {} /\ Lives(q, w) /\ m \in q.mutex /\ ~Held(q, m)
    BY <1>2, <1>7 DEF Lives
  <2>3. \A u \in Thread \ {} : Lives(q, u) => Owns(r, u)
    BY ONLY <1>2, <1>6, <1>8, <2>1, <2>2, TakenOwns
  <2> QED
    BY <1>2, <2>3 DEF Lives
<1>10. /\ \A x \in Mutex \ {m} : (Held(r, x) <=> Held(s, x)) /\ r.owner[x] = s.owner[x]
       /\ Held(r, m) /\ r.owner[m] = w
  BY <1>2, <1>6, <1>8 DEF Held
<1>11. PassedTo(s, r, m, Head(s.list[m]))
  BY <1>4, <1>10 DEF PassedTo, HolderIn
<1>12. SameLives(s, r)
  BY <1>1, <1>7 DEF SameLives
<1>13. Mutexes(r, {})
  <2>1. \A u \in Thread : Lives(r, u) <=> Lives(s, u)
    BY <1>12 DEF SameLives, Lives
  <2>2. \A x \in Mutex \ {m} : r.list[x] = s.list[x]
    BY <1>6, <1>7
  <2>3. \A x \in Mutex : ~Held(r, x) => r.list[x] = << >>
    BY <1>1, <1>10, <2>2 DEF Mutexes
  <2>4. \A x \in Mutex : Held(r, x) => r.owner[x] \in Thread /\ Lives(r, r.owner[x])
    BY <1>1, <1>7, <1>10, <2>1 DEF Mutexes
  <2> QED
    BY <1>9, <2>1, <2>3, <2>4 DEF Mutexes
<1>14. \A u \in Thread : Queued(r, u)
  <2>1. Queued(r, w)
    BY <1>1, <1>7 DEF Queued, QueueStates
  <2>2. ASSUME NEW u \in Thread \ {w} PROVE Queued(r, u)
    <3>1. \A o \in Object \ {m} : r.list[o] = s.list[o]
      BY <1>6, <1>7
    <3>2. \A o \in Object : u \in ToSet(s.list[o]) => u \in ToSet(r.list[o])
      BY <1>7, <2>2, <3>1
    <3>3. r.state[u] = s.state[u] /\ Queued(s, u)
      BY <1>1, <1>7, <2>2
    <3> QED
      BY <3>2, <3>3 DEF Queued
  <2> QED
    BY <2>1, <2>2
<1>15. JoinOK(r) /\ Plain(r) /\ Started(r)
  <2>1. JoinOK(r)
    <3>1. r.joinable = s.joinable /\ r.joiner = s.joiner /\ r.target = s.target /\ s \in Kernel
      BY <1>7 DEF Settled, Good, Linked
    <3> QED
      BY ONLY <1>1, <1>6, <1>12, <3>1, JoinKept
  <2>2. Plain(r)
    BY <1>1, <1>7 DEF Plain
  <2>3. Started(r)
    BY <1>1, <1>7 DEF Started, Runs
  <2> QED
    BY <2>1, <2>2, <2>3
<1> QED
  BY <1>5, <1>7, <1>11, <1>13, <1>14, <1>15 DEF Settled

\* svcRtxMutexRelease of the last lock
LEMMA ReleaseHandled ==
  ASSUME NEW s, Settled(s), s.next = s.run, s.run \in Thread,
         NEW m \in s.mutex, s.lock[m] # 0, s.owner[m] = s.run,
         NEW q, q = ReleasedBy(s, m),
         NEW r, r = ThreadDispatchReady(
                      IF q.list[m] = << >> THEN q ELSE MutexHandOver(q, m))
  PROVE  Handled(s, r)
<1> DEFINE q1 == IF q.list[m] = << >> THEN q ELSE MutexHandOver(q, m)
<1>1. Unlocked(s, q, m) /\ q.list = s.list /\ q.mutex = s.mutex
  BY ReleasedUnlocked
<1>2. /\ s.kernel # "Ready" /\ s.state[s.run] = "Running" /\ s \in Kernel /\ Queues(s)
      /\ s.mutex \in SUBSET Mutex /\ s.list \in [Object -> Seq(Thread)] /\ Object = Mutex
      /\ \A u \in Thread : Queued(s, u)
  BY Running, MutexFields DEF Settled
<1>3. m \in Mutex
  BY <1>2
<1>4. q1 = IF q.list[m] = << >> THEN q ELSE MutexHandOver(q, m)
  OBVIOUS
<1> HIDE DEF q1
<1>5. /\ Settled(q1) /\ q1.run = s.run /\ q1.next = s.next /\ q1.kernel = s.kernel
      /\ \A x \in Mutex \ {m} : HolderIn(q1, x) = HolderIn(s, x)
      /\ HolderIn(q1, m) # NoThread => HolderIn(q1, m) = Head(s.list[m])
  <2>1. CASE q.list[m] = << >>
    <3>1. q1 = q /\ \A t \in Thread : Queued(q, t)
      BY <1>1, <1>2, <1>4, <2>1 DEF Unlocked, Queued
    <3>2. Settled(q)
      BY <1>1, <1>3, <2>1, <3>1, UnlockedSettled
    <3> QED
      BY <1>1, <3>1, <3>2 DEF Unlocked, HolderIn
  <2>2. CASE q.list[m] # << >>
    <3>1. q1 = MutexHandOver(q, m) /\ s.list[m] # << >>
      BY <1>1, <1>4, <2>2
    <3>2. /\ Settled(q1) /\ q1.run = s.run /\ q1.next = s.next /\ q1.kernel = s.kernel
          /\ PassedTo(s, q1, m, Head(s.list[m]))
      BY <1>1, <1>2, <3>1, HandOverSettled, SMTT(20)
    <3> QED
      BY <3>2 DEF PassedTo
  <2> QED
    BY <2>1, <2>2
<1>6. Passes(s, q1)
  <2>1. s.run \notin ToSet(s.list[m])
    BY <1>2, <1>3, QueuedWait DEF QueueStates, Unqueued
  <2>2. RemoveFirst(s.list[m], s.run) = s.list[m]
    BY <1>2, <1>3, <2>1, RemoveAbsent
  <2>3. HolderIn(s, m) = s.run
    BY DEF HolderIn, Held
  <2> QED
    BY <1>5, <2>2, <2>3 DEF Passes
<1>7. r = ThreadDispatchReady(q1)
  BY <1>4
<1> QED
  BY <1>2, <1>5, <1>6, <1>7, DispatchHandled

-----------------------------------------------------------------------------
(* Deleting. *)

\* svcRtxMutexDelete of a mutex that is not locked: nobody waits for it.
LEMMA DeleteFreeHandled ==
  ASSUME NEW s, Settled(s), NEW m \in s.mutex, s.lock[m] = 0,
         NEW r, r = [s EXCEPT !.mutex = @ \ {m}]
  PROVE  Handled(s, r)
<1>1. /\ s \in Kernel /\ s.mutex \in SUBSET Mutex /\ s.lock \in [Mutex -> Nat]
      /\ Mutexes(s, {}) /\ m \in Mutex
  BY MutexFields DEF Settled
<1>2. /\ r \in Kernel /\ SameLinks(s, r)
      /\ r.joinable = s.joinable /\ r.joiner = s.joiner /\ r.target = s.target
      /\ r.next = s.next /\ r.kernel = s.kernel
  BY <1>1 DEF Kernel, SameLinks
<1>3. /\ r.mutex = s.mutex \ {m} /\ r.owned = s.owned /\ r.owner = s.owner
      /\ r.lock = s.lock /\ r.base = s.base /\ r.priority = s.priority
      /\ r.list = s.list /\ r.state = s.state
  BY <1>1 DEF Kernel
<1>4. \A x \in Mutex : Held(r, x) <=> Held(s, x)
  BY <1>3 DEF Held
<1>5. Mutexes(r, {})
  <2>1. \A u \in Thread : Owns(s, u) => Owns(r, u)
    BY <1>3, <1>4 DEF Owns
  <2> QED
    BY <1>1, <1>3, <1>4, <2>1 DEF Mutexes, Lives
<1>6. Passes(s, r)
  BY <1>3, <1>4 DEF Passes, HolderIn
<1> QED
  BY <1>2, <1>5, <1>6, LockedSettled

\* The locked mutex m is taken from its owner, who gets the priority it is due
\* (osRtxMutexOwnerUnlock before its loop).
TakenAway(s, m) ==
  LET o  == s.owner[m]
      s0 == MutexDrop(s, m, o)
      p  == InheritedPriority(s0, o, NoThread)
  IN  IF s0.priority[o] = p THEN s0
      ELSE ThreadListSort([s0 EXCEPT !.priority[o] = p], o)

\* The lists hold whom they held.
SameMembers(s, r) == \A o \in Object : ToSet(r.list[o]) = ToSet(s.list[o])

LEMMA WithoutMutex ==
  ASSUME NEW s \in Kernel, NEW m
  PROVE  [s EXCEPT !.mutex = @ \ {m}] \in Kernel
<1> QED
  BY DEF Kernel

LEMMA TakenAwayUnlocked ==
  ASSUME NEW s, Settled(s), NEW m \in s.mutex, s.lock[m] # 0,
         NEW a, a = [s EXCEPT !.mutex = @ \ {m}],
         NEW r, r = TakenAway(a, m)
  PROVE  Unlocked(s, r, m) /\ r.mutex = s.mutex \ {m} /\ SameMembers(s, r)
<1> DEFINE o  == s.owner[m]
           s0 == MutexDrop(a, m, o)
           p  == InheritedPriority(s0, o, NoThread)
           s1 == [s0 EXCEPT !.priority[o] = p]
<1>1. /\ s \in Kernel /\ s.mutex \in SUBSET Mutex /\ s.owned \in [Thread -> Seq(Mutex)]
      /\ s.lock \in [Mutex -> Nat] /\ Mutexes(s, {}) /\ Good(s, {}) /\ Queues(s)
      /\ s.priority \in [Thread -> Nat] /\ m \in Mutex
  BY MutexFields DEF Settled
<1>2. o \in Thread /\ Held(s, m) /\ o = s.owner[m]
  BY <1>1, OwnerHas DEF Held
<1>3. a \in Kernel
  BY <1>1, WithoutMutex
<1>4. s0 = [a EXCEPT !.owned[o] = RemoveFirst(a.owned[o], m)]
  BY DEF MutexDrop
<1>5. r = IF s0.priority[o] = p THEN s0 ELSE ThreadListSort(s1, o)
  <2>1. a.owner = s.owner
    BY <1>1 DEF Kernel
  <2> QED
    BY <2>1 DEF TakenAway
<1>6. p = InheritedPriority(s0, o, NoThread) /\ s1 = [s0 EXCEPT !.priority[o] = p]
  OBVIOUS
<1> HIDE DEF o, p, s0, s1
<1>7. a.owned = s.owned /\ RemoveFirst(s.owned[o], m) \in Seq(Mutex)
  BY <1>1, <1>2, RemoveFirstIn DEF Kernel
<1>8. s0 \in Kernel
  BY <1>2, <1>3, <1>4, <1>7, WithOwned
<1>9. p \in Priority
  BY <1>2, <1>6, <1>8, InheritedIs
<1>10. s1 \in Kernel
  BY <1>2, <1>6, <1>8, <1>9, WithPriorityOf
<1>11. /\ s0.owned = [s.owned EXCEPT ![o] = RemoveFirst(s.owned[o], m)]
       /\ s0.base = s.base /\ s0.lock = s.lock
       /\ s0.priority = s.priority /\ s0.list = s.list /\ s0.ready = s.ready
       /\ s0.state = s.state /\ s0.delay = s.delay /\ s0.waitList = s.waitList
       /\ s0.delayList = s.delayList /\ s0.owner = s.owner /\ s0.mutex = s.mutex \ {m}
       /\ s0.joinable = s.joinable /\ s0.joiner = s.joiner /\ s0.target = s.target
       /\ s0.run = s.run /\ s0.next = s.next /\ s0.kernel = s.kernel
  BY <1>1, <1>3, <1>4, <1>7 DEF Kernel
<1>12. Good(s0, {}) /\ Queues(s0)
  <2>1. SameLinks(s, s0) /\ {} \in SUBSET Thread
    BY <1>11 DEF SameLinks
  <2>2. Good(s0, {})
    BY <1>1, <1>8, <2>1, LinksKept
  <2>3. Queues(s0)
    BY <1>1, <1>11 DEF Queues
  <2> QED
    BY <2>2, <2>3
<1>13. \A x \in Mutex \ {m} : m \notin s0.mutex /\ (Held(s0, x) <=> Held(s, x))
  BY <1>11 DEF Held
<1>14. ToSet(s0.owned[o]) \cap PrioInherit = {} => p = s0.base[o]
  BY <1>2, <1>6, <1>8, InheritedBase
<1>15. ASSUME NEW w, w.owned = s0.owned, w.base = s0.base, w.owner = s0.owner,
              w.mutex = s0.mutex, w.lock = s0.lock, w.priority[o] = p,
              \A u \in Thread \ {o} : w.priority[u] = s.priority[u]
       PROVE  /\ \A u \in Thread : Lives(s, u) => Owns(w, u)
              /\ ~Held(w, m) /\ \A x \in Mutex \ {m} : Held(w, x) <=> Held(s, x)
  <2>1. /\ w.owned = [s.owned EXCEPT ![o] = RemoveFirst(s.owned[o], m)]
        /\ w.owner = s.owner /\ w.base = s.base
    BY <1>11, <1>15
  <2>2. ~Held(w, m)
    BY <1>11, <1>15 DEF Held
  <2>3. \A x \in Mutex \ {m} : Held(w, x) <=> Held(s, x)
    BY <1>13, <1>15 DEF Held
  <2>4. ToSet(w.owned[o]) \cap PrioInherit = {} => w.priority[o] = w.base[o]
    BY <1>14, <1>15
  <2>5. \A u \in Thread \ {o} : w.priority[u] = s.priority[u]
    BY <1>15
  <2>6. \A u \in Thread : Lives(s, u) => Owns(w, u)
    BY ONLY <1>1, <1>2, <2>1, <2>2, <2>3, <2>4, <2>5, DropOwns
  <2> QED
    BY <2>2, <2>3, <2>6
<1>16. CASE s0.priority[o] = p
  <2>1. r = s0 /\ SameMembers(s, r)
    BY <1>5, <1>11, <1>16 DEF SameMembers
  <2>2. \A u \in Thread \ {o} : s0.priority[u] = s.priority[u]
    BY <1>11
  <2>3. /\ \A u \in Thread : Lives(s, u) => Owns(s0, u)
        /\ ~Held(s0, m) /\ \A x \in Mutex \ {m} : Held(s0, x) <=> Held(s, x)
    BY <1>15, <1>16, <2>2
  <2> QED
    BY <1>11, <1>12, <2>1, <2>3 DEF Unlocked
<1>17. CASE s0.priority[o] # p
  <2>1. /\ s1.priority = [s.priority EXCEPT ![o] = p]
        /\ s1.owned = s0.owned /\ s1.base = s0.base /\ s1.lock = s0.lock
        /\ s1.list = s0.list /\ s1.ready = s0.ready
        /\ s1.state = s.state /\ s1.delay = s0.delay /\ s1.waitList = s.waitList
        /\ s1.delayList = s0.delayList /\ s1.owner = s.owner /\ s1.mutex = s0.mutex
        /\ s1.joinable = s.joinable /\ s1.joiner = s.joiner /\ s1.target = s.target
        /\ s1.run = s.run /\ s1.next = s.next /\ s1.kernel = s.kernel
    BY <1>6, <1>8, <1>11 DEF Kernel
  <2>2. s1.priority[o] = p /\ \A u \in Thread \ {o} : s1.priority[u] = s.priority[u]
    BY <1>1, <1>2, <2>1
  <2>3. Reranked(s0, s1, o)
    BY <1>11, <2>1, <2>2 DEF Reranked
  <2>4. Linked(s0, s0.delayList, {}) /\ {} \in SUBSET Thread /\ r = ThreadListSort(s1, o)
    BY <1>5, <1>12, <1>17 DEF Good
  <2>5. Linked(r, s0.delayList, {}) /\ Queues(r) /\ Resorted(s1, r, o)
    BY <1>2, <1>10, <1>12, <2>3, <2>4, ListSortGood
  <2>6. /\ r.owned = s0.owned /\ r.base = s0.base /\ r.lock = s0.lock /\ r.owner = s.owner
        /\ r.mutex = s0.mutex /\ r.priority = s1.priority /\ r.delay = s0.delay
        /\ r.delayList = s0.delayList /\ r.state = s.state /\ r.waitList = s.waitList
        /\ r.joinable = s.joinable /\ r.joiner = s.joiner /\ r.target = s.target
        /\ r.run = s.run /\ r.next = s.next /\ r.kernel = s.kernel
    BY <2>1, <2>5 DEF Resorted, Blocks
  <2>7. Good(r, {})
    BY <1>12, <2>5, <2>6 DEF Good, NotDue
  <2>8. SameMembers(s, r)
    <3>1. SameMembers(s1, r)
      BY <2>5 DEF SameMembers, Resorted
    <3>2. s1.list = s.list
      BY <1>11, <2>1
    <3> QED
      BY <3>1, <3>2 DEF SameMembers
  <2>9. /\ \A u \in Thread : Lives(s, u) => Owns(r, u)
        /\ ~Held(r, m) /\ \A x \in Mutex \ {m} : Held(r, x) <=> Held(s, x)
    <3>1. /\ r.owned = s0.owned /\ r.base = s0.base /\ r.owner = s0.owner
          /\ r.mutex = s0.mutex /\ r.lock = s0.lock
      BY <1>11, <2>6
    <3>2. r.priority[o] = p /\ \A u \in Thread \ {o} : r.priority[u] = s.priority[u]
      BY <2>2, <2>6
    <3> QED
      BY ONLY <1>15, <3>1, <3>2
  <2> QED
    BY <1>11, <2>5, <2>6, <2>7, <2>8, <2>9 DEF Unlocked
<1> QED
  BY <1>16, <1>17

\* The loop of osRtxMutexOwnerUnlock started from w0 on the threads of q.
AwokenFrom(w0, q, n, f) ==
  f = [i \in 0..n |-> IF i = 0 THEN w0 ELSE ThreadWaitExit(f[i-1], q[i])]

\* The loop is a recursive function: it exists.
LEMMA AwokenExists ==
  ASSUME NEW w0, NEW q, NEW n \in Nat
  PROVE  \E f : AwokenFrom(w0, q, n, f)
<1> DEFINE Ex(m) == \E f : AwokenFrom(w0, q, m, f)
           T == {m \in Nat : ~Ex(m)}
<1>1. SUFFICES ASSUME T # {} PROVE FALSE
  OBVIOUS
<1>2. PICK m : m = Min(T)
  OBVIOUS
<1>3. m \in Nat /\ ~Ex(m) /\ \A y \in T : m <= y
  <2>1. T \in SUBSET Nat
    OBVIOUS
  <2> QED
    BY <1>1, <1>2, <2>1, MinIs
<1>4. CASE m = 0
  <2> DEFINE g == [i \in 0..m |-> w0]
  <2>1. g = [i \in 0..m |-> IF i = 0 THEN w0 ELSE ThreadWaitExit(g[i-1], q[i])]
    BY <1>4
  <2> HIDE DEF g
  <2>2. Ex(m)
    BY <2>1 DEF AwokenFrom
  <2> QED
    BY <1>3, <2>2
<1>5. CASE m # 0
  <2>1. m - 1 \in Nat /\ m - 1 \notin T
    <3>1. m - 1 \in Nat /\ ~(m <= m - 1)
      BY <1>3, <1>5
    <3> HIDE DEF T
    <3> QED
      BY <1>3, <3>1
  <2>2. PICK f : AwokenFrom(w0, q, m - 1, f)
    BY <2>1
  <2> DEFINE g == [i \in 0..m |-> IF i = m THEN ThreadWaitExit(f[m-1], q[m]) ELSE f[i]]
  <2>3. g = [i \in 0..m |-> IF i = 0 THEN w0 ELSE ThreadWaitExit(g[i-1], q[i])]
    <3>1. ASSUME NEW i \in 0..m
          PROVE  g[i] = IF i = 0 THEN w0 ELSE ThreadWaitExit(g[i-1], q[i])
      <4>1. CASE i = m
        <5>1. g[i] = ThreadWaitExit(f[m-1], q[m]) /\ g[i-1] = f[m-1]
          BY <1>3, <1>5, <2>1, <4>1
        <5> QED
          BY <1>5, <4>1, <5>1
      <4>2. CASE i # m
        <5>1. i \in 0..m-1 /\ (i # 0 => i - 1 \in 0..m-1 /\ i - 1 # m /\ i - 1 \in 0..m)
          BY <1>3, <2>1, <4>2
        <5>2. f[i] = IF i = 0 THEN w0 ELSE ThreadWaitExit(f[i-1], q[i])
          BY ONLY <2>2, <5>1 DEF AwokenFrom
        <5> QED
          BY <4>2, <5>1, <5>2
      <4> QED
        BY <4>1, <4>2
    <3> QED
      BY <3>1
  <2> HIDE DEF g
  <2>4. Ex(m)
    BY <2>3 DEF AwokenFrom
  <2> QED
    BY <1>3, <2>4
<1> QED
  BY <1>4, <1>5

\* The first n threads of q are ready, and nobody else has moved.
Awoken(w0, w, q, n) ==
  /\ Good(w, {}) /\ Frame(w0, w) /\ w.next = w0.next
  /\ \A i \in 1..n : w.state[q[i]] = "Ready"
  /\ \A u \in Thread : (\A i \in 1..n : q[i] # u) =>
       /\ w.state[u] = w0.state[u]
       /\ u \in w0.waitList => u \in w.waitList

\* One round of the loop.
LEMMA AwokenOne ==
  ASSUME NEW w0, NEW q \in Seq(Thread), NoDuplicates(q), NEW n \in 1..Len(q),
         \A i \in 1..Len(q) : w0.state[q[i]] = "WaitingMutex",
         NEW w, Awoken(w0, w, q, n - 1),
         NEW r, r = ThreadWaitExit(w, q[n])
  PROVE  Awoken(w0, r, q, n)
<1>1. q[n] \in Thread /\ n \in 1..Len(q) /\ Len(q) \in Nat
  OBVIOUS
<1>2. \A i \in 1..n-1 : q[i] # q[n]
  <2>1. \A i \in 1..n-1 : i \in 1..Len(q) /\ i # n
    BY <1>1
  <2> QED
    BY <1>1, <2>1 DEF NoDuplicates
<1>3. /\ Good(w, {}) /\ Frame(w0, w) /\ w.next = w0.next
      /\ \A i \in 1..n-1 : w.state[q[i]] = "Ready"
      /\ w.state[q[n]] = "WaitingMutex" /\ w.state \in [Thread -> ThreadState]
  BY <1>1, <1>2, Fields DEF Awoken, Good, Linked
<1>4. IsBlocked(w, q[n]) /\ {} \in SUBSET Thread /\ q[n] \in Thread \ {}
  BY <1>1, <1>3 DEF IsBlocked, Waiting
<1>5. /\ Good(r, {}) /\ Frame(w, r)
      /\ r.state = [w.state EXCEPT ![q[n]] = "Ready"] /\ r.next = w.next
      /\ r.waitList = w.waitList \ {q[n]}
  BY <1>3, <1>4, WaitExitGood
<1>6. \A i \in 1..n : i = n \/ i \in 1..n-1
  BY <1>1
<1>7. \A i \in 1..n : r.state[q[i]] = "Ready"
  <2>1. r.state[q[n]] = "Ready"
    BY <1>1, <1>3, <1>5
  <2>2. ASSUME NEW i \in 1..n-1 PROVE r.state[q[i]] = "Ready"
    <3>1. q[i] \in Thread
      BY <1>1
    <3> QED
      BY <1>2, <1>3, <1>5, <3>1
  <2> QED
    BY <1>6, <2>1, <2>2
<1>8. ASSUME NEW u \in Thread, \A i \in 1..n : q[i] # u
      PROVE  r.state[u] = w0.state[u] /\ (u \in w0.waitList => u \in r.waitList)
  <2>1. \A i \in 1..n-1 : q[i] # u
    BY <1>1, <1>8
  <2>2. q[n] # u
    BY <1>1, <1>8
  <2>3. w.state[u] = w0.state[u] /\ (u \in w0.waitList => u \in w.waitList)
    BY <2>1 DEF Awoken
  <2> QED
    BY <1>3, <1>5, <2>2, <2>3
<1>9. Frame(w0, r) /\ r.next = w0.next
  BY <1>3, <1>5 DEF Frame
<1> QED
  BY <1>5, <1>7, <1>8, <1>9 DEF Awoken

\* osRtxMutexOwnerUnlock wakes the threads of q.
LEMMA AwokenGood ==
  ASSUME NEW w0, Good(w0, {}), NEW q \in Seq(Thread), NoDuplicates(q),
         \A i \in 1..Len(q) : w0.state[q[i]] = "WaitingMutex",
         NEW f, AwokenFrom(w0, q, Len(q), f)
  PROVE  Awoken(w0, f[Len(q)], q, Len(q))
<1> DEFINE n == Len(q)
           Ok(i) == Awoken(w0, f[i], q, i)
           T == {i \in Nat : i <= n /\ ~Ok(i)}
<1>1. n \in Nat /\ n = Len(q)
  OBVIOUS
<1> HIDE DEF n
<1>2. SUFFICES ASSUME T # {} PROVE FALSE
  <2>1. n \notin T => Ok(n)
    BY <1>1
  <2> QED
    BY <1>1, <2>1
<1>3. PICK m : m = Min(T)
  OBVIOUS
<1>4. m \in Nat /\ m <= n /\ ~Ok(m) /\ \A y \in T : m <= y
  <2>1. T \in SUBSET Nat
    OBVIOUS
  <2> QED
    BY <1>2, <1>3, <2>1, MinIs
<1>5. m # 0
  <2>1. f[0] = w0
    BY <1>1 DEF AwokenFrom
  <2>2. Ok(0)
    BY <2>1 DEF Awoken, Frame
  <2> QED
    BY <1>4, <2>2
<1>6. m \in 1..n /\ m - 1 \in Nat /\ m - 1 <= n /\ ~(m <= m - 1)
  BY <1>1, <1>4, <1>5
<1>7. Ok(m - 1)
  <2>1. m - 1 \notin T
    BY <1>4, <1>6
  <2> QED
    BY <1>6, <2>1
<1>8. f[m] = ThreadWaitExit(f[m-1], q[m])
  BY <1>1, <1>6 DEF AwokenFrom
<1>9. Awoken(w0, f[m], q, m)
  <2>1. m \in 1..Len(q) /\ Awoken(w0, f[m-1], q, m - 1)
    BY <1>1, <1>6, <1>7
  <2> QED
    BY <1>8, <2>1, AwokenOne
<1> QED
  BY <1>4, <1>9

\* What a handler leaves that has still to dispatch.
Undispatched(s, r) ==
  /\ Settled(r) /\ Passes(s, r)
  /\ r.run = s.run /\ r.next = s.next /\ r.kernel = s.kernel

\* All waiters of the deleted mutex m are ready, and nobody owns it.
LEMMA AwokenSettled ==
  ASSUME NEW s, Settled(s), s.kernel # "Ready", NEW m \in s.mutex,
         NEW s1, Unlocked(s, s1, m), s1.mutex = s.mutex \ {m}, SameMembers(s, s1),
         NEW w0, w0 = [s1 EXCEPT !.list[m] = << >>, !.lock[m] = 0],
         NEW r, Awoken(w0, r, s1.list[m], Len(s1.list[m]))
  PROVE  Undispatched(s, r)
<1> DEFINE q == s1.list[m]
<1>1. /\ s \in Kernel /\ s.mutex \in SUBSET Mutex /\ m \in Mutex /\ Object = Mutex
      /\ s.list \in [Object -> Seq(Thread)] /\ JoinOK(s) /\ Plain(s) /\ Started(s)
      /\ Mutexes(s, {}) /\ \A u \in Thread : Queued(s, u)
      /\ s.state \in [Thread -> ThreadState]
  BY MutexFields DEF Settled
<1>2. /\ Good(s1, {}) /\ Queues(s1)
      /\ s1.joinable = s.joinable /\ s1.joiner = s.joiner /\ s1.target = s.target
      /\ s1.run = s.run /\ s1.next = s.next /\ s1.kernel = s.kernel
      /\ s1.state = s.state /\ s1.waitList = s.waitList /\ s1.owner = s.owner
      /\ \A u \in Thread : Lives(s, u) => Owns(s1, u)
      /\ \A x \in Mutex \ {m} : Held(s1, x) <=> Held(s, x)
  BY DEF Unlocked
<1>3. s1 \in Kernel /\ s1.list \in [Object -> Seq(Thread)] /\ s1.lock \in [Mutex -> Nat]
  BY <1>2, Fields DEF Good, Linked
<1>4. q \in Seq(Thread) /\ q = s1.list[m]
  BY <1>1, <1>3
<1> HIDE DEF q
<1>5. /\ w0.list = [s1.list EXCEPT ![m] = << >>] /\ w0.lock = [s1.lock EXCEPT ![m] = 0]
      /\ w0.mutex = s1.mutex /\ w0.owned = s1.owned /\ w0.owner = s.owner
      /\ w0.priority = s1.priority /\ w0.base = s1.base
      /\ w0.state = s.state /\ w0.waitList = s.waitList
      /\ w0.joinable = s.joinable /\ w0.joiner = s.joiner /\ w0.target = s.target
      /\ w0.run = s.run /\ w0.next = s.next /\ w0.kernel = s.kernel
  BY <1>2, <1>3 DEF Kernel
<1>6. /\ Good(r, {}) /\ Frame(w0, r) /\ r.next = s.next
      /\ \A j \in 1..Len(q) : r.state[q[j]] = "Ready"
      /\ \A u \in Thread : (\A j \in 1..Len(q) : q[j] # u) =>
           r.state[u] = s.state[u] /\ (u \in s.waitList => u \in r.waitList)
  BY <1>4, <1>5 DEF Awoken
<1>7. /\ r.list = w0.list /\ r.lock = w0.lock /\ r.mutex = s.mutex \ {m}
      /\ r.owned = s1.owned /\ r.owner = s.owner /\ r.priority = s1.priority
      /\ r.base = s1.base
      /\ r.joinable = s.joinable /\ r.joiner = s.joiner /\ r.target = s.target
      /\ r.run = s.run /\ r.next = s.next /\ r.kernel = s.kernel
      /\ r \in Kernel /\ r.state \in [Thread -> ThreadState]
  BY <1>5, <1>6, Fields DEF Frame, Good, Linked
<1>8. \A x : x \in ToSet(q) <=> \E j \in 1..Len(q) : q[j] = x
  BY <1>4, ToSetIs
<1>9. \A u \in Thread : IF u \in ToSet(q) THEN r.state[u] = "Ready"
                        ELSE /\ r.state[u] = s.state[u]
                             /\ u \in s.waitList => u \in r.waitList
  BY <1>6, <1>8
<1>10. \A u \in ToSet(q) : u \in Thread /\ s.state[u] = "WaitingMutex"
  <2>1. ToSet(q) \in SUBSET Thread
    BY <1>4, ToSetIs
  <2>2. WaitKind(m) = {"WaitingMutex"} /\ m \in Object
    BY <1>1 DEF WaitKind
  <2>3. \A u \in ToSet(s1.list[m]) : s1.state[u] \in WaitKind(m)
    BY <1>2, <2>2 DEF Queues
  <2> QED
    BY <1>2, <1>4, <2>1, <2>2, <2>3
<1>11. SameLives(s, r) /\ \A u \in Thread : Lives(r, u) <=> Lives(s, u)
  BY <1>9, <1>10 DEF SameLives, Lives
<1>12. r.list[m] = << >> /\ \A x \in Object \ {m} : r.list[x] = s1.list[x]
  BY <1>1, <1>3, <1>5, <1>7
<1>13. Queues(r)
  <2>1. Queues(w0)
    <3>1. w0.list[m] = << >> /\ \A x \in Object \ {m} : w0.list[x] = s1.list[x]
      BY <1>7, <1>12
    <3>2. ASSUME NEW x \in Object
          PROVE  /\ NoDuplicates(w0.list[x]) /\ SortedBy(w0.list[x], w0.priority)
                 /\ \A t \in ToSet(w0.list[x]) : w0.state[t] \in WaitKind(x)
      <4>1. CASE x = m
        BY <3>1, <4>1 DEF NoDuplicates, SortedBy, ToSet
      <4>2. CASE x # m
        BY <1>2, <1>5, <3>1, <4>2 DEF Queues
      <4> QED
        BY <4>1, <4>2
    <3>3. \A x \in Object : \A t : t \in ToSet(w0.list[x]) => t \in ToSet(s1.list[x])
      BY <3>1 DEF ToSet
    <3>4. \A x, y \in Object : \A t :
            t \in ToSet(w0.list[x]) /\ t \in ToSet(w0.list[y]) => x = y
      BY <1>2, <3>3 DEF Queues
    <3> QED
      BY ONLY <3>2, <3>4 DEF Queues
  <2>2. w0 \in Kernel
    <3>1. << >> \in Seq(Thread) /\ 0 \in Nat
      OBVIOUS
    <3>2. [s1 EXCEPT !.list[m] = << >>] \in Kernel
      BY <1>1, <1>3, <3>1, WithList
    <3>3. w0 = [[s1 EXCEPT !.list[m] = << >>] EXCEPT !.lock[m] = 0]
      BY <1>3 DEF Kernel
    <3>4. m \in Mutex
      BY <1>1
    <3> QED
      BY ONLY <3>1, <3>2, <3>3, <3>4, WithLock
  <2>3. r.list = w0.list /\ r.priority = w0.priority
    BY <1>5, <1>7
  <2>4. \A u \in Thread : Unqueued(w0, u) \/ r.state[u] = w0.state[u]
    <3>1. ASSUME NEW u \in ToSet(q) PROVE Unqueued(w0, u)
      <4>1. ASSUME NEW x \in Object PROVE u \notin ToSet(w0.list[x])
        <5>1. CASE x = m
          BY <1>7, <1>12, <5>1 DEF ToSet
        <5>2. CASE x # m
          <6>1. w0.list[x] = s1.list[x] /\ m \in Object
            BY <1>1, <1>7, <1>12, <5>2
          <6>2. u \in ToSet(s1.list[x]) /\ u \in ToSet(s1.list[m]) => x = m
            BY <1>2, <6>1 DEF Queues
          <6> QED
            BY <1>4, <5>2, <6>1, <6>2
        <5> QED
          BY <5>1, <5>2
      <4> QED
        BY <4>1 DEF Unqueued
    <3> QED
      BY <1>5, <1>9, <3>1
  <2> QED
    BY <2>1, <2>2, <2>3, <2>4, QueuesKept
<1>14. ~Held(r, m) /\ \A x \in Mutex \ {m} : Held(r, x) <=> Held(s1, x)
  <2>1. \A x \in Mutex \ {m} : r.lock[x] = s1.lock[x]
    BY <1>3, <1>5, <1>7
  <2>2. \A x \in Mutex \ {m} : x \in r.mutex <=> x \in s1.mutex
    BY <1>7
  <2>3. m \notin r.mutex
    BY <1>7
  <2> QED
    BY <2>1, <2>2, <2>3 DEF Held
<1>15. Mutexes(r, {})
  <2>1. \A u \in Thread : Lives(r, u) => Owns(r, u)
    <3>1. \A x \in Mutex : Held(r, x) <=> Held(s1, x)
      BY <1>14 DEF Unlocked
    <3> QED
      BY <1>2, <1>7, <1>11, <3>1 DEF Owns
  <2>2. \A x \in Mutex : Held(r, x) => r.owner[x] \in Thread /\ Lives(r, r.owner[x])
    BY <1>1, <1>2, <1>7, <1>11, <1>14 DEF Mutexes
  <2>3. ASSUME NEW x \in Mutex, ~Held(r, x) PROVE r.list[x] = << >>
    <3>1. CASE x = m
      BY <1>12, <3>1
    <3>2. CASE x # m
      <4>1. ~Held(s, x) /\ x \in Object
        BY <1>1, <1>2, <1>14, <2>3, <3>2
      <4>2. s.list[x] = << >>
        BY <1>1, <4>1 DEF Mutexes
      <4>3. \A o \in Object : \A u \in Thread :
              u \in ToSet(s1.list[o]) => u \in ToSet(s.list[o])
        BY DEF SameMembers
      <4>4. s1.list[x] = << >>
        BY ONLY <1>1, <1>3, <4>1, <4>2, <4>3, EmptySet
      <4> QED
        BY <1>12, <3>2, <4>1, <4>4
    <3> QED
      BY <3>1, <3>2
  <2> QED
    BY <2>1, <2>2, <2>3 DEF Mutexes
<1>16. ASSUME NEW u \in Thread, r.state[u] \in QueueStates
       PROVE  \E o \in Object : u \in ToSet(r.list[o])
  <2>1. u \notin ToSet(q) /\ r.state[u] = s.state[u]
    BY <1>9, <1>16 DEF QueueStates
  <2>2. PICK o \in Object : u \in ToSet(s.list[o])
    BY <1>1, <1>16, <2>1 DEF Queued
  <2>3. u \in ToSet(s1.list[o])
    BY <2>2 DEF SameMembers
  <2>4. o # m
    BY <1>4, <2>1, <2>3
  <2>5. r.list[o] = s1.list[o]
    BY <1>12, <2>4
  <2> QED
    BY <2>3, <2>5
<1>17. JoinOK(r) /\ Plain(r) /\ Started(r)
  <2>1. JoinOK(r)
    BY ONLY <1>1, <1>7, <1>11, JoinKept
  <2>2. Plain(r)
    BY <1>1, <1>9 DEF Plain
  <2>3. \A u \in Thread : r.state[u] = "Running" <=> s.state[u] = "Running"
    BY <1>9, <1>10
  <2>4. Started(r)
    BY <1>1, <1>7, <2>3 DEF Started, Runs
  <2> QED
    BY <2>1, <2>2, <2>4
<1>18. Passes(s, r)
  <2>1. \A x \in Mutex \ {m} : HolderIn(r, x) = HolderIn(s, x)
    BY <1>2, <1>7, <1>14 DEF HolderIn
  <2>2. m \notin r.mutex /\ HolderIn(r, m) = NoThread
    BY <1>7, <1>14 DEF HolderIn
  <2> QED
    BY <2>1, <2>2 DEF Passes
<1>19. \A u \in Thread : Queued(r, u)
  BY <1>16 DEF Queued
<1> QED
  BY <1>6, <1>7, <1>13, <1>15, <1>17, <1>18, <1>19 DEF Settled, Undispatched

\* svcRtxMutexDelete of a locked mutex
LEMMA DeleteHandled ==
  ASSUME NEW s, Settled(s), s.next = s.run, s.run \in Thread,
         NEW m \in s.mutex, s.lock[m] # 0,
         NEW a, a = [s EXCEPT !.mutex = @ \ {m}],
         NEW r, r = ThreadDispatchReady(MutexOwnerUnlock(a, m))
  PROVE  Handled(s, r)
<1> DEFINE s1 == TakenAway(a, m)
           w0 == [s1 EXCEPT !.list[m] = << >>, !.lock[m] = 0]
           q  == s1.list[m]
           n  == Len(q)
           f  == CHOOSE g : AwokenFrom(w0, q, n, g)
           w  == f[n]
<1>1. MutexOwnerUnlock(a, m) = w
  BY DEF MutexOwnerUnlock, AwokenFrom, TakenAway
<1>2. s1 = TakenAway(a, m) /\ w0 = [s1 EXCEPT !.list[m] = << >>, !.lock[m] = 0]
  OBVIOUS
<1>3. q = s1.list[m] /\ n = Len(q) /\ f = CHOOSE g : AwokenFrom(w0, q, n, g)
  OBVIOUS
<1>4. w = f[n]
  OBVIOUS
<1> HIDE DEF s1, w0, q, n, f, w
<1>5. /\ s.kernel # "Ready" /\ s.state[s.run] = "Running" /\ s \in Kernel
      /\ s.mutex \in SUBSET Mutex /\ Object = Mutex /\ m \in Mutex
  BY Running, MutexFields
<1>6. Unlocked(s, s1, m) /\ s1.mutex = s.mutex \ {m} /\ SameMembers(s, s1)
  BY <1>2, TakenAwayUnlocked
<1>7. /\ Good(s1, {}) /\ Queues(s1) /\ s1 \in Kernel
      /\ s1.list \in [Object -> Seq(Thread)] /\ s1.state \in [Thread -> ThreadState]
  <2>1. Good(s1, {}) /\ Queues(s1)
    BY <1>6 DEF Unlocked
  <2> QED
    BY <2>1, Fields DEF Good, Linked
<1>8. q \in Seq(Thread) /\ n \in Nat /\ NoDuplicates(q)
  <2>1. m \in Object
    BY <1>5
  <2>2. q \in Seq(Thread)
    BY <1>3, <1>7, <2>1
  <2>3. NoDuplicates(q)
    BY <1>3, <1>7, <2>1 DEF Queues
  <2> QED
    BY <1>3, <2>2, <2>3
<1>9. Good(w0, {})
  <2>1. << >> \in Seq(Thread) /\ 0 \in Nat /\ {} \in SUBSET Thread /\ m \in Object
    BY <1>5
  <2>2. [s1 EXCEPT !.list[m] = << >>] \in Kernel
    BY <1>7, <2>1, WithList
  <2>3. w0 = [[s1 EXCEPT !.list[m] = << >>] EXCEPT !.lock[m] = 0]
    BY <1>2, <1>7 DEF Kernel
  <2>4. w0 \in Kernel
    BY <1>5, <2>1, <2>2, <2>3, WithLock
  <2>5. SamePlaces(s1, w0)
    BY <1>2, <1>7 DEF Kernel, SamePlaces
  <2> QED
    BY <1>7, <2>1, <2>4, <2>5, PlacesKept
<1>10. \A i \in 1..Len(q) : w0.state[q[i]] = "WaitingMutex"
  <2>1. WaitKind(m) = {"WaitingMutex"} /\ m \in Object
    BY <1>5 DEF WaitKind
  <2>2. \A u \in ToSet(s1.list[m]) : s1.state[u] \in WaitKind(m)
    BY <1>7, <2>1 DEF Queues
  <2>3. w0.state = s1.state
    BY <1>2, <1>7 DEF Kernel
  <2>4. \A i \in 1..Len(q) : q[i] \in ToSet(q)
    BY <1>8, ToSetIs
  <2> QED
    BY <1>3, <2>1, <2>2, <2>3, <2>4
<1>11. AwokenFrom(w0, q, n, f)
  <2>1. \E g : AwokenFrom(w0, q, n, g)
    BY <1>8, AwokenExists
  <2> QED
    BY <1>3, <2>1
<1>12. Awoken(w0, w, q, n)
  <2>1. AwokenFrom(w0, q, Len(q), f) /\ w = f[Len(q)] /\ n = Len(q)
    BY <1>3, <1>4, <1>11
  <2>2. Awoken(w0, f[Len(q)], q, Len(q))
    BY ONLY <1>8, <1>9, <1>10, <2>1, AwokenGood
  <2> QED
    BY <2>1, <2>2
<1>13. Awoken(w0, w, s1.list[m], Len(s1.list[m]))
  BY <1>3, <1>12
<1>14. Undispatched(s, w)
  <2>1. Settled(s) /\ m \in s.mutex
    OBVIOUS
  <2> QED
    BY ONLY <1>2, <1>5, <1>6, <1>13, <2>1, AwokenSettled
<1>15. r = ThreadDispatchReady(w)
  BY <1>1
<1> QED
  BY <1>5, <1>14, <1>15, DispatchHandled DEF Undispatched

-----------------------------------------------------------------------------
(* The handlers. *)

\* What the handlers find when a thread calls them.
LEMMA Called ==
  ASSUME Inv, NEW service, Call(service)
  PROVE  /\ Settled(k) /\ k.next = k.run /\ k.run \in Thread /\ k \in Kernel
         /\ k.mutex \in SUBSET Mutex /\ k.lock \in [Mutex -> Nat]
<1>1. Settled(k) /\ k.next = k.run /\ k.run \in Thread
  BY DEF Inv, Call
<1> QED
  BY <1>1, MutexFields

\* svcRtxMutexAcquire of a locked mutex
LEMMA AcquireWaitKept ==
  ASSUME Inv, NEW m \in Mutex, NEW d \in Delays \cup {Forever}, MutexAcquireWait(m, d)
  PROVE  MutexKept
<1> DEFINE s == MutexRaise(k, m, k.run)
           w == ThreadWaitEnter(s, "WaitingMutex", d)
           e == [w EXCEPT !.list[m] = ThreadListPut(w, @, s.run)]
           r == IF CanWait(s) THEN e ELSE s
<1>1. Call("Acquire") /\ m \in k.mutex /\ k.lock[m] # 0
  BY DEF MutexAcquireWait
<1>2. Settled(k) /\ k.next = k.run /\ k.run \in Thread /\ k \in Kernel
  BY <1>1, Called
<1>3. s = MutexRaise(k, m, k.run)
  OBVIOUS
<1>4. w = ThreadWaitEnter(s, "WaitingMutex", d)
  OBVIOUS
<1>5. e = [w EXCEPT !.list[m] = ThreadListPut(w, @, s.run)]
  OBVIOUS
<1>6. s.run = k.run => Return(r)
  BY DEF MutexAcquireWait
<1>7. r = IF CanWait(s) THEN e ELSE s
  OBVIOUS
<1> HIDE DEF s, w, e, r
<1>8. /\ Handled(k, s) /\ s.next = k.next /\ s.run = k.run /\ s.kernel = k.kernel
      /\ s.state = k.state /\ SameLocks(k, s)
  BY <1>1, <1>2, <1>3, RaiseHandled
<1>9. Handled(k, r)
  <2>1. CASE CanWait(s)
    <3>1. Settled(s) /\ s.next = s.run /\ s.run \in Thread
      BY <1>2, <1>8 DEF Handled
    <3>2. m \in s.mutex /\ s.lock[m] # 0
      BY <1>1, <1>8 DEF SameLocks
    <3>3. d \in (Nat \ {0}) \cup {Forever}
      BY ThreadAssumption
    <3>4. Handled(s, e)
      BY ONLY <1>4, <1>5, <2>1, <3>1, <3>2, <3>3, EnqueueHandled
    <3>5. Passes(k, e)
      <4>1. \A x \in Mutex : HolderIn(s, x) = HolderIn(k, x)
        BY <1>8 DEF SameLocks, HolderIn, Held
      <4>2. \A x \in Mutex : HolderIn(e, x) = HolderIn(s, x)
        <5>1. w.mutex = s.mutex /\ w.lock = s.lock /\ w.owner = s.owner
          <6>1. /\ s.kernel # "Ready" /\ Runs(s) /\ Good(s, {}) /\ s.ready # << >>
                /\ s.run = s.next /\ "WaitingMutex" \in Waiting
            BY <2>1, <3>1, Running DEF CanWait, Waiting
          <6>2. Waited(s, w, "WaitingMutex")
            BY <1>4, <3>3, <6>1, WaitEnterGood
          <6> QED
            BY <6>2 DEF Waited, Frame
        <5>2. e.mutex = w.mutex /\ e.lock = w.lock /\ e.owner = w.owner
          BY <1>5
        <5> QED
          BY <5>1, <5>2 DEF HolderIn, Held
      <4> QED
        BY <4>1, <4>2 DEF Passes
    <3> QED
      BY <1>7, <1>8, <2>1, <3>4, <3>5 DEF Handled
  <2>2. CASE ~CanWait(s)
    BY <1>7, <1>8, <2>2
  <2> QED
    BY <2>1, <2>2
<1> QED
  BY <1>6, <1>8, <1>9, MutexReturned

\* svcRtxMutexRelease of the last lock
LEMMA ReleaseKept ==
  ASSUME Inv, NEW m \in Mutex, MutexRelease(m)
  PROVE  MutexKept
<1> DEFINE q == ReleasedBy(k, m)
           r == ThreadDispatchReady(IF q.list[m] = << >> THEN q ELSE MutexHandOver(q, m))
<1>1. Call("Release") /\ m \in k.mutex /\ k.owner[m] = k.run /\ k.lock[m] # 0
  BY DEF MutexRelease
<1>2. Settled(k) /\ k.next = k.run /\ k.run \in Thread
  BY <1>1, Called
<1>3. Return(r)
  BY DEF MutexRelease, ReleasedBy
<1>4. q = ReleasedBy(k, m)
  OBVIOUS
<1>5. r = ThreadDispatchReady(IF q.list[m] = << >> THEN q ELSE MutexHandOver(q, m))
  OBVIOUS
<1> HIDE DEF q, r
<1>6. Handled(k, r)
  BY ONLY <1>1, <1>2, <1>4, <1>5, ReleaseHandled
<1> QED
  BY <1>3, <1>6, MutexReturned

\* svcRtxMutexDelete
LEMMA DeleteKept ==
  ASSUME Inv, NEW m \in Mutex, MutexDelete(m)
  PROVE  MutexKept
<1> DEFINE a == [k EXCEPT !.mutex = @ \ {m}]
           d == ThreadDispatchReady(MutexOwnerUnlock(a, m))
           r == IF k.lock[m] = 0 THEN a ELSE d
<1>1. Call("MutexDelete") /\ m \in k.mutex
  BY DEF MutexDelete
<1>2. Settled(k) /\ k.next = k.run /\ k.run \in Thread /\ k \in Kernel
  BY <1>1, Called
<1>3. Return(r)
  <2>1. a.lock = k.lock
    BY <1>2 DEF Kernel
  <2> QED
    BY <2>1 DEF MutexDelete
<1>4. a = [k EXCEPT !.mutex = @ \ {m}]
  OBVIOUS
<1>5. d = ThreadDispatchReady(MutexOwnerUnlock(a, m))
  OBVIOUS
<1>6. r = IF k.lock[m] = 0 THEN a ELSE d
  OBVIOUS
<1> HIDE DEF a, d, r
<1>7. k.lock[m] = 0 => Handled(k, a)
  BY ONLY <1>1, <1>2, <1>4, DeleteFreeHandled
<1>8. k.lock[m] # 0 => Handled(k, d)
  BY ONLY <1>1, <1>2, <1>4, <1>5, DeleteHandled
<1> QED
  BY <1>3, <1>6, <1>7, <1>8, MutexReturned

\* Every mutex function keeps Inv.
LEMMA MutexServiceKept ==
  ASSUME Inv, NEW m \in Mutex, MutexService(m)
  PROVE  MutexKept
<1>1. CASE MutexNew(m)
  <2> DEFINE r == [k EXCEPT !.mutex    = @ \cup {m},
                            !.list[m]  = << >>,
                            !.owner[m] = NoThread,
                            !.lock[m]  = 0]
  <2>1. Settled(k) /\ m \in Mutex \ k.mutex /\ Return(r)
    BY <1>1, Called DEF MutexNew
  <2>2. r = [k EXCEPT !.mutex = @ \cup {m}, !.list[m] = << >>,
                      !.owner[m] = NoThread, !.lock[m] = 0]
    OBVIOUS
  <2> HIDE DEF r
  <2>3. Handled(k, r)
    BY ONLY <2>1, <2>2, MutexNewHandled
  <2> QED
    BY <2>1, <2>3, MutexReturned
<1>2. CASE MutexAcquire(m)
  <2> DEFINE r == MutexTake(k, m, k.run)
  <2>1. Settled(k) /\ k.next = k.run /\ k.run \in Thread
    BY <1>2, Called DEF MutexAcquire
  <2>2. m \in k.mutex /\ k.lock[m] = 0 /\ Return(r)
    BY <1>2 DEF MutexAcquire
  <2>3. r = MutexTake(k, m, k.run)
    OBVIOUS
  <2> HIDE DEF r
  <2>4. Handled(k, r)
    BY ONLY <2>1, <2>2, <2>3, AcquireHandled
  <2> QED
    BY <2>2, <2>4, MutexReturned
<1>3. ASSUME NEW n \in Nat \ {0}, Return([k EXCEPT !.lock[m] = n]),
             m \in k.mutex, k.lock[m] # 0
      PROVE  MutexKept
  <2> DEFINE r == [k EXCEPT !.lock[m] = n]
  <2>1. r = [k EXCEPT !.lock[m] = n] /\ Settled(k)
    BY DEF Inv
  <2>2. Return(r)
    BY <1>3
  <2> HIDE DEF r
  <2>3. Handled(k, r)
    BY ONLY <1>3, <2>1, RelockHandled
  <2> QED
    BY <2>2, <2>3, MutexReturned
<1>4. CASE MutexAcquireAgain(m)
  <2>1. /\ m \in k.mutex /\ k.lock[m] \in Nat /\ k.lock[m] # 0
        /\ Return([k EXCEPT !.lock[m] = @ + 1])
    BY <1>4, Called, MutexAssumption DEF MutexAcquireAgain
  <2>2. k.lock[m] + 1 \in Nat \ {0}
    BY <2>1
  <2> QED
    BY <1>3, <2>1, <2>2
<1>5. CASE MutexReleaseOnce(m)
  <2>1. /\ m \in k.mutex /\ k.lock[m] \in Nat /\ k.lock[m] > 1
        /\ Return([k EXCEPT !.lock[m] = @ - 1])
    BY <1>5, Called DEF MutexReleaseOnce
  <2>2. k.lock[m] - 1 \in Nat \ {0} /\ k.lock[m] # 0
    BY <2>1
  <2> QED
    BY <1>3, <2>1, <2>2
<1>6. CASE \E timeout \in Delays \cup {Forever} : MutexAcquireWait(m, timeout)
  BY <1>6, AcquireWaitKept
<1>7. CASE MutexRelease(m)
  BY <1>7, ReleaseKept
<1>8. CASE MutexDelete(m)
  BY <1>8, DeleteKept
<1> QED
  BY <1>1, <1>2, <1>4, <1>5, <1>6, <1>7, <1>8 DEF MutexService

\* Every step keeps Inv, and passes the mutexes on as it may.
LEMMA MutexNextKept ==
  ASSUME Inv, JoinersLeftAlone, OwnersLive, [MutexNext]_vars
  PROVE  Inv' /\ Passes(k, k')
<1>1. CASE [Next]_vars
  BY <1>1, NextKept DEF Kept, Caught, Owning
<1>2. CASE \E m \in Mutex : MutexService(m)
  BY <1>2, MutexServiceKept DEF MutexKept
<1> QED
  BY <1>1, <1>2 DEF MutexNext

-----------------------------------------------------------------------------
(* The theorems. *)

\* The inductive invariant holds.
LEMMA MutexInvariant == JoinersLeftAlone /\ OwnersLive => (MutexSpec => []Inv)
<1> SUFFICES ASSUME JoinersLeftAlone, OwnersLive PROVE MutexSpec => []Inv
  OBVIOUS
<1>1. Init => Inv
  BY Initially
<1>2. Inv /\ [MutexNext]_vars => Inv'
  BY MutexNextKept
<1> QED
  BY <1>1, <1>2, PTL DEF MutexSpec

\* The invariant speaks of owners and of the living as the properties do.
LEMMA HolderIs ==
  /\ \A m \in Mutex : Holder(m) = HolderIn(k, m)
  /\ \A t \in Thread : Alive(t) <=> Lives(k, t)
<1> QED
  BY DEF Holder, HolderIn, Held, Alive, Lives

\* What the run checks of a state follows from the invariant.
LEMMA InvMutexes ==
  ASSUME Inv
  PROVE  MutexesConsistent /\ BoostEnds
<1>1. /\ k \in Kernel /\ Mutexes(k, {}) /\ Queues(k) /\ \A t \in Thread : Queued(k, t)
      /\ Object = Mutex /\ k.list \in [Object -> Seq(Thread)]
      /\ k.owned \in [Thread -> Seq(Mutex)] /\ NoThread \notin Thread
  BY MutexFields, KernelAssumption DEF Inv, Settled
<1>2. Placement
  BY InvConsistent DEF ThreadsConsistent
<1>3. ASSUME NEW t \in Thread, Alive(t)
      PROVE  /\ NoDuplicates(k.owned[t])
             /\ ToSet(k.owned[t]) = {m \in Mutex : Holder(m) = t}
             /\ k.priority[t] # k.base[t] => ToSet(k.owned[t]) \cap PrioInherit # {}
  <2>1. Owns(k, t)
    BY <1>1, <1>3, HolderIs DEF Mutexes
  <2>2. ToSet(k.owned[t]) \in SUBSET Mutex
    <3>1. k.owned[t] \in Seq(Mutex)
      BY <1>1
    <3> QED
      BY <3>1, ToSetIs
  <2>3. \A m \in Mutex : m \in ToSet(k.owned[t]) <=> Holder(m) = t
    BY <1>1, <2>1, HolderIs DEF Owns, HolderIn
  <2> QED
    BY <2>1, <2>2, <2>3 DEF Owns
<1>4. \A m \in Mutex : Holder(m) = NoThread => k.list[m] = << >>
  BY <1>1, HolderIs DEF Mutexes, HolderIn
<1>5. \A m \in Mutex : /\ NoDuplicates(k.list[m]) /\ SortedBy(k.list[m], k.priority)
                       /\ \A t \in ToSet(k.list[m]) : k.state[t] = "WaitingMutex"
  BY <1>1 DEF Queues, WaitKind
<1>6. \A m, n \in Mutex : \A t : t \in ToSet(k.list[m]) /\ t \in ToSet(k.list[n]) => m = n
  BY <1>1 DEF Queues
<1>7. \A t \in Thread : k.state[t] = "WaitingMutex" <=> \E m \in Mutex : t \in ToSet(k.list[m])
  BY <1>1, <1>5 DEF Queued, QueueStates
<1>8. MutexConsistent
  <2>1. \A m, n \in Mutex : m # n => ToSet(k.list[m]) \cap ToSet(k.list[n]) = {}
    BY <1>6
  <2>2. \A m \in Mutex : NoDuplicates(k.list[m])
    BY <1>5
  <2>3. \A t \in Thread : Alive(t) => /\ NoDuplicates(k.owned[t])
                                      /\ ToSet(k.owned[t]) = {m \in Mutex : Holder(m) = t}
    BY <1>3
  <2> QED
    BY ONLY <1>4, <1>7, <2>1, <2>2, <2>3 DEF MutexConsistent
<1>9. WaitersSorted
  BY <1>5 DEF WaitersSorted, SortedBy
<1>10. RobustPasses
  BY <1>1, HolderIs, KernelAssumption DEF RobustPasses, Mutexes, HolderIn
<1>11. BoostEnds
  BY <1>3 DEF BoostEnds
<1> QED
  BY <1>2, <1>8, <1>9, <1>10, <1>11 DEF MutexesConsistent

\* The mutexes, their owners and their waiters agree after every handler, for
\* any number of threads and mutexes: a locked mutex is in the list of its owner
\* and of nobody else, once; only locked mutexes have waiters, in the order of their
\* priorities; nobody waits for two; and no owner has ended (rtx_mutex.c), as long
\* as no thread ends that owns a mutex which is not robust.
THEOREM MutexesCorrect ==
  JoinersLeftAlone /\ OwnersLive => (MutexSpec => []MutexesConsistent)
<1>1. Inv => MutexesConsistent
  BY InvMutexes
<1> QED
  BY <1>1, MutexInvariant, PTL

\* No boost outlives the last priority-inheriting mutex of its thread, whatever
\* times out, is released, deleted or given another priority in between
\* (osRtxMutexOwnerRestore, svcRtxMutexRelease, osRtxMutexOwnerUnlock).
THEOREM BoostsEnd ==
  JoinersLeftAlone /\ OwnersLive => (MutexSpec => []BoostEnds)
<1>1. Inv => BoostEnds
  BY InvMutexes
<1> QED
  BY <1>1, MutexInvariant, PTL

\* The lists, the scheduler and the joins of RtxThread stay right when threads
\* wait for mutexes and owners are raised and lowered while they are in a list
\* (osRtxThreadListSort).
THEOREM MutexThreadsCorrect ==
  JoinersLeftAlone /\ OwnersLive => (MutexSpec => [](ThreadsConsistent /\ JoinConsistent))
<1>1. Inv => ThreadsConsistent /\ JoinConsistent
  BY InvConsistent
<1> QED
  BY <1>1, MutexInvariant, PTL

\* A step that keeps Passes gives mutexes away as OwnershipStable allows.
LEMMA PassesStable ==
  ASSUME Inv, Passes(k, k')
  PROVE  \A m \in Mutex :
           Holder(m) # NoThread /\ Holder(m)' # Holder(m)
             => /\ \/ k.run = Holder(m)
                   \/ k'.state[Holder(m)] \in {"Inactive", "Terminated"}
                   \/ m \notin k'.mutex
                /\ Holder(m)' # NoThread
                     => Holder(m)' = Head(RemoveFirst(k.list[m], Holder(m)))
<1>1. \A m \in Mutex : Holder(m) = HolderIn(k, m) /\ Holder(m)' = HolderIn(k', m)
  BY DEF Holder, HolderIn, Held
<1> QED
  BY <1>1 DEF Passes, Lives

\* Only its owner gives a mutex away, unless the owner ends or the mutex is
\* deleted, and the first of the waiters gets it, in every step of every thread
\* (svcRtxMutexRelease, osRtxMutexOwnerRelease, svcRtxMutexDelete).
THEOREM OwnershipCorrect ==
  JoinersLeftAlone /\ OwnersLive => (MutexSpec => OwnershipStable)
<1> SUFFICES ASSUME JoinersLeftAlone, OwnersLive PROVE MutexSpec => OwnershipStable
  OBVIOUS
<1> DEFINE Stable ==
      \A m \in Mutex :
        Holder(m) # NoThread /\ Holder(m)' # Holder(m)
          => /\ \/ k.run = Holder(m)
                \/ k'.state[Holder(m)] \in {"Inactive", "Terminated"}
                \/ m \notin k'.mutex
             /\ Holder(m)' # NoThread
                  => Holder(m)' = Head(RemoveFirst(k.list[m], Holder(m)))
<1>1. Inv /\ [MutexNext]_vars => [Stable]_vars
  BY MutexNextKept, PassesStable
<1>2. MutexSpec => []Inv
  BY MutexInvariant
<1>3. MutexSpec => [][Stable]_vars
  <2> HIDE DEF Stable
  <2> QED
    BY <1>1, <1>2, PTL DEF MutexSpec
<1> QED
  BY <1>3 DEF OwnershipStable

\* A step from the invariant to the invariant dispatches as Dispatched says.
LEMMA StepMutexDispatched ==
  ASSUME Inv, Inv', JoinersLeftAlone, OwnersLive, [MutexNext]_vars
  PROVE  /\ k.kernel = "Running" /\ k'.kernel = "Running" /\ HighestRuns => HighestRuns'
         /\ tick' # tick /\ k'.kernel = "Running" => HighestRuns'
<1>1. CASE [Next]_vars
  BY <1>1, StepDispatched
<1>2. CASE \E m \in Mutex : MutexService(m)
  <2>1. MutexKept
    BY <1>2, MutexServiceKept
  <2>2. /\ k.kernel = "Running" => (HighestRuns <=> Highest(k, {}))
        /\ k'.kernel = "Running" => (HighestRuns' <=> Highest(k', {}))
    BY TopIsHighest DEF Inv, HighestRuns, Top
  <2> QED
    BY <2>1, <2>2 DEF MutexKept
<1> QED
  BY <1>1, <1>2 DEF MutexNext

\* No handler leaves a thread ready above the running one if none was before, also
\* when it raises or lowers an owner or hands a mutex to a waiter, and each tick ends
\* without one (osRtxThreadDispatch).
THEOREM MutexDispatchCorrect ==
  JoinersLeftAlone /\ OwnersLive => (MutexSpec => Dispatched)
<1> SUFFICES ASSUME JoinersLeftAlone, OwnersLive PROVE MutexSpec => Dispatched
  OBVIOUS
<1>1. Inv /\ Inv' /\ [MutexNext]_vars
        => [k.kernel = "Running" /\ k'.kernel = "Running" /\ HighestRuns
              => HighestRuns']_vars
  BY StepMutexDispatched
<1>2. Inv /\ Inv' /\ [MutexNext]_vars
        => [tick' # tick /\ k'.kernel = "Running" => HighestRuns']_vars
  BY StepMutexDispatched
<1>3. QED
  <2>1. MutexSpec => []Inv
    BY MutexInvariant
  <2> QED
    BY <1>1, <1>2, <2>1, PTL DEF MutexSpec, Dispatched, PreemptionKept, TickDispatches

=============================================================================

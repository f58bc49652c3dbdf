--------------------------- MODULE RtxThreadProofs ---------------------------
(***************************************************************************)
(* The lists, the joins and the scheduler of RtxThread are right for all   *)
(* sets of threads, priorities, timeouts and time slices, as long as no    *)
(* program suspends or resumes a thread that joins (JoinersLeftAlone).     *)
(*                                                                         *)
(* The invariant says of the kernel record k between two handlers that it  *)
(* is settled.  Each service is shown to lead from a settled record to a   *)
(* settled one (the lemmas that end in Fine), with the lemmas of           *)
(* RtxKernelProofs for the functions that the service is composed of.      *)
(*                                                                         *)
(* The second half shows that the timeouts of the delay list are exact.    *)
(***************************************************************************)
EXTENDS RtxThread, RtxKernelProofs

-----------------------------------------------------------------------------
(* The inductive invariant. *)

\* Join: as JoinConsistent, and nobody joins itself.
JoinOK(s) ==
  /\ \A t \in Thread :
       s.state[t] # "Inactive" /\ s.joiner[t] # NoThread
         => /\ s.state[s.joiner[t]] = "WaitingJoin"
            /\ s.target[s.joiner[t]] = t
            /\ ~s.joinable[t]
  /\ \A t \in Thread :
       s.state[t] = "WaitingJoin"
         => /\ s.target[t] \in Thread \ {t}
            /\ s.state[s.target[t]] \notin {"Inactive", "Terminated"}
            /\ s.joiner[s.target[t]] = t
  /\ \A t \in Thread : s.state[t] = "Terminated" => s.joinable[t]

\* Before the kernel starts nobody is chosen to run and there is no idle thread.
Started(s) ==
  IF s.kernel = "Ready"
  THEN /\ s.next = NoThread /\ s.state[Idle] = "Inactive"
       /\ \A t \in Thread : s.state[t] # "Running"
  ELSE Runs(s)

\* A thread that waits to join waits without a timeout.
Plain(s) == \A t \in Thread : s.state[t] = "WaitingJoin" => t \in s.waitList

Lives(s, t) == s.state[t] \notin {"Inactive", "Terminated"}

Held(s, m) == m \in s.mutex /\ s.lock[m] # 0

\* The mutexes in the list of t are those it has locked, each once, and t has
\* another priority than its own only while one of them inherits.
Owns(s, t) ==
  /\ NoDuplicates(s.owned[t])
  /\ \A m \in Mutex : m \in ToSet(s.owned[t]) <=> Held(s, m) /\ s.owner[m] = t
  /\ s.priority[t] # s.base[t] => ToSet(s.owned[t]) \cap PrioInherit # {}

\* Every locked mutex has a live owner outside X, and no other has waiters.
Mutexes(s, X) ==
  /\ \A t \in Thread \ X : Lives(s, t) => Owns(s, t)
  /\ \A m \in Mutex : Held(s, m) => s.owner[m] \in Thread \ X /\ Lives(s, s.owner[m])
  /\ \A m \in Mutex : ~Held(s, m) => s.list[m] = << >>

Settled(s) ==
  /\ Good(s, {}) /\ Started(s) /\ JoinOK(s) /\ Plain(s)
  /\ Queues(s) /\ Mutexes(s, {})
  /\ \A t \in Thread : Queued(s, t)

HolderIn(s, m) == IF Held(s, m) THEN s.owner[m] ELSE NoThread

\* From s to r a mutex leaves its owner only if the owner runs or ends or the mutex
\* is deleted, and the first waiter gets it.
Passes(s, r) ==
  \A m \in Mutex : HolderIn(s, m) # NoThread /\ HolderIn(r, m) # HolderIn(s, m) =>
    /\ \/ s.run = HolderIn(s, m)
       \/ ~Lives(r, HolderIn(s, m))
       \/ m \notin r.mutex
    /\ HolderIn(r, m) # NoThread
         => HolderIn(r, m) = Head(RemoveFirst(s.list[m], HolderIn(s, m)))

Unowned(s) == \A t \in Thread : s.owned[t] = << >>

\* A handler that is no call of a mutex function gives mutexes only to those who
\* wait for one, in their order.
Owning(s, r) == Passes(s, r) /\ (Unowned(s) => Unowned(r))

\* From s to r nobody starts to wait for an object or comes into another list.
Calm(s, r) ==
  /\ \A o \in Object : \A u \in Thread : u \in ToSet(r.list[o]) => u \in ToSet(s.list[o])
  /\ \A u \in Thread : r.state[u] \in QueueStates => r.state[u] = s.state[u]

\* The record a handler leaves is settled, and the running thread is not one that
\* should be preempted if it was not before.
Fine(s, r) ==
  /\ Settled(r) /\ Owning(s, r) /\ (Unowned(s) => Calm(s, r))
  /\ s.kernel = "Running" /\ r.kernel = "Running" /\ Highest(s, {}) => Highest(r, {})

Inv == Settled(k) /\ k.next = k.run /\ tick \in 0..TickMod-1

\* The types of the fields a join uses.
LEMMA JoinFields ==
  ASSUME NEW s \in Kernel
  PROVE  /\ s.joiner \in [Thread -> Thread \cup {NoThread}]
         /\ s.target \in [Thread -> Thread \cup {NoThread}]
         /\ s.joinable \in [Thread -> BOOLEAN]
         /\ s.state \in [Thread -> ThreadState]
         /\ NoThread \notin Thread
BY KernelAssumption DEF Kernel

\* The same threads are unused, have ended and wait to join.
SameLives(s, r) ==
  \A u \in Thread : /\ r.state[u] = "Inactive" <=> s.state[u] = "Inactive"
                    /\ r.state[u] = "Terminated" <=> s.state[u] = "Terminated"
                    /\ r.state[u] = "WaitingJoin" <=> s.state[u] = "WaitingJoin"

\* Joins depend on who lives and who waits to join.
LEMMA JoinKept ==
  ASSUME NEW s \in Kernel, NEW r \in Kernel, JoinOK(s), SameLives(s, r),
         r.joinable = s.joinable, r.joiner = s.joiner, r.target = s.target
  PROVE  JoinOK(r)
BY JoinFields DEF SameLives, JoinOK

SameLocks(s, r) ==
  /\ r.owned = s.owned /\ r.mutex = s.mutex /\ r.owner = s.owner /\ r.lock = s.lock

\* Only a list that held someone may hold someone.
SameEmpty(s, r) == \A o \in Object : s.list[o] = << >> => r.list[o] = << >>

\* Owners of inheriting mutexes may get any priority, others their own.
SameBoost(s, r) ==
  \A u \in Thread : \/ r.priority[u] = s.priority[u] /\ r.base[u] = s.base[u]
                    \/ r.priority[u] = r.base[u]
                    \/ ToSet(s.owned[u]) \cap PrioInherit # {}

\* The mutexes stay right when nothing is locked or unlocked.
LEMMA MutexesAlike ==
  ASSUME NEW s, NEW r, NEW X, Mutexes(s, X), SameLocks(s, r),
         SameEmpty(s, r), SameBoost(s, r),
         \A u \in Thread : Lives(r, u) <=> Lives(s, u)
  PROVE  Mutexes(r, X)
<1>1. Mutex \subseteq Object
  BY KernelAssumption
<1>2. /\ r.owned = s.owned /\ r.mutex = s.mutex /\ r.owner = s.owner /\ r.lock = s.lock
      /\ \A u \in Thread : Lives(r, u) <=> Lives(s, u)
      /\ \A m : Held(r, m) <=> Held(s, m)
  BY DEF SameLocks, Held
<1>3. ASSUME NEW t \in Thread \ X, Lives(r, t) PROVE Owns(r, t)
  <2>1. Owns(s, t)
    BY <1>2, <1>3 DEF Mutexes
  <2> QED
    BY <1>2, <2>1 DEF Owns, SameBoost
<1>4. ASSUME NEW m \in Mutex, Held(r, m)
      PROVE  r.owner[m] \in Thread \ X /\ Lives(r, r.owner[m])
  BY <1>2, <1>4 DEF Mutexes
<1>5. ASSUME NEW m \in Mutex, ~Held(r, m) PROVE r.list[m] = << >>
  BY <1>1, <1>2, <1>5 DEF Mutexes, SameEmpty
<1> QED
  BY <1>3, <1>4, <1>5 DEF Mutexes

\* They do when the same threads live.
LEMMA MutexesKept ==
  ASSUME NEW s, NEW r, NEW X, Mutexes(s, X), SameLives(s, r), SameLocks(s, r),
         SameEmpty(s, r), SameBoost(s, r)
  PROVE  Mutexes(r, X)
BY MutexesAlike DEF SameLives, Lives

\* A mutex that threads wait for is in the list of its owner.
LEMMA MutexesOwners ==
  ASSUME NEW s, Mutexes(s, {})
  PROVE  Owners(s)
BY DEF Mutexes, Owners, Owns

\* The tick finds the lists of the objects and the mutexes in order.
LEMMA SettledListed ==
  ASSUME NEW s, Settled(s)
  PROVE  Listed(s)
BY MutexesOwners DEF Settled, Listed

\* Where no mutex changes hands nobody gets one.
LEMMA OwningKept ==
  ASSUME NEW s, NEW r, r.mutex = s.mutex, r.owner = s.owner, r.lock = s.lock,
         \A u \in Thread : r.owned[u] = s.owned[u] \/ r.owned[u] = << >>
  PROVE  Owning(s, r)
BY DEF Owning, Passes, Unowned, HolderIn, Held

\* Who gets a mutex is settled when the mutex functions have been called.
LEMMA OwningThen ==
  ASSUME NEW s \in Kernel, NEW q, Owning(s, q), NEW r, SameLocks(q, r), SameLives(q, r)
  PROVE  Owning(s, r)
<1>1. \A m \in Mutex : HolderIn(r, m) = HolderIn(q, m)
  BY DEF SameLocks, HolderIn, Held
<1>2. \A u \in Thread : Lives(r, u) <=> Lives(q, u)
  BY DEF SameLives, Lives
<1>3. \A m \in Mutex : HolderIn(s, m) # NoThread => HolderIn(s, m) \in Thread
  BY Fields DEF HolderIn
<1> QED
  BY <1>1, <1>2, <1>3 DEF Owning, Passes, Unowned, SameLocks

\* One calm change after another.
LEMMA CalmThen ==
  ASSUME NEW s, NEW q, NEW r, Calm(s, q), Calm(q, r)
  PROVE  Calm(s, r)
BY DEF Calm

\* Changes of other fields are calm, scheduling is, and threads that time out are.
LEMMA SameCalm ==
  ASSUME NEW s, NEW r, r.list = s.list, r.state = s.state
  PROVE  Calm(s, r)
BY DEF Calm

LEMMA KeepsCalm ==
  ASSUME NEW s, NEW X, NEW r, Keeps(s, r, X),
         \A u \in X : r.state[u] \notin QueueStates
  PROVE  Calm(s, r)
<1>1. ASSUME NEW u \in Thread \ X, r.state[u] \in QueueStates PROVE r.state[u] = s.state[u]
  <2>1. Life(r.state[u]) = Life(s.state[u]) /\ "Live" \notin QueueStates
    BY DEF Keeps, QueueStates
  <2> QED
    BY <1>1, <2>1 DEF Life
<1> QED
  BY <1>1 DEF Keeps, Frame, Calm

LEMMA TickedCalm ==
  ASSUME NEW s, NEW r, TickedOnly(s, r)
  PROVE  Calm(s, r)
BY DEF TickedOnly, Calm, QueueStates

\* What scheduling cannot disturb.
LEMMA KeepsJoin ==
  ASSUME NEW s \in Kernel, NEW r \in Kernel, JoinOK(s), Plain(s), Keeps(s, r, {})
  PROVE  JoinOK(r) /\ Plain(r) /\ SameLives(s, r)
<1>1. SameLives(s, r)
  BY DEF Keeps, Life, QueueStates, SameLives
<1>2. /\ \A u \in Thread : u \in s.waitList /\ r.state[u] = "WaitingJoin" => u \in r.waitList
      /\ r.joinable = s.joinable /\ r.joiner = s.joiner /\ r.target = s.target
  BY DEF Keeps, Frame
<1>3. Plain(r)
  BY <1>1, <1>2 DEF Plain, SameLives
<1> QED
  BY <1>1, <1>2, <1>3, JoinKept

\* Scheduling keeps the mutexes and who waits for them.
LEMMA KeepsMutexes ==
  ASSUME NEW s \in Kernel, NEW r \in Kernel, JoinOK(s), Plain(s), Keeps(s, r, {}),
         Queues(s), Mutexes(s, {}), \A t \in Thread : Queued(s, t)
  PROVE  /\ Queues(r) /\ Mutexes(r, {}) /\ Owning(s, r)
         /\ \A t \in Thread : Queued(r, t)
<1>1. SameLives(s, r)
  BY KeepsJoin
<1>2. SameLocks(s, r) /\ SameEmpty(s, r) /\ SameBoost(s, r)
  BY DEF Keeps, Frame, SameLocks, SameEmpty, SameBoost
<1>3. Mutexes(r, {}) /\ Owning(s, r)
  BY <1>1, <1>2, MutexesKept, OwningKept DEF SameLocks
<1>4. {} \in SUBSET Thread /\ \A t \in {} : Unqueued(s, t)
  OBVIOUS
<1>5. /\ Queues(r)
      /\ \A t \in Thread \ {} : Queued(s, t) => Queued(r, t)
  BY ONLY s \in Kernel, Queues(s), Keeps(s, r, {}), <1>4, KeepsQueues
<1> QED
  BY <1>3, <1>5

\* A record with the scheduler running that another comes from by scheduling only.
LEMMA KeepsSettled ==
  ASSUME NEW s, Settled(s), NEW r, Good(r, {}), Keeps(s, r, {}), Runs(r),
         s.kernel # "Ready"
  PROVE  Settled(r) /\ Owning(s, r)
<1>1. s \in Kernel /\ r \in Kernel
  BY DEF Settled, Good, Linked
<1>2. JoinOK(r) /\ Plain(r)
  BY <1>1, KeepsJoin DEF Settled
<1>3. r.kernel = s.kernel
  BY DEF Keeps, Frame
<1>4. /\ Queues(r) /\ Mutexes(r, {}) /\ Owning(s, r)
      /\ \A t \in Thread : Queued(r, t)
  BY <1>1, KeepsMutexes DEF Settled
<1> QED
  BY <1>2, <1>3, <1>4 DEF Settled, Started

\* A record that differs in no field of the lists, the joins and the mutexes.
LEMMA SameSettled ==
  ASSUME NEW s, Good(s, {}), Plain(s), Queues(s), Mutexes(s, {}),
         \A t \in Thread : Queued(s, t),
         NEW r \in Kernel, SameLinks(s, r), SameLocks(s, r),
         r.base = s.base, JoinOK(r), Started(r)
  PROVE  Settled(r) /\ Owning(s, r)
<1>1. s \in Kernel /\ Good(s, {}) /\ {} \in SUBSET Thread
  BY DEF Good, Linked
<1>2. Good(r, {})
  BY <1>1, LinksKept
<1>3. Plain(r) /\ \A t \in Thread : Queued(r, t)
  BY DEF SameLinks, Plain, Queued
<1>4. Queues(r)
  BY <1>1, QueuesKept DEF SameLinks
<1>5. SameLives(s, r) /\ SameEmpty(s, r) /\ SameBoost(s, r)
  BY DEF SameLinks, SameLives, SameEmpty, SameBoost
<1>6. Mutexes(r, {}) /\ Owning(s, r)
  BY <1>5, MutexesKept, OwningKept DEF SameLocks
<1> QED
  BY <1>2, <1>3, <1>4, <1>6 DEF Settled

\* The return from the exception changes run.curr only.
LEMMA ReturnSettled ==
  ASSUME NEW s, Settled(s), NEW r, r = ContextSwitch(s)
  PROVE  /\ Settled(r) /\ r.next = r.run /\ r.next = s.next /\ r.kernel = s.kernel
         /\ Highest(s, {}) => Highest(r, {})
         /\ SameLocks(s, r) /\ SameLives(s, r) /\ r.list = s.list /\ r.state = s.state
<1>1. s \in Kernel /\ Good(s, {})
  BY DEF Settled, Good, Linked
<1>2. /\ r.joiner = s.joiner /\ r.target = s.target /\ r.joinable = s.joinable
      /\ r.kernel = s.kernel /\ r.next = s.next /\ r.run = s.next /\ r.base = s.base
      /\ SameLinks(s, r) /\ SameLocks(s, r)
  BY <1>1 DEF Kernel, ContextSwitch, SameLinks, SameLocks
<1>3. r \in Kernel
  BY <1>1 DEF Kernel, ContextSwitch
<1>4. JoinOK(r) /\ Started(r)
  BY <1>2 DEF Settled, Started, Runs, JoinOK, SameLinks
<1>5. Settled(r)
  BY <1>2, <1>3, <1>4, SameSettled DEF Settled
<1>6. SameLocks(s, r) /\ SameLives(s, r)
  BY <1>2 DEF SameLinks, SameLives
<1> QED
  BY <1>2, <1>5, <1>6 DEF Highest, SameLinks

\* The running thread of a settled record.
LEMMA Running ==
  ASSUME NEW s, Settled(s), s.next = s.run, s.run \in Thread \/ s.kernel # "Ready"
  PROVE  /\ s.kernel # "Ready" /\ Runs(s) /\ Good(s, {}) /\ s \in Kernel
         /\ s.run \in Thread /\ s.state[s.run] = "Running"
         /\ \A t \in Thread : s.state[t] = "Running" <=> t = s.run
BY KernelAssumption DEF Settled, Started, Runs, Good, Linked

\* Lists without members are empty.
LEMMA EmptySet ==
  ASSUME NEW f \in [Object -> Seq(Thread)], NEW g \in [Object -> Seq(Thread)],
         \A o \in Object : \A u \in Thread : u \in ToSet(g[o]) => u \in ToSet(f[o]),
         NEW o \in Object, f[o] = << >>
  PROVE  g[o] = << >>
<1>1. f[o] \in Seq(Thread) /\ g[o] \in Seq(Thread)
  OBVIOUS
<1>2. SUFFICES ASSUME g[o] # << >> PROVE FALSE
  OBVIOUS
<1>3. Len(g[o]) >= 1 /\ g[o][1] \in Thread
  BY <1>1, <1>2
<1>4. g[o][1] \in ToSet(g[o])
  BY <1>1, <1>3, ToSetIs
<1>5. g[o][1] \in ToSet(f[o])
  BY <1>3, <1>4
<1> QED
  BY <1>1, <1>5, ToSetIs

-----------------------------------------------------------------------------
(* Services that only schedule. *)

\* svcRtxThreadYield
LEMMA YieldFine ==
  ASSUME NEW s, Settled(s), s.next = s.run, s.run \in Thread, s.ready # << >>,
         s.priority[Head(s.ready)] = s.priority[s.run],
         NEW r, r = ThreadSwitch(ThreadReadyPut([s EXCEPT !.ready = Tail(@)], s.run),
                                 Head(s.ready))
  PROVE  Fine(s, r)
<1>1. Runs(s) /\ Good(s, {}) /\ s.kernel # "Ready"
  BY Running
<1>2. r = Rotated(s)
  BY DEF Rotated, Popped
<1>3. /\ Good(r, {}) /\ Keeps(s, r, {}) /\ Runs(r)
      /\ Highest(s, {}) => Highest(r, {})
  BY <1>1, <1>2, RotatedGood
<1> QED
  BY <1>1, <1>3, KeepsSettled, KeepsCalm DEF Fine

\* svcRtxDelay, svcRtxDelayUntil: any wait but one to join or for a mutex.
LEMMA WaitFine ==
  ASSUME NEW s, Settled(s), s.next = s.run, s.run \in Thread, CanWait(s),
         NEW d \in Nat \ {0},
         NEW r, r = ThreadWaitEnter(s, "WaitingDelay", d)
  PROVE  Fine(s, r)
<1>1. Runs(s) /\ Good(s, {}) /\ s.kernel # "Ready" /\ s.run = s.next
  BY Running
<1>2. "WaitingDelay" \in Waiting /\ d \in (Nat \ {0}) \cup {Forever} /\ s.ready # << >>
  BY DEF Waiting, CanWait
<1>3. Good(r, {}) /\ Waited(s, r, "WaitingDelay")
  BY <1>1, <1>2, WaitEnterGood
<1>4. Keeps(s, r, {})
  <2>1. s.state \in [Thread -> ThreadState] /\ s.state[s.run] = "Running"
    BY <1>1, Fields DEF Good, Linked, Runs
  <2>2. \A u \in Thread : Life(r.state[u]) = Life(s.state[u])
    BY <1>3, <2>1 DEF Life, QueueStates, Waited
  <2> QED
    BY <1>3, <2>2 DEF Keeps, Waited
<1> QED
  BY <1>1, <1>3, <1>4, KeepsSettled, KeepsCalm DEF Fine, Waited

\* c has joined the list of o.
Enqueued(s, r, o, c) ==
  r.list \in [Object -> Seq(Thread)] /\ ToSet(r.list[o]) = ToSet(s.list[o]) \cup {c}

\* The lists of the objects with a waiter more.
LEMMA PutQueues ==
  ASSUME NEW s \in Kernel, Queues(s), NEW m \in Object, NEW x \in WaitKind(m),
         NEW c \in Thread, Unqueued(s, c), NEW r,
         r.priority = s.priority, r.state[c] = x,
         r.list = [s.list EXCEPT ![m] = ThreadListPut(s, s.list[m], c)],
         \A u \in Thread \ {c} : r.state[u] = s.state[u] \/ Unqueued(s, u)
  PROVE  Queues(r) /\ Enqueued(s, r, m, c)
<1> DEFINE q == s.list[m]
           p == s.priority[c]
           z == InsertBelow(q, s.priority, p, c)
<1>1. /\ s.list \in [Object -> Seq(Thread)] /\ s.priority \in [Thread -> Nat]
      /\ s.state \in [Thread -> ThreadState]
  BY Fields
<1>2. q \in Seq(Thread) /\ NoDuplicates(q) /\ SortedBy(q, s.priority) /\ c \notin ToSet(q)
  BY <1>1 DEF Queues, Unqueued
<1>3. p \in {s.priority[c], s.priority[c] + 1}
  OBVIOUS
<1>4. ThreadListPut(s, q, c) = z
  BY DEF ThreadListPut
<1> HIDE DEF p
<1>5. /\ z \in Seq(Thread) /\ NoDuplicates(z) /\ ToSet(z) = ToSet(q) \cup {c}
      /\ SortedBy(z, s.priority)
  BY <1>1, <1>2, <1>3, InsertBelowList
<1> HIDE DEF z
<1>6. /\ r.list[m] = z /\ \A o \in Object \ {m} : r.list[o] = s.list[o]
      /\ r.list \in [Object -> Seq(Thread)]
  BY <1>1, <1>4, <1>5
<1> HIDE DEF q
<1>7. \A o \in Object : /\ ToSet(r.list[o]) \in SUBSET Thread
                        /\ \A u \in ToSet(r.list[o]) :
                             u # c => u \in ToSet(s.list[o]) /\ r.state[u] = s.state[u]
  <2>1. ASSUME NEW o \in Object
        PROVE  ToSet(s.list[o]) \in SUBSET Thread /\ ToSet(r.list[o]) \in SUBSET Thread
    BY <1>1, <1>6, ToSetIs
  <2>2. \A o \in Object : \A u \in ToSet(r.list[o]) : u # c => u \in ToSet(s.list[o])
    BY <1>5, <1>6 DEF q
  <2> QED
    BY <2>1, <2>2 DEF Unqueued
<1>8. \A o \in Object : c \in ToSet(r.list[o]) => o = m
  BY <1>6 DEF Unqueued
<1>9. Queues(r)
  <2>1. \A o \in Object : NoDuplicates(r.list[o]) /\ SortedBy(r.list[o], r.priority)
    BY <1>5, <1>6 DEF Queues
  <2>2. \A o \in Object : \A u \in ToSet(r.list[o]) : r.state[u] \in WaitKind(o)
    BY <1>7, <1>8 DEF Queues
  <2>3. \A o, y \in Object : \A u : u \in ToSet(r.list[o]) /\ u \in ToSet(r.list[y]) => o = y
    BY <1>7, <1>8 DEF Queues
  <2> QED
    BY <2>1, <2>2, <2>3 DEF Queues
<1> QED
  BY <1>5, <1>6, <1>9 DEF q, Enqueued

\* The thread c has started to wait in state x in the list of o.
Enqueues(s, r, o, c, x) ==
  /\ r.run = s.run /\ r.kernel = s.kernel /\ Highest(r, {})
  /\ SameLives(s, r) /\ SameLocks(s, r)
  /\ \A p \in Object \ {o} : r.list[p] = s.list[p]
  /\ ToSet(r.list[o]) = ToSet(s.list[o]) \cup {c}
  /\ r.state[c] = x
  /\ \A u \in Thread \ {c} : r.state[u] \in QueueStates => r.state[u] = s.state[u]

\* The services that can wait: the running thread waits for the object m, which is
\* locked if it is a mutex.
LEMMA EnqueueGood ==
  ASSUME NEW s, Settled(s), s.next = s.run, s.run \in Thread, CanWait(s),
         NEW m \in Object, m \in Mutex => Held(s, m), NEW x \in WaitKind(m),
         NEW d \in (Nat \ {0}) \cup {Forever},
         NEW w, w = ThreadWaitEnter(s, x, d),
         NEW r, r = [w EXCEPT !.list[m] = ThreadListPut(w, @, s.run)]
  PROVE  Settled(r) /\ Enqueues(s, r, m, s.run, x)
<1> DEFINE c == s.run
<1>1. /\ s \in Kernel /\ Mutexes(s, {}) /\ Good(s, {})
      /\ {} \in SUBSET Thread /\ Queues(s) /\ s.state \in [Thread -> ThreadState]
      /\ s.list \in [Object -> Seq(Thread)] /\ Mutex \in SUBSET Object
      /\ JoinOK(s) /\ Plain(s) /\ Started(s) /\ \A t \in Thread : Queued(s, t)
  BY Fields, KernelAssumption DEF Settled, Good, Linked
<1>2. m \in Object /\ x \in QueueStates /\ x \notin {"Inactive", "Terminated", "WaitingJoin",
                                                 "Ready", "Running"}
  BY DEF WaitKind, QueueStates
<1>3. /\ Runs(s) /\ s.kernel # "Ready" /\ s.state[c] = "Running"
      /\ s.kernel = "Running" /\ s.ready # << >>
  BY Running DEF CanWait
<1>4. x \in Waiting
  BY <1>2 DEF Waiting, QueueStates
<1>5. Good(w, {}) /\ Waited(s, w, x)
  BY ONLY <1>1, <1>3, <1>4, s.next = s.run, d \in (Nat \ {0}) \cup {Forever},
     w = ThreadWaitEnter(s, x, d), WaitEnterGood
<1>6. Unqueued(s, c)
  BY <1>1, <1>3, QueuedWait DEF QueueStates
<1>7. /\ w \in Kernel /\ w.list = s.list /\ w.priority = s.priority /\ w.next \in Thread
      /\ w.next # c /\ s.state[w.next] = "Ready"
      /\ w.state = [[s.state EXCEPT ![c] = x] EXCEPT ![w.next] = "Running"]
      /\ w.mutex = s.mutex /\ w.owner = s.owner /\ w.lock = s.lock /\ w.owned = s.owned
      /\ w.base = s.base /\ w.kernel = s.kernel /\ Runs(w) /\ Highest(w, {})
      /\ w.joinable = s.joinable /\ w.joiner = s.joiner /\ w.target = s.target
      /\ s.waitList \in SUBSET w.waitList
  BY <1>5 DEF Waited, Frame, Runs, Good, Linked
<1>8. c \in Thread /\ c = s.run
  OBVIOUS
<1> HIDE DEF c
<1>9. /\ w.state[c] = x /\ w.state[w.next] = "Running"
      /\ \A u \in Thread \ {c, w.next} : w.state[u] = s.state[u]
  BY <1>1, <1>7, <1>8
<1>10. Unqueued(s, w.next)
  BY <1>1, <1>7, QueuedWait DEF QueueStates
<1>11. Queues(w) /\ Unqueued(w, c)
  <2>1. \A t \in Thread : Unqueued(s, t) \/ w.state[t] = s.state[t]
    BY <1>6, <1>9, <1>10
  <2>2. Queues(w)
    BY ONLY <1>1, <1>7, <2>1, QueuesKept
  <2> QED
    BY <1>6, <1>7, <2>2 DEF Unqueued
<1>12. /\ r.list = [w.list EXCEPT ![m] = ThreadListPut(w, w.list[m], c)]
       /\ SamePlaces(w, r) /\ r.next = w.next /\ r.run = w.run /\ r.kernel = w.kernel
       /\ r.mutex = w.mutex /\ r.owner = w.owner /\ r.lock = w.lock /\ r.owned = w.owned
       /\ r.base = w.base
       /\ r.joinable = w.joinable /\ r.joiner = w.joiner /\ r.target = w.target
  BY <1>1, <1>7, <1>8 DEF Kernel, SamePlaces
<1>13. /\ r.priority = w.priority /\ r.state = w.state /\ r.waitList = w.waitList
  BY <1>12 DEF SamePlaces
<1>14. /\ r.list \in [Object -> Seq(Thread)] /\ Queues(r)
       /\ ToSet(r.list[m]) = ToSet(w.list[m]) \cup {c}
  <2>1. /\ w \in Kernel /\ m \in Object /\ c \in Thread /\ r.state[c] = x
        /\ r.list = [w.list EXCEPT ![m] = ThreadListPut(w, w.list[m], c)]
        /\ r.priority = w.priority
        /\ \A u \in Thread \ {c} : r.state[u] = w.state[u] \/ Unqueued(w, u)
    BY <1>2, <1>7, <1>8, <1>9, <1>12, <1>13
  <2>2. Queues(r) /\ Enqueued(w, r, m, c)
    BY ONLY <1>2, <1>11, <2>1, PutQueues
  <2> QED
    BY <2>2 DEF Enqueued
<1>15. r \in Kernel /\ Good(r, {})
  <2>1. ThreadListPut(w, w.list[m], c) \in Seq(Thread)
    BY <1>1, <1>2, <1>7, <1>12, <1>14
  <2>2. r \in Kernel
    BY <1>2, <1>7, <1>8, <2>1, WithList
  <2> QED
    BY <1>1, <1>5, <1>12, <2>2, PlacesKept
<1>16. SameLives(s, r) /\ SameLocks(s, r)
  <2>1. r.state = w.state /\ s.state[w.next] = "Ready" /\ s.state[c] = "Running"
    BY <1>3, <1>7, <1>8, <1>13
  <2>2. SameLives(s, r)
    BY <1>2, <1>9, <2>1 DEF SameLives
  <2> QED
    BY <1>7, <1>12, <2>2 DEF SameLocks
<1>17. Mutexes(r, {})
  <2>1. \A u \in Thread : Lives(r, u) <=> Lives(s, u)
    BY <1>16 DEF SameLives, Lives
  <2>2. /\ \A y \in Mutex : Held(r, y) <=> Held(s, y)
        /\ r.owner = s.owner
    BY <1>16 DEF SameLocks, Held
  <2>3. \A u \in Thread : Owns(s, u) => Owns(r, u)
    BY <1>7, <1>12, <1>13, <1>16, <2>2 DEF Owns, SameLocks
  <2>4. \A y \in Mutex : ~Held(r, y) => r.list[y] = << >>
    <3>1. \A y \in Mutex \ {m} : r.list[y] = s.list[y]
      BY <1>1, <1>7, <1>12
    <3> QED
      BY <1>1, <1>2, <2>2, <3>1 DEF Mutexes
  <2> QED
    BY <1>1, <2>1, <2>2, <2>3, <2>4 DEF Mutexes
<1>18. \A u \in Thread : Queued(r, u)
  <2>1. Queued(r, c)
    BY <1>2, <1>14 DEF Queued
  <2>2. Queued(r, w.next)
    BY <1>9, <1>13 DEF Queued, QueueStates
  <2>3. ASSUME NEW u \in Thread \ {c, w.next} PROVE Queued(r, u)
    <3>1. \A o \in Object \ {m} : r.list[o] = s.list[o]
      BY <1>1, <1>7, <1>12
    <3>2. \A o \in Object : u \in ToSet(s.list[o]) => u \in ToSet(r.list[o])
      BY <1>7, <1>14, <3>1
    <3>3. r.state[u] = s.state[u] /\ Queued(s, u)
      BY <1>1, <1>9, <1>13
    <3> QED
      BY <3>2, <3>3 DEF Queued
  <2> QED
    BY <2>1, <2>2, <2>3
<1>19. JoinOK(r) /\ Plain(r) /\ Started(r)
  <2>1. JoinOK(r)
    <3>1. r.joinable = s.joinable /\ r.joiner = s.joiner /\ r.target = s.target
      BY <1>7, <1>12
    <3> QED
      BY ONLY <1>1, <1>15, <1>16, <3>1, JoinKept
  <2>2. Plain(r)
    BY <1>1, <1>7, <1>13, <1>16 DEF Plain, SameLives
  <2>3. Started(r)
    <3>1. r.kernel = s.kernel /\ r.next = w.next /\ r.state = w.state /\ Runs(w)
      BY <1>7, <1>12, <1>13
    <3> QED
      BY <1>3, <3>1 DEF Started, Runs
  <2> QED
    BY <2>1, <2>2, <2>3
<1>20. Settled(r)
  BY <1>14, <1>15, <1>17, <1>18, <1>19 DEF Settled
<1>21. Highest(r, {})
  BY <1>7, <1>12, <1>13 DEF Highest
<1>22. \A p \in Object \ {m} : r.list[p] = s.list[p]
  BY <1>1, <1>7, <1>12
<1>23. \A u \in Thread \ {c} : r.state[u] \in QueueStates => r.state[u] = s.state[u]
  BY <1>9, <1>13 DEF QueueStates
<1>24. Enqueues(s, r, m, c, x)
  BY <1>5, <1>7, <1>9, <1>12, <1>13, <1>14, <1>16, <1>21, <1>22, <1>23 DEF Enqueues, Waited, Frame
<1> QED
  BY <1>8, <1>20, <1>24

\* svcRtxThreadSetPriority
LEMMA SetPriorityFine ==
  ASSUME NEW s, Settled(s), s.next = s.run, s.run \in Thread,
         NEW t \in Thread, NEW p \in Priority,
         NEW r, r = ThreadDispatchReady(Reprioritized(s, t, p))
  PROVE  Fine(s, r)
<1> DEFINE s1 == Reprioritized(s, t, p)
<1>1. Runs(s) /\ Good(s, {}) /\ s.kernel # "Ready"
  BY Running
<1>2. Good(s1, {}) /\ Queues(s1) /\ ReprioritizedOnly(s, s1, t, p)
  BY <1>1, ReprioritizedGood DEF Settled
<1> HIDE DEF s1
<1>3. /\ Settled(s1) /\ Runs(s1) /\ s1.run = s1.next /\ s1.kernel = s.kernel
      /\ Owning(s, s1)
  <2>1. /\ JoinOK(s1) /\ Plain(s1) /\ Started(s1) /\ Runs(s1) /\ s1.run = s1.next
        /\ s1.kernel = s.kernel
    BY <1>1, <1>2 DEF Settled, Started, Runs, JoinOK, Plain, ReprioritizedOnly
  <2>2. SameLives(s, s1) /\ SameLocks(s, s1)
    BY <1>2 DEF ReprioritizedOnly, SameLives, SameLocks
  <2>3. /\ s.priority \in [Thread -> Priority] /\ s.base \in [Thread -> Priority]
        /\ s.list \in [Object -> Seq(Thread)] /\ s1.list \in [Object -> Seq(Thread)]
    BY <1>1, <1>2, Fields DEF Good, Linked
  <2>4. SameBoost(s, s1)
    BY <1>2, <2>3 DEF ReprioritizedOnly, SameBoost
  <2>5. SameEmpty(s, s1)
    <3>1. \A o \in Object : \A u \in Thread : u \in ToSet(s1.list[o]) => u \in ToSet(s.list[o])
      BY <1>2 DEF ReprioritizedOnly
    <3>2. ASSUME NEW o \in Object, s.list[o] = << >> PROVE s1.list[o] = << >>
      BY ONLY <2>3, <3>1, <3>2, EmptySet
    <3> QED
      BY <3>2 DEF SameEmpty
  <2>6. Mutexes(s1, {}) /\ Owning(s, s1)
    BY <2>2, <2>4, <2>5, MutexesKept, OwningKept DEF Settled, SameLocks
  <2>7. \A u \in Thread : Queued(s1, u)
    BY <1>2 DEF Settled, Queued, ReprioritizedOnly
  <2> QED
    BY <1>2, <2>1, <2>6, <2>7 DEF Settled
<1>4. Linked(r, s1.delayList, {}) /\ Rescheduled(s1, r, {})
  <2>1. {} \in SUBSET Thread /\ s1.next \notin {} /\ Linked(s1, s1.delayList, {})
        /\ r = ThreadDispatchReady(s1)
    BY <1>2 DEF Good, s1
  <2> QED
    BY ONLY <1>3, <2>1, DispatchReadyGood
<1>5. Good(r, {})
  BY <1>2, <1>4 DEF Good, NotDue, Rescheduled
<1>6. Settled(r) /\ Owning(s1, r) /\ Keeps(s1, r, {})
  BY <1>1, <1>3, <1>4, <1>5, KeepsSettled DEF Rescheduled
<1>7. Owning(s, r)
  <2>1. SameLocks(s, s1) /\ SameLocks(s1, r)
    BY <1>2, <1>6 DEF SameLocks, ReprioritizedOnly, Keeps, Frame
  <2> QED
    BY <2>1, OwningKept DEF SameLocks
<1>8. Calm(s, r)
  <2>1. Calm(s, s1)
    BY <1>2 DEF ReprioritizedOnly, Calm
  <2>2. Calm(s1, r)
    BY <1>6, KeepsCalm
  <2> QED
    BY <2>1, <2>2, CalmThen
<1> QED
  BY <1>3, <1>4, <1>6, <1>7, <1>8 DEF Fine, Rescheduled

\* Threads that time out disturb nobody's join, and no mutex.
LEMMA TickedSettled ==
  ASSUME NEW s, Settled(s), s.kernel # "Ready", s.run = s.next,
         NEW r, Good(r, {}), Listed(r), TickedOnly(s, r)
  PROVE  Settled(r) /\ Runs(r) /\ r.run = r.next /\ r.kernel = s.kernel
<1>1. /\ Runs(s) /\ Good(s, {}) /\ Plain(s) /\ JoinOK(s) /\ Mutexes(s, {})
      /\ s \in Kernel /\ r \in Kernel
  BY Running DEF Settled, Good, Linked
<1>2. SameLives(s, r) /\ Plain(r)
  <2>1. \A u \in Thread : \/ r.state[u] = s.state[u]
                          \/ r.state[u] = "Ready" /\ IsBlocked(s, u) /\ u \notin s.waitList
    BY DEF TickedOnly
  <2>2. SameLives(s, r)
    BY <1>1, <2>1 DEF SameLives, Plain, IsBlocked, Waiting
  <2> QED
    BY <1>1, <2>2 DEF Plain, SameLives, TickedOnly
<1>3. JoinOK(r)
  BY <1>1, <1>2, JoinKept DEF TickedOnly, Blocks
<1>4. SameLocks(s, r) /\ SameBoost(s, r)
  BY DEF TickedOnly, Blocks, SameLocks, SameBoost
<1>5. SameEmpty(s, r)
  <2>1. s.list \in [Object -> Seq(Thread)] /\ r.list \in [Object -> Seq(Thread)]
    BY <1>1, Fields
  <2>2. \A o \in Object : \A u \in Thread : u \in ToSet(r.list[o]) => u \in ToSet(s.list[o])
    BY DEF TickedOnly
  <2>3. ASSUME NEW o \in Object, s.list[o] = << >> PROVE r.list[o] = << >>
    BY ONLY <2>1, <2>2, <2>3, EmptySet
  <2> QED
    BY <2>3 DEF SameEmpty
<1>6. Mutexes(r, {})
  BY <1>1, <1>2, <1>4, <1>5, MutexesKept
<1>7. \A u \in Thread : r.state[u] = "Running" <=> s.state[u] = "Running"
  BY DEF TickedOnly, IsBlocked, Waiting
<1>8. Runs(r) /\ r.run = r.next /\ r.kernel = s.kernel
  BY <1>1, <1>7 DEF TickedOnly, Blocks, Runs
<1> QED
  BY <1>2, <1>3, <1>6, <1>8 DEF Settled, Started, Listed

\* osRtxTick_Handler
LEMMA TickFine ==
  ASSUME NEW s, Settled(s), s.next = s.run, s.kernel # "Ready",
         NEW r, r = RoundRobin(ThreadDispatchReady(ThreadDelayTick(s)))
  PROVE  /\ Settled(r) /\ r.kernel = s.kernel /\ Owning(s, r)
         /\ Calm(s, r)
         /\ s.kernel = "Running" => Highest(r, {})
<1> DEFINE s1 == ThreadDelayTick(s)
           s2 == ThreadDispatchReady(s1)
<1>1. Runs(s) /\ Good(s, {}) /\ Plain(s) /\ Listed(s)
  BY Running, SettledListed DEF Settled
<1>2. Good(s1, {}) /\ Listed(s1) /\ TickedOnly(s, s1)
  BY <1>1, DelayTickGood
<1>3. s2 = ThreadDispatchReady(s1) /\ r = RoundRobin(s2)
  OBVIOUS
<1> HIDE DEF s1, s2
<1>4. Settled(s1) /\ Runs(s1) /\ s1.run = s1.next /\ s1.kernel = s.kernel
  BY <1>2, TickedSettled
<1>6. s1.kernel = s.kernel
  BY <1>4
<1>7. Linked(s2, s1.delayList, {}) /\ Rescheduled(s1, s2, {})
  <2>1. {} \in SUBSET Thread /\ s1.next \notin {} /\ Linked(s1, s1.delayList, {})
    BY <1>2 DEF Good
  <2> QED
    BY ONLY <1>3, <1>4, <2>1, DispatchReadyGood
<1>8. Good(s2, {})
  BY <1>2, <1>7 DEF Good, NotDue, Rescheduled
<1>9. Settled(s2) /\ s2.kernel = s.kernel
  <2>1. Keeps(s1, s2, {}) /\ Runs(s2)
    BY <1>7 DEF Rescheduled
  <2> QED
    BY <1>4, <1>8, <2>1, KeepsSettled DEF Keeps, Frame
<1>10. /\ Good(r, {}) /\ Keeps(s2, r, {}) /\ Runs(r)
       /\ Highest(s2, {}) => Highest(r, {})
  BY <1>3, <1>7, <1>8, RoundRobinGood DEF Rescheduled
<1>11. Settled(r) /\ r.kernel = s.kernel
  BY <1>9, <1>10, KeepsSettled DEF Keeps, Frame
<1>12. Owning(s, r)
  <2>1. SameLocks(s, s1) /\ SameLocks(s1, s2) /\ SameLocks(s2, r)
    BY <1>2, <1>7, <1>10 DEF SameLocks, TickedOnly, Blocks, Rescheduled, Keeps, Frame
  <2> QED
    BY <2>1, OwningKept DEF SameLocks
<1>13. Calm(s, r)
  <2>1. Calm(s, s1) /\ Calm(s1, s2) /\ Calm(s2, r)
    BY <1>2, <1>7, <1>10, TickedCalm, KeepsCalm DEF Rescheduled
  <2> QED
    BY <2>1, CalmThen
<1> QED
  BY <1>6, <1>7, <1>10, <1>11, <1>12, <1>13 DEF Rescheduled

-----------------------------------------------------------------------------
(* Threads begin. *)

\* What svcRtxThreadNew writes into the control block of t.
InitializedOnly(s, r, t, p, j) ==
  /\ r.priority = [s.priority EXCEPT ![t] = p] /\ r.base = [s.base EXCEPT ![t] = p]
  /\ r.joinable = [s.joinable EXCEPT ![t] = j]
  /\ r.joiner = [s.joiner EXCEPT ![t] = NoThread]
  /\ r.target = [s.target EXCEPT ![t] = NoThread]
  /\ r.delay = [s.delay EXCEPT ![t] = 0]
  /\ r.owned = [s.owned EXCEPT ![t] = << >>]
  /\ r.state = s.state /\ r.next = s.next /\ r.run = s.run /\ r.kernel = s.kernel
  /\ r.waitList = s.waitList /\ r.ready = s.ready /\ r.list = s.list
  /\ r.delayList = s.delayList
  /\ r.mutex = s.mutex /\ r.owner = s.owner /\ r.lock = s.lock

LEMMA WithPriority ==
  ASSUME NEW s \in Kernel, NEW t \in Thread, NEW p \in Priority, NEW j \in BOOLEAN
  PROVE  [s EXCEPT !.priority[t] = p, !.base[t] = p, !.joinable[t] = j] \in Kernel
BY DEF Kernel

LEMMA WithNoJoin ==
  ASSUME NEW s \in Kernel, NEW t \in Thread
  PROVE  [s EXCEPT !.joiner[t] = NoThread, !.target[t] = NoThread] \in Kernel
BY DEF Kernel

LEMMA WithNothing ==
  ASSUME NEW s \in Kernel, NEW t \in Thread
  PROVE  [s EXCEPT !.delay[t] = 0, !.owned[t] = << >>] \in Kernel
<1>1. << >> \in Seq(Mutex)
  OBVIOUS
<1>2. [s.owned EXCEPT ![t] = << >>] \in [Thread -> Seq(Mutex)]
  BY <1>1 DEF Kernel
<1>3. [s.delay EXCEPT ![t] = 0] \in [Thread -> Nat \cup {Forever}]
  BY DEF Kernel
<1> QED
  BY <1>2, <1>3 DEF Kernel

LEMMA WithInitialized ==
  ASSUME NEW s \in Kernel, NEW t \in Thread, NEW p \in Priority, NEW j \in BOOLEAN
  PROVE  Initialized(s, t, p, j) \in Kernel
<1> DEFINE s1 == [s EXCEPT !.priority[t] = p, !.base[t] = p, !.joinable[t] = j]
           s2 == [s1 EXCEPT !.joiner[t] = NoThread, !.target[t] = NoThread]
           s3 == [s2 EXCEPT !.delay[t] = 0, !.owned[t] = << >>]
<1>1. Initialized(s, t, p, j) = s3
  BY DEF Kernel, Initialized
<1>2. s1 \in Kernel
  BY WithPriority
<1> HIDE DEF s1
<1>3. s2 \in Kernel
  BY <1>2, WithNoJoin
<1> HIDE DEF s2
<1>4. s3 \in Kernel
  BY <1>3, WithNothing
<1> QED
  BY <1>1, <1>4

\* A control block that svcRtxThreadNew has filled is in transit.
LEMMA InitializedGood ==
  ASSUME NEW s, Good(s, {}), NEW t \in Thread, s.state[t] = "Inactive",
         NEW p \in Priority, NEW j \in BOOLEAN,
         NEW r, r = Initialized(s, t, p, j)
  PROVE  Good(r, {t}) /\ InitializedOnly(s, r, t, p, j)
<1>1. /\ s \in Kernel /\ s.ready \in Seq(Thread) /\ s.priority \in [Thread -> Nat]
      /\ s.priority \in [Thread -> Priority] /\ s.delayList \in Seq(Thread)
      /\ s.delay \in [Thread -> Nat \cup {Forever}]
      /\ s.owned \in [Thread -> Seq(Mutex)] /\ s.joinable \in [Thread -> BOOLEAN]
      /\ s.joiner \in [Thread -> Thread \cup {NoThread}]
      /\ s.target \in [Thread -> Thread \cup {NoThread}]
      /\ s.base \in [Thread -> Priority] /\ p \in Nat
      /\ NoDuplicates(s.delayList)
  BY Fields, JoinFields, KernelAssumption DEF Good, Linked, Kernel
<1>2. InitializedOnly(s, r, t, p, j)
  BY <1>1 DEF Kernel, Initialized, InitializedOnly
<1>3. r \in Kernel
  BY <1>1, WithInitialized
<1>4. Linked(s, s.delayList, {t})
  <2>1. {} \in SUBSET Thread /\ t \in Thread \ {} /\ Linked(s, s.delayList, {})
        /\ s.state[t] \in {"Running", "Inactive", "Terminated"}
    BY DEF Good
  <2>2. Linked(s, s.delayList, {} \cup {t})
    BY ONLY <2>1, Leaves
  <2>3. {} \cup {t} = {t}
    OBVIOUS
  <2> QED
    BY <2>2, <2>3
<1>5. SortedBy(s.ready, r.priority)
  <2>1. \A i \in 1..Len(s.ready) : s.ready[i] \in Thread /\ s.ready[i] # t
    BY <1>1, <1>4, ToSetIs DEF Linked, Nowhere
  <2>2. \A i \in 1..Len(s.ready) : r.priority[s.ready[i]] = s.priority[s.ready[i]]
    BY <1>1, <1>2, <2>1 DEF InitializedOnly
  <2> QED
    BY <1>4, <2>2 DEF Linked, SortedBy
<1>6. ASSUME NEW u \in Thread \ {t} PROVE AtPlace(r, s.delayList, u)
  <2>1. AtPlace(s, s.delayList, u) /\ u # t
    BY <1>4 DEF Linked
  <2>2. r.delay[u] = s.delay[u]
    BY <1>1, <1>2, <2>1 DEF InitializedOnly
  <2> QED
    BY <1>2, <2>1, <2>2 DEF InitializedOnly, AtPlace, IsBlocked
<1>7. Nowhere(r, s.delayList, t)
  BY <1>2, <1>4 DEF InitializedOnly, Linked, Nowhere
<1>8. NotDue(r)
  <2>1. SUFFICES ASSUME s.delayList # << >> PROVE r.delay[Head(s.delayList)] >= 1
    BY <1>2 DEF NotDue, InitializedOnly
  <2>2. /\ Head(s.delayList) \in Thread /\ Head(s.delayList) \in ToSet(s.delayList)
        /\ s.delay[Head(s.delayList)] >= 1
    BY <1>1, <2>1, TailList DEF Good, NotDue
  <2>3. Head(s.delayList) # t
    BY <1>7, <2>2 DEF Nowhere
  <2> QED
    BY <1>1, <1>2, <2>2, <2>3 DEF InitializedOnly
<1>9. Linked(r, s.delayList, {t})
  BY <1>2, <1>3, <1>4, <1>5, <1>6, <1>7 DEF InitializedOnly, Linked
<1> QED
  BY <1>2, <1>8, <1>9 DEF Good, InitializedOnly

\* What the handler leaves.
Begun(s, r, t) ==
  /\ Good(r, {}) /\ JoinOK(r) /\ Plain(r) /\ r.kernel = s.kernel
  /\ Queues(r) /\ Mutexes(r, {}) /\ \A u \in Thread : Queued(r, u)
  /\ Owning(s, r) /\ Calm(s, r)
  /\ s.kernel # "Ready" => Runs(r)
  /\ s.kernel = "Ready" => /\ r.state = [s.state EXCEPT ![t] = "Ready"]
                           /\ r.next = s.next /\ r.ready # << >>
  /\ s.kernel = "Running" /\ Highest(s, {}) => Highest(r, {})

\* svcRtxThreadNew; with the idle thread for t also osRtxThreadStartup.
LEMMA NewGood ==
  ASSUME NEW s, Settled(s), s.next = s.run, NEW t \in Thread, s.state[t] = "Inactive",
         NEW p \in Priority, NEW j \in BOOLEAN,
         NEW r, r = ThreadDispatch(Initialized(s, t, p, j), t)
  PROVE  Begun(s, r, t)
<1> DEFINE s1 == Initialized(s, t, p, j)
<1>1. Good(s1, {t}) /\ InitializedOnly(s, s1, t, p, j)
  BY InitializedGood DEF Settled
<1>2. r = ThreadDispatch(s1, t)
  OBVIOUS
<1> HIDE DEF s1
<1>3. /\ s \in Kernel /\ s1 \in Kernel
      /\ s.delay \in [Thread -> Nat \cup {Forever}]
      /\ s.owned \in [Thread -> Seq(Mutex)] /\ s.priority \in [Thread -> Nat]
  BY <1>1, Fields DEF Settled, Good, Linked, Kernel
<1>4. s1.delay[t] \in 0..RobinTimeout /\ s1.state[t] # "Running"
  BY <1>1, <1>3, KernelAssumption DEF InitializedOnly
<1>5. s1.kernel # "Ready" => Runs(s1) /\ s1.run = s1.next /\ s1.next \notin {t}
  BY <1>1 DEF InitializedOnly, Settled, Started, Runs
<1>6. Linked(r, s1.delayList, {t} \ {t}) /\ Admitted(s1, r, {t}, t)
  <2>1. /\ {t} \in SUBSET Thread /\ t \in {t} /\ Linked(s1, s1.delayList, {t})
        /\ s1.kernel = "Running" => Runs(s1) /\ s1.run = s1.next /\ s1.next \notin {t}
    BY <1>1, <1>5 DEF Good
  <2> QED
    BY ONLY <1>2, <1>4, <2>1, DispatchGood
<1>7. {t} \ {t} = {}
  OBVIOUS
<1>8. Good(r, {}) /\ r \in Kernel
  BY <1>1, <1>6, <1>7 DEF Good, NotDue, Admitted, Linked
<1>9. /\ r.joiner = [s.joiner EXCEPT ![t] = NoThread] /\ r.kernel = s.kernel
      /\ r.joinable = [s.joinable EXCEPT ![t] = j]
      /\ r.target = [s.target EXCEPT ![t] = NoThread]
      /\ r.owned = [s.owned EXCEPT ![t] = << >>]
      /\ r.waitList = s.waitList /\ r.list = s.list
      /\ r.priority = [s.priority EXCEPT ![t] = p] /\ r.base = [s.base EXCEPT ![t] = p]
      /\ r.mutex = s.mutex /\ r.owner = s.owner /\ r.lock = s.lock
  BY <1>1, <1>6 DEF Admitted, Keeps, Frame, InitializedOnly
<1>10. \A u \in Thread \ {t} :
         /\ r.state[u] = "Inactive" <=> s.state[u] = "Inactive"
         /\ r.state[u] = "Terminated" <=> s.state[u] = "Terminated"
         /\ r.state[u] = "WaitingJoin" <=> s.state[u] = "WaitingJoin"
         /\ s.state[u] \in QueueStates \/ r.state[u] \in QueueStates
              => r.state[u] = s.state[u]
  BY <1>1, <1>6 DEF Admitted, Keeps, Life, QueueStates, InitializedOnly
<1>11. r.state[t] \in {"Ready", "Running"}
  BY <1>6 DEF Admitted
<1>12. Plain(r)
  BY <1>9, <1>10, <1>11 DEF Plain, Settled
<1>13. JoinOK(r)
  <2> DEFINE Sc == s.state
  <2>1. ASSUME NEW u \in Thread, r.state[u] # "Inactive", r.joiner[u] # NoThread
        PROVE  /\ r.state[r.joiner[u]] = "WaitingJoin" /\ r.target[r.joiner[u]] = u
               /\ ~r.joinable[u]
    <3>1. u # t /\ r.joiner[u] = s.joiner[u] /\ s.state[u] # "Inactive"
      BY <1>3, <1>9, <1>10, <2>1, JoinFields
    <3>2. /\ s.state[s.joiner[u]] = "WaitingJoin" /\ s.target[s.joiner[u]] = u
          /\ ~s.joinable[u] /\ s.joiner[u] \in Thread
      BY <1>3, <2>1, <3>1, JoinFields DEF Settled, JoinOK
    <3>3. s.joiner[u] # t
      BY <3>2
    <3> QED
      BY <1>3, <1>9, <1>10, <3>1, <3>2, <3>3, JoinFields
  <2>2. ASSUME NEW u \in Thread, r.state[u] = "WaitingJoin"
        PROVE  /\ r.target[u] \in Thread \ {u}
               /\ r.state[r.target[u]] \notin {"Inactive", "Terminated"}
               /\ r.joiner[r.target[u]] = u
    <3>1. u # t /\ s.state[u] = "WaitingJoin" /\ r.target[u] = s.target[u]
      BY <1>3, <1>9, <1>10, <1>11, <2>2, JoinFields
    <3>2. /\ s.target[u] \in Thread \ {u} /\ s.joiner[s.target[u]] = u
          /\ s.state[s.target[u]] \notin {"Inactive", "Terminated"}
      BY <3>1 DEF Settled, JoinOK
    <3>3. s.target[u] # t
      BY <3>2
    <3> QED
      BY <1>3, <1>9, <1>10, <3>1, <3>2, <3>3, JoinFields
  <2>3. ASSUME NEW u \in Thread, r.state[u] = "Terminated" PROVE r.joinable[u]
    BY <1>3, <1>9, <1>10, <1>11, <2>3, JoinFields DEF Settled, JoinOK
  <2> QED
    BY <2>1, <2>2, <2>3 DEF JoinOK
<1>14. /\ Queues(r) /\ Mutexes(r, {}) /\ Owning(s, r)
       /\ \A u \in Thread : Queued(r, u)
  <2>1. /\ Queues(s) /\ Mutexes(s, {}) /\ \A u \in Thread : Queued(s, u)
        /\ ~Lives(s, t) /\ "Inactive" \notin QueueStates
    BY DEF Settled, Lives, QueueStates
  <2>2. Unqueued(s, t)
    BY <2>1, QueuedWait
  <2>3. ASSUME NEW u \in Thread
        PROVE  \/ Unqueued(s, u)
               \/ r.state[u] = s.state[u] /\ r.priority[u] = s.priority[u]
    <3>1. CASE u = t
      BY <2>2, <3>1
    <3>2. CASE u # t /\ s.state[u] \notin QueueStates
      BY <2>1, <3>2, QueuedWait
    <3>3. CASE u # t /\ s.state[u] \in QueueStates
      BY <1>3, <1>9, <1>10, <3>3
    <3> QED
      BY <3>1, <3>2, <3>3
  <2>4. Queues(r)
    <3>1. s \in Kernel /\ Queues(s) /\ r.list = s.list
      BY <1>3, <1>9, <2>1
    <3> QED
      BY ONLY <2>3, <3>1, QueuesAlike
  <2>5. \A u \in Thread : Queued(r, u)
    BY <1>9, <1>10, <1>11, <2>1 DEF Queued, QueueStates
  <2>6. \A m : Held(r, m) <=> Held(s, m)
    BY <1>9 DEF Held
  <2>7. ASSUME NEW u \in Thread \ {t} PROVE Lives(r, u) <=> Lives(s, u)
    BY <1>10 DEF Lives
  <2>8. \A m \in Mutex : Held(s, m) => s.owner[m] \in Thread \ {t}
    BY <2>1 DEF Mutexes
  <2>9. ASSUME NEW u \in Thread, Lives(r, u) PROVE Owns(r, u)
    <3>1. CASE u = t
      <4>1. r.owned[u] = << >> /\ r.priority[u] = r.base[u]
        BY <1>3, <1>9, <3>1, Fields
      <4>2. NoDuplicates(r.owned[u]) /\ ToSet(r.owned[u]) = {}
        BY <4>1 DEF NoDuplicates, ToSet
      <4>3. \A m \in Mutex : Held(r, m) => r.owner[m] # u
        BY <1>9, <2>6, <2>8, <3>1
      <4> QED
        BY <4>1, <4>2, <4>3 DEF Owns
    <3>2. CASE u # t
      <4>1. Owns(s, u)
        BY <2>1, <2>7, <2>9, <3>2 DEF Mutexes
      <4>2. /\ r.owned[u] = s.owned[u] /\ r.priority[u] = s.priority[u]
            /\ r.base[u] = s.base[u]
        BY <1>3, <1>9, <3>2, Fields
      <4> QED
        BY <1>9, <2>6, <4>1, <4>2 DEF Owns
    <3> QED
      BY <3>1, <3>2
  <2>10. Mutexes(r, {})
    BY <1>9, <2>1, <2>6, <2>7, <2>8, <2>9 DEF Mutexes
  <2>11. \A u \in Thread : r.owned[u] = s.owned[u] \/ r.owned[u] = << >>
    BY <1>3, <1>9
  <2>12. Owning(s, r)
    <3>1. r.mutex = s.mutex /\ r.owner = s.owner /\ r.lock = s.lock
      BY <1>9
    <3> QED
      BY ONLY <2>11, <3>1, OwningKept
  <2> QED
    BY <2>4, <2>5, <2>10, <2>12
<1>15. s.kernel # "Ready" => Runs(r)
  BY <1>1, <1>5, <1>6 DEF Admitted, InitializedOnly
<1>16. s.kernel = "Ready" => /\ r.state = [s.state EXCEPT ![t] = "Ready"]
                             /\ r.next = s.next /\ r.ready # << >>
  BY <1>1, <1>6 DEF Admitted, InitializedOnly
<1>17. ASSUME s.kernel = "Running", Highest(s, {}) PROVE Highest(r, {})
  <2>1. Highest(s1, {t})
    <3>1. s1.next # t /\ s.next \in Thread
      BY <1>1, <1>5, <1>17 DEF InitializedOnly, Runs
    <3> QED
      BY <1>1, <1>3, <1>17, <3>1 DEF InitializedOnly, Highest
  <2> QED
    BY <1>1, <1>6, <1>7, <1>17, <2>1 DEF Admitted, InitializedOnly
<1>18. Calm(s, r)
  <2>1. r.state[t] \notin QueueStates
    BY <1>11 DEF QueueStates
  <2> QED
    BY <1>9, <1>10, <2>1 DEF Calm
<1> QED
  BY <1>8, <1>9, <1>12, <1>13, <1>14, <1>15, <1>16, <1>17, <1>18 DEF Begun

\* svcRtxThreadNew: the new thread is ready or running.
LEMMA NewFine ==
  ASSUME NEW s, Settled(s), s.next = s.run, NEW t \in Thread \ {Idle},
         s.state[t] = "Inactive", NEW p \in Priority, NEW j \in BOOLEAN,
         NEW r, r = ThreadDispatch(Initialized(s, t, p, j), t)
  PROVE  Fine(s, r)
<1>1. Begun(s, r, t)
  BY NewGood
<1>2. Idle \in Thread /\ s.state \in [Thread -> ThreadState]
  BY ThreadAssumption, Fields DEF Settled, Good, Linked
<1>3. Started(r)
  BY <1>1, <1>2 DEF Settled, Started, Begun
<1> QED
  BY <1>1, <1>3 DEF Settled, Fine, Begun

LEMMA WithRunning ==
  ASSUME NEW s \in Kernel
  PROVE  [s EXCEPT !.kernel = "Running"] \in Kernel
BY DEF Kernel, KernelState

\* svcRtxKernelStart
LEMMA StartFine ==
  ASSUME NEW s, Settled(s), s.next = s.run, s.kernel = "Ready",
         NEW r, r = [ThreadSwitchToReady(ThreadDispatch(
                       Initialized(s, Idle, IdlePriority, FALSE), Idle))
                     EXCEPT !.kernel = "Running"]
  PROVE  Fine(s, r)
<1> DEFINE s1 == ThreadDispatch(Initialized(s, Idle, IdlePriority, FALSE), Idle)
           s2 == ThreadSwitchToReady(s1)
<1>1. Begun(s, s1, Idle)
  <2>1. Idle \in Thread /\ s.state[Idle] = "Inactive" /\ IdlePriority \in Priority
        /\ FALSE \in BOOLEAN
    BY ThreadAssumption DEF Settled, Started
  <2> HIDE DEF s1
  <2>2. s1 = ThreadDispatch(Initialized(s, Idle, IdlePriority, FALSE), Idle)
    BY DEF s1
  <2> QED
    BY <2>1, <2>2, NewGood
<1>2. s2 = ThreadSwitchToReady(s1) /\ r = [s2 EXCEPT !.kernel = "Running"]
  OBVIOUS
<1> HIDE DEF s1, s2
<1>3. Linked(s2, s1.delayList, {}) /\ Chosen(s1, s2, {})
  <2>1. {} \in SUBSET Thread /\ Linked(s1, s1.delayList, {})
        /\ s1.ready # << >>
    BY <1>1 DEF Good, Begun
  <2> QED
    BY <1>2, <2>1, SwitchToReadyGood
<1>4. Good(s2, {}) /\ s2 \in Kernel /\ s1 \in Kernel
  BY <1>1, <1>3 DEF Good, NotDue, Chosen, Linked, Begun
<1>5. /\ s1.state \in [Thread -> ThreadState] /\ Idle \in Thread
      /\ \A u \in Thread : s1.state[u] # "Running"
  BY <1>1, <1>4, Fields, ThreadAssumption DEF Settled, Started, Good, Linked, Begun
<1>6. Keeps(s1, s2, {})
  <2>1. \A u \in Thread : Life(s2.state[u]) = Life(s1.state[u])
    BY <1>3, <1>5 DEF Chosen, Life, QueueStates
  <2> QED
    BY <1>3, <2>1 DEF Chosen, Keeps
<1>7. JoinOK(s2) /\ Plain(s2)
  BY <1>1, <1>4, <1>6, KeepsJoin DEF Begun
<1>8. /\ Runs(s2)
      /\ Queues(s2) /\ Mutexes(s2, {}) /\ \A u \in Thread : Queued(s2, u)
  BY <1>1, <1>3, <1>4, <1>5, <1>6, KeepsMutexes DEF Chosen, Runs, Begun
<1>9. /\ r.joiner = s2.joiner /\ r.target = s2.target /\ r.joinable = s2.joinable
      /\ r.kernel = "Running" /\ r.next = s2.next /\ r.base = s2.base
      /\ SameLinks(s2, r) /\ SameLocks(s2, r)
  BY <1>2, <1>4 DEF Kernel, SameLinks, SameLocks
<1>10. r \in Kernel
  <2>1. s2 \in Kernel /\ r = [s2 EXCEPT !.kernel = "Running"]
    BY <1>2, <1>4
  <2> QED
    BY <2>1, WithRunning
<1>11. JoinOK(r) /\ Started(r)
  <2>1. JoinOK(r)
    <3>1. /\ r.state = s2.state /\ r.joiner = s2.joiner /\ r.target = s2.target
          /\ r.joinable = s2.joinable
      BY <1>9 DEF SameLinks
    <3> QED
      BY ONLY <1>7, <3>1 DEF JoinOK
  <2> QED
    BY <1>8, <1>9, <2>1 DEF Started, Runs, SameLinks
<1>12. Settled(r)
  BY <1>4, <1>7, <1>8, <1>9, <1>10, <1>11, SameSettled
<1>13. Owning(s, r)
  <2>1. SameLocks(s1, r) /\ SameLives(s1, r)
    <3>1. SameLocks(s1, s2) /\ SameLives(s1, s2)
      BY <1>1, <1>4, <1>6, KeepsJoin DEF Begun, Keeps, Frame, SameLocks
    <3> QED
      BY ONLY <1>9, <3>1 DEF SameLocks, SameLives, SameLinks
  <2> QED
    <3>1. s \in Kernel /\ Owning(s, s1)
      BY <1>1 DEF Begun, Settled, Good, Linked
    <3> QED
      BY ONLY <2>1, <3>1, OwningThen
<1>14. Calm(s, r)
  <2>1. Calm(s, s1) /\ Calm(s1, s2) /\ Calm(s2, r)
    <3>1. Calm(s, s1)
      BY <1>1 DEF Begun
    <3>2. Calm(s1, s2)
      BY <1>6, KeepsCalm
    <3>3. Calm(s2, r)
      BY <1>9, SameCalm DEF SameLinks
    <3> QED
      BY <3>1, <3>2, <3>3
  <2> QED
    BY <2>1, CalmThen
<1> QED
  BY <1>12, <1>13, <1>14 DEF Fine

\* svcRtxKernelLock, -Unlock, -RestoreLock, -Suspend
LEMMA LockFine ==
  ASSUME NEW s, Settled(s), s.kernel # "Ready",
         NEW m \in {"Running", "Locked", "Suspended"},
         NEW r, r = [s EXCEPT !.kernel = m]
  PROVE  Fine(s, r)
<1>1. s \in Kernel /\ Good(s, {}) /\ {} \in SUBSET Thread
  BY DEF Settled, Good, Linked
<1>2. /\ r.joiner = s.joiner /\ r.target = s.target /\ r.joinable = s.joinable
      /\ r.kernel = m /\ r.next = s.next /\ r.base = s.base
      /\ SameLinks(s, r) /\ SameLocks(s, r)
  BY <1>1 DEF Kernel, SameLinks, SameLocks
<1>3. r \in Kernel
  BY <1>1 DEF Kernel, KernelState
<1>4. JoinOK(r) /\ Started(r)
  BY <1>2 DEF Settled, Started, Runs, JoinOK, SameLinks
<1>5. Settled(r) /\ Owning(s, r) /\ Calm(s, r)
  BY <1>2, <1>3, <1>4, SameSettled, SameCalm DEF Settled, SameLinks
<1> QED
  BY <1>2, <1>5 DEF Fine, Highest, SameLinks

-----------------------------------------------------------------------------
(* Threads stop. *)

\* Thread t out of its lists, as svcRtxThreadSuspend and -Terminate take it.
Out(s, t) ==
  CASE s.state[t] = "Running" -> s
    [] s.state[t] = "Ready"   -> ThreadListRemove(s, t)
    [] OTHER                  -> ThreadDelayRemove(ThreadListRemove(s, t), t)

OutOnly(s, r, t) ==
  /\ Blocks(s, r) /\ r.priority = s.priority
  /\ Queues(r) /\ Unqueued(r, t)
  /\ \A o \in Object : /\ r.list[o] = RemoveFirst(s.list[o], t)
                       /\ ToSet(r.list[o]) = ToSet(s.list[o]) \ {t}
  /\ r.state = s.state /\ r.next = s.next
  /\ r.waitList = s.waitList \ {t}
  /\ s.state[t] = "Running" => r = s
  /\ IsBlocked(s, t) => r.delay[t] = 0

\* A thread that is taken out of the list its state names is in transit.
LEMMA OutGood ==
  ASSUME NEW s, Good(s, {}), Queues(s), NEW t \in Thread,
         s.state[t] \in {"Running", "Ready"} \/ IsBlocked(s, t),
         NEW r, r = Out(s, t)
  PROVE  Good(r, {t}) /\ OutOnly(s, r, t)
<1>1. /\ {} \in SUBSET Thread /\ t \in Thread \ {} /\ {} \cup {t} = {t} /\ t \notin {}
      /\ Linked(s, s.delayList, {}) /\ NotDue(s) /\ s.waitList \in SUBSET Thread
      /\ AtPlace(s, s.delayList, t) /\ s \in Kernel
      /\ s.list \in [Object -> Seq(Thread)]
  BY Fields DEF Good, Linked
<1>2. CASE s.state[t] = "Running"
  <2>1. r = s /\ ~IsBlocked(s, t)
    BY <1>2 DEF Out, IsBlocked, Waiting
  <2>2. s.state[t] \in {"Running", "Inactive", "Terminated"}
    BY <1>2
  <2>3. Linked(s, s.delayList, {} \cup {t})
    BY ONLY <1>1, <2>2, Leaves
  <2>4. t \notin s.waitList
    BY <1>1, <2>1 DEF AtPlace
  <2>5. Unqueued(s, t)
    <3>1. s.state[t] \notin QueueStates
      BY <1>2 DEF QueueStates
    <3> QED
      BY <3>1, QueuedWait
  <2>6. \A o \in Object : /\ s.list[o] = RemoveFirst(s.list[o], t)
                          /\ ToSet(s.list[o]) = ToSet(s.list[o]) \ {t}
    BY <1>1, <2>5, RemoveAbsent DEF Unqueued
  <2> QED
    BY <1>1, <2>1, <2>3, <2>4, <2>5, <2>6 DEF Good, OutOnly, Blocks
<1>3. CASE s.state[t] = "Ready"
  <2>1. r = ThreadListRemove(s, t) /\ ~IsBlocked(s, t) /\ s.state[t] # "Running"
    BY <1>3 DEF Out, IsBlocked, Waiting
  <2>2. /\ t \in {} \/ s.state[t] # "Ready" => Linked(r, s.delayList, {})
        /\ t \notin {} /\ s.state[t] = "Ready" => Linked(r, s.delayList, {} \cup {t})
        /\ Unlisted(s, r, t)
    BY <1>1, <2>1, ListRemoveGood
  <2>3. Linked(r, s.delayList, {t})
    BY <1>1, <1>3, <2>2
  <2>4. t \notin s.waitList
    BY <1>1, <2>1 DEF AtPlace
  <2>5. /\ Queues(r) /\ Unqueued(r, t)
        /\ \A o \in Object : ToSet(r.list[o]) = ToSet(s.list[o]) \ {t}
    <3>1. s \in Kernel /\ Queues(s) /\ Unlisted(s, r, t)
      BY <1>1, <2>2
    <3> QED
      BY ONLY <3>1, UnlistedQueues
  <2> QED
    BY <1>1, <2>1, <2>2, <2>3, <2>4, <2>5 DEF Good, NotDue, Unlisted, OutOnly
<1>4. CASE IsBlocked(s, t)
  <2> DEFINE s1 == ThreadListRemove(s, t)
  <2>1. /\ r = ThreadDelayRemove(s1, t)
        /\ s.state[t] # "Running" /\ s.state[t] # "Ready"
    BY <1>4 DEF Out, IsBlocked, Waiting
  <2>2. /\ t \in {} \/ s.state[t] # "Ready" => Linked(s1, s.delayList, {})
        /\ t \notin {} /\ s.state[t] = "Ready" => Linked(s1, s.delayList, {} \cup {t})
        /\ Unlisted(s, s1, t)
    BY <1>1, ListRemoveGood
  <2> HIDE DEF s1
  <2>3. Good(s1, {}) /\ IsBlocked(s1, t)
    BY <1>1, <1>4, <2>1, <2>2 DEF Good, NotDue, Unlisted, IsBlocked
  <2>4. Good(r, {} \cup {t}) /\ Undelayed(s1, r, t)
    BY <1>1, <2>1, <2>3, DelayRemoveGood
  <2>5. /\ Queues(s1) /\ Unqueued(s1, t)
        /\ \A o \in Object : ToSet(s1.list[o]) = ToSet(s.list[o]) \ {t}
    BY <1>1, <2>2, UnlistedQueues, ZenonT(40)
  <2>6. r.list = s1.list /\ r.priority = s1.priority /\ r.state = s1.state /\ s1 \in Kernel
    BY <2>3, <2>4 DEF Undelayed, Frame, Good, Linked
  <2>7. Queues(r) /\ Unqueued(r, t)
    BY <2>5, <2>6, QueuesKept DEF Unqueued
  <2>8. OutOnly(s, r, t)
    BY <2>1, <2>2, <2>4, <2>5, <2>6, <2>7 DEF Unlisted, Undelayed, OutOnly, Frame, Blocks
  <2> QED
    BY <1>1, <2>4, <2>8
<1> QED
  BY <1>2, <1>3, <1>4

\* Nobody else is taken out.
LEMMA OutCalm ==
  ASSUME NEW s, NEW t, NEW r, OutOnly(s, r, t)
  PROVE  Calm(s, r)
<1>1. r.state = s.state /\ \A o \in Object : ToSet(r.list[o]) = ToSet(s.list[o]) \ {t}
  BY DEF OutOnly
<1> QED
  BY <1>1 DEF Calm

\* All threads but t are where they belong, and t waits for no object.
Loose(s, t) ==
  /\ JoinOK(s) /\ Mutexes(s, {})
  /\ \A u \in Thread \ {t} : s.state[u] = "WaitingJoin" => u \in s.waitList
  /\ Queues(s) /\ Unqueued(s, t)
  /\ \A u \in Thread \ {t} : Queued(s, u)

\* Taking t out of its lists leaves the others where they are.
LEMMA OutLoose ==
  ASSUME NEW s, Settled(s), NEW t \in Thread, NEW r \in Kernel, OutOnly(s, r, t)
  PROVE  Loose(r, t) /\ SameLocks(s, r) /\ SameLives(s, r)
<1>1. s \in Kernel /\ JoinOK(s) /\ Plain(s) /\ Mutexes(s, {}) /\ \A u \in Thread : Queued(s, u)
  BY DEF Settled, Good, Linked
<1>2. /\ SameLocks(s, r) /\ SameLives(s, r) /\ SameBoost(s, r)
      /\ r.joinable = s.joinable /\ r.joiner = s.joiner /\ r.target = s.target
      /\ r.state = s.state /\ Queues(r) /\ Unqueued(r, t) /\ r.waitList = s.waitList \ {t}
      /\ \A o \in Object : ToSet(r.list[o]) = ToSet(s.list[o]) \ {t}
  BY DEF OutOnly, Blocks, SameLocks, SameLives, SameBoost
<1>3. JoinOK(r)
  BY <1>1, <1>2, JoinKept
<1>4. SameEmpty(s, r)
  <2>1. s.list \in [Object -> Seq(Thread)] /\ r.list \in [Object -> Seq(Thread)]
    BY <1>1, Fields
  <2>2. \A o \in Object : \A u \in Thread : u \in ToSet(r.list[o]) => u \in ToSet(s.list[o])
    BY <1>2
  <2>3. ASSUME NEW o \in Object, s.list[o] = << >> PROVE r.list[o] = << >>
    BY ONLY <2>1, <2>2, <2>3, EmptySet
  <2> QED
    BY <2>3 DEF SameEmpty
<1>5. Mutexes(r, {})
  BY <1>1, <1>2, <1>4, MutexesKept
<1>6. \A u \in Thread \ {t} : Queued(r, u)
  BY <1>1, <1>2 DEF Queued
<1>7. \A u \in Thread \ {t} : r.state[u] = "WaitingJoin" => u \in r.waitList
  BY <1>1, <1>2 DEF Plain
<1> QED
  BY <1>2, <1>3, <1>5, <1>6, <1>7 DEF Loose

\* t gets a place of its own again, the others being scheduled.
LEMMA LooseBack ==
  ASSUME NEW s \in Kernel, NEW t \in Thread, Loose(s, t),
         Lives(s, t), s.state[t] # "WaitingJoin",
         NEW r \in Kernel, Keeps(s, r, {t}),
         Lives(r, t), r.state[t] # "WaitingJoin", r.state[t] \notin QueueStates
  PROVE  /\ JoinOK(r) /\ Plain(r) /\ Queues(r) /\ Mutexes(r, {})
         /\ \A u \in Thread : Queued(r, u)
         /\ SameLives(s, r) /\ SameLocks(s, r)
<1>1. SameLives(s, r)
  BY DEF Keeps, Life, QueueStates, SameLives, Lives
<1>2. /\ SameLocks(s, r) /\ SameEmpty(s, r) /\ SameBoost(s, r)
      /\ r.joinable = s.joinable /\ r.joiner = s.joiner /\ r.target = s.target
  BY DEF Keeps, Frame, SameLocks, SameEmpty, SameBoost
<1>3. JoinOK(r) /\ Mutexes(r, {})
  BY <1>1, <1>2, JoinKept, MutexesKept DEF Loose
<1>4. Plain(r)
  BY <1>1 DEF Loose, Plain, Keeps, SameLives
<1>5. {t} \in SUBSET Thread /\ Queues(s) /\ \A u \in {t} : Unqueued(s, u)
  BY DEF Loose
<1>6. /\ Queues(r)
      /\ \A u \in Thread \ {t} : Queued(s, u) => Queued(r, u)
  BY ONLY s \in Kernel, Keeps(s, r, {t}), <1>5, KeepsQueues
<1>7. \A u \in Thread : Queued(r, u)
  <2>1. Queued(r, t)
    BY DEF Queued
  <2> QED
    BY <1>6, <2>1 DEF Loose
<1> QED
  BY <1>1, <1>2, <1>3, <1>4, <1>6, <1>7

\* A ready thread takes over from t, which is on its way.
LEMMA HandOver ==
  ASSUME NEW s, NEW t \in Thread, Good(s, {t}), s.ready # << >>,
         NEW r, r = ThreadSwitchToReady(s)
  PROVE  Good(r, {t}) /\ Chosen(s, r, {t})
<1>1. {t} \in SUBSET Thread /\ Linked(s, s.delayList, {t})
  BY DEF Good
<1>2. Linked(r, s.delayList, {t}) /\ Chosen(s, r, {t})
  BY ONLY <1>1, s.ready # << >>, r = ThreadSwitchToReady(s), SwitchToReadyGood
<1> QED
  BY <1>2 DEF Good, NotDue, Chosen

\* svcRtxThreadSuspend
LEMMA SuspendFine ==
  ASSUME NEW s, Settled(s), s.next = s.run, s.run \in Thread, NEW t \in Thread,
         \/ s.state[t] = "Running" /\ s.ready # << >>
         \/ s.state[t] = "Ready"
         \/ IsBlocked(s, t),
         s.state[t] # "WaitingJoin",
         NEW s0, s0 = Out(s, t),
         NEW s1, s1 = IF s.state[t] = "Running" THEN ThreadSwitchToReady(s0) ELSE s0,
         NEW r, r = ThreadDelayInsert(Marked(s1, t, "Blocked"), t, Forever)
  PROVE  Fine(s, r)
<1> DEFINE s2 == Marked(s1, t, "Blocked")
<1>1. /\ Runs(s) /\ Good(s, {}) /\ s.kernel # "Ready" /\ s.state \in [Thread -> ThreadState]
      /\ \A u \in Thread : s.state[u] = "Running" <=> u = s.run
      /\ Queues(s) /\ s \in Kernel
  BY Running, Fields DEF Settled
<1>2. Good(s0, {t}) /\ OutOnly(s, s0, t) /\ s0 \in Kernel
  <2>1. s.state[t] \in {"Running", "Ready"} \/ IsBlocked(s, t)
    OBVIOUS
  <2> QED
    BY <1>1, <2>1, OutGood DEF Good, Linked
<1>3. Loose(s0, t) /\ SameLocks(s, s0) /\ SameLives(s, s0)
  BY <1>2, OutLoose
<1>4. /\ s0.state = s.state /\ s0.next = s.next /\ s0.run = s.run /\ s0.kernel = s.kernel
      /\ s0.priority = s.priority
  BY <1>2 DEF OutOnly, Blocks
<1>5. /\ Good(s1, {t}) /\ Keeps(s0, s1, {t}) /\ s1.next \in Thread \ {t}
      /\ \A u \in Thread \ {t} : s1.state[u] = "Running" <=> u = s1.next
      /\ Highest(s, {}) => Highest(s1, {t})
      /\ s1.state \in [Thread -> ThreadState]
  <2>1. CASE s.state[t] = "Running"
    <3>1. s0 = s /\ s1 = ThreadSwitchToReady(s0) /\ t = s.run /\ s.ready # << >>
      BY <1>1, <1>2, <2>1 DEF OutOnly, IsBlocked, Waiting
    <3>2. Good(s1, {t}) /\ Chosen(s, s1, {t})
      BY <1>2, <3>1, HandOver
    <3>3. \A u \in Thread \ {t} : /\ s1.state[u] = "Running" <=> u = s1.next
                                  /\ Life(s1.state[u]) = Life(s.state[u])
      BY <1>1, <3>1, <3>2 DEF Chosen, Life, QueueStates
    <3>4. Keeps(s0, s1, {t})
      BY <3>1, <3>2, <3>3 DEF Chosen, Keeps
    <3> QED
      BY <3>2, <3>3, <3>4, Fields DEF Chosen, Good, Linked
  <2>2. CASE s.state[t] # "Running"
    <3>1. s1 = s0 /\ t # s.run
      BY <1>1, <2>2
    <3>2. Keeps(s0, s1, {t})
      BY <3>1 DEF Keeps, Frame
    <3>3. Highest(s, {}) => Highest(s1, {t})
      BY <1>4, <3>1 DEF Highest
    <3> QED
      BY <1>1, <1>2, <1>4, <3>1, <3>2, <3>3 DEF Runs
  <2> QED
    BY <2>1, <2>2
<1>6. Good(s2, {t}) /\ MarkedOnly(s1, s2, t, "Blocked")
  <2>1. /\ {t} \in SUBSET Thread /\ t \in {t} /\ "Blocked" \in ThreadState
        /\ Linked(s1, s1.delayList, {t})
    BY <1>5 DEF Good, ThreadState
  <2>2. s2 = Marked(s1, t, "Blocked")
    OBVIOUS
  <2> HIDE DEF s2
  <2>3. Linked(s2, s1.delayList, {t}) /\ MarkedOnly(s1, s2, t, "Blocked")
    BY ONLY <2>1, <2>2, t \in Thread, Restated
  <2> QED
    BY <1>5, <2>3 DEF Good, NotDue, MarkedOnly
<1>7. r = ThreadDelayInsert(s2, t, Forever)
  OBVIOUS
<1> HIDE DEF s2
<1>8. Good(r, {t} \ {t}) /\ Delaying(s2, r, t)
  <2>1. {t} \in SUBSET Thread /\ t \in {t} /\ Forever \in (Nat \ {0}) \cup {Forever}
    OBVIOUS
  <2>2. IsBlocked(s2, t)
    BY <1>5, <1>6 DEF MarkedOnly, IsBlocked
  <2> QED
    BY <1>6, <1>7, <2>1, <2>2, DelayInsertGood
<1>9. Good(r, {}) /\ r \in Kernel
  <2>1. {t} \ {t} = {}
    OBVIOUS
  <2> QED
    BY <1>8, <2>1 DEF Good, Linked
<1>10. /\ r.state = [s1.state EXCEPT ![t] = "Blocked"] /\ r.next = s1.next
       /\ Frame(s0, r)
  BY <1>5, <1>6, <1>8 DEF MarkedOnly, Delaying, Keeps, Frame
<1>11. Keeps(s0, r, {t}) /\ r.state[t] = "Blocked"
  <2>1. \A u \in Thread \ {t} : Life(r.state[u]) = Life(s0.state[u])
    BY <1>5, <1>10 DEF Keeps
  <2>2. \A u \in Thread \ {t} :
          u \in s0.waitList /\ r.state[u] = "WaitingJoin" => u \in r.waitList
    BY <1>5, <1>6, <1>8, <1>10 DEF Keeps, MarkedOnly, Delaying
  <2> QED
    BY <1>5, <1>10, <2>1, <2>2 DEF Keeps
<1>12. Runs(r) /\ r.kernel = s.kernel
  BY <1>4, <1>5, <1>10, <1>11 DEF Runs, Frame
<1>13. Highest(s, {}) => Highest(r, {})
  <2>1. r.priority = s1.priority
    BY <1>5, <1>10 DEF Keeps, Frame
  <2>2. \A u \in Thread : r.state[u] = "Ready" => u # t /\ s1.state[u] = "Ready"
    BY <1>5, <1>10, <1>11
  <2> QED
    BY <1>5, <1>10, <2>1, <2>2 DEF Highest
<1>14. /\ JoinOK(r) /\ Plain(r) /\ Queues(r) /\ Mutexes(r, {})
       /\ \A u \in Thread : Queued(r, u)
       /\ SameLives(s0, r) /\ SameLocks(s0, r)
  <2>1. Lives(s0, t) /\ s0.state[t] # "WaitingJoin"
    BY <1>4 DEF Lives, IsBlocked, Waiting
  <2>2. Lives(r, t) /\ r.state[t] # "WaitingJoin" /\ r.state[t] \notin QueueStates
    BY <1>11 DEF Lives, QueueStates
  <2> QED
    BY <1>2, <1>3, <1>9, <1>11, <2>1, <2>2, LooseBack
<1>15. Owning(s, r)
  BY <1>3, <1>14, OwningKept DEF SameLocks
<1>16. Settled(r)
  BY <1>1, <1>9, <1>12, <1>14 DEF Settled, Started
<1>17. Calm(s, r)
  <2>1. Calm(s, s0)
    BY <1>2, OutCalm
  <2>2. \A u \in {t} : r.state[u] \notin QueueStates
    BY <1>11 DEF QueueStates
  <2> QED
    BY <1>11, <2>1, <2>2, KeepsCalm, CalmThen
<1> QED
  BY <1>13, <1>15, <1>16, <1>17 DEF Fine

\* svcRtxThreadResume
LEMMA ResumeFine ==
  ASSUME NEW s, Settled(s), s.next = s.run, s.run \in Thread, NEW t \in Thread,
         IsBlocked(s, t), s.state[t] # "WaitingJoin",
         NEW s0, s0 = Out(s, t),
         NEW r, r = ThreadDispatch(s0, t)
  PROVE  Fine(s, r)
<1>1. /\ Runs(s) /\ Good(s, {}) /\ s.kernel # "Ready" /\ Queues(s)
      /\ \A u \in Thread : s.state[u] = "Running" <=> u = s.run
  BY Running DEF Settled
<1>2. Good(s0, {t}) /\ OutOnly(s, s0, t) /\ s0 \in Kernel
  BY <1>1, OutGood DEF Good, Linked
<1>3. Loose(s0, t) /\ SameLocks(s, s0) /\ SameLives(s, s0)
  BY <1>2, OutLoose
<1>4. /\ s0.state = s.state /\ s0.next = s.next /\ s0.run = s.run /\ s0.kernel = s.kernel
      /\ s0.priority = s.priority /\ s0.delay[t] = 0 /\ s.state[t] # "Running"
  BY <1>2 DEF OutOnly, Blocks, IsBlocked, Waiting
<1>5. Linked(r, s0.delayList, {t} \ {t}) /\ Admitted(s0, r, {t}, t)
  <2>1. /\ {t} \in SUBSET Thread /\ t \in {t} /\ Linked(s0, s0.delayList, {t})
        /\ s0.delay[t] \in 0..RobinTimeout /\ s0.state[t] # "Running"
    BY <1>2, <1>4, KernelAssumption DEF Good
  <2>2. Runs(s0) /\ s0.run = s0.next /\ s0.next \notin {t}
    BY <1>1, <1>4 DEF Runs
  <2> QED
    BY ONLY <2>1, <2>2, r = ThreadDispatch(s0, t), DispatchGood
<1>6. Good(r, {}) /\ Runs(r) /\ r \in Kernel
  <2>1. {t} \ {t} = {}
    OBVIOUS
  <2>2. Runs(s0)
    BY <1>1, <1>4 DEF Runs
  <2> QED
    BY <1>2, <1>5, <2>1, <2>2 DEF Good, NotDue, Admitted, Linked
<1>7. Keeps(s0, r, {t}) /\ r.state[t] \in {"Ready", "Running"}
  BY <1>5 DEF Admitted
<1>8. s.kernel = "Running" /\ Highest(s, {}) => Highest(r, {})
  <2>1. Highest(s, {}) => Highest(s0, {t})
    BY <1>4 DEF Highest
  <2>2. {t} \ {t} = {}
    OBVIOUS
  <2> QED
    BY <1>4, <1>5, <2>1, <2>2 DEF Admitted
<1>9. /\ JoinOK(r) /\ Plain(r) /\ Queues(r) /\ Mutexes(r, {})
      /\ \A u \in Thread : Queued(r, u)
      /\ SameLives(s0, r) /\ SameLocks(s0, r)
  <2>1. Lives(s0, t) /\ s0.state[t] # "WaitingJoin"
    BY <1>4 DEF Lives, IsBlocked, Waiting
  <2>2. Lives(r, t) /\ r.state[t] # "WaitingJoin" /\ r.state[t] \notin QueueStates
    BY <1>7 DEF Lives, QueueStates
  <2> QED
    BY <1>2, <1>3, <1>6, <1>7, <2>1, <2>2, LooseBack
<1>10. Owning(s, r)
  BY <1>3, <1>9, OwningKept DEF SameLocks
<1>11. Settled(r)
  BY <1>1, <1>4, <1>6, <1>7, <1>9 DEF Settled, Started, Keeps, Frame
<1>12. Calm(s, r)
  <2>1. Calm(s, s0)
    BY <1>2, OutCalm
  <2>2. \A u \in {t} : r.state[u] \notin QueueStates
    BY <1>7 DEF QueueStates
  <2> QED
    BY <1>7, <2>1, <2>2, KeepsCalm, CalmThen
<1> QED
  BY <1>8, <1>10, <1>11, <1>12 DEF Fine

-----------------------------------------------------------------------------
(* Joining. *)

\* The control block of a terminated thread is freed: svcRtxThreadDetach and
\* svcRtxThreadJoin.
LEMMA FreeFine ==
  ASSUME NEW s, Settled(s), s.next = s.run, s.run \in Thread, NEW t \in Thread,
         s.state[t] = "Terminated",
         NEW r, r = Marked(s, t, "Inactive")
  PROVE  Fine(s, r)
<1>1. /\ Runs(s) /\ Good(s, {}) /\ s.kernel # "Ready" /\ Plain(s) /\ JoinOK(s)
      /\ Queues(s) /\ Mutexes(s, {}) /\ \A u \in Thread : Queued(s, u)
      /\ s \in Kernel
  BY Running DEF Settled
<1>2. Good(r, {t}) /\ MarkedOnly(s, r, t, "Inactive")
  <2>1. /\ {} \in SUBSET Thread /\ t \in Thread \ {} /\ Linked(s, s.delayList, {})
        /\ s.state[t] \in {"Running", "Inactive", "Terminated"}
    BY <1>1 DEF Good
  <2>2. Linked(s, s.delayList, {} \cup {t})
    BY ONLY <2>1, Leaves
  <2>3. {} \cup {t} = {t} /\ {t} \in SUBSET Thread /\ t \in {t} /\ "Inactive" \in ThreadState
    BY DEF ThreadState
  <2>4. Linked(r, s.delayList, {t}) /\ MarkedOnly(s, r, t, "Inactive")
    BY <2>2, <2>3, Restated
  <2> QED
    BY <1>1, <2>4 DEF Good, NotDue, MarkedOnly
<1>3. Good(r, {}) /\ s.state \in [Thread -> ThreadState]
  <2>1. {t} \ {t} = {} /\ {t} \in SUBSET Thread /\ t \in {t}
    OBVIOUS
  <2>2. s.state \in [Thread -> ThreadState]
    BY <1>1, Fields
  <2>3. r.state[t] \in {"Inactive", "Terminated"}
    BY <1>2, <2>2 DEF MarkedOnly
  <2>4. Good(r, {t} \ {t})
    BY <1>2, <2>1, <2>3, Arrives
  <2> QED
    BY <2>1, <2>2, <2>4
<1>4. Runs(r)
  BY <1>1, <1>2, <1>3 DEF Runs, MarkedOnly
<1>5. Plain(r)
  BY <1>1, <1>2, <1>3 DEF Plain, MarkedOnly
<1>6. JoinOK(r)
  <2>1. /\ r.joiner = s.joiner /\ r.target = s.target /\ r.joinable = s.joinable
        /\ r.state = [s.state EXCEPT ![t] = "Inactive"]
    BY <1>2 DEF MarkedOnly, Frame
  <2> QED
    BY <1>1, <1>3, <2>1, JoinFields DEF JoinOK
<1>7. Queues(r) /\ \A u \in Thread : Queued(r, u)
  <2>1. r.list = s.list /\ r.priority = s.priority /\ r.state = [s.state EXCEPT ![t] = "Inactive"]
    BY <1>2 DEF MarkedOnly, Frame
  <2>2. s.state[t] \notin QueueStates /\ "Inactive" \notin QueueStates
    BY DEF QueueStates
  <2>3. \A u \in Thread : Unqueued(s, u) \/ r.state[u] = s.state[u]
    BY <1>1, <1>3, <2>1, <2>2, QueuedWait
  <2>4. Queues(r)
    BY <1>1, <2>1, <2>3, QueuesKept
  <2> QED
    BY <1>1, <1>3, <2>1, <2>2, <2>4 DEF Queued
<1>8. Mutexes(r, {}) /\ Owning(s, r)
  <2>1. SameLocks(s, r) /\ SameEmpty(s, r) /\ SameBoost(s, r)
    BY <1>2 DEF MarkedOnly, Frame, SameLocks, SameEmpty, SameBoost
  <2>2. \A u \in Thread : Lives(r, u) <=> Lives(s, u)
    BY <1>2, <1>3 DEF MarkedOnly, Lives
  <2> QED
    BY <1>1, <2>1, <2>2, MutexesAlike, OwningKept DEF SameLocks
<1>9. Settled(r)
  BY <1>1, <1>2, <1>3, <1>4, <1>5, <1>6, <1>7, <1>8
     DEF Settled, Started, MarkedOnly, Frame
<1>10. Calm(s, r)
  <2>1. r.list = s.list /\ r.state = [s.state EXCEPT ![t] = "Inactive"]
    BY <1>2 DEF MarkedOnly, Frame
  <2> QED
    BY <1>3, <2>1 DEF Calm, QueueStates
<1> QED
  BY <1>2, <1>3, <1>8, <1>9, <1>10 DEF Fine, Highest, MarkedOnly, Frame

\* svcRtxThreadDetach of a live thread.
LEMMA DetachFine ==
  ASSUME NEW s, Settled(s), s.next = s.run, s.run \in Thread, NEW t \in Thread,
         s.state[t] # "Terminated",
         NEW r, r = [s EXCEPT !.joinable[t] = FALSE]
  PROVE  Fine(s, r)
<1>1. /\ Runs(s) /\ Good(s, {}) /\ s.kernel # "Ready" /\ JoinOK(s)
      /\ s \in Kernel /\ {} \in SUBSET Thread
  BY Running DEF Settled
<1>2. /\ r.joiner = s.joiner /\ r.target = s.target /\ r.base = s.base
      /\ r.joinable = [s.joinable EXCEPT ![t] = FALSE]
      /\ r.kernel = s.kernel /\ r.next = s.next /\ SameLinks(s, r) /\ SameLocks(s, r)
  BY <1>1 DEF Kernel, SameLinks, SameLocks
<1>3. r \in Kernel
  BY <1>1 DEF Kernel
<1>4. JoinOK(r)
  <2>1. r.state = s.state
    BY <1>2 DEF SameLinks
  <2> QED
    BY <1>1, <1>2, <2>1, JoinFields DEF JoinOK
<1>5. Started(r) /\ (Highest(s, {}) => Highest(r, {}))
  BY <1>1, <1>2 DEF Started, Runs, Highest, SameLinks
<1>6. Settled(r) /\ Owning(s, r) /\ Calm(s, r)
  BY <1>2, <1>3, <1>4, <1>5, SameSettled, SameCalm DEF Settled, SameLinks
<1> QED
  BY <1>5, <1>6 DEF Fine

\* svcRtxThreadJoin of a live thread.
LEMMA WithJoin ==
  ASSUME NEW s \in Kernel, NEW c \in Thread, NEW t \in Thread
  PROVE  [s EXCEPT !.target[c] = t, !.joiner[t] = c, !.joinable[t] = FALSE] \in Kernel
BY DEF Kernel

\* svcRtxThreadJoin: the caller waits, or frees a thread that has ended.
LEMMA JoinFine ==
  ASSUME NEW s, Settled(s), s.next = s.run, s.run \in Thread, NEW t \in Thread,
         s.state[t] \notin {"Inactive", "Terminated", "Running"}, s.joinable[t],
         s.ready # << >>,
         NEW s1, s1 = ThreadWaitEnter(s, "WaitingJoin", Forever),
         NEW r, r = [s1 EXCEPT !.target[s.run] = t, !.joiner[t] = s.run,
                               !.joinable[t] = FALSE]
  PROVE  Fine(s, r)
<1> DEFINE c == s.run
<1>1. /\ Runs(s) /\ Good(s, {}) /\ s.kernel # "Ready" /\ Plain(s) /\ JoinOK(s)
      /\ Queues(s) /\ Mutexes(s, {}) /\ \A u \in Thread : Queued(s, u)
      /\ s \in Kernel /\ {} \in SUBSET Thread /\ s.run = s.next
      /\ s.state[c] = "Running"
  BY Running DEF Settled
<1>2. /\ Good(s1, {}) /\ Waited(s, s1, "WaitingJoin")
      /\ Forever = Forever => c \in s1.waitList
  <2>1. "WaitingJoin" \in Waiting /\ Forever \in (Nat \ {0}) \cup {Forever}
    BY DEF Waiting
  <2> QED
    BY <1>1, <2>1, WaitEnterGood
<1>3. s1 \in Kernel
  BY <1>2 DEF Good, Linked
<1>4. /\ r.joiner = [s1.joiner EXCEPT ![t] = c] /\ r.target = [s1.target EXCEPT ![c] = t]
      /\ r.joinable = [s1.joinable EXCEPT ![t] = FALSE] /\ r.base = s1.base
      /\ r.kernel = s1.kernel /\ r.next = s1.next /\ SameLinks(s1, r) /\ SameLocks(s1, r)
  BY <1>3 DEF Kernel, SameLinks, SameLocks
<1>5. r \in Kernel
  BY <1>3, WithJoin
<1>6. Good(r, {})
  BY <1>1, <1>2, <1>4, <1>5, LinksKept
<1>7. /\ r.joiner = [s.joiner EXCEPT ![t] = c] /\ r.target = [s.target EXCEPT ![c] = t]
      /\ r.joinable = [s.joinable EXCEPT ![t] = FALSE]
      /\ s.state[r.next] = "Ready" /\ r.next # c
      /\ r.state = [[s.state EXCEPT ![c] = "WaitingJoin"] EXCEPT ![r.next] = "Running"]
      /\ c \in r.waitList /\ s.waitList \in SUBSET r.waitList /\ r.kernel = s.kernel
      /\ SameLocks(s, r) /\ r.list = s.list /\ r.priority = s.priority /\ r.base = s.base
  <2>1. /\ s1.joiner = s.joiner /\ s1.target = s.target /\ s1.joinable = s.joinable
        /\ s1.kernel = s.kernel
    BY <1>2 DEF Waited, Frame
  <2>6. /\ SameLocks(s, r) /\ r.list = s.list /\ r.priority = s.priority
        /\ r.base = s.base
    BY <1>2, <1>4 DEF Waited, Frame, SameLocks, SameLinks
  <2>2. /\ s.state[s1.next] = "Ready" /\ s1.next # c
        /\ s1.state = [[s.state EXCEPT ![c] = "WaitingJoin"] EXCEPT ![s1.next] = "Running"]
        /\ c \in s1.waitList /\ s.waitList \in SUBSET s1.waitList
    BY <1>2 DEF Waited
  <2>3. r.next = s1.next /\ r.state = s1.state /\ r.waitList = s1.waitList
    BY <1>4 DEF SameLinks
  <2>4. /\ r.joiner = [s.joiner EXCEPT ![t] = c] /\ r.target = [s.target EXCEPT ![c] = t]
        /\ r.joinable = [s.joinable EXCEPT ![t] = FALSE]
        /\ r.kernel = s.kernel
    BY <1>4, <2>1
  <2>5. /\ s.state[r.next] = "Ready" /\ r.next # c
        /\ r.state = [[s.state EXCEPT ![c] = "WaitingJoin"] EXCEPT ![r.next] = "Running"]
        /\ c \in r.waitList /\ s.waitList \in SUBSET r.waitList
    BY <2>2, <2>3
  <2> QED
    BY <2>4, <2>5, <2>6
<1>8. Runs(r) /\ Highest(r, {})
  BY <1>2, <1>4 DEF Waited, Runs, Highest, SameLinks
<1>9. /\ s.state \in [Thread -> ThreadState] /\ c \in Thread /\ r.next \in Thread
      /\ t # c /\ s.joiner[t] = NoThread
  BY <1>1, <1>8, JoinFields DEF JoinOK, Runs
<1>10. \A u \in Thread :
         /\ r.state[u] = "Inactive" <=> s.state[u] = "Inactive"
         /\ r.state[u] = "Terminated" <=> s.state[u] = "Terminated"
         /\ r.state[u] = "WaitingJoin" <=> s.state[u] = "WaitingJoin" \/ u = c
         /\ s.state[u] \in QueueStates \/ r.state[u] \in QueueStates
              => r.state[u] = s.state[u]
  BY <1>1, <1>7, <1>9 DEF QueueStates
<1>11. Plain(r)
  BY <1>1, <1>7, <1>9, <1>10 DEF Plain
<1> HIDE DEF c
<1>12. JoinOK(r)
  <2>1. ASSUME NEW u \in Thread, r.state[u] # "Inactive", r.joiner[u] # NoThread
        PROVE  /\ r.state[r.joiner[u]] = "WaitingJoin" /\ r.target[r.joiner[u]] = u
               /\ ~r.joinable[u]
    <3>1. CASE u = t
      BY <1>1, <1>7, <1>9, <1>10, <3>1, JoinFields
    <3>2. CASE u # t
      <4>1. r.joiner[u] = s.joiner[u] /\ s.state[u] # "Inactive"
        BY <1>1, <1>7, <1>10, <2>1, <3>2, JoinFields
      <4>2. /\ s.joiner[u] \in Thread /\ s.state[s.joiner[u]] = "WaitingJoin"
            /\ s.target[s.joiner[u]] = u /\ ~s.joinable[u]
        BY <1>1, <2>1, <4>1, JoinFields DEF JoinOK
      <4>3. s.joiner[u] # c
        BY <1>1, <4>2 DEF c
      <4> QED
        BY <1>1, <1>7, <1>10, <3>2, <4>1, <4>2, <4>3, JoinFields
    <3> QED
      BY <3>1, <3>2
  <2>2. ASSUME NEW u \in Thread, r.state[u] = "WaitingJoin"
        PROVE  /\ r.target[u] \in Thread \ {u}
               /\ r.state[r.target[u]] \notin {"Inactive", "Terminated"}
               /\ r.joiner[r.target[u]] = u
    <3>1. CASE u = c
      BY <1>1, <1>7, <1>9, <1>10, <3>1, JoinFields
    <3>2. CASE u # c
      <4>1. r.target[u] = s.target[u] /\ s.state[u] = "WaitingJoin"
        BY <1>1, <1>7, <1>9, <1>10, <2>2, <3>2, JoinFields
      <4>2. /\ s.target[u] \in Thread \ {u} /\ s.joiner[s.target[u]] = u
            /\ s.state[s.target[u]] \notin {"Inactive", "Terminated"}
        BY <1>1, <4>1 DEF JoinOK
      <4>3. s.target[u] # t
        BY <1>1, <1>9, <4>2, JoinFields
      <4> QED
        BY <1>1, <1>7, <1>10, <4>1, <4>2, <4>3, JoinFields
    <3> QED
      BY <3>1, <3>2
  <2>3. ASSUME NEW u \in Thread, r.state[u] = "Terminated" PROVE r.joinable[u]
    BY <1>1, <1>7, <1>10, <2>3, JoinFields DEF JoinOK
  <2> QED
    BY <2>1, <2>2, <2>3 DEF JoinOK
<1>13. Queues(r) /\ \A u \in Thread : Queued(r, u)
  <2>1. \A u \in Thread : Unqueued(s, u) \/ r.state[u] = s.state[u]
    BY <1>1, <1>10, QueuedWait
  <2>2. Queues(r)
    <3>1. s \in Kernel /\ Queues(s) /\ r.list = s.list /\ r.priority = s.priority
      BY <1>1, <1>7
    <3> QED
      BY ONLY <2>1, <3>1, QueuesKept
  <2> QED
    BY <1>1, <1>7, <1>10, <2>2 DEF Queued
<1>14. Mutexes(r, {}) /\ Owning(s, r)
  <2>1. SameEmpty(s, r) /\ SameBoost(s, r)
    BY <1>7 DEF SameEmpty, SameBoost
  <2>2. \A u \in Thread : Lives(r, u) <=> Lives(s, u)
    BY <1>10 DEF Lives
  <2> QED
    <3>1. Mutexes(s, {}) /\ SameLocks(s, r)
      BY <1>1, <1>7
    <3>2. Mutexes(r, {})
      BY ONLY <2>1, <2>2, <3>1, MutexesAlike
    <3>3. Owning(s, r)
      BY ONLY <3>1, OwningKept DEF SameLocks
    <3> QED
      BY <3>2, <3>3
<1>15. Settled(r)
  BY <1>1, <1>6, <1>7, <1>8, <1>11, <1>12, <1>13, <1>14 DEF Settled, Started
<1>16. Calm(s, r)
  BY <1>7, <1>10 DEF Calm
<1> QED
  BY <1>8, <1>14, <1>15, <1>16 DEF Fine

-----------------------------------------------------------------------------
(* The mutexes of a thread that ends. *)

\* A mutex is put in front of a list.
LEMMA PrependList ==
  ASSUME NEW S, NEW q \in Seq(S), NoDuplicates(q), NEW m \in S, m \notin ToSet(q)
  PROVE  /\ << m >> \o q \in Seq(S) /\ NoDuplicates(<< m >> \o q)
         /\ ToSet(<< m >> \o q) = ToSet(q) \cup {m}
<1> DEFINE p == << m >> \o q
<1>1. /\ p \in Seq(S) /\ Len(p) = Len(q) + 1 /\ Len(q) \in Nat
      /\ \A i \in 1..Len(p) : p[i] = IF i = 1 THEN m ELSE q[i-1]
  OBVIOUS
<1>2. /\ \A x : x \in ToSet(q) <=> \E i \in 1..Len(q) : q[i] = x
      /\ \A x : x \in ToSet(p) <=> \E i \in 1..Len(p) : p[i] = x
  <2> HIDE DEF p
  <2>1. \A x : x \in ToSet(q) <=> \E i \in 1..Len(q) : q[i] = x
    BY ToSetIs
  <2>2. \A x : x \in ToSet(p) <=> \E i \in 1..Len(p) : p[i] = x
    BY <1>1, ToSetIs
  <2> QED
    BY <2>1, <2>2
<1> HIDE DEF p
<1>3. NoDuplicates(p)
  <2>1. ASSUME NEW i \in 1..Len(p), NEW j \in 1..Len(p), p[i] = p[j] PROVE i = j
    <3>1. /\ i # 1 => i - 1 \in 1..Len(q) /\ p[i] = q[i-1]
          /\ j # 1 => j - 1 \in 1..Len(q) /\ p[j] = q[j-1]
          /\ i = 1 => p[i] = m
          /\ j = 1 => p[j] = m
      BY <1>1
    <3>2. i # 1 /\ j # 1 => i - 1 = j - 1
      BY <2>1, <3>1 DEF NoDuplicates
    <3>3. \A l \in 1..Len(q) : q[l] # m
      BY <1>2
    <3> QED
      BY <2>1, <3>1, <3>2, <3>3
  <2> QED
    BY <2>1 DEF NoDuplicates
<1>4. ASSUME NEW x PROVE x \in ToSet(p) <=> x \in ToSet(q) \cup {m}
  <2>1. ASSUME x \in ToSet(p) PROVE x \in ToSet(q) \cup {m}
    <3>1. PICK i \in 1..Len(p) : p[i] = x
      BY <1>2, <2>1
    <3>2. i # 1 => i - 1 \in 1..Len(q) /\ q[i-1] = x
      BY <1>1, <3>1
    <3> QED
      BY <1>1, <1>2, <3>1, <3>2
  <2>2. ASSUME x \in ToSet(q) PROVE x \in ToSet(p)
    <3>1. PICK i \in 1..Len(q) : q[i] = x
      BY <1>2, <2>2
    <3>2. i + 1 \in 1..Len(p) /\ p[i+1] = x
      BY <1>1, <3>1
    <3> QED
      BY <1>2, <3>2
  <2>3. m \in ToSet(p)
    BY <1>1, <1>2
  <2> QED
    BY <2>1, <2>2, <2>3
<1> QED
  BY <1>1, <1>3, <1>4 DEF p

\* w takes a mutex that nobody outside X owns.
LEMMA TakenOwns ==
  ASSUME NEW s \in Kernel, NEW r, NEW X, NEW m \in Mutex, NEW w \in Thread \ X,
         \A u \in Thread \ X : Lives(s, u) => Owns(s, u),
         Lives(s, w), m \in s.mutex, s.owner[m] \in X \/ ~Held(s, m),
         r.mutex = s.mutex, r.owner = [s.owner EXCEPT ![m] = w],
         r.lock = [s.lock EXCEPT ![m] = 1],
         r.owned = [s.owned EXCEPT ![w] = << m >> \o s.owned[w]],
         r.priority = s.priority, r.base = s.base
  PROVE  \A u \in Thread \ X : Lives(s, u) => Owns(r, u)
<1>1. /\ s.owned \in [Thread -> Seq(Mutex)] /\ s.owner \in [Mutex -> Thread \cup {NoThread}]
      /\ s.lock \in [Mutex -> Nat]
  BY Fields
<1>2. \A u \in Thread \ X : Lives(s, u) => m \notin ToSet(s.owned[u])
  BY DEF Owns
<1>3. \A x \in Mutex \ {m} : r.owner[x] = s.owner[x] /\ (Held(r, x) <=> Held(s, x))
  BY <1>1 DEF Held
<1>4. Held(r, m) /\ r.owner[m] = w
  BY <1>1 DEF Held
<1>5. ASSUME NEW u \in Thread \ X, Lives(s, u), u # w PROVE Owns(r, u)
  <2>1. Owns(s, u) /\ m \notin ToSet(s.owned[u]) /\ r.owned[u] = s.owned[u]
    BY <1>1, <1>2, <1>5
  <2>2. \A x \in Mutex : x \in ToSet(r.owned[u]) <=> Held(r, x) /\ r.owner[x] = u
    BY <1>3, <1>4, <1>5, <2>1 DEF Owns
  <2> QED
    BY <2>1, <2>2 DEF Owns
<1>6. Owns(r, w)
  <2>1. Owns(s, w) /\ m \notin ToSet(s.owned[w]) /\ r.owned[w] = << m >> \o s.owned[w]
        /\ s.owned[w] \in Seq(Mutex) /\ NoDuplicates(s.owned[w])
    BY <1>1, <1>2 DEF Owns
  <2>2. NoDuplicates(r.owned[w]) /\ ToSet(r.owned[w]) = ToSet(s.owned[w]) \cup {m}
    BY <2>1, PrependList
  <2>3. \A x \in Mutex : x \in ToSet(r.owned[w]) <=> Held(r, x) /\ r.owner[x] = w
    BY <1>3, <1>4, <2>1, <2>2 DEF Owns
  <2> QED
    BY <2>1, <2>2, <2>3 DEF Owns
<1> QED
  BY <1>5, <1>6

\* The dying thread t has still to release the mutexes D of its list.
Releasing(s, r, t, D) ==
  /\ Good(r, {t}) /\ Queues(r) /\ Unqueued(r, t)
  /\ r.joinable = s.joinable /\ r.joiner = s.joiner /\ r.target = s.target
  /\ r.run = s.run /\ r.kernel = s.kernel /\ r.base = s.base /\ r.mutex = s.mutex
  /\ r.next = s.next /\ r.priority = s.priority /\ r.owned[t] = s.owned[t]
  /\ \A u \in Thread :
       \/ r.state[u] = s.state[u]
       \/ u # t /\ s.state[u] = "WaitingMutex" /\ r.state[u] = "Ready"
  /\ \A u \in Thread : u \in s.waitList /\ s.state[u] # "WaitingMutex" => u \in r.waitList
  /\ s.ready # << >> => r.ready # << >>
  /\ \A u \in Thread \ {t} : Queued(r, u) /\ (Lives(r, u) => Owns(r, u))
  /\ \A m \in Mutex : Held(r, m) => /\ r.owner[m] \in Thread /\ Lives(r, r.owner[m])
                                    /\ r.owner[m] = t <=> m \in D
  /\ \A m \in Mutex : ~Held(r, m) => r.list[m] = << >>
  /\ \A m \in D : Held(r, m) /\ m \in r.mutex
  /\ \A m \in Mutex : m \in D \/ m \notin ToSet(s.owned[t])
       => r.list[m] = s.list[m] /\ r.lock[m] = s.lock[m] /\ r.owner[m] = s.owner[m]
  /\ \A m \in ToSet(s.owned[t]) \ D : Held(r, m) => r.owner[m] = Head(s.list[m])

\* One round of the loop of osRtxMutexOwnerRelease.
Freed(s, m) ==
  IF m \notin Robust THEN s
  ELSE IF s.list[m] = << >> THEN [s EXCEPT !.lock[m] = 0]
  ELSE MutexHandOver([s EXCEPT !.lock[m] = 0], m)

LEMMA WithLock ==
  ASSUME NEW s \in Kernel, NEW m \in Mutex, NEW n \in Nat
  PROVE  [s EXCEPT !.lock[m] = n] \in Kernel
BY DEF Kernel

\* The mutex m is unlocked or goes to its first waiter.
LEMMA FreedGood ==
  ASSUME NEW s \in Kernel, NEW t \in Thread, Lives(s, t), NEW D \in SUBSET Robust,
         D \in SUBSET ToSet(s.owned[t]),
         NEW w, Releasing(s, w, t, D), NEW m \in D, NEW r, r = Freed(w, m)
  PROVE  Releasing(s, r, t, D \ {m})
<1> DEFINE w1 == [w EXCEPT !.lock[m] = 0]
<1>1. /\ Good(w, {t}) /\ w \in Kernel /\ m \in Robust /\ m \in Mutex /\ 0 \in Nat
      /\ {t} \in SUBSET Thread /\ m \in Object
      /\ w.state \in [Thread -> ThreadState] /\ w.list \in [Object -> Seq(Thread)]
      /\ w.lock \in [Mutex -> Nat] /\ w.owner \in [Mutex -> Thread \cup {NoThread}]
      /\ w.owned \in [Thread -> Seq(Mutex)] /\ w.waitList \in SUBSET Thread
  BY KernelAssumption, Fields DEF Releasing, Good, Linked
<1>2. /\ m \in w.mutex /\ Held(w, m) /\ w.owner[m] = t
      /\ w.list[m] = s.list[m] /\ m \in ToSet(s.owned[t])
  BY <1>1 DEF Releasing
<1>3. w1 \in Kernel
  BY <1>1, WithLock
<1>4. /\ w1.lock = [w.lock EXCEPT ![m] = 0]
      /\ w1.joinable = w.joinable /\ w1.joiner = w.joiner /\ w1.target = w.target
      /\ w1.run = w.run /\ w1.kernel = w.kernel /\ w1.base = w.base
      /\ w1.mutex = w.mutex /\ w1.owner = w.owner /\ w1.owned = w.owned
      /\ w1.next = w.next /\ w1.list = w.list /\ SameLinks(w, w1)
  BY <1>1 DEF Kernel, SameLinks
<1>5. r = IF w.list[m] = << >> THEN w1 ELSE MutexHandOver(w1, m)
  BY <1>1 DEF Freed
<1> HIDE DEF w1
<1>6. Good(w1, {t}) /\ Queues(w1) /\ Unqueued(w1, t)
  <2>1. Good(w1, {t})
    BY <1>1, <1>3, <1>4, LinksKept
  <2> QED
    BY <1>1, <1>4, <2>1, QueuesKept DEF Releasing, SameLinks, Unqueued
<1>7. /\ ~Held(w1, m) /\ \A x \in Mutex \ {m} : Held(w1, x) <=> Held(w, x)
      /\ \A u \in Thread : Lives(w1, u) <=> Lives(w, u)
  BY <1>1, <1>4 DEF Held, Lives, SameLinks
<1>8. \A u \in Thread \ {t} : Lives(w1, u) => Owns(w1, u)
  <2>1. ASSUME NEW u \in Thread \ {t}, Lives(w1, u) PROVE Owns(w1, u)
    <3>1. Owns(w, u)
      BY <1>7, <2>1 DEF Releasing
    <3>2. \A x \in Mutex : Held(w1, x) /\ w1.owner[x] = u <=> Held(w, x) /\ w.owner[x] = u
      BY <1>2, <1>4, <1>7
    <3> QED
      BY <1>4, <3>1, <3>2 DEF Owns, SameLinks
  <2> QED
    BY <2>1
<1>9. CASE w.list[m] = << >>
  <2>1. r = w1
    BY <1>5, <1>9
  <2>2. \A u \in Thread \ {t} : Queued(w1, u)
    BY <1>4 DEF Releasing, Queued, SameLinks
  <2>3. \A x \in Mutex : ~Held(w1, x) => w1.list[x] = << >>
    BY <1>4, <1>7, <1>9 DEF Releasing
  <2>4. \A x \in Mutex : Held(w1, x) => /\ w1.owner[x] \in Thread /\ Lives(w1, w1.owner[x])
                                        /\ w1.owner[x] = t <=> x \in D \ {m}
    BY <1>4, <1>7 DEF Releasing
  <2>5. \A x \in D \ {m} : Held(w1, x) /\ x \in w1.mutex
    BY <1>4, <1>7, KernelAssumption DEF Releasing
  <2>6. \A x \in Mutex : x \in D \ {m} \/ x \notin ToSet(s.owned[t])
          => w1.list[x] = s.list[x] /\ w1.lock[x] = s.lock[x] /\ w1.owner[x] = s.owner[x]
    BY <1>1, <1>2, <1>4 DEF Releasing
  <2>7. ASSUME NEW x \in ToSet(s.owned[t]) \ (D \ {m}), Held(w1, x)
        PROVE  w1.owner[x] = Head(s.list[x])
    <3>1. x # m
      BY <1>7, <2>7
    <3>2. x \in Mutex
      BY <2>7, Fields, ToSetIs
    <3> QED
      BY <1>4, <1>7, <2>7, <3>1, <3>2 DEF Releasing
  <2>8. /\ r.joinable = s.joinable /\ r.joiner = s.joiner /\ r.target = s.target
        /\ r.run = s.run /\ r.kernel = s.kernel /\ r.base = s.base /\ r.mutex = s.mutex
        /\ r.next = s.next /\ r.priority = s.priority
        /\ r.owned[t] = s.owned[t] /\ (s.ready # << >> => r.ready # << >>)
    BY <1>4, <2>1 DEF Releasing, SameLinks
  <2>9. \A u \in Thread :
           /\ \/ r.state[u] = s.state[u]
              \/ u # t /\ s.state[u] = "WaitingMutex" /\ r.state[u] = "Ready"
           /\ u \in s.waitList /\ s.state[u] # "WaitingMutex" => u \in r.waitList
    BY <1>4, <2>1 DEF Releasing, SameLinks
  <2>10. \A u \in Thread \ {t} : Queued(r, u) /\ (Lives(r, u) => Owns(r, u))
    BY <1>8, <2>1, <2>2
  <2> QED
    BY <1>6, <2>1, <2>3, <2>4, <2>5, <2>6, <2>7, <2>8, <2>9, <2>10 DEF Releasing
<1>10. CASE w.list[m] # << >>
  <2> DEFINE h == Head(w.list[m])
  <2>1. Good(r, {t}) /\ Queues(r) /\ HandedOver(w1, r, m, h)
    <3>1. /\ \A u \in {t} : Unqueued(w1, u)
          /\ w1.list[m] # << >> /\ h = Head(w1.list[m]) /\ r = MutexHandOver(w1, m)
      BY <1>4, <1>5, <1>6, <1>10
    <3> HIDE DEF h
    <3> QED
      BY ONLY <1>1, <1>6, <3>1, HandOverGood
  <2>2. h = Head(s.list[m])
    BY <1>2
  <2> HIDE DEF h
  <2>3. /\ h \in Thread \ {t} /\ w1.state[h] = "WaitingMutex" /\ Lives(w1, h)
    <3>1. h \in Thread /\ h \in ToSet(w1.list[m]) /\ w1.state[h] = "WaitingMutex"
      BY <2>1 DEF HandedOver
    <3>2. h # t
      BY <1>1, <1>6, <3>1 DEF Unqueued
    <3> QED
      BY <3>1, <3>2 DEF Lives
  <2>20. /\ w1.state \in [Thread -> ThreadState] /\ w1.waitList \in SUBSET Thread
        /\ w1.list \in [Object -> Seq(Thread)] /\ w1.lock \in [Mutex -> Nat]
        /\ w1.owner \in [Mutex -> Thread \cup {NoThread}]
        /\ w1.owned \in [Thread -> Seq(Mutex)]
    BY <1>3, Fields
  <2>4. Unqueued(r, t)
    BY <1>6, <2>1, <2>3, <2>20 DEF HandedOver, Unqueued
  <2>5. \A u \in Thread \ {t} : Lives(w1, u) => Owns(r, u)
    <3>1. /\ w1.owner[m] \in {t} \/ ~Held(w1, m)
          /\ m \in w1.mutex /\ h \in Thread \ {t} /\ Lives(w1, h)
      BY <1>2, <1>4, <1>7, <2>3, <2>20
    <3>2. /\ r.mutex = w1.mutex /\ r.owner = [w1.owner EXCEPT ![m] = h]
          /\ r.lock = [w1.lock EXCEPT ![m] = 1]
          /\ r.owned = [w1.owned EXCEPT ![h] = << m >> \o w1.owned[h]]
          /\ r.priority = w1.priority /\ r.base = w1.base
      BY <2>1 DEF HandedOver
    <3> QED
      BY ONLY <1>1, <1>3, <1>8, <3>1, <3>2, TakenOwns
  <2>6. \A u \in Thread : /\ Lives(r, u) <=> Lives(w1, u)
                          /\ u # h => r.state[u] = w1.state[u]
                          /\ u = h => r.state[u] = "Ready"
    BY <2>1, <2>3, <2>20 DEF HandedOver, Lives
  <2>7. /\ Held(r, m) /\ r.owner[m] = h
        /\ \A x \in Mutex \ {m} : /\ Held(r, x) <=> Held(w, x)
                                  /\ r.owner[x] = w.owner[x] /\ r.list[x] = w.list[x]
                                  /\ r.lock[x] = w.lock[x]
    BY <1>1, <1>2, <1>4, <1>7, <2>1, <2>3, <2>20, KernelAssumption DEF HandedOver, Held
  <2>8. \A u \in Thread \ {t} : Queued(r, u)
    <3>1. ASSUME NEW u \in Thread \ {t}, r.state[u] \in QueueStates
          PROVE  \E o \in Object : u \in ToSet(r.list[o])
      <4>1. u # h /\ w.state[u] \in QueueStates
        BY <1>4, <2>6, <3>1 DEF QueueStates, SameLinks
      <4>2. PICK o \in Object : u \in ToSet(w.list[o])
        BY <4>1 DEF Releasing, Queued
      <4>3. u \in ToSet(r.list[o])
        BY <1>4, <2>1, <2>3, <2>20, <4>1, <4>2 DEF HandedOver
      <4> QED
        BY <4>3
    <3> QED
      BY <3>1 DEF Queued
  <2>9. \A x \in Mutex : Held(r, x) => /\ r.owner[x] \in Thread /\ Lives(r, r.owner[x])
                                       /\ r.owner[x] = t <=> x \in D \ {m}
    <3>1. ASSUME NEW x \in Mutex, Held(r, x)
          PROVE  /\ r.owner[x] \in Thread /\ Lives(r, r.owner[x])
                 /\ r.owner[x] = t <=> x \in D \ {m}
      <4>1. CASE x = m
        BY <2>3, <2>20, <2>6, <2>7, <4>1
      <4>2. CASE x # m
        <5>1. Held(w, x) /\ r.owner[x] = w.owner[x]
          BY <2>7, <3>1, <4>2
        <5>2. /\ w.owner[x] \in Thread /\ Lives(w, w.owner[x])
              /\ w.owner[x] = t <=> x \in D
          BY <5>1 DEF Releasing
        <5> QED
          BY <1>7, <2>6, <4>2, <5>1, <5>2
      <4> QED
        BY <4>1, <4>2
    <3> QED
      BY <3>1
  <2>10. \A x \in Mutex : ~Held(r, x) => r.list[x] = << >>
    BY <2>7 DEF Releasing
  <2>11. \A x \in D \ {m} : Held(r, x) /\ x \in r.mutex
    BY <1>4, <2>1, <2>7, KernelAssumption DEF Releasing, HandedOver
  <2>12. \A x \in Mutex : x \in D \ {m} \/ x \notin ToSet(s.owned[t])
          => r.list[x] = s.list[x] /\ r.lock[x] = s.lock[x] /\ r.owner[x] = s.owner[x]
    BY <1>2, <2>7 DEF Releasing
  <2>13. ASSUME NEW x \in ToSet(s.owned[t]) \ (D \ {m}), Held(r, x)
         PROVE  r.owner[x] = Head(s.list[x])
    <3>1. x \in Mutex
      BY <2>13, Fields, ToSetIs
    <3> QED
      BY <2>2, <2>7, <2>13, <3>1 DEF Releasing
  <2>14. /\ r.joinable = s.joinable /\ r.joiner = s.joiner /\ r.target = s.target
         /\ r.run = s.run /\ r.kernel = s.kernel /\ r.base = s.base /\ r.mutex = s.mutex
         /\ r.next = s.next /\ r.priority = s.priority
    BY <1>4, <2>1 DEF Releasing, HandedOver, SameLinks
  <2>15. r.owned[t] = s.owned[t] /\ r.ready # << >>
    BY <1>4, <2>1, <2>3, <2>20 DEF Releasing, HandedOver
  <2>16. \A u \in Thread :
           /\ \/ r.state[u] = s.state[u]
              \/ u # t /\ s.state[u] = "WaitingMutex" /\ r.state[u] = "Ready"
           /\ u \in s.waitList /\ s.state[u] # "WaitingMutex" => u \in r.waitList
    <3>1. \A u \in Thread :
            /\ r.state[u] = IF u = h THEN "Ready" ELSE w.state[u]
            /\ w.state[h] = "WaitingMutex"
            /\ r.waitList = w.waitList \ {h}
      BY <1>4, <2>1, <2>3, <2>20, <2>6 DEF HandedOver, SameLinks
    <3>2. \A u \in Thread :
           /\ \/ w.state[u] = s.state[u]
              \/ u # t /\ s.state[u] = "WaitingMutex" /\ w.state[u] = "Ready"
           /\ u \in s.waitList /\ s.state[u] # "WaitingMutex" => u \in w.waitList
      BY DEF Releasing
    <3> QED
      BY <2>3, <2>20, <3>1, <3>2
  <2>17. \A u \in Thread \ {t} : Queued(r, u) /\ (Lives(r, u) => Owns(r, u))
    BY <2>5, <2>6, <2>8
  <2> QED
    BY <2>1, <2>4, <2>9, <2>10, <2>11, <2>12, <2>13, <2>14, <2>15, <2>16, <2>17
       DEF Releasing
<1> QED
  BY <1>9, <1>10

\* The loop of osRtxMutexOwnerRelease over the list q.
ReleasedFrom(s, q, n, f) ==
  f = [i \in 0..n |-> IF i = 0 THEN s ELSE Freed(f[i-1], q[i])]

\* The loop is a recursive function: it exists.
LEMMA ReleasedExists ==
  ASSUME NEW s, NEW q, NEW n \in Nat
  PROVE  \E f : ReleasedFrom(s, q, n, f)
<1> DEFINE Ex(m) == \E f : ReleasedFrom(s, q, m, f)
           T == {m \in Nat : ~Ex(m)}
<1>1. SUFFICES ASSUME T # {} PROVE FALSE
  OBVIOUS
<1>2. PICK m : m = Min(T)
  OBVIOUS
<1>3. m \in Nat /\ ~Ex(m) /\ \A y \in T : m <= y
  <2>1. T \in SUBSET Nat
    OBVIOUS
  <2> QED
    BY <1>1, <1>2, <2>1, MinIs
<1>4. CASE m = 0
  <2> DEFINE g == [i \in 0..m |-> s]
  <2>1. g = [i \in 0..m |-> IF i = 0 THEN s ELSE Freed(g[i-1], q[i])]
    BY <1>4
  <2> HIDE DEF g
  <2>2. Ex(m)
    BY <2>1 DEF ReleasedFrom
  <2> QED
    BY <1>3, <2>2
<1>5. CASE m # 0
  <2>1. m - 1 \in Nat /\ m - 1 \notin T
    <3>1. m - 1 \in Nat /\ ~(m <= m - 1)
      BY <1>3, <1>5
    <3> HIDE DEF T
    <3> QED
      BY <1>3, <3>1
  <2>2. PICK f : ReleasedFrom(s, q, m - 1, f)
    BY <2>1
  <2> DEFINE g == [i \in 0..m |-> IF i = m THEN Freed(f[m-1], q[m]) ELSE f[i]]
  <2>3. g = [i \in 0..m |-> IF i = 0 THEN s ELSE Freed(g[i-1], q[i])]
    <3>1. ASSUME NEW i \in 0..m
          PROVE  g[i] = IF i = 0 THEN s ELSE Freed(g[i-1], q[i])
      <4>1. CASE i = m
        <5>1. g[i] = Freed(f[m-1], q[m]) /\ g[i-1] = f[m-1]
          BY <1>3, <1>5, <2>1, <4>1
        <5> QED
          BY <1>5, <4>1, <5>1
      <4>2. CASE i # m
        <5>1. i \in 0..m-1 /\ (i # 0 => i - 1 \in 0..m-1 /\ i - 1 # m /\ i - 1 \in 0..m)
          BY <1>3, <2>1, <4>2
        <5>2. f[i] = IF i = 0 THEN s ELSE Freed(f[i-1], q[i])
          BY ONLY <2>2, <5>1 DEF ReleasedFrom
        <5> QED
          BY <4>2, <5>1, <5>2
      <4> QED
        BY <4>1, <4>2
    <3> QED
      BY <3>1
  <2> HIDE DEF g
  <2>4. Ex(m)
    BY <2>3 DEF ReleasedFrom
  <2> QED
    BY <1>3, <2>4
<1> QED
  BY <1>4, <1>5

\* Before the first round.
LEMMA ReleasingAll ==
  ASSUME NEW s, NEW t \in Thread, Good(s, {t}), Loose(s, t), Lives(s, t)
  PROVE  Releasing(s, s, t, ToSet(s.owned[t]))
<1>1. /\ Mutexes(s, {}) /\ Queues(s) /\ Unqueued(s, t)
      /\ \A u \in Thread \ {t} : Queued(s, u)
  BY DEF Loose
<1>2. /\ \A u \in Thread : Lives(s, u) => Owns(s, u)
      /\ \A m \in Mutex : Held(s, m) => s.owner[m] \in Thread /\ Lives(s, s.owner[m])
      /\ \A m \in Mutex : ~Held(s, m) => s.list[m] = << >>
  BY <1>1 DEF Mutexes
<1>3. ToSet(s.owned[t]) \in SUBSET Mutex
  BY Fields, ToSetIs DEF Good, Linked
<1>4. \A m \in Mutex : m \in ToSet(s.owned[t]) <=> Held(s, m) /\ s.owner[m] = t
  BY <1>2 DEF Owns
<1>5. \A m \in ToSet(s.owned[t]) : Held(s, m) /\ m \in s.mutex
  BY <1>3, <1>4 DEF Held
<1> QED
  BY <1>1, <1>2, <1>4, <1>5 DEF Releasing

\* osRtxMutexOwnerRelease
LEMMA ReleaseGood ==
  ASSUME NEW s, NEW t \in Thread, Good(s, {t}), Loose(s, t), Lives(s, t),
         ToSet(s.owned[t]) \in SUBSET Robust,
         NEW r, r = MutexOwnerRelease(s, t)
  PROVE  Releasing(s, r, t, {})
<1> DEFINE q == s.owned[t]
           n == Len(q)
           f == CHOOSE g : ReleasedFrom(s, q, n, g)
           D(i) == {q[j] : j \in i+1..n}
           Ok(i) == Releasing(s, f[i], t, D(i))
           T == {i \in Nat : i <= n /\ ~Ok(i)}
<1>1. r = f[n]
  BY DEF MutexOwnerRelease, ReleasedFrom, Freed
<1>2. q \in Seq(Mutex) /\ n \in Nat /\ s \in Kernel
  BY Fields DEF Good, Linked
<1>3. NoDuplicates(q)
  BY DEF Loose, Mutexes, Owns
<1>4. \A x : x \in ToSet(q) <=> \E j \in 1..n : q[j] = x
  BY <1>2, ToSetIs
<1>5. Releasing(s, s, t, ToSet(q)) /\ ToSet(q) \in SUBSET Robust
  BY ReleasingAll
<1> HIDE DEF q
<1>6. \E g : ReleasedFrom(s, q, n, g)
  BY <1>2, ReleasedExists
<1>7. ReleasedFrom(s, q, n, f)
  BY <1>6
<1> HIDE DEF f, n
<1>8. D(0) = ToSet(q) /\ D(n) = {}
  BY <1>2, <1>4
<1>9. ASSUME NEW i \in 1..n
      PROVE  /\ q[i] \in D(i-1) /\ D(i) = D(i-1) \ {q[i]}
             /\ D(i-1) \in SUBSET Robust /\ D(i-1) \in SUBSET ToSet(q)
  <2>1. \A j \in 1..n : q[j] = q[i] => j = i
    BY <1>2, <1>3 DEF NoDuplicates, n
  <2>2. /\ i \in i-1+1..n /\ i+1..n \in SUBSET (i-1+1..n) /\ i-1+1..n \in SUBSET (1..n)
        /\ i \notin i+1..n
        /\ \A j \in i-1+1..n : j = i \/ j \in i+1..n
    BY <1>2
  <2>3. q[i] \in D(i-1)
    BY <2>2
  <2>4. D(i) = D(i-1) \ {q[i]}
    BY <2>1, <2>2
  <2>5. D(i-1) \in SUBSET ToSet(q)
    BY <1>4, <2>2
  <2> QED
    BY <1>5, <2>3, <2>4, <2>5
<1> HIDE DEF D
<1>10. SUFFICES ASSUME T # {} PROVE FALSE
  <2>1. n \notin T => Ok(n)
    BY <1>2
  <2> QED
    BY <1>1, <1>8, <2>1
<1>11. PICK m : m = Min(T)
  OBVIOUS
<1>12. m \in Nat /\ m <= n /\ ~Ok(m) /\ \A y \in T : m <= y
  <2>1. T \in SUBSET Nat
    OBVIOUS
  <2> QED
    BY <1>10, <1>11, <2>1, MinIs
<1>13. m # 0
  <2>1. f[0] = s
    BY <1>2, <1>7 DEF ReleasedFrom
  <2>2. Ok(0)
    BY <1>5, <1>8, <2>1
  <2> QED
    BY <1>12, <2>2
<1>14. m \in 1..n /\ m - 1 \in Nat /\ m - 1 <= n /\ ~(m <= m - 1)
  BY <1>2, <1>12, <1>13
<1>15. Ok(m-1)
  <2>1. m - 1 \notin T
    BY <1>12, <1>14
  <2> QED
    BY <1>14, <2>1
<1>16. f[m] = Freed(f[m-1], q[m])
  BY <1>2, <1>7, <1>14 DEF ReleasedFrom
<1>17. Releasing(s, f[m], t, D(m-1) \ {q[m]})
  <2>1. /\ q[m] \in D(m-1) /\ D(m-1) \in SUBSET Robust
        /\ D(m-1) \in SUBSET ToSet(s.owned[t]) /\ Releasing(s, f[m-1], t, D(m-1))
    BY <1>9, <1>14, <1>15 DEF q
  <2>2. Lives(s, t) /\ t \in Thread
    OBVIOUS
  <2> QED
    BY ONLY <1>2, <1>16, <2>1, <2>2, FreedGood
<1> QED
  BY <1>9, <1>12, <1>14, <1>17

-----------------------------------------------------------------------------
(* Threads end. *)

\* The thread that joins t is woken up, and t joins nobody any more.
JoinEnded(s, r, t) ==
  /\ r.joinable = s.joinable /\ r.target = s.target /\ r.owned = s.owned
  /\ r.run = s.run /\ r.kernel = s.kernel /\ r.priority = s.priority
  /\ r.base = s.base /\ r.mutex = s.mutex /\ r.owner = s.owner /\ r.lock = s.lock
  /\ r.list = s.list
  /\ r.joiner = IF s.state[t] = "WaitingJoin"
                THEN [s.joiner EXCEPT ![s.target[t]] = NoThread] ELSE s.joiner
  /\ r.state = [u \in Thread |-> IF u = s.joiner[t] THEN "Ready" ELSE s.state[u]]
  /\ r.next = s.next
  /\ r.waitList = s.waitList \ {s.joiner[t]}
  /\ s.ready # << >> => r.ready # << >>

LEMMA WithoutJoiner ==
  ASSUME NEW s \in Kernel, NEW t \in Thread
  PROVE  [s EXCEPT !.joiner[t] = NoThread] \in Kernel
BY DEF Kernel

\* osRtxThreadJoinWakeup
LEMMA JoinWakeupGood ==
  ASSUME NEW s, NEW t \in Thread, Good(s, {t}), JoinOK(s), s.state[t] # "Inactive",
         NEW r, r = ThreadJoinWakeup(s, t)
  PROVE  Good(r, {t}) /\ JoinEnded(s, r, t)
<1> DEFINE j == s.joiner[t]
           s1 == IF j = NoThread THEN s ELSE ThreadWaitExit(s, j)
<1>1. /\ s \in Kernel /\ {t} \in SUBSET Thread /\ NoThread \notin Thread
      /\ s.state \in [Thread -> ThreadState] /\ s.waitList \in SUBSET Thread
      /\ j \in Thread \cup {NoThread}
  BY JoinFields, Fields DEF Good, Linked
<1>2. j # NoThread => /\ j \in Thread \ {t} /\ s.state[j] = "WaitingJoin"
                      /\ s.target[j] = t /\ ~s.joinable[t]
  BY <1>1 DEF JoinOK
<1>3. r = IF s1.state[t] = "WaitingJoin"
          THEN [s1 EXCEPT !.joiner[s1.target[t]] = NoThread] ELSE s1
  BY DEF ThreadJoinWakeup
<1>4. /\ Good(s1, {t}) /\ Frame(s, s1) /\ s1.next = s.next
      /\ s1.state = [u \in Thread |-> IF u = j THEN "Ready" ELSE s.state[u]]
      /\ s1.waitList = s.waitList \ {j}
      /\ s.ready # << >> => s1.ready # << >>
  <2>1. CASE j = NoThread
    BY <1>1, <2>1 DEF Frame
  <2>2. CASE j # NoThread
    <3>1. IsBlocked(s, j) /\ j \in Thread \ {t}
      BY <1>2, <2>2 DEF IsBlocked, Waiting
    <3>2. s1 = ThreadWaitExit(s, j)
      BY <2>2
    <3> HIDE DEF s1, j
    <3>3. /\ Good(s1, {t}) /\ Frame(s, s1)
          /\ s1.state = [s.state EXCEPT ![j] = "Ready"] /\ s1.next = s.next
          /\ s1.waitList = s.waitList \ {j} /\ s1.ready # << >>
      BY ONLY <1>1, <3>1, <3>2, Good(s, {t}), WaitExitGood
    <3> QED
      BY <1>1, <3>3
  <2> QED
    BY <2>1, <2>2
<1> HIDE DEF s1
<1>5. s1 \in Kernel /\ s1.state[t] = s.state[t] /\ s1.target = s.target
      /\ s1.joiner = s.joiner
  BY <1>1, <1>2, <1>4 DEF Good, Linked, Frame
<1>6. CASE s.state[t] # "WaitingJoin"
  <2>1. r = s1
    BY <1>3, <1>5, <1>6
  <2> QED
    BY <1>4, <1>5, <1>6, <2>1 DEF JoinEnded, Frame
<1>7. CASE s.state[t] = "WaitingJoin"
  <2>1. r = [s1 EXCEPT !.joiner[s.target[t]] = NoThread]
    BY <1>3, <1>5, <1>7
  <2>2. s.target[t] \in Thread
    BY <1>7 DEF JoinOK
  <2>3. r \in Kernel
    BY <1>5, <2>1, <2>2, WithoutJoiner
  <2>4. /\ r.joiner = [s.joiner EXCEPT ![s.target[t]] = NoThread]
        /\ r.target = s1.target /\ r.owned = s1.owned /\ r.joinable = s1.joinable
        /\ r.run = s1.run /\ r.kernel = s1.kernel /\ r.next = s1.next
        /\ r.base = s1.base /\ r.mutex = s1.mutex /\ r.owner = s1.owner /\ r.lock = s1.lock
        /\ SameLinks(s1, r)
    BY <1>5, <2>1 DEF Kernel, SameLinks
  <2>5. Good(r, {t})
    BY <1>1, <1>4, <2>3, <2>4, LinksKept
  <2> QED
    BY <1>4, <1>7, <2>4, <2>5 DEF JoinEnded, Frame, SameLinks
<1> QED
  BY <1>6, <1>7

\* Another thread is chosen.
Replaced(s, r, t) ==
  /\ r.joinable = s.joinable /\ r.joiner = s.joiner /\ r.target = s.target
  /\ r.owned = s.owned /\ r.kernel = s.kernel /\ r.priority = s.priority
  /\ r.base = s.base /\ r.mutex = s.mutex /\ r.owner = s.owner /\ r.lock = s.lock
  /\ r.list = s.list
  /\ r.next \in Thread \ {t} /\ r.waitList = s.waitList
  /\ \A u \in Thread \ {t} : /\ r.state[u] = "Running" <=> u = r.next
                             /\ Life(r.state[u]) = Life(s.state[u])
  /\ s.kernel = "Running" => Highest(r, {t})

LEMMA WithoutRun ==
  ASSUME NEW s \in Kernel
  PROVE  [s EXCEPT !.run = NoThread] \in Kernel
BY DEF Kernel

\* The running thread leaves for good and the first of the ready list runs.
LEMMA ReplacedGood ==
  ASSUME NEW s, NEW t \in Thread, Good(s, {t}),
         \/ /\ s.state[t] = "Running" /\ s.ready # << >>
            /\ \A u \in Thread \ {t} : s.state[u] # "Running"
         \/ s.state[t] # "Running" /\ Runs(s) /\ s.run = s.next,
         NEW r, r = IF s.state[t] = "Running"
                    THEN [ThreadSwitchToReady(s) EXCEPT !.run = NoThread]
                    ELSE ThreadDispatchReady(s)
  PROVE  Good(r, {t}) /\ Replaced(s, r, t)
<1>1. {t} \in SUBSET Thread /\ Linked(s, s.delayList, {t})
      /\ s.state \in [Thread -> ThreadState]
  BY Fields DEF Good, Linked
<1>2. CASE s.state[t] = "Running"
  <2> DEFINE s1 == ThreadSwitchToReady(s)
  <2>1. Good(s1, {t}) /\ Chosen(s, s1, {t})
    BY <1>2, HandOver
  <2>2. r = [s1 EXCEPT !.run = NoThread]
    BY <1>2
  <2> HIDE DEF s1
  <2>3. s1 \in Kernel
    BY <2>1 DEF Good, Linked
  <2>4. r \in Kernel
    BY <2>2, <2>3, WithoutRun
  <2>5. /\ r.joiner = s1.joiner
        /\ r.target = s1.target /\ r.owned = s1.owned /\ r.joinable = s1.joinable
        /\ r.kernel = s1.kernel /\ r.next = s1.next
        /\ r.base = s1.base /\ r.mutex = s1.mutex /\ r.owner = s1.owner /\ r.lock = s1.lock
        /\ SameLinks(s1, r)
    BY <2>2, <2>3 DEF Kernel, SameLinks
  <2>6. Good(r, {t})
    BY <1>1, <2>1, <2>4, <2>5, LinksKept
  <2>7. \A u \in Thread \ {t} : /\ r.state[u] = "Running" <=> u = r.next
                                /\ Life(r.state[u]) = Life(s.state[u])
    BY <1>1, <1>2, <2>1, <2>5 DEF Chosen, Life, QueueStates, SameLinks
  <2>8. Highest(r, {t})
    BY <2>1, <2>5 DEF Chosen, Highest, SameLinks
  <2> QED
    BY <2>1, <2>5, <2>6, <2>7, <2>8 DEF Replaced, Chosen, Frame, SameLinks
<1>3. CASE s.state[t] # "Running"
  <2>1. Runs(s) /\ s.run = s.next /\ s.next \notin {t} /\ r = ThreadDispatchReady(s)
    BY <1>3 DEF Runs
  <2>2. Linked(r, s.delayList, {t}) /\ Rescheduled(s, r, {t})
    BY ONLY <1>1, <2>1, DispatchReadyGood
  <2>3. Good(r, {t})
    BY <2>2 DEF Good, NotDue, Rescheduled
  <2> QED
    BY <2>2, <2>3 DEF Replaced, Rescheduled, Keeps, Frame, Runs
<1> QED
  BY <1>2, <1>3

\* From s to r the thread t has ended and others run, but no mutex changes hands.
EndedOnly(s, r, t) ==
  /\ SameLocks(s, r) /\ Calm(s, r) /\ ~Lives(r, t) /\ r.kernel = s.kernel
  /\ \A u \in Thread \ {t} : Lives(r, u) <=> Lives(s, u)
  /\ s.kernel = "Running" => Highest(r, {})

\* From s to r the thread t has ended, the thread that joins it has woken up, and
\* the others have only been scheduled.
EndedAlike(s, r, t) ==
  /\ r.joinable = s.joinable /\ r.target = s.target
  /\ r.joiner = IF s.state[t] = "WaitingJoin"
                THEN [s.joiner EXCEPT ![s.target[t]] = NoThread] ELSE s.joiner
  /\ r.state[t] = IF s.joinable[t] THEN "Terminated" ELSE "Inactive"
  /\ \A u \in Thread \ {t} :
       IF u = s.joiner[t]
       THEN r.state[u] \notin {"Inactive", "Terminated", "WaitingJoin"} \cup QueueStates
       ELSE /\ r.state[u] = "Inactive" <=> s.state[u] = "Inactive"
            /\ r.state[u] = "Terminated" <=> s.state[u] = "Terminated"
            /\ r.state[u] = "WaitingJoin" <=> s.state[u] = "WaitingJoin"
            /\ r.state[u] = s.state[u] \/ {r.state[u], s.state[u]} \cap QueueStates = {}

\* The thread that joins t.
LEMMA JoinerIs ==
  ASSUME NEW s \in Kernel, NEW t \in Thread, JoinOK(s), s.state[t] # "Inactive",
         s.joiner[t] # NoThread
  PROVE  /\ s.joiner[t] \in Thread \ {t} /\ s.state[s.joiner[t]] = "WaitingJoin"
         /\ s.target[s.joiner[t]] = t /\ ~s.joinable[t]
<1> QED
  BY JoinFields DEF JoinOK

\* The end of a thread leaves the joins in order.
LEMMA EndJoins ==
  ASSUME NEW s \in Kernel, NEW t \in Thread, JoinOK(s),
         s.state[t] \notin {"Inactive", "Terminated"},
         NEW r, EndedAlike(s, r, t)
  PROVE  JoinOK(r)
<1>1. s.joiner[t] # NoThread =>
        /\ s.joiner[t] \in Thread \ {t} /\ s.state[s.joiner[t]] = "WaitingJoin"
        /\ s.target[s.joiner[t]] = t /\ ~s.joinable[t]
  BY JoinerIs
<1>2. /\ r.joinable = s.joinable /\ r.target = s.target
      /\ r.joiner = IF s.state[t] = "WaitingJoin"
                    THEN [s.joiner EXCEPT ![s.target[t]] = NoThread] ELSE s.joiner
      /\ r.state[t] = IF s.joinable[t] THEN "Terminated" ELSE "Inactive"
      /\ \A u \in Thread \ {t} :
           IF u = s.joiner[t]
           THEN r.state[u] \notin {"Inactive", "Terminated", "WaitingJoin"}
           ELSE /\ r.state[u] = "Inactive" <=> s.state[u] = "Inactive"
                /\ r.state[u] = "Terminated" <=> s.state[u] = "Terminated"
                /\ r.state[u] = "WaitingJoin" <=> s.state[u] = "WaitingJoin"
  BY DEF EndedAlike
<1>3. /\ s.joiner \in [Thread -> Thread \cup {NoThread}] /\ NoThread \notin Thread
      /\ s.target \in [Thread -> Thread \cup {NoThread}]
  BY JoinFields
<1>4. s.state[t] = "WaitingJoin" => s.target[t] \in Thread \ {t} /\ s.joiner[s.target[t]] = t
  BY DEF JoinOK
<1>5. ASSUME NEW u \in Thread, r.state[u] # "Inactive", r.joiner[u] # NoThread
      PROVE  /\ r.state[r.joiner[u]] = "WaitingJoin" /\ r.target[r.joiner[u]] = u
             /\ ~r.joinable[u]
  <2>1. r.joiner[u] = s.joiner[u] /\ (s.state[t] = "WaitingJoin" => u # s.target[t])
    BY <1>2, <1>3, <1>4, <1>5
  <2>2. u # t
    BY <1>1, <1>2, <1>5, <2>1
  <2>3. s.state[u] # "Inactive"
    BY <1>1, <1>2, <1>3, <1>5, <2>2
  <2>4. /\ s.joiner[u] \in Thread /\ s.state[s.joiner[u]] = "WaitingJoin"
        /\ s.target[s.joiner[u]] = u /\ ~s.joinable[u]
    BY <1>3, <1>5, <2>1, <2>3 DEF JoinOK
  <2>5. s.joiner[u] # t /\ s.joiner[u] # s.joiner[t]
    BY <1>1, <1>3, <2>1, <2>2, <2>4
  <2> QED
    <3>1. s.joiner[u] \in Thread \ {t}
      BY <2>4, <2>5
    <3>2. r.state[s.joiner[u]] = "WaitingJoin"
      BY ONLY <1>2, <2>4, <2>5, <3>1
    <3> QED
      BY <1>2, <2>1, <2>4, <3>2
<1>6. ASSUME NEW u \in Thread, r.state[u] = "WaitingJoin"
      PROVE  /\ r.target[u] \in Thread \ {u}
             /\ r.state[r.target[u]] \notin {"Inactive", "Terminated"}
             /\ r.joiner[r.target[u]] = u
  <2>1. u # t /\ u # s.joiner[t] /\ s.state[u] = "WaitingJoin"
    BY <1>2, <1>6
  <2>2. /\ s.target[u] \in Thread \ {u} /\ s.joiner[s.target[u]] = u
        /\ s.state[s.target[u]] \notin {"Inactive", "Terminated"}
    BY <2>1 DEF JoinOK
  <2>3. s.target[u] # t /\ (s.state[t] = "WaitingJoin" => s.target[u] # s.target[t])
    BY <1>4, <2>1, <2>2
  <2> QED
    <3>1. s.target[u] \in Thread \ {t}
      BY <2>2, <2>3
    <3>2. r.state[s.target[u]] \notin {"Inactive", "Terminated"}
      BY ONLY <1>2, <2>2, <3>1
    <3>3. r.joiner[s.target[u]] = u
      BY <1>2, <1>3, <2>2, <2>3
    <3> QED
      BY <1>2, <2>2, <3>2, <3>3
<1>7. ASSUME NEW u \in Thread, r.state[u] = "Terminated" PROVE r.joinable[u]
  <2>1. CASE u = t
    BY <1>2, <1>7, <2>1
  <2>2. CASE u # t
    BY <1>2, <1>7, <2>2 DEF JoinOK
  <2> QED
    BY <2>1, <2>2
<1> QED
  BY <1>5, <1>6, <1>7 DEF JoinOK

\* svcRtxThreadExit and svcRtxThreadTerminate after the mutexes of t are released.
LEMMA EndGood ==
  ASSUME NEW s, NEW t \in Thread, Good(s, {t}), JoinOK(s), Lives(s, t),
         s.kernel # "Ready", Queues(s), Unqueued(s, t), Mutexes(s, {t}),
         \A u \in Thread \ {t} : Queued(s, u),
         \A u \in Thread \ {t} : s.state[u] = "WaitingJoin" => u \in s.waitList,
         \/ /\ s.state[t] = "Running" /\ s.ready # << >>
            /\ \A u \in Thread \ {t} : s.state[u] # "Running"
         \/ s.state[t] # "Running" /\ Runs(s) /\ s.run = s.next,
         NEW r, r = ThreadDestroy(IF s.state[t] = "Running"
                                  THEN [ThreadSwitchToReady(ThreadJoinWakeup(s, t))
                                          EXCEPT !.run = NoThread]
                                  ELSE ThreadDispatchReady(ThreadJoinWakeup(s, t)), t)
  PROVE  Settled(r) /\ EndedOnly(s, r, t)
<1> DEFINE s1 == ThreadJoinWakeup(s, t)
           s2 == IF s.state[t] = "Running"
                 THEN [ThreadSwitchToReady(s1) EXCEPT !.run = NoThread]
                 ELSE ThreadDispatchReady(s1)
           x == IF s.joinable[t] THEN "Terminated" ELSE "Inactive"
<1>1. /\ s \in Kernel /\ s.state \in [Thread -> ThreadState]
      /\ s.state[t] \notin {"Inactive", "Terminated"}
  BY Fields DEF Good, Linked, Lives
<1>4. Good(s1, {t}) /\ JoinEnded(s, s1, t)
  BY <1>1, JoinWakeupGood
<1>5. s.joiner[t] # t /\ s1.state[t] = s.state[t] /\ s1.joinable = s.joinable
  BY <1>1, <1>4, JoinFields DEF JoinEnded, JoinOK
<1>6. r = ThreadDestroy(s2, t)
  OBVIOUS
<1>7. s2 = IF s1.state[t] = "Running"
           THEN [ThreadSwitchToReady(s1) EXCEPT !.run = NoThread]
           ELSE ThreadDispatchReady(s1)
  BY <1>5
<1> HIDE DEF s1, s2
<1>8. Good(s2, {t}) /\ Replaced(s1, s2, t)
  <2>1. CASE s.state[t] = "Running"
    <3>1. s1.ready # << >> /\ s1.state[t] = "Running"
      BY <1>4, <1>5, <2>1 DEF JoinEnded
    <3>2. \A u \in Thread \ {t} : s1.state[u] # "Running"
      BY <1>4, <2>1 DEF JoinEnded
    <3> QED
      BY <1>4, <1>7, <3>1, <3>2, ReplacedGood
  <2>2. CASE s.state[t] # "Running"
    <3>1. s1.state[t] # "Running" /\ Runs(s) /\ s.run = s.next
      BY <1>5, <2>2
    <3>2. \A u \in Thread : s.state[u] = "Running" => u # s.joiner[t]
      BY <1>1, JoinFields DEF JoinOK
    <3>3. Runs(s1) /\ s1.run = s1.next
      BY <1>4, <3>1, <3>2 DEF Runs, JoinEnded
    <3> QED
      BY <1>4, <1>7, <3>1, <3>3, ReplacedGood
  <2> QED
    BY <2>1, <2>2
<1>9. Good(r, {t}) /\ MarkedOnly(s2, r, t, x) /\ x \in {"Inactive", "Terminated"}
  <2>1. /\ {t} \in SUBSET Thread /\ t \in {t} /\ x \in ThreadState
        /\ x \in {"Inactive", "Terminated"}
        /\ Linked(s2, s2.delayList, {t})
    BY <1>8 DEF Good, ThreadState
  <2>2. r = Marked(s2, t, x)
    BY <1>5, <1>6, <1>8 DEF ThreadDestroy, Marked, Replaced
  <2> HIDE DEF x
  <2>3. Linked(r, s2.delayList, {t}) /\ MarkedOnly(s2, r, t, x)
    BY ONLY <2>1, <2>2, t \in Thread, Restated
  <2> QED
    BY <1>8, <2>1, <2>3 DEF Good, NotDue, MarkedOnly
<1>10. s2.state \in [Thread -> ThreadState]
  BY <1>8, Fields DEF Good, Linked
<1>11. Good(r, {})
  <2>1. {t} \ {t} = {} /\ {t} \in SUBSET Thread /\ t \in {t}
    OBVIOUS
  <2>2. r.state[t] \in {"Inactive", "Terminated"}
    BY <1>9, <1>10 DEF MarkedOnly
  <2>3. Good(r, {t} \ {t})
    BY <1>9, <2>1, <2>2, Arrives
  <2> QED
    BY <2>1, <2>3
<1>12. /\ r.joinable = s.joinable /\ r.target = s.target /\ SameLocks(s, r)
       /\ r.kernel = s.kernel /\ r.priority = s.priority /\ r.next = s2.next
       /\ r.priority = s2.priority /\ r.base = s.base /\ r.list = s.list
       /\ r.joiner = IF s.state[t] = "WaitingJoin"
                     THEN [s.joiner EXCEPT ![s.target[t]] = NoThread] ELSE s.joiner
       /\ r.waitList = s.waitList \ {s.joiner[t]}
       /\ r.state[t] = x
  BY <1>4, <1>8, <1>9, <1>10 DEF Frame, JoinEnded, Replaced, MarkedOnly, SameLocks
<1>13. \A u \in Thread \ {t} :
         /\ r.state[u] = s2.state[u]
         /\ u # s.joiner[t] => Life(r.state[u]) = Life(s.state[u])
         /\ u = s.joiner[t] => Life(r.state[u]) = "Live"
  <2>1. \A u \in Thread \ {t} :
          /\ r.state[u] = s2.state[u] /\ Life(s2.state[u]) = Life(s1.state[u])
          /\ s1.state[u] = IF u = s.joiner[t] THEN "Ready" ELSE s.state[u]
    BY <1>4, <1>8, <1>9, <1>10 DEF JoinEnded, Replaced, MarkedOnly
  <2> QED
    BY <2>1 DEF Life, QueueStates
<1>14. Runs(r)
  <2>1. r.next = s2.next /\ s2.next \in Thread \ {t} /\ r.state[t] # "Running"
    BY <1>8, <1>9, <1>12 DEF Replaced
  <2>2. \A u \in Thread \ {t} : r.state[u] = "Running" <=> u = s2.next
    BY <1>8, <1>13 DEF Replaced
  <2> QED
    BY <2>1, <2>2 DEF Runs
<1>15. \A u \in Thread \ {t} :
         IF u = s.joiner[t]
         THEN r.state[u] \notin {"Inactive", "Terminated", "WaitingJoin"} \cup QueueStates
         ELSE /\ r.state[u] = "Inactive" <=> s.state[u] = "Inactive"
              /\ r.state[u] = "Terminated" <=> s.state[u] = "Terminated"
              /\ r.state[u] = "WaitingJoin" <=> s.state[u] = "WaitingJoin"
              /\ r.state[u] = s.state[u] \/ {r.state[u], s.state[u]} \cap QueueStates = {}
  BY ONLY <1>13 DEF Life, QueueStates
<1>16. Plain(r)
  <2>1. \A u \in Thread : r.state[u] = "WaitingJoin" =>
          u # t /\ s.state[u] = "WaitingJoin" /\ u \in s.waitList /\ u # s.joiner[t]
    BY <1>9, <1>12, <1>15
  <2> QED
    BY ONLY <1>12, <2>1 DEF Plain
<1>2. s.joiner[t] # NoThread =>
        /\ s.joiner[t] \in Thread \ {t} /\ s.state[s.joiner[t]] = "WaitingJoin"
        /\ s.target[s.joiner[t]] = t /\ ~s.joinable[t]
  BY <1>1, JoinerIs
<1>17. JoinOK(r)
  <2>1. EndedAlike(s, r, t)
    BY ONLY <1>12, <1>15 DEF EndedAlike
  <2> QED
    BY <1>1, <2>1, EndJoins
<1>18. s.kernel = "Running" => Highest(r, {})
  <2>1. s.kernel = "Running" => Highest(s2, {t})
    BY <1>4, <1>8 DEF Replaced, JoinEnded
  <2> QED
    BY <1>9, <1>12, <1>13, <2>1 DEF Highest
<1>19. Queues(r) /\ \A u \in Thread : Queued(r, u)
  <2>1. \A u \in Thread : s.state[u] \notin QueueStates => Unqueued(s, u)
    BY QueuedWait
  <2>2. "WaitingJoin" \notin QueueStates
    BY DEF QueueStates
  <2>3. \A u \in Thread : Unqueued(s, u) \/ r.state[u] = s.state[u]
    BY <1>2, <1>15, <2>1, <2>2, JoinFields, <1>1
  <2>4. Queues(r)
    BY ONLY <1>1, <1>12, <2>3, Queues(s), QueuesKept
  <2>5. ASSUME NEW u \in Thread, r.state[u] \in QueueStates
        PROVE  \E o \in Object : u \in ToSet(r.list[o])
    <3>1. u # t
      BY <1>9, <1>12, <2>5 DEF QueueStates
    <3>2. r.state[u] = s.state[u]
      BY <1>15, <2>5, <3>1
    <3> QED
      BY <1>12, <2>5, <3>1, <3>2 DEF Queued
  <2> QED
    BY <2>4, <2>5 DEF Queued
<1>20. ~Lives(r, t) /\ \A u \in Thread \ {t} : Lives(r, u) <=> Lives(s, u)
  <2>1. ~Lives(r, t)
    BY <1>9, <1>12 DEF Lives
  <2>2. ASSUME NEW u \in Thread \ {t} PROVE Lives(r, u) <=> Lives(s, u)
    <3>1. CASE u = s.joiner[t]
      BY <1>1, <1>2, <1>15, <3>1, JoinFields DEF Lives
    <3>2. CASE u # s.joiner[t]
      BY <1>15, <3>2 DEF Lives
    <3> QED
      BY <3>1, <3>2
  <2> QED
    BY <2>1, <2>2
<1>21. Mutexes(r, {})
  <2>1. ASSUME NEW u \in Thread, Lives(r, u) PROVE Owns(r, u)
    <3>1. u # t /\ Owns(s, u)
      BY <1>20, <2>1 DEF Mutexes
    <3> QED
      <4>1. /\ r.owned = s.owned /\ r.mutex = s.mutex /\ r.owner = s.owner
            /\ r.lock = s.lock /\ r.priority = s.priority /\ r.base = s.base
        BY <1>12 DEF SameLocks
      <4> QED
        BY ONLY <3>1, <4>1 DEF Owns, Held
  <2>2. \A m \in Mutex : Held(r, m) => r.owner[m] \in Thread /\ Lives(r, r.owner[m])
    BY <1>12, <1>20 DEF Mutexes, SameLocks, Held
  <2>3. \A m \in Mutex : ~Held(r, m) => r.list[m] = << >>
    BY <1>12 DEF Mutexes, SameLocks, Held
  <2> QED
    BY <2>1, <2>2, <2>3 DEF Mutexes
<1>22. Settled(r)
  BY <1>11, <1>12, <1>14, <1>16, <1>17, <1>19, <1>21 DEF Settled, Started
<1>23. Calm(s, r)
  <2>1. ASSUME NEW u \in Thread, r.state[u] \in QueueStates PROVE r.state[u] = s.state[u]
    <3>1. u # t
      BY <1>9, <1>12, <2>1 DEF QueueStates
    <3> QED
      BY <1>15, <2>1, <3>1
  <2> QED
    BY <1>12, <2>1 DEF Calm
<1> QED
  BY <1>12, <1>18, <1>20, <1>22, <1>23 DEF EndedOnly

\* svcRtxThreadExit and svcRtxThreadTerminate, for a thread whose mutexes are robust.
LEMMA EndFine ==
  ASSUME NEW s, Settled(s), s.next = s.run, s.run \in Thread, NEW t \in Thread,
         \/ s.state[t] = "Running" /\ s.ready # << >>
         \/ s.state[t] = "Ready"
         \/ IsBlocked(s, t),
         ToSet(s.owned[t]) \in SUBSET Robust,
         NEW s0, s0 = Out(s, t),
         NEW r, r = Ended(s0, t)
  PROVE  Fine(s, r)
<1> DEFINE w == MutexOwnerRelease(s0, t)
<1>1. /\ Runs(s) /\ Good(s, {}) /\ s.kernel # "Ready" /\ JoinOK(s) /\ Queues(s)
      /\ s \in Kernel /\ s.run = s.next
      /\ \A u \in Thread : s.state[u] = "Running" <=> u = s.run
      /\ Lives(s, t)
  BY Running DEF Settled, IsBlocked, Waiting, Lives
<1>2. Good(s0, {t}) /\ OutOnly(s, s0, t)
  <2>1. s.state[t] \in {"Running", "Ready"} \/ IsBlocked(s, t)
    OBVIOUS
  <2> QED
    BY <1>1, <2>1, OutGood
<1>3. s0 \in Kernel
  BY <1>2 DEF Good, Linked
<1>4. Loose(s0, t) /\ SameLocks(s, s0) /\ SameLives(s, s0)
  BY <1>2, <1>3, OutLoose
<1>5. Lives(s0, t) /\ s0.state = s.state /\ ToSet(s0.owned[t]) \in SUBSET Robust
  BY <1>1, <1>2, <1>4 DEF OutOnly, Lives, SameLocks
<1>6. Releasing(s0, w, t, {})
  BY <1>2, <1>4, <1>5, ReleaseGood
<1>7. r = ThreadDestroy(IF s0.state[t] = "Running"
                        THEN [ThreadSwitchToReady(ThreadJoinWakeup(w, t))
                                EXCEPT !.run = NoThread]
                        ELSE ThreadDispatchReady(ThreadJoinWakeup(w, t)), t)
  BY DEF Ended
<1> HIDE DEF w
<1>8. /\ w \in Kernel /\ w.joinable = s0.joinable /\ w.joiner = s0.joiner
      /\ w.target = s0.target /\ w.next = s.next /\ w.run = s.run /\ w.kernel = s.kernel
      /\ w.mutex = s.mutex
      /\ Good(w, {t}) /\ Queues(w) /\ Unqueued(w, t)
      /\ \A u \in Thread \ {t} : Queued(w, u)
  BY <1>2, <1>6 DEF Releasing, Good, Linked, OutOnly, Blocks
<1>9. \A u \in Thread :
         \/ w.state[u] = s.state[u]
         \/ u # t /\ s.state[u] = "WaitingMutex" /\ w.state[u] = "Ready"
  BY <1>5, <1>6 DEF Releasing
<1>10. /\ w.state[t] = s.state[t] /\ SameLives(s0, w) /\ Lives(w, t)
       /\ \A u \in Thread : w.state[u] = "Running" <=> s.state[u] = "Running"
       /\ \A u \in Thread : Lives(w, u) <=> Lives(s, u)
  BY <1>1, <1>5, <1>9 DEF SameLives, Lives
<1>11. JoinOK(w)
  <2>1. JoinOK(s0)
    BY <1>4 DEF Loose
  <2> QED
    BY ONLY <1>3, <1>8, <1>10, <2>1, JoinKept
<1>12. \A u \in Thread \ {t} : w.state[u] = "WaitingJoin" => u \in w.waitList
  <2>1. ASSUME NEW u \in Thread \ {t}, w.state[u] = "WaitingJoin" PROVE u \in w.waitList
    <3>1. s0.state[u] = "WaitingJoin"
      BY <1>10, <2>1 DEF SameLives
    <3>2. u \in s0.waitList
      BY <1>4, <3>1 DEF Loose
    <3> QED
      BY <1>6, <3>1, <3>2 DEF Releasing
  <2> QED
    BY <2>1
<1>13. Mutexes(w, {t})
  BY <1>6 DEF Releasing, Mutexes
<1>14. \/ /\ w.state[t] = "Running" /\ w.ready # << >>
          /\ \A u \in Thread \ {t} : w.state[u] # "Running"
       \/ w.state[t] # "Running" /\ Runs(w) /\ w.run = w.next
  <2>1. CASE s.state[t] = "Running"
    <3>1. s.ready # << >> /\ s0 = s
      BY <1>2, <2>1 DEF IsBlocked, Waiting, OutOnly
    <3>2. w.ready # << >>
      BY <1>6, <3>1 DEF Releasing
    <3> QED
      BY <1>1, <1>10, <2>1, <3>2
  <2>2. CASE s.state[t] # "Running"
    BY <1>1, <1>8, <1>10, <2>2 DEF Runs
  <2> QED
    BY <2>1, <2>2
<1>15. Settled(r) /\ EndedOnly(w, r, t)
  <2>1. r = ThreadDestroy(IF w.state[t] = "Running"
                          THEN [ThreadSwitchToReady(ThreadJoinWakeup(w, t))
                                  EXCEPT !.run = NoThread]
                          ELSE ThreadDispatchReady(ThreadJoinWakeup(w, t)), t)
    BY <1>5, <1>7, <1>10
  <2>2. w.kernel # "Ready" /\ t \in Thread
    BY <1>1, <1>8
  <2> QED
    BY ONLY <1>8, <1>10, <1>11, <1>12, <1>13, <1>14, <2>1, <2>2, EndGood
<1>16. Passes(s, r)
  <2>1. SUFFICES ASSUME NEW m \in Mutex, HolderIn(s, m) # NoThread,
                        HolderIn(r, m) # HolderIn(s, m)
                 PROVE  /\ ~Lives(r, HolderIn(s, m))
                        /\ HolderIn(r, m) # NoThread =>
                             HolderIn(r, m) = Head(RemoveFirst(s.list[m], HolderIn(s, m)))
    BY DEF Passes
  <2>2. HolderIn(r, m) = HolderIn(w, m)
    BY <1>15 DEF EndedOnly, SameLocks, HolderIn, Held
  <2>3. m \in ToSet(s0.owned[t])
    <3>1. CASE m \notin ToSet(s0.owned[t])
      <4>1. w.lock[m] = s0.lock[m] /\ w.owner[m] = s0.owner[m]
        BY <1>6, <3>1 DEF Releasing
      <4>2. HolderIn(w, m) = HolderIn(s, m)
        BY <1>4, <1>8, <4>1 DEF SameLocks, HolderIn, Held
      <4> QED
        BY <2>1, <2>2, <4>2
    <3> QED
      BY <3>1
  <2>4. HolderIn(s, m) = t
    <3>1. Owns(s, t) /\ m \in ToSet(s.owned[t])
      BY <1>1, <1>4, <2>3 DEF Settled, Mutexes, SameLocks
    <3> QED
      BY <3>1 DEF Owns, HolderIn
  <2>5. ASSUME HolderIn(r, m) # NoThread
        PROVE  HolderIn(r, m) = Head(RemoveFirst(s.list[m], t))
    <3>1. Held(w, m) /\ HolderIn(r, m) = w.owner[m]
      BY <2>2, <2>5 DEF HolderIn
    <3>2. w.owner[m] = Head(s0.list[m])
      BY <1>6, <2>3, <3>1 DEF Releasing
    <3>3. s0.list[m] = RemoveFirst(s.list[m], t)
      BY <1>2, KernelAssumption DEF OutOnly
    <3> QED
      BY <3>1, <3>2, <3>3
  <2> QED
    BY <1>15, <2>4, <2>5 DEF EndedOnly
<1>17. Unowned(s) => Unowned(r) /\ Calm(s, r)
  <2>1. SUFFICES ASSUME Unowned(s) PROVE Unowned(r) /\ Calm(s, r)
    OBVIOUS
  <2>2. s0.owned[t] = << >>
    BY <1>4, <2>1 DEF Unowned, SameLocks
  <2>3. w = s0
    BY <2>2, NothingToRelease DEF w
  <2>4. Calm(s, s0) /\ Calm(w, r)
    BY <1>2, <1>15, OutCalm DEF EndedOnly
  <2>5. Calm(s, r)
    BY <2>3, <2>4, CalmThen
  <2> QED
    BY <1>4, <1>15, <2>1, <2>3, <2>5 DEF Unowned, SameLocks, EndedOnly
<1> QED
  BY <1>8, <1>15, <1>16, <1>17 DEF Fine, Owning, EndedOnly


-----------------------------------------------------------------------------
(* The end of a suspension. *)

\* The head of the delay list comes n ticks nearer.
Nearer(s, n) == [s EXCEPT !.delay[Head(s.delayList)] = @ - n]

\* A sleep brings the head of the delay list nearer, but not due.
LEMMA NearerGood ==
  ASSUME NEW s, Good(s, {}), s.delayList # << >>,
         NEW n \in Nat, n < s.delay[Head(s.delayList)],
         NEW r, r = Nearer(s, n)
  PROVE  /\ Good(r, {}) /\ TickedOnly(s, r)
         /\ Queues(s) => Queues(r)
<1> DEFINE h == Head(s.delayList)
<1>1. /\ s \in Kernel /\ Linked(s, s.delayList, {}) /\ {} \in SUBSET Thread
      /\ s.delay \in [Thread -> Nat \cup {Forever}] /\ s.delayList \in Seq(Thread)
      /\ NoDuplicates(s.delayList)
  BY Fields DEF Good, Linked
<1>2. h \in Thread /\ h \in ToSet(s.delayList)
  BY <1>1, TailList
<1>3. s.delay[h] \in Nat /\ s.delay[h] - n \in Nat /\ s.delay[h] - n >= 1
      /\ IsBlocked(s, h)
  BY <1>1, <1>2 DEF Linked, AtPlace
<1> HIDE DEF h
<1>4. /\ r.delay = [s.delay EXCEPT ![h] = s.delay[h] - n]
      /\ r.joiner = s.joiner /\ r.target = s.target /\ r.joinable = s.joinable
      /\ r.owned = s.owned /\ r.kernel = s.kernel /\ r.run = s.run /\ r.next = s.next
      /\ r.priority = s.priority /\ r.state = s.state /\ r.ready = s.ready
      /\ r.list = s.list /\ r.delayList = s.delayList /\ r.waitList = s.waitList
      /\ r.base = s.base /\ r.mutex = s.mutex /\ r.owner = s.owner /\ r.lock = s.lock
  BY <1>1 DEF Kernel, Nearer, h
<1>5. r \in Kernel
  BY <1>1, <1>2, <1>3 DEF Kernel, Nearer, h
<1>6. ASSUME NEW u \in Thread PROVE AtPlace(r, r.delayList, u)
  <2>1. AtPlace(s, s.delayList, u)
    BY <1>1 DEF Linked
  <2>2. CASE u = h
    <3>1. r.delay[u] # Forever /\ s.delay[u] # Forever
      BY <1>1, <1>2, <1>3, <1>4, <2>2, KernelAssumption
    <3>2. s.state[u] \notin {"Ready", "Running"}
      BY <1>3, <2>2 DEF IsBlocked, Waiting
    <3> QED
      BY <1>4, <2>1, <3>1, <3>2 DEF AtPlace, IsBlocked
  <2>3. CASE u # h
    <3>1. r.delay[u] = s.delay[u]
      BY <1>1, <1>4, <2>3
    <3> QED
      BY <1>4, <2>1, <3>1 DEF AtPlace, IsBlocked
  <2> QED
    BY <2>2, <2>3
<1>7. Linked(r, r.delayList, {})
  BY <1>1, <1>4, <1>5, <1>6 DEF Linked
<1>8. NotDue(r)
  BY <1>1, <1>2, <1>3, <1>4 DEF NotDue, h
<1>9. TickedOnly(s, r)
  BY <1>4 DEF TickedOnly, Blocks
<1>10. Queues(s) => Queues(r)
  BY <1>1, <1>4, QueuesKept
<1> QED
  BY <1>7, <1>8, <1>9, <1>10 DEF Good

\* Ticks add up.
LEMMA TickedTwice ==
  ASSUME NEW s, NEW r, NEW w, TickedOnly(s, r), TickedOnly(r, w)
  PROVE  TickedOnly(s, w)
<1>1. \A u \in Thread :
        /\ \/ r.state[u] = s.state[u]
           \/ r.state[u] = "Ready" /\ IsBlocked(s, u) /\ u \notin s.waitList
        /\ \/ w.state[u] = r.state[u]
           \/ w.state[u] = "Ready" /\ IsBlocked(r, u) /\ u \notin r.waitList
  BY DEF TickedOnly
<1>2. r.waitList = s.waitList
  BY DEF TickedOnly
<1>3. \A u \in Thread : \/ w.state[u] = s.state[u]
                        \/ w.state[u] = "Ready" /\ IsBlocked(s, u) /\ u \notin s.waitList
  BY <1>1, <1>2 DEF IsBlocked, Waiting
<1>4. \A u \in Thread : w.state[u] = s.state[u] <=> w.state[u] = r.state[u] /\ r.state[u] = s.state[u]
  BY <1>1 DEF IsBlocked, Waiting
<1>5. \A o \in Object : \A u \in Thread :
        u \in ToSet(w.list[o]) <=> u \in ToSet(s.list[o]) /\ w.state[u] = s.state[u]
  BY <1>4 DEF TickedOnly
<1>6. \A u \in Thread : \/ w.priority[u] = s.priority[u]
                        \/ ToSet(s.owned[u]) \cap PrioInherit # {}
  BY DEF TickedOnly, Blocks
<1>7. Blocks(s, w) /\ w.next = s.next /\ w.waitList = s.waitList
  BY DEF TickedOnly, Blocks
<1> QED
  BY <1>3, <1>5, <1>6, <1>7 DEF TickedOnly

\* Nothing happens.
LEMMA TickedNot ==
  ASSUME NEW s
  PROVE  TickedOnly(s, s)
BY DEF TickedOnly, Blocks

\* osRtxThreadDelayTick n times.
TickedFrom(s, n, f) == f = [i \in 0..n |-> IF i = 0 THEN s ELSE ThreadDelayTick(f[i-1])]

\* The catching up after a sleep is a recursive function: it exists.
LEMMA TickedExists ==
  ASSUME NEW s, NEW n \in Nat
  PROVE  \E f : TickedFrom(s, n, f)
<1> DEFINE Bad == {m \in Nat : ~ \E f : TickedFrom(s, m, f)}
<1>1. SUFFICES ASSUME Bad # {} PROVE FALSE
  OBVIOUS
<1>2. PICK m : m = Min(Bad)
  OBVIOUS
<1>3. m \in Nat /\ m \in Bad /\ \A y \in Bad : m <= y
  BY <1>1, <1>2, MinIs
<1>4. m # 0
  <2>1. TickedFrom(s, 0, [i \in 0..0 |-> s])
    BY DEF TickedFrom
  <2> QED
    BY <1>3, <2>1
<1>5. m - 1 \in Nat /\ m - 1 \notin Bad
  BY <1>3, <1>4
<1>6. PICK g : TickedFrom(s, m - 1, g)
  BY <1>5
<1> DEFINE f == [i \in 0..m |-> IF i = 0 THEN s ELSE ThreadDelayTick(g[i-1])]
<1>7. \A i \in 0..m-1 : f[i] = g[i]
  BY <1>3, <1>4, <1>6 DEF TickedFrom
<1>8. TickedFrom(s, m, f)
  <2>1. \A i \in 0..m : i # 0 => i - 1 \in 0..m-1 /\ f[i-1] = g[i-1]
    <3> HIDE DEF f
    <3>1. SUFFICES ASSUME NEW i \in 0..m, i # 0
                   PROVE  i - 1 \in 0..m-1 /\ f[i-1] = g[i-1]
      OBVIOUS
    <3>2. i - 1 \in 0..m-1
      BY <1>3, <3>1
    <3> QED
      BY <1>7, <3>2
  <2> QED
    BY <1>3, <2>1 DEF TickedFrom
<1> QED
  BY <1>3, <1>8

\* Any number of ticks of the delay list keep the lists (svcRtxKernelResume).
LEMMA TicksGood ==
  ASSUME NEW s, Good(s, {}), Listed(s), NEW n \in Nat, NEW f, TickedFrom(s, n, f)
  PROVE  Good(f[n], {}) /\ Listed(f[n]) /\ TickedOnly(s, f[n])
<1> DEFINE OK(i) == Good(f[i], {}) /\ Listed(f[i]) /\ TickedOnly(s, f[i])
           Bad == {m \in 0..n : ~OK(m)}
<1>1. SUFFICES ASSUME Bad # {} PROVE FALSE
  OBVIOUS
<1>2. PICK m : m = Min(Bad)
  OBVIOUS
<1>3. m \in 0..n /\ ~OK(m) /\ \A y \in Bad : m <= y
  <2>1. Bad \in SUBSET Nat
    OBVIOUS
  <2>2. m \in Bad /\ \A y \in Bad : m <= y
    BY <1>1, <1>2, <2>1, MinIs
  <2> QED
    BY <2>2
<1>4. f[0] = s /\ OK(0)
  <2>1. f[0] = s
    BY DEF TickedFrom
  <2> QED
    BY <2>1, TickedNot
<1>5. m # 0 /\ m - 1 \in 0..n /\ OK(m - 1)
  BY <1>3, <1>4
<1>6. f[m] = ThreadDelayTick(f[m-1])
  BY <1>3, <1>5 DEF TickedFrom
<1>7. Good(f[m], {}) /\ Listed(f[m]) /\ TickedOnly(f[m-1], f[m])
  BY <1>5, <1>6, DelayTickGood
<1>8. TickedOnly(s, f[m])
  BY <1>5, <1>7, TickedTwice
<1> QED
  BY <1>3, <1>7, <1>8

\* svcRtxKernelResume, from the state s1 in which the head of the delay list has
\* caught up with the ticks during which nobody is due.
LEMMA ResumeKernelFine ==
  ASSUME NEW s, Settled(s), s.next = s.run, s.kernel = "Suspended",
         NEW s1, Good(s1, {}), Listed(s1), TickedOnly(s, s1), NEW n \in Nat,
         NEW f, TickedFrom(s1, n, f),
         NEW r, r = ThreadDispatchReady([f[n] EXCEPT !.kernel = "Running"])
  PROVE  /\ Settled(r) /\ r.kernel = "Running" /\ Highest(r, {})
         /\ Owning(s, r) /\ Calm(s, r)
<1> DEFINE s2 == f[n]
           s3 == [s2 EXCEPT !.kernel = "Running"]
<1>1. s.kernel # "Ready"
  OBVIOUS
<1>2. Good(s2, {}) /\ Listed(s2) /\ TickedOnly(s, s2)
  BY TicksGood, TickedTwice
<1> HIDE DEF s2
<1>3. Settled(s2) /\ Runs(s2) /\ s2.run = s2.next /\ s2.kernel = "Suspended"
  BY <1>1, <1>2, TickedSettled
<1>4. Settled(s3)
  BY <1>3, LockFine DEF Fine
<1>5. s3.kernel = "Running" /\ s3.run = s2.run /\ s3.next = s2.next /\ s3.state = s2.state
      /\ SameLocks(s2, s3) /\ s3.list = s2.list
  BY <1>2 DEF Good, Linked, Kernel, SameLocks
<1>6. r = ThreadDispatchReady(s3)
  BY DEF s2
<1> HIDE DEF s3
<1>7. Runs(s3) /\ s3.run = s3.next /\ s3.next \notin {} /\ {} \in SUBSET Thread
      /\ Linked(s3, s3.delayList, {}) /\ NotDue(s3)
  BY <1>3, <1>4, <1>5 DEF Runs, Settled, Good
<1>8. Linked(r, s3.delayList, {}) /\ Rescheduled(s3, r, {})
  BY ONLY <1>6, <1>7, DispatchReadyGood
<1>9. Good(r, {}) /\ Keeps(s3, r, {}) /\ Runs(r) /\ Highest(r, {})
  BY <1>5, <1>7, <1>8 DEF Good, NotDue, Rescheduled
<1>10. Settled(r) /\ r.kernel = "Running"
  BY <1>4, <1>5, <1>9, KeepsSettled DEF Keeps, Frame
<1>11. Owning(s, r)
  <2>1. SameLocks(s, s2) /\ SameLocks(s2, s3) /\ SameLocks(s3, r)
    BY <1>2, <1>5, <1>9 DEF SameLocks, TickedOnly, Blocks, Keeps, Frame
  <2> QED
    BY <2>1, OwningKept DEF SameLocks
<1>12. Calm(s, r)
  <2>1. Calm(s, s2) /\ Calm(s2, s3) /\ Calm(s3, r)
    BY <1>2, <1>5, <1>9, TickedCalm, SameCalm, KeepsCalm
  <2> QED
    BY <2>1, CalmThen
<1> QED
  BY <1>9, <1>10, <1>11, <1>12

-----------------------------------------------------------------------------
(* The handlers. *)

\* What the step of a handler preserves.
Kept ==
  /\ Inv' /\ Owning(k, k') /\ (Unowned(k) => Calm(k, k'))
  /\ k.kernel = "Running" /\ k'.kernel = "Running" /\ Highest(k, {}) => Highest(k', {})

\* The switch at the return from a handler makes run.next the running thread.
LEMMA Returned ==
  ASSUME Settled(k), NEW s, Fine(k, s), Return(s), tick \in 0..TickMod-1
  PROVE  Kept /\ tick' = tick
<1>1. Settled(s) /\ k' = ContextSwitch(s) /\ tick' = tick
  BY DEF Fine, Return
<1>2. /\ Settled(k') /\ k'.next = k'.run /\ k'.next = s.next /\ k'.kernel = s.kernel
      /\ Highest(s, {}) => Highest(k', {})
      /\ SameLocks(s, k') /\ SameLives(s, k') /\ Calm(s, k')
  BY <1>1, ReturnSettled, SameCalm
<1>3. Owning(k, k')
  <2>1. k \in Kernel /\ Owning(k, s)
    BY DEF Settled, Good, Linked, Fine
  <2> QED
    BY <1>2, <2>1, OwningThen
<1>4. Unowned(k) => Calm(k, k')
  BY <1>2, CalmThen DEF Fine
<1> QED
  BY <1>1, <1>2, <1>3, <1>4 DEF Kept, Inv, Fine

\* At first there is no thread and all lists are empty.
LEMMA Initially ==
  ASSUME Init PROVE Inv /\ Unowned(k)
<1> USE KernelAssumption, ThreadAssumption
<1>1. k \in Kernel
  BY DEF Init, Kernel, ThreadState, KernelState
<1>2. k.list = [o \in Object |-> << >>] /\ k.ready = << >> /\ k.delayList = << >>
      /\ k.waitList = {} /\ k.next = NoThread /\ k.run = NoThread /\ k.kernel = "Ready"
      /\ \A t \in Thread : /\ k.state[t] = "Inactive" /\ k.owned[t] = << >>
      /\ k.mutex = {} /\ tick = 0
  BY DEF Init
<1>3. NoDuplicates(k.ready) /\ SortedBy(k.ready, k.priority) /\ NoDuplicates(k.delayList)
      /\ ToSet(k.ready) = {} /\ ToSet(k.delayList) = {}
  BY <1>2 DEF NoDuplicates, SortedBy, ToSet
<1>4. \A t \in Thread : AtPlace(k, k.delayList, t)
  BY <1>2, <1>3 DEF AtPlace, IsBlocked, Waiting
<1>5. Good(k, {})
  BY <1>1, <1>2, <1>3, <1>4, Fields DEF Good, Linked, NotDue
<1>6. Started(k) /\ JoinOK(k) /\ Plain(k)
  BY <1>2 DEF Started, JoinOK, Plain
<1>7. \A o \in Object : k.list[o] = << >> /\ ToSet(k.list[o]) = {}
  BY <1>2, <1>3
<1>8. Queues(k) /\ \A t \in Thread : Queued(k, t)
  BY <1>2, <1>7 DEF Queues, Queued, QueueStates, NoDuplicates, SortedBy
<1>9. Mutexes(k, {})
  BY <1>2, <1>7 DEF Mutexes, Lives, Held
<1> QED
  BY <1>2, <1>5, <1>6, <1>8, <1>9 DEF Inv, Settled, Unowned

\* Blocking, suspending and resuming look at the same states.
LEMMA OutIs ==
  ASSUME NEW t
  PROVE  Unlinked(t) = Out(k, t)
BY DEF Unlinked, Out

\* No thread ends that owns a mutex which is not robust.
OwnersLive == Robust = Mutex \/ {"Exit", "Terminate"} \cap Calls = {}

LEMMA EndsRobust ==
  ASSUME Inv, OwnersLive \/ Unowned(k), "Exit" \in Calls \/ "Terminate" \in Calls,
         NEW t \in Thread
  PROVE  ToSet(k.owned[t]) \in SUBSET Robust
<1>1. k.owned[t] \in Seq(Mutex)
  BY Fields DEF Inv, Settled, Good, Linked
<1>2. ToSet(k.owned[t]) \in SUBSET Mutex
  BY <1>1, ToSetIs
<1>3. k.owned[t] = << >> => ToSet(k.owned[t]) = {}
  BY DEF ToSet
<1> QED
  BY <1>2, <1>3 DEF OwnersLive, Unowned

\* Each service that a thread calls for another, or for itself, keeps Inv.
LEMMA ServiceOnKept ==
  ASSUME Inv, JoinersLeftAlone, OwnersLive \/ Unowned(k), NEW t \in Thread, ServiceOn(t)
  PROVE  Kept /\ tick' = tick
<1>1. Settled(k) /\ k.next = k.run /\ tick \in 0..TickMod-1 /\ Idle \in Thread
  BY ThreadAssumption DEF Inv
<1>2. ASSUME NEW p \in Priority, NEW j \in BOOLEAN, ThreadNew(t, p, j)
      PROVE  Kept /\ tick' = tick
  <2> DEFINE s == ThreadDispatch(Initialized(k, t, p, j), t)
  <2>1. t \in Thread \ {Idle} /\ k.state[t] = "Inactive" /\ Return(s)
    BY <1>2 DEF ThreadNew, Exists
  <2>2. Fine(k, s)
    BY <1>1, <2>1, NewFine
  <2> HIDE DEF s
  <2> QED
    BY <1>1, <2>1, <2>2, Returned
<1>3. ASSUME NEW p \in Priority, ThreadSetPriority(t, p)
      PROVE  Kept /\ tick' = tick
  <2> DEFINE s == ThreadDispatchReady(Reprioritized(k, t, p))
  <2>1. k.run \in Thread /\ Return(s)
    BY <1>3 DEF ThreadSetPriority, Call, Reprioritized
  <2>2. Fine(k, s)
    BY <1>1, <2>1, SetPriorityFine
  <2> HIDE DEF s
  <2> QED
    BY <1>1, <2>1, <2>2, Returned
<1>4. ASSUME ThreadSuspend(t)
      PROVE  Kept /\ tick' = tick
  <2> DEFINE s0 == Out(k, t)
             s1 == IF k.state[t] = "Running" THEN ThreadSwitchToReady(s0) ELSE s0
             s == ThreadDelayInsert(Marked(s1, t, "Blocked"), t, Forever)
  <2>1. k.run \in Thread /\ k.state[t] # "WaitingJoin"
    BY <1>4 DEF ThreadSuspend, Call, MayDisturb
  <2>2. \/ k.state[t] = "Running" /\ k.ready # << >>
        \/ k.state[t] = "Ready"
        \/ IsBlocked(k, t)
    BY <1>4 DEF ThreadSuspend, CanLeave, CanWait
  <2>3. Return(s)
    <3>1. s1 = IF k.state[t] = "Running" THEN ThreadSwitchToReady(k) ELSE Unlinked(t)
      BY OutIs DEF Out
    <3> QED
      BY <1>4, <3>1 DEF ThreadSuspend, Marked
  <2>4. Fine(k, s)
    BY <1>1, <2>1, <2>2, SuspendFine
  <2> HIDE DEF s
  <2> QED
    BY <1>1, <2>3, <2>4, Returned
<1>5. ASSUME ThreadResume(t)
      PROVE  Kept /\ tick' = tick
  <2> DEFINE s0 == Out(k, t)
             s == ThreadDispatch(s0, t)
  <2>1. k.run \in Thread /\ k.state[t] # "WaitingJoin" /\ IsBlocked(k, t)
    BY <1>5 DEF ThreadResume, Call, MayDisturb
  <2>2. Return(s)
    <3>1. s0 = ThreadDelayRemove(ThreadListRemove(k, t), t)
      BY <2>1 DEF Out, IsBlocked, Waiting
    <3> QED
      BY <1>5, <3>1 DEF ThreadResume
  <2>3. Fine(k, s)
    BY <1>1, <2>1, ResumeFine
  <2> HIDE DEF s
  <2> QED
    BY <1>1, <2>2, <2>3, Returned
<1>6. ASSUME ThreadDetach(t)
      PROVE  Kept /\ tick' = tick
  <2>1. k.run \in Thread
    BY <1>6 DEF ThreadDetach, Call
  <2>2. CASE k.state[t] = "Terminated"
    <3> DEFINE s == Marked(k, t, "Inactive")
    <3>1. Return(s)
      BY <1>6, <2>2 DEF ThreadDetach, Marked
    <3>2. Fine(k, s)
      BY <1>1, <2>1, <2>2, FreeFine
    <3> HIDE DEF s
    <3> QED
      BY <1>1, <3>1, <3>2, Returned
  <2>3. CASE k.state[t] # "Terminated"
    <3> DEFINE s == [k EXCEPT !.joinable[t] = FALSE]
    <3>1. Return(s)
      BY <1>6, <2>3 DEF ThreadDetach
    <3>2. Fine(k, s)
      BY <1>1, <2>1, <2>3, DetachFine
    <3> HIDE DEF s
    <3> QED
      BY <1>1, <3>1, <3>2, Returned
  <2> QED
    BY <2>2, <2>3
<1>7. ASSUME ThreadJoin(t)
      PROVE  Kept /\ tick' = tick
  <2>1. k.run \in Thread
    BY <1>7 DEF ThreadJoin, Call
  <2>2. CASE k.state[t] = "Terminated"
    <3> DEFINE s == Marked(k, t, "Inactive")
    <3>1. Return(s)
      BY <1>7, <2>2 DEF ThreadJoin, Marked
    <3>2. Fine(k, s)
      BY <1>1, <2>1, <2>2, FreeFine
    <3> HIDE DEF s
    <3> QED
      BY <1>1, <3>1, <3>2, Returned
  <2>3. CASE k.state[t] # "Terminated"
    <3> DEFINE s1 == ThreadWaitEnter(k, "WaitingJoin", Forever)
               s == [s1 EXCEPT !.target[k.run] = t, !.joiner[t] = k.run,
                               !.joinable[t] = FALSE]
    <3>1. /\ k.state[t] \notin {"Inactive", "Terminated", "Running"} /\ k.joinable[t]
          /\ k.ready # << >> /\ Return(s)
      BY <1>7, <2>3 DEF ThreadJoin, Exists, CanWait
    <3>2. Fine(k, s)
      BY <1>1, <2>1, <3>1, JoinFine
    <3> HIDE DEF s
    <3> QED
      BY <1>1, <3>1, <3>2, Returned
  <2> QED
    BY <2>2, <2>3
<1>8. ASSUME ThreadTerminate(t)
      PROVE  Kept /\ tick' = tick
  <2> DEFINE s0 == Out(k, t)
             s == Ended(s0, t)
  <2>1. /\ k.run \in Thread /\ Return(s)
        /\ \/ k.state[t] = "Running" /\ k.ready # << >>
           \/ k.state[t] = "Ready"
           \/ IsBlocked(k, t)
        /\ "Terminate" \in Calls
    BY <1>8, OutIs DEF ThreadTerminate, Call, CanLeave, CanWait
  <2>3. ToSet(k.owned[t]) \in SUBSET Robust
    BY <2>1, EndsRobust
  <2>2. Fine(k, s)
    BY <1>1, <2>1, <2>3, EndFine
  <2> HIDE DEF s
  <2> QED
    BY <1>1, <2>1, <2>2, Returned
<1> QED
  BY <1>2, <1>3, <1>4, <1>5, <1>6, <1>7, <1>8 DEF ServiceOn

\* Every service keeps Inv.
LEMMA ServicesKept ==
  ASSUME Inv, JoinersLeftAlone, OwnersLive \/ Unowned(k), ThreadServices
  PROVE  Kept /\ tick' = tick
<1>1. /\ Settled(k) /\ k.next = k.run /\ tick \in 0..TickMod-1
      /\ Delays \in SUBSET (Nat \ {0}) /\ TickMod \in Nat \ {0}
  BY ThreadAssumption DEF Inv
<1>2. ASSUME ThreadYield PROVE Kept /\ tick' = tick
  <2> DEFINE s == ThreadSwitch(ThreadReadyPut([k EXCEPT !.ready = Tail(@)], k.run),
                               Head(k.ready))
  <2>1. /\ k.run \in Thread /\ k.ready # << >> /\ Return(s)
        /\ k.priority[Head(k.ready)] = k.priority[k.run]
    BY <1>2 DEF ThreadYield, Call
  <2>2. Fine(k, s)
    BY <1>1, <2>1, YieldFine
  <2> HIDE DEF s
  <2> QED
    BY <1>1, <2>1, <2>2, Returned
<1>3. ASSUME ThreadExit PROVE Kept /\ tick' = tick
  <2> DEFINE s0 == Out(k, k.run)
             s == Ended(s0, k.run)
  <2>1. k.run \in Thread /\ k.ready # << >> /\ Return(Ended(k, k.run)) /\ "Exit" \in Calls
    BY <1>3 DEF ThreadExit, Call, CanWait
  <2>2. k.state[k.run] = "Running"
    BY <1>1, <2>1, Running
  <2>3. s0 = k
    BY <2>2 DEF Out
  <2>6. ToSet(k.owned[k.run]) \in SUBSET Robust
    BY <2>1, EndsRobust
  <2>4. Fine(k, s)
    BY <1>1, <2>1, <2>2, <2>6, EndFine
  <2>5. Return(s)
    BY <2>1, <2>3
  <2> HIDE DEF s
  <2> QED
    BY <1>1, <2>4, <2>5, Returned
<1>4. ASSUME NEW d \in Nat \ {0}, k.run \in Thread, CanWait(k),
             Return(ThreadWaitEnter(k, "WaitingDelay", d))
      PROVE  Kept /\ tick' = tick
  <2> DEFINE s == ThreadWaitEnter(k, "WaitingDelay", d)
  <2>1. Return(s) /\ Fine(k, s)
    BY <1>1, <1>4, WaitFine
  <2> HIDE DEF s
  <2> QED
    BY <1>1, <2>1, Returned
<1>5. ASSUME NEW d \in Delays, Delay(d) PROVE Kept /\ tick' = tick
  BY <1>1, <1>4, <1>5 DEF Delay, Call
<1>6. ASSUME NEW time \in 0..TickMod-1, DelayUntil(time) PROVE Kept /\ tick' = tick
  <2> DEFINE d == (time - tick) % TickMod
  <2>1. time - tick \in Int
    BY <1>1
  <2>2. d \in Nat
    BY <1>1, <2>1
  <2>3. /\ d # 0 /\ k.run \in Thread /\ CanWait(k)
        /\ Return(ThreadWaitEnter(k, "WaitingDelay", d))
    BY <1>6 DEF DelayUntil, Call
  <2> HIDE DEF d
  <2> QED
    BY <1>4, <2>2, <2>3
<1>7. ASSUME NEW m \in {"Running", "Locked", "Suspended"}, k.kernel # "Ready",
             Return([k EXCEPT !.kernel = m])
      PROVE  Kept /\ tick' = tick
  <2> DEFINE s == [k EXCEPT !.kernel = m]
  <2>1. Return(s) /\ Fine(k, s)
    BY <1>1, <1>7, LockFine
  <2> HIDE DEF s
  <2> QED
    BY <1>1, <2>1, Returned
<1>8. ASSUME KernelLock \/ KernelUnlock \/ KernelSuspend
             \/ \E lock \in {0, 1} : KernelRestoreLock(lock)
      PROVE  Kept /\ tick' = tick
  BY <1>7, <1>8 DEF KernelLock, KernelUnlock, KernelSuspend, KernelRestoreLock
<1> QED
  BY <1>2, <1>3, <1>5, <1>6, <1>8, ServiceOnKept DEF ThreadServices

\* What a step of the tick or of a resume from suspension leaves.
Caught ==
  /\ Inv' /\ Owning(k, k') /\ Calm(k, k')
  /\ k'.kernel = "Running" => Highest(k', {})

\* The tick keeps Inv, and leaves the highest ready thread running.
LEMMA TickCaught ==
  ASSUME Inv, Tick
  PROVE  Caught
<1> DEFINE s == RoundRobin(ThreadDispatchReady(ThreadDelayTick(k)))
<1>1. /\ Settled(k) /\ k.next = k.run /\ tick \in 0..TickMod-1 /\ k.kernel # "Ready"
      /\ k' = ContextSwitch(s) /\ tick' = (tick + 1) % TickMod /\ TickMod \in Nat \ {0}
  BY ThreadAssumption DEF Inv, Tick
<1>2. /\ Settled(s) /\ s.kernel = k.kernel /\ Owning(k, s) /\ Calm(k, s)
      /\ k.kernel = "Running" => Highest(s, {})
  BY <1>1, TickFine
<1> HIDE DEF s
<1>3. /\ Settled(k') /\ k'.next = k'.run /\ k'.next = s.next /\ k'.kernel = s.kernel
      /\ Highest(s, {}) => Highest(k', {})
      /\ SameLocks(s, k') /\ SameLives(s, k') /\ Calm(s, k')
  BY <1>1, <1>2, ReturnSettled, SameCalm
<1>4. tick' \in 0..TickMod-1
  BY <1>1
<1>5. Owning(k, k')
  BY <1>1, <1>2, <1>3, Running, OwningThen
<1>6. Calm(k, k')
  BY <1>2, <1>3, CalmThen
<1> QED
  BY <1>2, <1>3, <1>4, <1>5, <1>6 DEF Caught, Inv

\* osKernelStart keeps Inv.
LEMMA StartKept ==
  ASSUME Inv, KernelStart
  PROVE  Kept /\ tick' = tick
<1> DEFINE s == [ThreadSwitchToReady(ThreadDispatch(
                   Initialized(k, Idle, IdlePriority, FALSE), Idle))
                 EXCEPT !.kernel = "Running"]
<1>1. /\ Settled(k) /\ k.next = k.run /\ tick \in 0..TickMod-1 /\ k.kernel = "Ready"
      /\ Return(s)
  BY DEF Inv, KernelStart
<1>2. Fine(k, s)
  BY <1>1, StartFine
<1> HIDE DEF s
<1> QED
  BY <1>1, <1>2, Returned

\* osKernelResume keeps Inv, and leaves the highest ready thread running.
LEMMA ResumeCaught ==
  ASSUME Inv, NEW sleep \in Sleeps, KernelResume(sleep)
  PROVE  Caught
<1> DEFINE first == k.delay[Head(k.delayList)]
           skip == IF k.delayList = << >> \/ sleep < first THEN sleep ELSE first - 1
           k0 == IF k.delayList = << >> THEN k ELSE Nearer(k, skip)
           n == sleep - skip
           f == CHOOSE g : TickedFrom(k0, n, g)
           s == ThreadDispatchReady([f[n] EXCEPT !.kernel = "Running"])
<1>1. /\ Settled(k) /\ k.next = k.run /\ tick \in 0..TickMod-1 /\ k.kernel = "Suspended"
      /\ tick' = (tick + sleep) % TickMod /\ TickMod \in Nat \ {0} /\ sleep \in Nat
      /\ Good(k, {}) /\ Listed(k)
  BY ThreadAssumption, SettledListed DEF Inv, KernelResume, Settled
<1>2. k' = ContextSwitch(s)
  BY DEF KernelResume, TickedFrom, Nearer
<1>3. Good(k0, {}) /\ Listed(k0) /\ TickedOnly(k, k0) /\ n \in Nat
  <2>1. CASE k.delayList = << >>
    BY <1>1, <2>1, TickedNot
  <2>2. CASE k.delayList # << >>
    <3>1. first \in Nat /\ first >= 1
      <4>1. /\ k.delayList \in Seq(Thread) /\ NoDuplicates(k.delayList)
            /\ k.delay \in [Thread -> Nat \cup {Forever}]
        BY <1>1, Fields DEF Good, Linked
      <4>2. Head(k.delayList) \in Thread /\ Head(k.delayList) \in ToSet(k.delayList)
        BY <2>2, <4>1, TailList
      <4> QED
        BY <1>1, <2>2, <4>1, <4>2 DEF Good, Linked, AtPlace, NotDue
    <3>2. skip \in Nat /\ skip < first /\ n \in Nat
      <4> HIDE DEF first
      <4>1. CASE sleep < first
        BY <1>1, <2>2, <3>1, <4>1
      <4>2. CASE ~(sleep < first)
        BY <1>1, <2>2, <3>1, <4>2
      <4> QED
        BY <4>1, <4>2
    <3>3. k0 = Nearer(k, skip)
      BY <2>2
    <3> HIDE DEF skip, k0, n
    <3>4. Good(k0, {}) /\ TickedOnly(k, k0) /\ Queues(k0)
      BY <1>1, <2>2, <3>2, <3>3, NearerGood DEF Listed
    <3>5. Listed(k0)
      BY <1>1, <3>4, TickedListed DEF Good, Linked
    <3> QED
      BY <3>2, <3>4, <3>5
  <2> QED
    BY <2>1, <2>2
<1> HIDE DEF k0, n
<1>4. TickedFrom(k0, n, f)
  <2>1. \E g : TickedFrom(k0, n, g)
    BY <1>3, TickedExists
  <2> QED
    BY <2>1
<1>5. s = ThreadDispatchReady([f[n] EXCEPT !.kernel = "Running"])
  OBVIOUS
<1> HIDE DEF f, s
<1>6. Settled(s) /\ s.kernel = "Running" /\ Highest(s, {}) /\ Owning(k, s) /\ Calm(k, s)
  BY <1>1, <1>3, <1>4, <1>5, ResumeKernelFine
<1>7. /\ Settled(k') /\ k'.next = k'.run /\ k'.next = s.next /\ k'.kernel = s.kernel
      /\ Highest(s, {}) => Highest(k', {})
      /\ SameLocks(s, k') /\ SameLives(s, k') /\ Calm(s, k')
  BY <1>2, <1>6, ReturnSettled, SameCalm
<1>8. tick' \in 0..TickMod-1
  <2>1. tick + sleep \in Int
    BY <1>1
  <2> QED
    BY <1>1, <2>1
<1>9. Owning(k, k')
  BY <1>1, <1>6, <1>7, OwningThen DEF Good, Linked
<1>10. Calm(k, k')
  BY <1>6, <1>7, CalmThen
<1> QED
  BY <1>6, <1>7, <1>8, <1>9, <1>10 DEF Caught, Inv

-----------------------------------------------------------------------------
(* The theorems. *)

\* The head of the sorted ready list stands for all ready threads.
Top(s) ==
  s.ready # << >> /\ s.run # NoThread => s.priority[s.run] >= s.priority[Head(s.ready)]

\* The head of the ready list is as high as everything in it, which is all
\* that is ready: HighestRuns looks at all threads, the code at the head.
LEMMA TopIsHighest ==
  ASSUME NEW s, Settled(s), s.next = s.run, s.kernel = "Running"
  PROVE  Top(s) <=> Highest(s, {})
<1>1. /\ s.ready \in Seq(Thread) /\ NoDuplicates(s.ready) /\ SortedBy(s.ready, s.priority)
      /\ s.priority \in [Thread -> Nat] /\ s.run \in Thread /\ s.run # NoThread
      /\ \A u \in Thread : u \in ToSet(s.ready) <=> s.state[u] = "Ready"
  BY Running, Fields, KernelAssumption DEF Good, Linked, AtPlace
<1>2. ASSUME Highest(s, {}), s.ready # << >>
      PROVE  s.priority[s.run] >= s.priority[Head(s.ready)]
  <2>1. Head(s.ready) \in Thread /\ Head(s.ready) \in ToSet(s.ready)
    BY <1>1, <1>2, TailList
  <2>2. s.priority[Head(s.ready)] <= s.priority[s.run]
    BY <1>1, <1>2, <2>1 DEF Highest
  <2> QED
    BY <1>1, <2>1, <2>2
<1>3. ASSUME Top(s), NEW u \in Thread, s.state[u] = "Ready"
      PROVE  s.priority[u] <= s.priority[s.next]
  <2>1. PICK i \in 1..Len(s.ready) : s.ready[i] = u
    BY <1>1, <1>3, ToSetIs
  <2>2. s.ready # << >> /\ Head(s.ready) = s.ready[1] /\ 1 \in 1..Len(s.ready)
        /\ s.ready[1] \in Thread
    BY <1>1, <2>1
  <2>3. s.priority[s.ready[1]] >= s.priority[u]
    BY <1>1, <2>1, <2>2 DEF SortedBy
  <2>4. s.priority[s.run] >= s.priority[s.ready[1]]
    BY <1>1, <1>3, <2>2 DEF Top
  <2> QED
    BY <1>1, <2>2, <2>3, <2>4
<1> QED
  BY <1>2, <1>3 DEF Top, Highest

\* Every step keeps Inv.
LEMMA NextKept ==
  ASSUME Inv, JoinersLeftAlone, OwnersLive \/ Unowned(k), [Next]_vars
  PROVE  \/ Kept /\ tick' = tick
         \/ Caught /\ k.kernel # "Running"
         \/ Caught /\ Tick
<1>1. CASE UNCHANGED vars
  <2>1. Owning(k, k') /\ Calm(k, k')
    BY <1>1, OwningKept, SameCalm DEF vars
  <2> QED
    BY <1>1, <2>1 DEF vars, Kept, Inv
<1>2. CASE ThreadServices
  BY <1>2, ServicesKept
<1>3. CASE KernelStart
  BY <1>3, StartKept
<1>4. ASSUME NEW sleep \in Sleeps, KernelResume(sleep)
      PROVE  Caught /\ k.kernel # "Running"
  BY <1>4, ResumeCaught DEF KernelResume
<1>5. CASE Tick
  BY <1>5, TickCaught
<1> QED
  BY <1>1, <1>2, <1>3, <1>4, <1>5 DEF Next

\* The inductive invariant holds, and without the mutex functions nobody owns one.
LEMMA Invariant == JoinersLeftAlone => (Spec => [](Inv /\ Unowned(k)))
<1> SUFFICES ASSUME JoinersLeftAlone PROVE Spec => [](Inv /\ Unowned(k))
  OBVIOUS
<1>1. Init => Inv /\ Unowned(k)
  BY Initially
<1>2. Inv /\ Unowned(k) /\ [Next]_vars => (Inv /\ Unowned(k))'
  <2>1. ASSUME Inv, Unowned(k), [Next]_vars PROVE Inv' /\ Owning(k, k')
    BY <2>1, NextKept DEF Kept, Caught
  <2>2. ASSUME Unowned(k), Owning(k, k') PROVE Unowned(k)'
    BY <2>2 DEF Owning, Unowned
  <2> QED
    BY <2>1, <2>2
<1> QED
  BY <1>1, <1>2, PTL DEF Spec

\* What the runs check of a state follows from the invariant.
LEMMA InvConsistent ==
  ASSUME Inv
  PROVE  ThreadsConsistent /\ JoinConsistent
<1>1. k \in Kernel /\ Linked(k, k.delayList, {}) /\ Started(k) /\ JoinOK(k)
      /\ k.next = k.run /\ tick \in 0..TickMod-1 /\ NoThread \notin Thread
  BY KernelAssumption DEF Inv, Settled, Good, Linked
<1>2. TypeOK
  BY <1>1 DEF TypeOK
<1>3. Placement /\ SliceBounded /\ ReadySorted
  BY <1>1 DEF Linked, AtPlace, SortedBy, Placement, SliceBounded, ReadySorted
<1>4. OneRuns
  BY <1>1 DEF Started, Runs, OneRuns
<1>5. JoinConsistent
  BY <1>1 DEF JoinOK, JoinConsistent, Exists
<1> QED
  BY <1>2, <1>3, <1>4, <1>5 DEF ThreadsConsistent

\* Between two handlers every thread is linked once and where its state says,
\* one thread runs, the ready list is sorted and no slice is longer than the
\* round-robin timeout, through all services of rtx_thread.c, rtx_delay.c and
\* rtx_kernel.c and the tick, as long as nobody resumes or suspends a thread that joins.
THEOREM ThreadsCorrect == JoinersLeftAlone => (Spec => []ThreadsConsistent)
<1>1. Inv => ThreadsConsistent
  BY InvConsistent
<1> QED
  BY <1>1, Invariant, PTL

\* A joining thread and its target point at each other, and an ended thread is
\* kept for a join if and only if it can be joined, whoever exits, terminates,
\* detaches or joins (svcRtxThreadJoin, osRtxThreadJoinWakeup, osRtxThreadFree).
THEOREM JoinsCorrect == JoinersLeftAlone => (Spec => []JoinConsistent)
<1>1. Inv => JoinConsistent
  BY InvConsistent
<1> QED
  BY <1>1, Invariant, PTL

\* A step from the invariant to the invariant dispatches as Dispatched says.
LEMMA StepDispatched ==
  ASSUME Inv, Inv', JoinersLeftAlone, OwnersLive \/ Unowned(k), [Next]_vars
  PROVE  /\ k.kernel = "Running" /\ k'.kernel = "Running" /\ HighestRuns => HighestRuns'
         /\ tick' # tick /\ k'.kernel = "Running" => HighestRuns'
<1>1. /\ k.kernel = "Running" => (HighestRuns <=> Highest(k, {}))
      /\ k'.kernel = "Running" => (HighestRuns' <=> Highest(k', {}))
  BY TopIsHighest DEF Inv, HighestRuns, Top
<1> QED
  BY <1>1, NextKept DEF Kept, Caught

\* No handler leaves a thread ready above the running one if none was before,
\* and each tick and each resume from a suspension ends without one
\* (osRtxThreadDispatch, osRtxTick_Handler, svcRtxKernelResume).
THEOREM DispatchCorrect == JoinersLeftAlone => (Spec => Dispatched)
<1> SUFFICES ASSUME JoinersLeftAlone PROVE Spec => Dispatched
  OBVIOUS
<1>1. Inv /\ Unowned(k) /\ Inv' /\ [Next]_vars
        => [k.kernel = "Running" /\ k'.kernel = "Running" /\ HighestRuns
              => HighestRuns']_vars
  BY StepDispatched
<1>2. Inv /\ Unowned(k) /\ Inv' /\ [Next]_vars
        => [tick' # tick /\ k'.kernel = "Running" => HighestRuns']_vars
  BY StepDispatched
<1>3. QED
  <2>1. Spec => [](Inv /\ Unowned(k))
    BY Invariant
  <2> QED
    BY <1>1, <1>2, <2>1, PTL DEF Spec, Dispatched, PreemptionKept, TickDispatches

-----------------------------------------------------------------------------
(***************************************************************************)
(* The timeouts of the delay list are exact, for any number of threads and *)
(* whatever joins, leaves or is woken up before a thread.                  *)
(*                                                                         *)
(* The delay list holds differences.  The proof speaks of the time that is *)
(* left to each member, the sum of the delays up to it, and shows for each *)
(* function of rtx_thread.c which of these times it moves: insertion and   *)
(* removal none, a tick all of them by one.                                *)
(***************************************************************************)
(* The time left. *)

\* The members of the delay list wait with a timeout and are linked once.
Timed(s) ==
  /\ s.delayList \in Seq(Thread) /\ NoDuplicates(s.delayList)
  /\ \A i \in 1..Len(s.delayList) : s.delay[s.delayList[i]] \in Nat

\* h gives the time left at each place of the delay list.
TimesOf(s, h) ==
  /\ h[0] = 0
  /\ \A i \in 1..Len(s.delayList) : h[i] = h[i-1] + s.delay[s.delayList[i]]

\* A member of the delay list has no Forever for a delay (osRtxThreadDelayInsert
\* puts such a wait into the wait list).
LEMMA GoodTimed ==
  ASSUME NEW s, NEW X \in SUBSET Thread, Good(s, X)
  PROVE  Timed(s) /\ s \in Kernel
<1>1. /\ s \in Kernel /\ s.delayList \in Seq(Thread) /\ NoDuplicates(s.delayList)
      /\ s.delay \in [Thread -> Nat \cup {Forever}]
  BY Fields DEF Good, Linked
<1>2. ASSUME NEW i \in 1..Len(s.delayList)
      PROVE  s.delay[s.delayList[i]] \in Nat
  <2> DEFINE u == s.delayList[i]
  <2>1. u \in Thread /\ u \in ToSet(s.delayList)
    BY <1>1, ToSetIs
  <2> HIDE DEF u
  <2>2. AtPlace(s, s.delayList, u)
    BY <2>1 DEF Good, Linked, Nowhere
  <2>3. s.delay[u] # Forever
    BY <2>1, <2>2 DEF AtPlace
  <2> QED
    BY <1>1, <2>1, <2>3 DEF u
<1> QED
  BY <1>1, <1>2 DEF Timed

\* What Expiry is, without the membership in Kernel that ExpiryIs asks for.
LEMMA ExpiryTimes ==
  ASSUME NEW s \in Kernel, Timed(s)
  PROVE  /\ TimesOf(s, Expiry(s)) /\ \A i \in 0..Len(s.delayList) : Expiry(s)[i] \in Nat
BY ExpiryIs DEF Timed, TimesOf

\* There is one solution: two functions that both add up the delays agree.
LEMMA TimesUnique ==
  ASSUME NEW s \in Kernel, Timed(s), NEW h, TimesOf(s, h)
  PROVE  \A i \in 0..Len(s.delayList) : Expiry(s)[i] = h[i]
<1> DEFINE n == Len(s.delayList)
           e == Expiry(s)
           T == {i \in 0..n : e[i] # h[i]}
<1>1. n \in Nat /\ TimesOf(s, e)
  BY ExpiryTimes DEF Timed
<1> HIDE DEF e
<1>2. SUFFICES ASSUME T # {} PROVE FALSE
  BY DEF e
<1>3. PICK m : m = Min(T)
  OBVIOUS
<1>4. m \in 0..n /\ e[m] # h[m] /\ \A y \in T : m <= y
  <2>1. T \in SUBSET Nat
    BY <1>1
  <2>2. m \in T /\ \A y \in T : m <= y
    BY <1>2, <1>3, <2>1, MinIs
  <2> QED
    BY <2>2
<1>5. m # 0
  BY <1>1, <1>4 DEF TimesOf
<1>6. m \in 1..n /\ m - 1 \in 0..n /\ ~(m <= m - 1)
  BY <1>1, <1>4, <1>5
<1>7. e[m-1] = h[m-1]
  BY <1>4, <1>6
<1> QED
  BY <1>1, <1>4, <1>6, <1>7 DEF TimesOf

\* Nobody expires before those ahead of it in the list.
LEMMA TimesGrow ==
  ASSUME NEW s \in Kernel, Timed(s), NEW i \in 0..Len(s.delayList),
         NEW j \in 0..Len(s.delayList), i <= j
  PROVE  Expiry(s)[i] <= Expiry(s)[j]
<1> DEFINE n == Len(s.delayList)
           e == Expiry(s)
           T == {x \in 0..n : i <= x /\ ~(e[i] <= e[x])}
<1>1. /\ n \in Nat /\ TimesOf(s, e) /\ \A x \in 0..n : e[x] \in Nat
      /\ \A x \in 1..n : s.delay[s.delayList[x]] \in Nat
  BY ExpiryTimes DEF Timed
<1> HIDE DEF e
<1>2. SUFFICES ASSUME T # {} PROVE FALSE
  BY DEF e
<1>3. PICK m : m = Min(T)
  OBVIOUS
<1>4. m \in 0..n /\ i <= m /\ ~(e[i] <= e[m]) /\ \A y \in T : m <= y
  <2>1. T \in SUBSET Nat
    BY <1>1
  <2>2. m \in T /\ \A y \in T : m <= y
    BY <1>2, <1>3, <2>1, MinIs
  <2> QED
    BY <2>2
<1>5. m # i
  BY <1>1, <1>4
<1>6. m \in 1..n /\ m - 1 \in 0..n /\ ~(m <= m - 1) /\ i <= m - 1
  BY <1>1, <1>4, <1>5
<1>7. e[i] <= e[m-1]
  BY <1>4, <1>6
<1>8. PICK d \in Nat : e[m] = e[m-1] + d
  BY <1>1, <1>6 DEF TimesOf
<1>9. e[i] \in Nat /\ e[m-1] \in Nat
  BY <1>1, <1>6
<1> QED
  BY <1>4, <1>7, <1>8, <1>9

\* The time left to the thread at place i.
LEMMA DueAt ==
  ASSUME NEW s, Timed(s), NEW i \in 1..Len(s.delayList)
  PROVE  DueIn(s, s.delayList[i]) = Expiry(s)[i]
<1>1. (CHOOSE j \in 1..Len(s.delayList) : s.delayList[j] = s.delayList[i]) = i
  BY DEF Timed, NoDuplicates
<1> QED
  BY <1>1 DEF DueIn

\* The members of the list, by their places, and the times left to them.
LEMMA DueIs ==
  ASSUME NEW s \in Kernel, Timed(s), NEW t
  PROVE  /\ t \in ToSet(s.delayList)
              => \E i \in 1..Len(s.delayList) :
                   s.delayList[i] = t /\ DueIn(s, t) = Expiry(s)[i]
         /\ t \in ToSet(s.delayList) => DueIn(s, t) \in Nat
         /\ \A i \in 1..Len(s.delayList) : s.delayList[i] \in ToSet(s.delayList)
<1>1. \A i \in 1..Len(s.delayList) : s.delayList[i] \in ToSet(s.delayList)
  BY ToSetIs DEF Timed
<1>2. ASSUME t \in ToSet(s.delayList)
      PROVE  \E i \in 1..Len(s.delayList) :
               /\ s.delayList[i] = t /\ DueIn(s, t) = Expiry(s)[i]
               /\ DueIn(s, t) \in Nat
  <2>1. PICK i \in 1..Len(s.delayList) : s.delayList[i] = t
    BY <1>2, ToSetIs DEF Timed
  <2>2. DueIn(s, t) = Expiry(s)[i]
    BY <2>1, DueAt
  <2>3. i \in 0..Len(s.delayList)
    BY DEF Timed
  <2> QED
    BY <2>1, <2>2, <2>3, ExpiryTimes
<1> QED
  BY <1>1, <1>2

\* A function that adds up the delays gives the time left to each member.
LEMMA DueFrom ==
  ASSUME NEW s \in Kernel, Timed(s), NEW h, TimesOf(s, h), NEW i \in 1..Len(s.delayList)
  PROVE  DueIn(s, s.delayList[i]) = h[i]
<1>1. i \in 0..Len(s.delayList)
  BY DEF Timed
<1> QED
  BY <1>1, DueAt, TimesUnique

-----------------------------------------------------------------------------
(* What the functions of the kernel do to the times. *)

\* The delay list and the delays of its members are the same.
SameTimes(s, r) ==
  /\ r.delayList = s.delayList
  /\ \A u \in ToSet(s.delayList) : r.delay[u] = s.delay[u]

\* Some threads have left the delay list, nobody has moved.
LessTimes(s, r) ==
  /\ ToSet(r.delayList) \in SUBSET ToSet(s.delayList)
  /\ \A u \in ToSet(r.delayList) : DueIn(r, u) = DueIn(s, u)

\* t has joined the delay list for d ticks, nobody has moved.
MoreTimes(s, r, t, d) ==
  /\ ToSet(r.delayList) = ToSet(s.delayList) \cup {t}
  /\ DueIn(r, t) = d
  /\ \A u \in ToSet(s.delayList) : DueIn(r, u) = DueIn(s, u)

\* n ticks have passed: everybody is n ticks nearer, and those that were due by
\* then have left.
TicksPassed(s, r, n) ==
  /\ ToSet(r.delayList) = {u \in ToSet(s.delayList) : DueIn(s, u) > n}
  /\ \A u \in ToSet(r.delayList) : DueIn(r, u) = DueIn(s, u) - n

\* The times are the same.
SameDue(s, r) ==
  /\ ToSet(r.delayList) = ToSet(s.delayList)
  /\ \A u \in ToSet(s.delayList) : DueIn(r, u) = DueIn(s, u)

\* Equal lists with equal delays give equal times.
LEMMA SameTimesDue ==
  ASSUME NEW s \in Kernel, Timed(s), NEW r \in Kernel, SameTimes(s, r)
  PROVE  Timed(r) /\ SameDue(s, r)
<1>1. \A i \in 1..Len(s.delayList) : s.delayList[i] \in ToSet(s.delayList)
  BY DueIs
<1>2. r.delayList = s.delayList
      /\ \A i \in 1..Len(s.delayList) : r.delay[s.delayList[i]] = s.delay[s.delayList[i]]
  BY <1>1 DEF SameTimes
<1>3. Timed(r)
  BY <1>2 DEF Timed
<1>4. TimesOf(r, Expiry(s))
  BY <1>2, ExpiryTimes DEF TimesOf
<1>5. ASSUME NEW u \in ToSet(s.delayList) PROVE DueIn(r, u) = DueIn(s, u)
  <2>1. PICK i \in 1..Len(s.delayList) : s.delayList[i] = u /\ DueIn(s, u) = Expiry(s)[i]
    BY DueIs
  <2>2. i \in 1..Len(r.delayList) /\ r.delayList[i] = u
    BY <1>2, <2>1
  <2>3. DueIn(r, r.delayList[i]) = Expiry(s)[i]
    BY <1>3, <1>4, <2>2, DueFrom
  <2> QED
    BY <2>1, <2>2, <2>3
<1> QED
  BY <1>2, <1>3, <1>5 DEF SameDue

\* osRtxThreadDelayRemove
LEMMA RemoveTimes ==
  ASSUME NEW s, NEW X \in SUBSET Thread, Good(s, X), NEW t \in Thread \ X, IsBlocked(s, t),
         NEW r, r = ThreadDelayRemove(s, t)
  PROVE  LessTimes(s, r)
<1> DEFINE q == s.delayList
           n == Len(q)
           e == Expiry(s)
<1>1. /\ s \in Kernel /\ Timed(s) /\ q \in Seq(Thread) /\ NoDuplicates(q) /\ n \in Nat
      /\ s.delay \in [Thread -> Nat \cup {Forever}]
  BY GoodTimed, Fields DEF Timed
<1>2. r \in Kernel /\ Timed(r)
  <2>1. Good(r, X \cup {t}) /\ X \cup {t} \in SUBSET Thread
    BY DelayRemoveGood
  <2> QED
    BY <2>1, GoodTimed
<1>3. CASE s.delay[t] = Forever
  <2>1. r = [s EXCEPT !.delay[t] = 0, !.waitList = s.waitList \ {t}]
    BY <1>3 DEF ThreadDelayRemove
  <2>2. r.delayList = q /\ r.delay = [s.delay EXCEPT ![t] = 0]
    BY <1>1, <2>1 DEF Kernel
  <2>3. t \notin ToSet(q)
    BY <1>3 DEF Good, Linked, AtPlace
  <2>4. SameTimes(s, r)
    BY <1>1, <2>2, <2>3 DEF SameTimes
  <2>5. SameDue(s, r)
    BY <1>1, <1>2, <2>4, SameTimesDue
  <2> QED
    BY <2>5 DEF SameDue, LessTimes
<1>4. CASE s.delay[t] # Forever
  <2> DEFINE After(u) == \E i \in 1..Len(q)-1 : q[i] = t /\ q[i+1] = u
             g == [u \in Thread |-> IF u = t THEN 0
                                    ELSE IF After(u) THEN s.delay[u] + s.delay[t]
                                    ELSE s.delay[u]]
             z == RemoveFirst(q, t)
  <2>1. r = [s EXCEPT !.delayList = z, !.delay = g]
    BY <1>4 DEF ThreadDelayRemove
  <2>2. r.delayList = z /\ r.delay = g
    BY <1>1, <2>1 DEF Kernel
  <2>3. t \in ToSet(q)
    BY <1>1, <1>4 DEF Good, Linked, AtPlace
  <2>4. PICK i \in 1..n : q[i] = t /\ z = RemoveAt(q, i)
    BY <1>1, <2>3, RemoveFirstAt
  <2>5. Len(z) = n - 1 /\ \A j \in 1..n-1 : z[j] = IF j < i THEN q[j] ELSE q[j+1]
    <3>1. /\ Len(RemoveAt(q, i)) = Len(q) - 1
          /\ \A j \in 1..Len(q)-1 : RemoveAt(q, i)[j] = IF j < i THEN q[j] ELSE q[j+1]
      BY <1>1, RemoveAtIs
    <3> HIDE DEF z, q
    <3> QED
      BY <2>4, <3>1
  <2>6. /\ e[0] = 0 /\ \A j \in 1..n : e[j] = e[j-1] + s.delay[q[j]]
        /\ \A j \in 0..n : e[j] \in Nat
        /\ \A j \in 1..n : s.delay[q[j]] \in Nat /\ q[j] \in Thread
    BY <1>1, ExpiryTimes DEF TimesOf, Timed
  <2>7. \A j \in 1..n : j # i => /\ After(q[j]) <=> j = i + 1
                                /\ q[j] # t
    BY <1>1, <2>4 DEF NoDuplicates
  <2> HIDE DEF After, e
  <2>8. \A j \in 1..n : j # i => g[q[j]] = IF j = i + 1 THEN s.delay[q[j]] + s.delay[t]
                                                        ELSE s.delay[q[j]]
    BY <2>6, <2>7
  <2> HIDE DEF z, g, q, n
  <2> DEFINE h == [j \in 0..n-1 |-> IF j < i THEN e[j] ELSE e[j+1]]
  <2>9. ASSUME NEW j \in 1..n-1 PROVE h[j] = h[j-1] + g[z[j]]
    <3>1. j \in 1..n /\ j + 1 \in 1..n /\ j \in 0..n-1 /\ j - 1 \in 0..n-1
      BY <1>1
    <3>2. CASE j < i
      <4>1. h[j] = e[j] /\ h[j-1] = e[j-1] /\ z[j] = q[j] /\ j # i /\ j # i + 1
        BY <1>1, <2>5, <3>1, <3>2
      <4> QED
        BY <2>6, <2>8, <3>1, <4>1
    <3>3. CASE j = i
      <4>1. h[j] = e[j+1] /\ h[j-1] = e[j-1] /\ z[j] = q[j+1] /\ j + 1 # i
        BY <1>1, <2>5, <3>1, <3>3
      <4>2. g[z[j]] = s.delay[q[j+1]] + s.delay[q[j]]
        BY <2>4, <2>8, <3>1, <3>3, <4>1
      <4>3. e[j+1] = e[j] + s.delay[q[j+1]] /\ e[j] = e[j-1] + s.delay[q[j]]
        <5>1. (j + 1) - 1 = j
          BY <3>1
        <5> QED
          BY <2>6, <3>1, <5>1
      <4>4. s.delay[q[j+1]] \in Nat /\ s.delay[q[j]] \in Nat /\ e[j-1] \in Nat
        <5>1. j - 1 \in 0..n
          BY <1>1
        <5> QED
          BY <2>6, <3>1, <5>1
      <4> QED
        BY <4>1, <4>2, <4>3, <4>4
    <3>4. CASE j > i
      <4>1. h[j] = e[j+1] /\ h[j-1] = e[j] /\ z[j] = q[j+1] /\ j + 1 # i /\ j + 1 # i + 1
        BY <1>1, <2>5, <3>1, <3>4
      <4>2. (j + 1) - 1 = j
        BY <3>1
      <4> QED
        BY <2>6, <2>8, <3>1, <4>1, <4>2
    <3> QED
      BY <3>2, <3>3, <3>4
  <2>10. TimesOf(r, h)
    <3>1. h[0] = 0
      BY <1>1, <2>6
    <3> HIDE DEF h
    <3> QED
      BY <2>2, <2>5, <2>9, <3>1 DEF TimesOf
  <2>11. ASSUME NEW u \in ToSet(r.delayList)
         PROVE  u \in ToSet(q) /\ DueIn(r, u) = DueIn(s, u)
    <3>1. PICK j \in 1..Len(r.delayList) : r.delayList[j] = u
      BY <1>2, ToSetIs DEF Timed
    <3>2. j \in 1..n-1 /\ z[j] = u /\ DueIn(r, u) = h[j]
      <4> HIDE DEF h
      <4> QED
        BY <1>2, <2>2, <2>5, <2>10, <3>1, DueFrom
    <3>3. \A x \in 1..n : DueIn(s, q[x]) = e[x] /\ q[x] \in ToSet(q)
      BY <1>1, DueAt, DueIs DEF e, q, n
    <3>4. CASE j < i
      <4>1. j \in 1..n /\ h[j] = e[j] /\ z[j] = q[j]
        BY <1>1, <2>5, <3>2, <3>4
      <4> QED
        BY <3>2, <3>3, <4>1
    <3>5. CASE ~(j < i)
      <4>1. j + 1 \in 1..n /\ h[j] = e[j+1] /\ z[j] = q[j+1]
        BY <1>1, <2>5, <3>2, <3>5
      <4> QED
        BY <3>2, <3>3, <4>1
    <3> QED
      BY <3>4, <3>5
  <2> QED
    BY <2>11 DEF LessTimes, q
<1> QED
  BY <1>3, <1>4

\* osRtxThreadDelayInsert with a timeout.
LEMMA InsertTimes ==
  ASSUME NEW s, NEW X \in SUBSET Thread, Good(s, X), NEW t \in X, IsBlocked(s, t),
         NEW d \in Nat \ {0},
         NEW r, r = ThreadDelayInsert(s, t, d)
  PROVE  MoreTimes(s, r, t, d)
<1> DEFINE q     == s.delayList
           n     == Len(q)
           e     == Expiry(s)
           later == {i \in 1..n : e[i] > d}
           pos   == IF later = {} THEN n + 1 ELSE Min(later)
           own   == d - e[pos-1]
           g     == [u \in Thread |-> IF u = t THEN own
                                      ELSE IF later # {} /\ u = q[pos]
                                      THEN s.delay[u] - own
                                      ELSE s.delay[u]]
           z     == InsertAt(q, pos, t)
<1>1. /\ s \in Kernel /\ Timed(s) /\ q \in Seq(Thread) /\ NoDuplicates(q) /\ n \in Nat
      /\ s.delay \in [Thread -> Nat \cup {Forever}] /\ t \in Thread /\ t \notin ToSet(q)
      /\ d \in Nat /\ d # Forever
  <2>1. s \in Kernel /\ Timed(s)
    BY GoodTimed
  <2>2. t \in Thread /\ t \notin ToSet(s.delayList)
    BY DEF Good, Linked, Nowhere
  <2>3. s.delay \in [Thread -> Nat \cup {Forever}] /\ d \in Nat /\ d # Forever
    BY <2>1, Fields, KernelAssumption
  <2> QED
    BY <2>1, <2>2, <2>3 DEF Timed
<1>2. r \in Kernel /\ Timed(r)
  <2>1. d \in (Nat \ {0}) \cup {Forever}
    OBVIOUS
  <2>2. Good(r, X \ {t}) /\ X \ {t} \in SUBSET Thread
    BY <2>1, DelayInsertGood
  <2> QED
    BY <2>2, GoodTimed
<1>3. r.delayList = z /\ r.delay = g
  <2>1. r = [s EXCEPT !.delayList = z, !.delay = g]
    BY <1>1 DEF ThreadDelayInsert
  <2> HIDE DEF z, g
  <2> QED
    BY <1>1, <2>1 DEF Kernel
<1>4. /\ e[0] = 0 /\ \A j \in 1..n : e[j] = e[j-1] + s.delay[q[j]]
      /\ \A j \in 0..n : e[j] \in Nat
      /\ \A j \in 1..n : s.delay[q[j]] \in Nat /\ q[j] \in Thread /\ q[j] # t
  <2>1. \A j \in 1..n : q[j] \in ToSet(q)
    BY <1>1, DueIs
  <2> QED
    BY <1>1, <2>1, ExpiryTimes DEF TimesOf, Timed
<1> HIDE DEF e
<1>5. /\ pos \in 1..n+1
      /\ later # {} => pos \in 1..n
      /\ later = {} => pos = n + 1
  <2>1. CASE later = {}
    BY <1>1, <2>1
  <2>2. CASE later # {}
    <3>1. later \in SUBSET Nat
      BY <1>1
    <3>2. Min(later) \in later
      BY <2>2, <3>1, MinIs
    <3>3. pos \in 1..n
      BY <2>2, <3>2
    <3> QED
      BY <1>1, <2>2, <3>3
  <2> QED
    BY <2>1, <2>2
<1> HIDE DEF pos, later
<1>6. /\ Len(z) = n + 1
      /\ \A j \in 1..n+1 : z[j] = IF j < pos THEN q[j] ELSE IF j = pos THEN t ELSE q[j-1]
  <2>1. /\ InsertAt(q, pos, t) \in Seq(Thread) /\ Len(InsertAt(q, pos, t)) = Len(q) + 1
        /\ \A j \in 1..Len(q)+1 : InsertAt(q, pos, t)[j] =
              IF j < pos THEN q[j] ELSE IF j = pos THEN t ELSE q[j-1]
    <3>1. q \in Seq(Thread) /\ pos \in 1..Len(q)+1 /\ t \in Thread
      BY <1>1, <1>5
    <3> HIDE DEF q
    <3> QED
      BY <3>1, InsertAtIs
  <2> QED
    BY <2>1
<1> HIDE DEF own
<1>7. /\ g[t] = own
      /\ \A j \in 1..n : g[q[j]] = IF j = pos THEN s.delay[q[j]] - own ELSE s.delay[q[j]]
  <2>1. \A j \in 1..n : (later # {} /\ q[j] = q[pos]) <=> j = pos
    BY <1>1, <1>5 DEF NoDuplicates
  <2> QED
    BY <1>1, <1>4, <2>1
<1>8. own = d - e[pos-1] /\ own \in Int
  <2>1. pos - 1 \in 0..n
    BY <1>1, <1>5
  <2> QED
    BY <1>1, <1>4, <2>1 DEF own
<1> HIDE DEF z, g, q, n
<1> DEFINE h == [j \in 0..n+1 |-> IF j < pos THEN e[j] ELSE IF j = pos THEN d ELSE e[j-1]]
<1>9. ASSUME NEW j \in 1..n+1 PROVE h[j] = h[j-1] + g[z[j]]
  <2>1. j \in 0..n+1 /\ j - 1 \in 0..n+1 /\ j - 1 \in 0..n
    BY <1>1
  <2>2. CASE j < pos
    <3>1. j \in 1..n /\ h[j] = e[j] /\ h[j-1] = e[j-1] /\ z[j] = q[j] /\ j # pos
      BY <1>1, <1>5, <1>6, <2>1, <2>2
    <3> QED
      BY <1>4, <1>7, <3>1
  <2>3. CASE j = pos
    <3>1. h[j] = d /\ h[j-1] = e[j-1] /\ z[j] = t
      BY <1>1, <1>5, <1>6, <2>1, <2>3
    <3> QED
      BY <1>1, <1>4, <1>7, <1>8, <2>1, <2>3, <3>1
  <2>4. CASE j = pos + 1
    <3>1. /\ h[j] = e[j-1] /\ h[j-1] = d /\ z[j] = q[j-1] /\ j - 1 \in 1..n
          /\ j - 1 = pos
      BY <1>1, <1>5, <1>6, <2>1, <2>4
    <3>2. g[z[j]] = s.delay[q[pos]] - own /\ e[pos] = e[pos-1] + s.delay[q[pos]]
      BY <1>4, <1>7, <3>1
    <3>3. s.delay[q[pos]] \in Nat /\ e[pos-1] \in Nat
      <4>1. pos - 1 \in 0..n
        BY <1>1, <1>5
      <4> QED
        BY <1>4, <3>1, <4>1
    <3>4. d \in Int
      BY <1>1
    <3> HIDE DEF h
    <3> QED
      BY <1>8, <3>1, <3>2, <3>3, <3>4
  <2>5. CASE j > pos + 1
    <3>1. /\ h[j] = e[j-1] /\ h[j-1] = e[(j-1)-1] /\ z[j] = q[j-1] /\ j - 1 \in 1..n
          /\ j - 1 # pos
      BY <1>1, <1>5, <1>6, <2>1, <2>5
    <3> QED
      BY <1>4, <1>7, <3>1
  <2> QED
    BY <1>5, <2>2, <2>3, <2>4, <2>5
<1>10. TimesOf(r, h)
  <2>1. h[0] = 0
    BY <1>1, <1>4, <1>5
  <2> HIDE DEF h
  <2> QED
    BY <1>3, <1>6, <1>9, <2>1 DEF TimesOf
<1>11. \A j \in 1..n+1 : DueIn(r, z[j]) = h[j] /\ z[j] \in ToSet(r.delayList)
  <2> HIDE DEF h
  <2>1. \A j \in 1..Len(r.delayList) : DueIn(r, r.delayList[j]) = h[j]
    BY <1>2, <1>10, DueFrom
  <2>2. \A j \in 1..Len(r.delayList) : r.delayList[j] \in ToSet(r.delayList)
    BY <1>2, DueIs
  <2> QED
    BY <1>3, <1>6, <2>1, <2>2
<1>12. DueIn(r, t) = d /\ t \in ToSet(r.delayList)
  <2>1. z[pos] = t /\ h[pos] = d /\ pos \in 1..n+1
    BY <1>1, <1>5, <1>6
  <2> QED
    BY <1>11, <2>1
<1>13. ASSUME NEW u \in ToSet(q) PROVE DueIn(r, u) = DueIn(s, u) /\ u \in ToSet(r.delayList)
  <2>1. PICK j \in 1..n : q[j] = u /\ DueIn(s, u) = e[j]
    BY <1>1, DueIs DEF q, n, e
  <2>2. CASE j < pos
    <3>1. j \in 1..n+1 /\ z[j] = u /\ h[j] = e[j]
      BY <1>1, <1>6, <2>1, <2>2
    <3> QED
      BY <1>11, <2>1, <3>1
  <2>3. CASE ~(j < pos)
    <3>1. j + 1 \in 1..n+1 /\ z[j+1] = u /\ h[j+1] = e[j]
      BY <1>1, <1>5, <1>6, <2>1, <2>3
    <3> QED
      BY <1>11, <2>1, <3>1
  <2> QED
    BY <2>2, <2>3
<1>14. ASSUME NEW u \in ToSet(r.delayList) PROVE u = t \/ u \in ToSet(q)
  <2>1. PICK j \in 1..n+1 : z[j] = u
    BY <1>2, <1>3, <1>6, ToSetIs DEF Timed
  <2>2. \A i \in 1..n : q[i] \in ToSet(q)
    BY <1>1, DueIs DEF q, n
  <2>3. j < pos => j \in 1..n
    BY <1>1, <1>5
  <2>4. j > pos => j - 1 \in 1..n
    BY <1>1, <1>5
  <2> QED
    BY <1>5, <1>6, <2>1, <2>2, <2>3, <2>4
<1> QED
  BY <1>12, <1>13, <1>14 DEF MoreTimes, q

\* The tick and the catching up after a sleep bring the head of the list nearer,
\* and with it everybody.
LEMMA AdvanceTimes ==
  ASSUME NEW s \in Kernel, Timed(s), s.delayList # << >>, NEW n \in Nat,
         NEW r \in Kernel, Timed(r), Advanced(s, r, n)
  PROVE  TicksPassed(s, r, n)
<1> DEFINE q   == s.delayList
           len == Len(q)
           e   == Expiry(s)
           f   == [j \in 0..len |-> IF j = 0 THEN 0 ELSE e[j] - n]
<1>1. /\ q \in Seq(Thread) /\ NoDuplicates(q) /\ len \in Nat /\ len >= 1
      /\ s.delay \in [Thread -> Nat \cup {Forever}]
      /\ Head(q) = q[1] /\ r.delay = [s.delay EXCEPT ![Head(q)] = s.delay[Head(q)] - n]
  BY Fields DEF Timed, Advanced
<1>2. PICK m \in 0..len :
        /\ r.delayList = SubSeq(q, m + 1, len)
        /\ \A j \in 1..m : r.delay[q[j]] = 0
        /\ m # len => r.delay[q[m+1]] # 0
  BY DEF Advanced
<1>3. /\ e[0] = 0 /\ \A j \in 1..len : e[j] = e[j-1] + s.delay[q[j]]
      /\ \A j \in 0..len : e[j] \in Nat
      /\ \A j \in 1..len : s.delay[q[j]] \in Nat /\ q[j] \in Thread
  BY <1>1, ExpiryTimes DEF TimesOf, Timed
<1>4. \A j \in 1..len : r.delay[q[j]] = IF j = 1 THEN s.delay[q[j]] - n ELSE s.delay[q[j]]
  <2>1. 1 \in 1..len
    BY <1>1
  <2>2. \A j \in 1..len : q[j] = q[1] <=> j = 1
    BY <1>1, <2>1 DEF NoDuplicates
  <2> QED
    BY <1>1, <1>3, <2>1, <2>2
<1>5. /\ Len(r.delayList) = len - m
      /\ \A j \in 1..len-m : r.delayList[j] = q[m+j]
  BY <1>1, <1>2
<1> HIDE DEF e, q, len
<1>6. /\ f[0] = 0 /\ \A j \in 1..len : f[j] = e[j] - n
      /\ \A j \in 1..len : f[j] = f[j-1] + r.delay[q[j]]
  <2>1. f[0] = 0 /\ \A j \in 1..len : f[j] = e[j] - n
    BY <1>1
  <2>2. ASSUME NEW j \in 1..len PROVE f[j] = f[j-1] + r.delay[q[j]]
    <3>1. j \in 0..len /\ j - 1 \in 0..len
      BY <1>1
    <3>2. CASE j = 1
      <4>1. f[1] = e[1] - n /\ f[0] = 0 /\ 1 \in 1..len
        BY <2>1, <3>2
      <4>2. /\ e[1] = s.delay[q[1]] /\ r.delay[q[1]] = s.delay[q[1]] - n
            /\ s.delay[q[1]] \in Nat
        <5>1. e[1] = e[1-1] + s.delay[q[1]] /\ 1 - 1 = 0 /\ s.delay[q[1]] \in Nat
          BY <1>3, <4>1
        <5>2. r.delay[q[1]] = s.delay[q[1]] - n
          BY <1>4, <4>1
        <5> QED
          BY <1>3, <5>1, <5>2
      <4> HIDE DEF f
      <4> QED
        BY <3>2, <4>1, <4>2
    <3>3. CASE j # 1
      <4>1. f[j] = e[j] - n /\ f[j-1] = e[j-1] - n
        BY <1>1, <3>1, <3>3
      <4>2. e[j] = e[j-1] + s.delay[q[j]] /\ e[j-1] \in Nat /\ s.delay[q[j]] \in Nat
        BY <1>3, <3>1
      <4>3. r.delay[q[j]] = s.delay[q[j]]
        BY <1>4, <3>3
      <4> HIDE DEF f
      <4> QED
        BY <4>1, <4>2, <4>3
    <3> QED
      BY <3>2, <3>3
  <2> QED
    BY <2>1, <2>2
<1> HIDE DEF f
<1>7. \A j \in 0..m : f[j] = 0
  <2> DEFINE T == {j \in 0..m : f[j] # 0}
  <2>1. SUFFICES ASSUME T # {} PROVE FALSE
    OBVIOUS
  <2>2. PICK x : x = Min(T)
    OBVIOUS
  <2>3. x \in 0..m /\ f[x] # 0 /\ \A y \in T : x <= y
    <3>1. T \in SUBSET Nat
      OBVIOUS
    <3>2. x \in T /\ \A y \in T : x <= y
      BY <2>1, <2>2, <3>1, MinIs
    <3> QED
      BY <3>2
  <2>4. x # 0
    BY <1>6, <2>3
  <2>5. x \in 1..m /\ x \in 1..len /\ x - 1 \in 0..m /\ ~(x <= x - 1)
    BY <1>1, <2>3, <2>4
  <2>6. f[x-1] = 0
    BY <2>3, <2>5
  <2> QED
    BY <1>2, <1>6, <2>3, <2>5, <2>6
<1> DEFINE h == [j \in 0..len-m |-> f[m+j]]
<1>8. TimesOf(r, h)
  <2>1. h[0] = 0
    BY <1>1, <1>7
  <2>2. ASSUME NEW j \in 1..Len(r.delayList) PROVE h[j] = h[j-1] + r.delay[r.delayList[j]]
    <3>1. j \in 1..len-m /\ r.delayList[j] = q[m+j]
      BY <1>5
    <3>2. /\ m + j \in 1..len
          /\ j \in 0..len-m /\ j - 1 \in 0..len-m /\ m + (j - 1) = (m + j) - 1
      BY <1>1, <3>1
    <3>3. h[j] = f[m+j] /\ h[j-1] = f[(m+j)-1]
      BY <3>2
    <3> QED
      BY <1>6, <3>1, <3>2, <3>3
  <2> HIDE DEF h
  <2> QED
    BY <2>1, <2>2 DEF TimesOf
<1>9. \A j \in 1..len-m :
        /\ m + j \in 1..len
        /\ q[m+j] \in ToSet(r.delayList) /\ DueIn(r, q[m+j]) = f[m+j]
  <2>1. \A j \in 1..len-m : m + j \in 1..len /\ h[j] = f[m+j]
    BY <1>1
  <2> HIDE DEF h
  <2>2. \A j \in 1..Len(r.delayList) : DueIn(r, r.delayList[j]) = h[j]
    BY <1>8, DueFrom
  <2>3. \A j \in 1..Len(r.delayList) : r.delayList[j] \in ToSet(r.delayList)
    BY DueIs
  <2> QED
    BY <1>5, <2>1, <2>2, <2>3
<1>10. \A j \in 1..len : DueIn(s, q[j]) = e[j] /\ q[j] \in ToSet(s.delayList)
  BY DueAt, DueIs DEF e, q, len
<1>11. \A j \in 1..len-m : e[m+j] > n
  <2>1. SUFFICES ASSUME NEW j \in 1..len-m PROVE e[m+j] > n
    OBVIOUS
  <2>2. m # len /\ m + 1 \in 1..len /\ 1 \in 1..len-m /\ m + 1 \in 0..len
        /\ m + j \in 0..len /\ m + 1 <= m + j
    BY <1>1
  <2>3. r.delay[q[m+1]] \in Nat /\ r.delay[q[m+1]] # 0
    BY <1>2, <1>5, <2>2 DEF Timed
  <2>4. f[m+1] = r.delay[q[m+1]]
    <3>1. (m + 1) - 1 = m /\ f[m] = 0
      BY <1>7
    <3> QED
      BY <1>6, <2>2, <2>3, <3>1
  <2>5. e[m+1] > n
    BY <1>3, <1>6, <2>2, <2>3, <2>4
  <2>6. e[m+1] <= e[m+j]
    BY <2>2, TimesGrow DEF e, q, len
  <2> QED
    BY <1>3, <2>2, <2>5, <2>6
<1>12. ASSUME NEW u \in ToSet(r.delayList)
       PROVE  u \in ToSet(s.delayList) /\ DueIn(s, u) > n /\ DueIn(r, u) = DueIn(s, u) - n
  <2>1. PICK j \in 1..len-m : q[m+j] = u
    <3>1. PICK i \in 1..Len(r.delayList) : r.delayList[i] = u
      BY ToSetIs DEF Timed
    <3>2. i \in 1..len-m /\ q[m+i] = u
      BY <1>5, <3>1
    <3> QED
      BY <3>2
  <2> QED
    BY <1>6, <1>9, <1>10, <1>11, <2>1
<1>13. ASSUME NEW u \in ToSet(s.delayList), DueIn(s, u) > n
       PROVE  u \in ToSet(r.delayList)
  <2>1. PICK j \in 1..len : q[j] = u /\ DueIn(s, u) = e[j]
    BY DueIs DEF q, e, len
  <2>2. f[j] # 0
    BY <1>3, <1>6, <1>13, <2>1
  <2>3. ~(j <= m)
    BY <1>7, <2>2
  <2>4. j - m \in 1..len-m /\ m + (j - m) = j
    BY <1>1, <2>3
  <2> QED
    BY <1>9, <2>1, <2>4
<1> QED
  BY <1>12, <1>13 DEF TicksPassed

\* Before a tick everybody has some time left.
LEMMA NoTicks ==
  ASSUME NEW s, Good(s, {})
  PROVE  TicksPassed(s, s, 0)
<1>1. s \in Kernel /\ Timed(s)
  BY GoodTimed
<1>2. ASSUME NEW u \in ToSet(s.delayList) PROVE DueIn(s, u) \in Nat /\ DueIn(s, u) > 0
  <2>1. PICK i \in 1..Len(s.delayList) : s.delayList[i] = u /\ DueIn(s, u) = Expiry(s)[i]
    BY <1>1, <1>2, DueIs
  <2>2. /\ i \in 0..Len(s.delayList) /\ 1 \in 0..Len(s.delayList) /\ 1 <= i
        /\ 1 \in 1..Len(s.delayList) /\ s.delayList # << >> /\ Head(s.delayList) = s.delayList[1]
    BY <1>1 DEF Timed
  <2>3. Expiry(s)[1] <= Expiry(s)[i] /\ Expiry(s)[i] \in Nat
    BY <1>1, <2>2, TimesGrow, ExpiryTimes
  <2>4. Expiry(s)[1] = s.delay[s.delayList[1]] /\ Expiry(s)[1] \in Nat
    <3>1. /\ Expiry(s)[0] = 0 /\ Expiry(s)[1] = Expiry(s)[1-1] + s.delay[s.delayList[1]]
          /\ s.delay[s.delayList[1]] \in Nat
      BY <1>1, <2>2, ExpiryTimes DEF TimesOf, Timed
    <3> QED
      BY <3>1
  <2>5. s.delay[s.delayList[1]] >= 1
    BY <2>2 DEF Good, NotDue
  <2> QED
    BY <2>1, <2>3, <2>4, <2>5
<1> QED
  BY <1>2 DEF TicksPassed

\* Ticks add up.
LEMMA TicksAdd ==
  ASSUME NEW s \in Kernel, Timed(s), NEW r, NEW w, NEW m \in Nat, NEW n \in Nat,
         TicksPassed(s, r, m), TicksPassed(r, w, n)
  PROVE  TicksPassed(s, w, m + n)
<1>1. \A u \in ToSet(s.delayList) : DueIn(s, u) \in Nat
  BY DueIs
<1>2. \A u \in ToSet(r.delayList) : u \in ToSet(s.delayList) /\ DueIn(r, u) = DueIn(s, u) - m
  BY DEF TicksPassed
<1>3. ASSUME NEW u \in ToSet(w.delayList)
      PROVE  /\ u \in ToSet(s.delayList) /\ DueIn(s, u) > m + n
             /\ DueIn(w, u) = DueIn(s, u) - (m + n)
  <2>1. u \in ToSet(r.delayList) /\ DueIn(r, u) > n /\ DueIn(w, u) = DueIn(r, u) - n
    BY DEF TicksPassed
  <2> QED
    BY <1>1, <1>2, <2>1
<1>4. ASSUME NEW u \in ToSet(s.delayList), DueIn(s, u) > m + n
      PROVE  u \in ToSet(w.delayList)
  <2>1. DueIn(s, u) > m
    BY <1>1, <1>4
  <2>2. u \in ToSet(r.delayList)
    BY <2>1 DEF TicksPassed
  <2>3. DueIn(r, u) > n
    BY <1>1, <1>2, <1>4, <2>2
  <2> QED
    BY <2>2, <2>3 DEF TicksPassed
<1> QED
  BY <1>3, <1>4 DEF TicksPassed

-----------------------------------------------------------------------------
(* What does not touch the delay list. *)

\* What has a delay list.
Rec(s) == "delay" \in DOMAIN s /\ "delayList" \in DOMAIN s

\* Neither the delay list nor a delay differs.
Untimed(s, r) == Rec(r) /\ r.delay = s.delay /\ r.delayList = s.delayList

\* A kernel record is one, and is the same as itself.
LEMMA KernelRec == ASSUME NEW s \in Kernel PROVE Rec(s) /\ Untimed(s, s)
BY DEF Kernel, Rec, Untimed

\* Two functions in a row that leave the delay list and the delays alone.
LEMMA UntimedTwice ==
  ASSUME NEW s, NEW r, NEW w, Untimed(s, r), Untimed(r, w)
  PROVE  Untimed(s, w)
BY DEF Untimed

\* One such function after one that leaves the members of the delay list alone.
LEMMA UntimedSame ==
  ASSUME NEW s, NEW r, NEW w, SameTimes(s, r), Untimed(r, w)
  PROVE  SameTimes(s, w)
BY DEF Untimed, SameTimes

\* Scheduling and the lists of objects do not touch the delay list.
LEMMA SwitchUntimed ==
  ASSUME NEW s, Rec(s), NEW t
  PROVE  /\ Untimed(s, ThreadReadyPut(s, t)) /\ Untimed(s, ThreadBlock(s, t))
         /\ Untimed(s, ThreadSwitch(s, t)) /\ Untimed(s, ContextSwitch(s))
         /\ Untimed(s, ThreadListRemove(s, t)) /\ Untimed(s, Popped(s))
BY DEF Rec, Untimed, ThreadReadyPut, ThreadBlock, ThreadSwitch, ContextSwitch,
       ThreadListRemove, Popped

\* Nor do the assignments of the services to other fields.
LEMMA FieldsUntimed ==
  ASSUME NEW s, Rec(s), NEW t, NEW x
  PROVE  /\ Untimed(s, [s EXCEPT !.state[t] = x]) /\ Untimed(s, [s EXCEPT !.kernel = x])
         /\ Untimed(s, [s EXCEPT !.joinable[t] = x]) /\ Untimed(s, [s EXCEPT !.run = x])
         /\ Untimed(s, [s EXCEPT !.joiner[t] = x])
         /\ Untimed(s, Reprioritized(s, t, x))
BY DEF Rec, Untimed, Reprioritized, ThreadListSort

\* osRtxThreadSwitch(osRtxThreadListGet(...))
LEMMA SwitchToReadyUntimed ==
  ASSUME NEW s, Rec(s)
  PROVE  Untimed(s, ThreadSwitchToReady(s))
<1>1. Untimed(s, Popped(s))
  BY SwitchUntimed
<1>2. ThreadSwitchToReady(s) = ThreadSwitch(Popped(s), Head(s.ready))
  BY DEF ThreadSwitchToReady, Popped
<1>3. Rec(Popped(s))
  BY <1>1 DEF Untimed
<1>4. Untimed(Popped(s), ThreadSwitch(Popped(s), Head(s.ready)))
  BY <1>3, SwitchUntimed
<1> QED
  BY <1>1, <1>2, <1>4, UntimedTwice

\* osRtxThreadDispatch
LEMMA DispatchUntimed ==
  ASSUME NEW s, Rec(s), NEW t
  PROVE  Untimed(s, ThreadDispatch(s, t)) /\ Untimed(s, ThreadDispatchReady(s))
<1> DEFINE b  == ThreadBlock(s, s.run)
           p  == Popped(s)
           pb == ThreadBlock(p, s.run)
           h  == Head(s.ready)
<1>1. /\ Untimed(s, b) /\ Untimed(s, p) /\ Untimed(s, ThreadReadyPut(s, t))
      /\ Untimed(s, s)
  BY SwitchUntimed DEF Untimed
<1>2. Untimed(b, ThreadSwitch(b, t)) /\ Untimed(p, pb)
  BY <1>1, SwitchUntimed DEF Untimed
<1>3. Untimed(pb, ThreadSwitch(pb, h))
  BY <1>2, SwitchUntimed DEF Untimed
<1>4. /\ ThreadDispatch(s, t) \in {ThreadSwitch(b, t), ThreadReadyPut(s, t)}
      /\ ThreadDispatchReady(s) \in {ThreadSwitch(pb, h), s}
  BY DEF ThreadDispatch, ThreadDispatchReady, Popped
<1> HIDE DEF b, p, pb, h
<1>5. Untimed(s, ThreadSwitch(b, t)) /\ Untimed(s, ThreadSwitch(pb, h))
  BY <1>1, <1>2, <1>3, UntimedTwice
<1> QED
  BY <1>1, <1>4, <1>5

\* A thread that is not in the delay list may use its delay for a time slice.
LEMMA RoundRobinTimes ==
  ASSUME NEW s, Good(s, {}), Runs(s),
         NEW r, r = RoundRobin(s)
  PROVE  SameTimes(s, r)
<1> DEFINE t == s.next
           h == Head(s.ready)
<1>1. /\ s \in Kernel /\ t \in Thread /\ s.delay \in [Thread -> Nat \cup {Forever}]
      /\ s.ready \in Seq(Thread) /\ NoDuplicates(s.ready)
  BY Fields DEF Good, Linked, Runs
<1>2. \A u \in ToSet(s.delayList) : u \in Thread /\ IsBlocked(s, u)
  <2>1. s.delayList \in Seq(Thread)
    BY <1>1, Fields
  <2>2. \A u \in ToSet(s.delayList) : u \in Thread
    BY <2>1, ToSetIs
  <2> QED
    BY <2>2 DEF Good, Linked, AtPlace
<1>3. t \notin ToSet(s.delayList)
  BY <1>1, <1>2 DEF Runs, IsBlocked, Waiting
<1>4. s.ready # << >> => h \notin ToSet(s.delayList)
  <2>1. s.ready # << >> => h \in ToSet(s.ready) /\ h \in Thread
    BY <1>1, TailList
  <2>2. s.ready # << >> => s.state[h] = "Ready"
    BY <2>1 DEF Good, Linked, AtPlace
  <2> QED
    BY <1>2, <2>2 DEF IsBlocked, Waiting
<1> DEFINE d0 == IF t # s.robin /\ s.delay[t] = 0 THEN RobinTimeout ELSE s.delay[t]
           d  == IF d0 = 0 THEN 0 ELSE d0 - 1
           k1 == [s EXCEPT !.robin = t, !.delay[t] = d]
           k2 == ThreadReadyPut([k1 EXCEPT !.ready = Tail(@)], t)
           k3 == ThreadSwitch(k2, h)
           k4 == [k3 EXCEPT !.robin = h, !.delay[h] = RobinTimeout]
<1>5. r = s \/ r = k1 \/ (s.ready # << >> /\ r = k4)
  <2>1. k1.ready = s.ready
    BY <1>1 DEF Kernel
  <2> QED
    BY <2>1 DEF RoundRobin
<1> HIDE DEF d, d0, h
<1>6. /\ k1.delayList = s.delayList /\ k1.delay = [s.delay EXCEPT ![t] = d] /\ Rec(k1)
      /\ k1.ready = s.ready
  BY <1>1 DEF Kernel, Rec
<1> HIDE DEF k1, t
<1>7. Untimed(k1, Popped(k1)) /\ Untimed(Popped(k1), k2) /\ Untimed(k2, k3)
  <2>1. Untimed(k1, Popped(k1))
    BY <1>6, SwitchUntimed
  <2>2. Untimed(Popped(k1), k2)
    BY <2>1, SwitchUntimed DEF Popped, Untimed
  <2> HIDE DEF k2
  <2>3. Untimed(k2, k3)
    BY <2>2, SwitchUntimed DEF Untimed
  <2> QED
    BY <2>1, <2>2, <2>3
<1> HIDE DEF k2, k3
<1>8. k4.delayList = k3.delayList /\ k4.delay = [k3.delay EXCEPT ![h] = RobinTimeout]
  BY <1>7 DEF Untimed, Rec
<1> HIDE DEF k4
<1>9. SameTimes(s, k1)
  BY <1>1, <1>3, <1>6 DEF SameTimes
<1>10. s.ready # << >> => SameTimes(s, k4)
  <2>1. k3.delay = k1.delay /\ k3.delayList = k1.delayList
    BY <1>7 DEF Untimed
  <2>2. s.ready # << >> => \A u \in ToSet(s.delayList) : k4.delay[u] = s.delay[u]
    BY <1>1, <1>2, <1>3, <1>4, <1>6, <1>8, <2>1
  <2> QED
    BY <1>6, <1>8, <2>1, <2>2 DEF SameTimes
<1> QED
  BY <1>5, <1>9, <1>10 DEF SameTimes

-----------------------------------------------------------------------------
(* The services. *)

\* Nobody who stays in the delay list moves.
LEMMA LessTwice ==
  ASSUME NEW s, NEW r, NEW w, LessTimes(s, r), LessTimes(r, w)
  PROVE  LessTimes(s, w)
BY DEF LessTimes

\* Nobody leaves, nobody moves.
LEMMA SameIsLess ==
  ASSUME NEW s \in Kernel, Timed(s), NEW r \in Kernel, SameTimes(s, r)
  PROVE  LessTimes(s, r)
<1>1. SameDue(s, r)
  BY SameTimesDue
<1> QED
  BY <1>1 DEF SameDue, LessTimes

\* The members of a delay list are blocked threads.
LEMMA DelayedBlocked ==
  ASSUME NEW s, NEW X \in SUBSET Thread, Good(s, X), NEW u \in ToSet(s.delayList)
  PROVE  u \in Thread \ X /\ IsBlocked(s, u)
<1>1. s.delayList \in Seq(Thread)
  BY GoodTimed DEF Timed
<1>2. u \in Thread
  BY <1>1, ToSetIs
<1> QED
  BY <1>2 DEF Good, Linked, AtPlace, Nowhere

\* A control block that is filled in is in no list (svcRtxThreadNew).
LEMMA InitializedTimes ==
  ASSUME NEW s, Good(s, {}), NEW t \in Thread, s.state[t] = "Inactive",
         NEW p \in Priority, NEW j \in BOOLEAN,
         NEW r, r = Initialized(s, t, p, j)
  PROVE  SameTimes(s, r) /\ Rec(r)
<1>1. s \in Kernel /\ s.delay \in [Thread -> Nat \cup {Forever}]
  BY Fields DEF Good, Linked
<1>2. r.delayList = s.delayList /\ r.delay = [s.delay EXCEPT ![t] = 0]
  <2>1. InitializedOnly(s, r, t, p, j)
    BY InitializedGood
  <2> QED
    BY <2>1 DEF InitializedOnly
<1>3. t \notin ToSet(s.delayList)
  <2>1. {} \in SUBSET Thread /\ ~IsBlocked(s, t)
    BY DEF IsBlocked, Waiting
  <2> QED
    BY <2>1, DelayedBlocked
<1>4. Rec(r)
  <2>1. r \in Kernel
    BY <1>1, WithInitialized
  <2> QED
    BY <2>1, KernelRec
<1> QED
  BY <1>1, <1>2, <1>3, <1>4 DEF SameTimes

\* A thread that svcRtxThreadSuspend or -Terminate takes out of its lists.
LEMMA OutTimes ==
  ASSUME NEW s, Good(s, {}), Queues(s), NEW t \in Thread,
         s.state[t] \in {"Running", "Ready"} \/ IsBlocked(s, t),
         NEW r, r = Out(s, t)
  PROVE  LessTimes(s, r)
<1>1. {} \in SUBSET Thread /\ s \in Kernel /\ Timed(s) /\ Rec(s)
  BY GoodTimed, KernelRec
<1>2. r \in Kernel
  <2>1. Good(r, {t})
    BY OutGood
  <2> QED
    BY <2>1 DEF Good, Linked
<1>3. CASE s.state[t] \in {"Running", "Ready"}
  <2>1. r = s \/ r = ThreadListRemove(s, t)
    BY <1>3 DEF Out
  <2>2. SameTimes(s, r)
    BY <1>1, <2>1, SwitchUntimed DEF Untimed, SameTimes
  <2> QED
    BY <1>1, <1>2, <2>2, SameIsLess
<1>4. CASE IsBlocked(s, t)
  <2> DEFINE s1 == ThreadListRemove(s, t)
  <2>1. r = ThreadDelayRemove(s1, t) /\ s.state[t] # "Ready"
    BY <1>4 DEF Out, IsBlocked, Waiting
  <2>2. Linked(s1, s.delayList, {}) /\ Unlisted(s, s1, t)
    <3>1. Linked(s, s.delayList, {})
      BY DEF Good
    <3>2. /\ t \in {} \/ s.state[t] # "Ready" => Linked(s1, s.delayList, {})
          /\ t \notin {} /\ s.state[t] = "Ready" => Linked(s1, s.delayList, {} \cup {t})
          /\ Unlisted(s, s1, t)
      BY <1>1, <3>1, ListRemoveGood
    <3> QED
      BY <2>1, <3>2
  <2> HIDE DEF s1
  <2>3. Good(s1, {}) /\ IsBlocked(s1, t) /\ SameTimes(s, s1)
    BY <1>4, <2>2 DEF Good, NotDue, Unlisted, IsBlocked, SameTimes
  <2>4. t \in Thread \ {} /\ s1 \in Kernel
    BY <2>3 DEF Good, Linked
  <2>5. LessTimes(s, s1)
    BY <1>1, <2>3, <2>4, SameIsLess
  <2>6. LessTimes(s1, r)
    BY <1>1, <2>1, <2>3, <2>4, RemoveTimes
  <2> QED
    BY <2>5, <2>6, LessTwice
<1> QED
  BY <1>3, <1>4

\* A thread that waits for ever is in the wait list (osRtxThreadDelayInsert).
LEMMA ForeverTimes ==
  ASSUME NEW s, Rec(s), NEW t \in Thread, t \notin ToSet(s.delayList),
         NEW r, r = ThreadDelayInsert(s, t, Forever)
  PROVE  SameTimes(s, r) /\ Rec(r)
<1>1. r = [s EXCEPT !.delay[t] = Forever, !.waitList = @ \cup {t}]
  BY DEF ThreadDelayInsert
<1>2. /\ r.delayList = s.delayList /\ r.delay = [s.delay EXCEPT ![t] = Forever]
      /\ Rec(r)
  BY <1>1 DEF Rec
<1> QED
  BY <1>2 DEF SameTimes

\* The joiner leaves the list it waits in (osRtxThreadJoinWakeup).
LEMMA JoinWakeupTimes ==
  ASSUME NEW s, NEW t \in Thread, Good(s, {t}), JoinOK(s), s.state[t] # "Inactive",
         NEW r, r = ThreadJoinWakeup(s, t)
  PROVE  LessTimes(s, r)
<1> DEFINE j == s.joiner[t]
           s1 == IF j = NoThread THEN s ELSE ThreadWaitExit(s, j)
<1>1. /\ s \in Kernel /\ Timed(s) /\ {t} \in SUBSET Thread /\ NoThread \notin Thread
      /\ j \in Thread \cup {NoThread} /\ Rec(s)
  <2>1. {t} \in SUBSET Thread
    OBVIOUS
  <2>2. s \in Kernel /\ Timed(s)
    BY <2>1, GoodTimed
  <2> QED
    BY <2>1, <2>2, JoinFields, KernelRec
<1>2. r \in Kernel
  <2>1. Good(r, {t})
    BY JoinWakeupGood
  <2> QED
    BY <2>1 DEF Good, Linked
<1>3. r = s1 \/ r = [s1 EXCEPT !.joiner[s1.target[t]] = NoThread]
  BY DEF ThreadJoinWakeup
<1>4. CASE j = NoThread
  <2>1. s1 = s
    BY <1>4
  <2> HIDE DEF s1
  <2>2. Untimed(s, r)
    <3>1. Untimed(s, [s EXCEPT !.joiner[s.target[t]] = NoThread]) /\ Untimed(s, s)
      BY <1>1, FieldsUntimed, KernelRec
    <3> QED
      BY <1>3, <2>1, <3>1
  <2>3. SameTimes(s, r)
    BY <2>2 DEF Untimed, SameTimes
  <2> QED
    BY <1>1, <1>2, <2>3, SameIsLess
<1>5. CASE j # NoThread
  <2> DEFINE d == ThreadDelayRemove(s, j)
  <2>1. j \in Thread \ {t} /\ IsBlocked(s, j)
    BY <1>1, <1>5 DEF JoinOK, IsBlocked, Waiting
  <2>2. Good(d, {t} \cup {j}) /\ LessTimes(s, d)
    <3>1. d = ThreadDelayRemove(s, j)
      OBVIOUS
    <3> HIDE DEF d, j
    <3>2. LessTimes(s, d)
      BY <1>1, <2>1, <3>1, RemoveTimes
    <3>3. Good(d, {t} \cup {j}) /\ Undelayed(s, d, j)
      BY <1>1, <2>1, <3>1, DelayRemoveGood
    <3> QED
      BY <3>2, <3>3
  <2>3. s1 = ThreadReadyPut(d, j)
    BY <1>5 DEF ThreadWaitExit
  <2> HIDE DEF d, s1, j
  <2>4. d \in Kernel /\ Timed(d) /\ Rec(d)
    <3>1. {t} \cup {j} \in SUBSET Thread
      BY <2>1
    <3> QED
      BY <2>2, <3>1, GoodTimed, KernelRec
  <2>5. Untimed(d, s1)
    BY <2>3, <2>4, SwitchUntimed
  <2>6. Untimed(s1, r)
    <3>1. Rec(s1) /\ Untimed(s1, s1)
      BY <2>5 DEF Untimed
    <3>2. Untimed(s1, [s1 EXCEPT !.joiner[s1.target[t]] = NoThread])
      BY <3>1, FieldsUntimed
    <3> QED
      BY <1>3, <3>1, <3>2
  <2>7. SameTimes(d, r)
    BY <2>5, <2>6 DEF Untimed, SameTimes
  <2>8. LessTimes(d, r)
    BY <1>2, <2>4, <2>7, SameIsLess
  <2> QED
    BY <2>2, <2>8, LessTwice
<1> QED
  BY <1>4, <1>5

\* From s to r some threads leave the delay list, and then it stays as it is.
Lessens(s, r) ==
  Rec(r) /\ \E w \in Kernel : Timed(w) /\ LessTimes(s, w) /\ SameTimes(w, r)

\* A function that leaves the delay list alone may follow.
LEMMA LessensUntimed ==
  ASSUME NEW s, NEW r, NEW w, Lessens(s, r), Untimed(r, w)
  PROVE  Lessens(s, w)
BY DEF Lessens, Untimed, SameTimes

\* A service during which nobody leaves the delay list.
LEMMA SameLessens ==
  ASSUME NEW s \in Kernel, Timed(s), NEW r, Rec(r), SameTimes(s, r)
  PROVE  Lessens(s, r)
BY DEF Lessens, LessTimes

\* A service that first takes a thread out of the delay list.
LEMMA LessLessens ==
  ASSUME NEW s, NEW w \in Kernel, Timed(w), LessTimes(s, w), NEW r, Rec(r), SameTimes(w, r)
  PROVE  Lessens(s, r)
BY DEF Lessens

\* What it comes to when the service ends with a kernel record.
LEMMA LessensIs ==
  ASSUME NEW s, NEW r \in Kernel, Lessens(s, r)
  PROVE  LessTimes(s, r)
<1>1. PICK w \in Kernel : Timed(w) /\ LessTimes(s, w) /\ SameTimes(w, r)
  BY DEF Lessens
<1> QED
  BY <1>1, SameIsLess, LessTwice

\* svcRtxThreadNew
LEMMA NewLessens ==
  ASSUME NEW s, Good(s, {}), NEW t \in Thread, s.state[t] = "Inactive",
         NEW p \in Priority, NEW j \in BOOLEAN,
         NEW r, r = ThreadDispatch(Initialized(s, t, p, j), t)
  PROVE  Lessens(s, r)
<1> DEFINE s1 == Initialized(s, t, p, j)
<1>1. SameTimes(s, s1) /\ Rec(s1)
  BY InitializedTimes
<1>2. s \in Kernel /\ Timed(s)
  <2>1. {} \in SUBSET Thread
    OBVIOUS
  <2> QED
    BY <2>1, GoodTimed
<1>3. r = ThreadDispatch(s1, t)
  OBVIOUS
<1> HIDE DEF s1
<1>4. Untimed(s1, r)
  BY <1>1, <1>3, DispatchUntimed
<1>5. Lessens(s, s1)
  BY <1>1, <1>2, SameLessens
<1> QED
  BY <1>4, <1>5, LessensUntimed

\* svcRtxKernelStart
LEMMA StartLessens ==
  ASSUME NEW s, Good(s, {}), NEW t \in Thread, s.state[t] = "Inactive",
         NEW p \in Priority, NEW j \in BOOLEAN,
         NEW r, r = [ThreadSwitchToReady(ThreadDispatch(Initialized(s, t, p, j), t))
                     EXCEPT !.kernel = "Running"]
  PROVE  Lessens(s, r)
<1> DEFINE s1 == ThreadDispatch(Initialized(s, t, p, j), t)
           s2 == ThreadSwitchToReady(s1)
<1>1. Lessens(s, s1)
  BY NewLessens
<1>2. r = [s2 EXCEPT !.kernel = "Running"]
  OBVIOUS
<1> HIDE DEF s1
<1>3. Untimed(s1, s2)
  BY <1>1, SwitchToReadyUntimed DEF Lessens
<1> HIDE DEF s2
<1>4. Untimed(s2, r)
  <2>1. Rec(s2)
    BY <1>3 DEF Untimed
  <2>2. Untimed(s2, [s2 EXCEPT !.kernel = "Running"])
    BY <2>1, FieldsUntimed
  <2> QED
    BY <1>2, <2>2
<1> QED
  BY <1>1, <1>3, <1>4, LessensUntimed

\* svcRtxThreadSuspend
LEMMA SuspendLessens ==
  ASSUME NEW s, Good(s, {}), Queues(s), NEW t \in Thread,
         s.state[t] \in {"Running", "Ready"} \/ IsBlocked(s, t),
         NEW s0, s0 = Out(s, t),
         NEW s1, s1 = IF s.state[t] = "Running" THEN ThreadSwitchToReady(s0) ELSE s0,
         NEW r, r = ThreadDelayInsert(Marked(s1, t, "Blocked"), t, Forever)
  PROVE  Lessens(s, r)
<1> DEFINE s2 == Marked(s1, t, "Blocked")
<1>1. LessTimes(s, s0) /\ Good(s0, {t})
  BY OutTimes, OutGood
<1>2. s0 \in Kernel /\ Timed(s0) /\ Rec(s0) /\ Untimed(s0, s0)
  BY <1>1, GoodTimed, KernelRec
<1>3. Untimed(s0, s1)
  BY <1>2, SwitchToReadyUntimed
<1>4. Untimed(s1, s2)
  <2>1. Rec(s1)
    BY <1>3 DEF Untimed
  <2> QED
    BY <2>1, FieldsUntimed DEF Marked
<1>5. r = ThreadDelayInsert(s2, t, Forever)
  OBVIOUS
<1> HIDE DEF s2
<1>6. SameTimes(s0, s2) /\ Rec(s2)
  BY <1>3, <1>4 DEF Untimed, SameTimes
<1>7. t \notin ToSet(s2.delayList)
  BY <1>1, <1>6 DEF SameTimes, Good, Linked, Nowhere
<1>8. SameTimes(s2, r) /\ Rec(r)
  BY <1>5, <1>6, <1>7, ForeverTimes
<1>9. SameTimes(s0, r)
  BY <1>6, <1>8 DEF SameTimes
<1> QED
  BY <1>1, <1>2, <1>8, <1>9, LessLessens

\* svcRtxThreadResume
LEMMA ResumeLessens ==
  ASSUME NEW s, Good(s, {}), Queues(s), NEW t \in Thread, IsBlocked(s, t),
         NEW r, r = ThreadDispatch(Out(s, t), t)
  PROVE  Lessens(s, r)
<1> DEFINE s0 == Out(s, t)
<1>1. LessTimes(s, s0) /\ Good(s0, {t})
  BY OutTimes, OutGood
<1>2. r = ThreadDispatch(s0, t)
  OBVIOUS
<1> HIDE DEF s0
<1>3. s0 \in Kernel /\ Timed(s0) /\ Rec(s0)
  BY <1>1, GoodTimed, KernelRec
<1>4. SameTimes(s0, r) /\ Rec(r)
  BY <1>2, <1>3, DispatchUntimed DEF Untimed, SameTimes
<1> QED
  BY <1>1, <1>3, <1>4, LessLessens

\* svcRtxThreadJoin with a target that has not ended.
LEMMA JoinLessens ==
  ASSUME NEW s, Good(s, {}), s.run \in Thread, s.state[s.run] = "Running", NEW t \in Thread,
         NEW r, r = [ThreadWaitEnter(s, "WaitingJoin", Forever)
                     EXCEPT !.target[s.run] = t, !.joiner[t] = s.run, !.joinable[t] = FALSE]
  PROVE  Lessens(s, r)
<1> DEFINE c  == s.run
           s1 == [s EXCEPT !.state[c] = "WaitingJoin"]
           s2 == ThreadDelayInsert(s1, c, Forever)
           s3 == ThreadSwitchToReady(s2)
<1>1. {} \in SUBSET Thread /\ s \in Kernel /\ Timed(s) /\ Rec(s)
  BY GoodTimed, KernelRec
<1>2. Untimed(s, s1)
  BY <1>1, FieldsUntimed
<1>3. c \notin ToSet(s.delayList)
  <2>1. ~IsBlocked(s, c)
    BY DEF IsBlocked, Waiting
  <2> QED
    BY <1>1, <2>1, DelayedBlocked
<1>4. r = [s3 EXCEPT !.target[c] = t, !.joiner[t] = c, !.joinable[t] = FALSE]
  BY DEF ThreadWaitEnter
<1>5. s2 = ThreadDelayInsert(s1, c, Forever) /\ s3 = ThreadSwitchToReady(s2)
  OBVIOUS
<1> HIDE DEF s1, s2, s3
<1>6. SameTimes(s1, s2) /\ Rec(s2)
  <2>1. Rec(s1) /\ c \notin ToSet(s1.delayList) /\ c \in Thread
    BY <1>2, <1>3 DEF Untimed
  <2> HIDE DEF c
  <2> QED
    BY <1>5, <2>1, ForeverTimes
<1>7. Untimed(s2, s3)
  BY <1>5, <1>6, SwitchToReadyUntimed
<1>8. Untimed(s3, r)
  BY <1>4, <1>7 DEF Untimed, Rec
<1>9. SameTimes(s, r) /\ Rec(r)
  BY <1>2, <1>6, <1>7, <1>8 DEF Untimed, SameTimes
<1> QED
  BY <1>1, <1>9, SameLessens

\* svcRtxThreadExit and svcRtxThreadTerminate
LEMMA EndLessens ==
  ASSUME NEW s, Settled(s), NEW t \in Thread, s.owned[t] = << >>,
         s.state[t] \in {"Running", "Ready"} \/ IsBlocked(s, t),
         NEW r, r = Ended(Out(s, t), t)
  PROVE  Lessens(s, r)
<1> DEFINE s0 == Out(s, t)
           s1 == ThreadJoinWakeup(s0, t)
           sw == ThreadSwitchToReady(s1)
           s2 == IF s0.state[t] = "Running" THEN [sw EXCEPT !.run = NoThread]
                 ELSE ThreadDispatchReady(s1)
<1>1. LessTimes(s, s0) /\ Good(s0, {t}) /\ OutOnly(s, s0, t)
  BY OutTimes, OutGood DEF Settled
<1>2. JoinOK(s0) /\ s0.owned[t] = << >> /\ s0.state[t] # "Inactive"
  BY <1>1 DEF Settled, JoinOK, OutOnly, Blocks, IsBlocked, Waiting
<1>3. r = ThreadDestroy(s2, t)
  <2>1. r = Ended(s0, t)
    OBVIOUS
  <2> HIDE DEF s0
  <2>2. MutexOwnerRelease(s0, t) = s0
    BY <1>2, NothingToRelease
  <2> QED
    BY <2>1, <2>2 DEF Ended
<1> HIDE DEF s0
<1>4. LessTimes(s0, s1) /\ Good(s1, {t})
  BY <1>1, <1>2, JoinWakeupTimes, JoinWakeupGood
<1> HIDE DEF s1
<1>5. s1 \in Kernel /\ Timed(s1) /\ Rec(s1)
  BY <1>4, GoodTimed, KernelRec
<1>6. Untimed(s1, s2)
  <2>1. Untimed(s1, sw)
    BY <1>5, SwitchToReadyUntimed
  <2>2. Rec(sw)
    BY <2>1 DEF Untimed
  <2> HIDE DEF sw
  <2>3. Untimed(sw, [sw EXCEPT !.run = NoThread])
    BY <2>2, FieldsUntimed
  <2>4. Untimed(s1, [sw EXCEPT !.run = NoThread])
    BY <2>1, <2>3, UntimedTwice
  <2>5. Untimed(s1, ThreadDispatchReady(s1))
    BY <1>5, DispatchUntimed
  <2> QED
    BY <2>4, <2>5
<1> HIDE DEF s2
<1>7. Untimed(s2, r)
  <2>1. Rec(s2)
    BY <1>6 DEF Untimed
  <2>2. PICK x : x = IF s2.joinable[t] THEN "Terminated" ELSE "Inactive"
    OBVIOUS
  <2>3. Untimed(s2, [s2 EXCEPT !.state[t] = x])
    BY <2>1, FieldsUntimed
  <2> QED
    BY <1>3, <2>2, <2>3 DEF ThreadDestroy
<1>8. SameTimes(s1, r) /\ Rec(r)
  BY <1>6, <1>7 DEF Untimed, SameTimes
<1>9. LessTimes(s, s1)
  BY <1>1, <1>4, LessTwice
<1> QED
  BY <1>5, <1>8, <1>9, LessLessens

-----------------------------------------------------------------------------
(* The ticks. *)

\* The times that a record has are those of another with the same delay list.
LEMMA PassedSame ==
  ASSUME NEW s, NEW w \in Kernel, Timed(w), NEW n \in Nat, TicksPassed(s, w, n),
         NEW r \in Kernel, SameTimes(w, r)
  PROVE  TicksPassed(s, r, n)
<1>1. SameDue(w, r)
  BY SameTimesDue
<1> QED
  BY <1>1 DEF SameDue, TicksPassed

\* The same for a thread that has joined the list.
LEMMA MoreSame ==
  ASSUME NEW s, NEW w \in Kernel, Timed(w), NEW t, NEW d, MoreTimes(s, w, t, d),
         NEW r \in Kernel, SameTimes(w, r)
  PROVE  MoreTimes(s, r, t, d)
<1>1. SameDue(w, r)
  BY SameTimesDue
<1> QED
  BY <1>1 DEF SameDue, MoreTimes

\* osRtxThreadDelayTick
LEMMA TickTimes ==
  ASSUME NEW s, Good(s, {}), Listed(s), NEW r, r = ThreadDelayTick(s)
  PROVE  TicksPassed(s, r, 1)
<1>1. /\ Good(r, {})
      /\ s.delayList = << >> => r = s
      /\ s.delayList # << >> => Advanced(s, r, 1)
  BY DelayTickGood
<1>2. s \in Kernel /\ Timed(s) /\ r \in Kernel /\ Timed(r)
  <2>1. {} \in SUBSET Thread
    OBVIOUS
  <2> QED
    BY <1>1, <2>1, GoodTimed
<1>3. CASE s.delayList = << >>
  <2>1. ToSet(s.delayList) = {} /\ r = s
    BY <1>1, <1>3 DEF ToSet
  <2> QED
    BY <2>1 DEF TicksPassed
<1>4. CASE s.delayList # << >>
  <2>1. Advanced(s, r, 1) /\ 1 \in Nat
    BY <1>1, <1>4
  <2> QED
    BY <1>2, <1>4, <2>1, AdvanceTimes
<1> QED
  BY <1>3, <1>4

\* The ticks that svcRtxKernelResume processes one by one.
LEMMA TicksTimes ==
  ASSUME NEW s, Good(s, {}), Listed(s), NEW n \in Nat, NEW f, TickedFrom(s, n, f)
  PROVE  TicksPassed(s, f[n], n)
<1> DEFINE OK(i) == Good(f[i], {}) /\ Listed(f[i]) /\ TicksPassed(s, f[i], i)
           Bad == {m \in 0..n : ~OK(m)}
<1>1. SUFFICES ASSUME Bad # {} PROVE FALSE
  OBVIOUS
<1>2. PICK m : m = Min(Bad)
  OBVIOUS
<1>3. m \in 0..n /\ ~OK(m) /\ \A y \in Bad : m <= y
  <2>1. Bad \in SUBSET Nat
    OBVIOUS
  <2>2. m \in Bad /\ \A y \in Bad : m <= y
    BY <1>1, <1>2, <2>1, MinIs
  <2> QED
    BY <2>2
<1>4. f[0] = s /\ OK(0)
  <2>1. f[0] = s
    BY DEF TickedFrom
  <2>2. TicksPassed(s, s, 0)
    BY NoTicks
  <2> QED
    BY <2>1, <2>2
<1>5. m # 0 /\ m - 1 \in 0..n /\ OK(m - 1)
  BY <1>3, <1>4
<1>6. f[m] = ThreadDelayTick(f[m-1])
  BY <1>3, <1>5 DEF TickedFrom
<1>7. Listed(f[m-1]) /\ Good(f[m-1], {})
  BY <1>5
<1>8. Good(f[m], {}) /\ Listed(f[m])
  BY <1>6, <1>7, DelayTickGood
<1>10. TicksPassed(f[m-1], f[m], 1)
  BY <1>6, <1>7, TickTimes
<1>11. TicksPassed(s, f[m], (m - 1) + 1)
  <2>1. s \in Kernel /\ Timed(s) /\ m - 1 \in Nat /\ 1 \in Nat /\ TicksPassed(s, f[m-1], m - 1)
    <3>1. {} \in SUBSET Thread
      OBVIOUS
    <3> QED
      BY <1>3, <1>5, <3>1, GoodTimed
  <2> QED
    BY <1>10, <2>1, TicksAdd
<1>12. (m - 1) + 1 = m
  BY <1>3
<1>13. TicksPassed(s, f[m], m)
  BY <1>11, <1>12
<1> QED
  BY <1>3, <1>8, <1>13

\* The ticks that svcRtxKernelResume takes off the head at once.
LEMMA NearerTimes ==
  ASSUME NEW s, Good(s, {}), s.delayList # << >>,
         NEW n \in Nat, n < s.delay[Head(s.delayList)],
         NEW r, r = Nearer(s, n)
  PROVE  TicksPassed(s, r, n)
<1> DEFINE h == Head(s.delayList)
           len == Len(s.delayList)
<1>1. Good(r, {}) /\ {} \in SUBSET Thread
  BY NearerGood
<1>2. s \in Kernel /\ Timed(s) /\ r \in Kernel /\ Timed(r)
  BY <1>1, GoodTimed
<1>3. /\ s.delayList \in Seq(Thread) /\ len \in Nat /\ len >= 1 /\ h = s.delayList[1]
      /\ s.delay \in [Thread -> Nat \cup {Forever}] /\ h \in Thread /\ s.delay[h] \in Nat
  BY <1>2, Fields DEF Timed
<1>4. r.delay = [s.delay EXCEPT ![h] = s.delay[h] - n] /\ r.delayList = s.delayList
  BY <1>2 DEF Nearer, Kernel
<1>5. r.delayList = SubSeq(s.delayList, 0 + 1, len)
  BY <1>3, <1>4
<1>6. r.delay[s.delayList[0+1]] # 0
  <2>1. r.delay[h] = s.delay[h] - n
    BY <1>3, <1>4
  <2> QED
    BY <1>3, <2>1
<1>7. Advanced(s, r, n)
  <2> HIDE DEF h
  <2>1. 0 \in 0..len /\ \A j \in 1..0 : r.delay[s.delayList[j]] = 0
    BY <1>3
  <2> QED
    BY <1>4, <1>5, <1>6, <2>1 DEF Advanced, h
<1> QED
  BY <1>2, <1>7, AdvanceTimes

\* From s to r n ticks pass, and then the delay list stays as it is.
Elapses(s, r, n) ==
  Rec(r) /\ \E w \in Kernel : Timed(w) /\ TicksPassed(s, w, n) /\ SameTimes(w, r)

\* From s to r t joins the delay list for d ticks, and then it stays as it is.
Joins(s, r, t, d) ==
  Rec(r) /\ \E w \in Kernel : Timed(w) /\ MoreTimes(s, w, t, d) /\ SameTimes(w, r)

\* osRtxTick_Handler
LEMMA TickElapses ==
  ASSUME NEW s, Settled(s), s.next = s.run, s.kernel # "Ready",
         NEW r, r = RoundRobin(ThreadDispatchReady(ThreadDelayTick(s)))
  PROVE  Elapses(s, r, 1)
<1> DEFINE s1 == ThreadDelayTick(s)
           s2 == ThreadDispatchReady(s1)
<1>1. Good(s, {}) /\ Listed(s) /\ s.run = s.next /\ {} \in SUBSET Thread
  BY Running, SettledListed DEF Settled
<1>2. Good(s1, {}) /\ Listed(s1) /\ TickedOnly(s, s1)
  BY <1>1, DelayTickGood
<1>3. TicksPassed(s, s1, 1)
  BY <1>1, TickTimes
<1>4. s2 = ThreadDispatchReady(s1) /\ r = RoundRobin(s2)
  OBVIOUS
<1> HIDE DEF s1, s2
<1>5. s1 \in Kernel /\ Timed(s1) /\ Rec(s1)
  BY <1>1, <1>2, GoodTimed, KernelRec
<1>6. Settled(s1) /\ Runs(s1) /\ s1.run = s1.next
  BY <1>1, <1>2, TickedSettled
<1>7. Linked(s2, s1.delayList, {}) /\ Rescheduled(s1, s2, {})
  <2>1. s1.next \notin {} /\ Linked(s1, s1.delayList, {})
    BY <1>2 DEF Good
  <2> QED
    BY ONLY <1>1, <1>4, <1>6, <2>1, DispatchReadyGood
<1>8. Good(s2, {}) /\ Runs(s2)
  BY <1>2, <1>7 DEF Good, NotDue, Rescheduled
<1>9. SameTimes(s2, r)
  BY <1>4, <1>8, RoundRobinTimes
<1>10. Untimed(s1, s2)
  BY <1>4, <1>5, DispatchUntimed
<1>11. SameTimes(s1, r)
  BY <1>9, <1>10 DEF Untimed, SameTimes
<1>12. Rec(r)
  <2>1. Good(r, {})
    BY <1>4, <1>8, RoundRobinGood
  <2> QED
    BY <1>1, <2>1, GoodTimed, KernelRec
<1> QED
  BY <1>3, <1>5, <1>11, <1>12 DEF Elapses

\* svcRtxKernelResume, from the state s1 that m ticks at once have led to.
LEMMA ResumeElapses ==
  ASSUME NEW s, Good(s, {}), NEW m \in Nat,
         NEW s1, Good(s1, {}), Listed(s1), TicksPassed(s, s1, m), NEW n \in Nat,
         NEW f, TickedFrom(s1, n, f),
         NEW r, r = ThreadDispatchReady([f[n] EXCEPT !.kernel = "Running"])
  PROVE  Elapses(s, r, m + n)
<1> DEFINE s2 == f[n]
           s3 == [s2 EXCEPT !.kernel = "Running"]
<1>1. {} \in SUBSET Thread
  OBVIOUS
<1>2. Good(s2, {}) /\ TicksPassed(s1, s2, n)
  BY <1>1, TicksGood, TicksTimes
<1>3. r = ThreadDispatchReady(s3)
  OBVIOUS
<1> HIDE DEF s2
<1>4. s \in Kernel /\ Timed(s) /\ s2 \in Kernel /\ Timed(s2) /\ Rec(s2)
  BY <1>1, <1>2, GoodTimed, KernelRec
<1>5. TicksPassed(s, s2, m + n)
  BY <1>2, <1>4, TicksAdd
<1>6. Untimed(s2, s3)
  BY <1>4, FieldsUntimed
<1> HIDE DEF s3
<1>7. Untimed(s3, r)
  BY <1>3, <1>6, DispatchUntimed DEF Untimed
<1>8. SameTimes(s2, r) /\ Rec(r)
  BY <1>6, <1>7 DEF Untimed, SameTimes
<1> QED
  BY <1>4, <1>5, <1>8 DEF Elapses

\* svcRtxDelay and svcRtxDelayUntil: the running thread joins the delay list.
LEMMA WaitJoins ==
  ASSUME NEW s, Good(s, {}), s.run \in Thread, s.state[s.run] = "Running",
         NEW d \in Nat \ {0},
         NEW r, r = ThreadWaitEnter(s, "WaitingDelay", d)
  PROVE  Joins(s, r, s.run, d)
<1> DEFINE c  == s.run
           x  == "WaitingDelay"
           s1 == Marked(s, c, x)
           s2 == ThreadDelayInsert(s1, c, d)
<1>1. r = ThreadSwitchToReady(s2) /\ s2 = ThreadDelayInsert(s1, c, d)
  BY DEF ThreadWaitEnter, Marked
<1>2. /\ {} \in SUBSET Thread /\ {c} \in SUBSET Thread /\ c \in {c} /\ {c} \ {c} = {}
      /\ x \in ThreadState /\ c \in Thread \ {} /\ {} \cup {c} = {c}
  <2>1. x \in ThreadState
    BY DEF ThreadState, Waiting
  <2> HIDE DEF c, x
  <2>2. c \in Thread
    BY DEF c
  <2> QED
    BY <2>1, <2>2
<1>3. Linked(s, s.delayList, {c})
  <2>1. Linked(s, s.delayList, {} \cup {c})
    BY <1>2, Leaves DEF Good
  <2> QED
    BY <1>2, <2>1
<1>4. /\ Linked(s1, s.delayList, {c})
      /\ s1.state = [s.state EXCEPT ![c] = x]
      /\ s1.delay = s.delay /\ s1.delayList = s.delayList
  BY <1>2, <1>3, Restated DEF MarkedOnly
<1>5. s \in Kernel /\ Timed(s) /\ s.state \in [Thread -> ThreadState]
  BY <1>2, GoodTimed, Fields
<1> HIDE DEF s1, s2, x
<1>6. Good(s1, {c}) /\ IsBlocked(s1, c)
  BY <1>2, <1>4, <1>5 DEF Good, NotDue, IsBlocked, Waiting, x
<1>7. MoreTimes(s1, s2, c, d)
  BY <1>1, <1>2, <1>6, InsertTimes
<1>8. Good(s2, {c} \ {c})
  <2>1. d \in (Nat \ {0}) \cup {Forever}
    OBVIOUS
  <2>2. Good(s2, {c} \ {c}) /\ Delaying(s1, s2, c)
    BY <1>1, <1>2, <1>6, <2>1, DelayInsertGood
  <2> QED
    BY <2>2
<1>9. s1 \in Kernel /\ s2 \in Kernel /\ Timed(s2) /\ Rec(s2)
  <2>1. Good(s2, {})
    BY <1>2, <1>8
  <2> QED
    BY <1>2, <1>6, <2>1, GoodTimed, KernelRec
<1>10. SameDue(s, s1)
  <2>1. SameTimes(s, s1)
    BY <1>4 DEF SameTimes
  <2> QED
    BY <1>5, <1>9, <2>1, SameTimesDue
<1>11. MoreTimes(s, s2, c, d)
  BY <1>7, <1>10 DEF SameDue, MoreTimes
<1>12. Untimed(s2, r)
  BY <1>1, <1>9, SwitchToReadyUntimed
<1>13. SameTimes(s2, r) /\ Rec(r)
  BY <1>12 DEF Untimed, SameTimes
<1> QED
  BY <1>9, <1>11, <1>13 DEF Joins

-----------------------------------------------------------------------------
(* The handlers. *)

\* A service that does not touch the delay list.
LEMMA UntimedLessens ==
  ASSUME NEW s \in Kernel, Timed(s), NEW r, Untimed(s, r)
  PROVE  Lessens(s, r)
<1>1. Rec(r) /\ SameTimes(s, r)
  BY DEF Untimed, SameTimes
<1> QED
  BY <1>1, SameLessens

\* The return from a handler leaves the delay list alone.
LEMMA ReturnLess ==
  ASSUME NEW s, Lessens(k, s), Return(s), k' \in Kernel
  PROVE  LessTimes(k, k')
<1>1. k' = ContextSwitch(s) /\ Rec(s)
  BY DEF Return, Lessens
<1>2. Untimed(s, k')
  BY <1>1, SwitchUntimed
<1>3. Lessens(k, k')
  BY <1>2, LessensUntimed
<1> QED
  BY <1>3, LessensIs

\* The same after a thread has joined the list.
LEMMA ReturnJoins ==
  ASSUME NEW s, NEW t, NEW d, Joins(k, s, t, d), Return(s), k' \in Kernel
  PROVE  MoreTimes(k, k', t, d)
<1>1. k' = ContextSwitch(s) /\ Rec(s)
  BY DEF Return, Joins
<1>2. Untimed(s, k')
  BY <1>1, SwitchUntimed
<1>3. PICK w \in Kernel : Timed(w) /\ MoreTimes(k, w, t, d) /\ SameTimes(w, s)
  BY DEF Joins
<1>4. SameTimes(w, k')
  BY <1>2, <1>3, UntimedSame
<1> QED
  BY <1>3, <1>4, MoreSame

\* The same after ticks.
LEMMA ReturnElapses ==
  ASSUME NEW s, NEW n \in Nat, Elapses(k, s, n), k' = ContextSwitch(s), k' \in Kernel
  PROVE  TicksPassed(k, k', n)
<1>1. Rec(s)
  BY DEF Elapses
<1>2. Untimed(s, k')
  BY <1>1, SwitchUntimed
<1>3. PICK w \in Kernel : Timed(w) /\ TicksPassed(k, w, n) /\ SameTimes(w, s)
  BY DEF Elapses
<1>4. SameTimes(w, k')
  BY <1>2, <1>3, UntimedSame
<1> QED
  BY <1>3, <1>4, PassedSame

\* What the invariant says of the record that a handler starts from.
LEMMA InvTimed ==
  ASSUME Inv
  PROVE  /\ Settled(k) /\ k.next = k.run /\ Good(k, {}) /\ k \in Kernel /\ Timed(k)
         /\ Rec(k) /\ tick \in 0..TickMod-1 /\ TickMod \in Nat \ {0}
         /\ k.run \in Thread => k.state[k.run] = "Running"
<1>1. Settled(k) /\ Good(k, {}) /\ k.next = k.run /\ {} \in SUBSET Thread
  BY DEF Inv, Settled
<1>2. k \in Kernel /\ Timed(k)
  BY <1>1, GoodTimed
<1>3. Rec(k)
  BY <1>2, KernelRec
<1>4. k.run \in Thread => k.state[k.run] = "Running"
  BY <1>1, Running
<1> QED
  BY <1>1, <1>2, <1>3, <1>4, ThreadAssumption DEF Inv

\* A service that a thread calls for another moves nobody in the delay list.
LEMMA ServiceOnLess ==
  ASSUME Inv, Unowned(k), k' \in Kernel, NEW t \in Thread, ServiceOn(t)
  PROVE  LessTimes(k, k')
<1>1. /\ Settled(k) /\ Good(k, {}) /\ k \in Kernel /\ Timed(k) /\ Rec(k)
      /\ k.run \in Thread => k.state[k.run] = "Running"
  BY InvTimed
<1>2. ASSUME NEW p \in Priority, NEW j \in BOOLEAN, ThreadNew(t, p, j)
      PROVE  LessTimes(k, k')
  <2> DEFINE s == ThreadDispatch(Initialized(k, t, p, j), t)
  <2>1. k.state[t] = "Inactive" /\ Return(s)
    BY <1>2 DEF ThreadNew, Exists
  <2>2. Lessens(k, s)
    BY <1>1, <2>1, NewLessens
  <2> HIDE DEF s
  <2> QED
    BY <2>1, <2>2, ReturnLess
<1>3. ASSUME NEW p \in Priority, ThreadSetPriority(t, p)
      PROVE  LessTimes(k, k')
  <2> DEFINE s1 == Reprioritized(k, t, p)
             s == ThreadDispatchReady(s1)
  <2>1. Return(s)
    BY <1>3 DEF ThreadSetPriority, Reprioritized
  <2>2. Untimed(k, s1)
    BY <1>1, FieldsUntimed
  <2> HIDE DEF s1
  <2>3. Untimed(s1, s)
    BY <2>2, DispatchUntimed DEF Untimed
  <2> HIDE DEF s
  <2>4. Lessens(k, s)
    BY <1>1, <2>2, <2>3, UntimedTwice, UntimedLessens
  <2> QED
    BY <2>1, <2>4, ReturnLess
<1>4. ASSUME ThreadSuspend(t)
      PROVE  LessTimes(k, k')
  <2> DEFINE s0 == Out(k, t)
             s1 == IF k.state[t] = "Running" THEN ThreadSwitchToReady(s0) ELSE s0
             s == ThreadDelayInsert(Marked(s1, t, "Blocked"), t, Forever)
  <2>1. k.state[t] \in {"Running", "Ready"} \/ IsBlocked(k, t)
    BY <1>4 DEF ThreadSuspend, CanLeave
  <2>2. Return(s)
    <3>1. s1 = IF k.state[t] = "Running" THEN ThreadSwitchToReady(k) ELSE Unlinked(t)
      BY OutIs DEF Out
    <3> QED
      BY <1>4, <3>1 DEF ThreadSuspend, Marked
  <2>3. Lessens(k, s)
    BY <1>1, <2>1, SuspendLessens DEF Settled
  <2> HIDE DEF s
  <2> QED
    BY <2>2, <2>3, ReturnLess
<1>5. ASSUME ThreadResume(t)
      PROVE  LessTimes(k, k')
  <2> DEFINE s0 == Out(k, t)
             s == ThreadDispatch(s0, t)
  <2>1. IsBlocked(k, t)
    BY <1>5 DEF ThreadResume
  <2>2. Return(s)
    <3>1. s0 = ThreadDelayRemove(ThreadListRemove(k, t), t)
      BY <2>1 DEF Out, IsBlocked, Waiting
    <3> QED
      BY <1>5, <3>1 DEF ThreadResume
  <2>3. Lessens(k, s)
    BY <1>1, <2>1, ResumeLessens DEF Settled
  <2> HIDE DEF s
  <2> QED
    BY <2>2, <2>3, ReturnLess
<1>6. ASSUME Return([k EXCEPT !.state[t] = "Inactive"])
      PROVE  LessTimes(k, k')
  <2> DEFINE s == [k EXCEPT !.state[t] = "Inactive"]
  <2>1. Untimed(k, s)
    BY <1>1, FieldsUntimed
  <2>2. Return(s)
    BY <1>6
  <2> HIDE DEF s
  <2> QED
    BY <1>1, <2>1, <2>2, UntimedLessens, ReturnLess
<1>7. ASSUME ThreadDetach(t)
      PROVE  LessTimes(k, k')
  <2>1. CASE k.state[t] = "Terminated"
    BY <1>6, <1>7, <2>1 DEF ThreadDetach
  <2>2. CASE k.state[t] # "Terminated"
    <3> DEFINE s == [k EXCEPT !.joinable[t] = FALSE]
    <3>1. Return(s)
      BY <1>7, <2>2 DEF ThreadDetach
    <3>2. Untimed(k, s)
      BY <1>1, FieldsUntimed
    <3> HIDE DEF s
    <3> QED
      BY <1>1, <3>1, <3>2, UntimedLessens, ReturnLess
  <2> QED
    BY <2>1, <2>2
<1>8. ASSUME ThreadJoin(t)
      PROVE  LessTimes(k, k')
  <2>1. CASE k.state[t] = "Terminated"
    BY <1>6, <1>8, <2>1 DEF ThreadJoin
  <2>2. CASE k.state[t] # "Terminated"
    <3> DEFINE s1 == ThreadWaitEnter(k, "WaitingJoin", Forever)
               s == [s1 EXCEPT !.target[k.run] = t, !.joiner[t] = k.run,
                               !.joinable[t] = FALSE]
    <3>1. k.run \in Thread /\ Return(s)
      BY <1>8, <2>2 DEF ThreadJoin, Call
    <3>2. Lessens(k, s)
      BY <1>1, <3>1, JoinLessens
    <3> HIDE DEF s
    <3> QED
      BY <3>1, <3>2, ReturnLess
  <2> QED
    BY <2>1, <2>2
<1>9. ASSUME ThreadTerminate(t)
      PROVE  LessTimes(k, k')
  <2> DEFINE s0 == Out(k, t)
             s == Ended(s0, t)
  <2>1. Return(s) /\ (k.state[t] \in {"Running", "Ready"} \/ IsBlocked(k, t))
    BY <1>9, OutIs DEF ThreadTerminate, CanLeave
  <2>2. Lessens(k, s)
    BY <1>1, <2>1, EndLessens DEF Unowned
  <2> HIDE DEF s
  <2> QED
    BY <2>1, <2>2, ReturnLess
<1> QED
  BY <1>2, <1>3, <1>4, <1>5, <1>7, <1>8, <1>9 DEF ServiceOn

\* A thread that delays itself joins the delay list for the ticks it asks for.
LEMMA WaitMore ==
  ASSUME Inv, k' \in Kernel, k.run \in Thread, NEW d \in Nat \ {0},
         Return(ThreadWaitEnter(k, "WaitingDelay", d))
  PROVE  MoreTimes(k, k', k.run, d) /\ k.run \notin ToSet(k.delayList)
<1>1. Good(k, {}) /\ k.state[k.run] = "Running"
  BY InvTimed
<1> DEFINE s == ThreadWaitEnter(k, "WaitingDelay", d)
<1>2. Joins(k, s, k.run, d) /\ Return(s)
  BY <1>1, WaitJoins
<1> HIDE DEF s
<1>3. MoreTimes(k, k', k.run, d)
  BY <1>2, ReturnJoins
<1>4. k.run \notin ToSet(k.delayList)
  <2>1. {} \in SUBSET Thread /\ ~IsBlocked(k, k.run)
    BY <1>1 DEF IsBlocked, Waiting
  <2> QED
    BY <1>1, <2>1, DelayedBlocked
<1> QED
  BY <1>3, <1>4

\* svcRtxDelay
LEMMA DelayMore ==
  ASSUME Inv, k' \in Kernel, NEW d \in Delays, Delay(d)
  PROVE  /\ MoreTimes(k, k', k.run, d) /\ k.run \notin ToSet(k.delayList)
         /\ d \in Nat /\ tick' = tick
<1>1. d \in Nat \ {0} /\ k.run \in Thread
      /\ Return(ThreadWaitEnter(k, "WaitingDelay", d))
  BY ThreadAssumption DEF Delay, Call
<1>2. tick' = tick
  BY DEF Delay, Return
<1> QED
  BY <1>1, <1>2, WaitMore

\* svcRtxDelayUntil
LEMMA DelayUntilMore ==
  ASSUME Inv, k' \in Kernel, NEW time \in 0..TickMod-1, DelayUntil(time)
  PROVE  /\ MoreTimes(k, k', k.run, (time - tick) % TickMod)
         /\ k.run \notin ToSet(k.delayList)
         /\ (time - tick) % TickMod \in Nat /\ tick' = tick
<1> DEFINE d == (time - tick) % TickMod
<1>1. d \in Nat
  <2>1. tick \in 0..TickMod-1 /\ TickMod \in Nat \ {0}
    BY InvTimed
  <2>2. time - tick \in Int
    BY <2>1
  <2> QED
    BY <2>1, <2>2
<1>2. /\ d # 0 /\ k.run \in Thread /\ tick' = tick
      /\ Return(ThreadWaitEnter(k, "WaitingDelay", d))
  BY DEF DelayUntil, Call, Return
<1>3. d \in Nat \ {0} /\ d \in Nat
  BY <1>1, <1>2
<1> HIDE DEF d
<1>4. MoreTimes(k, k', k.run, d) /\ k.run \notin ToSet(k.delayList)
  BY <1>2, <1>3, WaitMore
<1> QED
  BY <1>2, <1>3, <1>4 DEF d

\* What a service may do to the delay list.
Undisturbed ==
  /\ tick' = tick
  /\ \/ LessTimes(k, k')
     \/ \E d \in Nat : MoreTimes(k, k', k.run, d) /\ k.run \notin ToSet(k.delayList)

\* Every service leaves those in the delay list where they are.
LEMMA ServicesUndisturbed ==
  ASSUME Inv, Unowned(k), k' \in Kernel, tick' = tick, ThreadServices
  PROVE  Undisturbed
<1>1. /\ k \in Kernel /\ Timed(k) /\ Rec(k) /\ Settled(k)
      /\ k.run \in Thread => k.state[k.run] = "Running"
  BY InvTimed
<1>2. ASSUME NEW s, Untimed(k, s), Return(s) PROVE LessTimes(k, k')
  BY <1>1, <1>2, UntimedLessens, ReturnLess
<1>3. ASSUME ThreadYield PROVE LessTimes(k, k')
  <2> DEFINE s1 == ThreadReadyPut(Popped(k), k.run)
             s == ThreadSwitch(s1, Head(k.ready))
  <2>1. Return(s)
    BY <1>3 DEF ThreadYield, Popped
  <2>2. Untimed(k, Popped(k))
    BY <1>1, SwitchUntimed
  <2>3. Untimed(Popped(k), s1)
    BY <2>2, SwitchUntimed DEF Untimed
  <2> HIDE DEF s1
  <2>4. Untimed(s1, s)
    BY <2>3, SwitchUntimed DEF Untimed
  <2> HIDE DEF s
  <2>5. Untimed(k, s)
    BY <2>2, <2>3, <2>4, UntimedTwice
  <2> QED
    BY <1>2, <2>1, <2>5
<1>4. ASSUME ThreadExit PROVE LessTimes(k, k')
  <2> DEFINE s0 == Out(k, k.run)
             s == Ended(s0, k.run)
  <2>1. k.run \in Thread /\ Return(Ended(k, k.run))
    BY <1>4 DEF ThreadExit, Call
  <2>2. k.state[k.run] = "Running"
    BY <1>1, <2>1
  <2>3. s0 = k
    BY <2>2 DEF Out
  <2>4. Lessens(k, s)
    BY <1>1, <2>1, <2>2, EndLessens DEF Unowned
  <2>5. Return(s)
    BY <2>1, <2>3
  <2> HIDE DEF s
  <2> QED
    BY <2>4, <2>5, ReturnLess
<1>5. ASSUME NEW m, Return([k EXCEPT !.kernel = m]) PROVE LessTimes(k, k')
  <2> DEFINE s == [k EXCEPT !.kernel = m]
  <2>1. Untimed(k, s) /\ Return(s)
    BY <1>1, <1>5, FieldsUntimed
  <2> HIDE DEF s
  <2> QED
    BY <1>2, <2>1
<1>6. ASSUME KernelLock \/ KernelUnlock \/ KernelSuspend
             \/ \E lock \in {0, 1} : KernelRestoreLock(lock)
      PROVE  LessTimes(k, k')
  BY <1>5, <1>6 DEF KernelLock, KernelUnlock, KernelSuspend, KernelRestoreLock
<1>7. ASSUME NEW d \in Delays, Delay(d) PROVE Undisturbed
  BY <1>7, DelayMore DEF Undisturbed
<1>8. ASSUME NEW time \in 0..TickMod-1, DelayUntil(time) PROVE Undisturbed
  BY <1>8, DelayUntilMore DEF Undisturbed
<1>9. ASSUME NEW t \in Thread, ServiceOn(t) PROVE LessTimes(k, k')
  BY <1>9, ServiceOnLess
<1> QED
  BY <1>3, <1>4, <1>6, <1>7, <1>8, <1>9 DEF ThreadServices, Undisturbed

\* osRtxTick_Handler
LEMMA TickTicks ==
  ASSUME Inv, k' \in Kernel, Tick
  PROVE  TicksPassed(k, k', 1) /\ tick' = (tick + 1) % TickMod
<1> DEFINE s == RoundRobin(ThreadDispatchReady(ThreadDelayTick(k)))
<1>1. Settled(k) /\ k.next = k.run
  BY InvTimed
<1>2. k.kernel # "Ready" /\ k' = ContextSwitch(s) /\ tick' = (tick + 1) % TickMod
  BY DEF Tick
<1>3. Elapses(k, s, 1)
  BY <1>1, <1>2, TickElapses
<1> HIDE DEF s
<1>4. TicksPassed(k, k', 1)
  BY <1>2, <1>3, ReturnElapses
<1> QED
  BY <1>2, <1>4

\* svcRtxKernelResume
LEMMA ResumeTicks ==
  ASSUME Inv, k' \in Kernel, NEW sleep \in Sleeps, KernelResume(sleep)
  PROVE  TicksPassed(k, k', sleep) /\ tick' = (tick + sleep) % TickMod
<1> DEFINE first == k.delay[Head(k.delayList)]
           skip == IF k.delayList = << >> \/ sleep < first THEN sleep ELSE first - 1
           k0 == IF k.delayList = << >> THEN k ELSE Nearer(k, skip)
           n == sleep - skip
           f == CHOOSE g : TickedFrom(k0, n, g)
           s == ThreadDispatchReady([f[n] EXCEPT !.kernel = "Running"])
<1>1. /\ Good(k, {}) /\ Listed(k) /\ k \in Kernel /\ Timed(k) /\ {} \in SUBSET Thread
      /\ sleep \in Nat /\ tick' = (tick + sleep) % TickMod
  BY InvTimed, SettledListed, ThreadAssumption DEF KernelResume
<1>2. k' = ContextSwitch(s)
  BY DEF KernelResume, TickedFrom, Nearer
<1>3. /\ Good(k0, {}) /\ Listed(k0) /\ n \in Nat /\ skip \in Nat
      /\ TicksPassed(k, k0, skip)
  <2>1. CASE k.delayList = << >>
    <3>1. ToSet(k.delayList) = {} /\ k0 = k /\ skip = sleep /\ n = 0
      BY <1>1, <2>1 DEF ToSet
    <3> HIDE DEF k0, skip, n
    <3>2. TicksPassed(k, k0, skip)
      BY <3>1 DEF TicksPassed
    <3> QED
      BY <1>1, <3>1, <3>2
  <2>2. CASE k.delayList # << >>
    <3>1. first \in Nat /\ first >= 1
      <4>1. k.delay[Head(k.delayList)] \in Nat
        BY <1>1, <2>2 DEF Timed
      <4> QED
        BY <1>1, <2>2, <4>1 DEF Good, NotDue
    <3>2. skip \in Nat /\ skip < first /\ n \in Nat
      <4> HIDE DEF first
      <4>1. CASE sleep < first
        BY <1>1, <2>2, <3>1, <4>1
      <4>2. CASE ~(sleep < first)
        BY <1>1, <2>2, <3>1, <4>2
      <4> QED
        BY <4>1, <4>2
    <3>3. k0 = Nearer(k, skip)
      BY <2>2
    <3> HIDE DEF skip, k0, n
    <3>4. TicksPassed(k, k0, skip)
      BY <1>1, <2>2, <3>2, <3>3, NearerTimes
    <3>5. Good(k0, {}) /\ TickedOnly(k, k0) /\ Queues(k0)
      BY <1>1, <2>2, <3>2, <3>3, NearerGood DEF Listed
    <3>6. Listed(k0)
      BY <1>1, <3>5, TickedListed DEF Good, Linked
    <3> QED
      BY <3>2, <3>4, <3>5, <3>6
  <2> QED
    BY <2>1, <2>2
<1>4. skip + n = sleep
  <2> HIDE DEF first
  <2>1. skip \in Nat /\ n = sleep - skip
    BY <1>3
  <2> HIDE DEF skip, n
  <2> QED
    BY <1>1, <2>1
<1> HIDE DEF k0, n, skip
<1>5. TickedFrom(k0, n, f)
  <2>1. \E g : TickedFrom(k0, n, g)
    BY <1>3, TickedExists
  <2> QED
    BY <2>1
<1>6. s = ThreadDispatchReady([f[n] EXCEPT !.kernel = "Running"])
  OBVIOUS
<1> HIDE DEF f, s
<1>7. Elapses(k, s, skip + n)
  BY <1>1, <1>3, <1>5, <1>6, ResumeElapses
<1>8. Elapses(k, s, sleep)
  BY <1>4, <1>7
<1>9. TicksPassed(k, k', sleep)
  BY <1>1, <1>2, <1>8, ReturnElapses
<1> QED
  BY <1>1, <1>9

-----------------------------------------------------------------------------
(* The tick count. *)

\* Within a range of m the remainder adds or takes off one m at most.
LEMMA RemainderIs ==
  ASSUME NEW m \in Nat \ {0}
  PROVE  /\ \A x \in 0..m-1 : x % m = x
         /\ \A x \in m..(2*m)-1 : x % m = x - m
         /\ \A x \in (0-m)..(0-1) : x % m = x + m
<1>1. ASSUME NEW x \in 0..m-1 PROVE x % m = x
  OBVIOUS
<1>2. ASSUME NEW x \in m..(2*m)-1 PROVE x % m = x - m
  OBVIOUS
<1>3. ASSUME NEW x \in (0-m)..(0-1) PROVE x % m = x + m
  OBVIOUS
<1> QED
  BY <1>1, <1>2, <1>3

\* The difference of two tick counts is the number of ticks between them.
LEMMA TicksBetween ==
  ASSUME NEW m \in Nat \ {0}, NEW x \in 0..m-1, NEW n \in 0..m-1
  PROVE  (((x + n) % m) - x) % m = n
<1>1. CASE x + n < m
  <2>1. (x + n) % m = x + n
    <3>1. x + n \in 0..m-1
      BY <1>1
    <3> QED
      BY <3>1, RemainderIs
  <2>2. (x + n) - x = n /\ n % m = n
    BY RemainderIs
  <2> QED
    BY <2>1, <2>2
<1>2. CASE ~(x + n < m)
  <2>1. (x + n) % m = (x + n) - m
    <3>1. x + n \in m..(2*m)-1
      BY <1>2
    <3> QED
      BY <3>1, RemainderIs
  <2>2. ((x + n) - m) - x = n - m /\ n - m \in (0-m)..(0-1)
    OBVIOUS
  <2>3. (n - m) % m = (n - m) + m
    BY <2>2, RemainderIs
  <2>4. (n - m) + m = n
    OBVIOUS
  <2> QED
    BY <2>1, <2>2, <2>3, <2>4
<1> QED
  BY <1>1, <1>2

\* The ticks that svcRtxDelayUntil computes lead to the time asked for.
LEMMA TicksReach ==
  ASSUME NEW m \in Nat \ {0}, NEW x \in 0..m-1, NEW y \in 0..m-1
  PROVE  (x + ((y - x) % m)) % m = y
<1>1. CASE x <= y
  <2>1. (y - x) % m = y - x
    <3>1. y - x \in 0..m-1
      BY <1>1
    <3> QED
      BY <3>1, RemainderIs
  <2>2. x + (y - x) = y /\ y % m = y
    BY RemainderIs
  <2> QED
    BY <2>1, <2>2
<1>2. CASE ~(x <= y)
  <2>1. (y - x) % m = (y - x) + m
    <3>1. y - x \in (0-m)..(0-1)
      BY <1>2
    <3> QED
      BY <3>1, RemainderIs
  <2>2. x + ((y - x) + m) = y + m /\ y + m \in m..(2*m)-1
    OBVIOUS
  <2>3. (y + m) % m = (y + m) - m
    BY <2>2, RemainderIs
  <2>4. (y + m) - m = y
    OBVIOUS
  <2> QED
    BY <2>1, <2>2, <2>3, <2>4
<1> QED
  BY <1>1, <1>2

-----------------------------------------------------------------------------
(* The theorem. *)

\* kernel.tick and the sleep time of osKernelResume are 32 bits wide: a sleep
\* cannot pass more ticks than the count can tell.
TicksCounted == TickMod > 1 /\ Sleeps \subseteq 0..TickMod-1

\* Times that run with the tick count are right whatever the step is.
LEMMA RunningWith ==
  ASSUME NEW n \in Nat, (tick' - tick) % TickMod = n,
         \A t \in Thread :
           /\ t \in ToSet(k.delayList) /\ t \in ToSet(k'.delayList)
                => DueIn(k', t) = DueIn(k, t) - n
           /\ t \in ToSet(k.delayList) /\ n # 0
                => (t \in ToSet(k'.delayList) <=> DueIn(k, t) > n)
  PROVE  DelayRunning
<1>1. \A t \in Thread : Due(t) = DueIn(k, t) /\ Due(t)' = DueIn(k', t)
  BY DEF Due
<1>2. \A t \in Thread : /\ Delayed(t) <=> t \in ToSet(k.delayList)
                        /\ Delayed(t)' <=> t \in ToSet(k'.delayList)
  BY DEF Delayed
<1> QED
  BY <1>1, <1>2 DEF DelayRunning

\* The members of the list have a time left.
LEMMA DueNat ==
  ASSUME Inv
  PROVE  \A t \in ToSet(k.delayList) : DueIn(k, t) \in Nat
BY InvTimed, DueIs

\* A service takes no ticks.
LEMMA UndisturbedRuns ==
  ASSUME Inv, Undisturbed
  PROVE  DelayRunning
<1>1. tick \in 0..TickMod-1 /\ TickMod \in Nat \ {0} /\ tick' = tick
  BY InvTimed DEF Undisturbed
<1>2. (tick' - tick) % TickMod = 0
  <2>1. tick' - tick = 0
    BY <1>1
  <2>2. 0 \in 0..TickMod-1
    BY <1>1
  <2> QED
    BY <1>1, <2>1, <2>2, RemainderIs
<1>3. ASSUME NEW t \in Thread, t \in ToSet(k.delayList), t \in ToSet(k'.delayList)
      PROVE  DueIn(k', t) = DueIn(k, t) - 0
  <2>1. DueIn(k', t) = DueIn(k, t)
    BY <1>3 DEF Undisturbed, LessTimes, MoreTimes
  <2> QED
    BY <1>3, <2>1, DueNat
<1> QED
  BY <1>2, <1>3, RunningWith

\* n ticks take n ticks.
LEMMA PassedRuns ==
  ASSUME Inv, NEW n \in 0..TickMod-1, TicksPassed(k, k', n),
         tick' = (tick + n) % TickMod
  PROVE  DelayRunning
<1>1. (tick' - tick) % TickMod = n
  BY InvTimed, TicksBetween
<1> QED
  BY <1>1, RunningWith DEF TicksPassed

\* Every step moves the timeouts as the tick count moves.
LEMMA StepRunning ==
  ASSUME Inv, Unowned(k), Inv', JoinersLeftAlone, TicksCounted, [Next]_vars
  PROVE  DelayRunning
<1>1. k' \in Kernel /\ TickMod \in Nat \ {0} /\ k \in Kernel
  BY InvTimed, ThreadAssumption DEF Inv, Settled, Good, Linked
<1>2. CASE UNCHANGED vars
  <2>1. k' = k /\ tick' = tick
    BY <1>2 DEF vars
  <2> QED
    BY <2>1, UndisturbedRuns DEF Undisturbed, LessTimes
<1>3. CASE ThreadServices
  BY <1>1, <1>3, ServicesKept, ServicesUndisturbed, UndisturbedRuns
<1>4. CASE KernelStart
  <2> DEFINE s == [ThreadSwitchToReady(ThreadDispatch(
                     Initialized(k, Idle, IdlePriority, FALSE), Idle))
                   EXCEPT !.kernel = "Running"]
  <2>1. k.state[Idle] = "Inactive" /\ Return(s) /\ tick' = tick
    BY <1>4, StartKept, InvTimed DEF KernelStart, Settled, Started
  <2>2. Idle \in Thread /\ IdlePriority \in Priority /\ FALSE \in BOOLEAN /\ Good(k, {})
    BY ThreadAssumption, InvTimed
  <2>3. Lessens(k, s)
    BY <2>1, <2>2, StartLessens
  <2> HIDE DEF s
  <2>4. LessTimes(k, k')
    BY <1>1, <2>1, <2>3, ReturnLess
  <2> QED
    BY <2>1, <2>4, UndisturbedRuns DEF Undisturbed
<1>5. ASSUME NEW sleep \in Sleeps, KernelResume(sleep) PROVE DelayRunning
  <2>1. sleep \in 0..TickMod-1
    BY DEF TicksCounted
  <2> QED
    BY <1>1, <1>5, <2>1, ResumeTicks, PassedRuns
<1>6. CASE Tick
  <2>1. 1 \in 0..TickMod-1
    BY <1>1 DEF TicksCounted
  <2> QED
    BY <1>1, <1>6, <2>1, TickTicks, PassedRuns
<1> QED
  BY <1>2, <1>3, <1>4, <1>5, <1>6 DEF Next

\* A thread that starts to wait has the time left that it asked for.
LEMMA StepStarting ==
  ASSUME Inv, Inv'
  PROVE  DelayStarting
<1>1. k' \in Kernel /\ TickMod \in Nat \ {0} /\ tick \in 0..TickMod-1
  BY InvTimed, ThreadAssumption DEF Inv, Settled, Good, Linked
<1>2. \A c \in Thread : Due(c)' = DueIn(k', c)
  BY DEF Due
<1>3. ASSUME NEW d \in Delays, Delay(d) PROVE DueIn(k', k.run) = d
  BY <1>1, <1>3, DelayMore DEF MoreTimes
<1>4. ASSUME NEW time \in 0..TickMod-1, DelayUntil(time)
      PROVE  (tick + DueIn(k', k.run)) % TickMod = time
  <2>1. DueIn(k', k.run) = (time - tick) % TickMod
    BY <1>1, <1>4, DelayUntilMore DEF MoreTimes
  <2> QED
    BY <1>1, <2>1, TicksReach
<1> QED
  BY <1>2, <1>3, <1>4 DEF DelayStarting

\* osDelay and osDelayUntil make a thread wait for exactly the ticks asked for,
\* whoever joins or leaves the delay list before it (osRtxThreadDelayInsert, -Remove
\* and -Tick), through sleeps (svcRtxKernelResume) and however the tick count wraps.
THEOREM DelaysCorrect == JoinersLeftAlone /\ TicksCounted => (Spec => DelaysRight)
<1> SUFFICES ASSUME JoinersLeftAlone, TicksCounted PROVE Spec => DelaysRight
  OBVIOUS
<1>1. Inv /\ Unowned(k) /\ Inv' /\ [Next]_vars => [DelayStarting /\ DelayRunning]_vars
  BY StepStarting, StepRunning
<1>2. Spec => [](Inv /\ Unowned(k))
  BY Invariant
<1> QED
  BY <1>1, <1>2, PTL DEF Spec, DelaysRight

=============================================================================

------------------------------ MODULE RtxKernel ------------------------------
(***************************************************************************)
(* The library layer of the RTX5 kernel: the functions of rtx_thread.c and *)
(* rtx_mutex.c that every service, the tick handler and the PendSV handler *)
(* are built from.                                                         *)
(*                                                                         *)
(* These functions call one another within one exception handler, so each  *)
(* of them is an operator from kernel records to kernel records, and a     *)
(* handler is their composition.  A kernel record k stands for osRtxInfo   *)
(* and all control blocks:                                                 *)
(*                                                                         *)
(*   state, priority, base, joinable, joiner, target, delay, owned         *)
(*             the fields of the thread control blocks: joiner is          *)
(*             thread_join, target is the thread_next of a thread that     *)
(*             waits to join, owned is the mutex_list                      *)
(*   mutex, owner, lock                                                    *)
(*             the mutex control blocks in use and their fields            *)
(*   ready     the ready list; list[o] the threads waiting for object o    *)
(*   delayList the delta list of timed waits; waitList the untimed ones    *)
(*   run, next osRtxInfo.thread.run.curr and .next                         *)
(*   robin     osRtxInfo.thread.robin.thread                               *)
(*   kernel    osRtxInfo.kernel.state                                      *)
(*                                                                         *)
(* A doubly linked list is the sequence of its members.  The wait list is  *)
(* a set: no code looks at its order.                                      *)
(***************************************************************************)
EXTENDS Integers, Sequences, SequencesExt

CONSTANTS Thread,        \* the thread control blocks
          NoThread,      \* the NULL thread pointer
          Object,        \* the objects a thread can wait for in a thread_list
          Mutex,         \* those of them that are mutexes
          PrioInherit,   \* the mutexes with osMutexPrioInherit
          Robust,        \* the mutexes with osMutexRobust
          Priority,      \* the priorities in use
          Forever,       \* osWaitForever
          RobinTimeout   \* osRtxInfo.thread.robin.timeout

ASSUME KernelAssumption ==
  /\ NoThread \notin Thread
  /\ Mutex \subseteq Object
  /\ PrioInherit \subseteq Mutex
  /\ Robust \subseteq Mutex
  /\ Priority \subseteq Nat
  /\ Forever \notin Nat
  /\ RobinTimeout \in Nat

-----------------------------------------------------------------------------
(* The states of a thread (rtx_os.h).  All waiting states share the low    *)
(* nibble osRtxThreadBlocked, which is what the services switch on.        *)

Waiting == {"WaitingDelay", "WaitingJoin", "WaitingThreadFlags",
            "WaitingEventFlags", "WaitingMutex", "WaitingSemaphore",
            "WaitingMemoryPool", "WaitingMessageGet", "WaitingMessagePut"}

IsBlocked(k, t) == k.state[t] \in Waiting \cup {"Blocked"}

ThreadState == {"Inactive", "Ready", "Running", "Terminated", "Blocked"}
                 \cup Waiting

KernelState == {"Ready", "Running", "Locked", "Suspended"}

Kernel ==
  [state     : [Thread -> ThreadState],
   priority  : [Thread -> Priority],
   base      : [Thread -> Priority],
   joinable  : [Thread -> BOOLEAN],
   joiner    : [Thread -> Thread \cup {NoThread}],
   target    : [Thread -> Thread \cup {NoThread}],
   delay     : [Thread -> Nat \cup {Forever}],
   owned     : [Thread -> Seq(Mutex)],
   mutex     : SUBSET Mutex,
   owner     : [Mutex -> Thread \cup {NoThread}],
   lock      : [Mutex -> Nat],
   ready     : Seq(Thread),
   list      : [Object -> Seq(Thread)],
   delayList : Seq(Thread),
   waitList  : SUBSET Thread,
   run       : Thread \cup {NoThread},
   next      : Thread \cup {NoThread},
   robin     : Thread \cup {NoThread},
   kernel    : KernelState]

-----------------------------------------------------------------------------
(* Priority-ordered lists. *)

\* A well-formed list holds nothing twice.
NoDuplicates(q) == \A i, j \in 1..Len(q) : q[i] = q[j] => i = j

\* Sequence q with t before its first member whose priority is below p.
InsertBelow(q, prio, p, t) ==
  LET i == SelectInSeq(q, LAMBDA u : prio[u] < p)
  IN  InsertAt(q, IF i = 0 THEN Len(q) + 1 ELSE i, t)

\* osRtxThreadListPut: behind every member of equal or higher priority.
ThreadListPut(k, q, t) == InsertBelow(q, k.priority, k.priority[t], t)

\* osRtxThreadBlock's insertion: ahead of the members of equal priority.
ThreadListPutFirst(k, q, t) == InsertBelow(q, k.priority, k.priority[t] + 1, t)

\* osRtxThreadListRemove: out of the object list the thread is linked in, if
\* it is in one.
ThreadListRemove(k, t) ==
  [k EXCEPT !.ready = RemoveFirst(@, t),
            !.list  = [o \in Object |-> RemoveFirst(@[o], t)]]

\* [mutant] the list is not sorted again
ThreadListSortNot(k, t) == k

\* osRtxThreadListSort: back to the right place after a priority change.
ThreadListSort(k, t) ==
  LET Resort(q) == IF Contains(q, t)
                   THEN ThreadListPut(k, RemoveFirst(q, t), t)
                   ELSE q
  IN  [k EXCEPT !.ready = Resort(@),
                !.list  = [o \in Object |-> Resort(@[o])]]

\* osRtxThreadReadyPut
ThreadReadyPut(k, t) ==
  [k EXCEPT !.state[t] = "Ready",
            !.ready    = ThreadListPut(k, @, t)]

-----------------------------------------------------------------------------
(* The delay list: each member's delay counts from the expiry of the       *)
(* member before it.                                                       *)

\* The ticks until each member of the delay list expires (0 |-> 0).
Expiry(k) ==
  LET e[i \in 0..Len(k.delayList)] ==
        IF i = 0 THEN 0 ELSE e[i-1] + k.delay[k.delayList[i]]
  IN  e

\* [mutant] the delay counts from now, not from the predecessor's expiry
ThreadDelayInsertAbsolute(k, t, d) ==
  IF d = Forever
  THEN [k EXCEPT !.delay[t] = Forever,
                 !.waitList = @ \cup {t}]
  ELSE LET q     == k.delayList
           later == {i \in 1..Len(q) : Expiry(k)[i] > d}
           pos   == IF later = {} THEN Len(q) + 1 ELSE Min(later)
       IN  [k EXCEPT !.delayList = InsertAt(q, pos, t), !.delay[t] = d]

\* osRtxThreadDelayInsert: a timed wait goes behind those that expire no
\* later, and the delay of its successor shrinks by its own.
ThreadDelayInsert(k, t, d) ==
  IF d = Forever
  THEN [k EXCEPT !.delay[t] = Forever,
                 !.waitList = @ \cup {t}]
  ELSE LET q     == k.delayList
           e     == Expiry(k)
           later == {i \in 1..Len(q) : e[i] > d}
           pos   == IF later = {} THEN Len(q) + 1 ELSE Min(later)
           own   == d - e[pos-1]
       IN  [k EXCEPT !.delayList = InsertAt(q, pos, t),
                     !.delay = [u \in Thread |->
                                  IF u = t THEN own
                                  ELSE IF later # {} /\ u = q[pos]
                                  THEN k.delay[u] - own
                                  ELSE k.delay[u]]]

\* [mutant] the successor does not take over the delay
ThreadDelayRemoveAlone(k, t) ==
  IF k.delay[t] = Forever
  THEN [k EXCEPT !.delay[t] = 0,
                 !.waitList = @ \ {t}]
  ELSE [k EXCEPT !.delay[t] = 0,
                 !.delayList = RemoveFirst(@, t)]

\* [mutant] the delay field keeps its value
ThreadDelayRemoveKept(k, t) ==
  IF k.delay[t] = Forever
  THEN [k EXCEPT !.waitList = @ \ {t}]
  ELSE [k EXCEPT !.delayList = RemoveFirst(@, t)]

\* osRtxThreadDelayRemove: the successor takes over the delay of t.
ThreadDelayRemove(k, t) ==
  IF k.delay[t] = Forever
  THEN [k EXCEPT !.delay[t] = 0,
                 !.waitList = @ \ {t}]
  ELSE LET q == k.delayList
           After(u) == \E i \in 1..Len(q)-1 : q[i] = t /\ q[i+1] = u
       IN  [k EXCEPT !.delayList = RemoveFirst(q, t),
                     !.delay = [u \in Thread |->
                                  IF u = t THEN 0
                                  ELSE IF After(u)
                                  THEN k.delay[u] + k.delay[t]
                                  ELSE k.delay[u]]]

-----------------------------------------------------------------------------
(* Switching threads. *)

\* osRtxThreadBlock: the running thread is preempted.
ThreadBlock(k, t) ==
  [k EXCEPT !.state[t] = "Ready",
            !.ready    = ThreadListPutFirst(k, @, t)]

\* [mutant] the state of the new running thread is not set
ThreadSwitchUnmarked(k, t) == [k EXCEPT !.next = t]

\* osRtxThreadSwitch
ThreadSwitch(k, t) ==
  [k EXCEPT !.state[t] = "Running",
            !.next     = t]

\* osRtxThreadSwitch(osRtxThreadListGet(&osRtxInfo.thread.ready))
ThreadSwitchToReady(k) ==
  ThreadSwitch([k EXCEPT !.ready = Tail(@)], Head(k.ready))

\* Whether a thread of priority p preempts the running one.
Preempts(k, p) == k.kernel = "Running" /\ p > k.priority[k.run]

\* osRtxThreadDispatch(NULL)
ThreadDispatchReady(k) ==
  IF k.ready # << >> /\ Preempts(k, k.priority[Head(k.ready)])
  THEN ThreadSwitch(ThreadBlock([k EXCEPT !.ready = Tail(@)], k.run),
                    Head(k.ready))
  ELSE k

\* osRtxThreadDispatch(thread)
ThreadDispatch(k, t) ==
  IF Preempts(k, k.priority[t])
  THEN ThreadSwitch(ThreadBlock(k, k.run), t)
  ELSE ThreadReadyPut(k, t)

\* The return from an exception (SVC_Context, irq_armv7m.S): the thread in
\* run.next is the one that executes.
ContextSwitch(k) == [k EXCEPT !.run = k.next]

-----------------------------------------------------------------------------
(* Waiting. *)

\* osRtxThreadWaitExit with dispatch FALSE.
ThreadWaitExit(k, t) == ThreadReadyPut(ThreadDelayRemove(k, t), t)

\* osRtxThreadWaitEnter returns TRUE ...
CanWait(k) == k.kernel = "Running" /\ k.ready # << >>

\* ... and blocks the running thread.
ThreadWaitEnter(k, s, timeout) ==
  ThreadSwitchToReady(
    ThreadDelayInsert([k EXCEPT !.state[k.run] = s], k.run, timeout))

-----------------------------------------------------------------------------
(* The mutex functions that the thread functions call. *)

\* [mutant] the waiters of the mutexes t keeps are forgotten
InheritedPriorityOwn(k, t, w) == k.base[t]

\* The priority t is due: its own, or that of the first waiter of a
\* priority-inheriting mutex it owns, leaving out the thread w.
InheritedPriority(k, t, w) ==
  LET queues == {RemoveFirst(k.list[m], w) :
                   m \in ToSet(k.owned[t]) \cap PrioInherit} \ {<< >>}
  IN  Max({k.base[t]} \cup {k.priority[Head(q)] : q \in queues})

\* osRtxMutexOwnerRestore: w stops waiting for m.
MutexOwnerRestore(k, m, w) ==
  LET t == k.owner[m]
      p == InheritedPriority(k, t, w)
  IN  IF m \in PrioInherit /\ k.priority[t] # p
      THEN ThreadListSort([k EXCEPT !.priority[t] = p], t)
      ELSE k

\* t becomes the owner of m.
MutexTake(k, m, t) ==
  [k EXCEPT !.owner[m] = t,
            !.lock[m]  = 1,
            !.owned[t] = << m >> \o @]

\* The first waiter of m is woken up as its new owner.
MutexHandOver(k, m) ==
  LET w == Head(k.list[m])
  IN  MutexTake(ThreadWaitExit([k EXCEPT !.list[m] = Tail(@)], w), m, w)

\* [mutant] only the first mutex of the list is looked at
MutexOwnerReleaseFirst(k, t) ==
  IF k.owned[t] = << >> THEN k
  ELSE LET m == Head(k.owned[t])
       IN  IF m \notin Robust THEN k
           ELSE IF k.list[m] = << >> THEN [k EXCEPT !.lock[m] = 0]
           ELSE MutexHandOver(k, m)

\* osRtxMutexOwnerRelease: the robust mutexes of a dying thread are freed.
MutexOwnerRelease(k, t) ==
  LET Free(s, m) ==
        IF m \notin Robust THEN s
        ELSE IF s.list[m] = << >> THEN [s EXCEPT !.lock[m] = 0]
        ELSE MutexHandOver([s EXCEPT !.lock[m] = 0], m)
      done[i \in 0..Len(k.owned[t])] ==
        IF i = 0 THEN k ELSE Free(done[i-1], k.owned[t][i])
  IN  done[Len(k.owned[t])]

-----------------------------------------------------------------------------
(* The end of a thread. *)

\* [mutant] a thread that was joining leaves its target pointing at it
ThreadJoinWakeupOnly(k, t) ==
  IF k.joiner[t] = NoThread THEN k ELSE ThreadWaitExit(k, k.joiner[t])

\* osRtxThreadJoinWakeup: the thread that joins t is woken up, and a t that
\* was joining itself leaves no trace in its target.
ThreadJoinWakeup(k, t) ==
  LET k1 == IF k.joiner[t] = NoThread THEN k ELSE ThreadWaitExit(k, k.joiner[t])
  IN  IF k1.state[t] = "WaitingJoin"
      THEN [k1 EXCEPT !.joiner[k1.target[t]] = NoThread]
      ELSE k1

\* osRtxThreadDestroy, osRtxThreadFree
ThreadDestroy(k, t) ==
  [k EXCEPT !.state[t] = IF k.joinable[t] THEN "Terminated" ELSE "Inactive"]

-----------------------------------------------------------------------------
(* The tick. *)

\* [mutant] the owner of the mutex keeps the priority of the thread
ThreadTimeoutRaised(k, t) == ThreadReadyPut(ThreadListRemove(k, t), t)

\* One round of the loop of osRtxThreadDelayTick: the wait of t timed out.
ThreadTimeout(k, t) ==
  LET m  == CHOOSE x \in Mutex : Contains(k.list[x], t)
      k1 == IF k.state[t] = "WaitingMutex" THEN MutexOwnerRestore(k, m, t) ELSE k
  IN  ThreadReadyPut(ThreadListRemove(k1, t), t)

\* osRtxThreadDelayTick: one tick for the head of the list; then every member
\* at the front whose delay is used up is woken up, first come first served.
ThreadDelayTick(k) ==
  IF k.delayList = << >> THEN k
  ELSE LET q    == k.delayList
           k0   == [k EXCEPT !.delay[Head(q)] = @ - 1]
           left == SelectInSeq(q, LAMBDA u : k0.delay[u] # 0)
           n    == IF left = 0 THEN Len(q) ELSE left - 1
           woken[i \in 0..n] ==
             IF i = 0 THEN k0 ELSE ThreadTimeout(woken[i-1], q[i])
       IN  [woken[n] EXCEPT !.delayList = SubSeq(q, n + 1, Len(q))]

\* [mutant] an expired slice is counted down
RoundRobinUnderflow(k) ==
  LET t == k.next
  IN  IF RobinTimeout = 0 THEN k
      ELSE [k EXCEPT !.robin = t, !.delay[t] = @ - 1]

\* [mutant] the thread whose slice is over goes ahead of its peers
RoundRobinFirst(k) ==
  LET t == k.next
      h == Head(k.ready)
  IN  IF k.ready # << >> /\ k.priority[h] = k.priority[t]
      THEN [ThreadSwitch(ThreadBlock([k EXCEPT !.ready = Tail(@)], t), h)
              EXCEPT !.robin = h]
      ELSE k

\* The round-robin part of osRtxTick_Handler.  The slice of the running thread
\* is counted in its delay field, which no list uses while it runs.
RoundRobin(k) ==
  LET t  == k.next
      d0 == IF t # k.robin /\ k.delay[t] = 0 THEN RobinTimeout ELSE k.delay[t]
      d  == IF d0 = 0 THEN 0 ELSE d0 - 1
      k1 == [k EXCEPT !.robin = t, !.delay[t] = d]
      h  == Head(k.ready)
  IN  IF RobinTimeout = 0 THEN k
      ELSE IF /\ d = 0
              /\ k.kernel = "Running"
              /\ k.ready # << >>
              /\ k.priority[h] = k.priority[t]
      THEN LET k2 == ThreadReadyPut([k1 EXCEPT !.ready = Tail(@)], t)
           IN  [ThreadSwitch(k2, h) EXCEPT !.robin    = h,
                                           !.delay[h] = RobinTimeout]
      ELSE k1
=============================================================================

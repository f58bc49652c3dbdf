------------------------------- MODULE RtxMutex -------------------------------
(***************************************************************************)
(* Mutexes of RTX5 (rtx_mutex.c) among the threads of RtxThread: recursive *)
(* locks, priority inheritance, robust mutexes, timed waits, and what the  *)
(* tick, the end of a thread and a change of priority do to owners and     *)
(* waiters.                                                                *)
(*                                                                         *)
(* The fields of the mutex control blocks are part of the kernel record;   *)
(* the functions of rtx_mutex.c that the thread functions call are in      *)
(* RtxKernel.  Mutexes are the only objects here.                          *)
(***************************************************************************)
EXTENDS RtxThread

CONSTANTS Recursive,  \* the mutexes with osMutexRecursive
          LockLimit   \* osRtxMutexLockLimit

ASSUME MutexAssumption ==
  /\ Object = Mutex
  /\ Recursive \subseteq Mutex
  /\ LockLimit \in Nat \ {0}

-----------------------------------------------------------------------------

\* svcRtxMutexNew
MutexNew(m) ==
  /\ Call("MutexNew")
  /\ m \notin k.mutex
  /\ Return([k EXCEPT !.mutex    = @ \cup {m},
                      !.list[m]  = << >>,
                      !.owner[m] = NoThread,
                      !.lock[m]  = 0])

\* svcRtxMutexAcquire of a free mutex
MutexAcquire(m) ==
  /\ Call("Acquire")
  /\ m \in k.mutex /\ k.lock[m] = 0
  /\ Return(MutexTake(k, m, k.run))

\* ... of a recursive mutex that the running thread owns
MutexAcquireAgain(m) ==
  /\ Call("Acquire")
  /\ m \in k.mutex \cap Recursive
  /\ k.lock[m] \in 1..LockLimit-1 /\ k.owner[m] = k.run
  /\ Return([k EXCEPT !.lock[m] = @ + 1])

\* The owner of a priority-inheriting mutex m is raised to the priority of t.
MutexRaise(s, m, t) ==
  LET o == s.owner[m]
  IN  IF m \in PrioInherit /\ s.priority[o] < s.priority[t]
      THEN ThreadListSort([s EXCEPT !.priority[o] = s.priority[t]], o)
      ELSE s

\* ... of a locked mutex, with a timeout: the owner is raised even when the
\* running thread turns out to be unable to wait.
MutexAcquireWait(m, timeout) ==
  /\ Call("Acquire")
  /\ m \in k.mutex /\ k.lock[m] # 0
  /\ ~(m \in Recursive /\ k.owner[m] = k.run)
  /\ LET s == MutexRaise(k, m, k.run)
     IN  Return(IF CanWait(s)
                THEN LET w == ThreadWaitEnter(s, "WaitingMutex", timeout)
                     IN  [w EXCEPT !.list[m] = ThreadListPut(w, @, k.run)]
                ELSE s)

\* [mutant] the first mutex of the list is taken out
MutexDropFirst(s, m, t) == [s EXCEPT !.owned[t] = Tail(@)]

\* m leaves the list of what t owns.
MutexDrop(s, m, t) ==
  [s EXCEPT !.owned[t] = RemoveFirst(@, m)]

\* svcRtxMutexRelease of a mutex that the running thread has locked more than
\* once
MutexReleaseOnce(m) ==
  /\ Call("Release")
  /\ m \in k.mutex /\ k.owner[m] = k.run
  /\ k.lock[m] > 1
  /\ Return([k EXCEPT !.lock[m] = @ - 1])

\* [mutant] the priority is restored before the mutex has left the list
MutexReleaseEarly(m) ==
  /\ Call("Release")
  /\ m \in k.mutex /\ k.owner[m] = k.run
  /\ k.lock[m] = 1
  /\ LET s0 == [k EXCEPT !.lock[m] = 0,
                        !.priority[k.run] = InheritedPriority(k, k.run, NoThread)]
         s  == MutexDrop(s0, m, k.run)
     IN  Return(ThreadDispatchReady(
                  IF s.list[m] = << >> THEN s ELSE MutexHandOver(s, m)))

\* [mutant] any thread may release the mutex
MutexReleaseAny(m) ==
  /\ Call("Release")
  /\ m \in k.mutex /\ k.lock[m] = 1
  /\ LET s == MutexDrop([k EXCEPT !.lock[m] = 0], m, k.run)
     IN  Return(ThreadDispatchReady(
                  IF s.list[m] = << >> THEN s ELSE MutexHandOver(s, m)))

\* ... of its last lock: the owner's priority is restored, and the first waiter
\* becomes the owner
MutexRelease(m) ==
  /\ Call("Release")
  /\ m \in k.mutex /\ k.owner[m] = k.run
  /\ k.lock[m] = 1
  /\ LET s0 == MutexDrop([k EXCEPT !.lock[m] = 0], m, k.run)
         s  == [s0 EXCEPT !.priority[k.run] = InheritedPriority(s0, k.run, NoThread)]
     IN  Return(ThreadDispatchReady(
                  IF s.list[m] = << >> THEN s ELSE MutexHandOver(s, m)))

\* [mutant] the owner keeps the priority it was raised to
MutexOwnerUnlockRaised(s, m) ==
  LET s1 == MutexDrop(s, m, s.owner[m])
      q  == s1.list[m]
      woken[i \in 0..Len(q)] ==
        IF i = 0 THEN [s1 EXCEPT !.list[m] = << >>, !.lock[m] = 0]
        ELSE ThreadWaitExit(woken[i-1], q[i])
  IN  woken[Len(q)]

\* osRtxMutexOwnerUnlock of a locked mutex: all waiters are woken up.
MutexOwnerUnlock(s, m) ==
  LET o  == s.owner[m]
      s0 == MutexDrop(s, m, o)
      p  == InheritedPriority(s0, o, NoThread)
      s1 == IF s0.priority[o] = p THEN s0
            ELSE ThreadListSort([s0 EXCEPT !.priority[o] = p], o)
      q  == s1.list[m]
      woken[i \in 0..Len(q)] ==
        IF i = 0 THEN [s1 EXCEPT !.list[m] = << >>, !.lock[m] = 0]
        ELSE ThreadWaitExit(woken[i-1], q[i])
  IN  woken[Len(q)]

\* svcRtxMutexDelete
MutexDelete(m) ==
  /\ Call("MutexDelete")
  /\ m \in k.mutex
  /\ LET s == [k EXCEPT !.mutex = @ \ {m}]
     IN  Return(IF s.lock[m] = 0 THEN s
                ELSE ThreadDispatchReady(MutexOwnerUnlock(s, m)))

-----------------------------------------------------------------------------

MutexService(m) ==
  \/ MutexNew(m)
  \/ MutexAcquire(m)
  \/ MutexAcquireAgain(m)
  \/ \E timeout \in Delays \cup {Forever} : MutexAcquireWait(m, timeout)
  \/ MutexReleaseOnce(m)
  \/ MutexRelease(m)
  \/ MutexDelete(m)

MutexNext == Next \/ \E m \in Mutex : MutexService(m)

MutexSpec == Init /\ [][MutexNext]_vars

-----------------------------------------------------------------------------
(* Properties. *)

Holder(m) == IF m \in k.mutex /\ k.lock[m] # 0 THEN k.owner[m] ELSE NoThread

Alive(t) == k.state[t] \notin {"Inactive", "Terminated"}

\* A mutex and its owner agree, whoever was the last to release, die or delete:
\* the locked mutexes are exactly those in the lists of the threads, each in the
\* list of its owner, once.  Only a locked mutex has waiters, and they are the
\* threads that wait for a mutex, each for one.
MutexConsistent ==
  /\ \A t \in Thread : Alive(t) =>
       /\ NoDuplicates(k.owned[t])
       /\ ToSet(k.owned[t]) = {m \in Mutex : Holder(m) = t}
  /\ \A m \in Mutex : Holder(m) = NoThread => k.list[m] = << >>
  /\ \A t \in Thread :
       k.state[t] = "WaitingMutex"
         <=> \E m \in Mutex : t \in ToSet(k.list[m])
  /\ \A m \in Mutex : NoDuplicates(k.list[m])
  /\ \A m, n \in Mutex : m # n => ToSet(k.list[m]) \cap ToSet(k.list[n]) = {}

\* The waiters of a mutex are in priority order, also after a waiter has been
\* raised through another mutex or given another priority.
WaitersSorted ==
  \A m \in Mutex : \A i, j \in 1..Len(k.list[m]) :
    i < j => k.priority[k.list[m][i]] >= k.priority[k.list[m][j]]

\* The owner of a priority-inheriting mutex does not run below the own priority
\* of any thread that waits for it, until it lets go of the mutex.
InheritHolds ==
  \A m \in PrioInherit : \A t \in ToSet(k.list[m]) :
    k.priority[k.owner[m]] >= k.base[t]

\* The boost is exact: a thread runs at the higher of its own priority and those
\* of the threads that wait for a priority-inheriting mutex it owns, through
\* arrivals, timeouts and the release of one mutex of several.  (The boost of a
\* waiter that is itself raised is not passed on.)
BoostExact ==
  \A t \in Thread : Alive(t) =>
    LET inherited == ToSet(k.owned[t]) \cap PrioInherit
        waiters   == UNION {ToSet(k.list[m]) : m \in inherited}
    IN  (\A w \in waiters : k.owned[w] = << >>)
          => k.priority[t] = Max({k.base[t]} \cup {k.priority[w] : w \in waiters})

\* A thread is raised above its own priority only while it owns a
\* priority-inheriting mutex: no boost outlives the last of them.
BoostEnds ==
  \A t \in Thread :
    Alive(t) /\ k.priority[t] # k.base[t] => ToSet(k.owned[t]) \cap PrioInherit # {}

\* Every robust mutex of a thread that ends is freed or handed on, however many
\* it owned: no locked robust mutex has an owner that has ended.
RobustPasses ==
  \A m \in Robust : Holder(m) # NoThread => Alive(Holder(m))

\* Mutexes, their owners and their waiters agree after every handler, the
\* waiters are sorted (rtx_mutex.c), and no robust mutex has an owner that has
\* ended.
MutexesConsistent ==
  Placement /\ MutexConsistent /\ WaitersSorted /\ RobustPasses

\* Nobody but the owner gives a mutex away, unless the owner ends or the mutex is
\* deleted; and a waiter that gets it was the first of the waiters (but for an
\* owner that ends while it waits for its own mutex).
OwnershipStable ==
  [][\A m \in Mutex :
       Holder(m) # NoThread /\ Holder(m)' # Holder(m)
         => /\ \/ k.run = Holder(m)
               \/ k'.state[Holder(m)] \in {"Inactive", "Terminated"}
               \/ m \notin k'.mutex
            /\ Holder(m)' # NoThread
                 => Holder(m)' = Head(RemoveFirst(k.list[m], Holder(m)))]_vars

\* When a wait for a priority-inheriting mutex times out, osRtxMutexOwnerRestore
\* finds a mutex in the list of its owner to begin with.
OwnerListed ==
  \A m \in PrioInherit : \A t \in ToSet(k.list[m]) :
    k.delay[t] # Forever => k.owned[k.owner[m]] # << >>
=============================================================================

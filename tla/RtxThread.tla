------------------------------ MODULE RtxThread ------------------------------
(***************************************************************************)
(* Threads, delays and the scheduler of RTX5: the service calls of         *)
(* rtx_thread.c, rtx_delay.c and rtx_kernel.c and the tick handler of      *)
(* rtx_system.c.                                                           *)
(*                                                                         *)
(* Service calls, SysTick and PendSV never preempt one another (they share *)
(* the lowest exception priorities), so a handler is one step: the state   *)
(* it starts from is that of an executing thread, and ContextSwitch ends   *)
(* it.  A service that refuses its arguments changes nothing; such a call  *)
(* is a stuttering step and is not written down.                           *)
(*                                                                         *)
(* Timers, watchdogs and safety classes are left out here: their lists are *)
(* empty and every thread has the same class.                              *)
(***************************************************************************)
EXTENDS RtxKernel

CONSTANTS Idle,          \* the idle thread: created at the start, calls nothing
          IdlePriority,  \* osPriorityIdle
          Calls,         \* the services the other threads' programs call
          Delays,        \* the timeouts they pass
          Sleeps,        \* the sleep times passed to osKernelResume
          TickMod,       \* kernel.tick counts modulo this (2^32)
          JoinersLeftAlone
            \* TRUE when no program suspends or resumes a thread that joins

ASSUME ThreadAssumption ==
  /\ Idle \in Thread
  /\ IdlePriority \in Priority
  /\ Delays \subseteq Nat \ {0}
  /\ Sleeps \subseteq Nat
  /\ TickMod \in Nat \ {0}
  /\ JoinersLeftAlone \in BOOLEAN

VARIABLES k,     \* the kernel record
          tick   \* osRtxInfo.kernel.tick

vars == << k, tick >>

Init ==
  /\ k = [state     |-> [t \in Thread |-> "Inactive"],
          priority  |-> [t \in Thread |-> IdlePriority],
          base      |-> [t \in Thread |-> IdlePriority],
          joinable  |-> [t \in Thread |-> FALSE],
          joiner    |-> [t \in Thread |-> NoThread],
          target    |-> [t \in Thread |-> NoThread],
          delay     |-> [t \in Thread |-> 0],
          owned     |-> [t \in Thread |-> << >>],
          mutex     |-> {},
          owner     |-> [m \in Mutex |-> NoThread],
          lock      |-> [m \in Mutex |-> 0],
          ready     |-> << >>,
          list      |-> [o \in Object |-> << >>],
          delayList |-> << >>,
          waitList  |-> {},
          run       |-> NoThread,
          next      |-> NoThread,
          robin     |-> NoThread,
          kernel    |-> "Ready"]
  /\ tick = 0

\* The running thread calls a service.
Call(service) == service \in Calls /\ k.run \in Thread \ {Idle}

\* The control block of t holds a thread.
Exists(t) == k.state[t] # "Inactive"

\* The calling thread may suspend or resume t.
MayDisturb(t) == JoinersLeftAlone => k.state[t] # "WaitingJoin"

\* The end of a handler that leaves the kernel record s.
Return(s) == k' = ContextSwitch(s) /\ UNCHANGED tick

-----------------------------------------------------------------------------
(* rtx_thread.c *)

\* A control block that svcRtxThreadNew has filled in.
Initialized(s, t, p, j) ==
  [s EXCEPT !.priority[t] = p,
            !.base[t]     = p,
            !.joinable[t] = j,
            !.joiner[t]   = NoThread,
            !.target[t]   = NoThread,
            !.delay[t]    = 0,
            !.owned[t]    = << >>]

\* svcRtxThreadNew, called by a thread or by entry() before the kernel starts
ThreadNew(t, p, j) ==
  /\ Call("New") \/ k.kernel = "Ready"
  /\ t # Idle /\ ~Exists(t)
  /\ Return(ThreadDispatch(Initialized(k, t, p, j), t))

\* [mutant] nothing is dispatched after the change
ThreadSetPriorityOnly(t, p) ==
  /\ Call("SetPriority")
  /\ Exists(t) /\ k.state[t] # "Terminated"
  /\ k.priority[t] # p
  /\ Return(ThreadListSort([k EXCEPT !.priority[t] = p, !.base[t] = p], t))

\* svcRtxThreadSetPriority
ThreadSetPriority(t, p) ==
  /\ Call("SetPriority")
  /\ Exists(t) /\ k.state[t] # "Terminated"
  /\ k.priority[t] # p
  /\ Return(ThreadDispatchReady(
              ThreadListSort([k EXCEPT !.priority[t] = p, !.base[t] = p], t)))

\* svcRtxThreadYield
ThreadYield ==
  /\ Call("Yield")
  /\ k.kernel = "Running" /\ k.ready # << >>
  /\ k.priority[Head(k.ready)] = k.priority[k.run]
  /\ Return(ThreadSwitch(ThreadReadyPut([k EXCEPT !.ready = Tail(@)], k.run),
                         Head(k.ready)))

\* The switch of svcRtxThreadSuspend and svcRtxThreadTerminate on the state of
\* t: a running thread can go only when another can run; a ready or blocked
\* thread is taken out of its lists.
CanLeave(t) == \/ k.state[t] = "Running" /\ CanWait(k)
               \/ k.state[t] = "Ready"
               \/ IsBlocked(k, t)

\* [mutant] a blocked thread stays in the delay list or the wait list
UnlinkedListOnly(t) ==
  IF k.state[t] = "Running" THEN k ELSE ThreadListRemove(k, t)

Unlinked(t) ==
  CASE k.state[t] = "Running" -> k
    [] k.state[t] = "Ready"   -> ThreadListRemove(k, t)
    [] OTHER                  -> ThreadDelayRemove(ThreadListRemove(k, t), t)

\* svcRtxThreadSuspend
ThreadSuspend(t) ==
  /\ Call("Suspend")
  /\ CanLeave(t) /\ MayDisturb(t)
  /\ LET s == IF k.state[t] = "Running" THEN ThreadSwitchToReady(k) ELSE Unlinked(t)
     IN  Return(ThreadDelayInsert([s EXCEPT !.state[t] = "Blocked"], t, Forever))

\* svcRtxThreadResume
ThreadResume(t) ==
  /\ Call("Resume")
  /\ IsBlocked(k, t) /\ MayDisturb(t)
  /\ Return(ThreadDispatch(ThreadDelayRemove(ThreadListRemove(k, t), t), t))

\* svcRtxThreadDetach
ThreadDetach(t) ==
  /\ Call("Detach")
  /\ Exists(t) /\ k.joinable[t]
  /\ Return(IF k.state[t] = "Terminated"
            THEN [k EXCEPT !.state[t] = "Inactive"]
            ELSE [k EXCEPT !.joinable[t] = FALSE])

\* svcRtxThreadJoin
ThreadJoin(t) ==
  /\ Call("Join")
  /\ Exists(t) /\ k.joinable[t] /\ k.state[t] # "Running"
  /\ \/ /\ k.state[t] = "Terminated"
        /\ Return([k EXCEPT !.state[t] = "Inactive"])
     \/ /\ k.state[t] # "Terminated" /\ CanWait(k)
        /\ Return([ThreadWaitEnter(k, "WaitingJoin", Forever) EXCEPT
                     !.target[k.run] = t,
                     !.joiner[t]     = k.run,
                     !.joinable[t]   = FALSE])

\* [mutant] the joiner of another thread that is terminated is not dispatched
EndedSilently(s, t) ==
  LET r == ThreadJoinWakeup(MutexOwnerRelease(s, t), t)
  IN  ThreadDestroy(IF s.state[t] = "Running"
                    THEN [ThreadSwitchToReady(r) EXCEPT !.run = NoThread]
                    ELSE r, t)

\* The part of svcRtxThreadExit and svcRtxThreadTerminate that ends t: its
\* mutexes and its joiner are released, another thread is chosen, and its
\* control block is freed or kept for a join.
Ended(s, t) ==
  LET r == ThreadJoinWakeup(MutexOwnerRelease(s, t), t)
  IN  ThreadDestroy(IF s.state[t] = "Running"
                    THEN [ThreadSwitchToReady(r) EXCEPT !.run = NoThread]
                    ELSE ThreadDispatchReady(r), t)

\* svcRtxThreadExit
ThreadExit ==
  /\ Call("Exit")
  /\ CanWait(k)
  /\ Return(Ended(k, k.run))

\* svcRtxThreadTerminate
ThreadTerminate(t) ==
  /\ Call("Terminate")
  /\ CanLeave(t)
  /\ Return(Ended(Unlinked(t), t))

-----------------------------------------------------------------------------
(* rtx_delay.c *)

\* svcRtxDelay
Delay(d) ==
  /\ Call("Delay")
  /\ CanWait(k)
  /\ Return(ThreadWaitEnter(k, "WaitingDelay", d))

\* svcRtxDelayUntil: the remaining time is a difference of tick counts that
\* may have wrapped, and is refused when it is zero or above half the range.
DelayUntil(time) ==
  LET d == (time - tick) % TickMod
  IN  /\ Call("DelayUntil")
      /\ d # 0 /\ 2 * d < TickMod
      /\ CanWait(k)
      /\ Return(ThreadWaitEnter(k, "WaitingDelay", d))

-----------------------------------------------------------------------------
(* rtx_kernel.c *)

\* svcRtxKernelStart, with osRtxThreadStartup creating the idle thread; entry()
\* calls it after it has created the main thread
KernelStart ==
  /\ k.kernel = "Ready" /\ k.ready # << >>
  /\ LET s == ThreadDispatch(Initialized(k, Idle, IdlePriority, FALSE), Idle)
     IN  Return([ThreadSwitchToReady(s) EXCEPT !.kernel = "Running"])

\* svcRtxKernelLock
KernelLock ==
  /\ Call("Lock")
  /\ k.kernel = "Running"
  /\ Return([k EXCEPT !.kernel = "Locked"])

\* svcRtxKernelUnlock
KernelUnlock ==
  /\ Call("Lock")
  /\ k.kernel = "Locked"
  /\ Return([k EXCEPT !.kernel = "Running"])

\* svcRtxKernelRestoreLock
KernelRestoreLock(lock) ==
  /\ Call("RestoreLock")
  /\ k.kernel \in {"Running", "Locked"}
  /\ Return([k EXCEPT !.kernel = IF lock = 0 THEN "Running" ELSE "Locked"])

\* svcRtxKernelSuspend: the tick interrupt is disabled
KernelSuspend ==
  /\ Call("KernelSuspend")
  /\ k.kernel = "Running"
  /\ Return([k EXCEPT !.kernel = "Suspended"])

\* [mutant] the threads that are due are not dispatched
KernelResumeOnly(sleep) ==
  /\ Call("KernelSuspend")
  /\ k.kernel = "Suspended"
  /\ LET ticked[i \in 0..sleep] ==
           IF i = 0 THEN k ELSE ThreadDelayTick(ticked[i-1])
     IN  k' = [ticked[sleep] EXCEPT !.kernel = "Running"]
  /\ tick' = (tick + sleep) % TickMod

\* svcRtxKernelResume: the delay list catches up with the time slept.  The
\* ticks during which nobody is due are taken off the head at once, the others
\* are processed one by one.
KernelResume(sleep) ==
  /\ Call("KernelSuspend")
  /\ k.kernel = "Suspended"
  /\ LET first == k.delay[Head(k.delayList)]
         skip  == IF k.delayList = << >> \/ sleep < first THEN sleep ELSE first - 1
         k0    == IF k.delayList = << >> THEN k
                  ELSE [k EXCEPT !.delay[Head(k.delayList)] = @ - skip]
         ticked[i \in 0..(sleep - skip)] ==
           IF i = 0 THEN k0 ELSE ThreadDelayTick(ticked[i-1])
     IN  k' = ContextSwitch(ThreadDispatchReady(
                [ticked[sleep - skip] EXCEPT !.kernel = "Running"]))
  /\ tick' = (tick + sleep) % TickMod

-----------------------------------------------------------------------------
(* rtx_system.c *)

\* [mutant] threads that are woken up are not dispatched
TickWithoutDispatch ==
  /\ k.kernel \in {"Running", "Locked"}
  /\ k' = ContextSwitch(RoundRobin(ThreadDelayTick(k)))
  /\ tick' = (tick + 1) % TickMod

\* osRtxTick_Handler (the bound names hold its intermediate kernel records)
Tick ==
  /\ k.kernel \in {"Running", "Locked"}
  /\ \E woken \in {ThreadDelayTick(k)} :
       \E dispatched \in {ThreadDispatchReady(woken)} :
         k' = ContextSwitch(RoundRobin(dispatched))
  /\ tick' = (tick + 1) % TickMod

-----------------------------------------------------------------------------

ServiceOn(t) ==
  \/ \E p \in Priority, j \in BOOLEAN : ThreadNew(t, p, j)
  \/ \E p \in Priority : ThreadSetPriority(t, p)
  \/ ThreadSuspend(t)
  \/ ThreadResume(t)
  \/ ThreadDetach(t)
  \/ ThreadJoin(t)
  \/ ThreadTerminate(t)

ThreadServices ==
  \/ \E t \in Thread : ServiceOn(t)
  \/ ThreadYield
  \/ ThreadExit
  \/ \E d \in Delays : Delay(d)
  \/ \E time \in 0..TickMod-1 : DelayUntil(time)
  \/ KernelLock
  \/ KernelUnlock
  \/ \E lock \in {0, 1} : KernelRestoreLock(lock)
  \/ KernelSuspend

Next ==
  \/ ThreadServices
  \/ KernelStart
  \/ \E sleep \in Sleeps : KernelResume(sleep)
  \/ Tick

Spec == Init /\ [][Next]_vars

\* The SysTick timer keeps ticking; no program is obliged to call anything.
FairSpec == Spec /\ WF_vars(Tick)

-----------------------------------------------------------------------------
(* Properties. *)

\* Every field of the kernel record has its type, the tick count wraps.
TypeOK ==
  /\ k \in Kernel
  /\ tick \in 0..TickMod-1

\* Every thread is linked where its state says, and once: a ready thread in the
\* ready list, a blocked thread in the delay list or the wait list according
\* to its timeout, any other thread nowhere.
Placement ==
  /\ NoDuplicates(k.ready)
  /\ NoDuplicates(k.delayList)
  /\ \A t \in Thread :
       /\ t \in ToSet(k.ready) <=> k.state[t] = "Ready"
       /\ t \in ToSet(k.delayList) <=> IsBlocked(k, t) /\ k.delay[t] # Forever
       /\ t \in k.waitList <=> IsBlocked(k, t) /\ k.delay[t] = Forever

\* From the start of the kernel on exactly one thread runs, and between two
\* handlers run.curr and run.next name it; its control block is in use.
OneRuns ==
  /\ k.next = k.run
  /\ \A t \in Thread : k.state[t] = "Running" <=> k.run = t
  /\ k.kernel # "Ready" => k.run \in Thread

\* The ready list is in priority order, so its head is a ready thread of the
\* highest priority.
ReadySorted ==
  \A i, j \in 1..Len(k.ready) :
    i < j => k.priority[k.ready[i]] >= k.priority[k.ready[j]]

\* No ready thread has a higher priority than the running one.
HighestRuns ==
  k.ready # << >> /\ k.run # NoThread
    => k.priority[k.run] >= k.priority[Head(k.ready)]

\* While the scheduler is running, no handler leaves a thread ready that should
\* preempt the running one (unless an unlock had left one before).
PreemptionKept ==
  [][k.kernel = "Running" /\ k'.kernel = "Running" /\ HighestRuns
       => HighestRuns']_vars

\* Unlocking the scheduler does not dispatch: a thread that became ready in
\* between waits, but for the next tick (or the resume from a suspension) only.
TickDispatches ==
  [][tick' # tick /\ k'.kernel = "Running" => HighestRuns']_vars

\* Join: a live thread and the thread waiting for it point at each other, the
\* target cannot be joined again, and nobody waits for a thread that has ended.
\* A thread that has ended keeps its control block only while it can be joined.
JoinConsistent ==
  /\ \A t \in Thread :
       Exists(t) /\ k.joiner[t] # NoThread
         => /\ k.state[k.joiner[t]] = "WaitingJoin"
            /\ k.target[k.joiner[t]] = t
            /\ ~k.joinable[t]
  /\ \A t \in Thread :
       k.state[t] = "WaitingJoin"
         => /\ k.state[k.target[t]] \notin {"Inactive", "Terminated"}
            /\ k.joiner[k.target[t]] = t
  /\ \A t \in Thread : k.state[t] = "Terminated" => k.joinable[t]

\* What is left of a time slice is never more than the round-robin timeout,
\* even though the field also serves the delay list.
SliceBounded ==
  \A t \in Thread : k.state[t] \in {"Ready", "Running"}
                      => k.delay[t] \in 0..RobinTimeout

\* The lists and fields of the threads agree after every handler: each thread is
\* linked where its state says (Placement), one of them runs (OneRuns), the ready
\* list is sorted, no time slice is longer than the timeout, and every field has
\* its type.
ThreadsConsistent == TypeOK /\ Placement /\ OneRuns /\ ReadySorted /\ SliceBounded

\* No handler leaves a thread ready that should preempt the running one, and what
\* an unlock has left (osKernelUnlock does not dispatch) the next tick puts right.
Dispatched == PreemptionKept /\ TickDispatches

Delayed(t) == t \in ToSet(k.delayList)

\* The ticks left until t's timeout.
DueIn(s, t) == Expiry(s)[CHOOSE i \in 1..Len(s.delayList) : s.delayList[i] = t]

Due(t) == DueIn(k, t)

\* Every timeout is exact whatever joins or leaves the delay list before it:
\* n ticks bring it n ticks nearer, it expires when its last tick has passed
\* and not before, and no other step moves it.
DelayRunning ==
  LET n == (tick' - tick) % TickMod
  IN  \A t \in Thread :
        /\ Delayed(t) /\ Delayed(t)' => Due(t)' = Due(t) - n
        /\ Delayed(t) /\ n # 0 => (Delayed(t)' <=> Due(t) > n)

\* A thread that starts to wait is due after the ticks it asked for, wherever
\* in the delay list it goes and however the tick count has wrapped.
DelayStarting ==
  \A c \in Thread : c = k.run =>
    /\ \A d \in Delays : Delay(d) => Due(c)' = d
    /\ \A time \in 0..TickMod-1 :
         DelayUntil(time) => (tick + Due(c)') % TickMod = time

\* Timeouts start with the ticks asked for and then run exactly, whatever joins
\* or leaves the delay list (rtx_thread.c) and however the tick count has wrapped.
DelaysRight == [][DelayStarting /\ DelayRunning]_vars

\* A thread of t's priority, t itself maybe, runs.
PeerRuns(t) == k.run \in Thread /\ k.priority[k.run] = k.priority[t]

\* Round robin: a ready thread is not passed over for ever while threads of its
\* own priority keep running.
RobinFair == \A t \in Thread : []<>PeerRuns(t) => []<>(k.state[t] # "Ready")
=============================================================================

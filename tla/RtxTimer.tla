------------------------------- MODULE RtxTimer -------------------------------
(***************************************************************************)
(* The timers of RTX5 (rtx_timer.c) with the threads and the tick they     *)
(* depend on: the tick counts down a delta list of running timers and      *)
(* puts the callbacks of those that expire into a message queue, PendSV    *)
(* hands them over, and the timer thread calls them one after another.     *)
(*                                                                         *)
(* The tick puts as an interrupt, so a callback is first posted and then   *)
(* in the queue; both take a block of the queue's pool.  A block too few   *)
(* ends in osRtxErrorNotify, which never returns.                          *)
(***************************************************************************)
EXTENDS RtxIsr, FiniteSets

CONSTANTS Timer,          \* the timer control blocks
          NoTimer,        \* no callback is being called
          TimerThread,    \* the timer thread ...
          TimerPriority,  \* ... its priority, OS_TIMER_THREAD_PRIO
          TimerQueue,     \* its message queue, the only object
          QueueSize,      \* OS_TIMER_CB_QUEUE
          Loads           \* the ticks timers are started with

ASSUME TimerAssumption ==
  /\ NoTimer \notin Timer
  /\ TimerThread \in Thread \ {Idle}
  /\ TimerPriority \in Nat
  /\ Object = {TimerQueue} /\ Mutex = {}
  /\ QueueSize \in Nat \ {0} /\ QueueSize <= PostLimit
  /\ Loads \subseteq Nat \ {0}

VARIABLES tm,       \* the timers: the fields state, periodic, load and tick of
                    \* the control blocks, and list, the delta list
          queue,    \* the callbacks in the message queue
          calling,  \* the callback the timer thread is calling
          failed    \* the system has stopped in osRtxErrorNotify

timerVars == << tm, queue, calling, failed >>
allVars   == << k, tick, posted, svc, timerVars >>

TimerInit ==
  /\ Init /\ IsrInit
  /\ tm = [state    |-> [t \in Timer |-> "Inactive"],
           periodic |-> [t \in Timer |-> FALSE],
           load     |-> [t \in Timer |-> 0],
           tick     |-> [t \in Timer |-> 0],
           list     |-> << >>]
  /\ queue = << >>
  /\ calling = NoTimer
  /\ failed = FALSE

-----------------------------------------------------------------------------
(* The delta list. *)

\* The ticks until the members of the list expire.
DueTicks(m) ==
  LET due[i \in 0..Len(m.list)] ==
        IF i = 0 THEN 0 ELSE due[i-1] + m.tick[m.list[i]]
  IN  [i \in 1..Len(m.list) |-> due[i]]

\* [mutant] the timer behind the new one keeps its distance
TimerInsertOnly(m, t, ticks) ==
  LET due   == DueTicks(m)
      ahead == {i \in 1..Len(m.list) : due[i] <= ticks}
      n     == Cardinality(ahead)
      rest  == ticks - (IF n = 0 THEN 0 ELSE due[n])
  IN  [m EXCEPT !.list = InsertAt(@, n + 1, t), !.tick[t] = rest]

\* TimerInsert, behind the timers that expire at the same time
TimerInsert(m, t, ticks) ==
  LET due    == DueTicks(m)
      ahead  == {i \in 1..Len(m.list) : due[i] <= ticks}
      n      == Cardinality(ahead)
      rest   == ticks - (IF n = 0 THEN 0 ELSE due[n])
      behind == IF n < Len(m.list) THEN {m.list[n + 1]} ELSE {}
  IN  [m EXCEPT !.list = InsertAt(@, n + 1, t),
                !.tick = [u \in Timer |-> IF u = t THEN rest
                                          ELSE IF u \in behind THEN @[u] - rest
                                          ELSE @[u]]]

\* TimerRemove
TimerRemove(m, t) ==
  LET i      == CHOOSE j \in 1..Len(m.list) : m.list[j] = t
      behind == IF i < Len(m.list) THEN {m.list[i + 1]} ELSE {}
  IN  [m EXCEPT !.list = RemoveAt(@, i),
                !.tick = [u \in Timer |-> IF u \in behind THEN @[u] + m.tick[t]
                                          ELSE @[u]]]

\* The head expires: it is unlinked (TimerUnlink), its callback is put into the
\* queue, and a periodic timer is inserted again.  s holds the timers, the
\* posted callbacks and whether the system has stopped.
Expire(s) ==
  LET t        == Head(s.tm.list)
      unlinked == [s.tm EXCEPT !.list = Tail(@)]
  IN  IF Len(s.posted) + Len(queue) = QueueSize
      THEN [s EXCEPT !.failed = TRUE]
      ELSE [s EXCEPT !.tm = IF s.tm.periodic[t]
                            THEN TimerInsert(unlinked, t, s.tm.load[t])
                            ELSE [unlinked EXCEPT !.state[t] = "Stopped"],
                     !.posted = Append(@, t)]

\* osRtxTimerTick: the head is one tick nearer, and every timer that is due
\* expires.  Only those due before can be due; an inserted one is not.
TimerTick(s) ==
  LET h   == Head(s.tm.list)
      r   == [s EXCEPT !.tm.tick[h] = @ - 1]
      n   == Cardinality({i \in 1..Len(r.tm.list) : DueTicks(r.tm)[i] = 0})
      expired[i \in 0..n] ==
        IF i = 0 THEN r
        ELSE IF expired[i-1].failed THEN expired[i-1] ELSE Expire(expired[i-1])
  IN  IF s.tm.list = << >> \/ s.failed THEN s ELSE expired[n]

-----------------------------------------------------------------------------
(* Services: a thread or a callback calls them. *)

TimerService(name) ==
  /\ Service(name) /\ ~failed
  /\ k.run = TimerThread => calling # NoTimer
  /\ UNCHANGED << k, tick, queue, calling, failed >>

\* svcRtxTimerNew
TimerNew(t, p) ==
  /\ TimerService("TimerNew")
  /\ tm.state[t] = "Inactive"
  /\ tm' = [tm EXCEPT !.state[t] = "Stopped", !.periodic[t] = p,
                      !.load[t] = 0, !.tick[t] = 0]

\* svcRtxTimerStart
TimerStart(t, ticks) ==
  /\ TimerService("TimerStart")
  /\ tm.state[t] # "Inactive"
  /\ LET m == IF tm.state[t] = "Running" THEN TimerRemove(tm, t)
              ELSE [tm EXCEPT !.state[t] = "Running"]
     IN  tm' = TimerInsert([m EXCEPT !.load[t] = ticks], t, ticks)

\* svcRtxTimerStop
TimerStop(t) ==
  /\ TimerService("TimerStop")
  /\ tm.state[t] = "Running"
  /\ tm' = TimerRemove([tm EXCEPT !.state[t] = "Stopped"], t)

\* [mutant] a running timer stays in the list
TimerDeleteLinked(t) ==
  /\ TimerService("TimerDelete")
  /\ tm.state[t] # "Inactive"
  /\ tm' = [tm EXCEPT !.state[t] = "Inactive"]

\* svcRtxTimerDelete; queued callbacks of the timer stay
TimerDelete(t) ==
  /\ TimerService("TimerDelete")
  /\ tm.state[t] # "Inactive"
  /\ tm' = [(IF tm.state[t] = "Running" THEN TimerRemove(tm, t) ELSE tm)
              EXCEPT !.state[t] = "Inactive"]

-----------------------------------------------------------------------------
(* The kernel with timers. *)

\* svcRtxKernelStart: osRtxThreadStartup creates the idle and the timer thread
Start ==
  /\ k.kernel = "Ready" /\ k.ready # << >>
  /\ LET i == ThreadDispatch(Initialized(k, Idle, IdlePriority, FALSE), Idle)
         s == ThreadDispatch(Initialized(i, TimerThread, TimerPriority, FALSE),
                             TimerThread)
     IN  Return([ThreadSwitchToReady(s) EXCEPT !.kernel = "Running"])
  /\ UNCHANGED << posted, svc, timerVars >>

\* osRtxErrorNotify: the handler does not return.
Stop ==
  /\ failed' = TRUE
  /\ UNCHANGED << k, tick, posted, svc, tm, queue, calling >>

\* The handler of a tick, or of several, leaves the timers of s; PendSV follows
\* when callbacks are posted.
Ticked(s) ==
  /\ tm' = s.tm /\ posted' = s.posted
  /\ svc' = IF s.posted = << >> THEN NoService ELSE [what |-> "PendSV"]
  /\ UNCHANGED << queue, calling, failed >>

\* osRtxTick_Handler
TickHandler ==
  /\ Quiet /\ ~failed
  /\ k.kernel \in {"Running", "Locked"}
  /\ \E s \in {TimerTick([tm |-> tm, posted |-> posted, failed |-> failed])} :
       \/ s.failed /\ Stop
       \/ /\ ~s.failed /\ Ticked(s)
          /\ k' = ContextSwitch(RoundRobin(ThreadDispatchReady(ThreadDelayTick(k))))
          /\ tick' = (tick + 1) % TickMod

\* [mutant] only the timers are looked at
SleepTimeTimers ==
  IF tm.list = << >> THEN Forever ELSE tm.tick[Head(tm.list)]

\* GetKernelSleepTime
SleepTime ==
  LET delays == IF k.delayList = << >> THEN {} ELSE {k.delay[Head(k.delayList)]}
      timers == IF tm.list = << >> THEN {} ELSE {tm.tick[Head(tm.list)]}
  IN  IF delays \cup timers = {} THEN Forever ELSE Min(delays \cup timers)

\* The first n ticks of a sleep, in which nothing is due, are taken off the
\* heads of the two lists.
Skipped(n) ==
  [k  |-> IF k.delayList = << >> THEN k
          ELSE [k EXCEPT !.delay[Head(k.delayList)] = @ - n],
   tm |-> IF tm.list = << >> THEN tm ELSE [tm EXCEPT !.tick[Head(tm.list)] = @ - n],
   posted |-> posted, failed |-> failed]

\* svcRtxKernelResume: the remaining ticks are processed one by one
Resume(sleep) ==
  /\ Quiet /\ ~failed /\ Call("KernelSuspend")
  /\ k.kernel = "Suspended"
  /\ LET skip == IF SleepTime = Forever \/ sleep < SleepTime THEN sleep
                 ELSE SleepTime - 1
         ticked[i \in 0..(sleep - skip)] ==
           IF i = 0 THEN Skipped(skip)
           ELSE TimerTick([ticked[i-1] EXCEPT !.k = ThreadDelayTick(@)])
         s == ticked[sleep - skip]
     IN  \/ s.failed /\ Stop
         \/ /\ ~s.failed /\ Ticked(s)
            /\ k' = ContextSwitch(ThreadDispatchReady(
                       [s.k EXCEPT !.kernel = "Running"]))
            /\ tick' = (tick + sleep) % TickMod

\* The other services; programs do not touch the timer thread.
OtherService ==
  /\ ~failed
  /\ Quiet /\ ThreadServices /\ svc' = Chained(k') /\ UNCHANGED posted
  /\ k.run = TimerThread => calling # NoTimer
  /\ (k'.state[TimerThread] = "Inactive") = (k.state[TimerThread] = "Inactive")
  /\ UNCHANGED timerVars

-----------------------------------------------------------------------------
(* The callbacks on their way. *)

\* [mutant] the message goes to the head of the queue
PostProcessMessageFirst ==
  /\ posted # << >>
  /\ IF k.list[TimerQueue] # << >>
     THEN /\ PendSVStep(Head(posted), WakeFirst(k, TimerQueue))
          /\ calling' = Head(posted)
          /\ UNCHANGED queue
     ELSE /\ PendSVStep(Head(posted), k)
          /\ queue' = << Head(posted) >> \o queue
          /\ UNCHANGED calling
  /\ UNCHANGED << tm, failed >>

\* [mutant] the waiting thread is not looked for
PostProcessMessageQueued ==
  /\ posted # << >>
  /\ PendSVStep(Head(posted), k)
  /\ queue' = Append(queue, Head(posted))
  /\ UNCHANGED << tm, calling, failed >>

\* osRtxMessageQueuePostProcess: the timer thread, if it waits, gets the message
PostProcessMessage ==
  /\ posted # << >>
  /\ IF k.list[TimerQueue] # << >>
     THEN /\ PendSVStep(Head(posted), WakeFirst(k, TimerQueue))
          /\ calling' = Head(posted)
          /\ UNCHANGED queue
     ELSE /\ PendSVStep(Head(posted), k)
          /\ queue' = Append(queue, Head(posted))
          /\ UNCHANGED calling
  /\ UNCHANGED << tm, failed >>

\* osRtxTimerThread: the callback has returned (or the thread starts), and the
\* next message is got (svcRtxMessageQueueGet)
TimerThreadLoop ==
  /\ Quiet /\ ~failed /\ k.run = TimerThread
  /\ IF queue = << >>
     THEN /\ Leave(IF CanWait(k)
                   THEN [ThreadWaitEnter(k, "WaitingMessageGet", Forever)
                           EXCEPT !.list[TimerQueue] = << TimerThread >>]
                   ELSE k)
          /\ calling' = NoTimer
          /\ UNCHANGED queue
     ELSE /\ calling' = Head(queue)
          /\ queue' = Tail(queue)
          /\ svc' = Chained(k)
          /\ UNCHANGED << k, tick, posted >>
  /\ UNCHANGED << tm, failed >>

-----------------------------------------------------------------------------

TimerServices ==
  \E t \in Timer :
    \/ \E p \in BOOLEAN : TimerNew(t, p)
    \/ \E ticks \in Loads : TimerStart(t, ticks)
    \/ TimerStop(t)
    \/ TimerDelete(t)

PendSV ==
  \/ PostProcessMessage
  \/ PendSVExit /\ UNCHANGED timerVars

TimerNext ==
  \/ OtherService
  \/ Start
  \/ TickHandler
  \/ \E sleep \in Sleeps : Resume(sleep)
  \/ TimerServices
  \/ PendSV
  \/ TimerThreadLoop

TimerSpec == TimerInit /\ [][TimerNext]_allVars

\* The tick goes on, PendSV is run to its end, and a callback returns once its
\* thread is the one that runs.
TimerFairSpec ==
  /\ TimerSpec
  /\ WF_allVars(TickHandler) /\ WF_allVars(PendSV) /\ WF_allVars(TimerThreadLoop)

-----------------------------------------------------------------------------
(* Properties. *)

Running(t) == tm.state[t] = "Running"

\* The ticks until t expires.
TicksLeft(t) ==
  IF Running(t) THEN DueTicks(tm)[CHOOSE i \in 1..Len(tm.list) : tm.list[i] = t]
  ELSE 0

\* The callbacks that have not been called, in the order of their expiry.
Owed == queue \o posted

\* The timers keep what Timers promises, through ticks and sleeps, in whatever
\* order they are started, stopped, restarted and deleted.
Promise == INSTANCE Timers WITH
  Passes   <- Sleeps \cup {1},
  periodic <- tm.periodic,
  load     <- [t \in Timer |-> IF tm.state[t] = "Inactive" THEN 0 ELSE tm.load[t]],
  wait     <- [t \in Timer |-> TicksLeft(t)],
  owed     <- [t \in Timer |-> Len(SelectSeq(Owed, LAMBDA u : u = t))]

Accurate == Promise!TimersSpec

\* Callbacks keep the order in which the timers expired: those owed gain some at
\* the end, or lose the first, which is called; none is dropped or overtaken.
CalledInOrder ==
  [][\/ IsPrefix(Owed, Owed')
     \/ Owed # << >> /\ Owed' = Tail(Owed) /\ calling' = Head(Owed)]_allVars

\* What has expired is called in the end, unless the system stops.
CallbackComes ==
  \A t \in Timer : t \in ToSet(Owed) ~> calling = t \/ failed

\* The delta list holds the running timers, each once, and none that is due
\* stays in it between two handlers, whatever services and ticks come between.
TimersLinked ==
  ~failed =>
    /\ NoDuplicates(tm.list)
    /\ ToSet(tm.list) = {t \in Timer : Running(t)}
    /\ \A t \in Timer : Running(t) => TicksLeft(t) \in 1..tm.load[t]
=============================================================================

------------------------------- MODULE MCProgress -------------------------------
(***************************************************************************)
(* What must happen in the end, for TLC: semaphores, event flags, thread   *)
(* flags, timers, round robin, the serial flash and the SPI driver, each   *)
(* in a setting of its own.  The instances are those of the other MC       *)
(* modules, but smaller, without symmetry, and with the fairness that the  *)
(* processor and the hardware justify.                                     *)
(***************************************************************************)
EXTENDS RtxIsr, FiniteSets

CONSTANTS a, b, z, dt, o1, x, y,  \* model values
          NoTimer,
          NoOwner,                         \* sfud_lock has no owner
          Settings  \* the settings of this run

VARIABLES setting,
          sems, tokens, held,           \* RtxSemaphore
          efs, flags, wait,             \* RtxEventFlags, RtxThreadFlags
          tm, queue, calling, failed,   \* RtxTimer
          pc,                           \* Sfud, DrvSpi
          chip, owner, call, done, want, calls, faults,  \* Sfud
          message, sem, tx, rx, flag, pending, spi, clocked, received, length  \* DrvSpi

semVars   == << sems, tokens, held >>
flagVars  == << flags, wait >>
timerVars == << tm, queue, calling, failed >>
kernelVars == << k, tick, posted, svc, semVars, efs, flagVars, timerVars >>
flashVars  == << chip, owner, call, done, want, calls, faults >>
spiVars    == << message, sem, tx, rx, flag, pending, spi, clocked, received, length >>
allVars    == << setting, kernelVars, pc, flashVars, spiVars >>

MCConditions ==
  {[flags |-> {1, 2}, all |-> TRUE, noClear |-> FALSE],
   [flags |-> {1}, all |-> FALSE, noClear |-> FALSE],
   [flags |-> {1, 2}, all |-> FALSE, noClear |-> TRUE]}

Semaphores == INSTANCE RtxSemaphore WITH
  Thread <- {Idle, a, b, z}, Object <- {o1}, PostLimit <- 2, MaxTokens <- 2,
  Calls <- {"SemaphoreNew", "SemaphoreAcquire", "SemaphoreRelease", "Lock"},
  IsrCalls <- {"Release"}

EventFlags == INSTANCE RtxEventFlags WITH
  Thread <- {Idle, a, b}, Object <- {o1}, PostLimit <- 1,
  Calls <- {"EventFlagsNew", "EventFlagsSet", "EventFlagsClear", "EventFlagsWait"},
  IsrCalls <- {"Set", "Wait"}, Flag <- {1, 2}, Conditions <- MCConditions

ThreadFlags == INSTANCE RtxThreadFlags WITH
  Thread <- {Idle, a, b}, Object <- {}, Priority <- {1}, PostLimit <- 1,
  Calls <- {"FlagsSet", "FlagsWait"}, Flag <- {1, 2},
  Conditions <- {w \in MCConditions : ~w.noClear}

Timers == INSTANCE RtxTimer WITH
  Thread <- {Idle, dt, a}, Object <- {o1}, Priority <- {1}, PostLimit <- 2,
  Calls <- {"TimerNew", "TimerStart", "TimerStop"},
  Timer <- {x, y}, TimerThread <- dt, TimerPriority <- 2, TimerQueue <- o1,
  QueueSize <- 2, Loads <- {1, 2}

Robin == INSTANCE RtxThread WITH
  Thread <- {Idle, a, b, z}, Object <- {}, Calls <- {"Yield"}, RobinTimeout <- 2,
  TickMod <- 2

\* Two threads write over the end of a sector, read or ask for the identity; one
\* message may fail, and the chip may stay busy for ever.
Flash == INSTANCE Sfud WITH
  place <- pc,
  Threads <- {a, b}, Capacity <- 8, Sector <- 4, Page <- 2, Retries <- 1,
  Payload <- [t \in {a, b} |-> << 1, 2 >>], Ranges <- {<< 3, 2 >>},
  MaxCalls <- 2, MaxFaults <- 1, Slow <- TRUE

Spi == INSTANCE DrvSpi WITH MaxLength <- 2, MaxXfers <- 3

NoSemaphores == sems = {} /\ tokens = {} /\ held = {}
NoFlags      == flags = {} /\ wait = {}
NoTimers     == tm = {} /\ queue = {} /\ calling = {} /\ failed = {}

NoKernel     == /\ Init /\ IsrInit
                /\ NoSemaphores /\ efs = {} /\ NoFlags /\ NoTimers
NoFlash      == /\ chip = {} /\ owner = {} /\ call = {} /\ done = {} /\ want = {}
                /\ calls = {} /\ faults = {}
NoSpi        == /\ message = {} /\ sem = {} /\ tx = {} /\ rx = {} /\ flag = {} /\ pending = {}
                /\ spi = {} /\ clocked = {} /\ received = {} /\ length = {}

KernelInit ==
  \/ /\ setting = "semaphore" /\ Semaphores!SemaphoreInit
     /\ efs = {} /\ NoFlags /\ NoTimers
  \/ /\ setting = "eventFlags" /\ EventFlags!EventFlagsInit
     /\ NoSemaphores /\ NoTimers
  \/ /\ setting = "threadFlags" /\ ThreadFlags!ThreadFlagsInit
     /\ NoSemaphores /\ efs = {} /\ NoTimers
  \/ /\ setting = "timers" /\ Timers!TimerInit
     /\ NoSemaphores /\ efs = {} /\ NoFlags
  \/ /\ setting = "robin" /\ Robin!Init /\ IsrInit
     /\ NoSemaphores /\ efs = {} /\ NoFlags /\ NoTimers

MCInit ==
  /\ setting \in Settings
  /\ \/ KernelInit /\ pc = {} /\ NoFlash /\ NoSpi
     \/ setting = "flash" /\ Flash!FlashInit /\ NoKernel /\ NoSpi
     \/ setting = "spi" /\ Spi!SpiInit /\ NoKernel /\ NoFlash

DeviceVars == << pc, flashVars, spiVars >>

SemaphoreStep(A) ==
  setting = "semaphore" /\ A /\ UNCHANGED << setting, efs, flagVars, timerVars, DeviceVars >>
EventFlagsStep(A) ==
  setting = "eventFlags" /\ A /\ UNCHANGED << setting, semVars, timerVars, DeviceVars >>
ThreadFlagsStep(A) ==
  setting = "threadFlags" /\ A
    /\ UNCHANGED << setting, semVars, efs, timerVars, DeviceVars >>
TimerStep(A) ==
  setting = "timers" /\ A /\ UNCHANGED << setting, semVars, efs, flagVars, DeviceVars >>
RobinStep(A) ==
  setting = "robin" /\ A
    /\ UNCHANGED << setting, posted, svc, semVars, efs, flagVars, timerVars, DeviceVars >>
FlashStep(A) ==
  setting = "flash" /\ A /\ UNCHANGED << setting, kernelVars, spiVars >>
SpiStep(A) ==
  setting = "spi" /\ A /\ UNCHANGED << setting, kernelVars, flashVars >>

MCNext ==
  \/ SemaphoreStep(Semaphores!SemaphoreNext)
  \/ EventFlagsStep(EventFlags!EventFlagsNext)
  \/ ThreadFlagsStep(ThreadFlags!ThreadFlagsNext)
  \/ TimerStep(Timers!TimerNext)
  \/ RobinStep(Robin!Next)
  \/ FlashStep(Flash!FlashNext)
  \/ SpiStep(Spi!SpiNext)

\* The processor goes on with a handler that has started, with a pending interrupt
\* or PendSV, with a thread inside a driver, and a timer's callback returns once
\* the timer thread runs.
GoesOn ==
  \/ SemaphoreStep(Semaphores!SemaphoreAcquireWait \/ Semaphores!PendSV)
  \/ EventFlagsStep(EventFlags!Rest \/ EventFlags!PendSV)
  \/ ThreadFlagsStep(ThreadFlags!Rest \/ ThreadFlags!PendSV)
  \/ TimerStep(Timers!PendSV \/ Timers!TimerThreadLoop)
  \/ FlashStep(Flash!Serve(a) \/ Flash!Serve(b))
  \/ SpiStep(Spi!Driver \/ Spi!Interrupts)

\* The SysTick timer keeps ticking, the DMA and the SPI move what they can; the
\* flash chip is not obliged to finish.
Beside ==
  \/ TimerStep(Timers!TickHandler)
  \/ RobinStep(Robin!Tick)
  \/ SpiStep(Spi!Hardware)

MCFairSpec ==
  /\ MCInit /\ [][MCNext]_allVars
  /\ WF_allVars(GoesOn) /\ WF_allVars(Beside)

-----------------------------------------------------------------------------

\* The threads a, b, z are interchangeable, and so are the timers x, y: the
\* properties look at one of them.

\* A thread waits beside what it waits for: a token, or flags that are set.
WaitsInVain ==
  \/ setting = "semaphore" /\ Semaphores!BesideToken(o1)
  \/ setting = "eventFlags" /\ EventFlags!Overdue(o1, a)
  \/ setting = "threadFlags" /\ ThreadFlags!Overdue(a)

\* Nobody waits for ever beside what he waits for: a token, event flags or thread
\* flags that stay set, also when interrupts bring them in the middle of a
\* service (rtx_semaphore.c, rtx_evflags.c, rtx_thread.c).
Served == WaitsInVain ~> ~WaitsInVain

\* What has expired is called in the end by the timer thread, unless the system
\* stops (osRtxTimerThread).
CallbacksCome ==
  setting = "timers" /\ x \in ToSet(Timers!Owed)
    ~> setting = "timers" /\ (calling = x \/ failed)

\* Round robin: a ready thread is not passed over for ever while threads of its
\* own priority run again and again (osRtxThreadSwitch, osRtxTick_Handler).
SlicesFair ==
  []<>(setting = "robin" /\ Robin!PeerRuns(a))
    => []<>(setting = "robin" /\ k.state[a] # "Ready")

\* The thread a is in a call of the flash, or a thread in a transfer of at least
\* one byte.
InCall ==
  \/ setting = "flash" /\ pc[a] # "idle"
  \/ setting = "spi" /\ pc # "idle" /\ message.length > 0

\* Every call of the flash returns, whatever message fails and if the chip stays
\* busy for ever (wait_busy, sfud_lock); a transfer is ended by its interrupt and
\* does not need its timeout (rt_spi_xfer, DMA1_Channel3_IRQHandler).
CallsReturn == InCall ~> ~InCall
=============================================================================

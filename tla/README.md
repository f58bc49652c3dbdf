# AT32F415-RTX: a TLA+ development

The repository is the firmware of an AT32F415 board (Cortex-M4): the RTX5
kernel (CMSIS-RTOS2, `src/src/RTOS2/RTX`) with a start-up and a heap taken from
RT-Thread, an SPI driver, a SPI flash library, littlefs, a debug channel and a
shell. This directory holds TLA+ modules that model its core, the TLC
configurations that check them, and proofs checked by TLAPS. File names without
a directory are those of the components below.

Contents: [the system](#the-system), [the modules](#the-modules),
[the runs](#the-runs), [findings](#findings), [what is proved](#what-is-proved),
[what is not](#what-is-only-model-checked-and-what-is-not-modelled).

## How to run

    tlc -config Threads.cfg MCRtxThread.tla     # likewise for each run below
    tlapm RtxThreadProofs.tla                   # likewise for each *Proofs module

Each run takes at most two minutes, each proof module a few minutes.
`PROJECT.json` lists the runs with their modules, for each property a mutation
of the model that violates it, for each definition the code it models, and the
hazards of the code with the properties that are about them.

## The system

### Components, their state and operations

| component | state | operations | made correct by |
|---|---|---|---|
| threads and scheduler (`rtx_thread.c`) | control blocks; ready, delay and wait lists; `run.curr`, `run.next` | new, set priority, yield, suspend, resume, detach, join, exit, terminate; dispatching, entering and leaving a wait | every thread is linked where its state says; one runs, and it is one of the highest priority; join links agree |
| delays (`rtx_delay.c`, delay list of `rtx_thread.c`) | delta list | delay, delay until, one tick | each timeout expires at its tick, whatever happens to the others |
| kernel control and tick (`rtx_kernel.c`, `rtx_system.c`) | kernel state, tick count, round-robin thread | start, lock, unlock, restore lock, suspend, resume, tick | no lost dispatch; round robin starves nobody |
| ISR queue (`rtx_system.c`, `rtx_core_cm.h`) | ring buffer, count, `blocked`, `pendSV` | put (interrupts), get (PendSV), block, unblock | a FIFO; no request is lost |
| mutexes (`rtx_mutex.c`) | owner, lock count, waiters; list of owned mutexes in the thread | new, acquire, release, delete; owner release, restore and unlock called by others | owners and lists agree; the priority boost is what the waiters call for |
| thread flags, event flags, semaphores, memory pools, message queues | tokens, flags, blocks, messages; waiters | put/get or set/wait, from threads and, through the ISR queue, from interrupts | nothing lost or handed out twice; a waiter that could go on does |
| timers (`rtx_timer.c`) | delta list of timers, timer thread's queue | start, stop, delete, tick | callbacks of started timers only, at their tick |
| heap (`rtthread/mem.c`, `rtthread/kservice.c`) | chain of blocks, lowest free block, lock | malloc, realloc, free, the aligned pair | blocks tile the memory; no two free neighbours; a block belongs to one |
| SPI driver (`bsp/driver/drv_spi.c`) | DMA channels, completion semaphore | transfer, interrupt, timeout | a transfer ends with its own completion, with all bytes moved |
| SPI flash (`components/spiflash/sfud.c`) | lock, chip select, the chip | read, write, erase, identity | the flash changes only where asked; success means done |
| debug channel (`components/rtt/rtt.c`) | up and down ring buffers shared with the probe | write, read | a FIFO between target and probe |
| littlefs (`components/littlefs/lfs.c`) | metadata pairs, tail list, global state, files and handles | commit, mkdir, remove, rename, mount; open, read, write, seek, truncate, sync, close | operations are atomic under power loss; a handle reads what was written |
| watchdog, safety classes, zones | watchdog delta list, classes | feed, alarm, protect, terminate or suspend by class | compiled in; no program of the repository uses them |
| shell, C library, peripheral library | | | see the last section |

### How they interact

A program calls a kernel service with an SVC instruction. SVC, SysTick and
PendSV have the lowest exception priorities and never preempt one another, so
each handler sees the kernel state at rest and is atomic with respect to the
other two. A handler works on the lists by calling the functions of
`rtx_thread.c`, leaves the thread to run in `run.next`, and the return from the
exception (`GCC/irq_armv7m.S`) switches to it.

Device interrupts do preempt all of them, at every instruction. They may not
touch the lists: they change an object's own counter or flags atomically, put
the object into the ISR queue and request PendSV, whose handler does the rest.

The main program (`rtthread/components.c`) initialises the board and the
kernel, creates the main thread and starts the kernel, which creates the idle
thread. The heap is under a kernel mutex. The SPI driver waits on a thread's
semaphore for its DMA interrupt; sfud calls it, under a mutex of its own; the
port of littlefs calls sfud. The debug channel has no lock: its rings are shared
with the debug probe, which reads and writes the memory while the processor runs.

### What is hard

* Chains of calls inside a handler: ending a thread releases its mutexes, wakes
  its joiner, switches or dispatches and frees its control block, and each of
  these steps reads what another has changed.
* Fields with two uses: `thread_next` is a list link and the target of a join;
  `delay` is a timeout and what is left of a time slice.
* Interrupts between the accesses of a queue operation, between the check of a
  service and its wait, between the scan of one waiter and the next.
* Wrapping tick counts, delta lists with several members due at once, sleeps
  that skip over expiries, a queue at its limit.
* Priority inheritance: arrival, timeout and priority change of waiters, and
  release, death and deletion on the side of the owner.
* Rings without a lock, whose offsets are read at one moment and used at another.
* A transfer that times out while its DMA goes on; a flash chip that is still
  busy, or still selected, when the next call comes.
* Power lost between any two commits, pairs that move in the middle of an
  operation and make others move, errors of the device halfway.
* Progress: that a queued object reaches PendSV, that round robin serves all,
  that a driver returns whatever the hardware does.

## The modules

| module | models |
|---|---|
| `RtxKernel` | the functions of `rtx_thread.c` and `rtx_mutex.c` that handlers are composed of, as operators on a record that stands for all control blocks |
| `RtxThread` | services of threads, delays and kernel control, and the tick: one action per handler |
| `RtxMutex` | the services of `rtx_mutex.c` over `RtxThread` |
| `RtxIsr` | what services have in common beside interrupts: posting, PendSV, a service that has been overtaken |
| `RtxSemaphore`, `RtxEventFlags`, `RtxThreadFlags`, `RtxMessageQueue`, `RtxMemoryPool` | the objects over `RtxThread` and `RtxIsr` |
| `RtxTimer` | timers with the tick and the timer thread; implements `Timers` |
| `RtxIsrQueue` | the ISR queue with PendSV, kernel blocking and unblocking: one action per atomic access; implements `PostQueue` |
| `RtMem`, `RtHeap` | the steps of the allocator on the chain of blocks; who takes them, and under which lock |
| `DrvSpi` | a transfer with DMA, interrupt, semaphore and timeout |
| `FlashChip`, `Sfud` | the chip as sfud relies on it; the library over it |
| `RttRing`, `RttUp`, `RttDown` | the rings of the debug channel; implement `ByteStream` |
| `LfsPair` | commits to a metadata pair; implements `AtomicCommit` |
| `LfsTree` | directories as a tree of pairs; implements `FileTree` |
| `LfsCtz`, `LfsList` | the list of blocks of a file and the arithmetic on it |
| `LfsFile` | a file and its handle; implements `FileData` |
| `PostQueue`, `Timers`, `ByteStream`, `AtomicCommit`, `FileTree`, `FileData` | the abstract specifications |
| `MCRtxThread`, `MCRtxMutex`, `MCRtxObjects`, `MCRtxTimer`, `MCProgress`, `MCDevices`, `MCLfsTree`, `MCLfsFile` | instances for TLC |
| `RtxKernelProofs`, `RtxThreadProofs`, `RtxMutexProofs`, `RtxObjectProofs`, `RtxIsrQueueProofs`, `RttProofs`, `DeviceProofs`, `LfsPairProofs` | theorems |

**State of the kernel.** In `RtxKernel` a doubly linked list is the sequence of
its members, a control block is a row of the functions `state`, `priority`,
`base`, `joinable`, `joiner`, `target`, `delay`, `owned`, and a free control
block is one whose state is `Inactive`. The wait list is a set (nothing looks at
its order). An object list that a thread is linked in is found by looking for the
thread (the code follows `thread_prev` to the object). Stacks, names, attributes
without effect on control, and the return values of services are left out.

**Actions.** Because handlers do not preempt one another, each action of
`RtxThread` and `RtxMutex` is a whole handler including the switch on its return.
A call that the code refuses leaves everything unchanged and is not an action of
its own. The services a program calls are in the constant `Calls`; the idle
thread calls none. Thread creation takes any free control block, so control
blocks are used again.

Where an interrupt makes a difference, a service is several actions: `svc` of
`RtxIsr` holds what a service has still to do after a check, and interrupts come
before it does. The ISR queue is a sequence there, which is what `RtxIsrQueue`
is shown to implement. In `RtxIsrQueue` an action is one `LDREX/STREX` update
(`atomic_inc16_lt`, `atomic_inc16_lim`, `atomic_dec16_nz`), one memory access or
one register access; an interrupt starts only above the priority of those that
are active, and PendSV and a service go on only when none is. A put into a full
queue ends in `osRtxErrorNotify`, which never returns
(`Config/RTX_Config.c`): the handler halts.

The rings of the debug channel, the SPI driver and the chip are modelled at
their shared accesses in the same way. In `LfsTree` an action is a commit to one
pair, since power may be lost between any two; in `LfsFile` it is a call, computed
by an operator in the order of the code.

**Environment assumptions are constants**, so that a run can be made with and
without them: `JoinersLeftAlone` (no program suspends or resumes a thread that
waits to join), `Sized` (while PendSV has counted an entry as taken and has not
read it, no handler needs that entry's place), `Writer` of `RttUp` (who prints),
`GetsWait` (what the threads of a queue wait for), `MaxMoves`, `MoveDirty`,
`RenameLast`, `WornFull`, `Faults` of `LfsTree` (which pairs move when, and which
commits fail), `Retries` of `LfsFile` (whether a handle is used after an error).
Each is there because the code does not keep its promise without it; see
"Findings".

## The runs

A run has several **settings**, each an instance with its own constants (the
services that are called, priorities, delays and other bounds are in `Bounds` of
the MC module): a behaviour picks one of `Settings` at its start and keeps it. So
each question is asked once, of all settings in which it makes sense. The
settings that an MC module describes and its cfg does not list are those in which
the code does not keep the property.

| run | question | settings and bounds |
|---|---|---|
| Threads | Do lists, states and join links agree, does one of the highest ready threads run, do timeouts run exactly? | `life`: 2 priorities, all ways of starting and ending. `sched`: 3 priorities, slice of 1 tick, locks. `delay`: delays 1 and 3 and all absolute ones, tick count modulo 6, sleeps of 0 and 2 |
| Mutexes | Do owners, waiters and lists agree, is the boost what the waiters call for, and does it end? | `inherit`: recursive, timed. `priority`: priorities change. `life`: deletion, death of owners and waiters. 2 mutexes |
| IsrQueue | Is the ISR queue a FIFO that loses no request, and is everything handed over? | 2 nested interrupts, 2 objects, 2 entries |
| Objects | Is nothing lost, doubled or overlooked when interrupts come in the middle of services? | `semaphore`, `eventFlags`, `priority`, `threadFlags`, `put`, `get`, `pool`: 2 or 3 threads, 1 or 2 objects, 2 tokens, flags or blocks |
| Timers | Do timers and timeouts expire at their tick, also across sleeps, and are callbacks called in order? | `timers`: 2 timers, loads 1 and 3. `sleep`: a timer beside two threads that delay |
| Progress | Does what should happen in the end? | `semaphore`, `eventFlags`, `threadFlags`, `timers`, `robin`, `flash`, `spi`; no symmetry |
| Devices | Do the rings, the driver, the flash and the heap do what is asked? | `up`, `down`: rings of 5 bytes, messages of 1 to 5. `contents`, `faults`: 8 cells in sectors of 4 and pages of 2, 3 calls of 2 threads. `spi`: up to 3 bytes, 4 transfers. `heap`, `aligned`: heaps of 14 units |
| LfsTree | Are mkdir, remove and rename atomic under power loss, and do they end? | `moves`, `deep`: a pair moves at any commit. `nested`: pairs move because of one another. `fails`: commits fail |
| LfsFile | Does a handle read what was written, does storage change at one moment, is a block programmed only after an erase and given out once? | `calls`, `long`, `append`, `full`, `bad`, `fails`: 4 or 5 calls, blocks of 8 cells. `list`: files of up to 256 blocks. `pair`: 3 values, 3 blocks, logs of 2 |
| ThreadJoinResume | `Threads` when a joining thread is resumed | **violated** |
| MutexOrphan | Has the owner of a mutex always got a mutex when a timed wait for it ends? | **violated** |
| IsrQueueBurst | `IsrQueue` without `Sized` | **violated** |

**Why the bounds are enough.** Three program threads and the idle thread give the
orders that matter: a thread that acts, one acted on, and one linked behind or
before it. Delays 1 and 3 differ enough for an insertion before, between and
behind the absolute ones; a tick count modulo 6 wraps within every one of them; a
sleep of 2 covers no expiry, one, or several. Two queue entries and two interrupt
levels let a put interrupt a put at each of its steps while the queue is empty,
partly filled and full. A ring of 5 is smaller than two messages, so that every
message wraps around at every place. Pages of 2 and sectors of 4 cells make ranges
within, over and beyond both. A heap of 14 units holds up to three blocks, so that
a free block merges with either neighbour or both. Three commits fill a log of 2
and force a compaction; a disk of seven blocks has one spare pair. Threads,
mutexes, timers, blocks, values are interchangeable (symmetry) in the runs without
liveness.

`CHECK_DEADLOCK FALSE` is used where a system may stop: after
`osRtxErrorNotify` (IsrQueue, IsrQueueBurst, Timers, Progress), when the number of calls or
transfers of a device is used up (Progress, Devices, LfsFile), and when power is
off (LfsTree, LfsFile). In the other runs the tick is always possible.

**Fairness.** The processor goes on with what has started: a handler, a pending
PendSV, a thread inside a driver, the timer thread (`GoesOn` of `MCProgress`), an
operation of littlefs (`Starts`, `Goes` of `MCLfsTree`). Beside it the SysTick timer
ticks and DMA and SPI move what they can (`Beside`). No program is obliged to call
anything, and the flash chip may stay busy for ever. In `RtxIsrQueue` a started
handler goes on (weak: the levels above it are finite), PendSV and a service call
that is interrupted over and over still get the processor again and again (strong:
the processor is not saturated by interrupts), and a program that has suspended the
kernel resumes it, as `osKernelSuspend` requires. Without the last one, or with
interrupts that take all the time, nothing could be handed over, and that is no
fault of the kernel.

### Properties

* `ThreadsConsistent` (lists, `run.curr`, `run.next` and states describe one
  situation, the ready list is sorted, `delay` of a thread that does not wait is
  less than a slice), `JoinConsistent`; `Dispatched`: no handler leaves a thread
  ready above the running one, except `osKernelUnlock` and `osKernelRestoreLock`,
  which the next tick or resume makes up for; `DelaysRight`: a wait starts with the
  time asked for, n ticks bring it n nearer, it ends with its last tick.
* `MutexesConsistent`; `BoostRight`: a thread runs at exactly the highest of its own
  priority and those of its waiters, unless a waiter owns a mutex itself;
  `BoostEnds`: whoever owns nothing has no boost; `OwnershipStable`: only the owner
  gives a mutex away, and to the first waiter.
* `WorkRequested`, `BlockedQuiet`, `NoOverwrite`, `Delivered` (refinement of
  `PostQueue`), `EventuallyHandled`: the ISR queue.
* `ObjectsLinked`, `Conserved`, `NobodyOverlooked` (no lost wake-up), `FlagsHonoured`,
  `ServedInOrder`: the objects. Liveness: `Served`.
* `AllAccurate` (refinement of `Timers`), `CalledInOrder`, and `CallbacksCome`.
  `SlicesFair`: round robin. `CallsReturn`: flash and driver.
* `WholeOrNothing`, `UnreadKept`, `InOrder`: the rings (refinements of `ByteStream`
  and what is behind them). `TransfersRight`; `FlashTrue`, `OnlyAsked`; `HeapRight`,
  `FailsOnlyFull`.
* `Atomic` (refinement of `AtomicCommit`), `AllAtomic` (of `FileTree`), `FileTrue` (of
  `FileData`), `TreeConsistent`, `FilesSafe`, `OperationEnds`, `DeviceSafe`,
  `ListTrue`: littlefs.

### Limits of the code that contradict no document

* The boost of a thread is not passed on through a chain of mutexes, nor when an
  owner that waits is raised or a waiter is given another priority.
* A waiter that is terminated, suspended or resumed leaves the owner raised until
  the owner next releases a mutex: only a timeout calls `osRtxMutexOwnerRestore`.
* `osMutexAcquire` with the scheduler locked raises the owner although the caller
  cannot wait.
* A file that outgrows its directory entry in a call that fails midway loses the
  old data of the handle (not of storage).

`BoostExact` therefore is checked in the setting `inherit` only, which leaves the
calls of the first three out; `BoostEnds`, which still holds, is checked in all.

## Findings

Three runs show a disagreement between the code and what a comment of it says:

1. **Joiner resumed** (ThreadJoinResume, `Placement`). `rtx_thread.c:1425` says
   "Wakeup a thread waiting to join." `osThreadResume` takes a joining thread out of
   its wait without clearing the `thread_join` of its target. When the target exits,
   `osRtxThreadWaitExit` is applied to a thread that is ready or running: it is put
   into the ready list a second time.
2. **ISR queue at its limit** (IsrQueueBurst, `NoOverwrite`). `rtx_system.c:33` says
   "1 - success, 0 - failure." `isr_queue_get` decrements the count before it reads
   the entry: with a full queue, an interrupt between the two is let in and
   overwrites the oldest entry, and its put returns success.
3. **Owner without mutexes** (MutexOrphan, `OwnerListed`). `rtx_mutex.c:121` "Check
   Mutexes owned by Thread" is a do-while loop over a list it takes to be non-empty.
   A mutex that is not robust keeps `owner_thread` when its owner ends; after the
   control block has been used for a new thread, whose list is empty, the timeout of a
   waiter follows a null pointer.

Others can be shown by giving a run another setting (`Settings`) or constant:

| run and setting | what happens |
|---|---|
| `RtxThread`, three priorities, a thread that delays for one tick again and again; `RobinFair` under `FairSpec` | `rtx_system.c:146` charges a tick to the thread that it has just dispatched, so the slice of the threads below is never counted (`RTX_Config.h:64`) |
| Objects, `mixed`; `NobodyOverlooked` | `rtx_msgqueue.c:273`: a thread that waits to get is served as one that waits to put, after an interrupt has emptied the queue |
| Objects, `pool`; `SpaceInRange` of `RtxMemoryPool` | `rtx_mempool.c:178`: for a moment one block more is counted as used than there are |
| Devices, `up` with two writers; `WholeOrNothing` | `rtt.c:71`: two threads that print at once write over one another |
| Devices, `failed`; `ContentsTrue` | `sfud.c:385` and `:466`: the result of the write disable replaces the error of the loop |
| Devices, `slow`; `ContentsTrue` | `sfud.c:338`: no wait for a chip that an earlier call has left busy |
| Devices, `object`; `HeapRight` | `kservice.c:171`: a service that allocates cannot take the lock, and goes on without it |
| Devices, `wrapped`; `HeapRight` | `mem.c:276`: the alignment of a size near 2^32 wraps |
| LfsTree, `read` | `lfs.c:716`: an entry behind a moved one is not found before the first write |
| LfsTree, `alloc` | `lfs.c:4668`: a file that is being moved is in neither directory for the allocator |
| LfsTree, `mark` | `lfs.c:2635`: the global state of a directory that cannot be reached yet counts as written |
| LfsTree, `full` | `lfs.c:2084`: a worn pair that cannot move drops the global state of the commit |
| LfsTree, `count` | `lfs.c:4834`: the count of orphans falls below none |
| LfsTree, `relink` | `lfs.c:2493`: a pending move is taken off the number of an entry twice |
| LfsTree, `loop` | `lfs.c:4944`: the search for orphans does not end |
| LfsTree, `failMove`, `failDrop` | `lfs.c:4023`, `:3907`: what a failed commit was to announce stays prepared, or what marked it is taken back |
| LfsFile, `retry` | `lfs.c:3590`: a write after a failed one programs the same place again |
| LfsFile, `badGrown` | `lfs.c:3609`: the allocator leaves out a block of a file whose new last block is bad |
| LfsFile, `fails` with `SyncSaves` | `lfs.c:3397`: after a failed write, sync returns 0 and has saved nothing |

Some of the littlefs rows need several pairs that move in one operation; they are
properties of that version of the library (2.9), found here with small disks.

## What is proved

Every theorem holds for every value of the constants that meets the named
assumption of its module; the runs check the same formulas on small instances. In
every case the argument is an inductive invariant that TLC has checked first.

| theorem | module | states |
|---|---|---|
| `ThreadsCorrect`, `JoinsCorrect`, `DispatchCorrect` | `RtxThreadProofs` | `ThreadsConsistent`, `JoinConsistent`, `Dispatched` |
| `DelaysCorrect` | `RtxThreadProofs` | `DelaysRight` |
| `MutexesCorrect`, `BoostsEnd`, `OwnershipCorrect` | `RtxMutexProofs` | `MutexesConsistent`, `BoostEnds`, `OwnershipStable` |
| `MutexThreadsCorrect`, `MutexDispatchCorrect` | `RtxMutexProofs` | `ThreadsConsistent`, `JoinConsistent` and `Dispatched` when there are mutexes |
| `SemaphoresCorrect` | `RtxObjectProofs` | types, `SemaphoreLinked`, `TokensConserved`, `WaiterPosted` (what `ObjectsLinked`, `Conserved` and `NobodyOverlooked` say of semaphores) |
| `TypeCorrect`, `SuspensionQuiet`, `NoLostRequest`, `QueueImplementsPost`, `NothingOverwritten` | `RtxIsrQueueProofs` | `TypeOK`, `BlockedQuiet`, `WorkRequested`, `Delivered`, `NoOverwrite` |
| `UpTypeCorrect`, `NothingUnreadOverwritten`, `UpImplementsStream` | `RttProofs` | types, `UnreadKept`, `WholeOrNothing` |
| `DownTypeCorrect`, `DownImplementsStream` | `RttProofs` | types, `InOrder` |
| `TransfersAreRight` | `DeviceProofs` | `TransfersRight` |
| `SfudTyped`, `OnlyAskedHolds`, `FlashIsTrue` | `DeviceProofs` | who holds the lock, types; `OnlyAsked`; `FlashTrue` |
| `HeapCorrect`, `SearchComplete` | `DeviceProofs` | `HeapRight`, `FailsOnlyFull` |
| `MountedTrue`, `PairImplementsCommit` | `LfsPairProofs` | the directory in memory is what a mount finds; `Atomic` |

### The kernel (`RtxKernelProofs`, `RtxThreadProofs`)

For any set of threads, any set of priorities with that of the idle thread, any delays,
sleeps, time slice and tick width (`ThreadAssumption`), in the system of `RtxThread`,
whose threads call no object, and under `JoinersLeftAlone`. That hypothesis is needed: the
run ThreadJoinResume violates `Placement` without it.

The invariant `Inv` of `RtxThreadProofs` says that the record at the end of a
handler is `Settled`, `run.next` is `run.curr` again, and the tick count is in range.
`Settled` is made of

* `Good`: types; `Linked`, every thread is at the place its state says (ready list,
  delay list or wait list, or nowhere), the lists have no doubles and the ready list
  is sorted; `NotDue`, what remains at the head of the delay list is at least 1, so
  that the next tick has something to count;
* `Started`: before the start nobody is chosen and there is no idle thread, and
  afterwards exactly `run.next` is marked as running and the idle thread never waits
  or ends, so that the ready list never runs out when the running thread leaves;
* `JoinOK`: `JoinConsistent`, and nobody joins itself; `Plain`: a thread that joins
  waits without a timeout, so that no tick takes it out of its wait;
* `Queues` and `Queued`: the list of each object is sorted and holds threads that wait
  for such an object, each once and in one list only, and a thread that waits for an
  object is in a list;
* `Mutexes`: the part of the mutexes, below. In `RtxThread` there is nothing in it, but
  the functions of the kernel are the same for both systems, so that their lemmas keep
  the whole of `Settled` and serve both.

`ThreadsConsistent`, `JoinConsistent` and `Dispatched` as the runs check them are not
inductive: all of them say less than `Linked` about a state inside a handler, where
a thread has left one list and has not yet entered another. `Linked(s, q, X)` has
therefore the threads `X` that are on their way, and the delay list `q` as an
argument of its own, because the loop of the tick works on a list of which it has
already cut off the head.

`RtxKernelProofs` has, for each function of the kernel (`ThreadListPut`,
`ThreadListRemove`, delay list insertion and removal, `WaitEnter`, `WaitExit`,
`Dispatch`, `Switch`, `Block`, the tick of the delay list), a lemma that says what it does
to `Linked` and `X`, with a named predicate (`Readied`, `Chosen`, `Rescheduled`,
`Admitted`, `Undelayed`, `Waited`, ...) for what else it changes and what it leaves
alone. `RtxThreadProofs` composes them into one lemma per service (`NewFine`,
`StartFine`, `SetPriorityFine`, `YieldFine`, `WaitFine`, `SuspendFine`, `ResumeFine`,
`DetachFine`, `JoinFine`, `EndFine`, `LockFine`, `TickFine`, `ResumeKernelFine`), and
these into `NextKept`. The ends of threads are the longest: `EndFine` follows the
thread out of its place, through the wake-up of its joiner, to the free control block.

Three definitions are recursive functions on the natural numbers (the tick's loop
over everything that is due, the catching up after a sleep, and the sum of deltas).
What they keep is proved by a least counterexample (`MinIs`): of the steps after
which the invariant fails take the least, and look at the one before it.
`TopIsHighest` connects the head of a sorted list with all of its members, which is
what `Dispatched` needs.

`DelaysCorrect` says of a step what happens to the time left to each thread, the sum
of the differences up to its place in the delay list (`Expiry`). It needs two
hypotheses: `JoinersLeftAlone`, as above, and `TicksCounted`: a sleep is shorter than
the range of the tick count, as its 32 bits make it, since otherwise the difference of
two counts does not tell how much time has passed. `TimesUnique` is the key: a
function that starts with 0 and adds up the delays is `Expiry`, so that for each
function of the kernel it is enough to write down the times after it and to see that
they add up. `RemoveTimes` and `InsertTimes` do this for the two that hand a
difference on to the next member, `AdvanceTimes` for the head that comes nearer while
members with nothing left drop off. The rest is bookkeeping: which functions do not
touch the list at all (`Untimed`), or only the delay of a thread that is not in it
(`RoundRobinTimes`, the time slice lives in the same field). `NoTicks` uses `NotDue` of
the invariant: between two handlers everybody has some time left, which makes
"is gone after n ticks" and "had at most n ticks left" the same for n = 0. Ticks
add up (`TicksAdd`), so that the catching up after a sleep, a subtraction and then tick
by tick, comes to the ticks slept. `TicksBetween` and `TicksReach` are the arithmetic
of a count that wraps.

### The mutexes (`RtxMutexProofs`)

For any threads and any mutexes, recursive, inheriting and robust in any combination,
and any limit of the lock count, over the whole system of `RtxThread` with its ticks,
delays, joins and ends of threads (`ThreadAssumption`, `MutexAssumption`). There are two
hypotheses: `JoinersLeftAlone`, as above, and `OwnersLive`: every mutex is robust, or no
thread exits or is terminated. The second is needed as well: without it the run
MutexOrphan follows a null pointer.

The invariant is `Settled` again. Its part `Mutexes(s, X)` says that a mutex is
in the list of a thread, once, exactly when it is locked and that thread is its owner;
that the owner is alive; that a mutex nobody has locked has no waiters; and that a
thread runs at another priority than its own only while it owns a mutex that
inherits. The last is what `BoostEnds` follows from, and is why a release has to
restore the priority before it hands the mutex over. `X` are the threads that are about to
end: `EndFine` releases their mutexes one after another, and in between the
mutexes still have the owner that is no longer looked at.

Each service takes several functions of the kernel, after each of which only part of
`Settled` holds. `RestoredSettled` and `RaiseHandled` are the two ways a priority
changes while its thread is in some list, which is sorted again by
`osRtxThreadListSort`; `HandOverSettled` gives a mutex to the first of its waiters;
`EnqueueHandled` puts a waiter into the list and raises the owner. Deleting a mutex wakes
its waiters in a loop (`AwokenOne`, `AwokenGood`); what the loop keeps is proved by a least
counterexample, like the loops of the tick. `Passes` follows the owner of a mutex from the
beginning of a handler to its end, for `OwnershipStable`: it changes hands only if its
owner runs, has ended, or the mutex is gone, and the first waiter has it next.
`Highest` does the same for `Dispatched`. That a thread runs at *exactly* the highest
priority of those that wait for it (`BoostRight`) is only model-checked, and only
in the setting `inherit` (see "Limits of the code").

### The semaphores (`RtxObjectProofs`)

For any threads, any number of semaphores and of tokens, any timeouts and any number of
posts (`ThreadAssumption`, `IsrAssumption`, `SemaphoreAssumption`), beside all services
of `RtxThread`, and under `JoinersLeftAlone`.

`SemaphoreInv` is `Inv` of the kernel and

* `Tidy`: only semaphores that exist have waiters, and threads wait for nothing else;
* `SemaphoreHandler`: what a service that an interrupt has overtaken may be about to do:
  to wait, for a semaphore that exists;
* `Counted`: types, and `TokensConserved`;
* `Supplied`: as long as a thread waits for a semaphore, *or is about to*, the ISR queue
  holds the semaphore once for each of its tokens (`Posts`).

`WaiterPosted`, which the runs check, is weaker than `Supplied` in two ways and not
inductive. That one entry is queued for a semaphore with two tokens is not enough, since
PendSV takes the entry and hands over one token. And an acquire that has found none
and is about to wait is not in the list yet, but an interrupt that comes now must leave
an entry for it (hazard `rtx_semaphore.c:378`).

The functions that wake the first waiter of an object or all of them and that enqueue
one are those of all objects (`RtxIsr`). `WakeFirstGood`, `WakeAllGood` and
`WaitForGood` show for any object that is no mutex that they keep `Settled`; the loop
of a delete is handled by a least counterexample. `Calm` connects the services of
`RtxThread` with the objects: nobody starts to wait for an object in them or comes into
another list, so that a timeout or a termination can only take waiters away.
`PostsAppend`, `PostsFewer`, `PostsMore` and `PostsOther` count entries in the
queue; one lemma per action (`AcquireKept`, `ReleaseKept`, `SemaphoreAcquireWaitKept`,
`IsrReleaseKept`, `PostProcessKept`, ...) puts the two together.

### The ISR queue (`RtxIsrQueueProofs`)

For every queue size, every finite set of interrupt levels and every set of objects
(`IsrAssumption`).

* `TypeCorrect`: inductive as it stands, with `IncLimSlot`: the next index is an
  index.
* `SuspensionQuiet`: `BlockedQuiet` speaks of the end of `KernelBlock` only. `Quiet`
  adds what holds in the middle of it: on which side of the two calls the program is,
  that PendSV is idle while a service is active, and that the pending bit stays clear
  once it has been cleared.
* `NoLostRequest`: `WorkRequested` speaks of moments without an active handler;
  `WorkKnown` extends it over the steps of the handlers: an entry that is counted has
  a handler that still has to request PendSV, or a request that somebody knows of.
  `Quiet` is needed to see that `KernelUnblock` may drop `kpend` when it is clear.
* `QueueImplementsPost` and `NothingOverwritten`, under `Sized`. The queue does not
  look like a FIFO in the middle of its operations: the count runs ahead of the
  indices, handlers hold slots they have not filled, and handlers nest. `QueueInv`
  says that the entries with an index occupy the slots from `out` on, as many as the
  count less the handlers that have counted and not got an index; that each handler
  which still has to store has its own slot among them, never the one being taken;
  that a handler that is only counted leaves room; and, where `Sized` comes in, that
  while an entry is being taken the queue stays below its size, so that no index is
  given out for its slot. The refinement mapping `Contents` reads the object from the
  slot or, where a handler has yet to store it, from the handler; an object is posted
  at `PutIndex` (its linearization point), handed over at `GetRead`, and every other
  step leaves `Contents` alone. `View` gives the contents slot by slot.

### The debug channel (`RttProofs`)

For rings of every size and any messages, with one writer of the up ring (two lose
messages, see Findings). `WriterInv` says that the space the writer has read off
`RdOff` is there although the probe may have freed more meanwhile, and which part of
its message is in the ring; `ProbeInv` says the same of what the probe has copied and
not yet given back. From both follows that the ring between `RdOff` and `WrOff` is the
stream of `ByteStream`: a message is sent when `WrOff` moves. The down ring is the
mirror image (`ReaderInv`, `ProbeInv`), with a read that is cut in two at the end of
the ring.

### The SPI driver (`DeviceProofs`)

For messages of every length in each direction (`SpiAssumption`). `AtRest` says what
the DMA channels and the interrupt may be doing while the driver is between
transfers, `Counted` relates the counts of both channels, the byte in the shift register and the
bytes clocked, and `Received` says what of the buffer has been filled. A transfer
that returns its length has moved all bytes because the semaphore it got can only
have come from its own interrupt.

### The SPI flash (`DeviceProofs`)

For every flash whose sectors consist of whole pages and which consists of whole
sectors, any threads, ranges and data, any number of failing messages and a chip
that may take longer than all polls (`SfudAssumption`). `OnlyAsked` is not inductive:
a command takes effect long after it was sent, and a failed message may leave chip
select low, so that the next command is appended to it. `FlashInv` adds three things.
`ChipOK`: what a selected chip has been sent begins neither an erasure nor a
programming, because the functions that use two messages only read, and a busy chip
has its latch set. `CallOK`: the address and the size that an erase or a write has
left end where its range ends, and an erase that has moved on stands at the start of a
sector; with the arithmetic of pages (`WithinPage`, `NextStart`) the next command
stays within the range. `PendingOK`: what the chip is about to change belongs to the
call that owns the lock, or to one that failed, of whose range the callers may
believe nothing. A call that succeeds has read the latch back as reset
(`WriteEnabledOK`), which a busy chip cannot show. Torn messages, of which only a part
arrives, are covered by `PartIs`.

`FlashTrue` speaks of the behaviours up to the first message that fails or the first
wait that is given up (`faults`): after either, a call may return success without its
work done (see Findings). `Faithful` says what the owner of the lock has done of its
call: with `Upto(t, n)`, what the flash holds when the call has been done below the
address n, the flash is at the start of the unit the call works on (`StartOf`) until the
chip has finished and at its end (`EndOf`) from then on, and outside calls it is what
the callers believe. `ErasesSector` and `WritesPage` say that one command takes the
flash from the one to the other, `NextUnitIs` that the next unit starts there,
`BelowStart` and `BehindEnd` that the first and the last unit leave nothing out;
`Units` and `PageHolds` are the arithmetic of pages and sectors, `SentWhole`,
`StatusTrue` and `EnabledTrue` what a message that passes does.

### The heap (`DeviceProofs`)

For every size, alignment and base address of the heap, any header and least size, any
threads, sizes and alignments asked for and any number of blocks (`HeapAssumption`), and
under two hypotheses that are both needed. `Rounds`: no size is so large that
rounding it up wraps (the setting `wrapped` violates `HeapRight`). `Undisturbed`: the
kernel creates its objects from a heap that one thread uses, or not from this heap (the
setting `object` violates `HeapRight`).

`HeapRight` speaks of the moments when nobody has the lock, and of the blocks in the
hands of the program. `HeapInv` extends it over the steps of the allocator:

* `Sound(h, X)`: `Chain`, the items follow one another from 0 to the end and link back;
  `Lowest`, lfree is the lowest free item; `Apart`, no two free items are neighbours,
  except for those in `X`, whose holes are about to be plugged; and the reported use is
  the number of bytes in the items in use;
* `Shared`: each item in use is in the hands of exactly one holder or one call (`Has`): a
  realloc has two for a while, a failed one keeps the old block, and one that moved has
  freed it before it returns;
* `CallGood`, `CallFits`: which steps a call can be at, and what it relies on in the heap
  when it goes on: the item that was found is free and large enough, the item to be
  plugged is free, the block to be returned has room;
* `BlockGood`: the address returned for a block is aligned and has the room behind it.

The lemmas come in three layers. `MergedChain`, `SplitChain` and `MarkedIs` say what one
change of links does to the chain; `PluggedSound`, `FreedSound`, `ShrunkSound` and
`AllocatedSound` what a step of `mem.c` does to `Sound`, with the bytes counted by
`BytesMore` and the lowest free item by `LeastIs`; `AlignedIs`, `RoundedIs`, `AddressIs`
and `AskedIs` are the arithmetic of rounding, which says where `Rounds` is used. Then
there is a lemma for each step of a call (`FindStep`, `TakeStep`, `FreeStep`, `PlugStep`,
`ReallocStep`, `UnlockStep`, ...), most of them by `WorkStep`: who has the lock changes the
items in its hands only, so that nobody else notices. `SearchComplete` rests on
`FirstFitIs`: since lfree is the lowest free item and the last place looked at is the last
where the size fits, the search passes none over.

### The metadata pair (`LfsPairProofs`)

For every set of values and blocks, any log size and number of erase cycles
(`PairAssumption`). `Inv` says which blocks are whole, that the revision of the newer
one is ahead by one, and what a commit in progress has done to the block it works on.
`NewerFound`, `EmptyNotFound` and `AppendedFound` say what a mount finds then;
`PairImplementsCommit` has the value change when the checksum of a commit is written,
or when the parent refers to the new pair, and `MountedTrue` that the directory in
memory agrees between commits.

## What is only model-checked, and what is not modelled

Out of the prover's reach: liveness and anything under fairness (`EventuallyHandled`,
`Served`, `CallbacksCome`, `SlicesFair`, `CallsReturn`, `OperationEnds`); facts by
induction over data; recursive operators, which `LfsTree`, `LfsCtz`, `LfsList` and `LfsFile`
are written with, so that nothing of theirs is proved. Within reach and only
model-checked so far: the objects, the timers and the exact boost (`BoostRight`,
`InheritHolds`).

Assumptions of the models, beside the constants named above:

* Disabling the SPI drops the byte in its buffer; the receiving DMA stores a byte at
  once.
* Heap: headers that are merged away are forgotten, the statistics are left out, and
  the branches of `plug_holes` that move `lfree` to a merged block, which cannot be
  taken there, are left out.
* `LfsTree`: a directory fits its pair, so that there are no hard tails; the pair of the
  superblock does not move; the directory in memory is that on disk; the lookahead is one
  scan of the whole disk.
* `LfsFile`: no read errors; one handle; a pointer takes one cell; the allocator
  takes the lowest free block and scans again when it has none. Bad blocks are combined
  with files of one block only.

Not modelled:

* Watchdog, safety classes, zones: compiled in, used by no program of the repository.
* Stack watermark, names, memory of control blocks: no effect on control in this
  configuration (`OS_DYNAMIC_MEM_SIZE` is 0).
* The SysTick driver: register access; its contract is an assumption of the models.
* Shell: line editing and command lookup, sequential.
* littlefs: several handles of one file, attributes, reading of directories,
  splitting of directories, format, growing, migration.
* Event recorder, formatting, C library hooks, peripheral library, CMSIS, start-up
  assembly, the demonstration application: register access or no state that matters.


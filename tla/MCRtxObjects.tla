----------------------------- MODULE MCRtxObjects -----------------------------
(***************************************************************************)
(* Instances of the objects of RTX5 for TLC: semaphores, event flags,      *)
(* thread flags, message queues and memory pools beside interrupts.  The   *)
(* objects share nothing but the kernel and the ISR queue; a behaviour is  *)
(* one of a few settings, each with objects of one kind, chosen at the     *)
(* start.  The variables of the other kinds stay unused.                   *)
(***************************************************************************)
EXTENDS RtxIsr, FiniteSets, TLC

CONSTANTS a, b, c, o1, o2, b1, b2, x, y, z,  \* model values
          NoMessage,
          Settings  \* the settings of this run

VARIABLES setting,
          sems, tokens, held,                   \* RtxSemaphore
          efs, flags, wait,                     \* RtxEventFlags, RtxThreadFlags
          exists, free,                         \* RtxMessageQueue, RtxMemoryPool
          list, count, taken, data, arg, inFlight,
          used, lent

semVars  == << sems, tokens, held >>
flagVars == << flags, wait >>
mqVars   == << list, count, taken, data, arg, inFlight >>
poolVars == << used, lent >>
allVars  == << setting, k, tick, posted, svc, semVars, efs, flagVars, exists, free,
               mqVars, poolVars >>

\* One thread program waits for both flags, one for the first, and one looks at
\* them only.
MCConditions ==
  {[flags |-> {1, 2}, all |-> TRUE, noClear |-> FALSE],
   [flags |-> {1}, all |-> FALSE, noClear |-> FALSE],
   [flags |-> {1, 2}, all |-> FALSE, noClear |-> TRUE]}

\* semaphore, eventFlags, threadFlags, pool: every service of threads and
\* interrupts.  priority: event flags, with priorities that change and no
\* interrupts.  put, get: a queue whose threads wait to put or to get.  mixed:
\* they wait for both.
Bounds ==
  [semaphore   |-> [calls |-> {"SemaphoreNew", "SemaphoreAcquire", "SemaphoreRelease",
                               "SemaphoreDelete", "Terminate", "Resume", "Lock"},
                    threads |-> {a, b}, objects |-> {o1, o2}, priorities |-> {1, 2},
                    delays |-> {1}, posts |-> 2, isr |-> {"Acquire", "Release"}],
   eventFlags  |-> [calls |-> {"EventFlagsNew", "EventFlagsSet", "EventFlagsClear",
                               "EventFlagsWait", "EventFlagsDelete", "Terminate"},
                    threads |-> {a, b}, objects |-> {o1}, priorities |-> {1, 2},
                    delays |-> {}, posts |-> 1, isr |-> {"Set", "Wait"}],
   priority    |-> [calls |-> {"EventFlagsNew", "EventFlagsSet", "EventFlagsWait",
                               "SetPriority"},
                    threads |-> {a, b, c}, objects |-> {o1}, priorities |-> {1, 2},
                    delays |-> {}, posts |-> 1, isr |-> {}],
   threadFlags |-> [calls |-> {"FlagsSet", "FlagsClear", "FlagsWait", "New", "Exit"},
                    threads |-> {a, b}, objects |-> {}, priorities |-> {1},
                    delays |-> {}, posts |-> 1, isr |-> {}],
   put         |-> [calls |-> {"MessageQueueNew", "Put", "Get", "Reset", "Resume"},
                    threads |-> {a, b, c}, objects |-> {o1}, priorities |-> {1},
                    delays |-> {}, posts |-> 2, isr |-> {"Put", "Get"}],
   get         |-> [calls |-> {"MessageQueueNew", "Put", "Get", "Reset",
                               "MessageQueueDelete", "Terminate"},
                    threads |-> {a, b}, objects |-> {o1}, priorities |-> {1},
                    delays |-> {}, posts |-> 2, isr |-> {"Put"}],
   mixed       |-> [calls |-> {"MessageQueueNew", "Put", "Get", "Reset",
                               "MessageQueueDelete", "Terminate"},
                    threads |-> {a, b}, objects |-> {o1}, priorities |-> {1, 2},
                    delays |-> {}, posts |-> 2, isr |-> {"Put", "Get"}],
   pool        |-> [calls |-> {"MemoryPoolNew", "Alloc", "Free", "MemoryPoolDelete",
                               "Terminate", "Resume"},
                    threads |-> {a, b, c}, objects |-> {o1}, priorities |-> {1},
                    delays |-> {1}, posts |-> 2, isr |-> {"Alloc", "Free"}]]

ThreadsIn(s) == Bounds[s].threads \cup {Idle}

Semaphores(s) == INSTANCE RtxSemaphore WITH
  Thread <- ThreadsIn(s), Object <- Bounds[s].objects, Calls <- Bounds[s].calls,
  Priority <- Bounds[s].priorities, Delays <- Bounds[s].delays,
  PostLimit <- Bounds[s].posts, IsrCalls <- Bounds[s].isr, MaxTokens <- 2

EventFlags(s) == INSTANCE RtxEventFlags WITH
  Thread <- ThreadsIn(s), Object <- Bounds[s].objects, Calls <- Bounds[s].calls,
  Priority <- Bounds[s].priorities, Delays <- Bounds[s].delays,
  PostLimit <- Bounds[s].posts, IsrCalls <- Bounds[s].isr,
  Flag <- {1, 2},
  Conditions <- {w \in MCConditions : s = "priority" => ~w.noClear}

ThreadFlags(s) == INSTANCE RtxThreadFlags WITH
  Thread <- ThreadsIn(s), Object <- Bounds[s].objects, Calls <- Bounds[s].calls,
  Priority <- Bounds[s].priorities, Delays <- Bounds[s].delays,
  PostLimit <- Bounds[s].posts, Flag <- {1, 2}, Conditions <- MCConditions

Queues(s) == INSTANCE RtxMessageQueue WITH
  Thread <- ThreadsIn(s), Object <- Bounds[s].objects, Calls <- Bounds[s].calls,
  Priority <- Bounds[s].priorities, Delays <- Bounds[s].delays,
  PostLimit <- Bounds[s].posts, IsrCalls <- Bounds[s].isr,
  Queue <- o1, Block <- {b1, b2}, Message <- {x, y, z}, Urgent <- {z},
  GetsWait <- s # "put"

Pools(s) == INSTANCE RtxMemoryPool WITH
  Thread <- ThreadsIn(s), Object <- Bounds[s].objects, Calls <- Bounds[s].calls,
  Priority <- Bounds[s].priorities, Delays <- Bounds[s].delays,
  PostLimit <- Bounds[s].posts, IsrCalls <- Bounds[s].isr,
  Pool <- o1, Block <- {b1, b2}

\* The settings with each kind of object.
WithSemaphores  == Settings \cap {"semaphore"}
WithEventFlags  == Settings \cap {"eventFlags", "priority"}
WithThreadFlags == Settings \cap {"threadFlags"}
WithQueues      == Settings \cap {"put", "get", "mixed"}
WithPools       == Settings \cap {"pool"}

ASSUME ObjectsAssumption ==
  /\ \A s \in WithSemaphores : Semaphores(s)!SemaphoreAssumption
  /\ \A s \in WithEventFlags : EventFlags(s)!EventFlagsAssumption
  /\ \A s \in WithThreadFlags : ThreadFlags(s)!ThreadFlagsAssumption
  /\ \A s \in WithQueues : Queues(s)!MessageQueueAssumption
  /\ \A s \in WithPools : Pools(s)!MemoryPoolAssumption

NoSemaphores == sems = {} /\ tokens = {} /\ held = {}
NoFlags      == flags = {} /\ wait = {}
NoQueues     == list = {} /\ count = {} /\ taken = {} /\ data = {} /\ arg = {}
                  /\ inFlight = {}
NoPools      == used = {} /\ lent = {}
NoBlocks     == exists = {} /\ free = {}

MCInit ==
  \/ /\ \E s \in WithSemaphores : setting = s /\ Semaphores(s)!SemaphoreInit
     /\ efs = {} /\ NoFlags /\ NoBlocks /\ NoQueues /\ NoPools
  \/ /\ \E s \in WithEventFlags : setting = s /\ EventFlags(s)!EventFlagsInit
     /\ NoSemaphores /\ NoBlocks /\ NoQueues /\ NoPools
  \/ /\ \E s \in WithThreadFlags : setting = s /\ ThreadFlags(s)!ThreadFlagsInit
     /\ NoSemaphores /\ efs = {} /\ NoBlocks /\ NoQueues /\ NoPools
  \/ /\ \E s \in WithQueues : setting = s /\ Queues(s)!MessageQueueInit
     /\ NoSemaphores /\ efs = {} /\ NoFlags /\ NoPools
  \/ /\ \E s \in WithPools : setting = s /\ Pools(s)!MemoryPoolInit
     /\ NoSemaphores /\ efs = {} /\ NoFlags /\ NoQueues

MCNext ==
  \/ /\ \E s \in WithSemaphores : setting = s /\ Semaphores(s)!SemaphoreNext
     /\ UNCHANGED << setting, efs, flagVars, exists, free, mqVars, poolVars >>
  \/ /\ \E s \in WithEventFlags : setting = s /\ EventFlags(s)!EventFlagsNext
     /\ UNCHANGED << setting, semVars, exists, free, mqVars, poolVars >>
  \/ /\ \E s \in WithThreadFlags : setting = s /\ ThreadFlags(s)!ThreadFlagsNext
     /\ UNCHANGED << setting, semVars, efs, exists, free, mqVars, poolVars >>
  \/ /\ \E s \in WithQueues : setting = s /\ Queues(s)!MessageQueueNext
     /\ UNCHANGED << setting, semVars, efs, flagVars, poolVars >>
  \/ /\ \E s \in WithPools : setting = s /\ Pools(s)!MemoryPoolNext
     /\ UNCHANGED << setting, semVars, efs, flagVars, mqVars >>

MCSpec == MCInit /\ [][MCNext]_allVars

-----------------------------------------------------------------------------

\* The waiting threads are in the lists of existing objects, once each, whatever
\* ends a wait: an interrupt's post, a service, a timeout, a delete, a
\* termination (rtx_semaphore.c, rtx_evflags.c, rtx_msgqueue.c, rtx_mempool.c).
ObjectsLinked ==
  /\ \A s \in WithSemaphores : setting = s => Semaphores(s)!SemaphoreLinked
  /\ \A s \in WithEventFlags : setting = s => EventFlags(s)!EventFlagsLinked
  /\ \A s \in WithQueues : setting = s => Queues(s)!MessageQueueLinked
  /\ \A s \in WithPools : setting = s => Pools(s)!MemoryPoolLinked

\* Tokens, messages and blocks are neither lost nor doubled nor miscounted, by
\* threads and interrupts that overtake one another.
Conserved ==
  /\ \A s \in WithSemaphores : setting = s => Semaphores(s)!TokensConserved
  /\ \A s \in WithQueues :
       setting = s => Queues(s)!MessagesConserved /\ Queues(s)!BlocksConserved
  /\ \A s \in WithPools :
       setting = s => Pools(s)!BlocksConserved /\ Pools(s)!CountRight

\* No lost wake-up: a thread waits for what is there only while the object is
\* posted or the handler in progress has still to come to it, above all when an
\* interrupt comes between the check of a service and its wait.
NobodyOverlooked ==
  /\ \A s \in WithSemaphores : setting = s => Semaphores(s)!WaiterPosted
  /\ \A s \in WithEventFlags : setting = s => EventFlags(s)!NoneOverlooked
  /\ \A s \in WithThreadFlags : setting = s => ThreadFlags(s)!NoneOverlooked
  /\ \A s \in WithQueues : setting = s => Queues(s)!NobodyForgotten
  /\ \A s \in WithPools : setting = s => Pools(s)!NobodyForgotten

\* A wait for thread flags ends because they were set, and consumes them
\* (osRtxThreadPostProcess, svcRtxThreadFlagsSet).
FlagsHonoured ==
  [][\A s \in WithThreadFlags :
       setting = s => ThreadFlags(s)!FlagsWake /\ ThreadFlags(s)!FlagsConsumed]_allVars

\* Priorities are kept: of the threads, when event flags are given to those that
\* wait (osRtxEventFlagsPostProcess), and of the messages in a queue
\* (MessageQueuePut).
ServedInOrder ==
  [][/\ \A s \in WithEventFlags \cap {"priority"} :
          setting = s => EventFlags(s)!HighestServed
     /\ \A s \in WithQueues : setting = s => Queues(s)!QueuedInOrder]_allVars

\* The threads, blocks and messages of one priority are interchangeable.
Symmetry ==
  Permutations({a, b}) \cup Permutations({b1, b2}) \cup Permutations({x, y})
=============================================================================

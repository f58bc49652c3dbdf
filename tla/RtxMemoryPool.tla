----------------------------- MODULE RtxMemoryPool -----------------------------
(***************************************************************************)
(* Memory pools of RTX5 (rtx_mempool.c): a free list of blocks that        *)
(* threads and interrupts take blocks from and put them back to, a count   *)
(* of the blocks in use, and threads that wait for a block.                *)
(*                                                                         *)
(* The free list and the count change by one atomic access each, and       *)
(* interrupts come between the two.  Pools share nothing: Pool is the only *)
(* object.                                                                 *)
(***************************************************************************)
EXTENDS RtxIsr, FiniteSets

CONSTANTS Pool,     \* the memory pool
          Block,    \* its blocks
          IsrCalls  \* the services interrupts call: "Alloc", "Free"

MemoryPoolAssumption ==
  /\ Object = {Pool} /\ Mutex = {}
  /\ IsFiniteSet(Block)
  /\ IsrCalls \subseteq {"Alloc", "Free"}

VARIABLES exists,  \* whether the pool has been created
          free,    \* the list from block_free on
          used,    \* used_blocks
          lent     \* history: the blocks that programs hold

poolVars == << exists, free, used, lent >>
allVars  == << k, tick, posted, svc, poolVars >>

MemoryPoolInit ==
  /\ Init /\ IsrInit
  /\ exists = FALSE
  /\ free = << >>
  /\ used = 0
  /\ lent = {}

Waiters == k.list[Pool]

\* A handler goes on with what.
GoOn(what) == svc' = what /\ UNCHANGED << k, tick, posted >>

\* The list of osRtxMemoryPoolAlloc, in one atomic access ...
LinkGet == free # << >> /\ free' = Tail(free)

\* [mutant] the list is cut off
LinkPutOver(b) == free' = << b >>

\* ... and that of osRtxMemoryPoolFree
LinkPut(b) == free' = << b >> \o free

-----------------------------------------------------------------------------

\* svcRtxMemoryPoolNew, osRtxMemoryPoolInit
MemoryPoolNew ==
  /\ Service("MemoryPoolNew")
  /\ ~exists
  /\ exists' = TRUE
  /\ \E q \in SetToSeqs(Block) : free' = q
  /\ used' = 0
  /\ lent' = {}
  /\ UNCHANGED << k, tick >>

\* [mutant] a block that is there is not counted
AllocUncounted ==
  /\ Service("Alloc")
  /\ exists /\ LinkGet
  /\ lent' = lent \cup {Head(free)}
  /\ UNCHANGED << k, tick, exists, used >>

\* svcRtxMemoryPoolAlloc gets a block ...
Alloc ==
  /\ Quiet /\ Call("Alloc")
  /\ exists /\ LinkGet
  /\ lent' = lent \cup {Head(free)}
  /\ GoOn([what |-> "AllocCount"])
  /\ UNCHANGED << exists, used >>

\* ... and counts it
AllocCount ==
  /\ At("AllocCount")
  /\ used' = used + 1
  /\ GoOn(Chained(k))
  /\ UNCHANGED << exists, free, lent >>

\* ... or gets none, and is given a timeout
AllocNone(timeout) ==
  /\ exists /\ free = << >>
  /\ Enter("Alloc", [what |-> "Wait", timeout |-> timeout])
  /\ UNCHANGED poolVars

AllocWait ==
  /\ At("Wait")
  /\ Leave(WaitFor(Pool, "WaitingMemoryPool", svc.timeout))
  /\ UNCHANGED poolVars

\* svcRtxMemoryPoolFree of a block that was lent puts it back ...
Free(b) ==
  /\ Quiet /\ Call("Free")
  /\ exists /\ b \in lent
  /\ LinkPut(b)
  /\ lent' = lent \ {b}
  /\ GoOn([what |-> "FreeCount"])
  /\ UNCHANGED << exists, used >>

\* [mutant] waiting threads are left to the next post-processing
FreeCountOnly ==
  /\ At("FreeCount")
  /\ used' = used - 1
  /\ GoOn(Chained(k))
  /\ UNCHANGED << exists, free, lent >>

\* ... counts it
FreeCount ==
  /\ At("FreeCount")
  /\ used' = used - 1
  /\ GoOn(IF Waiters = << >> THEN Chained(k)
          ELSE [what |-> "Give", by |-> "Free"])
  /\ UNCHANGED << exists, free, lent >>

\* ... and gets one for the first waiter, unless an interrupt has taken it
Give ==
  /\ At("Give")
  /\ IF free = << >>
     THEN /\ svc' = IF svc.by = "Free" THEN Chained(k) ELSE [what |-> "PendSV"]
          /\ UNCHANGED << free, lent >>
     ELSE /\ LinkGet
          /\ lent' = lent \cup {Head(free)}
          /\ svc' = [what |-> "GiveCount", by |-> svc.by]
  /\ UNCHANGED << k, tick, posted, exists, used >>

\* [mutant] the thread is woken up but stays in the list of the pool
GiveCountLinked ==
  /\ At("GiveCount")
  /\ used' = used + 1
  /\ k' = ThreadWaitExit(k, Head(Waiters))
  /\ svc' = IF svc.by = "Free" THEN Chained(k) ELSE [what |-> "PendSV"]
  /\ UNCHANGED << tick, posted, exists, free, lent >>

\* ... counts it and wakes the waiter
GiveCount ==
  /\ At("GiveCount")
  /\ used' = used + 1
  /\ IF svc.by = "Free"
     THEN Leave(WakeFirstDispatch(k, Pool))
     ELSE k' = WakeFirst(k, Pool) /\ svc' = [what |-> "PendSV"] /\ UNCHANGED << tick, posted >>
  /\ UNCHANGED << exists, free, lent >>

\* svcRtxMemoryPoolDelete
MemoryPoolDelete ==
  /\ Service("MemoryPoolDelete")
  /\ exists
  /\ Return(WakeAll(k, Pool))
  /\ exists' = FALSE
  /\ UNCHANGED << free, used, lent >>

-----------------------------------------------------------------------------
(* Calls from interrupts: both accesses of an interrupt are one step. *)

\* isrRtxMemoryPoolAlloc
IsrAlloc ==
  /\ "Alloc" \in IsrCalls
  /\ Interrupt
  /\ exists /\ LinkGet
  /\ used' = used + 1
  /\ lent' = lent \cup {Head(free)}
  /\ UNCHANGED << posted, exists >>

\* [mutant] posted only when somebody waits at the moment
IsrFreeSeen(b) ==
  /\ "Free" \in IsrCalls
  /\ Interrupt
  /\ exists /\ b \in lent
  /\ LinkPut(b)
  /\ used' = used - 1
  /\ lent' = lent \ {b}
  /\ IF Waiters = << >> THEN UNCHANGED posted ELSE PostProcess(Pool)
  /\ UNCHANGED exists

\* isrRtxMemoryPoolFree
IsrFree(b) ==
  /\ "Free" \in IsrCalls
  /\ Interrupt
  /\ exists /\ b \in lent
  /\ LinkPut(b)
  /\ used' = used - 1
  /\ lent' = lent \ {b}
  /\ PostProcess(Pool)
  /\ UNCHANGED exists

\* osRtxMemoryPoolPostProcess; a deleted pool is passed over
MemoryPoolPostProcess ==
  /\ At("PendSV") /\ posted # << >>
  /\ posted' = Tail(posted)
  /\ svc' = IF exists /\ Waiters # << >> THEN [what |-> "Give", by |-> "PendSV"]
            ELSE svc
  /\ UNCHANGED << k, tick, poolVars >>

-----------------------------------------------------------------------------

Services ==
  \/ MemoryPoolNew
  \/ Alloc
  \/ \E timeout \in Delays \cup {Forever} : AllocNone(timeout)
  \/ \E b \in Block : Free(b)
  \/ MemoryPoolDelete

Interrupts == IsrAlloc \/ \E b \in Block : IsrFree(b)

\* What is left of a handler that has started.
Rest == AllocCount \/ AllocWait \/ FreeCount \/ Give \/ GiveCount

PendSV ==
  \/ PendSVEntry /\ UNCHANGED poolVars
  \/ MemoryPoolPostProcess
  \/ PendSVExit /\ UNCHANGED poolVars

MemoryPoolNext ==
  \/ ThreadStep /\ UNCHANGED poolVars
  \/ Services
  \/ Rest
  \/ Interrupts
  \/ PendSV

MemoryPoolSpec == MemoryPoolInit /\ [][MemoryPoolNext]_allVars

-----------------------------------------------------------------------------
(* Properties. *)

\* Every block is in the free list once or lent to one program, whatever
\* interrupts take and put back in the middle of a service.
BlocksConserved ==
  exists =>
    /\ NoDuplicates(free)
    /\ ToSet(free) \cup lent = Block
    /\ ToSet(free) \cap lent = {}

\* The count of used blocks is right whenever no service is between its access
\* to the list and its access to the count, and off by one otherwise.
CountRight ==
  exists =>
    used = Cardinality(lent)
             + (IF At("FreeCount") THEN 1
                ELSE IF At("AllocCount") \/ At("GiveCount") THEN -1 ELSE 0)

\* The waiting threads are in the list of the pool, once each.
MemoryPoolLinked ==
  /\ WaitersLinked({"WaitingMemoryPool"})
  /\ ~exists => Waiters = << >>

\* No lost wake-up: nobody waits beside a free block unless a service is about
\* to give it or the pool is posted.
NobodyForgotten ==
  exists /\ Waiters # << >> /\ free # << >>
    => posted # << >> \/ At("FreeCount") \/ At("Give") \/ At("GiveCount")

\* What an interrupt is told is in the pool's range: the number of blocks used
\* and, as the difference to the maximum, the number available.
SpaceInRange == exists => used \in 0..Cardinality(Block)
=============================================================================

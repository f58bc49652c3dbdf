------------------------------- MODULE RtHeap ------------------------------
(***************************************************************************)
(* The heap that the threads share (kservice.c): rt_malloc, rt_realloc,    *)
(* rt_calloc, rt_free and the aligned pair work on it under a mutex.  The  *)
(* steps of different threads interleave, and the kernel takes memory for  *)
(* its objects from the same heap, in the handler of a service call        *)
(* (osRtxMemoryAlloc), where the mutex cannot be taken.                    *)
(***************************************************************************)
EXTENDS RtMem

CONSTANTS Thread, NoThread,
          Sizes,       \* the sizes that are asked for
          Alignments,  \* the alignments asked of rt_malloc_align, powers of 2
          Base,        \* the address of the heap modulo the alignments
          MaxBlocks,   \* a bound on the blocks held at a time
          ObjectSizes  \* the sizes of the objects that the kernel allocates

HeapAssumption ==
  /\ MemAssumption
  /\ NoThread \notin Thread
  /\ Sizes \subseteq Nat /\ ObjectSizes \subseteq Nat /\ Alignments \subseteq Nat \ {0}
  /\ Base \in Nat /\ Base % Align = 0

VARIABLES heap, lock,
          asked,        \* for each thread, the call it is in
          held         \* the blocks that the program holds

heapVars == << heap, lock, asked, held >>

Idle == [at |-> "idle", op |-> "none", ptr |-> Null, size |-> 0, align |-> 0,
         found |-> Null]

HeapInit ==
  /\ heap = Fresh /\ lock = NoThread
  /\ asked = [t \in Thread |-> Idle]
  /\ held = {}

----------------------------------------------------------------------------
\* What a block is to its holder: where it begins, the address that was
\* returned, and the size that was asked for.
Block(ptr, size, align) ==
  [ptr |-> ptr, size |-> size, align |-> align,
   user |-> IF align = 0 THEN ptr + Header
            ELSE AlignedAddress(Base + ptr + Header, Aligned(align)) - Base]

Begin(t, op, ptr, size, align) ==
  /\ asked[t] = Idle
  /\ asked' = [asked EXCEPT ![t] = [at |-> "lock", op |-> op, ptr |-> ptr,
                                  size |-> size, align |-> align, found |-> Null]]
  /\ UNCHANGED << heap, lock >>

Malloc(t, size) ==
  /\ Cardinality(held) < MaxBlocks
  /\ Begin(t, "malloc", Null, size, 0) /\ UNCHANGED held

\* The product wraps; zeroing the block changes nothing that is modelled.
Calloc(t, count, size) ==
  /\ Cardinality(held) < MaxBlocks
  /\ Begin(t, "malloc", Null, (count * size) % Width, 0) /\ UNCHANGED held

MallocAlign(t, size, align) ==
  /\ Cardinality(held) < MaxBlocks
  /\ Begin(t, "malloc", Null, size, align) /\ UNCHANGED held

\* A block is given back by who holds it, once; it is handed over for the call.
Realloc(t, b, size) ==
  /\ b.user = b.ptr + Header
  /\ Begin(t, "realloc", b.ptr, size, 0) /\ held' = held \ {b}

\* rt_free, and rt_free_align, which reads the address of the block
Free(t, b) == Begin(t, "free", b.ptr, 0, 0) /\ held' = held \ {b}

\* [mutant] The lock is not waited for.
HeapLockAnyway(t) ==
  /\ asked[t].at = "lock"
  /\ lock' = t
  /\ asked' = [asked EXCEPT ![t].at =
       CASE asked[t].op = "malloc" -> "find"
         [] asked[t].op = "free" -> "free"
         [] OTHER -> "realloc"]
  /\ UNCHANGED << heap, held >>

\* _heap_lock
HeapLock(t) ==
  /\ asked[t].at = "lock" /\ lock = NoThread
  /\ lock' = t
  /\ asked' = [asked EXCEPT ![t].at =
       CASE asked[t].op = "malloc" -> "find"
         [] asked[t].op = "free" -> "free"
         [] OTHER -> "realloc"]
  /\ UNCHANGED << heap, held >>

\* [mutant] An aligned block takes no room for its alignment but the word.
AskedNoRoom(c) ==
  IF c.align = 0 THEN c.size ELSE (Aligned(c.size) + Align) % Width

\* What rt_smem_alloc is asked for: an aligned block takes room for its
\* alignment.
Asked(c) ==
  IF c.align = 0 THEN c.size ELSE (Aligned(c.size) + Aligned(c.align)) % Width

Find(t) ==
  /\ asked[t].at = "find"
  /\ LET size == Rounded(Asked(asked[t]))
         p == IF Asked(asked[t]) = 0 \/ size > Total THEN Null ELSE FirstFit(heap, size)
     IN  asked' = [asked EXCEPT ![t].found = p,
                              ![t].at = IF p = Null THEN "unlock" ELSE "take"]
  /\ UNCHANGED << heap, lock, held >>

\* The old block of a realloc is freed after its bytes were copied.
Take(t) ==
  /\ asked[t].at = "take"
  /\ heap' = Allocated(heap, asked[t].found, Rounded(Asked(asked[t])))
  /\ asked' = [asked EXCEPT ![t].at = IF asked[t].op = "realloc"
                                      THEN "free" ELSE "unlock"]
  /\ UNCHANGED << lock, held >>

FreeItem(t) ==
  /\ asked[t].at = "free"
  /\ heap' = Freed(heap, asked[t].ptr)
  /\ asked' = [asked EXCEPT ![t].at = "plug"]
  /\ UNCHANGED << lock, held >>

\* The item to be merged: the one that was freed, or the end cut off.
Plug(t) ==
  /\ asked[t].at \in {"plug", "cut"}
  /\ heap' = Plugged(heap, IF asked[t].at = "plug" THEN asked[t].ptr
                           ELSE heap.item[asked[t].ptr].next)
  /\ asked' = [asked EXCEPT ![t].at = "unlock"]
  /\ UNCHANGED << lock, held >>

\* rt_smem_realloc, up to the allocation of another block
ReallocItem(t) ==
  /\ asked[t].at = "realloc"
  /\ LET p == asked[t].ptr
         n == Aligned(asked[t].size)
         to(at, found) == asked' = [asked EXCEPT ![t].at = at, ![t].found = found]
     IN  \/ n > Total /\ to("unlock", Null) /\ UNCHANGED heap
         \/ n = 0 /\ to("free", Null) /\ UNCHANGED heap
         \/ n # 0 /\ n = Room(heap, p) /\ to("unlock", p) /\ UNCHANGED heap
         \/ /\ n # 0 /\ n + Header + MinSize < Room(heap, p)
            /\ heap' = Shrunk(heap, p, n) /\ to("cut", p)
         \/ /\ n \notin {0, Room(heap, p)} /\ n <= Total
            /\ n + Header + MinSize >= Room(heap, p)
            /\ to("find", Null) /\ UNCHANGED heap
  /\ UNCHANGED << lock, held >>

\* _heap_unlock, and the return.  A realloc that failed leaves the old block
\* with its holder, who is taken not to use its size for anything.
HeapUnlock(t) ==
  /\ asked[t].at = "unlock"
  /\ lock' = NoThread
  /\ held' = held \cup
       (IF asked[t].found # Null
          THEN {Block(asked[t].found, asked[t].size, asked[t].align)}
        ELSE IF asked[t].op = "realloc" /\ asked[t].size # 0
          THEN {Block(asked[t].ptr, 0, 0)} ELSE {})
  /\ asked' = [asked EXCEPT ![t] = Idle]
  /\ UNCHANGED heap

\* A service call that creates an object, by a thread that is in none of the
\* functions above: osMutexAcquire returns an error in the handler, which
\* _heap_lock passes on and rt_malloc ignores.
KernelAlloc(t, size) ==
  /\ asked[t] = Idle /\ Cardinality(held) < MaxBlocks
  /\ LET p == FirstFit(heap, Rounded(size))
     IN  /\ p # Null
         /\ heap' = Allocated(heap, p, Rounded(size))
         /\ held' = held \cup {Block(p, size, 0)}
  /\ UNCHANGED << lock, asked >>

ThreadStep(t) ==
  \/ \E n \in Sizes : Malloc(t, n) \/ Calloc(t, 2, n)
  \/ \E n \in Sizes, a \in Alignments : MallocAlign(t, n, a)
  \/ \E b \in held : Free(t, b) \/ \E n \in Sizes \cup {0} : Realloc(t, b, n)
  \/ HeapLock(t) \/ Find(t) \/ Take(t) \/ FreeItem(t) \/ Plug(t)
  \/ ReallocItem(t) \/ HeapUnlock(t)
  \/ \E n \in ObjectSizes : KernelAlloc(t, n)

HeapNext == \E t \in Thread : ThreadStep(t)

HeapSpec == HeapInit /\ [][HeapNext]_heapVars

\* No size is so large that rounding it up wraps.
Rounds ==
  /\ \A n \in Sizes \cup ObjectSizes : 2 * n + Align <= Width
  /\ \A n \in Sizes, a \in Alignments : n + a + 3 * Align <= Width

\* The handlers of the kernel find nobody at work on the heap.
Undisturbed == ObjectSizes = {} \/ \A t, u \in Thread : t = u

----------------------------------------------------------------------------
\* While nobody works on the heap the items form a chain from its start to
\* its end that links back, the lowest free item is where it is said to be,
\* and no two free items are neighbours (plug_holes).
ChainOK ==
  lock = NoThread =>
    LET I == Items(heap)
    IN  /\ IsHeap(heap)
        /\ 0 \in I /\ heap.item[0].prev = 0
        /\ \A p \in I : /\ heap.item[p].next \in I \cup {End}
                        /\ Room(heap, p) > 0
                        /\ \A q \in I : q <= p \/ q >= heap.item[p].next
                        /\ heap.item[p].next # End =>
                             /\ heap.item[heap.item[p].next].prev = p
                             /\ heap.item[p].used \/ heap.item[heap.item[p].next].used
        /\ heap.lfree = Min({End} \cup {p \in I : ~heap.item[p].used})

\* While nobody works on the heap, an item is in use if and only if one
\* holder, or one call that has not begun, has it, and the use that
\* rt_memory_info reports is the bytes these take: nothing leaks.
Conserved ==
  lock = NoThread =>
    LET taken == {b.ptr : b \in held} \cup ({asked[t].ptr : t \in DOMAIN asked} \ {Null})
    IN  /\ {p \in Items(heap) : heap.item[p].used} = taken
        /\ heap.used = Cardinality(UNION {p..heap.item[p].next - 1 : p \in taken})

\* A block that is held is one item, in use, which has room for the size
\* that was asked for from the address that was returned on, also while
\* others work on the heap; an aligned address is one, and the word before it
\* belongs to the block (rt_malloc, rt_realloc, rt_malloc_align).
HeldWhole ==
  /\ \A b, c \in held : b.ptr = c.ptr => b = c
  /\ \A b \in held :
       /\ b.ptr \in Items(heap) /\ heap.item[b.ptr].used
       /\ b.user + b.size <= heap.item[b.ptr].next
       /\ b.align = 0 => b.user = b.ptr + Header
       /\ b.align # 0 => /\ (Base + b.user) % Aligned(b.align) = 0
                         /\ b.user - Align >= b.ptr + Header

\* The items of the heap form a chain without neighbouring free items, an item is
\* used if and only if somebody has it, and it has room for what was asked
\* (plug_holes, rt_smem_alloc, rt_smem_realloc, rt_smem_free, rt_malloc_align).
HeapRight == ChainOK /\ Conserved /\ HeldWhole

\* An allocation fails only if no free item is large enough: the search,
\* which starts at lfree, passes none over (rt_smem_alloc).
FailsOnlyFull ==
  [][\A t \in DOMAIN asked : asked[t].at = "find" /\ asked'[t].at = "unlock" =>
       \/ Asked(asked[t]) = 0
       \/ \A p \in Items(heap) : \/ heap.item[p].used
                                 \/ Room(heap, p) < Rounded(Asked(asked[t]))]_heapVars
=============================================================================

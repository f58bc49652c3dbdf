------------------------------- MODULE RtMem -------------------------------
(***************************************************************************)
(* The small memory management of RT-Thread (mem.c).  The heap is a chain  *)
(* of items, each a header and the bytes up to the next item; lfree is the *)
(* lowest item that is free.  These are the steps the allocator takes on   *)
(* the heap; who may take them, and when, is the matter of RtHeap.         *)
(*                                                                         *)
(* An item is named by its offset.  The headers that are merged away are   *)
(* forgotten.  The statistics of the largest use are left out.             *)
(***************************************************************************)
EXTENDS Integers, FiniteSets, FiniteSetsExt

CONSTANTS Align,     \* RT_ALIGN_SIZE
          Header,    \* SIZEOF_STRUCT_MEM
          MinSize,   \* MIN_SIZE_ALIGNED, which is MIN_SIZE here
          Total,     \* mem_size_aligned
          Width      \* the number of values of an rt_size_t, 2^32 in the code

MemAssumption ==
  /\ Align \in Nat \ {0}
  /\ Width \in Nat \ {0} /\ Width % Align = 0 /\ Total + 2 * Header < Width
  /\ Header \in Nat \ {0} /\ Header % Align = 0
  /\ MinSize \in Nat \ {0} /\ MinSize % Align = 0
  /\ Total \in Nat \ {0} /\ Total % Align = 0

End == Total + Header                         \* heap_end
Place == {p \in 0..End : p % Align = 0}
Null == -1                                    \* RT_NULL

Item == [next: Place, prev: Place, used: BOOLEAN]
IsHeap(h) == /\ DOMAIN h.item \subseteq Place /\ h.item \in [DOMAIN h.item -> Item]
             /\ h.lfree \in Place /\ h.used \in 0..End

\* RT_ALIGN, which wraps as rt_size_t does
Aligned(n) == LET m == (n + Align - 1) % Width IN m - (m % Align)

Fresh ==
  [item |-> [p \in {0, End} |-> [next |-> End, prev |-> p, used |-> p = End]],
   lfree |-> 0, used |-> 0]

Items(h) == DOMAIN h.item \ {End}
Room(h, p) == h.item[p].next - (p + Header)

----------------------------------------------------------------------------
\* plug_holes: merge the item with the next one, then with the previous one.
Removed(h, p, q) ==
  [h EXCEPT !.item = [r \in DOMAIN h.item \ {q} |->
      IF r = p THEN [h.item[p] EXCEPT !.next = h.item[q].next]
      ELSE IF r = h.item[q].next THEN [h.item[r] EXCEPT !.prev = p]
      ELSE h.item[r]]]

\* Item q behind p becomes a part of p.
Merged(h, p, q) ==
  [Removed(h, p, q) EXCEPT !.lfree = IF @ = q THEN p ELSE @]

\* [mutant] The previous item is not looked at.
PluggedForward(h, p) ==
  LET n == h.item[p].next
  IN  IF n # p /\ ~h.item[n].used /\ n # End THEN Merged(h, p, n) ELSE h

Plugged(h, p) ==
  LET n == h.item[p].next
      g == IF n # p /\ ~h.item[n].used /\ n # End THEN Merged(h, p, n) ELSE h
      l == g.item[p].prev
  IN  IF l # p /\ ~g.item[l].used THEN Merged(g, l, p) ELSE g

\* The size a request is rounded up to.
Rounded(n) == IF Aligned(n) < MinSize THEN MinSize ELSE Aligned(n)

\* [mutant] The search ends one item early.
FirstFitEarly(h, size) ==
  LET fit == {p \in Items(h) : /\ p >= h.lfree /\ p < Total - size
                               /\ ~h.item[p].used /\ Room(h, p) >= size}
  IN  IF fit = {} THEN Null ELSE Min(fit)

\* The first free item from lfree on that is large enough, or Null.
FirstFit(h, size) ==
  LET fit == {p \in Items(h) : /\ p >= h.lfree /\ p <= Total - size
                               /\ ~h.item[p].used /\ Room(h, p) >= size}
  IN  IF fit = {} THEN Null ELSE Min(fit)

\* Item p ends size bytes behind its header, and a free item begins there.
Split(h, p, size) ==
  LET q == p + Header + size
      n == h.item[p].next
  IN  [h EXCEPT !.item =
        [r \in DOMAIN h.item \cup {q} |->
          IF r = p THEN [h.item[p] EXCEPT !.next = q]
          ELSE IF r = q THEN [next |-> n, prev |-> p, used |-> FALSE]
          ELSE IF r = n /\ n # End THEN [h.item[n] EXCEPT !.prev = q]
          ELSE h.item[r]]]

\* The lowest free item behind those in use.
NextFree(h) ==
  Min({End} \cup {p \in Items(h) : p >= h.lfree /\ ~h.item[p].used})

\* [mutant] An item that is not split counts for its payload only.
AllocatedUncounted(h, p, size) ==
  LET split == Room(h, p) >= size + Header + MinSize
      g == IF split THEN Split(h, p, size) ELSE h
      u == [g EXCEPT !.item[p].used = TRUE,
                     !.used = @ + Room(g, p) + (IF split THEN Header ELSE 0)]
  IN  IF p = u.lfree THEN [u EXCEPT !.lfree = NextFree(u)] ELSE u

\* rt_smem_alloc, once it has found item p
Allocated(h, p, size) ==
  LET g == IF Room(h, p) >= size + Header + MinSize THEN Split(h, p, size) ELSE h
      u == [g EXCEPT !.item[p].used = TRUE, !.used = @ + Header + Room(g, p)]
  IN  IF p = u.lfree THEN [u EXCEPT !.lfree = NextFree(u)] ELSE u

\* [mutant] The use is not counted down by what is cut off.
ShrunkUncounted(h, p, size) ==
  LET g == Split(h, p, size)
      q == p + Header + size
  IN  [g EXCEPT !.lfree = IF q < @ THEN q ELSE @]

\* rt_smem_realloc: the end of item p is cut off, before the holes are plugged
Shrunk(h, p, size) ==
  LET g == Split(h, p, size)
      q == p + Header + size
  IN  [g EXCEPT !.lfree = IF q < @ THEN q ELSE @, !.used = @ - (Room(h, p) - size)]

\* rt_smem_free, before the holes are plugged
Freed(h, p) ==
  [h EXCEPT !.item[p].used = FALSE, !.lfree = IF p < @ THEN p ELSE @,
            !.used = @ - (Header + Room(h, p))]

\* rt_malloc_align: the address inside the block, behind the word that keeps
\* the address of the block
AlignedAddress(a, align) ==
  IF a % align = 0 THEN a + align
  ELSE (a + (align - 1)) - ((a + (align - 1)) % align)
=============================================================================

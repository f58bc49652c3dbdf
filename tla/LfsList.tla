------------------------------ MODULE LfsList -------------------------------
(***************************************************************************)
(* A file of littlefs that grows by one block after the other, as          *)
(* lfs_ctz_extend appends them, and the functions that find a position in  *)
(* it and that visit its blocks.                                           *)
(***************************************************************************)
EXTENDS LfsCtz, FiniteSets

CONSTANT MaxBlocks
VARIABLE list   \* the pointers of each block, which are numbers of blocks

\* Blocks are numbered from 0 in the order of the file; list[k + 1] is block k.
Pointer(k, i) == list[k + 1][i + 1]

\* The pointers that are copied: each from the block that the one before leads to.
RECURSIVE Copied(_, _, _)
Copied(nhead, i, skips) ==
  IF i = skips - 1 THEN << nhead >>
  ELSE << nhead >> \o Copied(Pointer(nhead, i), i + 1, skips)

Init == list = << << >> >>

Extend ==
  /\ Len(list) < MaxBlocks
  /\ list' = Append(list, Copied(Len(list) - 1, 0, Skips(Len(list))))

Next == Extend
Spec == Init /\ [][Next]_list

\* lfs_ctz_find
RECURSIVE Hops(_, _, _)
Hops(head, current, target) ==
  IF current <= target THEN << head >>
  ELSE LET skip == Skip(current, target)
       IN  << head >> \o Hops(Pointer(head, skip), current - 2^skip, target)

\* [mutant] Of a block with two pointers and more only the second is followed.
RECURSIVE VisitedFew(_, _)
VisitedFew(head, index) ==
  IF index = 0 THEN << head >>
  ELSE IF index % 2 = 1 THEN << head >> \o VisitedFew(Pointer(head, 0), index - 1)
  ELSE << head >> \o VisitedFew(Pointer(head, 1), index - 2)

\* lfs_ctz_traverse, which reads at most two pointers of each block it comes to
RECURSIVE Visited(_, _)
Visited(head, index) ==
  IF index = 0 THEN << head >>
  ELSE IF index % 2 = 1 THEN << head >> \o Visited(Pointer(head, 0), index - 1)
  ELSE << head, Pointer(head, 0) >> \o Visited(Pointer(head, 1), index - 2)

----------------------------------------------------------------------------
\* The room for data in block k, and what the blocks before it hold.
Room(k) == BlockSize - Word * Len(list[k + 1])
Starts[k \in Nat] == IF k = 0 THEN 0 ELSE Starts[k - 1] + Room(k - 1)

Last == Len(list) - 1

\* lfs_ctz_index, which sees only the position, finds the block and the offset
\* behind its pointers, for every position of the last block; the pointers leave
\* room for data.
IndexTrue ==
  /\ Room(Last) > 0
  /\ \A i \in 0..(Room(Last) - 1) :
       CtzIndex(Starts[Last] + i) = << Last, BlockSize - Room(Last) + i >>

\* lfs_ctz_find comes to each block, by pointers that exist, in a number of reads
\* that grows as the logarithm of the number of blocks.
FindTrue ==
  \A t \in 0..Last :
    LET h == Hops(Last, Last, t)
    IN  h[Len(h)] = t /\ 2^((Len(h) - 1) \div 2) <= Len(list)

\* lfs_ctz_traverse visits each block once, last to first.
TraverseTrue == Visited(Last, Last) = [i \in 1..Len(list) |-> Len(list) - i]

\* What the functions that find and visit blocks compute is what the list has.
Agrees == IndexTrue /\ FindTrue /\ TraverseTrue
=============================================================================

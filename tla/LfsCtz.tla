------------------------------- MODULE LfsCtz -------------------------------
(***************************************************************************)
(* The blocks of a file in littlefs form a list from the last one to the   *)
(* first.  Block k > 0 starts with ctz(k) + 1 pointers: to the blocks      *)
(* 1, 2, 4 .. before it; data fills the rest.  Positions in a file are     *)
(* turned into blocks and offsets without looking at the list.             *)
(***************************************************************************)
EXTENDS Naturals, Sequences

CONSTANTS BlockSize, Word   \* the size of a block and of a pointer

\* What the constants are.
CtzAssumption == Word \in Nat \ {0} /\ BlockSize \in Nat /\ BlockSize >= 8 * Word

\* lfs_popc, lfs_ctz, lfs_npw2
Popc[n \in Nat] == IF n = 0 THEN 0 ELSE (n % 2) + Popc[n \div 2]
CtzOf[n \in Nat \ {0}] == IF n % 2 = 1 THEN 0 ELSE 1 + CtzOf[n \div 2]
Npw2[n \in Nat \ {0}] == IF n = 1 THEN 0 ELSE 1 + Npw2[(n + 1) \div 2]

\* [mutant] One pointer less is counted in the first step.
CtzIndexOff(off) ==
  LET b == BlockSize - 2 * Word
      j == off \div b
      i == (off - Word * (Popc[j - 1] + 1)) \div b
  IN  IF j = 0 THEN << 0, off >> ELSE << i, off - b * i - Word * Popc[i] >>

\* lfs_ctz_index: the number of the block with this position, and the offset there
CtzIndex(off) ==
  LET b == BlockSize - 2 * Word
      j == off \div b
      i == (off - Word * (Popc[j - 1] + 2)) \div b
  IN  IF j = 0 THEN << 0, off >> ELSE << i, off - b * i - Word * Popc[i] >>

\* [mutant] Each step goes to the block before.
SkipOne(current, target) == 0

\* lfs_ctz_find: the pointer that is followed from a block on the way to another
Skip(current, target) ==
  LET far == Npw2[current - target + 1] - 1
  IN  IF far < CtzOf[current] THEN far ELSE CtzOf[current]

\* lfs_ctz_extend: the number of pointers of a new block
Skips(index) == CtzOf[index] + 1
=============================================================================

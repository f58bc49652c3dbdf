------------------------------ MODULE LfsPair ------------------------------
(***************************************************************************)
(* A metadata pair of littlefs: two blocks that each hold a revision count *)
(* and a log of commits, of which the newer block that has a valid commit  *)
(* counts (lfs_dir_fetchmatch).  A commit is appended to the log while     *)
(* there is erased room behind it; otherwise the other block is erased and *)
(* the directory written to it under the next revision (lfs_dir_compact),  *)
(* or, when that block is bad or worn, to a new one, which the pair that   *)
(* the parent refers to must then name.  Power may be lost at any moment.  *)
(*                                                                         *)
(* The content of a directory is one value.  A commit that is not whole    *)
(* has no valid checksum: it is not in the log, it only spoils the room    *)
(* behind it.                                                              *)
(***************************************************************************)
EXTENDS Integers, Sequences

CONSTANTS Values, Idle,
          Blocks,      \* the blocks that this directory may use
          Revisions,   \* the number of revision counts, 2^32 in the code
          Cycles,      \* (block_cycles + 1) | 1
          LogSize      \* the commits that fit into a block

\* What the constants are.
PairAssumption ==
  /\ Revisions \in Nat /\ Revisions % 2 = 0 /\ Revisions >= 4
  /\ Cycles \in Nat \ {0, 1} /\ LogSize \in Nat \ {0}
  /\ Idle \notin Values

VARIABLES disk,   \* for each block its revision, its commits and what follows
          home,   \* the pair as its parent refers to it
          up,     \* the file system is mounted
          dir,    \* lfs_mdir_t: the pair, its revision, its content, erased
          job     \* the commit in progress

vars == << disk, home, up, dir, job >>

Revision == 0..Revisions-1
AllOnes == Revisions - 1
Block == [rev: Revision, log: UNION {[1..n -> Values] : n \in 0..LogSize},
          after: {"erased", "garbage"}]
Blank == [rev |-> AllOnes, log |-> << >>, after |-> "erased"]
NoJob == [step |-> "none", value |-> Idle, pair |-> << >>, moved |-> FALSE,
          clean |-> TRUE]

----------------------------------------------------------------------------
\* lfs_scmp(a, b) > 0
After(a, b) == (a - b) % Revisions \in 1..(Revisions \div 2) - 1

\* The order in which the blocks of pair p are scanned.
Ordered(d, p) ==
  LET newer == IF After(d[p[1]].rev, 0) THEN 1 ELSE 0
      second == After(d[p[2]].rev, d[p[1]].rev)
  IN  IF second THEN << p[2], p[1] >> ELSE p

\* lfs_dir_fetch: the content is Idle if neither block has a valid commit.
Fetched(d, p) ==
  LET q == Ordered(d, p)
      r == IF d[q[1]].log = << >> THEN << q[2], q[1] >> ELSE q
      b == d[r[1]]
  IN  [pair |-> r, rev |-> b.rev,
       value |-> IF b.log = << >> THEN Idle ELSE b.log[Len(b.log)],
       erased |-> b.after = "erased" /\ Len(b.log) < LogSize]

NextRev(r) == (r + 1) % Revisions
Tired(r) == (r + 1) % Cycles = 0

----------------------------------------------------------------------------
\* lfs_dir_alloc and the first lfs_dir_compact: one block may hold the last
\* directory it was used for, whose revision the new one continues.
Aligned(r) ==
  LET s == (r + Cycles - 1) % Revisions IN s - (s % Cycles)

Init ==
  /\ \E p \in Blocks \X Blocks, v \in Values, stale \in Values, r \in Revision :
       /\ p[1] # p[2]
       /\ disk = [b \in Blocks |->
            CASE b = p[1] -> [rev |-> NextRev(Aligned(r)), log |-> << v >>,
                              after |-> "erased"]
              [] b = p[2] -> [rev |-> r, log |-> << stale >>, after |-> "garbage"]
              [] OTHER -> Blank]
       /\ home = p
  /\ up = FALSE
  /\ dir = Fetched(disk, home) /\ job = NoJob

\* Mounting, or fetching the directory again before an operation on it.
Fetch ==
  /\ job = NoJob
  /\ up' = TRUE
  /\ dir' = Fetched(disk, home)
  /\ UNCHANGED << disk, home, job >>

\* lfs_dir_commit: into the erased room of the first block, or a compaction
\* into the second, which a worn pair does not get to.
Commit(v) ==
  /\ up /\ job = NoJob /\ v # dir.value
  /\ job' = [step |-> IF dir.erased THEN "append"
                      ELSE IF Tired(dir.rev) THEN "worn" ELSE "erase",
             value |-> v, pair |-> dir.pair, moved |-> FALSE, clean |-> TRUE]
  /\ UNCHANGED << disk, home, up, dir >>

\* The first bytes of the commit reach the block, on top of what an earlier
\* commit that failed may have left there.
Prog ==
  /\ job.step = "append"
  /\ disk' = [disk EXCEPT ![job.pair[1]].after = "garbage"]
  /\ job' = [job EXCEPT !.step = "check",
                         !.clean = disk[job.pair[1]].after = "erased"]
  /\ UNCHANGED << home, up, dir >>

Finish(pair, rev, erased) ==
  /\ dir' = [pair |-> pair, rev |-> rev, value |-> job.value, erased |-> erased]
  /\ job' = [job EXCEPT !.step = "return", !.pair = pair]

\* The checksum completes the commit, which is read back; bytes that did not
\* stick make it fall back to a compaction.
CommitCrc ==
  /\ job.step = "check"
  /\ LET b == job.pair[1]
         log == Append(disk[b].log, job.value)
     IN  \/ /\ job.clean
            /\ disk' = [disk EXCEPT ![b].log = log, ![b].after = "erased"]
            /\ Finish(job.pair, dir.rev, Len(log) < LogSize)
         \/ /\ job' = [job EXCEPT !.step = IF Tired(dir.rev) THEN "worn" ELSE "erase"]
            /\ UNCHANGED << disk, dir >>
  /\ UNCHANGED << home, up >>

\* [mutant] The compaction erases the block that holds the directory.
EraseFirst ==
  /\ job.step = "erase"
  /\ disk' = [disk EXCEPT ![job.pair[1]] = Blank]
  /\ job' = [job EXCEPT !.step = "write"]
  /\ UNCHANGED << home, up, dir >>

\* An erasure that is interrupted leaves anything.
Erase ==
  /\ job.step = "erase"
  /\ \E r \in Revision :
       disk' = [disk EXCEPT ![job.pair[2]] =
                 [rev |-> r, log |-> << >>, after |-> "garbage"]]
  /\ job' = [job EXCEPT !.step = "write"]
  /\ UNCHANGED << home, up, dir >>

\* The revision has reached the erased block, the checksum has not.
WriteRev ==
  /\ job.step = "write"
  /\ disk' = [disk EXCEPT ![job.pair[2]] =
               [rev |-> NextRev(dir.rev), log |-> << >>, after |-> "garbage"]]
  /\ job' = [job EXCEPT !.step = "complete"]
  /\ UNCHANGED << home, up, dir >>

\* The compacted directory is complete, or did not stick.
Compacted ==
  /\ job.step = "complete"
  /\ LET b == job.pair[2]
         pair == << b, job.pair[1] >>
     IN  \/ /\ disk' = [disk EXCEPT ![b].log = << job.value >>, ![b].after = "erased"]
            /\ IF job.moved
                 THEN job' = [job EXCEPT !.step = "relink", !.pair = pair] /\ UNCHANGED dir
                 ELSE Finish(pair, NextRev(dir.rev), dir.erased)
         \/ /\ job' = [job EXCEPT !.step = "relocate"]
            /\ UNCHANGED << disk, dir >>
  /\ UNCHANGED << home, up >>

\* The blocks lfs_alloc may give; other files may use them all.
Free == Blocks \ {home[1], home[2], job.pair[1], job.pair[2]}

Replace(b) ==
  job' = [job EXCEPT !.step = "erase", !.pair = << @[1], b >>, !.moved = TRUE]

\* The second block is bad, or the pair is worn: without a block to take its
\* place the commit fails, or goes on with the worn one.
Relocate ==
  /\ \/ job.step \in {"relocate", "worn"} /\ \E b \in Free : Replace(b)
     \/ job.step = "worn" /\ Replace(job.pair[2])
     \/ job.step = "relocate" /\ job' = [job EXCEPT !.step = "fail"]
  /\ UNCHANGED << disk, home, up, dir >>

\* The commit to the parent that replaces the pair.  The block that is given
\* up is erased before it is used again.
Relink ==
  /\ job.step = "relink"
  /\ home' = job.pair
  /\ disk' = [b \in Blocks |-> IF b \in {job.pair[1], job.pair[2]} THEN disk[b] ELSE Blank]
  /\ Finish(job.pair, NextRev(dir.rev), dir.erased)
  /\ UNCHANGED up

Return ==
  /\ job.step \in {"return", "fail"}
  /\ job' = NoJob
  /\ UNCHANGED << disk, home, up, dir >>

PowerLoss ==
  /\ up /\ up' = FALSE
  /\ job' = NoJob
  /\ UNCHANGED << disk, home, dir >>

Next ==
  \/ Fetch \/ \E v \in Values : Commit(v)
  \/ Prog \/ CommitCrc \/ Erase \/ WriteRev \/ Compacted
  \/ Relocate \/ Relink \/ Return \/ PowerLoss

Spec == Init /\ [][Next]_vars

----------------------------------------------------------------------------
\* The types; and while the pair is mounted and no commit is in progress, the
\* directory in memory is the one that a mount would find, also after a
\* commit that failed (lfs_dir_commit keeps lfs_mdir_t up to date).
PairTypeOK ==
  /\ disk \in [Blocks -> Block]
  /\ home[1] \in Blocks /\ home[2] \in Blocks \ {home[1]}
  /\ up /\ job = NoJob =>
       LET f == Fetched(disk, home)
       IN  dir.value = f.value /\ dir.pair[1] = f.pair[1] /\ dir.rev = f.rev

\* A commit is atomic: whenever power is lost, a mount finds what was
\* committed before or after it, never a part of it, never an older state and
\* never a corrupted pair; and a commit that is to return no error has taken
\* place, one that is not has not (lfs_dir_commit, lfs_dir_fetchmatch).
Committed == INSTANCE AtomicCommit
  WITH value <- Fetched(disk, home).value, next <- job.value,
       done <- job.step = "return"
Atomic == Committed!Spec
=============================================================================

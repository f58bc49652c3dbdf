----------------------------- MODULE LfsPairProofs -----------------------------
(***************************************************************************)
(* Proofs about LfsPair, for any number of blocks, revisions, commits in a *)
(* block and cycles: a commit is atomic, and what is mounted is true.      *)
(***************************************************************************)
EXTENDS LfsPair, TLAPS

Current(d, p) == Fetched(d, p).pair[1]

Pairs == {p \in Blocks \X Blocks : p[1] # p[2]}
Steps == {"none", "append", "check", "erase", "write", "complete", "relocate",
          "worn", "relink", "return", "fail"}
Job == [step: Steps, value: Values \cup {Idle}, pair: Pairs \cup {<< >>},
        moved: BOOLEAN, clean: BOOLEAN]
Dir == [pair: Pairs, rev: Revision, value: Values \cup {Idle}, erased: BOOLEAN]

Types ==
  /\ disk \in [Blocks -> Block] /\ home \in Pairs
  /\ up \in BOOLEAN /\ dir \in Dir /\ job \in Job

\* The directory in memory is the one that a mount would find.
Same ==
  LET f == Fetched(disk, home)
  IN  /\ dir.pair = f.pair /\ dir.rev = f.rev /\ dir.value = f.value
      /\ dir.erased => Len(disk[f.pair[1]].log) < LogSize

\* The block that a mount finds has a commit.
Whole == disk[Current(disk, home)].log # << >>

\* What a commit in progress relies on: the first of its blocks holds the
\* directory until the second one does.
Working ==
  /\ job.step = "none" => job = NoJob
  /\ job.step # "none" => up /\ job.value \in Values /\ job.pair \in Pairs
  /\ up /\ job.step # "relink" => Same
  /\ job.step \notin {"none", "relink", "return"} =>
       /\ job.pair[1] = dir.pair[1] /\ job.value # dir.value
       /\ ~job.moved => job.pair = dir.pair
  /\ job.step \in {"append", "check"} => dir.erased
  /\ job.step \in {"append", "check", "worn"} => ~job.moved
  /\ job.step \in {"write", "complete"} => disk[job.pair[2]].log = << >>
  /\ job.step = "complete" => disk[job.pair[2]].rev = NextRev(dir.rev)
  /\ job.step = "return" => job.value = dir.value

\* The new block is written and the old one as it was, when the parent is told.
Written ==
  job.step = "relink" =>
    /\ job.pair[2] \in {home[1], home[2]}
    /\ disk[job.pair[2]].rev = dir.rev
    /\ disk[job.pair[1]].rev = NextRev(dir.rev)
    /\ disk[job.pair[1]].log = << job.value >>
    /\ dir.erased => LogSize > 1

Inv == Types /\ Whole /\ Working /\ Written

-----------------------------------------------------------------------------
(* Revisions. *)

\* The revision that follows a revision is one.
LEMMA NextRevType ==
  ASSUME PairAssumption, NEW r \in Int
  PROVE  NextRev(r) \in Revision
BY DEF PairAssumption, NextRev, Revision

\* Remainders of numbers in range, and of numbers just below it.
LEMMA ModSmall ==
  ASSUME NEW m \in Nat \ {0}, NEW x \in 0..m-1
  PROVE  x % m = x
OBVIOUS

LEMMA ModNeg ==
  ASSUME NEW m \in Nat \ {0}, NEW x \in Int, -m <= x, x < 0
  PROVE  x % m = x + m
OBVIOUS

\* A revision is before the next one, and not after it, also when it wraps.
LEMMA NextIsAfter ==
  ASSUME PairAssumption, NEW r \in Revision
  PROVE  After(NextRev(r), r) /\ ~After(r, NextRev(r))
<1>1. (Revisions \div 2) \in 2..Revisions-2
  BY DEF PairAssumption
<1>2. CASE r = Revisions - 1
  <2>1. NextRev(r) = 0
    BY <1>2 DEF NextRev, PairAssumption
  <2>2. (0 - r) % Revisions = 1
    BY <1>2, ModNeg DEF PairAssumption
  <2>3. (r - 0) % Revisions = r
    BY <1>2, ModSmall DEF PairAssumption
  <2> QED
    BY <1>1, <1>2, <2>1, <2>2, <2>3 DEF After, PairAssumption
<1>3. CASE r # Revisions - 1
  <2>1. NextRev(r) = r + 1
    BY <1>3, ModSmall DEF NextRev, PairAssumption, Revision
  <2>2. ((r + 1) - r) % Revisions = 1
    <3>1. (r + 1) - r = 1
      BY DEF Revision
    <3>2. 1 % Revisions = 1
      BY ModSmall DEF PairAssumption
    <3> QED
      BY <3>1, <3>2
  <2>3. (r - (r + 1)) % Revisions = Revisions - 1
    <3>1. r - (r + 1) = -1
      BY DEF Revision
    <3>2. (-1) % Revisions = Revisions - 1
      BY ModNeg DEF PairAssumption
    <3> QED
      BY <3>1, <3>2
  <2> QED
    BY <1>1, <2>1, <2>2, <2>3 DEF After, PairAssumption, Revision
<1> QED
  BY <1>2, <1>3

-----------------------------------------------------------------------------
(* What a mount finds. *)

\* A mount finds one of the blocks of the pair, and what its last commit says.
LEMMA FetchedType ==
  ASSUME NEW d \in [Blocks -> Block], NEW p \in Pairs
  PROVE  /\ Fetched(d, p).pair \in {p, << p[2], p[1] >>}
         /\ Fetched(d, p).pair \in Pairs
         /\ Current(d, p) \in {p[1], p[2]}
         /\ Fetched(d, p).rev = d[Current(d, p)].rev
         /\ d[Current(d, p)].log # << >> =>
              Fetched(d, p).value = d[Current(d, p)].log[Len(d[Current(d, p)].log)]
         /\ Fetched(d, p).erased => Len(d[Current(d, p)].log) < LogSize
<1>1. Ordered(d, p) \in {p, << p[2], p[1] >>}
  BY DEF Ordered
<1>2. Fetched(d, p).pair \in {p, << p[2], p[1] >>}
  BY <1>1 DEF Fetched, Pairs
<1>3. Fetched(d, p).pair \in Pairs /\ Current(d, p) \in {p[1], p[2]}
  BY <1>2 DEF Current, Pairs
<1>4. /\ Fetched(d, p).rev = d[Current(d, p)].rev
      /\ d[Current(d, p)].log # << >> =>
           Fetched(d, p).value = d[Current(d, p)].log[Len(d[Current(d, p)].log)]
      /\ Fetched(d, p).erased => Len(d[Current(d, p)].log) < LogSize
  BY DEF Fetched, Current
<1> QED
  BY <1>2, <1>3, <1>4

\* What the other blocks hold, and what follows the commits, does not matter.
LEMMA FetchedLocal ==
  ASSUME NEW d \in [Blocks -> Block], NEW e \in [Blocks -> Block], NEW p \in Pairs,
         d[p[1]].rev = e[p[1]].rev, d[p[2]].rev = e[p[2]].rev,
         d[p[1]].log = e[p[1]].log, d[p[2]].log = e[p[2]].log
  PROVE  /\ Fetched(d, p).pair = Fetched(e, p).pair
         /\ Fetched(d, p).rev = Fetched(e, p).rev
         /\ Fetched(d, p).value = Fetched(e, p).value
BY DEF Fetched, Ordered, Pairs

\* The next revision is found whichever way round the pair is.
LEMMA NewerFound ==
  ASSUME PairAssumption,
         NEW d \in [Blocks -> Block], NEW p \in Pairs, NEW a \in Blocks, NEW b \in Blocks,
         p \in {<< a, b >>, << b, a >>},
         d[b].log # << >>, d[b].rev = NextRev(d[a].rev)
  PROVE  Fetched(d, p).pair = << b, a >>
<1>1. d[a].rev \in Revision
  BY DEF Block
<1>2. After(d[b].rev, d[a].rev) /\ ~After(d[a].rev, d[b].rev)
  BY <1>1, NextIsAfter
<1>3. Ordered(d, p) = << b, a >>
  BY <1>2 DEF Ordered
<1> QED
  BY <1>3 DEF Fetched

\* A block without a commit is not found if the other one has one.
LEMMA EmptyNotFound ==
  ASSUME NEW d \in [Blocks -> Block], NEW p \in Pairs, NEW a \in Blocks, NEW b \in Blocks,
         p \in {<< a, b >>, << b, a >>},
         d[a].log # << >>, d[b].log = << >>
  PROVE  Fetched(d, p).pair = << a, b >>
<1>1. Ordered(d, p) \in {<< a, b >>, << b, a >>}
  BY DEF Ordered
<1> QED
  BY <1>1 DEF Fetched

\* One more commit in the block that is found is what is found next.
LEMMA AppendedFound ==
  ASSUME NEW d \in [Blocks -> Block], NEW e \in [Blocks -> Block], NEW p \in Pairs,
         d[Current(d, p)].log # << >>, e[Current(d, p)].log # << >>,
         \A b \in Blocks : e[b].rev = d[b].rev,
         \A b \in Blocks \ {Current(d, p)} : e[b].log = d[b].log
  PROVE  Fetched(e, p).pair = Fetched(d, p).pair
<1>1. Ordered(e, p) = Ordered(d, p)
  BY DEF Ordered, Pairs
<1>2. Ordered(d, p) \in Pairs
  BY DEF Ordered, Pairs
<1> QED
  BY <1>1, <1>2 DEF Fetched, Current, Pairs

-----------------------------------------------------------------------------
(* Types. *)

Logs == UNION {[1..n -> Values] : n \in 0..LogSize}

\* The logs are the sequences of at most LogSize commits.
LEMMA LogType ==
  ASSUME PairAssumption
  PROVE  /\ \A s \in Logs : s \in Seq(Values) /\ Len(s) <= LogSize
         /\ \A s \in Seq(Values) : Len(s) <= LogSize => s \in Logs
<1>1. ASSUME NEW s \in Logs PROVE s \in Seq(Values) /\ Len(s) <= LogSize
  <2>1. PICK n \in 0..LogSize : s \in [1..n -> Values]
    BY <1>1 DEF Logs
  <2>2. n \in Nat
    BY DEF PairAssumption
  <2>3. s \in Seq(Values) /\ Len(s) = n
    BY <2>1, <2>2
  <2> QED
    BY <2>1, <2>3
<1>2. ASSUME NEW s \in Seq(Values), Len(s) <= LogSize PROVE s \in Logs
  <2>1. Len(s) \in 0..LogSize /\ s \in [1..Len(s) -> Values]
    BY <1>2 DEF PairAssumption
  <2> QED
    BY <2>1 DEF Logs
<1> QED
  BY <1>1, <1>2

\* A block is its revision, its commits and what follows.
LEMMA BlockSet == Block = [rev: Revision, log: Logs, after: {"erased", "garbage"}]
BY DEF Block, Logs

\* Other commits in a block change neither its revision nor the other blocks.
LEMMA WriteLog ==
  ASSUME NEW d \in [Blocks -> Block], NEW b \in Blocks, NEW log \in Logs,
         NEW e, e = [d EXCEPT ![b].log = log, ![b].after = "erased"]
  PROVE  /\ e \in [Blocks -> Block]
         /\ e[b].log = log /\ e[b].rev = d[b].rev
         /\ \A k \in Blocks \ {b} : e[k] = d[k]
BY BlockSet

\* A log of one commit, and one with one commit more.
LEMMA NewLogType ==
  ASSUME PairAssumption, NEW v \in Values
  PROVE  /\ << >> \in Logs /\ << v >> \in Logs
         /\ \A s \in Logs : Len(s) < LogSize =>
              /\ Append(s, v) \in Logs /\ Append(s, v) # << >>
              /\ Append(s, v)[Len(Append(s, v))] = v
              /\ Len(Append(s, v)) = Len(s) + 1
<1>1. << >> \in Seq(Values) /\ Len(<< >>) = 0 /\ << v >> \in Seq(Values) /\ Len(<< v >>) = 1
  OBVIOUS
<1>2. << >> \in Logs /\ << v >> \in Logs
  <2>1. Len(<< >>) <= LogSize /\ Len(<< v >>) <= LogSize
    BY <1>1 DEF PairAssumption
  <2> DEFINE e == << >>
             o == << v >>
  <2>2. e \in Logs
    <3>1. e \in Seq(Values) /\ Len(e) <= LogSize
      BY <1>1, <2>1
    <3> HIDE DEF e
    <3> QED
      BY <3>1, LogType
  <2>3. o \in Logs
    <3>1. o \in Seq(Values) /\ Len(o) <= LogSize
      BY <1>1, <2>1
    <3> HIDE DEF o
    <3> QED
      BY <3>1, LogType
  <2> QED
    BY <2>2, <2>3
<1>3. ASSUME NEW s \in Logs, Len(s) < LogSize
      PROVE  /\ Append(s, v) \in Logs /\ Append(s, v) # << >>
             /\ Append(s, v)[Len(Append(s, v))] = v
             /\ Len(Append(s, v)) = Len(s) + 1
  <2>1. s \in Seq(Values)
    BY LogType
  <2>2. /\ Append(s, v) \in Seq(Values) /\ Append(s, v) # << >>
        /\ Append(s, v)[Len(Append(s, v))] = v
        /\ Len(Append(s, v)) = Len(s) + 1
    BY <2>1
  <2>3. Len(Append(s, v)) <= LogSize
    BY <1>3, <2>1, <2>2 DEF PairAssumption
  <2> QED
    BY <2>2, <2>3, LogType
<1> QED
  BY <1>2, <1>3

\* The last commit of a log is a value.
LEMMA LastType ==
  ASSUME PairAssumption, NEW s \in Logs, s # << >>
  PROVE  s[Len(s)] \in Values
<1>1. s \in Seq(Values)
  BY LogType
<1> QED
  BY <1>1

\* What a mount finds in a pair of which a block has a commit.
LEMMA FetchedDir ==
  ASSUME PairAssumption, NEW d \in [Blocks -> Block], NEW p \in Pairs,
         d[Current(d, p)].log # << >>
  PROVE  Fetched(d, p) \in Dir /\ Fetched(d, p).value \in Values
<1>1. Current(d, p) \in Blocks
  BY FetchedType DEF Pairs
<1>2. d[Current(d, p)].log \in Logs /\ d[Current(d, p)].rev \in Revision
  BY <1>1 DEF Block, Logs
<1>3. Fetched(d, p).value \in Values /\ Fetched(d, p).rev \in Revision
  BY <1>2, LastType, FetchedType
<1>4. Fetched(d, p) = [pair |-> Fetched(d, p).pair, rev |-> Fetched(d, p).rev,
                       value |-> Fetched(d, p).value, erased |-> Fetched(d, p).erased]
      /\ Fetched(d, p).erased \in BOOLEAN
  BY DEF Fetched
<1> QED
  BY <1>3, <1>4, FetchedType DEF Dir

-----------------------------------------------------------------------------
(* The steps. *)

\* What the blocks hold, seen from what is in memory.
LEMMA SameFacts ==
  ASSUME Types, Same
  PROVE  LET c == Current(disk, home)
         IN  /\ dir.pair[1] = c /\ dir.rev = disk[c].rev
             /\ dir.pair \in {home, << home[2], home[1] >>}
             /\ c \in Blocks /\ disk[c] \in Block
             /\ dir.erased => Len(disk[c].log) < LogSize
BY FetchedType DEF Types, Same, Current, Pairs

\* A new pair.
LEMMA InvInit ==
  ASSUME PairAssumption, Init
  PROVE  Inv
<1>1. PICK p \in Blocks \X Blocks, v \in Values, stale \in Values, r \in Revision :
        /\ p[1] # p[2]
        /\ disk = [b \in Blocks |->
             CASE b = p[1] -> [rev |-> NextRev(Aligned(r)), log |-> << v >>,
                               after |-> "erased"]
               [] b = p[2] -> [rev |-> r, log |-> << stale >>, after |-> "garbage"]
               [] OTHER -> Blank]
        /\ home = p
  BY DEF Init
<1>2. home \in Pairs
  BY <1>1 DEF Pairs
<1>3. NextRev(Aligned(r)) \in Revision /\ AllOnes \in Revision
  <2>1. Aligned(r) \in Int
    BY DEF Aligned, Revision, PairAssumption
  <2> QED
    BY <2>1, NextRevType DEF AllOnes, Revision, PairAssumption
<1>4. disk \in [Blocks -> Block]
  <2>1. << v >> \in Logs /\ << stale >> \in Logs /\ << >> \in Logs
    BY NewLogType
  <2> QED
    BY <1>1, <1>3, <2>1 DEF Block, Blank, Logs
<1>5. Whole
  <2>1. disk[home[1]].log # << >> /\ disk[home[2]].log # << >>
    BY <1>1
  <2> QED
    BY <1>2, <1>4, <2>1, FetchedType DEF Whole
<1>6. Types
  <2>1. NoJob \in Job
    BY DEF NoJob, Job, Steps
  <2>2. dir \in Dir
    BY <1>2, <1>4, <1>5, FetchedDir DEF Init, Whole
  <2> QED
    BY <1>2, <1>4, <2>1, <2>2 DEF Types, Init
<1> QED
  BY <1>5, <1>6 DEF Inv, Working, Written, Init, NoJob

\* Mounting reads what a mount finds.
LEMMA FetchStep ==
  ASSUME PairAssumption, Inv, Fetch
  PROVE  Inv'
<1> USE DEF Inv, Fetch
<1>1. Types'
  BY FetchedDir DEF Types, Whole
<1>2. Same'
  BY FetchedType DEF Same, Types, Current
<1>3. Whole'
  BY DEF Whole
<1> QED
  BY <1>1, <1>2, <1>3 DEF Working, Written, NoJob

\* A commit begins with what is mounted.
LEMMA CommitStep ==
  ASSUME PairAssumption, Inv, NEW v \in Values, Commit(v)
  PROVE  Inv'
<1> USE DEF Inv, Commit
<1>1. Types'
  BY DEF Types, Job, Steps, Dir
<1>2. Whole' /\ Same'
  BY DEF Whole, Same, Working, NoJob
<1> QED
  BY <1>1, <1>2 DEF Working, Written, Types, Dir

\* A commit has ended.
LEMMA ReturnStep ==
  ASSUME PairAssumption, Inv, Return
  PROVE  Inv'
<1> USE DEF Inv, Return
<1>1. Types'
  BY DEF Types, Job, Steps, NoJob
<1>2. Whole' /\ Same'
  BY DEF Whole, Same, Working, NoJob
<1> QED
  BY <1>1, <1>2 DEF Working, Written, NoJob

\* What is in memory is lost, the blocks stay.
LEMMA PowerLossStep ==
  ASSUME PairAssumption, Inv, PowerLoss
  PROVE  Inv'
<1> USE DEF Inv, PowerLoss
<1>1. Types'
  BY DEF Types, Job, Steps, NoJob
<1>2. Whole'
  BY DEF Whole
<1> QED
  BY <1>1, <1>2 DEF Working, Written, NoJob

\* A block that is to replace the second one is not part of the pair.
LEMMA RelocateStep ==
  ASSUME PairAssumption, Inv, Relocate
  PROVE  Inv'
<1> USE DEF Inv
<1>1. Whole' /\ UNCHANGED << disk, home, up, dir >>
  BY DEF Whole, Relocate
<1>2. Same /\ Same'
  BY <1>1 DEF Same, Relocate, Working
<1>3. job \in Job /\ job.pair \in Pairs /\ job.value \in Values
  BY DEF Relocate, Types, Working
<1>4. ASSUME NEW b \in Blocks, b # job.pair[1], Replace(b), job.step \in {"relocate", "worn"}
      PROVE  Inv'
  <2>1. << job.pair[1], b >> \in Pairs
    BY <1>3, <1>4 DEF Pairs
  <2>2. Types'
    BY <1>1, <1>3, <1>4, <2>1 DEF Types, Replace, Job, Steps
  <2>3. /\ job'.step = "erase" /\ job'.value = job.value /\ job'.moved
        /\ job'.pair \in Pairs /\ job'.pair[1] = job.pair[1]
    BY <1>3, <1>4, <2>1 DEF Replace, Job
  <2> QED
    BY <1>1, <1>2, <1>3, <1>4, <2>2, <2>3 DEF Working, Written
<1>5. ASSUME job.step = "relocate", job' = [job EXCEPT !.step = "fail"]
      PROVE  Inv'
  <2>1. Types'
    BY <1>1, <1>3, <1>5 DEF Types, Job, Steps
  <2>2. job'.step = "fail" /\ job'.value = job.value /\ job'.moved = job.moved /\ job'.pair = job.pair
    BY <1>3, <1>5 DEF Job
  <2> QED
    BY <1>1, <1>2, <1>3, <1>5, <2>1, <2>2 DEF Working, Written
<1>6. \A b \in Free : b \in Blocks /\ b # job.pair[1]
  BY DEF Free
<1>7. job.pair[2] \in Blocks /\ job.pair[2] # job.pair[1]
  BY <1>3 DEF Pairs
<1> QED
  BY <1>4, <1>5, <1>6, <1>7 DEF Relocate

\* The value that a mount finds, and what is said of it to the caller.
Value == Fetched(disk, home).value

\* The bytes of a commit that is not whole change nothing.
LEMMA ProgStep ==
  ASSUME PairAssumption, Inv, Prog
  PROVE  Inv' /\ Value' = Value /\ job'.step = "check" /\ job'.value = job.value
<1> USE DEF Inv
<1>1. /\ job \in Job /\ job.pair \in Pairs /\ job.pair[1] \in Blocks
      /\ job.step = "append" /\ UNCHANGED << home, up, dir >> /\ up
  BY DEF Types, Working, Pairs, Prog
<1>2. disk' \in [Blocks -> Block]
  BY <1>1 DEF Types, Block, Prog
<1>3. \A b \in Blocks : disk[b].rev = disk'[b].rev /\ disk[b].log = disk'[b].log
  BY <1>1 DEF Types, Block, Prog
<1>4. /\ Fetched(disk, home).pair = Fetched(disk', home).pair
      /\ Fetched(disk, home).rev = Fetched(disk', home).rev
      /\ Fetched(disk, home).value = Fetched(disk', home).value
  <2>1. home \in Pairs /\ disk \in [Blocks -> Block] /\ {home[1], home[2]} \subseteq Blocks
    BY DEF Types, Pairs
  <2> QED
    BY <1>2, <1>3, <2>1, FetchedLocal
<1>5. Fetched(disk, home).pair[1] \in Blocks
  BY FetchedType DEF Types, Pairs
<1>6. Whole'
  BY <1>1, <1>3, <1>4, <1>5 DEF Whole, Current
<1>7. Same'
  BY <1>1, <1>3, <1>4, <1>5 DEF Same, Working
<1>8. /\ job'.step = "check" /\ job'.value = job.value /\ job'.moved = job.moved
      /\ job'.pair = job.pair /\ job' \in Job
  BY <1>1 DEF Job, Steps, Prog
<1>9. Types'
  BY <1>1, <1>2, <1>8 DEF Types
<1> QED
  BY <1>1, <1>4, <1>6, <1>7, <1>8, <1>9 DEF Working, Written, Value

\* A commit that sticks is the last one of the block that is found; after one
\* that does not, the directory goes to the other block.
LEMMA CommitCrcStep ==
  ASSUME PairAssumption, Inv, CommitCrc
  PROVE  /\ Inv' /\ job'.value = job.value
         /\ \/ job'.step = "return" /\ Value' = job.value
            \/ job'.step # "return" /\ Value' = Value
<1> USE DEF Inv
<1>1. /\ job \in Job /\ job.pair \in Pairs /\ job.pair[1] \in Blocks
      /\ job.step = "check" /\ job.value \in Values /\ Same
      /\ UNCHANGED << home, up >> /\ up
  BY DEF Types, Working, Pairs, CommitCrc
<1> DEFINE c == job.pair[1]
           log == Append(disk[c].log, job.value)
<1>2. /\ c = Current(disk, home) /\ job.pair = dir.pair
      /\ disk[c] \in Block /\ Len(disk[c].log) < LogSize
  BY <1>1, SameFacts DEF Working
<1>3. /\ log \in Logs /\ log # << >> /\ log[Len(log)] = job.value
  BY <1>1, <1>2, NewLogType DEF Block, Logs
<1> HIDE DEF log
<1>4. CASE /\ disk' = [disk EXCEPT ![c].log = log, ![c].after = "erased"]
           /\ Finish(job.pair, dir.rev, Len(log) < LogSize)
  <2>1. /\ disk' \in [Blocks -> Block]
        /\ disk'[c].log = log /\ disk'[c].rev = disk[c].rev
        /\ \A b \in Blocks \ {c} : disk'[b] = disk[b]
    BY <1>1, <1>3, <1>4, WriteLog DEF Types
  <2>2. disk' \in [Blocks -> Block]
    BY <2>1
  <2>3. /\ disk'[c].log = log
        /\ \A b \in Blocks : disk'[b].rev = disk[b].rev
        /\ \A b \in Blocks \ {c} : disk'[b].log = disk[b].log
    BY <2>1
  <2>4. Fetched(disk', home).pair = Fetched(disk, home).pair
    BY <1>2, <1>3, <2>2, <2>3, AppendedFound DEF Types, Whole
  <2>5. Current(disk', home) = c
    BY <1>2, <2>4 DEF Current
  <2>6. Whole' /\ Fetched(disk', home).rev = disk[c].rev /\ Value' = job.value
    BY <1>1, <1>3, <2>2, <2>3, <2>5, FetchedType DEF Whole, Types, Value
  <2>7. /\ dir' = [pair |-> job.pair, rev |-> dir.rev, value |-> job.value,
                   erased |-> Len(log) < LogSize]
        /\ job' = [job EXCEPT !.step = "return", !.pair = job.pair]
    BY <1>4 DEF Finish
  <2>8. Same'
    <3>1. dir'.pair = Fetched(disk', home).pair
      BY <1>1, <1>2, <2>4, <2>7 DEF Same
    <3>2. dir'.rev = Fetched(disk', home).rev /\ dir'.value = Fetched(disk', home).value
      BY <1>1, <1>2, <2>6, <2>7, SameFacts DEF Value
    <3>3. dir'.erased => Len(disk'[Fetched(disk', home).pair[1]].log) < LogSize
      BY <2>3, <2>5, <2>7 DEF Current
    <3> QED
      BY <1>1, <3>1, <3>2, <3>3 DEF Same
  <2>9. /\ job'.step = "return" /\ job'.value = job.value /\ job'.pair = job.pair
        /\ job' \in Job
    BY <1>1, <2>7 DEF Job, Steps
  <2>10. dir' \in Dir
    <3>1. (Len(log) < LogSize) \in BOOLEAN /\ dir.rev \in Revision
      BY DEF Types, Dir
    <3> QED
      BY <1>1, <2>7, <3>1 DEF Dir
  <2>11. Types'
    BY <1>1, <2>2, <2>9, <2>10 DEF Types
  <2>12. Working' /\ Written'
    BY <1>1, <2>7, <2>8, <2>9 DEF Working, Written
  <2> QED
    BY <2>6, <2>9, <2>11, <2>12
<1>5. CASE /\ job' = [job EXCEPT !.step = IF Tired(dir.rev) THEN "worn" ELSE "erase"]
           /\ UNCHANGED << disk, dir >>
  <2>1. /\ job'.step \in {"worn", "erase"} /\ job'.value = job.value /\ job'.pair = job.pair
        /\ job'.moved = job.moved /\ job' \in Job
    BY <1>1, <1>5 DEF Job, Steps
  <2>2. Types' /\ Whole' /\ Same' /\ Value' = Value
    BY <1>1, <1>5, <2>1 DEF Types, Whole, Same, Value
  <2>3. Working' /\ Written'
    BY <1>1, <1>5, <2>1, <2>2 DEF Working, Written
  <2> QED
    BY <2>1, <2>2, <2>3
<1> QED
  BY <1>4, <1>5 DEF CommitCrc, log

\* While the second block is erased and written, a mount finds the first.
LEMMA SecondBlock ==
  ASSUME PairAssumption, Inv, job.step \in {"erase", "write"},
         disk' \in [Blocks -> Block], disk'[job.pair[2]].log = << >>,
         \A k \in Blocks \ {job.pair[2]} : disk'[k] = disk[k],
         UNCHANGED << home, up, dir >>
  PROVE  Whole' /\ Same' /\ Value' = Value
<1> USE DEF Inv
<1>1. /\ job.pair \in Pairs /\ job.pair[1] \in Blocks /\ job.pair[2] \in Blocks
      /\ job.pair[1] # job.pair[2] /\ Same /\ job.pair[1] = dir.pair[1]
  BY DEF Types, Working, Pairs
<1> DEFINE c == job.pair[1]
           b == job.pair[2]
<1>2. /\ c = Current(disk, home) /\ dir.pair \in {home, << home[2], home[1] >>}
      /\ dir.erased => Len(disk[c].log) < LogSize
  BY <1>1, SameFacts
<1>3. disk' \in [Blocks -> Block]
  OBVIOUS
<1>4. disk'[c] = disk[c]
  BY <1>1 DEF Types
<1>5. Fetched(disk', home).pair = Fetched(disk, home).pair
  <2>1. CASE b \in {home[1], home[2]}
    <3>1. home \in {<< c, b >>, << b, c >>}
      BY <1>1, <1>2, <2>1, FetchedType DEF Types, Pairs
    <3>2. Fetched(disk', home).pair = << c, b >>
      <4>1. disk'[c].log # << >> /\ disk'[b].log = << >>
        BY <1>2, <1>4 DEF Whole
      <4> QED
        BY <1>1, <1>3, <3>1, <4>1, EmptyNotFound DEF Types
    <3>3. Fetched(disk, home).pair = << c, b >>
      BY <1>2, <3>1, FetchedType DEF Types, Current, Pairs
    <3> QED
      BY <3>2, <3>3
  <2>2. CASE b \notin {home[1], home[2]}
    <3>1. \A k \in {home[1], home[2]} : disk[k].rev = disk'[k].rev /\ disk[k].log = disk'[k].log
      BY <2>2 DEF Types, Pairs
    <3> QED
      BY <1>3, <3>1, FetchedLocal DEF Types
  <2> QED
    BY <2>1, <2>2
<1>6. Current(disk', home) = c
  BY <1>2, <1>5 DEF Current
<1>7. Whole'
  BY <1>2, <1>4, <1>6 DEF Whole
<1>8. Fetched(disk', home).value = Fetched(disk, home).value /\ Fetched(disk', home).rev = Fetched(disk, home).rev
  <2>1. disk'[c].log # << >> /\ disk[c].log # << >>
    BY <1>2, <1>4 DEF Whole
  <2>2. home \in Pairs /\ disk \in [Blocks -> Block]
    BY DEF Types
  <2>3. /\ Fetched(disk, home).rev = disk[c].rev
        /\ Fetched(disk, home).value = disk[c].log[Len(disk[c].log)]
    BY <1>2, <2>1, <2>2, FetchedType
  <2>4. /\ Fetched(disk', home).rev = disk'[c].rev
        /\ Fetched(disk', home).value = disk'[c].log[Len(disk'[c].log)]
    BY <1>3, <1>6, <2>1, <2>2, FetchedType
  <2> QED
    BY <1>4, <2>3, <2>4
<1>9. Same'
  BY <1>1, <1>2, <1>4, <1>5, <1>6, <1>8 DEF Same, Current
<1> QED
  BY <1>7, <1>8, <1>9 DEF Value

\* What erases the second block, or starts to write it.
LEMMA BlockType ==
  ASSUME PairAssumption, NEW r \in Revision
  PROVE  [rev |-> r, log |-> << >>, after |-> "garbage"] \in Block
<1>1. << >> \in Logs
  <2>1. 0 \in 0..LogSize /\ << >> \in [1..0 -> Values]
    BY DEF PairAssumption
  <2> QED
    BY <2>1 DEF Logs
<1> QED
  BY <1>1 DEF Block, Logs

\* The second block has no commit while it is erased ...
LEMMA EraseStep ==
  ASSUME PairAssumption, Inv, Erase
  PROVE  Inv' /\ Value' = Value /\ job'.value = job.value /\ job'.step = "write"
<1> USE DEF Inv
<1>1. /\ job \in Job /\ job.pair \in Pairs /\ job.pair[2] \in Blocks /\ up
      /\ job.step = "erase" /\ UNCHANGED << home, up, dir >>
  BY DEF Types, Working, Pairs, Erase
<1>2. PICK r \in Revision : disk' = [disk EXCEPT ![job.pair[2]] =
                                     [rev |-> r, log |-> << >>, after |-> "garbage"]]
  BY DEF Erase
<1>3. /\ disk' \in [Blocks -> Block] /\ disk'[job.pair[2]].log = << >>
      /\ \A k \in Blocks \ {job.pair[2]} : disk'[k] = disk[k]
  BY <1>1, <1>2, BlockType DEF Types
<1>4. Whole' /\ Same' /\ Value' = Value
  BY <1>1, <1>3, SecondBlock
<1>5. /\ job'.step = "write" /\ job'.value = job.value /\ job'.moved = job.moved
      /\ job'.pair = job.pair /\ job' \in Job
  BY <1>1 DEF Job, Steps, Erase
<1>6. Types'
  BY <1>1, <1>3, <1>5 DEF Types
<1> QED
  BY <1>1, <1>3, <1>4, <1>5, <1>6 DEF Working, Written

\* ... and while only its revision is written.
LEMMA WriteRevStep ==
  ASSUME PairAssumption, Inv, WriteRev
  PROVE  Inv' /\ Value' = Value /\ job'.value = job.value /\ job'.step = "complete"
<1> USE DEF Inv
<1>1. /\ job \in Job /\ job.pair \in Pairs /\ job.pair[2] \in Blocks /\ up
      /\ job.step = "write" /\ UNCHANGED << home, up, dir >>
  BY DEF Types, Working, Pairs, WriteRev
<1>2. NextRev(dir.rev) \in Revision
  <2>1. dir.rev \in Int
    BY DEF Types, Dir, Revision
  <2> QED
    BY <2>1, NextRevType
<1>3. /\ disk' \in [Blocks -> Block] /\ disk'[job.pair[2]].log = << >>
      /\ disk'[job.pair[2]].rev = NextRev(dir.rev)
      /\ \A k \in Blocks \ {job.pair[2]} : disk'[k] = disk[k]
  BY <1>1, <1>2, BlockType DEF Types, WriteRev
<1>4. Whole' /\ Same' /\ Value' = Value
  BY <1>1, <1>3, SecondBlock
<1>5. /\ job'.step = "complete" /\ job'.value = job.value /\ job'.moved = job.moved
      /\ job'.pair = job.pair /\ job' \in Job
  BY <1>1 DEF Job, Steps, WriteRev
<1>6. Types'
  BY <1>1, <1>3, <1>5 DEF Types
<1> QED
  BY <1>1, <1>3, <1>4, <1>5, <1>6 DEF Working, Written

\* The second block, when it is complete, is found if it is of the pair.
LEMMA CompletedFound ==
  ASSUME PairAssumption, Inv, job.step = "complete",
         disk' \in [Blocks -> Block], disk'[job.pair[2]].log = << job.value >>,
         disk'[job.pair[2]].rev = disk[job.pair[2]].rev,
         \A k \in Blocks \ {job.pair[2]} : disk'[k] = disk[k],
         UNCHANGED << home, up >>
  PROVE  /\ Whole'
         /\ job.pair[2] \in {home[1], home[2]} =>
              /\ Fetched(disk', home).pair = << job.pair[2], job.pair[1] >>
              /\ Fetched(disk', home).rev = NextRev(dir.rev)
              /\ Value' = job.value
         /\ job.pair[2] \notin {home[1], home[2]} => Value' = Value
<1> USE DEF Inv
<1>1. /\ job.pair \in Pairs /\ job.pair[1] \in Blocks /\ job.pair[2] \in Blocks
      /\ job.pair[1] # job.pair[2] /\ Same /\ job.pair[1] = dir.pair[1]
      /\ disk[job.pair[2]].rev = NextRev(dir.rev) /\ job.value \in Values
  BY DEF Types, Working, Pairs
<1> DEFINE c == job.pair[1]
           b == job.pair[2]
<1>2. /\ c = Current(disk, home) /\ dir.pair \in {home, << home[2], home[1] >>}
      /\ dir.rev = disk[c].rev
  BY <1>1, SameFacts
<1>3. disk'[c] = disk[c]
  BY <1>1
<1>4. home \in Pairs
  BY DEF Types
<1>5. CASE b \in {home[1], home[2]}
  <2>1. home \in {<< c, b >>, << b, c >>}
    BY <1>1, <1>2, <1>4, <1>5, FetchedType DEF Types, Pairs
  <2>2. disk'[b].log # << >> /\ disk'[b].rev = NextRev(disk'[c].rev)
    BY <1>1, <1>2, <1>3
  <2>3. Fetched(disk', home).pair = << b, c >>
    BY <1>1, <1>4, <2>1, <2>2, NewerFound
  <2>4. Current(disk', home) = b
    BY <2>3 DEF Current
  <2>5. Whole'
    BY <2>2, <2>4 DEF Whole
  <2>6. /\ Fetched(disk', home).rev = NextRev(dir.rev)
        /\ Fetched(disk', home).value = job.value
    BY <1>1, <1>4, <2>2, <2>4, FetchedType
  <2> QED
    BY <1>5, <2>3, <2>5, <2>6 DEF Value
<1>6. CASE b \notin {home[1], home[2]}
  <2>1. home[1] \in Blocks \ {b} /\ home[2] \in Blocks \ {b} /\ disk \in [Blocks -> Block]
    BY <1>4, <1>6 DEF Pairs, Types
  <2>2. /\ Fetched(disk', home).pair = Fetched(disk, home).pair
        /\ Fetched(disk', home).value = Fetched(disk, home).value
    BY <1>4, <2>1, FetchedLocal
  <2>3. Whole'
    BY <1>2, <1>3, <2>2 DEF Whole, Current
  <2> QED
    BY <1>6, <2>2, <2>3 DEF Value
<1> QED
  BY <1>5, <1>6

\* The compacted directory replaces the first block, unless the parent is to
\* be told of a new block; if it did not stick, nothing has changed.
LEMMA CompactedStep ==
  ASSUME PairAssumption, Inv, Compacted
  PROVE  /\ Inv' /\ job'.value = job.value
         /\ \/ job'.step = "return" /\ Value' = job.value
            \/ job'.step # "return" /\ Value' \in {Value, job.value}
<1> USE DEF Inv
<1>1. /\ job \in Job /\ job.pair \in Pairs /\ job.pair[1] \in Blocks /\ job.pair[2] \in Blocks
      /\ job.pair[1] # job.pair[2] /\ job.pair[1] = dir.pair[1]
      /\ job.step = "complete" /\ job.value \in Values /\ Same
      /\ disk[job.pair[2]].rev = NextRev(dir.rev)
      /\ ~job.moved => job.pair = dir.pair
      /\ UNCHANGED << home, up >> /\ up
  BY DEF Types, Working, Pairs, Compacted
<1> DEFINE b == job.pair[2]
           pair == << b, job.pair[1] >>
<1>2. /\ job.pair[1] = Current(disk, home) /\ dir.pair \in {home, << home[2], home[1] >>}
      /\ dir.rev = disk[job.pair[1]].rev
      /\ dir.erased => LogSize > 1
  <2>1. disk[job.pair[1]].log \in Seq(Values) /\ disk[job.pair[1]].log # << >>
    BY <1>1, SameFacts, LogType DEF Whole, Block, Logs
  <2>2. Len(disk[job.pair[1]].log) >= 1
    BY <2>1
  <2> QED
    BY <1>1, <2>1, <2>2, SameFacts DEF PairAssumption
<1>3. CASE /\ disk' = [disk EXCEPT ![b].log = << job.value >>, ![b].after = "erased"]
           /\ IF job.moved
                THEN job' = [job EXCEPT !.step = "relink", !.pair = pair] /\ UNCHANGED dir
                ELSE Finish(pair, NextRev(dir.rev), dir.erased)
  <2>1. /\ disk' \in [Blocks -> Block]
        /\ disk'[b].log = << job.value >> /\ disk'[b].rev = disk[b].rev
        /\ \A k \in Blocks \ {b} : disk'[k] = disk[k]
    <3> DEFINE log == << job.value >>
    <3>1. log \in Logs
      BY <1>1, NewLogType
    <3>2. disk' = [disk EXCEPT ![b].log = log, ![b].after = "erased"]
      BY <1>3
    <3>3. b \in Blocks /\ disk \in [Blocks -> Block]
      BY <1>1 DEF Types
    <3> HIDE DEF log, b
    <3>4. disk' \in [Blocks -> Block]
      BY <3>1, <3>2, <3>3, BlockSet
    <3>5. /\ disk'[b].log = log /\ disk'[b].rev = disk[b].rev
          /\ \A k \in Blocks \ {b} : disk'[k] = disk[k]
      BY <3>1, <3>2, <3>3, WriteLog
    <3> QED
      BY <3>4, <3>5 DEF log
  <2>2. Whole' /\ pair \in Pairs
    BY <1>1, <2>1, CompletedFound DEF Pairs
  <2>3. CASE job.moved
    <3>1. job' = [job EXCEPT !.step = "relink", !.pair = pair] /\ UNCHANGED dir
      BY <1>3, <2>3
    <3>2. /\ job'.step = "relink" /\ job'.pair = pair /\ job'.value = job.value /\ job' \in Job
      BY <1>1, <2>2, <3>1 DEF Job, Steps
    <3>3. Types'
      BY <1>1, <2>1, <3>1, <3>2 DEF Types
    <3>4. Written'
      <4>1. job'.pair[1] = b /\ job'.pair[2] = job.pair[1]
        BY <3>2
      <4>2. job.pair[1] \in {home[1], home[2]}
        BY <1>2, FetchedType DEF Types
      <4> QED
        BY <1>1, <1>2, <2>1, <3>1, <3>2, <4>1, <4>2 DEF Written
    <3>5. Working'
      BY <1>1, <2>2, <3>1, <3>2 DEF Working
    <3>6. Value' \in {Value, job.value}
      BY <1>1, <2>1, CompletedFound
    <3> QED
      BY <2>2, <3>2, <3>3, <3>4, <3>5, <3>6
  <2>4. CASE ~job.moved
    <3>1. /\ dir' = [pair |-> pair, rev |-> NextRev(dir.rev), value |-> job.value,
                     erased |-> dir.erased]
          /\ job' = [job EXCEPT !.step = "return", !.pair = pair]
      BY <1>3, <2>4 DEF Finish
    <3>2. /\ job'.step = "return" /\ job'.pair = pair /\ job'.value = job.value /\ job' \in Job
      BY <1>1, <2>2, <3>1 DEF Job, Steps
    <3>3. b \in {home[1], home[2]}
      BY <1>1, <1>2, <2>4
    <3>4. /\ Fetched(disk', home).pair = pair
          /\ Fetched(disk', home).rev = NextRev(dir.rev)
          /\ Value' = job.value
      BY <1>1, <2>1, <3>3, CompletedFound
    <3>5. Len(disk'[b].log) = 1
      BY <2>1
    <3>6. Same'
      <4>1. /\ dir'.pair = Fetched(disk', home).pair /\ dir'.rev = Fetched(disk', home).rev
            /\ dir'.value = Fetched(disk', home).value
        BY <1>1, <3>1, <3>4 DEF Value
      <4>2. dir'.erased => Len(disk'[Fetched(disk', home).pair[1]].log) < LogSize
        <5>1. Fetched(disk', home).pair[1] = b /\ dir'.erased = dir.erased
          BY <3>1, <3>4
        <5> QED
          BY <1>2, <3>5, <5>1 DEF PairAssumption
      <4> QED
        BY <1>1, <4>1, <4>2 DEF Same
    <3>7. dir' \in Dir
      <4>1. NextRev(dir.rev) \in Revision /\ dir.erased \in BOOLEAN
        BY NextRevType DEF Types, Dir, Revision
      <4> QED
        BY <1>1, <2>2, <3>1, <4>1 DEF Dir
    <3>8. Types'
      BY <1>1, <2>1, <3>2, <3>7 DEF Types
    <3>9. Working' /\ Written'
      BY <1>1, <2>2, <3>1, <3>2, <3>6 DEF Working, Written
    <3> QED
      BY <2>2, <3>2, <3>4, <3>8, <3>9
  <2> QED
    BY <2>3, <2>4
<1>4. CASE /\ job' = [job EXCEPT !.step = "relocate"]
           /\ UNCHANGED << disk, dir >>
  <2>1. /\ job'.step = "relocate" /\ job'.value = job.value /\ job'.pair = job.pair
        /\ job'.moved = job.moved /\ job' \in Job
    BY <1>1, <1>4 DEF Job, Steps
  <2>2. Types' /\ Whole' /\ Same' /\ Value' = Value
    BY <1>1, <1>4, <2>1 DEF Types, Whole, Same, Value
  <2>3. Working' /\ Written'
    BY <1>1, <1>4, <2>1, <2>2 DEF Working, Written
  <2> QED
    BY <2>1, <2>2, <2>3
<1> QED
  BY <1>3, <1>4 DEF Compacted

\* The parent names the new pair, in which the new block is found.
LEMMA RelinkStep ==
  ASSUME PairAssumption, Inv, Relink
  PROVE  Inv' /\ job'.value = job.value /\ job'.step = "return" /\ Value' = job.value
<1> USE DEF Inv
<1>1. /\ job \in Job /\ job.pair \in Pairs /\ job.step = "relink" /\ job.value \in Values
      /\ disk[job.pair[2]].rev = dir.rev /\ disk[job.pair[1]].rev = NextRev(dir.rev)
      /\ disk[job.pair[1]].log = << job.value >> /\ (dir.erased => LogSize > 1)
      /\ up /\ up' = up /\ home' = job.pair
  BY DEF Types, Working, Written, Relink
<1> DEFINE last == disk[job.pair[1]].log
<1>last. last # << >> /\ Len(last) = 1 /\ last[Len(last)] = job.value
  BY <1>1
<1>2. disk' = [x \in Blocks |-> IF x \in {job.pair[1], job.pair[2]} THEN disk[x] ELSE Blank]
  BY DEF Relink
<1>3. /\ dir' = [pair |-> job.pair, rev |-> NextRev(dir.rev), value |-> job.value,
                 erased |-> dir.erased]
      /\ job' = [job EXCEPT !.step = "return", !.pair = job.pair]
  BY DEF Relink, Finish
<1>4. /\ job'.step = "return" /\ job'.pair = job.pair /\ job'.value = job.value /\ job' \in Job
  BY <1>1, <1>3 DEF Job, Steps
<1>5. disk' \in [Blocks -> Block]
  <2>1. << >> \in Logs
    BY <1>1, NewLogType
  <2>2. AllOnes \in Revision
    BY DEF AllOnes, Revision, PairAssumption
  <2>3. Blank \in Block
    BY <2>1, <2>2 DEF Blank, Block, Logs
  <2> QED
    BY <1>2, <2>3 DEF Types
<1>6. disk'[job.pair[1]] = disk[job.pair[1]] /\ disk'[job.pair[2]] = disk[job.pair[2]]
  BY <1>1, <1>2 DEF Pairs
<1>7. Fetched(disk', home').pair = job.pair
  <2> DEFINE a == job.pair[2]
             b == job.pair[1]
  <2>1. a \in Blocks /\ b \in Blocks /\ job.pair = << b, a >>
    BY <1>1 DEF Pairs
  <2>2. disk'[b].log # << >> /\ disk'[b].rev = NextRev(disk'[a].rev)
    <3>1. b \in Blocks /\ a \in Blocks /\ disk'[b].log = last
      BY <1>6, <2>1
    <3>2. disk'[b].rev = NextRev(dir.rev) /\ disk'[a].rev = dir.rev
      BY <1>1, <1>6
    <3> QED
      BY <1>last, <3>1, <3>2
  <2> HIDE DEF a, b
  <2>3. Fetched(disk', job.pair).pair = << b, a >>
    BY <1>1, <1>5, <2>1, <2>2, NewerFound
  <2> QED
    BY <1>1, <2>1, <2>3
<1>8. Current(disk', home') = job.pair[1]
  BY <1>7 DEF Current
<1>9. Whole'
  <2>1. disk'[job.pair[1]].log = last
    BY <1>6
  <2> QED
    BY <1>8, <1>last, <2>1 DEF Whole
<1>10. /\ Fetched(disk', home').rev = NextRev(dir.rev)
       /\ Fetched(disk', home').value = job.value
       /\ Len(disk'[job.pair[1]].log) = 1
  <2>1. disk'[job.pair[1]].log = last /\ last # << >>
    BY <1>6, <1>last
  <2>2. /\ Fetched(disk', home').rev = disk'[job.pair[1]].rev
        /\ Fetched(disk', home').value = disk'[job.pair[1]].log[Len(disk'[job.pair[1]].log)]
    BY <1>1, <1>5, <1>8, <2>1, FetchedType
  <2>3. disk'[job.pair[1]].rev = NextRev(dir.rev)
    BY <1>1, <1>6
  <2> QED
    BY <1>last, <2>1, <2>2, <2>3
<1>11. Same'
  <2>1. /\ dir'.pair = Fetched(disk', home').pair /\ dir'.rev = Fetched(disk', home').rev
        /\ dir'.value = Fetched(disk', home').value
    BY <1>3, <1>7, <1>10
  <2>2. dir'.erased => Len(disk'[Fetched(disk', home').pair[1]].log) < LogSize
    <3>1. Fetched(disk', home').pair[1] = job.pair[1] /\ dir'.erased = dir.erased
      BY <1>3, <1>7
    <3> QED
      BY <1>1, <1>10, <3>1 DEF PairAssumption
  <2> QED
    BY <2>1, <2>2 DEF Same
<1>12. dir' \in Dir
  <2>1. NextRev(dir.rev) \in Revision /\ dir.erased \in BOOLEAN
    BY NextRevType DEF Types, Dir, Revision
  <2> QED
    BY <1>1, <1>3, <2>1 DEF Dir
<1>13. Types'
  BY <1>1, <1>4, <1>5, <1>12 DEF Types
<1>14. Working' /\ Written'
  BY <1>1, <1>3, <1>4, <1>11 DEF Working, Written
<1> QED
  BY <1>4, <1>9, <1>10, <1>13, <1>14 DEF Value

-----------------------------------------------------------------------------
(* The theorems. *)

\* Every step keeps the invariant.
LEMMA InvNext ==
  ASSUME PairAssumption, Inv, [Next]_vars
  PROVE  Inv'
<1>1. ASSUME UNCHANGED vars PROVE Inv'
  BY <1>1 DEF vars, Inv, Types, Whole, Working, Written, Same
<1> QED
  BY <1>1, FetchStep, CommitStep, ProgStep, CommitCrcStep, EraseStep, WriteRevStep,
     CompactedStep, RelocateStep, RelinkStep, ReturnStep, PowerLossStep DEF Next

\* Every step is a step of the abstract pair, or changes nothing that it shows.
LEMMA StepImplements ==
  ASSUME PairAssumption, Inv, [Next]_vars
  PROVE  [Committed!Next]_(Committed!vars)
<1> DEFINE done == job.step = "return"
<1> USE DEF Committed!Next, Committed!vars
<1>1. CASE UNCHANGED vars
  BY <1>1 DEF vars
<1>2. CASE Fetch
  BY <1>2 DEF Fetch
<1>3. ASSUME NEW v \in Values, Commit(v) PROVE [Committed!Next]_(Committed!vars)
  <2>1. job.step = "none" /\ job.value = Idle
    BY <1>3 DEF Commit, NoJob
  <2>2. job'.step # "return" /\ job'.value = v /\ UNCHANGED << disk, home >>
    BY <1>3 DEF Commit
  <2>3. Committed!Begin(v)
    BY <2>1, <2>2 DEF Committed!Begin
  <2> QED
    BY <2>3
<1>4. CASE Prog
  <2>1. Value' = Value /\ job'.value = job.value /\ job.step # "return" /\ job'.step # "return"
    BY <1>4, ProgStep DEF Prog
  <2> QED
    BY <2>1 DEF Value
<1>5. ASSUME job.step \notin {"none", "return"}, job'.value = job.value, Value' = job.value
      PROVE  Committed!Take
  <2>1. job.value # Idle
    BY <1>5 DEF Inv, Working, PairAssumption
  <2> QED
    BY <1>5, <2>1 DEF Committed!Take, Value
<1>6. ASSUME job.step # "return", job'.step # "return", job'.value = job.value, Value' = Value
      PROVE  UNCHANGED Committed!vars
  BY <1>6 DEF Value
<1>7. CASE CommitCrc
  <2>1. job.step = "check"
    BY <1>7 DEF CommitCrc
  <2> QED
    BY <1>5, <1>6, <1>7, <2>1, CommitCrcStep
<1>8. CASE Erase
  <2>1. job.step = "erase"
    BY <1>8 DEF Erase
  <2> QED
    BY <1>6, <1>8, <2>1, EraseStep
<1>9. CASE WriteRev
  <2>1. job.step = "write"
    BY <1>9 DEF WriteRev
  <2> QED
    BY <1>6, <1>9, <2>1, WriteRevStep
<1>10. CASE Compacted
  <2>1. job.step = "complete"
    BY <1>10 DEF Compacted
  <2> QED
    BY <1>5, <1>6, <1>10, <2>1, CompactedStep
<1>11. CASE Relocate
  <2>1. job.step \in {"relocate", "worn"} /\ UNCHANGED << disk, home >>
    BY <1>11 DEF Relocate
  <2>2. job'.value = job.value /\ job'.step # "return"
    BY <1>11 DEF Relocate, Replace, Inv, Types, Job
  <2> QED
    BY <1>6, <2>1, <2>2 DEF Value
<1>12. CASE Relink
  <2>1. job.step = "relink"
    BY <1>12 DEF Relink
  <2> QED
    BY <1>5, <1>12, <2>1, RelinkStep
<1>13. CASE Return
  <2>1. /\ job.step \in {"return", "fail"} /\ job' = NoJob
        /\ UNCHANGED << disk, home >>
    BY <1>13 DEF Return
  <2>2. /\ job.value # Idle
        /\ job.step = "return" <=> Fetched(disk, home).value = job.value
    BY <2>1 DEF Inv, Working, Same, PairAssumption
  <2>3. Committed!Return
    BY <2>1, <2>2 DEF Committed!Return, NoJob
  <2> QED
    BY <2>3
<1>14. CASE PowerLoss
  <2>1. Committed!PowerLoss
    BY <1>14 DEF PowerLoss, Committed!PowerLoss, NoJob
  <2> QED
    BY <2>1
<1> QED
  BY <1>1, <1>2, <1>3, <1>4, <1>7, <1>8, <1>9, <1>10, <1>11, <1>12, <1>13, <1>14 DEF Next

\* A pair in memory that no commit is using is the one that a mount would find
\* (lfs_dir_commit keeps lfs_mdir_t up to date, also when it fails).
THEOREM MountedTrue ==
  ASSUME PairAssumption PROVE Spec => []PairTypeOK
<1>1. PairAssumption
  OBVIOUS
<1>2. Init => Inv
  BY <1>1, InvInit
<1>3. Inv /\ [Next]_vars => Inv'
  BY <1>1, InvNext
<1>4. Inv => PairTypeOK
  BY DEF Inv, Types, Working, Same, NoJob, PairTypeOK, Pairs
<1> QED
  BY <1>2, <1>3, <1>4, PTL DEF Spec

\* A commit is atomic, and its result true, whenever power is lost and whatever
\* bytes do not stick: a pair implements AtomicCommit (lfs_dir_commit,
\* lfs_dir_compact, lfs_dir_fetchmatch).
THEOREM PairImplementsCommit ==
  ASSUME PairAssumption PROVE Spec => Atomic
<1>1. PairAssumption
  OBVIOUS
<1>2. Init => Inv
  BY <1>1, InvInit
<1>3. Inv /\ [Next]_vars => Inv'
  BY <1>1, InvNext
<1>4. Init => Committed!Init
  <2> SUFFICES ASSUME Init PROVE Committed!Init
    OBVIOUS
  <2>1. Fetched(disk, home).value \in Values
    BY <1>1, <1>2, FetchedDir DEF Inv, Types, Whole
  <2>2. job = NoJob
    BY DEF Init
  <2> QED
    BY <2>1, <2>2 DEF Committed!Init, NoJob
<1>5. Inv /\ [Next]_vars => [Committed!Next]_(Committed!vars)
  BY <1>1, StepImplements
<1> QED
  BY <1>2, <1>3, <1>4, <1>5, PTL DEF Spec, Atomic, Committed!Spec
=============================================================================

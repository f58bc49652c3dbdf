------------------------------ MODULE LfsFile -------------------------------
(***************************************************************************)
(* A file of littlefs and its handle.  A small file is kept in the         *)
(* directory (inline), a larger one in a list of blocks (LfsCtz), of which *)
(* a write copies the block that it changes and all after it.  The handle  *)
(* has a cache through which it reads and writes; the library has one for  *)
(* reading and one for programming.  The entry in the directory changes    *)
(* with one commit, when the file is synchronized.                         *)
(*                                                                         *)
(* A call is one step, which an operator computes from the state S, in the *)
(* order of the code; S.err ends it early.  A pointer takes one cell.  The *)
(* allocator gives out any block that it does not know to be in use: here  *)
(* the lowest.  The port has a read size of 1.                             *)
(***************************************************************************)
EXTENDS LfsCtz, Integers, FiniteSets, FiniteSetsExt, SequencesExt

CONSTANTS Blocks, CacheSize, ProgSize, InlineMax, FileMax,
          Appending,  \* the file is opened with LFS_O_APPEND
          Lengths,    \* how much a call writes or reads
          Places,     \* the positions and sizes that calls are given
          InitFiles,  \* the lengths that the file has at first
          BadBlocks,  \* the sets of blocks that may be bad
          Fuels,      \* a call fails at one of these writes to the device; 0: none
          Retries,    \* a handle is used further when a call has failed
          MaxCalls    \* a bound on the number of calls

\* What the constants are.
FileAssumption ==
  /\ Word = 1 /\ CacheSize % ProgSize = 0 /\ BlockSize % CacheSize = 0
  /\ InlineMax \in 0..CacheSize

VARIABLES flash,  \* the cells of each block
          bad,    \* the blocks that cannot be programmed
          entry,  \* the entry of the file in its directory
          file,   \* the handle
          cache,  \* the caches of the handle, and of the library
          ret,    \* the last call and its result
          ok,     \* no call for this handle has failed
          saved,  \* the bytes on storage
          shown,  \* the bytes of the handle
          alarm,  \* what the code relies on and what has not been so
          calls   \* the number of calls

vars == << flash, bad, entry, file, cache, ret, ok, saved, shown, alarm, calls >>

Null == -1
Inline == -2       \* LFS_BLOCK_INLINE
Erased == -1
Junk == -2         \* what is read from a bad block
PointerTo(b) == 100 + b
Target(cell) == cell - 100

Least(m, n) == IF m < n THEN m ELSE n
Most(m, n) == IF m > n THEN m ELSE n
Repeat(x, n) == [i \in 1..n |-> x]
Fit(s, n) == [i \in 1..n |-> IF i <= Len(s) THEN s[i] ELSE Erased]

NoCache == [block |-> Null, off |-> 0, buf |-> << >>]
Closed == [open |-> FALSE, flags |-> {}, pos |-> 0, off |-> 0, block |-> Null,
           head |-> Null, size |-> 0]

----------------------------------------------------------------------------
\* The state that an operator is given, and what becomes of it.

Given(fuel) ==
  [flash |-> flash, entry |-> entry, f |-> file, o |-> Closed,
   c |-> [f |-> cache.f, r |-> cache.r, p |-> cache.p, o |-> NoCache, none |-> NoCache],
   alarm |-> alarm, err |-> "ok", out |-> << >>, cell |-> 0, found |-> << Null, 0 >>,
   block |-> Null, given |-> {}, fuel |-> fuel]

Ok(S) == S.err = "ok"
Error(S, e) == [S EXCEPT !.err = e]
Alarm(S, a) == [S EXCEPT !.alarm = @ \cup {a}]
Set(S, flag) == [S EXCEPT !.f.flags = @ \cup {flag}]
Clear(S, flag) == [S EXCEPT !.f.flags = @ \ {flag}]
\* The call goes on, unless an error has ended it; one in writing is remembered.
Then(S, Op(_)) == IF Ok(S) THEN Op(S) ELSE S
Erred(S) == IF Ok(S) THEN S ELSE Set(S, "erred")
\* A bad block: the same once more, with another block.
OrAgain(S, Op(_), Again(_)) ==
  IF S.err = "corrupt" THEN Again([S EXCEPT !.err = "ok"]) ELSE Then(S, Op)
\* lfs_cache_drop and lfs_cache_zero: the offset and the size stay
Drop(S, c) == [S EXCEPT !.c[c].block = Null, !.c[c].buf = Repeat(Erased, Len(@))]

Holds(c, b, i) == c.block = b /\ i >= c.off /\ i < c.off + Len(c.buf)
\* A cell as the handle sees it, with what it has not programmed yet.
Look(S, b, i) ==
  IF Holds(S.c.f, b, i) THEN S.c.f.buf[i - S.c.f.off + 1] ELSE S.flash[b][i]

\* lfs_ctz_traverse
RECURSIVE Visited(_, _, _)
Visited(S, head, index) ==
  IF head \notin Blocks THEN {}
  ELSE IF index = 0 THEN {head}
  ELSE IF index % 2 = 1 THEN {head} \cup Visited(S, Target(Look(S, head, 0)), index - 1)
  ELSE {head, Target(Look(S, head, 0))} \cup Visited(S, Target(Look(S, head, 1)), index - 2)
BlocksOf(S, head, size) ==
  IF size = 0 \/ head = Inline THEN {} ELSE Visited(S, head, CtzIndex(size - 1)[1])

\* [mutant] The blocks of a handle are not in use before it is synchronized.
UsedOnDisk(S) == BlocksOf(S, S.entry.head, S.entry.size)

\* [mutant] The blocks that a handle has replaced are free at once.
UsedByHandle(S) ==
  IF "dirty" \in S.f.flags THEN BlocksOf(S, S.f.head, S.f.size)
  ELSE IF "writing" \in S.f.flags THEN BlocksOf(S, S.f.block, S.f.pos)
  ELSE BlocksOf(S, S.entry.head, S.entry.size)

\* lfs_fs_traverse, for lfs_alloc
Used(S) ==
  BlocksOf(S, S.entry.head, S.entry.size) \cup
  (IF "dirty" \in S.f.flags /\ "inline" \notin S.f.flags
     THEN BlocksOf(S, S.f.head, S.f.size) ELSE {}) \cup
  (IF "writing" \in S.f.flags /\ "inline" \notin S.f.flags
     THEN BlocksOf(S, S.f.block, S.f.pos) ELSE {})

----------------------------------------------------------------------------
\* The block device behind its caches.

RECURSIVE BdRead(_, _, _, _, _, _, _)
BdRead(S, p, r, hint, b, off, n) ==
  LET End(c) == c.off + Len(c.buf)
      \* how much can be read up to a cache
      Before(c, k) == IF c.block = b /\ off < End(c) THEN Least(k, c.off - off) ELSE k
      Take(c) == LET k == Least(n, End(c) - off)
                 IN  BdRead([S EXCEPT !.out = @ \o SubSeq(c.buf, off - c.off + 1, off - c.off + k)],
                            p, r, hint, b, off + k, n - k)
      Cells(k) == [i \in 1..k |-> S.flash[b][off + i - 1]]
      direct == Before(S.c[r], Before(S.c[p], n))
      load == Least(Least(off + hint, BlockSize) - off, CacheSize)
  IN  IF n = 0 THEN S
      ELSE IF b \notin Blocks \/ off + n > BlockSize THEN Error(S, "corrupt")
      ELSE IF Holds(S.c[p], b, off) THEN Take(S.c[p])
      ELSE IF Holds(S.c[r], b, off) THEN Take(S.c[r])
      ELSE IF n >= hint
        THEN BdRead([S EXCEPT !.out = @ \o Cells(direct)], p, r, hint, b, off + direct, n - direct)
      ELSE BdRead([S EXCEPT !.c[r] = [block |-> b, off |-> off, buf |-> Cells(load)]],
                  p, r, hint, b, off, n)

\* One cell, in S.cell; an address that does not exist is not a bad block.
ReadCell(S, p, r, hint, b, off) ==
  LET Found(R) == IF Ok(R) THEN [R EXCEPT !.out = S.out, !.cell = R.out[1]]
                  ELSE Error(S, "address")
  IN  Found(BdRead([S EXCEPT !.out = << >>], p, r, hint, b, off, 1))

\* A block of the file as it is on storage must not be touched.
Touched(S, b) ==
  IF b \in BlocksOf([S EXCEPT !.c.f = NoCache], S.entry.head, S.entry.size)
    THEN Alarm(S, "saved block changed") ELSE S

\* [mutant] A block is taken to be erased.
BdEraseNot(S, b) == Touched(S, b)

BdErase(S, b) ==
  LET T == Touched(S, b)
  IN  [T EXCEPT !.flash[b] = [i \in 0..(BlockSize - 1) |-> Erased]]

\* [mutant] The cache is emptied before what it holds is checked.
BdFlushUnread(S, p, r) ==
  LET c == S.c[p]
      cells == Fit(c.buf, Len(c.buf) + ((-Len(c.buf)) % ProgSize))
      there == IF c.block \in bad THEN Repeat(Junk, Len(cells)) ELSE cells
  IN  IF c.block \in {Null, Inline} THEN S
      ELSE IF S.fuel = 1 THEN [Error(S, "io") EXCEPT !.fuel = 0]
      ELSE Drop([S EXCEPT !.fuel = Most(@ - 1, 0),
                  !.flash[c.block] = [i \in DOMAIN @ |->
                     IF i \in c.off..(c.off + Len(cells) - 1) THEN there[i - c.off + 1] ELSE @[i]]],
                p)

\* [mutant] An error of the device is not noticed.
BdFlushBlind(S, p, r) ==
  LET c == S.c[p]
      cells == Fit(c.buf, Len(c.buf) + ((-Len(c.buf)) % ProgSize))
      at == c.off..(c.off + Len(cells) - 1)
      P == [S EXCEPT !.flash[c.block] = [i \in DOMAIN @ |->
                                           IF i \in at THEN cells[i - c.off + 1] ELSE @[i]]]
  IN  IF c.block \in {Null, Inline} THEN S
      ELSE IF S.fuel = 1 THEN Drop([S EXCEPT !.fuel = 0], p)
      ELSE Drop([P EXCEPT !.fuel = Most(@ - 1, 0)], p)

\* lfs_bd_flush, which reads back what it has programmed
BdFlush(S, p, r) ==
  LET c == S.c[p]
      cells == Fit(c.buf, Len(c.buf) + ((-Len(c.buf)) % ProgSize))
      at == c.off..(c.off + Len(cells) - 1)
      there == IF c.block \in bad THEN Repeat(Junk, Len(cells)) ELSE cells
      T == IF \E i \in at : S.flash[c.block][i] # Erased
             THEN Alarm(S, "programmed twice") ELSE S
      Checked(P) == IF c.block \in bad THEN Error(P, "corrupt") ELSE Drop(P, p)
  IN  IF c.block \in {Null, Inline} THEN S
      ELSE IF S.fuel = 1 THEN [Error(S, "io") EXCEPT !.fuel = 0]
      ELSE Checked([Touched(T, c.block) EXCEPT
                      !.fuel = Most(@ - 1, 0),
                      !.flash[c.block] = [i \in DOMAIN @ |->
                                            IF i \in at THEN there[i - c.off + 1] ELSE @[i]],
                      !.c[r] = [block |-> c.block, off |-> c.off, buf |-> there]])

RECURSIVE BdProg(_, _, _, _, _, _)
BdProg(S, p, r, b, off, data) ==
  LET c == S.c[p]
      at == off - c.off
      k == Least(Len(data), CacheSize - at)
      P == [S EXCEPT !.c[p].buf = Fit(c.buf, at) \o SubSeq(data, 1, k)
                                    \o SubSeq(c.buf, at + k + 1, Len(c.buf))]
      Flushed(T) == IF Len(T.c[p].buf) = CacheSize THEN BdFlush(T, p, r) ELSE T
      A == IF c.block = Null THEN S ELSE Alarm(S, "cache overwritten")
  IN  IF data = << >> \/ ~Ok(S) THEN S
      ELSE IF c.block = b /\ at >= 0 /\ at < CacheSize
        THEN BdProg(Flushed(P), p, r, b, off + k, SubSeq(data, k + 1, Len(data)))
      ELSE BdProg([A EXCEPT !.c[p] = [block |-> b, off |-> off - (off % ProgSize), buf |-> << >>]],
                  p, r, b, off, data)

\* The blocks that the handle has written so far, with the one it writes now.
Written(S) ==
  IF "writing" \in S.f.flags /\ "inline" \notin S.f.flags /\ S.f.off > 0
    THEN Visited(S, S.f.block,
                 CtzIndex(IF S.f.off = BlockSize THEN S.f.pos - 1 ELSE S.f.pos)[1])
    ELSE {}

\* The blocks that were given out since the last checkpoint are in S.given.
Alloc(S) ==
  LET free == Blocks \ (Used(S) \cup S.given)
      T == IF Min(free) \in Written(S) THEN Alarm(S, "given twice") ELSE S
  IN  IF free = {} THEN Error(S, "nospc")
      ELSE [T EXCEPT !.block = Min(free), !.given = @ \cup {Min(free)}]
Checkpoint(S) == [S EXCEPT !.given = {}]

----------------------------------------------------------------------------
\* The list of blocks.

\* lfs_ctz_find, from block number at[1] to the block and offset at to
RECURSIVE Hop(_, _, _, _, _)
Hop(S, w, head, current, to) ==
  IF current <= to[1] THEN [S EXCEPT !.found = << head, to[2] >>]
  ELSE LET skip == Skip(current, to[1])
       IN  Then(ReadCell(S, "none", w, 1, head, skip),
                LAMBDA R : Hop(R, w, Target(R.cell), current - 2^skip, to))

CtzFind(S, w, head, size, pos) ==
  IF size = 0 THEN [S EXCEPT !.found = << Null, 0 >>]
  ELSE Hop(S, w, head, CtzIndex(size - 1)[1], CtzIndex(pos))

\* The first n cells of a block are copied.
RECURSIVE CopyCells(_, _, _, _, _)
CopyCells(S, head, b, i, n) ==
  IF i = n \/ ~Ok(S) THEN S
  ELSE Then(ReadCell(S, "none", "r", n - i, head, i),
            LAMBDA R : CopyCells(BdProg(R, "f", "r", b, i, << R.cell >>), head, b, i + 1, n))

RECURSIVE Link(_, _, _, _, _)
Link(S, nhead, b, i, skips) ==
  Then(BdProg(S, "f", "r", b, i, << PointerTo(nhead) >>), LAMBDA P :
    IF i = skips - 1 THEN P
    ELSE Then(ReadCell(P, "none", "r", 1, nhead, i),
              LAMBDA R : Link(R, Target(R.cell), b, i + 1, skips)))

\* lfs_ctz_extend: a new block for a file of this size, or a copy of its last
\* block if that is not full; another is tried if it is bad.
RECURSIVE CtzExtend(_, _, _)
CtzExtend(S, head, size) ==
  LET last == CtzIndex(size - 1)
      n == last[2] + 1
      skips == Skips(last[1] + 1)
      off == IF size = 0 THEN 0 ELSE IF n # BlockSize THEN n ELSE skips
  IN  Then(Alloc(S), LAMBDA A :
        LET Filled(E) == IF size = 0 THEN E
                         ELSE IF n # BlockSize THEN CopyCells(E, head, A.block, 0, n)
                         ELSE Link(E, head, A.block, 0, skips)
        IN  OrAgain(Filled(BdErase(A, A.block)),
                    LAMBDA X : [X EXCEPT !.f.block = A.block, !.f.off = off],
                    LAMBDA X : CtzExtend(Drop(X, "f"), head, size)))

----------------------------------------------------------------------------
\* The handle.

\* lfs_file_flushedread, for the handle w
RECURSIVE ReadOn(_, _, _)
ReadOn(S, w, n) ==
  LET h == S[w]
      inline == "inline" \in h.flags
      found == IF inline THEN [S EXCEPT !.found = << Inline, h.pos >>]
               ELSE CtzFind(S, w, h.head, h.size, h.pos)
      placed == IF "reading" \in h.flags /\ h.off # BlockSize THEN S
                ELSE Then(found, LAMBDA F :
                       [F EXCEPT ![w].block = F.found[1], ![w].off = F.found[2],
                                 ![w].flags = @ \cup {"reading"}])
  IN  IF n = 0 THEN S
      ELSE Then(placed, LAMBDA A :
        LET off == A[w].off
            k == Least(n, BlockSize - off)
        IN  Then(IF inline THEN [A EXCEPT !.out = @ \o SubSeq(A.c[w].buf, off + 1, off + k)]
                 ELSE BdRead(A, "none", w, BlockSize, A[w].block, off, k),
                 LAMBDA B : ReadOn([B EXCEPT ![w].pos = @ + k, ![w].off = @ + k], w, n - k)))

FlushedRead(S, w, n) ==
  IF S[w].pos >= S[w].size THEN S ELSE ReadOn(S, w, Least(n, S[w].size - S[w].pos))

\* lfs_file_relocate: what block b of the handle has so far goes to a new block.
RECURSIVE CopyOver(_, _, _)
CopyOver(S, b, i) ==
  LET R == IF "inline" \in S.f.flags THEN [S EXCEPT !.cell = S.c.f.buf[i + 1]]
           ELSE ReadCell(S, "f", "r", S.f.off - i, S.f.block, i)
  IN  IF ~Ok(S) \/ i >= S.f.off THEN S
      ELSE Then(R, LAMBDA T : CopyOver(BdProg(T, "p", "r", b, i, << T.cell >>), b, i + 1))

RECURSIVE Relocate(_)
Relocate(S) ==
  Then(Alloc(S), LAMBDA A :
    OrAgain(CopyOver(BdErase(A, A.block), A.block, 0),
            LAMBDA C : [Set(C, "writing") EXCEPT !.c.f = C.c.p, !.c.p = NoCache,
                                                 !.f.block = A.block],
            LAMBDA C : Relocate(Drop(C, "p"))))

Outline(S) ==
  Then(Relocate(Checkpoint([S EXCEPT !.f.off = S.f.pos])), LAMBDA R : Clear(R, "inline"))

\* Programming through the cache of the handle, and again if the block is bad.
RECURSIVE ProgSure(_, _)
ProgSure(S, data) ==
  OrAgain(BdProg(S, "f", "r", S.f.block, S.f.off, data), LAMBDA P : P,
          LAMBDA P : Then(Relocate(P), LAMBDA R : ProgSure(R, data)))

\* The block that is written next: at the start of a write a copy of the block
\* before the position or, if that is full, a new one.
Started(S) ==
  LET before == IF "writing" \in S.f.flags \/ S.f.pos = 0 THEN S
                ELSE Then(CtzFind(S, "f", S.f.head, S.f.size, S.f.pos - 1),
                          LAMBDA F : Drop([F EXCEPT !.f.block = F.found[1]], "f"))
  IN  IF "inline" \in S.f.flags
        THEN Set([S EXCEPT !.f.block = Inline, !.f.off = S.f.pos], "writing")
      ELSE Then(before, LAMBDA B : Then(CtzExtend(Checkpoint(B), B.f.block, B.f.pos),
                                        LAMBDA X : Set(X, "writing")))

\* lfs_file_flushedwrite
RECURSIVE WriteOn(_, _)
WriteOn(S, data) ==
  IF data = << >> THEN S
  ELSE Then(Erred(IF "writing" \in S.f.flags /\ S.f.off # BlockSize THEN S ELSE Started(S)),
    LAMBDA A :
      LET k == Least(Len(data), BlockSize - A.f.off)
      IN  Then(Erred(ProgSure(A, SubSeq(data, 1, k))), LAMBDA P :
            WriteOn(Checkpoint([P EXCEPT !.f.pos = @ + k, !.f.off = @ + k]),
                    SubSeq(data, k + 1, Len(data)))))

FlushedWrite(S, data) ==
  LET out == "inline" \in S.f.flags /\ Most(S.f.pos + Len(data), S.f.size) > InlineMax
  IN  Then(Erred(IF out THEN Outline(S) ELSE S), LAMBDA O : WriteOn(O, data))

\* The old contents behind what was written, cell by cell, through a handle of
\* their own whose cache shares its buffer with the cache for reading.
RECURSIVE CopyRest(_)
CopyRest(S) ==
  IF S.f.pos >= S.f.size THEN S
  ELSE Then(FlushedRead([S EXCEPT !.out = << >>], "o", 1), LAMBDA R :
    Then(FlushedWrite([R EXCEPT !.out = S.out], R.out), LAMBDA W :
      CopyRest(IF W.c.r.block = Null THEN W ELSE Drop(Drop(W, "o"), "r"))))

RECURSIVE FlushSure(_)
FlushSure(S) ==
  OrAgain(BdFlush(S, "f", "r"), LAMBDA P : P,
          LAMBDA P : Then(Relocate(P), LAMBDA R : FlushSure(R)))

\* [mutant] What is behind the position is not copied.
FlushWritesShort(S) ==
  Then(IF "inline" \in S.f.flags THEN [S EXCEPT !.f.pos = Most(@, S.f.size)] ELSE FlushSure(S),
    LAMBDA F : Set(Clear([F EXCEPT !.f.head = F.f.block, !.f.size = F.f.pos,
                                   !.f.pos = S.f.pos], "writing"), "dirty"))

\* The second half of lfs_file_flush, if the handle has been written to.
FlushWrites(S) ==
  LET orig == [S.f EXCEPT !.flags = {}]
      C == CopyRest(Drop([S EXCEPT !.o = orig, !.c.o = S.c.r], "r"))
  IN  Then(IF "inline" \in S.f.flags THEN [S EXCEPT !.f.pos = Most(@, S.f.size)]
           ELSE Then(C, LAMBDA T : FlushSure(T)),
        LAMBDA F : Set(Clear([F EXCEPT !.f.head = F.f.block, !.f.size = F.f.pos,
                                       !.f.pos = S.f.pos], "writing"), "dirty"))

\* [mutant] The cache keeps what was read through it.
FlushKept(S) ==
  LET R == IF "reading" \in S.f.flags THEN Clear(S, "reading") ELSE S
  IN  IF "writing" \in R.f.flags THEN FlushWrites(R) ELSE R

\* lfs_file_flush
Flush(S) ==
  LET D == IF "inline" \in S.f.flags THEN S ELSE Drop(S, "f")
      R == IF "reading" \in S.f.flags THEN Clear(D, "reading") ELSE S
  IN  IF "writing" \in R.f.flags THEN FlushWrites(R) ELSE R

\* lfs_file_sync: the entry is committed if the handle has changed.
Sync(S) ==
  IF "erred" \in S.f.flags THEN S
  ELSE Then(Erred(Flush(S)), LAMBDA F :
    LET new == IF "inline" \in F.f.flags
                 THEN [head |-> Inline, size |-> F.f.size, data |-> SubSeq(F.c.f.buf, 1, F.f.size)]
               ELSE [head |-> F.f.head, size |-> F.f.size, data |-> << >>]
    IN  IF "dirty" \notin F.f.flags THEN F
        ELSE IF F.fuel = 1 THEN Set(Error(F, "io"), "erred")
        ELSE [Clear(F, "dirty") EXCEPT !.entry = new, !.c.r = NoCache, !.c.p = NoCache])

RECURSIVE WriteZeros(_, _)
WriteZeros(S, n) ==
  LET W == FlushedWrite(S, << 0 >>)
  IN  IF n = 0 \/ ~Ok(S) THEN S ELSE WriteZeros(W, n - 1)

Read(S, n) ==
  Then(IF "writing" \in S.f.flags THEN Flush(S) ELSE S, LAMBDA F : FlushedRead(F, "f", n))

Write(S, data) ==
  Then(IF "reading" \in S.f.flags THEN Flush(S) ELSE S, LAMBDA F :
    LET A == IF Appending /\ F.f.pos < F.f.size THEN [F EXCEPT !.f.pos = F.f.size] ELSE F
        gap == A.f.pos - A.f.size
        Z == IF "writing" \notin A.f.flags /\ gap > 0
               THEN WriteZeros([A EXCEPT !.f.pos = A.f.size], gap) ELSE A
    IN  IF A.f.pos + Len(data) > FileMax THEN Error(A, "fbig")
        ELSE Then(Z, LAMBDA Y : Then(FlushedWrite(Y, data), LAMBDA W : Clear(W, "erred"))))

FileSize(S) == IF "writing" \in S.f.flags THEN Most(S.f.pos, S.f.size) ELSE S.f.size

\* [mutant] A handle that has been written to may be moved within its cache.
SeekWriting(S, npos) ==
  LET to == CtzIndex(npos)
      near == /\ CtzIndex(S.f.pos)[1] = to[1]
              /\ to[2] >= S.c.f.off /\ to[2] < S.c.f.off + Len(S.c.f.buf)
  IN  IF npos > FileMax THEN Error(S, "inval")
      ELSE IF npos = S.f.pos THEN S
      ELSE IF near THEN [S EXCEPT !.f.pos = npos, !.f.off = to[2]]
      ELSE Then(Flush(S), LAMBDA F : [F EXCEPT !.f.pos = npos])

\* lfs_file_seek, to a position that is computed from any base
Seek(S, npos) ==
  LET to == CtzIndex(npos)
      near == /\ "writing" \notin S.f.flags /\ CtzIndex(S.f.pos)[1] = to[1]
              /\ to[2] >= S.c.f.off /\ to[2] < S.c.f.off + Len(S.c.f.buf)
  IN  IF npos > FileMax THEN Error(S, "inval")
      ELSE IF npos = S.f.pos THEN S
      ELSE IF near THEN [S EXCEPT !.f.pos = npos, !.f.off = to[2]]
      ELSE Then(Flush(S), LAMBDA F : [F EXCEPT !.f.pos = npos])

\* A file that gets small enough goes back into the directory.
Inlined(S, size) ==
  Then(Seek(S, 0), LAMBDA K :
    Then(FlushedRead([K EXCEPT !.out = << >>, !.c.r = NoCache], "f", size), LAMBDA R :
      [R EXCEPT !.out = << >>,
         !.c.f = [block |-> Inline, off |-> 0,
                  buf |-> Fit(R.out \o SubSeq(R.c.f.buf, size + 1, Len(R.c.f.buf)), CacheSize)],
         !.f.head = Inline, !.f.size = size,
         !.f.flags = @ \cup {"dirty", "reading", "inline"}]))

Shortened(S, size) ==
  Then(Flush(S), LAMBDA F :
    Then(CtzFind(F, "f", F.f.head, F.f.size, size - 1), LAMBDA C :
      [C EXCEPT !.f.block = C.found[1], !.f.pos = size, !.f.head = C.found[1],
                !.f.size = size, !.f.flags = @ \cup {"dirty", "reading"}]))

RECURSIVE WriteEach(_, _)
WriteEach(S, size) ==
  IF S.f.pos >= size \/ ~Ok(S) THEN S ELSE WriteEach(Write(S, << 0 >>), size)

Lengthened(S, size) ==
  Then(Seek(S, FileSize(S)), LAMBDA K : WriteEach(K, size))

Truncate(S, size) ==
  LET old == FileSize(S)
      T == IF size = old THEN S
           ELSE IF size > old THEN Lengthened(S, size)
           ELSE IF size <= InlineMax THEN Inlined(S, size)
           ELSE Shortened(S, size)
  IN  Then(T, LAMBDA R : Seek(R, S.f.pos))

----------------------------------------------------------------------------
\* What the handle and the storage have.

\* The bytes of a list of blocks up to this one, which is filled up to end, by
\* following it one block at a time.
Header(k) == IF k = 0 THEN 0 ELSE Skips(k)
RECURSIVE Upto(_, _, _, _)
Upto(S, b, k, end) ==
  IF b \notin Blocks THEN << Junk >>
  ELSE (IF k = 0 THEN << >> ELSE Upto(S, Target(Look(S, b, 0)), k - 1, BlockSize))
       \o [i \in 1..(end - Header(k)) |-> Look(S, b, Header(k) + i - 1)]
Bytes(S, head, size) ==
  LET last == CtzIndex(size - 1)
  IN  IF size = 0 THEN << >> ELSE Upto(S, head, last[1], last[2] + 1)

Saved == IF entry.head = Inline THEN entry.data
         ELSE Bytes([Given(0) EXCEPT !.c.f = NoCache], entry.head, entry.size)

\* What was written so far, and behind it what was there before; of a small file that
\* was about to leave the directory when a call failed, nothing.
Data ==
  LET S == Given(0)
      disk == [S EXCEPT !.c.f = NoCache]
      old == IF file.head = Inline THEN << >> ELSE Bytes(disk, file.head, file.size)
      new == Bytes(S, file.block, file.pos)
  IN  IF ~file.open THEN << >>
      ELSE IF "inline" \in file.flags THEN SubSeq(cache.f.buf, 1, FileSize(S))
      ELSE IF "writing" \notin file.flags THEN old
      ELSE new \o SubSeq(old, file.pos + 1, Len(old))

----------------------------------------------------------------------------
\* The calls.

Cells(d) == [i \in 0..(BlockSize - 1) |-> IF i < Len(d) THEN d[i + 1] ELSE Erased]
Ones(n) == Repeat(99, n)
Quiet == [op |-> "none", n |-> 0, err |-> "ok", got |-> << >>]

\* The file as it was written by lfs_file_write and closed: its first block, or the
\* directory, has all of it.
Init ==
  /\ bad \in BadBlocks
  /\ \E n \in InitFiles :
       /\ entry = IF n <= InlineMax THEN [head |-> Inline, size |-> n, data |-> Ones(n)]
                  ELSE [head |-> Max(Blocks \ bad), size |-> n, data |-> << >>]
       /\ flash = [b \in Blocks |-> Cells(IF b = entry.head THEN Ones(n) ELSE << >>)]
  /\ file = Closed /\ cache = [f |-> NoCache, r |-> NoCache, p |-> NoCache]
  /\ ret = Quiet /\ ok = TRUE
  /\ alarm = {} /\ calls = 0
  /\ saved = Saved /\ shown = << >>

Store(S, op, n) ==
  /\ flash' = S.flash /\ entry' = S.entry /\ alarm' = S.alarm
  /\ file' = S.f /\ cache' = [f |-> S.c.f, r |-> S.c.r, p |-> S.c.p]
  /\ ret' = [op |-> op, n |-> n, err |-> S.err, got |-> S.out]
  /\ ok' = (op = "close" \/ (ok /\ S.err \in {"ok", "inval", "fbig"}))
  /\ calls' = calls + 1
  /\ UNCHANGED bad

\* lfs_file_open, with LFS_O_TRUNC or not
Open(truncated) ==
  /\ calls < MaxCalls /\ ~file.open
  /\ LET e == IF truncated THEN [head |-> Inline, size |-> 0, data |-> << >>] ELSE entry
         inline == e.head = Inline
     IN  /\ file' = [Closed EXCEPT !.open = TRUE, !.head = e.head, !.size = e.size,
                        !.flags = (IF truncated THEN {"dirty"} ELSE {})
                                  \cup (IF inline THEN {"inline"} ELSE {})]
         /\ cache' = [cache EXCEPT !.f = IF inline THEN [block |-> Inline, off |-> 0,
                                                        buf |-> Fit(e.data, CacheSize)]
                                         ELSE NoCache]
  /\ ret' = Quiet /\ calls' = calls + 1
  /\ UNCHANGED << flash, bad, entry, ok, alarm >>

Call(fuel) ==
  LET S == Given(fuel)
      going == ok \/ Retries
  IN  /\ calls < MaxCalls /\ file.open
      /\ \/ \E n \in Lengths : going /\ Store(Read(S, n), "read", n)
         \/ \E n \in Lengths : going /\ Store(Write(S, Repeat(calls + 1, n)), "write", 0)
         \/ \E n \in Places : going /\ Store(Seek(S, n), "seek", 0)
         \/ \E n \in Places : going /\ Store(Truncate(S, n), "truncate", 0)
         \/ going /\ Store(Sync(S), "sync", 0)
         \/ Store([Sync(S) EXCEPT !.f = Closed, !.c.f = NoCache, !.out = << >>], "close", 0)

PowerLoss ==
  /\ file.open
  /\ file' = Closed /\ cache' = [f |-> NoCache, r |-> NoCache, p |-> NoCache]
  /\ ret' = Quiet /\ ok' = TRUE
  /\ UNCHANGED << flash, bad, entry, alarm, calls >>

Next ==
  /\ (\E t \in BOOLEAN : Open(t)) \/ (\E fuel \in Fuels : Call(fuel)) \/ PowerLoss
  /\ saved' = Saved' /\ shown' = Data'

Spec == Init /\ [][Next]_vars

----------------------------------------------------------------------------
\* The properties.

\* What the file promises.
D == INSTANCE FileData WITH open <- file.open, data <- shown, pos <- file.pos,
                            asked <- ret.n, got <- ret.got

\* A call of lfs_file_sync or lfs_file_close that returns no error has written all
\* that was written to the handle.
SyncSaved ==
  ret'.op \in {"sync", "close"} /\ calls' # calls /\ ret'.err = "ok" => saved' = shown

\* No call changes a block of the file as it is on storage, so that a power loss in
\* the call leaves the file as it was.
SavedUntouched == "saved block changed" \notin alarm

\* A cell is programmed once after an erase of its block, by lfs_bd_flush.
ErasedFirst == "programmed twice" \notin alarm

\* lfs_alloc does not give out a block that the handle has written, which is not in
\* the entry of the file yet.
GivenOnce == "given twice" \notin alarm

\* What waits in a cache to be programmed is not replaced by what is to be
\* programmed elsewhere.
CacheFree == "cache overwritten" \notin alarm

\* What the device is asked to do never harms what is saved or what waits to be
\* saved (lfs_bd_flush, lfs_bd_erase, lfs_bd_prog, lfs_alloc).
DeviceSafe == SavedUntouched /\ ErasedFirst /\ GivenOnce /\ CacheFree
=============================================================================

------------------------------ MODULE LfsTree ------------------------------
(***************************************************************************)
(* The directories of littlefs: a tree of metadata pairs, each of which is *)
(* also a member of the tail list, which is how a mount, the allocator and *)
(* the search for a parent find all of them.  An operation commits to one  *)
(* pair after the other, and a commit may find that its pair is bad or     *)
(* worn and move it, after which the parent and the predecessor in the     *)
(* list are made to refer to the new pair, by commits that may move their  *)
(* pairs in turn.  Power may be lost between any two commits.              *)
(*                                                                         *)
(* A commit to a pair is atomic (LfsPair).  The global state that tells a  *)
(* mount of unfinished work (a move, or orphans) is the exclusive or of    *)
(* what the directories hold of it: here the symmetric difference of sets. *)
(* A directory fits into its pair, so that there are no hard tails, and    *)
(* entries are numbered from 1 in the order of their names.  A directory   *)
(* in memory is what is on disk.  The lookahead of the allocator is one    *)
(* scan of the tree.                                                       *)
(***************************************************************************)
EXTENDS Integers, FiniteSets, FiniteSetsExt, SequencesExt

CONSTANTS Names,      \* the names, numbers in their order
          Blocks,     \* 0, 1 and others
          InitTree,   \* the directory that each block holds at first
          MaxMoves,   \* a bound on the pairs that move
          Calls,      \* the operations that are called
          WornFull,   \* a worn pair may be moved when no block is free
          MoveDirty,  \* pairs also move in an operation that starts when the disk
                      \* tells of a move or of orphans
          RenameLast, \* only the last entry of a directory is renamed
          Faults,     \* the steps whose commit may fail with an error
          MaxDepth    \* a bound on the length of paths

VARIABLES disk,   \* the directory, with its revision, in each block
          ram,    \* the global state, as it is to be and as it is on disk,
                  \* and how often a pair has moved
          job,    \* the operation in progress
          tree,   \* the names that a mount would find
          next    \* the names that the operation in progress is to make of it

vars == << disk, ram, job, tree, next >>

Root == {0, 1}
Null == {}
Blank == [rev |-> -1, ents |-> << >>, tail |-> Null, g |-> {}]
F == INSTANCE FileTree

----------------------------------------------------------------------------
\* Reading.

Newest(d, p) == CHOOSE b \in p : \A c \in p : d[b].rev >= d[c].rev
Dir(d, p) == d[Newest(d, p)]

\* The pairs of the tail list, in order.
RECURSIVE ChainFrom(_, _, _)
ChainFrom(d, p, n) ==
  LET t == Dir(d, p).tail
  IN  IF t = Null \/ n = 0 THEN << p >> ELSE << p >> \o ChainFrom(d, t, n - 1)
Chain(d) == ChainFrom(d, Root, Cardinality(Blocks))

\* lfs_gstate_xor
Xor(a, b) == (a \ b) \cup (b \ a)

\* What a mount finds of the global state.
GlobalState(d) ==
  LET c == Chain(d)
      all == UNION {Dir(d, c[i]).g : i \in DOMAIN c}
  IN  {t \in all : Cardinality({i \in DOMAIN c : t \in Dir(d, c[i]).g}) % 2 = 1}

Orphans == [pair |-> Null, id |-> 0]      \* the flag in the tag
Move(p, id) == [pair |-> p, id |-> id]
State(r) == r.move \cup (IF r.orphans > 0 THEN {Orphans} ELSE {})
Moves(g) == g \ {Orphans}

\* lfs_gstate_hasmovehere, with the number of the entry
MoveHere(g, p) == {m.id : m \in {m \in Moves(g) : m.pair \cap p # {}}}

\* The numbers of the entries as if the one that is being moved were gone
\* already.  lfs_dir_fetchmatch: the number of entry i, or 0 for the moved one.
Numbered(m, i) ==
  IF i \in m THEN 0 ELSE i - Cardinality({k \in m : k < i})

\* lfs_dir_getslice: the entry that is read for a number, or 0.
Slice(m, id) ==
  IF id \in m THEN 0 ELSE id + Cardinality({k \in m : k < id})

\* The children of the directories in S that a mount finds.
Children(d, g, S) ==
  UNION {LET e == Dir(d, x.pair).ents
             m == MoveHere(g, x.pair)
         IN  {[path |-> Append(x.path, e[i].name), pair |-> e[i].pair, dir |-> e[i].dir]
              : i \in {i \in DOMAIN e : Slice(m, Numbered(m, i)) = i}}
         : x \in {x \in S : x.dir}}

\* The tree of names as a mount sees it.
RECURSIVE Below(_, _, _, _)
Below(d, g, S, n) ==
  IF n = 0 \/ S = {} THEN S ELSE S \cup Below(d, g, Children(d, g, S), n - 1)
Seen(d) ==
  Below(d, GlobalState(d), {[path |-> << >>, pair |-> Root, dir |-> TRUE]}, MaxDepth)
Tree(d) == {<< x.path, IF x.dir THEN F!Directory ELSE Max(x.pair) >> : x \in Seen(d)}
PairAt(p) == (CHOOSE x \in Seen(disk) : x.path = p).pair

\* lfs_fs_parent: the first directory with an entry for a pair like p, and the
\* number of the entry.
Parent(p) ==
  LET c == Chain(disk)
      found == {<< k, i >> \in (DOMAIN c) \X (1..Cardinality(Names)) :
                 LET e == Dir(disk, c[k]).ents
                 IN  /\ i \in DOMAIN e /\ e[i].dir /\ e[i].pair \cap p # {}
                     /\ Numbered(MoveHere(ram.gdisk, c[k]), i) # 0}
  IN  IF found = {} THEN [pair |-> Null, id |-> 0]
      ELSE LET f == CHOOSE f \in found : \A h \in found : f[1] < h[1] \/ (f[1] = h[1] /\ f[2] <= h[2])
           IN  [pair |-> c[f[1]], id |-> Numbered(MoveHere(ram.gdisk, c[f[1]]), f[2])]

\* lfs_fs_pred: the first pair whose tail is like p, or Null.
Pred(p) ==
  LET c == Chain(disk)
      found == {k \in DOMAIN c : Dir(disk, c[k]).tail \cap p # {}}
  IN  IF found = {} THEN Null ELSE c[Min(found)]

\* [mutant] Only directories are looked at.
InUseDirs == LET c == Chain(disk) IN UNION {c[k] : k \in DOMAIN c}

\* lfs_fs_traverse, for the allocator, and lfs_alloc: the blocks that no
\* directory uses and that this operation has not been given.
InUse ==
  LET c == Chain(disk)
      entries(p) == LET e == Dir(disk, p).ents
                    IN  {e[i] : i \in DOMAIN e \cap {Slice(MoveHere(ram.gdisk, p), i)
                                                     : i \in DOMAIN e}}
  IN  UNION {c[k] \cup UNION {e.pair : e \in entries(c[k])} : k \in DOMAIN c}
\* [mutant] What was given out since the scan is forgotten.
FreeAnew == Blocks \ InUse

Free == Blocks \ (InUse \cup job.got)

----------------------------------------------------------------------------
\* Committing.

NoJob == [pc |-> "off", ret |-> "none", from |-> << >>, to |-> << >>,
          cwd |-> Null, oldcwd |-> Null, dir |-> Null, id |-> 0,
          old |-> Null, new |-> Null, hasparent |-> 0, orphaned |-> FALSE,
          deorphan |-> "no", pass |-> 0, more |-> FALSE, walk |-> Null,
          got |-> {}, dirty |-> FALSE]

\* lfs_dir_orphaningcommit has done all commits; lfs_dir_commit goes on to
\* look for orphans if it has made some.
Linked(j) ==
  IF j.deorphan # "no"
    THEN [j EXCEPT !.pc = "walk", !.more = @ \/ j.orphaned, !.orphaned = FALSE]
  ELSE IF j.orphaned
    THEN [j EXCEPT !.pc = "walk", !.deorphan = "plain", !.orphaned = FALSE,
                   !.pass = 0, !.more = FALSE, !.walk = Null]
  ELSE [j EXCEPT !.pc = j.ret]

\* The pair {block, n} takes the place of p.
Relocated(j, p, q) ==
  [j EXCEPT !.pc = "relink", !.old = p, !.new = q,
            !.got = @ \cup (q \ p),
            !.walk = IF j.pc = "walk" THEN q ELSE @,
            !.dir = IF @ \cap p # {} THEN q ELSE @]

\* The pairs that these directories refer to, and so on.
RECURSIVE Referred(_, _)
Referred(d, P) ==
  LET Q == P \cup UNION {{Dir(d, p).tail} \cup {e.pair : e \in Range(Dir(d, p).ents)}
                          : p \in P \ {Null}}
  IN  IF Q = P THEN P ELSE Referred(d, Q)

\* The contents of blocks that nothing refers to, the distance between
\* revisions, and the moves that two directories hold and that cancel, are
\* forgotten.
Tidy(d) ==
  LET heads == {Newest(d, p) : p \in Referred(d, {Root}) \ {Null}}
      revs == {d[b].rev : b \in heads} \ {-1}
      g == GlobalState(d)
  IN  [b \in Blocks |-> IF b \in heads /\ d[b].rev >= 0
                          THEN [d[b] EXCEPT !.rev = Cardinality({r \in revs : r < @}),
                                           !.g = @ \cap (g \cup {Orphans})]
                          ELSE Blank]

\* The operation returns.
ReturnTo(r, result) ==
  /\ disk' = Tidy(disk) /\ ram' = r /\ next' = result
  /\ job' = [NoJob EXCEPT !.pc = "ready"]

\* lfs_dir_relocatingcommit: the directory at p gets these entries and this
\* tail, and the global state of r comes with it, unless the directory moves,
\* when only what it took over from others does.
Commit(p, ents, tail, r, j, done) ==
  LET b == Newest(disk, p)
      d == [disk[b] EXCEPT !.ents = ents, !.tail = tail]
      delta == Xor(Xor(State(r), r.gdisk), r.gdelta)
  IN  \/ /\ disk' = [disk EXCEPT ![b] = [d EXCEPT !.g = Xor(@, delta)]]
         /\ ram' = [r EXCEPT !.gdisk = State(r), !.gdelta = {}]
         /\ job' = done
         /\ UNCHANGED next
      \/ /\ p # Root /\ ram.moves < MaxMoves /\ (Free # {} \/ WornFull)
         /\ j.dirty => MoveDirty
         /\ LET n == IF Free = {} THEN CHOOSE c \in p : c # b ELSE Min(Free)
            IN  /\ disk' = [disk EXCEPT ![n] = [d EXCEPT !.rev = @ + 1,
                                                         !.g = Xor(@, r.gdelta)]]
                /\ job' = Relocated(j, p, {b, n})
         /\ ram' = [r EXCEPT !.gdelta = {}, !.moves = @ + 1]
         /\ UNCHANGED next
      \/ j.pc \in Faults /\ ReturnTo(r, F!Failed)

\* lfs_fs_preporphans: the count is the low part of the tag of the global state,
\* and what is taken from 0 is taken from the whole tag: it then tells of a move
\* from the pair {0, 0}, too.
Lost == 1023
Marked(r, n) ==
  IF r.orphans + n >= 0 THEN [r EXCEPT !.orphans = @ + n]
  ELSE [r EXCEPT !.orphans = Lost, !.move = {Move({0}, Lost)}]

\* A pending move from directory p is completed by the commit to it.
Fixed(r, p) == IF MoveHere(r.move, p) # {} THEN [r EXCEPT !.move = {}] ELSE r
Without(ents, ids) == IF ids = {} THEN ents ELSE RemoveAt(ents, Max(ids))

\* [mutant] The tail list is not marked as out of date.
RelinkUnmarked ==
  /\ job.pc = "relink"
  /\ LET par == Parent(job.old)
         d == Dir(disk, par.pair)
     IN  \/ /\ par.pair # Null
            /\ Commit(par.pair, [d.ents EXCEPT ![par.id].pair = job.new], d.tail, ram,
                      [job EXCEPT !.orphaned = TRUE],
                      [job EXCEPT !.pc = "pred", !.hasparent = 0])
         \/ /\ par.pair = Null
            /\ job' = [job EXCEPT !.pc = "pred", !.hasparent = 0]
            /\ UNCHANGED << disk, ram, next >>

\* The parent is made to refer to the new pair.
Relink ==
  /\ job.pc = "relink"
  /\ LET par == Parent(job.old)
         d == Dir(disk, par.pair)
         r == Fixed(Marked(ram, 1), par.pair)
         m == MoveHere(ram.move, par.pair)
         id == IF \E i \in m : i < par.id THEN par.id - 1 ELSE par.id
     IN  \/ /\ par.pair # Null
            /\ Commit(par.pair, [Without(d.ents, m) EXCEPT ![id].pair = job.new],
                      d.tail, r, [job EXCEPT !.orphaned = TRUE],
                      [job EXCEPT !.pc = "pred", !.hasparent = 1])
         \/ /\ par.pair = Null
            /\ job' = [job EXCEPT !.pc = "pred", !.hasparent = 0]
            /\ UNCHANGED << disk, ram, next >>

\* The predecessor in the tail list is made to refer to the new pair; a new
\* directory has none.
Repred ==
  /\ job.pc = "pred"
  /\ LET p == Pred(job.old)
         r == Fixed(IF ram.orphans > 0 THEN Marked(ram, -job.hasparent) ELSE ram, p)
     IN  \/ /\ p # Null
            /\ Commit(p, Without(Dir(disk, p).ents, MoveHere(ram.move, p)), job.new, r,
                      job, Linked(job))
         \/ /\ p = Null
            /\ job' = Linked(job)
            /\ UNCHANGED << disk, ram, next >>

----------------------------------------------------------------------------
\* Making the file system consistent.

Demove ==
  /\ job.pc = "demove"
  /\ \/ /\ Moves(ram.gdisk) = {}
        /\ job' = [job EXCEPT !.pc = "deorphan"]
        /\ UNCHANGED << disk, ram, next >>
     \/ \E m \in Moves(ram.gdisk) :
          Commit(m.pair, RemoveAt(Dir(disk, m.pair).ents, m.id), Dir(disk, m.pair).tail,
                 [ram EXCEPT !.move = {}],
                 [job EXCEPT !.ret = "deorphan"], [job EXCEPT !.pc = "deorphan"])

\* [mutant] A mount that finds the mark of orphans does not look for them.
DeorphanNone ==
  /\ job.pc = "deorphan"
  /\ job' = [job EXCEPT !.pc = "start"]
  /\ UNCHANGED << disk, ram, next >>

Deorphan ==
  /\ job.pc = "deorphan"
  /\ job' = IF ram.orphans = 0 THEN [job EXCEPT !.pc = "start"]
            ELSE [job EXCEPT !.pc = "walk", !.ret = "start", !.deorphan = "power",
                             !.pass = 0, !.more = FALSE, !.walk = Null]
  /\ UNCHANGED << disk, ram, next >>

\* [mutant] Only one pass, for half and full orphans.
WalkEndOnce ==
  IF job.more
    THEN job' = [job EXCEPT !.pass = 0, !.walk = Null, !.more = FALSE] /\ UNCHANGED ram
    ELSE /\ job' = [job EXCEPT !.pc = job.ret, !.deorphan = "no"]
         /\ ram' = [ram EXCEPT !.orphans = 0]

\* [mutant] There is another pass as long as there is a mark of orphans.
WalkEndMarked ==
  IF ram.orphans > 0
    THEN /\ job' = [job EXCEPT !.pass = 1 - @, !.walk = Null, !.more = FALSE]
         /\ UNCHANGED ram
    ELSE /\ job' = [job EXCEPT !.pc = job.ret, !.deorphan = "no"]
         /\ ram' = [ram EXCEPT !.orphans = 0]

\* The end of the tail list.
WalkEnd ==
  IF job.more \/ job.pass = 0
    THEN /\ job' = [job EXCEPT !.pass = IF job.more THEN 0 ELSE 1, !.walk = Null,
                               !.more = FALSE]
         /\ UNCHANGED ram
    ELSE /\ job' = [job EXCEPT !.pc = job.ret, !.deorphan = "no"]
         /\ ram' = [ram EXCEPT !.orphans = 0]

\* One step along the tail list, from the directory at walk to its tail.
Walk ==
  /\ job.pc = "walk"
  /\ LET w == job.walk
         t == IF w = Null THEN Root ELSE Dir(disk, w).tail
         par == Parent(t)
         real == IF par.pair = Null THEN 0 ELSE Slice(MoveHere(ram.gdisk, par.pair), par.id)
         pair == IF real = 0 THEN t ELSE Dir(disk, par.pair).ents[real].pair
         failed == w # Null /\ t # Null /\ job.pass = 0 /\ par.pair # Null /\ real = 0
         half == w # Null /\ t # Null /\ job.pass = 0 /\ pair # t
         full == /\ w # Null /\ t # Null /\ job.pass = 1 /\ par.pair = Null
                 /\ job.deorphan = "power"
     IN  \/ /\ t = Null
            /\ WalkEnd /\ UNCHANGED << disk, next >>
         \/ failed /\ ReturnTo(ram, F!Failed)
         \/ /\ half
            /\ Commit(w, Without(Dir(disk, w).ents, MoveHere(ram.move, w)), pair,
                      Fixed(ram, w), job, Linked(job))
         \/ /\ full
            /\ Commit(w, Dir(disk, w).ents, Dir(disk, t).tail,
                      [ram EXCEPT !.gdelta = Xor(@, Dir(disk, t).g)], job, Linked(job))
         \/ /\ t # Null /\ ~failed /\ ~half /\ ~full
            /\ job' = [job EXCEPT !.walk = t]
            /\ UNCHANGED << disk, ram, next >>

----------------------------------------------------------------------------
\* The operations.

Position(ents, name) == 1 + Cardinality({i \in DOMAIN ents : ents[i].name < name})
IdOf(p, name) == CHOOSE i \in DOMAIN Dir(disk, p).ents : Dir(disk, p).ents[i].name = name
Entry(name, pair, isdir) == [name |-> name, pair |-> pair, dir |-> isdir]

Init ==
  /\ disk \in InitTree
  /\ ram = [orphans |-> 0, move |-> {}, gdisk |-> {}, gdelta |-> {},
             moves |-> 0]
  /\ job = NoJob /\ tree = Tree(disk) /\ next = {}

Mount ==
  /\ job.pc = "off"
  /\ LET g == GlobalState(disk)
     IN  ram' = [orphans |-> IF Orphans \in g THEN 1 ELSE 0, move |-> Moves(g),
                 gdisk |-> g, gdelta |-> {}, moves |-> ram.moves]
  /\ job' = [NoJob EXCEPT !.pc = "ready"]
  /\ disk' = Tidy(disk)
  /\ UNCHANGED next

\* An operation is called: lfs_fs_forceconsistency comes first, and then the
\* paths are looked up.
Call ==
  /\ job.pc = "ready"
  /\ job' = [NoJob EXCEPT !.pc = "demove", !.dirty = ram.gdisk # {}]
  /\ UNCHANGED << disk, ram, next >>

Begin(op, from, to, t) ==
  /\ job' = [NoJob EXCEPT !.pc = op, !.from = from, !.to = to, !.dirty = job.dirty]
  /\ next' = t
  /\ UNCHANGED << disk, ram >>

CallMkdir(p) ==
  /\ "mkdir" \in Calls /\ F!MayMake(tree, p) /\ Len(p) <= MaxDepth
  /\ Begin("mkdir", << >>, p, F!Made(tree, p))

CallRemove(p) ==
  /\ "remove" \in Calls /\ F!MayRemove(tree, p)
  /\ Begin("remove", p, << >>, F!Removed(tree, p))

CallRename(p, q) ==
  /\ "rename" \in Calls /\ F!MayRename(tree, p, q)
  /\ F!Has(tree, q) => "replace" \in Calls
  /\ \A e \in F!Moved(tree, p, q) : Len(e[1]) <= MaxDepth
  /\ RenameLast /\ Front(p) # Front(q) =>
       \A n \in Names : F!Has(tree, Append(Front(p), n)) => n <= Last(p)
  /\ Begin("rename", p, q, F!Renamed(tree, p, q))

\* lfs_mkdir: a new directory, whose tail is that of its parent, is written,
\* and then the entry and the tail of the parent with one commit.
MkdirAlloc ==
  /\ job.pc = "mkdir"
  /\ LET cwd == PairAt(Front(job.to))
         x == Min(Free)
         y == Min(Free \ {x})
         delta == Xor(Xor(State(ram), ram.gdisk), ram.gdelta)
         d == [Blank EXCEPT !.rev = 0, !.tail = Dir(disk, cwd).tail]
     IN  /\ Cardinality(Free) >= 2
         /\ job' = [job EXCEPT !.pc = "mkdirlink", !.cwd = cwd, !.dir = {x, y},
                               !.got = @ \cup {x, y}]
         /\ \/ /\ disk' = [disk EXCEPT ![x] = [d EXCEPT !.g = delta], ![y] = Blank]
               /\ ram' = [ram EXCEPT !.gdisk = State(ram), !.gdelta = {}]
            \/ /\ ram.moves < MaxMoves /\ (job.dirty => MoveDirty)
               /\ disk' = [disk EXCEPT ![x] = [d EXCEPT !.g = ram.gdelta], ![y] = Blank]
               /\ ram' = [ram EXCEPT !.gdelta = {}, !.moves = @ + 1]
  /\ UNCHANGED next

MkdirLink ==
  /\ job.pc = "mkdirlink"
  /\ LET ents == Dir(disk, job.cwd).ents
         e == Entry(Last(job.to), job.dir, TRUE)
     IN  Commit(job.cwd, InsertAt(ents, Position(ents, e.name), e), job.dir, ram,
                [job EXCEPT !.ret = "done"], [job EXCEPT !.pc = "done"])

NoSpace ==
  /\ job.pc = "mkdir" /\ Cardinality(Free) < 2
  /\ ReturnTo(ram, F!Failed)

\* lfs_remove: the entry, and then a directory from the tail list.
RemoveEntry ==
  /\ job.pc = "remove"
  /\ LET cwd == PairAt(Front(job.from))
         id == IdOf(cwd, Last(job.from))
         e == Dir(disk, cwd).ents[id]
         j == [job EXCEPT !.dir = IF e.dir THEN e.pair ELSE Null]
         then == IF e.dir THEN "drop" ELSE "done"
     IN  Commit(cwd, RemoveAt(Dir(disk, cwd).ents, id), Dir(disk, cwd).tail,
                IF e.dir THEN Marked(ram, 1) ELSE ram,
                [j EXCEPT !.ret = then], [j EXCEPT !.pc = then])

\* lfs_dir_drop, after the entry of the directory is gone
Drop ==
  /\ job.pc = "drop"
  /\ LET r == [Marked(ram, -1) EXCEPT !.gdelta = Xor(@, Dir(disk, job.dir).g)]
         p == Pred(job.dir)
     IN  IF p = Null THEN ReturnTo(Marked(ram, -1), F!Failed)
         ELSE Commit(p, Dir(disk, p).ents, Dir(disk, job.dir).tail, r,
                     [job EXCEPT !.ret = "done"], [job EXCEPT !.pc = "done"])

\* [mutant] The move is not announced.
RenameUnannounced ==
  /\ job.pc = "rename"
  /\ LET old == PairAt(Front(job.from))
         new == PairAt(Front(job.to))
         oldid == IdOf(old, Last(job.from))
         e == [Dir(disk, old).ents[oldid] EXCEPT !.name = Last(job.to)]
         ents == Dir(disk, new).ents
         over == {i \in DOMAIN ents : ents[i].name = e.name}
         at == Position(ents, e.name)
         dropped == over # {} /\ e.dir
         r == IF dropped THEN Marked(ram, 1) ELSE ram
         with == InsertAt(Without(ents, over), at, e)
         final == IF old # new THEN with
                  ELSE RemoveAt(with, IF over = {} /\ at <= oldid THEN oldid + 1 ELSE oldid)
         j == [job EXCEPT !.oldcwd = old, !.id = oldid,
                          !.dir = IF dropped THEN ents[Max(over)].pair ELSE Null]
     IN  Commit(new, final, Dir(disk, new).tail, r,
                [j EXCEPT !.ret = "unmove"], [j EXCEPT !.pc = "unmove"])

\* lfs_rename: the entry at its new place, with a note of the move if that is
\* in another directory.
RenameEntry ==
  /\ job.pc = "rename"
  /\ LET old == PairAt(Front(job.from))
         new == PairAt(Front(job.to))
         oldid == IdOf(old, Last(job.from))
         e == [Dir(disk, old).ents[oldid] EXCEPT !.name = Last(job.to)]
         ents == Dir(disk, new).ents
         over == {i \in DOMAIN ents : ents[i].name = e.name}
         at == Position(ents, e.name)
         dropped == over # {} /\ e.dir
         r == [(IF dropped THEN Marked(ram, 1) ELSE ram)
                EXCEPT !.move = IF old # new THEN {Move(old, oldid)} ELSE @]
         with == InsertAt(Without(ents, over), at, e)
         final == IF old # new THEN with
                  ELSE RemoveAt(with, IF over = {} /\ at <= oldid THEN oldid + 1 ELSE oldid)
         j == [job EXCEPT !.oldcwd = old, !.id = oldid,
                          !.dir = IF dropped THEN ents[Max(over)].pair ELSE Null]
     IN  Commit(new, final, Dir(disk, new).tail, r,
                [j EXCEPT !.ret = "unmove"], [j EXCEPT !.pc = "unmove"])

\* The entry is deleted at its old place, if no commit on the way has done so.
Unmove ==
  /\ job.pc = "unmove"
  /\ LET then == IF job.dir = Null THEN "done" ELSE "drop"
     IN  \/ /\ ram.move = {}
            /\ job' = [job EXCEPT !.pc = then] /\ UNCHANGED << disk, ram, next >>
         \/ /\ ram.move # {}
            /\ Commit(job.oldcwd, RemoveAt(Dir(disk, job.oldcwd).ents, job.id),
                      Dir(disk, job.oldcwd).tail, [ram EXCEPT !.move = {}],
                      [job EXCEPT !.ret = then], [job EXCEPT !.pc = then])

\* lfs_fs_mkconsistent also writes what the RAM knows better than the disk.
MkConsistent ==
  /\ job.pc = "start" /\ State(ram) # ram.gdisk
  /\ Commit(Root, Dir(disk, Root).ents, Dir(disk, Root).tail, ram,
            job, [job EXCEPT !.pc = "consistent"])

Return ==
  \/ job.pc = "done" /\ ReturnTo(ram, {})
  \/ job.pc = "consistent" /\ ReturnTo(ram, F!Failed)

PowerLoss ==
  /\ job.pc # "off"
  /\ job' = NoJob /\ next' = F!Failed
  /\ ram' = [orphans |-> 0, move |-> {}, gdisk |-> {}, gdelta |-> {}, moves |-> ram.moves]
  /\ UNCHANGED disk

Paths == {e[1] : e \in tree}

\* The operation that was called, or none if it is refused or nothing is left to
\* be done for lfs_fs_mkconsistent.
Operation ==
  /\ job.pc = "start"
  /\ \/ ReturnTo(ram, F!Failed)
     \/ \E p \in Paths, n \in Names : CallMkdir(Append(p, n))
     \/ \E p \in Paths : CallRemove(p)
     \/ \E p, q \in Paths, n \in Names : CallRename(p, Append(q, n))

\* tree is what a mount would find.
Looked == tree' = IF disk' = disk THEN tree ELSE Tree(disk')

Work ==
  \/ Demove \/ Deorphan \/ Walk \/ Relink \/ Repred \/ Operation \/ MkConsistent
  \/ MkdirAlloc \/ MkdirLink \/ NoSpace \/ RemoveEntry \/ Drop
  \/ RenameEntry \/ Unmove \/ Return

Step == Work /\ Looked

Next == Step \/ ((Mount \/ Call \/ PowerLoss) /\ Looked)

Spec == Init /\ [][Next]_vars

----------------------------------------------------------------------------
\* The properties.

\* Every lfs_mkdir, lfs_remove and lfs_rename is atomic, with power lost between
\* any of its commits and with pairs that move at any of them: the names that a
\* mount finds change at one moment and as the operation says, and recovery and
\* the search for orphans change nothing.
OpsAtomic == F!Spec

Reached == {x \in Seen(disk) : x.dir}

\* When an operation starts, after lfs_fs_forceconsistency, nothing is left of
\* what an earlier one or a loss of power has left behind: no move is pending, the
\* RAM has the global state of the disk, the tail list holds each directory of the
\* tree once and nothing else, and parents and the list agree on its blocks.
Consistent ==
  job.pc = "start" =>
    LET c == Chain(disk)
    IN  /\ ram.move = {} /\ Moves(ram.gdisk) = {} /\ ram.gdisk = GlobalState(disk)
        /\ {c[k] : k \in DOMAIN c} = {x.pair : x \in Reached}
        /\ Cardinality(Reached) = Len(c)
        /\ \A x, y \in Seen(disk) : x # y => x.pair \cap y.pair = {}

\* The blocks of a file that can be reached are never given to a directory by
\* lfs_alloc, whatever is pending or out of date in the tree.
FilesKept ==
  LET c == Chain(disk)
      dirs == UNION {c[k] : k \in DOMAIN c}
  IN  \A e \in tree : e[2] # F!Directory => e[2] \notin dirs \cup job.got

\* lfs_fs_preporphans never takes an orphan from a count of none.
CountKept == ram.orphans # Lost

\* The entry of a file never comes to refer to a pair, nor that of a directory to
\* anything else.
EntriesKept ==
  LET c == Chain(disk)
  IN  \A k \in DOMAIN c : \A e \in Range(Dir(disk, c[k]).ents) :
        e.dir = (Cardinality(e.pair) = 2)
=============================================================================

----------------------------- MODULE MCLfsTree -----------------------------
(***************************************************************************)
(* Small file systems for LfsTree.  A behaviour is one of a few settings,  *)
(* chosen at the start.                                                    *)
(***************************************************************************)
EXTENDS LfsTree, TLC

CONSTANT Settings  \* the settings of this run

VARIABLE setting

allVars == << setting, vars >>

\* The blocks of a disk, those of a setting and more.
Disk == 0..12

Dirs(t) == [b \in Disk |-> IF \E x \in t : Min(x[1]) = b
                              THEN LET x == CHOOSE x \in t : Min(x[1]) = b
                                   IN  [rev |-> 0, ents |-> x[2], tail |-> x[3], g |-> {}]
                              ELSE Blank]
D(n, p) == Entry(n, p, TRUE)
File(n, b) == Entry(n, {b}, FALSE)

\* / has the directory 1, which has the file 1.
MCFile == {Dirs({<< Root, << D(1, {2, 3}) >>, {2, 3} >>, << {2, 3}, << File(1, 4) >>, Null >>})}

\* / has the directory 1, which has the directory 1, and the file 2.
MCNested == {Dirs({<< Root, << D(1, {2, 3}), File(2, 4) >>, {2, 3} >>,
                   << {2, 3}, << D(1, {5, 6}) >>, {5, 6} >>,
                   << {5, 6}, << >>, Null >>})}

\* Four directories, each in the one before.
MCDeep == {Dirs({<< Root, << D(1, {2, 3}) >>, {2, 3} >>,
                 << {2, 3}, << D(1, {4, 5}) >>, {4, 5} >>,
                 << {4, 5}, << D(1, {6, 7}) >>, {6, 7} >>,
                 << {6, 7}, << >>, Null >>})}

\* / has two files and the directory 3, which has the directory 1.
MCWide == {Dirs({<< Root, << File(1, 6), File(2, 7), D(3, {2, 3}) >>, {2, 3} >>,
                 << {2, 3}, << D(1, {4, 5}) >>, {4, 5} >>,
                 << {4, 5}, << >>, Null >>})}

\* / has the directory 1, which has a file and the directory 2; 2 was moved there
\* and comes before it in the tail list.
MCChild == {Dirs({<< Root, << D(1, {4, 5}) >>, {2, 3} >>,
                  << {2, 3}, << >>, {4, 5} >>,
                  << {4, 5}, << File(1, 6), D(2, {2, 3}) >>, Null >>})}

\* Every setting is a variation of the first: a disk of seven blocks with one
\* directory and one file, where no pair moves and no commit fails.
Plain ==
  [names |-> {1, 2}, disk |-> 7, tree |-> MCFile, moves |-> 0,
   calls |-> {"mkdir", "remove", "rename", "replace"}, wornFull |-> FALSE,
   dirty |-> FALSE, last |-> TRUE, faults |-> {},
   depth |-> 3]
Moving(n) == [Plain EXCEPT !.moves = n]
Nested    == [Moving(2) EXCEPT !.last = FALSE]

\* moves, deep: one pair moves.  nested: several pairs move,
\* each because of the one before.  fails: commits fail with an error.
\* The settings that follow each show something that goes wrong.
Bounds ==
  [moves    |-> [Moving(1) EXCEPT !.depth = 2, !.calls = {"mkdir", "remove"}],
   deep     |-> [Moving(1) EXCEPT !.disk = 8, !.tree = MCNested,
                                  !.calls = {"remove", "rename", "replace"}],
   nested   |-> [Moving(3) EXCEPT !.disk = 13, !.tree = MCDeep, !.last = FALSE,
                                  !.calls = {"mkdir"}],
   fails    |-> [Plain EXCEPT !.faults = {"demove", "remove", "unmove"}],
   read     |-> [Plain EXCEPT !.last = FALSE],
   alloc    |-> [Moving(2) EXCEPT !.disk = 8, !.tree = MCNested, !.calls = {"rename"}],
   mark     |-> [Moving(1) EXCEPT !.dirty = TRUE],
   full     |-> [Moving(1) EXCEPT !.wornFull = TRUE],
   count    |-> [Nested EXCEPT !.disk = 10, !.tree = MCDeep, !.calls = {"remove"}],
   relink   |-> [Nested EXCEPT !.disk = 11, !.tree = MCWide, !.calls = {"rename"},
                               !.names = {1, 2, 3}],
   loop     |-> [Nested EXCEPT !.disk = 11, !.tree = MCChild, !.calls = {"mkdir"}],
   failMove |-> [Plain EXCEPT !.faults = {"rename"}, !.calls = {"rename"}],
   failDrop |-> [Plain EXCEPT !.faults = {"drop"}, !.calls = {"mkdir", "remove"}]]

TreeOf(s) == INSTANCE LfsTree WITH
  Names <- Bounds[s].names, Blocks <- 0..Bounds[s].disk - 1,
  InitTree <- {[b \in 0..Bounds[s].disk - 1 |-> t[b]] : t \in Bounds[s].tree},
  MaxMoves <- Bounds[s].moves, Calls <- Bounds[s].calls,
  WornFull <- Bounds[s].wornFull, MoveDirty <- Bounds[s].dirty,
  RenameLast <- Bounds[s].last, Faults <- Bounds[s].faults,
  MaxDepth <- Bounds[s].depth

MCInit == \E s \in Settings : setting = s /\ TreeOf(s)!Init

MCNext == \E s \in Settings : setting = s /\ TreeOf(s)!Next /\ UNCHANGED setting

MCSpec == MCInit /\ [][MCNext]_allVars

\* WF_allVars(Goes): the task that has called goes on.  The second conjunct says so
\* in a form that is quick to evaluate, as there is a step to take whenever an
\* operation is in progress.
InCall == setting = "nested" /\ job.pc \notin {"off", "ready"}
Starts == setting = "nested" /\ Deorphan /\ UNCHANGED << tree, setting >>
Goes   == setting = "nested" /\ TreeOf("nested")!Step /\ UNCHANGED setting

MCFairSpec ==
  /\ MCSpec
  /\ WF_allVars(Starts)
  /\ []<>~InCall \/ []<><<Goes>>_allVars

-----------------------------------------------------------------------------

\* When an operation starts, nothing is left of what an earlier one, a loss of
\* power or a failed commit has left behind (lfs_fs_forceconsistency).
TreeConsistent == \A s \in Settings : setting = s => TreeOf(s)!Consistent

\* The blocks of a file that can be reached are never given to a directory
\* (lfs_alloc, lfs_fs_traverse), an entry keeps its kind, and the count of orphans
\* does not fall below none (lfs_fs_preporphans).
FilesSafe ==
  \A s \in Settings :
    setting = s => /\ TreeOf(s)!FilesKept
                   /\ TreeOf(s)!EntriesKept
                   /\ TreeOf(s)!CountKept

\* Every lfs_mkdir, lfs_remove and lfs_rename is atomic, with power lost between
\* any of its commits and with pairs that move at any of them.
AllAtomic ==
  [][\A s \in Settings : setting = s => [TreeOf(s)!F!Next]_<< tree, next >>]_allVars

\* An operation, with the search for orphans that it starts with and the moves of
\* pairs that call for one another, comes to an end (lfs_fs_deorphan).
OperationEnds == InCall ~> ~InCall
=============================================================================

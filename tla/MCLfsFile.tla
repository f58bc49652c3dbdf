------------------------------ MODULE MCLfsFile ------------------------------
(***************************************************************************)
(* Instances of what littlefs keeps its data in, for TLC: a file and its   *)
(* handle (LfsFile), a list of blocks (LfsList) and a metadata pair        *)
(* (LfsPair).  A behaviour is one of a few settings, chosen at the start,  *)
(* and the variables of the other components stay.                         *)
(***************************************************************************)
EXTENDS LfsPair, TLC

CONSTANT Settings

VARIABLES setting,
          list,                                       \* LfsList
          flash, bad, entry, file, cache, ret, ok,    \* LfsFile
          saved, shown, alarm, calls

fileVars == << flash, bad, entry, file, cache, ret, ok, saved, shown, alarm, calls >>
allVars == << setting, vars, list, fileVars >>

\* A file of up to three blocks, on a device of eight; a handle is not used again
\* when a call has failed.
Plain ==
  [blocks |-> 0..7, fileMax |-> 24, appending |-> FALSE, lengths |-> {1, 9},
   places |-> {0, 5, 12}, files |-> {0, 7}, bad |-> {{}}, fuels |-> {0},
   retries |-> FALSE, calls |-> 5]

\* calls: short and long writes, from all kinds of positions.  long: four blocks,
\* the last ones with several pointers.  append: LFS_O_APPEND.  full: a device of
\* three blocks.  bad: blocks that cannot be programmed, with files of one block.
\* fails: the device returns an error at one of the writes of a call.
\* The settings that follow each show something that goes wrong.
Bounds ==
  [calls    |-> Plain,
   long     |-> [Plain EXCEPT !.lengths = {3, 15}, !.places = {2, 20},
                              !.files = {2, 8}],
   append   |-> [Plain EXCEPT !.appending = TRUE, !.calls = 4],
   full     |-> [Plain EXCEPT !.blocks = 0..2, !.calls = 4],
   bad      |-> [Plain EXCEPT !.bad = {{0, 2}, {1, 3}}, !.fileMax = 8,
                              !.lengths = {1, 5}, !.places = {0, 3, 8}],
   fails    |-> [Plain EXCEPT !.fuels = 0..3, !.calls = 4],
   retry    |-> [Plain EXCEPT !.fuels = 0..3, !.retries = TRUE],
   badGrown |-> [Plain EXCEPT !.bad = {{0, 2}, {1, 3}}]]

\* A pointer takes one cell; a block has eight of them.
FileOf(s) == INSTANCE LfsFile WITH
  BlockSize <- 8, Word <- 1, CacheSize <- 4, ProgSize <- 2, InlineMax <- 2,
  Blocks <- Bounds[s].blocks, FileMax <- Bounds[s].fileMax,
  Appending <- Bounds[s].appending, Lengths <- Bounds[s].lengths,
  Places <- Bounds[s].places, InitFiles <- Bounds[s].files,
  BadBlocks <- Bounds[s].bad, Fuels <- Bounds[s].fuels,
  Retries <- Bounds[s].retries, MaxCalls <- Bounds[s].calls

OnFile == Settings \cap DOMAIN Bounds

\* The blocks of a device and their size as the port of littlefs has them, in words.
List == INSTANCE LfsList WITH BlockSize <- 128, Word <- 4, MaxBlocks <- 256

ASSUME PairAssumption
ASSUME \A s \in OnFile : FileOf(s)!FileAssumption /\ FileOf(s)!CtzAssumption
ASSUME List!CtzAssumption

NoFile == /\ flash = {} /\ bad = {} /\ entry = {} /\ file = {} /\ cache = {}
          /\ ret = {} /\ ok = {} /\ saved = {} /\ shown = {} /\ alarm = {} /\ calls = {}
NoList == list = {}

\* In the other settings there is one pair, which nothing is done to.
NoPair ==
  /\ home = CHOOSE p \in Blocks \X Blocks : p[1] # p[2]
  /\ disk = [b \in Blocks |->
               IF b = home[1] THEN [rev |-> 1, log |-> << CHOOSE v \in Values : TRUE >>,
                                    after |-> "erased"]
               ELSE Blank]
  /\ up = FALSE /\ dir = Fetched(disk, home) /\ job = NoJob

MCInit ==
  /\ setting \in Settings
  /\ \/ /\ \E s \in OnFile : setting = s /\ FileOf(s)!Init
        /\ NoList /\ NoPair
     \/ /\ setting = "list" /\ List!Init
        /\ NoFile /\ NoPair
     \/ /\ setting = "pair" /\ Init
        /\ NoFile /\ NoList

MCNext ==
  \/ /\ \E s \in OnFile : setting = s /\ FileOf(s)!Next
     /\ UNCHANGED << setting, vars, list >>
  \/ /\ setting = "list" /\ List!Next
     /\ UNCHANGED << setting, vars, fileVars >>
  \/ /\ setting = "pair" /\ Next
     /\ UNCHANGED << setting, list, fileVars >>

MCSpec == MCInit /\ [][MCNext]_allVars

-----------------------------------------------------------------------------

\* A handle reads what was written to the file, in every order of calls, and the
\* storage changes at one moment to all of it (lfs_file_write, lfs_file_sync).
FileTrue ==
  /\ \A s \in OnFile : setting = s => FileOf(s)!D!Init
  /\ [][\A s \in OnFile :
          setting = s => [FileOf(s)!D!Next]_(FileOf(s)!D!vars)]_allVars

\* A call of lfs_file_sync or lfs_file_close that returns no error has saved what
\* was written to the handle.
SyncSaves == [][\A s \in OnFile : setting = s => FileOf(s)!SyncSaved]_allVars

\* What littlefs relies on when it uses the device (lfs_bd_prog, lfs_alloc).
DeviceSafe == \A s \in OnFile : setting = s => FileOf(s)!DeviceSafe

\* lfs_ctz_index, lfs_ctz_find and lfs_ctz_traverse find what the list has.
ListTrue == setting = "list" => List!Agrees

\* The values and the blocks of a metadata pair are interchangeable.
Symmetry == Permutations(Values) \cup Permutations(Blocks)
=============================================================================

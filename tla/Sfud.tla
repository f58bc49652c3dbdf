------------------------------- MODULE Sfud --------------------------------
(***************************************************************************)
(* sfud.c: reading, erasing and writing the serial flash, and reading its  *)
(* identity, by threads that exclude one another with sfud_lock.           *)
(* A message of the SPI driver either passes, or fails after any number of *)
(* its bytes: a wait for the DMA that times out or is resumed.  It drives  *)
(* chip select by its own flags in both cases.  The steps between two      *)
(* looks at the lock or at the chip are one action, for nobody but the     *)
(* owner of the lock sends messages.                                       *)
(***************************************************************************)
EXTENDS FlashChip

CONSTANTS Threads,
          NoOwner,       \* the lock without an owner
          Ranges,     \* the pairs of an address and a size that are asked for
          Payload,    \* the data a thread writes, by its position
          Retries,    \* SFUD_OPERATION_TIMEOUT, as polls of a busy chip
          MaxCalls,   \* a bound on the calls
          MaxFaults,  \* after so many faults no message fails
          Slow        \* may the chip be busy for longer than Retries polls?

SfudAssumption ==
  /\ FlashAssumption
  /\ NoOwner \notin Threads
  /\ Ranges \subseteq Nat \X Nat
  /\ Payload \in [Threads -> Seq(Bits)]
  /\ \A t \in Threads, range \in Ranges : range[2] <= Len(Payload[t])
  /\ {Retries, MaxCalls, MaxFaults} \subseteq Nat

VARIABLES chip,
          owner,      \* of sfud_lock
          place,         \* where each thread is
          call,       \* the arguments and locals of each thread's call
          done,       \* the last call that returned
          want,       \* what the callers may believe of each address
          calls,
          faults      \* the messages that failed and the waits that were given up

flashVars == << chip, owner, place, call, done, want, calls, faults >>

Kinds == {"read", "erase", "write", "id"}
Unsure == -1
NoCall == [kind |-> "none", from |-> 0, length |-> 0, addr |-> 0, size |-> 0,
           retry |-> 0]

FlashInit ==
  /\ chip = BlankChip
  /\ owner = NoOwner
  /\ place = [t \in Threads |-> "idle"]
  /\ call = [t \in Threads |-> NoCall]
  /\ done = [kind |-> "none", ok |-> TRUE, from |-> 0, got |-> << >>]
  /\ want = chip.cells
  /\ calls = 0 /\ faults = 0

----------------------------------------------------------------------------
\* Messages: the possible results are pairs of the chip and whether the
\* message passed.

Taken(c, take) == IF take THEN Select(c) ELSE c
Released(c, release) == IF release THEN Deselect(c) ELSE c

MayFail == faults < MaxFaults

\* [mutant] A message that fails returns before it raises chip select.
SentEarly(c, items, take, release) ==
  LET on == Taken(c, take)
      parts == {SubSeq(items, 1, n) : n \in 0..Len(items)}
  IN  {<< Released(Send(on, items), release), TRUE >>} \cup
      (IF MayFail THEN {<< Send(on, s), FALSE >> : s \in parts} ELSE {})

Sent(c, items, take, release) ==
  LET on == Taken(c, take)
      parts == {SubSeq(items, 1, n) : n \in 0..Len(items)}
      torn == {Append(SubSeq(items, 1, n), Torn) : n \in 0..Len(items)-1}
  IN  {<< Released(Send(on, items), release), TRUE >>} \cup
      (IF MayFail
         THEN {<< Released(Send(on, s), release), FALSE >> : s \in parts \cup torn}
         ELSE {})

\* What sfud_read_status may find, with the chip it leaves.
NoStatus == [ok |-> FALSE, busy |-> FALSE, wel |-> FALSE]

StatusRead(c) ==
  UNION {IF r[2]
           THEN {<< Deselect(r[1]), s >> : s \in Statuses(r[1])} \cup
                (IF MayFail THEN {<< Deselect(r[1]), NoStatus >>} ELSE {})
           ELSE {<< r[1], NoStatus >>}
         : r \in Sent(c, << RDSR >>, TRUE, FALSE)}

\* The results of set_write_enabled: the chip, success, and whether a message
\* failed.
WriteEnabled(c, enabled) ==
  UNION {IF r[2]
           THEN {<< s[1], s[2].ok /\ s[2].wel = enabled, ~s[2].ok >>
                 : s \in StatusRead(r[1])}
           ELSE {<< r[1], FALSE, TRUE >>}
         : r \in Sent(c, << IF enabled THEN WREN ELSE WRDI >>, TRUE, TRUE)}

Fault(failed) == faults' = IF failed THEN faults + 1 ELSE faults

----------------------------------------------------------------------------
Proceed(t, where) == place' = [place EXCEPT ![t] = where]

\* The addresses that a call may change.
Covered(c) ==
  CASE c.kind = "write" -> {a \in Address : a >= c.from /\ a < c.from + c.length}
    [] c.kind = "erase" /\ c.length > 0 ->
         {a \in Address : /\ UnitAt(a, Sector) >= UnitAt(c.from, Sector)
                          /\ UnitAt(a, Sector) < c.from + c.length}
    [] OTHER -> {}

\* What holds of address a after the call of t that succeeded or failed.
Believed(t, ok, a) ==
  LET c == call[t]
  IN  IF a \notin Covered(c) THEN want[a]
      ELSE IF ~ok THEN Unsure
      ELSE IF c.kind = "erase" THEN Erased
      ELSE IF want[a] = Unsure THEN Unsure
      ELSE And(want[a], Payload[t][a - c.from + 1])

Return(t, ok, got) ==
  /\ Proceed(t, "idle")
  /\ done' = [kind |-> call[t].kind, ok |-> ok, from |-> call[t].from, got |-> got]
  /\ call' = [call EXCEPT ![t] = NoCall]

\* osMutexRelease and return.
Unlock(t, ok, got) ==
  /\ owner' = NoOwner
  /\ want' = [a \in Address |-> Believed(t, ok, a)]
  /\ Return(t, ok, got)

\* A thread calls a function; a range beyond the end is refused.
Request(t, kind, range) ==
  /\ place[t] = "idle" /\ calls < MaxCalls
  /\ calls' = calls + 1
  /\ IF kind # "id" /\ range[1] + range[2] > Capacity
       THEN UNCHANGED << place, call >>
       ELSE /\ call' = [call EXCEPT ![t] =
                 [kind |-> kind, from |-> range[1], length |-> range[2],
                  addr |-> range[1], size |-> range[2], retry |-> Retries]]
            /\ Proceed(t, "lock")
  /\ UNCHANGED << chip, owner, done, want, faults >>

Acquire(t) ==
  /\ place[t] = "lock" /\ owner = NoOwner
  /\ owner' = t
  /\ Proceed(t, CASE call[t].kind = "read" -> "busy"
                  [] call[t].kind = "id" -> "transfer"
                  [] OTHER -> IF call[t].size = 0 THEN "disable" ELSE "enable")
  /\ UNCHANGED << chip, call, done, want, calls, faults >>

AcquireTimeout(t) ==
  /\ place[t] = "lock" /\ owner # NoOwner
  /\ Return(t, FALSE, << >>)
  /\ UNCHANGED << chip, owner, want, calls, faults >>

EnableWrite(t) ==
  /\ place[t] = "enable"
  /\ \E r \in WriteEnabled(chip, TRUE) :
       /\ chip' = r[1]
       /\ Proceed(t, IF r[2] THEN "transfer" ELSE "disable")
       /\ Fault(r[3])
  /\ UNCHANGED << owner, call, done, want, calls >>

\* [mutant] Pages counted from the address of the write.
PageSizeUnaligned(c) == IF c.size > Page THEN Page ELSE c.size

\* The number of bytes of the next page of a write.
PageSize(c) ==
  LET room == Page - (c.addr % Page)
  IN  IF c.size > room THEN room ELSE c.size

Command(t) ==
  LET c == call[t]
  IN  IF c.kind = "erase" THEN << SE, c.addr >>
      ELSE << PP, c.addr >> \o
           SubSeq(Payload[t], c.addr - c.from + 1, c.addr - c.from + PageSize(c))

\* The message of an erase or a write.
Transfer(t) ==
  /\ place[t] = "transfer" /\ call[t].kind \in {"erase", "write"}
  /\ \E r \in Sent(chip, Command(t), TRUE, TRUE) :
       /\ chip' = r[1]
       /\ Proceed(t, IF r[2] THEN "busy" ELSE "disable")
       /\ Fault(~r[2])
  /\ UNCHANGED << owner, call, done, want, calls >>

\* [mutant] A failed first message returns without releasing the lock.
AskLeak(t, items) ==
  \E r \in Sent(chip, items, TRUE, FALSE) :
    /\ chip' = r[1]
    /\ Return(t, FALSE, << >>) /\ Fault(~r[2])
    /\ UNCHANGED << owner, want >>

\* Two messages, of which the second reads the answer to the first: if the
\* first fails, the second, which would raise chip select, is not sent.
Ask(t, items) ==
  \E r \in Sent(chip, items, TRUE, FALSE) :
    \/ /\ ~r[2]
       /\ chip' = r[1]
       /\ Unlock(t, FALSE, << >>) /\ Fault(TRUE)
    \/ /\ r[2]
       /\ chip' = Deselect(r[1])
       /\ \/ Unlock(t, TRUE, Answer(r[1], call[t].length)) /\ Fault(FALSE)
          \/ MayFail /\ Unlock(t, FALSE, << >>) /\ Fault(TRUE)

TransferRead(t) ==
  /\ place[t] = "transfer" /\ call[t].kind = "read"
  /\ Ask(t, << READ, call[t].from >>)
  /\ UNCHANGED calls

TransferId(t) ==
  /\ place[t] = "transfer" /\ call[t].kind = "id"
  /\ Ask(t, << ID >>)
  /\ UNCHANGED calls

\* The start of the next unit, and whether there is none.
NextUnit(c) ==
  LET n == IF c.kind = "write" THEN PageSize(c) ELSE Sector - (c.addr % Sector)
  IN  [c EXCEPT !.addr = @ + n, !.size = @ - n, !.retry = Retries]

LastUnit(c) ==
  IF c.kind = "write" THEN c.size = PageSize(c)
  ELSE c.size <= Sector - (c.addr % Sector)

\* What follows a wait that was successful.
Ready(t) ==
  \/ call[t].kind = "read" /\ Proceed(t, "transfer") /\ UNCHANGED call
  \/ /\ call[t].kind # "read" /\ ~LastUnit(call[t])
     /\ call' = [call EXCEPT ![t] = NextUnit(@)]
     /\ Proceed(t, "enable")
  \/ /\ call[t].kind # "read" /\ LastUnit(call[t])
     /\ Proceed(t, "disable") /\ UNCHANGED call

\* What follows a wait that is given up.
GiveUp(t) ==
  \/ call[t].kind = "read" /\ Unlock(t, FALSE, << >>)
  \/ /\ call[t].kind # "read"
     /\ Proceed(t, "disable") /\ UNCHANGED << owner, call, done, want >>

\* [mutant] Any status that was read ends the wait.
WaitBusyOnce(t) ==
  /\ place[t] = "busy"
  /\ \E s \in StatusRead(chip) :
       /\ chip' = s[1] /\ Fault(~s[2].ok)
       /\ Ready(t)
  /\ UNCHANGED << owner, done, want, calls >>

\* [mutant] The polls are not counted.
WaitBusyForever(t) ==
  /\ place[t] = "busy"
  /\ \E s \in StatusRead(chip) :
       /\ chip' = s[1] /\ Fault(~s[2].ok)
       /\ IF s[2].ok /\ ~s[2].busy THEN Ready(t) ELSE UNCHANGED << place, call >>
  /\ UNCHANGED << owner, done, want, calls >>

\* One poll of wait_busy; after the last one the wait is given up.
WaitBusy(t) ==
  /\ place[t] = "busy"
  /\ \E s \in StatusRead(chip) :
       LET busy == ~s[2].ok \/ s[2].busy
           last == busy /\ call[t].retry = 0
       IN  /\ chip' = s[1] /\ Fault(~s[2].ok \/ last)
           /\ \/ ~busy /\ Ready(t) /\ UNCHANGED << owner, done, want >>
              \/ /\ busy /\ call[t].retry > 0
                 /\ call' = [call EXCEPT ![t].retry = @ - 1]
                 /\ UNCHANGED << place, owner, done, want >>
              \/ /\ last /\ (Slow \/ ~chip.busy)
                 /\ GiveUp(t)
  /\ UNCHANGED calls

\* set_write_enabled(false) decides what an erase or a write returns.
DisableWrite(t) ==
  /\ place[t] = "disable"
  /\ \E r \in WriteEnabled(chip, FALSE) :
       /\ chip' = r[1]
       /\ Unlock(t, r[2], << >>)
       /\ Fault(r[3])
  /\ UNCHANGED calls

ChipFinish ==
  /\ chip.busy
  /\ chip' = Finished(chip)
  /\ UNCHANGED << owner, place, call, done, want, calls, faults >>

Serve(t) ==
  \/ Acquire(t) \/ AcquireTimeout(t)
  \/ EnableWrite(t) \/ Transfer(t) \/ TransferRead(t) \/ TransferId(t)
  \/ WaitBusy(t) \/ DisableWrite(t)

FlashNext ==
  \/ \E t \in Threads : Serve(t)
  \/ \E t \in Threads, kind \in Kinds, range \in Ranges : Request(t, kind, range)
  \/ ChipFinish

FlashSpec == FlashInit /\ [][FlashNext]_flashVars

----------------------------------------------------------------------------
\* Every variable has its type, and the lock is held exactly by the thread
\* that is between its acquisition and its release, on the paths of failure
\* as well (sfud_lock in all functions).
SfudTypeOK ==
  /\ chip.cells \in [Address -> Bits] /\ chip.todo \in [Address -> Bits]
  /\ {chip.low, chip.wel, chip.busy} \subseteq BOOLEAN
  /\ want \in [Address -> Bits \cup {Unsure}]
  /\ \A t \in Threads :
       owner = t <=> place[t] \in {"enable", "transfer", "busy", "disable"}

\* An erase or a write that returns SFUD_SUCCESS has erased all the sectors
\* it touches or written all its bytes, one that fails leaves only its own
\* range in doubt, and nothing else ever changes the flash (sfud_erase,
\* sfud_write).
ContentsTrue ==
  \A a \in Address :
    \/ want[a] = Unsure
    \/ chip.cells[a] = want[a]
    \/ \E t \in Threads : owner = t /\ a \in Covered(call[t])

\* A read that returns SFUD_SUCCESS returns what the flash holds, and the
\* identity is the identity (sfud_read, sfud_get_id).
ReadTrue ==
  done' # done /\ done'.ok =>
    /\ done'.kind = "id" => done'.got = Identity
    /\ done'.kind = "read" =>
         /\ done'.got # Noise
         /\ \A i \in DOMAIN done'.got : done'.got[i] = chip.cells[done'.from + i - 1]

\* Whatever messages fail and however late the chip finishes: the flash
\* changes only where an erase or a write was asked to, and sfud_lock is released
\* (chip select left low by a failed sfud_read, sfud_get_id or sfud_read_status
\* must not turn a later message into another command).
AskedFor ==
  \A a \in Address :
    chip'.cells[a] # chip.cells[a] =>
      want[a] = Unsure \/ \E t \in Threads : a \in Covered(call[t])

OnlyAsked == [][AskedFor /\ SfudTypeOK']_flashVars

\* As long as no message has failed and no wait was given up, the flash holds what
\* the erases and writes say, page by page and sector by sector, and a read returns
\* it (sfud_erase, sfud_write, sfud_read, sfud_get_id).
FlashTrue == [][faults' = 0 => ContentsTrue' /\ ReadTrue]_flashVars
=============================================================================

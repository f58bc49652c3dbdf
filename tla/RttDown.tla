-------------------------------- MODULE RttDown --------------------------------
(***************************************************************************)
(* The down buffer of the debug channel (rtt.c): the debug probe writes    *)
(* what is typed in its terminal into a ring buffer in RAM, and a program  *)
(* (the shell) reads it.                                                   *)
(*                                                                         *)
(* The program owns RdOff and the probe WrOff; each access to them and     *)
(* each memcpy is a step.  The probe is external: it copies bytes into     *)
(* free space and moves WrOff behind them.                                 *)
(***************************************************************************)
EXTENDS RttRing

CONSTANTS Typing,   \* what the probe writes at once
          Requests  \* the numbers of bytes a program asks for

\* What the constants are.
DownAssumption ==
  /\ Size \in Nat \ {0}
  /\ Typing \subseteq Seq(Byte) \ {<< >>}
  /\ Requests \subseteq Nat

VARIABLES ring,     \* pBuffer
          readAt,   \* RdOff
          writeAt,  \* WrOff
          step,     \* where the program is in SEGGER_RTT_ReadNoLock
          off,      \* its RdOff
          looked,   \* its WrOff
          room,     \* its BufferSize: how many bytes it can still take
          data,     \* the bytes it has copied
          typed,    \* the bytes the probe has copied, << >> when it is idle
          taken     \* the bytes the program has got last

downVars == << ring, readAt, writeAt, step, off, looked, room, data, typed, taken >>

DownInit ==
  /\ ring \in {[o \in Offset |-> b] : b \in Byte}
  /\ readAt = 0 /\ writeAt = 0
  /\ step = "out"
  /\ off = 0 /\ looked = 0 /\ room = 0
  /\ data = << >> /\ typed = << >> /\ taken = << >>

DownGoto(from, to) == step = from /\ step' = to

Bytes(o, n) == [i \in 1..n |-> ring[o + i - 1]]

\* rtt_read is called, and RdOff is read
Read(n) ==
  /\ DownGoto("out", "look")
  /\ off' = readAt
  /\ room' = n
  /\ data' = << >>
  /\ UNCHANGED << ring, readAt, writeAt, looked, typed, taken >>

\* [mutant] equal offsets are taken for a full buffer
LookEqual ==
  /\ DownGoto("look", IF off >= writeAt THEN "first" ELSE "rest")
  /\ looked' = writeAt
  /\ UNCHANGED << ring, readAt, writeAt, off, room, data, typed, taken >>

\* WrOff is read
Look ==
  /\ DownGoto("look", IF off > writeAt THEN "first" ELSE "rest")
  /\ looked' = writeAt
  /\ UNCHANGED << ring, readAt, writeAt, off, room, data, typed, taken >>

\* n bytes at RdOff are copied; behind says where RdOff goes
CopyOut(n, behind) ==
  /\ data' = data \o Bytes(off, n)
  /\ room' = room - n
  /\ off' = behind
  /\ UNCHANGED << ring, readAt, writeAt, looked, typed, taken >>

\* The bytes from RdOff to the end of the buffer come first ...
First ==
  /\ DownGoto("first", "rest")
  /\ LET n == IF room < Size - off THEN room ELSE Size - off
     IN  CopyOut(n, IF off + n = Size THEN 0 ELSE off + n)

\* ... then those up to WrOff.  The difference is unsigned: it is large when the
\* first part has used the room up before the end of the buffer.
Rest ==
  /\ DownGoto("rest", "end")
  /\ LET n == IF off <= looked /\ looked - off < room THEN looked - off ELSE room
     IN  CopyOut(n, off + n)

\* ... and RdOff is moved if bytes were read
AdvanceRead ==
  /\ DownGoto("end", "out")
  /\ readAt' = IF data = << >> THEN readAt ELSE off
  /\ taken' = IF data = << >> THEN taken ELSE data
  /\ UNCHANGED << ring, writeAt, off, looked, room, data, typed >>

-----------------------------------------------------------------------------
(* The probe. *)

Held == IF readAt <= writeAt THEN writeAt - readAt ELSE Size - readAt + writeAt
Waiting == [i \in 1..Held |-> ring[Behind(readAt, i - 1)]]

\* The probe copies a message for which there is room ...
TypeCopy(m) ==
  /\ typed = << >> /\ Held + Len(m) < Size
  /\ typed' = m
  /\ ring' = [o \in Offset |->
               IF \E i \in 1..Len(m) : o = Behind(writeAt, i - 1)
               THEN m[CHOOSE i \in 1..Len(m) : o = Behind(writeAt, i - 1)]
               ELSE ring[o]]
  /\ UNCHANGED << readAt, writeAt, step, off, looked, room, data, taken >>

\* ... and moves WrOff behind it
TypeAdvance ==
  /\ typed # << >>
  /\ writeAt' = Behind(writeAt, Len(typed))
  /\ typed' = << >>
  /\ UNCHANGED << ring, readAt, step, off, looked, room, data, taken >>

-----------------------------------------------------------------------------

DownNext ==
  \/ \E n \in Requests : Read(n)
  \/ Look \/ First \/ Rest \/ AdvanceRead
  \/ \E m \in Typing : TypeCopy(m)
  \/ TypeAdvance

DownSpec == DownInit /\ [][DownNext]_downVars

-----------------------------------------------------------------------------
(* Properties. *)

\* The offsets stay inside the buffer, that of a read too when it has ended.
DownTypeOK ==
  /\ ring \in [Offset -> Byte]
  /\ readAt \in Offset /\ writeAt \in Offset
  /\ step \in {"out", "look", "first", "rest", "end"}
  /\ off \in Offset /\ looked \in Offset
  /\ room \in Nat

\* The down buffer is the stream: a program reads what the probe has written, in
\* order, each byte once, however its reads are cut and wrap around.
DownStream == INSTANCE ByteStream WITH
  Message <- Typing, Capacity <- Size - 1, stream <- Waiting, got <- taken

InOrder == DownStream!StreamSpec
=============================================================================

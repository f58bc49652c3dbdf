--------------------------------- MODULE RttUp ---------------------------------
(***************************************************************************)
(* The up buffer of the debug channel (rtt.c): programs write log messages *)
(* into a ring buffer in RAM, and the debug probe reads them out of the    *)
(* memory while the processor runs.                                        *)
(*                                                                         *)
(* There is no lock.  The probe owns RdOff and the writer WrOff, and each  *)
(* access to them, each memcpy and each step of the probe is a step here.  *)
(* What the probe does is external: it reads WrOff, copies bytes up to     *)
(* there and moves RdOff behind them.                                      *)
(***************************************************************************)
EXTENDS RttRing

CONSTANTS Message,  \* the messages that are written
          Writer    \* the threads that write

ASSUME RttAssumption ==
  /\ Size \in Nat \ {0}
  /\ Message \subseteq Seq(Byte) \ {<< >>}
  /\ Byte # {}

VARIABLES buf,    \* pBuffer
          rd, wr, \* RdOff and WrOff
          at,     \* where each writer is in SEGGER_RTT_WriteNoLock
          msg,    \* pData
          seen,   \* the RdOff and then the WrOff it has read
          probe,  \* the bytes the probe has copied, << >> when it is idle
          got     \* the bytes the probe has got last

vars == << buf, rd, wr, at, msg, seen, probe, got >>

Init ==
  /\ buf \in {[o \in Offset |-> b] : b \in Byte}
  /\ rd = 0 /\ wr = 0
  /\ at = [w \in Writer |-> "out"]
  /\ msg \in {[w \in Writer |-> m] : m \in Message}
  /\ seen = [w \in Writer |-> 0]
  /\ probe = << >>
  /\ got = << >>

\* [mutant] WrOff is taken to be behind RdOff always
AvailBehind(r, w) == Size - 1 - w + r

\* _GetAvailWriteSpace
Avail(r, w) == IF r <= w THEN Size - 1 - w + r ELSE r - w - 1

\* A message m copied to offset o on, as far as the end of the buffer ...
Copied(m, o) ==
  [i \in Offset |-> IF i >= o /\ i < o + Len(m) THEN m[i - o + 1] ELSE buf[i]]

\* ... and the rest of it from offset 0 on
CopiedRest(m, o) ==
  [i \in Offset |-> IF i + Size < o + Len(m) THEN m[i + Size - o + 1] ELSE buf[i]]

Goto(w, from, to) == at[w] = from /\ at' = [at EXCEPT ![w] = to]

\* rtt_write is called, and RdOff is read
Write(w, m) ==
  /\ Goto(w, "out", "space")
  /\ msg' = [msg EXCEPT ![w] = m]
  /\ seen' = [seen EXCEPT ![w] = rd]
  /\ UNCHANGED << buf, rd, wr, probe, got >>

\* WrOff is read; a message that does not fit is dropped
Skip(w) ==
  /\ Goto(w, "space", "out")
  /\ Avail(seen[w], wr) < Len(msg[w])
  /\ UNCHANGED << buf, rd, wr, msg, seen, probe, got >>

\* [mutant] the byte that tells a full buffer from an empty one is used
FitsAll(w) ==
  /\ Goto(w, "space", "fits")
  /\ Avail(seen[w], wr) + 1 >= Len(msg[w])
  /\ UNCHANGED << buf, rd, wr, msg, seen, probe, got >>

Fits(w) ==
  /\ Goto(w, "space", "fits")
  /\ Avail(seen[w], wr) >= Len(msg[w])
  /\ UNCHANGED << buf, rd, wr, msg, seen, probe, got >>

\* _WriteNoCheck reads WrOff again ...
WriteNoCheck(w) ==
  /\ Goto(w, "fits", "copy")
  /\ seen' = [seen EXCEPT ![w] = wr]
  /\ UNCHANGED << buf, rd, wr, msg, probe, got >>

\* ... copies the message, or what fits before the end of the buffer
Copy(w) ==
  /\ Goto(w, "copy", IF Size - seen[w] > Len(msg[w]) THEN "end" ELSE "wrap")
  /\ buf' = Copied(msg[w], seen[w])
  /\ UNCHANGED << rd, wr, msg, seen, probe, got >>

\* ... and the rest
Wrap(w) ==
  /\ Goto(w, "wrap", "end")
  /\ buf' = CopiedRest(msg[w], seen[w])
  /\ UNCHANGED << rd, wr, msg, seen, probe, got >>

\* [mutant] the end of the buffer is not wrapped around at once
AdvanceLate(w) ==
  /\ Goto(w, "end", "out")
  /\ LET o == seen[w] + Len(msg[w])
     IN  wr' = IF o <= Size THEN o ELSE o - Size
  /\ UNCHANGED << buf, rd, msg, seen, probe, got >>

\* ... and moves WrOff behind it
Advance(w) ==
  /\ Goto(w, "end", "out")
  /\ LET o == seen[w] + Len(msg[w])
     IN  wr' = IF o < Size THEN o ELSE o - Size
  /\ UNCHANGED << buf, rd, msg, seen, probe, got >>

-----------------------------------------------------------------------------
(* The probe. *)

\* The number of unread bytes, and the i-th of them.
Used == IF rd <= wr THEN wr - rd ELSE Size - rd + wr
Unread == [i \in 1..Used |-> buf[Behind(rd, i - 1)]]

\* The probe copies n bytes ...
ProbeCopy(n) ==
  /\ probe = << >>
  /\ probe' = SubSeq(Unread, 1, n)
  /\ UNCHANGED << buf, rd, wr, at, msg, seen, got >>

\* ... and moves RdOff behind them
ProbeAdvance ==
  /\ probe # << >>
  /\ rd' = Behind(rd, Len(probe))
  /\ got' = probe
  /\ probe' = << >>
  /\ UNCHANGED << buf, wr, at, msg, seen >>

-----------------------------------------------------------------------------

WriterStep(w) ==
  \/ \E m \in Message : Write(w, m)
  \/ Skip(w) \/ Fits(w)
  \/ WriteNoCheck(w) \/ Copy(w) \/ Wrap(w) \/ Advance(w)

Next ==
  \/ \E w \in Writer : WriterStep(w)
  \/ \E n \in 1..Used : ProbeCopy(n)
  \/ ProbeAdvance

Spec == Init /\ [][Next]_vars

-----------------------------------------------------------------------------
(* Properties. *)

\* The offsets stay inside the buffer.
TypeOK ==
  /\ buf \in [Offset -> Byte]
  /\ rd \in Offset /\ wr \in Offset
  /\ at \in [Writer -> {"out", "space", "fits", "copy", "wrap", "end"}]
  /\ msg \in [Writer -> Message]
  /\ seen \in [Writer -> Offset]

\* The byte at offset o has not been read.
IsUnread(o) == IF rd <= wr THEN rd <= o /\ o < wr ELSE rd <= o \/ o < wr

\* Nothing that the probe has still to read is overwritten, though space is
\* computed from an RdOff that may be old.
UnreadKept ==
  [][\A o \in Offset : IsUnread(o) => buf'[o] = buf[o]]_vars

\* The up buffer is the stream: messages go out whole, in order and unmixed,
\* or not at all.
Stream == INSTANCE ByteStream WITH
  Capacity <- Size - 1, stream <- Unread

WholeOrNothing == Stream!StreamSpec
=============================================================================

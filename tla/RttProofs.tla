----------------------------- MODULE RttProofs -------------------------------
(***************************************************************************)
(* Proofs about RttUp and RttDown, for every size of the buffer and all    *)
(* messages and requests: what the other side reads is the stream that     *)
(* this side writes.                                                       *)
(***************************************************************************)
EXTENDS RttUp, RttDown, SequenceTheorems, TLAPS

-----------------------------------------------------------------------------
(* RttUp: from the program to the probe. *)

USE RttAssumption DEF RttAssumption

\* Only one thread writes.
OneWriter == \A v, w \in Writer : v = w

\* A writer that has found room has it still, wherever the probe is, and what it
\* has copied lies where the message belongs.
WriterInv ==
  \A w \in Writer :
    /\ at[w] = "space" => Avail(seen[w], wr) <= Avail(rd, wr)
    /\ at[w] \in {"fits", "copy", "wrap", "end"} => Len(msg[w]) <= Avail(rd, wr)
    /\ at[w] \in {"copy", "wrap", "end"} => seen[w] = wr
    /\ at[w] = "wrap" =>
         /\ Size - wr <= Len(msg[w])
         /\ \A i \in 1..Len(msg[w]) : wr + i <= Size => buf[wr + i - 1] = msg[w][i]
    /\ at[w] = "end" =>
         \A i \in 1..Len(msg[w]) : buf[Behind(wr, i - 1)] = msg[w][i]

\* What the probe has copied is what is unread first.
UpProbeInv ==
  /\ probe \in Seq(Byte)
  /\ probe # << >> => /\ Len(probe) \in 1..Used
                      /\ \A i \in 1..Len(probe) : probe[i] = buf[Behind(rd, i - 1)]

UpInv == TypeOK /\ WriterInv /\ UpProbeInv

-----------------------------------------------------------------------------
(* Offsets. *)

\* A message has bytes.
LEMMA UpMessageType ==
  ASSUME NEW m \in Message
  PROVE  /\ m \in Seq(Byte) /\ Len(m) \in Nat /\ Len(m) >= 1
         /\ \A i \in 1..Len(m) : m[i] \in Byte
<1>1. m \in Seq(Byte) /\ m # << >>
  OBVIOUS
<1> QED
  BY <1>1

\* All bytes are unread or available but one.
LEMMA UsedAvail ==
  ASSUME rd \in Offset, wr \in Offset
  PROVE  Used \in 0..Size-1 /\ Avail(rd, wr) = Size - 1 - Used
BY DEF Offset, Used, Avail

\* Behind stays inside the buffer.
LEMMA UpBehindOffset ==
  ASSUME NEW o \in Offset, NEW i \in 0..Size-1
  PROVE  Behind(o, i) \in Offset
BY DEF Offset, Behind

\* Offsets at different distances are different.
LEMMA UpBehindInjective ==
  ASSUME NEW o \in Offset, NEW i \in 0..Size-1, NEW j \in 0..Size-1,
         Behind(o, i) = Behind(o, j)
  PROVE  i = j
BY DEF Offset, Behind

\* The unread offsets are those less than Used behind RdOff.
LEMMA UnreadOffset ==
  ASSUME rd \in Offset, wr \in Offset, NEW o \in Offset
  PROVE  IsUnread(o) <=> \E i \in 0..Used-1 : o = Behind(rd, i)
<1>1. ASSUME NEW i \in 0..Used-1 PROVE IsUnread(Behind(rd, i))
  BY <1>1 DEF Offset, Used, Behind, IsUnread
<1>2. ASSUME IsUnread(o) PROVE \E i \in 0..Used-1 : o = Behind(rd, i)
  <2>1. CASE rd <= o
    <3>1. o - rd \in 0..Used-1 /\ o = Behind(rd, o - rd)
      BY <1>2, <2>1 DEF Offset, Used, Behind, IsUnread
    <3> QED
      BY <3>1
  <2>2. CASE o < rd
    <3>1. o + Size - rd \in 0..Used-1 /\ o = Behind(rd, o + Size - rd)
      BY <1>2, <2>2 DEF Offset, Used, Behind, IsUnread
    <3> QED
      BY <3>1
  <2> QED
    BY <2>1, <2>2 DEF Offset
<1> QED
  BY <1>1, <1>2

\* The next bytes of a message that fits are not unread.
LEMMA FreeOffset ==
  ASSUME rd \in Offset, wr \in Offset, NEW i \in 0..Avail(rd, wr)-1
  PROVE  Behind(wr, i) \in Offset /\ ~IsUnread(Behind(wr, i))
BY DEF Offset, Avail, Behind, IsUnread

-----------------------------------------------------------------------------
(* The invariant. *)

\* The empty buffer.
LEMMA UpInvInit == Init => UpInv
<1> SUFFICES ASSUME Init PROVE UpInv
  OBVIOUS
<1>1. 0 \in Offset
  BY DEF Offset
<1>2. TypeOK
  BY <1>1 DEF Init, TypeOK
<1>3. WriterInv
  BY DEF Init, WriterInv
<1>4. UpProbeInv
  BY DEF Init, UpProbeInv
<1> QED
  BY <1>2, <1>3, <1>4 DEF UpInv

\* A step of the writer that moves neither offsets nor bytes leaves the probe
\* what it has.
LEMMA UpProbeKept ==
  ASSUME UpProbeInv, UNCHANGED << buf, rd, wr, probe >>
  PROVE  UpProbeInv'
BY DEF UpProbeInv, Used, Behind

\* A writer that reads RdOff, or finds that its message fits or does not.
LEMMA SpaceInv ==
  ASSUME OneWriter, UpInv, NEW w \in Writer,
         (\E m \in Message : Write(w, m)) \/ Skip(w) \/ Fits(w)
  PROVE  UpInv'
<1> USE DEF UpInv
<1>1. TypeOK'
  <2>1. CASE \E m \in Message : Write(w, m)
    BY <2>1 DEF TypeOK, Write, Goto
  <2>2. CASE Skip(w)
    BY <2>2 DEF TypeOK, Skip, Goto
  <2>3. CASE Fits(w)
    BY <2>3 DEF TypeOK, Fits, Goto
  <2> QED
    BY <2>1, <2>2, <2>3
<1>2. UNCHANGED << buf, rd, wr, probe >>
  BY DEF Write, Skip, Fits
<1>3. \A v \in Writer : v = w
  BY DEF OneWriter
<1>4. WriterInv'
  <2>1. CASE \E m \in Message : Write(w, m)
    <3>1. at'[w] = "space" /\ seen'[w] = rd
      BY <2>1 DEF TypeOK, Write, Goto
    <3>2. Avail(rd, wr) \in Int
      BY DEF TypeOK, Avail, Offset
    <3> QED
      BY <1>2, <1>3, <3>1, <3>2 DEF WriterInv
  <2>2. CASE Skip(w)
    <3>1. at'[w] = "out"
      BY <2>2 DEF TypeOK, Skip, Goto
    <3> QED
      BY <1>3, <3>1 DEF WriterInv
  <2>3. CASE Fits(w)
    <3>1. at[w] = "space" /\ at'[w] = "fits" /\ UNCHANGED << msg, seen >>
      BY <2>3 DEF TypeOK, Fits, Goto
    <3>2. Avail(seen[w], wr) <= Avail(rd, wr) /\ Len(msg[w]) <= Avail(seen[w], wr)
      BY <2>3, <3>1 DEF WriterInv, Fits
    <3>3. /\ Avail(rd, wr) \in Int /\ Avail(seen[w], wr) \in Int
          /\ Len(msg[w]) \in Nat
      BY UpMessageType DEF TypeOK, Avail, Offset
    <3>4. Len(msg[w]) <= Avail(rd, wr)
      BY <3>2, <3>3
    <3> QED
      BY <1>2, <1>3, <3>1, <3>4 DEF WriterInv
  <2> QED
    BY <2>1, <2>2, <2>3
<1>5. UpProbeInv'
  BY <1>2, UpProbeKept
<1> QED
  BY <1>1, <1>4, <1>5

\* _WriteNoCheck reads WrOff.
LEMMA WriteNoCheckInv ==
  ASSUME OneWriter, UpInv, NEW w \in Writer, WriteNoCheck(w)
  PROVE  UpInv'
<1> USE DEF UpInv
<1>1. TypeOK'
  BY DEF TypeOK, WriteNoCheck, Goto
<1>2. /\ at[w] = "fits" /\ at'[w] = "copy" /\ seen'[w] = wr
      /\ UNCHANGED << buf, rd, wr, msg, probe >>
  BY DEF TypeOK, WriteNoCheck, Goto
<1>3. WriterInv'
  BY <1>2 DEF WriterInv, OneWriter
<1>4. UpProbeInv'
  BY <1>2, UpProbeKept
<1> QED
  BY <1>1, <1>3, <1>4

\* The bytes that are copied go to free offsets: nothing unread changes.
LEMMA CopyFree ==
  ASSUME UpInv, NEW w \in Writer, Copy(w) \/ Wrap(w)
  PROVE  /\ UNCHANGED << rd, wr, probe >>
         /\ buf' \in [Offset -> Byte]
         /\ \A o \in Offset : IsUnread(o) => buf'[o] = buf[o]
<1> USE DEF UpInv
<1> DEFINE m == msg[w]
<1>1. m \in Message /\ Len(m) \in Nat /\ \A i \in 1..Len(m) : m[i] \in Byte
  BY UpMessageType DEF TypeOK
<1>2. seen[w] = wr /\ Len(m) <= Avail(rd, wr)
  BY DEF WriterInv, Copy, Wrap, Goto
<1>3. wr \in Offset /\ rd \in Offset /\ buf \in [Offset -> Byte]
  BY DEF TypeOK
<1> HIDE DEF m
<1>4. CASE Copy(w)
  <2>1. buf' = Copied(m, wr)
    BY <1>2, <1>4 DEF Copy, m
  <2>2. ASSUME NEW o \in Offset PROVE Copied(m, wr)[o] \in Byte
    <3>1. CASE o >= wr /\ o < wr + Len(m)
      <4>1. o - wr + 1 \in 1..Len(m)
        BY <1>1, <1>3, <3>1 DEF Offset
      <4> QED
        BY <1>1, <3>1, <4>1 DEF Copied
    <3>2. CASE ~(o >= wr /\ o < wr + Len(m))
      BY <1>3, <3>2 DEF Copied
    <3> QED
      BY <3>1, <3>2
  <2>3. ASSUME NEW o \in Offset, IsUnread(o) PROVE buf'[o] = buf[o]
    <3>1. ~(o >= wr /\ o < wr + Len(m))
      BY <1>1, <1>2, <1>3, <2>3 DEF Offset, Avail, IsUnread
    <3> QED
      BY <2>1, <3>1 DEF Copied
  <2> QED
    BY <1>4, <2>1, <2>2, <2>3 DEF Copy, Copied
<1>5. CASE Wrap(w)
  <2>1. buf' = CopiedRest(m, wr)
    BY <1>2, <1>5 DEF Wrap, m
  <2>2. ASSUME NEW o \in Offset PROVE CopiedRest(m, wr)[o] \in Byte
    <3>1. CASE o + Size < wr + Len(m)
      <4>1. o + Size - wr + 1 \in 1..Len(m)
        BY <1>1, <1>3, <3>1 DEF Offset
      <4> QED
        BY <1>1, <3>1, <4>1 DEF CopiedRest
    <3>2. CASE ~(o + Size < wr + Len(m))
      BY <1>3, <3>2 DEF CopiedRest
    <3> QED
      BY <3>1, <3>2
  <2>3. ASSUME NEW o \in Offset, IsUnread(o) PROVE buf'[o] = buf[o]
    <3>1. ~(o + Size < wr + Len(m))
      BY <1>1, <1>2, <1>3, <2>3 DEF Offset, Avail, IsUnread
    <3> QED
      BY <2>1, <3>1 DEF CopiedRest
  <2> QED
    BY <1>5, <2>1, <2>2, <2>3 DEF Wrap, CopiedRest
<1> QED
  BY <1>4, <1>5

\* ... and what the probe has copied is still what is unread first.
LEMMA CopyProbe ==
  ASSUME UpInv, NEW w \in Writer, Copy(w) \/ Wrap(w)
  PROVE  UpProbeInv'
<1> USE DEF UpInv
<1>1. rd \in Offset /\ wr \in Offset
  BY DEF TypeOK
<1>2. CASE probe = << >>
  BY <1>2, CopyFree DEF UpProbeInv
<1>3. CASE probe # << >>
  <2>1. Len(probe) \in 1..Used /\ Used' = Used
    BY <1>3, CopyFree DEF UpProbeInv, Used
  <2>2. ASSUME NEW i \in 1..Len(probe)
        PROVE  probe[i] = buf'[Behind(rd, i - 1)]
    <3>1. i - 1 \in 0..Used-1 /\ i - 1 \in 0..Size-1
      BY <1>1, <2>1, UsedAvail
    <3>2. Behind(rd, i - 1) \in Offset /\ IsUnread(Behind(rd, i - 1))
      BY <1>1, <3>1, UpBehindOffset, UnreadOffset
    <3> QED
      BY <1>3, <3>2, CopyFree DEF UpProbeInv
  <2> QED
    BY <1>3, <2>1, <2>2, CopyFree DEF UpProbeInv, Behind
<1> QED
  BY <1>2, <1>3

\* The first copy: the whole message, or what fits before the end.
LEMMA CopyInv ==
  ASSUME OneWriter, UpInv, NEW w \in Writer, Copy(w)
  PROVE  UpInv'
<1> USE DEF UpInv
<1> DEFINE m == msg[w]
<1>1. /\ m \in Message /\ Len(m) \in Nat /\ seen[w] = wr /\ Len(m) <= Avail(rd, wr)
      /\ wr \in Offset /\ rd \in Offset
  BY UpMessageType DEF TypeOK, WriterInv, Copy, Goto
<1>2. /\ at'[w] = IF Size - wr > Len(m) THEN "end" ELSE "wrap"
      /\ buf' = Copied(m, wr) /\ UNCHANGED << rd, wr, msg, seen >>
  BY <1>1 DEF TypeOK, Copy, Goto
<1>3. TypeOK'
  BY CopyFree DEF TypeOK, Copy, Goto
<1>4. ASSUME NEW i \in 1..Len(m), wr + i <= Size PROVE buf'[wr + i - 1] = m[i]
  <2>1. wr + i - 1 \in Offset /\ (wr + i - 1) - wr + 1 = i
    BY <1>1, <1>4 DEF Offset
  <2>2. wr + i - 1 >= wr /\ wr + i - 1 < wr + Len(m)
    BY <1>1 DEF Offset
  <2> HIDE DEF m
  <2>3. Copied(m, wr)[wr + i - 1] = m[(wr + i - 1) - wr + 1]
    BY <2>1, <2>2 DEF Copied
  <2> QED
    BY <1>2, <2>1, <2>3
<1>5. Size - wr > Len(m) => \A i \in 1..Len(m) : buf'[Behind(wr, i - 1)] = m[i]
  BY <1>1, <1>4 DEF Behind, Offset
<1>6. ~(Size - wr > Len(m)) => Size - wr <= Len(m)
  BY <1>1 DEF Offset
<1>7. WriterInv'
  BY <1>1, <1>2, <1>4, <1>5, <1>6 DEF WriterInv, OneWriter, Behind
<1>8. UpProbeInv'
  BY CopyProbe
<1> QED
  BY <1>3, <1>7, <1>8

\* The second copy: the rest, at the beginning of the buffer.
LEMMA WrapInv ==
  ASSUME OneWriter, UpInv, NEW w \in Writer, Wrap(w)
  PROVE  UpInv'
<1> USE DEF UpInv
<1> DEFINE m == msg[w]
<1>1. /\ m \in Message /\ Len(m) \in Nat /\ seen[w] = wr /\ Len(m) <= Avail(rd, wr)
      /\ wr \in Offset /\ rd \in Offset
  BY UpMessageType DEF TypeOK, WriterInv, Wrap, Goto
<1>2. /\ at[w] = "wrap" /\ at'[w] = "end"
      /\ buf' = CopiedRest(m, wr) /\ UNCHANGED << rd, wr, msg, seen >>
  BY <1>1 DEF TypeOK, Wrap, Goto
<1>3. TypeOK'
  BY CopyFree DEF TypeOK, Wrap, Goto
<1>4. Len(m) < Size
  BY <1>1, UsedAvail
<1>5. ASSUME NEW i \in 1..Len(m) PROVE buf'[Behind(wr, i - 1)] = m[i]
  <2>1. CASE wr + i <= Size
    <3>1. /\ Behind(wr, i - 1) = wr + i - 1 /\ wr + i - 1 \in Offset
          /\ ~((wr + i - 1) + Size < wr + Len(m))
      BY <1>1, <1>4, <2>1 DEF Behind, Offset
    <3>2. buf[wr + i - 1] = m[i]
      BY <1>2, <2>1 DEF WriterInv
    <3> QED
      BY <1>2, <3>1, <3>2 DEF CopiedRest
  <2>2. CASE wr + i > Size
    <3>1. /\ Behind(wr, i - 1) = wr + i - 1 - Size /\ wr + i - 1 - Size \in Offset
          /\ (wr + i - 1 - Size) + Size < wr + Len(m)
          /\ (wr + i - 1 - Size) + Size - wr + 1 = i
      BY <1>1, <1>4, <2>2 DEF Behind, Offset
    <3> QED
      BY <1>2, <3>1 DEF CopiedRest
  <2> QED
    BY <1>1, <2>1, <2>2 DEF Offset
<1>6. WriterInv'
  BY <1>1, <1>2, <1>5 DEF WriterInv, OneWriter, Behind
<1>7. UpProbeInv'
  BY CopyProbe
<1> QED
  BY <1>3, <1>6, <1>7

\* Moving WrOff makes the message the end of what is unread.
LEMMA AdvanceUsed ==
  ASSUME UpInv, NEW w \in Writer, Advance(w)
  PROVE  /\ Len(msg[w]) \in Nat /\ wr' \in Offset
         /\ wr' = Behind(wr, Len(msg[w]))
         /\ Used' = Used + Len(msg[w])
         /\ UNCHANGED << buf, rd, msg, seen, probe, got >>
<1> USE DEF UpInv
<1>1. /\ msg[w] \in Message /\ Len(msg[w]) \in Nat /\ seen[w] = wr
      /\ Len(msg[w]) <= Avail(rd, wr) /\ wr \in Offset /\ rd \in Offset
  BY UpMessageType DEF TypeOK, WriterInv, Advance, Goto
<1>2. wr' = Behind(wr, Len(msg[w]))
  BY <1>1 DEF Advance, Behind, Offset
<1>3. Behind(wr, Len(msg[w])) \in Offset
  BY <1>1 DEF Behind, Offset, Avail
<1> DEFINE n == Len(msg[w])
<1>4. rd' = rd /\ n \in Nat /\ n <= Avail(rd, wr) /\ wr' = Behind(wr, n)
  BY <1>1, <1>2 DEF Advance
<1> HIDE DEF n
<1>5. Used' = Used + n
  <2>1. CASE rd <= wr
    BY <1>1, <1>4, <2>1 DEF Behind, Offset, Avail, Used
  <2>2. CASE ~(rd <= wr)
    BY <1>1, <1>4, <2>2 DEF Behind, Offset, Avail, Used
  <2> QED
    BY <2>1, <2>2
<1> QED
  BY <1>1, <1>2, <1>3, <1>5 DEF Advance, n

\* The writer is done.
LEMMA UpAdvanceInv ==
  ASSUME OneWriter, UpInv, NEW w \in Writer, Advance(w)
  PROVE  UpInv'
<1> USE DEF UpInv
<1>1. TypeOK'
  BY AdvanceUsed DEF TypeOK, Advance, Goto
<1>2. at'[w] = "out"
  BY DEF TypeOK, Advance, Goto
<1>3. WriterInv'
  BY <1>2 DEF WriterInv, OneWriter
<1>4. Used \in Nat /\ Used' \in Nat /\ Used <= Used'
  BY <1>1, AdvanceUsed, UsedAvail DEF TypeOK
<1>5. UpProbeInv'
  BY <1>4, AdvanceUsed DEF UpProbeInv, Behind
<1> QED
  BY <1>1, <1>3, <1>5

\* What is unread is a sequence of bytes.
LEMMA UnreadType ==
  ASSUME TypeOK
  PROVE  /\ Used \in 0..Size-1
         /\ Unread \in Seq(Byte) /\ Len(Unread) = Used
         /\ \A i \in 1..Used : Unread[i] = buf[Behind(rd, i - 1)]
<1>1. Used \in 0..Size-1
  BY UsedAvail DEF TypeOK
<1>2. ASSUME NEW i \in 1..Used PROVE buf[Behind(rd, i - 1)] \in Byte
  BY <1>1, <1>2, UpBehindOffset DEF TypeOK
<1> QED
  BY <1>1, <1>2 DEF Unread

\* The probe copies.
LEMMA ProbeCopyInv ==
  ASSUME UpInv, NEW n \in 1..Used, ProbeCopy(n)
  PROVE  UpInv'
<1> USE DEF UpInv
<1>1. TypeOK'
  BY DEF TypeOK, ProbeCopy
<1>2. WriterInv'
  BY DEF WriterInv, ProbeCopy, Behind
<1>3. probe' \in Seq(Byte) /\ Len(probe') = n
  BY UnreadType DEF ProbeCopy
<1>4. \A i \in 1..n : probe'[i] = buf[Behind(rd, i - 1)]
  BY UnreadType DEF ProbeCopy
<1>5. UpProbeInv'
  BY <1>3, <1>4 DEF UpProbeInv, ProbeCopy, Used, Behind
<1> QED
  BY <1>1, <1>2, <1>5

\* Moving RdOff over n unread bytes leaves the others, and more room.
LEMMA BehindUsed ==
  ASSUME rd \in Offset, wr \in Offset, NEW n \in 0..Used,
         rd' = Behind(rd, n), wr' = wr
  PROVE  /\ rd' \in Offset /\ Used' = Used - n
         /\ Avail(rd', wr) = Avail(rd, wr) + n
         /\ \A i \in 0..Used - n : Behind(rd', i) = Behind(rd, n + i)
BY DEF Offset, Used, Behind, Avail

\* The probe moves RdOff; a writer finds no less room than it has computed.
LEMMA ProbeAdvanceInv ==
  ASSUME UpInv, ProbeAdvance
  PROVE  UpInv'
<1> USE DEF UpInv
<1>1. /\ rd \in Offset /\ wr \in Offset /\ Len(probe) \in 0..Used
      /\ rd' = Behind(rd, Len(probe)) /\ wr' = wr
  BY UsedAvail DEF TypeOK, UpProbeInv, ProbeAdvance
<1>2. /\ rd' \in Offset /\ Avail(rd', wr) = Avail(rd, wr) + Len(probe)
      /\ Avail(rd, wr) \in Int
  BY <1>1, BehindUsed, UsedAvail
<1>3. TypeOK'
  BY <1>2 DEF TypeOK, ProbeAdvance
<1>4. ASSUME NEW w \in Writer
      PROVE  /\ Avail(seen[w], wr) \in Int /\ Len(msg[w]) \in Nat
             /\ Avail(rd, wr) <= Avail(rd', wr)
  BY <1>1, <1>2, UpMessageType DEF TypeOK, Avail, Offset
<1>5. WriterInv'
  BY <1>2, <1>4 DEF WriterInv, ProbeAdvance, Behind
<1>6. UpProbeInv'
  BY DEF UpProbeInv, ProbeAdvance
<1> QED
  BY <1>3, <1>5, <1>6

\* Every step keeps the invariant.
LEMMA UpInvNext ==
  OneWriter => (UpInv /\ [Next]_vars => UpInv')
<1> SUFFICES ASSUME OneWriter, UpInv, [Next]_vars PROVE UpInv'
  OBVIOUS
<1>1. ASSUME NEW w \in Writer, WriterStep(w) PROVE UpInv'
  BY <1>1, SpaceInv, WriteNoCheckInv, CopyInv, WrapInv, UpAdvanceInv DEF WriterStep
<1>2. ASSUME NEW n \in 1..Used, ProbeCopy(n) PROVE UpInv'
  BY <1>2, ProbeCopyInv
<1>3. CASE ProbeAdvance
  BY <1>3, ProbeAdvanceInv
<1>4. CASE UNCHANGED vars
  BY <1>4 DEF vars, UpInv, TypeOK, WriterInv, UpProbeInv, Used, Behind
<1> QED
  BY <1>1, <1>2, <1>3, <1>4 DEF Next

-----------------------------------------------------------------------------
(* The theorems. *)

\* With one writer the offsets stay inside the buffer.
THEOREM UpTypeCorrect ==
  ASSUME OneWriter PROVE Spec => []TypeOK
<1>1. OneWriter
  OBVIOUS
<1>2. UpInv /\ [Next]_vars => UpInv'
  BY <1>1, UpInvNext
<1>3. UpInv => TypeOK
  BY DEF UpInv
<1> QED
  BY <1>2, <1>3, UpInvInit, PTL DEF Spec

\* With one writer _WriteNoCheck never overwrites what the probe has not read.
THEOREM NothingUnreadOverwritten ==
  ASSUME OneWriter PROVE Spec => UnreadKept
<1>1. OneWriter
  OBVIOUS
<1>2. UpInv /\ [Next]_vars => UpInv'
  BY <1>1, UpInvNext
<1> DEFINE Kept == \A o \in Offset : IsUnread(o) => buf'[o] = buf[o]
<1>3. UpInv /\ [Next]_vars => [Kept]_vars
  <2> SUFFICES ASSUME UpInv, [Next]_vars PROVE Kept
    OBVIOUS
  <2>1. ASSUME NEW w \in Writer, WriterStep(w) PROVE Kept
    <3>1. CASE Copy(w) \/ Wrap(w)
      BY <3>1, CopyFree
    <3>2. CASE ~(Copy(w) \/ Wrap(w))
      BY <2>1, <3>2 DEF WriterStep, Write, Skip, Fits, WriteNoCheck, Advance
    <3> QED
      BY <3>1, <3>2
  <2> QED
    BY <2>1 DEF Next, ProbeCopy, ProbeAdvance, vars
<1> QED
  BY <1>2, <1>3, UpInvInit, PTL DEF Spec, UnreadKept

-----------------------------------------------------------------------------
(* The refinement. *)

\* What is unread after a step, byte by byte.
LEMMA UnreadNext ==
  ASSUME TypeOK', NEW s \in Seq(Byte), Len(s) = Used',
         \A i \in 1..Len(s) : s[i] = buf'[Behind(rd', i - 1)]
  PROVE  Unread' = s
<1>1. Unread' = [i \in 1..Used' |-> buf'[Behind(rd', i - 1)]]
  BY DEF Unread, Behind
<1>2. s = [i \in 1..Len(s) |-> s[i]]
  OBVIOUS
<1> QED
  BY <1>1, <1>2

\* A step of the writer before the last changes nothing that is unread.
LEMMA WriterStutters ==
  ASSUME UpInv, UpInv', NEW w \in Writer, WriterStep(w), ~Advance(w)
  PROVE  UNCHANGED << Unread, got >>
<1> USE DEF UpInv
<1>1. UNCHANGED << rd, wr, got >> /\ UNCHANGED Used
  BY DEF WriterStep, Write, Skip, Fits, WriteNoCheck, Copy, Wrap, Used
<1>2. rd \in Offset /\ wr \in Offset
  BY DEF TypeOK
<1>3. ASSUME NEW i \in 1..Used PROVE buf'[Behind(rd, i - 1)] = buf[Behind(rd, i - 1)]
  <2>1. i - 1 \in 0..Used-1 /\ i - 1 \in 0..Size-1
    BY <1>2, UsedAvail
  <2>2. Behind(rd, i - 1) \in Offset /\ IsUnread(Behind(rd, i - 1))
    BY <1>2, <2>1, UpBehindOffset, UnreadOffset
  <2>3. CASE Copy(w) \/ Wrap(w)
    BY <2>2, <2>3, CopyFree
  <2>4. CASE ~(Copy(w) \/ Wrap(w))
    BY <2>4 DEF WriterStep, Write, Skip, Fits, WriteNoCheck
  <2> QED
    BY <2>3, <2>4
<1>4. /\ Unread \in Seq(Byte) /\ Len(Unread) = Used
      /\ \A i \in 1..Used : Unread[i] = buf[Behind(rd, i - 1)]
  BY UnreadType
<1>5. \A i \in 1..Len(Unread) : Unread[i] = buf'[Behind(rd', i - 1)]
  BY <1>1, <1>3, <1>4
<1>6. Unread' = Unread
  BY <1>1, <1>4, <1>5, UnreadNext
<1> QED
  BY <1>1, <1>6

\* Moving WrOff puts the message.
LEMMA AdvancePuts ==
  ASSUME UpInv, UpInv', NEW w \in Writer, Advance(w)
  PROVE  Stream!Put(msg[w])
<1> USE DEF UpInv
<1> DEFINE m == msg[w]
           u == Unread
<1>1. /\ rd \in Offset /\ wr \in Offset
      /\ m \in Message /\ m \in Seq(Byte) /\ Len(m) \in Nat
      /\ Len(m) <= Avail(rd, wr)
      /\ \A i \in 1..Len(m) : buf[Behind(wr, i - 1)] = m[i]
  BY UpMessageType DEF TypeOK, WriterInv, Advance, Goto
<1>2. /\ u \in Seq(Byte) /\ Len(u) = Used /\ Used \in 0..Size-1
      /\ \A i \in 1..Used : u[i] = buf[Behind(rd, i - 1)]
  BY UnreadType
<1>3. Used + Len(m) <= Size - 1
  BY <1>1, <1>2, UsedAvail
<1>4. /\ Used' = Used + Len(m)
      /\ UNCHANGED << buf, rd, got >>
  BY AdvanceUsed
<1> HIDE DEF m, u
<1>5. /\ u \o m \in Seq(Byte) /\ Len(u \o m) = Used + Len(m)
      /\ \A i \in 1..Len(u \o m) :
           (u \o m)[i] = IF i <= Used THEN u[i] ELSE m[i - Used]
  <2>1. u \in Seq(Byte) /\ m \in Seq(Byte) /\ Len(u) = Used
    BY <1>1, <1>2
  <2>2. u \o m \in Seq(Byte)
    BY <2>1
  <2>3. Len(u \o m) = Len(u) + Len(m)
    BY <2>1
  <2>4. \A i \in 1..Len(u \o m) :
          (u \o m)[i] = IF i <= Len(u) THEN u[i] ELSE m[i - Len(u)]
    BY <2>1, <2>3
  <2> QED
    BY <2>1, <2>2, <2>3, <2>4
<1>6. ASSUME NEW i \in 1..Len(u \o m)
      PROVE  (u \o m)[i] = buf'[Behind(rd', i - 1)]
  <2>1. CASE i <= Used
    <3>1. i \in 1..Used
      BY <1>1, <1>2, <1>5, <2>1
    <3> QED
      BY <1>2, <1>4, <1>5, <2>1, <3>1
  <2>2. CASE i > Used
    <3>1. /\ i - Used \in 1..Len(m)
          /\ Behind(wr, (i - Used) - 1) = Behind(rd, i - 1)
      <4>1. i - Used \in 1..Len(m) /\ i \in 1..Size-1
        BY <1>1, <1>2, <1>3, <1>5, <2>2
      <4>2. rd \in 0..Size-1 /\ wr \in 0..Size-1
        BY <1>1 DEF Offset
      <4> QED
        BY <2>2, <4>1, <4>2 DEF Behind, Used
    <3>2. (u \o m)[i] = m[i - Used]
      BY <1>1, <1>2, <1>5, <2>2
    <3> QED
      BY <1>1, <1>4, <3>1, <3>2
  <2> QED
    BY <1>1, <1>2, <1>5, <2>1, <2>2
<1>7. Unread' = u \o m
  BY <1>4, <1>5, <1>6, UnreadNext
<1> QED
  BY <1>2, <1>3, <1>4, <1>7 DEF Stream!Put, m, u

\* Moving RdOff gets what the probe has copied.
LEMMA ProbeGets ==
  ASSUME UpInv, UpInv', ProbeAdvance
  PROVE  \E n \in 1..Size-1 : Stream!Get(n)
<1> USE DEF UpInv
<1> DEFINE n == Len(probe)
           u == Unread
<1>1. /\ rd \in Offset /\ wr \in Offset /\ probe \in Seq(Byte)
      /\ n \in 1..Used
      /\ \A i \in 1..n : probe[i] = buf[Behind(rd, i - 1)]
  BY DEF TypeOK, UpProbeInv, ProbeAdvance
<1>2. /\ u \in Seq(Byte) /\ Len(u) = Used /\ Used \in 0..Size-1
      /\ \A i \in 1..Used : u[i] = buf[Behind(rd, i - 1)]
  BY UnreadType
<1>3. /\ rd' = Behind(rd, n) /\ wr' = wr /\ buf' = buf /\ got' = probe
  BY DEF ProbeAdvance
<1>4. n \in 0..Used
  BY <1>1, <1>2
<1>5. /\ Used' = Used - n
      /\ \A i \in 0..Used - n : Behind(rd', i) = Behind(rd, n + i)
  BY <1>1, <1>3, <1>4, BehindUsed
<1> HIDE DEF n, u
<1>6. /\ SubSeq(u, 1, n) \in Seq(Byte) /\ Len(SubSeq(u, 1, n)) = n
      /\ \A i \in 1..n : SubSeq(u, 1, n)[i] = u[i]
  BY <1>1, <1>2
<1>7. probe = SubSeq(u, 1, n)
  <2>1. Len(probe) = n /\ \A i \in 1..n : probe[i] = SubSeq(u, 1, n)[i]
    BY <1>1, <1>2, <1>6 DEF n
  <2>2. probe = [i \in 1..n |-> probe[i]]
    BY <1>1, <2>1
  <2>3. SubSeq(u, 1, n) = [i \in 1..n |-> SubSeq(u, 1, n)[i]]
    BY <1>6
  <2> QED
    BY <2>1, <2>2, <2>3
<1>8. /\ SubSeq(u, n + 1, Used) \in Seq(Byte)
      /\ Len(SubSeq(u, n + 1, Used)) = Used - n
      /\ \A i \in 1..Used - n : SubSeq(u, n + 1, Used)[i] = u[n + i]
  BY <1>1, <1>2
<1>9. ASSUME NEW i \in 1..Used - n
      PROVE  SubSeq(u, n + 1, Used)[i] = buf'[Behind(rd', i - 1)]
  <2>1. n + i \in 1..Used /\ i - 1 \in 0..Used - n /\ (n + i) - 1 = n + (i - 1)
    BY <1>1, <1>2
  <2> QED
    BY <1>2, <1>3, <1>5, <1>8, <2>1
<1>10. Unread' = SubSeq(u, n + 1, Used)
  BY <1>5, <1>8, <1>9, UnreadNext
<1>11. n \in 1..Size-1 /\ n <= Len(u)
  BY <1>1, <1>2
<1>12. Stream!Get(n)
  BY <1>2, <1>3, <1>7, <1>10, <1>11 DEF Stream!Get, u
<1> QED
  BY <1>11, <1>12

\* With one writer the up buffer, read at any moment, is the stream: whole
\* messages in order, each byte once.
THEOREM UpImplementsStream ==
  ASSUME OneWriter PROVE Spec => WholeOrNothing
<1>1. OneWriter
  OBVIOUS
<1>2. UpInv /\ [Next]_vars => UpInv'
  BY <1>1, UpInvNext
<1>3. Init => Stream!StreamInit
  <2> SUFFICES ASSUME Init PROVE Stream!StreamInit
    OBVIOUS
  <2>1. Unread \in Seq(Byte) /\ Len(Unread) = Used
    BY UpInvInit, UnreadType DEF UpInv
  <2>2. Used = 0
    BY DEF Init, Used
  <2>3. Unread = << >>
    BY <2>1, <2>2
  <2> QED
    BY <2>3 DEF Init, Stream!StreamInit
<1>4. UpInv /\ UpInv' /\ [Next]_vars => [Stream!StreamNext]_(Stream!streamVars)
  <2> SUFFICES ASSUME UpInv, UpInv', [Next]_vars
               PROVE  Stream!StreamNext \/ UNCHANGED << Unread, got >>
    BY DEF Stream!streamVars
  <2>1. ASSUME NEW w \in Writer, Advance(w) PROVE Stream!StreamNext
    <3>1. msg[w] \in Message
      BY DEF UpInv, TypeOK
    <3> QED
      BY <2>1, <3>1, AdvancePuts DEF Stream!StreamNext
  <2>2. ASSUME NEW w \in Writer, WriterStep(w), ~Advance(w)
        PROVE  UNCHANGED << Unread, got >>
    BY <2>2, WriterStutters
  <2>3. ASSUME NEW n \in 1..Used, ProbeCopy(n)
        PROVE  UNCHANGED << Unread, got >>
    BY <2>3 DEF ProbeCopy, Unread, Used, Behind
  <2>4. CASE ProbeAdvance
    BY <2>4, ProbeGets DEF Stream!StreamNext
  <2>5. CASE UNCHANGED vars
    BY <2>5 DEF vars, Unread, Used, Behind
  <2> QED
    BY <2>1, <2>2, <2>3, <2>4, <2>5 DEF Next
<1> QED
  BY <1>2, <1>3, <1>4, UpInvInit, PTL DEF Spec, WholeOrNothing, Stream!StreamSpec

-----------------------------------------------------------------------------
(* RttDown: from the probe to the program. *)

HIDE RttAssumption DEF RttAssumption
USE DEF DownAssumption

\* How many bytes there were to read when the program looked.
Dist(r, w) == IF r <= w THEN w - r ELSE Size - r + w

\* What the program has copied are the first of the bytes it has seen, and where
\* it goes on is right behind them.
ReaderInv ==
  /\ data \in Seq(Byte)
  /\ step = "look" => off = readAt /\ data = << >>
  /\ step = "first" => off = readAt /\ data = << >> /\ off > looked
  /\ step \in {"first", "rest", "end"} =>
       /\ Dist(readAt, looked) <= Held /\ Len(data) <= Dist(readAt, looked)
       /\ off = Behind(readAt, Len(data))
       /\ \A i \in 1..Len(data) : data[i] = ring[Behind(readAt, i - 1)]
  /\ step = "rest" =>
       IF off <= looked THEN Len(data) + looked - off = Dist(readAt, looked) ELSE room = 0

\* What the probe has copied fits, and lies where it belongs.
DownProbeInv ==
  typed # << >> =>
    /\ typed \in Typing
    /\ Held + Len(typed) < Size
    /\ \A i \in 1..Len(typed) : ring[Behind(writeAt, i - 1)] = typed[i]

DownInv == DownTypeOK /\ ReaderInv /\ DownProbeInv

-----------------------------------------------------------------------------
(* Offsets. *)

\* A message has bytes.
LEMMA DownMessageType ==
  ASSUME DownAssumption, NEW m \in Typing
  PROVE  m \in Seq(Byte) /\ Len(m) \in Nat /\ Len(m) >= 1
<1>1. m \in Seq(Byte) /\ m # << >>
  OBVIOUS
<1> QED
  BY <1>1

\* The offset i behind o, and what is used, stay inside the buffer.
LEMMA DownBehindOffset ==
  ASSUME DownAssumption, NEW o \in Offset, NEW i \in 0..Size-1
  PROVE  Behind(o, i) \in Offset
BY DEF Offset, Behind

LEMMA HeldType ==
  ASSUME DownAssumption, readAt \in Offset, writeAt \in Offset
  PROVE  Held \in 0..Size-1
BY DEF Offset, Held

\* Offsets at different distances are different.
LEMMA DownBehindInjective ==
  ASSUME DownAssumption, NEW o \in Offset, NEW i \in 0..Size-1, NEW j \in 0..Size-1,
         Behind(o, i) = Behind(o, j)
  PROVE  i = j
BY DEF Offset, Behind

\* The free offsets are those at least Used behind RdOff.
LEMMA FreeBehind ==
  ASSUME DownAssumption, readAt \in Offset, writeAt \in Offset, NEW i \in 0..Size-1-Held
  PROVE  Behind(writeAt, i) = Behind(readAt, Held + i)
BY DEF Offset, Held, Behind

\* The offset n behind RdOff, when at least n bytes are unread.
LEMMA HeldBehind ==
  ASSUME DownAssumption, readAt \in Offset, writeAt \in Offset, NEW n \in 0..Held,
         readAt' = Behind(readAt, n), writeAt' = writeAt
  PROVE  /\ readAt' \in Offset /\ Held' = Held - n
         /\ \A i \in 0..Held - n : Behind(readAt', i) = Behind(readAt, n + i)
<1>1. Held \in 0..Size-1
  BY HeldType
<1>2. CASE readAt + n < Size
  <2>1. readAt' = readAt + n
    BY <1>2 DEF Behind
  <2> QED
    BY <1>1, <1>2, <2>1 DEF Held, Behind, Offset
<1>3. CASE ~(readAt + n < Size)
  <2>1. readAt' = readAt + n - Size
    BY <1>3 DEF Behind
  <2>2. readAt > writeAt
    BY <1>1, <1>3 DEF Held, Offset
  <2> QED
    BY <1>1, <1>3, <2>1, <2>2 DEF Held, Behind, Offset
<1> QED
  BY <1>2, <1>3

\* What is unread, byte by byte.
LEMMA WaitingType ==
  ASSUME DownAssumption, DownTypeOK
  PROVE  /\ Waiting \in Seq(Byte) /\ Len(Waiting) = Held /\ Held \in 0..Size-1
         /\ \A i \in 1..Held : Waiting[i] = ring[Behind(readAt, i - 1)]
<1>1. Held \in 0..Size-1
  BY HeldType DEF DownTypeOK
<1>2. \A i \in 1..Held : ring[Behind(readAt, i - 1)] \in Byte
  BY <1>1, DownBehindOffset DEF DownTypeOK
<1> QED
  BY <1>1, <1>2 DEF Waiting

\* What is unread after a step.
LEMMA WaitingNext ==
  ASSUME DownTypeOK', NEW s \in Seq(Byte), Len(s) = Held',
         \A i \in 1..Len(s) : s[i] = ring'[Behind(readAt', i - 1)]
  PROVE  Waiting' = s
<1>1. Waiting' = [i \in 1..Held' |-> ring'[Behind(readAt', i - 1)]]
  BY DEF Waiting, Behind
<1>2. s = [i \in 1..Len(s) |-> s[i]]
  OBVIOUS
<1> QED
  BY <1>1, <1>2

-----------------------------------------------------------------------------
(* The program. *)

\* The empty buffer.
LEMMA DownInvInit ==
  ASSUME DownAssumption, DownInit
  PROVE  DownInv
<1>1. DownTypeOK
  BY DEF DownInit, DownTypeOK, Offset
<1>2. ReaderInv
  BY DEF DownInit, ReaderInv
<1>3. DownProbeInv
  BY DEF DownInit, DownProbeInv
<1> QED
  BY <1>1, <1>2, <1>3 DEF DownInv

\* A step of the program that moves neither RdOff nor a byte.
LEMMA DownProbeKept ==
  ASSUME DownProbeInv, UNCHANGED << ring, readAt, writeAt, typed >>
  PROVE  DownProbeInv' /\ UNCHANGED << Held, Waiting >>
BY DEF DownProbeInv, Held, Waiting, Behind

LEMMA ReadInv ==
  ASSUME DownAssumption, DownInv, NEW n \in Requests, Read(n)
  PROVE  DownInv'
<1> USE DEF DownInv, Read, DownGoto
<1>1. DownTypeOK'
  BY DEF DownTypeOK
<1>2. ReaderInv'
  BY DEF ReaderInv
<1>3. DownProbeInv'
  BY DownProbeKept
<1> QED
  BY <1>1, <1>2, <1>3

LEMMA LookInv ==
  ASSUME DownAssumption, DownInv, Look
  PROVE  DownInv'
<1> USE DEF DownInv, Look, DownGoto
<1>1. DownTypeOK'
  BY DEF DownTypeOK
<1>2. Held' = Held /\ Dist(readAt', looked') = Held /\ Held \in Nat
  BY HeldType DEF DownTypeOK, Dist, Held
<1>3. off = readAt /\ data = << >> /\ Len(data) = 0 /\ Behind(readAt, 0) = readAt
  BY DEF ReaderInv, DownTypeOK, Behind, Offset
<1>4. ReaderInv'
  BY <1>2, <1>3 DEF ReaderInv, DownTypeOK, Offset, Dist, Behind
<1>5. DownProbeInv'
  BY DownProbeKept
<1> QED
  BY <1>1, <1>4, <1>5

\* n bytes more are copied, of those that the program has seen.
LEMMA CopyOutInv ==
  ASSUME DownAssumption, DownInv, NEW n \in Nat, NEW behind \in Offset, CopyOut(n, behind),
         step \in {"first", "rest"}, step' \in {"rest", "end"},
         n <= room, off + n <= Size, Len(data) + n <= Dist(readAt, looked),
         behind = Behind(readAt, Len(data) + n),
         step' = "rest" =>
           IF behind <= looked THEN Len(data) + n + looked - behind = Dist(readAt, looked) ELSE room = n
  PROVE  DownInv'
<1> USE DEF DownInv, CopyOut
<1>1. /\ readAt \in Offset /\ writeAt \in Offset /\ off \in Offset /\ looked \in Offset /\ room \in Nat
      /\ data \in Seq(Byte) /\ Len(data) \in Nat
  BY DEF DownTypeOK, ReaderInv
<1>2. DownTypeOK'
  BY DEF DownTypeOK
<1> DEFINE b == Bytes(off, n)
<1>3. /\ b \in Seq(Byte) /\ Len(b) = n
      /\ \A i \in 1..n : b[i] = ring[off + i - 1]
  <2>1. \A i \in 1..n : off + i - 1 \in Offset
    BY <1>1 DEF Offset
  <2> QED
    BY <2>1 DEF Bytes, DownTypeOK
<1> HIDE DEF b
<1>4. /\ data \o b \in Seq(Byte) /\ Len(data \o b) = Len(data) + n
      /\ \A i \in 1..Len(data) + n :
           (data \o b)[i] = IF i <= Len(data) THEN data[i] ELSE b[i - Len(data)]
  BY ONLY <1>1, <1>3, ConcatProperties
<1>5. Held \in 0..Size-1 /\ Dist(readAt, looked) <= Held /\ off = Behind(readAt, Len(data))
  BY <1>1, HeldType DEF ReaderInv
<1>6. Dist(readAt, looked) \in Nat
  BY <1>1 DEF Dist, Offset
<1>7. ASSUME NEW i \in 1..Len(data) + n
      PROVE  (data \o b)[i] = ring[Behind(readAt, i - 1)]
  <2> i \in Int /\ (i <= Len(data) \/ i > Len(data))
    BY <1>1
  <2>1. CASE i <= Len(data)
    BY <1>1, <1>4, <2>1 DEF ReaderInv
  <2>2. CASE i > Len(data)
    <3>1. i - Len(data) \in 1..n
      BY <1>1, <2>2
    <3>2. off + (i - Len(data)) - 1 = Behind(readAt, i - 1)
      BY <1>1, <1>5, <1>6, <3>1 DEF Behind, Offset
    <3> QED
      BY <1>3, <1>4, <2>2, <3>1, <3>2
  <2> QED
    BY <2>1, <2>2
<1>8. data' = data \o b /\ Len(data') = Len(data) + n /\ off' = behind /\ room' = room - n
  BY <1>4 DEF b
<1>9. ReaderInv'
  <2>1. /\ Held' = Held /\ Dist(readAt', looked') = Dist(readAt, looked)
        /\ \A i \in 1..Len(data') : data'[i] = ring'[Behind(readAt', i - 1)]
    BY <1>7, <1>8 DEF Held, Dist, Behind
  <2>2. off' = Behind(readAt', Len(data'))
    BY <1>8 DEF Behind
  <2>3. step' = "rest" => IF off' <= looked' THEN Len(data') + looked' - off' = Dist(readAt', looked')
                                         ELSE room' = 0
    BY <1>1, <1>8, <2>1
  <2> QED
    BY <1>4, <1>5, <1>8, <2>1, <2>2, <2>3 DEF ReaderInv
<1>10. DownProbeInv'
  BY DownProbeKept
<1> QED
  BY <1>2, <1>9, <1>10

LEMMA FirstInv ==
  ASSUME DownAssumption, DownInv, First
  PROVE  DownInv'
<1> DEFINE n == IF room < Size - off THEN room ELSE Size - off
           behind == IF off + n = Size THEN 0 ELSE off + n
<1>1. /\ step = "first" /\ step' = "rest" /\ CopyOut(n, behind)
  BY DEF First, DownGoto
<1>2. /\ readAt \in Offset /\ writeAt \in Offset /\ off \in Offset /\ looked \in Offset /\ room \in Nat
      /\ off = readAt /\ data = << >> /\ Len(data) = 0 /\ off > looked
  BY <1>1 DEF DownInv, DownTypeOK, ReaderInv
<1>3. n \in Nat /\ behind \in Offset /\ n <= room /\ off + n <= Size
  BY <1>2 DEF Offset
<1>4. Dist(readAt, looked) = Size - readAt + looked
  BY <1>2 DEF Dist, Offset
<1>5. Len(data) + n <= Dist(readAt, looked) /\ behind = Behind(readAt, Len(data) + n)
  BY <1>2, <1>3, <1>4 DEF Behind, Offset
<1>6. IF behind <= looked THEN Len(data) + n + looked - behind = Dist(readAt, looked) ELSE room = n
  BY <1>2, <1>3, <1>4 DEF Offset
<1> HIDE DEF n, behind
<1> QED
  BY <1>1, <1>3, <1>5, <1>6, CopyOutInv

LEMMA RestInv ==
  ASSUME DownAssumption, DownInv, Rest
  PROVE  DownInv'
<1> DEFINE n == IF off <= looked /\ looked - off < room THEN looked - off ELSE room
<1>1. /\ step = "rest" /\ step' = "end" /\ CopyOut(n, off + n)
  BY DEF Rest, DownGoto
<1>2. /\ readAt \in Offset /\ writeAt \in Offset /\ off \in Offset /\ looked \in Offset /\ room \in Nat
      /\ Len(data) \in Nat /\ Len(data) <= Dist(readAt, looked) /\ off = Behind(readAt, Len(data))
      /\ IF off <= looked THEN Len(data) + looked - off = Dist(readAt, looked) ELSE room = 0
  BY <1>1 DEF DownInv, DownTypeOK, ReaderInv
<1>3. Dist(readAt, looked) \in Nat
  BY <1>2 DEF Dist, Offset
<1>4. CASE off <= looked
  <2>1. n \in Nat /\ n <= room /\ n <= looked - off
    BY <1>2, <1>4 DEF Offset
  <2>2. Len(data) + (looked - off) = Dist(readAt, looked)
    BY <1>2, <1>4 DEF Offset
  <2> HIDE DEF n
  <2>3. off + n \in Offset /\ off + n <= Size /\ Len(data) + n <= Dist(readAt, looked)
    BY <1>2, <1>3, <2>1, <2>2 DEF Offset
  <2>4. off + n = Behind(readAt, Len(data) + n)
    BY <1>2, <2>1, <2>3 DEF Behind, Offset
  <2> QED
    BY <1>1, <2>1, <2>3, <2>4, CopyOutInv
<1>5. CASE ~(off <= looked)
  <2>1. n = 0 /\ off + n = off /\ Len(data) + n = Len(data) /\ n <= room /\ off <= Size
    BY <1>2, <1>5 DEF Offset
  <2> HIDE DEF n
  <2> QED
    BY <1>1, <1>2, <2>1, CopyOutInv
<1> QED
  BY <1>4, <1>5

\* Moving RdOff over what was copied leaves the other unread bytes.
LEMMA AdvanceHeld ==
  ASSUME DownAssumption, DownInv, AdvanceRead
  PROVE  /\ data \in Seq(Byte) /\ Len(data) \in 0..Held /\ Held \in 0..Size-1
         /\ readAt' \in Offset /\ readAt' = Behind(readAt, Len(data))
         /\ Held' = Held - Len(data)
         /\ \A i \in 0..Held - Len(data) : Behind(readAt', i) = Behind(readAt, Len(data) + i)
         /\ \A i \in 1..Len(data) : data[i] = ring[Behind(readAt, i - 1)]
<1>1. /\ readAt \in Offset /\ writeAt \in Offset /\ off \in Offset
      /\ data \in Seq(Byte) /\ Len(data) \in Nat
      /\ Dist(readAt, looked) <= Held /\ Len(data) <= Dist(readAt, looked)
      /\ off = Behind(readAt, Len(data))
      /\ \A i \in 1..Len(data) : data[i] = ring[Behind(readAt, i - 1)]
  BY DEF DownInv, DownTypeOK, ReaderInv, AdvanceRead, DownGoto
<1>2. Dist(readAt, looked) \in Int
  BY DEF DownInv, DownTypeOK, Dist, Offset
<1>3. Held \in 0..Size-1 /\ Len(data) \in 0..Held
  BY <1>1, <1>2, HeldType
<1>4. data = << >> => Len(data) = 0 /\ Behind(readAt, 0) = readAt
  BY <1>1 DEF Behind, Offset
<1>5. readAt' = Behind(readAt, Len(data)) /\ writeAt' = writeAt
  BY <1>1, <1>4 DEF AdvanceRead
<1>6. /\ Held' = Held - Len(data) /\ readAt' \in Offset
      /\ \A i \in 0..Held - Len(data) : Behind(readAt', i) = Behind(readAt, Len(data) + i)
  BY <1>1, <1>3, <1>5, HeldBehind
<1> QED
  BY <1>1, <1>3, <1>5, <1>6

LEMMA DownAdvanceInv ==
  ASSUME DownAssumption, DownInv, AdvanceRead
  PROVE  DownInv'
<1>1. DownTypeOK'
  BY AdvanceHeld DEF DownInv, DownTypeOK, AdvanceRead, DownGoto
<1>2. ReaderInv'
  BY DEF DownInv, ReaderInv, AdvanceRead, DownGoto
<1>3. Held' <= Held /\ Held \in Nat /\ Held' \in Nat
  BY AdvanceHeld
<1>4. typed # << >> => Len(typed) \in Nat
  BY DownMessageType DEF DownInv, DownProbeInv
<1>5. DownProbeInv'
  BY <1>3, <1>4 DEF DownInv, DownProbeInv, AdvanceRead, Behind
<1> QED
  BY <1>1, <1>2, <1>5 DEF DownInv

-----------------------------------------------------------------------------
(* The probe. *)

\* The probe writes its message behind WrOff and nothing that is unread.
LEMMA TypeWrites ==
  ASSUME DownAssumption, DownInv, NEW m \in Typing, TypeCopy(m)
  PROVE  /\ ring' \in [Offset -> Byte]
         /\ \A i \in 1..Len(m) : ring'[Behind(writeAt, i - 1)] = m[i]
         /\ \A i \in 1..Held : ring'[Behind(readAt, i - 1)] = ring[Behind(readAt, i - 1)]
<1>1. /\ readAt \in Offset /\ writeAt \in Offset /\ m \in Seq(Byte) /\ Len(m) \in Nat
      /\ Held \in 0..Size-1 /\ Held + Len(m) < Size
  BY DownMessageType, HeldType DEF DownInv, DownTypeOK, TypeCopy
<1> DEFINE Hit(o, i) == o = Behind(writeAt, i - 1)
<1>2. \A o \in Offset :
        ring'[o] = IF \E i \in 1..Len(m) : Hit(o, i)
                  THEN m[CHOOSE i \in 1..Len(m) : Hit(o, i)] ELSE ring[o]
  BY DEF TypeCopy
<1>3. ASSUME NEW i \in 1..Len(m), NEW j \in 1..Len(m), Behind(writeAt, i - 1) = Behind(writeAt, j - 1)
      PROVE  i = j
  <2>1. i - 1 \in 0..Size-1 /\ j - 1 \in 0..Size-1
    BY <1>1
  <2>2. i - 1 = j - 1
    BY <1>1, <1>3, <2>1, DownBehindInjective
  <2> QED
    BY <2>2
<1>4. ASSUME NEW i \in 1..Len(m) PROVE ring'[Behind(writeAt, i - 1)] = m[i]
  <2>1. Behind(writeAt, i - 1) \in Offset
    BY <1>1, DownBehindOffset
  <2>2. Hit(Behind(writeAt, i - 1), i)
    OBVIOUS
  <2>3. (CHOOSE j \in 1..Len(m) : Hit(Behind(writeAt, i - 1), j)) = i
    BY <1>3, <2>2
  <2> QED
    BY <1>2, <2>1, <2>2, <2>3
<1>5. ASSUME NEW i \in 1..Held PROVE ring'[Behind(readAt, i - 1)] = ring[Behind(readAt, i - 1)]
  <2>1. Behind(readAt, i - 1) \in Offset
    BY <1>1, DownBehindOffset
  <2>2. ASSUME NEW j \in 1..Len(m) PROVE ~Hit(Behind(readAt, i - 1), j)
    <3>1. /\ j - 1 \in 0..Size-1-Held
          /\ i - 1 \in 0..Size-1 /\ Held + (j - 1) \in 0..Size-1
          /\ i - 1 # Held + (j - 1)
      BY <1>1
    <3>2. Behind(writeAt, j - 1) = Behind(readAt, Held + (j - 1))
      BY <1>1, <3>1, FreeBehind
    <3> QED
      BY <1>1, <3>1, <3>2, DownBehindInjective
  <2> QED
    BY <1>2, <2>1, <2>2
<1>6. ring' \in [Offset -> Byte]
  <2>1. ASSUME NEW o \in Offset PROVE ring'[o] \in Byte
    <3>1. CASE \E i \in 1..Len(m) : Hit(o, i)
      <4>1. PICK i \in 1..Len(m) : Hit(o, i)
        BY <3>1
      <4> QED
        BY <1>1, <1>4, <4>1
    <3>2. CASE ~\E i \in 1..Len(m) : Hit(o, i)
      BY <1>2, <3>2 DEF DownInv, DownTypeOK
    <3> QED
      BY <3>1, <3>2
  <2> QED
    BY <2>1 DEF TypeCopy
<1> QED
  BY <1>4, <1>5, <1>6

LEMMA TypeCopyInv ==
  ASSUME DownAssumption, DownInv, NEW m \in Typing, TypeCopy(m)
  PROVE  DownInv'
<1>1. UNCHANGED << readAt, writeAt, step, off, looked, room, data, taken >> /\ Held' = Held
  BY DEF TypeCopy, Held
<1>2. DownTypeOK'
  BY <1>1, TypeWrites DEF DownInv, DownTypeOK
<1>3. ASSUME step \in {"first", "rest", "end"}, NEW i \in 1..Len(data)
      PROVE  data[i] = ring'[Behind(readAt, i - 1)]
  <2>1. /\ data \in Seq(Byte) /\ Len(data) <= Dist(readAt, looked) /\ Dist(readAt, looked) <= Held
        /\ Dist(readAt, looked) \in Int
    BY <1>3 DEF DownInv, DownTypeOK, ReaderInv, Dist, Offset
  <2>2. Held \in 0..Size-1
    BY HeldType DEF DownInv, DownTypeOK
  <2>3. i \in 1..Held
    BY <2>1, <2>2
  <2> QED
    BY <1>3, <2>3, TypeWrites DEF DownInv, ReaderInv
<1>4. ReaderInv'
  BY <1>1, <1>3 DEF DownInv, ReaderInv, Dist, Behind
<1>5. typed' = m /\ Held' + Len(m) < Size
  BY <1>1 DEF TypeCopy
<1>6. \A i \in 1..Len(m) : ring'[Behind(writeAt', i - 1)] = m[i]
  BY <1>1, TypeWrites DEF Behind
<1>7. DownProbeInv'
  BY <1>5, <1>6 DEF DownProbeInv, Behind
<1> QED
  BY <1>2, <1>4, <1>7 DEF DownInv

\* Moving WrOff makes the message the end of what is unread.
LEMMA TypeAdvanceHeld ==
  ASSUME DownAssumption, DownInv, TypeAdvance
  PROVE  /\ typed \in Typing /\ typed \in Seq(Byte) /\ Len(typed) \in Nat
         /\ Held \in 0..Size-1 /\ Held + Len(typed) < Size
         /\ Held' = Held + Len(typed) /\ writeAt' \in Offset
<1>1. /\ typed \in Typing /\ typed \in Seq(Byte) /\ Len(typed) \in Nat
      /\ readAt \in Offset /\ writeAt \in Offset /\ Held \in 0..Size-1 /\ Held + Len(typed) < Size
      /\ writeAt' = Behind(writeAt, Len(typed)) /\ readAt' = readAt
  BY DownMessageType, HeldType DEF DownInv, DownTypeOK, DownProbeInv, TypeAdvance
<1>2. Held' = Held + Len(typed) /\ writeAt' \in Offset
  BY <1>1 DEF Held, Behind, Offset
<1> QED
  BY <1>1, <1>2

LEMMA TypeAdvanceInv ==
  ASSUME DownAssumption, DownInv, TypeAdvance
  PROVE  DownInv'
<1>1. DownTypeOK'
  BY TypeAdvanceHeld DEF DownInv, DownTypeOK, TypeAdvance
<1>2. Held \in Nat /\ Held' \in Nat /\ Held <= Held' /\ Dist(readAt, looked) \in Int
  BY TypeAdvanceHeld DEF DownInv, DownTypeOK, Dist, Offset
<1>3. ReaderInv'
  BY <1>2 DEF DownInv, ReaderInv, TypeAdvance, Dist, Behind
<1>4. DownProbeInv'
  BY DEF DownProbeInv, TypeAdvance
<1> QED
  BY <1>1, <1>3, <1>4 DEF DownInv

\* Every step keeps the invariant.
LEMMA DownInvNext ==
  ASSUME DownAssumption, DownInv, [DownNext]_downVars
  PROVE  DownInv'
<1>1. ASSUME NEW n \in Requests, Read(n) PROVE DownInv'
  BY <1>1, ReadInv
<1>2. CASE Look \/ First \/ Rest \/ AdvanceRead
  BY <1>2, LookInv, FirstInv, RestInv, DownAdvanceInv
<1>3. ASSUME NEW m \in Typing, TypeCopy(m) PROVE DownInv'
  BY <1>3, TypeCopyInv
<1>4. CASE TypeAdvance
  BY <1>4, TypeAdvanceInv
<1>5. CASE UNCHANGED downVars
  BY <1>5 DEF downVars, DownInv, DownTypeOK, ReaderInv, DownProbeInv, Held, Dist, Behind
<1> QED
  BY <1>1, <1>2, <1>3, <1>4, <1>5 DEF DownNext

-----------------------------------------------------------------------------
(* The stream. *)

\* A step of the program before it moves RdOff leaves the stream as it is.
LEMMA ReaderStutters ==
  ASSUME Look \/ First \/ Rest \/ \E n \in Requests : Read(n)
  PROVE  UNCHANGED << Waiting, taken >>
<1>1. UNCHANGED << ring, readAt, writeAt, taken >>
  BY DEF Look, First, Rest, Read, CopyOut
<1> QED
  BY <1>1 DEF Waiting, Held, Behind

\* So do the bytes that the probe copies behind WrOff.
LEMMA TypeCopyStutters ==
  ASSUME DownAssumption, DownInv, DownInv', NEW m \in Typing, TypeCopy(m)
  PROVE  UNCHANGED << Waiting, taken >>
<1>1. DownTypeOK /\ DownTypeOK'
  BY DEF DownInv
<1>2. /\ Waiting \in Seq(Byte) /\ Len(Waiting) = Held
      /\ \A i \in 1..Held : Waiting[i] = ring[Behind(readAt, i - 1)]
  BY <1>1, WaitingType
<1>3. Held' = Held /\ readAt' = readAt /\ taken' = taken
  BY DEF TypeCopy, Held
<1>4. \A i \in 1..Len(Waiting) : Waiting[i] = ring'[Behind(readAt', i - 1)]
  BY <1>2, <1>3, TypeWrites
<1>5. Waiting' = Waiting
  BY <1>1, <1>2, <1>3, <1>4, WaitingNext
<1> QED
  BY <1>3, <1>5

\* Moving RdOff gets what the program has copied.
LEMMA AdvanceGets ==
  ASSUME DownAssumption, DownInv, DownInv', AdvanceRead, data # << >>
  PROVE  \E n \in 1..Size-1 : DownStream!Get(n)
<1> DEFINE n == Len(data)
           u == Waiting
<1>1. DownTypeOK /\ DownTypeOK'
  BY DEF DownInv
<1>2. /\ u \in Seq(Byte) /\ Len(u) = Held /\ Held \in 0..Size-1
      /\ \A i \in 1..Held : u[i] = ring[Behind(readAt, i - 1)]
  BY <1>1, WaitingType
<1>3. /\ data \in Seq(Byte) /\ n \in 0..Held /\ Held' = Held - n
      /\ \A i \in 0..Held - n : Behind(readAt', i) = Behind(readAt, n + i)
      /\ \A i \in 1..n : data[i] = ring[Behind(readAt, i - 1)]
  BY AdvanceHeld
<1>4. n \in 1..Held
  BY <1>2, <1>3
<1>5. ring' = ring /\ taken' = data
  BY DEF AdvanceRead
<1> HIDE DEF n, u
<1>6. /\ SubSeq(u, 1, n) \in Seq(Byte) /\ Len(SubSeq(u, 1, n)) = n
      /\ \A i \in 1..n : SubSeq(u, 1, n)[i] = u[i]
  BY <1>2, <1>4
<1>7. data = SubSeq(u, 1, n)
  <2>1. Len(data) = n /\ \A i \in 1..n : data[i] = SubSeq(u, 1, n)[i]
    BY <1>2, <1>3, <1>4, <1>6 DEF n
  <2>2. data = [i \in 1..n |-> data[i]]
    BY <1>3, <2>1
  <2>3. SubSeq(u, 1, n) = [i \in 1..n |-> SubSeq(u, 1, n)[i]]
    BY <1>6
  <2> QED
    BY <2>1, <2>2, <2>3
<1>8. /\ SubSeq(u, n + 1, Held) \in Seq(Byte)
      /\ Len(SubSeq(u, n + 1, Held)) = Held - n
      /\ \A i \in 1..Held - n : SubSeq(u, n + 1, Held)[i] = u[n + i]
  BY <1>2, <1>4
<1>9. ASSUME NEW i \in 1..Held - n
      PROVE  SubSeq(u, n + 1, Held)[i] = ring'[Behind(readAt', i - 1)]
  <2>1. n + i \in 1..Held /\ i - 1 \in 0..Held - n /\ (n + i) - 1 = n + (i - 1)
    BY <1>2, <1>4
  <2> QED
    BY <1>2, <1>3, <1>5, <1>8, <2>1
<1>10. Waiting' = SubSeq(u, n + 1, Held)
  BY <1>1, <1>3, <1>8, <1>9, WaitingNext
<1>11. n \in 1..Size-1 /\ n <= Len(u)
  BY <1>2, <1>4
<1>12. DownStream!Get(n)
  BY <1>2, <1>5, <1>7, <1>10, <1>11 DEF DownStream!Get, u
<1> QED
  BY <1>11, <1>12

\* Moving WrOff puts the message.
LEMMA TypeAdvancePuts ==
  ASSUME DownAssumption, DownInv, DownInv', TypeAdvance
  PROVE  typed \in Typing /\ DownStream!Put(typed)
<1> DEFINE u == Waiting
<1>1. DownTypeOK /\ DownTypeOK' /\ readAt \in Offset /\ writeAt \in Offset
  BY DEF DownInv, DownTypeOK
<1>2. /\ u \in Seq(Byte) /\ Len(u) = Held /\ Held \in 0..Size-1
      /\ \A i \in 1..Held : u[i] = ring[Behind(readAt, i - 1)]
  BY <1>1, WaitingType
<1>3. /\ typed \in Typing /\ typed \in Seq(Byte) /\ Len(typed) \in Nat
      /\ Held + Len(typed) < Size /\ Held' = Held + Len(typed)
  BY TypeAdvanceHeld
<1>4. /\ UNCHANGED << ring, readAt, taken >>
      /\ \A i \in 1..Len(typed) : ring[Behind(writeAt, i - 1)] = typed[i]
  BY DEF DownInv, DownProbeInv, TypeAdvance
<1> HIDE DEF u
<1>5. /\ u \o typed \in Seq(Byte) /\ Len(u \o typed) = Held + Len(typed)
      /\ \A i \in 1..Held + Len(typed) :
           (u \o typed)[i] = IF i <= Held THEN u[i] ELSE typed[i - Held]
  BY ONLY <1>2, <1>3, ConcatProperties
<1>6. ASSUME NEW i \in 1..Held + Len(typed)
      PROVE  (u \o typed)[i] = ring'[Behind(readAt', i - 1)]
  <2> i \in Int /\ (i <= Held \/ i > Held)
    BY <1>2, <1>3
  <2>1. CASE i <= Held
    BY <1>2, <1>4, <1>5, <2>1 DEF Behind
  <2>2. CASE i > Held
    <3>1. i - Held \in 1..Len(typed) /\ (i - Held) - 1 \in 0..Size-1-Held
          /\ Held + ((i - Held) - 1) = i - 1
      BY <1>2, <1>3, <2>2
    <3>2. Behind(writeAt, (i - Held) - 1) = Behind(readAt, i - 1)
      BY <1>1, <3>1, FreeBehind
    <3>3. (u \o typed)[i] = typed[i - Held]
      BY <1>2, <1>5, <2>2
    <3> QED
      BY <1>4, <3>1, <3>2, <3>3 DEF Behind
  <2> QED
    BY <2>1, <2>2
<1>7. Waiting' = u \o typed
  BY <1>1, <1>3, <1>5, <1>6, WaitingNext
<1>8. Len(u) + Len(typed) <= Size - 1
  BY <1>2, <1>3
<1> QED
  BY <1>3, <1>4, <1>7, <1>8 DEF DownStream!Put, u

-----------------------------------------------------------------------------
(* The theorems. *)

\* The offsets stay inside the buffer, however program and probe interleave.
THEOREM DownTypeCorrect ==
  ASSUME DownAssumption PROVE DownSpec => []DownTypeOK
<1>1. DownAssumption
  OBVIOUS
<1>2. DownInit => DownInv
  BY <1>1, DownInvInit
<1>3. DownInv /\ [DownNext]_downVars => DownInv'
  BY <1>1, DownInvNext
<1>4. DownInv => DownTypeOK
  BY DEF DownInv
<1> QED
  BY <1>2, <1>3, <1>4, PTL DEF DownSpec

\* The down buffer, read at any moment, is the stream: the program reads what the
\* probe has written, in order, each byte once (SEGGER_RTT_ReadNoLock).
THEOREM DownImplementsStream ==
  ASSUME DownAssumption PROVE DownSpec => InOrder
<1>1. DownAssumption
  OBVIOUS
<1>2. DownInit => DownInv
  BY <1>1, DownInvInit
<1>3. DownInv /\ [DownNext]_downVars => DownInv'
  BY <1>1, DownInvNext
<1>4. DownInit => DownStream!StreamInit
  <2> SUFFICES ASSUME DownInit PROVE DownStream!StreamInit
    OBVIOUS
  <2>1. Waiting \in Seq(Byte) /\ Len(Waiting) = Held
    BY <1>1, DownInvInit, WaitingType DEF DownInv
  <2>2. Held = 0
    BY DEF DownInit, Held
  <2>3. Waiting = << >>
    BY <2>1, <2>2
  <2> QED
    BY <2>3 DEF DownInit, DownStream!StreamInit
<1>5. DownInv /\ DownInv' /\ [DownNext]_downVars => [DownStream!StreamNext]_(DownStream!streamVars)
  <2> SUFFICES ASSUME DownInv, DownInv', [DownNext]_downVars
               PROVE  DownStream!StreamNext \/ UNCHANGED << Waiting, taken >>
    BY DEF DownStream!streamVars
  <2>1. CASE Look \/ First \/ Rest \/ \E n \in Requests : Read(n)
    BY <2>1, ReaderStutters
  <2>2. CASE AdvanceRead /\ data # << >>
    BY <1>1, <2>2, AdvanceGets DEF DownStream!StreamNext
  <2>3. CASE AdvanceRead /\ data = << >>
    BY <2>3 DEF AdvanceRead, Waiting, Held, Behind
  <2>4. ASSUME NEW m \in Typing, TypeCopy(m)
        PROVE  UNCHANGED << Waiting, taken >>
    BY <1>1, <2>4, TypeCopyStutters
  <2>5. CASE TypeAdvance
    BY <1>1, <2>5, TypeAdvancePuts DEF DownStream!StreamNext
  <2>6. CASE UNCHANGED downVars
    BY <2>6 DEF downVars, Waiting, Held, Behind
  <2> QED
    BY <2>1, <2>2, <2>3, <2>4, <2>5, <2>6 DEF DownNext
<1> QED
  BY <1>2, <1>3, <1>4, <1>5, PTL DEF DownSpec, InOrder, DownStream!StreamSpec
=============================================================================

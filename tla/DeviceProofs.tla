----------------------------- MODULE DeviceProofs -----------------------------
(***************************************************************************)
(* Proofs about the SPI driver, the serial flash over it and the heap,     *)
(* which share nothing in their models.                                    *)
(*                                                                         *)
(* DrvSpi, for messages of any length and any number of transfers: a       *)
(* transfer that returns the length of its message has moved it, and its   *)
(* buffers are released, however the timeout of the wait meets the         *)
(* interrupt and the post-processing of the semaphore.                     *)
(*                                                                         *)
(* Sfud, for every flash, every number of threads and every bound: the     *)
(* flash changes only where it was asked to, whatever messages fail and    *)
(* however late the chip finishes, and as long as nothing fails it holds   *)
(* what it was asked to hold.                                              *)
(*                                                                         *)
(* RtHeap, for every heap and every number of threads: the chain of items  *)
(* is whole whenever nobody works on it, and no item that fits is missed.  *)
(***************************************************************************)
EXTENDS DrvSpi, Sfud, RtHeap, FiniteSetTheorems, WellFoundedInduction, TLAPS

(***************************************************************************)
(* The SPI driver                                                          *)
(***************************************************************************)

SetUp == {"start", "wait", "waiting", "spin", "off"}
NotStarted == {"idle", "drain", "setup", "start"}

SpiTypes ==
  /\ pc \in {"idle", "drain", "setup"} \cup SetUp
  /\ message \in [number: 0..MaxXfers, kind: {"send", "recv"}, length: 0..MaxLength]
  /\ sem \in [tokens: 0..1, waiting: BOOLEAN, posted: BOOLEAN]
  /\ tx \in [on: BOOLEAN, left: 0..MaxLength, int: BOOLEAN]
  /\ rx \in [on: BOOLEAN, left: 0..MaxLength]
  /\ flag \in BOOLEAN /\ pending \in BOOLEAN
  /\ spi \in [on: BOOLEAN, full: BOOLEAN, shifting: BOOLEAN, in: 0..MaxXfers]
  /\ clocked \in 0..MaxLength /\ received \in Seq(1..MaxXfers) /\ length \in 0..MaxLength

\* Between two transfers nothing moves and nothing is about to interrupt; the
\* token that an earlier transfer left is gone before the next one is set up.
AtRest ==
  /\ pc \in NotStarted =>
       /\ ~tx.on /\ ~rx.on /\ ~pending /\ ~sem.posted
       /\ ~spi.on /\ ~spi.full /\ ~spi.shifting
  /\ pc = "idle" => ~tx.int
  /\ pc \in {"setup", "start"} => sem.tokens = 0
  /\ sem.waiting => pc = "waiting"

\* The bytes that the DMA has handed to the SPI.
Moved == clocked + (IF spi.full THEN 1 ELSE 0) + (IF spi.shifting THEN 1 ELSE 0)

\* No byte gets lost on its way; what counts as the end of the transfer, be it
\* the flag, the token or the end of the wait, comes with its last byte.
Counted ==
  /\ pc # "idle" => message.number >= 1
  /\ pc \in SetUp =>
       /\ Moved + tx.left = message.length
       /\ flag \/ sem.tokens = 1 => tx.left = 0
  /\ pc = "waiting" /\ ~sem.waiting => tx.left = 0
  /\ pc = "spin" => tx.left = 0
  /\ pc \notin {"idle", "off"} => length = 0
  /\ pc = "off" /\ length > 0 => tx.left = 0 /\ ~spi.full /\ ~spi.shifting

\* Every byte clocked in so far was stored, and came with this transfer.
Received ==
  pc \in SetUp /\ message.kind = "recv" =>
    /\ spi.in = None /\ rx.left = message.length - clocked
    /\ pc # "start" => rx.on
    /\ received = [i \in 1..clocked |-> message.number]

SpiInv == SpiTypes /\ AtRest /\ Counted /\ Received

USE DEF None, SetUp, NotStarted

-----------------------------------------------------------------------------
(* The invariant. *)

LEMMA InvInit ==
  ASSUME SpiAssumption, SpiInit
  PROVE  SpiInv
<1>1. SpiTypes
  <2>1. << >> \in Seq(1..MaxXfers) /\ 0 \in 0..MaxLength /\ 0 \in 0..MaxXfers
    BY DEF SpiAssumption
  <2>2. /\ message \in [number: 0..MaxXfers, kind: {"send", "recv"}, length: 0..MaxLength]
        /\ sem \in [tokens: 0..1, waiting: BOOLEAN, posted: BOOLEAN]
    BY <2>1 DEF SpiInit
  <2>3. /\ tx \in [on: BOOLEAN, left: 0..MaxLength, int: BOOLEAN]
        /\ rx \in [on: BOOLEAN, left: 0..MaxLength]
    BY <2>1 DEF SpiInit
  <2>4. spi \in [on: BOOLEAN, full: BOOLEAN, shifting: BOOLEAN, in: 0..MaxXfers]
    BY <2>1 DEF SpiInit
  <2> QED
    BY <2>1, <2>2, <2>3, <2>4 DEF SpiInit, SpiTypes
<1>2. AtRest /\ Counted /\ Received
  BY DEF SpiInit, AtRest, Counted, Received
<1> QED
  BY <1>1, <1>2 DEF SpiInv

LEMMA CallStep ==
  ASSUME SpiAssumption, SpiInv, NEW kind \in {"send", "recv"}, NEW n \in 0..MaxLength, Call(kind, n)
  PROVE  SpiInv'
<1> USE DEF SpiInv, Call, SpiOff, Step, SpiAssumption
<1>1. SpiTypes'
  <2>1. pc' \in {"idle", "drain", "setup"} \cup SetUp
    BY DEF SpiTypes
  <2>2. message' \in [number: 0..MaxXfers, kind: {"send", "recv"}, length: 0..MaxLength]
    BY DEF SpiTypes
  <2>3. sem' \in [tokens: 0..1, waiting: BOOLEAN, posted: BOOLEAN]
    BY DEF SpiTypes
  <2>4. tx' \in [on: BOOLEAN, left: 0..MaxLength, int: BOOLEAN]
    BY DEF SpiTypes
  <2>5. rx' \in [on: BOOLEAN, left: 0..MaxLength]
    BY DEF SpiTypes
  <2>6. flag' \in BOOLEAN /\ pending' \in BOOLEAN
    BY DEF SpiTypes
  <2>7. spi' \in [on: BOOLEAN, full: BOOLEAN, shifting: BOOLEAN, in: 0..MaxXfers]
    BY DEF SpiTypes
  <2>8. clocked' \in 0..MaxLength /\ length' \in 0..MaxLength
    BY DEF SpiTypes
  <2>9. received' \in Seq(1..MaxXfers)
    BY DEF SpiTypes
  <2> QED
    BY <2>1, <2>2, <2>3, <2>4, <2>5, <2>6, <2>7, <2>8, <2>9 DEF SpiTypes
<1>2. AtRest'
  BY DEF SpiTypes, AtRest
<1>3. Counted'
  BY <1>1 DEF SpiTypes, AtRest, Counted, Moved
<1>4. Received'
  BY <1>1 DEF SpiTypes, AtRest, Counted, Received, Moved
<1> QED
  BY <1>1, <1>2, <1>3, <1>4

LEMMA DrainStep ==
  ASSUME SpiAssumption, SpiInv, Drain
  PROVE  SpiInv'
<1> USE DEF SpiInv, Drain, hardware, Step, SpiAssumption
<1>1. SpiTypes'
  BY DEF SpiTypes
<1>2. AtRest'
  BY DEF SpiTypes, AtRest
<1>3. Counted'
  BY <1>1 DEF SpiTypes, AtRest, Counted, Moved
<1>4. Received'
  BY <1>1 DEF SpiTypes, AtRest, Counted, Received, Moved
<1> QED
  BY <1>1, <1>2, <1>3, <1>4

LEMMA SetupStep ==
  ASSUME SpiAssumption, SpiInv, Setup
  PROVE  SpiInv'
<1> USE DEF SpiInv, Setup, Step, SpiAssumption
<1>1. SpiTypes'
  <2>1. pc' \in {"idle", "drain", "setup"} \cup SetUp
    BY DEF SpiTypes
  <2>2. message' \in [number: 0..MaxXfers, kind: {"send", "recv"}, length: 0..MaxLength]
    BY DEF SpiTypes
  <2>3. sem' \in [tokens: 0..1, waiting: BOOLEAN, posted: BOOLEAN]
    BY DEF SpiTypes
  <2>4. tx' \in [on: BOOLEAN, left: 0..MaxLength, int: BOOLEAN]
    BY DEF SpiTypes
  <2>5. rx' \in [on: BOOLEAN, left: 0..MaxLength]
    BY DEF SpiTypes
  <2>6. flag' \in BOOLEAN /\ pending' \in BOOLEAN
    BY DEF SpiTypes
  <2>7. spi' \in [on: BOOLEAN, full: BOOLEAN, shifting: BOOLEAN, in: 0..MaxXfers]
    <3>1. CASE message.kind = "recv"
      BY <3>1 DEF SpiTypes
    <3>2. CASE message.kind # "recv"
      BY <3>2 DEF SpiTypes
    <3> QED
      BY <3>1, <3>2
  <2>8. clocked' \in 0..MaxLength /\ length' \in 0..MaxLength
    BY DEF SpiTypes
  <2>9. received' \in Seq(1..MaxXfers)
    BY DEF SpiTypes
  <2> QED
    BY <2>1, <2>2, <2>3, <2>4, <2>5, <2>6, <2>7, <2>8, <2>9 DEF SpiTypes
<1>2. AtRest'
  BY DEF SpiTypes, AtRest
<1>3. Counted'
  BY <1>1 DEF SpiTypes, AtRest, Counted, Moved
<1>4. Received'
  BY <1>1 DEF SpiTypes, AtRest, Counted, Received, Moved
<1> QED
  BY <1>1, <1>2, <1>3, <1>4

LEMMA StartStep ==
  ASSUME SpiAssumption, SpiInv, Start
  PROVE  SpiInv'
<1> USE DEF SpiInv, Start, Step, SpiAssumption
<1>1. SpiTypes'
  BY DEF SpiTypes
<1>2. AtRest'
  BY DEF SpiTypes, AtRest
<1>3. Counted'
  BY <1>1 DEF SpiTypes, AtRest, Counted, Moved
<1>4. Received'
  BY <1>1 DEF SpiTypes, AtRest, Counted, Received, Moved
<1> QED
  BY <1>1, <1>2, <1>3, <1>4

LEMMA WaitStep ==
  ASSUME SpiAssumption, SpiInv, Wait
  PROVE  SpiInv'
<1> USE DEF SpiInv, Wait, hardware, Step, SpiAssumption
<1>1. SpiTypes'
  <2>1. pc' \in {"idle", "drain", "setup"} \cup SetUp
    BY DEF SpiTypes
  <2>2. message' \in [number: 0..MaxXfers, kind: {"send", "recv"}, length: 0..MaxLength]
    BY DEF SpiTypes
  <2>3. sem' \in [tokens: 0..1, waiting: BOOLEAN, posted: BOOLEAN]
    <3>1. CASE sem.tokens > 0
      BY <3>1 DEF SpiTypes
    <3>2. CASE ~(sem.tokens > 0)
      BY <3>2 DEF SpiTypes
    <3> QED
      BY <3>1, <3>2
  <2>4. tx' \in [on: BOOLEAN, left: 0..MaxLength, int: BOOLEAN]
    BY DEF SpiTypes
  <2>5. rx' \in [on: BOOLEAN, left: 0..MaxLength]
    BY DEF SpiTypes
  <2>6. flag' \in BOOLEAN /\ pending' \in BOOLEAN
    BY DEF SpiTypes
  <2>7. spi' \in [on: BOOLEAN, full: BOOLEAN, shifting: BOOLEAN, in: 0..MaxXfers]
    BY DEF SpiTypes
  <2>8. clocked' \in 0..MaxLength /\ length' \in 0..MaxLength
    BY DEF SpiTypes
  <2>9. received' \in Seq(1..MaxXfers)
    BY DEF SpiTypes
  <2> QED
    BY <2>1, <2>2, <2>3, <2>4, <2>5, <2>6, <2>7, <2>8, <2>9 DEF SpiTypes
<1>2. AtRest'
  BY DEF SpiTypes, AtRest
<1>3. Counted'
  BY <1>1 DEF SpiTypes, AtRest, Counted, Moved
<1>4. Received'
  BY <1>1 DEF SpiTypes, AtRest, Counted, Received, Moved
<1> QED
  BY <1>1, <1>2, <1>3, <1>4

LEMMA WaitTimeoutStep ==
  ASSUME SpiAssumption, SpiInv, WaitTimeout
  PROVE  SpiInv'
<1> USE DEF SpiInv, WaitTimeout, hardware, Step, SpiAssumption
<1>1. SpiTypes'
  BY DEF SpiTypes
<1>2. AtRest'
  BY DEF SpiTypes, AtRest
<1>3. Counted'
  BY <1>1 DEF SpiTypes, AtRest, Counted, Moved
<1>4. Received'
  BY <1>1 DEF SpiTypes, AtRest, Counted, Received, Moved
<1> QED
  BY <1>1, <1>2, <1>3, <1>4

LEMMA WaitDoneStep ==
  ASSUME SpiAssumption, SpiInv, WaitDone
  PROVE  SpiInv'
<1> USE DEF SpiInv, WaitDone, hardware, Step, SpiAssumption
<1>1. SpiTypes'
  BY DEF SpiTypes
<1>2. AtRest'
  BY DEF SpiTypes, AtRest
<1>3. Counted'
  BY <1>1 DEF SpiTypes, AtRest, Counted, Moved
<1>4. Received'
  BY <1>1 DEF SpiTypes, AtRest, Counted, Received, Moved
<1> QED
  BY <1>1, <1>2, <1>3, <1>4

LEMMA SpinStep ==
  ASSUME SpiAssumption, SpiInv, Spin
  PROVE  SpiInv'
<1> USE DEF SpiInv, Spin, hardware, Step, SpiAssumption
<1>1. SpiTypes'
  BY DEF SpiTypes
<1>2. AtRest'
  BY DEF SpiTypes, AtRest
<1>3. Counted'
  BY <1>1 DEF SpiTypes, AtRest, Counted, Moved
<1>4. Received'
  BY <1>1 DEF SpiTypes, AtRest, Counted, Received, Moved
<1> QED
  BY <1>1, <1>2, <1>3, <1>4

LEMMA OffStep ==
  ASSUME SpiAssumption, SpiInv, Off
  PROVE  SpiInv'
<1> USE DEF SpiInv, Off, SpiOff, Step, SpiAssumption
<1>1. SpiTypes'
  BY DEF SpiTypes
<1>2. AtRest'
  BY DEF SpiTypes, AtRest
<1>3. Counted'
  BY <1>1 DEF SpiTypes, AtRest, Counted, Moved
<1>4. Received'
  BY <1>1 DEF SpiTypes, AtRest, Counted, Received, Moved
<1> QED
  BY <1>1, <1>2, <1>3, <1>4

LEMMA TxDmaStep ==
  ASSUME SpiAssumption, SpiInv, TxDma
  PROVE  SpiInv'
<1> USE DEF SpiInv, TxDma, Step, SpiAssumption
<1>1. SpiTypes'
  <2>1. pc' \in {"idle", "drain", "setup"} \cup SetUp
    BY DEF SpiTypes
  <2>2. message' \in [number: 0..MaxXfers, kind: {"send", "recv"}, length: 0..MaxLength]
    BY DEF SpiTypes
  <2>3. sem' \in [tokens: 0..1, waiting: BOOLEAN, posted: BOOLEAN]
    BY DEF SpiTypes
  <2>4. tx' \in [on: BOOLEAN, left: 0..MaxLength, int: BOOLEAN]
    <3>1. tx.left - 1 \in 0..MaxLength
      BY DEF SpiTypes
    <3>2. tx' = [tx EXCEPT !.left = tx.left - 1]
      BY DEF SpiTypes
    <3> QED
      BY <3>1, <3>2 DEF SpiTypes
  <2>5. rx' \in [on: BOOLEAN, left: 0..MaxLength]
    BY DEF SpiTypes
  <2>6. flag' \in BOOLEAN /\ pending' \in BOOLEAN
    BY DEF SpiTypes
  <2>7. spi' \in [on: BOOLEAN, full: BOOLEAN, shifting: BOOLEAN, in: 0..MaxXfers]
    BY DEF SpiTypes
  <2>8. clocked' \in 0..MaxLength /\ length' \in 0..MaxLength
    BY DEF SpiTypes
  <2>9. received' \in Seq(1..MaxXfers)
    BY DEF SpiTypes
  <2> QED
    BY <2>1, <2>2, <2>3, <2>4, <2>5, <2>6, <2>7, <2>8, <2>9 DEF SpiTypes
<1>2. AtRest'
  BY DEF SpiTypes, AtRest
<1>3. Counted'
  <2>1. /\ tx'.left = tx.left - 1 /\ tx.left \in 0..MaxLength /\ tx.left > 0
        /\ spi'.full /\ ~spi.full /\ spi'.shifting = spi.shifting
        /\ UNCHANGED << pc, message, sem, clocked, length >> /\ clocked \in Nat
        /\ pc \in SetUp
    BY DEF SpiTypes, AtRest
  <2>2. Moved' = Moved + 1 /\ Moved \in Nat
    BY <2>1 DEF Moved
  <2>3. Moved' + tx'.left = message'.length
    BY <2>1, <2>2 DEF SpiTypes, Counted
  <2>4. flag => tx.left = 0
    BY <2>1 DEF Counted
  <2>5. flag' => tx'.left = 0
    <3>1. flag' => flag \/ tx.left = 1
      OBVIOUS
    <3> QED
      BY <2>1, <2>4, <3>1
  <2>6. sem.tokens # 1 /\ pc # "spin" /\ (pc = "waiting" => sem.waiting) /\ ~(pc = "off" /\ length > 0)
    BY <2>1 DEF Counted
  <2> QED
    BY <2>1, <2>3, <2>5, <2>6 DEF Counted
<1>4. Received'
  BY <1>1 DEF SpiTypes, AtRest, Counted, Received, Moved
<1> QED
  BY <1>1, <1>2, <1>3, <1>4

LEMMA ShiftStep ==
  ASSUME SpiAssumption, SpiInv, Shift
  PROVE  SpiInv'
<1> USE DEF SpiInv, Shift, Step, SpiAssumption
<1>1. SpiTypes'
  BY ZenonT(40) DEF SpiTypes
<1>2. AtRest'
  BY DEF SpiTypes, AtRest
<1>3. Counted'
  BY <1>1 DEF SpiTypes, AtRest, Counted, Moved
<1>4. Received'
  BY <1>1 DEF SpiTypes, AtRest, Counted, Received, Moved
<1> QED
  BY <1>1, <1>2, <1>3, <1>4

LEMMA ClockStep ==
  ASSUME SpiAssumption, SpiInv, Clock
  PROVE  SpiInv'
<1> USE DEF SpiInv, SpiAssumption
<1> DEFINE in == IF spi.in = None THEN message.number ELSE spi.in
           store == rx.on /\ rx.left > 0
<1>1. /\ spi.on /\ spi.shifting /\ clocked' = clocked + 1 /\ pc \in SetUp
      /\ UNCHANGED << pc, message, sem, tx, flag, pending, length >>
  BY DEF Clock, SpiTypes, AtRest
<1>2. /\ spi' = [spi EXCEPT !.shifting = FALSE, !.in = IF store THEN None ELSE in]
      /\ received' = (IF store THEN Append(received, in) ELSE received)
      /\ rx' = (IF store THEN [rx EXCEPT !.left = @ - 1] ELSE rx)
  BY DEF Clock
<1>3. in \in 1..MaxXfers
  BY <1>1 DEF SpiTypes, Counted
<1>4. clocked + 1 <= message.length /\ message.length \in 0..MaxLength /\ clocked \in Nat
  BY <1>1 DEF SpiTypes, Counted, Moved
<1> HIDE DEF in
<1>5. spi' \in [on: BOOLEAN, full: BOOLEAN, shifting: BOOLEAN, in: 0..MaxXfers]
  <2>1. (IF store THEN None ELSE in) \in 0..MaxXfers
    BY <1>3
  <2> HIDE DEF store
  <2> QED
    BY <1>2, <2>1 DEF SpiTypes
<1>6. spi'.on = spi.on /\ spi'.full = spi.full /\ ~spi'.shifting
  BY <1>2 DEF SpiTypes
<1>7. rx' \in [on: BOOLEAN, left: 0..MaxLength]
  <2>1. CASE store
    <3>1. rx.left - 1 \in 0..MaxLength
      BY <2>1 DEF SpiTypes
    <3>2. rx' = [rx EXCEPT !.left = rx.left - 1]
      BY <1>2, <2>1 DEF SpiTypes
    <3> QED
      BY <3>1, <3>2 DEF SpiTypes
  <2>2. CASE ~store
    BY <1>2, <2>2 DEF SpiTypes
  <2> QED
    BY <2>1, <2>2
<1>8. received' \in Seq(1..MaxXfers)
  <2> HIDE DEF store
  <2>1. CASE store
    <3>1. received' = Append(received, in)
      BY <1>2, <2>1
    <3> QED
      BY <1>3, <3>1 DEF SpiTypes
  <2>2. CASE ~store
    BY <1>2, <2>2 DEF SpiTypes
  <2> QED
    BY <2>1, <2>2
<1>9. SpiTypes'
  <2>1. clocked' \in 0..MaxLength
    BY <1>1, <1>4
  <2> QED
    BY <1>1, <1>5, <1>7, <1>8, <2>1 DEF SpiTypes
<1>10. AtRest'
  BY <1>1 DEF AtRest
<1>11. Counted'
  <2>1. Moved' = Moved
    BY <1>1, <1>4, <1>6 DEF Moved
  <2> QED
    BY <1>1, <1>6, <2>1 DEF Counted
<1>12. Received'
  <2> SUFFICES ASSUME message.kind = "recv" PROVE Received'
    BY <1>1 DEF Received
  <2>1. /\ spi.in = None /\ rx.left = message.length - clocked /\ rx.on
        /\ received = [i \in 1..clocked |-> message.number]
    BY <1>1 DEF Received, AtRest
  <2>2. store
    BY <1>4, <2>1
  <2>3. in = message.number
    BY <2>1 DEF in
  <2>4. spi'.in = None /\ rx'.on /\ rx'.left = rx.left - 1 /\ received' = Append(received, message.number)
    <3> HIDE DEF store
    <3> QED
      BY <1>2, <2>1, <2>2, <2>3 DEF SpiTypes
  <2>5. Append(received, message.number) = [i \in 1..clocked+1 |-> message.number]
    BY <1>4, <2>1
  <2> QED
    BY <1>1, <1>4, <2>1, <2>4, <2>5 DEF Received
<1> QED
  BY <1>9, <1>10, <1>11, <1>12

LEMMA IrqStep ==
  ASSUME SpiAssumption, SpiInv, Irq
  PROVE  SpiInv'
<1> USE DEF SpiInv, Irq, Step, SpiAssumption
<1>1. SpiTypes'
  <2>1. pc' \in {"idle", "drain", "setup"} \cup SetUp
    BY DEF SpiTypes
  <2>2. message' \in [number: 0..MaxXfers, kind: {"send", "recv"}, length: 0..MaxLength]
    BY DEF SpiTypes
  <2>3. sem' \in [tokens: 0..1, waiting: BOOLEAN, posted: BOOLEAN]
    <3>1. CASE flag /\ sem.tokens = 0
      <4>1. sem' = [sem EXCEPT !.tokens = 1, !.posted = TRUE]
        BY <3>1
      <4> QED
        BY <4>1, 1 \in 0..1 DEF SpiTypes
    <3>2. CASE ~(flag /\ sem.tokens = 0)
      BY <3>2 DEF SpiTypes
    <3> QED
      BY <3>1, <3>2
  <2>4. tx' \in [on: BOOLEAN, left: 0..MaxLength, int: BOOLEAN]
    BY DEF SpiTypes
  <2>5. rx' \in [on: BOOLEAN, left: 0..MaxLength]
    BY DEF SpiTypes
  <2>6. flag' \in BOOLEAN /\ pending' \in BOOLEAN
    BY DEF SpiTypes
  <2>7. spi' \in [on: BOOLEAN, full: BOOLEAN, shifting: BOOLEAN, in: 0..MaxXfers]
    BY DEF SpiTypes
  <2>8. clocked' \in 0..MaxLength /\ length' \in 0..MaxLength
    BY DEF SpiTypes
  <2>9. received' \in Seq(1..MaxXfers)
    BY DEF SpiTypes
  <2> QED
    BY <2>1, <2>2, <2>3, <2>4, <2>5, <2>6, <2>7, <2>8, <2>9 DEF SpiTypes
<1>2. AtRest'
  BY DEF SpiTypes, AtRest
<1>3. Counted'
  BY <1>1 DEF SpiTypes, AtRest, Counted, Moved
<1>4. Received'
  BY <1>1 DEF SpiTypes, AtRest, Counted, Received, Moved
<1> QED
  BY <1>1, <1>2, <1>3, <1>4

LEMMA PendSVStep ==
  ASSUME SpiAssumption, SpiInv, PendSV
  PROVE  SpiInv'
<1> USE DEF SpiInv, PendSV, hardware, Step, SpiAssumption
<1>1. SpiTypes'
  <2>1. pc' \in {"idle", "drain", "setup"} \cup SetUp
    BY DEF SpiTypes
  <2>2. message' \in [number: 0..MaxXfers, kind: {"send", "recv"}, length: 0..MaxLength]
    BY DEF SpiTypes
  <2>3. sem' \in [tokens: 0..1, waiting: BOOLEAN, posted: BOOLEAN]
    <3>1. CASE sem.waiting /\ sem.tokens > 0
      BY <3>1 DEF SpiTypes
    <3>2. CASE ~(sem.waiting /\ sem.tokens > 0)
      BY <3>2 DEF SpiTypes
    <3> QED
      BY <3>1, <3>2
  <2>4. tx' \in [on: BOOLEAN, left: 0..MaxLength, int: BOOLEAN]
    BY DEF SpiTypes
  <2>5. rx' \in [on: BOOLEAN, left: 0..MaxLength]
    BY DEF SpiTypes
  <2>6. flag' \in BOOLEAN /\ pending' \in BOOLEAN
    BY DEF SpiTypes
  <2>7. spi' \in [on: BOOLEAN, full: BOOLEAN, shifting: BOOLEAN, in: 0..MaxXfers]
    BY DEF SpiTypes
  <2>8. clocked' \in 0..MaxLength /\ length' \in 0..MaxLength
    BY DEF SpiTypes
  <2>9. received' \in Seq(1..MaxXfers)
    BY DEF SpiTypes
  <2> QED
    BY <2>1, <2>2, <2>3, <2>4, <2>5, <2>6, <2>7, <2>8, <2>9 DEF SpiTypes
<1>2. AtRest'
  BY DEF SpiTypes, AtRest
<1>3. Counted'
  BY <1>1 DEF SpiTypes, AtRest, Counted, Moved
<1>4. Received'
  BY <1>1 DEF SpiTypes, AtRest, Counted, Received, Moved
<1> QED
  BY <1>1, <1>2, <1>3, <1>4

LEMMA InvNext ==
  ASSUME SpiAssumption, SpiInv, [SpiNext]_spiVars
  PROVE  SpiInv'
<1>1. CASE UNCHANGED spiVars
  BY <1>1 DEF spiVars, SpiInv, SpiTypes, AtRest, Counted, Moved, Received
<1> QED
  BY <1>1, CallStep, DrainStep, SetupStep, StartStep, WaitStep, WaitTimeoutStep,
     WaitDoneStep, SpinStep, OffStep, TxDmaStep, ShiftStep, ClockStep, IrqStep, PendSVStep
     DEF SpiNext, Driver, Hardware, Interrupts

-----------------------------------------------------------------------------
(* The theorem. *)

\* A transfer that is done has clocked everything out, and received everything.
LEMMA InvExact ==
  ASSUME SpiAssumption, SpiInv
  PROVE  TransfersRight
<1> USE DEF SpiInv
<1>1. SpiTypeOK
  BY DEF SpiTypeOK, SpiTypes
<1>2. Exact
  <2> SUFFICES ASSUME pc = "off", length = message.length, length > 0
               PROVE  /\ clocked = message.length
                      /\ message.kind = "recv" => received = [i \in 1..message.length |-> message.number]
    BY DEF Exact
  <2>1. clocked = message.length
    BY DEF SpiTypes, Counted, Moved
  <2> QED
    BY <2>1 DEF Received
<1>3. BufferReleased
  BY DEF BufferReleased, AtRest
<1> QED
  BY <1>1, <1>2, <1>3 DEF TransfersRight

\* A transfer that returns the length of its message has moved all its bytes,
\* those received being of this transfer, and once it has returned nothing
\* touches the buffers of its caller (rt_spi_xfer).
THEOREM TransfersAreRight ==
  ASSUME SpiAssumption PROVE SpiSpec => []TransfersRight
<1>1. SpiAssumption
  OBVIOUS
<1>2. SpiInit => SpiInv
  BY <1>1, InvInit
<1>3. SpiInv /\ [SpiNext]_spiVars => SpiInv'
  BY <1>1, InvNext
<1>4. SpiInv => TransfersRight
  BY <1>1, InvExact
<1> QED
  BY <1>2, <1>3, <1>4, PTL DEF SpiSpec

(***************************************************************************)
(* The SPI flash                                                           *)
(***************************************************************************)

Locked == {"enable", "transfer", "busy", "disable"}

Chip == [low: BOOLEAN, in: Seq(Int), wel: BOOLEAN, busy: BOOLEAN,
         cells: [Address -> Bits], todo: [Address -> Bits]]

Calls == [kind: Kinds \cup {"none"}, from: Nat, length: Nat, addr: Nat, size: Nat,
          retry: Nat]

\* A busy chip is one that may be written, and what it was sent without raising
\* chip select is not the begin of an erasure or of a programming.
ChipOK(c) ==
  /\ c \in Chip
  /\ c.busy => c.wel
  /\ c.low /\ c.in # << >> => c.in[1] \notin {PP, SE}

\* An erase or a write goes through its range from its start to its end, the
\* erase from sector to sector.
CallOK(t) ==
  LET c == call[t]
  IN  /\ c \in Calls
      /\ c.kind \in {"erase", "write"} =>
           /\ c.length <= Len(Payload[t])
           /\ c.from <= c.addr /\ c.addr + c.size = c.from + c.length
           /\ place[t] \in {"enable", "transfer", "busy"} => c.size # 0
      /\ c.kind = "erase" => c.addr = c.from \/ c.addr % Sector = 0

\* What the chip is about to change are addresses that the owner of sfud_lock is
\* asked to change, or that a call has failed to change.
PendingOK ==
  chip.busy =>
    \A a \in Address :
      chip.todo[a] # chip.cells[a] =>
        want[a] = Unsure \/ \E t \in Threads : owner = t /\ a \in Covered(call[t])

FlashInv ==
  /\ ChipOK(chip) /\ PendingOK
  /\ owner \in Threads \cup {NoOwner}
  /\ want \in [Address -> Bits \cup {Unsure}]
  /\ place \in [Threads -> {"idle", "lock"} \cup Locked]
  /\ \A t \in Threads : owner = t <=> place[t] \in Locked
  /\ DOMAIN call = Threads /\ \A t \in Threads : CallOK(t)

-----------------------------------------------------------------------------
(* Pages and sectors. *)

\* A remainder.
LEMMA Remainder ==
  ASSUME NEW n \in Nat \ {0}, NEW a \in Nat
  PROVE  a % n \in 0..n-1 /\ UnitAt(a, n) \in Nat /\ UnitAt(a, n) <= a
<1>1. a % n \in 0..n-1
  OBVIOUS
<1>2. a % n <= a
  OBVIOUS
<1> QED
  BY <1>1, <1>2 DEF UnitAt

\* What is programmed from a on without passing the end of its page does not go
\* to the start of the page.
LEMMA WithinPage ==
  ASSUME NEW n \in Nat \ {0}, NEW a \in Nat, NEW x \in Nat, NEW l \in Nat,
         l <= n - (a % n), UnitAt(x, n) = UnitAt(a, n), ((x - a) % n) + 1 <= l
  PROVE  a <= x /\ x < a + l
<1>1. a % n \in 0..n-1 /\ x % n \in 0..n-1
  BY Remainder
<1>2. x - a = (x % n) - (a % n)
  BY <1>1 DEF UnitAt
<1>3. CASE x >= a
  <2>1. x - a \in 0..n-1
    BY <1>1, <1>2, <1>3
  <2>2. (x - a) % n = x - a
    BY <2>1
  <2> QED
    BY <1>3, <2>1, <2>2
<1>4. CASE x < a
  <2>1. x - a \in -n..-1
    BY <1>1, <1>2, <1>4
  <2>2. (x - a) % n = x - a + n
    BY <2>1
  <2> QED
    BY <1>1, <1>2, <1>4, <2>2
<1> QED
  BY <1>3, <1>4

\* The multiple behind a multiple.
LEMMA Multiple ==
  ASSUME NEW n \in Nat \ {0}, NEW q \in Int
  PROVE  (n * q + n) % n = 0
<1>1. n * (q + 1) = n * q + n
  OBVIOUS
<1>2. \A p \in Int : (n * p) % n = 0
  OBVIOUS
<1>3. (n * (q + 1)) % n = 0
  BY <1>2
<1> QED
  BY <1>1, <1>3

\* The unit behind that of a starts where a unit starts.
LEMMA NextStart ==
  ASSUME NEW n \in Nat \ {0}, NEW a \in Nat
  PROVE  (a + (n - (a % n))) % n = 0
<1> DEFINE q == a \div n
<1>1. q \in Int /\ a % n \in Int
  OBVIOUS
<1>2. a = n * q + (a % n)
  OBVIOUS
<1>3. n * q \in Int
  BY <1>1
<1> HIDE DEF q
<1>4. (n * q + n) % n = 0
  BY <1>1, Multiple
<1> DEFINE m == n * q
           r == a % n
<1>5. m \in Int /\ r \in Int /\ a = m + r
  BY <1>1, <1>2, <1>3
<1> HIDE DEF m, r
<1>6. a + (n - r) = m + n
  BY <1>5
<1> QED
  BY <1>4, <1>6 DEF m, r

-----------------------------------------------------------------------------
(* The chip. *)

\* The chip has not been told to change anything.
Quiet(c, d) == d.cells = c.cells /\ d.todo = c.todo /\ d.busy = c.busy

\* What has been sent begins neither an erasure nor a programming.
Harmless(q) == q # << >> => q[1] \notin {PP, SE}

LEMMA AndBits ==
  ASSUME NEW x \in Bits, NEW y \in Bits
  PROVE  And(x, y) \in Bits
BY DEF And, Bits, Erased

\* The falling edge of chip select.
LEMMA SelectOK ==
  ASSUME NEW c, ChipOK(c), NEW d, d = Select(c)
  PROVE  /\ d \in Chip /\ Quiet(c, d) /\ d.wel = c.wel /\ d.low
         /\ Harmless(d.in)
         /\ ~c.low => d.in = << >>
<1>1. << >> \in Seq(Int)
  OBVIOUS
<1> QED
  BY <1>1 DEF ChipOK, Chip, Select, Quiet, Harmless

\* Bytes shifted in.
LEMMA SendOK ==
  ASSUME NEW c \in Chip, NEW s \in Seq(Int), NEW d, d = Send(c, s)
  PROVE  /\ d \in Chip /\ Quiet(c, d) /\ d.wel = c.wel /\ d.low = c.low
         /\ d.in = c.in \o s
         /\ c.in = << >> => d.in = s
         /\ Harmless(c.in) /\ Harmless(s) => Harmless(d.in)
         /\ Harmless(c.in) /\ c.in # << >> => Harmless(d.in)
<1>1. c.in \in Seq(Int) /\ c.in \o s \in Seq(Int)
  BY DEF Chip
<1>2. d = [c EXCEPT !.in = c.in \o s]
  BY DEF Send, Chip
<1>3. /\ c.in = << >> => c.in \o s = s
      /\ c.in # << >> => (c.in \o s)[1] = c.in[1]
  <2>1. << >> \o s = s
    OBVIOUS
  <2>2. ASSUME c.in # << >> PROVE (c.in \o s)[1] = c.in[1]
    <3> DEFINE q == c.in
    <3>1. q \in Seq(Int) /\ q # << >>
      BY <1>1, <2>2
    <3> HIDE DEF q
    <3>2. (q \o s)[1] = q[1]
      BY <3>1
    <3> QED
      BY <3>2 DEF q
  <2> QED
    BY <2>1, <2>2
<1>4. d \in Chip /\ d.in = c.in \o s
  BY <1>1, <1>2 DEF Chip
<1>5. Quiet(c, d) /\ d.wel = c.wel /\ d.low = c.low
  BY <1>1, <1>2 DEF Chip, Quiet
<1> QED
  BY <1>3, <1>4, <1>5 DEF Harmless

\* The rising edge of chip select: if the message is torn or harmless the chip
\* keeps what it holds and what it is doing.
LEMMA DeselectQuiet ==
  ASSUME NEW c \in Chip, c.busy => c.wel, NEW d, d = Deselect(c),
         Harmless(c.in) \/ \E i \in DOMAIN c.in : c.in[i] = Torn
  PROVE  ChipOK(d) /\ Quiet(c, d) /\ ~d.low
<1> DEFINE up == [c EXCEPT !.low = FALSE]
           op == IF c.in = << >> \/ c.busy THEN Torn ELSE c.in[1]
           torn == \E i \in DOMAIN c.in : c.in[i] = Torn
<1>1. up \in Chip /\ Quiet(c, up) /\ ~up.low /\ up.wel = c.wel
  BY DEF Chip, Quiet
<1>2. ~torn => op \notin {PP, SE}
  BY DEF Harmless, Torn, PP, SE
<1>3. \/ d = up
      \/ d = [up EXCEPT !.wel = TRUE]
      \/ op = WRDI /\ d = [up EXCEPT !.wel = FALSE]
  <2> HIDE DEF up
  <2>1. CASE torn
    BY <2>1 DEF Deselect, up
  <2>2. CASE ~torn
    BY <1>2, <2>2 DEF Deselect, up
  <2> QED
    BY <2>1, <2>2
<1>4. op = WRDI => ~c.busy
  BY DEF WRDI, Torn
<1> HIDE DEF up, op
<1>5. CASE d = up
  BY <1>1, <1>5 DEF ChipOK, Quiet
<1>6. CASE d = [up EXCEPT !.wel = TRUE]
  <2>1. d \in Chip /\ d.wel /\ ~d.low
    BY <1>1, <1>6 DEF Chip
  <2>2. Quiet(c, d)
    BY <1>1, <1>6 DEF Chip, Quiet
  <2> QED
    BY <2>1, <2>2 DEF ChipOK
<1>7. CASE op = WRDI /\ d = [up EXCEPT !.wel = FALSE]
  <2>1. d \in Chip /\ ~d.low
    BY <1>1, <1>7 DEF Chip
  <2>2. Quiet(c, d) /\ ~d.busy
    BY <1>1, <1>4, <1>7 DEF Chip, Quiet
  <2> QED
    BY <2>1, <2>2 DEF ChipOK
<1> QED
  BY <1>3, <1>5, <1>6, <1>7

-----------------------------------------------------------------------------
(* Messages. *)

\* What the chip gets of a message that may fail.
Part(s, items) ==
  \E n \in 0..Len(items) :
    \/ s = SubSeq(items, 1, n)
    \/ n # Len(items) /\ s = Append(SubSeq(items, 1, n), Torn)

LEMMA PartIs ==
  ASSUME NEW items \in Seq(Int), items # << >>, NEW s, s = items \/ Part(s, items)
  PROVE  /\ s \in Seq(Int)
         /\ Harmless(items) => Harmless(s)
         /\ \/ \E i \in DOMAIN s : s[i] = Torn
            \/ \E n \in 0..Len(items) : s = SubSeq(items, 1, n)
<1>1. items = SubSeq(items, 1, Len(items)) /\ Len(items) \in Nat /\ Len(items) # 0
  OBVIOUS
<1>2. PICK n \in 0..Len(items) :
        \/ s = SubSeq(items, 1, n)
        \/ n # Len(items) /\ s = Append(SubSeq(items, 1, n), Torn)
  <2>1. CASE s = items
    <3>1. Len(items) \in 0..Len(items)
      BY <1>1
    <3> QED
      BY <1>1, <2>1, <3>1
  <2>2. CASE Part(s, items)
    BY <2>2 DEF Part
  <2> QED
    BY <2>1, <2>2
<1> DEFINE p == SubSeq(items, 1, n)
<1>3. p \in Seq(Int) /\ Len(p) = n /\ (n # 0 => p[1] = items[1]) /\ Torn \in Int
  BY <1>1 DEF Torn
<1> HIDE DEF p
<1>4. CASE s = p
  <2>1. Harmless(items) => Harmless(s)
    BY <1>1, <1>3, <1>4 DEF Harmless
  <2> QED
    BY <1>3, <1>4, <2>1 DEF p
<1>5. CASE s = Append(p, Torn)
  <2>1. s \in Seq(Int) /\ Len(s) = n + 1 /\ s[n+1] = Torn /\ n + 1 \in DOMAIN s
    BY <1>3, <1>5
  <2>2. n # 0 => s[1] = p[1]
    BY <1>3, <1>5
  <2>3. Harmless(items) => Harmless(s)
    BY <1>1, <1>3, <2>1, <2>2 DEF Harmless, Torn, PP, SE
  <2> QED
    BY <2>1, <2>3
<1> QED
  BY <1>2, <1>4, <1>5 DEF p

\* rt_spi_xfer, for messages that take chip select: r is what may be the result.
Arrived(c, items, release, r) ==
  \E s : /\ s = items \/ Part(s, items)
         /\ r[1] = Released(Send(Select(c), s), release)
         /\ r[2] \in BOOLEAN /\ (r[2] => s = items)

LEMMA SentIs ==
  ASSUME NEW c, NEW items, NEW release \in BOOLEAN, NEW r \in Sent(c, items, TRUE, release)
  PROVE  Arrived(c, items, release, r)
<1> DEFINE on    == Select(c)
           parts == {SubSeq(items, 1, n) : n \in 0..Len(items)}
           torn  == {Append(SubSeq(items, 1, n), Torn) : n \in 0..Len(items)-1}
<1>1. \/ r = << Released(Send(on, items), release), TRUE >>
      \/ \E s \in parts \cup torn : r = << Released(Send(on, s), release), FALSE >>
  BY DEF Sent, Taken
<1>2. \A s \in parts \cup torn : Part(s, items)
  <2>1. ASSUME NEW s \in parts PROVE Part(s, items)
    BY DEF Part
  <2>2. ASSUME NEW s \in torn PROVE Part(s, items)
    <3>1. PICK n \in 0..Len(items)-1 : s = Append(SubSeq(items, 1, n), Torn)
      OBVIOUS
    <3>2. n \in 0..Len(items) /\ n # Len(items)
      OBVIOUS
    <3> QED
      BY <3>1, <3>2 DEF Part
  <2> QED
    BY <2>1, <2>2
<1> HIDE DEF on, parts, torn
<1>3. CASE r = << Released(Send(on, items), release), TRUE >>
  BY <1>3 DEF on, Arrived
<1>4. ASSUME NEW s \in parts \cup torn, r = << Released(Send(on, s), release), FALSE >>
      PROVE  /\ Part(s, items) /\ r[1] = Released(Send(Select(c), s), release)
             /\ r[2] \in BOOLEAN /\ (r[2] => s = items)
  BY <1>2, <1>4 DEF on
<1> QED
  BY <1>1, <1>3, <1>4 DEF Arrived

\* A harmless message leaves the chip what it holds and what it is doing.
LEMMA SentQuiet ==
  ASSUME NEW c, ChipOK(c), NEW items \in Seq(Int), items # << >>, Harmless(items),
         NEW release \in BOOLEAN, NEW r \in Sent(c, items, TRUE, release)
  PROVE  /\ ChipOK(r[1]) /\ Quiet(c, r[1])
         /\ r[2] \in BOOLEAN
         /\ release => ~r[1].low
         /\ r[2] /\ ~release => /\ r[1].low /\ r[1].wel = c.wel /\ r[1] \in Chip
                                /\ ~c.low => r[1].in = items
<1>1. PICK s : /\ s = items \/ Part(s, items)
               /\ r[1] = Released(Send(Select(c), s), release)
               /\ r[2] \in BOOLEAN /\ (r[2] => s = items)
  <2>1. Arrived(c, items, release, r)
    BY SentIs
  <2> QED
    BY <2>1 DEF Arrived
<1> DEFINE a == Select(c)
           b == Send(a, s)
<1>2. s \in Seq(Int) /\ Harmless(s)
  BY <1>1, PartIs
<1>3. /\ a \in Chip /\ Quiet(c, a) /\ a.wel = c.wel /\ a.low /\ Harmless(a.in)
      /\ ~c.low => a.in = << >>
  BY SelectOK
<1> HIDE DEF a
<1>4. /\ b \in Chip /\ Quiet(a, b) /\ b.wel = a.wel /\ b.low = a.low
      /\ a.in = << >> => b.in = s
      /\ Harmless(b.in)
  BY ONLY <1>2, <1>3, SendOK
<1>5. b.busy => b.wel
  BY <1>3, <1>4 DEF ChipOK, Quiet
<1> HIDE DEF b
<1>6. CASE release
  <2>1. r[1] = Deselect(b)
    BY <1>1, <1>6 DEF Released, a, b
  <2>2. ChipOK(r[1]) /\ Quiet(b, r[1]) /\ ~r[1].low
    BY <1>4, <1>5, <2>1, DeselectQuiet
  <2> QED
    BY <1>1, <1>3, <1>4, <1>6, <2>2 DEF Quiet
<1>7. CASE ~release
  <2>1. r[1] = b
    BY <1>1, <1>7 DEF Released, a, b
  <2>2. ChipOK(b) /\ Quiet(c, b)
    BY <1>3, <1>4, <1>5 DEF ChipOK, Quiet, Harmless
  <2> QED
    BY <1>1, <1>3, <1>4, <1>7, <2>1, <2>2
<1> QED
  BY <1>6, <1>7

\* sfud_read_status: what it reads of a chip that no other message has left
\* selected is true.
LEMMA StatusReadOK ==
  ASSUME NEW c, ChipOK(c), NEW r \in StatusRead(c)
  PROVE  /\ ChipOK(r[1]) /\ Quiet(c, r[1])
         /\ ~c.low /\ r[2].ok => r[2].busy = c.busy /\ r[2].wel = r[1].wel
<1> DEFINE items == << RDSR >>
<1>1. items \in Seq(Int) /\ items # << >> /\ Harmless(items) /\ FALSE \in BOOLEAN
  BY DEF RDSR, Harmless, PP, SE
<1>2. PICK m \in Sent(c, items, TRUE, FALSE) :
        r \in IF m[2]
                THEN {<< Deselect(m[1]), s >> : s \in Statuses(m[1])} \cup
                     (IF MayFail THEN {<< Deselect(m[1]), NoStatus >>} ELSE {})
                ELSE {<< m[1], NoStatus >>}
  BY DEF StatusRead
<1> HIDE DEF items
<1>3. /\ ChipOK(m[1]) /\ Quiet(c, m[1]) /\ m[2] \in BOOLEAN
      /\ m[2] => /\ m[1].low /\ m[1].wel = c.wel /\ m[1] \in Chip
                 /\ ~c.low => m[1].in = items
  BY <1>1, SentQuiet
<1>4. CASE ~m[2]
  <2>1. r = << m[1], NoStatus >>
    BY <1>2, <1>4
  <2> QED
    BY <1>3, <2>1 DEF NoStatus
<1>5. CASE m[2]
  <2> DEFINE d == Deselect(m[1])
  <2>1. \/ \E s \in Statuses(m[1]) : r = << d, s >>
        \/ r = << d, NoStatus >>
    BY <1>2, <1>5
  <2>2. /\ m[1] \in Chip /\ (m[1].busy => m[1].wel) /\ Harmless(m[1].in)
    BY <1>3, <1>5 DEF ChipOK, Harmless
  <2>3. ChipOK(d) /\ Quiet(m[1], d)
    BY <2>2, DeselectQuiet
  <2>4. ChipOK(d) /\ Quiet(c, d)
    BY <1>3, <2>3 DEF Quiet
  <2>5. ~c.low => d.wel = m[1].wel
    <3> SUFFICES ASSUME ~c.low PROVE d.wel = m[1].wel
      OBVIOUS
    <3>1. m[1].in = << RDSR >>
      BY <1>3, <1>5 DEF items
    <3>2. d = [m[1] EXCEPT !.low = FALSE]
      BY <3>1 DEF Deselect, RDSR, Torn, WREN, WRDI, PP, SE
    <3> QED
      BY <2>2, <3>2 DEF Chip
  <2>6. ~c.low => Statuses(m[1]) = {[ok |-> TRUE, busy |-> m[1].busy, wel |-> m[1].wel]}
    <3> SUFFICES ASSUME ~c.low
                 PROVE  Statuses(m[1]) = {[ok |-> TRUE, busy |-> m[1].busy, wel |-> m[1].wel]}
      OBVIOUS
    <3>1. m[1].in = << RDSR >>
      BY <1>3, <1>5 DEF items
    <3> QED
      BY <3>1 DEF Statuses
  <2> HIDE DEF d
  <2>7. CASE r = << d, NoStatus >>
    BY <2>4, <2>7 DEF NoStatus
  <2>8. ASSUME NEW s \in Statuses(m[1]), r = << d, s >>
        PROVE  /\ ChipOK(r[1]) /\ Quiet(c, r[1])
               /\ ~c.low /\ r[2].ok => r[2].busy = c.busy /\ r[2].wel = r[1].wel
    <3>1. r[1] = d /\ r[2] = s
      BY <2>8
    <3>2. ~c.low => s = [ok |-> TRUE, busy |-> m[1].busy, wel |-> m[1].wel]
      BY <2>6
    <3> QED
      BY <1>3, <2>4, <2>5, <3>1, <3>2 DEF Quiet
  <2> QED
    BY <2>1, <2>7, <2>8
<1> QED
  BY <1>3, <1>4, <1>5

\* set_write_enabled: when it has disabled writing the chip is not busy.
LEMMA WriteEnabledOK ==
  ASSUME NEW c, ChipOK(c), NEW enabled \in BOOLEAN, NEW r \in WriteEnabled(c, enabled)
  PROVE  /\ ChipOK(r[1]) /\ Quiet(c, r[1])
         /\ ~enabled /\ r[2] => ~r[1].busy
<1> DEFINE items == << IF enabled THEN WREN ELSE WRDI >>
<1>1. items \in Seq(Int) /\ items # << >> /\ Harmless(items) /\ TRUE \in BOOLEAN
  BY DEF WREN, WRDI, Harmless, PP, SE
<1>2. PICK m \in Sent(c, items, TRUE, TRUE) :
        r \in IF m[2]
                THEN {<< s[1], s[2].ok /\ s[2].wel = enabled, ~s[2].ok >>
                      : s \in StatusRead(m[1])}
                ELSE {<< m[1], FALSE, TRUE >>}
  BY DEF WriteEnabled
<1> HIDE DEF items
<1>3. ChipOK(m[1]) /\ Quiet(c, m[1]) /\ m[2] \in BOOLEAN /\ ~m[1].low
  BY <1>1, SentQuiet
<1>4. CASE ~m[2]
  <2>1. r = << m[1], FALSE, TRUE >>
    BY <1>2, <1>4
  <2> QED
    BY <1>3, <2>1
<1>5. CASE m[2]
  <2>1. PICK s \in StatusRead(m[1]) :
          r = << s[1], s[2].ok /\ s[2].wel = enabled, ~s[2].ok >>
    BY <1>2, <1>5
  <2>2. /\ ChipOK(s[1]) /\ Quiet(m[1], s[1])
        /\ s[2].ok => s[2].busy = m[1].busy /\ s[2].wel = s[1].wel
    BY <1>3, StatusReadOK
  <2>3. r[1] = s[1] /\ r[2] = (s[2].ok /\ s[2].wel = enabled)
    BY <2>1
  <2>4. ~enabled /\ r[2] => ~s[1].wel
    BY <2>2, <2>3
  <2> QED
    BY <1>3, <2>2, <2>3, <2>4 DEF Quiet, ChipOK
<1> QED
  BY <1>3, <1>4, <1>5

-----------------------------------------------------------------------------
(* Erasing and programming. *)

LEMMA ErasedOK ==
  ASSUME NEW cells \in [Address -> Bits], NEW a, NEW d, d = ErasedAt(cells, a)
  PROVE  /\ d \in [Address -> Bits]
         /\ \A x \in Address : d[x] # cells[x] => UnitAt(x, Sector) = UnitAt(a, Sector)
BY DEF ErasedAt, Erased, Bits

LEMMA ProgrammedOK ==
  ASSUME SfudAssumption, NEW cells \in [Address -> Bits], NEW a \in Nat, NEW s \in Seq(Int),
         NEW d, d = ProgrammedAt(cells, a, s)
  PROVE  /\ d \in [Address -> Bits]
         /\ \A x \in Address : d[x] # cells[x] =>
              UnitAt(x, Page) = UnitAt(a, Page) /\ ((x - a) % Page) + 1 <= Len(s)
<1> DEFINE at(x) == ((x - a) % Page) + 1
           hit(x) == UnitAt(x, Page) = UnitAt(a, Page) /\ at(x) <= Len(s)
<1>1. d = [x \in Address |-> IF hit(x) THEN And(cells[x], s[at(x)] % 4) ELSE cells[x]]
  BY DEF ProgrammedAt
<1>2. ASSUME NEW x \in Address, hit(x) PROVE And(cells[x], s[at(x)] % 4) \in Bits
  <2>1. Page \in Nat \ {0} /\ Capacity \in Nat
    BY DEF SfudAssumption, FlashAssumption
  <2>2. x - a \in Int
    BY <2>1 DEF Address
  <2>3. ASSUME NEW y \in Int PROVE y % Page \in Nat
    BY <2>1
  <2>4. (x - a) % Page \in Nat
    BY <2>2, <2>3
  <2>5. at(x) \in 1..Len(s)
    BY <1>2, <2>4
  <2>6. s[at(x)] \in Int
    BY <2>5
  <2>7. s[at(x)] % 4 \in Bits
    BY <2>6 DEF Bits
  <2> QED
    BY <2>7, AndBits
<1> HIDE DEF hit
<1>3. d \in [Address -> Bits]
  BY <1>1, <1>2
<1>4. \A x \in Address : d[x] # cells[x] => hit(x)
  BY <1>1
<1> QED
  BY <1>3, <1>4 DEF hit

\* The bytes of the next page of a write are among those it is to write.
LEMMA WriteCovers ==
  ASSUME SfudAssumption, NEW t \in Threads, CallOK(t), place[t] = "transfer",
         call[t].kind = "write", NEW c, c = call[t], NEW x \in Address,
         UnitAt(x, Page) = UnitAt(c.addr, Page), ((x - c.addr) % Page) + 1 <= PageSize(c)
  PROVE  x \in Covered(c)
<1>1. /\ c.addr \in Nat /\ c.from \in Nat /\ c.size \in Nat /\ c.length \in Nat
      /\ c.from <= c.addr /\ c.addr + c.size = c.from + c.length
  BY DEF CallOK, Calls
<1>2. Page \in Nat \ {0} /\ x \in Nat
  BY DEF SfudAssumption, FlashAssumption, Address
<1>3. c.addr % Page \in 0..Page-1
  BY <1>1, <1>2
<1>4. /\ PageSize(c) \in Nat /\ PageSize(c) <= Page - (c.addr % Page)
      /\ PageSize(c) <= c.size
  BY <1>1, <1>2, <1>3 DEF PageSize
<1>5. c.addr <= x /\ x < c.addr + PageSize(c)
  BY <1>1, <1>2, <1>4, WithinPage
<1>6. x >= c.from /\ x < c.from + c.length
  BY <1>1, <1>2, <1>4, <1>5
<1> QED
  BY <1>6 DEF Covered

\* The sector that is erased next is among those an erase is to erase.
LEMMA EraseCovers ==
  ASSUME SfudAssumption, NEW t \in Threads, CallOK(t), place[t] = "transfer",
         call[t].kind = "erase", NEW c, c = call[t], NEW x \in Address,
         UnitAt(x, Sector) = UnitAt(c.addr, Sector)
  PROVE  x \in Covered(c)
<1>1. /\ c.addr \in Nat /\ c.from \in Nat /\ c.size \in Nat /\ c.length \in Nat
      /\ c.from <= c.addr /\ c.addr + c.size = c.from + c.length /\ c.size # 0
      /\ c.addr = c.from \/ c.addr % Sector = 0
  BY DEF CallOK, Calls
<1>2. Sector \in Nat \ {0}
  BY DEF SfudAssumption, FlashAssumption
<1>3. /\ UnitAt(c.addr, Sector) \in Nat /\ UnitAt(c.addr, Sector) <= c.addr
      /\ UnitAt(c.from, Sector) \in Nat /\ UnitAt(c.from, Sector) <= c.from
  BY <1>1, <1>2, Remainder
<1>4. UnitAt(c.addr, Sector) >= UnitAt(c.from, Sector)
  <2>1. CASE c.addr = c.from
    BY <1>3, <2>1
  <2>2. CASE c.addr % Sector = 0
    <3>1. UnitAt(c.addr, Sector) = c.addr
      BY <1>1, <2>2 DEF UnitAt
    <3> QED
      BY <1>1, <1>3, <3>1
  <2> QED
    BY <1>1, <2>1, <2>2
<1>5. UnitAt(c.addr, Sector) < c.from + c.length /\ c.length > 0
  BY <1>1, <1>3
<1> QED
  BY <1>4, <1>5 DEF Covered

\* The message of an erase or a write: the chip begins to change what the call is
\* to change, or nothing.
Begins(c, d, S) ==
  /\ ChipOK(d) /\ d.cells = c.cells
  /\ \/ Quiet(c, d)
     \/ /\ ~c.busy
        /\ \A x \in Address : d.todo[x] # c.cells[x] => x \in S

\* A chip that is told nothing begins nothing else.
LEMMA QuietBegins ==
  ASSUME NEW c, NEW d, ChipOK(d), Quiet(c, d), NEW S
  PROVE  Begins(c, d, S)
BY DEF Begins, Quiet

\* What is left of a range from a on, when n more bytes of it are done.
LEMMA RangeLeft ==
  ASSUME NEW f \in Nat, NEW a \in Nat, NEW z \in Nat, NEW l \in Nat, NEW n \in Nat,
         f <= a, a + z = f + l, n <= z
  PROVE  /\ a - f + 1 \in Nat /\ a - f + 1 >= 1
         /\ a - f + n \in Nat /\ a - f + n <= l
         /\ (a - f + n) - (a - f + 1) + 1 = n
         /\ f <= a + n /\ (a + n) + (z - n) = f + l
OBVIOUS

\* The bytes of a command.
LEMMA CommandIs ==
  ASSUME SfudAssumption, NEW t \in Threads, CallOK(t), NEW c, c = call[t],
         NEW cmd, cmd = Command(t)
  PROVE  /\ c.kind = "erase" => cmd = << SE, c.addr >>
         /\ c.kind = "write" =>
              \E data \in Seq(Int) : /\ cmd = << PP, c.addr >> \o data
                                     /\ Len(data) = PageSize(c)
<1>1. ASSUME c.kind = "write"
      PROVE  \E data \in Seq(Int) : /\ cmd = << PP, c.addr >> \o data
                                    /\ Len(data) = PageSize(c)
  <2> DEFINE p == Payload[t]
             i == c.addr - c.from + 1
             j == c.addr - c.from + PageSize(c)
  <2>1. /\ c.addr \in Nat /\ c.from \in Nat /\ c.size \in Nat /\ c.length \in Nat
        /\ c.from <= c.addr /\ c.addr + c.size = c.from + c.length
        /\ c.length <= Len(p)
    BY <1>1 DEF CallOK, Calls
  <2>2. p \in Seq(Int) /\ Page \in Nat \ {0}
    BY DEF SfudAssumption, FlashAssumption, Bits
  <2> HIDE DEF p
  <2>3. c.addr % Page \in 0..Page-1
    <3>1. c.addr \in Nat
      BY <2>1
    <3> QED
      BY <2>2, <3>1, Remainder
  <2>4. PageSize(c) \in Nat /\ PageSize(c) <= c.size
    BY <2>1, <2>2, <2>3 DEF PageSize
  <2>5. i \in Nat /\ i >= 1 /\ j \in Nat /\ j <= Len(p) /\ j - i + 1 = PageSize(c)
    <3>1. Len(p) \in Nat
      BY <2>2
    <3>2. i \in Nat /\ i >= 1
      BY <2>1
    <3>3. j \in Nat /\ j <= c.length
      <4>1. /\ c.addr - c.from + PageSize(c) \in Nat
            /\ c.addr - c.from + PageSize(c) <= c.length
        BY ONLY <2>1, <2>4, RangeLeft
      <4> QED
        BY ONLY <4>1 DEF j
    <3>4. j <= Len(p)
      BY <2>1, <3>1, <3>3
    <3>5. j - i + 1 = PageSize(c)
      <4>1. (c.addr - c.from + PageSize(c)) - (c.addr - c.from + 1) + 1 = PageSize(c)
        BY ONLY <2>1, <2>4, RangeLeft
      <4> QED
        BY ONLY <4>1 DEF i, j
    <3> QED
      BY <3>2, <3>3, <3>4, <3>5
  <2>6. cmd = << PP, c.addr >> \o SubSeq(p, i, j)
    BY <1>1 DEF Command, p
  <2> HIDE DEF i, j
  <2>7. SubSeq(p, i, j) \in Seq(Int) /\ Len(SubSeq(p, i, j)) = PageSize(c)
    BY <2>2, <2>4, <2>5
  <2> QED
    BY <2>6, <2>7
<1>2. c.kind = "erase" => cmd = << SE, c.addr >>
  BY DEF Command
<1> QED
  BY <1>1, <1>2

\* What is left of the command to program without its first two items.
DataIs(s, a, data, n) ==
  /\ s \in Seq(Int) /\ Len(s) = n /\ s[1] = PP /\ s[2] = a
  /\ Tail(Tail(s)) \in Seq(Int) /\ Len(Tail(Tail(s))) = n - 2
  /\ n - 2 <= Len(data)

LEMMA DataOf ==
  ASSUME NEW a \in Nat, NEW data \in Seq(Int), NEW n \in 3..Len(<< PP, a >> \o data),
         NEW s, s = SubSeq(<< PP, a >> \o data, 1, n)
  PROVE  DataIs(s, a, data, n)
<1> DEFINE q == << PP, a >> \o data
<1>1. /\ q \in Seq(Int) /\ Len(q) = Len(data) + 2 /\ q[1] = PP /\ q[2] = a
      /\ Len(data) \in Nat
  BY DEF PP
<1>2. n \in 3..Len(q) /\ s = SubSeq(q, 1, n)
  OBVIOUS
<1> HIDE DEF q
<1>3. Len(q) \in Nat /\ n \in Nat /\ n >= 3 /\ n <= Len(q)
  BY <1>1, <1>2
<1>4. s \in Seq(Int) /\ Len(s) = n /\ s[1] = q[1] /\ s[2] = q[2]
  BY ONLY <1>1, <1>2, <1>3
<1>5. PICK u : u = Tail(s)
  OBVIOUS
<1>6. u \in Seq(Int) /\ Len(u) = n - 1
  BY ONLY <1>3, <1>4, <1>5
<1>7. Tail(u) \in Seq(Int) /\ Len(Tail(u)) = n - 2
  BY ONLY <1>3, <1>6
<1> QED
  <2>1. Tail(Tail(s)) \in Seq(Int) /\ Len(Tail(Tail(s))) = n - 2
    BY <1>5, <1>7
  <2>2. n - 2 <= Len(data)
    BY <1>1, <1>3
  <2> QED
    BY <1>1, <1>4, <2>1, <2>2 DEF DataIs

\* The rising edge behind a command that arrived whole.
LEMMA DeselectErases ==
  ASSUME NEW c, ~(\E i \in DOMAIN c.in : c.in[i] = Torn), c.in # << >>, ~c.busy,
         c.in[1] = SE, Len(c.in) = 2, c.wel
  PROVE  Deselect(c) = [[c EXCEPT !.low = FALSE] EXCEPT
                          !.busy = TRUE, !.todo = ErasedAt(c.cells, c.in[2])]
BY DEF Deselect, SE, WREN, WRDI, PP

LEMMA DeselectPrograms ==
  ASSUME NEW c, ~(\E i \in DOMAIN c.in : c.in[i] = Torn), c.in # << >>, ~c.busy,
         c.in[1] = PP, Len(c.in) > 2, c.wel
  PROVE  Deselect(c) = [[c EXCEPT !.low = FALSE] EXCEPT
                          !.busy = TRUE,
                          !.todo = ProgrammedAt(c.cells, c.in[2], Tail(Tail(c.in)))]
BY DEF Deselect, SE, WREN, WRDI, PP

\* The rising edge of chip select behind what arrived of a command to erase or to
\* program.
LEMMA DeselectBegins ==
  ASSUME SfudAssumption, NEW t \in Threads, CallOK(t), place[t] = "transfer",
         NEW k, k = call[t], k.kind \in {"erase", "write"},
         NEW c \in Chip, c.busy => c.wel, NEW n \in 0..Len(Command(t)),
         c.in = SubSeq(Command(t), 1, n), NEW d, d = Deselect(c)
  PROVE  Begins(c, d, Covered(k)) /\ ~d.low
<1> DEFINE cmd  == Command(t)
           up   == [c EXCEPT !.low = FALSE]
           op   == IF c.in = << >> \/ c.busy THEN Torn ELSE c.in[1]
           torn == \E i \in DOMAIN c.in : c.in[i] = Torn
<1>1. CASE Harmless(c.in) \/ torn
  <2>1. ChipOK(d) /\ Quiet(c, d) /\ ~d.low
    BY <1>1, DeselectQuiet
  <2> QED
    BY ONLY <2>1, QuietBegins
<1>2. up \in Chip /\ up.cells = c.cells /\ up.todo = c.todo /\ up.busy = c.busy /\ ~up.low
      /\ up.wel = c.wel /\ c.cells \in [Address -> Bits]
  BY DEF Chip
<1>3. CASE ~Harmless(c.in) /\ ~torn
  <2>1. c.in # << >> /\ c.in[1] \in {PP, SE}
    BY <1>3 DEF Harmless
  <2>2. k.addr \in Nat
    BY DEF CallOK, Calls
  <2> DEFINE erases   == op = SE /\ Len(c.in) = 2 /\ c.wel
             programs == op = PP /\ Len(c.in) > 2 /\ c.wel
  <2>3. CASE ~erases /\ ~programs
    <3>1. op \notin {WREN, WRDI}
      BY <2>1 DEF Torn, WREN, WRDI, PP, SE
    <3>2. d = up
      BY <1>3, <2>3, <3>1 DEF Deselect
    <3> HIDE DEF up
    <3>3. Quiet(c, d) /\ d \in Chip /\ ~d.low /\ d.wel = c.wel
      BY <1>2, <3>2 DEF Quiet
    <3>4. ChipOK(d)
      BY <3>3 DEF Quiet, ChipOK
    <3> QED
      BY ONLY <3>3, <3>4, QuietBegins
  <2>4. CASE erases
    <3>1. ~c.busy /\ c.in[1] = SE /\ c.wel
      BY <2>4 DEF Torn, SE
    <3>2. k.kind = "erase"
      <4>1. CASE k.kind = "write"
        <5>1. PICK data \in Seq(Int) : /\ cmd = << PP, k.addr >> \o data
                                        /\ Len(data) = PageSize(k)
          BY <4>1, CommandIs
        <5>2. (<< PP, k.addr >> \o data)[1] = PP /\ << PP, k.addr >> \o data \in Seq(Int)
          BY <2>2 DEF PP
        <5>3. cmd \in Seq(Int) /\ cmd[1] = PP
          BY <5>1, <5>2
        <5> HIDE DEF cmd
        <5>4. Len(c.in) = 2 /\ n = 2 /\ c.in[1] = cmd[1]
          <6>1. c.in = SubSeq(cmd, 1, n) /\ n \in 0..Len(cmd) /\ Len(c.in) = 2
            BY <2>4 DEF cmd
          <6> QED
            BY <5>3, <6>1
        <5> QED
          BY <3>1, <5>3, <5>4 DEF PP, SE
      <4> QED
        BY <4>1
    <3>3. cmd = << SE, k.addr >>
      BY <3>2, CommandIs
    <3>4. c.in[2] = k.addr
      <4>1. Len(c.in) = 2 /\ cmd \in Seq(Int) /\ Len(cmd) = 2
        BY <2>2, <2>4, <3>3 DEF SE
      <4>2. n = 2
        BY <4>1
      <4> QED
        BY <3>3, <4>1, <4>2
    <3>5. d = [up EXCEPT !.busy = TRUE, !.todo = ErasedAt(c.cells, k.addr)]
      <4>1. op = SE /\ Len(c.in) = 2 /\ c.wel
        BY <2>4
      <4> HIDE DEF up, op
      <4>2. d = [[c EXCEPT !.low = FALSE] EXCEPT !.busy = TRUE, !.todo = ErasedAt(c.cells, c.in[2])]
        BY <1>3, <2>1, <3>1, <4>1, DeselectErases
      <4> QED
        BY <3>4, <4>2 DEF up
    <3>6. /\ ErasedAt(c.cells, k.addr) \in [Address -> Bits]
          /\ \A x \in Address : ErasedAt(c.cells, k.addr)[x] # c.cells[x]
                                  => UnitAt(x, Sector) = UnitAt(k.addr, Sector)
      BY ONLY <1>2, ErasedOK
    <3>7. \A x \in Address : ErasedAt(c.cells, k.addr)[x] # c.cells[x] => x \in Covered(k)
      BY <3>2, <3>6, EraseCovers
    <3> HIDE DEF up
    <3>8. /\ d \in Chip /\ d.cells = c.cells /\ d.busy /\ d.wel /\ ~d.low
          /\ d.todo = ErasedAt(c.cells, k.addr)
      BY <1>2, <3>1, <3>5, <3>6 DEF Chip
    <3> QED
      BY <3>1, <3>7, <3>8 DEF Begins, ChipOK
  <2>5. CASE programs
    <3>1. ~c.busy /\ c.in[1] = PP /\ c.wel /\ Len(c.in) > 2
      BY <2>5 DEF Torn, PP
    <3>2. k.kind = "write"
      <4>1. CASE k.kind = "erase"
        <5>1. cmd = << SE, k.addr >>
          BY <4>1, CommandIs
        <5>2. Len(c.in) <= 2
          BY <2>2, <5>1 DEF SE
        <5> QED
          BY <3>1, <5>2
      <4> QED
        BY <4>1
    <3>3. PICK data \in Seq(Int) : cmd = << PP, k.addr >> \o data /\ Len(data) = PageSize(k)
      BY <3>2, CommandIs
    <3> DEFINE s == Tail(Tail(c.in))
    <3>4. n \in 3..Len(<< PP, k.addr >> \o data)
      <4>1. << PP, k.addr >> \o data \in Seq(Int)
        BY <2>2 DEF PP
      <4>2. cmd \in Seq(Int)
        BY <3>3, <4>1
      <4>3. c.in = SubSeq(cmd, 1, n) /\ n \in 0..Len(cmd)
        OBVIOUS
      <4> HIDE DEF cmd
      <4>4. Len(c.in) = n
        BY <4>2, <4>3
      <4> QED
        BY <3>1, <3>3, <4>2, <4>3, <4>4
    <3>5. c.in = SubSeq(<< PP, k.addr >> \o data, 1, n)
      BY <3>3
    <3>6. /\ c.in[2] = k.addr /\ s \in Seq(Int) /\ Len(s) <= PageSize(k)
          /\ Len(s) \in Nat /\ PageSize(k) \in Nat
      <4>1. DataIs(c.in, k.addr, data, n)
        BY <2>2, <3>3, <3>4, <3>5, DataOf
      <4>2. /\ c.in[2] = k.addr /\ s \in Seq(Int) /\ Len(s) = n - 2
            /\ n - 2 <= Len(data)
        BY <4>1 DEF DataIs
      <4>3. n - 2 \in Nat /\ Len(data) \in Nat
        BY <3>4
      <4> HIDE DEF s
      <4> QED
        BY <3>3, <4>2, <4>3
    <3> HIDE DEF s
    <3>7. d = [up EXCEPT !.busy = TRUE, !.todo = ProgrammedAt(c.cells, k.addr, s)]
      <4>1. op = PP /\ Len(c.in) > 2 /\ c.wel
        BY <2>5
      <4> HIDE DEF up, op
      <4>2. d = [[c EXCEPT !.low = FALSE] EXCEPT
                   !.busy = TRUE, !.todo = ProgrammedAt(c.cells, c.in[2], Tail(Tail(c.in)))]
        BY <1>3, <2>1, <3>1, <4>1, DeselectPrograms
      <4> QED
        BY <3>6, <4>2 DEF up, s
    <3> DEFINE p == ProgrammedAt(c.cells, k.addr, s)
    <3>8. /\ p \in [Address -> Bits]
          /\ \A x \in Address : p[x] # c.cells[x] =>
               UnitAt(x, Page) = UnitAt(k.addr, Page) /\ ((x - k.addr) % Page) + 1 <= Len(s)
      BY <1>2, <2>2, <3>6, ProgrammedOK
    <3> HIDE DEF p
    <3>9. ASSUME NEW x \in Address, p[x] # c.cells[x] PROVE x \in Covered(k)
      <4>1. Page \in Nat \ {0} /\ x - k.addr \in Int
        BY <2>2, SMTT(20) DEF SfudAssumption, FlashAssumption, Address
      <4>2. ((x - k.addr) % Page) + 1 \in Int
        BY <4>1
      <4>3. /\ UnitAt(x, Page) = UnitAt(k.addr, Page)
            /\ ((x - k.addr) % Page) + 1 <= PageSize(k)
        BY <3>6, <3>8, <3>9, <4>2
      <4> QED
        BY <3>2, <4>3, WriteCovers
    <3> HIDE DEF up
    <3>10. /\ d \in Chip /\ d.cells = c.cells /\ d.busy /\ d.wel /\ ~d.low
           /\ d.todo = p
      BY <1>2, <3>1, <3>7, <3>8 DEF Chip, p
    <3> QED
      BY <3>1, <3>9, <3>10 DEF Begins, ChipOK
  <2> QED
    BY <2>3, <2>4, <2>5
<1> QED
  BY <1>1, <1>3

\* rt_spi_xfer with the command of an erase or a write.
LEMMA Transferred ==
  ASSUME SfudAssumption, NEW t \in Threads, CallOK(t), place[t] = "transfer",
         NEW k, k = call[t], k.kind \in {"erase", "write"},
         NEW c, ChipOK(c), NEW r \in Sent(c, Command(t), TRUE, TRUE)
  PROVE  Begins(c, r[1], Covered(k)) /\ r[2] \in BOOLEAN
<1> DEFINE cmd == Command(t)
<1>1. cmd \in Seq(Int) /\ cmd # << >>
  <2>1. k.addr \in Nat
    BY DEF CallOK, Calls
  <2>2. CASE k.kind = "erase"
    <3>1. cmd = << SE, k.addr >>
      BY <2>2, CommandIs
    <3> HIDE DEF cmd
    <3> QED
      BY <2>1, <3>1 DEF SE
  <2>3. CASE k.kind = "write"
    <3>1. PICK data \in Seq(Int) : cmd = << PP, k.addr >> \o data /\ Len(data) = PageSize(k)
      BY <2>3, CommandIs
    <3> HIDE DEF cmd
    <3> QED
      BY <2>1, <3>1 DEF PP
  <2> QED
    BY <2>2, <2>3
<1>2. PICK s : /\ s = cmd \/ Part(s, cmd)
               /\ r[1] = Released(Send(Select(c), s), TRUE)
               /\ r[2] \in BOOLEAN /\ (r[2] => s = cmd)
  <2>1. Arrived(c, cmd, TRUE, r)
    BY SentIs
  <2> QED
    BY <2>1 DEF Arrived
<1> DEFINE a == Select(c)
           b == Send(a, s)
<1>3. /\ s \in Seq(Int)
      /\ \/ \E i \in DOMAIN s : s[i] = Torn
         \/ \E n \in 0..Len(cmd) : s = SubSeq(cmd, 1, n)
  <2> HIDE DEF cmd
  <2> QED
    BY <1>1, <1>2, PartIs
<1>4. /\ a \in Chip /\ Quiet(c, a) /\ a.wel = c.wel /\ a.low /\ Harmless(a.in)
      /\ ~c.low => a.in = << >>
  BY SelectOK
<1> HIDE DEF a
<1>5. /\ b \in Chip /\ Quiet(a, b) /\ b.wel = a.wel
      /\ a.in = << >> => b.in = s
      /\ Harmless(a.in) /\ a.in # << >> => Harmless(b.in)
  BY <1>3, <1>4, SendOK
<1>6. r[1] = Deselect(b)
  BY <1>2 DEF Released, a, b
<1> HIDE DEF b
<1>7. (b.busy => b.wel) /\ Quiet(c, b)
  BY <1>4, <1>5 DEF ChipOK, Quiet
<1>8. CASE Harmless(b.in) \/ \E i \in DOMAIN b.in : b.in[i] = Torn
  <2>1. ChipOK(r[1]) /\ Quiet(b, r[1])
    BY <1>5, <1>6, <1>7, <1>8, DeselectQuiet
  <2>2. Quiet(c, r[1])
    BY <1>7, <2>1 DEF Quiet
  <2> QED
    BY <1>2, <2>1, <2>2, QuietBegins
<1>9. ASSUME NEW n \in 0..Len(cmd), b.in = SubSeq(cmd, 1, n)
      PROVE  Begins(c, r[1], Covered(k))
  <2>1. Begins(b, r[1], Covered(k))
    BY <1>5, <1>6, <1>7, <1>9, DeselectBegins
  <2> QED
    BY <1>7, <2>1 DEF Begins, Quiet
<1> QED
  <2>1. \/ Harmless(b.in) \/ \E i \in DOMAIN b.in : b.in[i] = Torn
        \/ \E n \in 0..Len(cmd) : b.in = SubSeq(cmd, 1, n)
    BY <1>3, <1>4, <1>5
  <2> HIDE DEF cmd
  <2> QED
    BY <1>2, <1>8, <1>9, <2>1

-----------------------------------------------------------------------------
(* The steps of the threads. *)

\* A call that goes on, or that is not under way any more.
LEMMA CallKept ==
  ASSUME NEW u \in Threads, CallOK(u), call'[u] = call[u],
         \/ place'[u] = place[u]
         \/ place'[u] \notin {"enable", "transfer", "busy"}
         \/ place[u] \in {"enable", "transfer", "busy"}
  PROVE  CallOK(u)'
BY DEF CallOK, Calls

\* A thread that has returned.
LEMMA NoCallOK ==
  ASSUME NEW u \in Threads, call'[u] = NoCall
  PROVE  CallOK(u)'
BY DEF CallOK, Calls, NoCall

\* A step of the owner of sfud_lock that goes on with its call.
LEMMA OwnerGoesOn ==
  ASSUME FlashInv, NEW t \in Threads, place[t] \in Locked, NEW w \in Locked,
         Proceed(t, w), owner' = owner, want' = want,
         DOMAIN call' = Threads, \A u \in Threads \ {t} : call'[u] = call[u],
         CallOK(t)', Covered(call'[t]) = Covered(call[t]),
         Begins(chip, chip', Covered(call[t]))
  PROVE  FlashInv'
<1>1. owner = t /\ ChipOK(chip')
  BY DEF FlashInv, Begins
<1>2. place' \in [Threads -> {"idle", "lock"} \cup Locked] /\ place'[t] = w
  BY DEF FlashInv, Proceed
<1>3. \A u \in Threads \ {t} : place'[u] = place[u]
  BY DEF FlashInv, Proceed
<1>4. \A u \in Threads : owner' = u <=> place'[u] \in Locked
  <2>1. ASSUME NEW u \in Threads PROVE owner' = u <=> place'[u] \in Locked
    <3>1. CASE u = t
      BY <1>1, <1>2, <3>1
    <3>2. CASE u # t
      BY <1>1, <1>3, <3>2 DEF FlashInv
    <3> QED
      BY <3>1, <3>2
  <2> QED
    BY <2>1
<1>5. \A u \in Threads : CallOK(u)'
  <2>1. ASSUME NEW u \in Threads, u # t PROVE CallOK(u)'
    <3>1. CallOK(u) /\ call'[u] = call[u] /\ place'[u] = place[u]
      BY <1>3, <2>1 DEF FlashInv
    <3> QED
      BY <3>1, CallKept
  <2> QED
    BY <2>1
<1>6. PendingOK'
  <2> SUFFICES ASSUME chip'.busy, NEW a \in Address, chip'.todo[a] # chip'.cells[a]
               PROVE  want'[a] = Unsure \/ \E u \in Threads : owner' = u /\ a \in Covered(call'[u])
    BY DEF PendingOK, Covered
  <2>1. CASE Quiet(chip, chip')
    <3>1. want[a] = Unsure \/ \E u \in Threads : owner = u /\ a \in Covered(call[u])
      BY <2>1 DEF FlashInv, PendingOK, Quiet
    <3>2. want[a] = Unsure \/ a \in Covered(call[t])
      BY <1>1, <3>1
    <3> QED
      BY <1>1, <3>2
  <2>2. CASE ~Quiet(chip, chip')
    <3>1. a \in Covered(call[t])
      BY <2>2 DEF Begins
    <3> QED
      BY <1>1, <3>1
  <2> QED
    BY <2>1, <2>2
<1>7. owner' \in Threads \cup {NoOwner} /\ want' \in [Address -> Bits \cup {Unsure}]
  BY DEF FlashInv
<1> QED
  BY <1>1, <1>2, <1>4, <1>5, <1>6, <1>7 DEF FlashInv

\* What a caller may believe of an address is a byte or nothing.
LEMMA BelievedOK ==
  ASSUME SfudAssumption, FlashInv, NEW t \in Threads, NEW ok, NEW a \in Address
  PROVE  Believed(t, ok, a) \in Bits \cup {Unsure}
<1> DEFINE c == call[t]
<1>1. want[a] \in Bits \cup {Unsure} /\ CallOK(t)
  BY DEF FlashInv
<1>2. CASE a \notin Covered(c) \/ ~ok \/ c.kind = "erase" \/ want[a] = Unsure
  BY <1>1, <1>2 DEF Believed, Bits, Erased, Unsure
<1>3. CASE a \in Covered(c) /\ ok /\ c.kind # "erase" /\ want[a] # Unsure
  <2>1. c.kind = "write" /\ a >= c.from /\ a < c.from + c.length
    BY <1>3 DEF Covered
  <2>2. c.from \in Nat /\ c.length \in Nat /\ c.length <= Len(Payload[t])
    BY <1>1, <2>1 DEF CallOK, Calls
  <2>3. Payload[t] \in Seq(Bits) /\ a \in Int
    BY DEF SfudAssumption, FlashAssumption, Address
  <2> DEFINE i == a - c.from + 1
             p == Payload[t]
  <2> HIDE DEF p
  <2>4. i \in 1..Len(p)
    <3>1. Len(p) \in Nat
      BY <2>3 DEF p
    <3> QED
      BY <2>1, <2>2, <2>3, <3>1 DEF p
  <2> HIDE DEF i
  <2>5. p[i] \in Bits
    BY <2>3, <2>4 DEF p
  <2>6. And(want[a], p[i]) \in Bits
    BY <1>1, <1>3, <2>5, AndBits
  <2>7. Believed(t, ok, a) = And(want[a], p[i])
    BY <1>3 DEF Believed, p, i
  <2> QED
    BY <2>6, <2>7
<1> QED
  BY <1>2, <1>3

\* The owner of sfud_lock releases it and returns: if it says that it was
\* successful the chip is not busy with what it was to change.
LEMMA OwnerUnlocks ==
  ASSUME SfudAssumption, FlashInv, NEW t \in Threads, place[t] \in Locked,
         NEW ok, NEW got, Unlock(t, ok, got), ChipOK(chip'), Quiet(chip, chip'),
         ok => ~chip.busy \/ Covered(call[t]) = {}
  PROVE  FlashInv'
<1>1. owner = t /\ NoOwner \notin Threads /\ owner' = NoOwner
  BY DEF FlashInv, SfudAssumption, Unlock
<1>2. place' = [place EXCEPT ![t] = "idle"] /\ call' = [call EXCEPT ![t] = NoCall]
  BY DEF Unlock, Return, Proceed
<1>3. place' \in [Threads -> {"idle", "lock"} \cup Locked] /\ place'[t] = "idle"
  BY <1>2 DEF FlashInv
<1>4. \A u \in Threads \ {t} : place'[u] = place[u] /\ call'[u] = call[u]
  BY <1>2 DEF FlashInv
<1>5. DOMAIN call' = Threads /\ call'[t] = NoCall
  BY <1>2 DEF FlashInv
<1>6. \A u \in Threads : owner' = u <=> place'[u] \in Locked
  <2>1. ASSUME NEW u \in Threads PROVE owner' # u /\ place'[u] \notin Locked
    <3>1. CASE u = t
      BY <1>1, <1>3, <3>1 DEF Locked
    <3>2. CASE u # t
      BY <1>1, <1>4, <3>2 DEF FlashInv
    <3> QED
      BY <3>1, <3>2
  <2> QED
    BY <2>1
<1>7. \A u \in Threads : CallOK(u)'
  <2>1. ASSUME NEW u \in Threads PROVE CallOK(u)'
    <3>1. CASE u = t
      BY <1>5, <3>1, NoCallOK
    <3>2. CASE u # t
      <4>1. CallOK(u) /\ call'[u] = call[u] /\ place'[u] = place[u]
        BY <1>4, <3>2 DEF FlashInv
      <4> QED
        BY <4>1, CallKept
    <3> QED
      BY <3>1, <3>2
  <2> QED
    BY <2>1
<1>8. want' = [a \in Address |-> Believed(t, ok, a)]
  BY DEF Unlock
<1>9. want' \in [Address -> Bits \cup {Unsure}]
  BY <1>8, BelievedOK
<1>10. PendingOK'
  <2> SUFFICES ASSUME chip'.busy, NEW a \in Address, chip'.todo[a] # chip'.cells[a]
               PROVE  want'[a] = Unsure
    BY DEF PendingOK
  <2>1. chip.busy /\ chip.todo[a] # chip.cells[a]
    BY DEF Quiet
  <2>2. want[a] = Unsure \/ a \in Covered(call[t])
    BY <1>1, <2>1 DEF FlashInv, PendingOK
  <2>3. CASE a \notin Covered(call[t])
    <3>1. Believed(t, ok, a) = want[a]
      BY <2>3 DEF Believed
    <3> QED
      BY <1>8, <2>2, <2>3, <3>1
  <2>4. CASE a \in Covered(call[t])
    <3>1. ~ok
      BY <2>1, <2>4
    <3>2. Believed(t, ok, a) = Unsure
      BY <2>4, <3>1 DEF Believed
    <3> QED
      BY <1>8, <3>2
  <2> QED
    BY <2>3, <2>4
<1> QED
  BY <1>1, <1>3, <1>5, <1>6, <1>7, <1>9, <1>10 DEF FlashInv

\* A step of a thread that has not got sfud_lock, and does not get it.
LEMMA StrangerSteps ==
  ASSUME FlashInv, NEW t \in Threads, place[t] \notin Locked,
         NEW w \in {"idle", "lock"}, NEW c,
         place' = [place EXCEPT ![t] = w], call' = [call EXCEPT ![t] = c],
         CallOK(t)', UNCHANGED << chip, owner, want >>
  PROVE  FlashInv'
<1>1. owner # t
  BY DEF FlashInv
<1>2. place' \in [Threads -> {"idle", "lock"} \cup Locked] /\ place'[t] = w
  BY DEF FlashInv
<1>3. \A u \in Threads \ {t} : place'[u] = place[u] /\ call'[u] = call[u]
  BY DEF FlashInv
<1>4. DOMAIN call' = Threads
  BY DEF FlashInv
<1>5. \A u \in Threads : owner' = u <=> place'[u] \in Locked
  <2>1. ASSUME NEW u \in Threads PROVE owner' = u <=> place'[u] \in Locked
    <3>1. CASE u = t
      BY <1>1, <1>2, <3>1 DEF Locked
    <3>2. CASE u # t
      BY <1>3, <3>2 DEF FlashInv
    <3> QED
      BY <3>1, <3>2
  <2> QED
    BY <2>1
<1>6. \A u \in Threads : CallOK(u)'
  <2>1. ASSUME NEW u \in Threads, u # t PROVE CallOK(u)'
    <3>1. CallOK(u) /\ call'[u] = call[u] /\ place'[u] = place[u]
      BY <1>3, <2>1 DEF FlashInv
    <3> QED
      BY <3>1, CallKept
  <2> QED
    BY <2>1
<1>7. PendingOK'
  <2> SUFFICES ASSUME chip.busy, NEW a \in Address, chip.todo[a] # chip.cells[a]
               PROVE  want[a] = Unsure \/ \E u \in Threads : owner = u /\ a \in Covered(call'[u])
    BY DEF PendingOK, Covered
  <2>1. want[a] = Unsure \/ \E u \in Threads : owner = u /\ a \in Covered(call[u])
    BY DEF FlashInv, PendingOK
  <2>2. \A u \in Threads : owner = u => call'[u] = call[u]
    BY <1>1, <1>3
  <2> QED
    BY <2>1, <2>2
<1>8. ChipOK(chip')
  BY DEF FlashInv
<1> QED
  BY <1>2, <1>4, <1>5, <1>6, <1>7, <1>8 DEF FlashInv

\* A function is called.
LEMMA RequestOK ==
  ASSUME SfudAssumption, FlashInv, NEW t \in Threads, NEW kind \in Kinds,
         NEW range \in Ranges, Request(t, kind, range)
  PROVE  FlashInv'
<1>1. CASE UNCHANGED << place, call >>
  <2>1. UNCHANGED << chip, owner, place, call, want >>
    BY <1>1 DEF Request
  <2> QED
    BY <2>1 DEF FlashInv, PendingOK, ChipOK, CallOK, Covered
<1> DEFINE c == [kind |-> kind, from |-> range[1], length |-> range[2],
                 addr |-> range[1], size |-> range[2], retry |-> Retries]
<1>2. CASE call' = [call EXCEPT ![t] = c] /\ Proceed(t, "lock")
  <2>1. place[t] = "idle" /\ UNCHANGED << chip, owner, want >>
    BY DEF Request
  <2>2. place[t] \notin Locked /\ call'[t] = c /\ place'[t] = "lock"
    BY <1>2, <2>1 DEF FlashInv, Proceed, Locked
  <2>3. range[1] \in Nat /\ range[2] \in Nat /\ range[2] <= Len(Payload[t]) /\ Retries \in Nat
    BY DEF SfudAssumption
  <2>4. CallOK(t)'
    <3>1. /\ c \in Calls
          /\ c.from = c.addr /\ c.size = c.length /\ c.length <= Len(Payload[t])
      BY <2>3 DEF Calls
    <3> HIDE DEF c
    <3> QED
      BY <2>2, <3>1 DEF CallOK, Calls
  <2>5. place' = [place EXCEPT ![t] = "lock"]
    BY <1>2 DEF Proceed
  <2> HIDE DEF c
  <2> QED
    BY <1>2, <2>1, <2>2, <2>4, <2>5, StrangerSteps
<1> QED
  BY <1>1, <1>2 DEF Request

\* osMutexAcquire times out.
LEMMA AcquireTimeoutOK ==
  ASSUME FlashInv, NEW t \in Threads, AcquireTimeout(t)
  PROVE  FlashInv'
<1>1. /\ place[t] \notin Locked /\ UNCHANGED << chip, owner, want >>
      /\ place' = [place EXCEPT ![t] = "idle"] /\ call' = [call EXCEPT ![t] = NoCall]
  BY DEF AcquireTimeout, Return, Proceed, Locked
<1>2. CallOK(t)'
  <2>1. call'[t] = NoCall
    BY <1>1 DEF FlashInv
  <2> QED
    BY <2>1, NoCallOK
<1> QED
  BY <1>1, <1>2, StrangerSteps

\* sfud_lock is acquired.
LEMMA AcquireOK ==
  ASSUME SfudAssumption, FlashInv, NEW t \in Threads, Acquire(t)
  PROVE  FlashInv'
<1>1. /\ place[t] = "lock" /\ owner = NoOwner /\ owner' = t /\ NoOwner \notin Threads
      /\ UNCHANGED << chip, call, want >>
  BY DEF Acquire, SfudAssumption
<1>2. PICK w \in Locked :
        /\ Proceed(t, w)
        /\ w = "disable" \/ call[t].kind \notin {"erase", "write"} \/ call[t].size # 0
  <2> DEFINE k == call[t].kind
             z == call[t].size
             v == CASE k = "read" -> "busy"
                    [] k = "id" -> "transfer"
                    [] OTHER -> IF z = 0 THEN "disable" ELSE "enable"
  <2>1. Proceed(t, v)
    BY DEF Acquire
  <2> HIDE DEF k, z
  <2>2. v \in Locked /\ (v = "disable" \/ k \notin {"erase", "write"} \/ z # 0)
    BY DEF Locked
  <2> HIDE DEF v
  <2> QED
    BY <2>1, <2>2 DEF k, z
<1>3. place' \in [Threads -> {"idle", "lock"} \cup Locked] /\ place'[t] = w
  BY <1>2 DEF FlashInv, Proceed
<1>4. \A u \in Threads \ {t} : place'[u] = place[u]
  BY <1>2 DEF FlashInv, Proceed
<1>5. \A u \in Threads : owner' = u <=> place'[u] \in Locked
  <2>1. ASSUME NEW u \in Threads PROVE owner' = u <=> place'[u] \in Locked
    <3>1. CASE u = t
      BY <1>1, <1>3, <3>1
    <3>2. CASE u # t
      BY <1>1, <1>4, <3>2 DEF FlashInv
    <3> QED
      BY <3>1, <3>2
  <2> QED
    BY <2>1
<1>6. \A u \in Threads : CallOK(u)'
  <2>1. ASSUME NEW u \in Threads PROVE CallOK(u)'
    <3>1. CallOK(u) /\ call'[u] = call[u]
      BY <1>1 DEF FlashInv
    <3>2. CASE u = t
      BY <1>2, <1>3, <3>1, <3>2 DEF CallOK, Calls
    <3>3. CASE u # t
      BY <1>4, <3>1, <3>3, CallKept
    <3> QED
      BY <3>2, <3>3
  <2> QED
    BY <2>1
<1>7. PendingOK'
  <2> SUFFICES ASSUME chip.busy, NEW a \in Address, chip.todo[a] # chip.cells[a]
               PROVE  want[a] = Unsure
    BY <1>1 DEF PendingOK
  <2> QED
    BY <1>1 DEF FlashInv, PendingOK
<1>8. DOMAIN call' = Threads /\ ChipOK(chip') /\ want' \in [Address -> Bits \cup {Unsure}]
  BY <1>1 DEF FlashInv
<1> QED
  BY <1>1, <1>3, <1>5, <1>6, <1>7, <1>8 DEF FlashInv

\* set_write_enabled(true).
LEMMA EnableWriteOK ==
  ASSUME FlashInv, NEW t \in Threads, EnableWrite(t)
  PROVE  FlashInv'
<1>1. PICK r \in WriteEnabled(chip, TRUE) :
        chip' = r[1] /\ Proceed(t, IF r[2] THEN "transfer" ELSE "disable")
  BY DEF EnableWrite
<1>2. place[t] = "enable" /\ UNCHANGED << owner, call, want >>
  BY DEF EnableWrite
<1>3. ChipOK(chip) /\ CallOK(t) /\ DOMAIN call = Threads /\ TRUE \in BOOLEAN
  BY DEF FlashInv
<1>4. ChipOK(chip') /\ Quiet(chip, chip')
  BY <1>1, <1>3, WriteEnabledOK
<1>5. Begins(chip, chip', Covered(call[t]))
  BY <1>4, QuietBegins
<1>6. CallOK(t)'
  BY <1>2, <1>3, CallKept
<1>7. PICK w \in Locked : Proceed(t, w)
  BY <1>1 DEF Locked
<1>8. place[t] \in Locked
  BY <1>2 DEF Locked
<1> QED
  BY <1>2, <1>3, <1>5, <1>6, <1>7, <1>8, OwnerGoesOn

\* The message of an erase or a write.
LEMMA TransferOK ==
  ASSUME SfudAssumption, FlashInv, NEW t \in Threads, Transfer(t)
  PROVE  FlashInv'
<1>1. PICK r \in Sent(chip, Command(t), TRUE, TRUE) :
        chip' = r[1] /\ Proceed(t, IF r[2] THEN "busy" ELSE "disable")
  BY DEF Transfer
<1>2. /\ place[t] = "transfer" /\ call[t].kind \in {"erase", "write"}
      /\ UNCHANGED << owner, call, want >>
  BY DEF Transfer
<1>3. ChipOK(chip) /\ CallOK(t) /\ DOMAIN call = Threads
  BY DEF FlashInv
<1>4. Begins(chip, chip', Covered(call[t]))
  BY <1>1, <1>2, <1>3, Transferred
<1>5. CallOK(t)'
  BY <1>2, <1>3, CallKept
<1>6. PICK w \in Locked : Proceed(t, w)
  BY <1>1 DEF Locked
<1>7. place[t] \in Locked
  BY <1>2 DEF Locked
<1> QED
  BY <1>2, <1>3, <1>4, <1>5, <1>6, <1>7, OwnerGoesOn

\* The two messages of sfud_read or sfud_get_id.
LEMMA AskOK ==
  ASSUME SfudAssumption, FlashInv, NEW t \in Threads, place[t] \in Locked,
         call[t].kind \in {"read", "id"}, NEW items \in Seq(Int), items # << >>,
         Harmless(items), Ask(t, items)
  PROVE  FlashInv'
<1>1. ChipOK(chip) /\ FALSE \in BOOLEAN /\ Covered(call[t]) = {}
  BY DEF FlashInv, Covered
<1>2. PICK r \in Sent(chip, items, TRUE, FALSE) :
        \/ /\ ~r[2]
           /\ chip' = r[1]
           /\ Unlock(t, FALSE, << >>)
        \/ /\ r[2]
           /\ chip' = Deselect(r[1])
           /\ \/ Unlock(t, TRUE, Answer(r[1], call[t].length))
              \/ Unlock(t, FALSE, << >>)
  BY DEF Ask
<1>3. /\ ChipOK(r[1]) /\ Quiet(chip, r[1])
      /\ r[2] => r[1].low /\ r[1] \in Chip
  BY <1>1, SentQuiet
<1>4. ChipOK(chip') /\ Quiet(chip, chip')
  <2>1. CASE ~r[2]
    BY <1>2, <1>3, <2>1
  <2>2. CASE r[2]
    <3>1. chip' = Deselect(r[1])
      BY <1>2, <2>2
    <3>2. r[1] \in Chip /\ (r[1].busy => r[1].wel) /\ Harmless(r[1].in)
      BY <1>3, <2>2 DEF ChipOK, Harmless
    <3>3. ChipOK(chip') /\ Quiet(r[1], chip')
      BY <3>1, <3>2, DeselectQuiet
    <3> QED
      BY <1>3, <3>3 DEF Quiet
  <2> QED
    BY <2>1, <2>2
<1>5. CASE Unlock(t, FALSE, << >>)
  BY <1>1, <1>4, <1>5, OwnerUnlocks
<1>6. CASE Unlock(t, TRUE, Answer(r[1], call[t].length))
  BY <1>1, <1>4, <1>6, OwnerUnlocks
<1> QED
  BY <1>2, <1>5, <1>6

\* set_write_enabled(false), with which an erase or a write returns.
LEMMA DisableWriteOK ==
  ASSUME SfudAssumption, FlashInv, NEW t \in Threads, DisableWrite(t)
  PROVE  FlashInv'
<1>1. PICK r \in WriteEnabled(chip, FALSE) : chip' = r[1] /\ Unlock(t, r[2], << >>)
  BY DEF DisableWrite
<1>2. place[t] \in Locked /\ ChipOK(chip) /\ FALSE \in BOOLEAN
  BY DEF DisableWrite, Locked, FlashInv
<1>3. ChipOK(chip') /\ Quiet(chip, chip') /\ (r[2] => ~chip'.busy)
  BY <1>1, <1>2, WriteEnabledOK
<1>4. r[2] => ~chip.busy
  BY <1>3 DEF Quiet
<1> QED
  BY <1>1, <1>2, <1>3, <1>4, OwnerUnlocks

\* The call with its next page or sector is still within its range.
LEMMA NextUnitOK ==
  ASSUME SfudAssumption, FlashInv, NEW t \in Threads, place[t] = "busy",
         call[t].kind # "read", ~LastUnit(call[t]),
         call' = [call EXCEPT ![t] = NextUnit(@)]
  PROVE  CallOK(t)' /\ Covered(call'[t]) = Covered(call[t])
<1> DEFINE c == call[t]
           n == IF c.kind = "write" THEN PageSize(c) ELSE Sector - (c.addr % Sector)
           d == NextUnit(c)
<1>1. /\ c \in Calls
      /\ CallOK(t) /\ call'[t] = d
  BY DEF FlashInv, CallOK, Calls
<1>2. Page \in Nat \ {0} /\ Sector \in Nat \ {0} /\ Retries \in Nat
  BY DEF SfudAssumption, FlashAssumption
<1>3. d = [c EXCEPT !.addr = c.addr + n, !.size = c.size - n, !.retry = Retries]
  BY <1>1 DEF NextUnit
<1>4. CallOK(t)
  BY <1>1
<1> HIDE DEF c, d
<1>5. c.addr \in Nat /\ c.size \in Nat /\ c.from \in Nat /\ c.length \in Nat
  BY <1>1 DEF Calls
<1>6. c.addr % Page \in 0..Page-1 /\ c.addr % Sector \in 0..Sector-1
  BY <1>2, <1>5
<1>7. n \in Nat /\ c.size - n \in Nat /\ c.size - n # 0
  <2>1. CASE c.kind = "write"
    <3>1. PageSize(c) \in Nat /\ PageSize(c) <= c.size
      BY <1>2, <1>5, <1>6 DEF PageSize
    <3>2. c.size # PageSize(c)
      BY <2>1 DEF LastUnit, c
    <3> QED
      BY <1>5, <2>1, <3>1, <3>2
  <2>2. CASE c.kind # "write"
    <3>1. ~(c.size <= Sector - (c.addr % Sector))
      BY <2>2 DEF LastUnit, c
    <3> QED
      BY <1>2, <1>5, <1>6, <2>2, <3>1
  <2> QED
    BY <2>1, <2>2
<1>8. c.kind = "erase" => (c.addr + n) % Sector = 0
  BY <1>2, <1>5, NextStart
<1> HIDE DEF n
<1>9. /\ d \in Calls
      /\ d.kind = c.kind /\ d.from = c.from /\ d.length = c.length
      /\ d.addr = c.addr + n /\ d.size = c.size - n
  <2>1. c.addr + n \in Nat /\ c.size - n \in Nat /\ Retries \in Nat
    BY <1>2, <1>5, <1>7
  <2>2. c \in Calls
    BY <1>1
  <2> QED
    BY ONLY <1>3, <2>1, <2>2 DEF Calls
<1>10. c.kind \in {"erase", "write"} =>
         /\ c.length <= Len(Payload[t])
         /\ c.from <= c.addr /\ c.addr + c.size = c.from + c.length
  BY <1>4 DEF CallOK, Calls, c
<1>11. c.kind \in {"erase", "write"} =>
         /\ d.length <= Len(Payload[t])
         /\ d.from <= d.addr /\ d.addr + d.size = d.from + d.length /\ d.size # 0
  <2> SUFFICES ASSUME c.kind \in {"erase", "write"}
               PROVE  /\ d.length <= Len(Payload[t])
                      /\ d.from <= d.addr /\ d.addr + d.size = d.from + d.length
                      /\ d.size # 0
    OBVIOUS
  <2>1. n <= c.size
    BY <1>5, <1>7
  <2>2. c.from <= c.addr + n /\ (c.addr + n) + (c.size - n) = c.from + c.length
    BY <1>5, <1>7, <1>10, <2>1, RangeLeft
  <2> QED
    BY <1>7, <1>9, <1>10, <2>2
<1>12. d.kind = "erase" => d.addr % Sector = 0
  BY <1>8, <1>9
<1>13. CallOK(t)'
  BY <1>1, <1>9, <1>11, <1>12 DEF CallOK, Calls
<1>14. Covered(d) = Covered(c)
  BY <1>9 DEF Covered
<1> QED
  BY <1>1, <1>13, <1>14 DEF c

\* One more poll of a call is one less that is left.
LEMMA PolledOK ==
  ASSUME FlashInv, NEW t \in Threads, call[t].retry > 0,
         call' = [call EXCEPT ![t].retry = @ - 1], place' = place
  PROVE  CallOK(t)' /\ Covered(call'[t]) = Covered(call[t])
<1> DEFINE c == call[t]
           d == [c EXCEPT !.retry = c.retry - 1]
<1>1. /\ c \in Calls
      /\ CallOK(t) /\ call'[t] = d /\ c.retry > 0
  BY DEF FlashInv, CallOK, Calls
<1> HIDE DEF c
<1>2. c.retry - 1 \in Nat
  BY <1>1 DEF Calls
<1>3. /\ d \in Calls
      /\ d.kind = c.kind /\ d.from = c.from /\ d.length = c.length
      /\ d.addr = c.addr /\ d.size = c.size
  BY <1>1, <1>2 DEF Calls
<1> HIDE DEF d
<1>4. CallOK(t)'
  BY <1>1, <1>3 DEF CallOK, Calls, c
<1>5. Covered(d) = Covered(c)
  BY <1>3 DEF Covered
<1> QED
  BY <1>1, <1>4, <1>5 DEF c

\* A poll of wait_busy, whatever it reads.
LEMMA WaitBusyOK ==
  ASSUME SfudAssumption, FlashInv, NEW t \in Threads, WaitBusy(t)
  PROVE  FlashInv'
<1>1. PICK s \in StatusRead(chip) :
        /\ chip' = s[1]
        /\ \/ Ready(t) /\ UNCHANGED << owner, done, want >>
           \/ /\ call[t].retry > 0
              /\ call' = [call EXCEPT ![t].retry = @ - 1]
              /\ UNCHANGED << place, owner, done, want >>
           \/ GiveUp(t)
  BY DEF WaitBusy
<1>2. /\ place[t] = "busy" /\ place[t] \in Locked /\ ChipOK(chip) /\ CallOK(t)
      /\ DOMAIN call = Threads /\ place \in [Threads -> {"idle", "lock"} \cup Locked]
  BY DEF WaitBusy, FlashInv, Locked
<1>3. ChipOK(chip') /\ Quiet(chip, chip')
  BY <1>1, <1>2, StatusReadOK
<1>4. Begins(chip, chip', Covered(call[t]))
  BY <1>3, QuietBegins
<1>5. ASSUME NEW w \in Locked, Proceed(t, w), UNCHANGED << owner, call, want >>
      PROVE  FlashInv'
  <2>1. CallOK(t)'
    BY <1>2, <1>5, CallKept
  <2> QED
    BY <1>2, <1>4, <1>5, <2>1, OwnerGoesOn
<1>6. {"transfer", "enable", "disable"} \subseteq Locked
  BY DEF Locked
<1>7. CASE Ready(t) /\ UNCHANGED << owner, done, want >>
  <2>1. CASE Proceed(t, "transfer") /\ UNCHANGED call
    BY <1>5, <1>6, <1>7, <2>1
  <2>2. CASE Proceed(t, "disable") /\ UNCHANGED call
    BY <1>5, <1>6, <1>7, <2>2
  <2>3. CASE /\ call[t].kind # "read" /\ ~LastUnit(call[t])
             /\ call' = [call EXCEPT ![t] = NextUnit(@)]
             /\ Proceed(t, "enable")
    <3>1. CallOK(t)' /\ Covered(call'[t]) = Covered(call[t])
      BY <1>2, <2>3, NextUnitOK
    <3>2. DOMAIN call' = Threads /\ \A u \in Threads \ {t} : call'[u] = call[u]
      BY <1>2, <2>3
    <3> QED
      BY <1>2, <1>4, <1>6, <1>7, <2>3, <3>1, <3>2, OwnerGoesOn
  <2> QED
    BY <1>7, <2>1, <2>2, <2>3 DEF Ready
<1>8. CASE /\ call[t].retry > 0
           /\ call' = [call EXCEPT ![t].retry = @ - 1]
           /\ UNCHANGED << place, owner, done, want >>
  <2>1. CallOK(t)' /\ Covered(call'[t]) = Covered(call[t])
    BY <1>8, PolledOK
  <2>2. DOMAIN call' = Threads /\ \A u \in Threads \ {t} : call'[u] = call[u]
    BY <1>2, <1>8
  <2>3. Proceed(t, "busy") /\ "busy" \in Locked
    BY <1>2, <1>8 DEF Proceed, Locked
  <2> QED
    BY <1>2, <1>4, <1>8, <2>1, <2>2, <2>3, OwnerGoesOn
<1>9. CASE GiveUp(t)
  <2>1. CASE Unlock(t, FALSE, << >>)
    BY <1>2, <1>3, <2>1, OwnerUnlocks
  <2>2. CASE Proceed(t, "disable") /\ UNCHANGED << owner, call, done, want >>
    BY <1>5, <1>6, <2>2
  <2> QED
    BY <1>9, <2>1, <2>2 DEF GiveUp
<1> QED
  BY <1>1, <1>7, <1>8, <1>9

\* The chip finishes an erasure or a programming.
LEMMA ChipFinishOK ==
  ASSUME FlashInv, ChipFinish
  PROVE  FlashInv'
<1>1. chip' = Finished(chip) /\ UNCHANGED << owner, place, call, want >>
  BY DEF ChipFinish
<1>2. ChipOK(chip') /\ ~chip'.busy
  <2>1. chip \in Chip /\ ChipOK(chip)
    BY DEF FlashInv, ChipOK
  <2>2. /\ chip' \in Chip /\ ~chip'.busy /\ chip'.low = chip.low /\ chip'.in = chip.in
    BY <1>1, <2>1 DEF Finished, Chip
  <2> QED
    BY <2>1, <2>2 DEF ChipOK
<1>3. PendingOK'
  BY <1>2 DEF PendingOK
<1>4. \A u \in Threads : CallOK(u)'
  <2>1. ASSUME NEW u \in Threads PROVE CallOK(u)'
    <3>1. CallOK(u) /\ call'[u] = call[u] /\ place'[u] = place[u]
      BY <1>1 DEF FlashInv
    <3> QED
      BY <3>1, CallKept
  <2> QED
    BY <2>1
<1> QED
  BY <1>1, <1>2, <1>3, <1>4 DEF FlashInv

-----------------------------------------------------------------------------
(* The flash changes only as it was asked to. *)

\* A blank chip and idle threads.
LEMMA FlashInvInit ==
  ASSUME SfudAssumption, FlashInit
  PROVE  FlashInv
<1>1. \A t \in Threads : place[t] = "idle" /\ call[t] = NoCall
  BY DEF FlashInit
<1>2. ChipOK(chip) /\ ~chip.busy /\ chip.cells \in [Address -> Bits]
  <2>1. << >> \in Seq(Int) /\ [a \in Address |-> Erased] \in [Address -> Bits]
    BY DEF Erased, Bits
  <2>2. chip = BlankChip
    BY DEF FlashInit
  <2>3. chip \in Chip
    BY <2>1, <2>2 DEF Chip, BlankChip
  <2> QED
    BY <2>2, <2>3 DEF ChipOK, BlankChip, Chip
<1>3. want \in [Address -> Bits \cup {Unsure}]
  <2>1. want = chip.cells
    BY DEF FlashInit
  <2> QED
    BY <1>2, <2>1
<1>4. \A t \in Threads : CallOK(t)
  BY <1>1 DEF CallOK, Calls, NoCall
<1>5. \A t \in Threads : owner = t <=> place[t] \in Locked
  BY <1>1 DEF FlashInit, SfudAssumption, Locked
<1>6. /\ place \in [Threads -> {"idle", "lock"} \cup Locked] /\ DOMAIN call = Threads
      /\ owner = NoOwner
  BY DEF FlashInit
<1> QED
  BY <1>2, <1>3, <1>4, <1>5, <1>6 DEF FlashInv, PendingOK

LEMMA FlashInvNext ==
  ASSUME SfudAssumption, FlashInv, [FlashNext]_flashVars
  PROVE  FlashInv'
<1>1. CASE UNCHANGED flashVars
  BY <1>1 DEF flashVars, FlashInv, PendingOK, ChipOK, CallOK, Covered
<1>2. ASSUME NEW t \in Threads, Serve(t) PROVE FlashInv'
  <2>1. CASE Acquire(t)
    BY <2>1, AcquireOK
  <2>2. CASE AcquireTimeout(t)
    BY <2>2, AcquireTimeoutOK
  <2>3. CASE EnableWrite(t)
    BY <2>3, EnableWriteOK
  <2>4. CASE Transfer(t)
    BY <2>4, TransferOK
  <2>5. CASE TransferRead(t)
    <3> DEFINE items == << READ, call[t].from >>
    <3>1. call[t].from \in Nat
      BY DEF FlashInv, CallOK, Calls
    <3>2. items \in Seq(Int) /\ items # << >> /\ Harmless(items)
      BY <3>1 DEF READ, Harmless, PP, SE
    <3>3. place[t] \in Locked /\ call[t].kind \in {"read", "id"} /\ Ask(t, items)
      BY <2>5 DEF TransferRead, Locked
    <3> HIDE DEF items
    <3> QED
      BY <3>2, <3>3, AskOK
  <2>6. CASE TransferId(t)
    <3> DEFINE items == << ID >>
    <3>1. items \in Seq(Int) /\ items # << >> /\ Harmless(items)
      BY DEF ID, Harmless, PP, SE
    <3>2. place[t] \in Locked /\ call[t].kind \in {"read", "id"} /\ Ask(t, items)
      BY <2>6 DEF TransferId, Locked
    <3> HIDE DEF items
    <3> QED
      BY <3>1, <3>2, AskOK
  <2>7. CASE WaitBusy(t)
    BY <2>7, WaitBusyOK
  <2>8. CASE DisableWrite(t)
    BY <2>8, DisableWriteOK
  <2> QED
    BY <1>2, <2>1, <2>2, <2>3, <2>4, <2>5, <2>6, <2>7, <2>8 DEF Serve
<1>3. ASSUME NEW t \in Threads, NEW kind \in Kinds, NEW range \in Ranges,
             Request(t, kind, range)
      PROVE  FlashInv'
  BY <1>3, RequestOK
<1>4. CASE ChipFinish
  BY <1>4, ChipFinishOK
<1> QED
  BY <1>1, <1>2, <1>3, <1>4 DEF FlashNext

\* The invariant gives every variable its type.
LEMMA FlashTyped ==
  ASSUME FlashInv
  PROVE  SfudTypeOK
<1>1. chip.cells \in [Address -> Bits] /\ chip.todo \in [Address -> Bits]
  BY DEF FlashInv, ChipOK, Chip
<1>2. {chip.low, chip.wel, chip.busy} \subseteq BOOLEAN
  BY DEF FlashInv, ChipOK, Chip
<1> QED
  BY <1>1, <1>2 DEF FlashInv, SfudTypeOK, Locked

\* Only the end of an erasure or of a programming changes the flash: no message
\* does.
LEMMA FinishChanges ==
  ASSUME SfudAssumption, FlashInv, FlashNext, ~ChipFinish
  PROVE  chip'.cells = chip.cells
<1>1. ChipOK(chip) /\ TRUE \in BOOLEAN /\ FALSE \in BOOLEAN
  BY DEF FlashInv
<1>2. CASE UNCHANGED chip
  BY <1>2
<1>3. ASSUME NEW t \in Threads, Transfer(t) PROVE chip'.cells = chip.cells
  <2>1. PICK r \in Sent(chip, Command(t), TRUE, TRUE) : chip' = r[1]
    BY <1>3 DEF Transfer
  <2>2. CallOK(t) /\ place[t] = "transfer" /\ call[t].kind \in {"erase", "write"}
    BY <1>3 DEF Transfer, FlashInv
  <2>3. Begins(chip, r[1], Covered(call[t]))
    BY <1>1, <2>2, Transferred
  <2> QED
    BY <2>1, <2>3 DEF Begins
<1>4. ASSUME NEW t \in Threads, WaitBusy(t) PROVE chip'.cells = chip.cells
  <2>1. PICK s \in StatusRead(chip) : chip' = s[1]
    BY <1>4 DEF WaitBusy
  <2>2. Quiet(chip, s[1])
    BY <1>1, StatusReadOK
  <2> QED
    BY <2>1, <2>2 DEF Quiet
<1>5. ASSUME NEW t \in Threads, EnableWrite(t) \/ DisableWrite(t)
      PROVE  chip'.cells = chip.cells
  <2>1. PICK enabled \in BOOLEAN : \E r \in WriteEnabled(chip, enabled) : chip' = r[1]
    BY <1>1, <1>5 DEF EnableWrite, DisableWrite
  <2>2. PICK r \in WriteEnabled(chip, enabled) : chip' = r[1]
    BY <2>1
  <2>3. Quiet(chip, r[1])
    BY <1>1, WriteEnabledOK
  <2> QED
    BY <2>2, <2>3 DEF Quiet
<1>6. ASSUME NEW t \in Threads, NEW items \in Seq(Int), items # << >>, Harmless(items),
             Ask(t, items)
      PROVE  chip'.cells = chip.cells
  <2>1. PICK r \in Sent(chip, items, TRUE, FALSE) :
          \/ chip' = r[1]
          \/ r[2] /\ chip' = Deselect(r[1])
    BY <1>6 DEF Ask
  <2>2. /\ ChipOK(r[1]) /\ Quiet(chip, r[1]) /\ (r[2] => r[1].low /\ r[1] \in Chip)
    BY <1>1, <1>6, SentQuiet
  <2>3. CASE r[2] /\ chip' = Deselect(r[1])
    <3>1. r[1] \in Chip /\ (r[1].busy => r[1].wel) /\ Harmless(r[1].in)
      BY <2>2, <2>3 DEF ChipOK, Harmless
    <3>2. Quiet(r[1], chip')
      BY <2>3, <3>1, DeselectQuiet
    <3> QED
      BY <2>2, <3>2 DEF Quiet
  <2> QED
    BY <2>1, <2>2, <2>3 DEF Quiet
<1>7. ASSUME NEW t \in Threads, TransferRead(t) PROVE chip'.cells = chip.cells
  <2> DEFINE items == << READ, call[t].from >>
  <2>1. call[t].from \in Nat
    BY DEF FlashInv, CallOK, Calls
  <2>2. items \in Seq(Int) /\ items # << >> /\ Harmless(items)
    BY <2>1 DEF READ, Harmless, PP, SE
  <2>3. Ask(t, items)
    BY <1>7 DEF TransferRead
  <2> HIDE DEF items
  <2> QED
    BY <1>6, <2>2, <2>3
<1>8. ASSUME NEW t \in Threads, TransferId(t) PROVE chip'.cells = chip.cells
  <2> DEFINE items == << ID >>
  <2>1. items \in Seq(Int) /\ items # << >> /\ Harmless(items)
    BY DEF ID, Harmless, PP, SE
  <2>2. Ask(t, items)
    BY <1>8 DEF TransferId
  <2> HIDE DEF items
  <2> QED
    BY <1>6, <2>1, <2>2
<1>9. ASSUME NEW t \in Threads, Serve(t) PROVE chip'.cells = chip.cells
  <2>1. Acquire(t) \/ AcquireTimeout(t) => UNCHANGED chip
    BY DEF Acquire, AcquireTimeout
  <2> QED
    BY <1>2, <1>3, <1>4, <1>5, <1>7, <1>8, <1>9, <2>1 DEF Serve
<1>10. ASSUME NEW t \in Threads, NEW kind \in Kinds, NEW range \in Ranges,
              Request(t, kind, range)
       PROVE  UNCHANGED chip
  BY <1>10 DEF Request
<1> QED
  BY <1>2, <1>9, <1>10 DEF FlashNext

\* The lock is held exactly by the thread that is between its acquisition and its
\* release, on the paths of failure as well (sfud_lock).
THEOREM SfudTyped ==
  ASSUME SfudAssumption
  PROVE  FlashSpec => []SfudTypeOK
<1>1. FlashInit => FlashInv
  BY FlashInvInit
<1>2. FlashInv /\ [FlashNext]_flashVars => FlashInv'
  BY FlashInvNext
<1>3. FlashInv => SfudTypeOK
  BY FlashTyped
<1> QED
  BY <1>1, <1>2, <1>3, PTL DEF FlashSpec

\* Whatever messages fail, however late the chip finishes and whatever the
\* threads ask for, no address of the flash changes that no erase or write was
\* asked to change (sfud_erase, sfud_write, set_write_enabled, wait_busy).
THEOREM OnlyAskedHolds ==
  ASSUME SfudAssumption
  PROVE  FlashSpec => OnlyAsked
<1>1. FlashInit => FlashInv
  BY FlashInvInit
<1>2. FlashInv /\ [FlashNext]_flashVars => FlashInv'
  BY FlashInvNext
<1>3. FlashInv /\ FlashInv' /\ [FlashNext]_flashVars => [AskedFor /\ SfudTypeOK']_flashVars
  <2> SUFFICES ASSUME FlashInv, FlashInv', FlashNext PROVE AskedFor /\ SfudTypeOK'
    OBVIOUS
  <2>1. SfudTypeOK'
    BY FlashTyped, PTL
  <2>2. CASE ~ChipFinish
    <3>1. chip'.cells = chip.cells
      BY <2>2, FinishChanges
    <3> QED
      BY <2>1, <3>1 DEF AskedFor
  <2>3. CASE ChipFinish
    <3>1. chip.busy /\ chip'.cells = chip.todo
      BY <2>3 DEF ChipFinish, Finished, FlashInv, ChipOK, Chip
    <3>2. AskedFor
      BY <3>1 DEF AskedFor, FlashInv, PendingOK
    <3> QED
      BY <2>1, <3>2
  <2> QED
    BY <2>2, <2>3
<1> QED
  BY <1>1, <1>2, <1>3, PTL DEF FlashSpec, OnlyAsked

-----------------------------------------------------------------------------
(* What the flash holds. *)

\* What the flash holds below n is what the call of t is to leave there.
Upto(t, n) == [x \in Address |-> IF x < n THEN Believed(t, TRUE, x) ELSE want[x]]

\* The unit that a call works on: an erase works on whole sectors.
StartOf(c) == IF c.kind = "write" THEN c.addr ELSE UnitAt(c.addr, Sector)
EndOf(c)   == IF c.kind = "write" THEN c.addr + PageSize(c)
              ELSE UnitAt(c.addr, Sector) + Sector

\* Where a call may be, and that it does not pass the end of the flash.
PlaceOK(t) ==
  LET c == call[t]
  IN  /\ c.kind = "none" => place[t] = "idle"
      /\ c.kind = "id" => place[t] \in {"lock", "transfer"}
      /\ c.kind = "read" => place[t] \in {"lock", "busy", "transfer"}
      /\ c.kind # "id" => c.from + c.length <= Capacity
      /\ place[t] = "lock" => c.addr = c.from /\ c.size = c.length

\* What the owner of sfud_lock has done of its call.
WorkOK(t) ==
  LET c == call[t]
  IN  IF c.kind \notin {"erase", "write"} THEN ~chip.busy /\ chip.cells = want
      ELSE /\ chip.busy => place[t] = "busy"
           /\ place[t] = "enable" => chip.cells = Upto(t, StartOf(c))
           /\ place[t] = "transfer" => chip.wel /\ chip.cells = Upto(t, StartOf(c))
           /\ place[t] = "busy" =>
                (IF chip.busy THEN chip.todo ELSE chip.cells) = Upto(t, EndOf(c))
           /\ place[t] = "disable" => chip.cells = Upto(t, Capacity)

\* As long as nothing fails, the flash holds what the callers believe, but for
\* what the owner of sfud_lock has done of its call.
Faithful ==
  /\ faults \in Nat /\ \A t \in Threads : PlaceOK(t)
  /\ faults = 0 =>
       /\ want \in [Address -> Bits] /\ ~chip.low
       /\ owner = NoOwner => ~chip.busy /\ chip.cells = want
       /\ \A t \in Threads : owner = t => WorkOK(t)

\* Multiples of n are n apart.
LEMMA MultiplesApart ==
  ASSUME NEW n \in Nat \ {0}, NEW p \in Int, NEW q \in Int, p < q
  PROVE  n * p + n <= n * q
<1> DEFINE d == q - p - 1
<1>1. d \in Nat /\ q = p + 1 + d
  OBVIOUS
<1> HIDE DEF d
<1>2. n * q = n * p + n + n * d
  <2>1. n * (p + 1 + d) = n * p + n + n * d
    BY <1>1
  <2> QED
    BY <1>1, <2>1
<1>3. n * d \in Nat /\ n * p \in Int
  BY <1>1
<1> QED
  BY <1>2, <1>3

\* The unit of an address is the multiple of its size at or below it.
LEMMA UnitIs ==
  ASSUME NEW n \in Nat \ {0}, NEW a \in Nat
  PROVE  \E q \in Int : /\ UnitAt(a, n) = n * q /\ n * q \in Int
                        /\ n * q <= a /\ a < n * q + n
<1> DEFINE q == a \div n
<1>1. q \in Int /\ a % n \in 0..n-1
  BY Remainder
<1>2. a = n * q + (a % n)
  OBVIOUS
<1>3. n * q \in Int
  BY <1>1
<1> HIDE DEF q
<1> DEFINE m == n * q
           r == a % n
<1>4. m \in Int /\ r \in 0..n-1 /\ a = m + r /\ UnitAt(a, n) = a - r
  BY <1>1, <1>2, <1>3 DEF UnitAt
<1> HIDE DEF m, r
<1>5. UnitAt(a, n) = m /\ m <= a /\ a < m + n
  BY <1>4
<1> QED
  BY <1>1, <1>4, <1>5 DEF m

\* Two addresses are in one unit, or a unit apart.
LEMMA Units ==
  ASSUME NEW n \in Nat \ {0}, NEW a \in Nat, NEW x \in Nat
  PROVE  /\ UnitAt(x, n) = UnitAt(a, n) <=> UnitAt(a, n) <= x /\ x < UnitAt(a, n) + n
         /\ x < UnitAt(a, n) => UnitAt(x, n) < UnitAt(a, n)
         /\ x >= UnitAt(a, n) + n => UnitAt(x, n) >= UnitAt(a, n) + n
<1>1. PICK q \in Int : /\ UnitAt(a, n) = n * q /\ n * q \in Int
                       /\ n * q <= a /\ a < n * q + n
  BY UnitIs
<1>2. PICK p \in Int : /\ UnitAt(x, n) = n * p /\ n * p \in Int
                       /\ n * p <= x /\ x < n * p + n
  BY UnitIs
<1>3. p < q => n * p + n <= n * q
  BY MultiplesApart
<1>4. q < p => n * q + n <= n * p
  BY MultiplesApart
<1>5. p = q => n * p = n * q
  OBVIOUS
<1>6. p < q \/ q < p \/ p = q
  OBVIOUS
<1> DEFINE m == n * q
           l == n * p
<1>7. m \in Int /\ l \in Int /\ m <= a /\ a < m + n /\ l <= x /\ x < l + n
  BY <1>1, <1>2
<1>8. l + n <= m \/ m + n <= l \/ l = m
  BY <1>3, <1>4, <1>5, <1>6
<1>9. UnitAt(a, n) = m /\ UnitAt(x, n) = l
  BY <1>1, <1>2
<1> HIDE DEF m, l
<1> QED
  BY <1>7, <1>8, <1>9

\* Addresses within what is left of the page are in the page, in their order.
LEMMA PageHolds ==
  ASSUME NEW n \in Nat \ {0}, NEW a \in Nat, NEW x \in Nat, NEW l \in Nat,
         l <= n - (a % n), a <= x, x < a + l
  PROVE  UnitAt(x, n) = UnitAt(a, n) /\ (x - a) % n = x - a
<1>1. a % n \in 0..n-1 /\ UnitAt(a, n) \in Nat
  BY Remainder
<1>2. UnitAt(a, n) = a - (a % n)
  BY DEF UnitAt
<1>3. UnitAt(a, n) <= x /\ x < UnitAt(a, n) + n /\ x - a \in 0..n-1
  BY <1>1, <1>2
<1>4. (x - a) % n = x - a
  BY <1>3
<1> QED
  BY <1>3, <1>4, Units

\* What may be believed of a call depends on its kind and its range.
LEMMA BelievedSame ==
  ASSUME NEW t, want' = want, call'[t].kind = call[t].kind,
         call'[t].from = call[t].from, call'[t].length = call[t].length,
         NEW x
  PROVE  Believed(t, TRUE, x)' = Believed(t, TRUE, x)
BY DEF Believed, Covered

-----------------------------------------------------------------------------
(* Messages that pass. *)

\* The chip after a message that has arrived.
Whole(c, items, release, d) ==
  \E b \in Chip : /\ Quiet(c, b) /\ b.wel = c.wel /\ b.low /\ b.in = items
                  /\ d = Released(b, release)

\* A message that passes, to a chip that no other has left selected, arrives.
LEMMA SentWhole ==
  ASSUME NEW c, ChipOK(c), ~c.low, NEW items \in Seq(Int), items # << >>,
         NEW release \in BOOLEAN, NEW r \in Sent(c, items, TRUE, release), r[2]
  PROVE  Whole(c, items, release, r[1])
<1>1. r[1] = Released(Send(Select(c), items), release)
  <2>1. Arrived(c, items, release, r)
    BY SentIs
  <2> QED
    BY <2>1 DEF Arrived
<1> DEFINE a == Select(c)
           b == Send(a, items)
<1>2. a \in Chip /\ Quiet(c, a) /\ a.wel = c.wel /\ a.low /\ a.in = << >>
  BY SelectOK
<1> HIDE DEF a
<1>3. b \in Chip /\ Quiet(a, b) /\ b.wel = a.wel /\ b.low = a.low /\ b.in = items
  BY ONLY <1>2, SendOK
<1>4. Quiet(c, b)
  BY <1>2, <1>3 DEF Quiet
<1> QED
  BY <1>1, <1>2, <1>3, <1>4 DEF a, Whole

\* Reading the status leaves the chip as it was.
LEMMA StatusTrue ==
  ASSUME NEW c, ChipOK(c), ~c.low, NEW r \in StatusRead(c), r[2].ok
  PROVE  ~r[1].low /\ r[1].wel = c.wel
<1> DEFINE items == << RDSR >>
<1>1. items \in Seq(Int) /\ items # << >> /\ FALSE \in BOOLEAN
  BY DEF RDSR
<1>2. PICK m \in Sent(c, items, TRUE, FALSE) :
        r \in IF m[2]
                THEN {<< Deselect(m[1]), s >> : s \in Statuses(m[1])} \cup
                     (IF MayFail THEN {<< Deselect(m[1]), NoStatus >>} ELSE {})
                ELSE {<< m[1], NoStatus >>}
  BY DEF StatusRead
<1>3. m[2] /\ r[1] = Deselect(m[1])
  <2>1. r = << m[1], NoStatus >> => ~r[2].ok
    BY DEF NoStatus
  <2> QED
    BY <1>2, <2>1
<1> HIDE DEF items
<1>4. PICK b \in Chip : /\ Quiet(c, b) /\ b.wel = c.wel /\ b.low /\ b.in = items
                       /\ m[1] = Released(b, FALSE)
  <2>1. Whole(c, items, FALSE, m[1])
    BY <1>1, <1>3, SentWhole
  <2> QED
    BY <2>1 DEF Whole
<1>5. r[1] = [b EXCEPT !.low = FALSE]
  BY <1>3, <1>4 DEF Released, Deselect, items, RDSR, Torn, WREN, WRDI, PP, SE
<1> QED
  BY <1>4, <1>5 DEF Chip

\* set_write_enabled does what it says, but to a busy chip.
LEMMA EnabledTrue ==
  ASSUME NEW c, ChipOK(c), ~c.low, NEW enabled \in BOOLEAN,
         NEW r \in WriteEnabled(c, enabled), ~r[3]
  PROVE  ~r[1].low /\ (~c.busy => r[2] /\ r[1].wel = enabled)
<1> DEFINE items == << IF enabled THEN WREN ELSE WRDI >>
<1>1. items \in Seq(Int) /\ items # << >> /\ Harmless(items) /\ TRUE \in BOOLEAN
  BY DEF WREN, WRDI, Harmless, PP, SE
<1>2. PICK m \in Sent(c, items, TRUE, TRUE) :
        r \in IF m[2]
                THEN {<< s[1], s[2].ok /\ s[2].wel = enabled, ~s[2].ok >>
                      : s \in StatusRead(m[1])}
                ELSE {<< m[1], FALSE, TRUE >>}
  BY DEF WriteEnabled
<1>3. m[2]
  <2>1. r = << m[1], FALSE, TRUE >> => r[3]
    OBVIOUS
  <2> QED
    BY <1>2, <2>1
<1> HIDE DEF items
<1>4. PICK s \in StatusRead(m[1]) :
        r = << s[1], s[2].ok /\ s[2].wel = enabled, ~s[2].ok >>
  BY <1>2, <1>3
<1>5. r[1] = s[1] /\ r[2] = (s[2].ok /\ s[2].wel = enabled) /\ s[2].ok
  BY <1>4
<1>6. ChipOK(m[1]) /\ ~m[1].low
  BY <1>1, SentQuiet
<1>7. ~s[1].low /\ s[1].wel = m[1].wel /\ s[2].wel = s[1].wel
  BY <1>5, <1>6, StatusTrue, StatusReadOK
<1>8. ASSUME ~c.busy PROVE m[1].wel = enabled
  <2>1. PICK b \in Chip : /\ Quiet(c, b) /\ b.wel = c.wel /\ b.low /\ b.in = items
                         /\ m[1] = Released(b, TRUE)
    <3>1. Whole(c, items, TRUE, m[1])
      BY <1>1, <1>3, SentWhole
    <3> QED
      BY <3>1 DEF Whole
  <2>2. ~b.busy /\ b.in = << IF enabled THEN WREN ELSE WRDI >>
    BY <1>8, <2>1 DEF Quiet, items
  <2>3. m[1] = [[b EXCEPT !.low = FALSE] EXCEPT !.wel = enabled]
    <3>1. m[1] = Deselect(b)
      BY <2>1 DEF Released
    <3>2. CASE enabled
      BY <2>2, <3>1, <3>2 DEF Deselect, Torn, WREN, WRDI, PP, SE
    <3>3. CASE ~enabled
      <4>1. enabled = FALSE /\ b.in = << WRDI >>
        BY <2>2, <3>3
      <4>2. m[1] = [[b EXCEPT !.low = FALSE] EXCEPT !.wel = FALSE]
        BY <2>2, <3>1, <4>1 DEF Deselect, Torn, WREN, WRDI, PP, SE
      <4> QED
        BY <4>1, <4>2
    <3> QED
      BY <3>2, <3>3
  <2> QED
    BY <2>3 DEF Chip
<1> QED
  BY <1>5, <1>7, <1>8

\* The message of an erase that passes.
LEMMA EraseMessage ==
  ASSUME SfudAssumption, NEW t \in Threads, CallOK(t), call[t].kind = "erase",
         NEW c, ChipOK(c), ~c.low, ~c.busy, c.wel,
         NEW r \in Sent(c, Command(t), TRUE, TRUE), r[2]
  PROVE  /\ ~r[1].low /\ r[1].busy
         /\ r[1].todo = ErasedAt(c.cells, call[t].addr)
<1> DEFINE k == call[t]
<1>1. k.addr \in Nat
  BY DEF CallOK, Calls
<1>2. Command(t) = << SE, k.addr >>
  BY CommandIs
<1> HIDE DEF k
<1>3. Command(t) \in Seq(Int) /\ Command(t) # << >> /\ TRUE \in BOOLEAN
  BY <1>1, <1>2 DEF SE
<1>4. PICK b \in Chip : /\ Quiet(c, b) /\ b.wel = c.wel /\ b.low /\ b.in = Command(t)
                        /\ r[1] = Released(b, TRUE)
  <2>1. Whole(c, Command(t), TRUE, r[1])
    BY <1>3, SentWhole
  <2> QED
    BY <2>1 DEF Whole
<1>5. /\ b.in = << SE, k.addr >> /\ ~b.busy /\ b.wel /\ b.cells = c.cells
      /\ r[1] = Deselect(b)
  BY <1>2, <1>4 DEF Quiet, Released
<1>6. /\ ~\E i \in DOMAIN b.in : b.in[i] = Torn
      /\ b.in # << >> /\ b.in[1] = SE /\ b.in[2] = k.addr /\ Len(b.in) = 2
  BY <1>1, <1>5 DEF Torn, SE
<1>7. r[1] = [[b EXCEPT !.low = FALSE] EXCEPT
                !.busy = TRUE, !.todo = ErasedAt(b.cells, b.in[2])]
  BY <1>5, <1>6, DeselectErases
<1>8. ~r[1].low /\ r[1].busy /\ r[1].todo = ErasedAt(b.cells, b.in[2])
  BY <1>4, <1>7 DEF Chip
<1> QED
  BY <1>5, <1>6, <1>8 DEF k

\* The bytes of the page that a write has come to.
PageOf(t) ==
  LET c == call[t]
  IN  SubSeq(Payload[t], c.addr - c.from + 1, c.addr - c.from + PageSize(c))

\* A piece of a sequence, element by element.
LEMMA PieceIs ==
  ASSUME NEW S, NEW s \in Seq(S), NEW a \in Nat, NEW n \in Nat, a + n <= Len(s)
  PROVE  /\ SubSeq(s, a + 1, a + n) \in Seq(S) /\ Len(SubSeq(s, a + 1, a + n)) = n
         /\ \A i \in 1..n : SubSeq(s, a + 1, a + n)[i] = s[a + i]
<1>1. SubSeq(s, a + 1, a + n) = [i \in 1..n |-> s[a + i]]
  <2>1. (a + n) - (a + 1) + 1 = n /\ \A i \in 1..n : (a + 1) + i - 1 = a + i
    OBVIOUS
  <2>2. SubSeq(s, a + 1, a + n) = [i \in 1..(a + n) - (a + 1) + 1 |-> s[(a + 1) + i - 1]]
    OBVIOUS
  <2> QED
    BY <2>1, <2>2
<1>2. \A i \in 1..n : s[a + i] \in S
  OBVIOUS
<1> QED
  BY <1>1, <1>2

\* These bytes are those that the caller gives for the addresses of the page.
LEMMA PageIs ==
  ASSUME SfudAssumption, NEW t \in Threads, CallOK(t), call[t].kind = "write",
         call[t].size # 0
  PROVE  LET k == call[t]
             n == PageSize(k)
         IN  /\ n \in Nat \ {0} /\ n <= k.size /\ n <= Page - (k.addr % Page)
             /\ PageOf(t) \in Seq(Bits) /\ Len(PageOf(t)) = n
             /\ \A i \in 1..n : PageOf(t)[i] = Payload[t][k.addr - k.from + i]
<1> DEFINE k == call[t]
           n == PageSize(k)
           p == Payload[t]
           d == k.addr - k.from
<1>1. /\ k.addr \in Nat /\ k.from \in Nat /\ k.size \in Nat \ {0} /\ k.length \in Nat
      /\ k.from <= k.addr /\ k.addr + k.size = k.from + k.length
      /\ k.length <= Len(p)
  BY DEF CallOK, Calls
<1>2. p \in Seq(Bits) /\ Len(p) \in Nat /\ Page \in Nat \ {0}
  BY DEF SfudAssumption, FlashAssumption
<1>3. k.addr % Page \in 0..Page-1
  BY <1>1, <1>2, Remainder
<1>4. n \in Nat \ {0} /\ n <= k.size /\ n <= Page - (k.addr % Page)
  BY <1>1, <1>2, <1>3, SMTT(20) DEF PageSize
<1>5. PageOf(t) = SubSeq(p, d + 1, d + n)
  BY DEF PageOf
<1> HIDE DEF k, n, p
<1>6. d \in Nat /\ d + n <= Len(p)
  BY <1>1, <1>2, <1>4, SMTT(20)
<1> HIDE DEF d
<1>7. /\ SubSeq(p, d + 1, d + n) \in Seq(Bits) /\ Len(SubSeq(p, d + 1, d + n)) = n
      /\ \A i \in 1..n : SubSeq(p, d + 1, d + n)[i] = p[d + i]
  <2>1. p \in Seq(Bits) /\ d \in Nat /\ n \in Nat /\ d + n <= Len(p)
    BY <1>2, <1>4, <1>6
  <2> QED
    BY <2>1, PieceIs
<1> QED
  BY <1>4, <1>5, <1>7 DEF k, n, p, d

\* The message of a write that passes.
LEMMA WriteMessage ==
  ASSUME SfudAssumption, NEW t \in Threads, CallOK(t), call[t].kind = "write",
         call[t].size # 0,
         NEW c, ChipOK(c), ~c.low, ~c.busy, c.wel,
         NEW r \in Sent(c, Command(t), TRUE, TRUE), r[2]
  PROVE  /\ ~r[1].low /\ r[1].busy
         /\ r[1].todo = ProgrammedAt(c.cells, call[t].addr, PageOf(t))
<1> DEFINE k == call[t]
           s == PageOf(t)
           q == << PP, k.addr >> \o s
<1>1. k.addr \in Nat
  BY DEF CallOK, Calls
<1>2. s \in Seq(Bits) /\ Len(s) \in Nat \ {0}
  BY PageIs
<1>3. Command(t) = q
  BY DEF Command, PageOf
<1> HIDE DEF k, s
<1>4. s \in Seq(Int)
  BY <1>2 DEF Bits
<1>5. /\ q \in Seq(Int) /\ Len(q) = Len(s) + 2 /\ q[1] = PP /\ q[2] = k.addr
      /\ \A i \in 1..Len(s) : q[i + 2] = s[i]
  BY <1>1, <1>4 DEF PP
<1>6. Tail(Tail(q)) = s
  <2>1. << PP, k.addr >> \in Seq(Int)
    BY <1>1 DEF PP
  <2>2. PICK u : u = Tail(q)
    OBVIOUS
  <2> HIDE DEF q
  <2>3. u \in Seq(Int) /\ Len(u) = Len(s) + 1 /\ \A i \in 1..Len(s)+1 : u[i] = q[i + 1]
    BY <1>2, <1>5, <2>2
  <2>4. /\ Tail(u) \in Seq(Int) /\ Len(Tail(u)) = Len(s)
        /\ \A i \in 1..Len(s) : Tail(u)[i] = u[i + 1]
    BY <1>2, <2>3
  <2>5. \A i \in 1..Len(s) : Tail(u)[i] = s[i]
    <3> SUFFICES ASSUME NEW i \in 1..Len(s) PROVE Tail(u)[i] = s[i]
      OBVIOUS
    <3>1. Tail(u)[i] = u[i + 1]
      BY <2>4
    <3>2. i + 1 \in 1..Len(s)+1 /\ (i + 1) + 1 = i + 2
      BY <1>2
    <3>3. u[i + 1] = q[(i + 1) + 1]
      BY <2>3, <3>2
    <3>4. q[i + 2] = s[i]
      BY <1>5
    <3> QED
      BY <3>1, <3>2, <3>3, <3>4
  <2>6. \A v \in Seq(Int) : /\ Len(v) = Len(s) /\ \A i \in 1..Len(s) : v[i] = s[i]
                           => v = s
    BY <1>4, SMTT(60)
  <2>7. Tail(u) = s
    BY <2>4, <2>5, <2>6
  <2> QED
    BY <2>2, <2>7
<1>7. \A i \in DOMAIN q : q[i] # Torn
  <2> SUFFICES ASSUME NEW i \in DOMAIN q PROVE q[i] # Torn
    OBVIOUS
  <2>1. i \in 1..Len(s)+2
    BY <1>5
  <2>2. CASE i \in {1, 2}
    BY <1>1, <1>5, <2>2 DEF Torn, PP
  <2>3. CASE i \notin {1, 2}
    <3>1. i - 2 \in 1..Len(s) /\ (i - 2) + 2 = i
      BY <1>2, <2>1, <2>3
    <3>2. q[i] = s[i - 2] /\ s[i - 2] \in Bits
      BY <1>2, <1>5, <3>1
    <3> QED
      BY <3>2 DEF Bits, Torn
  <2> QED
    BY <2>2, <2>3
<1> HIDE DEF q
<1>8. Command(t) \in Seq(Int) /\ Command(t) # << >> /\ TRUE \in BOOLEAN
  BY <1>2, <1>3, <1>5
<1>9. PICK b \in Chip : /\ Quiet(c, b) /\ b.wel = c.wel /\ b.low /\ b.in = Command(t)
                        /\ r[1] = Released(b, TRUE)
  <2>1. Whole(c, Command(t), TRUE, r[1])
    BY <1>8, SentWhole
  <2> QED
    BY <2>1 DEF Whole
<1>10. /\ b.in = q /\ ~b.busy /\ b.wel /\ b.cells = c.cells
       /\ r[1] = Deselect(b)
  BY <1>3, <1>9 DEF Quiet, Released
<1>11. /\ ~\E i \in DOMAIN b.in : b.in[i] = Torn
       /\ b.in # << >> /\ b.in[1] = PP /\ b.in[2] = k.addr /\ Len(b.in) > 2
       /\ Tail(Tail(b.in)) = s
  <2>1. q # << >> /\ Len(q) > 2
    BY <1>2, <1>5
  <2>2. ~\E i \in DOMAIN q : q[i] = Torn
    BY <1>7
  <2> QED
    BY ONLY <1>5, <1>6, <1>10, <2>1, <2>2
<1>12. r[1] = [[b EXCEPT !.low = FALSE] EXCEPT
                !.busy = TRUE,
                !.todo = ProgrammedAt(b.cells, b.in[2], Tail(Tail(b.in)))]
  BY <1>10, <1>11, DeselectPrograms
<1>13. ~r[1].low /\ r[1].busy /\ r[1].todo = ProgrammedAt(b.cells, b.in[2], Tail(Tail(b.in)))
  BY <1>9, <1>12 DEF Chip
<1> QED
  BY <1>10, <1>11, <1>13 DEF k, s

\* With one more sector erased the flash holds what is asked up to its end.
LEMMA ErasesSector ==
  ASSUME SfudAssumption, NEW t \in Threads, CallOK(t), place[t] = "transfer",
         call[t].kind = "erase", NEW cells, cells = Upto(t, StartOf(call[t]))
  PROVE  ErasedAt(cells, call[t].addr) = Upto(t, EndOf(call[t]))
<1> DEFINE k == call[t]
           u == UnitAt(k.addr, Sector)
<1>1. k.addr \in Nat /\ Sector \in Nat \ {0} /\ k.kind = "erase"
  BY DEF CallOK, Calls, SfudAssumption, FlashAssumption
<1>2. StartOf(k) = u /\ EndOf(k) = u + Sector /\ u \in Nat
  BY <1>1, Remainder DEF StartOf, EndOf
<1> HIDE DEF u
<1> SUFFICES ASSUME NEW x \in Address
             PROVE  (IF UnitAt(x, Sector) = u THEN Erased ELSE cells[x])
                      = (IF x < u + Sector THEN Believed(t, TRUE, x) ELSE want[x])
  BY <1>2 DEF ErasedAt, Upto, u
<1>3. x \in Nat
  BY DEF Address
<1>4. UnitAt(x, Sector) = u <=> u <= x /\ x < u + Sector
  BY <1>1, <1>3, Units DEF u
<1>5. cells[x] = IF x < u THEN Believed(t, TRUE, x) ELSE want[x]
  BY <1>2 DEF Upto
<1>6. UnitAt(x, Sector) = u => Believed(t, TRUE, x) = Erased
  <2>1. UnitAt(x, Sector) = u => x \in Covered(k)
    BY <1>1, EraseCovers DEF u
  <2> QED
    BY <1>1, <2>1 DEF Believed
<1> DEFINE b == Believed(t, TRUE, x)
<1> HIDE DEF b, k
<1>7. CASE UnitAt(x, Sector) = u
  BY <1>4, <1>6, <1>7 DEF b
<1>8. CASE UnitAt(x, Sector) # u
  <2>1. x < u \/ x >= u + Sector
    BY <1>1, <1>2, <1>3, <1>4, <1>8
  <2>2. x < u => x < u + Sector
    BY <1>1, <1>2, <1>3
  <2>3. x >= u + Sector => ~(x < u) /\ ~(x < u + Sector)
    BY <1>1, <1>2, <1>3
  <2> QED
    BY <1>5, <1>8, <2>1, <2>2, <2>3 DEF b
<1> QED
  BY <1>7, <1>8 DEF b

\* With one more page programmed it does, too.
LEMMA WritesPage ==
  ASSUME SfudAssumption, NEW t \in Threads, CallOK(t), call[t].kind = "write",
         call[t].size # 0, want \in [Address -> Bits],
         NEW cells, cells = Upto(t, StartOf(call[t]))
  PROVE  ProgrammedAt(cells, call[t].addr, PageOf(t)) = Upto(t, EndOf(call[t]))
<1> DEFINE k == call[t]
           a == k.addr
           n == PageSize(k)
           s == PageOf(t)
<1>1. /\ a \in Nat /\ k.from \in Nat /\ k.size \in Nat /\ k.length \in Nat
      /\ k.from <= a /\ a + k.size = k.from + k.length
  BY DEF CallOK, Calls
<1>2. /\ n \in Nat \ {0} /\ n <= k.size /\ n <= Page - (a % Page)
      /\ s \in Seq(Bits) /\ Len(s) = n
      /\ \A i \in 1..n : s[i] = Payload[t][a - k.from + i]
  BY PageIs
<1>3. StartOf(k) = a /\ EndOf(k) = a + n /\ Page \in Nat \ {0}
  BY DEF StartOf, EndOf, SfudAssumption, FlashAssumption
<1> HIDE DEF s, n
<1> SUFFICES ASSUME NEW x \in Address
             PROVE  (LET i == ((x - a) % Page) + 1
                     IN  IF UnitAt(x, Page) = UnitAt(a, Page) /\ i <= Len(s)
                           THEN And(cells[x], s[i] % 4) ELSE cells[x])
                      = (IF x < a + n THEN Believed(t, TRUE, x) ELSE want[x])
  BY <1>3 DEF ProgrammedAt, Upto, s
<1> DEFINE b == Believed(t, TRUE, x)
           i == ((x - a) % Page) + 1
           hit == UnitAt(x, Page) = UnitAt(a, Page) /\ i <= n
<1>4. x \in Nat
  BY DEF Address
<1>5. cells[x] = IF x < a THEN b ELSE want[x]
  BY <1>3 DEF Upto
<1>6. hit => a <= x /\ x < a + n
  BY <1>1, <1>2, <1>3, <1>4, WithinPage
<1>7. a <= x /\ x < a + n => hit /\ i = x - a + 1
  <2> SUFFICES ASSUME a <= x, x < a + n PROVE hit /\ i = x - a + 1
    OBVIOUS
  <2>1. UnitAt(x, Page) = UnitAt(a, Page) /\ (x - a) % Page = x - a
    BY <1>1, <1>2, <1>3, <1>4, PageHolds
  <2> QED
    BY <1>1, <1>2, <1>4, <2>1
<1>8. ASSUME a <= x, x < a + n PROVE And(want[x], s[x - a + 1] % 4) = b
  <2>1. x - a + 1 \in 1..n /\ a - k.from + (x - a + 1) = x - k.from + 1
    <3>1. n \in Nat /\ a \in Nat /\ k.from \in Nat
      BY <1>1, <1>2
    <3> QED
      BY <1>4, <1>8, <3>1
  <2>2. s[x - a + 1] = Payload[t][x - k.from + 1] /\ s[x - a + 1] \in Bits
    BY <1>2, <2>1
  <2>3. s[x - a + 1] % 4 = s[x - a + 1]
    <3>1. \A y \in Bits : y % 4 = y
      BY DEF Bits
    <3> QED
      BY <2>2, <3>1
  <2>4. x \in Covered(k)
    <3>1. n \in Nat /\ n <= k.size
      BY <1>2
    <3>2. x >= k.from /\ x < k.from + k.length
      BY <1>1, <1>4, <1>8, <3>1
    <3> QED
      BY <3>2 DEF Covered
  <2>5. want[x] # Unsure
    BY DEF Bits, Unsure
  <2>6. b = And(want[x], Payload[t][x - k.from + 1])
    BY <2>4, <2>5 DEF Believed
  <2> QED
    BY <2>2, <2>3, <2>6
<1> HIDE DEF b, i
<1>9. CASE hit
  <2>1. a <= x /\ x < a + n /\ i = x - a + 1 /\ ~(x < a)
    BY <1>1, <1>4, <1>6, <1>7, <1>9
  <2>2. cells[x] = want[x] /\ And(want[x], s[i] % 4) = b
    BY <1>5, <1>8, <2>1
  <2> QED
    BY <1>2, <1>9, <2>1, <2>2 DEF b, i
<1>10. CASE ~hit
  <2>1. x < a \/ ~(x < a + n)
    BY <1>1, <1>2, <1>4, <1>7, <1>10
  <2>2. x < a => x < a + n
    BY <1>1, <1>2, <1>4
  <2>3. cells[x] = IF x < a + n THEN b ELSE want[x]
    BY <1>5, <2>1, <2>2
  <2> QED
    BY <1>2, <1>10, <2>3 DEF b, i
<1> QED
  BY <1>9, <1>10

\* Nothing is to be changed below the first unit of a call.
LEMMA BelowStart ==
  ASSUME SfudAssumption, NEW t \in Threads, CallOK(t),
         call[t].kind \in {"erase", "write"}, call[t].addr = call[t].from
  PROVE  Upto(t, StartOf(call[t])) = [x \in Address |-> want[x]]
<1> DEFINE k == call[t]
<1>1. k.from \in Nat /\ k.length \in Nat /\ k.addr = k.from /\ Sector \in Nat \ {0}
  BY DEF CallOK, Calls, SfudAssumption, FlashAssumption
<1> SUFFICES ASSUME NEW x \in Address, x < StartOf(k)
             PROVE  Believed(t, TRUE, x) = want[x]
  BY DEF Upto
<1>2. x \in Nat
  BY DEF Address
<1>3. x \notin Covered(k)
  <2>1. CASE k.kind = "write"
    <3>1. ~(x >= k.from)
      BY <1>1, <1>2, <2>1 DEF StartOf
    <3> QED
      BY <2>1, <3>1 DEF Covered
  <2>2. CASE k.kind = "erase"
    <3>1. x < UnitAt(k.from, Sector)
      BY <1>1, <2>2 DEF StartOf
    <3>2. UnitAt(x, Sector) < UnitAt(k.from, Sector)
      BY <1>1, <1>2, <3>1, Units
    <3>3. UnitAt(x, Sector) \in Nat /\ UnitAt(k.from, Sector) \in Nat
      BY <1>1, <1>2, Remainder
    <3>4. ~(UnitAt(x, Sector) >= UnitAt(k.from, Sector))
      BY <3>2, <3>3
    <3> QED
      BY <2>2, <3>4 DEF Covered
  <2> QED
    BY <2>1, <2>2
<1> QED
  BY <1>3 DEF Believed

\* Nothing is to be changed behind the last unit of a call.
LEMMA BehindEnd ==
  ASSUME SfudAssumption, NEW t \in Threads, CallOK(t), call[t].size # 0,
         call[t].kind \in {"erase", "write"}, LastUnit(call[t])
  PROVE  Upto(t, EndOf(call[t])) = Upto(t, Capacity)
<1> DEFINE k == call[t]
<1>1. /\ k.from \in Nat /\ k.length \in Nat /\ k.addr \in Nat /\ k.size \in Nat
      /\ k.addr + k.size = k.from + k.length /\ Sector \in Nat \ {0}
  BY DEF CallOK, Calls, SfudAssumption, FlashAssumption
<1>2. \A x \in Address : x < Capacity /\ x \in Nat
  BY DEF Address, SfudAssumption, FlashAssumption
<1> SUFFICES ASSUME NEW x \in Address, ~(x < EndOf(k))
             PROVE  Believed(t, TRUE, x) = want[x]
  BY <1>2 DEF Upto
<1>3. x \notin Covered(k)
  <2>1. CASE k.kind = "write"
    <3>1. EndOf(k) = k.from + k.length
      BY <1>1, <2>1 DEF EndOf, LastUnit
    <3>2. ~(x < k.from + k.length)
      BY <3>1
    <3> QED
      BY <2>1, <3>2 DEF Covered
  <2>2. CASE k.kind = "erase"
    <3>1. k.addr % Sector \in 0..Sector-1 /\ UnitAt(k.addr, Sector) \in Nat
      BY <1>1, Remainder
    <3>2. UnitAt(k.addr, Sector) = k.addr - (k.addr % Sector)
      BY DEF UnitAt
    <3>3. k.size <= Sector - (k.addr % Sector)
      BY <2>2 DEF LastUnit
    <3>4. UnitAt(k.addr, Sector) + Sector >= k.from + k.length
      BY <1>1, <3>1, <3>2, <3>3
    <3>5. x >= UnitAt(k.addr, Sector) + Sector
      BY <1>1, <1>2, <2>2, <3>1 DEF EndOf
    <3>6. UnitAt(x, Sector) >= UnitAt(k.addr, Sector) + Sector
      BY <1>1, <1>2, <3>5, Units
    <3>7. UnitAt(x, Sector) \in Nat
      BY <1>1, <1>2, Remainder
    <3>8. ~(UnitAt(x, Sector) < k.from + k.length)
      BY <1>1, <3>1, <3>4, <3>6, <3>7
    <3> QED
      BY <2>2, <3>8 DEF Covered
  <2> QED
    BY <2>1, <2>2
<1> QED
  BY <1>3 DEF Believed

\* The next unit starts where this one ends.
LEMMA NextUnitIs ==
  ASSUME SfudAssumption, NEW t \in Threads, CallOK(t), NEW k, k = call[t],
         k.kind \in {"erase", "write"}
  PROVE  LET d == NextUnit(k)
         IN  /\ d.kind = k.kind /\ d.from = k.from /\ d.length = k.length
             /\ StartOf(d) = EndOf(k)
<1> DEFINE n == IF k.kind = "write" THEN PageSize(k) ELSE Sector - (k.addr % Sector)
           d == NextUnit(k)
<1>1. k \in Calls /\ k.addr \in Nat /\ Sector \in Nat \ {0}
  BY DEF CallOK, Calls, SfudAssumption, FlashAssumption
<1>2. d = [k EXCEPT !.addr = k.addr + n, !.size = k.size - n, !.retry = Retries]
  BY <1>1 DEF NextUnit
<1> HIDE DEF d, n
<1>3. d.kind = k.kind /\ d.from = k.from /\ d.length = k.length /\ d.addr = k.addr + n
  BY <1>1, <1>2 DEF Calls
<1>4. CASE k.kind = "write"
  BY <1>3, <1>4 DEF StartOf, EndOf, n, d
<1>5. CASE k.kind = "erase"
  <2>1. n = Sector - (k.addr % Sector)
    BY <1>5 DEF n
  <2>2. (k.addr + n) % Sector = 0
    BY <1>1, <2>1, NextStart
  <2>3. k.addr % Sector \in 0..Sector-1
    BY <1>1, Remainder
  <2>4. PICK y \in Nat : y = k.addr + n /\ y % Sector = 0 /\ d.addr = y
    <3>1. k.addr + n \in Nat
      BY <1>1, <2>1, <2>3
    <3> QED
      BY <1>3, <2>2, <3>1
  <2>5. UnitAt(y, Sector) = y /\ UnitAt(k.addr, Sector) + Sector = y
    <3>1. UnitAt(y, Sector) = y
      BY <2>4 DEF UnitAt
    <3>2. PICK r \in 0..Sector-1 : r = k.addr % Sector
      BY <2>3
    <3>3. UnitAt(k.addr, Sector) = k.addr - r /\ n = Sector - r
      BY <2>1, <3>2 DEF UnitAt
    <3>4. k.addr - r + Sector = y
      BY <1>1, <2>4, <3>2, <3>3
    <3> QED
      BY <3>1, <3>3, <3>4
  <2>6. StartOf(d) = UnitAt(d.addr, Sector) /\ EndOf(k) = UnitAt(k.addr, Sector) + Sector
    BY <1>3, <1>5 DEF StartOf, EndOf
  <2> QED
    BY <1>3, <2>4, <2>5, <2>6 DEF d
<1> QED
  BY <1>4, <1>5

-----------------------------------------------------------------------------
(* The steps, as long as nothing fails. *)

\* A call that has not changed is to leave the same in the flash.
LEMMA UptoCall ==
  ASSUME NEW t, want' = want, call'[t] = call[t]
  PROVE  /\ Upto(t, StartOf(call[t]))' = Upto(t, StartOf(call[t]))
         /\ Upto(t, EndOf(call[t]))' = Upto(t, EndOf(call[t]))
         /\ Upto(t, Capacity)' = Upto(t, Capacity)
BY DEF Upto, StartOf, EndOf, PageSize, Believed, Covered

LEMMA PlaceKept ==
  ASSUME NEW u \in Threads, PlaceOK(u), call'[u] = call[u], place'[u] = place[u]
  PROVE  PlaceOK(u)'
BY DEF PlaceOK

\* As long as nothing has failed, nothing had.
LEMMA FaultIs ==
  ASSUME faults \in Nat, NEW f, Fault(f)
  PROVE  faults' \in Nat /\ (faults' = 0 => faults = 0 /\ ~f)
BY DEF Fault

\* The owner of sfud_lock goes on with its call.
LEMMA OwnerFaithful ==
  ASSUME SfudAssumption, FlashInv, Faithful, NEW t \in Threads, place[t] \in Locked,
         NEW w \in Locked, Proceed(t, w), owner' = owner, want' = want,
         \A u \in Threads \ {t} : call'[u] = call[u], PlaceOK(t)', faults' \in Nat,
         faults' = 0 => faults = 0 /\ ~chip'.low /\ WorkOK(t)'
  PROVE  Faithful'
<1>1. owner = t /\ NoOwner \notin Threads
  BY DEF FlashInv, SfudAssumption
<1>2. \A u \in Threads \ {t} : place'[u] = place[u]
  BY DEF FlashInv, Proceed
<1>3. \A u \in Threads : PlaceOK(u)'
  <2>1. ASSUME NEW u \in Threads, u # t PROVE PlaceOK(u)'
    <3>1. PlaceOK(u) /\ call'[u] = call[u] /\ place'[u] = place[u]
      BY <1>2, <2>1 DEF Faithful
    <3> QED
      BY <3>1, PlaceKept
  <2> QED
    BY <2>1
<1>4. ASSUME faults' = 0
      PROVE  /\ want' \in [Address -> Bits] /\ ~chip'.low
             /\ owner' # NoOwner
             /\ \A u \in Threads : owner' = u => WorkOK(u)'
  BY <1>1, <1>4 DEF Faithful
<1> QED
  BY <1>3, <1>4 DEF Faithful

\* What the owner of sfud_lock may rely on.
LEMMA OwnerKnows ==
  ASSUME FlashInv, Faithful, NEW t \in Threads, place[t] \in Locked
  PROVE  /\ PlaceOK(t) /\ CallOK(t) /\ owner = t /\ ChipOK(chip) /\ faults \in Nat
         /\ place \in [Threads -> {"idle", "lock"} \cup Locked]
         /\ faults = 0 => ~chip.low /\ WorkOK(t) /\ want \in [Address -> Bits]
BY DEF FlashInv, Faithful

LEMMA EnableFaithful ==
  ASSUME SfudAssumption, FlashInv, Faithful, NEW t \in Threads, EnableWrite(t)
  PROVE  Faithful'
<1>1. PICK r \in WriteEnabled(chip, TRUE) :
        /\ chip' = r[1] /\ Proceed(t, IF r[2] THEN "transfer" ELSE "disable")
        /\ Fault(r[3])
  BY DEF EnableWrite
<1>2. place[t] = "enable" /\ place[t] \in Locked /\ UNCHANGED << owner, call, want >>
  BY DEF EnableWrite, Locked
<1>3. /\ PlaceOK(t) /\ CallOK(t) /\ owner = t /\ ChipOK(chip) /\ faults \in Nat
      /\ place \in [Threads -> {"idle", "lock"} \cup Locked]
      /\ faults = 0 => ~chip.low /\ WorkOK(t) /\ want \in [Address -> Bits]
  BY <1>2, OwnerKnows
<1>4. call[t].kind \in {"erase", "write"}
  BY <1>2, <1>3 DEF PlaceOK, CallOK, Calls, Kinds
<1>5. PICK w \in {"transfer", "disable"} : Proceed(t, w) /\ w = IF r[2] THEN "transfer" ELSE "disable"
  BY <1>1
<1>6. place'[t] = w /\ w \in Locked
  BY <1>3, <1>5 DEF Proceed, Locked
<1>7. PlaceOK(t)'
  BY <1>2, <1>3, <1>4, <1>6 DEF PlaceOK
<1>8. Quiet(chip, chip')
  <2>1. Quiet(chip, r[1]) /\ TRUE \in BOOLEAN
    BY <1>3, WriteEnabledOK
  <2> QED
    BY <1>1, <2>1
<1>9. faults' \in Nat /\ (faults' = 0 => faults = 0 /\ ~r[3])
  BY <1>1, <1>3, FaultIs
<1>10. ASSUME faults' = 0 PROVE ~chip'.low /\ WorkOK(t)'
  <2>1. ~chip.busy /\ chip.cells = Upto(t, StartOf(call[t])) /\ ~chip.low
    BY <1>2, <1>3, <1>4, <1>9, <1>10 DEF WorkOK
  <2>2. ~r[1].low /\ r[2] /\ r[1].wel
    BY <1>3, <1>9, <1>10, <2>1, EnabledTrue
  <2>3. place'[t] = "transfer"
    BY <1>5, <1>6, <2>2
  <2>4. ~chip'.busy /\ chip'.cells = chip.cells
    BY <1>8, <2>1 DEF Quiet
  <2>5. Upto(t, StartOf(call[t]))' = Upto(t, StartOf(call[t]))
    BY <1>2, UptoCall
  <2>6. WorkOK(t)'
    BY <1>1, <1>2, <1>4, <2>1, <2>2, <2>3, <2>4, <2>5 DEF WorkOK
  <2> QED
    BY <1>1, <2>2, <2>6
<1> QED
  BY <1>2, <1>5, <1>6, <1>7, <1>9, <1>10, OwnerFaithful

LEMMA TransferFaithful ==
  ASSUME SfudAssumption, FlashInv, Faithful, NEW t \in Threads, Transfer(t)
  PROVE  Faithful'
<1>1. PICK r \in Sent(chip, Command(t), TRUE, TRUE) :
        /\ chip' = r[1] /\ Proceed(t, IF r[2] THEN "busy" ELSE "disable")
        /\ Fault(~r[2])
  BY DEF Transfer
<1>2. /\ place[t] = "transfer" /\ place[t] \in Locked /\ call[t].kind \in {"erase", "write"}
      /\ UNCHANGED << owner, call, want >>
  BY DEF Transfer, Locked
<1>3. /\ PlaceOK(t) /\ CallOK(t) /\ owner = t /\ ChipOK(chip) /\ faults \in Nat
      /\ place \in [Threads -> {"idle", "lock"} \cup Locked]
      /\ faults = 0 => ~chip.low /\ WorkOK(t) /\ want \in [Address -> Bits]
  BY <1>2, OwnerKnows
<1>4. PICK w \in {"busy", "disable"} : Proceed(t, w) /\ w = IF r[2] THEN "busy" ELSE "disable"
  BY <1>1
<1>5. place'[t] = w /\ w \in Locked
  BY <1>3, <1>4 DEF Proceed, Locked
<1>6. PlaceOK(t)'
  BY <1>2, <1>3, <1>5 DEF PlaceOK
<1>7. faults' \in Nat /\ (faults' = 0 => faults = 0 /\ r[2])
  BY <1>1, <1>3, FaultIs
<1>8. ASSUME faults' = 0 PROVE ~chip'.low /\ WorkOK(t)'
  <2>1. ~chip.busy /\ chip.cells = Upto(t, StartOf(call[t])) /\ ~chip.low /\ chip.wel
    BY <1>2, <1>3, <1>7, <1>8 DEF WorkOK
  <2>2. place'[t] = "busy" /\ call[t].size # 0
    BY <1>2, <1>3, <1>4, <1>5, <1>7, <1>8 DEF CallOK
  <2>3. ~r[1].low /\ r[1].busy /\ r[1].todo = Upto(t, EndOf(call[t]))
    <3>1. CASE call[t].kind = "erase"
      <4>1. ~r[1].low /\ r[1].busy /\ r[1].todo = ErasedAt(chip.cells, call[t].addr)
        BY <1>3, <1>7, <1>8, <2>1, <3>1, EraseMessage
      <4>2. ErasedAt(chip.cells, call[t].addr) = Upto(t, EndOf(call[t]))
        BY <1>2, <1>3, <2>1, <3>1, ErasesSector
      <4> QED
        BY <4>1, <4>2
    <3>2. CASE call[t].kind = "write"
      <4>1. /\ ~r[1].low /\ r[1].busy
            /\ r[1].todo = ProgrammedAt(chip.cells, call[t].addr, PageOf(t))
        BY <1>3, <1>7, <1>8, <2>1, <2>2, <3>2, WriteMessage
      <4>2. ProgrammedAt(chip.cells, call[t].addr, PageOf(t)) = Upto(t, EndOf(call[t]))
        BY <1>3, <1>7, <1>8, <2>1, <2>2, <3>2, WritesPage
      <4> QED
        BY <4>1, <4>2
    <3> QED
      BY <1>2, <3>1, <3>2
  <2>4. Upto(t, EndOf(call[t]))' = Upto(t, EndOf(call[t]))
    BY <1>2, UptoCall
  <2>5. WorkOK(t)'
    BY <1>1, <1>2, <2>2, <2>3, <2>4 DEF WorkOK
  <2> QED
    BY <1>1, <2>3, <2>5
<1> QED
  BY <1>2, <1>4, <1>5, <1>6, <1>7, <1>8, OwnerFaithful

\* sfud_lock is released; a call that was successful has left what it was to.
LEMMA UnlockFaithful ==
  ASSUME SfudAssumption, FlashInv, Faithful, NEW t \in Threads, place[t] \in Locked,
         NEW ok, NEW got, Unlock(t, ok, got), ChipOK(chip'), faults' \in Nat,
         faults' = 0 => /\ faults = 0 /\ ok /\ ~chip'.low /\ ~chip'.busy
                        /\ chip'.cells = Upto(t, Capacity)
  PROVE  Faithful'
<1>1. NoOwner \notin Threads /\ owner' = NoOwner /\ Capacity \in Nat
  BY DEF SfudAssumption, FlashAssumption, Unlock
<1>2. place' = [place EXCEPT ![t] = "idle"] /\ call' = [call EXCEPT ![t] = NoCall]
  BY DEF Unlock, Return, Proceed
<1>3. \A u \in Threads \ {t} : place'[u] = place[u] /\ call'[u] = call[u]
  BY <1>2 DEF FlashInv
<1>4. place'[t] = "idle" /\ call'[t] = NoCall
  BY <1>2 DEF FlashInv
<1>5. \A u \in Threads : PlaceOK(u)'
  <2>1. ASSUME NEW u \in Threads PROVE PlaceOK(u)'
    <3>1. CASE u = t
      BY <1>1, <1>4, <3>1 DEF PlaceOK, NoCall
    <3>2. CASE u # t
      <4>1. PlaceOK(u) /\ call'[u] = call[u] /\ place'[u] = place[u]
        BY <1>3, <3>2 DEF Faithful
      <4> QED
        BY <4>1, PlaceKept
    <3> QED
      BY <3>1, <3>2
  <2> QED
    BY <2>1
<1>6. ASSUME faults' = 0
      PROVE  /\ want' \in [Address -> Bits] /\ ~chip'.low
             /\ owner' = NoOwner => ~chip'.busy /\ chip'.cells = want'
             /\ \A u \in Threads : owner' # u
  <2>1. want' = [a \in Address |-> Believed(t, TRUE, a)]
    <3>1. want' = [a \in Address |-> Believed(t, ok, a)]
      BY DEF Unlock
    <3>2. \A a \in Address : Believed(t, ok, a) = Believed(t, TRUE, a)
      BY <1>6 DEF Believed
    <3> QED
      BY <3>1, <3>2
  <2>2. Upto(t, Capacity) = [a \in Address |-> Believed(t, TRUE, a)]
    <3>1. \A a \in Address : a < Capacity
      BY <1>1 DEF Address
    <3> QED
      BY <3>1 DEF Upto
  <2>3. chip'.cells = want' /\ chip'.cells \in [Address -> Bits]
    BY <1>6, <2>1, <2>2 DEF ChipOK, Chip
  <2> QED
    BY <1>1, <1>6, <2>3
<1> QED
  BY <1>5, <1>6 DEF Faithful

\* A call that changes nothing leaves what is there.
LEMMA UptoNothing ==
  ASSUME NEW t, Covered(call[t]) = {}, want \in [Address -> Bits], NEW n
  PROVE  Upto(t, n) = want
<1>1. \A a \in Address : Believed(t, TRUE, a) = want[a]
  BY DEF Believed
<1>2. Upto(t, n) = [a \in Address |-> want[a]]
  BY <1>1 DEF Upto
<1> QED
  BY <1>2

\* What passes of sfud_read and sfud_get_id.
LEMMA AskFaithful ==
  ASSUME SfudAssumption, FlashInv, Faithful, NEW t \in Threads, place[t] \in Locked,
         call[t].kind \in {"read", "id"}, NEW items \in Seq(Int), items # << >>,
         Harmless(items), Ask(t, items)
  PROVE  /\ Faithful'
         /\ faults' = 0 /\ done'.ok =>
              \E b \in Chip : /\ ~b.busy /\ b.cells = chip.cells /\ b.in = items
                              /\ done'.kind = call[t].kind /\ done'.from = call[t].from
                              /\ done'.got = Answer(b, call[t].length)
<1>1. /\ PlaceOK(t) /\ CallOK(t) /\ owner = t /\ ChipOK(chip) /\ faults \in Nat
      /\ place \in [Threads -> {"idle", "lock"} \cup Locked]
      /\ faults = 0 => ~chip.low /\ WorkOK(t) /\ want \in [Address -> Bits]
  BY OwnerKnows
<1>2. PICK r \in Sent(chip, items, TRUE, FALSE) :
        \/ /\ ~r[2]
           /\ chip' = r[1]
           /\ Unlock(t, FALSE, << >>) /\ Fault(TRUE)
        \/ /\ r[2]
           /\ chip' = Deselect(r[1])
           /\ \/ Unlock(t, TRUE, Answer(r[1], call[t].length)) /\ Fault(FALSE)
              \/ MayFail /\ Unlock(t, FALSE, << >>) /\ Fault(TRUE)
  BY DEF Ask
<1>3. /\ ChipOK(r[1]) /\ Quiet(chip, r[1]) /\ FALSE \in BOOLEAN
      /\ r[2] => r[1].low /\ r[1] \in Chip
  BY <1>1, SentQuiet
<1>4. r[2] => ChipOK(Deselect(r[1])) /\ Quiet(chip, Deselect(r[1])) /\ ~Deselect(r[1]).low
  <2> SUFFICES ASSUME r[2]
               PROVE  /\ ChipOK(Deselect(r[1])) /\ Quiet(chip, Deselect(r[1]))
                      /\ ~Deselect(r[1]).low
    OBVIOUS
  <2>1. r[1] \in Chip /\ (r[1].busy => r[1].wel) /\ Harmless(r[1].in)
    BY <1>3 DEF ChipOK, Harmless
  <2>2. /\ ChipOK(Deselect(r[1])) /\ Quiet(r[1], Deselect(r[1])) /\ ~Deselect(r[1]).low
    BY <2>1, DeselectQuiet
  <2> QED
    BY <1>3, <2>2 DEF Quiet
<1>5. ChipOK(chip')
  BY <1>2, <1>3, <1>4
<1>6. CASE Unlock(t, FALSE, << >>) /\ Fault(TRUE)
  <2>1. faults' \in Nat /\ faults' # 0
    BY <1>1, <1>6 DEF Fault
  <2>2. Faithful'
    BY <1>5, <1>6, <2>1, UnlockFaithful
  <2> QED
    BY <2>1, <2>2
<1>7. CASE /\ r[2] /\ chip' = Deselect(r[1]) /\ Fault(FALSE)
           /\ Unlock(t, TRUE, Answer(r[1], call[t].length))
  <2>1. faults' = faults
    BY <1>7 DEF Fault
  <2>2. Covered(call[t]) = {}
    BY DEF Covered
  <2>3. ASSUME faults' = 0
        PROVE  /\ faults = 0 /\ ~chip'.low /\ ~chip'.busy
               /\ chip'.cells = Upto(t, Capacity)
    <3>1. ~chip.busy /\ chip.cells = want /\ want \in [Address -> Bits]
      BY <1>1, <2>1, <2>3 DEF WorkOK
    <3>2. Upto(t, Capacity) = want
      BY <2>2, <3>1, UptoNothing
    <3> QED
      BY <1>4, <1>7, <2>1, <2>3, <3>1, <3>2 DEF Quiet
  <2>4. Faithful'
    BY <1>1, <1>5, <1>7, <2>1, <2>3, UnlockFaithful
  <2>5. ASSUME faults' = 0
        PROVE  \E b \in Chip : /\ ~b.busy /\ b.cells = chip.cells /\ b.in = items
                               /\ done'.kind = call[t].kind /\ done'.from = call[t].from
                               /\ done'.got = Answer(b, call[t].length)
    <3>1. ~chip.low /\ ~chip.busy
      BY <1>1, <2>1, <2>5 DEF WorkOK
    <3>2. Whole(chip, items, FALSE, r[1])
      BY <1>1, <1>3, <1>7, <3>1, SentWhole
    <3>3. PICK b \in Chip : /\ Quiet(chip, b) /\ b.in = items /\ r[1] = b
      BY <3>2 DEF Whole, Released
    <3>4. /\ done'.kind = call[t].kind /\ done'.from = call[t].from
          /\ done'.got = Answer(b, call[t].length)
      BY <1>7, <3>3 DEF Unlock, Return
    <3> QED
      BY <3>1, <3>3, <3>4 DEF Quiet
  <2> QED
    BY <2>4, <2>5
<1> QED
  BY <1>2, <1>6, <1>7

\* sfud_read returns what the flash holds.
LEMMA ReadFaithful ==
  ASSUME SfudAssumption, FlashInv, Faithful, NEW t \in Threads, TransferRead(t)
  PROVE  Faithful' /\ (faults' = 0 => ReadTrue)
<1> DEFINE k == call[t]
           items == << READ, k.from >>
<1>1. k.kind = "read" /\ place[t] = "transfer" /\ place[t] \in Locked /\ Ask(t, items)
  BY DEF TransferRead, Locked
<1>2. /\ k.from \in Nat /\ k.length \in Nat /\ k.from + k.length <= Capacity
      /\ Capacity \in Nat
  BY <1>1 DEF FlashInv, CallOK, Calls, Faithful, PlaceOK, SfudAssumption, FlashAssumption
<1>3. items \in Seq(Int) /\ items # << >> /\ Harmless(items)
  BY <1>2 DEF READ, Harmless, PP, SE
<1>4. items[1] = READ /\ Len(items) = 2 /\ items[2] = k.from
  OBVIOUS
<1> HIDE DEF items
<1>5. /\ Faithful'
      /\ faults' = 0 /\ done'.ok =>
           \E b \in Chip : /\ ~b.busy /\ b.cells = chip.cells /\ b.in = items
                           /\ done'.kind = k.kind /\ done'.from = k.from
                           /\ done'.got = Answer(b, k.length)
  BY <1>1, <1>3, AskFaithful
<1>6. ASSUME faults' = 0, done'.ok
      PROVE  ReadTrue
  <2>1. PICK b \in Chip : /\ ~b.busy /\ b.cells = chip.cells /\ b.in = items
                          /\ done'.kind = k.kind /\ done'.from = k.from
                          /\ done'.got = Answer(b, k.length)
    BY <1>5, <1>6
  <2>2. done'.got = [i \in 1..k.length |-> chip.cells[(k.from + i - 1) % Capacity]]
    BY <1>3, <1>4, <2>1 DEF Answer
  <2> DEFINE got == done'.got
  <2>3. ASSUME NEW i \in 1..k.length
        PROVE  /\ got[i] = chip.cells[k.from + i - 1]
               /\ chip.cells[k.from + i - 1] \in Bits
    <3>1. k.from + i - 1 \in 0..Capacity-1
      BY <1>2
    <3>2. (k.from + i - 1) % Capacity = k.from + i - 1
      <4>1. \A m \in 0..Capacity-1 : m % Capacity = m
        BY <1>2
      <4> QED
        BY <3>1, <4>1
    <3>3. chip.cells \in [Address -> Bits]
      BY DEF FlashInv, ChipOK, Chip
    <3> QED
      BY <2>2, <3>1, <3>2, <3>3 DEF Address
  <2>4. DOMAIN got = 1..k.length
    BY <2>2
  <2> HIDE DEF got
  <2>5. got # Noise
    <3> SUFFICES ASSUME got = Noise PROVE FALSE
      OBVIOUS
    <3>1. Noise[1] = -1 /\ 1 \in DOMAIN Noise
      BY DEF Noise
    <3>2. 1 \in 1..k.length
      BY <2>4, <3>1
    <3>3. got[1] \in Bits
      BY <2>3, <3>2
    <3> QED
      BY <3>1, <3>3 DEF Bits
  <2>6. done'.kind # "id"
    BY <1>1, <2>1
  <2>7. \A i \in DOMAIN got : got[i] = chip.cells[done'.from + i - 1]
    BY <2>1, <2>3, <2>4
  <2> QED
    BY <2>5, <2>6, <2>7 DEF ReadTrue, got
<1> QED
  BY <1>5, <1>6 DEF ReadTrue

\* sfud_get_id returns the identity.
LEMMA IdFaithful ==
  ASSUME SfudAssumption, FlashInv, Faithful, NEW t \in Threads, TransferId(t)
  PROVE  Faithful' /\ (faults' = 0 => ReadTrue)
<1> DEFINE k == call[t]
           items == << ID >>
<1>1. k.kind = "id" /\ place[t] = "transfer" /\ place[t] \in Locked /\ Ask(t, items)
  BY DEF TransferId, Locked
<1>2. items \in Seq(Int) /\ items # << >> /\ Harmless(items)
  BY DEF ID, Harmless, PP, SE
<1>3. items[1] = ID /\ items = << ID >>
  OBVIOUS
<1> HIDE DEF items
<1>4. /\ Faithful'
      /\ faults' = 0 /\ done'.ok =>
           \E b \in Chip : /\ ~b.busy /\ b.cells = chip.cells /\ b.in = items
                           /\ done'.kind = k.kind /\ done'.from = k.from
                           /\ done'.got = Answer(b, k.length)
  BY <1>1, <1>2, AskFaithful
<1>5. ASSUME faults' = 0, done'.ok
      PROVE  ReadTrue
  <2>1. PICK b \in Chip : /\ ~b.busy /\ b.in = items /\ done'.kind = k.kind
                          /\ done'.got = Answer(b, k.length)
    BY <1>4, <1>5
  <2>2. done'.got = Identity
    BY <1>2, <1>3, <2>1 DEF Answer, ID, READ
  <2> QED
    BY <1>1, <2>1, <2>2 DEF ReadTrue
<1> QED
  BY <1>4, <1>5 DEF ReadTrue

\* set_write_enabled(false) at the end of an erase or a write.
LEMMA DisableFaithful ==
  ASSUME SfudAssumption, FlashInv, Faithful, NEW t \in Threads, DisableWrite(t)
  PROVE  Faithful' /\ (faults' = 0 => ReadTrue)
<1>1. PICK r \in WriteEnabled(chip, FALSE) :
        chip' = r[1] /\ Unlock(t, r[2], << >>) /\ Fault(r[3])
  BY DEF DisableWrite
<1>2. place[t] = "disable" /\ place[t] \in Locked /\ FALSE \in BOOLEAN
  BY DEF DisableWrite, Locked
<1>3. /\ PlaceOK(t) /\ CallOK(t) /\ owner = t /\ ChipOK(chip) /\ faults \in Nat
      /\ place \in [Threads -> {"idle", "lock"} \cup Locked]
      /\ faults = 0 => ~chip.low /\ WorkOK(t) /\ want \in [Address -> Bits]
  BY <1>2, OwnerKnows
<1>4. call[t].kind \in {"erase", "write"}
  BY <1>2, <1>3 DEF PlaceOK, CallOK, Calls, Kinds
<1>5. ChipOK(chip') /\ Quiet(chip, chip')
  BY <1>1, <1>2, <1>3, WriteEnabledOK
<1>6. faults' \in Nat /\ (faults' = 0 => faults = 0 /\ ~r[3])
  BY <1>1, <1>3, FaultIs
<1>7. ASSUME faults' = 0
      PROVE  /\ faults = 0 /\ r[2] /\ ~chip'.low /\ ~chip'.busy
             /\ chip'.cells = Upto(t, Capacity)
  <2>1. ~chip.busy /\ chip.cells = Upto(t, Capacity) /\ ~chip.low
    BY <1>2, <1>3, <1>4, <1>6, <1>7 DEF WorkOK
  <2>2. ~r[1].low /\ r[2]
    BY <1>2, <1>3, <1>6, <1>7, <2>1, EnabledTrue
  <2> QED
    BY <1>1, <1>5, <1>6, <1>7, <2>1, <2>2 DEF Quiet
<1>8. Faithful'
  BY <1>1, <1>2, <1>5, <1>6, <1>7, UnlockFaithful
<1>9. done'.kind \notin {"id", "read"}
  BY <1>1, <1>4 DEF Unlock, Return
<1> QED
  BY <1>8, <1>9 DEF ReadTrue

\* A poll of wait_busy.
LEMMA WaitBusyFaithful ==
  ASSUME SfudAssumption, FlashInv, Faithful, NEW t \in Threads, WaitBusy(t)
  PROVE  Faithful' /\ (faults' = 0 => UNCHANGED done)
<1> DEFINE k == call[t]
<1>1. PICK s \in StatusRead(chip) :
        LET busy == ~s[2].ok \/ s[2].busy
            last == busy /\ k.retry = 0
        IN  /\ chip' = s[1] /\ Fault(~s[2].ok \/ last)
            /\ \/ ~busy /\ Ready(t) /\ UNCHANGED << owner, done, want >>
               \/ /\ busy /\ k.retry > 0
                  /\ call' = [call EXCEPT ![t].retry = @ - 1]
                  /\ UNCHANGED << place, owner, done, want >>
               \/ last /\ GiveUp(t)
  BY DEF WaitBusy
<1> DEFINE busy == ~s[2].ok \/ s[2].busy
           last == busy /\ k.retry = 0
<1>2. place[t] = "busy" /\ place[t] \in Locked
  BY DEF WaitBusy, Locked
<1>3. /\ PlaceOK(t) /\ CallOK(t) /\ owner = t /\ ChipOK(chip) /\ faults \in Nat
      /\ place \in [Threads -> {"idle", "lock"} \cup Locked]
      /\ faults = 0 => ~chip.low /\ WorkOK(t) /\ want \in [Address -> Bits]
  BY <1>2, OwnerKnows
<1>4. k.kind \in {"read", "erase", "write"} /\ DOMAIN call = Threads
  BY <1>2, <1>3 DEF PlaceOK, CallOK, Calls, Kinds, FlashInv
<1>5. faults' \in Nat /\ (faults' = 0 => faults = 0 /\ s[2].ok /\ ~last)
  <2>1. Fault(~s[2].ok \/ last)
    BY <1>1
  <2> QED
    BY <1>3, <2>1, FaultIs
<1>6. ChipOK(chip') /\ Quiet(chip, chip')
  BY <1>1, <1>3, StatusReadOK
<1>7. faults' = 0 => ~chip.low /\ ~chip'.low /\ (busy <=> chip.busy)
  BY <1>1, <1>3, <1>5, StatusReadOK, StatusTrue
<1>8. faults' = 0 /\ k.kind = "read" => ~chip'.busy /\ chip'.cells = want
  BY <1>3, <1>5, <1>6 DEF WorkOK, Quiet
<1>9. faults' = 0 /\ k.kind # "read" =>
        (IF chip'.busy THEN chip'.todo ELSE chip'.cells) = Upto(t, EndOf(k))
  BY <1>2, <1>3, <1>4, <1>5, <1>6 DEF WorkOK, Quiet
<1>10. ASSUME NEW w \in Locked, Proceed(t, w)
       PROVE  place'[t] = w
  BY <1>3, <1>10 DEF Proceed
<1>11. {"transfer", "enable", "disable", "busy"} \subseteq Locked
  BY DEF Locked
<1>12. CASE ~busy /\ Ready(t) /\ UNCHANGED << owner, done, want >>
  <2>1. CASE k.kind = "read" /\ Proceed(t, "transfer") /\ UNCHANGED call
    <3>1. place'[t] = "transfer"
      BY <1>10, <1>11, <2>1
    <3>2. PlaceOK(t)'
      BY <1>3, <2>1, <3>1 DEF PlaceOK
    <3>3. faults' = 0 => WorkOK(t)'
      BY <1>8, <1>12, <2>1 DEF WorkOK
    <3> QED
      BY <1>2, <1>5, <1>7, <1>11, <1>12, <2>1, <3>2, <3>3, OwnerFaithful
  <2>2. CASE /\ k.kind # "read" /\ LastUnit(k) /\ Proceed(t, "disable")
             /\ UNCHANGED call
    <3>1. place'[t] = "disable"
      BY <1>10, <1>11, <2>2
    <3>2. PlaceOK(t)'
      BY <1>3, <1>4, <2>2, <3>1 DEF PlaceOK
    <3>3. Upto(t, EndOf(k)) = Upto(t, Capacity)
      <4>1. k.size # 0
        BY <1>2, <1>3, <1>4, <2>2 DEF CallOK
      <4> QED
        BY <1>3, <1>4, <2>2, <4>1, BehindEnd
    <3>4. Upto(t, Capacity)' = Upto(t, Capacity)
      BY <1>12, <2>2, UptoCall
    <3>5. faults' = 0 => ~chip'.busy /\ chip'.cells = Upto(t, Capacity)
      BY <1>6, <1>7, <1>9, <1>12, <2>2, <3>3 DEF Quiet
    <3>6. faults' = 0 => WorkOK(t)'
      BY <1>4, <2>2, <3>1, <3>4, <3>5 DEF WorkOK
    <3> QED
      BY <1>2, <1>5, <1>7, <1>11, <1>12, <2>2, <3>2, <3>6, OwnerFaithful
  <2>3. CASE /\ k.kind # "read" /\ ~LastUnit(k) /\ Proceed(t, "enable")
             /\ call' = [call EXCEPT ![t] = NextUnit(@)]
    <3>1. place'[t] = "enable" /\ call'[t] = NextUnit(k)
      BY <1>4, <1>10, <1>11, <2>3
    <3>2. /\ call'[t].kind = k.kind /\ call'[t].from = k.from
          /\ call'[t].length = k.length /\ StartOf(call'[t]) = EndOf(k)
      BY <1>3, <1>4, <2>3, <3>1, NextUnitIs
    <3>3. PlaceOK(t)'
      BY <1>3, <1>4, <2>3, <3>1, <3>2 DEF PlaceOK
    <3>4. Upto(t, StartOf(call[t]))' = Upto(t, EndOf(k))
      <4>1. \A x : Believed(t, TRUE, x)' = Believed(t, TRUE, x)
        BY <1>12, <3>2, BelievedSame
      <4>2. StartOf(call[t])' = EndOf(k)
        BY <3>2 DEF StartOf
      <4> QED
        BY <1>12, <4>1, <4>2 DEF Upto
    <3>5. faults' = 0 => ~chip'.busy /\ chip'.cells = Upto(t, EndOf(k))
      BY <1>6, <1>7, <1>9, <1>12, <2>3 DEF Quiet
    <3>6. faults' = 0 => WorkOK(t)'
      BY <1>4, <2>3, <3>1, <3>2, <3>4, <3>5 DEF WorkOK
    <3>7. \A u \in Threads \ {t} : call'[u] = call[u]
      BY <2>3
    <3> QED
      BY <1>2, <1>5, <1>7, <1>11, <1>12, <2>3, <3>3, <3>6, <3>7, OwnerFaithful
  <2> QED
    BY <1>12, <2>1, <2>2, <2>3 DEF Ready
<1>13. CASE /\ k.retry > 0 /\ call' = [call EXCEPT ![t].retry = @ - 1]
            /\ UNCHANGED << place, owner, done, want >>
  <2>1. /\ call'[t].kind = k.kind /\ call'[t].from = k.from /\ call'[t].length = k.length
        /\ call'[t].addr = k.addr /\ call'[t].size = k.size
    <3>1. k \in Calls /\ call'[t] = [k EXCEPT !.retry = k.retry - 1]
      BY <1>3, <1>4, <1>13 DEF CallOK
    <3> HIDE DEF k
    <3> QED
      BY <3>1 DEF Calls
  <2>2. PlaceOK(t)'
    BY <1>2, <1>3, <1>4, <1>13, <2>1 DEF PlaceOK
  <2>3. Upto(t, EndOf(call[t]))' = Upto(t, EndOf(k))
    <3>1. \A x : Believed(t, TRUE, x)' = Believed(t, TRUE, x)
      BY <1>13, <2>1, BelievedSame
    <3>2. EndOf(call[t])' = EndOf(k)
      BY <2>1 DEF EndOf, PageSize
    <3> QED
      BY <1>13, <3>1, <3>2 DEF Upto
  <2>4. faults' = 0 => WorkOK(t)'
    BY <1>2, <1>4, <1>8, <1>9, <1>13, <2>1, <2>3 DEF WorkOK
  <2>5. \A u \in Threads \ {t} : call'[u] = call[u]
    BY <1>13
  <2>6. Proceed(t, "busy")
    BY <1>2, <1>3, <1>13 DEF Proceed
  <2> QED
    BY <1>2, <1>5, <1>7, <1>11, <1>13, <2>2, <2>4, <2>5, <2>6, OwnerFaithful
<1>14. CASE last /\ GiveUp(t)
  <2>1. faults' # 0
    BY <1>5, <1>14
  <2>2. CASE Unlock(t, FALSE, << >>)
    BY <1>2, <1>5, <1>6, <2>1, <2>2, UnlockFaithful
  <2>3. CASE /\ k.kind # "read" /\ Proceed(t, "disable")
             /\ UNCHANGED << owner, call, done, want >>
    <3>1. place'[t] = "disable"
      BY <1>10, <1>11, <2>3
    <3>2. PlaceOK(t)'
      BY <1>3, <1>4, <2>3, <3>1 DEF PlaceOK
    <3> QED
      BY <1>2, <1>5, <1>11, <2>1, <2>3, <3>2, OwnerFaithful
  <2> QED
    BY <1>14, <2>1, <2>2, <2>3 DEF GiveUp
<1> QED
  BY <1>1, <1>12, <1>13, <1>14

\* The work of a thread that does not step.
LEMMA WorkKept ==
  ASSUME NEW u \in Threads, WorkOK(u), call'[u] = call[u], place'[u] = place[u],
         UNCHANGED << chip, want >>
  PROVE  WorkOK(u)'
<1>1. /\ Upto(u, StartOf(call[u]))' = Upto(u, StartOf(call[u]))
      /\ Upto(u, EndOf(call[u]))' = Upto(u, EndOf(call[u]))
      /\ Upto(u, Capacity)' = Upto(u, Capacity)
  BY UptoCall
<1> QED
  BY <1>1 DEF WorkOK

\* A step of a thread that has not got sfud_lock, and does not get it.
LEMMA StrangerFaithful ==
  ASSUME FlashInv, Faithful, NEW t \in Threads, place[t] \notin Locked,
         \A u \in Threads \ {t} : place'[u] = place[u] /\ call'[u] = call[u],
         PlaceOK(t)', UNCHANGED << chip, owner, want, faults >>
  PROVE  Faithful'
<1>1. owner # t
  BY DEF FlashInv
<1>2. ASSUME NEW u \in Threads PROVE PlaceOK(u)'
  <2>1. CASE u # t
    <3>1. PlaceOK(u) /\ call'[u] = call[u] /\ place'[u] = place[u]
      BY <2>1 DEF Faithful
    <3> QED
      BY <3>1, PlaceKept
  <2> QED
    BY <2>1
<1>3. ASSUME NEW u \in Threads, owner' = u, faults' = 0 PROVE WorkOK(u)'
  <2>1. u # t /\ WorkOK(u)
    BY <1>1, <1>3 DEF Faithful
  <2>2. call'[u] = call[u] /\ place'[u] = place[u]
    BY <2>1
  <2> QED
    BY <2>1, <2>2, WorkKept
<1> QED
  BY <1>2, <1>3 DEF Faithful

LEMMA RequestFaithful ==
  ASSUME SfudAssumption, FlashInv, Faithful, NEW t \in Threads, NEW kind \in Kinds,
         NEW range \in Ranges, Request(t, kind, range)
  PROVE  Faithful'
<1> DEFINE c == [kind |-> kind, from |-> range[1], length |-> range[2],
                 addr |-> range[1], size |-> range[2], retry |-> Retries]
<1>1. place[t] = "idle" /\ place[t] \notin Locked /\ UNCHANGED << chip, owner, want, faults >>
  BY DEF Request, Locked
<1>2. CASE UNCHANGED << place, call >>
  <2>1. PlaceOK(t)'
    BY <1>2, PlaceKept DEF Faithful
  <2> QED
    BY <1>1, <1>2, <2>1, StrangerFaithful
<1>3. CASE /\ ~(kind # "id" /\ range[1] + range[2] > Capacity)
           /\ call' = [call EXCEPT ![t] = c] /\ Proceed(t, "lock")
  <2>1. call'[t] = c /\ place'[t] = "lock"
    BY <1>1, <1>3 DEF FlashInv, Proceed
  <2>2. \A u \in Threads \ {t} : place'[u] = place[u] /\ call'[u] = call[u]
    BY <1>3 DEF FlashInv, Proceed
  <2>3. range[1] \in Nat /\ range[2] \in Nat /\ Capacity \in Nat
    BY DEF SfudAssumption, FlashAssumption
  <2>4. kind # "id" => range[1] + range[2] <= Capacity
    BY <1>3, <2>3
  <2>5. PlaceOK(t)'
    BY <2>1, <2>4 DEF PlaceOK, Kinds
  <2> QED
    BY <1>1, <2>2, <2>5, StrangerFaithful
<1> QED
  BY <1>2, <1>3 DEF Request

LEMMA TimeoutFaithful ==
  ASSUME SfudAssumption, FlashInv, Faithful, NEW t \in Threads, AcquireTimeout(t)
  PROVE  Faithful' /\ ReadTrue
<1>1. /\ place[t] \notin Locked /\ UNCHANGED << chip, owner, want, faults >>
      /\ place' = [place EXCEPT ![t] = "idle"] /\ call' = [call EXCEPT ![t] = NoCall]
      /\ ~done'.ok
  BY DEF AcquireTimeout, Return, Proceed, Locked
<1>2. place'[t] = "idle" /\ call'[t] = NoCall
  BY <1>1 DEF FlashInv
<1>3. \A u \in Threads \ {t} : place'[u] = place[u] /\ call'[u] = call[u]
  BY <1>1 DEF FlashInv
<1>4. PlaceOK(t)'
  BY <1>2 DEF PlaceOK, NoCall, SfudAssumption, FlashAssumption
<1> QED
  BY <1>1, <1>3, <1>4, StrangerFaithful DEF ReadTrue

\* sfud_lock is acquired: nothing of the call has been done.
LEMMA AcquireFaithful ==
  ASSUME SfudAssumption, FlashInv, Faithful, NEW t \in Threads, Acquire(t)
  PROVE  Faithful'
<1> DEFINE k == call[t]
<1>1. /\ place[t] = "lock" /\ owner = NoOwner /\ owner' = t /\ NoOwner \notin Threads
      /\ UNCHANGED << chip, call, want, faults >>
  BY DEF Acquire, SfudAssumption
<1>2. PlaceOK(t) /\ CallOK(t) /\ faults \in Nat
  BY DEF FlashInv, Faithful
<1>3. k.kind \in {"read", "id", "erase", "write"} /\ k.addr = k.from /\ k.size = k.length
  BY <1>1, <1>2 DEF PlaceOK, CallOK, Calls, Kinds
<1>4. place'[t] = CASE k.kind = "read" -> "busy"
                    [] k.kind = "id" -> "transfer"
                    [] OTHER -> IF k.size = 0 THEN "disable" ELSE "enable"
  BY DEF Acquire, Proceed, FlashInv
<1>5. \A u \in Threads \ {t} : place'[u] = place[u]
  BY DEF Acquire, Proceed, FlashInv
<1>6. /\ k.kind = "read" => place'[t] = "busy"
      /\ k.kind = "id" => place'[t] = "transfer"
      /\ k.kind \in {"erase", "write"} =>
           place'[t] = IF k.size = 0 THEN "disable" ELSE "enable"
  BY <1>3, <1>4
<1>7. ASSUME NEW u \in Threads PROVE PlaceOK(u)'
  <2>1. CASE u = t
    BY <1>1, <1>2, <1>3, <1>6, <2>1 DEF PlaceOK
  <2>2. CASE u # t
    <3>1. PlaceOK(u) /\ call'[u] = call[u] /\ place'[u] = place[u]
      BY <1>1, <1>5, <2>2 DEF Faithful
    <3> QED
      BY <3>1, PlaceKept
  <2> QED
    BY <2>1, <2>2
<1>8. ASSUME faults' = 0
      PROVE  /\ want' \in [Address -> Bits] /\ ~chip'.low /\ WorkOK(t)'
  <2>1. ~chip.busy /\ chip.cells = want /\ want \in [Address -> Bits] /\ ~chip.low
    BY <1>1, <1>8 DEF Faithful
  <2>2. want = [x \in Address |-> want[x]]
    BY <2>1
  <2>3. k.kind \in {"erase", "write"} => Upto(t, StartOf(k)) = want
    BY <1>2, <1>3, <2>2, BelowStart
  <2>4. k.size = 0 => Upto(t, Capacity) = want
    <3> SUFFICES ASSUME k.size = 0 PROVE Upto(t, Capacity) = want
      OBVIOUS
    <3>1. k.from \in Nat /\ k.length = 0 /\ \A x \in Address : x \in Nat
      BY <1>2, <1>3 DEF CallOK, Calls, Address
    <3>2. Covered(k) = {}
      BY <3>1 DEF Covered
    <3> QED
      BY <2>1, <3>2, UptoNothing
  <2>5. /\ Upto(t, StartOf(k))' = Upto(t, StartOf(k))
        /\ Upto(t, Capacity)' = Upto(t, Capacity)
    BY <1>1, UptoCall
  <2>6. WorkOK(t)'
    BY <1>1, <1>3, <1>6, <2>1, <2>3, <2>4, <2>5 DEF WorkOK
  <2> QED
    BY <1>1, <2>1, <2>6
<1> QED
  BY <1>1, <1>2, <1>7, <1>8 DEF Faithful

\* The chip finishes what the owner of sfud_lock waits for.
LEMMA FinishFaithful ==
  ASSUME SfudAssumption, FlashInv, Faithful, ChipFinish
  PROVE  Faithful'
<1>1. /\ chip.busy /\ chip' = Finished(chip)
      /\ UNCHANGED << owner, place, call, want, faults >>
  BY DEF ChipFinish
<1>2. ~chip'.busy /\ chip'.cells = chip.todo /\ chip'.low = chip.low
  BY <1>1 DEF FlashInv, ChipOK, Chip, Finished
<1>3. \A u \in Threads : PlaceOK(u)'
  BY <1>1, PlaceKept DEF Faithful
<1>4. ASSUME NEW u \in Threads, owner' = u, faults' = 0 PROVE WorkOK(u)'
  <2>1. /\ call[u].kind \in {"erase", "write"} /\ place[u] = "busy"
        /\ chip.todo = Upto(u, EndOf(call[u]))
    BY <1>1, <1>4 DEF Faithful, WorkOK
  <2>2. Upto(u, EndOf(call[u]))' = Upto(u, EndOf(call[u]))
    BY <1>1, UptoCall
  <2> QED
    BY <1>1, <1>2, <2>1, <2>2 DEF WorkOK
<1> QED
  BY <1>1, <1>2, <1>3, <1>4 DEF Faithful

LEMMA FaithfulInit ==
  ASSUME SfudAssumption, FlashInit
  PROVE  Faithful
<1>1. chip.cells \in [Address -> Bits] /\ ~chip.low /\ ~chip.busy
  BY DEF FlashInit, BlankChip, Erased, Bits
<1>2. \A u \in Threads : PlaceOK(u)
  BY DEF FlashInit, PlaceOK, NoCall, SfudAssumption, FlashAssumption
<1> QED
  BY <1>1, <1>2 DEF Faithful, FlashInit, SfudAssumption

LEMMA FaithfulNext ==
  ASSUME SfudAssumption, FlashInv, Faithful, FlashNext
  PROVE  Faithful' /\ (faults' = 0 => ReadTrue)
<1>1. UNCHANGED done => ReadTrue
  BY DEF ReadTrue
<1>2. ASSUME NEW t \in Threads, Serve(t) PROVE Faithful' /\ (faults' = 0 => ReadTrue)
  <2>1. CASE Acquire(t)
    <3>1. UNCHANGED done
      BY <2>1 DEF Acquire
    <3> QED
      BY <1>1, <2>1, <3>1, AcquireFaithful
  <2>2. CASE AcquireTimeout(t)
    BY <2>2, TimeoutFaithful
  <2>3. CASE EnableWrite(t)
    <3>1. UNCHANGED done
      BY <2>3 DEF EnableWrite
    <3> QED
      BY <1>1, <2>3, <3>1, EnableFaithful
  <2>4. CASE Transfer(t)
    <3>1. UNCHANGED done
      BY <2>4 DEF Transfer
    <3> QED
      BY <1>1, <2>4, <3>1, TransferFaithful
  <2>5. CASE TransferRead(t)
    BY <2>5, ReadFaithful
  <2>6. CASE TransferId(t)
    BY <2>6, IdFaithful
  <2>7. CASE WaitBusy(t)
    BY <1>1, <2>7, WaitBusyFaithful
  <2>8. CASE DisableWrite(t)
    BY <2>8, DisableFaithful
  <2> QED
    BY <1>2, <2>1, <2>2, <2>3, <2>4, <2>5, <2>6, <2>7, <2>8 DEF Serve
<1>3. ASSUME NEW t \in Threads, NEW kind \in Kinds, NEW range \in Ranges,
             Request(t, kind, range)
      PROVE  Faithful' /\ UNCHANGED done
  <2>1. UNCHANGED done
    BY <1>3 DEF Request
  <2> QED
    BY <1>3, <2>1, RequestFaithful
<1>4. CASE ChipFinish
  <2>1. UNCHANGED done
    BY <1>4 DEF ChipFinish
  <2> QED
    BY <1>1, <1>4, <2>1, FinishFaithful
<1> QED
  BY <1>1, <1>2, <1>3, <1>4 DEF FlashNext

\* What the callers believe is there, but where the owner of sfud_lock works.
LEMMA FaithfulContents ==
  ASSUME SfudAssumption, FlashInv, Faithful, faults = 0
  PROVE  ContentsTrue
<1> SUFFICES ASSUME NEW a \in Address,
                    ~\E t \in Threads : owner = t /\ a \in Covered(call[t])
             PROVE  chip.cells[a] = want[a]
  BY DEF ContentsTrue
<1>1. want \in [Address -> Bits] /\ want[a] # Unsure
  BY DEF Faithful, Bits, Unsure
<1>2. CASE owner = NoOwner
  BY <1>2 DEF Faithful
<1>3. ASSUME NEW t \in Threads, owner = t PROVE chip.cells[a] = want[a]
  <2>1. WorkOK(t) /\ place[t] \in Locked /\ a \notin Covered(call[t])
    BY <1>3 DEF Faithful, FlashInv
  <2>2. \A n : Upto(t, n)[a] = want[a]
    BY <2>1 DEF Upto, Believed
  <2>3. CASE ~chip.busy
    BY <2>1, <2>2, <2>3 DEF WorkOK, Locked
  <2>4. CASE chip.busy
    <3>1. chip.todo = Upto(t, EndOf(call[t]))
      BY <2>1, <2>4 DEF WorkOK
    <3>2. chip.todo[a] # chip.cells[a] =>
            want[a] = Unsure \/ \E u \in Threads : owner = u /\ a \in Covered(call[u])
      BY <2>4 DEF FlashInv, PendingOK
    <3> QED
      BY <1>1, <2>2, <3>1, <3>2
  <2> QED
    BY <2>3, <2>4
<1> QED
  BY <1>2, <1>3 DEF FlashInv

\* As long as no message fails and no wait is given up, an erase or a write that
\* returns has done all of its work, unit by unit, nothing else changes the flash,
\* and what is read is what is there, for every flash, every number of threads and
\* all ranges (sfud_erase, sfud_write, sfud_read, sfud_get_id).
THEOREM FlashIsTrue ==
  ASSUME SfudAssumption
  PROVE  FlashSpec => FlashTrue
<1> DEFINE Inv == FlashInv /\ Faithful
<1>1. FlashInit => Inv
  BY FlashInvInit, FaithfulInit
<1>2. Inv /\ [FlashNext]_flashVars => Inv'
  <2> SUFFICES ASSUME Inv, [FlashNext]_flashVars PROVE Inv'
    OBVIOUS
  <2>1. FlashInv'
    BY FlashInvNext
  <2>2. CASE FlashNext
    BY <2>1, <2>2, FaithfulNext
  <2>3. CASE UNCHANGED flashVars
    <3>1. UNCHANGED << chip, owner, place, call, want, faults >>
      BY <2>3 DEF flashVars
    <3>2. \A u \in Threads : PlaceOK(u)' /\ (WorkOK(u) => WorkOK(u)')
      BY <3>1, PlaceKept, WorkKept DEF Faithful
    <3> QED
      BY <2>1, <3>1, <3>2 DEF Faithful
  <2> QED
    BY <2>2, <2>3
<1>3. Inv /\ faults = 0 => ContentsTrue
  BY FaithfulContents
<1>4. (Inv /\ faults = 0 => ContentsTrue)'
  BY <1>3, PTL
<1>5. Inv /\ Inv' /\ [FlashNext]_flashVars
        => [faults' = 0 => ContentsTrue' /\ ReadTrue]_flashVars
  <2> SUFFICES ASSUME Inv, Inv', FlashNext, faults' = 0 PROVE ContentsTrue' /\ ReadTrue
    OBVIOUS
  <2>1. ReadTrue
    BY FaithfulNext
  <2>2. ContentsTrue'
    BY <1>4
  <2> QED
    BY <2>1, <2>2
<1> QED
  BY <1>1, <1>2, <1>5, PTL DEF FlashSpec, FlashTrue

(***************************************************************************)
(* The heap                                                                *)
(***************************************************************************)

\* The items follow one another from 0 to End, and each knows the one before it.
Heaps == [item: UNION {[D -> Item] : D \in SUBSET Place}, lfree: Place, used: Int]

Chain(h) ==
  LET D == DOMAIN h.item
  IN  /\ h \in Heaps /\ {0, End} \in SUBSET D
      /\ \A p \in D \ {End} :
           /\ h.item[p].next \in D /\ h.item[p].next > p + Header
           /\ \A q \in D : q <= p \/ q >= h.item[p].next
           /\ h.item[p].next # End => h.item[h.item[p].next].prev = p
      /\ h.item[0].prev = 0
      /\ \A p \in D \ {0, End} : /\ h.item[p].prev \in D /\ h.item[p].prev < p
                                 /\ h.item[h.item[p].prev].next = p

FreeIn(h)  == {p \in Items(h) : ~h.item[p].used}
UsedIn(h) == {p \in Items(h) : h.item[p].used}

\* lfree is the lowest free item.
Lowest(h) == /\ h.lfree \in FreeIn(h) \cup {End}
             /\ \A p \in FreeIn(h) : h.lfree <= p

\* No free item follows another, but for those in X.
Apart(h, X) ==
  \A p \in FreeIn(h) : h.item[p].next \in FreeIn(h) => p \in X \/ h.item[p].next \in X

\* The bytes of the items in use.
BytesOf(h) == UNION {p..h.item[p].next - 1 : p \in UsedIn(h)}

Sound(h, X) == /\ Chain(h) /\ Lowest(h) /\ Apart(h, X)
               /\ h.used = Cardinality(BytesOf(h))

\* The items that a call has in its hands.
Has(c) ==
  ((IF c.at \in {"free", "plug", "unlock"} THEN {c.found} ELSE {})
   \cup (IF \/ c.at \in {"lock", "find", "take", "realloc", "cut", "free"}
            \/ c.at = "unlock" /\ c.op = "realloc" /\ c.found = Null /\ c.size # 0
         THEN {c.ptr} ELSE {})) \ {Null}

Steps == {"find", "take", "free", "plug", "cut", "realloc", "unlock"}

CallOf ==
  [at: {"idle", "lock"} \cup Steps, op: {"none", "malloc", "free", "realloc"},
   ptr: Place \cup {Null}, size: Nat, align: Nat, found: Place \cup {Null}]

\* What a call asks for, and how far it has got.
CallGood(c) ==
  /\ c \in CallOf
  /\ c.at = "idle" => c.op = "none" /\ c.ptr = Null
  /\ c.at # "idle" => c.op # "none" /\ (c.ptr = Null <=> c.op = "malloc")
  /\ c.align # 0 => c.op = "malloc" /\ c.align \in Alignments
                    /\ c.size + c.align + 3 * Align <= Width
  /\ c.size + Align <= Width
  /\ c.at \in {"idle", "lock", "find", "realloc"} \/ c.op = "free" => c.found = Null
  /\ c.at \in {"find", "take"} => c.op \in {"malloc", "realloc"}
  /\ c.at \in {"realloc", "cut"} => c.op = "realloc"
  /\ c.at \in {"free", "plug"} => c.op \in {"free", "realloc"} /\ c.ptr # c.found
  /\ c.at \in {"take", "cut"} => c.found # Null
  /\ c.at = "cut" => c.found = c.ptr
  /\ c.op = "realloc" =>
       /\ c.at \in {"find", "take", "cut"} => c.size # 0
       /\ c.at \in {"free", "plug"} => (c.found = Null <=> c.size = 0)
       /\ c.at = "unlock" => (c.size = 0 => c.found = Null)

\* What a call relies on in the heap.
CallFits(h, c) ==
  /\ c.at = "take" => /\ c.found \in FreeIn(h) /\ Room(h, c.found) >= Rounded(Asked(c))
  /\ c.at = "plug" => c.ptr \in FreeIn(h)
  /\ c.at = "cut" => h.item[c.ptr].next \in FreeIn(h)
  /\ c.at \in {"free", "plug", "cut", "unlock"} /\ c.found # Null
       => Room(h, c.found) >= Asked(c)

\* The item whose neighbours may be free.
Loose(h, c) == IF c.at = "plug" THEN {c.ptr}
               ELSE IF c.at = "cut" THEN {h.item[c.ptr].next} ELSE {}

BlockGood(h, b) ==
  /\ b.ptr \in Place /\ b.size \in Nat /\ b.align \in Nat
  /\ b.user + b.size <= h.item[b.ptr].next
  /\ b.align = 0 => b.user = b.ptr + Header
  /\ b.align # 0 => /\ (Base + b.user) % Aligned(b.align) = 0
                    /\ b.user - Align >= b.ptr + Header

Ptrs == {b.ptr : b \in held}

HeapTypes ==
  /\ lock \in Thread \cup {NoThread}
  /\ asked \in [Thread -> CallOf] /\ \A t \in Thread : CallGood(asked[t])
  /\ \A t \in Thread : asked[t].at \in Steps <=> lock = t

\* Every item in use is in the hands of one call or one holder.
Shared ==
  /\ UsedIn(heap) = Ptrs \cup UNION {Has(asked[t]) : t \in Thread}
  /\ \A b, c \in held : b.ptr = c.ptr => b = c
  /\ \A t \in Thread : Has(asked[t]) \cap Ptrs = {}
  /\ \A t, u \in Thread : t # u => Has(asked[t]) \cap Has(asked[u]) = {}

HeapInv ==
  /\ HeapTypes /\ Shared
  /\ Sound(heap, UNION {Loose(heap, asked[t]) : t \in Thread})
  /\ \A t \in Thread : CallFits(heap, asked[t])
  /\ \A b \in held : BlockGood(heap, b)

-----------------------------------------------------------------------------

\* What a chain is made of.
LEMMA ChainIs ==
  ASSUME MemAssumption, NEW h, Chain(h)
  PROVE  /\ h \in Heaps /\ DOMAIN h.item \in SUBSET Place /\ {0, End} \in SUBSET DOMAIN h.item
         /\ h.item \in [DOMAIN h.item -> Item]
         /\ \A p \in DOMAIN h.item : /\ p \in Nat /\ p <= End /\ h.item[p].next \in Nat
                                     /\ h.item[p].prev \in Nat /\ h.item[p].used \in BOOLEAN
                                     /\ h.item[p] = [next |-> h.item[p].next, prev |-> h.item[p].prev,
                                                     used |-> h.item[p].used]
         /\ End \in Nat /\ Header \in Nat \ {0} /\ End # 0
         /\ h.lfree \in Place /\ h.used \in Int
<1>1. h \in Heaps /\ {0, End} \in SUBSET DOMAIN h.item
  BY DEF Chain
<1>2. h.item \in UNION {[D -> Item] : D \in SUBSET Place} /\ h.lfree \in Place /\ h.used \in Int
  BY <1>1 DEF Heaps
<1>3. PICK D \in SUBSET Place : h.item \in [D -> Item]
  BY <1>2
<1>4. DOMAIN h.item = D
  BY <1>3
<1>5. End \in Nat /\ Header \in Nat \ {0} /\ End # 0
  BY DEF MemAssumption, End
<1>6. \A p \in D : p \in Nat /\ p <= End
  BY <1>5 DEF Place
<1>7. \A p \in D : h.item[p] \in Item
  BY <1>3
<1> QED
  BY <1>1, <1>2, <1>3, <1>4, <1>5, <1>6, <1>7 DEF Item, Place

LEMMA NextIs ==
  ASSUME MemAssumption, NEW h, Chain(h), NEW p \in Items(h)
  PROVE  /\ p \in DOMAIN h.item /\ p # End /\ p \in Nat
         /\ h.item[p].next \in DOMAIN h.item /\ h.item[p].next \in Nat
         /\ h.item[p].next > p + Header /\ h.item[p].next > p /\ h.item[p].next <= End
         /\ \A q \in DOMAIN h.item : q <= p \/ q >= h.item[p].next
         /\ h.item[p].next # End => h.item[h.item[p].next].prev = p
<1>1. p \in DOMAIN h.item \ {End}
  BY DEF Items
<1>2. /\ h.item[p].next \in DOMAIN h.item /\ h.item[p].next > p + Header
      /\ \A q \in DOMAIN h.item : q <= p \/ q >= h.item[p].next
      /\ h.item[p].next # End => h.item[h.item[p].next].prev = p
  BY <1>1 DEF Chain
<1>3. p \in Nat /\ h.item[p].next \in Nat /\ h.item[p].next <= End /\ Header \in Nat \ {0}
  BY <1>1, <1>2, ChainIs
<1>4. h.item[p].next > p
  BY <1>2, <1>3
<1> QED
  BY <1>1, <1>2, <1>3, <1>4

\* Item q, which p is followed by, becomes a part of p.
LEMMA MergedIs ==
  ASSUME MemAssumption, NEW h, Chain(h), NEW p \in Items(h), NEW q, q = h.item[p].next, q # End,
         NEW g, g = Merged(h, p, q)
  PROVE  /\ g \in Heaps /\ DOMAIN g.item = DOMAIN h.item \ {q}
         /\ g.lfree = (IF h.lfree = q THEN p ELSE h.lfree) /\ g.used = h.used
         /\ \A r \in DOMAIN h.item \ {q} :
              /\ g.item[r].next = IF r = p THEN h.item[q].next ELSE h.item[r].next
              /\ g.item[r].prev = IF r = h.item[q].next THEN p ELSE h.item[r].prev
              /\ g.item[r].used = h.item[r].used
<1> DEFINE D == DOMAIN h.item
           n == h.item[q].next
           I == [r \in D \ {q} |-> IF r = p THEN [h.item[p] EXCEPT !.next = n]
                                   ELSE IF r = n THEN [h.item[r] EXCEPT !.prev = p]
                                   ELSE h.item[r]]
<1>1. /\ h \in Heaps /\ D \in SUBSET Place /\ h.item \in [D -> Item]
      /\ p \in D /\ q \in D /\ n \in D /\ p \in Nat /\ q \in Nat /\ n \in Nat
      /\ p # q /\ n # p /\ n # q
  <2>1. p \in DOMAIN h.item /\ q \in DOMAIN h.item /\ q > p
    BY NextIs
  <2>2. q \in Items(h)
    BY <2>1 DEF Items
  <2>3. n \in D /\ n > q /\ n \in Nat /\ q \in Nat /\ p \in Nat
    BY <2>2, NextIs
  <2> QED
    BY <2>1, <2>3, ChainIs
<1>2. Removed(h, p, q) = [h EXCEPT !.item = I]
  BY DEF Removed
<1>3. \A r \in D : h.item[r] \in Item
  BY <1>1
<1>4. I \in [D \ {q} -> Item]
  BY <1>1, <1>3, SMTT(20) DEF Item
<1>5. \A r \in D \ {q} :
        /\ I[r].next = IF r = p THEN n ELSE h.item[r].next
        /\ I[r].prev = IF r = n THEN p ELSE h.item[r].prev
        /\ I[r].used = h.item[r].used
  BY <1>1, <1>3 DEF Item
<1> HIDE DEF I, D, n
<1>6. D \ {q} \in SUBSET Place /\ p \in Place
  BY <1>1
<1>7. I \in UNION {[E -> Item] : E \in SUBSET Place}
  BY <1>4, <1>6
<1>8. /\ g.item = I /\ g.used = h.used /\ g.lfree = IF h.lfree = q THEN p ELSE h.lfree
      /\ g \in Heaps
  BY <1>1, <1>2, <1>6, <1>7 DEF Merged, Heaps
<1>9. DOMAIN I = D \ {q}
  BY <1>4
<1> QED
  BY <1>5, <1>8, <1>9 DEF D, n

LEMMA PrevIs ==
  ASSUME MemAssumption, NEW h, Chain(h), NEW p \in DOMAIN h.item \ {0, End}
  PROVE  /\ h.item[p].prev \in Items(h) /\ h.item[p].prev < p
         /\ h.item[h.item[p].prev].next = p
<1>1. /\ h.item[p].prev \in DOMAIN h.item /\ h.item[p].prev < p
      /\ h.item[h.item[p].prev].next = p
  BY DEF Chain
<1>2. p \in Nat /\ p <= End /\ End \in Nat
  BY ChainIs
<1>3. h.item[p].prev # End
  BY <1>1, <1>2
<1> QED
  BY <1>1, <1>3 DEF Items

LEMMA MergedChain ==
  ASSUME MemAssumption, NEW h, Chain(h), NEW p \in Items(h), NEW q, q = h.item[p].next, q # End,
         NEW g, g = Merged(h, p, q)
  PROVE  Chain(g)
<1> DEFINE D == DOMAIN h.item
           n == h.item[q].next
<1>1. /\ g \in Heaps /\ DOMAIN g.item = D \ {q}
      /\ \A r \in D \ {q} : /\ g.item[r].next = IF r = p THEN n ELSE h.item[r].next
                            /\ g.item[r].prev = IF r = n THEN p ELSE h.item[r].prev
  BY MergedIs
<1>2. /\ p \in D /\ p \in Nat /\ q \in D /\ q \in Nat /\ q > p /\ q > p + Header
      /\ \A x \in D : x <= p \/ x >= q
      /\ h.item[q].prev = p /\ p # End
  BY NextIs
<1>3. q \in Items(h)
  BY <1>2 DEF Items
<1>4. /\ n \in D /\ n \in Nat /\ n > q /\ n > q + Header /\ n <= End
      /\ \A x \in D : x <= q \/ x >= n
      /\ n # End => h.item[n].prev = q
  BY <1>3, NextIs
<1>5. /\ {0, End} \in SUBSET D /\ Header \in Nat \ {0} /\ End \in Nat
      /\ \A x \in D : x \in Nat
  BY ChainIs
<1>6. /\ h.item[0].prev = 0
      /\ \A x \in D \ {End} : /\ h.item[x].next \in D /\ h.item[x].next > x + Header
                              /\ \A y \in D : y <= x \/ y >= h.item[x].next
                              /\ h.item[x].next # End => h.item[h.item[x].next].prev = x
      /\ \A x \in D \ {0, End} : /\ h.item[x].prev \in D /\ h.item[x].prev < x
                                 /\ h.item[h.item[x].prev].next = x
  BY DEF Chain
<1> HIDE DEF D, n
<1>7. {0, End} \in SUBSET (D \ {q}) /\ g.item[0].prev = 0
  BY <1>1, <1>2, <1>4, <1>5, <1>6
<1>8. ASSUME NEW r \in (D \ {q}) \ {End}
      PROVE  /\ g.item[r].next \in D \ {q} /\ g.item[r].next > r + Header
             /\ \A x \in D \ {q} : x <= r \/ x >= g.item[r].next
             /\ g.item[r].next # End => g.item[g.item[r].next].prev = r
  <2>1. CASE r = p
    <3>1. g.item[r].next = n /\ n # q
      BY <1>1, <1>2, <1>4, <2>1
    <3>2. n > r + Header
      BY <1>2, <1>4, <1>5, <2>1
    <3>3. \A x \in D \ {q} : x <= p \/ x >= n
      BY <1>2, <1>4, <1>5
    <3>4. g.item[n].prev = p
      BY <1>1, <1>4, <3>1
    <3> QED
      BY <1>4, <2>1, <3>1, <3>2, <3>3, <3>4
  <2>2. CASE r # p
    <3>1. g.item[r].next = h.item[r].next
      BY <1>1, <2>2
    <3>2. h.item[r].next # q
      BY <1>2, <1>6, <2>2
    <3>3. h.item[r].next # n \/ n = End
      BY <1>4, <1>6
    <3> QED
      BY <1>1, <1>6, <3>1, <3>2, <3>3, SMTT(60)
  <2> QED
    BY <2>1, <2>2
<1>9. ASSUME NEW r \in (D \ {q}) \ {0, End}
      PROVE  /\ g.item[r].prev \in D \ {q} /\ g.item[r].prev < r
             /\ g.item[g.item[r].prev].next = r
  <2>1. CASE r = n
    BY <1>1, <1>2, <1>4, <1>5, <2>1, SMTT(60)
  <2>2. CASE r # n
    <3>1. g.item[r].prev = h.item[r].prev
      BY <1>1, <2>2
    <3>2. h.item[r].prev # q
      BY <1>6, <2>2 DEF n
    <3>3. h.item[r].prev # p
      BY <1>2, <1>6
    <3> QED
      BY <1>1, <1>6, <3>1, <3>2, <3>3, SMTT(60)
  <2> QED
    BY <2>1, <2>2
<1> QED
  BY <1>1, <1>7, <1>8, <1>9 DEF Chain

\* From h to g the same items are in use, with the same room.
SameUse(h, g) ==
  /\ UsedIn(g) = UsedIn(h) /\ g.used = h.used
  /\ \A p \in UsedIn(h) : g.item[p].next = h.item[p].next

LEMMA SameBytes ==
  ASSUME NEW h, NEW g, SameUse(h, g), h.used = Cardinality(BytesOf(h))
  PROVE  g.used = Cardinality(BytesOf(g))
BY DEF SameUse, BytesOf

\* Two free neighbours become one.
LEMMA MergedFree ==
  ASSUME MemAssumption, NEW h, Chain(h), Lowest(h), NEW p \in FreeIn(h),
         NEW q \in FreeIn(h), q = h.item[p].next, NEW g, g = Merged(h, p, q)
  PROVE  /\ Chain(g) /\ Lowest(g) /\ SameUse(h, g) /\ FreeIn(g) = FreeIn(h) \ {q}
         /\ \A r \in Items(h) \ {q} :
              g.item[r].next = IF r = p THEN h.item[q].next ELSE h.item[r].next
<1>1. p \in Items(h) /\ q \in Items(h) /\ q # End /\ ~h.item[p].used /\ ~h.item[q].used
  BY DEF FreeIn, Items
<1>2. Chain(g)
  BY <1>1, MergedChain
<1>3. /\ DOMAIN g.item = DOMAIN h.item \ {q}
      /\ g.lfree = (IF h.lfree = q THEN p ELSE h.lfree) /\ g.used = h.used
      /\ \A r \in DOMAIN h.item \ {q} :
           /\ g.item[r].next = IF r = p THEN h.item[q].next ELSE h.item[r].next
           /\ g.item[r].used = h.item[r].used
  BY <1>1, MergedIs
<1>4. FreeIn(g) = FreeIn(h) \ {q} /\ UsedIn(g) = UsedIn(h)
  BY <1>1, <1>3 DEF FreeIn, UsedIn, Items
<1>5. q > p /\ p \in Nat /\ q \in Nat
  BY <1>1, NextIs
<1>6. h.lfree # q
  <2>1. h.lfree <= p /\ h.lfree \in Nat
    BY ChainIs DEF Lowest, Place
  <2> QED
    BY <1>5, <2>1
<1>7. Lowest(g)
  BY <1>3, <1>4, <1>6 DEF Lowest
<1>8. \A r \in UsedIn(h) : r # p /\ r # q /\ r \in DOMAIN h.item \ {q}
  BY <1>1 DEF UsedIn, Items
<1>9. SameUse(h, g)
  BY <1>3, <1>4, <1>8 DEF SameUse
<1> QED
  BY <1>2, <1>3, <1>4, <1>7, <1>9 DEF Items

\* plug_holes leaves no free neighbours, wherever the hole is.
LEMMA PluggedSound ==
  ASSUME MemAssumption, NEW h, NEW p \in FreeIn(h), Sound(h, {p})
  PROVE  Sound(Plugged(h, p), {}) /\ SameUse(h, Plugged(h, p))
<1> DEFINE n == h.item[p].next
           g == IF n # p /\ ~h.item[n].used /\ n # End THEN Merged(h, p, n) ELSE h
           l == g.item[p].prev
           f == IF l # p /\ ~g.item[l].used THEN Merged(g, l, p) ELSE g
<1>1. Plugged(h, p) = f
  BY DEF Plugged
<1>2. /\ Chain(h) /\ Lowest(h) /\ Apart(h, {p}) /\ h.used = Cardinality(BytesOf(h))
      /\ p \in Items(h)
  BY DEF Sound, FreeIn
<1>3. /\ n \in DOMAIN h.item /\ n > p /\ n \in Nat /\ p \in Nat
      /\ n # End => h.item[n].prev = p
  BY <1>2, NextIs
<1>4. /\ Chain(g) /\ Lowest(g) /\ SameUse(h, g) /\ p \in FreeIn(g) /\ Apart(g, {p})
      /\ g.item[p].next \notin FreeIn(g)
  <2>1. CASE n \in FreeIn(h)
    <3>1. g = Merged(h, p, n)
      BY <1>3, <2>1 DEF FreeIn, Items
    <3> HIDE DEF g
    <3>2. /\ Chain(g) /\ Lowest(g) /\ SameUse(h, g) /\ FreeIn(g) = FreeIn(h) \ {n}
          /\ \A r \in Items(h) \ {n} :
               g.item[r].next = IF r = p THEN h.item[n].next ELSE h.item[r].next
      BY <1>2, <2>1, <3>1, MergedFree
    <3>3. n \in Items(h)
      BY <2>1 DEF FreeIn
    <3>4. h.item[n].next > n /\ h.item[n].next \in Nat
      BY <1>2, <3>3, NextIs
    <3>5. h.item[n].next \notin FreeIn(h)
      BY <1>2, <1>3, <2>1, <3>4 DEF Apart
    <3>6. p # n /\ g.item[p].next = h.item[n].next
      BY <1>2, <1>3, <3>2
    <3>7. Apart(g, {p})
      <4>1. ASSUME NEW r \in FreeIn(g), g.item[r].next \in FreeIn(g), r # p
            PROVE  g.item[r].next = p
        <5>1. r \in FreeIn(h) /\ r \in Items(h) \ {n}
          BY <3>2 DEF FreeIn
        <5>2. g.item[r].next = h.item[r].next
          BY <3>2, <4>1, <5>1
        <5>3. h.item[r].next \in FreeIn(h)
          BY <3>2, <4>1, <5>2
        <5> QED
          BY <1>2, <4>1, <5>1, <5>2, <5>3 DEF Apart
      <4> QED
        BY <4>1 DEF Apart
    <3> QED
      BY <3>2, <3>5, <3>6, <3>7
  <2>2. CASE n \notin FreeIn(h)
    <3>1. g = h
      BY <1>3, <2>2 DEF FreeIn, Items
    <3> QED
      BY <1>2, <2>2, <3>1 DEF SameUse
  <2> QED
    BY <2>1, <2>2
<1> HIDE DEF g
<1>5. p \in Items(g) /\ p \in DOMAIN g.item /\ p # End
  BY <1>4 DEF FreeIn, Items
<1>6. p # 0 => l \in Items(g) /\ l < p /\ g.item[l].next = p
  BY <1>4, <1>5, PrevIs
<1>7. p = 0 => l = p
  BY <1>4 DEF Chain
<1>8. /\ Chain(f) /\ Lowest(f) /\ SameUse(g, f) /\ Apart(f, {})
  <2>1. CASE p # 0 /\ l \in FreeIn(g)
    <3>1. f = Merged(g, l, p) /\ g.item[l].next = p
      BY <1>3, <1>6, <2>1 DEF FreeIn
    <3> HIDE DEF f, l
    <3>2. /\ Chain(f) /\ Lowest(f) /\ SameUse(g, f) /\ FreeIn(f) = FreeIn(g) \ {p}
          /\ \A r \in Items(g) \ {p} :
               f.item[r].next = IF r = l THEN g.item[p].next ELSE g.item[r].next
      BY <1>4, <2>1, <3>1, MergedFree
    <3>3. Apart(f, {})
      <4>1. ASSUME NEW r \in FreeIn(f), f.item[r].next \in FreeIn(f)
            PROVE  FALSE
        <5>1. r \in FreeIn(g) /\ r \in Items(g) \ {p}
          BY <3>2 DEF FreeIn
        <5>2. r # l
          BY <1>4, <3>2, <4>1, <5>1
        <5>3. f.item[r].next = g.item[r].next
          BY <3>2, <5>1, <5>2
        <5> QED
          BY <1>4, <3>2, <4>1, <5>1, <5>3 DEF Apart
      <4> QED
        BY <4>1 DEF Apart
    <3> QED
      BY <3>2, <3>3
  <2>2. CASE p = 0 \/ l \notin FreeIn(g)
    <3>1. f = g
      BY <1>3, <1>6, <1>7, <2>2 DEF FreeIn
    <3>2. ASSUME NEW r \in FreeIn(g), g.item[r].next \in FreeIn(g)
          PROVE  FALSE
      <4>1. r = p \/ g.item[r].next = p
        BY <1>4, <3>2 DEF Apart
      <4>2. g.item[r].next = p
        BY <1>4, <3>2, <4>1
      <4>3. r \in Items(g)
        BY DEF FreeIn
      <4>4. g.item[p].prev = r /\ p > r /\ r \in Nat
        BY <1>4, <1>5, <4>2, <4>3, NextIs
      <4> QED
        BY <1>3, <2>2, <4>4
    <3> QED
      BY <1>4, <3>1, <3>2 DEF Apart, SameUse
  <2> QED
    BY <2>1, <2>2
<1>9. SameUse(h, f)
  BY <1>4, <1>8 DEF SameUse
<1>10. f.used = Cardinality(BytesOf(f))
  BY <1>2, <1>9, SameBytes
<1> QED
  BY <1>1, <1>8, <1>9, <1>10 DEF Sound

-----------------------------------------------------------------------------

\* Sums of multiples.
LEMMA MultipleSum ==
  ASSUME NEW d \in Nat \ {0}, NEW x \in Int, NEW y \in Int, x % d = 0, y % d = 0
  PROVE  (x + y) % d = 0 /\ (x - y) % d = 0
<1> DEFINE i == x \div d
           j == y \div d
<1>1. i \in Int /\ j \in Int /\ x = d * i /\ y = d * j
  OBVIOUS
<1> HIDE DEF i, j
<1>2. d * i + d * j = d * (i + j) /\ d * i - d * j = d * (i - j)
  BY <1>1
<1>3. \A z \in Int : (d * z) % d = 0
  OBVIOUS
<1>4. i + j \in Int /\ i - j \in Int
  BY <1>1
<1>5. (d * (i + j)) % d = 0 /\ (d * (i - j)) % d = 0
  BY <1>3, <1>4
<1> QED
  BY <1>1, <1>2, <1>5

\* Item p is cut off behind its first size bytes.
LEMMA SplitIs ==
  ASSUME MemAssumption, NEW h, Chain(h), NEW p \in Items(h),
         NEW size \in Nat \ {0}, size % Align = 0, Room(h, p) > size + Header,
         NEW q, q = p + Header + size, NEW g, g = Split(h, p, size)
  PROVE  /\ g \in Heaps /\ DOMAIN g.item = DOMAIN h.item \cup {q}
         /\ q \in Nat /\ q > p + Header /\ q + Header < h.item[p].next
         /\ q \notin DOMAIN h.item /\ q # End
         /\ g.lfree = h.lfree /\ g.used = h.used
         /\ g.item[q].next = h.item[p].next /\ g.item[q].prev = p /\ ~g.item[q].used
         /\ \A r \in DOMAIN h.item :
              /\ g.item[r].next = IF r = p THEN q ELSE h.item[r].next
              /\ g.item[r].prev = IF r = h.item[p].next /\ r # End THEN q ELSE h.item[r].prev
              /\ g.item[r].used = h.item[r].used
<1> DEFINE D == DOMAIN h.item
           n == h.item[p].next
           I == [r \in D \cup {q} |->
                  IF r = p THEN [h.item[p] EXCEPT !.next = q]
                  ELSE IF r = q THEN [next |-> n, prev |-> p, used |-> FALSE]
                  ELSE IF r = n /\ n # End THEN [h.item[n] EXCEPT !.prev = q]
                  ELSE h.item[r]]
<1>1. /\ h \in Heaps /\ D \in SUBSET Place /\ h.item \in [D -> Item]
      /\ \A r \in D : r \in Nat /\ r <= End
      /\ End \in Nat /\ Header \in Nat \ {0}
  BY ChainIs
<1>2. /\ p \in D /\ n \in D /\ n > p + Header /\ n <= End /\ p \in Nat /\ n \in Nat /\ p # End
      /\ \A r \in D : r <= p \/ r >= n
  BY NextIs
<1>3. q \in Nat /\ q > p + Header /\ q + Header < n
  BY <1>1, <1>2 DEF Room
<1>4. q \notin D /\ q # End /\ p # q /\ n # q /\ n # p
  BY <1>1, <1>2, <1>3
<1>5. q \in Place
  <2>1. Align \in Nat \ {0} /\ Header % Align = 0 /\ p % Align = 0
    BY <1>1, <1>2 DEF MemAssumption, Place
  <2>2. (p + Header) % Align = 0 /\ p + Header \in Int
    BY <1>1, <1>2, <2>1, MultipleSum, SMTT(20)
  <2>3. (p + Header + size) % Align = 0
    BY <2>1, <2>2, MultipleSum
  <2>4. q \in 0..End
    BY <1>1, <1>2, <1>3
  <2> QED
    BY <2>3, <2>4 DEF Place
<1>6. Split(h, p, size) = [h EXCEPT !.item = I]
  BY DEF Split
<1>7. \A r \in D : h.item[r] \in Item
  BY <1>1
<1>8. p \in Place /\ n \in Place
  BY <1>1, <1>2
<1>9. I \in [D \cup {q} -> Item]
  BY <1>2, <1>5, <1>7, <1>8 DEF Item
<1>10. /\ \A r \in D :
            /\ I[r].next = IF r = p THEN q ELSE h.item[r].next
            /\ I[r].prev = IF r = n /\ r # End THEN q ELSE h.item[r].prev
            /\ I[r].used = h.item[r].used
       /\ I[q].next = n /\ I[q].prev = p /\ ~I[q].used
  BY <1>2, <1>4, <1>7 DEF Item
<1> HIDE DEF I, D, n
<1>11. D \cup {q} \in SUBSET Place
  BY <1>1, <1>5
<1>12. I \in UNION {[E -> Item] : E \in SUBSET Place}
  BY <1>9, <1>11
<1>13. /\ g.item = I /\ g.used = h.used /\ g.lfree = h.lfree /\ g \in Heaps
  BY <1>1, <1>6, <1>12 DEF Heaps
<1>14. DOMAIN I = D \cup {q}
  BY <1>9
<1> QED
  BY <1>3, <1>4, <1>10, <1>13, <1>14 DEF D, n

LEMMA SplitChain ==
  ASSUME MemAssumption, NEW h, Chain(h), NEW p \in Items(h),
         NEW size \in Nat \ {0}, size % Align = 0, Room(h, p) > size + Header,
         NEW g, g = Split(h, p, size)
  PROVE  Chain(g)
<1> DEFINE D == DOMAIN h.item
           n == h.item[p].next
           q == p + Header + size
<1>1. /\ g \in Heaps /\ DOMAIN g.item = D \cup {q}
      /\ q \in Nat /\ q > p + Header /\ q + Header < n /\ q \notin D /\ q # End
      /\ g.item[q].next = n /\ g.item[q].prev = p
      /\ \A r \in D : /\ g.item[r].next = IF r = p THEN q ELSE h.item[r].next
                      /\ g.item[r].prev = IF r = n /\ r # End THEN q ELSE h.item[r].prev
  BY SplitIs
<1>2. /\ p \in D /\ p \in Nat /\ n \in D /\ n \in Nat /\ n > p /\ p # End
      /\ \A x \in D : x <= p \/ x >= n
      /\ n # End => h.item[n].prev = p
  BY NextIs
<1>3. /\ {0, End} \in SUBSET D /\ Header \in Nat \ {0} /\ End \in Nat
      /\ \A x \in D : x \in Nat /\ x <= End
  BY ChainIs
<1>4. /\ h.item[0].prev = 0
      /\ \A x \in D \ {End} : /\ h.item[x].next \in D /\ h.item[x].next > x + Header
                              /\ \A y \in D : y <= x \/ y >= h.item[x].next
                              /\ h.item[x].next # End => h.item[h.item[x].next].prev = x
      /\ \A x \in D \ {0, End} : /\ h.item[x].prev \in D /\ h.item[x].prev < x
                                 /\ h.item[h.item[x].prev].next = x
  BY DEF Chain
<1> HIDE DEF D, n, q
<1>5. {0, End} \in SUBSET (D \cup {q}) /\ g.item[0].prev = 0
  BY <1>1, <1>2, <1>3, <1>4
<1>6. ASSUME NEW r \in (D \cup {q}) \ {End}
      PROVE  /\ g.item[r].next \in D \cup {q} /\ g.item[r].next > r + Header
             /\ \A x \in D \cup {q} : x <= r \/ x >= g.item[r].next
             /\ g.item[r].next # End => g.item[g.item[r].next].prev = r
  <2>1. CASE r = p
    <3>1. g.item[r].next = q
      BY <1>1, <1>2, <2>1
    <3>2. \A x \in D \cup {q} : x <= p \/ x >= q
      BY <1>1, <1>2, <1>3
    <3> QED
      BY <1>1, <2>1, <3>1, <3>2
  <2>2. CASE r = q
    <3>1. \A x \in D \cup {q} : x <= q \/ x >= n
      BY <1>1, <1>2, <1>3
    <3>2. n # End => g.item[n].prev = q
      BY <1>1, <1>2
    <3> QED
      BY <1>1, <1>2, <2>2, <3>1, <3>2
  <2>3. CASE r # p /\ r # q
    <3>1. r \in D \ {End} /\ g.item[r].next = h.item[r].next
      BY <1>1, <2>3
    <3>2. h.item[r].next # n \/ n = End
      BY <1>2, <1>4, <2>3, <3>1
    <3>3. q <= r \/ q >= h.item[r].next
      <4>1. r <= p \/ r >= n
        BY <1>2, <3>1
      <4>2. r < p => h.item[r].next <= p
        BY <1>2, <1>3, <1>4, <3>1
      <4>3. r \in Nat /\ h.item[r].next \in Nat
        BY <1>3, <1>4, <3>1
      <4> QED
        BY <1>1, <1>2, <1>3, <2>3, <4>1, <4>2, <4>3
    <3>4. h.item[r].next # End => g.item[h.item[r].next].prev = r
      BY <1>1, <1>4, <3>1, <3>2
    <3> QED
      BY <1>4, <3>1, <3>3, <3>4
  <2> QED
    BY <2>1, <2>2, <2>3
<1>7. ASSUME NEW r \in (D \cup {q}) \ {0, End}
      PROVE  /\ g.item[r].prev \in D \cup {q} /\ g.item[r].prev < r
             /\ g.item[g.item[r].prev].next = r
  <2>1. CASE r = q
    BY <1>1, <1>2, <1>3, <2>1
  <2>2. CASE r = n
    BY <1>1, <1>2, <1>3, <2>2
  <2>3. CASE r # q /\ r # n
    <3>1. r \in D \ {0, End} /\ g.item[r].prev = h.item[r].prev
      BY <1>1, <2>3
    <3>2. h.item[r].prev # p
      BY <1>4, <2>3, <3>1 DEF n
    <3> QED
      BY <1>1, <1>4, <3>1, <3>2
  <2> QED
    BY <2>1, <2>2, <2>3
<1> QED
  BY <1>1, <1>5, <1>6, <1>7 DEF Chain

-----------------------------------------------------------------------------

\* The bytes of the items in use.
LEMMA BytesIs ==
  ASSUME MemAssumption, NEW h, Chain(h)
  PROVE  /\ IsFiniteSet(BytesOf(h)) /\ Cardinality(BytesOf(h)) \in Nat
         /\ \A p \in Items(h) : \A x \in p..h.item[p].next - 1 :
              x \in BytesOf(h) <=> p \in UsedIn(h)
         /\ \A p \in UsedIn(h) : p..h.item[p].next - 1 \in SUBSET BytesOf(h)
<1>1. End \in Nat /\ 0 \in Int
  BY ChainIs
<1>2. IsFiniteSet(0..End)
  BY <1>1, FS_Interval
<1>3. ASSUME NEW p \in UsedIn(h)
      PROVE  p \in Items(h) /\ p \in Nat /\ h.item[p].next \in Nat /\ h.item[p].next <= End
  <2>1. p \in Items(h)
    BY DEF UsedIn
  <2> QED
    BY <2>1, NextIs
<1>4. BytesOf(h) \in SUBSET (0..End)
  BY <1>1, <1>3 DEF BytesOf
<1>5. IsFiniteSet(BytesOf(h))
  BY <1>2, <1>4, FS_Subset
<1>6. Cardinality(BytesOf(h)) \in Nat
  BY <1>5, FS_CardinalityType
<1>7. ASSUME NEW p \in Items(h), NEW x, x \in p..h.item[p].next - 1
      PROVE  x \in BytesOf(h) <=> p \in UsedIn(h)
  <2>1. /\ p \in Nat /\ h.item[p].next \in Nat /\ p \in DOMAIN h.item
        /\ \A r \in DOMAIN h.item : r <= p \/ r >= h.item[p].next
    BY NextIs
  <2>2. ASSUME NEW r \in UsedIn(h), x \in r..h.item[r].next - 1
        PROVE  r = p
    <3>1. r \in Items(h)
      BY DEF UsedIn
    <3>2. /\ r \in Nat /\ h.item[r].next \in Nat /\ r \in DOMAIN h.item
          /\ \A y \in DOMAIN h.item : y <= r \/ y >= h.item[r].next
      BY <3>1, NextIs
    <3>3. x \in Int /\ p <= x /\ x < h.item[p].next /\ r <= x /\ x < h.item[r].next
      BY <1>7, <2>1, <2>2, <3>2
    <3> QED
      BY <2>1, <3>2, <3>3
  <2>3. x \in BytesOf(h) => p \in UsedIn(h)
    BY <2>2 DEF BytesOf
  <2> QED
    BY <1>7, <2>3 DEF BytesOf
<1> QED
  BY <1>5, <1>6, <1>7 DEF BytesOf

LEMMA InBytes ==
  ASSUME NEW h, NEW x
  PROVE  x \in BytesOf(h) <=> \E r \in UsedIn(h) : x \in r..h.item[r].next - 1
BY DEF BytesOf

\* The bytes of g are those of h and an interval that h does not use.
LEMMA BytesMore ==
  ASSUME NEW B, IsFiniteSet(B), NEW i \in Int, NEW j \in Int, i <= j,
         NEW C, C = B \cup (i..j-1), \A x \in i..j-1 : x \notin B
  PROVE  Cardinality(C) = Cardinality(B) + (j - i)
<1> DEFINE K == i..j-1
<1>1. IsFiniteSet(K) /\ Cardinality(K) = j - i
  <2>1. j - 1 \in Int
    OBVIOUS
  <2>2. IsFiniteSet(K) /\ Cardinality(K) = IF i > j-1 THEN 0 ELSE (j-1)-i+1
    BY <2>1, FS_Interval
  <2> QED
    BY <2>2
<1>2. C = B \cup K /\ B \cap K = {}
  OBVIOUS
<1> HIDE DEF K
<1>3. Cardinality(B \cup K) = Cardinality(B) + Cardinality(K) - Cardinality(B \cap K)
  BY <1>1, FS_Union
<1>4. Cardinality(B \cap K) = 0
  BY <1>2, FS_EmptySet
<1>5. Cardinality(B) \in Nat
  BY FS_CardinalityType
<1>6. Cardinality(C) = Cardinality(B) + (j - i) - 0
  BY <1>1, <1>2, <1>3, <1>4
<1> QED
  BY <1>5, <1>6

LEMMA LeastIs ==
  ASSUME NEW T \in SUBSET Nat, T # {}
  PROVE  Min(T) \in T /\ \A y \in T : Min(T) <= y
<1>1. IsWellFoundedOn(OpToRel(<, Nat), Nat)
  BY NatLessThanWellFounded
<1>2. PICK x \in T : \A y \in T : << y, x >> \notin OpToRel(<, Nat)
  BY <1>1, WFMin
<1>3. \A y \in T : ~(y < x)
  BY <1>2 DEF OpToRel
<1>4. \A y \in T : x <= y
  BY <1>3
<1> QED
  BY <1>2, <1>4 DEF Min

-----------------------------------------------------------------------------

LEMMA SameChain ==
  ASSUME NEW h, Chain(h), NEW g \in Heaps, DOMAIN g.item = DOMAIN h.item,
         \A r \in DOMAIN h.item : /\ g.item[r].next = h.item[r].next
                                  /\ g.item[r].prev = h.item[r].prev
  PROVE  Chain(g)
<1> DEFINE D == DOMAIN h.item
<1>1. /\ {0, End} \in SUBSET D /\ h.item[0].prev = 0
      /\ \A x \in D \ {End} : /\ h.item[x].next \in D /\ h.item[x].next > x + Header
                              /\ \A y \in D : y <= x \/ y >= h.item[x].next
                              /\ h.item[x].next # End => h.item[h.item[x].next].prev = x
      /\ \A x \in D \ {0, End} : /\ h.item[x].prev \in D /\ h.item[x].prev < x
                                 /\ h.item[h.item[x].prev].next = x
  BY DEF Chain
<1> HIDE DEF D
<1>2. ASSUME NEW x \in D \ {End}
      PROVE  /\ g.item[x].next \in D /\ g.item[x].next > x + Header
             /\ \A y \in D : y <= x \/ y >= g.item[x].next
             /\ g.item[x].next # End => g.item[g.item[x].next].prev = x
  BY <1>1 DEF D
<1>3. ASSUME NEW x \in D \ {0, End}
      PROVE  /\ g.item[x].prev \in D /\ g.item[x].prev < x
             /\ g.item[g.item[x].prev].next = x
  BY <1>1 DEF D
<1>4. {0, End} \in SUBSET D /\ g.item[0].prev = 0
  BY <1>1 DEF D
<1> QED
  BY <1>2, <1>3, <1>4 DEF Chain, D

\* Item p is marked as used or free.
Marked(h, g, p, v, l, n) ==
  /\ Chain(g) /\ DOMAIN g.item = DOMAIN h.item /\ g.lfree = l /\ g.used = n
  /\ \A r \in DOMAIN h.item : /\ g.item[r].next = h.item[r].next
                              /\ g.item[r].used = IF r = p THEN v ELSE h.item[r].used

LEMMA MarkedIs ==
  ASSUME MemAssumption, NEW h, Chain(h), NEW p \in Items(h), NEW v \in BOOLEAN,
         NEW l \in Place, NEW n \in Int,
         NEW g, g = [h EXCEPT !.item[p].used = v, !.lfree = l, !.used = n]
  PROVE  Marked(h, g, p, v, l, n)
<1> DEFINE D == DOMAIN h.item
           I == [h.item EXCEPT ![p].used = v]
<1>1. h \in Heaps /\ D \in SUBSET Place /\ h.item \in [D -> Item] /\ p \in D
  BY ChainIs DEF Items
<1>2. \A r \in D : h.item[r] \in Item
  BY <1>1
<1>3. I \in [D -> Item]
  BY <1>1, <1>2 DEF Item
<1>4. \A r \in D : /\ I[r].next = h.item[r].next /\ I[r].prev = h.item[r].prev
                   /\ I[r].used = IF r = p THEN v ELSE h.item[r].used
  BY <1>1, <1>2 DEF Item
<1>5. h.item \in UNION {[E -> Item] : E \in SUBSET Place}
  BY <1>1
<1>6. g = [h EXCEPT !.item = I, !.lfree = l, !.used = n]
  BY <1>1 DEF Heaps
<1> HIDE DEF I, D
<1>7. I \in UNION {[E -> Item] : E \in SUBSET Place}
  BY <1>1, <1>3
<1>8. g.item = I /\ g.lfree = l /\ g.used = n /\ g \in Heaps
  BY <1>1, <1>6, <1>7 DEF Heaps
<1>9. DOMAIN I = D
  BY <1>3
<1>10. Chain(g)
  BY <1>4, <1>8, <1>9, SameChain DEF D
<1> QED
  BY <1>4, <1>8, <1>9, <1>10 DEF D, Marked

\* rt_smem_free, before plug_holes, leaves a hole at p.
LEMMA FreedSound ==
  ASSUME MemAssumption, NEW h, Sound(h, {}), NEW p \in UsedIn(h), NEW g, g = Freed(h, p)
  PROVE  /\ Sound(g, {p}) /\ p \in FreeIn(g) /\ UsedIn(g) = UsedIn(h) \ {p}
         /\ \A r \in UsedIn(h) : g.item[r].next = h.item[r].next
<1> DEFINE l == IF p < h.lfree THEN p ELSE h.lfree
           n == h.used - (Header + Room(h, p))
<1>1. /\ Chain(h) /\ Lowest(h) /\ Apart(h, {}) /\ h.used = Cardinality(BytesOf(h))
      /\ p \in Items(h) /\ h.item[p].used
  BY DEF Sound, UsedIn
<1>2. /\ p \in DOMAIN h.item /\ p \in Nat /\ p \in Place /\ h.item[p].next \in Nat
      /\ h.item[p].next > p /\ Header \in Nat \ {0} /\ h.lfree \in Place /\ h.used \in Int
      /\ DOMAIN h.item \in SUBSET Place
  BY <1>1, ChainIs, NextIs
<1>3. g = [h EXCEPT !.item[p].used = FALSE, !.lfree = l, !.used = n]
  BY DEF Freed
<1>4. l \in Place /\ n \in Int /\ FALSE \in BOOLEAN
  BY <1>2 DEF Room
<1>5. n = h.used - (h.item[p].next - p)
  BY <1>2 DEF Room
<1> HIDE DEF l, n
<1>6. /\ Chain(g) /\ DOMAIN g.item = DOMAIN h.item /\ g.lfree = l /\ g.used = n
      /\ \A r \in DOMAIN h.item : /\ g.item[r].next = h.item[r].next
                                  /\ g.item[r].used = IF r = p THEN FALSE ELSE h.item[r].used
  <2>1. Marked(h, g, p, FALSE, l, n)
    BY <1>1, <1>3, <1>4, MarkedIs
  <2> QED
    BY <2>1 DEF Marked
<1>7. FreeIn(g) = FreeIn(h) \cup {p} /\ UsedIn(g) = UsedIn(h) \ {p} /\ Items(g) = Items(h)
  BY <1>1, <1>6 DEF FreeIn, UsedIn, Items
<1>8. Lowest(g)
  <2>1. \A r \in FreeIn(h) : r \in Nat /\ h.lfree <= r
    BY <1>1, ChainIs DEF FreeIn, Items, Lowest
  <2>2. h.lfree \in FreeIn(h) \cup {End} /\ h.lfree \in Nat
    BY <1>1, <1>2 DEF Lowest, Place
  <2> QED
    BY <1>2, <1>6, <1>7, <2>1, <2>2 DEF Lowest, l
<1>9. Apart(g, {p})
  BY <1>1, <1>6, <1>7 DEF Apart, FreeIn, Items
<1>10. g.used = Cardinality(BytesOf(g))
  <2> DEFINE e == h.item[p].next
  <2>1. \A x \in p..e-1 : x \notin BytesOf(g)
    BY <1>2, <1>6, <1>7, <1>1, BytesIs
  <2>2. BytesOf(h) = BytesOf(g) \cup (p..e-1)
    <3>1. \A r \in UsedIn(h) : g.item[r].next = h.item[r].next
      BY <1>6 DEF UsedIn, Items
    <3> QED
      BY <1>7, <3>1 DEF BytesOf
  <2>3. IsFiniteSet(BytesOf(g)) /\ Cardinality(BytesOf(g)) \in Nat
    BY <1>6, BytesIs
  <2>4. p \in Int /\ e \in Int /\ p <= e
    BY <1>2
  <2> HIDE DEF e
  <2>5. Cardinality(BytesOf(h)) = Cardinality(BytesOf(g)) + (e - p)
    BY <2>1, <2>2, <2>3, <2>4, BytesMore
  <2> QED
    BY <1>1, <1>2, <1>5, <1>6, <2>3, <2>4, <2>5 DEF e
<1> QED
  BY <1>6, <1>7, <1>8, <1>9, <1>10 DEF Sound, UsedIn, Items

\* rt_smem_realloc, before plug_holes: the end of p becomes a hole.
LEMMA ShrunkSound ==
  ASSUME MemAssumption, NEW h, Sound(h, {}), NEW p \in UsedIn(h),
         NEW size \in Nat \ {0}, size % Align = 0, size + Header + MinSize < Room(h, p),
         NEW q, q = p + Header + size, NEW g, g = Shrunk(h, p, size)
  PROVE  /\ Sound(g, {q}) /\ q \in FreeIn(g) /\ UsedIn(g) = UsedIn(h)
         /\ g.item[p].next = q /\ Room(g, p) = size
         /\ \A r \in UsedIn(h) \ {p} : g.item[r].next = h.item[r].next
<1> DEFINE l == IF q < h.lfree THEN q ELSE h.lfree
           n == h.used - (Room(h, p) - size)
           f == Split(h, p, size)
           e == h.item[p].next
<1>1. /\ Chain(h) /\ Lowest(h) /\ Apart(h, {}) /\ h.used = Cardinality(BytesOf(h))
      /\ p \in Items(h) /\ h.item[p].used
  BY DEF Sound, UsedIn
<1>2. /\ p \in DOMAIN h.item /\ p \in Nat /\ e \in Nat /\ e > p /\ Header \in Nat \ {0}
      /\ h.lfree \in Place /\ h.used \in Int /\ p # End
  BY <1>1, ChainIs, NextIs
<1>3. Room(h, p) > size + Header /\ Room(h, p) = e - (p + Header)
  BY <1>2 DEF Room, MemAssumption
<1>4. /\ Chain(f) /\ f \in Heaps /\ DOMAIN f.item = DOMAIN h.item \cup {q}
      /\ q \in Nat /\ q > p + Header /\ q + Header < e /\ q \notin DOMAIN h.item /\ q # End
      /\ f.lfree = h.lfree /\ f.used = h.used /\ f.item[q].next = e /\ ~f.item[q].used
      /\ \A r \in DOMAIN h.item :
           /\ f.item[r].next = IF r = p THEN q ELSE h.item[r].next
           /\ f.item[r].used = h.item[r].used
  <2>1. Chain(f)
    BY <1>1, <1>3, SplitChain
  <2> QED
    BY <1>1, <1>3, <2>1, SplitIs
<1>5. g = [f EXCEPT !.lfree = l, !.used = n]
  BY <1>4 DEF Shrunk, Heaps
<1>6. q \in Place /\ l \in Place /\ n \in Int
  <2>1. q \in Place
    BY <1>4, ChainIs
  <2> QED
    BY <1>2, <1>3, <2>1
<1>7. n = h.used - (e - q)
  BY <1>2, <1>3, <1>4
<1> HIDE DEF l, n, f, e
<1>8. g \in Heaps /\ g.item = f.item /\ g.lfree = l /\ g.used = n
  BY <1>4, <1>5, <1>6 DEF Heaps
<1>9. Chain(g)
  BY <1>4, <1>8, SameChain
<1>10. FreeIn(g) = FreeIn(h) \cup {q} /\ UsedIn(g) = UsedIn(h) /\ q \notin FreeIn(h)
  BY <1>1, <1>4, <1>8 DEF FreeIn, UsedIn, Items
<1>11. Lowest(g)
  <2>1. \A r \in FreeIn(h) : r \in Nat /\ h.lfree <= r
    BY <1>1, ChainIs DEF FreeIn, Items, Lowest
  <2>2. h.lfree \in FreeIn(h) \cup {End} /\ h.lfree \in Nat
    BY <1>1, <1>2 DEF Lowest, Place
  <2> QED
    BY <1>4, <1>8, <1>10, <2>1, <2>2 DEF Lowest, l
<1>12. Apart(g, {q})
  <2>1. ASSUME NEW r \in FreeIn(g), g.item[r].next \in FreeIn(g), r # q, g.item[r].next # q
        PROVE  FALSE
    <3>1. r \in FreeIn(h) /\ r \in DOMAIN h.item /\ r # p
      BY <1>1, <1>10, <2>1 DEF FreeIn, Items
    <3>2. g.item[r].next = h.item[r].next /\ g.item[r].next \in FreeIn(h)
      BY <1>4, <1>8, <1>10, <2>1, <3>1
    <3> QED
      BY <1>1, <3>1, <3>2 DEF Apart
  <2> QED
    BY <2>1 DEF Apart
<1>13. /\ \A r \in UsedIn(h) \ {p} : g.item[r].next = h.item[r].next
       /\ g.item[p].next = q /\ g.item[q].next = e
  BY <1>2, <1>4, <1>8 DEF UsedIn, Items
<1>14. g.used = Cardinality(BytesOf(g))
  <2>1. q \in Items(g) /\ q \notin UsedIn(g)
    BY <1>4, <1>8 DEF Items, UsedIn
  <2>2. \A x \in q..e-1 : x \notin BytesOf(g)
    BY <1>9, <1>13, <2>1, BytesIs
  <2>3. BytesOf(h) = BytesOf(g) \cup (q..e-1)
    <3>1. p..e-1 = (p..q-1) \cup (q..e-1)
      BY <1>2, <1>4
    <3>2. ASSUME NEW x \in BytesOf(h) PROVE x \in BytesOf(g) \cup (q..e-1)
      <4>1. PICK r \in UsedIn(h) : x \in r..h.item[r].next - 1
        BY <3>2, InBytes
      <4>2. CASE r = p
        <5>1. x \in p..e-1
          BY <4>1, <4>2 DEF e
        <5>2. x \in p..q-1 => x \in BytesOf(g)
          BY <1>10, <1>13, <4>1, <4>2, InBytes
        <5> QED
          BY <3>1, <5>1, <5>2
      <4>3. CASE r # p
        BY <1>10, <1>13, <4>1, <4>3, InBytes
      <4> QED
        BY <4>2, <4>3
    <3>3. ASSUME NEW x \in BytesOf(g) PROVE x \in BytesOf(h)
      <4>1. PICK r \in UsedIn(h) : x \in r..g.item[r].next - 1
        BY <1>10, <3>3, InBytes
      <4>2. CASE r = p
        <5>1. x \in p..e-1
          BY <1>13, <3>1, <4>1, <4>2
        <5> QED
          BY <4>1, <4>2, <5>1, InBytes DEF e
      <4>3. CASE r # p
        BY <1>13, <4>1, <4>3, InBytes
      <4> QED
        BY <4>2, <4>3
    <3>4. ASSUME NEW x \in q..e-1 PROVE x \in BytesOf(h)
      <4>1. x \in p..e-1
        BY <3>1
      <4> QED
        BY <4>1, InBytes DEF e
    <3> QED
      BY <3>2, <3>3, <3>4
  <2>4. IsFiniteSet(BytesOf(g)) /\ Cardinality(BytesOf(g)) \in Nat
    BY <1>9, BytesIs
  <2>5. q \in Int /\ e \in Int /\ q <= e
    BY <1>2, <1>4
  <2>6. Cardinality(BytesOf(h)) = Cardinality(BytesOf(g)) + (e - q)
    BY <2>2, <2>3, <2>4, <2>5, BytesMore
  <2> QED
    BY <1>1, <1>2, <1>7, <1>8, <2>4, <2>5, <2>6
<1>15. Room(g, p) = size
  BY <1>2, <1>13 DEF Room
<1> QED
  BY <1>8, <1>9, <1>10, <1>11, <1>12, <1>13, <1>14, <1>15 DEF Sound

\* Item p, which is free, is taken as it is.
NowUsed(h, g, p) ==
  /\ Sound(g, {}) /\ UsedIn(g) = UsedIn(h) \cup {p}
  /\ \A r \in Items(h) : g.item[r].next = h.item[r].next

LEMMA TakenSound ==
  ASSUME MemAssumption, NEW h, Chain(h), Lowest(h), NEW p \in FreeIn(h), Apart(h, {p}),
         h.used = Cardinality(BytesOf(h)),
         NEW u, u = [h EXCEPT !.item[p].used = TRUE, !.used = @ + Header + Room(h, p)],
         NEW g, g = IF p = u.lfree THEN [u EXCEPT !.lfree = NextFree(u)] ELSE u
  PROVE  NowUsed(h, g, p)
<1> DEFINE n == h.used + Header + Room(h, p)
           l == h.lfree
           e == h.item[p].next
<1>1. p \in Items(h) /\ ~h.item[p].used
  BY DEF FreeIn
<1>2. /\ p \in DOMAIN h.item /\ p \in Nat /\ e \in Nat /\ e > p /\ Header \in Nat \ {0}
      /\ h.lfree \in Place /\ h.used \in Int /\ End \in Nat /\ End \in Place
  BY <1>1, ChainIs, NextIs
<1>3. u = [h EXCEPT !.item[p].used = TRUE, !.lfree = l, !.used = n]
  BY ChainIs DEF Heaps
<1>4. n = h.used + (e - p) /\ n \in Int /\ TRUE \in BOOLEAN
  BY <1>2 DEF Room
<1> HIDE DEF n, e, l
<1>5. l \in Place /\ l = h.lfree
  BY <1>2 DEF l
<1>6. Marked(h, u, p, TRUE, l, n)
  BY <1>1, <1>3, <1>4, <1>5, MarkedIs
<1>7. /\ Chain(u) /\ DOMAIN u.item = DOMAIN h.item /\ u.lfree = l /\ u.used = n
      /\ \A r \in DOMAIN h.item : /\ u.item[r].next = h.item[r].next
                                  /\ u.item[r].used = IF r = p THEN TRUE ELSE h.item[r].used
  BY <1>6 DEF Marked
<1>8. FreeIn(u) = FreeIn(h) \ {p} /\ UsedIn(u) = UsedIn(h) \cup {p}
  BY <1>1, <1>7 DEF FreeIn, UsedIn, Items
<1>9. \A r \in FreeIn(h) : r \in Nat /\ l <= r
  BY <1>5, ChainIs DEF FreeIn, Items, Lowest
<1>10. /\ g.item = u.item /\ g.used = u.used /\ g \in Heaps /\ Lowest(g)
  <2>1. CASE p = l
    <3> DEFINE T == {End} \cup {x \in Items(u) : x >= u.lfree /\ ~u.item[x].used}
    <3>1. T = {End} \cup FreeIn(u)
      BY <1>7, <1>8, <1>9 DEF FreeIn
    <3>2. T \in SUBSET Nat /\ T \in SUBSET Place /\ T # {}
      BY <1>2, <1>7, <3>1, ChainIs DEF FreeIn, Items
    <3>3. NextFree(u) = Min(T)
      BY DEF NextFree
    <3> HIDE DEF T
    <3>4. Min(T) \in T /\ \A y \in T : Min(T) <= y
      BY <3>2, LeastIs
    <3>5. g = [u EXCEPT !.lfree = Min(T)]
      BY <1>7, <2>1, <3>3
    <3>6. u \in Heaps
      BY <1>7 DEF Chain
    <3>7. g.item = u.item /\ g.used = u.used /\ g \in Heaps /\ g.lfree = Min(T)
      BY <3>2, <3>4, <3>5, <3>6 DEF Heaps
    <3>8. FreeIn(g) = FreeIn(u)
      BY <3>7 DEF FreeIn, Items
    <3> QED
      BY <3>1, <3>4, <3>7, <3>8 DEF Lowest
  <2>2. CASE p # l
    <3>1. g = u
      BY <1>7, <2>2
    <3> QED
      BY <1>5, <1>7, <1>8, <2>2, <3>1, SMTT(20) DEF Lowest, Chain
  <2> QED
    BY <2>1, <2>2
<1>11. Chain(g)
  BY <1>7, <1>10, SameChain
<1>12. FreeIn(g) = FreeIn(u) /\ UsedIn(g) = UsedIn(u) /\ BytesOf(g) = BytesOf(u)
  BY <1>10 DEF FreeIn, UsedIn, Items, BytesOf
<1>13. Apart(g, {})
  BY <1>7, <1>8, <1>10, <1>12 DEF Apart, FreeIn, Items
<1>14. u.used = Cardinality(BytesOf(u))
  <2>1. \A x \in p..e-1 : x \notin BytesOf(h)
    BY <1>1, BytesIs DEF UsedIn, e
  <2>2. BytesOf(u) = BytesOf(h) \cup (p..e-1)
    <3>1. \A r \in UsedIn(u) : u.item[r].next = h.item[r].next
      BY <1>7 DEF UsedIn, Items
    <3>2. ASSUME NEW x
          PROVE  x \in BytesOf(u) <=> x \in BytesOf(h) \/ x \in p..e-1
      <4>1. x \in BytesOf(u) <=> \E r \in UsedIn(u) : x \in r..h.item[r].next - 1
        BY <3>1, InBytes
      <4>2. x \in BytesOf(h) <=> \E r \in UsedIn(h) : x \in r..h.item[r].next - 1
        BY InBytes
      <4> QED
        BY <1>8, <4>1, <4>2 DEF e
    <3> QED
      BY <3>2
  <2>3. IsFiniteSet(BytesOf(h)) /\ Cardinality(BytesOf(h)) \in Nat
    BY BytesIs
  <2>4. p \in Int /\ e \in Int /\ p <= e
    BY <1>2
  <2>5. Cardinality(BytesOf(u)) = Cardinality(BytesOf(h)) + (e - p)
    BY <2>1, <2>2, <2>3, <2>4, BytesMore
  <2> QED
    BY <1>4, <1>7, <2>5
<1> QED
  BY <1>7, <1>8, <1>10, <1>11, <1>12, <1>13, <1>14 DEF Sound, Items, NowUsed

\* rt_smem_alloc, with or without a split.
LEMMA AllocatedSound ==
  ASSUME MemAssumption, NEW h, Sound(h, {}), NEW p \in FreeIn(h),
         NEW size \in Nat \ {0}, size % Align = 0, Room(h, p) >= size,
         NEW g, g = Allocated(h, p, size)
  PROVE  /\ Sound(g, {}) /\ UsedIn(g) = UsedIn(h) \cup {p} /\ Room(g, p) >= size
         /\ \A r \in UsedIn(h) : g.item[r].next = h.item[r].next
<1> DEFINE f == IF Room(h, p) >= size + Header + MinSize THEN Split(h, p, size) ELSE h
           u == [f EXCEPT !.item[p].used = TRUE, !.used = @ + Header + Room(f, p)]
           q == p + Header + size
<1>1. /\ Chain(h) /\ Lowest(h) /\ Apart(h, {}) /\ h.used = Cardinality(BytesOf(h))
      /\ p \in Items(h) /\ ~h.item[p].used
  BY DEF Sound, FreeIn
<1>2. /\ p \in DOMAIN h.item /\ p \in Nat /\ Header \in Nat \ {0} /\ MinSize \in Nat \ {0}
      /\ h.item[p].next \in Nat
  BY <1>1, ChainIs, NextIs DEF MemAssumption
<1>3. g = IF p = u.lfree THEN [u EXCEPT !.lfree = NextFree(u)] ELSE u
  BY DEF Allocated
<1>4. /\ Chain(f) /\ Lowest(f) /\ p \in FreeIn(f) /\ Apart(f, {p})
      /\ f.used = h.used /\ UsedIn(f) = UsedIn(h) /\ Room(f, p) >= size
      /\ \A r \in UsedIn(h) : f.item[r].next = h.item[r].next
  <2>1. CASE Room(h, p) >= size + Header + MinSize
    <3>1. f = Split(h, p, size) /\ Room(h, p) > size + Header
      BY <1>2, <2>1 DEF Room
    <3> HIDE DEF f
    <3>2. Chain(f)
      BY <1>1, <3>1, SplitChain
    <3>3. /\ DOMAIN f.item = DOMAIN h.item \cup {q}
          /\ q \in Nat /\ q > p + Header /\ q \notin DOMAIN h.item /\ q # End
          /\ f.lfree = h.lfree /\ f.used = h.used
          /\ f.item[q].next = h.item[p].next /\ ~f.item[q].used
          /\ \A r \in DOMAIN h.item :
               /\ f.item[r].next = IF r = p THEN q ELSE h.item[r].next
               /\ f.item[r].used = h.item[r].used
      BY <1>1, <3>1, SplitIs
    <3> HIDE DEF q
    <3>4. FreeIn(f) = FreeIn(h) \cup {q} /\ UsedIn(f) = UsedIn(h) /\ q \notin FreeIn(h)
      BY <3>3 DEF FreeIn, UsedIn, Items
    <3>5. Lowest(f)
      <4>1. h.lfree <= p /\ h.lfree \in Nat
        BY <1>1, ChainIs DEF Lowest, Place
      <4> QED
        BY <1>1, <1>2, <3>3, <3>4, <4>1 DEF Lowest
    <3>6. Apart(f, {p})
      <4>1. ASSUME NEW r \in FreeIn(f), f.item[r].next \in FreeIn(f), r # p
            PROVE  FALSE
        <5>1. CASE r = q
          <6>1. h.item[p].next \in FreeIn(f) /\ h.item[p].next \in DOMAIN h.item
            BY <1>1, <3>3, <4>1, <5>1, NextIs
          <6> QED
            BY <1>1, <3>3, <3>4, <6>1 DEF Apart
        <5>2. CASE r # q
          <6>1. r \in FreeIn(h) /\ r \in Items(h) /\ r \in DOMAIN h.item
            BY <3>4, <5>2 DEF FreeIn, Items
          <6>2. f.item[r].next = h.item[r].next /\ h.item[r].next \in DOMAIN h.item
            BY <1>1, <3>3, <4>1, <6>1, NextIs
          <6> QED
            BY <1>1, <3>3, <3>4, <4>1, <6>1, <6>2 DEF Apart
        <5> QED
          BY <5>1, <5>2
      <4> QED
        BY <4>1 DEF Apart
    <3>7. Room(f, p) = size
      BY <1>2, <3>3 DEF Room, q
    <3>8. \A r \in UsedIn(h) : f.item[r].next = h.item[r].next
      BY <1>1, <3>3 DEF UsedIn, Items
    <3> QED
      BY <3>2, <3>3, <3>4, <3>5, <3>6, <3>7, <3>8
  <2>2. CASE ~(Room(h, p) >= size + Header + MinSize)
    <3>1. f = h
      BY <2>2
    <3> QED
      BY <1>1, <3>1 DEF Apart
  <2> QED
    BY <2>1, <2>2
<1>5. f.used = Cardinality(BytesOf(f))
  <2>1. SameUse(h, f)
    BY <1>4 DEF SameUse
  <2> QED
    BY <1>1, <2>1, SameBytes
<1>6. u = [f EXCEPT !.item[p].used = TRUE, !.used = @ + Header + Room(f, p)]
  OBVIOUS
<1> HIDE DEF f, u
<1>7. /\ Sound(g, {}) /\ UsedIn(g) = UsedIn(f) \cup {p}
      /\ \A r \in Items(f) : g.item[r].next = f.item[r].next
  <2>1. NowUsed(f, g, p)
    BY <1>3, <1>4, <1>5, <1>6, TakenSound
  <2> QED
    BY <2>1 DEF NowUsed
<1>8. Room(g, p) = Room(f, p)
  BY <1>4, <1>7 DEF Room, FreeIn
<1>9. \A r \in UsedIn(h) : g.item[r].next = h.item[r].next
  BY <1>4, <1>7 DEF UsedIn
<1> QED
  BY <1>4, <1>7, <1>8, <1>9

-----------------------------------------------------------------------------
(* Rounding. *)

\* RT_ALIGN, where it does not wrap.
LEMMA AlignedIs ==
  ASSUME MemAssumption, NEW n \in Nat, n + Align <= Width
  PROVE  /\ Aligned(n) \in Nat /\ Aligned(n) >= n /\ Aligned(n) < n + Align
         /\ Aligned(n) % Align = 0
<1> DEFINE m == n + Align - 1
<1>1. Align \in Nat \ {0} /\ Width \in Nat \ {0}
  BY DEF MemAssumption
<1>2. m \in Nat /\ m < Width
  BY <1>1
<1>3. m % Width = m
  BY <1>1, <1>2
<1>4. Aligned(n) = m - (m % Align)
  BY <1>3 DEF Aligned
<1>5. m % Align \in 0..Align-1
  BY <1>1, <1>2
<1>6. (m - (m % Align)) % Align = 0
  <2> DEFINE i == m \div Align
  <2>1. i \in Int /\ m = Align * i + (m % Align)
    BY <1>1, <1>2
  <2> HIDE DEF i
  <2>2. m - (m % Align) = Align * i
    BY <1>1, <1>2, <1>5, <2>1
  <2>3. \A z \in Int : (Align * z) % Align = 0
    BY <1>1
  <2> QED
    BY <2>1, <2>2, <2>3
<1> QED
  BY <1>1, <1>2, <1>4, <1>5, <1>6

LEMMA RoundedIs ==
  ASSUME MemAssumption, NEW n \in Nat, n + Align <= Width
  PROVE  Rounded(n) \in Nat \ {0} /\ Rounded(n) >= n /\ Rounded(n) % Align = 0
BY AlignedIs DEF Rounded, MemAssumption

LEMMA MultipleLeast ==
  ASSUME NEW d \in Nat \ {0}, NEW x \in Nat \ {0}, x % d = 0
  PROVE  x >= d
<1> SUFFICES ASSUME x < d PROVE FALSE
  OBVIOUS
<1>1. x % d = x
  OBVIOUS
<1> QED
  BY <1>1

LEMMA MultipleOfMultiple ==
  ASSUME NEW d \in Nat \ {0}, NEW e \in Nat \ {0}, NEW x \in Int, x % e = 0, e % d = 0
  PROVE  x % d = 0
<1> DEFINE i == x \div e
           j == e \div d
<1>1. i \in Int /\ j \in Int /\ x = e * i /\ e = d * j
  OBVIOUS
<1> HIDE DEF i, j
<1>2. x = (d * j) * i
  BY <1>1
<1>3. (d * j) * i = d * (j * i)
  BY <1>1
<1>4. j * i \in Int
  BY <1>1
<1>5. \A z \in Int : (d * z) % d = 0
  OBVIOUS
<1> QED
  BY <1>2, <1>3, <1>4, <1>5

\* rt_malloc_align: the next aligned address that leaves room for a word.
LEMMA AddressIs ==
  ASSUME MemAssumption, NEW e \in Nat \ {0}, e % Align = 0, NEW x \in Nat, x % Align = 0,
         NEW y, y = AlignedAddress(x, e)
  PROVE  y \in Nat /\ y % e = 0 /\ y - Align >= x /\ y <= x + e
<1>1. Align \in Nat \ {0} /\ e >= Align
  BY MultipleLeast DEF MemAssumption
<1>2. CASE x % e = 0
  <2>1. y = x + e
    BY <1>2 DEF AlignedAddress
  <2>2. e % e = 0
    OBVIOUS
  <2>3. (x + e) % e = 0
    BY <1>2, <2>2, MultipleSum
  <2> QED
    BY <1>1, <2>1, <2>3
<1>3. CASE x % e # 0
  <2> DEFINE m == x + (e - 1)
             i == m \div e
  <2>1. y = m - (m % e) /\ m \in Nat /\ m = x + (e - 1)
    BY <1>3 DEF AlignedAddress
  <2>2. m % e \in 0..e-1 /\ i \in Int /\ m = e * i + (m % e)
    BY <2>1
  <2> HIDE DEF m, i
  <2>3. y = e * i /\ y \in Int /\ y >= x /\ y <= x + e
    BY <2>1, <2>2
  <2>4. \A z \in Int : (e * z) % e = 0
    OBVIOUS
  <2>5. y % e = 0
    BY <2>2, <2>3, <2>4
  <2>6. y # x
    BY <1>3, <2>5
  <2>7. y % Align = 0
    BY <1>1, <2>3, <2>5, MultipleOfMultiple
  <2>8. (y - x) % Align = 0
    BY <1>1, <2>3, <2>7, MultipleSum
  <2>9. y - x \in Nat \ {0}
    BY <2>3, <2>6
  <2>10. y - x >= Align
    BY <1>1, <2>8, <2>9, MultipleLeast
  <2> QED
    BY <1>1, <2>3, <2>5, <2>9, <2>10
<1> QED
  BY <1>2, <1>3

\* What rt_smem_alloc is asked for.
LEMMA AskedIs ==
  ASSUME MemAssumption, NEW c, CallGood(c)
  PROVE  /\ Asked(c) \in Nat /\ Asked(c) + Align <= Width /\ Asked(c) >= c.size
         /\ c.align # 0 => /\ c.align + Align <= Width
                           /\ Asked(c) = Aligned(c.size) + Aligned(c.align)
<1>1. /\ c.size \in Nat /\ c.align \in Nat /\ c.size + Align <= Width
      /\ c.align # 0 => c.size + c.align + 3 * Align <= Width
      /\ Align \in Nat \ {0} /\ Width \in Nat \ {0}
  BY DEF CallGood, CallOf, MemAssumption
<1>2. CASE c.align = 0
  BY <1>1, <1>2 DEF Asked
<1>3. CASE c.align # 0
  <2>1. c.align + Align <= Width
    BY <1>1, <1>3
  <2>2. /\ Aligned(c.size) \in Nat /\ Aligned(c.size) >= c.size
        /\ Aligned(c.size) < c.size + Align
    BY <1>1, AlignedIs
  <2>3. /\ Aligned(c.align) \in Nat /\ Aligned(c.align) < c.align + Align
    BY <1>1, <2>1, AlignedIs
  <2>4. Asked(c) = (Aligned(c.size) + Aligned(c.align)) % Width
    BY <1>3 DEF Asked
  <2> DEFINE v == Aligned(c.size) + Aligned(c.align)
  <2>5. v \in Nat /\ v + Align <= Width /\ v < Width /\ v >= c.size
    BY <1>1, <1>3, <2>2, <2>3
  <2> HIDE DEF v
  <2>6. v % Width = v
    BY <1>1, <2>5
  <2> QED
    BY <2>1, <2>4, <2>5, <2>6 DEF v
<1> QED
  BY <1>2, <1>3

\* The address that is returned has room behind it for the size asked for.
LEMMA BlockIs ==
  ASSUME HeapAssumption, NEW h, Chain(h), NEW p \in UsedIn(h), NEW c, CallGood(c),
         Room(h, p) >= Asked(c)
  PROVE  BlockGood(h, Block(p, c.size, c.align))
<1> DEFINE b == Block(p, c.size, c.align)
<1>1. MemAssumption /\ Base \in Nat /\ Base % Align = 0
  BY DEF HeapAssumption
<1>2. p \in Items(h)
  BY DEF UsedIn
<1>3. /\ p \in DOMAIN h.item /\ p \in Nat /\ h.item[p].next \in Nat /\ Header \in Nat \ {0}
      /\ DOMAIN h.item \in SUBSET Place
  BY <1>1, <1>2, NextIs, ChainIs
<1>4. p \in Place /\ p % Align = 0
  BY <1>3 DEF Place
<1>5. c.size \in Nat /\ c.align \in Nat /\ c.size + Align <= Width
  BY DEF CallGood, CallOf
<1>6. /\ b.ptr = p /\ b.size = c.size /\ b.align = c.align
      /\ b.user = IF c.align = 0 THEN p + Header
                  ELSE AlignedAddress(Base + p + Header, Aligned(c.align)) - Base
  BY DEF Block
<1> HIDE DEF b
<1>7. /\ Asked(c) \in Nat /\ Asked(c) >= c.size
      /\ c.align # 0 => /\ c.align + Align <= Width
                        /\ Asked(c) = Aligned(c.size) + Aligned(c.align)
  BY <1>1, AskedIs
<1>8. CASE c.align = 0
  <2>1. b.user + b.size <= h.item[p].next
    BY <1>3, <1>5, <1>6, <1>7, <1>8 DEF Room
  <2> QED
    BY <1>4, <1>5, <1>6, <1>8, <2>1 DEF BlockGood, b
<1>9. CASE c.align # 0
  <2> DEFINE e == Aligned(c.align)
             x == Base + p + Header
             y == AlignedAddress(x, e)
  <2>1. e \in Nat \ {0} /\ e % Align = 0
    BY <1>1, <1>5, <1>7, <1>9, AlignedIs
  <2>2. x \in Nat /\ x % Align = 0
    <3>1. Align \in Nat \ {0} /\ Header % Align = 0
      BY <1>1 DEF MemAssumption
    <3>2. (Base + p) % Align = 0 /\ Base + p \in Int
      BY <1>1, <1>3, <1>4, <3>1, MultipleSum
    <3>3. (Base + p + Header) % Align = 0
      BY <1>3, <3>1, <3>2, MultipleSum
    <3> QED
      BY <1>1, <1>3, <3>3
  <2> HIDE DEF e, x
  <2>3. y \in Nat /\ y % e = 0 /\ y - Align >= x /\ y <= x + e
    BY <1>1, <2>1, <2>2, AddressIs
  <2> HIDE DEF y
  <2>4. b.user = y - Base /\ x = Base + p + Header
    BY <1>6, <1>9 DEF x, y, e
  <2>5. Aligned(c.size) >= c.size /\ Aligned(c.size) \in Nat
    BY <1>1, <1>5, AlignedIs
  <2>6. b.user + c.size <= h.item[p].next
    <3>1. e + Aligned(c.size) <= h.item[p].next - (p + Header)
      BY <1>3, <1>7, <1>9, <2>1, <2>5 DEF Room, e
    <3> QED
      BY <1>1, <1>3, <1>5, <2>1, <2>2, <2>3, <2>4, <2>5, <3>1
  <2>7. Base + b.user = y /\ b.user - Align >= p + Header
    <3>1. Align \in Nat
      BY <1>1 DEF MemAssumption
    <3> QED
      BY <1>1, <1>3, <2>2, <2>3, <2>4, <3>1
  <2>8. (Base + b.user) % Aligned(b.align) = 0
    BY <1>6, <2>3, <2>7 DEF e
  <2> QED
    BY <1>4, <1>5, <1>6, <1>9, <2>6, <2>7, <2>8 DEF BlockGood, b
<1> QED
  BY <1>8, <1>9 DEF b

-----------------------------------------------------------------------------
(* One step of one thread. *)

\* What the other threads have in their hands.
Rest(t) == UNION {Has(asked[u]) : u \in Thread \ {t}}

LEMMA SharedIs ==
  ASSUME Shared, NEW t \in Thread
  PROVE  /\ UsedIn(heap) = Ptrs \cup Has(asked[t]) \cup Rest(t)
         /\ Has(asked[t]) \cap Ptrs = {} /\ Has(asked[t]) \cap Rest(t) = {}
         /\ Ptrs \cap Rest(t) = {}
<1>1. \A x : x \in UNION {Has(asked[u]) : u \in Thread} <=> x \in Has(asked[t]) \/ x \in Rest(t)
  BY DEF Rest
<1>2. \A x : x \in Rest(t) => \E u \in Thread \ {t} : x \in Has(asked[u])
  BY DEF Rest
<1>3. UsedIn(heap) = Ptrs \cup UNION {Has(asked[u]) : u \in Thread}
  BY DEF Shared
<1>4. /\ \A u \in Thread : Has(asked[u]) \cap Ptrs = {}
      /\ \A u \in Thread \ {t} : Has(asked[t]) \cap Has(asked[u]) = {}
  BY DEF Shared
<1>5. UsedIn(heap) = Ptrs \cup Has(asked[t]) \cup Rest(t)
  BY <1>1, <1>3
<1> QED
  BY <1>2, <1>4, <1>5

LEMMA StepShared ==
  ASSUME HeapTypes, Shared, NEW t \in Thread, NEW c, asked' = [asked EXCEPT ![t] = c],
         UsedIn(heap') = Ptrs' \cup Has(c) \cup Rest(t),
         Has(c) \cap Ptrs' = {}, Has(c) \cap Rest(t) = {}, Ptrs' \cap Rest(t) = {},
         \A b, d \in held' : b.ptr = d.ptr => b = d
  PROVE  Shared'
<1>1. asked'[t] = c /\ \A u \in Thread \ {t} : asked'[u] = asked[u]
  BY DEF HeapTypes
<1>2. \A x : x \in Rest(t) <=> \E u \in Thread \ {t} : x \in Has(asked[u])
  BY DEF Rest
<1>3. \A u \in Thread \ {t} : Has(asked'[u]) = Has(asked[u])
  BY <1>1
<1>4. Has(asked'[t]) = Has(c)
  BY <1>1
<1>5. ASSUME NEW x
      PROVE  x \in UNION {Has(asked'[u]) : u \in Thread} <=> x \in Has(c) \/ x \in Rest(t)
  <2>1. x \in UNION {Has(asked'[u]) : u \in Thread} <=> \E u \in Thread : x \in Has(asked'[u])
    OBVIOUS
  <2> QED
    BY <1>2, <1>3, <1>4, <2>1
<1>6. UsedIn(heap') = Ptrs' \cup UNION {Has(asked'[u]) : u \in Thread}
  BY <1>5
<1>7. \A u \in Thread : Has(asked'[u]) \cap Ptrs' = {}
  BY <1>2, <1>3, <1>4
<1>8. ASSUME NEW u \in Thread, NEW v \in Thread, u # v
      PROVE  Has(asked'[u]) \cap Has(asked'[v]) = {}
  <2>1. CASE u = t
    BY <1>2, <1>3, <1>4, <1>8, <2>1
  <2>2. CASE v = t
    BY <1>2, <1>3, <1>4, <1>8, <2>2
  <2>3. CASE u # t /\ v # t
    BY <1>3, <1>8, <2>3 DEF Shared
  <2> QED
    BY <2>1, <2>2, <2>3
<1> QED
  BY <1>6, <1>7, <1>8 DEF Shared

\* The holders of blocks do not notice what happens to other items.
LEMMA BlocksKept ==
  ASSUME HeapInv, held' \in SUBSET held,
         \A p \in Ptrs : heap'.item[p].next = heap.item[p].next
  PROVE  \A b \in held' : BlockGood(heap', b)
<1>1. ASSUME NEW b \in held' PROVE BlockGood(heap', b)
  <2>1. b \in held /\ b.ptr \in Ptrs
    BY DEF Ptrs
  <2>2. heap'.item[b.ptr].next = heap.item[b.ptr].next /\ BlockGood(heap, b)
    BY <2>1 DEF HeapInv
  <2> QED
    BY <2>2 DEF BlockGood
<1> QED
  BY <1>1

\* Either the heap stays, or t has the lock.
LEMMA StepInv ==
  ASSUME HeapAssumption, HeapInv, NEW t \in Thread, NEW c, asked' = [asked EXCEPT ![t] = c], CallGood(c),
         lock' \in Thread \cup {NoThread}, c.at \in Steps <=> lock' = t,
         \A u \in Thread \ {t} : lock' = u <=> lock = u,
         Shared', CallFits(heap', c), \A b \in held' : BlockGood(heap', b),
         \/ heap' = heap /\ Loose(heap, c) = Loose(heap, asked[t])
         \/ lock = t /\ Sound(heap', Loose(heap', c))
         \/ lock = NoThread /\ Sound(heap', Loose(heap', c))
  PROVE  HeapInv'
<1>1. asked'[t] = c /\ \A u \in Thread \ {t} : asked'[u] = asked[u]
  BY DEF HeapInv, HeapTypes
<1>2. c \in CallOf
  BY DEF CallGood
<1>3. HeapTypes'
  <2>1. asked' \in [Thread -> CallOf]
    BY <1>2 DEF HeapInv, HeapTypes
  <2>2. \A u \in Thread : CallGood(asked'[u])
    BY <1>1 DEF HeapInv, HeapTypes
  <2>3. \A u \in Thread : asked'[u].at \in Steps <=> lock' = u
    BY <1>1 DEF HeapInv, HeapTypes
  <2> QED
    BY <2>1, <2>2, <2>3 DEF HeapTypes
<1>4. CASE heap' = heap /\ Loose(heap, c) = Loose(heap, asked[t])
  <2>1. \A u \in Thread : Loose(heap', asked'[u]) = Loose(heap, asked[u])
    BY <1>1, <1>4
  <2>2. UNION {Loose(heap', asked'[u]) : u \in Thread} = UNION {Loose(heap, asked[u]) : u \in Thread}
    BY <2>1
  <2>3. Sound(heap', UNION {Loose(heap', asked'[u]) : u \in Thread})
    BY <1>4, <2>2 DEF HeapInv
  <2>4. \A u \in Thread : CallFits(heap', asked'[u])
    BY <1>1, <1>4 DEF HeapInv
  <2> QED
    BY <1>3, <2>3, <2>4 DEF HeapInv
<1>5. CASE lock \in {NoThread, t} /\ NoThread \notin Thread /\ Sound(heap', Loose(heap', c))
  <2>1. \A u \in Thread \ {t} : asked[u].at \notin Steps
    BY <1>5 DEF HeapInv, HeapTypes
  <2>2. \A u \in Thread \ {t} : Loose(heap', asked'[u]) = {} /\ CallFits(heap', asked'[u])
    BY <1>1, <2>1 DEF Loose, CallFits, Steps
  <2>3. ASSUME NEW x
        PROVE  x \in UNION {Loose(heap', asked'[u]) : u \in Thread} <=> x \in Loose(heap', c)
    BY <1>1, <2>2
  <2>4. UNION {Loose(heap', asked'[u]) : u \in Thread} = Loose(heap', c)
    BY <2>3
  <2>5. Sound(heap', UNION {Loose(heap', asked'[u]) : u \in Thread})
    BY <1>5, <2>4
  <2>6. \A u \in Thread : CallFits(heap', asked'[u])
    BY <1>1, <2>2
  <2> QED
    BY <1>3, <2>5, <2>6 DEF HeapInv
<1>6. NoThread \notin Thread
  BY DEF HeapAssumption
<1> QED
  BY <1>4, <1>5, <1>6

\* The holders and the other calls do not notice a step that keeps what is used.
LEMMA SharedKept ==
  ASSUME HeapTypes, Shared, NEW t \in Thread, NEW c, asked' = [asked EXCEPT ![t] = c],
         held' = held, UsedIn(heap') = UsedIn(heap), Has(c) = Has(asked[t])
  PROVE  Shared'
<1>1. /\ UsedIn(heap) = Ptrs \cup Has(asked[t]) \cup Rest(t)
      /\ Has(asked[t]) \cap Ptrs = {} /\ Has(asked[t]) \cap Rest(t) = {}
      /\ Ptrs \cap Rest(t) = {}
  BY SharedIs
<1>2. Ptrs' = Ptrs
  BY DEF Ptrs
<1>3. \A b, d \in held' : b.ptr = d.ptr => b = d
  BY DEF Shared
<1> QED
  BY <1>1, <1>2, <1>3, StepShared

\* A call that has moved on.
CameTo(d, c, at, found) ==
  /\ asked \in [Thread -> CallOf] /\ c \in CallOf /\ c.at = at /\ c.found = found
  /\ c.op = d.op /\ c.ptr = d.ptr /\ c.size = d.size /\ c.align = d.align

LEMMA CameToIs ==
  ASSUME HeapTypes, NEW t \in Thread, NEW at \in {"idle", "lock"} \cup Steps,
         NEW found \in Place \cup {Null},
         NEW c, c = [asked[t] EXCEPT !.at = at, !.found = found]
  PROVE  CameTo(asked[t], c, at, found)
<1>1. asked \in [Thread -> CallOf] /\ asked[t] \in CallOf
  BY DEF HeapTypes
<1> QED
  BY <1>1 DEF CameTo, CallOf

LEMMA CallIs ==
  ASSUME HeapAssumption, HeapInv, NEW t \in Thread
  PROVE  /\ HeapTypes /\ Shared /\ asked[t] \in CallOf /\ CallGood(asked[t])
         /\ CallFits(heap, asked[t]) /\ Chain(heap) /\ MemAssumption
         /\ lock = t <=> asked[t].at \in Steps
         /\ lock = t => Sound(heap, Loose(heap, asked[t]))
<1>1. HeapTypes /\ Shared /\ CallFits(heap, asked[t])
  BY DEF HeapInv
<1>2. asked[t] \in CallOf /\ CallGood(asked[t]) /\ (lock = t <=> asked[t].at \in Steps)
  BY <1>1 DEF HeapTypes
<1>3. Chain(heap) /\ MemAssumption
  BY DEF HeapInv, Sound, HeapAssumption
<1>4. ASSUME lock = t
      PROVE  Sound(heap, Loose(heap, asked[t]))
  <2>1. \A u \in Thread \ {t} : asked[u].at \notin Steps
    BY <1>1, <1>4 DEF HeapTypes
  <2>2. \A u \in Thread \ {t} : Loose(heap, asked[u]) = {}
    BY <2>1 DEF Loose, Steps
  <2>3. \A x : x \in UNION {Loose(heap, asked[u]) : u \in Thread} <=> x \in Loose(heap, asked[t])
    BY <2>2
  <2>4. UNION {Loose(heap, asked[u]) : u \in Thread} = Loose(heap, asked[t])
    BY <2>3
  <2> QED
    BY <2>4 DEF HeapInv
<1> QED
  BY <1>1, <1>2, <1>3, <1>4

LEMMA LockStep ==
  ASSUME HeapAssumption, HeapInv, NEW t \in Thread, HeapLock(t)
  PROVE  HeapInv'
<1> DEFINE d == asked[t]
           at == CASE d.op = "malloc" -> "find" [] d.op = "free" -> "free" [] OTHER -> "realloc"
           c == [d EXCEPT !.at = at, !.found = d.found]
<1>1. /\ HeapTypes /\ Shared /\ d \in CallOf /\ CallGood(d) /\ CallFits(heap, d)
      /\ Chain(heap) /\ MemAssumption
  BY CallIs
<1>2. /\ d.at = "lock" /\ lock = NoThread /\ lock' = t
      /\ asked' = [asked EXCEPT ![t].at = at] /\ heap' = heap /\ held' = held
  BY DEF HeapLock
<1>3. at \in Steps /\ d.found \in Place \cup {Null}
  BY <1>1 DEF Steps, CallOf
<1>4. asked' = [asked EXCEPT ![t] = c]
  BY <1>1, <1>2 DEF HeapTypes, CallOf
<1>5. CameTo(d, c, at, d.found)
  <2>1. at \in {"idle", "lock"} \cup Steps
    BY <1>3
  <2> HIDE DEF at
  <2> QED
    BY <1>1, <1>3, <2>1, CameToIs
<1>6. CallGood(c)
  <2> HIDE DEF c
  <2> QED
    BY <1>1, <1>2, <1>5 DEF CameTo, CallGood, CallOf
<1>7. Has(c) = Has(d) /\ CallFits(heap', c) /\ Loose(heap, c) = Loose(heap, d)
  <2> HIDE DEF c
  <2> QED
    BY <1>1, <1>2, <1>5 DEF CameTo, CallGood, CallOf, Has, CallFits, Loose
<1> HIDE DEF c, at
<1>8. Shared'
  BY <1>1, <1>2, <1>4, <1>7, SharedKept
<1>9. \A b \in held' : BlockGood(heap', b)
  BY <1>2, BlocksKept
<1>10. /\ lock' \in Thread \cup {NoThread} /\ (c.at \in Steps <=> lock' = t)
       /\ \A u \in Thread \ {t} : lock' = u <=> lock = u
  BY <1>2, <1>3, <1>5 DEF CameTo, HeapAssumption
<1> QED
  BY <1>2, <1>4, <1>6, <1>7, <1>8, <1>9, <1>10, StepInv

\* A call begins: it takes nothing, or the block of a holder.
LEMMA BeginStep ==
  ASSUME HeapAssumption, HeapInv, NEW t \in Thread, NEW c, CallGood(c), c.at = "lock",
         asked[t] = Idle, asked' = [asked EXCEPT ![t] = c], heap' = heap, lock' = lock,
         \/ c.ptr = Null /\ held' = held
         \/ \E b \in held : c.ptr = b.ptr /\ held' = held \ {b}
  PROVE  HeapInv'
<1>1. /\ HeapTypes /\ Shared /\ (lock = t <=> asked[t].at \in Steps)
  BY CallIs
<1>2. asked[t].at = "idle" /\ lock # t /\ lock \in Thread \cup {NoThread}
  BY <1>1 DEF Idle, Steps, HeapTypes
<1>3. c.at = "lock"
  OBVIOUS
<1>4. Has(asked[t]) = {} /\ Has(c) = {c.ptr} \ {Null}
  BY <1>2, <1>3 DEF Has
<1>5. /\ UsedIn(heap) = Ptrs \cup Rest(t) /\ Ptrs \cap Rest(t) = {}
  BY <1>1, <1>4, SharedIs
<1>6. \A b, d \in held : b.ptr = d.ptr => b = d
  BY <1>1 DEF Shared
<1>7. \A b \in held : BlockGood(heap, b)
  BY DEF HeapInv
<1>8. \A b \in held : b.ptr # Null
  BY <1>7 DEF BlockGood, Place, Null
<1>9. Shared'
  <2>1. CASE c.ptr = Null /\ held' = held
    <3>1. Has(c) = Has(asked[t])
      BY <1>4, <2>1
    <3> QED
      BY <1>1, <2>1, <3>1, SharedKept
  <2>2. ASSUME NEW b \in held, c.ptr = b.ptr, held' = held \ {b}
        PROVE  Shared'
    <3>1. \A x : x \in Ptrs' <=> x \in Ptrs /\ x # b.ptr
      BY <1>6, <2>2 DEF Ptrs
    <3>2. b.ptr \in Ptrs /\ Has(c) = {b.ptr}
      BY <1>4, <1>8, <2>2 DEF Ptrs
    <3>3. UsedIn(heap') = Ptrs' \cup Has(c) \cup Rest(t)
      BY <1>5, <3>1, <3>2
    <3>4. Has(c) \cap Ptrs' = {} /\ Has(c) \cap Rest(t) = {} /\ Ptrs' \cap Rest(t) = {}
      BY <1>5, <3>1, <3>2
    <3>5. \A e, d \in held' : e.ptr = d.ptr => e = d
      BY <1>6, <2>2
    <3> QED
      BY <1>1, <3>3, <3>4, <3>5, StepShared
  <2> QED
    BY <2>1, <2>2
<1>10. \A b \in held' : BlockGood(heap', b)
  BY <1>7
<1>11. CallFits(heap', c) /\ Loose(heap, c) = Loose(heap, asked[t])
  BY <1>2, <1>3 DEF CallFits, Loose
<1>12. c.at \in Steps <=> lock' = t
  BY <1>2, <1>3 DEF Steps
<1> QED
  BY <1>2, <1>9, <1>10, <1>11, <1>12, StepInv

LEMMA MallocStep ==
  ASSUME HeapAssumption, Rounds, HeapInv, NEW t \in Thread,
         \/ \E n \in Sizes : Malloc(t, n) \/ Calloc(t, 2, n)
         \/ \E n \in Sizes, a \in Alignments : MallocAlign(t, n, a)
  PROVE  HeapInv'
<1>1. /\ Sizes \subseteq Nat /\ Alignments \subseteq Nat \ {0} /\ Align \in Nat \ {0}
      /\ Width \in Nat \ {0} /\ Null \notin Place
  BY DEF HeapAssumption, MemAssumption, Place, Null
<1>2. ASSUME NEW size \in Nat, NEW align \in Nat, Begin(t, "malloc", Null, size, align),
             held' = held, size + Align <= Width,
             align # 0 => align \in Alignments /\ size + align + 3 * Align <= Width
      PROVE  HeapInv'
  <2> DEFINE c == [at |-> "lock", op |-> "malloc", ptr |-> Null, size |-> size,
                   align |-> align, found |-> Null]
  <2>1. /\ asked[t] = Idle /\ asked' = [asked EXCEPT ![t] = c]
        /\ heap' = heap /\ lock' = lock
    BY <1>2 DEF Begin
  <2>2. CallGood(c)
    BY <1>2 DEF CallGood, CallOf
  <2>3. c.at = "lock" /\ c.ptr = Null
    OBVIOUS
  <2> HIDE DEF c
  <2> QED
    BY <1>2, <2>1, <2>2, <2>3, BeginStep
<1>3. ASSUME NEW n \in Sizes, Malloc(t, n) PROVE HeapInv'
  <2>1. n \in Nat /\ n + Align <= Width
    BY <1>1 DEF Rounds
  <2> QED
    BY <1>2, <1>3, <2>1 DEF Malloc
<1>4. ASSUME NEW n \in Sizes, Calloc(t, 2, n) PROVE HeapInv'
  <2>1. n \in Nat /\ 2 * n + Align <= Width
    BY <1>1 DEF Rounds
  <2> DEFINE m == 2 * n
  <2>2. m \in Nat /\ m + Align <= Width /\ m < Width
    BY <1>1, <2>1
  <2>3. Begin(t, "malloc", Null, m % Width, 0) /\ held' = held
    BY <1>4 DEF Calloc
  <2> HIDE DEF m
  <2>4. m % Width = m
    BY <1>1, <2>2
  <2> QED
    BY <1>2, <2>2, <2>3, <2>4
<1>5. ASSUME NEW n \in Sizes, NEW a \in Alignments, MallocAlign(t, n, a) PROVE HeapInv'
  <2>1. n \in Nat /\ a \in Nat /\ n + a + 3 * Align <= Width
    BY <1>1 DEF Rounds
  <2>2. n + Align <= Width
    BY <1>1, <2>1
  <2> QED
    BY <1>2, <1>5, <2>1, <2>2 DEF MallocAlign
<1> QED
  BY <1>3, <1>4, <1>5

LEMMA GiveStep ==
  ASSUME HeapAssumption, Rounds, HeapInv, NEW t \in Thread, NEW b \in held,
         Free(t, b) \/ \E n \in Sizes \cup {0} : Realloc(t, b, n)
  PROVE  HeapInv'
<1>1. /\ Sizes \subseteq Nat /\ Align \in Nat \ {0} /\ Width \in Nat \ {0} /\ Width % Align = 0
      /\ Null \notin Place
  BY DEF HeapAssumption, MemAssumption, Place, Null
<1>2. b.ptr \in Place
  BY DEF HeapInv, BlockGood
<1>3. Align <= Width
  BY <1>1, MultipleLeast
<1>4. ASSUME NEW op \in {"free", "realloc"}, NEW size \in Nat, size + Align <= Width,
             Begin(t, op, b.ptr, size, 0), held' = held \ {b}
      PROVE  HeapInv'
  <2> DEFINE c == [at |-> "lock", op |-> op, ptr |-> b.ptr, size |-> size,
                   align |-> 0, found |-> Null]
  <2>1. /\ asked[t] = Idle /\ asked' = [asked EXCEPT ![t] = c]
        /\ heap' = heap /\ lock' = lock
    BY <1>4 DEF Begin
  <2>2. CallGood(c)
    BY <1>1, <1>2, <1>4 DEF CallGood, CallOf
  <2>3. c.at = "lock" /\ c.ptr = b.ptr
    OBVIOUS
  <2> HIDE DEF c
  <2> QED
    BY <1>4, <2>1, <2>2, <2>3, BeginStep
<1>5. CASE Free(t, b)
  BY <1>1, <1>3, <1>4, <1>5 DEF Free
<1>6. ASSUME NEW n \in Sizes \cup {0}, Realloc(t, b, n) PROVE HeapInv'
  <2>1. n \in Nat /\ n + Align <= Width
    BY <1>1, <1>3 DEF Rounds
  <2> QED
    BY <1>4, <1>6, <2>1 DEF Realloc
<1> QED
  BY <1>5, <1>6

\* The search finds a free item that is large enough if there is one.
LEMMA FirstFitIs ==
  ASSUME MemAssumption, NEW h, Chain(h), Lowest(h), NEW size \in Nat \ {0},
         NEW f, f = FirstFit(h, size)
  PROVE  /\ f # Null => f \in FreeIn(h) /\ f \in Place /\ Room(h, f) >= size
         /\ f = Null => \A p \in Items(h) : h.item[p].used \/ Room(h, p) < size
<1> DEFINE fit == {p \in Items(h) : /\ p >= h.lfree /\ p <= Total - size
                                    /\ ~h.item[p].used /\ Room(h, p) >= size}
<1>1. f = IF fit = {} THEN Null ELSE Min(fit)
  BY DEF FirstFit
<1>2. /\ DOMAIN h.item \in SUBSET Place /\ Header \in Nat \ {0} /\ End \in Nat
      /\ End = Total + Header /\ Total \in Nat /\ h.lfree \in Place
      /\ \A p \in DOMAIN h.item : p \in Nat
  BY ChainIs DEF MemAssumption, End
<1>3. \A p \in Place : p # Null
  BY <1>2 DEF Place, Null
<1>4. fit \in SUBSET Nat
  BY <1>2 DEF Items
<1>5. CASE fit # {}
  <2>1. f \in fit
    <3> HIDE DEF fit
    <3> QED
      BY <1>1, <1>4, <1>5, LeastIs
  <2>2. f \in FreeIn(h) /\ f \in Place /\ Room(h, f) >= size
    BY <1>2, <2>1 DEF FreeIn, Items
  <2> QED
    BY <1>3, <2>2
<1>6. CASE fit = {}
  <2>1. ASSUME NEW p \in Items(h), ~h.item[p].used, ~(Room(h, p) < size)
        PROVE  FALSE
    <3>1. p \in FreeIn(h)
      BY <2>1 DEF FreeIn
    <3>2. h.lfree <= p
      BY <3>1 DEF Lowest
    <3>3. p \in Nat /\ h.item[p].next \in Nat /\ h.item[p].next <= End
      BY NextIs
    <3>4. Room(h, p) >= size /\ p <= Total - size
      BY <1>2, <2>1, <3>3 DEF Room
    <3>5. p >= h.lfree
      BY <1>2, <3>2, <3>3 DEF Place
    <3>6. p \in fit
      BY <2>1, <3>4, <3>5
    <3> QED
      BY <1>6, <3>6
  <2>2. f = Null
    BY <1>1, <1>6
  <2>3. \A p \in Items(h) : h.item[p].used \/ Room(h, p) < size
    BY <2>1
  <2> HIDE DEF fit
  <2> QED
    BY <2>2, <2>3
<1> QED
  BY <1>5, <1>6

\* What a call looks for: its size, rounded up, if it is not too large.
LEMMA FindIs ==
  ASSUME HeapAssumption, HeapInv, NEW t \in Thread, asked[t].at = "find"
  PROVE  /\ Rounded(Asked(asked[t])) \in Nat \ {0} /\ Rounded(Asked(asked[t])) % Align = 0
         /\ Rounded(Asked(asked[t])) >= Asked(asked[t]) /\ Asked(asked[t]) \in Nat
         /\ Sound(heap, {})
<1>1. /\ CallGood(asked[t]) /\ MemAssumption /\ lock = t
      /\ (lock = t => Sound(heap, Loose(heap, asked[t])))
  BY CallIs DEF Steps
<1>2. Asked(asked[t]) \in Nat /\ Asked(asked[t]) + Align <= Width
  BY <1>1, AskedIs
<1>3. Loose(heap, asked[t]) = {}
  BY DEF Loose
<1> QED
  BY <1>1, <1>2, <1>3, RoundedIs

LEMMA FindStep ==
  ASSUME HeapAssumption, HeapInv, NEW t \in Thread, Find(t)
  PROVE  /\ HeapInv'
         /\ asked'[t].at = "unlock" =>
              \/ Asked(asked[t]) = 0
              \/ \A p \in Items(heap) : \/ heap.item[p].used
                                        \/ Room(heap, p) < Rounded(Asked(asked[t]))
         /\ \A u \in Thread \ {t} : asked'[u] = asked[u]
<1> DEFINE d == asked[t]
           n == Asked(d)
           size == Rounded(n)
           f == IF n = 0 \/ size > Total THEN Null ELSE FirstFit(heap, size)
           at == IF f = Null THEN "unlock" ELSE "take"
           c == [d EXCEPT !.at = at, !.found = f]
<1>1. /\ HeapTypes /\ Shared /\ d \in CallOf /\ CallGood(d) /\ CallFits(heap, d)
      /\ Chain(heap) /\ MemAssumption
  BY CallIs
<1>2. /\ d.at = "find" /\ heap' = heap /\ held' = held /\ lock' = lock
      /\ asked' = [asked EXCEPT ![t].found = f, ![t].at = at]
  BY DEF Find
<1>3. size \in Nat \ {0} /\ size >= n /\ n \in Nat /\ Sound(heap, {})
  BY <1>2, FindIs
<1>4. /\ f # Null => f \in FreeIn(heap) /\ f \in Place /\ Room(heap, f) >= size
      /\ f = Null => n = 0 \/ \A p \in Items(heap) : heap.item[p].used \/ Room(heap, p) < size
  <2>1. CASE n = 0
    <3>1. f = Null
      BY <2>1
    <3> HIDE DEF f
    <3> QED
      BY <2>1, <3>1
  <2>2. CASE n # 0 /\ size > Total
    <3>1. ASSUME NEW p \in Items(heap)
          PROVE  Room(heap, p) < size
      <4>1. p \in Nat /\ heap.item[p].next \in Nat /\ heap.item[p].next <= End
        BY <1>1, NextIs
      <4>2. End = Total + Header /\ Total \in Nat /\ Header \in Nat
        BY <1>1 DEF MemAssumption, End
      <4> QED
        BY <1>3, <2>2, <4>1, <4>2 DEF Room
    <3>2. f = Null
      BY <2>2
    <3>3. \A p \in Items(heap) : heap.item[p].used \/ Room(heap, p) < size
      BY <3>1
    <3> HIDE DEF f
    <3> QED
      BY <3>2, <3>3
  <2>3. CASE ~(n = 0 \/ size > Total)
    <3>1. f = FirstFit(heap, size)
      BY <2>3
    <3>2. Lowest(heap)
      BY <1>3 DEF Sound
    <3> HIDE DEF f, size, n
    <3> QED
      BY <1>1, <1>3, <3>1, <3>2, FirstFitIs
  <2> QED
    BY <2>1, <2>2, <2>3
<1>5. at \in Steps /\ f \in Place \cup {Null}
  BY <1>4 DEF Steps
<1> HIDE DEF f, size, n
<1>6. asked' = [asked EXCEPT ![t] = c]
  BY <1>1, <1>2 DEF HeapTypes, CallOf
<1>7. CameTo(d, c, at, f)
  <2>1. at \in {"idle", "lock"} \cup Steps
    BY <1>5
  <2> HIDE DEF at
  <2> QED
    BY <1>1, <1>5, <2>1, CameToIs
<1>8. CallGood(c)
  <2> HIDE DEF c
  <2> QED
    BY <1>1, <1>2, <1>7 DEF CameTo, CallGood, CallOf
<1> HIDE DEF c
<1>9. d.ptr # Null => d.op = "realloc" /\ d.size # 0
  BY <1>1, <1>2 DEF CallGood
<1>10. Has(c) = Has(d)
  <2>1. Has(d) = {d.ptr} \ {Null}
    BY <1>2 DEF Has
  <2>2. CASE f = Null
    <3>1. c.at = "unlock" /\ c.found = Null /\ c.op = d.op /\ c.size = d.size /\ c.ptr = d.ptr
      BY <1>7, <2>2 DEF CameTo
    <3> QED
      BY <1>9, <2>1, <3>1 DEF Has
  <2>3. CASE f # Null
    <3>1. c.at = "take" /\ c.ptr = d.ptr
      BY <1>7, <2>3 DEF CameTo
    <3> QED
      BY <2>1, <3>1 DEF Has
  <2> QED
    BY <2>2, <2>3
<1>11. Asked(c) = n
  BY <1>7 DEF CameTo, Asked, n
<1>12. CallFits(heap', c) /\ Loose(heap, c) = Loose(heap, d)
  BY <1>2, <1>4, <1>7, <1>11 DEF CameTo, CallFits, Loose, size
<1>13. Shared'
  BY <1>1, <1>2, <1>6, <1>10, SharedKept
<1>14. \A b \in held' : BlockGood(heap', b)
  BY <1>2, BlocksKept
<1>15. /\ lock' \in Thread \cup {NoThread} /\ (c.at \in Steps <=> lock' = t)
       /\ \A u \in Thread \ {t} : lock' = u <=> lock = u
  BY <1>1, <1>2, <1>5, <1>7 DEF CameTo, HeapTypes, Steps
<1>16. HeapInv'
  BY <1>2, <1>6, <1>8, <1>12, <1>13, <1>14, <1>15, StepInv
<1>17. asked'[t] = c /\ \A u \in Thread \ {t} : asked'[u] = asked[u]
  BY <1>1, <1>6 DEF HeapTypes
<1>18. c.at = "unlock" => f = Null
  BY <1>7 DEF CameTo
<1> QED
  BY <1>4, <1>16, <1>17, <1>18 DEF n, size

\* The thread that has the lock works on the items it has in its hands.
LEMMA WorkStep ==
  ASSUME HeapAssumption, HeapInv, NEW t \in Thread, lock = t, lock' = lock, held' = held,
         NEW c, CallGood(c), c.at \in Steps, asked' = [asked EXCEPT ![t] = c],
         Sound(heap', Loose(heap', c)), CallFits(heap', c),
         Has(c) \in SUBSET UsedIn(heap'),
         UsedIn(heap') \ Has(c) = UsedIn(heap) \ Has(asked[t]),
         \A r \in UsedIn(heap) \ Has(asked[t]) : heap'.item[r].next = heap.item[r].next
  PROVE  HeapInv'
<1>1. HeapTypes /\ Shared
  BY CallIs
<1>2. /\ UsedIn(heap) = Ptrs \cup Has(asked[t]) \cup Rest(t)
      /\ Has(asked[t]) \cap Ptrs = {} /\ Has(asked[t]) \cap Rest(t) = {}
      /\ Ptrs \cap Rest(t) = {}
  BY <1>1, SharedIs
<1>3. UsedIn(heap) \ Has(asked[t]) = Ptrs \cup Rest(t)
  BY <1>2
<1>4. Ptrs' = Ptrs
  BY DEF Ptrs
<1>5. UsedIn(heap') = Ptrs' \cup Has(c) \cup Rest(t)
  BY <1>3, <1>4
<1>6. Has(c) \cap Ptrs' = {} /\ Has(c) \cap Rest(t) = {}
  BY <1>3, <1>4
<1>7. \A b, d \in held' : b.ptr = d.ptr => b = d
  BY <1>1 DEF Shared
<1>8. Shared'
  BY <1>1, <1>2, <1>4, <1>5, <1>6, <1>7, StepShared
<1>9. \A p \in Ptrs : heap'.item[p].next = heap.item[p].next
  BY <1>3
<1>10. held' \in SUBSET held
  OBVIOUS
<1>11. \A b \in held' : BlockGood(heap', b)
  BY <1>9, <1>10, BlocksKept
<1>12. lock' \in Thread \cup {NoThread} /\ (c.at \in Steps <=> lock' = t)
  OBVIOUS
<1> QED
  BY <1>8, <1>11, <1>12, StepInv

LEMMA TakeStep ==
  ASSUME HeapAssumption, HeapInv, NEW t \in Thread, Take(t)
  PROVE  HeapInv'
<1> DEFINE d == asked[t]
           at == IF d.op = "realloc" THEN "free" ELSE "unlock"
           c == [d EXCEPT !.at = at, !.found = d.found]
           f == d.found
           size == Rounded(Asked(d))
<1>1. /\ HeapTypes /\ Shared /\ d \in CallOf /\ CallGood(d) /\ CallFits(heap, d)
      /\ Chain(heap) /\ MemAssumption
      /\ (lock = t <=> d.at \in Steps) /\ (lock = t => Sound(heap, Loose(heap, d)))
  BY CallIs
<1>2. /\ d.at = "take" /\ held' = held /\ lock' = lock /\ heap' = Allocated(heap, f, size)
      /\ asked' = [asked EXCEPT ![t].at = at]
  BY DEF Take
<1>3. lock = t /\ Sound(heap, {})
  BY <1>1, <1>2 DEF Steps, Loose
<1>4. at \in Steps /\ f \in Place \cup {Null} /\ f # Null
  BY <1>1, <1>2 DEF Steps, CallGood, CallOf
<1>5. asked' = [asked EXCEPT ![t] = c]
  BY <1>1, <1>2 DEF HeapTypes, CallOf
<1>6. CameTo(d, c, at, f)
  <2>1. at \in {"idle", "lock"} \cup Steps
    BY <1>4
  <2> HIDE DEF at
  <2> QED
    BY <1>1, <1>4, <2>1, CameToIs
<1>7. size \in Nat \ {0} /\ size % Align = 0 /\ size >= Asked(d) /\ Asked(d) \in Nat
  <2>1. Asked(d) \in Nat /\ Asked(d) + Align <= Width
    BY <1>1, AskedIs
  <2> QED
    BY <1>1, <2>1, RoundedIs
<1>8. f \in FreeIn(heap) /\ Room(heap, f) >= size
  BY <1>1, <1>2 DEF CallFits
<1> HIDE DEF size, f, at
<1>9. /\ Sound(heap', {}) /\ UsedIn(heap') = UsedIn(heap) \cup {f} /\ Room(heap', f) >= size
      /\ \A r \in UsedIn(heap) : heap'.item[r].next = heap.item[r].next
  BY <1>1, <1>2, <1>3, <1>7, <1>8, AllocatedSound
<1>10. Room(heap', f) \in Int
  <2>1. Chain(heap') /\ f \in Items(heap')
    BY <1>9 DEF Sound, UsedIn
  <2> QED
    BY <1>1, <2>1, NextIs, ChainIs DEF Room
<1>11. Has(d) = {d.ptr} \ {Null} /\ Has(d) \in SUBSET UsedIn(heap) /\ f \notin UsedIn(heap)
  <2>1. Has(d) = {d.ptr} \ {Null}
    BY <1>2 DEF Has
  <2>2. UsedIn(heap) = Ptrs \cup Has(d) \cup Rest(t)
    BY <1>1, SharedIs
  <2> QED
    BY <1>8, <2>1, <2>2 DEF FreeIn, UsedIn
<1> HIDE DEF c
<1>12. CallGood(c)
  <2>1. d.ptr # f
    BY <1>4, <1>11
  <2> QED
    BY <1>1, <1>2, <1>4, <1>6, <2>1 DEF CameTo, CallGood, CallOf, at, f
<1>13. Has(c) = Has(d) \cup {f}
  <2>1. CASE d.op = "realloc"
    BY <1>4, <1>6, <1>11, <2>1 DEF CameTo, Has, at
  <2>2. CASE d.op # "realloc"
    <3>1. d.ptr = Null
      BY <1>1, <1>2, <2>2 DEF CallGood
    <3> QED
      BY <1>4, <1>6, <1>11, <2>2, <3>1 DEF CameTo, Has, at
  <2> QED
    BY <2>1, <2>2
<1>14. Asked(c) = Asked(d)
  BY <1>6 DEF CameTo, Asked
<1>15. CallFits(heap', c) /\ Loose(heap', c) = {}
  BY <1>6, <1>7, <1>9, <1>10, <1>14 DEF CameTo, CallFits, Loose, at
<1>16. /\ Has(c) \in SUBSET UsedIn(heap')
       /\ UsedIn(heap') \ Has(c) = UsedIn(heap) \ Has(d)
  BY <1>9, <1>11, <1>13
<1>17. c.at \in Steps
  BY <1>4, <1>6 DEF CameTo
<1> QED
  BY <1>2, <1>3, <1>5, <1>9, <1>12, <1>15, <1>16, <1>17, WorkStep

LEMMA FreeStep ==
  ASSUME HeapAssumption, HeapInv, NEW t \in Thread, FreeItem(t)
  PROVE  HeapInv'
<1> DEFINE d == asked[t]
           c == [d EXCEPT !.at = "plug", !.found = d.found]
           p == d.ptr
<1>1. /\ HeapTypes /\ Shared /\ d \in CallOf /\ CallGood(d) /\ CallFits(heap, d)
      /\ Chain(heap) /\ MemAssumption
      /\ (lock = t <=> d.at \in Steps) /\ (lock = t => Sound(heap, Loose(heap, d)))
  BY CallIs
<1>2. /\ d.at = "free" /\ held' = held /\ lock' = lock /\ heap' = Freed(heap, p)
      /\ asked' = [asked EXCEPT ![t].at = "plug"]
  BY DEF FreeItem
<1>3. lock = t /\ Sound(heap, {})
  BY <1>1, <1>2 DEF Steps, Loose
<1>4. d.found \in Place \cup {Null} /\ p # Null /\ p # d.found
  BY <1>1, <1>2 DEF CallGood, CallOf
<1>5. asked' = [asked EXCEPT ![t] = c]
  BY <1>1, <1>2 DEF HeapTypes, CallOf
<1>6. CameTo(d, c, "plug", d.found)
  <2>1. "plug" \in {"idle", "lock"} \cup Steps
    BY DEF Steps
  <2> QED
    BY <1>1, <1>4, <2>1, CameToIs
<1>7. Has(d) = {p, d.found} \ {Null} /\ Has(d) \in SUBSET UsedIn(heap)
  <2>1. Has(d) = {p, d.found} \ {Null}
    BY <1>2 DEF Has
  <2>2. UsedIn(heap) = Ptrs \cup Has(d) \cup Rest(t)
    BY <1>1, SharedIs
  <2> QED
    BY <2>1, <2>2
<1>8. p \in UsedIn(heap)
  BY <1>4, <1>7
<1> HIDE DEF c, p
<1>9. /\ Sound(heap', {p}) /\ p \in FreeIn(heap') /\ UsedIn(heap') = UsedIn(heap) \ {p}
      /\ \A r \in UsedIn(heap) : heap'.item[r].next = heap.item[r].next
  BY <1>1, <1>2, <1>3, <1>8, FreedSound, SMTT(20)
<1>10. c.ptr = p /\ c.at = "plug" /\ c.found = d.found
  BY <1>6 DEF CameTo, p
<1>11. CallGood(c)
  BY <1>1, <1>2, <1>6 DEF CameTo, CallGood, CallOf, p
<1>12. Has(c) = {d.found} \ {Null}
  BY <1>10 DEF Has
<1>13. CallFits(heap', c) /\ Loose(heap', c) = {p}
  <2>1. d.found # Null => Room(heap', d.found) = Room(heap, d.found)
    BY <1>7, <1>9 DEF Room
  <2>2. Asked(c) = Asked(d)
    BY <1>6 DEF CameTo, Asked
  <2>3. d.found # Null => Room(heap, d.found) >= Asked(d)
    BY <1>1, <1>2 DEF CallFits
  <2> QED
    BY <1>9, <1>10, <2>1, <2>2, <2>3 DEF CallFits, Loose
<1>14. /\ Has(c) \in SUBSET UsedIn(heap')
       /\ UsedIn(heap') \ Has(c) = UsedIn(heap) \ Has(d)
  BY <1>4, <1>7, <1>8, <1>9, <1>12
<1>15. c.at \in Steps
  BY <1>10 DEF Steps
<1> QED
  BY <1>2, <1>3, <1>5, <1>9, <1>11, <1>13, <1>14, <1>15, WorkStep

LEMMA PlugStep ==
  ASSUME HeapAssumption, HeapInv, NEW t \in Thread, Plug(t)
  PROVE  HeapInv'
<1> DEFINE d == asked[t]
           c == [d EXCEPT !.at = "unlock", !.found = d.found]
           p == IF d.at = "plug" THEN d.ptr ELSE heap.item[d.ptr].next
<1>1. /\ HeapTypes /\ Shared /\ d \in CallOf /\ CallGood(d) /\ CallFits(heap, d)
      /\ Chain(heap) /\ MemAssumption
      /\ (lock = t <=> d.at \in Steps) /\ (lock = t => Sound(heap, Loose(heap, d)))
  BY CallIs
<1>2. /\ d.at \in {"plug", "cut"} /\ held' = held /\ lock' = lock
      /\ heap' = Plugged(heap, p) /\ asked' = [asked EXCEPT ![t].at = "unlock"]
  BY DEF Plug
<1>3. lock = t /\ Sound(heap, {p}) /\ p \in FreeIn(heap)
  <2>1. lock = t /\ Sound(heap, Loose(heap, d))
    BY <1>1, <1>2 DEF Steps
  <2>2. Loose(heap, d) = {p}
    BY <1>2 DEF Loose
  <2>3. p \in FreeIn(heap)
    BY <1>1, <1>2 DEF CallFits
  <2> QED
    BY <2>1, <2>2, <2>3
<1>4. d.found \in Place \cup {Null}
  BY <1>1 DEF CallOf
<1>5. asked' = [asked EXCEPT ![t] = c]
  BY <1>1, <1>2 DEF HeapTypes, CallOf
<1>6. CameTo(d, c, "unlock", d.found)
  <2>1. "unlock" \in {"idle", "lock"} \cup Steps
    BY DEF Steps
  <2> QED
    BY <1>1, <1>4, <2>1, CameToIs
<1>7. Has(d) \in SUBSET UsedIn(heap)
  <2>1. UsedIn(heap) = Ptrs \cup Has(d) \cup Rest(t)
    BY <1>1, SharedIs
  <2> QED
    BY <2>1
<1> HIDE DEF c, p
<1>8. Sound(heap', {}) /\ SameUse(heap, heap')
  BY <1>1, <1>2, <1>3, PluggedSound
<1>9. /\ UsedIn(heap') = UsedIn(heap)
      /\ \A r \in UsedIn(heap) : heap'.item[r].next = heap.item[r].next
  BY <1>8 DEF SameUse
<1>10. /\ c.at = "unlock" /\ c.found = d.found /\ c.ptr = d.ptr /\ c.op = d.op
       /\ c.size = d.size
  BY <1>6 DEF CameTo
<1>11. CallGood(c)
  BY <1>1, <1>2, <1>6 DEF CameTo, CallGood, CallOf
<1>12. Has(c) = Has(d)
  <2>1. CASE d.at = "plug"
    <3>1. ~(d.op = "realloc" /\ d.found = Null /\ d.size # 0)
      BY <1>1, <2>1 DEF CallGood
    <3> QED
      BY <1>10, <2>1, <3>1 DEF Has
  <2>2. CASE d.at = "cut"
    <3>1. d.found = d.ptr /\ d.found # Null
      BY <1>1, <2>2 DEF CallGood
    <3> QED
      BY <1>10, <2>2, <3>1 DEF Has
  <2> QED
    BY <1>2, <2>1, <2>2
<1>13. CallFits(heap', c) /\ Loose(heap', c) = {}
  <2>1. d.found # Null => d.found \in Has(d)
    <3>1. d.at = "cut" => d.found = d.ptr
      BY <1>1 DEF CallGood
    <3> QED
      BY <1>2, <3>1 DEF Has
  <2>2. d.found # Null => Room(heap', d.found) = Room(heap, d.found)
    BY <1>7, <1>9, <2>1 DEF Room
  <2>3. Asked(c) = Asked(d)
    BY <1>6 DEF CameTo, Asked
  <2>4. d.found # Null => Room(heap, d.found) >= Asked(d)
    BY <1>1, <1>2 DEF CallFits
  <2> QED
    BY <1>10, <2>2, <2>3, <2>4 DEF CallFits, Loose
<1>14. /\ Has(c) \in SUBSET UsedIn(heap')
       /\ UsedIn(heap') \ Has(c) = UsedIn(heap) \ Has(d)
  BY <1>7, <1>9, <1>12
<1>15. c.at \in Steps
  BY <1>10 DEF Steps
<1> QED
  BY <1>2, <1>3, <1>5, <1>8, <1>9, <1>11, <1>13, <1>14, <1>15, WorkStep

LEMMA ReallocStep ==
  ASSUME HeapAssumption, HeapInv, NEW t \in Thread, ReallocItem(t)
  PROVE  HeapInv'
<1> DEFINE d == asked[t]
           p == d.ptr
           n == Aligned(d.size)
           to(at, found) == asked' = [asked EXCEPT ![t].at = at, ![t].found = found]
<1>1. /\ HeapTypes /\ Shared /\ d \in CallOf /\ CallGood(d) /\ CallFits(heap, d)
      /\ Chain(heap) /\ MemAssumption
      /\ (lock = t <=> d.at \in Steps) /\ (lock = t => Sound(heap, Loose(heap, d)))
  BY CallIs
<1>2. /\ d.at = "realloc" /\ held' = held /\ lock' = lock
      /\ \/ n > Total /\ to("unlock", Null) /\ heap' = heap
         \/ n = 0 /\ to("free", Null) /\ heap' = heap
         \/ n # 0 /\ n = Room(heap, p) /\ to("unlock", p) /\ heap' = heap
         \/ /\ n # 0 /\ n + Header + MinSize < Room(heap, p)
            /\ heap' = Shrunk(heap, p, n) /\ to("cut", p)
         \/ n # 0 /\ to("find", Null) /\ heap' = heap
  BY DEF ReallocItem
<1>3. lock = t /\ Sound(heap, {})
  BY <1>1, <1>2 DEF Steps, Loose
<1>4. p \in Place /\ p # Null /\ Null \notin Place /\ d.op = "realloc" /\ d.align = 0 /\ d.size \in Nat
  <2>1. d.op = "realloc" /\ p # Null /\ d.align = 0
    BY <1>1, <1>2 DEF CallGood
  <2> QED
    BY <1>1, <2>1 DEF CallOf, Place, Null
<1>5. n \in Nat /\ n >= d.size /\ n % Align = 0 /\ (n = 0 <=> d.size = 0)
  <2>1. d.size + Align <= Width /\ Align \in Nat \ {0}
    BY <1>1 DEF CallGood, MemAssumption
  <2>2. n \in Nat /\ n >= d.size /\ n < d.size + Align /\ n % Align = 0
    BY <1>1, <1>4, <2>1, AlignedIs
  <2>3. d.size = 0 /\ n # 0 => n >= Align
    BY <2>1, <2>2, MultipleLeast
  <2> HIDE DEF n
  <2> QED
    BY <1>4, <2>1, <2>2, <2>3
<1>6. Has(d) = {p} /\ p \in UsedIn(heap)
  <2>1. Has(d) = {p}
    BY <1>2, <1>4 DEF Has
  <2>2. UsedIn(heap) = Ptrs \cup Has(d) \cup Rest(t)
    BY <1>1, SharedIs
  <2> QED
    BY <2>1, <2>2
<1>7. Asked(d) = d.size
  BY <1>4 DEF Asked
<1>8. Room(heap, p) \in Int /\ MinSize \in Nat \ {0} /\ Total \in Nat
  <2>1. p \in Items(heap)
    BY <1>6 DEF UsedIn
  <2> QED
    BY <1>1, <2>1, NextIs, ChainIs DEF Room, MemAssumption
<1> HIDE DEF n
<1>9. ASSUME NEW at \in {"find", "free", "unlock", "cut"}, NEW f \in {p, Null}, to(at, f),
             at \in {"find", "free"} => f = Null, at = "cut" => f = p,
             at = "free" <=> d.size = 0,
             \/ heap' = heap /\ at # "cut" /\ (f = p => Room(heap, p) >= d.size)
             \/ /\ at = "cut" /\ heap' = Shrunk(heap, p, n) /\ n # 0
                /\ n + Header + MinSize < Room(heap, p)
      PROVE  HeapInv'
  <2> DEFINE c == [d EXCEPT !.at = at, !.found = f]
  <2>1. f \in Place \cup {Null} /\ at \in {"idle", "lock"} \cup Steps /\ at \in Steps
    BY <1>4 DEF Steps
  <2>2. asked' = [asked EXCEPT ![t] = c]
    BY <1>1, <1>9 DEF HeapTypes, CallOf
  <2>3. CameTo(d, c, at, f)
    BY <1>1, <2>1, CameToIs
  <2> HIDE DEF c, p
  <2>4. /\ c.at = at /\ c.found = f /\ c.ptr = p /\ c.op = "realloc" /\ c.size = d.size
        /\ Asked(c) = d.size /\ c.at \in Steps
    BY <1>4, <1>7, <2>1, <2>3 DEF CameTo, Asked, p
  <2>5. CallGood(c)
    <3>1. c \in CallOf /\ c.align = 0
      BY <1>4, <2>3 DEF CameTo
    <3>2. c.size + Align <= Width
      BY <1>1, <2>4 DEF CallGood
    <3> QED
      BY <1>4, <1>9, <2>4, <3>1, <3>2 DEF CallGood
  <2>6. Has(c) = {p}
    BY <1>4, <1>9, <2>4 DEF Has
  <2>7. CASE heap' = heap /\ at # "cut" /\ (f = p => Room(heap, p) >= d.size)
    <3>1. Loose(heap', c) = {} /\ CallFits(heap', c)
      BY <1>4, <1>9, <2>4, <2>7 DEF Loose, CallFits
    <3>2. /\ Has(c) \in SUBSET UsedIn(heap')
          /\ UsedIn(heap') \ Has(c) = UsedIn(heap) \ Has(d)
          /\ \A r \in UsedIn(heap) \ Has(d) : heap'.item[r].next = heap.item[r].next
      BY <1>6, <2>6, <2>7
    <3> QED
      BY <1>2, <1>3, <2>2, <2>4, <2>5, <2>7, <3>1, <3>2, WorkStep
  <2>8. CASE /\ at = "cut" /\ heap' = Shrunk(heap, p, n) /\ n # 0
             /\ n + Header + MinSize < Room(heap, p)
    <3> DEFINE q == p + Header + n
    <3>1. n \in Nat \ {0}
      BY <1>5, <2>8
    <3>2. /\ Sound(heap', {q}) /\ q \in FreeIn(heap') /\ UsedIn(heap') = UsedIn(heap)
          /\ heap'.item[p].next = q /\ Room(heap', p) = n
          /\ \A r \in UsedIn(heap) \ {p} : heap'.item[r].next = heap.item[r].next
      BY <1>1, <1>3, <1>5, <1>6, <2>8, <3>1, ShrunkSound
    <3> HIDE DEF q
    <3>3. Loose(heap', c) = {q} /\ CallFits(heap', c)
      BY <1>5, <1>9, <2>4, <2>8, <3>2 DEF Loose, CallFits
    <3>4. /\ Has(c) \in SUBSET UsedIn(heap')
          /\ UsedIn(heap') \ Has(c) = UsedIn(heap) \ Has(d)
          /\ \A r \in UsedIn(heap) \ Has(d) : heap'.item[r].next = heap.item[r].next
      BY <1>6, <2>6, <3>2
    <3> QED
      BY <1>2, <1>3, <2>2, <2>4, <2>5, <3>2, <3>3, <3>4, WorkStep
  <2> QED
    BY <1>9, <2>7, <2>8
<1> HIDE DEF to
<1>10. CASE n > Total /\ to("unlock", Null) /\ heap' = heap
  BY <1>4, <1>5, <1>8, <1>9, <1>10
<1>11. CASE n = 0 /\ to("free", Null) /\ heap' = heap
  BY <1>4, <1>5, <1>9, <1>11
<1>12. CASE n # 0 /\ n = Room(heap, p) /\ to("unlock", p) /\ heap' = heap
  BY <1>4, <1>5, <1>9, <1>12
<1>13. CASE /\ n # 0 /\ n + Header + MinSize < Room(heap, p)
            /\ heap' = Shrunk(heap, p, n) /\ to("cut", p)
  BY <1>4, <1>5, <1>9, <1>13
<1>14. CASE n # 0 /\ to("find", Null) /\ heap' = heap
  BY <1>4, <1>5, <1>9, <1>14
<1> QED
  BY <1>2, <1>10, <1>11, <1>12, <1>13, <1>14

\* A block is given to its holder.
LEMMA GivenShared ==
  ASSUME HeapTypes, Shared, NEW t \in Thread, asked' = [asked EXCEPT ![t] = Idle],
         NEW b, held' = held \cup {b}, b.ptr \notin Ptrs, b.ptr \notin Rest(t),
         UsedIn(heap') = (UsedIn(heap) \ Has(asked[t])) \cup {b.ptr}
  PROVE  Shared'
<1>1. /\ UsedIn(heap) = Ptrs \cup Has(asked[t]) \cup Rest(t)
      /\ Has(asked[t]) \cap Ptrs = {} /\ Has(asked[t]) \cap Rest(t) = {}
      /\ Ptrs \cap Rest(t) = {}
  BY SharedIs
<1>2. Has(Idle) = {}
  BY DEF Has, Idle
<1>3. Ptrs' = Ptrs \cup {b.ptr}
  BY DEF Ptrs
<1>4. UsedIn(heap') = Ptrs' \cup Has(Idle) \cup Rest(t)
  BY <1>1, <1>2, <1>3
<1>5. ASSUME NEW e \in held', NEW d \in held', e.ptr = d.ptr
      PROVE  e = d
  <2>1. \A x \in held : x.ptr \in Ptrs
    BY DEF Ptrs
  <2>2. \A x, y \in held : x.ptr = y.ptr => x = y
    BY DEF Shared
  <2> QED
    BY <1>5, <2>1, <2>2
<1>6. /\ Has(Idle) \cap Ptrs' = {} /\ Has(Idle) \cap Rest(t) = {}
      /\ Ptrs' \cap Rest(t) = {}
  BY <1>1, <1>2, <1>3
<1>7. \A e, d \in held' : e.ptr = d.ptr => e = d
  BY <1>5
<1> QED
  BY <1>4, <1>6, <1>7, StepShared

LEMMA UnlockStep ==
  ASSUME HeapAssumption, HeapInv, NEW t \in Thread, HeapUnlock(t)
  PROVE  HeapInv'
<1> DEFINE d == asked[t]
<1>1. /\ HeapTypes /\ Shared /\ d \in CallOf /\ CallGood(d) /\ CallFits(heap, d)
      /\ Chain(heap) /\ MemAssumption
      /\ (lock = t <=> d.at \in Steps)
  BY CallIs
<1>2. /\ d.at = "unlock" /\ lock' = NoThread /\ heap' = heap
      /\ asked' = [asked EXCEPT ![t] = Idle]
      /\ held' = held \cup
           (IF d.found # Null THEN {Block(d.found, d.size, d.align)}
            ELSE IF d.op = "realloc" /\ d.size # 0 THEN {Block(d.ptr, 0, 0)} ELSE {})
  BY DEF HeapUnlock
<1>3. lock = t /\ NoThread \notin Thread
  BY <1>1, <1>2 DEF Steps, HeapAssumption
<1>4. CallGood(Idle)
  <2>1. 0 + Align <= Width
    BY <1>1, MultipleLeast DEF MemAssumption
  <2> QED
    BY <2>1 DEF CallGood, CallOf, Idle
<1>5. CallFits(heap', Idle) /\ Loose(heap, Idle) = Loose(heap, d) /\ Has(Idle) = {}
  BY <1>2 DEF CallFits, Loose, Has, Idle
<1>6. Idle.at \notin Steps
  BY DEF Idle, Steps
<1>7. ASSUME Shared', \A b \in held' : BlockGood(heap', b)
      PROVE  HeapInv'
  <2>1. /\ lock' \in Thread \cup {NoThread} /\ (Idle.at \in Steps <=> lock' = t)
        /\ \A u \in Thread \ {t} : lock' = u <=> lock = u
    BY <1>2, <1>3, <1>6
  <2> HIDE DEF Idle
  <2> QED
    BY <1>2, <1>4, <1>5, <1>7, <2>1, StepInv
<1>8. /\ UsedIn(heap) = Ptrs \cup Has(d) \cup Rest(t)
      /\ Has(d) \cap Ptrs = {} /\ Has(d) \cap Rest(t) = {}
  BY <1>1, SharedIs
<1>9. \A b \in held : BlockGood(heap, b)
  BY DEF HeapInv
<1>10. ASSUME NEW b, held' = held \cup {b}, BlockGood(heap, b), Has(d) = {b.ptr}
       PROVE  HeapInv'
  <2>1. b.ptr \notin Ptrs /\ b.ptr \notin Rest(t) /\ b.ptr \in UsedIn(heap)
    BY <1>8, <1>10
  <2>2. UsedIn(heap') = (UsedIn(heap) \ Has(d)) \cup {b.ptr}
    BY <1>2, <1>10, <2>1
  <2>3. Shared'
    BY <1>1, <1>2, <1>10, <2>1, <2>2, GivenShared
  <2>4. \A x \in held' : BlockGood(heap', x)
    BY <1>2, <1>9, <1>10
  <2> QED
    BY <1>7, <2>3, <2>4
<1>11. CASE d.found # Null
  <2> DEFINE b == Block(d.found, d.size, d.align)
  <2>1. held' = held \cup {b} /\ b.ptr = d.found
    BY <1>2, <1>11 DEF Block
  <2>2. Has(d) = {d.found}
    BY <1>2, <1>11 DEF Has
  <2>3. d.found \in UsedIn(heap) /\ Room(heap, d.found) >= Asked(d)
    BY <1>1, <1>2, <1>8, <1>11, <2>2 DEF CallFits
  <2>4. BlockGood(heap, b)
    BY <1>1, <2>3, BlockIs
  <2> HIDE DEF b
  <2> QED
    BY <1>10, <2>1, <2>2, <2>4
<1>12. CASE d.found = Null /\ d.op = "realloc" /\ d.size # 0
  <2> DEFINE b == Block(d.ptr, 0, 0)
  <2>1. /\ held' = held \cup {b} /\ b.ptr = d.ptr /\ b.size = 0 /\ b.align = 0
        /\ b.user = d.ptr + Header
    BY <1>2, <1>12 DEF Block
  <2>2. Has(d) = {d.ptr}
    <3>1. d.ptr # Null
      BY <1>1, <1>2, <1>12 DEF CallGood
    <3> QED
      BY <1>2, <1>12, <3>1 DEF Has
  <2>3. d.ptr \in UsedIn(heap)
    BY <1>8, <2>2
  <2>4. /\ d.ptr \in Nat /\ heap.item[d.ptr].next \in Nat
        /\ heap.item[d.ptr].next > d.ptr + Header /\ Header \in Nat \ {0} /\ d.ptr \in Place
    <3>1. d.ptr \in Items(heap)
      BY <2>3 DEF UsedIn
    <3>2. d.ptr \in Place
      BY <1>1, <3>1, NextIs, ChainIs
    <3> QED
      BY <1>1, <3>1, <3>2, NextIs, ChainIs
  <2> HIDE DEF b
  <2>5. BlockGood(heap, b)
    BY <2>1, <2>4 DEF BlockGood
  <2> QED
    BY <1>10, <2>1, <2>2, <2>5
<1>13. CASE d.found = Null /\ ~(d.op = "realloc" /\ d.size # 0)
  <2>1. held' = held
    BY <1>2, <1>13
  <2>2. Has(d) = {}
    BY <1>2, <1>13 DEF Has
  <2>3. Shared'
    BY <1>1, <1>2, <1>5, <2>1, <2>2, SharedKept
  <2>4. \A b \in held' : BlockGood(heap', b)
    BY <1>2, <1>9, <2>1
  <2> QED
    BY <1>7, <2>3, <2>4
<1> QED
  BY <1>11, <1>12, <1>13

\* The kernel is alone with its thread: nobody works on the heap.
LEMMA KernelStep ==
  ASSUME HeapAssumption, Rounds, Undisturbed, HeapInv, NEW t \in Thread,
         NEW n \in ObjectSizes, KernelAlloc(t, n)
  PROVE  HeapInv'
<1> DEFINE size == Rounded(n)
           f == FirstFit(heap, size)
           b == Block(f, n, 0)
<1>1. /\ HeapTypes /\ Shared /\ CallGood(asked[t]) /\ Chain(heap) /\ MemAssumption
      /\ (lock = t <=> asked[t].at \in Steps)
  BY CallIs
<1>2. /\ asked[t] = Idle /\ f # Null /\ heap' = Allocated(heap, f, size)
      /\ held' = held \cup {b} /\ lock' = lock /\ asked' = asked
  BY DEF KernelAlloc
<1>3. Thread = {t}
  BY DEF Undisturbed
<1>4. /\ Idle.at \notin Steps /\ Has(Idle) = {} /\ CallFits(heap', Idle)
      /\ Loose(heap, Idle) = {} /\ Loose(heap', Idle) = {}
  BY DEF Idle, Steps, Has, CallFits, Loose
<1>5. lock = NoThread /\ NoThread \notin Thread
  BY <1>1, <1>2, <1>3, <1>4 DEF HeapTypes, HeapAssumption
<1>6. asked' = [asked EXCEPT ![t] = Idle]
  BY <1>1, <1>2 DEF HeapTypes
<1>7. Sound(heap, {})
  <2>1. \A x : x \notin UNION {Loose(heap, asked[u]) : u \in Thread}
    BY <1>2, <1>3, <1>4
  <2>2. UNION {Loose(heap, asked[u]) : u \in Thread} = {}
    BY <2>1
  <2> QED
    BY <2>2 DEF HeapInv
<1>8. n \in Nat /\ n + Align <= Width
  <2>1. n \in Nat /\ 2 * n + Align <= Width /\ Align \in Nat /\ Width \in Nat
    BY <1>1 DEF HeapAssumption, Rounds, MemAssumption
  <2> QED
    BY <2>1
<1>9. size \in Nat \ {0} /\ size >= n /\ size % Align = 0
  BY <1>1, <1>8, RoundedIs
<1> HIDE DEF size
<1>10. f \in FreeIn(heap) /\ f \in Place /\ Room(heap, f) >= size
  <2>1. Lowest(heap)
    BY <1>7 DEF Sound
  <2> QED
    BY <1>1, <1>2, <1>9, <2>1, FirstFitIs
<1> HIDE DEF f, b
<1>11. /\ Sound(heap', {}) /\ UsedIn(heap') = UsedIn(heap) \cup {f} /\ Room(heap', f) >= size
       /\ \A r \in UsedIn(heap) : heap'.item[r].next = heap.item[r].next
  BY <1>1, <1>2, <1>7, <1>9, <1>10, AllocatedSound
<1>12. b.ptr = f /\ b.size = n /\ b.align = 0 /\ b.user = f + Header
  BY DEF b, Block
<1>13. UsedIn(heap) = Ptrs \cup Has(Idle) \cup Rest(t)
  BY <1>1, <1>2, SharedIs
<1>14. Shared'
  <2>1. f \notin UsedIn(heap)
    BY <1>10 DEF FreeIn, UsedIn
  <2>2. b.ptr \notin Ptrs /\ b.ptr \notin Rest(t)
    BY <1>12, <1>13, <2>1
  <2>3. UsedIn(heap') = (UsedIn(heap) \ Has(asked[t])) \cup {b.ptr}
    BY <1>2, <1>4, <1>11, <1>12
  <2> QED
    BY <1>1, <1>2, <1>6, <2>2, <2>3, GivenShared
<1>15. BlockGood(heap', b)
  <2>1. Chain(heap') /\ f \in Items(heap')
    BY <1>11 DEF Sound, UsedIn
  <2>2. heap'.item[f].next \in Nat /\ f \in Nat /\ Header \in Nat
    BY <1>1, <2>1, NextIs, ChainIs
  <2>3. f + Header + n <= heap'.item[f].next
    BY <1>8, <1>9, <1>11, <2>2 DEF Room
  <2> QED
    BY <1>8, <1>10, <1>12, <2>3 DEF BlockGood
<1>16. \A x \in held' : BlockGood(heap', x)
  <2>1. ASSUME NEW x \in held
        PROVE  BlockGood(heap', x)
    <3>1. BlockGood(heap, x) /\ x.ptr \in Ptrs
      BY DEF HeapInv, Ptrs
    <3>2. heap'.item[x.ptr].next = heap.item[x.ptr].next
      BY <1>11, <1>13, <3>1
    <3> QED
      BY <3>1, <3>2 DEF BlockGood
  <2> QED
    BY <1>2, <1>15, <2>1
<1>17. /\ CallGood(Idle) /\ lock' \in Thread \cup {NoThread}
       /\ (Idle.at \in Steps <=> lock' = t)
       /\ \A u \in Thread \ {t} : lock' = u <=> lock = u
  BY <1>1, <1>2, <1>4, <1>5
<1>18. lock = NoThread /\ Sound(heap', Loose(heap', Idle))
  BY <1>4, <1>5, <1>11
<1> QED
  BY <1>4, <1>6, <1>14, <1>16, <1>17, <1>18, StepInv

\* The heap begins as one free item.
LEMMA InitInv ==
  ASSUME HeapAssumption, HeapInit
  PROVE  HeapInv
<1> DEFINE I == [p \in {0, End} |-> [next |-> End, prev |-> p, used |-> p = End]]
<1>1. /\ Align \in Nat \ {0} /\ Total \in Nat \ {0} /\ Header \in Nat \ {0} /\ Total % Align = 0
      /\ Header % Align = 0 /\ End = Total + Header
      /\ Width \in Nat \ {0} /\ Width % Align = 0
  BY DEF HeapAssumption, MemAssumption, End
<1>2. End \in Nat /\ End > Header /\ End # 0 /\ End % Align = 0 /\ 0 % Align = 0
  <2>1. /\ Align \in Nat \ {0} /\ Total \in Int /\ Header \in Int
        /\ Total % Align = 0 /\ Header % Align = 0
    BY <1>1
  <2>2. (Total + Header) % Align = 0
    BY ONLY <2>1, MultipleSum
  <2> QED
    BY <1>1, <2>2
<1>3. 0 \in Place /\ End \in Place /\ Null \notin Place
  BY <1>2 DEF Place, Null
<1>4. /\ heap = [item |-> I, lfree |-> 0, used |-> 0] /\ lock = NoThread /\ held = {}
      /\ asked = [t \in Thread |-> Idle]
  BY DEF HeapInit, Fresh
<1>5. I \in [{0, End} -> Item]
  BY <1>3 DEF Item
<1>6. /\ I[0].next = End /\ I[0].prev = 0 /\ I[0].used = FALSE
      /\ DOMAIN I = {0, End}
  BY <1>2
<1> HIDE DEF I
<1>7. /\ heap.item = I /\ heap.lfree = 0 /\ heap.used = 0
      /\ heap \in Heaps
  <2>1. {0, End} \in SUBSET Place
    BY <1>3
  <2>2. I \in UNION {[D -> Item] : D \in SUBSET Place}
    BY <1>5, <2>1
  <2> QED
    BY <1>3, <1>4, <2>2 DEF Heaps
<1>8. Chain(heap)
  <2>1. heap \in Heaps /\ {0, End} \in SUBSET DOMAIN heap.item /\ heap.item[0].prev = 0
    BY <1>6, <1>7
  <2>2. ASSUME NEW p \in DOMAIN heap.item \ {End}
        PROVE  /\ heap.item[p].next \in DOMAIN heap.item /\ heap.item[p].next > p + Header
               /\ \A q \in DOMAIN heap.item : q <= p \/ q >= heap.item[p].next
               /\ heap.item[p].next # End => heap.item[heap.item[p].next].prev = p
    <3>1. p = 0
      BY <1>6, <1>7
    <3> QED
      BY <1>1, <1>2, <1>6, <1>7, <3>1
  <2>3. DOMAIN heap.item \ {0, End} = {}
    BY <1>6, <1>7
  <2> QED
    BY <2>1, <2>2, <2>3 DEF Chain
<1>9. FreeIn(heap) = {0} /\ UsedIn(heap) = {}
  BY <1>2, <1>6, <1>7 DEF FreeIn, UsedIn, Items
<1>10. Lowest(heap) /\ Apart(heap, {})
  BY <1>2, <1>6, <1>7, <1>9 DEF Lowest, Apart
<1>11. heap.used = Cardinality(BytesOf(heap))
  <2>1. BytesOf(heap) = {}
    BY <1>9 DEF BytesOf
  <2> QED
    BY <1>7, <2>1, FS_EmptySet
<1>12. Sound(heap, UNION {Loose(heap, asked[t]) : t \in Thread})
  <2>1. \A t \in Thread : Loose(heap, asked[t]) = {}
    BY <1>4 DEF Loose, Idle
  <2>2. \A x : x \notin UNION {Loose(heap, asked[t]) : t \in Thread}
    BY <2>1
  <2>3. UNION {Loose(heap, asked[t]) : t \in Thread} = {}
    BY <2>2
  <2> QED
    BY <1>8, <1>10, <1>11, <2>3 DEF Sound
<1>13. CallGood(Idle)
  <2>1. 0 + Align <= Width
    BY <1>1, MultipleLeast
  <2> QED
    BY <2>1 DEF CallGood, CallOf, Idle
<1>14. Has(Idle) = {} /\ CallFits(heap, Idle) /\ Idle.at \notin Steps /\ Idle \in CallOf
  BY <1>13 DEF Has, CallFits, Idle, Steps, CallGood
<1>15. \A t \in Thread : asked[t] = Idle
  BY <1>4
<1>16. HeapTypes
  BY <1>4, <1>13, <1>14, <1>15 DEF HeapTypes, HeapAssumption
<1>17. Shared
  <2>1. Ptrs = {}
    BY <1>4 DEF Ptrs
  <2>2. \A x : x \notin UNION {Has(asked[t]) : t \in Thread}
    BY <1>14, <1>15
  <2>3. UsedIn(heap) = Ptrs \cup UNION {Has(asked[t]) : t \in Thread}
    BY <1>9, <2>1, <2>2
  <2> QED
    BY <1>4, <1>14, <1>15, <2>1, <2>3 DEF Shared
<1> QED
  BY <1>4, <1>12, <1>14, <1>15, <1>16, <1>17 DEF HeapInv

LEMMA NextInv ==
  ASSUME HeapAssumption, Rounds, Undisturbed, HeapInv, [HeapNext]_heapVars
  PROVE  HeapInv'
<1>1. ASSUME NEW t \in Thread, ThreadStep(t)
      PROVE  HeapInv'
  <2>1. CASE \/ \E n \in Sizes : Malloc(t, n) \/ Calloc(t, 2, n)
             \/ \E n \in Sizes, a \in Alignments : MallocAlign(t, n, a)
    BY <2>1, MallocStep
  <2>2. CASE \E b \in held : Free(t, b) \/ \E n \in Sizes \cup {0} : Realloc(t, b, n)
    BY <2>2, GiveStep
  <2>3. CASE HeapLock(t)
    BY <2>3, LockStep
  <2>4. CASE Find(t)
    BY <2>4, FindStep
  <2>5. CASE Take(t)
    BY <2>5, TakeStep
  <2>6. CASE FreeItem(t)
    BY <2>6, FreeStep
  <2>7. CASE Plug(t)
    BY <2>7, PlugStep
  <2>8. CASE ReallocItem(t)
    BY <2>8, ReallocStep
  <2>9. CASE HeapUnlock(t)
    BY <2>9, UnlockStep
  <2>10. CASE \E n \in ObjectSizes : KernelAlloc(t, n)
    BY <2>10, KernelStep
  <2> QED
    BY <1>1, <2>1, <2>2, <2>3, <2>4, <2>5, <2>6, <2>7, <2>8, <2>9, <2>10 DEF ThreadStep
<1>2. CASE UNCHANGED heapVars
  <2>1. heap' = heap /\ lock' = lock /\ asked' = asked /\ held' = held
    BY <1>2 DEF heapVars
  <2> QED
    BY <2>1 DEF HeapInv, HeapTypes, Shared, Ptrs
<1> QED
  BY <1>1, <1>2 DEF HeapNext

\* While nobody works on the heap, the calls have no more than their pointers.
LEMMA AtPeace ==
  ASSUME HeapAssumption, HeapInv, lock = NoThread
  PROVE  /\ Sound(heap, {})
         /\ UNION {Has(asked[t]) : t \in Thread} = {asked[t].ptr : t \in DOMAIN asked} \ {Null}
<1>1. HeapTypes /\ NoThread \notin Thread
  BY DEF HeapInv, HeapAssumption
<1>2. \A t \in Thread : asked[t] \in CallOf /\ asked[t].at \notin Steps /\ CallGood(asked[t])
  BY <1>1 DEF HeapTypes
<1>3. \A t \in Thread : asked[t].at \in {"idle", "lock"}
  BY <1>2 DEF CallOf
<1>4. \A t \in Thread : Loose(heap, asked[t]) = {}
  BY <1>3 DEF Loose
<1>5. Sound(heap, {})
  <2>1. \A x : x \notin UNION {Loose(heap, asked[t]) : t \in Thread}
    BY <1>4
  <2>2. UNION {Loose(heap, asked[t]) : t \in Thread} = {}
    BY <2>1
  <2> QED
    BY <2>2 DEF HeapInv
<1>6. \A t \in Thread : Has(asked[t]) = {asked[t].ptr} \ {Null}
  <2>1. ASSUME NEW t \in Thread
        PROVE  Has(asked[t]) = {asked[t].ptr} \ {Null}
    <3>1. CASE asked[t].at = "lock"
      BY <3>1 DEF Has
    <3>2. CASE asked[t].at = "idle"
      <4>1. asked[t].ptr = Null
        BY <1>2, <3>2 DEF CallGood
      <4> QED
        BY <3>2, <4>1 DEF Has
    <3> QED
      BY <1>3, <3>1, <3>2
  <2> QED
    BY <2>1
<1>7. DOMAIN asked = Thread
  BY <1>1 DEF HeapTypes
<1>8. \A x : x \in UNION {Has(asked[t]) : t \in Thread} <=> \E t \in Thread : x = asked[t].ptr /\ x # Null
  BY <1>6
<1>9. \A x : x \in {asked[t].ptr : t \in DOMAIN asked} \ {Null}
              <=> \E t \in Thread : x = asked[t].ptr /\ x # Null
  BY <1>7
<1>10. UNION {Has(asked[t]) : t \in Thread} = {asked[t].ptr : t \in DOMAIN asked} \ {Null}
  BY <1>8, <1>9
<1> QED
  BY <1>5, <1>10

LEMMA InvRight ==
  ASSUME HeapAssumption, HeapInv
  PROVE  HeapRight
<1>1. MemAssumption /\ Chain(heap) /\ Shared /\ \A b \in held : BlockGood(heap, b)
  BY DEF HeapAssumption, HeapInv, Sound
<1>2. ASSUME lock = NoThread
      PROVE  ChainOK
  <2>1. Chain(heap) /\ Lowest(heap) /\ Apart(heap, {}) /\ heap.used = Cardinality(BytesOf(heap))
    BY <1>2, AtPeace DEF Sound
  <2>2. /\ heap \in Heaps /\ DOMAIN heap.item \in SUBSET Place
        /\ heap.item \in [DOMAIN heap.item -> Item] /\ {0, End} \in SUBSET DOMAIN heap.item
        /\ End \in Nat /\ End # 0 /\ heap.lfree \in Place /\ Header \in Nat \ {0}
    BY <1>1, ChainIs
  <2>3. heap.used \in 0..End
    <3>1. /\ IsFiniteSet(BytesOf(heap)) /\ Cardinality(BytesOf(heap)) \in Nat
      BY <1>1, BytesIs
    <3>2. BytesOf(heap) \in SUBSET (0..End-1)
      <4>1. ASSUME NEW x \in BytesOf(heap)
            PROVE  x \in 0..End-1
        <5>1. PICK r \in UsedIn(heap) : x \in r..heap.item[r].next - 1
          BY InBytes
        <5>2. r \in Items(heap)
          BY <5>1 DEF UsedIn
        <5>3. r \in Nat /\ heap.item[r].next \in Nat /\ heap.item[r].next <= End
          BY <1>1, <5>2, NextIs
        <5> QED
          BY <2>2, <5>1, <5>3
      <4> QED
        BY <4>1
    <3>3. IsFiniteSet(0..End-1) /\ Cardinality(0..End-1) = End
      <4> DEFINE m == End - 1
      <4>1. 0 \in Int /\ m \in Int /\ m >= 0 - 1 /\ m + 1 = End
        BY <2>2
      <4> HIDE DEF m
      <4>2. IsFiniteSet(0..m) /\ Cardinality(0..m) = IF 0 > m THEN 0 ELSE m - 0 + 1
        BY <4>1, FS_Interval
      <4>3. Cardinality(0..m) = End
        BY <2>2, <4>1, <4>2
      <4> QED
        BY <4>2, <4>3 DEF m
    <3>4. Cardinality(BytesOf(heap)) <= End
      BY <3>2, <3>3, FS_Subset, ZenonT(40)
    <3> QED
      BY <2>1, <2>2, <3>1, <3>4
  <2>4. IsHeap(heap)
    BY <2>2, <2>3 DEF IsHeap
  <2>5. 0 \in Items(heap) /\ heap.item[0].prev = 0
    BY <2>1, <2>2 DEF Items, Chain
  <2>6. ASSUME NEW p \in Items(heap)
        PROVE  /\ heap.item[p].next \in Items(heap) \cup {End}
               /\ Room(heap, p) > 0
               /\ \A q \in Items(heap) : q <= p \/ q >= heap.item[p].next
               /\ heap.item[p].next # End =>
                    /\ heap.item[heap.item[p].next].prev = p
                    /\ heap.item[p].used \/ heap.item[heap.item[p].next].used
    <3>1. /\ p \in Nat /\ heap.item[p].next \in DOMAIN heap.item /\ heap.item[p].next \in Nat
          /\ heap.item[p].next > p + Header
          /\ \A q \in DOMAIN heap.item : q <= p \/ q >= heap.item[p].next
          /\ heap.item[p].next # End => heap.item[heap.item[p].next].prev = p
      BY <1>1, NextIs
    <3>2. Room(heap, p) > 0
      BY <2>2, <3>1 DEF Room
    <3>3. heap.item[p].next # End =>
            heap.item[p].used \/ heap.item[heap.item[p].next].used
      BY <2>1, <3>1 DEF Apart, FreeIn, Items
    <3> QED
      BY <3>1, <3>2, <3>3 DEF Items
  <2>7. heap.lfree = Min({End} \cup {p \in Items(heap) : ~heap.item[p].used})
    <3> DEFINE F == {End} \cup FreeIn(heap)
    <3>1. F \in SUBSET Nat /\ F # {}
      <4>1. \A p \in FreeIn(heap) : p \in Nat
        BY <1>1, NextIs DEF FreeIn
      <4> QED
        BY <2>2, <4>1
    <3>2. heap.lfree \in F /\ \A y \in F : heap.lfree <= y
      <4>1. heap.lfree <= End
        BY <2>2 DEF Place
      <4> QED
        BY <2>1, <4>1 DEF Lowest
    <3> HIDE DEF F
    <3>3. Min(F) \in F /\ \A y \in F : Min(F) <= y
      BY <3>1, LeastIs
    <3>4. heap.lfree <= Min(F) /\ Min(F) <= heap.lfree /\ heap.lfree \in Nat /\ Min(F) \in Nat
      BY <3>1, <3>2, <3>3
    <3>5. heap.lfree = Min(F)
      BY <3>4
    <3> QED
      BY <3>5 DEF F, FreeIn
  <2> QED
    BY <2>4, <2>5, <2>6, <2>7 DEF ChainOK
<1>3. ASSUME lock = NoThread
      PROVE  Conserved
  <2> DEFINE taken == {b.ptr : b \in held}
                      \cup ({asked[t].ptr : t \in DOMAIN asked} \ {Null})
  <2>1. taken = UsedIn(heap)
    BY <1>1, <1>3, AtPeace DEF Shared, Ptrs
  <2>2. {p \in Items(heap) : heap.item[p].used} = taken
    BY <2>1 DEF UsedIn
  <2>3. heap.used = Cardinality(UNION {p..heap.item[p].next - 1 : p \in taken})
    BY <1>3, <2>1, AtPeace DEF Sound, BytesOf
  <2> HIDE DEF taken
  <2> QED
    BY <2>2, <2>3 DEF Conserved, taken
<1>4. HeldWhole
  <2>1. \A b \in held : b.ptr \in Items(heap) /\ heap.item[b.ptr].used
    BY <1>1 DEF Shared, Ptrs, UsedIn
  <2> QED
    BY <1>1, <2>1 DEF HeldWhole, BlockGood, Shared
<1> QED
  BY <1>2, <1>3, <1>4 DEF HeapRight, ChainOK, Conserved

\* Only the search can end with nothing found.
LEMMA FailsStep ==
  ASSUME HeapAssumption, HeapInv, [HeapNext]_heapVars
  PROVE  \A t \in DOMAIN asked : asked[t].at = "find" /\ asked'[t].at = "unlock" =>
           \/ Asked(asked[t]) = 0
           \/ \A p \in Items(heap) : \/ heap.item[p].used
                                     \/ Room(heap, p) < Rounded(Asked(asked[t]))
<1>1. asked \in [Thread -> CallOf]
  BY DEF HeapInv, HeapTypes
<1>2. ASSUME NEW t \in Thread, asked[t].at = "find", asked'[t].at = "unlock"
      PROVE  Find(t)
  <2>1. ~UNCHANGED heapVars
    BY <1>2 DEF heapVars
  <2>2. PICK u \in Thread : ThreadStep(u)
    BY <2>1 DEF HeapNext
  <2>3. asked[t] # Idle
    BY <1>2 DEF Idle
  <2>4. CASE u # t
    <3>1. \A v : asked' = [asked EXCEPT ![u] = v] => asked'[t] = asked[t]
      BY <1>1, <2>4
    <3>2. \A op, ptr, size, align : Begin(u, op, ptr, size, align) => asked'[t] = asked[t]
      BY <3>1 DEF Begin
    <3>3. asked'[t] # asked[t]
      BY <1>2
    <3>4. ~(\/ \E n \in Sizes : Malloc(u, n) \/ Calloc(u, 2, n)
            \/ \E n \in Sizes, a \in Alignments : MallocAlign(u, n, a)
            \/ \E b \in held : Free(u, b) \/ \E n \in Sizes \cup {0} : Realloc(u, b, n))
      BY <3>2, <3>3 DEF Malloc, Calloc, MallocAlign, Free, Realloc
    <3>5. ~(HeapLock(u) \/ HeapUnlock(u) \/ Find(u) \/ Take(u) \/ FreeItem(u) \/ Plug(u))
      BY <1>1, <2>4, <3>3 DEF HeapLock, HeapUnlock, Find, Take, FreeItem, Plug
    <3>6. ~ReallocItem(u)
      BY <1>1, <2>4, <3>3 DEF ReallocItem
    <3>7. ~(\E n \in ObjectSizes : KernelAlloc(u, n))
      BY <3>3 DEF KernelAlloc
    <3> QED
      BY <2>2, <3>4, <3>5, <3>6, <3>7 DEF ThreadStep
  <2>5. CASE u = t
    <3>1. \A op, ptr, size, align : ~Begin(t, op, ptr, size, align)
      BY <2>3 DEF Begin
    <3>2. ~(\/ \E n \in Sizes : Malloc(t, n) \/ Calloc(t, 2, n)
            \/ \E n \in Sizes, a \in Alignments : MallocAlign(t, n, a)
            \/ \E b \in held : Free(t, b) \/ \E n \in Sizes \cup {0} : Realloc(t, b, n))
      BY <3>1 DEF Malloc, Calloc, MallocAlign, Free, Realloc
    <3>3. ~(\/ HeapLock(t) \/ HeapUnlock(t) \/ Take(t) \/ FreeItem(t) \/ Plug(t)
            \/ ReallocItem(t) \/ \E n \in ObjectSizes : KernelAlloc(t, n))
      BY <1>2, <2>3 DEF HeapLock, HeapUnlock, Take, FreeItem, Plug, ReallocItem, KernelAlloc
    <3> QED
      BY <2>2, <2>5, <3>2, <3>3 DEF ThreadStep
  <2> QED
    BY <2>4, <2>5
<1>3. DOMAIN asked = Thread
  BY <1>1
<1> QED
  BY <1>2, <1>3, FindStep

LEMMA HeapInvariant ==
  ASSUME HeapAssumption, Rounds, Undisturbed
  PROVE  HeapSpec => []HeapInv
<1>1. HeapInit => HeapInv
  BY InitInv
<1>2. HeapInv /\ [HeapNext]_heapVars => HeapInv'
  BY NextInv
<1> QED
  BY <1>1, <1>2, PTL DEF HeapSpec

\* For every heap, every number of threads and every sizes asked for: the
\* items form a chain without neighbouring free items, an item is in use if
\* and only if somebody has it, and it has room for what was asked
\* (plug_holes, rt_smem_alloc, rt_smem_realloc, rt_smem_free, rt_malloc_align).
THEOREM HeapCorrect ==
  HeapAssumption /\ Rounds /\ Undisturbed => (HeapSpec => []HeapRight)
<1> SUFFICES ASSUME HeapAssumption, Rounds, Undisturbed
             PROVE  HeapSpec => []HeapRight
  OBVIOUS
<1>1. HeapSpec => []HeapInv
  BY HeapInvariant
<1>2. HeapInv => HeapRight
  BY InvRight
<1> QED
  BY <1>1, <1>2, PTL

\* For every heap: an allocation fails only if no free item is large enough
\* (rt_smem_alloc).
THEOREM SearchComplete ==
  HeapAssumption /\ Rounds /\ Undisturbed => (HeapSpec => FailsOnlyFull)
<1> SUFFICES ASSUME HeapAssumption, Rounds, Undisturbed
             PROVE  HeapSpec => FailsOnlyFull
  OBVIOUS
<1>1. HeapSpec => []HeapInv
  BY HeapInvariant
<1> DEFINE Fails ==
      \A t \in DOMAIN asked : asked[t].at = "find" /\ asked'[t].at = "unlock" =>
        \/ Asked(asked[t]) = 0
        \/ \A p \in Items(heap) : \/ heap.item[p].used
                                  \/ Room(heap, p) < Rounded(Asked(asked[t]))
<1>2. HeapInv /\ [HeapNext]_heapVars => Fails
  BY FailsStep
<1>3. HeapInv /\ [HeapNext]_heapVars => [Fails]_heapVars
  BY <1>2
<1> HIDE DEF Fails
<1>4. HeapSpec => [][Fails]_heapVars
  BY <1>1, <1>3, PTL DEF HeapSpec
<1> QED
  BY <1>4 DEF FailsOnlyFull, Fails
=============================================================================

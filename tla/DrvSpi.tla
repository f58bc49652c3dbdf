------------------------------ MODULE DrvSpi -------------------------------
(***************************************************************************)
(* drv_spi.c: a transfer moves its bytes by DMA and waits on a semaphore,  *)
(* with a timeout, for the interrupt that reports the last byte handed to  *)
(* the SPI.  The DMA, the shift register and the interrupt run beside the  *)
(* thread; the interrupt and the post-processing of the semaphore preempt  *)
(* it, so that the thread takes no step while one of them is pending.  The *)
(* tick that times the wait out may have begun before either of them.      *)
(* Transfers follow one another: the callers hold sfud_lock.               *)
(***************************************************************************)
EXTENDS Integers, Sequences

CONSTANTS MaxLength,  \* a bound on the length of a message
          MaxXfers    \* a bound on the transfers

SpiAssumption == MaxLength \in Nat /\ MaxXfers \in Nat

None == 0             \* no transfer: they are numbered from 1

VARIABLES pc,         \* where the thread is in rt_spi_xfer
          message,    \* the message, with the number of its transfer
          sem,        \* the semaphore: its tokens, its waiter, its post
          tx, rx,     \* DMA1 channel 3 and DMA2 channel 1
          flag,       \* the transfer-done flag of DMA1 channel 3
          pending,    \* its interrupt is pending
          spi,        \* the peripheral
          clocked,    \* the bytes of this transfer that were clocked out
          received,   \* for each byte received, the transfer it came with
          length      \* what the transfer returns

spiVars == << pc, message, sem, tx, rx, flag, pending, spi, clocked, received, length >>
hardware == << tx, rx, flag, pending, spi, clocked, received >>

SpiInit ==
  /\ pc = "idle"
  /\ message = [number |-> None, kind |-> "send", length |-> 0]
  /\ sem = [tokens |-> 0, waiting |-> FALSE, posted |-> FALSE]
  /\ tx = [on |-> FALSE, left |-> 0, int |-> FALSE]
  /\ rx = [on |-> FALSE, left |-> 0]
  /\ flag = FALSE /\ pending = FALSE
  /\ spi = [on |-> FALSE, full |-> FALSE, shifting |-> FALSE, in |-> None]
  /\ clocked = 0 /\ received = << >> /\ length = 0

----------------------------------------------------------------------------
\* The thread.

Step(from, to) == pc = from /\ pc' = to /\ ~pending /\ ~sem.posted

\* Disabling the SPI aborts the byte it shifts and drops the one it holds.
SpiOff == [spi EXCEPT !.on = FALSE, !.full = FALSE, !.shifting = FALSE]

Call(kind, n) ==
  /\ Step("idle", "drain")
  /\ message.number < MaxXfers
  /\ message' = [number |-> message.number + 1, kind |-> kind, length |-> n]
  /\ tx' = [tx EXCEPT !.on = FALSE] /\ rx' = [rx EXCEPT !.on = FALSE]
  /\ spi' = SpiOff
  /\ length' = 0
  /\ UNCHANGED << sem, flag, pending, clocked, received >>

\* [mutant] The token of an earlier transfer stays.
DrainNot ==
  /\ Step("drain", "setup")
  /\ UNCHANGED << message, sem, hardware, length >>

\* osSemaphoreAcquire(sem_spi, 0)
Drain ==
  /\ Step("drain", "setup")
  /\ sem' = [sem EXCEPT !.tokens = 0]
  /\ UNCHANGED << message, hardware, length >>

\* The counters, the flag and the interrupt of the DMA; a reception first
\* reads the byte that an earlier transfer left in the SPI.
Setup ==
  /\ Step("setup", "start")
  /\ tx' = [tx EXCEPT !.left = message.length, !.int = TRUE]
  /\ flag' = FALSE
  /\ IF message.kind = "recv"
       THEN /\ spi' = [spi EXCEPT !.in = None]
            /\ rx' = [rx EXCEPT !.left = message.length]
       ELSE UNCHANGED << spi, rx >>
  /\ clocked' = 0 /\ received' = << >>
  /\ UNCHANGED << message, sem, pending, length >>

Start ==
  /\ Step("start", "wait")
  /\ spi' = [spi EXCEPT !.on = TRUE]
  /\ rx' = [rx EXCEPT !.on = message.kind = "recv"]
  /\ tx' = [tx EXCEPT !.on = TRUE]
  /\ UNCHANGED << message, sem, flag, pending, clocked, received, length >>

\* osSemaphoreAcquire(sem_spi, SPI_DMA_TIMEOUT)
Wait ==
  /\ IF sem.tokens > 0
       THEN Step("wait", "spin") /\ sem' = [sem EXCEPT !.tokens = 0]
       ELSE Step("wait", "waiting") /\ sem' = [sem EXCEPT !.waiting = TRUE]
  /\ UNCHANGED << message, hardware, length >>

\* The wait ends without a token: by its timeout, by osThreadResume.
WaitTimeout ==
  /\ pc = "waiting" /\ sem.waiting
  /\ sem' = [sem EXCEPT !.waiting = FALSE]
  /\ pc' = "off"
  /\ UNCHANGED << message, hardware, length >>

WaitDone ==
  /\ Step("waiting", "spin") /\ ~sem.waiting
  /\ UNCHANGED << message, sem, hardware, length >>

\* while(SPI1->sts_bit.bf) {}
Spin ==
  /\ Step("spin", "off")
  /\ ~spi.full /\ ~spi.shifting
  /\ length' = message.length
  /\ UNCHANGED << message, sem, hardware >>

Off ==
  /\ Step("off", "idle")
  /\ tx' = [tx EXCEPT !.int = FALSE, !.on = FALSE]
  /\ rx' = [rx EXCEPT !.on = FALSE]
  /\ spi' = SpiOff
  /\ UNCHANGED << message, sem, flag, pending, clocked, received, length >>

----------------------------------------------------------------------------
\* The hardware.

\* The DMA fills the transmit buffer; with the last byte it sets its flag.
TxDma ==
  /\ tx.on /\ spi.on /\ ~spi.full /\ tx.left > 0
  /\ tx' = [tx EXCEPT !.left = @ - 1]
  /\ spi' = [spi EXCEPT !.full = TRUE]
  /\ flag' = (flag \/ tx.left = 1)
  /\ pending' = (pending \/ (tx.left = 1 /\ tx.int))
  /\ UNCHANGED << pc, message, sem, rx, clocked, received, length >>

Shift ==
  /\ spi.on /\ spi.full /\ ~spi.shifting
  /\ spi' = [spi EXCEPT !.full = FALSE, !.shifting = TRUE]
  /\ UNCHANGED << pc, message, sem, tx, rx, flag, pending, clocked, received, length >>

\* A byte has been clocked out and one in, which the DMA stores at once; a
\* byte that was not read before stays, and the new one is lost.
Clock ==
  /\ spi.on /\ spi.shifting
  /\ clocked' = clocked + 1
  /\ LET in == IF spi.in = None THEN message.number ELSE spi.in
         store == rx.on /\ rx.left > 0
     IN  /\ spi' = [spi EXCEPT !.shifting = FALSE, !.in = IF store THEN None ELSE in]
         /\ received' = IF store THEN Append(received, in) ELSE received
         /\ rx' = IF store THEN [rx EXCEPT !.left = @ - 1] ELSE rx
  /\ UNCHANGED << pc, message, sem, tx, flag, pending, length >>

\* DMA1_Channel3_IRQHandler releases the semaphore, whose maximum is one.
Irq ==
  /\ pending /\ pending' = FALSE
  /\ flag' = FALSE
  /\ sem' = IF flag /\ sem.tokens = 0
              THEN [sem EXCEPT !.tokens = 1, !.posted = TRUE] ELSE sem
  /\ UNCHANGED << pc, message, tx, rx, spi, clocked, received, length >>

\* The post-processing hands the token to the waiter, if there still is one.
PendSV ==
  /\ sem.posted /\ ~pending
  /\ sem' = IF sem.waiting /\ sem.tokens > 0
              THEN [tokens |-> 0, waiting |-> FALSE, posted |-> FALSE]
              ELSE [sem EXCEPT !.posted = FALSE]
  /\ UNCHANGED << pc, message, hardware, length >>

Driver == Drain \/ Setup \/ Start \/ Wait \/ WaitDone \/ Spin \/ Off
Hardware == TxDma \/ Shift \/ Clock
Interrupts == Irq \/ PendSV

SpiNext ==
  \/ \E kind \in {"send", "recv"}, n \in 0..MaxLength : Call(kind, n)
  \/ WaitTimeout
  \/ Driver \/ Hardware \/ Interrupts

SpiSpec == SpiInit /\ [][SpiNext]_spiVars

----------------------------------------------------------------------------
SpiTypeOK ==
  /\ message.number \in 0..MaxXfers /\ length \in 0..MaxLength
  /\ sem \in [tokens: 0..1, waiting: BOOLEAN, posted: BOOLEAN]
  /\ tx.left \in 0..MaxLength /\ rx.left \in 0..MaxLength
  /\ clocked \in 0..MaxLength /\ received \in Seq(1..MaxXfers)

\* A transfer that returns the length of its message has clocked all its
\* bytes out, and every byte it received was sent by the device during this
\* transfer: neither the token nor the byte of an earlier transfer, one that
\* timed out, counts (rt_spi_xfer).
Exact ==
  pc = "off" /\ length = message.length /\ length > 0 =>
    /\ clocked = message.length
    /\ message.kind = "recv" => received = [i \in 1..message.length |-> message.number]

\* Once the call has returned, also after a timeout, no DMA reads or writes
\* the buffers of the caller, which lie on its stack, and no interrupt comes.
BufferReleased ==
  pc = "idle" => ~tx.on /\ ~rx.on /\ ~tx.int /\ ~pending

\* A transfer that returns the length of its message has moved all its bytes, and
\* once it has returned nothing touches the buffers of its caller (rt_spi_xfer).
TransfersRight == SpiTypeOK /\ Exact /\ BufferReleased
=============================================================================

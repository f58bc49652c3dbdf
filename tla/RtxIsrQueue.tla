----------------------------- MODULE RtxIsrQueue -----------------------------
(***************************************************************************)
(* Post processing of interrupts (rtx_system.c, rtx_kernel.c): interrupt   *)
(* handlers put objects into the ISR queue and request PendSV, the PendSV  *)
(* handler takes them out, and a suspended kernel keeps PendSV from        *)
(* running.                                                                *)
(*                                                                         *)
(* On this core the queue is built with EXCLUSIVE_ACCESS: there is no      *)
(* critical section around a put or a get, only the counter and the two    *)
(* indices are updated atomically.  Every such access is a step here.      *)
(* Interrupt handlers preempt one another by priority and everything else; *)
(* PendSV and service calls run only when no interrupt handler is active,  *)
(* and not in the middle of one another.                                   *)
(***************************************************************************)
EXTENDS Integers, Sequences, FiniteSets

CONSTANTS Object,   \* the objects that interrupt handlers post
          Nothing,  \* the NULL object
          Isr,      \* the interrupts, each the number of its priority level
          Size,     \* osRtxInfo.isr_queue.max
          Sized     \* TRUE when handlers never need the place of the entry that
                    \* PendSV is just taking out

ASSUME IsrAssumption ==
  /\ Nothing \notin Object
  /\ Isr \subseteq Nat
  /\ IsFiniteSet(Isr)
  /\ Size \in Nat \ {0}
  /\ Sized \in BOOLEAN

VARIABLES cnt, in, out, data,  \* osRtxInfo.isr_queue
          isr,                 \* the interrupt handlers: pc, object, local n
          pendsv,              \* the PendSV handler: pc, local n
          handled,             \* the object it got last
          pending,             \* the pending bit of the PendSV exception
          blocked, kpend,      \* osRtxInfo.kernel.blocked, .pendSV
          svc                  \* where KernelBlock or KernelUnblock stands

queueVars == << cnt, in, out, data >>
pendVars  == << pending, blocked, kpend >>
vars      == << cnt, in, out, data, isr, pendsv, handled, pending, blocked, kpend, svc >>

Slot == 0..Size-1

Init ==
  /\ cnt = 0 /\ in = 0 /\ out = 0
  /\ data = [s \in Slot |-> Nothing]
  /\ isr = [i \in Isr |-> [pc |-> "idle", object |-> Nothing, n |-> 0]]
  /\ pendsv = [pc |-> "idle", n |-> 0]
  /\ handled = Nothing
  /\ pending = FALSE /\ blocked = FALSE /\ kpend = FALSE
  /\ svc = "idle"

\* [mutant] the limit itself is taken for an index
IncLimLate(n) == IF n < Size THEN n + 1 ELSE 0

\* atomic_inc16_lim: the next index, or zero at the limit.
IncLim(n) == IF n + 1 < Size THEN n + 1 ELSE 0

Active(i) == isr[i].pc # "idle"

\* The processor executes handler i.
Executes(i, pc) == isr[i].pc = pc /\ \A j \in Isr : j > i => ~Active(j)

NoInterrupt == \A i \in Isr : ~Active(i)

\* The handlers that are going to count their entry, that have counted it, and
\* that have an index and have not stored the object yet.
Putting == {i \in Isr : isr[i].pc = "put"}
Counted == {i \in Isr : isr[i].pc = "counted"}
Storing == {i \in Isr : isr[i].pc = "indexed"}

\* PendSV has counted an entry as taken and not read it yet.
Taking == pendsv.pc \in {"taken", "indexed"}

-----------------------------------------------------------------------------
(* An interrupt handler: isr_queue_put and osRtxPostProcess. *)

Interrupt(i, o) ==
  /\ isr[i].pc = "idle"
  /\ \A j \in Isr : Active(j) => j < i
  /\ Sized /\ Taking
       => cnt + Cardinality(Putting) + 1 < Size
  /\ isr' = [isr EXCEPT ![i].pc = "put", ![i].object = o]
  /\ UNCHANGED << queueVars, pendsv, handled, pendVars, svc >>

\* atomic_inc16_lt(&cnt, max); a full queue is a fatal error: osRtxErrorNotify
\* (RTX_Config.c) never returns
PutCount(i) ==
  /\ Executes(i, "put")
  /\ \/ /\ cnt < Size
        /\ cnt' = cnt + 1
        /\ isr' = [isr EXCEPT ![i].pc = "counted"]
     \/ /\ cnt >= Size
        /\ isr' = [isr EXCEPT ![i].pc = "halted"]
        /\ UNCHANGED cnt
  /\ UNCHANGED << in, out, data, pendsv, handled, pendVars, svc >>

\* n = atomic_inc16_lim(&in, max)
PutIndex(i) ==
  /\ Executes(i, "counted")
  /\ isr' = [isr EXCEPT ![i].pc = "indexed", ![i].n = in]
  /\ in' = IncLim(in)
  /\ UNCHANGED << cnt, out, data, pendsv, handled, pendVars, svc >>

\* data[n] = object
PutStore(i) ==
  /\ Executes(i, "indexed")
  /\ data' = [data EXCEPT ![isr[i].n] = isr[i].object]
  /\ isr' = [isr EXCEPT ![i].pc = "stored"]
  /\ UNCHANGED << cnt, in, out, pendsv, handled, pendVars, svc >>

\* [mutant] PendSV is requested although the kernel is blocked
RequestAlways(i) ==
  /\ Executes(i, "stored")
  /\ pending' = TRUE
  /\ isr' = [isr EXCEPT ![i].pc = "idle"]
  /\ UNCHANGED << queueVars, pendsv, handled, blocked, kpend, svc >>

\* SetPendSV, or a note for KernelUnblock; the handler returns
Request(i) ==
  /\ Executes(i, "stored")
  /\ IF blocked THEN kpend' = TRUE /\ UNCHANGED pending
                ELSE pending' = TRUE /\ UNCHANGED kpend
  /\ isr' = [isr EXCEPT ![i].pc = "idle"]
  /\ UNCHANGED << queueVars, pendsv, handled, blocked, svc >>

-----------------------------------------------------------------------------
(* osRtxPendSV_Handler and isr_queue_get. *)

PendSVEntry ==
  /\ pending /\ NoInterrupt /\ svc = "idle" /\ pendsv.pc = "idle"
  /\ pending' = FALSE
  /\ pendsv' = [pendsv EXCEPT !.pc = "get"]
  /\ UNCHANGED << queueVars, isr, handled, blocked, kpend, svc >>

\* atomic_dec16_nz(&cnt); without an entry the handler dispatches and returns
GetCount ==
  /\ NoInterrupt /\ pendsv.pc = "get"
  /\ \/ /\ cnt # 0
        /\ cnt' = cnt - 1
        /\ pendsv' = [pendsv EXCEPT !.pc = "taken"]
        /\ UNCHANGED handled
     \/ /\ cnt = 0
        /\ handled' = Nothing
        /\ pendsv' = [pendsv EXCEPT !.pc = "idle"]
        /\ UNCHANGED cnt
  /\ UNCHANGED << in, out, data, isr, pendVars, svc >>

\* [mutant] the index is the one after the increment
GetIndexNext ==
  /\ NoInterrupt /\ pendsv.pc = "taken"
  /\ pendsv' = [pc |-> "indexed", n |-> IncLim(out)]
  /\ out' = IncLim(out)
  /\ UNCHANGED << cnt, in, data, isr, handled, pendVars, svc >>

\* n = atomic_inc16_lim(&out, max)
GetIndex ==
  /\ NoInterrupt /\ pendsv.pc = "taken"
  /\ pendsv' = [pc |-> "indexed", n |-> out]
  /\ out' = IncLim(out)
  /\ UNCHANGED << cnt, in, data, isr, handled, pendVars, svc >>

\* [mutant] the shared index is read again
GetReadOut ==
  /\ NoInterrupt /\ pendsv.pc = "indexed"
  /\ handled' = data[out]
  /\ pendsv' = [pendsv EXCEPT !.pc = "get"]
  /\ UNCHANGED << queueVars, isr, pendVars, svc >>

\* ret = data[n], whose post processing follows
GetRead ==
  /\ NoInterrupt /\ pendsv.pc = "indexed"
  /\ handled' = data[pendsv.n]
  /\ pendsv' = [pendsv EXCEPT !.pc = "get"]
  /\ UNCHANGED << queueVars, isr, pendVars, svc >>

-----------------------------------------------------------------------------
(* KernelBlock (osKernelSuspend) and KernelUnblock (osKernelResume). *)

SvcStep(from, to) == NoInterrupt /\ svc = from /\ svc' = to

Block ==
  /\ SvcStep("idle", "blocking")
  /\ pendsv.pc = "idle" /\ ~blocked
  /\ blocked' = TRUE
  /\ UNCHANGED << queueVars, isr, pendsv, handled, pending, kpend >>

\* [mutant] the request that was pending is forgotten
BlockClearOnly ==
  /\ SvcStep("blocking", "idle")
  /\ pending' = FALSE
  /\ UNCHANGED << queueVars, isr, pendsv, handled, blocked, kpend >>

\* if (GetPendSV() != 0U) ClrPendSV()
BlockClear ==
  /\ SvcStep("blocking", IF pending THEN "noting" ELSE "idle")
  /\ pending' = FALSE
  /\ UNCHANGED << queueVars, isr, pendsv, handled, blocked, kpend >>

BlockNote ==
  /\ SvcStep("noting", "idle")
  /\ kpend' = TRUE
  /\ UNCHANGED << queueVars, isr, pendsv, handled, pending, blocked >>

Unblock ==
  /\ SvcStep("idle", "unblocking")
  /\ pendsv.pc = "idle" /\ blocked
  /\ blocked' = FALSE
  /\ UNCHANGED << queueVars, isr, pendsv, handled, pending, kpend >>

\* [mutant] the remembered request is forgotten
UnblockClearOnly ==
  /\ SvcStep("unblocking", "idle")
  /\ kpend' = FALSE
  /\ UNCHANGED << queueVars, isr, pendsv, handled, pending, blocked >>

\* if (pendSV != 0U) pendSV = 0U
UnblockClear ==
  /\ SvcStep("unblocking", IF kpend THEN "pending" ELSE "idle")
  /\ kpend' = FALSE
  /\ UNCHANGED << queueVars, isr, pendsv, handled, pending, blocked >>

UnblockPend ==
  /\ SvcStep("pending", "idle")
  /\ pending' = TRUE
  /\ UNCHANGED << queueVars, isr, pendsv, handled, blocked, kpend >>

-----------------------------------------------------------------------------

Put(i) == PutCount(i) \/ PutIndex(i) \/ PutStore(i) \/ Request(i)

PendSV == PendSVEntry \/ GetCount \/ GetIndex \/ GetRead

Service == Block \/ BlockClear \/ BlockNote \/ Unblock \/ UnblockClear \/ UnblockPend

Next ==
  \/ \E i \in Isr : Put(i) \/ \E o \in Object : Interrupt(i, o)
  \/ PendSV
  \/ Service

Spec == Init /\ [][Next]_vars

\* A started handler goes on; PendSV and a service call that interrupts keep
\* preempting get the processor again and again, and a program that suspends
\* the kernel resumes it.
Fairness ==
  /\ \A i \in Isr : WF_vars(Put(i))
  /\ SF_vars(PendSV)
  /\ SF_vars(BlockClear \/ BlockNote \/ Unblock \/ UnblockClear \/ UnblockPend)

FairSpec == Spec /\ Fairness

-----------------------------------------------------------------------------
(* Properties. *)

\* Counter and indices stay in range.
TypeOK ==
  /\ cnt \in 0..Size /\ in \in Slot /\ out \in Slot
  /\ data \in [Slot -> Object \cup {Nothing}]
  /\ isr \in [Isr -> [pc     : {"idle", "put", "counted", "indexed", "stored", "halted"},
                      object : Object \cup {Nothing},
                      n      : Slot]]
  /\ pendsv \in [pc : {"idle", "get", "taken", "indexed"}, n : Slot]
  /\ handled \in Object \cup {Nothing}
  /\ pending \in BOOLEAN /\ blocked \in BOOLEAN /\ kpend \in BOOLEAN
  /\ svc \in {"idle", "blocking", "noting", "unblocking", "pending"}

\* How many entries have an index and are not taken out.
Indexed == cnt - Cardinality(Counted) + IF pendsv.pc = "taken" THEN 1 ELSE 0

\* The object of the entry at s, or the one its handler is about to store.
Entry(s) ==
  IF \E i \in Storing : isr[i].n = s
  THEN isr[CHOOSE i \in Storing : isr[i].n = s].object
  ELSE data[s]

\* The slot n places after slot 0, for n below 2 * Size.
Wrap(n) == IF n < Size THEN n ELSE n - Size

\* The entries that are not read yet, oldest first: the one that PendSV is about
\* to read, then those from out on.
Contents ==
  (IF pendsv.pc = "indexed" THEN << Entry(pendsv.n) >> ELSE << >>)
    \o [j \in 1..Indexed |-> Entry(Wrap(out + j - 1))]

\* Every object posted is handed to PendSV once, in order, and PendSV returns
\* only when nothing is left.
Posted == INSTANCE PostQueue WITH queue <- Contents
Delivered == Posted!Spec

\* A place is not written again before the entry in it has been read.
NoOverwrite ==
  \A i \in Storing :
    Taking => isr[i].n # (IF pendsv.pc = "taken" THEN out ELSE pendsv.n)

\* When no handler is active, an object in the queue is on its way: PendSV is
\* pending or running, or the kernel remembers to request it when unblocked.
WorkRequested ==
  NoInterrupt /\ cnt # 0
    => \/ pending
       \/ pendsv.pc # "idle"
       \/ kpend /\ (blocked \/ svc = "unblocking")
       \/ svc \in {"noting", "pending"}

\* While the kernel is suspended PendSV does not run: no thread is switched.
BlockedQuiet ==
  blocked /\ svc = "idle" => ~pending /\ pendsv.pc = "idle"

\* Whatever is posted is handed over in the end, however many interrupts come,
\* unless the queue overflows.
EventuallyHandled ==
  \A o \in Object :
    (\E j \in 1..Len(Contents) : Contents[j] = o)
      ~> (handled = o \/ \E i \in Isr : isr[i].pc = "halted")
=============================================================================

-------------------------------- MODULE RtxIsr --------------------------------
(***************************************************************************)
(* The services of RTX5 beside interrupts.                                 *)
(*                                                                         *)
(* A device interrupt may call a few services.  It never touches the       *)
(* lists of the kernel: it changes an object with atomic instructions and  *)
(* posts the object, and PendSV, which like SVC and SysTick has the lowest *)
(* priority, wakes the threads (osRtxPendSV_Handler).  So a service that   *)
(* reads an object's shared fields and acts on them later can be overtaken *)
(* by an interrupt in between.  It is split there: svc holds what a        *)
(* service has still to do, and other handlers start only when it is done. *)
(*                                                                         *)
(* The ISR queue is the sequence it implements (RtxIsrQueue, PostQueue).   *)
(***************************************************************************)
EXTENDS RtxThread

CONSTANTS NoService,  \* no handler is in progress
          PostLimit   \* bound: interrupts post no more than this at a time

ASSUME IsrAssumption ==
  /\ PostLimit \in Nat \ {0}
  /\ \A what \in {"PendSV", "Wait"} : NoService # [what |-> what]

VARIABLES posted,  \* the ISR queue: objects that wait for post-processing
          svc      \* the handler in progress, NoService if there is none

IsrInit == posted = << >> /\ svc = NoService

\* A thread runs, and a handler may start.
Quiet == svc = NoService

\* PendSV is pending unless a kernel suspension blocks it.
Pending(s) == posted # << >> /\ s.kernel \in {"Running", "Locked"}

\* What runs when a handler returns with the kernel record s: a pending PendSV
\* follows at once, before any thread.
Chained(s) == IF Pending(s) THEN [what |-> "PendSV"] ELSE NoService

\* The handlers of RtxThread.
ThreadStep == Quiet /\ Next /\ svc' = Chained(k') /\ UNCHANGED posted

\* A service that an interrupt cannot split; it does not suspend the kernel.
Service(name) == Quiet /\ Call(name) /\ svc' = Chained(k) /\ UNCHANGED posted

\* The running thread's service goes as far as what says; the rest follows.
Enter(name, what) ==
  /\ Quiet /\ Call(name)
  /\ svc' = what
  /\ UNCHANGED << k, tick, posted >>

\* The service in progress is at what.
At(what) == svc # NoService /\ svc.what = what

\* The rest of a service ends with the kernel record s.
Leave(s) == Return(s) /\ svc' = Chained(s) /\ UNCHANGED posted

\* A device interrupt, at any time once the kernel runs.
Interrupt == k.kernel # "Ready" /\ UNCHANGED << k, tick, svc >>

\* osRtxPostProcess
PostProcess(o) == Len(posted) < PostLimit /\ posted' = Append(posted, o)

\* PendSV interrupts a thread.  (A service may still come before it: one that
\* had been entered when the interrupt posted.)
PendSVEntry ==
  /\ Quiet /\ Pending(k)
  /\ svc' = [what |-> "PendSV"]
  /\ UNCHANGED << k, tick, posted >>

\* [mutant] the handler returns to the thread it interrupted
PendSVExitUndispatched ==
  /\ At("PendSV") /\ posted = << >>
  /\ Leave(k)

\* osRtxPendSV_Handler after the last object
PendSVExit ==
  /\ At("PendSV") /\ posted = << >>
  /\ Leave(ThreadDispatchReady(k))

\* The head of the ISR queue is o, and PendSV turns k into s for it.
PendSVStep(o, s) ==
  /\ At("PendSV") /\ posted # << >> /\ Head(posted) = o
  /\ posted' = Tail(posted)
  /\ k' = s
  /\ UNCHANGED << tick, svc >>

-----------------------------------------------------------------------------

\* The first waiter of o is woken up (osRtxThreadListGet, osRtxThreadWaitExit).
WakeFirst(s, o) ==
  ThreadWaitExit([s EXCEPT !.list[o] = Tail(@)], Head(s.list[o]))

\* ... and dispatched at once (dispatch TRUE)
WakeFirstDispatch(s, o) ==
  LET t == Head(s.list[o])
  IN  ThreadDispatch(ThreadDelayRemove([s EXCEPT !.list[o] = Tail(@)], t), t)

\* All waiters of o are woken up, by a delete.
WakeAll(s, o) ==
  LET q == s.list[o]
      woken[i \in 0..Len(q)] ==
        IF i = 0 THEN s ELSE WakeFirst(woken[i-1], o)
  IN  IF q = << >> THEN s ELSE ThreadDispatchReady(woken[Len(q)])

\* The running thread waits for o in state s with a timeout, if it can.
WaitFor(o, s, timeout) ==
  IF CanWait(k)
  THEN LET w == ThreadWaitEnter(k, s, timeout)
       IN  [w EXCEPT !.list[o] = ThreadListPut(w, @, k.run)]
  ELSE k

-----------------------------------------------------------------------------
(* Flags (event flags and thread flags): a flag word is the set of its ones. *)

\* What a thread waits for: flags, with osFlagsWaitAll and osFlagsNoClear.
WaitCondition(Flag) ==
  [flags : SUBSET Flag \ {{}}, all : BOOLEAN, noClear : BOOLEAN]

\* EventFlagsCheck and ThreadFlagsCheck find the condition w met by set ...
FlagsMet(set, w) ==
  IF w.all THEN w.flags \subseteq set ELSE w.flags \cap set # {}

\* ... and leave this.
FlagsLeft(set, w) == IF w.noClear THEN set ELSE set \ w.flags

-----------------------------------------------------------------------------
(* Properties. *)

\* A thread is in the list of an object exactly while it is blocked waiting for
\* one, and in one list only, whatever ends the wait: an interrupt's post, a
\* service, a timeout, a termination or a resume.
WaitersLinked(states) ==
  /\ \A t \in Thread :
       k.state[t] \in states <=> \E o \in Object : t \in ToSet(k.list[o])
  /\ \A o, p \in Object : o # p => ToSet(k.list[o]) \cap ToSet(k.list[p]) = {}
  /\ \A o \in Object : NoDuplicates(k.list[o])

\* What an interrupt makes ready preempts the running thread when PendSV
\* returns: no handler leaves a thread ready that should run.
PostDispatches ==
  [][svc # NoService /\ svc' = NoService /\ k'.kernel = "Running"
       /\ svc = [what |-> "PendSV"] => HighestRuns']_<< k, tick, posted, svc >>
=============================================================================

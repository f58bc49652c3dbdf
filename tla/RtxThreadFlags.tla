---------------------------- MODULE RtxThreadFlags ----------------------------
(***************************************************************************)
(* Thread flags of RTX5 (rtx_thread.c): each thread has a flag word that   *)
(* others and interrupts set and it alone waits for, checks and clears.    *)
(*                                                                         *)
(* A thread that waits for its flags is in no object list, and what        *)
(* interrupts post is the thread itself.                                   *)
(***************************************************************************)
EXTENDS RtxIsr

CONSTANTS Flag,       \* the flags of a thread
          Conditions  \* the conditions the threads wait for

ThreadFlagsAssumption ==
  /\ Object = {} /\ Mutex = {}
  /\ Conditions \subseteq WaitCondition(Flag)

VARIABLES flags,  \* thread_flags of each thread
          wait    \* wait_flags and flags_options of each

tfVars == << flags, wait >>
allVars == << k, tick, posted, svc, flags, wait >>

ThreadFlagsInit ==
  /\ Init /\ IsrInit
  /\ flags = [t \in Thread |-> {}]
  /\ wait \in [Thread -> {CHOOSE w \in Conditions : TRUE}]

Alive(t) == k.state[t] \notin {"Inactive", "Terminated"}

-----------------------------------------------------------------------------

\* svcRtxThreadNew clears the flags of the thread; no other handler of RtxThread
\* touches them.
ThreadFlagsNew ==
  /\ ThreadStep
  /\ flags' = [t \in Thread |->
                 IF ~Exists(t) /\ k'.state[t] # "Inactive" THEN {} ELSE flags[t]]
  /\ UNCHANGED wait

\* svcRtxThreadFlagsSet sets the flags ...
ThreadFlagsSet(t, f) ==
  /\ Quiet /\ Call("FlagsSet")
  /\ Alive(t)
  /\ flags' = [flags EXCEPT ![t] = @ \cup f]
  /\ svc' = [what |-> "Check", thread |-> t]
  /\ UNCHANGED << k, tick, posted, wait >>

\* [mutant] the thread is woken up but keeps the flags it waited for
ThreadFlagsCheckKept ==
  /\ At("Check")
  /\ LET t == svc.thread
     IN  Leave(IF k.state[t] = "WaitingThreadFlags" /\ FlagsMet(flags[t], wait[t])
               THEN ThreadDispatch(ThreadDelayRemove(k, t), t) ELSE k)
  /\ UNCHANGED tfVars

\* ... and then checks them for a thread that waits
ThreadFlagsCheck ==
  /\ At("Check")
  /\ LET t == svc.thread
     IN  IF k.state[t] = "WaitingThreadFlags" /\ FlagsMet(flags[t], wait[t])
         THEN /\ flags' = [flags EXCEPT ![t] = FlagsLeft(@, wait[t])]
              /\ Leave(ThreadDispatch(ThreadDelayRemove(k, t), t))
         ELSE Leave(k) /\ UNCHANGED flags
  /\ UNCHANGED wait

\* svcRtxThreadFlagsClear
ThreadFlagsClear(f) ==
  /\ Service("FlagsClear")
  /\ f \cap flags[k.run] # {}
  /\ flags' = [flags EXCEPT ![k.run] = @ \ f]
  /\ UNCHANGED << k, tick, wait >>

\* svcRtxThreadFlagsWait finds the condition met
ThreadFlagsTake(w) ==
  /\ Service("FlagsWait")
  /\ FlagsMet(flags[k.run], w)
  /\ flags' = [flags EXCEPT ![k.run] = FlagsLeft(@, w)]
  /\ UNCHANGED << k, tick, wait >>

\* ... or does not, and is given a timeout
ThreadFlagsNone(w, timeout) ==
  /\ Call("FlagsWait") /\ ~FlagsMet(flags[k.run], w)
  /\ Enter("FlagsWait", [what |-> "Wait", w |-> w, timeout |-> timeout])
  /\ UNCHANGED tfVars

\* ... and then waits; the condition is stored even if it cannot
ThreadFlagsWait ==
  /\ At("Wait")
  /\ wait' = [wait EXCEPT ![k.run] = svc.w]
  /\ Leave(IF CanWait(k)
           THEN ThreadWaitEnter(k, "WaitingThreadFlags", svc.timeout) ELSE k)
  /\ UNCHANGED flags

\* [mutant] posted only when the thread waits at the moment
IsrFlagsSetSeen(t, f) ==
  /\ Interrupt
  /\ Alive(t)
  /\ flags' = [flags EXCEPT ![t] = @ \cup f]
  /\ IF k.state[t] # "WaitingThreadFlags" THEN UNCHANGED posted ELSE PostProcess(t)
  /\ UNCHANGED wait

\* isrRtxThreadFlagsSet
IsrFlagsSet(t, f) ==
  /\ Interrupt
  /\ Alive(t)
  /\ flags' = [flags EXCEPT ![t] = @ \cup f]
  /\ PostProcess(t)
  /\ UNCHANGED wait

\* [mutant] the thread is woken up whatever flags are set
ThreadFlagsPostAny(t) ==
  IF k.state[t] = "WaitingThreadFlags"
  THEN /\ PendSVStep(t, ThreadWaitExit(k, t))
       /\ flags' = [flags EXCEPT ![t] = FlagsLeft(@, wait[t])]
       /\ UNCHANGED wait
  ELSE PendSVStep(t, k) /\ UNCHANGED tfVars

\* osRtxThreadPostProcess, whatever thread the control block holds by now
ThreadFlagsPost(t) ==
  IF k.state[t] = "WaitingThreadFlags" /\ FlagsMet(flags[t], wait[t])
  THEN /\ PendSVStep(t, ThreadWaitExit(k, t))
       /\ flags' = [flags EXCEPT ![t] = FlagsLeft(@, wait[t])]
       /\ UNCHANGED wait
  ELSE PendSVStep(t, k) /\ UNCHANGED tfVars

-----------------------------------------------------------------------------

\* What is left of a service that has started.
Rest == ThreadFlagsCheck \/ ThreadFlagsWait

PendSV ==
  \/ PendSVEntry /\ UNCHANGED tfVars
  \/ \E t \in Thread : ThreadFlagsPost(t)
  \/ PendSVExit /\ UNCHANGED tfVars

ThreadFlagsNext ==
  \/ ThreadFlagsNew
  \/ \E t \in Thread, f \in SUBSET Flag \ {{}} :
       ThreadFlagsSet(t, f) \/ IsrFlagsSet(t, f)
  \/ \E f \in SUBSET Flag \ {{}} : ThreadFlagsClear(f)
  \/ \E w \in Conditions :
       \/ ThreadFlagsTake(w)
       \/ \E timeout \in Delays \cup {Forever} : ThreadFlagsNone(w, timeout)
  \/ Rest
  \/ PendSV

ThreadFlagsSpec == ThreadFlagsInit /\ [][ThreadFlagsNext]_allVars

\* A handler that has started goes on, and a pending PendSV is taken.
ThreadFlagsFairSpec == ThreadFlagsSpec /\ WF_allVars(Rest) /\ WF_allVars(PendSV)

-----------------------------------------------------------------------------
(* Properties. *)

\* t waits for flags that it has.
Overdue(t) == k.state[t] = "WaitingThreadFlags" /\ FlagsMet(flags[t], wait[t])

\* No lost wake-up: a thread waits for flags that are set only while a service
\* is about to check it or the thread is posted, in particular when an interrupt
\* sets them after the thread has checked them and before it waits.
NoneOverlooked ==
  \A t \in Thread :
    Overdue(t) => t \in ToSet(posted) \/ (At("Check") /\ svc.thread = t)

\* A wait without a timeout ends only because its flags were set, or because
\* another thread resumes, suspends or ends the thread.
FlagsWake ==
  \A t \in Thread :
    k.state[t] = "WaitingThreadFlags" /\ ~FlagsMet(flags[t], wait[t])
      => k'.state[t] = "WaitingThreadFlags"

\* A wait that is over consumes its flags: a thread that waits again for flags
\* it has just been woken up for finds them cleared.
FlagsConsumed ==
  \A t \in Thread :
    Overdue(t) /\ k'.state[t] \in {"Ready", "Running"} /\ ~wait[t].noClear
      => wait[t].flags \cap flags'[t] = {}

\* A thread does not wait for ever for flags that stay set.
OverdueServed == \A t \in Thread : Overdue(t) ~> ~Overdue(t)
=============================================================================

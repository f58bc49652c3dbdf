----------------------------- MODULE RtxEventFlags -----------------------------
(***************************************************************************)
(* Event flags of RTX5 (rtx_evflags.c): threads wait for all or any of     *)
(* some flags, which are cleared when the wait ends unless the thread asks *)
(* otherwise; threads and interrupts set, clear and poll them.             *)
(*                                                                         *)
(* A set and the post-processing scan the waiting threads one by one and   *)
(* check the flags atomically for each: interrupts change the flags        *)
(* between two checks.                                                     *)
(***************************************************************************)
EXTENDS RtxIsr

CONSTANTS Flag,       \* the flags of an event flags object
          Conditions, \* the conditions the threads wait for
          IsrCalls    \* the services interrupts call: "Set", "Wait"

EventFlagsAssumption ==
  /\ Mutex = {}
  /\ Conditions \subseteq WaitCondition(Flag)
  /\ IsrCalls \subseteq {"Set", "Wait"}

VARIABLES efs,    \* the event flags objects that exist
          flags,  \* event_flags of each
          wait    \* wait_flags and flags_options of each thread

efVars == << efs, flags, wait >>
allVars == << k, tick, posted, svc, efs, flags, wait >>

EventFlagsInit ==
  /\ Init /\ IsrInit
  /\ efs = {}
  /\ flags = [e \in Object |-> {}]
  /\ wait \in [Thread -> {CHOOSE w \in Conditions : TRUE}]

-----------------------------------------------------------------------------

\* svcRtxEventFlagsNew
EventFlagsNew(e) ==
  /\ Service("EventFlagsNew")
  /\ e \notin efs
  /\ efs' = efs \cup {e}
  /\ flags' = [flags EXCEPT ![e] = {}]
  /\ UNCHANGED << k, tick, wait >>

\* svcRtxEventFlagsSet sets the flags, and has the waiting threads to check.
EventFlagsSet(e, f) ==
  /\ e \in efs
  /\ Quiet /\ Call("EventFlagsSet")
  /\ flags' = [flags EXCEPT ![e] = @ \cup f]
  /\ svc' = [what |-> "Scan", by |-> "Set", ef |-> e, rest |-> k.list[e]]
  /\ UNCHANGED << k, tick, posted, efs, wait >>

\* [mutant] only the first thread that can go is woken up
ScanFirst ==
  /\ At("Scan") /\ svc.rest # << >>
  /\ LET t == Head(svc.rest)
         e == svc.ef
     IN  IF FlagsMet(flags[e], wait[t])
         THEN /\ flags' = [flags EXCEPT ![e] = FlagsLeft(@, wait[t])]
              /\ k' = ThreadWaitExit(ThreadListRemove(k, t), t)
              /\ svc' = [svc EXCEPT !.rest = << >>]
         ELSE svc' = [svc EXCEPT !.rest = Tail(@)] /\ UNCHANGED << k, flags >>
  /\ UNCHANGED << tick, posted, efs, wait >>

\* [mutant] the thread stays linked in the object
ScanLinked ==
  /\ At("Scan") /\ svc.rest # << >>
  /\ LET t == Head(svc.rest)
         e == svc.ef
     IN  IF FlagsMet(flags[e], wait[t])
         THEN /\ flags' = [flags EXCEPT ![e] = FlagsLeft(@, wait[t])]
              /\ k' = ThreadWaitExit(k, t)
         ELSE UNCHANGED << k, flags >>
  /\ svc' = [svc EXCEPT !.rest = Tail(@)]
  /\ UNCHANGED << tick, posted, efs, wait >>

\* One round of the loop of svcRtxEventFlagsSet and osRtxEventFlagsPostProcess:
\* a thread whose condition is met takes its flags and is woken up.
Scan ==
  /\ At("Scan") /\ svc.rest # << >>
  /\ LET t == Head(svc.rest)
         e == svc.ef
     IN  IF FlagsMet(flags[e], wait[t])
         THEN /\ flags' = [flags EXCEPT ![e] = FlagsLeft(@, wait[t])]
              /\ k' = ThreadWaitExit(ThreadListRemove(k, t), t)
         ELSE UNCHANGED << k, flags >>
  /\ svc' = [svc EXCEPT !.rest = Tail(@)]
  /\ UNCHANGED << tick, posted, efs, wait >>

\* The end of svcRtxEventFlagsSet
EventFlagsSetEnd ==
  /\ At("Scan") /\ svc.rest = << >> /\ svc.by = "Set"
  /\ Leave(ThreadDispatchReady(k))
  /\ UNCHANGED efVars

\* svcRtxEventFlagsClear
EventFlagsClear(e, f) ==
  /\ Service("EventFlagsClear")
  /\ e \in efs /\ f \cap flags[e] # {}
  /\ flags' = [flags EXCEPT ![e] = @ \ f]
  /\ UNCHANGED << k, tick, efs, wait >>

\* svcRtxEventFlagsWait finds the condition met
EventFlagsTake(e, w) ==
  /\ Service("EventFlagsWait")
  /\ e \in efs /\ FlagsMet(flags[e], w)
  /\ flags' = [flags EXCEPT ![e] = FlagsLeft(@, w)]
  /\ UNCHANGED << k, tick, efs, wait >>

\* ... or does not, and is given a timeout
EventFlagsNone(e, w, timeout) ==
  /\ e \in efs /\ ~FlagsMet(flags[e], w)
  /\ Enter("EventFlagsWait",
           [what |-> "Wait", ef |-> e, w |-> w, timeout |-> timeout])
  /\ UNCHANGED efVars

\* ... and then waits: the flags may have changed meanwhile
EventFlagsWait ==
  /\ At("Wait")
  /\ Leave(WaitFor(svc.ef, "WaitingEventFlags", svc.timeout))
  /\ wait' = IF CanWait(k) THEN [wait EXCEPT ![k.run] = svc.w] ELSE wait
  /\ UNCHANGED << efs, flags >>

\* svcRtxEventFlagsDelete
EventFlagsDelete(e) ==
  /\ Service("EventFlagsDelete")
  /\ e \in efs
  /\ Return(WakeAll(k, e))
  /\ efs' = efs \ {e}
  /\ UNCHANGED << flags, wait >>

-----------------------------------------------------------------------------
(* Calls from interrupts. *)

\* [mutant] posted only when somebody waits at the moment
IsrSetSeen(e, f) ==
  /\ "Set" \in IsrCalls
  /\ Interrupt
  /\ e \in efs
  /\ flags' = [flags EXCEPT ![e] = @ \cup f]
  /\ IF k.list[e] = << >> THEN UNCHANGED posted ELSE PostProcess(e)
  /\ UNCHANGED << efs, wait >>

\* isrRtxEventFlagsSet
IsrSet(e, f) ==
  /\ "Set" \in IsrCalls
  /\ Interrupt
  /\ e \in efs
  /\ flags' = [flags EXCEPT ![e] = @ \cup f]
  /\ PostProcess(e)
  /\ UNCHANGED << efs, wait >>

\* isrRtxEventFlagsWait
IsrWait(e, w) ==
  /\ "Wait" \in IsrCalls
  /\ Interrupt
  /\ e \in efs /\ FlagsMet(flags[e], w)
  /\ flags' = [flags EXCEPT ![e] = FlagsLeft(@, w)]
  /\ UNCHANGED << posted, efs, wait >>

\* osRtxEventFlagsPostProcess begins
EventFlagsPostProcess(e) ==
  /\ e \in efs
  /\ At("PendSV") /\ posted # << >> /\ Head(posted) = e
  /\ posted' = Tail(posted)
  /\ svc' = [what |-> "Scan", by |-> "PendSV", ef |-> e, rest |-> k.list[e]]
  /\ UNCHANGED << k, tick >> /\ UNCHANGED efVars

\* ... and ends: PendSV goes on with the ISR queue
EventFlagsPostEnd ==
  /\ At("Scan") /\ svc.rest = << >> /\ svc.by = "PendSV"
  /\ svc' = [what |-> "PendSV"]
  /\ UNCHANGED << k, tick, posted >> /\ UNCHANGED efVars

\* osRtxPendSV_Handler passes over an object that has been deleted.
PostProcessGone(e) ==
  /\ e \notin efs
  /\ PendSVStep(e, k)
  /\ UNCHANGED efVars

-----------------------------------------------------------------------------

EventFlagsService(e) ==
  \/ EventFlagsNew(e)
  \/ \E f \in SUBSET Flag \ {{}} : EventFlagsSet(e, f) \/ EventFlagsClear(e, f)
  \/ \E w \in Conditions :
       \/ EventFlagsTake(e, w)
       \/ \E timeout \in Delays \cup {Forever} : EventFlagsNone(e, w, timeout)
  \/ EventFlagsDelete(e)

EventFlagsIsr(e) ==
  \/ \E f \in SUBSET Flag \ {{}} : IsrSet(e, f)
  \/ \E w \in Conditions : IsrWait(e, w)

\* What is left of a handler that has started.
Rest == Scan \/ EventFlagsSetEnd \/ EventFlagsPostEnd \/ EventFlagsWait

PendSV ==
  \/ PendSVEntry /\ UNCHANGED efVars
  \/ \E e \in Object : EventFlagsPostProcess(e) \/ PostProcessGone(e)
  \/ PendSVExit /\ UNCHANGED efVars

EventFlagsNext ==
  \/ ThreadStep /\ UNCHANGED efVars
  \/ \E e \in Object : EventFlagsService(e) \/ EventFlagsIsr(e)
  \/ Rest
  \/ PendSV

EventFlagsSpec == EventFlagsInit /\ [][EventFlagsNext]_allVars

\* A handler that has started goes on, and a pending PendSV is taken; no
\* interrupt and no program is obliged to call anything.
EventFlagsFairSpec ==
  /\ EventFlagsSpec
  /\ WF_allVars(Rest)
  /\ WF_allVars(PendSV)

-----------------------------------------------------------------------------
(* Properties. *)

\* The waiting threads are in the lists of the existing objects, once each.
EventFlagsLinked ==
  /\ WaitersLinked({"WaitingEventFlags"})
  /\ \A e \in Object \ efs : k.list[e] = << >>

\* t waits for flags of e that are set.
Overdue(e, t) == t \in ToSet(k.list[e]) /\ FlagsMet(flags[e], wait[t])

\* No lost wake-up: a thread waits for flags that are set only while the scan
\* has still to come to it or the object is posted, in particular when an
\* interrupt sets the flags between the check and the wait, or behind the scan.
NoneOverlooked ==
  \A e \in efs, t \in Thread :
    Overdue(e, t) => \/ e \in ToSet(posted)
                     \/ At("Scan") /\ svc.ef = e /\ t \in ToSet(svc.rest)

\* While no interrupt sets flags, threads are served by priority: flags are not
\* taken by one thread while a thread of higher priority waits for some of them
\* and could go.
HighestServed ==
  \A e \in Object : \A t, u \in ToSet(k.list[e]) :
    At("Scan") /\ k'.state[t] = "Ready" /\ k.priority[u] > k.priority[t]
      => ~FlagsMet(flags[e], wait[u])

\* A thread does not wait for ever for flags that stay set.
OverdueServed == \A e \in Object, t \in Thread : Overdue(e, t) ~> ~Overdue(e, t)
=============================================================================

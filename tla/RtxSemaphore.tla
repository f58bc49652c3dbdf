----------------------------- MODULE RtxSemaphore -----------------------------
(***************************************************************************)
(* Semaphores of RTX5 (rtx_semaphore.c): tokens that threads and           *)
(* interrupts acquire and release, threads that wait for one, and the      *)
(* post-processing that hands tokens released by interrupts to waiters.    *)
(***************************************************************************)
EXTENDS RtxIsr

CONSTANTS MaxTokens,  \* max_tokens of the semaphores
          IsrCalls    \* the services interrupts call: "Acquire", "Release"

SemaphoreAssumption ==
  /\ Mutex = {}
  /\ MaxTokens \in Nat \ {0}
  /\ IsrCalls \subseteq {"Acquire", "Release"}

VARIABLES sems,    \* the semaphores that exist
          tokens,  \* the tokens of each
          held     \* history: tokens acquired less tokens released, since New

semVars == << sems, tokens, held >>
allVars == << k, tick, posted, svc, sems, tokens, held >>

SemaphoreInit ==
  /\ Init /\ IsrInit
  /\ sems = {}
  /\ tokens = [s \in Object |-> 0]
  /\ held = [s \in Object |-> 0]

\* Somebody has been granted, or has given back, a token of s.
Granted(s)  == held' = [held EXCEPT ![s] = @ + 1]
GaveBack(s) == held' = [held EXCEPT ![s] = @ - 1]

-----------------------------------------------------------------------------

\* svcRtxSemaphoreNew; tokens in use are counted from the maximum
SemaphoreNew(s, initial) ==
  /\ Service("SemaphoreNew")
  /\ s \notin sems
  /\ sems' = sems \cup {s}
  /\ tokens' = [tokens EXCEPT ![s] = initial]
  /\ held' = [held EXCEPT ![s] = MaxTokens - initial]
  /\ UNCHANGED << k, tick >>

\* svcRtxSemaphoreAcquire finds a token (SemaphoreTokenDecrement)
SemaphoreAcquire(s) ==
  /\ Service("SemaphoreAcquire")
  /\ s \in sems /\ tokens[s] # 0
  /\ tokens' = [tokens EXCEPT ![s] = @ - 1]
  /\ Granted(s)
  /\ UNCHANGED << k, tick, sems >>

\* ... or finds none, and is given a timeout
SemaphoreAcquireNone(s, timeout) ==
  /\ s \in sems /\ tokens[s] = 0
  /\ Enter("SemaphoreAcquire", [what |-> "Wait", sem |-> s, timeout |-> timeout])
  /\ UNCHANGED semVars

\* ... and then waits: an interrupt may have released a token meanwhile
SemaphoreAcquireWait ==
  /\ At("Wait")
  /\ Leave(WaitFor(svc.sem, "WaitingSemaphore", svc.timeout))
  /\ UNCHANGED semVars

\* [mutant] the token goes to the waiter and is counted as well
SemaphoreReleaseTwice(s) ==
  /\ Service("SemaphoreRelease")
  /\ s \in sems /\ k.list[s] # << >>
  /\ Return(WakeFirstDispatch(k, s))
  /\ tokens' = [tokens EXCEPT ![s] = IF @ < MaxTokens THEN @ + 1 ELSE @]
  /\ UNCHANGED << sems, held >>

\* [mutant] the waiter stays in the list of the semaphore
SemaphoreReleaseKept(s) ==
  /\ Service("SemaphoreRelease")
  /\ s \in sems /\ k.list[s] # << >>
  /\ Return(ThreadDispatch(ThreadDelayRemove(k, Head(k.list[s])), Head(k.list[s])))
  /\ UNCHANGED semVars

\* svcRtxSemaphoreRelease with a waiter: it is given the token, so that the
\* tokens held stay the same
SemaphoreRelease(s) ==
  /\ Service("SemaphoreRelease")
  /\ s \in sems /\ k.list[s] # << >>
  /\ Return(WakeFirstDispatch(k, s))
  /\ UNCHANGED semVars

\* ... with no waiter (SemaphoreTokenIncrement); refused at the maximum
SemaphoreReleaseCount(s) ==
  /\ Service("SemaphoreRelease")
  /\ s \in sems /\ k.list[s] = << >> /\ tokens[s] < MaxTokens
  /\ tokens' = [tokens EXCEPT ![s] = @ + 1]
  /\ GaveBack(s)
  /\ UNCHANGED << k, tick, sems >>

\* svcRtxSemaphoreDelete
SemaphoreDelete(s) ==
  /\ Service("SemaphoreDelete")
  /\ s \in sems
  /\ Return(WakeAll(k, s))
  /\ sems' = sems \ {s}
  /\ UNCHANGED << tokens, held >>

-----------------------------------------------------------------------------
(* Calls from interrupts. *)

\* isrRtxSemaphoreAcquire
IsrAcquire(s) ==
  /\ "Acquire" \in IsrCalls
  /\ Interrupt
  /\ s \in sems /\ tokens[s] # 0
  /\ tokens' = [tokens EXCEPT ![s] = @ - 1]
  /\ Granted(s)
  /\ UNCHANGED << posted, sems >>

\* [mutant] posted only when somebody waits at the moment
IsrReleaseSeen(s) ==
  /\ "Release" \in IsrCalls
  /\ Interrupt
  /\ s \in sems /\ tokens[s] < MaxTokens
  /\ tokens' = [tokens EXCEPT ![s] = @ + 1]
  /\ IF k.list[s] = << >> THEN UNCHANGED posted ELSE PostProcess(s)
  /\ GaveBack(s)
  /\ UNCHANGED sems

\* isrRtxSemaphoreRelease
IsrRelease(s) ==
  /\ "Release" \in IsrCalls
  /\ Interrupt
  /\ s \in sems /\ tokens[s] < MaxTokens
  /\ tokens' = [tokens EXCEPT ![s] = @ + 1]
  /\ PostProcess(s)
  /\ GaveBack(s)
  /\ UNCHANGED sems

\* [mutant] the waiter is woken up without taking the token
SemaphorePostProcessFree(s) ==
  /\ s \in sems
  /\ IF k.list[s] # << >> /\ tokens[s] # 0
     THEN /\ PendSVStep(s, WakeFirst(k, s))
          /\ Granted(s)
          /\ UNCHANGED << sems, tokens >>
     ELSE PendSVStep(s, k) /\ UNCHANGED semVars

\* osRtxSemaphorePostProcess: a waiter takes the token, if both are there
SemaphorePostProcess(s) ==
  /\ s \in sems
  /\ IF k.list[s] # << >> /\ tokens[s] # 0
     THEN /\ PendSVStep(s, WakeFirst(k, s))
          /\ tokens' = [tokens EXCEPT ![s] = @ - 1]
          /\ Granted(s)
          /\ UNCHANGED sems
     ELSE PendSVStep(s, k) /\ UNCHANGED semVars

\* osRtxPendSV_Handler passes over an object that has been deleted.
PostProcessGone(s) ==
  /\ s \notin sems
  /\ PendSVStep(s, k)
  /\ UNCHANGED semVars

-----------------------------------------------------------------------------

SemaphoreService(s) ==
  \/ \E initial \in 0..MaxTokens : SemaphoreNew(s, initial)
  \/ SemaphoreAcquire(s)
  \/ \E timeout \in Delays \cup {Forever} : SemaphoreAcquireNone(s, timeout)
  \/ SemaphoreRelease(s)
  \/ SemaphoreReleaseCount(s)
  \/ SemaphoreDelete(s)

PendSV ==
  \/ PendSVEntry /\ UNCHANGED semVars
  \/ \E s \in Object : SemaphorePostProcess(s) \/ PostProcessGone(s)
  \/ PendSVExit /\ UNCHANGED semVars

SemaphoreNext ==
  \/ ThreadStep /\ UNCHANGED semVars
  \/ \E s \in Object : SemaphoreService(s) \/ IsrAcquire(s) \/ IsrRelease(s)
  \/ SemaphoreAcquireWait
  \/ PendSV

SemaphoreSpec == SemaphoreInit /\ [][SemaphoreNext]_allVars

\* A handler that has started goes on, and a pending PendSV is taken; no
\* interrupt and no program is obliged to call anything.
SemaphoreFairSpec ==
  /\ SemaphoreSpec
  /\ WF_allVars(SemaphoreAcquireWait)
  /\ WF_allVars(PendSV)

-----------------------------------------------------------------------------
(* Properties. *)

\* Every variable has its type; the token count never passes its maximum.
SemaphoreTypeOK ==
  /\ TypeOK
  /\ sems \subseteq Object
  /\ tokens \in [Object -> 0..MaxTokens]
  /\ held \in [Object -> 0..MaxTokens]
  /\ posted \in Seq(Object)

\* No token is lost or made: what is in the semaphore and what has been granted
\* to threads and interrupts adds up, whether a token is counted, handed over
\* by a release, or handed over by the post-processing of an interrupt.
TokensConserved == \A s \in sems : tokens[s] + held[s] = MaxTokens

\* The waiting threads are in the lists of the existing semaphores, once each:
\* none is left behind by a delete.
SemaphoreLinked ==
  /\ WaitersLinked({"WaitingSemaphore"})
  /\ \A s \in Object \ sems : k.list[s] = << >>

\* A thread waits for s although a token is there.
BesideToken(s) == k.list[s] # << >> /\ tokens[s] # 0

\* No lost wake-up: a thread waits beside a token only while the semaphore is
\* posted, in particular when an interrupt releases the token after the thread
\* has found none and before it waits.
WaiterPosted == \A s \in sems : BesideToken(s) => s \in ToSet(posted)

\* A waiter and a token do not stay beside each other for ever.
TokenServed == \A s \in Object : BesideToken(s) ~> ~BesideToken(s)
=============================================================================

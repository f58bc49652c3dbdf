-------------------------- MODULE RtxIsrQueueProofs --------------------------
(* Proofs about RtxIsrQueue, for every queue size and set of interrupts. *)
EXTENDS RtxIsrQueue, FiniteSetTheorems, SequenceTheorems, TLAPS

USE IsrAssumption DEF IsrAssumption

\* The next index is an index.
LEMMA IncLimSlot == ASSUME NEW n \in Slot PROVE IncLim(n) \in Slot
BY DEF Slot, IncLim

\* An empty queue has its types.
LEMMA TypeOKInit == Init => TypeOK
<1> SUFFICES ASSUME Init PROVE TypeOK
  OBVIOUS
<1>1. 0 \in Slot /\ 0 \in 0..Size
  BY DEF Slot
<1>2. isr \in [Isr -> [pc     : {"idle", "put", "counted", "indexed", "stored", "halted"},
                      object : Object \cup {Nothing},
                      n      : Slot]]
  BY <1>1 DEF Init
<1> QED
  BY <1>1, <1>2 DEF Init, TypeOK

\* No step of a handler leaves them.
LEMMA TypeOKNext == TypeOK /\ [Next]_vars => TypeOK'
<1> SUFFICES ASSUME TypeOK, [Next]_vars PROVE TypeOK'
  OBVIOUS
<1> USE DEF TypeOK
<1>1. ASSUME NEW i \in Isr, NEW o \in Object, Interrupt(i, o) PROVE TypeOK'
  BY <1>1 DEF Interrupt, queueVars, pendVars
<1>2. ASSUME NEW i \in Isr, PutCount(i) PROVE TypeOK'
  BY <1>2 DEF PutCount, Executes, queueVars, pendVars
<1>3. ASSUME NEW i \in Isr, PutIndex(i) PROVE TypeOK'
  BY <1>3, IncLimSlot DEF PutIndex, Executes, pendVars
<1>4. ASSUME NEW i \in Isr, PutStore(i) PROVE TypeOK'
  BY <1>4 DEF PutStore, Executes, pendVars
<1>5. ASSUME NEW i \in Isr, Request(i) PROVE TypeOK'
  BY <1>5 DEF Request, Executes, queueVars
<1>6. CASE PendSVEntry
  BY <1>6 DEF PendSVEntry, queueVars
<1>7. CASE GetCount
  BY <1>7 DEF GetCount, pendVars
<1>8. CASE GetIndex
  BY <1>8, IncLimSlot DEF GetIndex, pendVars
<1>9. CASE GetRead
  BY <1>9 DEF GetRead, queueVars, pendVars
<1>10. CASE Service
  BY <1>10 DEF Service, SvcStep, Block, BlockClear, BlockNote, Unblock,
               UnblockClear, UnblockPend, queueVars
<1>11. CASE UNCHANGED vars
  BY <1>11 DEF vars
<1> QED
  BY <1>1, <1>2, <1>3, <1>4, <1>5, <1>6, <1>7, <1>8, <1>9, <1>10, <1>11
  DEF Next, Put, PendSV

\* Counter, indices and local variables keep their ranges in every execution of
\* isr_queue_put, isr_queue_get and the handlers around them.
THEOREM TypeCorrect == Spec => []TypeOK
BY TypeOKInit, TypeOKNext, PTL DEF Spec

-----------------------------------------------------------------------------
(* Suspending the kernel. *)

\* PendSV and service calls exclude one another, blocked says on which side of
\* the two calls the program is, and from the moment the pending bit is clear
\* to the end of the suspension PendSV stays idle.
Quiet ==
  /\ svc # "idle" => pendsv.pc = "idle"
  /\ svc \in {"blocking", "noting"} => blocked
  /\ svc \in {"unblocking", "pending"} => ~blocked
  /\ blocked /\ svc \in {"idle", "noting"} => ~pending /\ pendsv.pc = "idle"

\* At the start nothing is pending and the kernel is not suspended.
LEMMA QuietInit == Init => Quiet
BY DEF Init, Quiet

\* Every step of KernelBlock, KernelUnblock, PendSV and a handler keeps Quiet.
LEMMA QuietNext == TypeOK /\ Quiet /\ [Next]_vars => Quiet'
<1> SUFFICES ASSUME TypeOK, Quiet, [Next]_vars PROVE Quiet'
  OBVIOUS
<1> USE DEF Quiet
<1>1. ASSUME NEW i \in Isr, NEW o \in Object, Interrupt(i, o) PROVE Quiet'
  BY <1>1 DEF Interrupt, pendVars
<1>2. ASSUME NEW i \in Isr, Put(i) PROVE Quiet'
  BY <1>2 DEF Put, PutCount, PutIndex, PutStore, Request, pendVars
<1>3. CASE PendSV
  BY <1>3 DEF PendSV, PendSVEntry, GetCount, GetIndex, GetRead, pendVars
<1>4. CASE Service
  BY <1>4 DEF Service, SvcStep, Block, BlockClear, BlockNote, Unblock,
              UnblockClear, UnblockPend
<1>5. CASE UNCHANGED vars
  BY <1>5 DEF vars
<1> QED
  BY <1>1, <1>2, <1>3, <1>4, <1>5 DEF Next

\* No thread is switched by PendSV while the kernel is suspended, whatever
\* interrupts do between the accesses of KernelBlock.
THEOREM SuspensionQuiet == Spec => []BlockedQuiet
<1>1. Quiet => BlockedQuiet
  BY DEF Quiet, BlockedQuiet
<1> QED
  BY <1>1, QuietInit, QuietNext, TypeCorrect, PTL DEF Spec

-----------------------------------------------------------------------------
(* No request is lost. *)

\* An interrupt handler has counted its entry and not requested PendSV yet.
Posting == \E i \in Isr : isr[i].pc \in {"counted", "indexed", "stored"}

\* WorkRequested between the steps of the handlers too.
WorkKnown ==
  cnt # 0
    => \/ Posting
       \/ pending
       \/ pendsv.pc # "idle"
       \/ kpend /\ (blocked \/ svc = "unblocking")
       \/ svc \in {"noting", "pending"}

\* At the start the queue is empty.
LEMMA WorkKnownInit == Init => WorkKnown
BY DEF Init, WorkKnown

\* Whoever takes note of a request away passes it on.
LEMMA WorkKnownNext ==
  TypeOK /\ Quiet /\ WorkKnown /\ [Next]_vars => WorkKnown'
<1> SUFFICES ASSUME TypeOK, Quiet, WorkKnown, [Next]_vars PROVE WorkKnown'
  OBVIOUS
<1> USE DEF WorkKnown, Posting, TypeOK
<1>1. ASSUME NEW i \in Isr, NEW o \in Object, Interrupt(i, o) PROVE WorkKnown'
  BY <1>1 DEF Interrupt, queueVars, pendVars
<1>2. ASSUME NEW i \in Isr, PutCount(i) PROVE WorkKnown'
  BY <1>2 DEF PutCount, Executes, pendVars
<1>3. ASSUME NEW i \in Isr, PutIndex(i) PROVE WorkKnown'
  <2>1. isr'[i].pc = "indexed"
    BY <1>3 DEF PutIndex, Executes
  <2> QED BY <2>1
<1>4. ASSUME NEW i \in Isr, PutStore(i) PROVE WorkKnown'
  <2>1. isr'[i].pc = "stored"
    BY <1>4 DEF PutStore, Executes
  <2> QED BY <2>1
<1>5. ASSUME NEW i \in Isr, Request(i) PROVE WorkKnown'
  BY <1>5 DEF Request
<1>6. CASE PendSV
  BY <1>6 DEF PendSV, PendSVEntry, GetCount, GetIndex, GetRead, queueVars, pendVars
<1>7. CASE Service
  BY <1>7 DEF Service, SvcStep, Block, BlockClear, BlockNote, Unblock,
              UnblockClear, UnblockPend, queueVars, Quiet
<1>8. CASE UNCHANGED vars
  BY <1>8 DEF vars
<1> QED
  BY <1>1, <1>2, <1>3, <1>4, <1>5, <1>6, <1>7, <1>8 DEF Next, Put

\* Whenever no interrupt handler is active, an object in the ISR queue is on its
\* way to PendSV: no interleaving of interrupts with KernelBlock, KernelUnblock
\* and the PendSV handler loses the request.
THEOREM NoLostRequest == Spec => []WorkRequested
<1>1. TypeOK /\ WorkKnown => WorkRequested
  BY DEF WorkKnown, WorkRequested, Posting, NoInterrupt, Active
<1> QED
  BY <1>1, WorkKnownInit, WorkKnownNext, QuietInit, QuietNext, TypeCorrect, PTL
  DEF Spec

-----------------------------------------------------------------------------
(* The queue implements PostQueue. *)

\* The slot after the Indexed entries is the next one to be given out; the
\* handlers that store have slots of their own among those entries; the entry
\* PendSV takes out has none of these, and no handler can reach it.
QueueInv ==
  /\ Cardinality(Counted) <= cnt
  /\ in = Wrap(out + Indexed)
  /\ \A i \in Storing : \E j \in 1..Indexed :
       isr[i].n = Wrap(out + j - 1) /\ (pendsv.pc = "taken" => j # 1)
  /\ \A i, j \in Storing : isr[i].n = isr[j].n => i = j
  /\ pendsv.pc = "indexed" => pendsv.n = Wrap(out + Size - 1)
  /\ Taking => cnt + Cardinality(Putting) < Size

\* The sets of handlers that are counted are finite.
LEMMA CountsFinite ==
  /\ IsFiniteSet(Counted) /\ Cardinality(Counted) \in Nat
  /\ IsFiniteSet(Putting) /\ Cardinality(Putting) \in Nat
BY FS_Subset, FS_CardinalityType DEF Counted, Putting

\* They are empty when no handler is active.
LEMMA CountsQuiet ==
  NoInterrupt => /\ Cardinality(Counted) = 0
                 /\ Cardinality(Putting) = 0
                 /\ Storing = {}
<1> SUFFICES ASSUME NoInterrupt
             PROVE  Counted = {} /\ Putting = {} /\ Storing = {}
  BY FS_EmptySet
<1> QED
  BY DEF NoInterrupt, Active, Counted, Putting, Storing

\* What each step of a handler does to the three sets.
LEMMA InterruptCounts ==
  ASSUME TypeOK, NEW i \in Isr, NEW o \in Object, Interrupt(i, o)
  PROVE  /\ Counted' = Counted /\ Storing' = Storing
         /\ Cardinality(Putting') = Cardinality(Putting) + 1
<1>1. Putting' = Putting \cup {i} /\ i \notin Putting
  BY DEF Interrupt, TypeOK, Putting
<1>2. Counted' = Counted /\ Storing' = Storing
  BY DEF Interrupt, TypeOK, Counted, Storing
<1> QED
  BY <1>1, <1>2, CountsFinite, FS_AddElement

\* PutCount moves its handler from Putting to Counted, or halts it.
LEMMA PutCountCounts ==
  ASSUME TypeOK, NEW i \in Isr, PutCount(i)
  PROVE  /\ Storing' = Storing
         /\ Cardinality(Putting') = Cardinality(Putting) - 1
         /\ Cardinality(Counted') = Cardinality(Counted) + (cnt' - cnt)
<1>1. Putting' = Putting \ {i} /\ i \in Putting
  BY DEF PutCount, Executes, TypeOK, Putting
<1>2. Storing' = Storing
  BY DEF PutCount, Executes, TypeOK, Storing
<1>3. Cardinality(Putting') = Cardinality(Putting) - 1
  BY <1>1, CountsFinite, FS_RemoveElement
<1>4. CASE cnt < Size
  <2>1. Counted' = Counted \cup {i} /\ i \notin Counted
    BY <1>4 DEF PutCount, Executes, TypeOK, Counted
  <2>2. cnt' - cnt = 1
    BY <1>4 DEF PutCount, TypeOK
  <2> QED
    BY <1>2, <1>3, <2>1, <2>2, CountsFinite, FS_AddElement
<1>5. CASE ~(cnt < Size)
  <2>1. Counted' = Counted
    BY <1>5 DEF PutCount, Executes, TypeOK, Counted
  <2>2. cnt' - cnt = 0
    BY <1>5 DEF PutCount, TypeOK
  <2> QED
    BY <1>2, <1>3, <2>1, <2>2, CountsFinite
<1> QED
  BY <1>4, <1>5

\* PutIndex moves it from Counted to Storing.
LEMMA PutIndexCounts ==
  ASSUME TypeOK, NEW i \in Isr, PutIndex(i)
  PROVE  /\ Storing' = Storing \cup {i} /\ i \notin Storing
         /\ Putting' = Putting
         /\ Cardinality(Counted') = Cardinality(Counted) - 1
         /\ Cardinality(Counted') \in Nat
<1>1. Counted' = Counted \ {i} /\ i \in Counted
  BY DEF PutIndex, Executes, TypeOK, Counted
<1>2. Putting' = Putting
  BY DEF PutIndex, Executes, TypeOK, Putting
<1>3. Storing' = Storing \cup {i} /\ i \notin Storing
  BY DEF PutIndex, Executes, TypeOK, Storing
<1> QED
  BY <1>1, <1>2, <1>3, CountsFinite, FS_RemoveElement, FS_CardinalityType

\* PutStore takes it out of Storing.
LEMMA PutStoreCounts ==
  ASSUME TypeOK, NEW i \in Isr, PutStore(i)
  PROVE  /\ Storing' = Storing \ {i} /\ i \in Storing
         /\ Putting' = Putting /\ Counted' = Counted
BY DEF PutStore, Executes, TypeOK, Putting, Counted, Storing

\* Request leaves all three alone.
LEMMA RequestCounts ==
  ASSUME TypeOK, NEW i \in Isr, Request(i)
  PROVE  Putting' = Putting /\ Counted' = Counted /\ Storing' = Storing
BY DEF Request, Executes, TypeOK, Putting, Counted, Storing

\* An empty queue satisfies the invariant.
LEMMA QueueInvInit == Init => QueueInv
<1> SUFFICES ASSUME Init PROVE QueueInv
  OBVIOUS
<1>1. NoInterrupt
  BY DEF Init, NoInterrupt, Active
<1> QED
  BY <1>1, CountsQuiet DEF Init, QueueInv, Indexed, Wrap, Taking

\* Every step keeps it, when the queue is sized for its interrupts.
LEMMA QueueInvNext == Sized /\ TypeOK /\ QueueInv /\ [Next]_vars => QueueInv'
<1> SUFFICES ASSUME Sized, TypeOK, QueueInv, [Next]_vars PROVE QueueInv'
  OBVIOUS
<1>0. /\ cnt \in 0..Size /\ in \in 0..Size-1 /\ out \in 0..Size-1
      /\ Cardinality(Counted) \in Nat /\ Cardinality(Putting) \in Nat
      /\ Indexed \in Int /\ Size \in Nat /\ Size > 0
  BY CountsFinite DEF TypeOK, Slot, Indexed
<1>1. ASSUME NEW i \in Isr, NEW o \in Object, Interrupt(i, o) PROVE QueueInv'
  <2>1. /\ UNCHANGED << cnt, in, out, pendsv >>
        /\ \A j \in Storing : isr'[j].n = isr[j].n
        /\ Taking => cnt + Cardinality(Putting) + 1 < Size
    BY <1>1 DEF Interrupt, queueVars, TypeOK, Storing
  <2>2. Indexed' = Indexed /\ (Taking' <=> Taking)
    BY <1>1, <2>1, InterruptCounts DEF Indexed, Taking
  <2> QED
    BY <1>0, <1>1, <2>1, <2>2, InterruptCounts DEF QueueInv, Wrap
<1>2. ASSUME NEW i \in Isr, PutCount(i) PROVE QueueInv'
  <2>1. /\ UNCHANGED << in, out, pendsv >>
        /\ \A j \in Storing : isr'[j].n = isr[j].n
        /\ cnt' \in {cnt, cnt + 1}
    BY <1>2 DEF PutCount, Executes, TypeOK, Storing
  <2>2. Indexed' = Indexed /\ (Taking' <=> Taking)
    BY <1>0, <1>2, <2>1, PutCountCounts DEF Indexed, Taking
  <2> QED
    BY <1>0, <1>2, <2>1, <2>2, PutCountCounts DEF QueueInv, Wrap
<1>3. ASSUME NEW i \in Isr, PutIndex(i) PROVE QueueInv'
  <2>1. /\ UNCHANGED << cnt, out, pendsv >>
        /\ \A j \in Storing : isr'[j].n = isr[j].n
        /\ isr'[i].n = in /\ in' = IncLim(in)
    BY <1>3 DEF PutIndex, Executes, TypeOK, Storing
  <2>2. Indexed' = Indexed + 1 /\ (Taking' <=> Taking)
    BY <1>0, <1>3, <2>1, PutIndexCounts DEF Indexed, Taking
  <2>3. Cardinality(Counted) > 0
    BY <1>0, <1>3, PutIndexCounts
  <2>4. Indexed \in 0..Size-1 /\ (pendsv.pc = "taken" => Indexed > 0)
    BY <1>0, <2>3 DEF Indexed, QueueInv, Taking
  <2>5. in' = Wrap(out' + Indexed')
    BY <1>0, <2>1, <2>2, <2>4 DEF QueueInv, Wrap, IncLim
  <2>6. ASSUME NEW j \in Storing'
        PROVE  \E m \in 1..Indexed' :
                 isr'[j].n = Wrap(out' + m - 1) /\ (pendsv'.pc = "taken" => m # 1)
    <3>1. CASE j = i
      <4>1. Indexed + 1 \in 1..Indexed' /\ (pendsv.pc = "taken" => Indexed + 1 # 1)
        BY <1>0, <2>2, <2>4
      <4>2. out' + (Indexed + 1) - 1 = out + Indexed
        BY <1>0, <2>1
      <4>3. isr'[j].n = Wrap(out' + (Indexed + 1) - 1)
        BY <2>1, <3>1, <4>2 DEF QueueInv
      <4> QED
        BY <2>1, <4>1, <4>3
    <3>2. CASE j \in Storing
      BY <1>0, <2>1, <2>2, <3>2 DEF QueueInv
    <3> QED
      BY <1>3, <3>1, <3>2, PutIndexCounts
  <2>7. ASSUME NEW j \in Storing PROVE isr[j].n # in
    <3>1. PICK m \in 1..Indexed : isr[j].n = Wrap(out + m - 1)
      BY DEF QueueInv
    <3> QED
      BY <1>0, <2>4, <3>1 DEF QueueInv, Wrap
  <2>8. \A j1, j2 \in Storing' : isr'[j1].n = isr'[j2].n => j1 = j2
    BY <1>3, <2>1, <2>7, PutIndexCounts DEF QueueInv
  <2>9. Cardinality(Counted') <= cnt'
    BY <1>0, <1>3, <2>1, PutIndexCounts DEF QueueInv
  <2>10. Taking' => cnt' + Cardinality(Putting') < Size
    BY <1>3, <2>1, <2>2, PutIndexCounts DEF QueueInv
  <2>11. pendsv'.pc = "indexed" => pendsv'.n = Wrap(out' + Size - 1)
    BY <2>1 DEF QueueInv
  <2> QED
    BY <2>5, <2>6, <2>8, <2>9, <2>10, <2>11 DEF QueueInv, Wrap
<1>4. ASSUME NEW i \in Isr, PutStore(i) PROVE QueueInv'
  <2>1. /\ UNCHANGED << cnt, in, out, pendsv >>
        /\ \A j \in Storing : isr'[j].n = isr[j].n
    BY <1>4 DEF PutStore, Executes, TypeOK, Storing
  <2>2. Indexed' = Indexed /\ (Taking' <=> Taking)
    BY <1>4, <2>1, PutStoreCounts DEF Indexed, Taking
  <2> QED
    BY <1>0, <1>4, <2>1, <2>2, PutStoreCounts DEF QueueInv, Wrap
<1>5. ASSUME NEW i \in Isr, Request(i) PROVE QueueInv'
  <2>1. /\ UNCHANGED << cnt, in, out, pendsv >>
        /\ \A j \in Storing : isr'[j].n = isr[j].n
    BY <1>5 DEF Request, Executes, TypeOK, Storing, queueVars
  <2>2. Indexed' = Indexed /\ (Taking' <=> Taking)
    BY <1>5, <2>1, RequestCounts DEF Indexed, Taking
  <2> QED
    BY <1>0, <1>5, <2>1, <2>2, RequestCounts DEF QueueInv, Wrap
<1>6. CASE PendSV
  <2>1. Counted' = Counted /\ Putting' = Putting /\ Storing' = Storing /\ UNCHANGED isr
    BY <1>6 DEF PendSV, PendSVEntry, GetCount, GetIndex, GetRead,
                Counted, Putting, Storing
  <2>2. CASE PendSVEntry
    BY <1>0, <2>1, <2>2
    DEF QueueInv, PendSVEntry, queueVars, Taking, Indexed, Wrap, TypeOK
  <2>3. CASE GetCount
    <3>1. NoInterrupt
      BY <2>3 DEF GetCount
    <3> QED
      BY <1>0, <2>1, <2>3, <3>1, CountsQuiet
      DEF QueueInv, GetCount, Taking, Indexed, Wrap, TypeOK
  <2>4. CASE GetIndex
    <3>1. NoInterrupt
      BY <2>4 DEF GetIndex
    <3> QED
      BY <1>0, <2>1, <2>4, <3>1, CountsQuiet
      DEF QueueInv, GetIndex, Taking, Indexed, Wrap, IncLim, TypeOK
  <2>5. CASE GetRead
    BY <1>0, <2>1, <2>5
    DEF QueueInv, GetRead, queueVars, Taking, Indexed, Wrap, TypeOK
  <2> QED
    BY <1>6, <2>2, <2>3, <2>4, <2>5 DEF PendSV
<1>7. CASE Service \/ UNCHANGED vars
  <2>1. UNCHANGED << cnt, in, out, isr, pendsv >>
    BY <1>7 DEF Service, Block, BlockClear, BlockNote, Unblock, UnblockClear,
                UnblockPend, queueVars, vars
  <2> QED
    BY <2>1 DEF QueueInv, Taking, Indexed, Wrap, Counted, Putting, Storing
<1> QED
  BY <1>1, <1>2, <1>3, <1>4, <1>5, <1>6, <1>7 DEF Next, Put

-----------------------------------------------------------------------------
(* The abstract queue, position by position. *)

Item == Object \cup {Nothing}

Entries == [s \in Slot |-> Entry(s)]

\* The length of Contents.
Count == Indexed + IF pendsv.pc = "indexed" THEN 1 ELSE 0

View ==
  /\ Entries \in [Slot -> Item]
  /\ \A i \in Storing : Entries[isr[i].n] = isr[i].object
  /\ \A s \in Slot : (\A i \in Storing : isr[i].n # s) => Entries[s] = data[s]
  /\ Contents \in Seq(Item) /\ Len(Contents) = Count
  /\ pendsv.pc # "indexed"
       => \A j \in 1..Count : Contents[j] = Entries[Wrap(out + j - 1)]
  /\ pendsv.pc = "indexed"
       => /\ Contents[1] = Entries[pendsv.n]
          /\ \A j \in 2..Count : Contents[j] = Entries[Wrap(out + j - 2)]

\* The invariant fixes what the queue holds, slot by slot.
LEMMA ViewOK == TypeOK /\ QueueInv => View
<1> SUFFICES ASSUME TypeOK, QueueInv PROVE View
  OBVIOUS
<1>0. /\ cnt \in 0..Size /\ in \in 0..Size-1 /\ out \in 0..Size-1
      /\ Cardinality(Counted) \in Nat /\ Cardinality(Putting) \in Nat
      /\ Size \in Nat /\ Size > 0 /\ pendsv.n \in Slot
  BY CountsFinite DEF TypeOK, Slot
<1>1. Indexed \in 0..Size
  BY <1>0 DEF Indexed, QueueInv, Taking
<1>2. ASSUME NEW i \in Storing PROVE Entry(isr[i].n) = isr[i].object
  <2>1. \A j \in Storing : isr[j].n = isr[i].n => j = i
    BY DEF QueueInv
  <2>2. (CHOOSE j \in Storing : isr[j].n = isr[i].n) = i
    BY <2>1
  <2> QED
    BY <2>2 DEF Entry
<1>3. ASSUME NEW s \in Slot, \A i \in Storing : isr[i].n # s
      PROVE  Entry(s) = data[s]
  BY <1>3 DEF Entry
<1>4. ASSUME NEW s \in Slot PROVE Entry(s) \in Item
  <2>1. CASE \E i \in Storing : isr[i].n = s
    <3>1. PICK i \in Storing : isr[i].n = s
      BY <2>1
    <3>2. isr[i].object \in Item
      BY DEF TypeOK, Storing, Item
    <3> QED
      BY <1>2, <3>1, <3>2
  <2>2. CASE ~\E i \in Storing : isr[i].n = s
    BY <1>3, <2>2 DEF TypeOK, Item
  <2> QED
    BY <2>1, <2>2
<1>5. \A i \in Storing : isr[i].n \in Slot
  BY DEF TypeOK, Storing
<1> DEFINE Q == [j \in 1..Indexed |-> Entry(Wrap(out + j - 1))]
<1>6. \A j \in 1..Indexed : Wrap(out + j - 1) \in Slot
  BY <1>0, <1>1 DEF Wrap, Slot
<1>7. Q \in Seq(Item) /\ Len(Q) = Indexed
  <2>1. \A j \in 1..Indexed : Entry(Wrap(out + j - 1)) \in Item
    BY <1>4, <1>6
  <2> QED
    BY <1>1, <2>1
<1>8. \A j \in 1..Indexed : Q[j] = Entries[Wrap(out + j - 1)]
  BY <1>6 DEF Entries
<1>9. Entries \in [Slot -> Item]
  BY <1>4 DEF Entries
<1>10. /\ \A i \in Storing : Entries[isr[i].n] = isr[i].object
       /\ \A s \in Slot : (\A i \in Storing : isr[i].n # s) => Entries[s] = data[s]
  BY <1>2, <1>3, <1>5 DEF Entries
<1> HIDE DEF Q
<1>11. CASE pendsv.pc # "indexed"
  <2>1. Contents = << >> \o Q
    BY <1>11 DEF Contents, Q
  <2>2. Contents = Q
    BY <1>7, <2>1, ConcatEmptySeq
  <2>3. Count = Indexed
    BY <1>1, <1>11 DEF Count
  <2> QED
    BY <1>7, <1>8, <1>9, <1>10, <1>11, <2>2, <2>3 DEF View
<1>12. CASE pendsv.pc = "indexed"
  <2> DEFINE e == Entry(pendsv.n)
  <2>1. Contents = << e >> \o Q
    BY <1>12 DEF Contents, Q
  <2>2. e \in Item /\ e = Entries[pendsv.n]
    BY <1>0, <1>4 DEF Entries
  <2> HIDE DEF e
  <2>3. << e >> \in Seq(Item) /\ Len(<< e >>) = 1 /\ << e >>[1] = e
    BY <2>2
  <2>4. /\ Contents \in Seq(Item) /\ Len(Contents) = 1 + Indexed
        /\ \A j \in 1..(1 + Indexed) : Contents[j] = IF j <= 1 THEN << e >>[j] ELSE Q[j - 1]
    BY <1>1, <1>7, <2>1, <2>3, ConcatProperties
  <2>5. Count = 1 + Indexed
    BY <1>1, <1>12 DEF Count
  <2>6. Contents[1] = Entries[pendsv.n]
    BY <1>1, <2>2, <2>3, <2>4
  <2>7. ASSUME NEW j \in 2..Count PROVE Contents[j] = Entries[Wrap(out + j - 2)]
    <3>1. j - 1 \in 1..Indexed /\ out + (j - 1) - 1 = out + j - 2 /\ ~(j <= 1)
      BY <1>0, <1>1, <2>5
    <3>2. Contents[j] = Q[j - 1]
      BY <1>1, <2>4, <2>5, <3>1
    <3> QED
      BY <1>8, <3>1, <3>2
  <2> QED
    BY <1>9, <1>10, <1>12, <2>4, <2>5, <2>6, <2>7 DEF View
<1> QED
  BY <1>11, <1>12

-----------------------------------------------------------------------------
(* Every step is a step of PostQueue or leaves its queue alone. *)

\* A handler that is at work posts an object.
ObjectsOK == \A i \in Isr : isr[i].pc # "idle" => isr[i].object \in Object

\* An active handler holds an object until it returns.
LEMMA ObjectsOKNext == TypeOK /\ ObjectsOK /\ [Next]_vars => ObjectsOK'
<1> SUFFICES ASSUME TypeOK, ObjectsOK, [Next]_vars PROVE ObjectsOK'
  OBVIOUS
<1> USE DEF TypeOK, ObjectsOK
<1>1. ASSUME NEW i \in Isr, NEW o \in Object, Interrupt(i, o) PROVE ObjectsOK'
  BY <1>1 DEF Interrupt
<1>2. ASSUME NEW i \in Isr, PutCount(i) PROVE ObjectsOK'
  BY <1>2 DEF PutCount, Executes
<1>3. ASSUME NEW i \in Isr, PutIndex(i) PROVE ObjectsOK'
  BY <1>3 DEF PutIndex, Executes
<1>4. ASSUME NEW i \in Isr, PutStore(i) \/ Request(i) PROVE ObjectsOK'
  BY <1>4 DEF PutStore, Request, Executes
<1>5. CASE PendSV \/ Service \/ UNCHANGED vars
  BY <1>5 DEF PendSV, PendSVEntry, GetCount, GetIndex, GetRead, Service, Block,
              BlockClear, BlockNote, Unblock, UnblockClear, UnblockPend, vars
<1> QED
  BY <1>1, <1>2, <1>3, <1>4, <1>5 DEF Next, Put

\* Entries is determined by the slots and the handlers that store.
LEMMA SameEntries ==
  ASSUME View, View', UNCHANGED data, Storing' = Storing,
         \A j \in Storing : isr'[j].n = isr[j].n /\ isr'[j].object = isr[j].object
  PROVE  Entries' = Entries
<1>1. ASSUME NEW s \in Slot PROVE Entries'[s] = Entries[s]
  <2>1. CASE \E j \in Storing : isr[j].n = s
    BY <2>1 DEF View
  <2>2. CASE ~\E j \in Storing : isr[j].n = s
    BY <2>2 DEF View
  <2> QED
    BY <2>1, <2>2
<1> QED
  BY <1>1 DEF View

\* Contents is determined by Entries, the length and where PendSV stands.
LEMMA SameContents ==
  ASSUME View, View', Entries' = Entries, Count' = Count, UNCHANGED out,
         pendsv'.n = pendsv.n, pendsv'.pc = "indexed" <=> pendsv.pc = "indexed"
  PROVE  Contents' = Contents
<1>1. Contents \in Seq(Item) /\ Contents' \in Seq(Item) /\ Len(Contents') = Len(Contents)
  BY DEF View, Item
<1>2. ASSUME NEW j \in 1..Len(Contents) PROVE Contents'[j] = Contents[j]
  <2>1. CASE pendsv.pc = "indexed"
    BY <1>1, <2>1 DEF View, Wrap
  <2>2. CASE pendsv.pc # "indexed"
    BY <1>1, <2>2 DEF View, Wrap
  <2> QED
    BY <2>1, <2>2
<1> QED
  BY <1>1, <1>2, SeqEqual

\* PutIndex(i) is where the object of i is posted.
LEMMA PutIndexPosts ==
  ASSUME TypeOK, QueueInv, ObjectsOK, View, View', NEW i \in Isr, PutIndex(i)
  PROVE  Contents' = Append(Contents, isr[i].object) /\ isr[i].object \in Object
<1>0. /\ cnt \in 0..Size /\ in \in 0..Size-1 /\ out \in 0..Size-1
      /\ Cardinality(Counted) \in Nat /\ Cardinality(Putting) \in Nat
      /\ Size \in Nat /\ Size > 0
  BY CountsFinite DEF TypeOK, Slot
<1>1. /\ UNCHANGED << cnt, out, data, pendsv >>
      /\ \A j \in Isr : isr'[j].object = isr[j].object
      /\ \A j \in Storing : isr'[j].n = isr[j].n
      /\ isr'[i].n = in /\ isr[i].pc = "counted"
      /\ Storing' = Storing \cup {i} /\ i \notin Storing
  <2>1. Storing' = Storing \cup {i} /\ i \notin Storing
    BY PutIndexCounts
  <2> QED
    BY <2>1 DEF PutIndex, Executes, TypeOK, Storing
<1>2. Cardinality(Counted) > 0 /\ Cardinality(Counted') = Cardinality(Counted) - 1
  BY <1>0, PutIndexCounts
<1>3. /\ Indexed \in 0..Size-1 /\ Indexed' = Indexed + 1
      /\ pendsv.pc = "indexed" => Indexed + 1 < Size
  BY <1>0, <1>1, <1>2 DEF Indexed, QueueInv, Taking
<1>4. Count \in Nat /\ Count' = Count + 1
  BY <1>1, <1>3 DEF Count
<1>5. isr[i].object \in Object
  BY <1>1 DEF ObjectsOK
<1>6. Entries'[in] = isr[i].object
  BY <1>1 DEF View
<1>7. ASSUME NEW s \in Slot, s # in PROVE Entries'[s] = Entries[s]
  <2>1. CASE \E j \in Storing : isr[j].n = s
    <3>1. PICK j \in Storing : isr[j].n = s
      BY <2>1
    <3>2. Entries'[isr'[j].n] = isr'[j].object /\ Entries[isr[j].n] = isr[j].object
      BY <1>1, <3>1 DEF View
    <3> QED
      BY <1>1, <3>1, <3>2 DEF Storing
  <2>2. CASE ~\E j \in Storing : isr[j].n = s
    <3>1. \A j \in Storing' : isr'[j].n # s
      BY <1>1, <1>7, <2>2
    <3> QED
      BY <1>1, <2>2, <3>1 DEF View
  <2> QED
    BY <2>1, <2>2
<1>8. /\ Contents \in Seq(Item) /\ Len(Contents) = Count
      /\ Contents' \in Seq(Item) /\ Len(Contents') = Count + 1
  BY <1>4 DEF View, Item
<1>9. ASSUME NEW j \in 1..Count PROVE Contents'[j] = Contents[j]
  <2>1. CASE pendsv.pc # "indexed"
    <3>1. Count = Indexed
      BY <1>3, <2>1 DEF Count
    <3>2. Wrap(out + j - 1) \in Slot /\ Wrap(out + j - 1) # in
      BY <1>0, <1>3, <3>1 DEF Wrap, Slot, QueueInv
    <3>3. Contents[j] = Entries[Wrap(out + j - 1)]
      BY <2>1 DEF View
    <3>4. Contents'[j] = Entries'[Wrap(out + j - 1)]
      BY <1>1, <1>4, <2>1 DEF View, Wrap
    <3> QED
      BY <1>7, <3>2, <3>3, <3>4
  <2>2. CASE pendsv.pc = "indexed" /\ j = 1
    <3>1. pendsv.n \in Slot /\ pendsv.n # in
      BY <1>0, <1>3, <2>2 DEF Wrap, Slot, QueueInv
    <3> QED
      BY <1>1, <1>7, <2>2, <3>1 DEF View
  <2>3. CASE pendsv.pc = "indexed" /\ j # 1
    <3>1. Count = Indexed + 1 /\ j \in 2..Count /\ j \in 2..Count'
      BY <1>3, <1>4, <2>3 DEF Count
    <3>2. Wrap(out + j - 2) \in Slot /\ Wrap(out + j - 2) # in
      BY <1>0, <1>3, <3>1 DEF Wrap, Slot, QueueInv
    <3>3. Contents[j] = Entries[Wrap(out + j - 2)]
      BY <2>3, <3>1 DEF View
    <3>4. Contents'[j] = Entries'[Wrap(out + j - 2)]
      BY <1>1, <2>3, <3>1 DEF View, Wrap
    <3> QED
      BY <1>7, <3>2, <3>3, <3>4
  <2> QED
    BY <2>1, <2>2, <2>3
<1>10. Contents'[Count + 1] = isr[i].object
  <2>1. CASE pendsv.pc # "indexed"
    <3>1. Wrap(out + (Count + 1) - 1) = in /\ Count + 1 \in 1..Count'
      BY <1>0, <1>3, <1>4, <2>1 DEF Count, QueueInv, Wrap
    <3> QED
      BY <1>1, <1>6, <2>1, <3>1 DEF View, Wrap
  <2>2. CASE pendsv.pc = "indexed"
    <3>1. Wrap(out + (Count + 1) - 2) = in /\ Count + 1 \in 2..Count'
      BY <1>0, <1>3, <1>4, <2>2 DEF Count, QueueInv, Wrap
    <3> QED
      BY <1>1, <1>6, <2>2, <3>1 DEF View, Wrap
  <2> QED
    BY <2>1, <2>2
<1> DEFINE q == Append(Contents, isr[i].object)
<1>11. isr[i].object \in Item
  BY <1>5 DEF Item
<1>12. /\ q \in Seq(Item) /\ Len(q) = Count + 1
       /\ \A j \in 1..Count : q[j] = Contents[j]
       /\ q[Count + 1] = isr[i].object
  BY <1>8, <1>11, AppendProperties
<1> HIDE DEF q
<1>13. \A j \in 1..Count+1 : Contents'[j] = q[j]
  BY <1>4, <1>9, <1>10, <1>12
<1>14. Contents' = q
  BY <1>8, <1>12, <1>13, SeqEqual
<1> QED
  BY <1>5, <1>14 DEF q

\* The steps of the handlers before PutIndex and after it change nothing.
LEMMA HandlerSame ==
  ASSUME TypeOK, QueueInv, View, View', NEW i \in Isr,
         (\E o \in Object : Interrupt(i, o)) \/ PutCount(i) \/ PutStore(i) \/ Request(i)
  PROVE  Contents' = Contents /\ handled' = handled
<1>0. Cardinality(Counted) \in Nat /\ cnt \in Nat
  BY CountsFinite DEF TypeOK
<1>1. ASSUME NEW o \in Object, Interrupt(i, o) PROVE Contents' = Contents /\ handled' = handled
  <2>1. /\ UNCHANGED << cnt, out, data, pendsv, handled >>
        /\ \A j \in Storing : isr'[j].n = isr[j].n /\ isr'[j].object = isr[j].object
    BY <1>1 DEF Interrupt, queueVars, TypeOK, Storing
  <2>2. Counted' = Counted /\ Storing' = Storing
    BY <1>1, InterruptCounts
  <2>3. Count' = Count
    BY <2>1, <2>2 DEF Count, Indexed
  <2> QED
    BY <2>1, <2>2, <2>3, SameEntries, SameContents
<1>2. CASE PutCount(i)
  <2>1. /\ UNCHANGED << out, data, pendsv, handled >> /\ cnt' \in Nat
        /\ \A j \in Storing : isr'[j].n = isr[j].n /\ isr'[j].object = isr[j].object
    BY <1>2 DEF PutCount, Executes, TypeOK, Storing
  <2>2. Cardinality(Counted') = Cardinality(Counted) + (cnt' - cnt) /\ Storing' = Storing
    BY <1>2, PutCountCounts
  <2>3. Count' = Count
    BY <1>0, <2>1, <2>2 DEF Count, Indexed
  <2> QED
    BY <2>1, <2>2, <2>3, SameEntries, SameContents
<1>3. CASE PutStore(i)
  <2>1. UNCHANGED << cnt, out, pendsv, handled >>
    BY <1>3 DEF PutStore
  <2>2. /\ \A j \in Storing : isr'[j].n = isr[j].n /\ isr'[j].object = isr[j].object
        /\ isr[i].n \in Slot
        /\ data' = [data EXCEPT ![isr[i].n] = isr[i].object]
        /\ data \in [Slot -> Item]
    BY <1>3 DEF PutStore, Executes, TypeOK, Storing, Item
  <2>3. Storing' = Storing \ {i} /\ i \in Storing /\ Counted' = Counted
    BY <1>3, PutStoreCounts
  <2>4. ASSUME NEW s \in Slot PROVE Entries'[s] = Entries[s]
    <3>1. CASE s = isr[i].n
      <4>1. \A j \in Storing' : isr'[j].n # s
        BY <2>2, <2>3, <3>1 DEF QueueInv
      <4>2. Entries'[s] = data'[s]
        BY <4>1 DEF View
      <4>3. Entries[s] = isr[i].object
        BY <2>3, <3>1 DEF View
      <4> QED
        BY <2>2, <3>1, <4>2, <4>3
    <3>2. CASE s # isr[i].n /\ \E j \in Storing : isr[j].n = s
      <4>1. PICK j \in Storing : isr[j].n = s
        BY <3>2
      <4>2. Entries'[isr'[j].n] = isr'[j].object /\ Entries[isr[j].n] = isr[j].object
        BY <2>3, <3>2, <4>1 DEF View
      <4> QED
        BY <2>2, <4>1, <4>2
    <3>3. CASE s # isr[i].n /\ ~\E j \in Storing : isr[j].n = s
      <4>1. \A j \in Storing' : isr'[j].n # s
        BY <2>2, <2>3, <3>3
      <4>2. Entries'[s] = data'[s] /\ Entries[s] = data[s]
        BY <3>3, <4>1 DEF View
      <4> QED
        BY <2>2, <3>3, <4>2
    <3> QED
      BY <3>1, <3>2, <3>3
  <2>5. Entries' = Entries
    BY <2>4 DEF View
  <2>6. Count' = Count
    BY <2>1, <2>3 DEF Count, Indexed
  <2> QED
    BY <2>1, <2>5, <2>6, SameContents
<1>4. CASE Request(i)
  <2>1. /\ UNCHANGED << cnt, out, data, pendsv, handled >>
        /\ \A j \in Storing : isr'[j].n = isr[j].n /\ isr'[j].object = isr[j].object
    BY <1>4 DEF Request, Executes, queueVars, TypeOK, Storing
  <2>2. Counted' = Counted /\ Storing' = Storing
    BY <1>4, RequestCounts
  <2>3. Count' = Count
    BY <2>1, <2>2 DEF Count, Indexed
  <2> QED
    BY <2>1, <2>2, <2>3, SameEntries, SameContents
<1> QED
  BY <1>1, <1>2, <1>3, <1>4

\* Taking the index of an entry moves it from the window to the head of it.
LEMMA GetIndexSame ==
  ASSUME TypeOK, QueueInv, View, View', GetIndex
  PROVE  Contents' = Contents /\ handled' = handled
<1>0. /\ cnt \in 0..Size /\ out \in 0..Size-1 /\ Size \in Nat /\ Size > 0
      /\ Cardinality(Counted) = 0 /\ Cardinality(Putting) \in Nat
  BY CountsQuiet, CountsFinite DEF TypeOK, Slot, GetIndex
<1>1. /\ UNCHANGED << cnt, isr, data, handled >>
      /\ pendsv.pc = "taken" /\ pendsv'.pc = "indexed" /\ pendsv'.n = out
      /\ out' = IncLim(out)
  BY DEF GetIndex
<1>2. Entries' = Entries /\ Counted' = Counted
  BY <1>1 DEF Entries, Entry, Storing, Counted
<1>3. Count = cnt + 1 /\ Count' = cnt + 1 /\ cnt < Size
  BY <1>0, <1>1, <1>2 DEF Count, Indexed, QueueInv, Taking
<1>4. /\ Contents \in Seq(Item) /\ Contents' \in Seq(Item)
      /\ Len(Contents) = cnt + 1 /\ Len(Contents') = cnt + 1
  BY <1>3 DEF View, Item
<1>5. ASSUME NEW j \in 1..(cnt + 1) PROVE Contents'[j] = Contents[j]
  <2>1. Contents[j] = Entries[Wrap(out + j - 1)]
    BY <1>1, <1>3 DEF View
  <2>2. CASE j = 1
    <3>1. Wrap(out + j - 1) = out
      BY <1>0, <2>2 DEF Wrap
    <3> QED
      BY <1>1, <1>2, <2>1, <2>2, <3>1 DEF View
  <2>3. CASE j # 1
    <3>1. Wrap(out' + j - 2) = Wrap(out + j - 1)
      BY <1>0, <1>1, <1>3, <2>3 DEF Wrap, IncLim
    <3>2. j \in 2..Count'
      BY <1>0, <1>3, <2>3
    <3>3. Contents'[j] = Entries'[Wrap(out' + j - 2)]
      BY <1>1, <3>2 DEF View, Wrap
    <3> QED
      BY <1>2, <2>1, <3>1, <3>3
  <2> QED
    BY <2>2, <2>3
<1> QED
  BY <1>1, <1>4, <1>5, SeqEqual

\* Reading the entry hands it over.
LEMMA GetReadHandsOver ==
  ASSUME TypeOK, QueueInv, View, View', GetRead
  PROVE  Contents # << >> /\ handled' = Head(Contents) /\ Contents' = Tail(Contents)
<1>0. /\ cnt \in 0..Size /\ out \in 0..Size-1 /\ Size \in Nat /\ Size > 0
      /\ Cardinality(Counted) = 0 /\ Storing = {} /\ pendsv.n \in Slot
  BY CountsQuiet DEF TypeOK, Slot, GetRead
<1>1. /\ UNCHANGED << cnt, out, isr, data >>
      /\ pendsv.pc = "indexed" /\ pendsv'.pc = "get" /\ handled' = data[pendsv.n]
  BY DEF GetRead, queueVars, TypeOK
<1>2. Entries' = Entries /\ Counted' = Counted
  BY <1>1 DEF Entries, Entry, Storing, Counted
<1>3. Count = cnt + 1 /\ Count' = cnt
  BY <1>0, <1>1, <1>2 DEF Count, Indexed
<1>4. /\ Contents \in Seq(Item) /\ Contents' \in Seq(Item)
      /\ Len(Contents) = cnt + 1 /\ Len(Contents') = cnt
  BY <1>3 DEF View, Item
<1>5. handled' = Contents[1]
  BY <1>0, <1>1 DEF View
<1>6. Contents # << >>
  BY <1>0, <1>4, EmptySeq
<1>7. Head(Contents) = Contents[1]
  BY <1>4, <1>6
<1>8. /\ Tail(Contents) \in Seq(Item) /\ Len(Tail(Contents)) = cnt
      /\ \A j \in 1..cnt : Tail(Contents)[j] = Contents[j + 1]
  BY <1>0, <1>4, <1>6, HeadTailProperties
<1>9. ASSUME NEW j \in 1..cnt PROVE Contents'[j] = Contents[j + 1]
  <2>1. j + 1 \in 2..Count /\ out + (j + 1) - 2 = out + j - 1
    BY <1>0, <1>3
  <2>2. Contents[j + 1] = Entries[Wrap(out + j - 1)]
    BY <1>1, <2>1 DEF View
  <2>3. Contents'[j] = Entries'[Wrap(out + j - 1)]
    BY <1>1, <1>3 DEF View, Wrap
  <2> QED
    BY <1>2, <2>2, <2>3
<1>10. Contents' = Tail(Contents)
  BY <1>4, <1>8, <1>9, SeqEqual
<1> QED
  BY <1>5, <1>6, <1>7, <1>10

\* PendSV goes on when there is something left, and else has drained the queue.
LEMMA GetCountSame ==
  ASSUME TypeOK, QueueInv, View, View', GetCount
  PROVE  /\ Contents' = Contents
         /\ handled' = handled \/ (Contents = << >> /\ handled' = Nothing)
<1>0. cnt \in Nat /\ Cardinality(Counted) = 0 /\ pendsv.pc = "get"
  BY CountsQuiet DEF TypeOK, GetCount
<1>1. /\ UNCHANGED << out, isr, data >> /\ pendsv'.n = pendsv.n
      /\ pendsv'.pc # "indexed"
  BY DEF GetCount, TypeOK
<1>2. Entries' = Entries /\ Counted' = Counted
  BY <1>1 DEF Entries, Entry, Storing, Counted
<1>3. Count' = Count /\ Count = cnt
  BY <1>0, <1>2 DEF GetCount, Count, Indexed, TypeOK
<1>4. Contents' = Contents
  BY <1>0, <1>1, <1>2, <1>3, SameContents
<1>5. cnt = 0 => Contents = << >>
  BY <1>3, EmptySeq DEF View
<1> QED
  BY <1>4, <1>5 DEF GetCount

\* Every step is a step of PostQueue or changes nothing of it.
LEMMA QueueStep ==
  ASSUME TypeOK, QueueInv, ObjectsOK, View, View', [Next]_vars
  PROVE  [Posted!Next]_<< Contents, handled >>
<1> USE DEF Posted!Next, Posted!Post, Posted!HandOver, Posted!Drained
<1>1. ASSUME NEW i \in Isr, PutIndex(i) PROVE Posted!Next
  <2>1. UNCHANGED handled
    BY <1>1 DEF PutIndex
  <2> QED
    BY <1>1, <2>1, PutIndexPosts
<1>2. ASSUME NEW i \in Isr,
             (\E o \in Object : Interrupt(i, o)) \/ PutCount(i) \/ PutStore(i) \/ Request(i)
      PROVE  UNCHANGED << Contents, handled >>
  BY <1>2, HandlerSame
<1>3. CASE GetCount
  BY <1>3, GetCountSame
<1>4. CASE GetIndex
  BY <1>4, GetIndexSame
<1>5. CASE GetRead
  BY <1>5, GetReadHandsOver
<1>6. CASE PendSVEntry \/ Service \/ UNCHANGED vars
  <2>1. /\ UNCHANGED << cnt, out, isr, data, handled >>
        /\ pendsv'.n = pendsv.n
        /\ pendsv'.pc = pendsv.pc \/ (pendsv.pc = "idle" /\ pendsv'.pc = "get")
    BY <1>6 DEF PendSVEntry, Service, Block, BlockClear, BlockNote, Unblock,
                UnblockClear, UnblockPend, queueVars, vars, TypeOK
  <2>2. Entries' = Entries /\ Counted' = Counted
    BY <2>1 DEF Entries, Entry, Storing, Counted
  <2>3. Count' = Count
    BY <2>1, <2>2 DEF Count, Indexed
  <2> QED
    BY <2>1, <2>2, <2>3, SameContents
<1> QED
  BY <1>1, <1>2, <1>3, <1>4, <1>5, <1>6 DEF Next, Put, PendSV

\* The empty queue is the initial state of PostQueue.
LEMMA QueueStart == Init => Posted!Init
<1> SUFFICES ASSUME Init PROVE Contents = << >> /\ handled = Nothing
  BY DEF Posted!Init
<1>1. TypeOK /\ QueueInv
  BY TypeOKInit, QueueInvInit
<1>2. NoInterrupt
  BY DEF Init, NoInterrupt, Active
<1>3. Count = 0
  BY <1>2, CountsQuiet DEF Init, Count, Indexed
<1> QED
  BY <1>1, <1>3, ViewOK, EmptySeq DEF Init, View

\* While handlers leave room for the entry that PendSV takes out, the ISR queue
\* is a FIFO queue: for every size, number of nested interrupts and interleaving
\* of their atomic accesses with those of PendSV, objects are handed over once
\* and in the order their handlers took an index.
THEOREM QueueImplementsPost ==
  ASSUME Sized PROVE Spec => Delivered
<1>1. Init => QueueInv /\ ObjectsOK /\ Posted!Init
  BY QueueInvInit, QueueStart DEF Init, ObjectsOK
<1>2. TypeOK /\ QueueInv /\ [Next]_vars => QueueInv'
  BY QueueInvNext
<1>3. TypeOK /\ QueueInv /\ ObjectsOK /\ View /\ View' /\ [Next]_vars
        => [Posted!Next]_<< Contents, handled >>
  BY QueueStep
<1> QED
  BY <1>1, <1>2, <1>3, TypeCorrect, ObjectsOKNext, ViewOK, PTL
  DEF Spec, Delivered, Posted!Spec

\* No handler that still has to store its object holds the slot PendSV reads.
THEOREM NothingOverwritten ==
  ASSUME Sized PROVE Spec => []NoOverwrite
<1>1. TypeOK /\ QueueInv => NoOverwrite
  <2> SUFFICES ASSUME TypeOK, QueueInv, NEW i \in Storing, Taking
               PROVE  isr[i].n # (IF pendsv.pc = "taken" THEN out ELSE pendsv.n)
    BY DEF NoOverwrite
  <2>1. /\ cnt \in Nat /\ cnt < Size /\ out \in 0..Size-1 /\ Size \in Nat
        /\ Cardinality(Counted) \in Nat
    BY CountsFinite DEF TypeOK, Slot, QueueInv
  <2>2. PICK j \in 1..Indexed :
          isr[i].n = Wrap(out + j - 1) /\ (pendsv.pc = "taken" => j # 1)
    BY DEF QueueInv
  <2>3. CASE pendsv.pc = "taken"
    BY <2>1, <2>2, <2>3 DEF Indexed, Wrap
  <2>4. CASE pendsv.pc = "indexed"
    BY <2>1, <2>2, <2>4 DEF Indexed, Wrap, QueueInv
  <2> QED
    BY <2>3, <2>4 DEF Taking
<1>2. TypeOK /\ QueueInv /\ [Next]_vars => QueueInv'
  BY QueueInvNext
<1> QED
  BY <1>1, <1>2, TypeCorrect, QueueInvInit, PTL DEF Spec
=============================================================================

---------------------------- MODULE RtxMessageQueue ----------------------------
(***************************************************************************)
(* Message queues of RTX5 (rtx_msgqueue.c): messages in order of priority, *)
(* threads that wait to put and to get in one list, and puts and gets from *)
(* interrupts.                                                             *)
(*                                                                         *)
(* An interrupt that puts fills a block and posts it; one that gets marks  *)
(* a block in the queue and posts it.  The post-processing links the one   *)
(* into the queue and takes the other out.                                 *)
(*                                                                         *)
(* Queues share nothing, so one is enough: Queue, the only object.         *)
(* Interrupts are let in where they make a difference: between a failed    *)
(* attempt and the wait, and between the freeing of a block and its use    *)
(* for a waiting message.                                                  *)
(***************************************************************************)
EXTENDS RtxIsr, FiniteSets

CONSTANTS Queue,      \* the message queue
          Block,      \* its memory blocks
          Message,    \* contents of messages
          NoMessage,  \* the contents of a buffer nobody has filled
          Urgent,     \* the messages that are put with the higher priority
          GetsWait,   \* TRUE when threads wait to get
          IsrCalls    \* the services interrupts call: "Put", "Get"

MessageQueueAssumption ==
  /\ Object = {Queue} /\ Mutex = {}
  /\ NoMessage \notin Message
  /\ Urgent \subseteq Message
  /\ GetsWait \in BOOLEAN
  /\ IsrCalls \subseteq {"Put", "Get"}

VARIABLES exists,   \* whether the queue has been created
          free,     \* its free blocks
          list,     \* the blocks from msg_first to msg_last
          count,    \* msg_count
          taken,    \* the blocks whose flags are set: an interrupt got them
          data,     \* the contents of each block
          arg,      \* the message a waiting thread wants to put
          inFlight  \* history: messages accepted and not yet received

mqVars  == << exists, free, list, count, taken, data, arg, inFlight >>
allVars == << k, tick, posted, svc, mqVars >>

MessageQueueInit ==
  /\ Init /\ IsrInit
  /\ exists = FALSE
  /\ free = Block
  /\ list = << >>
  /\ count = 0
  /\ taken = {}
  /\ data = [b \in Block |-> NoMessage]
  /\ arg = [t \in Thread |-> NoMessage]
  /\ inFlight = {}

-----------------------------------------------------------------------------

Prio(m) == IF m \in Urgent THEN 1 ELSE 0

Waiters == k.list[Queue]

\* The first thread in the list waits in state s.
FirstWaits(s) == Waiters # << >> /\ k.state[Head(Waiters)] = s

\* The messages that a program can put next: not under way already.
Fresh == Message \ (inFlight \cup {arg[t] : t \in ToSet(Waiters)})

\* A sequence of blocks with b before the first of lower priority.
InsertMessage(q, b, d) ==
  LET i == SelectInSeq(q, LAMBDA c : Prio(d[c]) < Prio(d[b]))
  IN  InsertAt(q, IF i = 0 THEN Len(q) + 1 ELSE i, b)

\* [mutant] the message goes ahead of those of the same priority
MessageQueuePutAhead(b, m) ==
  /\ data' = [data EXCEPT ![b] = m]
  /\ list' = LET i == SelectInSeq(list, LAMBDA c : Prio(data[c]) <= Prio(m))
             IN  InsertAt(list, IF i = 0 THEN Len(list) + 1 ELSE i, b)
  /\ count' = count + 1

\* MessageQueuePut of block b with contents m
MessageQueuePut(b, m) ==
  /\ data' = [data EXCEPT ![b] = m]
  /\ list' = InsertMessage(list, b, data')
  /\ count' = count + 1

\* The block MessageQueueGet takes when the count is not 0: the first that no
\* interrupt has taken.
FirstMessage == SelectSeq(list, LAMBDA b : b \notin taken)[1]

\* MessageQueueGet, MessageQueueRemove and the freeing of the block
TakeFirst ==
  /\ count # 0
  /\ count' = count - 1
  /\ list'  = RemoveFirst(list, FirstMessage)
  /\ free'  = free \cup {FirstMessage}

-----------------------------------------------------------------------------

\* svcRtxMessageQueueNew; what was posted before a delete has been processed
MessageQueueNew ==
  /\ Service("MessageQueueNew")
  /\ ~exists /\ posted = << >>
  /\ exists' = TRUE
  /\ free' = Block /\ list' = << >> /\ count' = 0 /\ taken' = {}
  /\ inFlight' = {}
  /\ UNCHANGED << k, tick, data, arg >>

\* [mutant] the thread stays in the list
PutToWaiterLinked ==
  /\ Service("Put")
  /\ exists /\ FirstWaits("WaitingMessageGet") /\ Fresh # {}
  /\ Return(ThreadDispatch(ThreadDelayRemove(k, Head(Waiters)), Head(Waiters)))
  /\ UNCHANGED mqVars

\* svcRtxMessageQueuePut with a thread that waits to get: it is given the
\* message, which is never in flight
PutToWaiter ==
  /\ Service("Put")
  /\ exists /\ FirstWaits("WaitingMessageGet") /\ Fresh # {}
  /\ Return(WakeFirstDispatch(k, Queue))
  /\ UNCHANGED mqVars

\* ... with a block
Put(m, b) ==
  /\ Service("Put")
  /\ exists /\ ~FirstWaits("WaitingMessageGet")
  /\ m \in Fresh /\ b \in free
  /\ free' = free \ {b}
  /\ MessageQueuePut(b, m)
  /\ inFlight' = inFlight \cup {m}
  /\ UNCHANGED << k, tick, exists, taken, arg >>

\* ... without one, and with a timeout
PutNone(m, timeout) ==
  /\ exists /\ ~FirstWaits("WaitingMessageGet")
  /\ m \in Fresh /\ free = {}
  /\ Enter("Put", [what |-> "PutWait", msg |-> m, timeout |-> timeout])
  /\ UNCHANGED mqVars

PutWait ==
  /\ At("PutWait")
  /\ Leave(WaitFor(Queue, "WaitingMessagePut", svc.timeout))
  /\ arg' = IF CanWait(k) THEN [arg EXCEPT ![k.run] = svc.msg] ELSE arg
  /\ UNCHANGED << exists, free, list, count, taken, data, inFlight >>

\* [mutant] threads that wait to put are not looked at
GetAlone ==
  /\ Service("Get")
  /\ exists /\ TakeFirst
  /\ inFlight' = inFlight \ {data[FirstMessage]}
  /\ UNCHANGED << k, tick, exists, taken, data, arg >>

\* svcRtxMessageQueueGet with a message; its block is free now
Get ==
  /\ Quiet /\ Call("Get")
  /\ exists /\ TakeFirst
  /\ inFlight' = inFlight \ {data[FirstMessage]}
  /\ svc' = [what |-> "Space", by |-> "Get"]
  /\ UNCHANGED << k, tick, posted, exists, taken, data, arg >>

\* What follows in svcRtxMessageQueueGet (dispatch TRUE), in the loop of
\* svcRtxMessageQueueReset and in osRtxMessageQueuePostProcess: a thread of the
\* list is woken up and its message put, if an interrupt has not taken the
\* block.  The thread is taken for one that waits to put.
Space(woken, b) ==
  /\ b \in free
  /\ free' = free \ {b}
  /\ k' = woken
  /\ MessageQueuePut(b, arg[Head(Waiters)])
  /\ inFlight' = inFlight \cup {arg[Head(Waiters)]}
  /\ UNCHANGED << exists, taken, arg >>

NoSpace == Waiters = << >> \/ free = {}

\* The end of svcRtxMessageQueueGet
GetEnd ==
  /\ At("Space") /\ svc.by = "Get"
  /\ svc' = Chained(k)
  /\ UNCHANGED << tick, posted >>
  /\ IF NoSpace THEN UNCHANGED << k, mqVars >>
     ELSE \E b \in free :
            Space(ContextSwitch(WakeFirstDispatch(k, Queue)), b)

\* ... without a message, and with a timeout
GetNone(timeout) ==
  /\ GetsWait
  /\ exists /\ count = 0
  /\ Enter("Get", [what |-> "GetWait", timeout |-> timeout])
  /\ UNCHANGED mqVars

GetWait ==
  /\ At("GetWait")
  /\ Leave(WaitFor(Queue, "WaitingMessageGet", svc.timeout))
  /\ arg' = IF CanWait(k) THEN [arg EXCEPT ![k.run] = NoMessage] ELSE arg
  /\ UNCHANGED << exists, free, list, count, taken, data, inFlight >>

\* svcRtxMessageQueueReset drops the messages one by one
Reset ==
  /\ exists
  /\ Enter("Reset", [what |-> "Reset"])
  /\ UNCHANGED mqVars

ResetDrop ==
  /\ At("Reset") /\ TakeFirst
  /\ inFlight' = inFlight \ {data[FirstMessage]}
  /\ UNCHANGED << k, tick, posted, svc, exists, taken, data, arg >>

\* [mutant] one waiting message is put, where there may be room for more
ResetEmptyOnce ==
  /\ At("Reset") /\ count = 0
  /\ svc' = [what |-> "Space", by |-> "Get"]
  /\ UNCHANGED << k, tick, posted, mqVars >>

\* ... and looks whether threads wait to put
ResetEmpty ==
  /\ At("Reset") /\ count = 0
  /\ svc' = IF FirstWaits("WaitingMessagePut")
            THEN [what |-> "Space", by |-> "Reset"] ELSE Chained(k)
  /\ UNCHANGED << k, tick, posted, mqVars >>

\* ... whose messages it puts while there is room
ResetPut ==
  /\ At("Space") /\ svc.by = "Reset"
  /\ UNCHANGED << tick, posted >>
  /\ IF NoSpace
     THEN /\ svc' = Chained(k)
          /\ k' = ContextSwitch(ThreadDispatchReady(k))
          /\ UNCHANGED mqVars
     ELSE (\E b \in free : Space(WakeFirst(k, Queue), b)) /\ UNCHANGED svc

\* svcRtxMessageQueueDelete
MessageQueueDelete ==
  /\ Service("MessageQueueDelete")
  /\ exists
  /\ Return(WakeAll(k, Queue))
  /\ exists' = FALSE
  /\ UNCHANGED << free, list, count, taken, data, arg, inFlight >>

-----------------------------------------------------------------------------
(* Calls from interrupts, and their post-processing. *)

\* isrRtxMessageQueuePut
IsrPut(m, b) ==
  /\ "Put" \in IsrCalls
  /\ Interrupt
  /\ exists /\ m \in Fresh /\ b \in free
  /\ free' = free \ {b}
  /\ data' = [data EXCEPT ![b] = m]
  /\ PostProcess(b)
  /\ inFlight' = inFlight \cup {m}
  /\ UNCHANGED << exists, list, count, taken, arg >>

\* [mutant] the count is left to the post-processing
IsrGetUncounted ==
  /\ "Get" \in IsrCalls
  /\ Interrupt
  /\ exists /\ count # 0 /\ ToSet(list) \ taken # {}
  /\ taken' = taken \cup {FirstMessage}
  /\ PostProcess(FirstMessage)
  /\ inFlight' = inFlight \ {data[FirstMessage]}
  /\ UNCHANGED << exists, free, list, count, data, arg >>

\* isrRtxMessageQueueGet
IsrGet ==
  /\ "Get" \in IsrCalls
  /\ Interrupt
  /\ exists /\ count # 0
  /\ count' = count - 1
  /\ taken' = taken \cup {FirstMessage}
  /\ PostProcess(FirstMessage)
  /\ inFlight' = inFlight \ {data[FirstMessage]}
  /\ UNCHANGED << exists, free, list, data, arg >>

\* [mutant] the message is given to the waiter and put as well
PostProcessPutTwice(b) ==
  /\ exists /\ b \notin taken
  /\ PendSVStep(b, IF FirstWaits("WaitingMessageGet") THEN WakeFirst(k, Queue) ELSE k)
  /\ MessageQueuePut(b, data[b])
  /\ inFlight' = IF FirstWaits("WaitingMessageGet")
                 THEN inFlight \ {data[b]} ELSE inFlight
  /\ UNCHANGED << exists, free, taken, arg >>

\* [mutant] the block of a message that is given to a waiter is not freed
PostProcessPutLeak(b) ==
  /\ exists /\ b \notin taken
  /\ IF FirstWaits("WaitingMessageGet")
     THEN /\ PendSVStep(b, WakeFirst(k, Queue))
          /\ inFlight' = inFlight \ {data[b]}
          /\ UNCHANGED << list, count, data >>
     ELSE /\ PendSVStep(b, k)
          /\ MessageQueuePut(b, data[b])
          /\ UNCHANGED inFlight
  /\ UNCHANGED << exists, free, taken, arg >>

\* osRtxMessageQueuePostProcess of a message an interrupt has put
PostProcessPut(b) ==
  /\ exists /\ b \notin taken
  /\ IF FirstWaits("WaitingMessageGet")
     THEN /\ PendSVStep(b, WakeFirst(k, Queue))
          /\ free' = free \cup {b}
          /\ inFlight' = inFlight \ {data[b]}
          /\ UNCHANGED << list, count, data >>
     ELSE /\ PendSVStep(b, k)
          /\ MessageQueuePut(b, data[b])
          /\ UNCHANGED << free, inFlight >>
  /\ UNCHANGED << exists, taken, arg >>

\* [mutant] the first message is taken out
PostProcessGetFirst(b) ==
  /\ exists /\ b \in taken
  /\ At("PendSV") /\ posted # << >> /\ Head(posted) = b
  /\ posted' = Tail(posted)
  /\ list' = Tail(list)
  /\ taken' = taken \ {Head(list)}
  /\ free' = free \cup {Head(list)}
  /\ svc' = [what |-> "Space", by |-> "PendSV"]
  /\ UNCHANGED << k, tick, exists, count, data, arg, inFlight >>

\* ... of a message an interrupt has got
PostProcessGet(b) ==
  /\ exists /\ b \in taken
  /\ At("PendSV") /\ posted # << >> /\ Head(posted) = b
  /\ posted' = Tail(posted)
  /\ list' = RemoveFirst(list, b)
  /\ taken' = taken \ {b}
  /\ free' = free \cup {b}
  /\ svc' = [what |-> "Space", by |-> "PendSV"]
  /\ UNCHANGED << k, tick, exists, count, data, arg, inFlight >>

\* [mutant] the thread stays in the list
PostProcessSpaceLinked ==
  /\ At("Space") /\ svc.by = "PendSV"
  /\ svc' = [what |-> "PendSV"]
  /\ UNCHANGED << tick, posted >>
  /\ IF NoSpace THEN UNCHANGED << k, mqVars >>
     ELSE \E b \in free :
            Space(ThreadWaitExit(k, Head(Waiters)), b)

\* ... and then of a thread that waits to put
PostProcessSpace ==
  /\ At("Space") /\ svc.by = "PendSV"
  /\ svc' = [what |-> "PendSV"]
  /\ UNCHANGED << tick, posted >>
  /\ IF NoSpace THEN UNCHANGED << k, mqVars >>
     ELSE \E b \in free : Space(WakeFirst(k, Queue), b)

\* The queue has been deleted: what is done to its memory is not seen again.
PostProcessGone(b) ==
  /\ ~exists
  /\ PendSVStep(b, k)
  /\ UNCHANGED mqVars

-----------------------------------------------------------------------------

Services ==
  \/ MessageQueueNew
  \/ PutToWaiter
  \/ \E m \in Message, b \in Block : Put(m, b)
  \/ \E m \in Message, timeout \in Delays \cup {Forever} : PutNone(m, timeout)
  \/ Get
  \/ \E timeout \in Delays \cup {Forever} : GetNone(timeout)
  \/ Reset
  \/ MessageQueueDelete

Interrupts == IsrGet \/ \E m \in Message, b \in Block : IsrPut(m, b)

\* What is left of a service that has started.
Rest == PutWait \/ GetEnd \/ GetWait \/ ResetDrop \/ ResetEmpty \/ ResetPut

PendSV ==
  \/ PendSVEntry /\ UNCHANGED mqVars
  \/ \E b \in Block : PostProcessPut(b) \/ PostProcessGet(b) \/ PostProcessGone(b)
  \/ PostProcessSpace
  \/ PendSVExit /\ UNCHANGED mqVars

MessageQueueNext ==
  \/ ThreadStep /\ UNCHANGED mqVars
  \/ Services
  \/ Rest
  \/ Interrupts
  \/ PendSV

MessageQueueSpec == MessageQueueInit /\ [][MessageQueueNext]_allVars

-----------------------------------------------------------------------------
(* Properties. *)

\* The blocks that hold a message nobody has received.
Loaded == (ToSet(list) \cup ToSet(posted)) \ taken

\* Every message that was accepted is in the queue, or posted by an interrupt,
\* exactly once until it is received, whoever puts, waits to put, gets, resets
\* or is woken up in between.
MessagesConserved ==
  exists =>
    /\ {data[b] : b \in Loaded} = inFlight
    /\ \A b, c \in Loaded : data[b] = data[c] => b = c

\* Every block is free, in the queue, or posted to go there, and the count is
\* that of the messages which can be got.
BlocksConserved ==
  exists =>
    /\ free \cup ToSet(list) \cup ToSet(posted) = Block
    /\ free \cap (ToSet(list) \cup ToSet(posted)) = {}
    /\ taken \subseteq ToSet(list) \cap ToSet(posted)
    /\ NoDuplicates(list) /\ NoDuplicates(posted)
    /\ count = Len(list) - Cardinality(taken)

\* The waiting threads are in the list of the queue, once each, and all wait for
\* the same: to put or to get.
MessageQueueLinked ==
  /\ WaitersLinked({"WaitingMessageGet", "WaitingMessagePut"})
  /\ \A t, u \in ToSet(Waiters) : k.state[t] = k.state[u]

\* No lost wake-up: nobody waits to get while there is a message in the queue,
\* and nobody waits to put beside a free block that is not just being given to
\* a waiting thread.
NobodyForgotten ==
  exists =>
    /\ FirstWaits("WaitingMessageGet") => count = 0
    /\ FirstWaits("WaitingMessagePut") =>
         free = {} \/ At("Space") \/ At("Reset")

\* Messages are received in order: a message that a thread or an interrupt gets
\* was put before every other of its priority, and none of higher priority is
\* there.  (Positions in the queue are positions in time: a message goes in
\* behind those of its priority.)
QueuedInOrder ==
  \A b \in Block : b \in ToSet(list') \ ToSet(list) =>
    \A i, j \in 1..Len(list') :
      list'[i] = b => (j < i <=> Prio(data'[list'[j]]) >= Prio(data'[b]) /\ j # i)

\* The post-processing of a message that was got wakes a thread only if it waits
\* to put.
PutterWoken ==
  [][\A t \in Thread :
       At("Space") /\ t \in ToSet(Waiters) /\ k'.state[t] \in {"Ready", "Running"}
         => k.state[t] = "WaitingMessagePut"]_allVars
=============================================================================

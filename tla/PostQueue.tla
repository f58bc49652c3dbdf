------------------------------ MODULE PostQueue ------------------------------
(***************************************************************************)
(* What an interrupt handler is promised by osRtxPostProcess: an object it *)
(* has posted is handed to the PendSV handler once, in the order of        *)
(* posting, and the handler stops only when nothing is left.               *)
(***************************************************************************)
EXTENDS Sequences

CONSTANTS Object,  \* the objects that interrupt handlers post
          Nothing  \* not an object: what the handler gets from an empty queue

VARIABLES queue,   \* posted and not yet handed over
          handled  \* what was handed over last

Init == queue = << >> /\ handled = Nothing

Post(o) ==
  /\ queue' = Append(queue, o)
  /\ UNCHANGED handled

HandOver ==
  /\ queue # << >>
  /\ handled' = Head(queue)
  /\ queue' = Tail(queue)

Drained ==
  /\ queue = << >>
  /\ handled' = Nothing
  /\ UNCHANGED queue

Next == (\E o \in Object : Post(o)) \/ HandOver \/ Drained

Spec == Init /\ [][Next]_<< queue, handled >>
=============================================================================

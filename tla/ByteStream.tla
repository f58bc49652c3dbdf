------------------------------ MODULE ByteStream ------------------------------
(***************************************************************************)
(* What a ring buffer of the debug channel promises: a stream of bytes     *)
(* that takes a message as a whole or not at all, holds a limited number   *)
(* of bytes, and gives them out in order, any number at a time.            *)
(***************************************************************************)
EXTENDS Integers, Sequences

CONSTANTS Message,  \* the messages that are put: sequences of bytes
          Capacity  \* how many bytes the stream holds, a natural number

VARIABLES stream,  \* the bytes that have been put and not been got
          got      \* the bytes that were got last

streamVars == << stream, got >>

StreamInit == stream = << >> /\ got = << >>

Put(m) ==
  /\ Len(stream) + Len(m) <= Capacity
  /\ stream' = stream \o m
  /\ UNCHANGED got

Get(n) ==
  /\ n <= Len(stream)
  /\ got' = SubSeq(stream, 1, n)
  /\ stream' = SubSeq(stream, n + 1, Len(stream))

StreamNext == (\E m \in Message : Put(m)) \/ (\E n \in 1..Capacity : Get(n))

StreamSpec == StreamInit /\ [][StreamNext]_streamVars
=============================================================================

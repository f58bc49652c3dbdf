------------------------------- MODULE RttRing -------------------------------
(***************************************************************************)
(* The offsets of a ring buffer of the debug channel (rtt.c).              *)
(***************************************************************************)
EXTENDS Integers, Sequences

CONSTANTS Size,  \* SizeOfBuffer
          Byte   \* the bytes

Offset == 0..Size-1

\* The offset i bytes behind the offset o.
Behind(o, i) == IF o + i < Size THEN o + i ELSE o + i - Size
=============================================================================

------------------------------ MODULE FileData ------------------------------
(***************************************************************************)
(* What a file promises: a sequence of bytes that is read and written      *)
(* through a handle, and what of it is on storage.  Storage changes at one *)
(* moment, when the file is synchronized or closed, and then holds all     *)
(* that was written; until then it keeps what it had.                      *)
(***************************************************************************)
EXTENDS Integers, Sequences

CONSTANT Appending   \* the handle was opened with LFS_O_APPEND
VARIABLES saved,  \* the bytes on storage
          open,
          data,   \* the bytes of the handle
          pos,
          asked,  \* how many bytes the last call was to read
          got,    \* the bytes that it has read
          ok      \* no call for this handle has failed

vars == << saved, open, data, pos, asked, got, ok >>
None == asked = 0 /\ got = << >>

Longest(m, n) == IF m > n THEN m ELSE n
Filled(d, n) == [i \in 1..n |-> IF i <= Len(d) THEN d[i] ELSE 0]
Overwritten(d, p, v) ==
  [i \in 1..Longest(Len(d), p + Len(v)) |->
     IF i > p /\ i <= p + Len(v) THEN v[i - p] ELSE IF i <= Len(d) THEN d[i] ELSE 0]

Closed == ~open /\ data = << >> /\ pos = 0 /\ None /\ ok = TRUE

Init == Closed

Open ==
  /\ ~open /\ open' /\ data' \in {saved, << >>} /\ pos' = 0
  /\ UNCHANGED << saved, asked, got, ok >>

Write ==
  /\ None' /\ UNCHANGED << saved, open, ok >>
  /\ pos' <= Len(data')
  /\ \E n \in 1..pos' :
       LET p == pos' - n
           v == SubSeq(data', p + 1, pos')
       IN  /\ p = IF Appending THEN Longest(pos, Len(data)) ELSE pos
           /\ data' = Overwritten(data, p, v)

Read ==
  /\ pos' = Longest(pos, IF pos + asked' < Len(data) THEN pos + asked' ELSE Len(data))
  /\ got' = SubSeq(data, pos + 1, pos')
  /\ UNCHANGED << saved, open, data, ok >>

Seek == pos' >= 0 /\ None' /\ UNCHANGED << saved, open, data, ok >>

Truncate ==
  /\ data' = Filled(data, Len(data')) /\ None'
  /\ UNCHANGED << saved, open, pos, ok >>

Sync == saved' = data /\ None' /\ UNCHANGED << open, data, pos, ok >>

Close == saved' = data /\ Closed'

Fail == ~ok' /\ UNCHANGED << saved, open >>

\* After a failure there is no promise but that storage only changes to what the
\* handle has.
AfterFailure == ~ok /\ ~ok' /\ saved' \in {saved, data, data'} /\ UNCHANGED open

Lost == saved' = saved /\ Closed'

Next ==
  \/ Open
  \/ open /\ ok /\ (Write \/ Read \/ Seek \/ Truncate \/ Sync \/ Close \/ Fail)
  \/ open /\ (AfterFailure \/ (~ok /\ Close))
  \/ Lost

Spec == Init /\ [][Next]_vars
=============================================================================

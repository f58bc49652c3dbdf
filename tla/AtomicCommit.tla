---------------------------- MODULE AtomicCommit ---------------------------
(***************************************************************************)
(* What littlefs promises of a metadata pair: it holds one value; a commit *)
(* replaces it at one moment, between its call and its return, unless it   *)
(* fails, and a loss of power leaves either the old value or the new one.  *)
(***************************************************************************)
CONSTANTS Values, Idle
VARIABLES value,    \* what a mount would find
          next,     \* what is being committed, or Idle
          done      \* the commit is to return no error

vars == << value, next, done >>

Init == value \in Values /\ next = Idle /\ done = FALSE

Begin(v) == /\ next = Idle /\ next' = v
            /\ UNCHANGED << value, done >>

Take == /\ next # Idle /\ ~done /\ value' = next
        /\ done' \in BOOLEAN
        /\ UNCHANGED next

Settle == /\ next # Idle /\ value = next /\ done' = TRUE
          /\ UNCHANGED << value, next >>

Return == /\ next # Idle /\ done = (value = next)
          /\ next' = Idle /\ done' = FALSE
          /\ UNCHANGED value

PowerLoss == next' = Idle /\ done' = FALSE /\ UNCHANGED value

Next == \/ \E v \in Values : Begin(v)
        \/ Take \/ Settle \/ Return \/ PowerLoss

Spec == Init /\ [][Next]_vars
=============================================================================

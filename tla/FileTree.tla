------------------------------ MODULE FileTree -----------------------------
(***************************************************************************)
(* What a file system promises of its tree of names: making a directory,   *)
(* removing an entry and renaming one are atomic.  The tree changes at one *)
(* moment between the call and its return, and a loss of power, or an      *)
(* error, leaves either the old tree or the new one.                       *)
(*                                                                         *)
(* A tree is a set of paths, each with the file found there, or with 0 for *)
(* a directory.  Paths are sequences of names.                             *)
(***************************************************************************)
EXTENDS Naturals, Sequences, SequencesExt

CONSTANT Names
VARIABLES tree,
          next   \* the tree that the call in progress is to make

Directory == 0
Has(t, p) == \E e \in t : e[1] = p
FileAt(t, p) == (CHOOSE e \in t : e[1] = p)[2]
IsDir(t, p) == << p, Directory >> \in t
Under(t, p) == {e \in t : IsPrefix(p, e[1])}
Empty(t, p) == Under(t, p) = {<< p, Directory >>}
Moved(t, p, q) == {<< q \o SubSeq(e[1], Len(p) + 1, Len(e[1])), e[2] >> : e \in Under(t, p)}
Places(t) == {Append(e[1], n) : e \in {e \in t : e[2] = Directory}, n \in Names}

MayMake(t, p) == p \in Places(t) /\ ~Has(t, p)
Made(t, p) == t \cup {<< p, Directory >>}

MayRemove(t, p) == Has(t, p) /\ p # << >> /\ (IsDir(t, p) => Empty(t, p))
Removed(t, p) == t \ Under(t, p)

\* A directory is not moved into itself.
MayRename(t, p, q) ==
  /\ Has(t, p) /\ p # << >> /\ q \in Places(t) /\ ~IsPrefix(p, q)
  /\ Has(t, q) => /\ IsDir(t, p) = IsDir(t, q)
                  /\ IsDir(t, q) => Empty(t, q)
                  /\ ~IsPrefix(q, p)
Renamed(t, p, q) == (t \ (Under(t, p) \cup Under(t, q))) \cup Moved(t, p, q)

\* There is no call in progress: the last one has succeeded, or it has returned
\* an error or lost the power.
Failed == {<< << >>, 1 >>}
Idle == next \in {{}, Failed}

Init == next = {}

Begin ==
  /\ Idle /\ next' # {} /\ UNCHANGED tree
  /\ LET t == tree
     IN  \/ \E e \in next' \ t : MayMake(t, e[1]) /\ next' = Made(t, e[1])
         \/ \E e \in t \ next' : MayRemove(t, e[1]) /\ next' = Removed(t, e[1])
         \/ \E e \in t \ next', f \in next' :
              MayRename(t, e[1], f[1]) /\ next' = Renamed(t, e[1], f[1])

Take    == ~Idle /\ tree' = next /\ UNCHANGED next
Succeed == ~Idle /\ tree = next /\ next' = {} /\ UNCHANGED tree
Fail    == next' = Failed /\ UNCHANGED tree

Next == Begin \/ Take \/ Succeed \/ Fail

Spec == Init /\ [][Next]_<< tree, next >>
=============================================================================

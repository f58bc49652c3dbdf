------------------------------ MODULE MCRtxMutex ------------------------------
(***************************************************************************)
(* Instances of RtxMutex for TLC: one of a few settings is chosen at the   *)
(* start of a behaviour and stays, as in MCRtxThread.                      *)
(***************************************************************************)
EXTENDS RtxMutex, TLC

CONSTANT Settings

VARIABLE setting

\* inherit: recursive locks and timed waits.  priority: priorities change.
\* life: mutexes are deleted and threads end.  orphan: threads end and are
\* created again while others wait for a mutex that is not robust.
Bounds ==
  [inherit  |-> [calls |-> {"MutexNew", "Acquire", "Release", "Delay"},
                 priorities |-> {1, 2, 3}, delays |-> {1},
                 robust |-> {}, recursive |-> Mutex],
   priority |-> [calls |-> {"MutexNew", "Acquire", "Release", "SetPriority"},
                 priorities |-> {1, 2, 3}, delays |-> {},
                 robust |-> {}, recursive |-> {}],
   life     |-> [calls |-> {"MutexNew", "MutexDelete", "Acquire", "Release",
                            "Terminate", "Resume"},
                 priorities |-> {1, 2}, delays |-> {},
                 robust |-> Mutex, recursive |-> {}],
   orphan   |-> [calls |-> {"MutexNew", "Acquire", "New", "Exit"},
                 priorities |-> {1, 2}, delays |-> {1},
                 robust |-> {}, recursive |-> {}]]

MutexesOf(s) == INSTANCE RtxMutex WITH
  Calls <- Bounds[s].calls, Priority <- Bounds[s].priorities,
  Delays <- Bounds[s].delays, Robust <- Bounds[s].robust,
  Recursive <- Bounds[s].recursive

MCInit == setting \in Settings /\ Init

MCNext == \E s \in Settings : setting = s /\ MutexesOf(s)!MutexNext /\ UNCHANGED setting

MCSpec == MCInit /\ [][MCNext]_<< k, tick, setting >>

-----------------------------------------------------------------------------

\* An owner runs exactly as high as its waiters call for (osRtxMutexOwnerRestore),
\* while nobody sets its priority and nobody but the tick ends a wait:
\* osThreadSetPriority overrides the boost, and a wait that is resumed or
\* terminated leaves it as it is (for how long, says BoostEnds).
BoostRight == setting = "inherit" => InheritHolds /\ BoostExact

\* The threads other than the idle thread, and the mutexes, are interchangeable.
Symmetry == Permutations(Thread \ {Idle}) \cup Permutations(Mutex)
=============================================================================

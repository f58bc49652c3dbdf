------------------------------ MODULE MCRtxThread ------------------------------
(***************************************************************************)
(* Instances of RtxThread for TLC.  A behaviour is one of a few settings:  *)
(* the services the programs of a system call, with the bounds that these  *)
(* services need.  A setting is chosen at the start and stays.             *)
(*                                                                         *)
(* The properties are stated with the constants of the configuration: for  *)
(* DelaysRight they are those of the setting delay, the only one in which  *)
(* threads wait with a timeout.                                            *)
(***************************************************************************)
EXTENDS RtxThread, TLC

CONSTANT Settings  \* the settings of this run

VARIABLE setting

\* life: threads come and go.  sched: priorities, yielding, locking, time slices.
\* delay: timeouts, also across a sleep.  resumed: joining threads are resumed.
Bounds ==
  [life    |-> [calls |-> {"New", "Join", "Detach", "Exit", "Terminate",
                           "Suspend", "Resume", "Lock"},
                priorities |-> {1, 2}, robin |-> 0, delays |-> {}, sleeps |-> {},
                ticks |-> 1, joinersAlone |-> TRUE],
   sched   |-> [calls |-> {"SetPriority", "Yield", "Lock", "RestoreLock"},
                priorities |-> {1, 2, 3}, robin |-> 1, delays |-> {}, sleeps |-> {},
                ticks |-> 2, joinersAlone |-> TRUE],
   delay   |-> [calls |-> {"Delay", "DelayUntil", "KernelSuspend", "Resume",
                           "Terminate"},
                priorities |-> {1, 2}, robin |-> 1, delays |-> {1, 3}, sleeps |-> {0, 2},
                ticks |-> 6, joinersAlone |-> TRUE],
   resumed |-> [calls |-> {"Join", "Exit", "Resume"},
                priorities |-> {1, 2}, robin |-> 0, delays |-> {}, sleeps |-> {},
                ticks |-> 1, joinersAlone |-> FALSE]]

ThreadsOf(s) == INSTANCE RtxThread WITH
  Calls <- Bounds[s].calls, Priority <- Bounds[s].priorities,
  RobinTimeout <- Bounds[s].robin, Delays <- Bounds[s].delays,
  Sleeps <- Bounds[s].sleeps, TickMod <- Bounds[s].ticks,
  JoinersLeftAlone <- Bounds[s].joinersAlone

MCInit == setting \in Settings /\ Init

MCNext == \E s \in Settings : setting = s /\ ThreadsOf(s)!Next /\ UNCHANGED setting

MCSpec == MCInit /\ [][MCNext]_<< k, tick, setting >>

\* The threads other than the idle thread are interchangeable.
Symmetry == Permutations(Thread \ {Idle})
=============================================================================

------------------------------ MODULE MCRtxTimer ------------------------------
(***************************************************************************)
(* Instances of RtxTimer for TLC.  A behaviour is one of a few settings,   *)
(* chosen at the start, as in MCRtxThread.                                 *)
(***************************************************************************)
EXTENDS RtxTimer, TLC

CONSTANTS a, b, dt, x, y,  \* model values
          Settings        \* the settings of this run

VARIABLE setting

\* timers: two timers, also across sleeps.  sleep: timers and timeouts of threads
\* share the tick and bound the sleep.
Bounds ==
  [timers |-> [calls |-> {"TimerNew", "TimerStart", "TimerStop", "TimerDelete",
                          "KernelSuspend"},
               threads |-> {dt, a}, timers |-> {x, y}, loads |-> {1, 3},
               delays |-> {}, sleeps |-> {1, 3}, ticks |-> 1],
   sleep  |-> [calls |-> {"TimerNew", "TimerStart", "KernelSuspend", "Delay", "Yield"},
               threads |-> {dt, a, b}, timers |-> {x}, loads |-> {1, 2},
               delays |-> {1, 3}, sleeps |-> {1, 4}, ticks |-> 5]]

TimersOf(s) == INSTANCE RtxTimer WITH
  Thread <- Bounds[s].threads \cup {Idle}, Calls <- Bounds[s].calls,
  Timer <- Bounds[s].timers, Loads <- Bounds[s].loads, Delays <- Bounds[s].delays,
  Sleeps <- Bounds[s].sleeps, TickMod <- Bounds[s].ticks

ASSUME SettingsAssumption == \A s \in Settings : TimersOf(s)!TimerAssumption

MCVars == << setting, allVars >>

MCInit == \E s \in Settings : setting = s /\ TimersOf(s)!TimerInit

MCNext == \E s \in Settings : setting = s /\ TimersOf(s)!TimerNext /\ UNCHANGED setting

MCSpec == MCInit /\ [][MCNext]_MCVars

-----------------------------------------------------------------------------

\* The delta list holds the running timers, each once, and none that is due stays
\* in it between two handlers; they keep what Timers promises, through ticks and
\* sleeps, in whatever order they are started, stopped, restarted and deleted
\* (rtx_timer.c); and the timeouts of threads stay exact beside them, also when the
\* smaller of both bounds a sleep (GetKernelSleepTime, svcRtxKernelResume).
AllAccurate ==
  /\ \A s \in Settings :
       setting = s => TimersOf(s)!Promise!TimersInit /\ TimersOf(s)!TimersLinked
  /\ [][\A s \in Settings :
          setting = s =>
            /\ [TimersOf(s)!Promise!TimersNext]_(TimersOf(s)!Promise!timersVars)
            /\ TimersOf(s)!TimersLinked'
            /\ s = "sleep" => TimersOf(s)!DelayRunning]_MCVars

\* The timers are interchangeable.
Symmetry == Permutations({x, y})
=============================================================================

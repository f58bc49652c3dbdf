-------------------------------- MODULE Timers --------------------------------
(***************************************************************************)
(* What the timers of RTX5 promise: a timer that is started expires after  *)
(* the ticks it was started with, a periodic one again and again in the    *)
(* same distance, and its callback is called once for each time it has     *)
(* expired.  The callbacks that are owed are called later, also when the   *)
(* timer has been stopped, restarted or deleted meanwhile.                 *)
(***************************************************************************)
EXTENDS Integers

CONSTANTS Timer,  \* the timers
          Loads,  \* the ticks they are started with
          Passes  \* the numbers of ticks that may pass at once

VARIABLES periodic,  \* [Timer -> BOOLEAN]
          load,      \* the ticks of the last start
          wait,      \* the ticks until it expires, 0 when it does not run
          owed       \* the number of callbacks that have not been called

timersVars == << periodic, load, wait, owed >>

TimersInit ==
  /\ periodic = [t \in Timer |-> FALSE]
  /\ load = [t \in Timer |-> 0]
  /\ wait = [t \in Timer |-> 0]
  /\ owed = [t \in Timer |-> 0]

\* t is created, or deleted.
Renew(t) ==
  /\ \E p \in BOOLEAN : periodic' = [periodic EXCEPT ![t] = p]
  /\ load' = [load EXCEPT ![t] = 0]
  /\ wait' = [wait EXCEPT ![t] = 0]
  /\ UNCHANGED owed

Start(t) ==
  /\ \E ticks \in Loads : /\ load' = [load EXCEPT ![t] = ticks]
                          /\ wait' = [wait EXCEPT ![t] = ticks]
  /\ UNCHANGED << periodic, owed >>

Stop(t) ==
  /\ wait' = [wait EXCEPT ![t] = 0]
  /\ UNCHANGED << periodic, load, owed >>

\* How often t expires in the next n ticks.
Expiries(t, n) ==
  IF wait[t] = 0 \/ n < wait[t] THEN 0
  ELSE IF periodic[t] THEN 1 + (n - wait[t]) \div load[t] ELSE 1

\* n ticks pass for all timers at once.
Pass(n) ==
  /\ wait' = [t \in Timer |->
                IF Expiries(t, n) = 0
                THEN IF wait[t] = 0 THEN 0 ELSE wait[t] - n
                ELSE IF periodic[t]
                     THEN load[t] - ((n - wait[t]) % load[t]) ELSE 0]
  /\ owed' = [t \in Timer |-> owed[t] + Expiries(t, n)]
  /\ UNCHANGED << periodic, load >>

\* The callback of t is called.
CallBack(t) ==
  /\ owed[t] > 0
  /\ owed' = [owed EXCEPT ![t] = @ - 1]
  /\ UNCHANGED << periodic, load, wait >>

TimersNext ==
  \/ \E t \in Timer : Renew(t) \/ Start(t) \/ Stop(t) \/ CallBack(t)
  \/ \E n \in Passes : Pass(n)

TimersSpec == TimersInit /\ [][TimersNext]_timersVars
=============================================================================

---------------------------- MODULE ValkeyClock ----------------------------
(***************************************************************************)
(* The time of the protection state in Valkey.  A Lua script is atomic.    *)
(* Its time is the caller's Date.now(), taken before the script is sent:   *)
(* it may lie behind the clock when the script runs, and behind the time   *)
(* another control slot wrote.  TTLs run on Valkey's own clock from the    *)
(* moment of the script.  clock is the fastest of these clocks.            *)
(***************************************************************************)
EXTENDS Naturals

CONSTANTS
    MaxLag,   \* bound: how late a script may run
    MaxClock  \* bound: the clock of the run

ASSUME ClockAssumption == MaxLag \in Nat /\ MaxClock \in Nat

VARIABLE clock

\* The caller's Date.now() of a script that runs now.
Stamps == {at \in 0 .. clock : clock - at <= MaxLag}

Advance ==
    /\ clock < MaxClock
    /\ clock' = clock + 1
============================================================================

------------------------------- MODULE Clock --------------------------------
(***************************************************************************)
(* The millisecond counter of sblib/src/timer.cpp: 32 bits that start at   *)
(* zero when the processor starts and wrap after 49.7 days.  Wrap is their *)
(* number of values, so that an instance reaches the wrap soon.            *)
(***************************************************************************)
EXTENDS Integers

CONSTANT Wrap

ASSUME ClockAssumption == Wrap \in Nat \ {0, 1} /\ Wrap % 2 = 0

VARIABLE systemTime

Time == 0 .. Wrap - 1
Plus(t, ms) == (t + ms) % Wrap

\* elapsed(ref), of two unsigned numbers.
elapsed(ref) == (systemTime - ref) % Wrap

\* (int) x for an unsigned x.
signed(x) == IF 2 * x < Wrap THEN x ELSE x - Wrap

SysTick_Handler == systemTime' = Plus(systemTime, 1)
=============================================================================

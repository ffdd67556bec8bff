------------------------------- MODULE Delays -------------------------------
(***************************************************************************)
(* delay() and delayMicroseconds() of sblib/src/timer.cpp.  SysTick counts *)
(* Load, .., 1, 0, Load, .. and interrupts once in every round, which is a *)
(* millisecond; its handler counts systemTime, and cannot run while the    *)
(* caller is an interrupt.  Every statement of the caller takes one clock  *)
(* or, where other interrupts come in, several.                            *)
(*                                                                         *)
(* Times are in clocks; the microseconds are those of MIN_ and             *)
(* MAX_DELAY_MICROSECONDS, converted.                                      *)
(***************************************************************************)
EXTENDS Clock

CONSTANTS
    Load,       \* SysTick->LOAD
    MinClocks,  \* MIN_DELAY_MICROSECONDS
    MaxMsec,    \* MAX_DELAY_MILLISECONDS
    Msecs,      \* what delay() is called with
    Waits,      \* what delayMicroseconds() is called with
    MaxSteal    \* bound: clocks that one statement may take

Round == Load + 1

ASSUME DelayAssumption ==
    /\ Load \in Nat \ {0} /\ MaxMsec \in Nat \ {0} /\ MaxSteal \in Nat \ {0}
    /\ MinClocks \in Nat /\ MinClocks < MaxMsec * Round
    /\ Msecs \subseteq Nat
    /\ Waits \subseteq 0 .. MaxMsec * Round    \* fatalError() above
    /\ Wrap > 1 + (MaxSteal \div Round) + 1

VARIABLES
    val,                \* SysTick->VAL
    inside,             \* isInsideInterrupt()
    delayPc,
    msec, lastSystemTime,           \* of delay()
    ticksToWait, lastSystemTickValue,   \* of delayMicroseconds()
    asked, spent        \* the least that the call has to last, and has lasted

micros == <<ticksToWait, lastSystemTickValue>>
callVars == <<inside, asked>>
delayVars == <<val, systemTime, inside, delayPc, msec, lastSystemTime, micros, asked, spent>>

Longest == MaxMsec * Round
Clocks == 1 .. MaxSteal

DelayTypeOK ==
    /\ val \in 0 .. Load /\ systemTime \in Time /\ lastSystemTime \in Time
    /\ inside \in BOOLEAN
    /\ delayPc \in {"idle", "loop", "WFI", "asleep", "chunk", "micros"}
    /\ msec \in Nat /\ lastSystemTickValue \in 0 .. Load
    /\ ticksToWait \in 0 .. Longest
    /\ asked \in Int /\ spent \in Nat

DelayInit ==
    /\ val \in 0 .. Load /\ systemTime = 0 /\ inside = FALSE /\ delayPc = "idle"
    /\ msec = 0 /\ lastSystemTime = 0 /\ ticksToWait = 0 /\ lastSystemTickValue = 0
    /\ asked = 0 /\ spent = 0

\* SysTick rounds that end within d clocks
rounds(d) == (Load - val + d) \div Round

\* d clocks pass.  A handler kept waiting for more than a round counts once.
Pass(d) ==
    /\ val' = (val - d) % Round
    /\ \E n \in 0 .. rounds(d) :
          /\ IF inside THEN n = 0 ELSE rounds(d) > 0 => n > 0
          /\ systemTime' = Plus(systemTime, n)
    /\ spent' = IF spent > asked THEN spent ELSE spent + d

\* Operators named ...Bug are not part of the specification: each is a
\* plausible error in the code.
clocksOf(clocks) == IF clocks > MinClocks THEN clocks - MinClocks ELSE 1

\* The first statements of delayMicroseconds(), called for so many clocks
StartMicros(clocks) ==
    /\ ticksToWait' = clocksOf(clocks)
    /\ lastSystemTickValue' = val

delayMicroseconds(clocks, isr) ==
    /\ delayPc = "idle" /\ delayPc' = "micros"
    /\ StartMicros(clocks) /\ inside' = isr
    /\ asked' = clocks - MinClocks /\ spent' = 0
    /\ UNCHANGED <<val, systemTime, msec, lastSystemTime>>

delay(ms, isr) ==
    /\ delayPc = "idle" /\ delayPc' = IF isr THEN "chunk" ELSE "loop"
    /\ msec' = ms /\ lastSystemTime' = systemTime /\ inside' = isr
    /\ asked' = IF isr THEN ms * Round - ((ms + MaxMsec - 1) \div MaxMsec) * MinClocks
                       ELSE (ms - 1) * Round
    /\ spent' = 0
    /\ UNCHANGED <<val, systemTime, micros>>

\* The loop of delay()
wait ==
    /\ delayPc = "loop" /\ msec > 0
    /\ IF lastSystemTime = systemTime
       THEN delayPc' = "WFI" /\ UNCHANGED <<msec, lastSystemTime>>
       ELSE delayPc' = delayPc /\ lastSystemTime' = systemTime /\ msec' = msec - 1
    /\ \E d \in Clocks : Pass(d)
    /\ UNCHANGED <<callVars, micros>>

\* The tick may come after the test and before the processor sleeps.
sleep ==
    /\ delayPc = "WFI" /\ delayPc' = "asleep"
    /\ \E d \in Clocks : Pass(d)
    /\ UNCHANGED <<callVars, msec, lastSystemTime, micros>>

\* The next tick wakes the processor, or another interrupt before it.
wake ==
    /\ delayPc = "asleep" /\ delayPc' = "loop"
    /\ \E d \in 1 .. val + 1 : Pass(d)
    /\ UNCHANGED <<callVars, msec, lastSystemTime, micros>>

\* In an interrupt: one call for every MAX_DELAY_MILLISECONDS, one for the rest
chunk ==
    /\ delayPc = "chunk" /\ delayPc' = "micros"
    /\ \E ms \in {IF msec > MaxMsec THEN MaxMsec ELSE msec} :
          msec' = msec - ms /\ StartMicros(ms * Round)
    /\ UNCHANGED <<val, systemTime, spent, callVars, lastSystemTime>>

\* Clocks from one value of SysTick->VAL to a later one
elapsedTicksBug(from, to) == IF from < to THEN from - to + Load + 2 ELSE from - to
elapsedTicks(from, to) == IF from < to THEN from - to + Load ELSE from - to

\* The loop of delayMicroseconds()
poll ==
    /\ delayPc = "micros"
    /\ \E d \in Clocks : Pass(d)
    /\ \E left \in {ticksToWait - elapsedTicks(lastSystemTickValue, val')} :
          IF left > 0
          THEN delayPc' = delayPc /\ ticksToWait' = left /\ lastSystemTickValue' = val'
          ELSE /\ delayPc' = IF msec > 0 THEN "chunk" ELSE "idle"
               /\ ticksToWait' = 0 /\ lastSystemTickValue' = 0
    /\ UNCHANGED <<callVars, msec, lastSystemTime>>

return ==
    /\ delayPc = "loop" /\ msec = 0 /\ delayPc' = "idle"
    /\ UNCHANGED <<val, systemTime, callVars, msec, lastSystemTime, micros, spent>>

Calls ==
    \E isr \in BOOLEAN :
        \/ \E ms \in Msecs : delay(ms, isr)
        \/ \E clocks \in Waits : delayMicroseconds(clocks, isr)
Body == wait \/ sleep \/ wake \/ chunk \/ poll \/ return
DelayNext == Calls \/ Body

DelaySpec == DelayInit /\ [][DelayNext]_delayVars

(***************************************************************************)
(* Properties                                                              *)
(***************************************************************************)

\* No call returns early: delay() lasts for as many whole rounds as it was
\* called with, but for the one that had begun, delayMicroseconds() for the
\* clocks it was called with, but for its own MinClocks, at whatever point the
\* counter starts again and wherever interrupts come in.
LastsLongEnough == delayPc = "idle" => spent >= asked

\* Every call returns, from the main program and from an interrupt, although
\* a tick may come between the test and the sleep.
DelayEnds == (delayPc # "idle") ~> (delayPc = "idle")
=============================================================================

------------------------------ MODULE Timeouts ------------------------------
(***************************************************************************)
(* The class Timeout of sblib/inc/sblib/timeout.h: the end of a period as  *)
(* a value of the counter, zero for a timeout that is not running.  left   *)
(* is the time that is really left, below zero when the end has passed.    *)
(***************************************************************************)
EXTENDS Clock

CONSTANTS
    Periods,    \* the periods in milliseconds that the program starts
    MaxLate     \* bound: expired() is called this long after the end at the
                \* latest, less than half of the counter's range

ASSUME TimeoutAssumption ==
    /\ Periods \subseteq 0 .. (Wrap \div 2) - 1
    /\ MaxLate \in 0 .. (Wrap \div 2) - 1

NotRunning == Wrap      \* no number of milliseconds that is left

VARIABLES
    timeout,
    left,       \* milliseconds to the end, NotRunning if none was started
    answer      \* the last result of expired()

timeoutVars == <<systemTime, timeout, left, answer>>

STOPPED == 0
started == timeout # STOPPED

TimeoutTypeOK ==
    /\ systemTime \in Time
    /\ timeout \in Time
    /\ left \in (-MaxLate .. Wrap \div 2) \cup {NotRunning}
    /\ answer \in BOOLEAN

TimeoutInit ==
    /\ systemTime = 0
    /\ timeout = STOPPED /\ left = NotRunning
    /\ answer = FALSE

\* start(ms): the value that means STOPPED is passed over.
start(ms) ==
    LET end == Plus(systemTime, ms)
    IN  /\ timeout' = IF ms = 0 THEN STOPPED ELSE IF end = STOPPED THEN 1 ELSE end
        /\ left' = IF ms = 0 THEN NotRunning ELSE ms
        /\ UNCHANGED <<systemTime, answer>>

\* Operators named ...Bug are not part of the specification: each is a
\* plausible error in the code.
overBug == systemTime >= timeout

over == signed(elapsed(timeout)) >= 0

expired ==
    /\ answer' = (started /\ over)
    /\ IF answer' THEN timeout' = STOPPED /\ left' = NotRunning
                  ELSE UNCHANGED <<timeout, left>>
    /\ UNCHANGED systemTime

stop ==
    /\ timeout' = STOPPED /\ left' = NotRunning
    /\ UNCHANGED <<systemTime, answer>>

TimeoutTick ==
    /\ left > -MaxLate
    /\ SysTick_Handler
    /\ left' = IF left = NotRunning THEN left ELSE left - 1
    /\ UNCHANGED <<timeout, answer>>

TimeoutNext == TimeoutTick \/ (\E ms \in Periods : start(ms)) \/ expired \/ stop

TimeoutSpec == TimeoutInit /\ [][TimeoutNext]_timeoutVars

(***************************************************************************)
(* Properties                                                              *)
(***************************************************************************)

\* expired() never reports an end that is still to come, and reports one that
\* has passed, with the counter wrapped or not; it may be a millisecond late.
ExpiresInTime ==
    [][expired => /\ answer' => left # NotRunning /\ left <= 0
                  /\ left < 0 => answer']_timeoutVars
=============================================================================

----------------------------- MODULE GroupRate ------------------------------
(***************************************************************************)
(* The rate limit for group telegrams in BcuDefault::loop()                *)
(* (sblib/src/eib/bcu_default.cpp): the time of the last telegram, moved   *)
(* forward while nothing is sent, so that the counter never wraps past it. *)
(***************************************************************************)
EXTENDS Clock

CONSTANTS
    Second,         \* 1000 ms
    Limits,         \* waiting times that the program sets, in milliseconds
    DefaultWait,    \* DEFAULT_GROUP_TEL_WAIT_MILLIS
    MaxGap          \* bound: milliseconds between two of these tests

ASSUME RateAssumption ==
    /\ Second \in Nat \ {0} /\ MaxGap \in 1 .. Second
    /\ DefaultWait \in 1 .. Second /\ Limits \subseteq 1 .. Second
    /\ 3 * Second < Wrap

VARIABLES
    groupTelSent, groupTelWaitMillis,
    since,      \* milliseconds since the last telegram, up to Wrap
    gap         \* milliseconds since the last test

rateVars == <<systemTime, groupTelSent, groupTelWaitMillis, since, gap>>

RateTypeOK ==
    /\ systemTime \in Time /\ groupTelSent \in Time
    /\ groupTelWaitMillis \in Limits \cup {DefaultWait}
    /\ since \in 0 .. Wrap /\ gap \in 0 .. MaxGap

\* _begin(), at any time
RateInit ==
    /\ systemTime \in Time /\ groupTelSent = systemTime
    /\ groupTelWaitMillis = DefaultWait
    /\ since = 0 /\ gap = 0

RateTick ==
    /\ gap < MaxGap
    /\ SysTick_Handler
    /\ since' = IF since < Wrap THEN since + 1 ELSE since
    /\ gap' = gap + 1
    /\ UNCHANGED <<groupTelSent, groupTelWaitMillis>>

\* setGroupTelRateLimit(limit): 1000/limit, or the default if limit is out of
\* range
setGroupTelRateLimit(wait) ==
    /\ groupTelWaitMillis' = wait
    /\ UNCHANGED <<systemTime, groupTelSent, since, gap>>

\* Operators named ...Bug are not part of the specification: each is a
\* plausible error in the code.
may == elapsed(groupTelSent) >= groupTelWaitMillis

\* "To prevent overflows if no telegrams are sent for a long time"
caughtUp(sent) == IF elapsed(sent) >= 2 * Second THEN Plus(sent, Second) ELSE sent

\* loop(), with a group telegram to send or without.
loopBug(hasTelegram) ==
    LET send == may /\ hasTelegram
    IN  /\ groupTelSent' = caughtUp(groupTelSent)
        /\ since' = IF send THEN 0 ELSE since
        /\ gap' = 0
        /\ UNCHANGED <<systemTime, groupTelWaitMillis>>

loop(hasTelegram) ==
    LET send == may /\ hasTelegram
    IN  /\ groupTelSent' = caughtUp(IF send THEN systemTime ELSE groupTelSent)
        /\ since' = IF send THEN 0 ELSE since
        /\ gap' = 0
        /\ UNCHANGED <<systemTime, groupTelWaitMillis>>

RateNext ==
    \/ RateTick
    \/ \E hasTelegram \in BOOLEAN : loop(hasTelegram)
    \/ \E wait \in Limits \cup {DefaultWait} : setGroupTelRateLimit(wait)

RateSpec == RateInit /\ [][RateNext]_rateVars

(***************************************************************************)
(* Properties                                                              *)
(***************************************************************************)

\* Between two group telegrams passes at least the waiting time, also where
\* the counter wraps and where groupTelSent was moved forward; and a telegram
\* that finds it over is sent at once, however long nothing was sent before.
RateKept ==
    [][/\ since' < since => since >= groupTelWaitMillis
       /\ loop(TRUE) /\ since >= groupTelWaitMillis => since' = 0]_rateVars

=============================================================================

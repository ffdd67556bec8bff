---------------------------- MODULE MCApplication ----------------------------
(***************************************************************************)
(* Model checking what the library does for the application: its group      *)
(* objects (ComObjects), timeouts (Timeouts), the limit for the rate of its *)
(* group telegrams (GroupRate) and delays (Delays).  A behaviour belongs to *)
(* one of the parts, and the others do not move; the last three count the   *)
(* same milliseconds.                                                      *)
(***************************************************************************)
EXTENDS ComObjects, Timeouts, GroupRate, Delays

CONSTANTS v1, v2

MCValues == {v1, v2}

\* Three objects, the first two in one byte of flags.  Objects 0 and 1 share
\* address 1, objects 1 and 2 address 2; object 2 comes first with an address
\* that is not in the table.  All may write, 0 and 1 may be read.
MCAssoc == << <<3, 2>>, <<1, 1>>, <<1, 0>>, <<2, 2>>, <<2, 1>> >>
All == {0, 1, 2}
Readable == {0, 1}

VARIABLE part

ofTimeout == <<timeout, left, answer>>
ofRate == <<groupTelSent, groupTelWaitMillis, since, gap>>
ofDelay == <<val, delayPc, msec, lastSystemTime, micros, callVars, spent>>
applicationVars == <<part, objectsVars, systemTime, ofTimeout, ofRate, ofDelay>>

\* The parts that do not move start in one of their initial states.
ApplicationInit ==
    /\ part \in {"objects", "timeout", "rate", "delay"}
    /\ ObjectsInit /\ TimeoutInit /\ RateInit /\ DelayInit
    /\ part # "objects" => \A o \in Objects : value[o] = v1
    /\ part # "delay" => val = 0

ApplicationNext ==
    \/ part = "objects" /\ ObjectsNext /\ UNCHANGED <<part, systemTime, ofTimeout, ofRate, ofDelay>>
    \/ part = "timeout" /\ TimeoutNext /\ UNCHANGED <<part, objectsVars, ofRate, ofDelay>>
    \/ part = "rate" /\ RateNext /\ UNCHANGED <<part, objectsVars, ofTimeout, ofDelay>>
    \/ part = "delay" /\ DelayNext /\ UNCHANGED <<part, objectsVars, ofTimeout, ofRate>>

ApplicationSpec ==
    /\ ApplicationInit /\ [][ApplicationNext]_applicationVars
    /\ WF_objectsVars(part = "objects" /\ LoopGoesOn)
    /\ SF_objectsVars(part = "objects" /\ sendIfFree)
    /\ WF_delayVars(part = "delay" /\ Body)

\* Every request of the application that may be sent is sent, every value that
\* arrives is reported to it, and every delay ends.
NothingIsForgotten ==
    /\ part = "objects" => RequestsAreSent /\ UpdatesAreSeen
    /\ part = "delay" => DelayEnds

=============================================================================

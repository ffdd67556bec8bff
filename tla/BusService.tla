----------------------------- MODULE BusService -----------------------------
(***************************************************************************)
(* What the bus promises the main loop, and all that module Bcu knows of   *)
(* it: a receive buffer that is filled only while it is empty and does not *)
(* change until it is discarded, and acknowledge frames and telegrams      *)
(* whose transmission always ends.                                         *)
(***************************************************************************)
CONSTANTS
    Contents,   \* what received telegrams say
    NoTel       \* an empty receive buffer

VARIABLES
    sending,    \* a telegram is being sent
    acking,     \* an acknowledge frame is being sent
    rx          \* the received telegram

serviceVars == <<sending, acking, rx>>

ServiceInit ==
    /\ sending = FALSE
    /\ acking = FALSE
    /\ rx = NoTel

Send ==
    /\ ~sending /\ sending' = TRUE
    /\ UNCHANGED <<acking, rx>>

Sent ==
    /\ sending /\ sending' = FALSE
    /\ UNCHANGED <<acking, rx>>

\* Link layer acknowledgements may be switched off.
Receive ==
    /\ rx = NoTel /\ rx' \in Contents
    /\ ~acking /\ acking' \in BOOLEAN
    /\ UNCHANGED sending

\* A repetition of a telegram that was received before: only acknowledged.
Repeated ==
    /\ rx = NoTel
    /\ ~acking /\ acking' = TRUE
    /\ UNCHANGED <<sending, rx>>

Acked ==
    /\ acking /\ acking' = FALSE
    /\ UNCHANGED <<sending, rx>>

Discard ==
    /\ rx # NoTel /\ rx' = NoTel
    /\ UNCHANGED <<sending, acking>>

ServiceNext == Send \/ Sent \/ Receive \/ Repeated \/ Acked \/ Discard

ServiceSafety == ServiceInit /\ [][ServiceNext]_serviceVars
ServiceSpec == ServiceSafety /\ WF_serviceVars(Sent) /\ WF_serviceVars(Acked)
=============================================================================

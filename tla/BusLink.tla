------------------------------ MODULE BusLink -------------------------------
(***************************************************************************)
(* Two ends of a line: a device that sends telegrams to another one with   *)
(* the repetitions of sblib/src/eib/bus.cpp, and the receive buffer of the *)
(* other, which tells a repetition by comparing it with the last telegram  *)
(* it took.  Frames and acknowledge frames may be garbled, and telegrams   *)
(* of other devices come in between.  Bus has the states of one end; here  *)
(* an attempt to send is one step.                                         *)
(***************************************************************************)
EXTENDS Integers

CONSTANTS
    Contents,           \* of the sender's telegrams
    OtherContents,      \* of telegrams of other devices, whose source differs
    NoTel,
    SendRetriesMax,     \* sendRetriesMax; nobody answers BUSY here.  With 0
                        \* a telegram handed back would not be marked
    MaxHandBack,        \* TL4_MAX_REPETITION_COUNT
    MayEqualLast,       \* a telegram may be equal to the one taken last
    MaxBetween          \* bound: telegrams of others during one of the sender's

ASSUME LinkAssumption ==
    /\ NoTel \notin Contents \cup OtherContents
    /\ Contents \cap OtherContents = {}
    /\ SendRetriesMax \in Nat \ {0} /\ MaxHandBack \in Nat /\ MaxBetween \in Nat
    /\ MayEqualLast \in BOOLEAN

VARIABLES
    sendCurTelegram,    \* its content, NoTel for nullptr
    repeated,           \* its control byte says: a repetition
    repeatTelegram,
    sendRetries,
    handedBack,         \* conCtrlRepCount of the layer above
    telegram,           \* the receive buffer, kept after use
    telegramLen,        \* telegramLen # 0
    report,             \* how the last telegram ended: "open", "sent", "failed"
    taken,              \* how often the sender's last telegram was taken
    between             \* telegrams of others that were taken meanwhile

sender == <<sendCurTelegram, repeated, repeatTelegram, sendRetries, handedBack, report>>
receiver == <<telegram, telegramLen>>
linkVars == <<sender, receiver, taken, between>>

LinkTypeOK ==
    /\ sendCurTelegram \in Contents \cup {NoTel}
    /\ repeated \in BOOLEAN /\ repeatTelegram \in BOOLEAN
    /\ sendRetries \in 0 .. SendRetriesMax
    /\ handedBack \in 0 .. MaxHandBack
    /\ telegram \in Contents \cup OtherContents \cup {NoTel}
    /\ telegramLen \in BOOLEAN
    /\ report \in {"open", "sent", "failed"}
    /\ taken \in Nat
    /\ between \in 0 .. MaxBetween

LinkInit ==
    /\ sendCurTelegram = NoTel /\ repeated = FALSE /\ repeatTelegram = FALSE
    /\ sendRetries = 0 /\ handedBack = 0 /\ report = "failed"
    /\ telegram = NoTel /\ telegramLen = FALSE
    /\ taken = 0 /\ between = 0

sendTelegram(c) ==
    /\ sendCurTelegram = NoTel
    /\ MayEqualLast \/ c # telegram
    /\ sendCurTelegram' = c /\ repeated' = FALSE /\ report' = "open"
    /\ taken' = 0 /\ between' = 0
    /\ UNCHANGED <<repeatTelegram, sendRetries, handedBack, receiver>>

-----------------------------------------------------------------------------
(* The receiver *)

\* Nothing but the repeat flag of the control byte may differ.
already_received(c, flagged) == flagged /\ telegram = c

\* Operators named ...Bug are not part of the specification: each is a
\* plausible error in the code.
mayAckBug == TRUE

\* With a full receive buffer nothing is sent.
mayAck == ~telegramLen

\* handleTelegram() for a telegram that is for this device.
handleTelegram(c, flagged) ==
    IF telegramLen \/ already_received(c, flagged)
      THEN UNCHANGED receiver
      ELSE telegram' = c /\ telegramLen' = TRUE

discardReceivedTelegram ==
    /\ telegramLen /\ telegramLen' = FALSE
    /\ UNCHANGED <<sender, telegram, taken, between>>

isTaken(c, flagged) == ~telegramLen /\ ~already_received(c, flagged)

OtherTelegram(c) ==
    /\ isTaken(c, FALSE) => between < MaxBetween
    /\ handleTelegram(c, FALSE)
    /\ between' = IF isTaken(c, FALSE) THEN between + 1 ELSE between
    /\ UNCHANGED <<sender, taken>>

-----------------------------------------------------------------------------
(* The sender *)

flagBug == repeated

\* The first repetition is marked as one, for good.
flag == repeated \/ repeatTelegram

\* finishSendingTelegram(): the layer above may hand a telegram that failed
\* back, in a buffer whose control byte keeps the repeat flag.
finishSendingTelegram(successful) ==
    /\ repeatTelegram' = FALSE /\ sendRetries' = 0
    /\ \/ /\ sendCurTelegram' = NoTel /\ repeated' = FALSE /\ handedBack' = 0
          /\ report' = IF successful THEN "sent" ELSE "failed"
       \/ /\ ~successful /\ handedBack < MaxHandBack
          /\ handedBack' = handedBack + 1 /\ repeated' = flag
          /\ UNCHANGED <<sendCurTelegram, report>>

\* Retries are counted when they have been sent.
sent == IF repeatTelegram THEN sendRetries + 1 ELSE sendRetries

\* A telegram that was sent without an ACK is repeated or given up.
NotAcknowledged ==
    IF sent >= SendRetriesMax
      THEN finishSendingTelegram(FALSE)
      ELSE /\ repeatTelegram' = TRUE /\ sendRetries' = sent
           /\ repeated' = flag
           /\ UNCHANGED <<sendCurTelegram, handedBack, report>>

\* The telegram arrives; its ACK may be lost or garbled.
SendHeard ==
    /\ sendCurTelegram # NoTel
    /\ handleTelegram(sendCurTelegram, flag)
    /\ taken' = IF isTaken(sendCurTelegram, flag) THEN taken + 1 ELSE taken
    /\ \/ mayAck /\ finishSendingTelegram(TRUE)
       \/ NotAcknowledged
    /\ UNCHANGED between

\* The telegram arrives garbled, and nobody acknowledges it.
SendGarbled ==
    /\ sendCurTelegram # NoTel
    /\ NotAcknowledged
    /\ UNCHANGED <<receiver, taken, between>>

LinkNext ==
    \/ \E c \in Contents : sendTelegram(c)
    \/ SendHeard \/ SendGarbled
    \/ discardReceivedTelegram
    \/ \E c \in OtherContents : OtherTelegram(c)

LinkSpec == LinkInit /\ [][LinkNext]_linkVars

(***************************************************************************)
(* Properties                                                              *)
(***************************************************************************)

\* "check for repeated telegram, did we already received it" (bus.cpp:398): a
\* telegram that is reported as sent was taken by its receiver.
SentIsTaken == report = "sent" => taken > 0

\* However many acknowledge frames are lost, and however often the layer above
\* hands a telegram back: it is taken twice only if one of another device was
\* taken in between.
DuplicatesNeedOthers == taken <= between + 1
=============================================================================

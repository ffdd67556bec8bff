--------------------------------- MODULE Bus ---------------------------------
(***************************************************************************)
(* The link layer of a BCU (class Bus of sblib/src/eib/bus.cpp): the state *)
(* machine driven by the bus timer's interrupts, sending and receiving     *)
(* frames on a KNX TP1 line, and the functions the main loop calls.        *)
(*                                                                         *)
(* One action is one interrupt, the end of a time or a captured edge;      *)
(* edges that change nothing (bits within a byte, edges in INIT) are left  *)
(* out.  What the other devices put on the line is arbitrary.  Timing is   *)
(* kept as far as the states tell it apart.                                *)
(*                                                                         *)
(* Operators named ...Bug are not part of the specification: each is a way *)
(* to get the definition after it wrong that the properties must notice.   *)
(***************************************************************************)
EXTENDS Integers

CONSTANTS
    Contents,           \* the content of telegrams for this device
    NoTel,              \* the content of the empty receive buffer
    SendRetriesMax,     \* sendRetriesMax
    SendBusyRetriesMax, \* sendBusyRetriesMax
    CollisionRetryMax,  \* COLLISION_RETRY_MAX
    TelegramSize,       \* bytes of a telegram, and all that nextByteIndex counts
    MaxHandBack         \* TL4_MAX_REPETITION_COUNT

ASSUME BusAssumption ==
    /\ NoTel \notin Contents
    /\ SendRetriesMax \in Nat \ {0}
    /\ SendBusyRetriesMax \in Nat \ {0}
    /\ CollisionRetryMax \in Nat
    /\ TelegramSize \in Nat /\ TelegramSize >= 2
    /\ MaxHandBack \in Nat

VARIABLES
    state,                      \* state of the telegram sending/receiving
    sendCurTelegram,            \* sendCurTelegram # nullptr
    repeated,                   \* its control byte says: a repetition
    handedBack,                 \* conCtrlRepCount of the layer above
    sendAck,                    \* sendAck # 0
    nextByteIndex,              \* bytes of the current frame
    wait_for_ack_from_remote,   \* the telegram was sent, its ACK is due
    busy_wait_from_remote,      \* the remote side answered BUSY
    repeatTelegram,             \* the telegram was sent before, in vain
    sendRetries, sendBusyRetries, collisions,
    telegram,                   \* content of the receive buffer, kept after use
    telegramLen,                \* telegramLen # 0
    irq,                        \* the events of the bus timer that interrupt
    pc,                         \* what the main loop is doing
    lastOnBus, onceSent, answers, cutOff   \* history, for the properties only

rxVars   == <<telegram, telegramLen>>
counters == <<sendRetries, sendBusyRetries, collisions>>
retryVars == <<wait_for_ack_from_remote, busy_wait_from_remote, repeatTelegram, counters>>
curVars  == <<sendCurTelegram, repeated, handedBack>>
busVars  == <<state, curVars, sendAck, nextByteIndex, retryVars, rxVars, irq, pc,
              lastOnBus, onceSent, answers, cutOff>>

WAIT_50BT == "WAIT_50BT_FOR_NEXT_RX_OR_PENDING_TX_OR_IDLE"
RECV_WAIT == "RECV_WAIT_FOR_STARTBIT_OR_TELEND"
Listening == {"RECV_BITS_OF_BYTE", RECV_WAIT}
Sending   == {"SEND_START_BIT", "SEND_BIT_0", "SEND_BITS_OF_BYTE", "SEND_END_OF_TX"}
AckDue    == {"SEND_WAIT_FOR_RX_ACK_WINDOW", "SEND_WAIT_FOR_RX_ACK"}
States    == {"INIT", "IDLE", WAIT_50BT, "RECV_WAIT_FOR_ACK_TX_START"}
                 \cup Listening \cup Sending \cup AckDue

\* Frames on the line: telegrams for this device; acknowledge frames, where
\* "NACK" stands for any other single byte, garbled ones included; anything
\* else, such as frames for other devices and frames with a wrong checksum.
DataFrame  == [kind : {"data"}, content : Contents, repeated : BOOLEAN, ackable : BOOLEAN]
AckFrame   == [kind : {"ACK", "BUSY", "NACK"}]
OtherFrame == [kind : {"other"}]
Frames(n)  == IF n = 1 THEN AckFrame
              ELSE OtherFrame \cup IF n = TelegramSize THEN DataFrame ELSE {}

MaxAttempts == SendRetriesMax + SendBusyRetriesMax
Ends == {"open", "sent", "failed"}
BusTypeOK ==
    /\ state \in States
    /\ sendCurTelegram \in BOOLEAN /\ repeated \in BOOLEAN
    /\ handedBack \in 0 .. MaxHandBack
    /\ sendAck \in BOOLEAN
    /\ nextByteIndex \in 0 .. TelegramSize
    /\ wait_for_ack_from_remote \in BOOLEAN
    /\ busy_wait_from_remote \in BOOLEAN
    /\ repeatTelegram \in BOOLEAN
    /\ sendRetries \in 0 .. SendRetriesMax
    /\ sendBusyRetries \in 0 .. SendBusyRetriesMax
    /\ collisions \in 0 .. CollisionRetryMax + 1
    /\ telegram \in Contents \cup {NoTel}
    /\ telegramLen \in BOOLEAN
    /\ irq \in {"all", "match", "none"}
    /\ pc \in {"run", "enqueued", "pausing", "ending", "paused", "ended"}
    /\ lastOnBus \in {"ours", "data", "foreign", "silence"}
    /\ onceSent \in BOOLEAN /\ cutOff \in BOOLEAN
    /\ answers \in [busy : 0 .. MaxAttempts + 1, other : 0 .. MaxAttempts + 1, end : Ends]

BusInit ==
    /\ state = "INIT"
    /\ sendCurTelegram = FALSE /\ repeated = FALSE /\ handedBack = 0
    /\ sendAck = FALSE
    /\ nextByteIndex = 0
    /\ wait_for_ack_from_remote = FALSE
    /\ busy_wait_from_remote = FALSE
    /\ repeatTelegram = FALSE
    /\ sendRetries = 0 /\ sendBusyRetries = 0 /\ collisions = 0
    /\ telegram = NoTel /\ telegramLen = FALSE
    /\ irq = "all" /\ pc = "run"
    /\ lastOnBus = "silence" /\ onceSent = FALSE /\ cutOff = FALSE
    /\ answers = [busy |-> 0, other |-> 0, end |-> "sent"]

-----------------------------------------------------------------------------
(* Helpers *)

prepareForSending ==
    /\ wait_for_ack_from_remote' = FALSE
    /\ busy_wait_from_remote' = FALSE
    /\ repeatTelegram' = FALSE
    /\ sendRetries' = 0 /\ sendBusyRetries' = 0 /\ collisions' = 0

\* The layer above is told, in the interrupt.  It may hand a telegram that
\* failed back at once (TLayer4::finishedSendingTelegram()): the same
\* buffer, in which the control byte keeps its repeat flag.
finishSendingTelegram(successful) ==
    /\ \/ /\ sendCurTelegram' = FALSE
          /\ repeated' = FALSE
          /\ handedBack' = 0
       \/ /\ sendCurTelegram /\ ~successful /\ handedBack < MaxHandBack
          /\ handedBack' = handedBack + 1
          /\ UNCHANGED <<sendCurTelegram, repeated>>
    /\ prepareForSending

\* Collisions of acknowledge frames do not count.
encounteredCollision ==
    /\ collisions' = IF sendAck THEN collisions ELSE collisions + 1
    /\ UNCHANGED <<wait_for_ack_from_remote, busy_wait_from_remote, repeatTelegram,
                   sendRetries, sendBusyRetries>>

\* State INIT_RX_FOR_RECEIVING_NEW_TEL, and the start bit that led there.
startReceiving ==
    /\ nextByteIndex' = 0
    /\ sendAck' = FALSE
    /\ state' = "RECV_BITS_OF_BYTE"

retriesExhausted == sendRetries >= SendRetriesMax \/ sendBusyRetries >= SendBusyRetriesMax

\* History: how the transmissions of the telegram were answered; a new
\* count begins after its end.  One more than allowed is enough to count.
answered(kind, end) ==
    LET counted == IF answers.end = "open" THEN answers ELSE [busy |-> 0, other |-> 0, end |-> "open"]
    IN  answers' = [counted EXCEPT ![kind] = IF @ > MaxAttempts THEN @ ELSE @ + 1, !.end = end]

-----------------------------------------------------------------------------
(* Receiving *)

\* The first falling edge of a frame, in every state that expects one.  An
\* acknowledge frame that is about to be sent is dropped.
captureFrame ==
    /\ state \in {"IDLE", WAIT_50BT, "RECV_WAIT_FOR_ACK_TX_START", "SEND_WAIT_FOR_RX_ACK"}
    /\ startReceiving
    /\ UNCHANGED <<curVars, retryVars, rxVars, lastOnBus, onceSent, answers>>

captureByte ==
    /\ state = RECV_WAIT
    /\ state' = "RECV_BITS_OF_BYTE"
    /\ UNCHANGED <<curVars, sendAck, nextByteIndex, retryVars, rxVars, lastOnBus, onceSent, answers>>

endOfByte ==
    /\ state = "RECV_BITS_OF_BYTE"
    /\ state' = RECV_WAIT
    /\ nextByteIndex' = IF nextByteIndex < TelegramSize THEN nextByteIndex + 1 ELSE nextByteIndex
    /\ UNCHANGED <<curVars, sendAck, retryVars, rxVars, lastOnBus, onceSent, answers>>

already_received(f) == f.repeated /\ f.content = telegram

\* Anything but its ACK after our telegram: repeat it, and do not take the
\* ACK of another telegram for its own.
stopWaitingForAckBug == UNCHANGED <<wait_for_ack_from_remote, repeatTelegram, answers>>
stopWaitingForAck ==
    /\ wait_for_ack_from_remote' = FALSE
    /\ repeatTelegram' = (repeatTelegram \/ wait_for_ack_from_remote)
    /\ IF wait_for_ack_from_remote THEN answered("other", "open") ELSE UNCHANGED answers

bufferFreeBug == TRUE
bufferFree == ~telegramLen

\* A telegram for this device.  With a telegram in the receive buffer it is
\* not acknowledged, and not looked at.
receiveData(f) ==
    /\ f.kind = "data"
    /\ sendAck' = (bufferFree /\ f.ackable)
    /\ IF ~bufferFree \/ already_received(f)
       THEN UNCHANGED rxVars
       ELSE telegram' = f.content /\ telegramLen' = TRUE
    /\ state' = IF sendAck' THEN "RECV_WAIT_FOR_ACK_TX_START" ELSE WAIT_50BT
    /\ stopWaitingForAck
    /\ UNCHANGED <<curVars, busy_wait_from_remote, counters>>

\* The answer to our telegram.
receiveAcknowledge(f) ==
    /\ f.kind \in {"ACK", "BUSY", "NACK"} /\ wait_for_ack_from_remote
    /\ sendAck' = FALSE
    /\ state' = WAIT_50BT
    /\ IF f.kind = "ACK" \/ retriesExhausted
       THEN finishSendingTelegram(f.kind = "ACK")
       ELSE /\ repeatTelegram' = TRUE
            /\ busy_wait_from_remote' = (f.kind = "BUSY")
            /\ wait_for_ack_from_remote' = FALSE
            /\ UNCHANGED <<curVars, counters>>
    /\ IF f.kind = "ACK" THEN answers' = [answers EXCEPT !.end = "sent"]
       ELSE answered(IF f.kind = "BUSY" THEN "busy" ELSE "other",
                     IF retriesExhausted THEN "failed" ELSE "open")
    /\ UNCHANGED rxVars

receiveOther(f) ==
    /\ f.kind # "data" /\ ~(f.kind \in {"ACK", "BUSY", "NACK"} /\ wait_for_ack_from_remote)
    /\ sendAck' = FALSE
    /\ state' = WAIT_50BT
    /\ stopWaitingForAck
    /\ UNCHANGED <<curVars, busy_wait_from_remote, counters, rxVars>>

\* The end of a frame: handleTelegram().
handleTelegram(f) == receiveData(f) \/ receiveAcknowledge(f) \/ receiveOther(f)

endOfFrame ==
    /\ state = RECV_WAIT
    /\ \E f \in Frames(nextByteIndex) :
          /\ handleTelegram(f)
          /\ lastOnBus' = IF f.kind = "data" /\ f.ackable THEN "data" ELSE "foreign"
    /\ UNCHANGED <<nextByteIndex, onceSent>>

-----------------------------------------------------------------------------
(* Sending *)

\* WAIT_50BT..., then PRE_SEND_TIME: the first start bit of a telegram.  A
\* telegram that was sent before is marked as a repetition.
markRepeatedBug == repeated
markRepeated == repeated \/ repeatTelegram

startOfTelegram ==
    /\ nextByteIndex' = 0
    /\ state' = "SEND_START_BIT"

giveUp == (repeatTelegram /\ retriesExhausted) \/ collisions > CollisionRetryMax

waitTimeout ==
    /\ state = WAIT_50BT
    /\ \/ /\ ~giveUp /\ sendCurTelegram
          /\ startOfTelegram
          /\ repeated' = markRepeated
          /\ UNCHANGED <<sendCurTelegram, handedBack, retryVars, answers>>
       \/ /\ ~giveUp /\ ~sendCurTelegram
          /\ state' = "IDLE"
          /\ UNCHANGED <<curVars, retryVars, nextByteIndex, answers>>
       \/ /\ giveUp
          /\ finishSendingTelegram(FALSE)
          /\ IF sendCurTelegram' THEN startOfTelegram
             ELSE state' = "IDLE" /\ UNCHANGED nextByteIndex
          /\ answers' = [answers EXCEPT !.end = "failed"]
    /\ UNCHANGED <<sendAck, rxVars, lastOnBus, onceSent>>

\* The line was idle for as long as it takes to hear any acknowledge frame.
initTimeout ==
    /\ state = "INIT"
    /\ state' = WAIT_50BT
    /\ lastOnBus' = "silence"
    /\ UNCHANGED <<curVars, sendAck, nextByteIndex, retryVars, rxVars, onceSent, answers>>

startOfAck ==
    /\ state = "RECV_WAIT_FOR_ACK_TX_START"
    /\ nextByteIndex' = 0
    /\ state' = "SEND_START_BIT"
    /\ UNCHANGED <<curVars, sendAck, retryVars, rxVars, lastOnBus, onceSent, answers>>

\* Another device was first: a collision within a telegram, a busy line
\* before its first byte.
captureEarlyStartBit ==
    /\ state = "SEND_START_BIT"
    /\ startReceiving
    /\ IF nextByteIndex > 0 THEN encounteredCollision ELSE UNCHANGED retryVars
    /\ UNCHANGED <<curVars, rxVars, lastOnBus, onceSent, answers>>

sendStartBit ==
    /\ state = "SEND_START_BIT"
    /\ state' = "SEND_BIT_0"
    /\ UNCHANGED <<curVars, sendAck, nextByteIndex, retryVars, rxVars, lastOnBus, onceSent, answers>>

sendBit0 ==
    /\ state = "SEND_BIT_0"
    /\ state' = "SEND_BITS_OF_BYTE"
    /\ nextByteIndex' = IF sendAck THEN nextByteIndex ELSE nextByteIndex + 1
    /\ UNCHANGED <<curVars, sendAck, retryVars, rxVars, lastOnBus, onceSent, answers>>

\* A 0 bit of another device where we send a 1: go on receiving its frame,
\* which began like ours.
collide ==
    /\ state = "SEND_BITS_OF_BYTE"
    /\ encounteredCollision
    /\ sendAck' = FALSE
    /\ nextByteIndex' = IF sendAck THEN nextByteIndex ELSE nextByteIndex - 1
    /\ state' = "RECV_BITS_OF_BYTE"
    /\ UNCHANGED <<curVars, rxVars, lastOnBus, onceSent, answers>>

initState ==
    /\ state' = "INIT"
    /\ sendAck' = FALSE

\* An edge where none may be: wait until the line is idle.
collideAndResync ==
    /\ state = "SEND_BITS_OF_BYTE"
    /\ encounteredCollision
    /\ initState
    /\ UNCHANGED <<curVars, nextByteIndex, rxVars, lastOnBus, onceSent, answers>>

endOfSentByte ==
    /\ state = "SEND_BITS_OF_BYTE"
    /\ state' = IF nextByteIndex < TelegramSize /\ ~sendAck
                THEN "SEND_START_BIT" ELSE "SEND_END_OF_TX"
    /\ UNCHANGED <<curVars, sendAck, nextByteIndex, retryVars, rxVars, lastOnBus, onceSent, answers>>

countRepetitionBug == UNCHANGED <<sendRetries, sendBusyRetries>>

\* only equal answers in a row count
countInARowBug ==
    /\ sendBusyRetries' = IF repeatTelegram /\ busy_wait_from_remote THEN sendBusyRetries + 1 ELSE 0
    /\ sendRetries' = IF repeatTelegram /\ ~busy_wait_from_remote THEN sendRetries + 1 ELSE 0

countRepetition ==
    IF ~repeatTelegram THEN UNCHANGED <<sendRetries, sendBusyRetries>>
    ELSE IF busy_wait_from_remote
         THEN sendBusyRetries' = sendBusyRetries + 1 /\ UNCHANGED sendRetries
         ELSE sendRetries' = sendRetries + 1 /\ UNCHANGED sendBusyRetries

endOfTx ==
    /\ state = "SEND_END_OF_TX"
    /\ IF sendAck
       THEN /\ sendAck' = FALSE
            /\ state' = WAIT_50BT
            /\ UNCHANGED <<retryVars, lastOnBus, onceSent>>
       ELSE /\ wait_for_ack_from_remote' = TRUE
            /\ countRepetition
            /\ state' = "SEND_WAIT_FOR_RX_ACK_WINDOW"
            /\ lastOnBus' = "ours" /\ onceSent' = TRUE
            /\ UNCHANGED <<sendAck, busy_wait_from_remote, repeatTelegram, collisions>>
    /\ UNCHANGED <<curVars, nextByteIndex, rxVars, answers>>

ackWindow ==
    /\ state = "SEND_WAIT_FOR_RX_ACK_WINDOW"
    /\ state' = "SEND_WAIT_FOR_RX_ACK"
    /\ UNCHANGED <<curVars, sendAck, nextByteIndex, retryVars, rxVars, lastOnBus, onceSent, answers>>

ackTimeout ==
    /\ state = "SEND_WAIT_FOR_RX_ACK"
    /\ repeatTelegram' = TRUE
    /\ wait_for_ack_from_remote' = FALSE
    /\ state' = WAIT_50BT
    /\ lastOnBus' = "silence"
    /\ answered("other", "open")
    /\ UNCHANGED <<curVars, sendAck, nextByteIndex, busy_wait_from_remote, counters, rxVars, onceSent>>

-----------------------------------------------------------------------------
(* timerInterruptHandler().  A pause switches both events of the timer off. *)
(* The state machine switches the match on wherever it sets a time, the    *)
(* edges only where it begins to listen again.                             *)

Capture == captureFrame \/ captureByte \/ captureEarlyStartBit \/ collide \/ collideAndResync
Timeout == endOfByte \/ endOfFrame \/ waitTimeout \/ initTimeout \/ startOfAck \/ sendStartBit
               \/ sendBit0 \/ endOfSentByte \/ endOfTx \/ ackWindow \/ ackTimeout

\* States that are reached with the edges as they were.
EdgesAsBefore == {WAIT_50BT, "SEND_WAIT_FOR_RX_ACK_WINDOW"} \cup Sending

\* An edge that came together with the match is served in the same interrupt.
Interrupt(event) ==
    /\ irq # "none"
    /\ event
    /\ Capture => irq = "all" \/ state = WAIT_50BT
    /\ irq' = IF state' \in EdgesAsBefore THEN irq ELSE "all"
    /\ UNCHANGED <<pc, cutOff>>

-----------------------------------------------------------------------------
(* The main loop *)

\* sendTelegram(), in two steps: the interrupt may find the telegram before
\* the main loop looks at the state.
enqueueTelegram ==
    /\ pc = "run" /\ ~sendCurTelegram
    /\ pc' = "enqueued"
    /\ sendCurTelegram' = TRUE
    /\ repeated' = FALSE /\ handedBack' = 0 /\ onceSent' = FALSE /\ cutOff' = FALSE
    /\ UNCHANGED <<state, sendAck, nextByteIndex, retryVars, rxVars, irq, lastOnBus, answers>>

startSendingBug == UNCHANGED state
startSendingImmediately == state' = IF state = "IDLE" THEN WAIT_50BT ELSE state

sendTelegram ==
    /\ pc = "enqueued"
    /\ pc' = "run"
    /\ startSendingImmediately
    /\ UNCHANGED <<curVars, sendAck, nextByteIndex, retryVars, rxVars, irq, lastOnBus, onceSent,
                   answers, cutOff>>

discardReceivedTelegram ==
    /\ pc = "run" /\ telegramLen
    /\ telegramLen' = FALSE
    /\ UNCHANGED <<state, curVars, sendAck, nextByteIndex, retryVars, telegram, irq, pc,
                   lastOnBus, onceSent, answers, cutOff>>

canPause(waitForTelegramSent) ==
    \/ state = "IDLE"
    \/ /\ state = WAIT_50BT
       /\ (sendCurTelegram => ~repeatTelegram /\ ~waitForTelegramSent)

\* pause(FALSE) before the user memory is written, end() = pause(TRUE)
\* before a reset; both test again after every interrupt.
beginPause ==
    /\ pc = "run" /\ pc' \in {"pausing", "ending"}
    /\ UNCHANGED <<state, curVars, sendAck, nextByteIndex, retryVars, rxVars, irq, lastOnBus,
                   onceSent, answers, cutOff>>

\* With interrupts disabled.  A match that comes due meanwhile is pending
\* afterwards: its interrupt finds the state INIT, starts the time again and
\* goes on, and the main loop believes the bus to be paused.
pause ==
    /\ \/ pc = "pausing" /\ canPause(FALSE) /\ pc' = "paused"
       \/ pc = "ending" /\ canPause(TRUE) /\ pc' = "ended"
    /\ \/ irq' = "none"
       \/ state = WAIT_50BT /\ irq' = "match"
    /\ state' = "INIT"
    /\ UNCHANGED <<curVars, sendAck, nextByteIndex, retryVars, rxVars, lastOnBus, onceSent,
                   answers, cutOff>>

\* Our telegram is on the line, all of it, and was not answered yet.
unanswered == ~sendAck /\ (state = "SEND_END_OF_TX" \/ wait_for_ack_from_remote)

\* Nothing but the acknowledge frame is reset.
resume ==
    /\ pc = "paused" /\ pc' = "run"
    /\ irq' = "all"
    /\ initState
    /\ cutOff' = (cutOff \/ unanswered)
    /\ onceSent' = (onceSent \/ unanswered)
    /\ UNCHANGED <<curVars, nextByteIndex, retryVars, rxVars, lastOnBus, answers>>

BusNext ==
    \/ Interrupt(Capture) \/ Interrupt(Timeout)
    \/ enqueueTelegram \/ sendTelegram \/ discardReceivedTelegram
    \/ beginPause \/ pause \/ resume

BusSafety == BusInit /\ [][BusNext]_busVars

\* The timer runs in every state but IDLE, and the main loop goes on.  The
\* line is not ours forever or never: frames of other devices end, the line
\* falls idle again and again, and arbitration is won sometimes, by
\* telegrams as well as by acknowledge frames.  A pause
\* is possible for thousands of microseconds at a time (50 bit times), in
\* which the waiting main loop tests canPause().  The section of pause() in
\* which a match may come due takes a few microseconds: sometimes the line is
\* won outside of a pause.
BusFairness ==
    /\ WF_busVars(Interrupt(Timeout))
    /\ WF_busVars(sendTelegram) /\ WF_busVars(resume)
    /\ SF_busVars(pause)
    /\ SF_busVars(Interrupt(initTimeout)) /\ SF_busVars(Interrupt(pc # "paused" /\ waitTimeout))
    /\ SF_busVars(Interrupt(endOfFrame)) /\ SF_busVars(Interrupt(startOfAck))
    /\ \A ack \in BOOLEAN :
          /\ SF_busVars(Interrupt(pc # "paused" /\ sendAck = ack /\ sendStartBit))
          /\ SF_busVars(Interrupt(pc # "paused" /\ sendAck = ack /\ endOfSentByte))

BusSpec == BusSafety /\ BusFairness

-----------------------------------------------------------------------------
(* Properties *)

\* The interrupt never takes a byte from a telegram that is not there
\* (sendCurTelegram[nextByteIndex++]), and nothing of a finished telegram,
\* neither a pending repetition nor a collision count, is left to the next.
SendsOnlyTelegrams ==
    /\ state \in Sending \cup AckDue /\ ~sendAck => sendCurTelegram
    /\ ~sendCurTelegram => ~repeatTelegram /\ ~wait_for_ack_from_remote
                           /\ sendRetries = 0 /\ sendBusyRetries = 0 /\ collisions = 0

\* sendingFrame() tells the main loop the truth: an acknowledge frame is
\* due exactly until it was sent or dropped, an ACK is waited for only while
\* listening for it (unless the telegram was cut off), and a telegram never
\* waits in IDLE, where no interrupt would send it, unless sendTelegram() is
\* about to wake the state machine.
StateMatchesWork ==
    /\ sendAck => state \in Sending \cup {"RECV_WAIT_FOR_ACK_TX_START"}
    /\ wait_for_ack_from_remote /\ ~cutOff => state \in Listening \cup AckDue /\ ~sendAck
    /\ state = "IDLE" /\ sendCurTelegram => pc = "enqueued"

\* A pause with no match pending switches the state machine off: it stands
\* in INIT, whatever comes on the line, and leaves nothing due, neither an
\* acknowledge frame nor an ACK for us nor a repetition.  An ended bus has no
\* telegram of its own to send, even if a match was pending.
PausedIsQuiet ==
    /\ irq = "none" => /\ state = "INIT" /\ ~sendAck /\ (wait_for_ack_from_remote => cutOff)
                       /\ pc = "ended" \/ (pc = "paused" /\ ~repeatTelegram)
    /\ pc = "ended" => ~sendCurTelegram

\* "Need to be atomic here, otherwise we could transition to a non-pausable
\* state after we've determined it's possible to pause" (bus.cpp:123): while
\* the main loop takes the bus for paused, no frame is on its way.
StaysPausable == pc \in {"paused", "ended"} => state \in {"INIT", WAIT_50BT, "IDLE"}

\* A telegram goes out marked as a repetition exactly if all of it was sent
\* before, in vain (handleTelegram() of the receiver relies on it); a
\* collision is no transmission.  The one exception is a telegram whose
\* answer was cut off by resume(), after a pause that StaysPausable misses.
RepetitionsMarked ==
    state \in Sending \ {"SEND_END_OF_TX"} /\ ~sendAck /\ ~cutOff => (repeated <=> onceSent)

\* The attempts to send a telegram are bounded, however BUSY, NACK and
\* silence alternate.
AttemptsBounded == answers.busy + answers.other <= MaxAttempts

\* The layer above is told of success only when the frame right after its
\* telegram was the ACK, in time: not for the ACK of another device's
\* telegram that came in between, and not for a late one (except for a
\* telegram that was cut off, whose ACK is waited for without end).
SuccessMeansAcked ==
    [][sendCurTelegram /\ ~sendCurTelegram' /\ answers'.end = "sent" /\ ~cutOff
        => lastOnBus = "ours" /\ nextByteIndex = 1]_busVars

\* A pause succeeds, whatever happens on the line.
PauseSucceeds == pc = "pausing" ~> pc = "paused"

\* What the bus promises the main loop (module BusService).
Service == INSTANCE BusService WITH
    sending <- sendCurTelegram,
    acking  <- sendAck,
    rx      <- IF telegramLen THEN telegram ELSE NoTel
BusImplementsService == Service!ServiceSpec

\* Without liveness: a telegram in the receive buffer is neither overwritten
\* nor lost, and an acknowledge frame goes out only for a telegram that
\* arrived while the buffer was empty, one at a time.
BusKeepsService == Service!ServiceSafety

\* "Resent should be done for maximum busy_retry times.  [...] In all other
\* cases the frame shall be repeated for nak_retry times" (doc/KNX TP1 Bus
\* implementation.md:250-253): each kind of answer has its own budget.
RetriesExhausted ==
    [][answers.end = "open" /\ answers'.end = "failed"
        => \/ collisions > CollisionRetryMax
           \/ answers'.busy > SendBusyRetriesMax
           \/ answers'.other > SendRetriesMax]_busVars
=============================================================================

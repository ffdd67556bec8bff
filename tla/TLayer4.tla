------------------------------- MODULE TLayer4 -------------------------------
(***************************************************************************)
(* The connection-oriented transport layer of a BCU (class TLayer4 of      *)
(* sblib/src/eib/knx_tlayer4.cpp, KNX "Style 3").  One device; the remote  *)
(* devices may send it any telegram at any time.                           *)
(*                                                                         *)
(* Two threads of control touch this state.  The main loop calls           *)
(* processTelegram() and loop(); the bus timer interrupt calls             *)
(* finishedSendingTelegram().  The interrupt reads and writes only         *)
(* sendBuf, sendTel and conCtrlRepCount.  A main-loop handler waits at most *)
(* once, in acquireSendBuffer(); what it assigns before the wait is        *)
(* invisible to the interrupt, so the handler is one action guarded by the *)
(* end of the wait (sendBuf = "FREE").                                     *)
(***************************************************************************)
EXTENDS Integers

CONSTANTS
    Remotes,        \* individual addresses of the other devices
    NoAddr,         \* address 0: connectedAddr before the first connection
    Apdus,          \* application data of a request; a response carries the one it answers
    NoApdu,         \* the APDU of a telegram that has none
    SeqMod,         \* sequence numbers are 0 .. SeqMod - 1 (16: & 0x0F)
    MaxRep,         \* TL4_MAX_REPETITION_COUNT
    ConnTimeout,    \* TL4_CONNECTION_TIMEOUT_MS, in ticks
    AckTimeout      \* TL4_T_ACK_TIMEOUT_MS, in ticks

ASSUME AddrAssumption == NoAddr \notin Remotes
ASSUME ApduAssumption == NoApdu \notin Apdus
ASSUME SeqAssumption  == SeqMod \in Nat /\ SeqMod >= 3
ASSUME RepAssumption  == MaxRep \in Nat \ {0}
ASSUME TimeAssumption ==
    /\ AckTimeout \in Nat \ {0}
    /\ ConnTimeout \in Nat
    /\ AckTimeout < ConnTimeout

VARIABLES
    state,              \* state of the transport layer 4 state machine
    connectedAddr,      \* the remote partner of the connection
    seqNoSend,          \* sequence number of the next telegram we send
    seqNoRcv,           \* sequence number we expect from the partner
    repCount,           \* repetitions of the telegram in sendConnectedTelegram
    conCtrlRepCount,    \* repetitions of a connection control telegram
    sendBuf,            \* sendTelegramBufferState
    sendTel,            \* sendTelegram: what the bus is sending, or sent last
    buf1State, buf1,    \* sendConnectedTelegramBufferState, sendConnectedTelegram
    buf2State, buf2,    \* sendConnectedTelegramBuffer2State, sendConnectedTelegram2
    connAge,            \* elapsed(connectedTime), saturating at ConnTimeout
    ackAge              \* elapsed(sentTelegramTime), saturating at AckTimeout

connVars   == <<connectedAddr, seqNoSend, seqNoRcv>>
bufferVars == <<buf1State, buf1, buf2State, buf2>>
isrVars    == <<sendBuf, sendTel, conCtrlRepCount>>
vars == <<state, connVars, repCount, isrVars, bufferVars, connAge, ackAge>>

-----------------------------------------------------------------------------
SeqNo       == 0 .. SeqMod - 1
Addr        == Remotes \cup {NoAddr}
TL4State    == {"CLOSED", "OPEN_IDLE", "OPEN_WAIT"}
BufferState == {"FREE", "ACQUIRED", "SENDING"}

\* Operators named ...Bug are not part of the specification: each is a way to
\* get the definition after it wrong that the properties must notice.
\* seqNo++; seqNo &= 0x0F  (from -1, too, the result is 0)
Inc(n) == IF n = SeqMod - 1 THEN 0 ELSE n + 1
\* (seqNo - 1) & 0x0F
Dec(n) == IF n = 0 THEN SeqMod - 1 ELSE n - 1

\* What a telegram addressed to or sent by this device is to the transport
\* layer.  "UDATA" is any telegram without a sequence number that is not a
\* connection control command: T_Data_Individual, group and broadcast data.
Control   == {"CONNECT", "DISCONNECT", "ACK", "NACK"}
Numbered  == {"ACK", "NACK", "DATA"}
Tpci      == Control \cup {"DATA", "UDATA"}
Telegram  == [addr : Addr, tpci : Tpci, seq : SeqNo, apdu : Apdus \cup {NoApdu}]
Plain(a, tpci)       == [addr |-> a, tpci |-> tpci, seq |-> 0, apdu |-> NoApdu]
Ack(a, tpci, n)      == [addr |-> a, tpci |-> tpci, seq |-> n, apdu |-> NoApdu]
Data(a, n, d)        == [addr |-> a, tpci |-> "DATA", seq |-> n, apdu |-> d]

\* The telegrams of remote device r (addr is the sender here).
Received(r) ==
    {Plain(r, p) : p \in {"CONNECT", "DISCONNECT", "UDATA"}}
        \cup {Ack(r, p, n) : p \in {"ACK", "NACK"}, n \in SeqNo}
        \cup {Data(r, n, d) : n \in SeqNo, d \in Apdus}

TypeOK ==
    /\ state \in TL4State
    /\ connectedAddr \in Addr
    /\ seqNoSend \in SeqNo \cup {-1}
    /\ seqNoRcv \in SeqNo \cup {-1}
    /\ repCount \in 0 .. MaxRep
    /\ conCtrlRepCount \in 0 .. MaxRep
    /\ sendBuf \in {"FREE", "SENDING"}
    /\ sendTel \in Telegram
    /\ buf1State \in BufferState
    /\ buf1 \in Telegram
    /\ buf2State \in {"FREE", "ACQUIRED"}
    /\ buf2 \in Telegram
    /\ connAge \in 0 .. ConnTimeout
    /\ ackAge \in 0 .. AckTimeout

Init ==
    /\ state = "CLOSED"
    /\ connectedAddr = NoAddr
    /\ seqNoSend = -1
    /\ seqNoRcv = -1
    /\ repCount = 0
    /\ conCtrlRepCount = 0
    /\ sendBuf = "FREE"
    /\ sendTel = Plain(NoAddr, "UDATA")      \* new byte[]() : all zero
    /\ buf1State = "FREE" /\ buf1 = Plain(NoAddr, "UDATA")
    /\ buf2State = "FREE" /\ buf2 = Plain(NoAddr, "UDATA")
    /\ connAge = 0
    /\ ackAge = 0

-----------------------------------------------------------------------------
(* Handing a telegram to the bus: acquireSendBuffer() waits until the       *)
(* buffer is free, sendPreparedTelegram() marks it as being sent.           *)
Send(tel) ==
    /\ sendBuf = "FREE"
    /\ sendBuf' = "SENDING"
    /\ sendTel' = tel
    /\ UNCHANGED conCtrlRepCount

sendConControlTelegram(tpci, addr, n) == Send(Ack(addr, tpci, n))

sendPreparedConnectedTelegram == Send(buf1)

resetConnection ==
    /\ buf1State' = "FREE"
    /\ buf2State' = "FREE"
    /\ UNCHANGED <<buf1, buf2>>

restartConnectionTimer == connAge' = 0

-----------------------------------------------------------------------------
(* The actions A01 .. A10 of the state machine. *)

\* seqNoSend keeps its initial value
actionA01ConnectBug(addr) ==
    /\ resetConnection
    /\ connectedAddr' = addr
    /\ seqNoRcv' = 0
    /\ restartConnectionTimer
    /\ state' = "OPEN_IDLE"
    /\ UNCHANGED <<seqNoSend, repCount, isrVars, ackAge>>

\* seqNoRcv keeps the value of the connection before
actionA01ConnectRcvBug(addr) ==
    /\ resetConnection
    /\ connectedAddr' = addr
    /\ seqNoSend' = 0
    /\ seqNoRcv' = IF seqNoRcv = -1 THEN 0 ELSE seqNoRcv
    /\ restartConnectionTimer
    /\ state' = "OPEN_IDLE"
    /\ UNCHANGED <<repCount, isrVars, ackAge>>

actionA01Connect(addr) ==
    /\ resetConnection
    /\ connectedAddr' = addr
    /\ seqNoSend' = 0
    /\ seqNoRcv' = 0
    /\ restartConnectionTimer
    /\ state' = "OPEN_IDLE"
    /\ UNCHANGED <<repCount, isrVars, ackAge>>

\* sendConnectedTelegramBufferState: a response still being sent is no
\* longer ACQUIRED, but it is not FREE before its T_ACK either.
firstBufferFreeBug == buf1State # "ACQUIRED"
firstBufferFree == buf1State = "FREE"

\* T_ACK the request, then let the application process it: respond says
\* whether processApci() produced a response.  A free first buffer is taken
\* in preference to the second one.
actionA02sendAckPduAndProcessApci(t, respond) ==
    /\ sendConControlTelegram("ACK", connectedAddr, t.seq)
    /\ seqNoRcv' = Inc(seqNoRcv)
    /\ restartConnectionTimer
    /\ \/ /\ firstBufferFree
          /\ buf1State' = IF respond THEN "ACQUIRED" ELSE "FREE"
          /\ buf1' = IF respond THEN Data(connectedAddr, seqNoSend, t.apdu) ELSE buf1
          /\ UNCHANGED <<buf2State, buf2>>
       \/ /\ ~firstBufferFree
          /\ buf2State' = IF respond THEN "ACQUIRED" ELSE "FREE"
          /\ buf2' = IF respond THEN Data(connectedAddr, Inc(seqNoSend), t.apdu) ELSE buf2
          /\ UNCHANGED <<buf1State, buf1>>
    /\ UNCHANGED <<state, connectedAddr, seqNoSend, repCount, ackAge>>

actionA03sendAckPduAgain(n) ==
    /\ sendConControlTelegram("ACK", connectedAddr, n)
    /\ restartConnectionTimer
    /\ UNCHANGED <<state, connVars, repCount, bufferVars, ackAge>>

actionA04SendNAck(n) ==
    /\ sendConControlTelegram("NACK", connectedAddr, n)
    /\ restartConnectionTimer
    /\ UNCHANGED <<state, connVars, repCount, bufferVars, ackAge>>

actionA05DisconnectUser ==
    /\ resetConnection
    /\ UNCHANGED <<connVars, repCount, isrVars, connAge, ackAge>>

actionA06DisconnectAndClose ==
    /\ state' = "CLOSED"
    /\ sendConControlTelegram("DISCONNECT", connectedAddr, 0)
    /\ resetConnection
    /\ UNCHANGED <<connVars, repCount, connAge, ackAge>>

actionA07SendDirectTelegram ==
    /\ state' = "OPEN_WAIT"
    /\ buf1State' = "SENDING"
    /\ sendPreparedConnectedTelegram
    /\ repCount' = 0
    /\ ackAge' = 0
    /\ restartConnectionTimer
    /\ UNCHANGED <<connVars, buf1, buf2State, buf2>>

actionA08IncrementSequenceNumber ==
    /\ seqNoSend' = Inc(seqNoSend)
    /\ restartConnectionTimer
    /\ buf1State' = buf2State
    /\ buf1' = IF buf2State # "FREE" THEN buf2 ELSE buf1
    /\ buf2State' = "FREE"
    /\ UNCHANGED <<connectedAddr, seqNoRcv, buf2, repCount, isrVars, ackAge>>

actionA09RepeatMessage ==
    /\ sendPreparedConnectedTelegram
    /\ repCount' = repCount + 1
    /\ ackAge' = 0
    /\ restartConnectionTimer
    /\ UNCHANGED <<state, connVars, bufferVars>>

actionA10Disconnect(addr) ==
    /\ sendConControlTelegram("DISCONNECT", addr, 0)
    /\ UNCHANGED <<state, connVars, repCount, bufferVars, connAge, ackAge>>

-----------------------------------------------------------------------------
(* The main loop hands a received telegram t to processTelegram(); its      *)
(* handler runs to the end before the telegram is discarded.                *)

open == state # "CLOSED"

processConControlConnectPDU(t) ==
    /\ t.tpci = "CONNECT"
    /\ \/ ~open /\ actionA01Connect(t.addr)
       \/ open /\ connectedAddr = t.addr /\ UNCHANGED vars
       \/ open /\ connectedAddr # t.addr /\ actionA10Disconnect(t.addr)

fromPartnerBug(t) == open
fromPartner(t) == open /\ connectedAddr = t.addr

processConControlDisconnectPDU(t) ==
    /\ t.tpci = "DISCONNECT"
    /\ IF fromPartner(t)
       THEN state' = "CLOSED" /\ actionA05DisconnectUser
       ELSE UNCHANGED vars

\* T_ACK: ignored unless it comes from the partner while we wait for it; a
\* wrong sequence number closes the connection.
processAck(t) ==
    /\ t.tpci = "ACK"
    /\ IF state # "OPEN_WAIT" \/ connectedAddr # t.addr
       THEN UNCHANGED vars
       ELSE IF t.seq # seqNoSend
            THEN actionA06DisconnectAndClose
            ELSE actionA08IncrementSequenceNumber /\ state' = "OPEN_IDLE"

\* T_NACK of the current sequence number: repeat, at most MaxRep times.
processNack(t) ==
    /\ t.tpci = "NACK"
    /\ IF ~open \/ t.seq # seqNoSend \/ connectedAddr # t.addr
       THEN UNCHANGED vars
       ELSE IF repCount < MaxRep /\ state = "OPEN_WAIT"
            THEN actionA09RepeatMessage
            ELSE actionA06DisconnectAndClose

processConControlAcknowledgmentPDU(t) == processAck(t) \/ processNack(t)

\* T_Data_Individual: processed without a connection; the send buffer is
\* held during processApci() and given back when there is no response.
processIndividual(t, respond) ==
    /\ t.tpci = "UDATA"
    /\ IF respond
       THEN Send(Plain(t.addr, "UDATA"))
       ELSE /\ sendBuf = "FREE"
            /\ UNCHANGED isrVars
    /\ UNCHANGED <<state, connVars, repCount, bufferVars, connAge, ackAge>>

\* This telegram is a request that processDirectTelegram() lets the
\* application process (event E04), or one it only acknowledges (E05).
AcceptsBug(t) == t.tpci = "DATA" /\ fromPartner(t) /\ t.seq \in {seqNoRcv, Dec(seqNoRcv)}
Accepts(t) == t.tpci = "DATA" /\ fromPartner(t) /\ t.seq = seqNoRcv
IsRepeated(t) == t.seq = Dec(seqNoRcv)

processDirectTelegram(t, respond) ==
    /\ t.tpci = "DATA"
    /\ IF ~fromPartner(t) THEN UNCHANGED vars
       ELSE IF Accepts(t) THEN actionA02sendAckPduAndProcessApci(t, respond)
       ELSE IF IsRepeated(t) THEN actionA03sendAckPduAgain(t.seq)
       ELSE actionA04SendNAck(t.seq)

processTelegram(t, respond) ==
    \/ processConControlConnectPDU(t)
    \/ processConControlDisconnectPDU(t)
    \/ processConControlAcknowledgmentPDU(t)
    \/ processIndividual(t, respond)
    \/ processDirectTelegram(t, respond)

-----------------------------------------------------------------------------
(* loop(): four events, tested in this order; it does nothing while the     *)
(* send buffer is in use.                                                   *)

ConnectionTimedOutBug == state = "OPEN_WAIT" /\ connAge >= ConnTimeout
ConnectionTimedOut == open /\ connAge >= ConnTimeout
ReadyToSend        == state = "OPEN_IDLE" /\ buf1State = "ACQUIRED"
AckTimedOut        == state = "OPEN_WAIT" /\ ackAge >= AckTimeout

loopConnectionTimeout ==            \* event E16
    /\ ConnectionTimedOut
    /\ actionA06DisconnectAndClose

loopSendResponse ==                 \* event E15
    /\ ~ConnectionTimedOut
    /\ ReadyToSend
    /\ actionA07SendDirectTelegram

loopRepeat ==                       \* event E17
    /\ ~ConnectionTimedOut
    /\ AckTimedOut
    /\ repCount < MaxRep
    /\ actionA09RepeatMessage

loopGiveUp ==                       \* event E18
    /\ ~ConnectionTimedOut
    /\ AckTimedOut
    /\ repCount >= MaxRep
    /\ actionA06DisconnectAndClose

loop == loopConnectionTimeout \/ loopSendResponse \/ loopRepeat \/ loopGiveUp

\* disconnect(), called by the BCU before a restart, whatever the state.
disconnect == actionA06DisconnectAndClose

\* A telegram of another layer (group communication, broadcast response)
\* goes through the same send buffer.
sendPreparedTelegram ==
    /\ \E a \in Addr : Send(Plain(a, "UDATA"))
    /\ UNCHANGED <<state, connVars, repCount, bufferVars, connAge, ackAge>>

-----------------------------------------------------------------------------
(* Interrupt: the bus has sent the telegram, or has given up.  A failed     *)
(* connection control telegram is handed to the bus again at once.          *)
retriesLeft == conCtrlRepCount < MaxRep

\* conCtrlRepCount is reset only after success
resetRetriesBug(successful) == conCtrlRepCount' = IF successful THEN 0 ELSE conCtrlRepCount
resetRetries(successful) == conCtrlRepCount' = 0

finishedSendingTelegram(successful) ==
    /\ sendBuf = "SENDING"
    /\ IF sendTel.tpci \in Control
       THEN IF ~successful /\ retriesLeft
            THEN /\ conCtrlRepCount' = conCtrlRepCount + 1
                 /\ sendBuf' = "SENDING"
            ELSE /\ resetRetries(successful)
                 /\ sendBuf' = "FREE"
       ELSE /\ sendBuf' = "FREE"
            /\ UNCHANGED conCtrlRepCount
    /\ UNCHANGED <<sendTel, state, connVars, repCount, bufferVars, connAge, ackAge>>

\* The millisecond clock, in ticks; an age beyond its timeout is no news.
Tick ==
    /\ connAge' = IF connAge < ConnTimeout THEN connAge + 1 ELSE connAge
    /\ ackAge' = IF ackAge < AckTimeout THEN ackAge + 1 ELSE ackAge
    /\ UNCHANGED <<state, connVars, repCount, isrVars, bufferVars>>

Receive == \E r \in Remotes : \E t \in Received(r), respond \in BOOLEAN :
                processTelegram(t, respond)
Interrupt == \E successful \in BOOLEAN : finishedSendingTelegram(successful)

Next ==
    \/ Receive
    \/ loop
    \/ disconnect
    \/ sendPreparedTelegram
    \/ Interrupt
    \/ Tick

Spec == Init /\ [][Next]_vars

-----------------------------------------------------------------------------
(* Properties *)

\* The buffers of the connection agree with its state: nothing is pending
\* on a closed connection, a telegram waits for its T_ACK exactly in
\* OPEN_WAIT, and the second buffer holds a response only behind one in the
\* first (A02 and A08 rely on this order, resetConnection restores it).
BuffersMatchState ==
    /\ state = "CLOSED" => buf1State = "FREE" /\ buf2State = "FREE"
    /\ state = "OPEN_WAIT" <=> buf1State = "SENDING"
    /\ buf1State = "FREE" => buf2State = "FREE"

\* A pending response goes to the partner, and carries the sequence number
\* the partner will expect when its turn comes: the current one in the
\* first buffer, the next one in the second, although the number is written
\* when the response is made and A08 moves it between the buffers later.
PendingResponsesNumbered ==
    /\ buf1State # "FREE" => /\ buf1.tpci = "DATA"
                             /\ buf1.addr = connectedAddr
                             /\ buf1.seq = seqNoSend
    /\ buf2State # "FREE" => /\ buf2.tpci = "DATA"
                             /\ buf2.addr = connectedAddr
                             /\ buf2.seq = Inc(seqNoSend)

\* While a connection is open, both sequence counters are real numbers and
\* the partner is a real device.
OpenHasPartner ==
    open => /\ connectedAddr \in Remotes
            /\ seqNoSend \in SeqNo
            /\ seqNoRcv \in SeqNo

\* The interrupt never leaves a retry count behind: with the send buffer
\* free, the next connection control telegram has all its retries.
RetriesAreFresh == conCtrlRepCount > 0 => sendBuf = "SENDING" /\ sendTel.tpci \in Control

\* A response that was handed to the bus stays in the first buffer, number
\* and content, until its T_ACK arrives or the connection closes: whatever
\* other requests, repetitions and telegrams happen in between, every
\* repetition is the same telegram.
KeepsResponse == state = "OPEN_WAIT" /\ state' = "OPEN_WAIT" => UNCHANGED <<buf1, seqNoSend>>
RepetitionsIdentical == [][KeepsResponse]_vars

\* A third device cannot disturb a connection: whatever it sends, the
\* partner, the counters, the pending responses and the inactivity timer
\* of the open connection stay as they are (processTelegram() with a sender
\* other than connectedAddr).
ThirdParty ==
    \E r \in Remotes \ {connectedAddr} : \E t \in Received(r), respond \in BOOLEAN :
        processTelegram(t, respond)
KeepsConnection ==
    open /\ ThirdParty => UNCHANGED <<state, connVars, repCount, bufferVars, connAge>>
ConnectionUndisturbed == [][KeepsConnection]_vars

=============================================================================

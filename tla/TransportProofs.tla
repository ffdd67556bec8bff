--------------------------- MODULE TransportProofs ---------------------------
(***************************************************************************)
(* Proofs about the transport layer, for every set of remote devices,      *)
(* every sequence number range, every repetition limit and every timeout,  *)
(* and about the main loop: it implements the transport layer, so that     *)
(* what is proved of it holds in the device, and it resets only when it is *)
(* done with its partner.                                                  *)
(***************************************************************************)
EXTENDS Bcu, TLAPS

-----------------------------------------------------------------------------
(* The transport layer *)

\* The properties of the component support each other: A02 numbers a
\* response correctly only because the counters are numbers while a
\* connection is open, and A08 only because a free first buffer means a
\* free second one.  Their conjunction is inductive.
IInv ==
    /\ TypeOK
    /\ BuffersMatchState
    /\ PendingResponsesNumbered
    /\ OpenHasPartner
    /\ RetriesAreFresh

-----------------------------------------------------------------------------
(* Sequence numbers *)

\* Counting up and down stays within the sequence numbers, also from the
\* value -1 the counters have before the first connection.
LEMMA IncType == \A n \in SeqNo \cup {-1} : Inc(n) \in SeqNo
  BY SeqAssumption DEF SeqNo, Inc

\* Zero is a sequence number.
LEMMA ZeroType == 0 \in SeqNo
  BY SeqAssumption DEF SeqNo

\* The telegrams the device builds are telegrams.
LEMMA PlainType == \A a \in Addr, p \in Tpci : Plain(a, p) \in Telegram
  BY ZeroType DEF Plain, Telegram

LEMMA AckType == \A a \in Addr, p \in Tpci, n \in SeqNo : Ack(a, p, n) \in Telegram
  BY DEF Ack, Telegram

LEMMA DataType == \A a \in Addr, n \in SeqNo, d \in Apdus : Data(a, n, d) \in Telegram
  BY DEF Data, Telegram, Tpci

\* The telegrams of a remote device carry its address and are telegrams.
LEMMA ReceivedType ==
  ASSUME NEW r \in Remotes, NEW t \in Received(r)
  PROVE  /\ t \in Telegram
         /\ t.addr = r
         /\ t.tpci = "DATA" => t.apdu \in Apdus
<1> r \in Addr
  BY DEF Addr
<1>1. CASE t \in {Plain(r, p) : p \in {"CONNECT", "DISCONNECT", "UDATA"}}
  <2>1. PICK p \in {"CONNECT", "DISCONNECT", "UDATA"} : t = Plain(r, p)
    BY <1>1
  <2>2. p \in Tpci
    BY DEF Tpci, Control
  <2>3. t \in Telegram
    BY <2>1, <2>2, PlainType
  <2> QED
    BY <2>1, <2>3 DEF Plain
<1>2. CASE t \in {Ack(r, p, n) : p \in {"ACK", "NACK"}, n \in SeqNo}
  <2>1. PICK p \in {"ACK", "NACK"}, n \in SeqNo : t = Ack(r, p, n)
    BY <1>2
  <2>2. p \in Tpci
    BY DEF Tpci, Control
  <2>3. t \in Telegram
    BY <2>1, <2>2, AckType
  <2> QED
    BY <2>1, <2>3 DEF Ack
<1>3. CASE t \in {Data(r, n, d) : n \in SeqNo, d \in Apdus}
  <2>1. PICK n \in SeqNo, d \in Apdus : t = Data(r, n, d)
    BY <1>3
  <2>2. t \in Telegram
    BY <2>1, DataType
  <2> QED
    BY <2>1, <2>2 DEF Data
<1> QED
  BY <1>1, <1>2, <1>3 DEF Received

-----------------------------------------------------------------------------
(* Initial states *)

LEMMA InitIInv == Init => IInv
  BY PlainType, SeqAssumption, RepAssumption, TimeAssumption
  DEF Init, IInv, TypeOK, BuffersMatchState, PendingResponsesNumbered, OpenHasPartner,
      RetriesAreFresh, open, TL4State, BufferState, Addr, Tpci, Control

-----------------------------------------------------------------------------
(* Steps that only hand a telegram to the bus, or take it back *)

\* Handing over a well-formed telegram preserves the invariant when the
\* connection's own state is left alone; the retry count is zero then.
LEMMA SendIInv ==
  ASSUME IInv, NEW tel \in Telegram, Send(tel),
         UNCHANGED <<state, connVars, repCount, bufferVars>>,
         connAge' \in 0 .. ConnTimeout, ackAge' \in 0 .. AckTimeout
  PROVE  IInv'
  BY RepAssumption
  DEF IInv, TypeOK, BuffersMatchState, PendingResponsesNumbered, OpenHasPartner, RetriesAreFresh,
      open, Send, connVars, bufferVars

-----------------------------------------------------------------------------
(* The actions of the state machine *)

LEMMA A01IInv ==
  ASSUME IInv, ~open, NEW r \in Remotes, actionA01Connect(r)
  PROVE  IInv'
  BY ZeroType, TimeAssumption
  DEF IInv, TypeOK, BuffersMatchState, PendingResponsesNumbered, OpenHasPartner, RetriesAreFresh,
      open, actionA01Connect, resetConnection, restartConnectionTimer, isrVars,
      Addr, TL4State, BufferState

\* A response takes the first buffer with the current number, or the second
\* one with the next number when the first is in use.
LEMMA A02IInv ==
  ASSUME IInv, open, NEW t \in Telegram, t.apdu \in Apdus, NEW respond \in BOOLEAN,
         actionA02sendAckPduAndProcessApci(t, respond)
  PROVE  IInv'
<1> DEFINE ack   == Ack(connectedAddr, "ACK", t.seq)
           resp1 == Data(connectedAddr, seqNoSend, t.apdu)
           resp2 == Data(connectedAddr, Inc(seqNoSend), t.apdu)
<1>1. connectedAddr \in Addr /\ seqNoSend \in SeqNo /\ seqNoRcv \in SeqNo /\ t.seq \in SeqNo
  BY DEF IInv, OpenHasPartner, Addr, Telegram
<1>2. Inc(seqNoSend) \in SeqNo /\ Inc(seqNoRcv) \in SeqNo
  BY <1>1, IncType
<1>3. ack \in Telegram
  BY <1>1, AckType DEF Tpci, Control
<1>4. /\ resp1 \in Telegram /\ resp1.tpci = "DATA" /\ resp1.addr = connectedAddr
      /\ resp1.seq = seqNoSend
  BY <1>1, DataType DEF Data
<1>5. /\ resp2 \in Telegram /\ resp2.tpci = "DATA" /\ resp2.addr = connectedAddr
      /\ resp2.seq = Inc(seqNoSend)
  BY <1>1, <1>2, DataType DEF Data
<1>6. ack.tpci \in Control
  BY DEF Ack, Control
<1> HIDE DEF ack, resp1, resp2
<1>7. /\ sendTel' = ack /\ sendBuf' = "SENDING" /\ conCtrlRepCount' = conCtrlRepCount
      /\ seqNoRcv' = Inc(seqNoRcv) /\ connAge' = 0
      /\ UNCHANGED <<state, connectedAddr, seqNoSend, repCount, ackAge>>
  BY DEF actionA02sendAckPduAndProcessApci, sendConControlTelegram, Send, restartConnectionTimer, ack
<1>8. \/ /\ buf1State = "FREE"
         /\ buf1State' = IF respond THEN "ACQUIRED" ELSE "FREE"
         /\ buf1' = IF respond THEN resp1 ELSE buf1
         /\ UNCHANGED <<buf2State, buf2>>
      \/ /\ buf1State # "FREE"
         /\ buf2State' = IF respond THEN "ACQUIRED" ELSE "FREE"
         /\ buf2' = IF respond THEN resp2 ELSE buf2
         /\ UNCHANGED <<buf1State, buf1>>
  BY DEF actionA02sendAckPduAndProcessApci, firstBufferFree, resp1, resp2
<1>9. TypeOK'
  BY <1>2, <1>3, <1>4, <1>5, <1>7, <1>8, TimeAssumption DEF IInv, TypeOK, BufferState
<1>10. BuffersMatchState'
  BY <1>7, <1>8 DEF IInv, TypeOK, BuffersMatchState, open
<1>11. PendingResponsesNumbered'
  BY <1>4, <1>5, <1>7, <1>8 DEF IInv, PendingResponsesNumbered, Inc
<1>12. OpenHasPartner' /\ RetriesAreFresh'
  BY <1>2, <1>6, <1>7 DEF IInv, OpenHasPartner, RetriesAreFresh, open
<1> QED
  BY <1>9, <1>10, <1>11, <1>12 DEF IInv

\* Closing a connection, by telegram or not, leaves nothing pending.
LEMMA A05IInv ==
  ASSUME IInv, state' = "CLOSED", actionA05DisconnectUser
  PROVE  IInv'
  BY DEF IInv, TypeOK, BuffersMatchState, PendingResponsesNumbered, OpenHasPartner,
         RetriesAreFresh, open, actionA05DisconnectUser, resetConnection, connVars, isrVars,
         TL4State, BufferState

LEMMA A06IInv ==
  ASSUME IInv, actionA06DisconnectAndClose
  PROVE  IInv'
<1> DEFINE tel == Ack(connectedAddr, "DISCONNECT", 0)
<1>1. tel \in Telegram
  BY ZeroType, AckType DEF IInv, TypeOK, Tpci, Control
<1>2. tel.tpci \in Control
  BY DEF Ack, Control
<1>3. sendTel' = tel /\ sendBuf' = "SENDING" /\ UNCHANGED conCtrlRepCount
  BY DEF actionA06DisconnectAndClose, sendConControlTelegram, Send
<1> HIDE DEF tel
<1> QED
  BY <1>1, <1>2, <1>3
  DEF IInv, TypeOK, BuffersMatchState, PendingResponsesNumbered, OpenHasPartner, RetriesAreFresh,
      open, actionA06DisconnectAndClose, resetConnection, connVars, TL4State, BufferState

LEMMA A07IInv ==
  ASSUME IInv, ReadyToSend, actionA07SendDirectTelegram
  PROVE  IInv'
<1>1. sendTel' = buf1 /\ sendBuf = "FREE" /\ sendBuf' = "SENDING" /\ UNCHANGED conCtrlRepCount
  BY DEF actionA07SendDirectTelegram, sendPreparedConnectedTelegram, Send
<1> QED
  BY <1>1, RepAssumption, TimeAssumption
  DEF IInv, TypeOK, BuffersMatchState, PendingResponsesNumbered, OpenHasPartner, RetriesAreFresh,
      open, ReadyToSend, actionA07SendDirectTelegram, restartConnectionTimer, connVars,
      TL4State, BufferState

\* The acknowledged response leaves the first buffer; the second one moves
\* up, and its number, the next one so far, is the current one now.
LEMMA A08IInv ==
  ASSUME IInv, state = "OPEN_WAIT", state' = "OPEN_IDLE", actionA08IncrementSequenceNumber
  PROVE  IInv'
<1>1. seqNoSend \in SeqNo /\ Inc(seqNoSend) \in SeqNo
  BY IncType DEF IInv, OpenHasPartner, open
<1>2. UNCHANGED <<sendBuf, sendTel, conCtrlRepCount, repCount, connectedAddr, seqNoRcv, ackAge>>
  BY DEF actionA08IncrementSequenceNumber, isrVars
<1>3. /\ seqNoSend' = Inc(seqNoSend) /\ connAge' = 0
      /\ buf1State' = buf2State /\ buf2State' = "FREE" /\ buf2' = buf2
      /\ buf1' = IF buf2State # "FREE" THEN buf2 ELSE buf1
  BY DEF actionA08IncrementSequenceNumber, restartConnectionTimer
<1>4. TypeOK'
  BY <1>1, <1>2, <1>3, TimeAssumption DEF IInv, TypeOK, TL4State, BufferState
<1>5. BuffersMatchState'
  BY <1>3 DEF IInv, TypeOK, BuffersMatchState
<1>6. PendingResponsesNumbered'
  BY <1>2, <1>3 DEF IInv, PendingResponsesNumbered
<1>7. OpenHasPartner' /\ RetriesAreFresh'
  BY <1>1, <1>2, <1>3 DEF IInv, OpenHasPartner, RetriesAreFresh, open
<1> QED
  BY <1>4, <1>5, <1>6, <1>7 DEF IInv

LEMMA A09IInv ==
  ASSUME IInv, repCount < MaxRep, actionA09RepeatMessage
  PROVE  IInv'
<1>1. sendTel' = buf1 /\ sendBuf = "FREE" /\ sendBuf' = "SENDING" /\ UNCHANGED conCtrlRepCount
  BY DEF actionA09RepeatMessage, sendPreparedConnectedTelegram, Send
<1> QED
  BY <1>1, RepAssumption, TimeAssumption
  DEF IInv, TypeOK, BuffersMatchState, PendingResponsesNumbered, OpenHasPartner, RetriesAreFresh,
      open, actionA09RepeatMessage, restartConnectionTimer, connVars, bufferVars

-----------------------------------------------------------------------------
(* The steps of the component *)

\* A step that changes nothing, or only the clock.
LEMMA StutterIInv ==
  ASSUME IInv, UNCHANGED vars
  PROVE  IInv'
  BY DEF IInv, TypeOK, BuffersMatchState, PendingResponsesNumbered, OpenHasPartner,
         RetriesAreFresh, open, vars, connVars, isrVars, bufferVars

LEMMA TickIInv ==
  ASSUME IInv, Tick
  PROVE  IInv'
  BY TimeAssumption
  DEF IInv, TypeOK, BuffersMatchState, PendingResponsesNumbered, OpenHasPartner,
      RetriesAreFresh, open, Tick, connVars, isrVars, bufferVars

\* The bus is done with a telegram.
LEMMA InterruptIInv ==
  ASSUME IInv, NEW successful \in BOOLEAN, finishedSendingTelegram(successful)
  PROVE  IInv'
  BY RepAssumption
  DEF IInv, TypeOK, BuffersMatchState, PendingResponsesNumbered, OpenHasPartner,
      RetriesAreFresh, open, finishedSendingTelegram, retriesLeft, resetRetries,
      connVars, bufferVars

\* One iteration of the transport layer's part of the main loop.
LEMMA LoopIInv ==
  ASSUME IInv, loop
  PROVE  IInv'
<1>1. CASE loopConnectionTimeout
  BY <1>1, A06IInv DEF loopConnectionTimeout
<1>2. CASE loopSendResponse
  BY <1>2, A07IInv DEF loopSendResponse
<1>3. CASE loopRepeat
  BY <1>3, A09IInv DEF loopRepeat
<1>4. CASE loopGiveUp
  BY <1>4, A06IInv DEF loopGiveUp
<1> QED
  BY <1>1, <1>2, <1>3, <1>4 DEF loop

\* A telegram from any remote device, at any time.
LEMMA ReceiveIInv ==
  ASSUME IInv, NEW r \in Remotes, NEW t \in Received(r), NEW respond \in BOOLEAN,
         processTelegram(t, respond)
  PROVE  IInv'
<1>1. t \in Telegram /\ t.addr = r /\ r \in Addr /\ t.seq \in SeqNo
  BY ReceivedType DEF Telegram, Addr
<1>2. connectedAddr \in Addr
  BY DEF IInv, TypeOK
<1>3. CASE processConControlConnectPDU(t)
  <2>1. CASE ~open /\ actionA01Connect(t.addr)
    BY <1>1, <2>1, A01IInv
  <2>2. CASE UNCHANGED vars
    BY <2>2, StutterIInv
  <2>3. CASE actionA10Disconnect(t.addr)
    <3>1. Ack(t.addr, "DISCONNECT", 0) \in Telegram
      BY <1>1, ZeroType, AckType DEF Tpci, Control
    <3> QED
      BY <2>3, <3>1, SendIInv
      DEF actionA10Disconnect, sendConControlTelegram, IInv, TypeOK
  <2> QED
    BY <1>3, <2>1, <2>2, <2>3 DEF processConControlConnectPDU
<1>4. CASE processConControlDisconnectPDU(t)
  BY <1>4, StutterIInv, A05IInv DEF processConControlDisconnectPDU, fromPartner
<1>5. CASE processAck(t)
  BY <1>5, StutterIInv, A06IInv, A08IInv DEF processAck
<1>6. CASE processNack(t)
  BY <1>6, StutterIInv, A06IInv, A09IInv DEF processNack
<1>7. CASE processIndividual(t, respond)
  <2>1. CASE respond
    <3>1. Plain(t.addr, "UDATA") \in Telegram
      BY <1>1, PlainType DEF Tpci
    <3> QED
      BY <1>7, <2>1, <3>1, SendIInv DEF processIndividual, IInv, TypeOK
  <2>2. CASE ~respond
    BY <1>7, <2>2, StutterIInv DEF processIndividual, vars
  <2> QED
    BY <2>1, <2>2
<1>8. CASE processDirectTelegram(t, respond)
  <2>1. CASE UNCHANGED vars
    BY <2>1, StutterIInv
  <2>2. CASE Accepts(t) /\ actionA02sendAckPduAndProcessApci(t, respond)
    BY <1>1, <2>2, ReceivedType, A02IInv DEF Accepts, fromPartner
  <2>3. ASSUME NEW p \in {"ACK", "NACK"}, sendConControlTelegram(p, connectedAddr, t.seq),
               restartConnectionTimer,
               UNCHANGED <<state, connVars, repCount, bufferVars, ackAge>>
        PROVE  IInv'
    <3>1. Ack(connectedAddr, p, t.seq) \in Telegram
      BY <1>1, <1>2, AckType DEF Tpci, Control
    <3> QED
      BY <2>3, <3>1, SendIInv, TimeAssumption
      DEF sendConControlTelegram, restartConnectionTimer, IInv, TypeOK
  <2> QED
    BY <1>8, <2>1, <2>2, <2>3
    DEF processDirectTelegram, actionA03sendAckPduAgain, actionA04SendNAck
<1> QED
  BY <1>3, <1>4, <1>5, <1>6, <1>7, <1>8
  DEF processTelegram, processConControlAcknowledgmentPDU

\* Every step of the component preserves the invariant.
LEMMA NextIInv == IInv /\ [Next]_vars => IInv'
<1> SUFFICES ASSUME IInv, [Next]_vars
             PROVE  IInv'
  OBVIOUS
<1>1. CASE Receive
  BY <1>1, ReceiveIInv DEF Receive
<1>2. CASE loop
  BY <1>2, LoopIInv
<1>3. CASE disconnect
  BY <1>3, A06IInv DEF disconnect
<1>4. CASE sendPreparedTelegram
  BY <1>4, PlainType, SendIInv DEF sendPreparedTelegram, Tpci, IInv, TypeOK
<1>5. CASE Interrupt
  BY <1>5, InterruptIInv DEF Interrupt
<1>6. CASE Tick
  BY <1>6, TickIInv
<1>7. CASE UNCHANGED vars
  BY <1>7, StutterIInv
<1> QED
  BY <1>1, <1>2, <1>3, <1>4, <1>5, <1>6, <1>7 DEF Next

-----------------------------------------------------------------------------
(* Theorems *)

LEMMA AlwaysIInv == Spec => []IInv
  BY InitIInv, NextIInv, PTL DEF Spec

\* Type correctness: the counters of TLayer4 stay in their ranges, whatever
\* the remote devices send.
THEOREM TypeCorrect == Spec => []TypeOK
<1>1. IInv => TypeOK
  BY DEF IInv
<1> QED
  BY <1>1, AlwaysIInv, PTL

\* The response buffers of knx_tlayer4.cpp agree with the connection state.
THEOREM BuffersConsistent == Spec => []BuffersMatchState
<1>1. IInv => BuffersMatchState
  BY DEF IInv
<1> QED
  BY <1>1, AlwaysIInv, PTL

\* Every response A02 prepares is sent with the number the partner expects.
THEOREM ResponsesNumbered == Spec => []PendingResponsesNumbered
<1>1. IInv => PendingResponsesNumbered
  BY DEF IInv
<1> QED
  BY <1>1, AlwaysIInv, PTL

\* An open connection has a partner and counters that are numbers.
THEOREM PartnerOfOpenConnection == Spec => []OpenHasPartner
<1>1. IInv => OpenHasPartner
  BY DEF IInv
<1> QED
  BY <1>1, AlwaysIInv, PTL

\* finishedSendingTelegram() never leaves a stale retry count.
THEOREM RetryCountFresh == Spec => []RetriesAreFresh
<1>1. IInv => RetriesAreFresh
  BY DEF IInv
<1> QED
  BY <1>1, AlwaysIInv, PTL

\* Every repetition of a response is the same telegram: A02 puts later
\* responses into the second buffer while the first one is being sent.
LEMMA StepKeepsResponse == IInv /\ [Next]_vars => KeepsResponse
<1> SUFFICES ASSUME IInv, [Next]_vars, state = "OPEN_WAIT", state' = "OPEN_WAIT"
             PROVE  UNCHANGED <<buf1, seqNoSend>>
  BY DEF KeepsResponse
<1> buf1State # "FREE"
  BY DEF IInv, BuffersMatchState
<1>1. CASE Receive
  BY <1>1
  DEF Receive, processTelegram, processConControlConnectPDU, processConControlDisconnectPDU,
      processConControlAcknowledgmentPDU, processAck, processNack, processIndividual,
      processDirectTelegram, actionA01Connect, actionA02sendAckPduAndProcessApci, firstBufferFree,
      actionA03sendAckPduAgain, actionA04SendNAck, actionA06DisconnectAndClose,
      actionA09RepeatMessage, actionA10Disconnect, vars, connVars, bufferVars
<1>2. CASE loop
  BY <1>2
  DEF loop, loopConnectionTimeout, loopSendResponse, loopRepeat, loopGiveUp,
      actionA06DisconnectAndClose, actionA07SendDirectTelegram, actionA09RepeatMessage,
      connVars, bufferVars
<1>3. CASE disconnect
  BY <1>3 DEF disconnect, actionA06DisconnectAndClose
<1>4. CASE sendPreparedTelegram \/ Interrupt \/ Tick \/ UNCHANGED vars
  BY <1>4
  DEF sendPreparedTelegram, Interrupt, finishedSendingTelegram, Tick, vars, connVars, bufferVars
<1> QED
  BY <1>1, <1>2, <1>3, <1>4 DEF Next

\* What TLayer4 repeats after a timeout or a T_NACK is the response it sent
\* first, with the same number and data (knx_tlayer4.cpp, actionA09).
THEOREM RepetitionsAreIdentical == Spec => RepetitionsIdentical
  BY AlwaysIInv, StepKeepsResponse, PTL DEF Spec, RepetitionsIdentical

\* What a third device sends leaves an open connection as it is.
LEMMA ThirdPartyKeepsConnection == KeepsConnection
<1> SUFFICES ASSUME open,
                    NEW r \in Remotes \ {connectedAddr}, NEW t \in Received(r),
                    NEW respond \in BOOLEAN, processTelegram(t, respond)
             PROVE  UNCHANGED <<state, connVars, repCount, bufferVars, connAge>>
  BY DEF KeepsConnection, ThirdParty
<1>1. connectedAddr # t.addr
  BY ReceivedType
<1> QED
  BY <1>1
  DEF processTelegram, processConControlConnectPDU, processConControlDisconnectPDU,
      processConControlAcknowledgmentPDU, processAck, processNack, processIndividual,
      processDirectTelegram, fromPartner, actionA10Disconnect, vars, connVars, bufferVars

\* Telegrams of a device that is not the partner leave an open connection as
\* it is: knx_tlayer4.cpp compares the sender with connectedAddr first.
THEOREM ThirdPartiesHarmless == Spec => ConnectionUndisturbed
  BY ThirdPartyKeepsConnection, PTL DEF Spec, ConnectionUndisturbed

-----------------------------------------------------------------------------
(* The main loop *)

\* What is in the receive buffer came from a remote device.
RxReceived == rx # NoTelegram => \E r \in Remotes : rx \in Received(r)

-----------------------------------------------------------------------------
(* The main loop drives TLayer4 through its operations only. *)

LEMMA InitRx == BcuInit => Init /\ RxReceived
  BY DEF BcuInit, RxReceived

LEMMA NextRx == RxReceived /\ [BcuNext]_bcuVars => RxReceived'
<1> SUFFICES ASSUME RxReceived, [BcuNext]_bcuVars
             PROVE  RxReceived'
  OBVIOUS
<1>1. CASE loopReceive
  BY <1>1 DEF RxReceived, loopReceive
<1>2. CASE RemoteSends
  BY <1>2 DEF RxReceived, RemoteSends, BusReceive
<1>3. CASE loopTransport \/ loopRestart \/ loopApplication \/ loopSendGroupTelegram \/ loopFlush
  BY <1>3 DEF RxReceived, loopTransport, loopRestart, loopApplication, loopSendGroupTelegram, loopFlush
<1>5. CASE BusPaused
  BY <1>5 DEF RxReceived, BusPaused, loopFlushed, softSystemReset, systemReset, flushUserMemory
<1>4. CASE BusRepeated \/ BusAcked \/ BusSent \/ BcuTick \/ UNCHANGED bcuVars
  BY <1>4 DEF RxReceived, BusRepeated, BusAcked, BusSent, BcuTick, bcuVars
<1> QED
  BY <1>1, <1>2, <1>3, <1>4, <1>5 DEF BcuNext, MainLoop

\* A telegram taken from the receive buffer is one TLayer4 may receive.
LEMMA ProcessReceivedIsReceive ==
  ASSUME RxReceived, rx # NoTelegram, ProcessReceived
  PROVE  Receive
<1>1. PICK r \in Remotes : rx \in Received(r)
  BY DEF RxReceived
<1>2. \E respond \in BOOLEAN : processTelegram(rx, respond)
  <2>1. \A d : Responds(d) \in BOOLEAN
    BY DEF Responds
  <2> QED
    BY <2>1 DEF ProcessReceived
<1> QED
  BY <1>1, <1>2 DEF Receive

LEMMA StepImplements == RxReceived /\ [BcuNext]_bcuVars => [Next]_vars
<1> SUFFICES ASSUME RxReceived, [BcuNext]_bcuVars
             PROVE  [Next]_vars
  OBVIOUS
<1>1. CASE loopTransport
  BY <1>1 DEF loopTransport, Next
<1>2. CASE loopReceive
  BY <1>2, ProcessReceivedIsReceive DEF loopReceive, Next
<1>3. CASE loopRestart
  BY <1>3 DEF loopRestart, restartDisconnect, Next
<1>4. CASE loopApplication \/ loopSendGroupTelegram \/ loopFlush
  BY <1>4 DEF loopApplication, loopSendGroupTelegram, loopFlush, Next
<1>5. CASE RemoteSends \/ BusRepeated \/ BusAcked \/ BusSent \/ BcuTick \/ UNCHANGED bcuVars
  BY <1>5 DEF RemoteSends, BusReceive, BusRepeated, BusAcked, BusSent, BcuTick, bcuVars, Next
<1>6. CASE BusPaused
  BY <1>6 DEF BusPaused, loopFlushed, softSystemReset, systemReset, flushUserMemory
<1> QED
  BY <1>1, <1>2, <1>3, <1>4, <1>5, <1>6 DEF BcuNext, MainLoop

LEMMA AlwaysRx == BcuSafety => []RxReceived
  BY InitRx, NextRx, PTL DEF BcuSafety

\* The device implements the transport layer: with the main loop of
\* BcuDefault, the requests it processes and the telegrams it sends, every
\* behaviour is one that TLayer4 allows.
THEOREM BcuImplementsTLayer4 == BcuSafety => TransportLayer
<1>1. BcuInit => Init
  BY InitRx
<1> QED
  BY <1>1, AlwaysRx, StepImplements, PTL DEF BcuSafety, TransportLayer, Spec

\* So what is proved of TLayer4 holds in the device.
THEOREM DeviceKeepsTLayer4Properties ==
  BcuSafety => /\ []BuffersMatchState
               /\ []PendingResponsesNumbered
               /\ RepetitionsIdentical
               /\ ConnectionUndisturbed
  BY BcuImplementsTLayer4, BuffersConsistent, ResponsesNumbered, RepetitionsAreIdentical,
     ThirdPartiesHarmless, PTL DEF TransportLayer

-----------------------------------------------------------------------------
(* Restart *)

\* Who has to learn of the restart is connected, and a T_DISCONNECT is due;
\* a device that is about to reset has sent it.
RestartInv ==
    /\ untold # NoAddr => open /\ connectedAddr = untold /\ restartSendDisconnect
    /\ pc \in {"resetting", "ending"} => ~restartSendDisconnect

\* A connection is closed by a T_DISCONNECT of one side or the other.
SendsDisconnect ==
    sendBuf = "FREE" /\ sendBuf' = "SENDING" /\ sendTel' = Plain(connectedAddr, "DISCONNECT")
StaysConnected == open' /\ connectedAddr' = connectedAddr

LEMMA ClosingSends == actionA06DisconnectAndClose => SendsDisconnect
  BY DEF actionA06DisconnectAndClose, SendsDisconnect, sendConControlTelegram, Send, Ack, Plain

LEMMA LoopConnected == ASSUME open, loop PROVE StaysConnected \/ SendsDisconnect
<1>1. CASE loopConnectionTimeout \/ loopGiveUp
  BY <1>1, ClosingSends DEF loopConnectionTimeout, loopGiveUp
<1>2. CASE loopSendResponse
  BY <1>2 DEF loopSendResponse, actionA07SendDirectTelegram, StaysConnected, open, connVars
<1>3. CASE loopRepeat
  BY <1>3 DEF loopRepeat, actionA09RepeatMessage, StaysConnected, open, connVars
<1> QED  BY <1>1, <1>2, <1>3 DEF loop

LEMMA ReceiveConnected ==
  ASSUME NEW r \in Remotes, NEW t \in Received(r), NEW respond, open, processTelegram(t, respond)
  PROVE  StaysConnected \/ SendsDisconnect \/ t = Plain(connectedAddr, "DISCONNECT")
<1>1. CASE processConControlConnectPDU(t)
  BY <1>1 DEF processConControlConnectPDU, actionA10Disconnect, StaysConnected, open, connVars, vars
<1>2. CASE processConControlDisconnectPDU(t)
  <2>1. CASE fromPartner(t)
    <3>1. t.tpci = "DISCONNECT" /\ t.addr = connectedAddr
      BY <1>2, <2>1 DEF processConControlDisconnectPDU, fromPartner
    <3> QED  BY <3>1 DEF Received, Plain, Ack, Data
  <2>2. CASE ~fromPartner(t)
    BY <1>2, <2>2 DEF processConControlDisconnectPDU, StaysConnected, open, connVars, vars
  <2> QED  BY <2>1, <2>2
<1>3. CASE processAck(t)
  BY <1>3, ClosingSends DEF processAck, actionA08IncrementSequenceNumber, StaysConnected, open, connVars, vars
<1>4. CASE processNack(t)
  BY <1>4, ClosingSends DEF processNack, actionA09RepeatMessage, StaysConnected, open, connVars, vars
<1>5. CASE processIndividual(t, respond)
  BY <1>5 DEF processIndividual, StaysConnected, open, connVars
<1>6. CASE processDirectTelegram(t, respond)
  BY <1>6 DEF processDirectTelegram, actionA02sendAckPduAndProcessApci, actionA03sendAckPduAgain,
              actionA04SendNAck, StaysConnected, open, connVars, vars
<1> QED
  BY <1>1, <1>2, <1>3, <1>4, <1>5, <1>6 DEF processTelegram, processConControlAcknowledgmentPDU

\* A request for a restart leaves the connection as it is.
LEMMA RequestStays ==
  ASSUME NEW t, NEW respond, processTelegram(t, respond), Accepts(t) \/ t.tpci = "UDATA", open
  PROVE  StaysConnected
  BY DEF processTelegram, processConControlConnectPDU, processConControlDisconnectPDU,
         processConControlAcknowledgmentPDU, processAck, processNack, processIndividual,
         processDirectTelegram, Accepts, actionA02sendAckPduAndProcessApci, StaysConnected, open, connVars

LEMMA RecordedTold ==
  ASSUME RestartInv, recordTold, open /\ untold # NoAddr => StaysConnected \/ Disconnects(untold),
         restartSendDisconnect' = restartSendDisconnect
  PROVE  untold' # NoAddr => open' /\ connectedAddr' = untold' /\ restartSendDisconnect'
<1> SUFFICES ASSUME untold' # NoAddr PROVE open' /\ connectedAddr' = untold' /\ restartSendDisconnect'
  OBVIOUS
<1>1. untold' = untold /\ ~Disconnects(untold)
  BY DEF recordTold
<1>2. open /\ connectedAddr = untold /\ restartSendDisconnect
  BY <1>1 DEF RestartInv
<1> QED  BY <1>1, <1>2 DEF StaysConnected

LEMMA InitRestartInv == BcuInit => RestartInv
  BY DEF BcuInit, RestartInv

LEMMA ReceiveRestartInv ==
  ASSUME RestartInv, RxReceived, loopReceive
  PROVE  RestartInv'
<1>1. pc = "receive" /\ pc' = "restart"
  BY DEF loopReceive, At
<1> SUFFICES untold' # NoAddr => open' /\ connectedAddr' = untold' /\ restartSendDisconnect'
  BY <1>1 DEF RestartInv
<1>2. CASE rx # NoTelegram /\ ~sendingFrame
  <2>1. ProcessReceived
    BY <1>2 DEF loopReceive
  <2>2. PICK r \in Remotes : rx \in Received(r)
    BY <1>2 DEF RxReceived
  <2>3. PICK respond : processTelegram(rx, respond)
    BY <2>1 DEF ProcessReceived
  <2>4. CASE noRestart
    <3>1. open /\ untold # NoAddr => StaysConnected \/ Disconnects(untold)
      <4>1. SUFFICES ASSUME open, untold # NoAddr PROVE StaysConnected \/ Disconnects(untold)
        OBVIOUS
      <4>2. connectedAddr = untold
        BY <4>1 DEF RestartInv
      <4>3. StaysConnected \/ SendsDisconnect \/ rx = Plain(connectedAddr, "DISCONNECT")
        BY <2>2, <2>3, <4>1, ReceiveConnected
      <4> QED  BY <1>1, <4>2, <4>3 DEF Disconnects, SendsDisconnect
    <3> QED  BY <2>4, <3>1, RecordedTold DEF noRestart
  <2>5. CASE (Accepts(rx) \/ rx.tpci = "UDATA") /\ \E type : scheduleRestart(type)
    BY <2>3, <2>5, RequestStays DEF scheduleRestart, StaysConnected
  <2> QED  BY <2>1, <2>4, <2>5 DEF ProcessReceived, processApci
<1>3. CASE ~(rx # NoTelegram /\ ~sendingFrame)
  BY <1>3 DEF loopReceive, RestartInv, restartVars, vars, connVars, open
<1> QED  BY <1>2, <1>3

LEMMA TransportRestartInv ==
  ASSUME RestartInv, loopTransport
  PROVE  RestartInv'
<1>1. pc' = "receive" /\ recordTold /\ restartSendDisconnect' = restartSendDisconnect
  BY DEF loopTransport, At
<1>2. open /\ untold # NoAddr => StaysConnected \/ Disconnects(untold)
  <2> SUFFICES ASSUME open, untold # NoAddr PROVE StaysConnected \/ Disconnects(untold)
    OBVIOUS
  <2>1. connectedAddr = untold
    BY DEF RestartInv
  <2>2. CASE loop
    BY <2>1, <2>2, LoopConnected DEF Disconnects, SendsDisconnect
  <2>3. CASE UNCHANGED vars
    BY <2>3 DEF StaysConnected, open, vars, connVars
  <2> QED  BY <2>2, <2>3 DEF loopTransport
<1>3. untold' # NoAddr => open' /\ connectedAddr' = untold' /\ restartSendDisconnect'
  BY <1>1, <1>2, RecordedTold
<1> QED  BY <1>1, <1>3 DEF RestartInv

LEMMA LoopRestartInv ==
  ASSUME TypeOK, RestartInv, loopRestart
  PROVE  RestartInv'
<1>1. CASE restartPossible /\ restartSendDisconnect
  <2>1. restartDisconnect /\ pc' = "application" /\ recordTold
    BY <1>1 DEF loopRestart
  <2>2. SendsDisconnect
    BY <2>1, ClosingSends DEF restartDisconnect, disconnect
  <2>3. untold' = NoAddr
    BY <2>1, <2>2 DEF recordTold, Disconnects, SendsDisconnect, RestartInv
  <2> QED  BY <2>1, <2>3 DEF RestartInv
<1>2. CASE ~(restartPossible /\ restartSendDisconnect)
  <2>1. /\ UNCHANGED <<vars, restartSendDisconnect>> /\ recordTold
        /\ pc' = IF restartPossible /\ restartAge = RestartDelay THEN "resetting" ELSE "application"
    BY <1>2 DEF loopRestart
  <2>2. untold' # NoAddr => open' /\ connectedAddr' = untold' /\ restartSendDisconnect'
    BY <2>1, RecordedTold DEF StaysConnected, open, vars, connVars
  <2>3. pc' = "resetting" => ~restartSendDisconnect
    BY <1>2, <2>1 DEF restartPossible, sendingFrame, TypeOK
  <2>4. sendBuf' = sendBuf /\ pc' # "ending"
    BY <2>1 DEF vars, isrVars
  <2> QED  BY <2>1, <2>2, <2>3, <2>4 DEF RestartInv
<1> QED  BY <1>1, <1>2

LEMMA NextRestartInv ==
  TypeOK /\ RxReceived /\ RestartInv /\ [BcuNext]_bcuVars => RestartInv'
<1> SUFFICES ASSUME TypeOK, RxReceived, RestartInv, [BcuNext]_bcuVars
             PROVE  RestartInv'
  OBVIOUS
<1>1. CASE loopTransport \/ loopReceive \/ loopRestart
  BY <1>1, TransportRestartInv, ReceiveRestartInv, LoopRestartInv
<1>2. CASE loopApplication \/ loopFlush
  <2>1. /\ pc' \in {"transport", "flush", "pausing"}
        /\ UNCHANGED <<vars, restartVars>>
    BY <1>2 DEF loopApplication, loopFlush
  <2> QED  BY <2>1 DEF RestartInv, restartVars, vars, connVars, open
<1>3. CASE loopSendGroupTelegram
  BY <1>3 DEF loopSendGroupTelegram, At, sendPreparedTelegram, RestartInv, restartVars, connVars, open
<1>4. CASE BusPaused
  <2>1. /\ UNCHANGED <<vars, restartVars>>
        /\ pc' \in {"resetting", "ending"} => pc \in {"resetting", "ending"}
    BY <1>4 DEF BusPaused, loopFlushed, softSystemReset, systemReset, flushUserMemory, At
  <2> QED  BY <2>1 DEF RestartInv, restartVars, vars, connVars, isrVars, open
<1>5. CASE RemoteSends \/ BusRepeated \/ BusAcked
  <2>1. UNCHANGED <<vars, pc, restartVars>>
    BY <1>5 DEF RemoteSends, BusReceive, BusRepeated, BusAcked
  <2> QED  BY <2>1 DEF RestartInv, restartVars, vars, connVars, isrVars, open
<1>6. CASE BusSent
  BY <1>6 DEF BusSent, Interrupt, finishedSendingTelegram, RestartInv, restartVars, connVars, open
<1>7. CASE BcuTick
  BY <1>7 DEF BcuTick, Tick, RestartInv, connVars, isrVars, open
<1>8. CASE UNCHANGED bcuVars
  BY <1>8 DEF bcuVars, RestartInv, restartVars, vars, connVars, isrVars, open
<1> QED
  BY <1>1, <1>2, <1>3, <1>4, <1>5, <1>6, <1>7, <1>8 DEF BcuNext, MainLoop

\* The only step that resets the device ends the wait in bus->end().
LEMMA ResetStep ==
  ASSUME RestartInv, [BcuNext]_bcuVars, ~down, down'
  PROVE  untold = NoAddr
<1>1. systemReset
  BY DEF BcuNext, MainLoop, loopTransport, loopReceive, loopRestart, loopApplication,
         loopSendGroupTelegram, loopFlush, BusPaused, loopFlushed, softSystemReset, flushUserMemory,
         RemoteSends, BusReceive, BusRepeated, BusAcked, BusSent, BcuTick, bcuVars
<1> QED
  BY <1>1 DEF systemReset, At, RestartInv

\* When the device resets, the device that was connected when the restart was
\* scheduled has closed the connection or was sent a T_DISCONNECT, whatever
\* other devices and requests did.
THEOREM ResetTellsPartner == BcuSafety => PartnerIsTold
<1>1. RestartInv /\ [BcuNext]_bcuVars
        => [~down /\ down' => untold = NoAddr]_bcuVars
  BY ResetStep
<1>2. BcuSafety => []TypeOK
  BY BcuImplementsTLayer4, TypeCorrect, PTL DEF TransportLayer
<1>3. BcuSafety => []RestartInv
  BY <1>2, AlwaysRx, InitRestartInv, NextRestartInv, PTL DEF BcuSafety
<1> QED
  BY <1>1, <1>3, PTL DEF BcuSafety, PartnerIsTold

-----------------------------------------------------------------------------
(* Type correctness of the main loop's own state *)

LoopTypeOK ==
    /\ pc \in {"transport", "receive", "restart", "application", "flush",
              "pausing", "resetting", "ending"}
    /\ rx \in Telegram \cup {NoTelegram}
    /\ acking \in BOOLEAN
    /\ restartType \in {"None", "Basic", "Master"}
    /\ restartSendDisconnect \in BOOLEAN
    /\ restartAge \in 0 .. RestartDelay
    /\ untold \in Addr
    /\ modified \in BOOLEAN
    /\ down \in BOOLEAN
    /\ received \in 0 .. MaxReceived
    /\ groupSent \in 0 .. MaxGroup

LEMMA InitLoopTypes == BcuInit => LoopTypeOK
<1>1. 0 \in 0 .. RestartDelay /\ 0 \in 0 .. MaxReceived /\ 0 \in 0 .. MaxGroup /\ NoAddr \in Addr
  BY BcuAssumption DEF Addr
<1> QED  BY <1>1, Zenon DEF BcuInit, LoopTypeOK

\* Whether a connection is open or a telegram on its way is a truth value.
LEMMA OpenType == open \in BOOLEAN
  BY DEF open

LEMMA RecordType == ASSUME LoopTypeOK, recordTold PROVE untold' \in Addr
  BY DEF recordTold, LoopTypeOK, Addr

RestartTypeOK ==
    /\ restartType \in {"None", "Basic", "Master"}
    /\ restartSendDisconnect \in BOOLEAN
    /\ restartAge \in 0 .. RestartDelay
    /\ untold \in Addr

LEMMA NoRestartTypes == ASSUME LoopTypeOK, noRestart PROVE RestartTypeOK'
  BY RecordType, Zenon DEF noRestart, LoopTypeOK, RestartTypeOK

\* What processApci() schedules.
LEMMA ProcessApciTypes ==
  ASSUME LoopTypeOK, connectedAddr \in Addr, NEW d, processApci(d)
  PROVE  modified' \in BOOLEAN /\ RestartTypeOK'
<1>1. 0 \in 0 .. RestartDelay
  BY BcuAssumption
<1>2. modified' \in BOOLEAN
  BY DEF processApci
<1>3. CASE \E type \in {"Basic", "Master"} : scheduleRestart(type)
  <2>1. untold' \in Addr
    BY <1>3 DEF scheduleRestart, Addr
  <2> QED  BY <1>1, <1>2, <1>3, <2>1, OpenType, Zenon DEF scheduleRestart, RestartTypeOK
<1>4. CASE noRestart
  BY <1>2, <1>4, NoRestartTypes
<1> QED  BY <1>3, <1>4 DEF processApci

LEMMA NextLoopTypes == LoopTypeOK /\ connectedAddr \in Addr /\ [BcuNext]_bcuVars => LoopTypeOK'
<1> SUFFICES ASSUME LoopTypeOK, connectedAddr \in Addr, [BcuNext]_bcuVars PROVE LoopTypeOK'
  OBVIOUS
<1>1. CASE loopReceive
  <2>1. /\ pc' = "restart" /\ rx' \in {rx, NoTelegram}
        /\ UNCHANGED <<acking, down, received, groupSent>>
    BY <1>1 DEF loopReceive, At
  <2>2. \/ \E d : processApci(d)
        \/ noRestart /\ UNCHANGED modified
        \/ UNCHANGED <<modified, restartVars>>
    BY <1>1 DEF loopReceive, ProcessReceived
  <2>3. modified' \in BOOLEAN /\ RestartTypeOK'
    <3>1. CASE \E d : processApci(d)
      BY <3>1, ProcessApciTypes
    <3>2. CASE noRestart /\ UNCHANGED modified
      BY <3>2, NoRestartTypes DEF LoopTypeOK
    <3>3. CASE UNCHANGED <<modified, restartVars>>
      BY <3>3 DEF restartVars, LoopTypeOK, RestartTypeOK
    <3> QED  BY <2>2, <3>1, <3>2, <3>3
  <2> QED  BY <2>1, <2>3, Zenon DEF LoopTypeOK, RestartTypeOK
<1>2. CASE loopRestart
  <2>1. /\ UNCHANGED <<rx, acking, restartType, restartAge, modified, down, received, groupSent>>
        /\ recordTold
    BY <1>2 DEF loopRestart
  <2>2. /\ restartSendDisconnect' \in {restartSendDisconnect, FALSE}
        /\ pc' \in {"application", "resetting"}
    BY <1>2 DEF loopRestart, restartDisconnect
  <2>3. untold' \in Addr
    BY <2>1, RecordType
  <2> QED  BY <2>1, <2>2, <2>3, Zenon DEF LoopTypeOK
<1>3. CASE loopTransport
  <2>1. /\ pc' = "receive" /\ recordTold
        /\ UNCHANGED <<rx, acking, restartType, restartSendDisconnect, restartAge, modified,
                       down, received, groupSent>>
    BY <1>3 DEF loopTransport, At
  <2>2. untold' \in Addr
    BY <2>1, RecordType
  <2> QED  BY <2>1, <2>2, Zenon DEF LoopTypeOK
<1>4. CASE loopSendGroupTelegram
  <2>1. groupSent' \in 0 .. MaxGroup
    BY <1>4, BcuAssumption DEF loopSendGroupTelegram, LoopTypeOK
  <2> QED
    BY <1>4, <2>1 DEF loopSendGroupTelegram, At, restartVars, LoopTypeOK
<1>5. CASE loopApplication \/ loopFlush
  <2>1. /\ pc' \in {"transport", "flush", "pausing"}
        /\ UNCHANGED <<rx, acking, restartVars, modified, down, received, groupSent>>
    BY <1>5 DEF loopApplication, loopFlush
  <2> QED  BY <2>1 DEF restartVars, LoopTypeOK
<1>10. CASE BusPaused
  <2>1. /\ pc' \in {"transport", "ending"} /\ modified' \in {modified, FALSE} /\ down' \in {down, TRUE}
        /\ UNCHANGED <<rx, acking, restartVars, received, groupSent>>
    BY <1>10 DEF BusPaused, loopFlushed, softSystemReset, systemReset, flushUserMemory, At
  <2> QED  BY <2>1 DEF restartVars, LoopTypeOK
<1>6. CASE RemoteSends \/ BusRepeated
  <2>1. rx' \in Telegram \cup {NoTelegram}
    BY <1>6, ReceivedType DEF RemoteSends, BusReceive, BusRepeated, LoopTypeOK
  <2>2. received' \in 0 .. MaxReceived
    BY <1>6, BcuAssumption DEF RemoteSends, BusReceive, BusRepeated, LoopTypeOK
  <2>3. UNCHANGED <<pc, restartVars, modified, down, groupSent>> /\ acking' = TRUE
    BY <1>6 DEF RemoteSends, BusReceive, BusRepeated
  <2> QED  BY <2>1, <2>2, <2>3 DEF restartVars, LoopTypeOK
<1>7. CASE BusAcked \/ BusSent
  BY <1>7 DEF BusAcked, BusSent, restartVars, LoopTypeOK
<1>8. CASE BcuTick
  <2>1. restartAge' \in 0 .. RestartDelay
    BY <1>8, BcuAssumption DEF BcuTick, LoopTypeOK
  <2> QED  BY <1>8, <2>1 DEF BcuTick, LoopTypeOK
<1>9. CASE UNCHANGED bcuVars
  BY <1>9 DEF bcuVars, restartVars, LoopTypeOK
<1> QED
  BY <1>1, <1>2, <1>3, <1>4, <1>5, <1>6, <1>7, <1>8, <1>9, <1>10 DEF BcuNext, MainLoop

\* The main loop and the transport layer it drives keep their types, for any
\* delay and any number of telegrams.
THEOREM BcuTypeCorrect == BcuSafety => []BcuTypeOK
<1>1. LoopTypeOK /\ TypeOK => BcuTypeOK
  BY Zenon DEF LoopTypeOK, BcuTypeOK
<1>2. TypeOK => connectedAddr \in Addr
  BY DEF TypeOK
<1>3. BcuSafety => []TypeOK
  BY BcuImplementsTLayer4, TypeCorrect, PTL DEF TransportLayer
<1>4. BcuSafety => []LoopTypeOK
  BY <1>2, <1>3, InitLoopTypes, NextLoopTypes, PTL DEF BcuSafety
<1> QED
  BY <1>1, <1>3, <1>4, PTL
==============================================================================

--------------------------------- MODULE Bcu ---------------------------------
(***************************************************************************)
(* The main loop of a BCU: BcuDefault::loop() and BcuBase::loop() of        *)
(* sblib/src/eib/bcu_default.cpp and bcu_base.cpp, which drive the          *)
(* transport layer (module TLayer4), restart the device on request and      *)
(* save the user memory.  The bus is seen through its interface: a receive  *)
(* buffer, sendingFrame(), and the callback finishedSendingTelegram() from  *)
(* its interrupt.  The loop runs statement group by statement group (pc);   *)
(* interrupts and time pass between any two of them.                        *)
(***************************************************************************)
EXTENDS TLayer4

CONSTANTS
    NoTelegram,     \* an empty receive buffer (telegramLen = 0)
    RestartDelay,   \* the 250 ms of restartTimeout, in ticks
    MaxReceived,    \* bound: telegrams the bus receives in a behaviour
    MaxGroup        \* bound: group telegrams the application sends

ASSUME BcuAssumption ==
    /\ RestartDelay \in Nat \ {0}
    /\ MaxReceived \in Nat
    /\ MaxGroup \in Nat
    /\ NoTelegram \notin Telegram

VARIABLES
    pc,                     \* what the main loop does next
    rx,                     \* bus.telegram, when telegramReceived()
    acking,                 \* sendAck # 0: the bus acknowledges a frame
    restartType,            \* a restart is scheduled
    restartSendDisconnect,  \* a T_DISCONNECT is due before the restart
    restartAge,             \* elapsed time of restartTimeout
    untold,                 \* history: who still has to learn of the restart
    modified,               \* userEeprom->isModified()
    down,                   \* the device has reset
    received,               \* number of telegrams received so far
    groupSent               \* number of group telegrams sent so far

restartVars == <<restartType, restartSendDisconnect, restartAge, untold>>
bcuVars == <<vars, pc, rx, acking, restartVars, modified, down, received, groupSent>>

BcuTypeOK ==
    /\ TypeOK
    /\ pc \in {"transport", "receive", "restart", "application", "flush",
              "pausing", "resetting", "ending"}
    /\ rx \in Telegram \cup {NoTelegram}
    /\ acking \in BOOLEAN
    /\ restartType \in {"None", "Basic", "Master"}
    /\ restartSendDisconnect \in BOOLEAN
    /\ restartAge \in 0 .. RestartDelay
    /\ untold \in Addr
    /\ modified \in BOOLEAN
    /\ down \in BOOLEAN
    /\ received \in 0 .. MaxReceived
    /\ groupSent \in 0 .. MaxGroup

BcuInit ==
    /\ Init
    /\ pc = "transport"
    /\ rx = NoTelegram
    /\ acking = FALSE
    /\ restartType = "None"
    /\ restartSendDisconnect = FALSE
    /\ restartAge = 0
    /\ untold = NoAddr
    /\ modified = FALSE
    /\ down = FALSE
    /\ received = 0
    /\ groupSent = 0

\* As in TLayer4, operators named ...Bug are not part of the specification.
sendingFrameBug == acking
sendingFrame == sendBuf = "SENDING" \/ acking

-----------------------------------------------------------------------------
(* The main loop *)

At(here, next) == ~down /\ pc = here /\ pc' = next

\* The history of a restart: the device whose connection is open when the
\* restart is scheduled has to learn of it, until it closes the connection
\* itself or a T_DISCONNECT for it is handed to the bus.
Disconnects(a) ==
    \/ pc = "receive" /\ rx = Plain(a, "DISCONNECT")
    \/ sendBuf = "FREE" /\ sendBuf' = "SENDING" /\ sendTel' = Plain(a, "DISCONNECT")
recordTold == untold' = IF Disconnects(untold) THEN NoAddr ELSE untold

\* TLayer4::loop(): returns at once while the send buffer is in use, and
\* does nothing when no event is due.
loopTransport ==
    /\ At("transport", "receive")
    /\ \/ loop
       \/ /\ sendBuf # "FREE" \/ ~(ConnectionTimedOut \/ ReadyToSend \/ AckTimedOut)
          /\ UNCHANGED vars
    /\ recordTold
    /\ UNCHANGED <<rx, acking, restartType, restartSendDisconnect, restartAge, modified,
                   down, received, groupSent>>

\* What a request asks of the application layer, as far as the main loop is
\* concerned: a read is answered, a write changes the user memory, and the
\* two restart requests schedule a restart, the second after an answer.
Responds(d) == d \in {"read", "masterReset"}

\* only for a request that came over the connection
scheduleRestartBug(type) ==
    /\ restartType' = type
    /\ restartSendDisconnect' = Accepts(rx)
    /\ restartAge' = 0
    /\ untold' = IF open THEN connectedAddr ELSE NoAddr

scheduleRestart(type) ==
    /\ restartType' = type
    /\ restartSendDisconnect' = open
    /\ restartAge' = 0
    /\ untold' = IF open THEN connectedAddr ELSE NoAddr

noRestart == UNCHANGED <<restartType, restartSendDisconnect, restartAge>> /\ recordTold

\* What processApci() does besides answering.
processApci(d) ==
    /\ modified' = (modified \/ d = "write")
    /\ CASE d = "basicRestart" -> scheduleRestart("Basic")
         [] d = "masterReset"  -> scheduleRestart("Master")
         [] OTHER              -> noRestart

\* A received telegram is processed only while nothing is being sent; then
\* it is discarded.  A request outside a connection may ask for anything.
ProcessReceived ==
    \/ /\ Accepts(rx)
       /\ processTelegram(rx, Responds(rx.apdu))
       /\ processApci(rx.apdu)
    \/ /\ rx.tpci = "UDATA"
       /\ \E d \in Apdus : processTelegram(rx, Responds(d)) /\ processApci(d)
    \/ /\ rx.tpci # "UDATA" /\ ~Accepts(rx)
       /\ processTelegram(rx, FALSE)
       /\ noRestart
       /\ UNCHANGED modified

loopReceive ==
    /\ At("receive", "restart")
    /\ IF rx # NoTelegram /\ ~sendingFrame
       THEN /\ ProcessReceived
            /\ rx' = NoTelegram
       ELSE UNCHANGED <<vars, rx, modified, restartVars>>
    /\ UNCHANGED <<acking, down, received, groupSent>>

\* The restart in steps: a T_DISCONNECT in one iteration of the loop, the
\* reset in a later one, when the timeout has expired.
restartPossibleBug == restartType # "None"
restartPossible == restartType # "None" /\ ~sendingFrame

restartDisconnectAgainBug == disconnect /\ UNCHANGED restartSendDisconnect

restartDisconnect ==
    /\ disconnect
    /\ restartSendDisconnect' = FALSE

loopRestart ==
    /\ ~down /\ pc = "restart"
    /\ IF restartPossible /\ restartSendDisconnect
       THEN restartDisconnect /\ pc' = "application"
       ELSE /\ pc' = IF restartPossible /\ restartAge = RestartDelay
                     THEN "resetting" ELSE "application"
            /\ UNCHANGED <<vars, restartSendDisconnect>>
    /\ recordTold
    /\ UNCHANGED <<rx, acking, restartType, restartAge, modified, down, received, groupSent>>

\* BcuDefault::loop() goes on only if nothing is being sent; it sends a
\* group telegram, which goes to no device in particular, if the application
\* has one, within the rate limit.
loopApplication ==
    /\ ~down /\ pc = "application"
    /\ \/ sendingFrame /\ pc' = "transport" /\ UNCHANGED vars
       \/ ~sendingFrame /\ pc' = "flush" /\ UNCHANGED vars
    /\ UNCHANGED <<rx, acking, restartVars, modified, down, received, groupSent>>

loopSendGroupTelegram ==
    /\ ~sendingFrame /\ groupSent < MaxGroup
    /\ At("application", "flush")
    /\ sendPreparedTelegram /\ sendTel'.addr = NoAddr
    /\ groupSent' = groupSent + 1
    /\ UNCHANGED <<rx, acking, restartVars, modified, down, received>>

\* BcuDefault::loop() calls flushUserMemory() for a changed memory, not during
\* a connection.
loopFlush ==
    /\ ~down /\ pc = "flush"
    /\ pc' = IF modified /\ ~open THEN "pausing" ELSE "transport"
    /\ UNCHANGED <<vars, rx, acking, restartVars, modified, down, received, groupSent>>

MainLoop == loopTransport \/ loopReceive \/ loopRestart \/ loopApplication
                \/ loopSendGroupTelegram \/ loopFlush

-----------------------------------------------------------------------------
(* Waiting in bus->pause().  It ends when the bus interrupt reaches a state  *)
(* that can be paused (module Bus), never before an acknowledge frame has    *)
(* been sent; a telegram may still wait for its first transmission.          *)

inPause == pc \in {"pausing", "resetting", "ending"}

\* flushUserMemory(): pause, save, resume.
flushUserMemory ==
    /\ ~acking
    /\ modified' = FALSE
    /\ UNCHANGED <<vars, rx, acking, restartVars, down, received, groupSent>>

loopFlushed == At("pausing", "transport") /\ flushUserMemory

\* softSystemReset(): flushUserMemory(), then bus->end(), which pauses the bus
\* again, when the last telegram has been sent, too, then the reset.
softSystemReset == At("resetting", "ending") /\ flushUserMemory

systemReset ==
    /\ At("ending", "ending")
    /\ ~sendingFrame
    /\ down' = TRUE
    /\ UNCHANGED <<vars, rx, acking, restartVars, modified, received, groupSent>>

BusPaused == loopFlushed \/ softSystemReset \/ systemReset

-----------------------------------------------------------------------------
(* The bus interrupt and the clock *)

\* A frame for this device has been received into the free buffer; it will
\* be acknowledged on the bus.
BusReceive(t) ==
    /\ ~down /\ rx = NoTelegram /\ received < MaxReceived
    /\ rx' = t
    /\ acking' = TRUE
    /\ received' = received + 1
    /\ UNCHANGED <<vars, pc, restartVars, modified, down, groupSent>>

\* The repetition of a telegram that was received before, because its ACK
\* was lost, is only acknowledged.
BusRepeated ==
    /\ ~down /\ rx = NoTelegram /\ received \in 1 .. MaxReceived - 1
    /\ acking' = TRUE
    /\ received' = received + 1
    /\ UNCHANGED <<vars, pc, rx, restartVars, modified, down, groupSent>>

BusAcked ==
    /\ ~down /\ acking
    /\ acking' = FALSE
    /\ UNCHANGED <<vars, pc, rx, restartVars, modified, down, received, groupSent>>

BusSent ==
    /\ ~down /\ Interrupt
    /\ UNCHANGED <<pc, rx, acking, restartVars, modified, down, received, groupSent>>

BcuTick ==
    /\ ~down /\ Tick
    /\ restartAge' = IF restartType # "None" /\ restartAge < RestartDelay
                     THEN restartAge + 1 ELSE restartAge
    /\ UNCHANGED <<pc, rx, acking, restartType, restartSendDisconnect, untold, modified,
                   down, received, groupSent>>

RemoteSends == \E r \in Remotes : \E t \in Received(r) : BusReceive(t)

BcuNext == MainLoop \/ BusPaused \/ RemoteSends \/ BusRepeated \/ BusAcked \/ BusSent \/ BcuTick

\* The main loop runs but for its waits in pause(), and the clock runs.
LoopFairness == WF_bcuVars(MainLoop) /\ WF_bcuVars(BcuTick)
\* The bus timer interrupt always comes: every frame on the bus ends, and the
\* bus can be paused again and again.
BusFairness == WF_bcuVars(BusAcked) /\ WF_bcuVars(BusSent) /\ SF_bcuVars(BusPaused)

BcuSafety == BcuInit /\ [][BcuNext]_bcuVars
BcuSpec == BcuSafety /\ LoopFairness

-----------------------------------------------------------------------------
(* Properties *)

\* The main loop drives the transport layer only through its operations:
\* what module TLayer4 guarantees holds in the device.
TransportLayer == Spec

\* Whoever was connected when a restart was scheduled knows of it when the
\* device resets, although the decision to send a T_DISCONNECT is old when it
\* is used: the connection may be closed by its partner, by a timeout or an
\* error, and another device connect, before the T_DISCONNECT is sent
\* (bcu_base.cpp:184, 103).
PartnerIsTold == [][~down /\ down' => untold = NoAddr]_bcuVars

\* The loop waits for the bus only in pause(), where it saves the user memory
\* or restarts: sendingFrame() is tested before every operation that would
\* wait in acquireSendBuffer(). So much without any fairness of the bus; if
\* its interrupt always comes, the loop always comes round.
LoopKeepsRunning ==
    /\ []<>(pc = "transport" \/ inPause)
    /\ BusFairness => []<>(pc = "transport" \/ down)

\* If the bus interrupt always comes, a scheduled restart happens, whatever else
\* the remote devices request.
RestartHappens == BusFairness => (restartType # "None" ~> down)

\* If the bus interrupt always comes, what a remote device wrote into the user
\* memory is saved, even when it vanishes without closing its connection.
WritesAreSaved == BusFairness => (modified ~> ~modified)

\* "3. Check T_ACK, loop() once so APCI_MASTER_RESET_RESPONSE_PDU will be
\* send" (test_prot_apci.cpp:125): the response to a restart request goes
\* out before the T_DISCONNECT, which drops pending responses.
RestartAnswered == [][restartSendDisconnect /\ ~restartSendDisconnect' => buf1State # "ACQUIRED"]_bcuVars

=============================================================================

------------------------------ MODULE BusProofs ------------------------------
(* Proofs about the link layer: one inductive invariant, BusInv, from which *)
(* the safety properties of the state machine follow.                       *)
EXTENDS Bus, TLAPS

\* Type correctness in four parts, which are proved one by one.
Flags ==
    /\ sendCurTelegram \in BOOLEAN /\ repeated \in BOOLEAN
    /\ sendAck \in BOOLEAN
    /\ wait_for_ack_from_remote \in BOOLEAN
    /\ busy_wait_from_remote \in BOOLEAN
    /\ repeatTelegram \in BOOLEAN
    /\ telegramLen \in BOOLEAN
    /\ onceSent \in BOOLEAN /\ cutOff \in BOOLEAN

Modes ==
    /\ state \in States
    /\ telegram \in Contents \cup {NoTel}
    /\ irq \in {"all", "match", "none"}
    /\ pc \in {"run", "enqueued", "pausing", "ending", "paused", "ended"}
    /\ lastOnBus \in {"ours", "data", "foreign", "silence"}

Counts ==
    /\ handedBack \in 0 .. MaxHandBack
    /\ nextByteIndex \in 0 .. TelegramSize
    /\ sendRetries \in 0 .. SendRetriesMax
    /\ sendBusyRetries \in 0 .. SendBusyRetriesMax
    /\ collisions \in 0 .. CollisionRetryMax + 1

AnswersCounted ==
    answers \in [busy : 0 .. MaxAttempts + 1, other : 0 .. MaxAttempts + 1, end : Ends]

\* The counts are below their limits while a telegram is on its way out,
\* which is marked by then, and the collisions until its answer is due.
CountsInBounds ==
    /\ state \in Sending \cup AckDue /\ ~sendAck => collisions <= CollisionRetryMax
    /\ state \in Sending /\ ~sendAck /\ repeatTelegram => ~retriesExhausted /\ repeated

\* nextByteIndex stays within the telegram that is being sent.
BytesInBounds ==
    /\ state \in {"SEND_START_BIT", "SEND_BIT_0"} /\ ~sendAck => nextByteIndex < TelegramSize
    /\ state = "SEND_BITS_OF_BYTE" /\ ~sendAck => nextByteIndex >= 1

\* An ACK is waited for only after our own telegram, unless that was cut off.
AckIsForUs ==
    wait_for_ack_from_remote /\ ~cutOff => lastOnBus = "ours" /\ collisions <= CollisionRetryMax

\* The states that send or await an acknowledge frame have one to do so.
AckStates ==
    /\ state = "RECV_WAIT_FOR_ACK_TX_START" => sendAck
    /\ state \in AckDue => wait_for_ack_from_remote

\* A telegram that is given up was marked if it is to be sent again.
GivenUpMarked ==
    /\ sendRetries > 0 \/ sendBusyRetries > 0 => repeated
    /\ collisions > CollisionRetryMax /\ ~cutOff => (repeatTelegram => repeated)

\* What the state machine remembers of the transmissions of a telegram.
SentIsRemembered ==
    sendCurTelegram /\ ~cutOff
        => (onceSent <=> repeated \/ repeatTelegram \/ wait_for_ack_from_remote)

BusInv ==
    /\ Flags /\ Modes /\ Counts /\ AnswersCounted
    /\ SendsOnlyTelegrams /\ StateMatchesWork /\ PausedIsQuiet
    /\ CountsInBounds /\ BytesInBounds
    /\ AckIsForUs /\ AckStates /\ GivenUpMarked /\ SentIsRemembered

\* What Interrupt(event) adds to the event.
Serving ==
    /\ irq # "none"
    /\ irq' = IF state' \in EdgesAsBefore THEN irq ELSE "all"
    /\ UNCHANGED <<pc, cutOff>>

USE DEF WAIT_50BT, RECV_WAIT, Listening, Sending, AckDue, States, Ends, MaxAttempts

LEMMA TypeParts == BusTypeOK <=> Flags /\ Modes /\ Counts /\ AnswersCounted
  BY DEF BusTypeOK, Flags, Modes, Counts, AnswersCounted

-----------------------------------------------------------------------------
(* The invariant holds initially and is preserved by every interrupt and by *)
(* every step of the main loop.                                             *)

LEMMA AnsweredCounts ==
  ASSUME AnswersCounted, NEW kind \in {"busy", "other"}, NEW end \in Ends, answered(kind, end)
  PROVE  AnswersCounted'
<1> DEFINE counted == IF answers.end = "open" THEN answers
                      ELSE [busy |-> 0, other |-> 0, end |-> "open"]
           Counted == [busy : 0 .. MaxAttempts + 1, other : 0 .. MaxAttempts + 1, end : Ends]
           more(n) == IF n > MaxAttempts THEN n ELSE n + 1
<1>1. counted \in Counted
  BY BusAssumption DEF AnswersCounted
<1>2. answers' = [counted EXCEPT ![kind] = more(counted[kind]), !.end = end]
  BY DEF answered
<1> HIDE DEF counted
<1>3. \A n \in 0 .. MaxAttempts + 1 : more(n) \in 0 .. MaxAttempts + 1
  BY BusAssumption
<1> HIDE DEF more
<1>4. CASE kind = "busy"
  BY <1>1, <1>2, <1>3, <1>4 DEF AnswersCounted
<1>5. CASE kind = "other"
  BY <1>1, <1>2, <1>3, <1>5 DEF AnswersCounted
<1> QED
  BY <1>4, <1>5

LEMMA BusInvInit ==
  ASSUME BusInit
  PROVE  BusInv
<1> USE BusAssumption DEF BusInv, BusInit
<1>1. Flags BY DEF Flags
<1>2. Modes BY DEF Modes
<1>3. Counts
  BY DEF Counts, Flags, CountsInBounds, BytesInBounds, SendsOnlyTelegrams,
       retriesExhausted
<1>4. AnswersCounted BY DEF AnswersCounted
<1>5. SendsOnlyTelegrams BY DEF Flags, SendsOnlyTelegrams, StateMatchesWork, AckStates
<1>6. StateMatchesWork
  BY DEF Flags, SendsOnlyTelegrams, StateMatchesWork, PausedIsQuiet, AckStates
<1>7. PausedIsQuiet BY DEF Flags, SendsOnlyTelegrams, StateMatchesWork, PausedIsQuiet
<1>8. CountsInBounds
  BY DEF Flags, SendsOnlyTelegrams, StateMatchesWork, AckStates, Counts,
       CountsInBounds, retriesExhausted
<1>9. BytesInBounds BY DEF Flags, Counts, StateMatchesWork, BytesInBounds
<1>10. AckIsForUs
  BY DEF Flags, SendsOnlyTelegrams, StateMatchesWork, AckStates, AckIsForUs,
       CountsInBounds
<1>11. AckStates BY DEF Flags, StateMatchesWork, AckStates
<1>12. GivenUpMarked
  BY DEF Flags, SendsOnlyTelegrams, StateMatchesWork, AckStates, Counts,
       CountsInBounds, AckIsForUs, GivenUpMarked, retriesExhausted
<1>13. SentIsRemembered
  BY DEF Flags, SendsOnlyTelegrams, StateMatchesWork, AckStates, Counts,
       CountsInBounds, AckIsForUs, GivenUpMarked, SentIsRemembered, retriesExhausted
<1> QED
  BY <1>1, <1>2, <1>3, <1>4, <1>5, <1>6, <1>7, <1>8, <1>9, <1>10, <1>11, <1>12,
       <1>13

LEMMA ListenInv ==
  ASSUME BusInv, captureFrame \/ captureByte \/ endOfByte \/ initTimeout \/ startOfAck,
         Serving
  PROVE  BusInv'
<1> USE BusAssumption DEF BusInv, Serving, EdgesAsBefore, captureFrame, captureByte, endOfByte, initTimeout,
        startOfAck, startReceiving, curVars, retryVars, rxVars, counters
<1>1. Flags' BY DEF Flags
<1>2. Modes' BY DEF Modes
<1>3. Counts'
  BY DEF Counts, Flags, CountsInBounds, BytesInBounds, SendsOnlyTelegrams,
       retriesExhausted
<1>4. AnswersCounted' BY DEF AnswersCounted
<1>5. SendsOnlyTelegrams' BY DEF Flags, SendsOnlyTelegrams, StateMatchesWork, AckStates
<1>6. StateMatchesWork'
  BY DEF Flags, SendsOnlyTelegrams, StateMatchesWork, PausedIsQuiet, AckStates
<1>7. PausedIsQuiet' BY DEF Flags, SendsOnlyTelegrams, StateMatchesWork, PausedIsQuiet
<1>8. CountsInBounds'
  BY DEF Flags, SendsOnlyTelegrams, StateMatchesWork, AckStates, Counts,
       CountsInBounds, retriesExhausted
<1>9. BytesInBounds' BY DEF Flags, Counts, StateMatchesWork, BytesInBounds
<1>10. AckIsForUs'
  BY DEF Flags, SendsOnlyTelegrams, StateMatchesWork, AckStates, AckIsForUs,
       CountsInBounds
<1>11. AckStates' BY DEF Flags, StateMatchesWork, AckStates
<1>12. GivenUpMarked'
  BY DEF Flags, SendsOnlyTelegrams, StateMatchesWork, AckStates, Counts,
       CountsInBounds, AckIsForUs, GivenUpMarked, retriesExhausted
<1>13. SentIsRemembered'
  BY DEF Flags, SendsOnlyTelegrams, StateMatchesWork, AckStates, Counts,
       CountsInBounds, AckIsForUs, GivenUpMarked, SentIsRemembered, retriesExhausted
<1> QED
  BY <1>1, <1>2, <1>3, <1>4, <1>5, <1>6, <1>7, <1>8, <1>9, <1>10, <1>11, <1>12,
       <1>13

LEMMA CollideInv ==
  ASSUME BusInv, captureEarlyStartBit \/ collide \/ collideAndResync,
         Serving
  PROVE  BusInv'
<1> USE BusAssumption DEF BusInv, Serving, EdgesAsBefore, captureEarlyStartBit, collide, collideAndResync,
        startReceiving, encounteredCollision, initState, curVars, retryVars, rxVars,
        counters
<1>1. Flags' BY DEF Flags
<1>2. Modes' BY DEF Modes
<1>3. Counts'
  BY DEF Counts, Flags, CountsInBounds, BytesInBounds, SendsOnlyTelegrams,
       retriesExhausted
<1>4. AnswersCounted' BY DEF AnswersCounted
<1>5. SendsOnlyTelegrams' BY DEF Flags, SendsOnlyTelegrams, StateMatchesWork, AckStates
<1>6. StateMatchesWork'
  BY DEF Flags, SendsOnlyTelegrams, StateMatchesWork, PausedIsQuiet, AckStates
<1>7. PausedIsQuiet' BY DEF Flags, SendsOnlyTelegrams, StateMatchesWork, PausedIsQuiet
<1>8. CountsInBounds'
  BY DEF Flags, SendsOnlyTelegrams, StateMatchesWork, AckStates, Counts,
       CountsInBounds, retriesExhausted
<1>9. BytesInBounds' BY DEF Flags, Counts, StateMatchesWork, BytesInBounds
<1>10. AckIsForUs'
  BY DEF Flags, SendsOnlyTelegrams, StateMatchesWork, AckStates, AckIsForUs,
       CountsInBounds
<1>11. AckStates' BY DEF Flags, StateMatchesWork, AckStates
<1>12. GivenUpMarked'
  BY DEF Flags, SendsOnlyTelegrams, StateMatchesWork, AckStates, Counts,
       CountsInBounds, AckIsForUs, GivenUpMarked, retriesExhausted
<1>13. SentIsRemembered'
  BY DEF Flags, SendsOnlyTelegrams, StateMatchesWork, AckStates, Counts,
       CountsInBounds, AckIsForUs, GivenUpMarked, SentIsRemembered, retriesExhausted
<1> QED
  BY <1>1, <1>2, <1>3, <1>4, <1>5, <1>6, <1>7, <1>8, <1>9, <1>10, <1>11, <1>12,
       <1>13

LEMMA SendByteInv ==
  ASSUME BusInv, sendStartBit \/ sendBit0 \/ endOfSentByte \/ ackWindow,
         Serving
  PROVE  BusInv'
<1> USE BusAssumption DEF BusInv, Serving, EdgesAsBefore, sendStartBit, sendBit0, endOfSentByte, ackWindow,
        curVars, retryVars, rxVars, counters
<1>1. Flags' BY DEF Flags
<1>2. Modes' BY DEF Modes
<1>3. Counts'
  BY DEF Counts, Flags, CountsInBounds, BytesInBounds, SendsOnlyTelegrams,
       retriesExhausted
<1>4. AnswersCounted' BY DEF AnswersCounted
<1>5. SendsOnlyTelegrams' BY DEF Flags, SendsOnlyTelegrams, StateMatchesWork, AckStates
<1>6. StateMatchesWork'
  BY DEF Flags, SendsOnlyTelegrams, StateMatchesWork, PausedIsQuiet, AckStates
<1>7. PausedIsQuiet' BY DEF Flags, SendsOnlyTelegrams, StateMatchesWork, PausedIsQuiet
<1>8. CountsInBounds'
  BY DEF Flags, SendsOnlyTelegrams, StateMatchesWork, AckStates, Counts,
       CountsInBounds, retriesExhausted
<1>9. BytesInBounds' BY DEF Flags, Counts, StateMatchesWork, BytesInBounds
<1>10. AckIsForUs'
  BY DEF Flags, SendsOnlyTelegrams, StateMatchesWork, AckStates, AckIsForUs,
       CountsInBounds
<1>11. AckStates' BY DEF Flags, StateMatchesWork, AckStates
<1>12. GivenUpMarked'
  BY DEF Flags, SendsOnlyTelegrams, StateMatchesWork, AckStates, Counts,
       CountsInBounds, AckIsForUs, GivenUpMarked, retriesExhausted
<1>13. SentIsRemembered'
  BY DEF Flags, SendsOnlyTelegrams, StateMatchesWork, AckStates, Counts,
       CountsInBounds, AckIsForUs, GivenUpMarked, SentIsRemembered, retriesExhausted
<1> QED
  BY <1>1, <1>2, <1>3, <1>4, <1>5, <1>6, <1>7, <1>8, <1>9, <1>10, <1>11, <1>12,
       <1>13

LEMMA EndOfTxInv ==
  ASSUME BusInv, endOfTx,
         Serving
  PROVE  BusInv'
<1> USE BusAssumption DEF BusInv, Serving, EdgesAsBefore, endOfTx, countRepetition, curVars, retryVars,
        rxVars, counters
<1>1. Flags' BY DEF Flags
<1>2. Modes' BY DEF Modes
<1>3. Counts'
  BY DEF Counts, Flags, CountsInBounds, BytesInBounds, SendsOnlyTelegrams,
       retriesExhausted
<1>4. AnswersCounted' BY DEF AnswersCounted
<1>5. SendsOnlyTelegrams' BY DEF Flags, SendsOnlyTelegrams, StateMatchesWork, AckStates
<1>6. StateMatchesWork'
  BY DEF Flags, SendsOnlyTelegrams, StateMatchesWork, PausedIsQuiet, AckStates
<1>7. PausedIsQuiet' BY DEF Flags, SendsOnlyTelegrams, StateMatchesWork, PausedIsQuiet
<1>8. CountsInBounds'
  BY DEF Flags, SendsOnlyTelegrams, StateMatchesWork, AckStates, Counts,
       CountsInBounds, retriesExhausted
<1>9. BytesInBounds' BY DEF Flags, Counts, StateMatchesWork, BytesInBounds
<1>10. AckIsForUs'
  BY DEF Flags, SendsOnlyTelegrams, StateMatchesWork, AckStates, AckIsForUs,
       CountsInBounds
<1>11. AckStates' BY DEF Flags, StateMatchesWork, AckStates
<1>12. GivenUpMarked'
  BY DEF Flags, SendsOnlyTelegrams, StateMatchesWork, AckStates, Counts,
       CountsInBounds, AckIsForUs, GivenUpMarked, retriesExhausted
<1>13. SentIsRemembered'
  BY DEF Flags, SendsOnlyTelegrams, StateMatchesWork, AckStates, Counts,
       CountsInBounds, AckIsForUs, GivenUpMarked, SentIsRemembered, retriesExhausted
<1> QED
  BY <1>1, <1>2, <1>3, <1>4, <1>5, <1>6, <1>7, <1>8, <1>9, <1>10, <1>11, <1>12,
       <1>13

LEMMA AckTimeoutInv ==
  ASSUME BusInv, ackTimeout,
         Serving
  PROVE  BusInv'
<1> USE BusAssumption DEF BusInv, Serving, EdgesAsBefore, ackTimeout, curVars, counters, rxVars
<1>1. Flags' BY DEF Flags
<1>2. Modes' BY DEF Modes
<1>3. Counts'
  BY DEF Counts, Flags, CountsInBounds, BytesInBounds, SendsOnlyTelegrams,
       retriesExhausted
<1>4. AnswersCounted'
  BY AnsweredCounts
<1>5. SendsOnlyTelegrams' BY DEF Flags, SendsOnlyTelegrams, StateMatchesWork, AckStates
<1>6. StateMatchesWork'
  BY DEF Flags, SendsOnlyTelegrams, StateMatchesWork, PausedIsQuiet, AckStates
<1>7. PausedIsQuiet' BY DEF Flags, SendsOnlyTelegrams, StateMatchesWork, PausedIsQuiet
<1>8. CountsInBounds'
  BY DEF Flags, SendsOnlyTelegrams, StateMatchesWork, AckStates, Counts,
       CountsInBounds, retriesExhausted
<1>9. BytesInBounds' BY DEF Flags, Counts, StateMatchesWork, BytesInBounds
<1>10. AckIsForUs'
  BY DEF Flags, SendsOnlyTelegrams, StateMatchesWork, AckStates, AckIsForUs,
       CountsInBounds
<1>11. AckStates' BY DEF Flags, StateMatchesWork, AckStates
<1>12. GivenUpMarked'
  <2>1. collisions <= CollisionRetryMax /\ collisions' = collisions
    BY DEF CountsInBounds, StateMatchesWork
  <2>2. ~(collisions' > CollisionRetryMax)
    BY <2>1 DEF Counts
  <2> QED
    BY <2>2 DEF GivenUpMarked
<1>13. SentIsRemembered'
  BY DEF Flags, SendsOnlyTelegrams, StateMatchesWork, AckStates, Counts,
       CountsInBounds, AckIsForUs, GivenUpMarked, SentIsRemembered, retriesExhausted
<1> QED
  BY <1>1, <1>2, <1>3, <1>4, <1>5, <1>6, <1>7, <1>8, <1>9, <1>10, <1>11, <1>12,
       <1>13

LEMMA WaitTimeoutInv ==
  ASSUME BusInv, waitTimeout,
         Serving
  PROVE  BusInv'
<1> USE BusAssumption DEF BusInv, Serving, EdgesAsBefore, waitTimeout, giveUp, startOfTelegram,
        markRepeated, finishSendingTelegram, prepareForSending, curVars, retryVars,
        rxVars, counters
<1>1. Flags' BY DEF Flags
<1>2. Modes' BY DEF Modes
<1>3. Counts'
  BY DEF Counts, Flags, CountsInBounds, BytesInBounds, SendsOnlyTelegrams,
       retriesExhausted
<1>4. AnswersCounted' BY DEF AnswersCounted
<1>5. SendsOnlyTelegrams' BY DEF Flags, SendsOnlyTelegrams, StateMatchesWork, AckStates
<1>6. StateMatchesWork'
  BY DEF Flags, SendsOnlyTelegrams, StateMatchesWork, PausedIsQuiet, AckStates
<1>7. PausedIsQuiet' BY DEF Flags, SendsOnlyTelegrams, StateMatchesWork, PausedIsQuiet
<1>8. CountsInBounds'
  BY DEF Flags, SendsOnlyTelegrams, StateMatchesWork, AckStates, Counts,
       CountsInBounds, retriesExhausted
<1>9. BytesInBounds' BY DEF Flags, Counts, StateMatchesWork, BytesInBounds
<1>10. AckIsForUs'
  BY DEF Flags, SendsOnlyTelegrams, StateMatchesWork, AckStates, AckIsForUs,
       CountsInBounds
<1>11. AckStates' BY DEF Flags, StateMatchesWork, AckStates
<1>12. GivenUpMarked'
  BY DEF Flags, SendsOnlyTelegrams, StateMatchesWork, AckStates, Counts,
       CountsInBounds, AckIsForUs, GivenUpMarked, retriesExhausted
<1>13. SentIsRemembered'
  <2> SUFFICES ASSUME ~cutOff PROVE SentIsRemembered'
    BY DEF SentIsRemembered
  <2>1. ~wait_for_ack_from_remote
    BY DEF StateMatchesWork
  <2>2. CASE ~giveUp
    BY <2>1, <2>2 DEF SentIsRemembered
  <2>3. CASE giveUp
    <3>1. repeatTelegram => repeated
      BY <2>3 DEF GivenUpMarked, retriesExhausted, Counts
    <3>2. sendCurTelegram' => sendCurTelegram /\ repeated' = repeated /\ onceSent' = onceSent
      BY <2>3 DEF Flags
    <3>3. ~repeatTelegram' /\ ~wait_for_ack_from_remote'
      BY <2>3
    <3> QED
      BY <2>1, <3>1, <3>2, <3>3 DEF SentIsRemembered
  <2> QED
    BY <2>2, <2>3
<1> QED
  BY <1>1, <1>2, <1>3, <1>4, <1>5, <1>6, <1>7, <1>8, <1>9, <1>10, <1>11, <1>12,
       <1>13

LEMMA MainLoopInv ==
  ASSUME BusInv, enqueueTelegram \/ sendTelegram \/ discardReceivedTelegram \/ beginPause \/ pause \/ resume
  PROVE  BusInv'
<1> USE BusAssumption DEF BusInv, unanswered, enqueueTelegram, sendTelegram,
        discardReceivedTelegram, beginPause, pause, resume, startSendingImmediately,
        canPause, initState, curVars, retryVars, rxVars, counters
<1>1. Flags' BY DEF Flags
<1>2. Modes' BY DEF Modes
<1>3. Counts'
  BY DEF Counts, Flags, CountsInBounds, BytesInBounds, SendsOnlyTelegrams,
       retriesExhausted
<1>4. AnswersCounted' BY DEF AnswersCounted
<1>5. SendsOnlyTelegrams' BY DEF Flags, SendsOnlyTelegrams, StateMatchesWork, AckStates
<1>6. StateMatchesWork'
  BY DEF Flags, SendsOnlyTelegrams, StateMatchesWork, PausedIsQuiet, AckStates
<1>7. PausedIsQuiet' BY DEF Flags, SendsOnlyTelegrams, StateMatchesWork, PausedIsQuiet
<1>8. CountsInBounds'
  BY DEF Flags, SendsOnlyTelegrams, StateMatchesWork, AckStates, Counts,
       CountsInBounds, retriesExhausted
<1>9. BytesInBounds' BY DEF Flags, Counts, StateMatchesWork, BytesInBounds
<1>10. AckIsForUs'
  BY DEF Flags, SendsOnlyTelegrams, StateMatchesWork, AckStates, AckIsForUs,
       CountsInBounds
<1>11. AckStates' BY DEF Flags, StateMatchesWork, AckStates
<1>12. GivenUpMarked'
  BY DEF Flags, SendsOnlyTelegrams, StateMatchesWork, AckStates, Counts,
       CountsInBounds, AckIsForUs, GivenUpMarked, retriesExhausted
<1>13. SentIsRemembered'
  BY DEF Flags, SendsOnlyTelegrams, StateMatchesWork, AckStates, Counts,
       CountsInBounds, AckIsForUs, GivenUpMarked, SentIsRemembered, retriesExhausted
<1> QED
  BY <1>1, <1>2, <1>3, <1>4, <1>5, <1>6, <1>7, <1>8, <1>9, <1>10, <1>11, <1>12,
       <1>13

LEMMA ReceiveDataInv ==
  ASSUME BusInv, state = RECV_WAIT, NEW f, f \in DataFrame, receiveData(f),
         lastOnBus' \in {"data", "foreign"},
         UNCHANGED <<nextByteIndex, onceSent>>, Serving
  PROVE  BusInv'
<1> USE BusAssumption DEF BusInv, Serving, EdgesAsBefore, DataFrame, receiveData, bufferFree, stopWaitingForAck,
        already_received,
        curVars, counters, rxVars
<1>1. Flags' BY DEF Flags
<1>2. Modes' BY DEF Modes
<1>3. Counts'
  BY DEF Counts, Flags, CountsInBounds, BytesInBounds, SendsOnlyTelegrams,
       retriesExhausted
<1>4. AnswersCounted'
  BY AnsweredCounts DEF AnswersCounted
<1>5. SendsOnlyTelegrams' BY DEF Flags, SendsOnlyTelegrams, StateMatchesWork, AckStates
<1>6. StateMatchesWork'
  BY DEF Flags, SendsOnlyTelegrams, StateMatchesWork, PausedIsQuiet, AckStates
<1>7. PausedIsQuiet' BY DEF Flags, SendsOnlyTelegrams, StateMatchesWork, PausedIsQuiet
<1>8. CountsInBounds'
  BY DEF Flags, SendsOnlyTelegrams, StateMatchesWork, AckStates, Counts,
       CountsInBounds, retriesExhausted
<1>9. BytesInBounds' BY DEF Flags, Counts, StateMatchesWork, BytesInBounds
<1>10. AckIsForUs'
  BY DEF Flags, SendsOnlyTelegrams, StateMatchesWork, AckStates, AckIsForUs,
       CountsInBounds
<1>11. AckStates' BY DEF Flags, StateMatchesWork, AckStates
<1>12. GivenUpMarked'
  BY DEF Flags, SendsOnlyTelegrams, StateMatchesWork, AckStates, Counts,
       CountsInBounds, AckIsForUs, GivenUpMarked, retriesExhausted
<1>13. SentIsRemembered'
  BY DEF Flags, SendsOnlyTelegrams, StateMatchesWork, AckStates, Counts,
       CountsInBounds, AckIsForUs, GivenUpMarked, SentIsRemembered, retriesExhausted
<1> QED
  BY <1>1, <1>2, <1>3, <1>4, <1>5, <1>6, <1>7, <1>8, <1>9, <1>10, <1>11, <1>12,
       <1>13

LEMMA ReceiveAcknowledgeInv ==
  ASSUME BusInv, state = RECV_WAIT, NEW f, receiveAcknowledge(f),
         lastOnBus' \in {"data", "foreign"},
         UNCHANGED <<nextByteIndex, onceSent>>, Serving
  PROVE  BusInv'
<1> USE BusAssumption DEF BusInv, Serving, EdgesAsBefore, receiveAcknowledge, finishSendingTelegram,
        prepareForSending, curVars, counters, rxVars
<1>1. Flags' BY DEF Flags
<1>2. Modes' BY DEF Modes
<1>3. Counts'
  BY DEF Counts, Flags, CountsInBounds, BytesInBounds, SendsOnlyTelegrams,
       retriesExhausted
<1>4. AnswersCounted'
  <2>1. CASE f.kind = "ACK"
    BY <2>1 DEF AnswersCounted
  <2>2. CASE f.kind # "ACK"
    BY <2>2, AnsweredCounts
  <2> QED
    BY <2>1, <2>2
<1>5. SendsOnlyTelegrams' BY DEF Flags, SendsOnlyTelegrams, StateMatchesWork, AckStates
<1>6. StateMatchesWork'
  BY DEF Flags, SendsOnlyTelegrams, StateMatchesWork, PausedIsQuiet, AckStates
<1>7. PausedIsQuiet' BY DEF Flags, SendsOnlyTelegrams, StateMatchesWork, PausedIsQuiet
<1>8. CountsInBounds'
  BY DEF Flags, SendsOnlyTelegrams, StateMatchesWork, AckStates, Counts,
       CountsInBounds, retriesExhausted
<1>9. BytesInBounds' BY DEF Flags, Counts, StateMatchesWork, BytesInBounds
<1>10. AckIsForUs'
  BY DEF Flags, SendsOnlyTelegrams, StateMatchesWork, AckStates, AckIsForUs,
       CountsInBounds
<1>11. AckStates' BY DEF Flags, StateMatchesWork, AckStates
<1>12. GivenUpMarked'
  BY DEF Flags, SendsOnlyTelegrams, StateMatchesWork, AckStates, Counts,
       CountsInBounds, AckIsForUs, GivenUpMarked, retriesExhausted
<1>13. SentIsRemembered'
  <2> SUFFICES ASSUME ~cutOff PROVE SentIsRemembered'
    BY DEF SentIsRemembered
  <2>1. sendCurTelegram /\ onceSent
    BY DEF SendsOnlyTelegrams, SentIsRemembered
  <2>2. CASE f.kind = "ACK" \/ retriesExhausted
    <3>1. sendCurTelegram' => repeated' = repeated /\ f.kind # "ACK"
      BY <2>2 DEF Flags
    <3>2. retriesExhausted => repeated
      BY DEF GivenUpMarked, retriesExhausted, Counts
    <3> QED
      BY <2>1, <2>2, <3>1, <3>2 DEF SentIsRemembered
  <2>3. CASE ~(f.kind = "ACK" \/ retriesExhausted)
    BY <2>1, <2>3 DEF SentIsRemembered
  <2> QED
    BY <2>2, <2>3
<1> QED
  BY <1>1, <1>2, <1>3, <1>4, <1>5, <1>6, <1>7, <1>8, <1>9, <1>10, <1>11, <1>12,
       <1>13

LEMMA ReceiveOtherInv ==
  ASSUME BusInv, state = RECV_WAIT, NEW f, receiveOther(f),
         lastOnBus' \in {"data", "foreign"},
         UNCHANGED <<nextByteIndex, onceSent>>, Serving
  PROVE  BusInv'
<1> USE BusAssumption DEF BusInv, Serving, EdgesAsBefore, receiveOther, stopWaitingForAck, curVars,
        counters, rxVars
<1>1. Flags' BY DEF Flags
<1>2. Modes' BY DEF Modes
<1>3. Counts'
  BY DEF Counts, Flags, CountsInBounds, BytesInBounds, SendsOnlyTelegrams,
       retriesExhausted
<1>4. AnswersCounted'
  BY AnsweredCounts DEF AnswersCounted
<1>5. SendsOnlyTelegrams' BY DEF Flags, SendsOnlyTelegrams, StateMatchesWork, AckStates
<1>6. StateMatchesWork'
  BY DEF Flags, SendsOnlyTelegrams, StateMatchesWork, PausedIsQuiet, AckStates
<1>7. PausedIsQuiet' BY DEF Flags, SendsOnlyTelegrams, StateMatchesWork, PausedIsQuiet
<1>8. CountsInBounds'
  BY DEF Flags, SendsOnlyTelegrams, StateMatchesWork, AckStates, Counts,
       CountsInBounds, retriesExhausted
<1>9. BytesInBounds' BY DEF Flags, Counts, StateMatchesWork, BytesInBounds
<1>10. AckIsForUs'
  BY DEF Flags, SendsOnlyTelegrams, StateMatchesWork, AckStates, AckIsForUs,
       CountsInBounds
<1>11. AckStates' BY DEF Flags, StateMatchesWork, AckStates
<1>12. GivenUpMarked'
  BY DEF Flags, SendsOnlyTelegrams, StateMatchesWork, AckStates, Counts,
       CountsInBounds, AckIsForUs, GivenUpMarked, retriesExhausted
<1>13. SentIsRemembered'
  BY DEF Flags, SendsOnlyTelegrams, StateMatchesWork, AckStates, Counts,
       CountsInBounds, AckIsForUs, GivenUpMarked, SentIsRemembered, retriesExhausted
<1> QED
  BY <1>1, <1>2, <1>3, <1>4, <1>5, <1>6, <1>7, <1>8, <1>9, <1>10, <1>11, <1>12,
       <1>13

LEMMA BusInvNext == BusInv /\ [BusNext]_busVars => BusInv'
<1> SUFFICES ASSUME BusInv, [BusNext]_busVars
             PROVE  BusInv'
  OBVIOUS
<1>1. CASE Interrupt(Capture)
  BY <1>1, ListenInv, CollideInv DEF Interrupt, Serving, Capture
<1>2. CASE Interrupt(Timeout)
  <2>1. CASE Interrupt(endOfFrame)
    <3>1. PICK f \in Frames(nextByteIndex) : handleTelegram(f) /\ lastOnBus' \in {"data", "foreign"}
      BY <2>1 DEF Interrupt, endOfFrame
    <3>2. state = RECV_WAIT /\ Serving /\ UNCHANGED <<nextByteIndex, onceSent>>
      BY <2>1 DEF Interrupt, Serving, endOfFrame
    <3>3. f.kind = "data" => f \in DataFrame
      BY DEF Frames, AckFrame, OtherFrame
    <3>4. CASE receiveData(f)
      BY <3>1, <3>2, <3>3, <3>4, ReceiveDataInv DEF receiveData
    <3>5. CASE receiveAcknowledge(f)
      BY <3>1, <3>2, <3>5, ReceiveAcknowledgeInv
    <3>6. CASE receiveOther(f)
      BY <3>1, <3>2, <3>6, ReceiveOtherInv
    <3> QED
      BY <3>1, <3>4, <3>5, <3>6 DEF handleTelegram
  <2>2. CASE ~Interrupt(endOfFrame)
    BY <1>2, <2>2, ListenInv, SendByteInv, EndOfTxInv, AckTimeoutInv, WaitTimeoutInv
       DEF Interrupt, Serving, Timeout
  <2> QED
    BY <2>1, <2>2
<1>3. CASE enqueueTelegram \/ sendTelegram \/ discardReceivedTelegram \/ beginPause \/ pause \/ resume
  BY <1>3, MainLoopInv
<1>4. CASE UNCHANGED busVars
  BY <1>4 DEF busVars, curVars, retryVars, counters, rxVars, BusInv, Flags, Modes, Counts,
     AnswersCounted, SendsOnlyTelegrams, StateMatchesWork, PausedIsQuiet, CountsInBounds,
     BytesInBounds, AckIsForUs, AckStates, GivenUpMarked, SentIsRemembered, retriesExhausted
<1> QED
  BY <1>1, <1>2, <1>3, <1>4 DEF BusNext

LEMMA BusAlwaysInv == BusSafety => []BusInv
  BY BusInvInit, BusInvNext, PTL DEF BusSafety

-----------------------------------------------------------------------------

\* Type correctness, which says that the 8-bit counters and the index into
\* the telegram stay within their limits, whatever happens on the line.
THEOREM BusTypeCorrect == BusSafety => []BusTypeOK
<1>1. BusInv => BusTypeOK
  BY TypeParts DEF BusInv
<1> QED
  BY <1>1, BusAlwaysInv, PTL

\* The interrupt handler never sends from a telegram that is not there, and
\* begins each telegram with fresh counts.
THEOREM SendsOnlyTelegramsTheorem == BusSafety => []SendsOnlyTelegrams
<1>1. BusInv => SendsOnlyTelegrams
  BY DEF BusInv
<1> QED
  BY <1>1, BusAlwaysInv, PTL

\* No acknowledge frame is left behind, no ACK is awaited without listening
\* and no telegram sleeps in IDLE.
THEOREM StateMatchesWorkTheorem == BusSafety => []StateMatchesWork
<1>1. BusInv => StateMatchesWork
  BY DEF BusInv
<1> QED
  BY <1>1, BusAlwaysInv, PTL

\* pause() and end() find the right moment: with no match pending nothing is
\* due while the bus is paused, and an ended bus sends nothing of its own.
THEOREM PausedIsQuietTheorem == BusSafety => []PausedIsQuiet
<1>1. BusInv => PausedIsQuiet
  BY DEF BusInv
<1> QED
  BY <1>1, BusAlwaysInv, PTL

\* A telegram is marked as a repetition exactly if it was sent before, unless
\* its answer was cut off.
THEOREM RepetitionsMarkedTheorem == BusSafety => []RepetitionsMarked
<1>1. BusInv => RepetitionsMarked
  <2> SUFFICES ASSUME BusInv, state \in Sending \ {"SEND_END_OF_TX"}, ~sendAck, ~cutOff
               PROVE  repeated <=> onceSent
    BY DEF RepetitionsMarked
  <2>1. sendCurTelegram /\ ~wait_for_ack_from_remote
    BY DEF BusInv, SendsOnlyTelegrams, StateMatchesWork
  <2>2. repeatTelegram => repeated
    BY DEF BusInv, CountsInBounds
  <2> QED
    BY <2>1, <2>2 DEF BusInv, SentIsRemembered
<1> QED
  BY <1>1, BusAlwaysInv, PTL

LEMMA SuccessStep ==
  ASSUME BusInv, [BusNext]_busVars,
         sendCurTelegram, ~sendCurTelegram', answers'.end = "sent", ~cutOff
  PROVE  lastOnBus = "ours" /\ nextByteIndex = 1
<1>1. ~waitTimeout
  <2> SUFFICES ASSUME waitTimeout PROVE FALSE
    OBVIOUS
  <2>1. answers' = [answers EXCEPT !.end = "failed"]
    BY DEF waitTimeout, curVars
  <2> QED
    BY <2>1 DEF BusInv, AnswersCounted
<1>2. endOfFrame
  BY <1>1 DEF BusNext, Interrupt, Capture, Timeout, captureFrame, captureByte,
     captureEarlyStartBit, collide, collideAndResync, endOfByte, initTimeout, startOfAck,
     sendStartBit, sendBit0, endOfSentByte, endOfTx, ackWindow, ackTimeout,
     enqueueTelegram, sendTelegram, discardReceivedTelegram, beginPause, pause, resume,
     busVars, curVars
<1>3. PICK f \in Frames(nextByteIndex) : handleTelegram(f)
  BY <1>2 DEF endOfFrame
<1>4. receiveAcknowledge(f)
  BY <1>3 DEF handleTelegram, receiveData, receiveOther, curVars
<1>5. lastOnBus = "ours"
  BY <1>4 DEF receiveAcknowledge, BusInv, AckIsForUs
<1>6. f.kind \in {"ACK", "BUSY", "NACK"}
  BY <1>4 DEF receiveAcknowledge
<1>7. nextByteIndex = 1
  BY <1>3, <1>6 DEF Frames, OtherFrame, DataFrame
<1> QED
  BY <1>5, <1>7

\* Success is reported for the ACK right after the telegram and for nothing
\* else.
THEOREM SuccessIsAcked == BusSafety => SuccessMeansAcked
<1>1. BusInv /\ [BusNext]_busVars
        => [sendCurTelegram /\ ~sendCurTelegram' /\ answers'.end = "sent" /\ ~cutOff
              => lastOnBus = "ours" /\ nextByteIndex = 1]_busVars
  BY SuccessStep
<1> QED
  BY <1>1, BusAlwaysInv, PTL DEF BusSafety, SuccessMeansAcked

-----------------------------------------------------------------------------
(* Every step of the state machine is a step of the service, or none.       *)

LEMMA KeepsServiceInit == BusInit => Service!ServiceInit
  BY DEF BusInit, Service!ServiceInit

\* Interrupts that neither receive a frame nor end a telegram.
LEMMA QuietStep ==
  ASSUME BusInv,
         \/ captureFrame \/ captureByte \/ endOfByte \/ initTimeout \/ startOfAck
         \/ captureEarlyStartBit \/ collide \/ collideAndResync
         \/ sendStartBit \/ sendBit0 \/ endOfSentByte \/ endOfTx \/ ackWindow \/ ackTimeout
  PROVE  Service!Acked \/ UNCHANGED Service!serviceVars
<1>1. UNCHANGED <<sendCurTelegram, telegram, telegramLen>>
  BY DEF captureFrame, captureByte, endOfByte, initTimeout, startOfAck, captureEarlyStartBit,
     collide, collideAndResync, sendStartBit, sendBit0, endOfSentByte, endOfTx, ackWindow,
     ackTimeout, curVars, rxVars
<1>2. sendAck' = FALSE \/ sendAck' = sendAck
  BY DEF captureFrame, captureByte, endOfByte, initTimeout, startOfAck, captureEarlyStartBit,
     collide, collideAndResync, sendStartBit, sendBit0, endOfSentByte, endOfTx, ackWindow,
     ackTimeout, startReceiving, initState
<1>3. sendAck \in BOOLEAN
  BY DEF BusInv, Flags
<1> QED
  BY <1>1, <1>2, <1>3 DEF Service!Acked, Service!serviceVars

\* The end of a frame: no acknowledge frame is due before it, because the
\* state machine was listening.
LEMMA ReceiveStep ==
  ASSUME BusInv, endOfFrame
  PROVE  \/ Service!Receive \/ Service!Repeated \/ Service!Sent
         \/ UNCHANGED Service!serviceVars
<1>1. PICK f \in Frames(nextByteIndex) : handleTelegram(f)
  BY DEF endOfFrame
<1>2. sendAck = FALSE /\ sendCurTelegram \in BOOLEAN /\ telegramLen \in BOOLEAN
  BY DEF endOfFrame, BusInv, StateMatchesWork, Flags
<1>3. CASE receiveData(f)
  <2>1. f \in DataFrame
    BY <1>3 DEF receiveData, Frames, AckFrame, OtherFrame
  <2>2. f.content \in Contents /\ f.content # NoTel /\ f.ackable \in BOOLEAN
    BY <2>1, BusAssumption DEF DataFrame
  <2>3. UNCHANGED sendCurTelegram
    BY <1>3 DEF receiveData, curVars
  <2>4. CASE telegramLen
    <3>1. sendAck' = FALSE /\ UNCHANGED rxVars
      BY <1>3, <2>4 DEF receiveData, bufferFree
    <3> QED
      BY <1>2, <2>3, <3>1 DEF rxVars, Service!serviceVars
  <2>5. CASE ~telegramLen /\ already_received(f)
    BY <1>2, <1>3, <2>2, <2>3, <2>5
       DEF receiveData, bufferFree, rxVars, Service!Repeated, Service!serviceVars
  <2>6. CASE ~telegramLen /\ ~already_received(f)
    BY <1>2, <1>3, <2>2, <2>3, <2>6 DEF receiveData, bufferFree, Service!Receive
  <2> QED
    BY <2>4, <2>5, <2>6
<1>4. CASE receiveAcknowledge(f)
  <2>1. UNCHANGED <<telegram, telegramLen>> /\ sendAck' = FALSE
    BY <1>4 DEF receiveAcknowledge, rxVars
  <2>2. sendCurTelegram' = FALSE \/ sendCurTelegram' = sendCurTelegram
    BY <1>4 DEF receiveAcknowledge, finishSendingTelegram, curVars
  <2> QED
    BY <1>2, <2>1, <2>2, <1>4 DEF receiveAcknowledge, Service!Sent, Service!serviceVars
<1>5. CASE receiveOther(f)
  BY <1>2, <1>5 DEF receiveOther, curVars, rxVars, Service!serviceVars
<1> QED
  BY <1>1, <1>3, <1>4, <1>5 DEF handleTelegram

LEMMA GiveUpStep ==
  ASSUME BusInv, waitTimeout
  PROVE  Service!Sent \/ UNCHANGED Service!serviceVars
<1>1. UNCHANGED <<sendAck, telegram, telegramLen>>
  BY DEF waitTimeout, rxVars
<1>2. sendCurTelegram' = FALSE \/ sendCurTelegram' = sendCurTelegram
  BY DEF waitTimeout, finishSendingTelegram, curVars
<1>3. sendCurTelegram \in BOOLEAN
  BY DEF BusInv, Flags
<1> QED
  BY <1>1, <1>2, <1>3 DEF Service!Sent, Service!serviceVars

LEMMA MainLoopStep ==
  ASSUME BusInv,
         enqueueTelegram \/ sendTelegram \/ discardReceivedTelegram \/ beginPause \/ pause \/ resume
  PROVE  \/ Service!Send \/ Service!Discard \/ Service!Acked
         \/ UNCHANGED Service!serviceVars
<1>1. CASE enqueueTelegram
  BY <1>1 DEF enqueueTelegram, rxVars, Service!Send
<1>2. CASE discardReceivedTelegram
  BY <1>2 DEF discardReceivedTelegram, curVars, Service!Discard, Service!serviceVars
<1>3. CASE sendTelegram \/ beginPause \/ pause
  <2>1. UNCHANGED <<sendCurTelegram, sendAck, telegram, telegramLen>>
    BY <1>3 DEF sendTelegram, beginPause, pause, curVars, rxVars
  <2> QED
    BY <2>1 DEF Service!serviceVars
<1>4. CASE resume
  <2>1. sendAck \in BOOLEAN
    BY DEF BusInv, Flags
  <2> QED
    BY <1>4, <2>1 DEF resume, initState, curVars, rxVars, Service!Acked, Service!serviceVars
<1> QED
  BY <1>1, <1>2, <1>3, <1>4

LEMMA KeepsServiceNext == BusInv /\ [BusNext]_busVars => [Service!ServiceNext]_Service!serviceVars
<1> SUFFICES ASSUME BusInv, [BusNext]_busVars
             PROVE  [Service!ServiceNext]_Service!serviceVars
  OBVIOUS
<1>1. CASE Interrupt(Capture)
  BY <1>1, QuietStep DEF Interrupt, Capture, Service!ServiceNext
<1>2. CASE Interrupt(Timeout)
  BY <1>2, QuietStep, ReceiveStep, GiveUpStep DEF Interrupt, Timeout, Service!ServiceNext
<1>3. CASE enqueueTelegram \/ sendTelegram \/ discardReceivedTelegram \/ beginPause \/ pause \/ resume
  BY <1>3, MainLoopStep DEF Service!ServiceNext
<1>4. CASE UNCHANGED busVars
  BY <1>4 DEF busVars, curVars, rxVars, Service!serviceVars
<1> QED
  BY <1>1, <1>2, <1>3, <1>4 DEF BusNext

\* The bus is what the main loop takes it for (module Bcu): whatever happens
\* on the line, received telegrams stay as they are until they are discarded
\* and acknowledge frames belong to telegrams.
THEOREM BusKeepsServiceTheorem == BusSafety => BusKeepsService
<1> QED
  BY KeepsServiceInit, KeepsServiceNext, BusAlwaysInv, PTL
     DEF BusSafety, BusKeepsService, Service!ServiceSafety

-----------------------------------------------------------------------------
(* The answers to a telegram.  Every attempt but the first one counts in    *)
(* sendRetries or sendBusyRetries, and one whose ACK is due is not answered.*)

AnswersInv ==
    /\ sendRetries + sendBusyRetries < MaxAttempts
    /\ ~repeatTelegram => sendRetries = 0 /\ sendBusyRetries = 0
    /\ answers.end = "open" <=> repeatTelegram
    /\ repeatTelegram => answers.busy + answers.other
                           <= sendRetries + sendBusyRetries
                               + (IF wait_for_ack_from_remote THEN 0 ELSE 1)
    /\ answers.busy + answers.other <= MaxAttempts

LEMMA AnsweredAdds ==
  ASSUME BusInv, AnswersInv, wait_for_ack_from_remote,
         NEW kind \in {"busy", "other"}, NEW end \in Ends, answered(kind, end)
  PROVE  /\ answers'.end = end
         /\ answers'.busy \in Nat /\ answers'.other \in Nat
         /\ answers'.busy + answers'.other <= sendRetries + sendBusyRetries + 1
<1> DEFINE counted == IF answers.end = "open" THEN answers
                      ELSE [busy |-> 0, other |-> 0, end |-> "open"]
           Counted == [busy : 0 .. MaxAttempts + 1, other : 0 .. MaxAttempts + 1, end : Ends]
           more(n) == IF n > MaxAttempts THEN n ELSE n + 1
<1>1. counted \in Counted
  BY BusAssumption DEF BusInv, AnswersCounted
<1>2. answers' = [counted EXCEPT ![kind] = more(counted[kind]), !.end = end]
  BY DEF answered
<1>3. counted.busy + counted.other <= sendRetries + sendBusyRetries
  <2>1. CASE answers.end = "open"
    BY <2>1 DEF AnswersInv, BusInv, Counts, AnswersCounted
  <2>2. CASE answers.end # "open"
    BY <2>2, BusAssumption DEF AnswersInv, BusInv, Flags
  <2> QED
    BY <2>1, <2>2
<1>4. sendRetries \in Nat /\ sendBusyRetries \in Nat
  BY BusAssumption DEF BusInv, Counts
<1>5. sendRetries + sendBusyRetries < MaxAttempts
  BY DEF AnswersInv
<1> HIDE DEF counted
<1>6. counted.busy \in Nat /\ counted.other \in Nat
  BY <1>1, BusAssumption
<1>7. more(counted.busy) <= counted.busy + 1 /\ more(counted.other) <= counted.other + 1
      /\ more(counted.busy) \in Nat /\ more(counted.other) \in Nat
  BY <1>6, BusAssumption
<1> HIDE DEF more
<1>8. CASE kind = "busy"
  <2>1. answers' = [counted EXCEPT !.busy = more(counted.busy), !.end = end]
    BY <1>2, <1>8
  <2>2. answers'.busy = more(counted.busy) /\ answers'.other = counted.other /\ answers'.end = end
    BY <1>1, <2>1
  <2> QED
    BY <1>3, <1>4, <1>6, <1>7, <2>2
<1>9. CASE kind = "other"
  <2>1. answers' = [counted EXCEPT !.other = more(counted.other), !.end = end]
    BY <1>2, <1>9
  <2>2. answers'.other = more(counted.other) /\ answers'.busy = counted.busy /\ answers'.end = end
    BY <1>1, <2>1
  <2> QED
    BY <1>3, <1>4, <1>6, <1>7, <2>2
<1> QED
  BY <1>8, <1>9

LEMMA AnswersInvNext == BusInv /\ AnswersInv /\ [BusNext]_busVars => AnswersInv'
<1> SUFFICES ASSUME BusInv, AnswersInv, [BusNext]_busVars
             PROVE  AnswersInv'
  OBVIOUS
<1>1. sendRetries \in Nat /\ sendBusyRetries \in Nat /\ repeatTelegram \in BOOLEAN
      /\ wait_for_ack_from_remote \in BOOLEAN
  BY BusAssumption DEF BusInv, Counts, Flags
<1>2. ASSUME UNCHANGED <<sendRetries, sendBusyRetries, repeatTelegram,
                         wait_for_ack_from_remote, answers>>
      PROVE  AnswersInv'
  BY <1>2 DEF AnswersInv
<1>3. ASSUME prepareForSending, answers' = [answers EXCEPT !.end = answers'.end],
             answers'.end # "open"
      PROVE  AnswersInv'
  <2>1. answers'.busy = answers.busy /\ answers'.other = answers.other
    BY <1>3 DEF BusInv, AnswersCounted
  <2> QED
    BY <1>3, <2>1, BusAssumption DEF prepareForSending, AnswersInv
<1>4. ASSUME wait_for_ack_from_remote, NEW kind \in {"busy", "other"}, answered(kind, "open"),
             repeatTelegram' = TRUE, wait_for_ack_from_remote' = FALSE, UNCHANGED counters
      PROVE  AnswersInv'
  <2>1. answers'.end = "open" /\ answers'.busy \in Nat /\ answers'.other \in Nat
        /\ answers'.busy + answers'.other <= sendRetries + sendBusyRetries + 1
    BY <1>4, AnsweredAdds
  <2> QED
    BY <1>1, <1>4, <2>1, BusAssumption DEF AnswersInv, counters
<1>5. CASE endOfFrame
  <2>1. PICK f \in Frames(nextByteIndex) : handleTelegram(f)
    BY <1>5 DEF endOfFrame
  <2>2. CASE stopWaitingForAck /\ UNCHANGED counters
    <3>1. CASE wait_for_ack_from_remote
      BY <1>4, <2>2, <3>1 DEF stopWaitingForAck
    <3>2. CASE ~wait_for_ack_from_remote
      <4>1. wait_for_ack_from_remote' = wait_for_ack_from_remote
            /\ repeatTelegram' = repeatTelegram /\ UNCHANGED answers
        BY <1>1, <2>2, <3>2 DEF stopWaitingForAck
      <4> QED
        BY <1>2, <2>2, <4>1 DEF counters
    <3> QED
      BY <3>1, <3>2
  <2>3. CASE receiveAcknowledge(f)
    <3>1. CASE f.kind = "ACK"
      BY <1>3, <2>3, <3>1 DEF receiveAcknowledge, finishSendingTelegram, BusInv, AnswersCounted
    <3>2. CASE f.kind # "ACK" /\ ~retriesExhausted
      BY <1>4, <2>3, <3>2 DEF receiveAcknowledge
    <3>3. CASE f.kind # "ACK" /\ retriesExhausted
      <4>1. prepareForSending /\ wait_for_ack_from_remote
            /\ \E kind \in {"busy", "other"} : answered(kind, "failed")
        BY <2>3, <3>3 DEF receiveAcknowledge, finishSendingTelegram
      <4>2. answers'.end = "failed" /\ answers'.busy \in Nat /\ answers'.other \in Nat
            /\ answers'.busy + answers'.other <= sendRetries + sendBusyRetries + 1
        BY <4>1, AnsweredAdds
      <4> QED
        BY <1>1, <4>1, <4>2, BusAssumption DEF prepareForSending, AnswersInv
    <3> QED
      BY <3>1, <3>2, <3>3
  <2> QED
    BY <2>1, <2>2, <2>3 DEF handleTelegram, receiveData, receiveOther
<1>6. CASE waitTimeout
  <2>1. CASE giveUp
    BY <1>3, <1>6, <2>1 DEF waitTimeout, finishSendingTelegram, BusInv, AnswersCounted
  <2>2. CASE ~giveUp
    BY <1>2, <1>6, <2>2 DEF waitTimeout, retryVars, counters
  <2> QED
    BY <2>1, <2>2
<1>7. CASE ackTimeout
  <2>1. wait_for_ack_from_remote
    BY <1>7 DEF ackTimeout, BusInv, AckStates
  <2> QED
    BY <1>4, <1>7, <2>1 DEF ackTimeout
<1>8. CASE endOfTx
  <2>1. CASE sendAck
    BY <1>2, <1>8, <2>1 DEF endOfTx, retryVars, counters
  <2>2. CASE ~sendAck
    <3>1. answers.busy \in Nat /\ answers.other \in Nat
      BY BusAssumption DEF BusInv, AnswersCounted
    <3>2. repeatTelegram => ~retriesExhausted
      BY <1>8, <2>2 DEF endOfTx, BusInv, CountsInBounds
    <3> QED
      BY <1>1, <1>8, <2>2, <3>1, <3>2, BusAssumption
         DEF endOfTx, countRepetition, retriesExhausted, AnswersInv
  <2> QED
    BY <2>1, <2>2
<1>9. CASE /\ ~endOfFrame /\ ~waitTimeout /\ ~ackTimeout /\ ~endOfTx
           /\ BusNext
  BY <1>2, <1>9 DEF BusNext, Interrupt, Capture, Timeout, captureFrame, captureByte,
     captureEarlyStartBit, collide, collideAndResync, encounteredCollision, endOfByte,
     initTimeout, startOfAck, sendStartBit, sendBit0, endOfSentByte, ackWindow,
     enqueueTelegram, sendTelegram, discardReceivedTelegram, beginPause, pause, resume,
     retryVars, counters
<1>10. CASE UNCHANGED busVars
  BY <1>2, <1>10 DEF busVars, retryVars, counters
<1> QED
  BY <1>5, <1>6, <1>7, <1>8, <1>9, <1>10 DEF BusNext, Interrupt, Timeout

\* However BUSY, NACK, silence and foreign frames alternate, a telegram is
\* sent at most as often as both retry budgets together allow.
THEOREM AttemptsAreBounded == BusSafety => []AttemptsBounded
<1>1. BusInit => AnswersInv
  BY BusAssumption DEF BusInit, AnswersInv
<1>2. AnswersInv => AttemptsBounded
  BY DEF AnswersInv, AttemptsBounded
<1> QED
  BY <1>1, <1>2, AnswersInvNext, BusAlwaysInv, PTL DEF BusSafety
=============================================================================

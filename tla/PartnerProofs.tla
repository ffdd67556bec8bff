--------------------------- MODULE PartnerProofs ---------------------------
(***************************************************************************)
(* Proofs about two partners of one conversation: the sender and the       *)
(* receiver of a telegram on the line (BusLink), for any contents, retry   *)
(* limits and hand-backs, and a client and the device it talks to          *)
(* (Connection), for any number of requests, losses, copies and restarts.  *)
(* TransportProofs has the invariant of the device.                        *)
(***************************************************************************)
EXTENDS TransportProofs, Connection, BusLink, FiniteSetTheorems

-----------------------------------------------------------------------------
(* A telegram on the line *)


sending == sendCurTelegram # NoTel

\* What the receive buffer says about the telegram on its way.
BufferTells ==
    sending =>
      /\ ~MayEqualLast /\ telegram = sendCurTelegram => taken > 0
      /\ telegram # sendCurTelegram => taken <= between

\* A telegram that was taken once is sent with the repeat flag only.
TakenIsMarked ==
    /\ ~repeatTelegram => sendRetries = 0
    /\ sending /\ taken > 0 => flag

LinkInv ==
    /\ LinkTypeOK
    /\ BufferTells
    /\ TakenIsMarked
    /\ DuplicatesNeedOthers
    /\ ~MayEqualLast => SentIsTaken

LEMMA InitLinkInv == LinkInit => LinkInv
<1> SUFFICES ASSUME LinkInit PROVE LinkInv
  OBVIOUS
<1>1. LinkTypeOK
  <2>1. sendRetries \in 0 .. SendRetriesMax /\ handedBack \in 0 .. MaxHandBack
    BY LinkAssumption DEF LinkInit
  <2>2. taken \in Nat /\ between \in 0 .. MaxBetween
    BY LinkAssumption DEF LinkInit
  <2> QED  BY <2>1, <2>2, Zenon DEF LinkInit, LinkTypeOK
<1>2. BufferTells /\ TakenIsMarked /\ DuplicatesNeedOthers /\ SentIsTaken
  BY DEF LinkInit, BufferTells, TakenIsMarked, sending, flag, DuplicatesNeedOthers, SentIsTaken
<1> QED  BY <1>1, <1>2 DEF LinkInv

-----------------------------------------------------------------------------
(* Type correctness *)

LEMMA NotAcknowledgedTypes ==
    ASSUME LinkTypeOK, sending, NotAcknowledged
    PROVE  /\ sendCurTelegram' \in Contents \cup {NoTel}
           /\ repeated' \in BOOLEAN /\ repeatTelegram' \in BOOLEAN
           /\ sendRetries' \in 0 .. SendRetriesMax
           /\ handedBack' \in 0 .. MaxHandBack
           /\ report' \in {"open", "failed"} \/ report' = report
<1>1. flag \in BOOLEAN
  BY DEF LinkTypeOK, flag
<1>2. sent \in Nat
  BY LinkAssumption DEF LinkTypeOK, sent
<1>3. CASE sent >= SendRetriesMax
  <2>1. 0 \in 0 .. SendRetriesMax /\ 0 \in 0 .. MaxHandBack
    BY LinkAssumption
  <2>2. handedBack < MaxHandBack => handedBack + 1 \in 0 .. MaxHandBack
    BY LinkAssumption DEF LinkTypeOK
  <2>3. finishSendingTelegram(FALSE)
    BY <1>3 DEF NotAcknowledged
  <2> QED
    BY <1>1, <2>1, <2>2, <2>3, Zenon DEF finishSendingTelegram, LinkTypeOK
<1>4. CASE ~(sent >= SendRetriesMax)
  <2>1. sent \in 0 .. SendRetriesMax
    BY <1>2, <1>4, LinkAssumption
  <2> QED  BY <1>1, <1>4, <2>1, Zenon DEF NotAcknowledged, LinkTypeOK
<1> QED  BY <1>3, <1>4

LEMMA NextLinkTypes == LinkTypeOK /\ [LinkNext]_linkVars => LinkTypeOK'
<1> SUFFICES ASSUME LinkTypeOK, [LinkNext]_linkVars PROVE LinkTypeOK'
  OBVIOUS
<1>1. ASSUME NEW c \in Contents, sendTelegram(c) PROVE LinkTypeOK'
  <2>1. 0 \in Nat /\ 0 \in 0 .. MaxBetween
    BY LinkAssumption
  <2> QED  BY <1>1, <2>1, Zenon DEF sendTelegram, LinkTypeOK, receiver
<1>2. CASE SendHeard
  <2>a. sendCurTelegram \in Contents /\ between' = between
    BY <1>2, Zenon DEF SendHeard, LinkTypeOK
  <2>b. taken' \in Nat
    BY <1>2 DEF SendHeard, LinkTypeOK
  <2>1. /\ telegram' \in Contents \cup OtherContents \cup {NoTel}
        /\ telegramLen' \in BOOLEAN
    BY <1>2, <2>a, Zenon DEF SendHeard, handleTelegram, receiver, LinkTypeOK
  <2>2. CASE NotAcknowledged
    BY <1>2, <2>a, <2>b, <2>1, <2>2, NotAcknowledgedTypes, Zenon
       DEF SendHeard, sending, LinkTypeOK
  <2>3. CASE finishSendingTelegram(TRUE)
    <3>1. 0 \in 0 .. SendRetriesMax /\ 0 \in 0 .. MaxHandBack
      BY LinkAssumption
    <3> QED
      BY <2>a, <2>b, <2>1, <2>3, <3>1, Zenon DEF finishSendingTelegram, LinkTypeOK
  <2> QED  BY <1>2, <2>2, <2>3 DEF SendHeard
<1>3. CASE SendGarbled
  BY <1>3, NotAcknowledgedTypes DEF SendGarbled, sending, receiver, LinkTypeOK
<1>4. CASE discardReceivedTelegram
  BY <1>4 DEF discardReceivedTelegram, sender, LinkTypeOK
<1>5. ASSUME NEW c \in OtherContents, OtherTelegram(c) PROVE LinkTypeOK'
  <2>1. /\ telegram' \in Contents \cup OtherContents \cup {NoTel}
        /\ telegramLen' \in BOOLEAN
    BY <1>5, Zenon DEF OtherTelegram, handleTelegram, receiver, LinkTypeOK
  <2>2. between' \in 0 .. MaxBetween
    <3>1. between' = between \/ (between < MaxBetween /\ between' = between + 1)
      BY <1>5, Zenon DEF OtherTelegram
    <3> QED  BY <3>1, LinkAssumption DEF LinkTypeOK
  <2> QED  BY <1>5, <2>1, <2>2 DEF OtherTelegram, sender, LinkTypeOK
<1>6. CASE UNCHANGED linkVars
  BY <1>6 DEF linkVars, sender, receiver, LinkTypeOK
<1> QED  BY <1>1, <1>2, <1>3, <1>4, <1>5, <1>6 DEF LinkNext

-----------------------------------------------------------------------------
(* The sender *)

\* An attempt without an ACK leaves a telegram that is marked from now on, or
\* none.
LEMMA NotAcknowledgedMarks ==
    ASSUME LinkInv, sending, NotAcknowledged
    PROVE  /\ sendCurTelegram' \in {sendCurTelegram, NoTel}
           /\ ~repeatTelegram' => sendRetries' = 0
           /\ sendCurTelegram' # NoTel => flag'
           /\ report' # report => report' = "failed"
<1>1. CASE sent >= SendRetriesMax
  <2>1. flag
    <3>1. sent > 0
      BY <1>1, LinkAssumption DEF LinkInv, LinkTypeOK, sent
    <3> QED  BY <3>1 DEF LinkInv, TakenIsMarked, sent, flag
  <2> QED
    BY <1>1, <2>1 DEF NotAcknowledged, finishSendingTelegram, flag
<1>2. CASE ~(sent >= SendRetriesMax)
  BY <1>2 DEF NotAcknowledged, flag
<1> QED  BY <1>1, <1>2

\* What the receiver makes of the telegram on its way.
LEMMA HeardIsTaken ==
    ASSUME LinkInv, SendHeard
    PROVE  /\ ~MayEqualLast /\ (mayAck \/ telegram' = sendCurTelegram) => taken' > 0
           /\ telegram' # sendCurTelegram => taken' <= between'
           /\ taken' <= between' + 1
<1> DEFINE c == sendCurTelegram
<1>1. sending /\ between' = between
  BY DEF SendHeard, sending
<1>2. taken \in Nat /\ between \in Nat
  BY LinkAssumption DEF LinkInv, LinkTypeOK
<1>3. CASE isTaken(c, flag)
  <2>1. telegram' = c /\ taken' = taken + 1
    BY <1>3 DEF SendHeard, handleTelegram, isTaken
  <2>2. taken <= between
    <3>1. CASE telegram # c
      BY <1>1, <3>1 DEF LinkInv, BufferTells
    <3>2. CASE telegram = c
      <4>1. ~flag
        BY <1>3, <3>2 DEF isTaken, already_received
      <4> QED  BY <1>1, <1>2, <4>1, LinkAssumption DEF LinkInv, TakenIsMarked, LinkTypeOK
    <3> QED  BY <3>1, <3>2
  <2> QED  BY <1>1, <1>2, <2>1, <2>2
<1>4. CASE ~isTaken(c, flag)
  <2>1. UNCHANGED <<telegram, taken>>
    BY <1>4 DEF SendHeard, handleTelegram, isTaken, receiver
  <2>2. mayAck => telegram = c
    BY <1>4 DEF mayAck, isTaken, already_received
  <2> QED
    BY <1>1, <1>2, <2>1, <2>2 DEF LinkInv, BufferTells, DuplicatesNeedOthers
<1> QED  BY <1>3, <1>4

LEMMA SendHeardInv == LinkInv /\ LinkTypeOK' /\ SendHeard => LinkInv'
<1> SUFFICES ASSUME LinkInv, LinkTypeOK', SendHeard PROVE LinkInv'
  OBVIOUS
<1>1. sending
  BY DEF SendHeard, sending
<1>2. CASE NotAcknowledged
  <2>1. BufferTells' /\ DuplicatesNeedOthers'
    BY <1>1, <1>2, HeardIsTaken, NotAcknowledgedMarks
       DEF BufferTells, DuplicatesNeedOthers, sending
  <2>2. TakenIsMarked'
    BY <1>1, <1>2, NotAcknowledgedMarks DEF TakenIsMarked, sending
  <2>3. ~MayEqualLast => SentIsTaken'
    <3>1. taken' >= taken
      BY DEF SendHeard, LinkInv, LinkTypeOK
    <3> QED
      BY <1>1, <1>2, <3>1, NotAcknowledgedMarks DEF LinkInv, LinkTypeOK, SentIsTaken
  <2> QED  BY <2>1, <2>2, <2>3 DEF LinkInv
<1>3. CASE mayAck /\ finishSendingTelegram(TRUE)
  <2>1. sendCurTelegram' = NoTel /\ sendRetries' = 0
    BY <1>3 DEF finishSendingTelegram
  <2>2. BufferTells' /\ TakenIsMarked'
    BY <2>1 DEF BufferTells, TakenIsMarked, sending
  <2> QED
    BY <1>3, <2>2, HeardIsTaken DEF LinkInv, DuplicatesNeedOthers, SentIsTaken
<1> QED  BY <1>2, <1>3 DEF SendHeard

-----------------------------------------------------------------------------
(* The inductive invariant *)

LEMMA NextLinkInv == LinkInv /\ [LinkNext]_linkVars => LinkInv'
<1> SUFFICES ASSUME LinkInv, [LinkNext]_linkVars PROVE LinkInv'
  OBVIOUS
<1> USE DEF sending
<1>1. LinkTypeOK'
  BY NextLinkTypes DEF LinkInv
<1>2. taken \in Nat /\ between \in Nat
  BY LinkAssumption DEF LinkInv, LinkTypeOK
<1>3. ASSUME NEW c \in Contents, sendTelegram(c) PROVE LinkInv'
  <2>1. taken' = 0 /\ between' = 0 /\ telegram' = telegram /\ sendCurTelegram' = c
    BY <1>3 DEF sendTelegram, receiver
  <2>2. MayEqualLast \/ c # telegram
    BY <1>3 DEF sendTelegram
  <2>3. BufferTells' /\ DuplicatesNeedOthers'
    BY <2>1, <2>2 DEF BufferTells, DuplicatesNeedOthers
  <2>4. TakenIsMarked' /\ SentIsTaken'
    BY <1>3, <2>1 DEF sendTelegram, LinkInv, TakenIsMarked, SentIsTaken
  <2> QED  BY <1>1, <2>3, <2>4 DEF LinkInv
<1>4. CASE SendHeard
  BY <1>1, <1>4, SendHeardInv
<1>5. CASE SendGarbled
  <2>1. sending /\ NotAcknowledged /\ UNCHANGED <<telegram, taken, between>>
    BY <1>5 DEF SendGarbled, receiver
  <2>2. BufferTells' /\ TakenIsMarked'
    BY <2>1, NotAcknowledgedMarks DEF LinkInv, BufferTells, TakenIsMarked
  <2>3. DuplicatesNeedOthers' /\ (~MayEqualLast => SentIsTaken')
    BY <2>1, NotAcknowledgedMarks DEF LinkInv, DuplicatesNeedOthers, SentIsTaken
  <2> QED  BY <1>1, <2>2, <2>3 DEF LinkInv
<1>6. CASE discardReceivedTelegram
  BY <1>1, <1>6 DEF discardReceivedTelegram, sender, LinkInv, BufferTells, TakenIsMarked,
     DuplicatesNeedOthers, SentIsTaken, flag
<1>7. ASSUME NEW c \in OtherContents, OtherTelegram(c) PROVE LinkInv'
  <2>1. UNCHANGED <<sendCurTelegram, repeated, repeatTelegram, sendRetries, report, taken>>
    BY <1>7 DEF OtherTelegram, sender
  <2>2. between' = between \/ between' = between + 1
    BY <1>7 DEF OtherTelegram
  <2>3. telegram' = telegram \/ (telegram' = c /\ between' = between + 1)
    BY <1>7 DEF OtherTelegram, handleTelegram, isTaken, receiver
  <2>4. c # sendCurTelegram
    BY LinkAssumption DEF LinkInv, LinkTypeOK
  <2>5. BufferTells'
    BY <1>2, <2>1, <2>2, <2>3, <2>4 DEF LinkInv, BufferTells, DuplicatesNeedOthers
  <2>6. DuplicatesNeedOthers'
    <3>1. taken <= between + 1 /\ taken' = taken
      BY <2>1 DEF LinkInv, DuplicatesNeedOthers
    <3> QED  BY <1>2, <2>2, <3>1 DEF DuplicatesNeedOthers
  <2>7. TakenIsMarked' /\ (~MayEqualLast => SentIsTaken')
    BY <2>1 DEF LinkInv, TakenIsMarked, SentIsTaken, flag
  <2> QED  BY <1>1, <2>5, <2>6, <2>7 DEF LinkInv
<1>8. CASE UNCHANGED linkVars
  BY <1>1, <1>8 DEF linkVars, sender, receiver, LinkInv, BufferTells, TakenIsMarked,
     DuplicatesNeedOthers, SentIsTaken, flag
<1> QED  BY <1>3, <1>4, <1>5, <1>6, <1>7, <1>8 DEF LinkNext

\* What sender and receiver know of each other holds after every attempt to
\* send, lost acknowledge frame and telegram of another device (bus.cpp).
THEOREM LinkInvariant == LinkSpec => []LinkInv
<1>1. LinkInit => LinkInv
  BY InitLinkInv
<1>2. LinkInv /\ [LinkNext]_linkVars => LinkInv'
  BY NextLinkInv
<1> QED  BY <1>1, <1>2, PTL DEF LinkSpec

\* The variables of both ends keep their types.
THEOREM LinkTypeCorrect == LinkSpec => []LinkTypeOK
<1>1. LinkInv => LinkTypeOK
  BY DEF LinkInv
<1> QED  BY <1>1, LinkInvariant, PTL

\* Lost ACKs and hand-backs alone never make the receiver take a telegram
\* twice, whatever was sent before.
THEOREM NoDuplicates == LinkSpec => []DuplicatesNeedOthers
<1>1. LinkInv => DuplicatesNeedOthers
  BY DEF LinkInv
<1> QED  BY <1>1, LinkInvariant, PTL

\* A telegram that differs from the one taken last is reported as sent only
\* if it was taken.
THEOREM SentWasTaken == LinkSpec => [](~MayEqualLast => SentIsTaken)
<1>1. LinkInv => (~MayEqualLast => SentIsTaken)
  BY DEF LinkInv
<1> QED  BY <1>1, LinkInvariant, PTL


-----------------------------------------------------------------------------
(* A conversation: its invariant *)

\* The telegrams from the device to the client, the one that the bus is
\* sending included.
Way == IF sendBuf = "SENDING" THEN Append(toClient, sendTel) ELSE toClient

In(q, p) == {i \in DOMAIN q : q[i].tpci = p}

ConversationTypes ==
    /\ IInv
    /\ connected \in BOOLEAN /\ waiting \in BOOLEAN /\ clean \in BOOLEAN
    /\ clSend \in SeqNo /\ clRcv \in SeqNo
    /\ made \in Nat /\ made <= MaxRequests /\ first \in Nat \ {0} /\ first <= made + 1
    /\ waiting => connected /\ first <= made
    /\ toDevice \in Seq(Received(Client)) /\ toClient \in Seq(Telegram)
    /\ served \in Seq(Ids) /\ answers \in Seq(Apdus \cup {NoApdu})

\* The requests on their way belong to this connection and come in their
\* order; the copies of one are alike.
RequestsInOrder ==
    /\ \A i \in In(toDevice, "DATA") :
          /\ toDevice[i].apdu \in first .. made
          /\ waiting /\ toDevice[i].apdu = made => toDevice[i].seq = clSend
    /\ \A i, j \in In(toDevice, "DATA") : i < j =>
          /\ toDevice[i].apdu <= toDevice[j].apdu
          /\ toDevice[i].apdu = toDevice[j].apdu => toDevice[i].seq = toDevice[j].seq

\* What is on its way was not processed, unless it is the request that was
\* processed last: that one the device does not expect again.
ServedInOrder ==
    /\ Increasing(served)
    /\ waiting /\ made \in Range(served) /\ open => seqNoRcv = Inc(clSend)
    /\ \A d \in Range(served) :
          /\ d <= made
          /\ \A i \in In(toDevice, "DATA") :
                /\ d <= toDevice[i].apdu
                /\ d = toDevice[i].apdu /\ open => seqNoRcv = Inc(toDevice[i].seq)

\* A connection is opened before anything is processed in it.
OpensFirst ==
    \A i \in In(toDevice, "CONNECT") :
        /\ i = 1
        /\ \A d \in Range(served) : d < first

\* Nothing is answered before the connection is open.
NoAnswerBeforeOpen ==
    In(toDevice, "CONNECT") # {} =>
        /\ answers = << >> /\ clRcv = 0
        /\ In(Way, "DATA") = {} /\ In(toDevice, "ACK") = {}
        /\ buf1State = "FREE" /\ (open => seqNoSend = 0)

\* The answers on their way: first copies of the one the client has, then
\* copies of the one it expects.
AnswersInOrder ==
    /\ \A d \in Range(answers) : d \in Range(served) /\ d >= first
    /\ Increasing(answers)
    /\ \A i \in In(Way, "DATA") :
          /\ Way[i].apdu \in Range(served) /\ Way[i].apdu >= first
          /\ Way[i].seq \in {clRcv, Dec(clRcv)}
          /\ Way[i].seq = clRcv => \A d \in Range(answers) : d < Way[i].apdu
    /\ \A i, j \in In(Way, "DATA") : i < j /\ Way[i].seq = clRcv => Way[j].seq = clRcv

\* The answers in the device are newer than those of the client, ...
PendingAreNewer ==
    /\ buf1State # "FREE" => buf1.apdu \in Range(served) /\ buf1.apdu >= first
    /\ buf2State # "FREE" => /\ buf2.apdu \in Range(served) /\ buf2.apdu >= first
                             /\ buf1.apdu < buf2.apdu

\* ... except for one that the client has, but the device does not know it.
AnswerExpected ==
    /\ seqNoSend = clRcv
    /\ buf1State # "FREE" => \A d \in Range(answers) : d < buf1.apdu
    /\ \A i \in In(Way, "DATA") :
          Way[i].seq = clRcv => state = "OPEN_WAIT" /\ Way[i].apdu = buf1.apdu
AnswerTaken ==
    /\ Inc(seqNoSend) = clRcv /\ state = "OPEN_WAIT"
    /\ buf1.apdu \in Range(answers)
    /\ \A d \in Range(answers) : d <= buf1.apdu
    /\ \A i \in In(Way, "DATA") : Way[i].seq # clRcv

\* The client's T_ACKs on their way: of the answer before, then of this one.
AnswerAcksInOrder ==
    /\ \A i \in In(toDevice, "ACK") :
          /\ toDevice[i].seq \in {seqNoSend, Dec(seqNoSend)}
          /\ toDevice[i].seq = seqNoSend => clRcv = Inc(seqNoSend)
    /\ \A i, j \in In(toDevice, "ACK") :
          i < j /\ toDevice[i].seq = seqNoSend => toDevice[j].seq = seqNoSend

AnswersInv ==
    /\ NoAnswerBeforeOpen /\ AnswersInOrder
    /\ open => PendingAreNewer /\ (AnswerExpected \/ AnswerTaken) /\ AnswerAcksInOrder

\* The device's T_ACKs on their way, the requests on theirs, and what the
\* device expects: the client repeats request made, or has its T_ACK.
AcksInOrder ==
    /\ \A i \in In(Way, "ACK") :
          /\ Way[i].seq \in {clSend, Dec(clSend)}
          /\ Way[i].seq = clSend => waiting /\ made \in Range(served)
    /\ \A i, j \in In(Way, "ACK") : i < j /\ Way[i].seq = clSend => Way[j].seq = clSend
RequestsAreNumbered ==
    \A i \in In(toDevice, "DATA") :
        /\ toDevice[i].seq \in {clSend, Dec(clSend)}
        /\ toDevice[i].seq = clSend => waiting /\ toDevice[i].apdu = made
RequestExpected ==
    IF waiting /\ made \in Range(served) THEN seqNoRcv = Inc(clSend) ELSE seqNoRcv = clSend
AcksInv ==
    /\ acknowledged \subseteq Range(served)
    /\ connected => /\ AcksInOrder /\ RequestsAreNumbered
                    /\ open => RequestExpected
                    /\ In(toDevice, "CONNECT") # {} => clSend = 0 /\ In(Way, "ACK") = {}

\* With one request at a time, every answer is with the client or in the device.
AnswersKept ==
    /\ \A d \in first .. made - 1 : d \in Range(answers)
    /\ open => \A d \in Range(served) : d >= first =>
          \/ d \in Range(answers)
          \/ buf1State # "FREE" /\ d = buf1.apdu
          \/ buf2State # "FREE" /\ d = buf2.apdu

ServedInv == ConversationTypes /\ RequestsInOrder /\ ServedInOrder /\ OpensFirst
ConversationInv ==
    /\ ServedInv
    /\ clean => AnswersInv /\ AcksInv /\ (Window = 1 => AnswersKept)

-----------------------------------------------------------------------------
(* Queues of telegrams *)

\* Of the telegrams of kind p, r holds only such that q holds, in their order.
Keeps(q, r, p) ==
    \E k \in Nat : \A j \in In(r, p) : j + k \in In(q, p) /\ r[j] = q[j + k]

LEMMA KeepsShifted ==
    ASSUME NEW q, NEW r, NEW p, NEW k \in Nat,
           \A j \in In(r, p) : j + k \in In(q, p) /\ r[j] = q[j + k]
    PROVE  Keeps(q, r, p)
BY DEF Keeps

LEMMA KeepsSame ==
    ASSUME NEW T, NEW q \in Seq(T), NEW p
    PROVE  Keeps(q, q, p)
<1>1. \A j \in In(q, p) : j + 0 \in In(q, p) /\ q[j] = q[j + 0]
  <2> SUFFICES ASSUME NEW j \in In(q, p) PROVE j + 0 = j
    OBVIOUS
  <2> j \in Nat
    BY DEF In
  <2> QED  OBVIOUS
<1> QED  BY <1>1 DEF Keeps

LEMMA KeepsTail ==
    ASSUME NEW T, NEW q \in Seq(T), q # << >>, NEW p
    PROVE  Keeps(q, Tail(q), p)
<1>1. \A j \in DOMAIN Tail(q) : j + 1 \in DOMAIN q /\ Tail(q)[j] = q[j + 1]
  OBVIOUS
<1>2. \A j \in In(Tail(q), p) : j + 1 \in In(q, p) /\ Tail(q)[j] = q[j + 1]
  BY <1>1 DEF In
<1> QED  BY <1>2 DEF Keeps

LEMMA KeepsNothing == ASSUME NEW q, NEW p PROVE Keeps(q, << >>, p)
<1>1. In(<< >>, p) = {}
  BY DEF In
<1> QED  BY <1>1 DEF Keeps

LEMMA InAppend ==
    ASSUME NEW T, NEW q \in Seq(T), NEW t, NEW p
    PROVE  /\ Append(q, t)[Len(q) + 1] = t
           /\ \A j \in In(q, p) : j \in 1 .. Len(q) /\ Append(q, t)[j] = q[j]
           /\ In(Append(q, t), p) = IF t.tpci = p THEN In(q, p) \cup {Len(q) + 1} ELSE In(q, p)
<1> DEFINE r == Append(q, t)
<1>1. /\ DOMAIN q = 1 .. Len(q) /\ Len(q) \in Nat /\ DOMAIN r = 1 .. Len(q) + 1
      /\ r[Len(q) + 1] = t /\ \A j \in 1 .. Len(q) : r[j] = q[j]
  OBVIOUS
<1> HIDE DEF r
<1>2. \A j : j \in In(r, p) <=> j \in 1 .. Len(q) + 1 /\ r[j].tpci = p
  BY <1>1 DEF In
<1>3. \A j : j \in In(q, p) <=> j \in 1 .. Len(q) /\ r[j].tpci = p
  BY <1>1 DEF In
<1>4. \A j : j \in 1 .. Len(q) + 1 <=> j \in 1 .. Len(q) \/ j = Len(q) + 1
  BY <1>1
<1>5. In(r, p) = IF t.tpci = p THEN In(q, p) \cup {Len(q) + 1} ELSE In(q, p)
  BY <1>1, <1>2, <1>3, <1>4
<1> QED  BY <1>1, <1>3, <1>5 DEF r

LEMMA InBefore ==
    ASSUME NEW T, NEW q \in Seq(T), NEW t, NEW p, NEW j \in In(q, p)
    PROVE  j \in 1 .. Len(q) /\ j \in In(Append(q, t), p) /\ Append(q, t)[j] = q[j]
<1>1. j \in 1 .. Len(q) /\ q[j].tpci = p
  BY DEF In
<1>2. j \in DOMAIN Append(q, t) /\ Append(q, t)[j] = q[j]
  BY <1>1
<1> QED  BY <1>1, <1>2 DEF In

LEMMA KeepsAppend ==
    ASSUME NEW T, NEW q \in Seq(T), NEW t, NEW p, t.tpci # p
    PROVE  Keeps(q, Append(q, t), p)
<1>1. \A j \in In(Append(q, t), p) : j \in In(q, p) /\ Append(q, t)[j] = q[j] /\ j + 0 = j
  BY InAppend
<1>2. \A j \in In(Append(q, t), p) : j + 0 \in In(q, p) /\ Append(q, t)[j] = q[j + 0]
  BY <1>1
<1> QED  BY <1>2 DEF Keeps

LEMMA TailType ==
    ASSUME NEW T, NEW q \in Seq(T), q # << >>
    PROVE  Tail(q) \in Seq(T) /\ Head(q) \in T
OBVIOUS

-----------------------------------------------------------------------------
(* What the steps do to the requests *)

Leaves(q) == q' = q \/ (q # << >> /\ q' = Tail(q))

LEMMA LeavesKeeps ==
    ASSUME ConversationTypes, Leaves(toDevice), NEW p
    PROVE  Keeps(toDevice, toDevice', p)
<1>1. toDevice \in Seq(Received(Client))
  BY DEF ConversationTypes
<1> QED  BY <1>1, KeepsSame, KeepsTail DEF Leaves

LEMMA RequestsKept ==
    ASSUME ConversationTypes, toDevice' \in Seq(Received(Client)), RequestsInOrder,
           Keeps(toDevice, toDevice', "DATA"), UNCHANGED <<first, made>>,
           waiting' => waiting /\ clSend' = clSend
    PROVE  RequestsInOrder'
<1>1. PICK k \in Nat : \A j \in In(toDevice', "DATA") :
          j + k \in In(toDevice, "DATA") /\ toDevice'[j] = toDevice[j + k]
  BY DEF Keeps
<1>2. \A j \in In(toDevice', "DATA") : j \in Nat
  BY DEF In
<1>3. ASSUME NEW i \in In(toDevice', "DATA"), NEW j \in In(toDevice', "DATA"), i < j
      PROVE  i + k < j + k
  BY <1>2, <1>3
<1> QED  BY <1>1, <1>3 DEF RequestsInOrder, In

LEMMA ServedKept ==
    ASSUME ConversationTypes, ServedInOrder, Keeps(toDevice, toDevice', "DATA"),
           UNCHANGED served, made' = made, open' => open /\ seqNoRcv' = seqNoRcv,
           waiting' => waiting /\ clSend' = clSend
    PROVE  ServedInOrder'
<1>1. PICK k \in Nat : \A j \in In(toDevice', "DATA") :
          j + k \in In(toDevice, "DATA") /\ toDevice'[j] = toDevice[j + k]
  BY DEF Keeps
<1>2. Increasing(served)' /\ (waiting' /\ made' \in Range(served)' /\ open' => seqNoRcv' = Inc(clSend'))
  BY DEF ServedInOrder, Increasing, Range
<1>3. ASSUME NEW d \in Range(served), NEW i \in In(toDevice', "DATA")
      PROVE  /\ d <= toDevice'[i].apdu
             /\ d = toDevice'[i].apdu /\ open' => seqNoRcv' = Inc(toDevice'[i].seq)
  BY <1>1 DEF ServedInOrder
<1> QED  BY <1>2, <1>3 DEF ServedInOrder, In

LEMMA OpensKept ==
    ASSUME ConversationTypes, toDevice' \in Seq(Received(Client)), OpensFirst,
           Keeps(toDevice, toDevice', "CONNECT"), UNCHANGED <<first, served>>
    PROVE  OpensFirst'
<1>1. PICK k \in Nat : \A j \in In(toDevice', "CONNECT") : j + k \in In(toDevice, "CONNECT")
  BY DEF Keeps
<1>2. \A j \in In(toDevice', "CONNECT") : j \in Nat \ {0}
  BY DEF In
<1>3. \A j \in In(toDevice', "CONNECT") : j + k = 1
  BY <1>1 DEF OpensFirst
<1>4. \A j \in In(toDevice', "CONNECT") : j = 1
  BY <1>2, <1>3
<1> QED  BY <1>1, <1>4 DEF OpensFirst

-----------------------------------------------------------------------------
(* The steps of the client *)

\* The client repeats its request, closes its connection, loses it, or does
\* not care.
QuietClient ==
    /\ \/ toDevice' = toDevice
       \/ toDevice' = Append(toDevice, Plain(Client, "DISCONNECT"))
       \/ waiting /\ waiting' /\ toDevice' = Append(toDevice, Request)
    /\ toClient' = toClient \/ toClient' = << >> \/ (toClient # << >> /\ toClient' = Tail(toClient))
    /\ \/ UNCHANGED <<connected, waiting>>
       \/ connected' = FALSE /\ waiting' = FALSE
    /\ UNCHANGED <<vars, clSend, clRcv, made, first, clean, served, acknowledged, answers>>

TakesAck ==
    /\ waiting /\ toClient # << >>
    /\ Head(toClient).tpci = "ACK" /\ Head(toClient).seq = clSend
    /\ waiting' = FALSE /\ clSend' = Inc(clSend) /\ acknowledged' = acknowledged \cup {made}
    /\ toClient' = Tail(toClient)
    /\ UNCHANGED <<vars, connected, clRcv, made, first, clean, toDevice, served, answers>>

TakesAnswer ==
    /\ connected /\ toClient # << >> /\ toClient' = Tail(toClient)
    /\ ReceivesAnswer(Head(toClient))
    /\ UNCHANGED <<vars, made, first, clean, served>>

LEMMA ClientStepIs ==
    ASSUME ConversationTypes, ClientSteps \/ ClientCrashes
    PROVE  QuietClient \/ ClientConnects \/ ClientRequests \/ TakesAck \/ TakesAnswer
<1>1. CASE ClientTimesOut
  <2>1. UNCHANGED <<vars, clSend, clRcv, made, first, clean, served, toClient, acknowledged, answers>>
    BY <1>1 DEF ClientTimesOut, history
  <2>2. CASE waiting /\ Say(Request) /\ UNCHANGED <<connected, waiting>>
    BY <2>1, <2>2 DEF QuietClient, Say
  <2>3. CASE Close
    BY <2>1, <2>3 DEF QuietClient, Close, Say
  <2> QED  BY <1>1, <2>2, <2>3 DEF ClientTimesOut
<1>2. CASE ClientCrashes
  BY <1>2 DEF ClientCrashes, QuietClient, history
<1>3. CASE ClientReceives
  <2> DEFINE t == Head(toClient)
  <2>1. /\ toClient # << >> /\ toClient' = Tail(toClient)
        /\ UNCHANGED <<vars, made, first, clean, served>>
    BY <1>3 DEF ClientReceives
  <2>2. CASE connected /\ ReceivesAck(t)
    BY <2>1, <2>2 DEF ReceivesAck, QuietClient, TakesAck, Close, Say
  <2>3. CASE connected /\ ReceivesNack(t)
    <3>1. UNCHANGED <<clSend, clRcv, acknowledged, answers>>
      BY <2>3 DEF ReceivesNack, history
    <3>2. CASE waiting /\ Say(Request) /\ UNCHANGED <<connected, waiting>>
      BY <2>1, <3>1, <3>2 DEF QuietClient, Say
    <3>3. CASE Close
      BY <2>1, <3>1, <3>3 DEF QuietClient, Close, Say
    <3>4. CASE UNCHANGED <<connected, waiting, toDevice>>
      BY <2>1, <3>1, <3>4 DEF QuietClient
    <3> QED  BY <2>3, <3>2, <3>3, <3>4 DEF ReceivesNack
  <2>4. CASE connected /\ ReceivesAnswer(t)
    BY <2>1, <2>4 DEF TakesAnswer
  <2>5. CASE connected /\ ReceivesDisconnect(t)
    BY <2>1, <2>5 DEF ReceivesDisconnect, QuietClient, history
  <2>6. CASE UNCHANGED <<connected, waiting, clSend, clRcv, clRep, toDevice, history>>
    BY <2>1, <2>6 DEF QuietClient, history
  <2> QED  BY <1>3, <2>2, <2>3, <2>4, <2>5, <2>6 DEF ClientReceives
<1> QED  BY <1>1, <1>2, <1>3 DEF ClientSteps

-----------------------------------------------------------------------------
(* The steps of the device *)

\* The connection of the device stays as it is, or is closed.
Stays == open' => UNCHANGED <<state, seqNoSend, seqNoRcv, bufferVars>>
Silent ==
    \/ Way' = Way \/ Way' = toClient
    \/ \E tel \in Telegram : tel.tpci \notin {"DATA", "ACK"} /\ Way' = Append(Way, tel)
DeviceQuiet == Stays /\ Silent /\ served' = served
SaysAgain ==
    /\ Stays /\ sendBuf = "SENDING" /\ sendTel.tpci \in Control
    /\ Way' = Append(Way, sendTel) /\ served' = served
Opens ==
    /\ toDevice # << >> /\ Head(toDevice).tpci = "CONNECT" /\ ~open /\ actionA01Connect(Client)
    /\ Way' = Way /\ served' = served
Serves(t) ==
    /\ Accepts(t) /\ actionA02sendAckPduAndProcessApci(t, TRUE)
    /\ Way' = Append(Way, Ack(connectedAddr, "ACK", t.seq)) /\ served' = Append(served, t.apdu)
AcksAgain(t) ==
    /\ t.tpci = "DATA" /\ open /\ IsRepeated(t) /\ ~Accepts(t)
    /\ Stays /\ Way' = Append(Way, Ack(connectedAddr, "ACK", t.seq)) /\ served' = served
HearsAck(t) ==
    /\ t.tpci = "ACK" /\ state = "OPEN_WAIT" /\ t.seq = seqNoSend
    /\ actionA08IncrementSequenceNumber /\ state' = "OPEN_IDLE"
    /\ Way' = Way /\ served' = served
SendsAnswer ==
    /\ ReadyToSend /\ actionA07SendDirectTelegram
    /\ Way' = Append(Way, buf1) /\ served' = served
RepeatsAnswer ==
    /\ state = "OPEN_WAIT" /\ Stays /\ Way' = Append(Way, buf1) /\ served' = served

DeviceDoes ==
    \/ DeviceQuiet \/ SaysAgain \/ Opens \/ SendsAnswer \/ RepeatsAnswer
    \/ /\ toDevice # << >>
       /\ \/ Serves(Head(toDevice)) \/ AcksAgain(Head(toDevice)) \/ HearsAck(Head(toDevice))

\* What the device hands to the bus is the last of what is on its way.
LEMMA SendIsAppend ==
    ASSUME ConversationTypes, NEW tel, Send(tel), toClient' = toClient
    PROVE  Way' = Append(Way, tel)
BY DEF Send, Way

LEMMA WayType == ConversationTypes => Way \in Seq(Telegram)
BY DEF ConversationTypes, Way, IInv, TypeOK

LEMMA DisconnectTelegrams ==
    ASSUME ConversationTypes, NEW n \in SeqNo, NEW p \in {"DISCONNECT", "NACK"}
    PROVE  Ack(connectedAddr, p, n) \in Telegram /\ Ack(connectedAddr, p, n).tpci = p
<1>1. p \in Tpci
  BY DEF Tpci, Control
<1>2. connectedAddr \in Addr
  BY DEF ConversationTypes, IInv, TypeOK
<1> QED  BY <1>1, <1>2, AckType DEF Ack

LEMMA A06IsQuiet ==
    ASSUME ConversationTypes, actionA06DisconnectAndClose, toClient' = toClient, served' = served
    PROVE  DeviceQuiet
<1>1. Way' = Append(Way, Ack(connectedAddr, "DISCONNECT", 0))
  BY SendIsAppend DEF actionA06DisconnectAndClose, sendConControlTelegram
<1>2. Silent
  BY <1>1, DisconnectTelegrams, ZeroType DEF Silent
<1> QED  BY <1>2 DEF DeviceQuiet, Stays, open, actionA06DisconnectAndClose

LEMMA A09Repeats ==
    ASSUME ConversationTypes, state = "OPEN_WAIT", actionA09RepeatMessage, toClient' = toClient,
           served' = served
    PROVE  RepeatsAnswer
<1>1. Way' = Append(Way, buf1)
  BY SendIsAppend DEF actionA09RepeatMessage, sendPreparedConnectedTelegram
<1> QED  BY <1>1 DEF RepeatsAnswer, Stays, actionA09RepeatMessage, connVars, bufferVars

LEMMA IgnoredIsQuiet ==
    ASSUME UNCHANGED <<vars, toClient, served>>
    PROVE  DeviceQuiet
BY DEF DeviceQuiet, Stays, Silent, Way, vars, connVars, bufferVars, isrVars, open

LEMMA DeviceReceivesIs == 
    ASSUME ConversationTypes, DeviceReceives
    PROVE  DeviceDoes
<1> DEFINE t == Head(toDevice)
<1>1. /\ toDevice # << >> /\ processTelegram(t, TRUE) /\ toClient' = toClient
      /\ served' = IF Accepts(t) THEN Append(served, t.apdu) ELSE served
  BY DEF DeviceReceives
<1>2. t \in Received(Client) /\ Client \in Remotes
  BY <1>1, ClientAssumption DEF ConversationTypes
<1>3. t \in Telegram /\ t.addr = Client /\ t.seq \in SeqNo
  BY <1>2, ReceivedType DEF Telegram
<1>4. connectedAddr \in Addr /\ (open => connectedAddr = Client)
  BY ClientAssumption DEF ConversationTypes, IInv, TypeOK, OpenHasPartner
<1> HIDE DEF t
<1>5. CASE processConControlConnectPDU(t)
  <2>1. t.tpci = "CONNECT" /\ served' = served
    BY <1>1, <1>5 DEF processConControlConnectPDU, Accepts
  <2>2. CASE ~open /\ actionA01Connect(t.addr)
    BY <1>1, <1>3, <2>1, <2>2 DEF Opens, Way, actionA01Connect, isrVars, DeviceDoes, t
  <2>3. CASE UNCHANGED vars
    BY <1>1, <2>1, <2>3, IgnoredIsQuiet DEF DeviceDoes
  <2> QED  BY <1>3, <1>4, <1>5, <2>2, <2>3 DEF processConControlConnectPDU
<1>6. CASE processConControlDisconnectPDU(t)
  <2>1. served' = served
    BY <1>1, <1>6 DEF processConControlDisconnectPDU, Accepts
  <2>2. CASE UNCHANGED vars
    BY <1>1, <2>1, <2>2, IgnoredIsQuiet DEF DeviceDoes
  <2>3. CASE state' = "CLOSED" /\ actionA05DisconnectUser
    BY <1>1, <2>1, <2>3
    DEF DeviceQuiet, Stays, Silent, Way, open, actionA05DisconnectUser, isrVars, DeviceDoes
  <2> QED  BY <1>6, <2>2, <2>3 DEF processConControlDisconnectPDU
<1>7. CASE processAck(t)
  <2>1. served' = served /\ t.tpci = "ACK"
    BY <1>1, <1>7 DEF processAck, Accepts
  <2>2. CASE UNCHANGED vars
    BY <1>1, <2>1, <2>2, IgnoredIsQuiet DEF DeviceDoes
  <2>3. CASE actionA06DisconnectAndClose
    BY <1>1, <2>1, <2>3, A06IsQuiet DEF DeviceDoes
  <2>4. CASE state = "OPEN_WAIT" /\ t.seq = seqNoSend
             /\ actionA08IncrementSequenceNumber /\ state' = "OPEN_IDLE"
    <3>1. Way' = Way
      BY <1>1, <2>4 DEF actionA08IncrementSequenceNumber, isrVars, Way
    <3> QED  BY <1>1, <2>1, <2>4, <3>1 DEF HearsAck, DeviceDoes, t
  <2> QED  BY <1>7, <2>2, <2>3, <2>4 DEF processAck
<1>8. CASE processNack(t)
  <2>1. served' = served
    BY <1>1, <1>8 DEF processNack, Accepts
  <2>2. CASE UNCHANGED vars
    BY <1>1, <2>1, <2>2, IgnoredIsQuiet DEF DeviceDoes
  <2>3. CASE actionA06DisconnectAndClose
    BY <1>1, <2>1, <2>3, A06IsQuiet DEF DeviceDoes
  <2>4. CASE state = "OPEN_WAIT" /\ actionA09RepeatMessage
    BY <1>1, <2>1, <2>4, A09Repeats DEF DeviceDoes
  <2> QED  BY <1>8, <2>2, <2>3, <2>4 DEF processNack
<1>9. CASE processIndividual(t, TRUE)
  <2>1. served' = served /\ Send(Plain(t.addr, "UDATA"))
        /\ UNCHANGED <<state, connVars, repCount, bufferVars, connAge, ackAge>>
    BY <1>1, <1>9 DEF processIndividual, Accepts
  <2>2. Way' = Append(Way, Plain(t.addr, "UDATA"))
    BY <1>1, <2>1, SendIsAppend
  <2>3. Plain(t.addr, "UDATA") \in Telegram /\ Plain(t.addr, "UDATA").tpci = "UDATA"
    BY <1>3, PlainType DEF Plain, Tpci, Telegram
  <2>4. Silent
    BY <2>2, <2>3 DEF Silent
  <2> QED  BY <2>1, <2>4 DEF DeviceQuiet, Stays, open, connVars, DeviceDoes
<1>10. CASE processDirectTelegram(t, TRUE)
  <2>1. CASE ~fromPartner(t)
    BY <1>1, <1>10, <2>1, IgnoredIsQuiet DEF processDirectTelegram, Accepts, DeviceDoes
  <2>2. CASE Accepts(t)
    <3>1. actionA02sendAckPduAndProcessApci(t, TRUE)
      BY <1>10, <2>2 DEF processDirectTelegram, Accepts
    <3>2. Way' = Append(Way, Ack(connectedAddr, "ACK", t.seq))
      BY <1>1, <3>1, SendIsAppend DEF actionA02sendAckPduAndProcessApci, sendConControlTelegram
    <3> QED  BY <1>1, <2>2, <3>1, <3>2 DEF Serves, DeviceDoes, t
  <2>3. CASE fromPartner(t) /\ ~Accepts(t) /\ IsRepeated(t)
    <3>1. actionA03sendAckPduAgain(t.seq) /\ t.tpci = "DATA" /\ open /\ served' = served
      BY <1>1, <1>10, <2>3 DEF processDirectTelegram, fromPartner
    <3>2. Way' = Append(Way, Ack(connectedAddr, "ACK", t.seq))
      BY <1>1, <3>1, SendIsAppend DEF actionA03sendAckPduAgain, sendConControlTelegram
    <3>3. Stays
      BY <3>1 DEF Stays, actionA03sendAckPduAgain, connVars
    <3> QED  BY <1>1, <2>3, <3>1, <3>2, <3>3 DEF AcksAgain, DeviceDoes, t
  <2>4. CASE fromPartner(t) /\ ~Accepts(t) /\ ~IsRepeated(t)
    <3>1. actionA04SendNAck(t.seq) /\ served' = served
      BY <1>1, <1>10, <2>4 DEF processDirectTelegram
    <3>2. Way' = Append(Way, Ack(connectedAddr, "NACK", t.seq))
      BY <1>1, <3>1, SendIsAppend DEF actionA04SendNAck, sendConControlTelegram
    <3>3. Silent
      BY <1>3, <3>2, DisconnectTelegrams DEF Silent
    <3> QED  BY <3>1, <3>3 DEF DeviceQuiet, Stays, actionA04SendNAck, connVars, DeviceDoes
  <2> QED  BY <2>1, <2>2, <2>3, <2>4 DEF Accepts
<1> QED  BY <1>1, <1>5, <1>6, <1>7, <1>8, <1>9, <1>10
         DEF processTelegram, processConControlAcknowledgmentPDU

DeviceSide == DeviceSteps \/ LosesTelegram \/ DeviceRestarts

LEMMA DeviceStepIs ==
    ASSUME ConversationTypes, DeviceSide
    PROVE  /\ DeviceDoes /\ Leaves(toDevice)
           /\ UNCHANGED <<clientVars, acknowledged, answers>>
<1>1. CASE DeviceReceives
  BY <1>1, DeviceReceivesIs DEF DeviceReceives, Leaves, Unharmed, history
<1>2. CASE LosesTelegram
  BY <1>2, IgnoredIsQuiet DEF LosesTelegram, Leaves, Unharmed, history, DeviceDoes
<1>3. CASE DeviceSends
  <2>1. /\ UNCHANGED <<toDevice, served, clientVars, history>> 
        /\ \E successful \in BOOLEAN : finishedSendingTelegram(successful)
                /\ (toClient' = Append(toClient, sendTel) \/ (~successful /\ toClient' = toClient))
    BY <1>3 DEF DeviceSends, Unharmed
  <2>2. PICK successful \in BOOLEAN : finishedSendingTelegram(successful)
                /\ (toClient' = Append(toClient, sendTel) \/ (~successful /\ toClient' = toClient))
    BY <2>1
  <2>3. /\ sendBuf = "SENDING" /\ sendTel' = sendTel /\ Stays
        /\ sendBuf' = "FREE" \/ (sendBuf' = "SENDING" /\ sendTel.tpci \in Control)
    BY <2>2 DEF finishedSendingTelegram, Stays, connVars
  <2>4. Way' = Way \/ Way' = toClient \/ (sendTel.tpci \in Control /\ Way' = Append(Way, sendTel))
    BY <2>2, <2>3 DEF Way
  <2> QED  BY <2>1, <2>3, <2>4 DEF DeviceDoes, DeviceQuiet, Silent, SaysAgain, Leaves, history
<1>4. CASE DeviceLoop
  <2>1. /\ loop /\ toClient' = toClient /\ served' = served
        /\ Leaves(toDevice) /\ UNCHANGED <<clientVars, acknowledged, answers>>
    BY <1>4 DEF DeviceLoop, Unharmed, Leaves, history
  <2>2. CASE actionA06DisconnectAndClose
    BY <2>1, <2>2, A06IsQuiet DEF DeviceDoes
  <2>3. CASE loopSendResponse
    <3>1. Way' = Append(Way, buf1)
      BY <2>1, <2>3, SendIsAppend
      DEF loopSendResponse, actionA07SendDirectTelegram, sendPreparedConnectedTelegram
    <3> QED  BY <2>1, <2>3, <3>1 DEF loopSendResponse, SendsAnswer, DeviceDoes
  <2>4. CASE loopRepeat
    BY <2>1, <2>4, A09Repeats DEF loopRepeat, AckTimedOut, DeviceDoes
  <2> QED  BY <2>1, <2>2, <2>3, <2>4
           DEF loop, loopConnectionTimeout, loopGiveUp
<1>5. CASE DeviceTick
  BY <1>5 DEF DeviceTick, Tick, Unharmed, history, DeviceDoes, DeviceQuiet, Stays, Silent, Way,
              Leaves, connVars, isrVars
<1>6. CASE DeviceRestarts
  <2>1. Way' = toClient
    BY <1>6 DEF DeviceRestarts, Way
  <2> QED  BY <1>6, <2>1 DEF DeviceRestarts, DeviceDoes, DeviceQuiet, Stays, Silent, open, Leaves,
                             history
<1> QED  BY <1>1, <1>2, <1>3, <1>4, <1>5, <1>6 DEF DeviceSide, DeviceSteps

-----------------------------------------------------------------------------
(* Types *)

LEMMA DeviceKeepsIInv == ASSUME ConversationTypes, DeviceSide PROVE IInv'
<1>1. IInv
  BY DEF ConversationTypes
<1>2. CASE DeviceReceives
  <2>1. toDevice # << >> /\ processTelegram(Head(toDevice), TRUE)
    BY <1>2 DEF DeviceReceives
  <2>2. Head(toDevice) \in Received(Client) /\ Client \in Remotes
    BY <2>1, ClientAssumption DEF ConversationTypes
  <2>3. Receive
    BY <2>1, <2>2 DEF Receive
  <2> QED  BY <1>1, <2>3, NextIInv DEF Next
<1>3. CASE LosesTelegram
  BY <1>1, <1>3, NextIInv DEF LosesTelegram
<1>4. CASE DeviceSends
  BY <1>1, <1>4, NextIInv DEF DeviceSends, Next, Interrupt
<1>5. CASE DeviceLoop
  BY <1>1, <1>5, NextIInv DEF DeviceLoop, Next
<1>6. CASE DeviceTick
  BY <1>1, <1>6, NextIInv DEF DeviceTick, Next
<1>7. CASE DeviceRestarts
  BY <1>1, <1>7, RepAssumption
  DEF DeviceRestarts, IInv, TypeOK, BuffersMatchState, PendingResponsesNumbered, OpenHasPartner,
      RetriesAreFresh, open, Addr, TL4State, BufferState
<1> QED  BY <1>2, <1>3, <1>4, <1>5, <1>6, <1>7 DEF DeviceSide, DeviceSteps

LEMMA DeviceTypes == ASSUME ConversationTypes, DeviceSide PROVE ConversationTypes'
<1>1. IInv'
  BY DeviceKeepsIInv
<1>2. /\ DeviceDoes /\ Leaves(toDevice) /\ UNCHANGED <<clientVars, acknowledged, answers>>
  BY DeviceStepIs
<1>3. toDevice' \in Seq(Received(Client))
  BY <1>2, TailType DEF Leaves, ConversationTypes
<1>4. toClient' \in Seq(Telegram)
  <2>1. sendTel \in Telegram /\ toClient \in Seq(Telegram)
    BY DEF ConversationTypes, IInv, TypeOK
  <2>2. toClient' = toClient \/ toClient' = Append(toClient, sendTel)
    BY DEF DeviceSide, DeviceSteps, DeviceReceives, DeviceSends, DeviceLoop, DeviceTick,
           LosesTelegram, DeviceRestarts
  <2> QED  BY <2>1, <2>2
<1>5. served' \in Seq(Ids)
  <2>1. CASE served' = served
    BY <2>1 DEF ConversationTypes
  <2>2. CASE toDevice # << >> /\ Serves(Head(toDevice))
    <3>1. Head(toDevice) \in Received(Client) /\ Client \in Remotes
      BY <2>2, ClientAssumption DEF ConversationTypes
    <3>2. Head(toDevice).apdu \in Ids
      BY <2>2, <3>1, ReceivedType, ClientAssumption DEF Serves, Accepts, Ids
    <3> QED  BY <2>2, <3>2 DEF Serves, ConversationTypes
  <2> QED  BY <1>2, <2>1, <2>2 DEF DeviceDoes, DeviceQuiet, SaysAgain, Opens, SendsAnswer,
                                   RepeatsAnswer, AcksAgain, HearsAck
<1> QED  BY <1>1, <1>2, <1>3, <1>4, <1>5 DEF ConversationTypes, clientVars

LEMMA ClientTelegrams ==
    /\ \A p \in {"CONNECT", "DISCONNECT"} :
          Plain(Client, p) \in Received(Client) /\ Plain(Client, p).tpci = p
    /\ \A p \in {"ACK", "NACK"}, n \in SeqNo :
          /\ Ack(Client, p, n) \in Received(Client) /\ Ack(Client, p, n).tpci = p
          /\ Ack(Client, p, n).seq = n
    /\ \A n \in SeqNo, d \in Apdus :
          /\ Data(Client, n, d) \in Received(Client) /\ Data(Client, n, d).tpci = "DATA"
          /\ Data(Client, n, d).seq = n /\ Data(Client, n, d).apdu = d
BY DEF Received, Plain, Ack, Data

LEMMA NextNumbers == \A n \in SeqNo : Inc(n) \in SeqNo /\ Dec(n) \in SeqNo
BY SeqAssumption DEF SeqNo, Inc, Dec

LEMMA ClientTypes == 
    ASSUME ConversationTypes, ClientSteps \/ ClientCrashes
    PROVE  ConversationTypes'
<1> USE ClientTelegrams, NextNumbers, ZeroType
<1>1. UNCHANGED <<vars, served>> => IInv' /\ served' \in Seq(Ids)
  BY NextIInv DEF ConversationTypes
<1>2. MaxRequests \in Nat \ {0} /\ Apdus = 1 .. MaxRequests
  BY ClientAssumption
<1>3. CASE QuietClient
  <2>1. toDevice' \in Seq(Received(Client))
    <3>1. CASE waiting /\ toDevice' = Append(toDevice, Request)
      <4>1. Request \in Received(Client)
        BY <1>2, <3>1 DEF ConversationTypes, Request
      <4> QED  BY <3>1, <4>1 DEF ConversationTypes
    <3>2. toDevice \in Seq(Received(Client))
      BY DEF ConversationTypes
    <3> QED  BY <1>3, <3>1, <3>2 DEF QuietClient
  <2>2. toClient' \in Seq(Telegram)
    <3>1. toClient \in Seq(Telegram) /\ << >> \in Seq(Telegram)
      BY DEF ConversationTypes
    <3>2. toClient # << >> => Tail(toClient) \in Seq(Telegram)
      BY <3>1, TailType
    <3>3. toClient' = toClient \/ toClient' = << >> \/ (toClient # << >> /\ toClient' = Tail(toClient))
      BY <1>3 DEF QuietClient
    <3>4. CASE toClient # << >> /\ toClient' = Tail(toClient)
      BY <3>2, <3>4
    <3>5. CASE toClient' = toClient
      BY <3>1, <3>5
    <3>6. CASE toClient' = << >>
      BY <3>1, <3>6
    <3> QED  BY <3>3, <3>4, <3>5, <3>6
  <2>3. /\ UNCHANGED <<vars, clSend, clRcv, made, first, clean, served, acknowledged, answers>>
        /\ (connected' = connected /\ waiting' = waiting) \/ (connected' = FALSE /\ waiting' = FALSE)
    BY <1>3 DEF QuietClient
  <2>4. IInv' /\ served' \in Seq(Ids)
    BY <1>1, <2>3
  <2>5. /\ clSend' = clSend /\ clRcv' = clRcv /\ made' = made /\ first' = first /\ clean' = clean
        /\ answers' = answers
    BY <2>3
  <2>6. connected' \in BOOLEAN /\ waiting' \in BOOLEAN /\ (waiting' => connected' /\ first <= made)
    <3>1. connected \in BOOLEAN /\ waiting \in BOOLEAN /\ (waiting => connected /\ first <= made)
      BY DEF ConversationTypes
    <3>2. CASE connected' = connected /\ waiting' = waiting
      BY <3>1, <3>2
    <3>3. CASE connected' = FALSE /\ waiting' = FALSE
      BY <3>3
    <3>4. (connected' = connected /\ waiting' = waiting) \/ (connected' = FALSE /\ waiting' = FALSE)
      BY <2>3
    <3> QED  BY <3>2, <3>3, <3>4
  <2> QED  BY <2>1, <2>2, <2>4, <2>5, <2>6 DEF ConversationTypes
<1>4. CASE ClientConnects
  BY <1>1, <1>2, <1>4 DEF ClientConnects, Say, ConversationTypes, open, faultVars
<1>5. CASE ClientRequests
  <2>1. made' = made + 1 /\ made' \in Apdus
    BY <1>2, <1>5 DEF ClientRequests, MayRequest, ConversationTypes
  <2>2. toDevice' \in Seq(Received(Client))
    BY <1>5, <2>1 DEF ClientRequests, Say, ConversationTypes
  <2> QED  BY <1>1, <1>2, <1>5, <2>1, <2>2
           DEF ClientRequests, MayRequest, ConversationTypes, history
<1>6. CASE TakesAck
  BY <1>1, <1>6, TailType DEF TakesAck, ConversationTypes
<1>7. CASE TakesAnswer
  <2> DEFINE t == Head(toClient)
  <2>1. t \in Telegram
    BY <1>7 DEF TakesAnswer, ConversationTypes
  <2>2. t.seq \in SeqNo /\ t.apdu \in Apdus \cup {NoApdu}
    BY <2>1 DEF Telegram
  <2>3. toDevice' \in Seq(Received(Client))
    BY <1>7, <2>2 DEF TakesAnswer, ReceivesAnswer, Say, ConversationTypes
  <2>4. answers' \in Seq(Apdus \cup {NoApdu}) /\ clRcv' \in SeqNo
    BY <1>7, <2>2 DEF TakesAnswer, ReceivesAnswer, ConversationTypes
  <2>5. toClient' \in Seq(Telegram)
    BY <1>7, TailType DEF TakesAnswer, ConversationTypes
  <2> QED  BY <1>1, <1>7, <2>3, <2>4, <2>5 DEF TakesAnswer, ReceivesAnswer, ConversationTypes
<1> QED  BY <1>3, <1>4, <1>5, <1>6, <1>7, ClientStepIs

-----------------------------------------------------------------------------
(* Requests are processed in their order *)

\* The client's telegrams, without the requests and what opens a connection.
LEMMA SaysOther ==
    ASSUME ConversationTypes, NEW t, toDevice' = Append(toDevice, t), NEW p, t.tpci # p
    PROVE  Keeps(toDevice, toDevice', p)
BY KeepsAppend DEF ConversationTypes

\* The client says request made, for the first time or again.
LEMMA RequestServed ==
    ASSUME ConversationTypes, RequestsInOrder, ServedInOrder, OpensFirst, made' >= made, made' \in Apdus,
           toDevice' = Append(toDevice, Data(Client, clSend, made')), clSend' = clSend,
           waiting' = TRUE, first' = first, UNCHANGED <<served, state, seqNoRcv>>,
           made' # made \/ waiting, first <= made'
    PROVE  RequestsInOrder' /\ ServedInOrder' /\ OpensFirst'
<1> DEFINE t == Data(Client, clSend, made')
<1>1. /\ toDevice' = Append(toDevice, t) /\ t.tpci = "DATA" /\ t.seq = clSend /\ t.apdu = made'
      /\ toDevice \in Seq(Received(Client)) /\ made \in Nat /\ first \in Nat
  BY ClientTelegrams DEF ConversationTypes
<1> HIDE DEF t
<1> DEFINE n == Len(toDevice) + 1
<1>2. /\ In(toDevice', "DATA") = In(toDevice, "DATA") \cup {n} /\ toDevice'[n] = t
      /\ \A i \in In(toDevice, "DATA") : i \in 1 .. Len(toDevice) /\ toDevice'[i] = toDevice[i]
  BY <1>1, InAppend
<1>3. Len(toDevice) \in Nat
  BY <1>1
<1>4. made' \in Nat
  BY ClientAssumption
<1>5. \A i \in In(toDevice, "DATA") : toDevice[i].apdu \in first .. made
  BY DEF RequestsInOrder
<1>6. RequestsInOrder'
  <2>1. ASSUME NEW i \in In(toDevice', "DATA")
        PROVE  /\ toDevice'[i].apdu \in first .. made'
               /\ toDevice'[i].apdu = made' => toDevice'[i].seq = clSend
    <3>1. CASE i = n
      BY <1>1, <1>2, <1>4, <3>1
    <3>2. CASE i \in In(toDevice, "DATA")
      BY <1>1, <1>2, <1>4, <1>5, <3>2 DEF RequestsInOrder
    <3> QED  BY <1>2, <3>1, <3>2
  <2>2. ASSUME NEW i \in In(toDevice', "DATA"), NEW j \in In(toDevice', "DATA"), i < j
        PROVE  /\ toDevice'[i].apdu <= toDevice'[j].apdu
               /\ toDevice'[i].apdu = toDevice'[j].apdu => toDevice'[i].seq = toDevice'[j].seq
    <3>1. i # n
      BY <1>2, <1>3, <2>2
    <3>2. CASE j = n
      <4>1. i \in In(toDevice, "DATA") /\ toDevice'[i] = toDevice[i] /\ toDevice'[j] = t
        BY <1>2, <3>1, <3>2
      <4>2. toDevice'[i].apdu \in first .. made
        BY <1>5, <4>1
      <4>3. \A x \in first .. made : x <= made' /\ (x = made' => made' = made)
        BY <1>1, <1>4
      <4> QED  BY <1>1, <2>1, <4>1, <4>2, <4>3
    <3>3. CASE j # n
      BY <1>2, <2>2, <3>1, <3>3 DEF RequestsInOrder
    <3> QED  BY <3>2, <3>3
  <2> QED  BY <2>1, <2>2 DEF RequestsInOrder, In
<1>7. ServedInOrder'
  <2>1. ASSUME NEW d \in Range(served)
        PROVE  d <= made' /\ d \in Nat
    <3>1. d \in Ids
      BY DEF ConversationTypes, Range
    <3> QED  BY <1>1, <1>4, <3>1, ClientAssumption DEF ServedInOrder, Ids
  <2>2. ASSUME NEW d \in Range(served), NEW i \in In(toDevice', "DATA"), i # n
        PROVE  /\ d <= toDevice'[i].apdu
               /\ d = toDevice'[i].apdu /\ open => seqNoRcv = Inc(toDevice'[i].seq)
    BY <1>2, <2>2 DEF ServedInOrder
  <2>3. ASSUME NEW d \in Range(served), d = made', open
        PROVE  seqNoRcv = Inc(clSend)
    <3>1. made' = made
      BY <1>1, <1>4, <2>1, <2>3 DEF ServedInOrder
    <3> QED  BY <2>3, <3>1 DEF ServedInOrder
  <2>4. (waiting /\ made \in Range(served) /\ open => seqNoRcv = Inc(clSend))'
    BY <2>3 DEF open, Range
  <2>5. Increasing(served)'
    BY DEF ServedInOrder, Increasing
  <2>6. \A d \in Range(served) :
          /\ d <= made'
          /\ \A i \in In(toDevice', "DATA") :
                /\ d <= toDevice'[i].apdu
                /\ d = toDevice'[i].apdu /\ open => seqNoRcv = Inc(toDevice'[i].seq)
    BY <1>1, <1>2, <2>1, <2>2, <2>3
  <2> QED  BY <2>4, <2>5, <2>6 DEF ServedInOrder, In, open
<1>8. OpensFirst'
  <2>1. Keeps(toDevice, toDevice', "CONNECT")
    BY <1>1, SaysOther
  <2>2. toDevice' \in Seq(Received(Client))
    BY <1>1, ClientTelegrams DEF t, ConversationTypes
  <2> QED  BY <2>1, <2>2, OpensKept
<1> QED  BY <1>6, <1>7, <1>8

LEMMA RangeAppend ==
    ASSUME NEW T, NEW s \in Seq(T), NEW x
    PROVE  Range(Append(s, x)) = Range(s) \cup {x}
<1>1. /\ DOMAIN Append(s, x) = DOMAIN s \cup {Len(s) + 1} /\ Append(s, x)[Len(s) + 1] = x
      /\ \A i \in DOMAIN s : Append(s, x)[i] = s[i]
  OBVIOUS
<1> QED  BY <1>1 DEF Range

LEMMA IncreasingAppend ==
    ASSUME NEW T, T \subseteq Int, NEW s \in Seq(T), Increasing(s), NEW x \in Int, \A d \in Range(s) : d < x
    PROVE  Increasing(Append(s, x))
<1> DEFINE r == Append(s, x)
<1>1. /\ DOMAIN r = 1 .. Len(s) + 1 /\ DOMAIN s = 1 .. Len(s) /\ Len(s) \in Nat
      /\ r[Len(s) + 1] = x /\ \A i \in 1 .. Len(s) : r[i] = s[i]
  OBVIOUS
<1> HIDE DEF r
<1>2. \A i \in 1 .. Len(s) : s[i] < x
  BY <1>1 DEF Range
<1>3. ASSUME NEW i \in DOMAIN r, NEW j \in DOMAIN r, i < j
      PROVE  r[i] < r[j]
  <2>1. i \in 1 .. Len(s)
    BY <1>1, <1>3
  <2>2. CASE j = Len(s) + 1
    BY <1>1, <1>2, <2>1, <2>2
  <2>3. CASE j # Len(s) + 1
    BY <1>1, <1>3, <2>1, <2>3 DEF Increasing
  <2> QED  BY <2>2, <2>3
<1> QED  BY <1>3 DEF Increasing, r

LEMMA OtherNumber == \A n \in SeqNo : Inc(n) # n /\ Dec(n) # n /\ Inc(n) # Dec(n)
                                      /\ Inc(Dec(n)) = n /\ Dec(Inc(n)) = n
BY SeqAssumption DEF SeqNo, Inc, Dec

LEMMA HeadIsFirst ==
    ASSUME ConversationTypes, toDevice # << >>
    PROVE  /\ Head(toDevice) = toDevice[1] /\ Head(toDevice) \in Received(Client)
           /\ Head(toDevice) \in Telegram /\ Head(toDevice).seq \in SeqNo
           /\ 1 \in In(toDevice, Head(toDevice).tpci)
<1>1. /\ Head(toDevice) = toDevice[1] /\ 1 \in DOMAIN toDevice /\ Head(toDevice) \in Received(Client)
  BY DEF ConversationTypes
<1>2. Head(toDevice) \in Telegram
  BY <1>1, ReceivedType, ClientAssumption
<1> QED  BY <1>1, <1>2 DEF In, Telegram

\* The numbers of the requests that were processed, and of those on their way.
LEMMA RequestNumbers ==
    ASSUME ConversationTypes
    PROVE  /\ \A d \in Range(served) : d \in Nat /\ d > 0
           /\ \A i \in In(toDevice, "DATA") :
                 toDevice[i].apdu \in Nat /\ toDevice[i].seq \in SeqNo /\ toDevice[i] \in Telegram
           /\ made \in Nat /\ first \in Nat
<1>1. ASSUME NEW d \in Range(served)
      PROVE  d \in Nat /\ d > 0
  <2>1. d \in Ids
    BY DEF ConversationTypes, Range
  <2> QED  BY <2>1, ClientAssumption DEF Ids
<1>2. ASSUME NEW i \in In(toDevice, "DATA")
      PROVE  toDevice[i].apdu \in Nat /\ toDevice[i].seq \in SeqNo /\ toDevice[i] \in Telegram
  <2>1. toDevice[i] \in Received(Client) /\ toDevice[i].tpci = "DATA"
    BY DEF ConversationTypes, In
  <2>2. toDevice[i] \in Telegram /\ toDevice[i].apdu \in Apdus
    BY <2>1, ReceivedType, ClientAssumption
  <2> QED  BY <2>2, ClientAssumption DEF Telegram
<1> QED  BY <1>1, <1>2 DEF ConversationTypes

LEMMA OpensServed ==
    ASSUME ServedInv, Opens, Leaves(toDevice), UNCHANGED clientVars
    PROVE  ServedInOrder'
<1>1. 1 \in In(toDevice, "CONNECT")
  BY HeadIsFirst DEF ServedInv, Opens
<1>2. \A d \in Range(served) : d < first
  BY <1>1 DEF ServedInv, OpensFirst
<1>3. PICK k \in Nat : \A j \in In(toDevice', "DATA") :
          j + k \in In(toDevice, "DATA") /\ toDevice'[j] = toDevice[j + k]
  BY LeavesKeeps DEF Keeps, ServedInv
<1>4. ASSUME NEW d \in Range(served), NEW i \in In(toDevice', "DATA")
      PROVE  d < toDevice'[i].apdu
  <2>1. toDevice'[i].apdu \in first .. made
    BY <1>3 DEF ServedInv, RequestsInOrder
  <2> QED  BY <1>2, <2>1, RequestNumbers DEF ServedInv
<1>5. served' = served /\ made' = made /\ waiting' = waiting
  BY DEF Opens, clientVars
<1>6. ASSUME NEW d \in Range(served), NEW i \in In(toDevice', "DATA")
      PROVE  d <= toDevice'[i].apdu /\ d # toDevice'[i].apdu
  <2>1. toDevice'[i].apdu \in Nat /\ d \in Nat
    BY <1>3, RequestNumbers DEF ServedInv
  <2> QED  BY <1>4, <2>1
<1>7. ~(waiting /\ made \in Range(served))
  BY <1>2, RequestNumbers DEF ServedInv, ConversationTypes
<1>8. Increasing(served)' /\ \A d \in Range(served) : d <= made'
  BY <1>5 DEF ServedInv, ServedInOrder, Increasing
<1> QED  BY <1>5, <1>6, <1>7, <1>8 DEF ServedInOrder, In

LEMMA ServesServed ==
    ASSUME ServedInv, toDevice # << >>, Serves(Head(toDevice)), Leaves(toDevice),
           UNCHANGED clientVars, toDevice' \in Seq(Received(Client))
    PROVE  /\ ServedInOrder' /\ OpensFirst'
           /\ \A d \in Range(served) : d < Head(toDevice).apdu
           /\ Range(served') = Range(served) \cup {Head(toDevice).apdu}
           /\ Head(toDevice).apdu \in first .. made
<1> DEFINE t == toDevice[1]
<1> USE DEF ServedInv
<1>1. /\ Head(toDevice) = t /\ 1 \in In(toDevice, "DATA") /\ t.seq \in SeqNo
      /\ t.apdu \in Nat /\ t.seq = seqNoRcv /\ open
  BY HeadIsFirst, RequestNumbers DEF Serves, Accepts, fromPartner
<1>2. /\ served' = Append(served, t.apdu) /\ made' = made /\ first' = first /\ waiting' = waiting
      /\ clSend' = clSend /\ state' = state /\ seqNoRcv' = Inc(t.seq)
  BY <1>1 DEF Serves, clientVars, actionA02sendAckPduAndProcessApci
<1> HIDE DEF t
<1>3. t.apdu \in first .. made /\ \A d \in Range(served) : d <= t.apdu
  BY <1>1 DEF RequestsInOrder, ServedInOrder, t
<1>4. ASSUME NEW d \in Range(served) PROVE d < t.apdu
  <2>1. d # t.apdu
    BY <1>1, OtherNumber DEF ServedInOrder, t
  <2> QED  BY <1>1, <1>3, <2>1, RequestNumbers
<1>5. Range(served') = Range(served) \cup {t.apdu}
  BY <1>2, RangeAppend DEF ConversationTypes
<1>6. Increasing(served')
  <2>1. served \in Seq(Ids) /\ Ids \subseteq Int
    BY DEF ConversationTypes, Ids
  <2>2. Increasing(served) /\ t.apdu \in Int
    BY <1>1 DEF ServedInOrder
  <2>3. Increasing(Append(served, t.apdu))
    BY <1>4, <2>1, <2>2, IncreasingAppend
  <2> QED  BY <1>2, <2>3
<1>7. PICK k \in Nat : \A j \in In(toDevice', "DATA") :
          j + k \in In(toDevice, "DATA") /\ toDevice'[j] = toDevice[j + k]
  BY LeavesKeeps DEF Keeps
<1>8. ASSUME NEW i \in In(toDevice', "DATA")
      PROVE  /\ t.apdu <= toDevice'[i].apdu /\ toDevice'[i].apdu \in Nat
             /\ t.apdu = toDevice'[i].apdu => toDevice'[i].seq = t.seq
  <2>1. i + k \in In(toDevice, "DATA") /\ toDevice'[i] = toDevice[i + k]
    BY <1>7
  <2>2. i + k = 1 \/ 1 < i + k
    BY <2>1 DEF In, ConversationTypes
  <2> QED  BY <1>1, <2>1, <2>2, RequestNumbers DEF RequestsInOrder, t
<1>9. ASSUME NEW d \in Range(served'), NEW i \in In(toDevice', "DATA")
      PROVE  /\ d <= toDevice'[i].apdu
             /\ d = toDevice'[i].apdu => seqNoRcv' = Inc(toDevice'[i].seq)
  <2>1. CASE d = t.apdu
    BY <1>2, <1>8, <2>1
  <2>2. CASE d \in Range(served)
    <3>1. d < toDevice'[i].apdu /\ d \in Nat
      BY <1>1, <1>4, <1>8, <2>2, RequestNumbers
    <3> QED  BY <1>8, <3>1
  <2> QED  BY <1>5, <2>1, <2>2
<1>10. ASSUME waiting, made \in Range(served')
       PROVE  seqNoRcv' = Inc(clSend)
  <2>1. t.apdu = made
    BY <1>1, <1>3, <1>4, <1>5, <1>10, RequestNumbers
  <2> QED  BY <1>1, <1>2, <1>10, <2>1 DEF RequestsInOrder, t
<1>11. \A d \in Range(served') : d <= made
  BY <1>3, <1>5, RequestNumbers DEF ServedInOrder
<1>12. ServedInOrder'
  BY <1>2, <1>6, <1>9, <1>10, <1>11 DEF ServedInOrder, In
<1>13. OpensFirst'
  <2>1. PICK m \in Nat : \A j \in In(toDevice', "CONNECT") :
            j + m \in In(toDevice, "CONNECT")
    BY LeavesKeeps DEF Keeps
  <2>2. In(toDevice, "CONNECT") = {}
    BY <1>1 DEF OpensFirst, In
  <2>3. In(toDevice', "CONNECT") = {}
    BY <2>1, <2>2
  <2> QED  BY <2>3 DEF OpensFirst, In
<1> QED  BY <1>1, <1>3, <1>4, <1>5, <1>12, <1>13

LEMMA DeviceServed == ASSUME ServedInv, DeviceSide PROVE ServedInv'
<1>1. /\ DeviceDoes /\ Leaves(toDevice) /\ UNCHANGED <<clientVars, acknowledged, answers>>
  BY DeviceStepIs DEF ServedInv
<1>2. ConversationTypes' /\ toDevice' \in Seq(Received(Client))
  BY DeviceTypes DEF ServedInv, ConversationTypes
<1>3. RequestsInOrder'
  BY <1>1, <1>2, LeavesKeeps, RequestsKept DEF ServedInv, clientVars
<1>4. CASE served' = served /\ (open' => open /\ seqNoRcv' = seqNoRcv)
  BY <1>1, <1>2, <1>3, <1>4, LeavesKeeps, ServedKept, OpensKept DEF ServedInv, clientVars
<1>5. CASE Opens
  BY <1>1, <1>2, <1>3, <1>5, OpensServed, LeavesKeeps, OpensKept DEF ServedInv, clientVars, Opens
<1>6. CASE toDevice # << >> /\ Serves(Head(toDevice))
  BY <1>1, <1>2, <1>3, <1>6, ServesServed DEF ServedInv, clientVars
<1>7. CASE Stays /\ served' = served
  BY <1>4, <1>7 DEF Stays, open
<1>8. CASE SendsAnswer
  BY <1>4, <1>8 DEF SendsAnswer, ReadyToSend, actionA07SendDirectTelegram, connVars, open
<1>9. CASE toDevice # << >> /\ HearsAck(Head(toDevice))
  BY <1>4, <1>9 DEF HearsAck, actionA08IncrementSequenceNumber, open
<1> QED  BY <1>1, <1>5, <1>6, <1>7, <1>8, <1>9
         DEF DeviceDoes, DeviceQuiet, SaysAgain, RepeatsAnswer, AcksAgain

LEMMA ClientServed ==
    ASSUME ServedInv, ClientSteps \/ ClientCrashes
    PROVE  ServedInv'
<1>1. ConversationTypes' /\ toDevice' \in Seq(Received(Client))
  BY ClientTypes DEF ServedInv, ConversationTypes
<1>2. toDevice \in Seq(Received(Client))
  BY DEF ServedInv, ConversationTypes
<1>3. CASE /\ \A p \in {"DATA", "CONNECT"} : Keeps(toDevice, toDevice', p)
           /\ UNCHANGED <<vars, made, first, served>> /\ (waiting' => waiting /\ clSend' = clSend)
  <2>1. open' => open /\ seqNoRcv' = seqNoRcv
    BY <1>3 DEF vars, connVars, open
  <2> QED  BY <1>1, <1>3, <2>1, RequestsKept, ServedKept, OpensKept DEF ServedInv
<1>4. CASE QuietClient
  <2>1. CASE waiting /\ waiting' /\ toDevice' = Append(toDevice, Request)
    <3>1. /\ made' = made /\ clSend' = clSend /\ first' = first
          /\ UNCHANGED <<served, state, seqNoRcv>>
      BY <1>4 DEF QuietClient, vars, connVars
    <3>2. first <= made /\ made \in Apdus /\ waiting' = TRUE /\ made >= made
      BY <1>1, <2>1, ClientAssumption DEF ServedInv, ConversationTypes
    <3> QED  BY <1>1, <2>1, <3>1, <3>2, RequestServed DEF ServedInv, Request
  <2>2. CASE toDevice' = toDevice \/ toDevice' = Append(toDevice, Plain(Client, "DISCONNECT"))
    <3>1. \A p \in {"DATA", "CONNECT"} : Keeps(toDevice, toDevice', p)
      <4>1. CASE toDevice' = toDevice
        BY <1>2, <4>1, KeepsSame
      <4>2. CASE toDevice' = Append(toDevice, Plain(Client, "DISCONNECT"))
        BY <1>2, <4>2, KeepsAppend, ClientTelegrams
      <4> QED  BY <2>2, <4>1, <4>2
    <3> QED  BY <1>3, <1>4, <3>1 DEF QuietClient
  <2> QED  BY <1>4, <2>1, <2>2 DEF QuietClient
<1>5. CASE ClientConnects
  <2> DEFINE t == Plain(Client, "CONNECT")
  <2>1. /\ toDevice = << >> /\ toDevice' = Append(toDevice, t) /\ t.tpci = "CONNECT"
        /\ waiting = FALSE /\ waiting' = waiting /\ first' = made + 1 /\ made' = made
        /\ UNCHANGED <<vars, served>>
    BY <1>5, ClientTelegrams
    DEF ClientConnects, Settled, Say, ServedInv, ConversationTypes
  <2> HIDE DEF t
  <2>2. In(toDevice', "DATA") = {} /\ In(toDevice', "CONNECT") = {1}
    <3>1. In(toDevice, "DATA") = {} /\ In(toDevice, "CONNECT") = {} /\ Len(toDevice) = 0
      BY <2>1 DEF In
    <3>4. t.tpci = "CONNECT" /\ t.tpci # "DATA"
      BY <2>1
    <3>2. In(Append(toDevice, t), "CONNECT") = In(toDevice, "CONNECT") \cup {Len(toDevice) + 1}
      BY <1>2, <3>4, InAppend
    <3>3. In(Append(toDevice, t), "DATA") = In(toDevice, "DATA")
      BY <1>2, <3>4, InAppend
    <3> QED  BY <2>1, <3>1, <3>2, <3>3
  <2>3. RequestsInOrder'
    BY <2>1, <2>2 DEF RequestsInOrder, In
  <2>4. ServedInOrder'
    BY <2>1, <2>2 DEF ServedInOrder, In, Increasing, ServedInv
  <2>5. OpensFirst'
    BY <2>1, <2>2, RequestNumbers DEF OpensFirst, In, ServedInv, ServedInOrder
  <2> QED  BY <1>1, <2>3, <2>4, <2>5 DEF ServedInv
<1>6. CASE ClientRequests
  <2>1. /\ made' = made + 1 /\ clSend' = clSend /\ first' = first /\ waiting' = TRUE
        /\ toDevice' = Append(toDevice, Data(Client, clSend, made'))
        /\ UNCHANGED <<served, state, seqNoRcv>> /\ made < MaxRequests
    BY <1>6 DEF ClientRequests, MayRequest, Say, vars, connVars
  <2>2. made' \in Apdus /\ made' >= made /\ made' # made /\ first <= made'
    BY <2>1, ClientAssumption DEF ServedInv, ConversationTypes
  <2> QED  BY <1>1, <2>1, <2>2, RequestServed DEF ServedInv
<1>7. CASE TakesAck
  <2>1. \A p \in {"DATA", "CONNECT"} : Keeps(toDevice, toDevice', p)
    BY <1>2, <1>7, KeepsSame DEF TakesAck
  <2> QED  BY <1>3, <1>7, <2>1 DEF TakesAck
<1>8. CASE TakesAnswer
  <2>1. PICK t : t.tpci \in {"ACK", "NACK"} /\ toDevice' = Append(toDevice, t)
    BY <1>8 DEF TakesAnswer, ReceivesAnswer, Say, Ack
  <2>2. \A p \in {"DATA", "CONNECT"} : Keeps(toDevice, toDevice', p)
    BY <1>2, <2>1, KeepsAppend
  <2>3. waiting' = waiting /\ clSend' = clSend /\ UNCHANGED <<vars, made, first, served>>
    BY <1>8 DEF TakesAnswer, ReceivesAnswer
  <2> QED  BY <1>3, <2>2, <2>3
<1> QED  BY <1>4, <1>5, <1>6, <1>7, <1>8, ClientStepIs DEF ServedInv

-----------------------------------------------------------------------------
(* What the steps do to the telegrams to the client *)

LEMMA WaySilent ==
    ASSUME ConversationTypes, DeviceQuiet, NEW p \in {"DATA", "ACK"}
    PROVE  Keeps(Way, Way', p)
<1>1. Way \in Seq(Telegram) /\ toClient \in Seq(Telegram)
  BY WayType DEF ConversationTypes
<1>2. CASE Way' = Way
  BY <1>1, <1>2, KeepsSame
<1>3. CASE Way' = toClient
  <2>1. Keeps(toClient, toClient, p) /\ In(toClient, p) \subseteq In(Way, p)
        /\ \A j \in In(toClient, p) : Way[j] = toClient[j]
    <3>1. CASE sendBuf = "SENDING"
      <4>1. Way = Append(toClient, sendTel)
        BY <3>1 DEF Way
      <4>2. /\ \A j \in In(toClient, p) : Append(toClient, sendTel)[j] = toClient[j]
            /\ In(toClient, p) \subseteq In(Append(toClient, sendTel), p)
        BY <1>1, InAppend
      <4> QED  BY <1>1, <4>1, <4>2, KeepsSame
    <3>2. CASE sendBuf # "SENDING"
      BY <1>1, <3>2, KeepsSame DEF Way
    <3> QED  BY <3>1, <3>2
  <2>2. PICK k \in Nat : \A j \in In(toClient, p) : j + k \in In(toClient, p) /\ toClient[j] = toClient[j + k]
    BY <2>1 DEF Keeps
  <2>3. \A j \in In(toClient, p) : j + k \in In(Way, p) /\ toClient[j] = Way[j + k]
    BY <2>1, <2>2
  <2> QED  BY <1>3, <2>3 DEF Keeps
<1>4. CASE \E tel \in Telegram : tel.tpci \notin {"DATA", "ACK"} /\ Way' = Append(Way, tel)
  <2>1. PICK tel : tel.tpci # p /\ Way' = Append(Way, tel)
    BY <1>4
  <2> QED  BY <1>1, <2>1, KeepsAppend
<1> QED  BY <1>2, <1>3, <1>4 DEF DeviceQuiet, Silent

LEMMA TailIs ==
    ASSUME NEW T, NEW q \in Seq(T), q # << >>
    PROVE  /\ Tail(q) \in Seq(T) /\ Len(q) > 0 /\ Len(Tail(q)) = Len(q) - 1
           /\ \A j \in 1 .. Len(q) - 1 : Tail(q)[j] = q[j + 1]
OBVIOUS

LEMMA WayToClient ==
    ASSUME ConversationTypes, NEW p, UNCHANGED <<sendBuf, sendTel>>,
           toClient' = toClient \/ toClient' = << >> \/ (toClient # << >> /\ toClient' = Tail(toClient))
    PROVE  Keeps(Way, Way', p)
<1> DEFINE n == Len(toClient)
<1>1. toClient \in Seq(Telegram) /\ Way \in Seq(Telegram) /\ n \in Nat /\ DOMAIN toClient = 1 .. n
  BY WayType DEF ConversationTypes
<1>2. CASE toClient' = toClient
  BY <1>1, <1>2, KeepsSame DEF Way
<1>3. CASE sendBuf # "SENDING" /\ toClient' # toClient
  BY <1>1, <1>3, KeepsTail, KeepsNothing DEF Way
<1>4. CASE sendBuf = "SENDING" /\ toClient' = << >>
  <2>1. /\ Way' = Append(toClient', sendTel) /\ Way = Append(toClient, sendTel)
        /\ toClient' \in Seq(Telegram) /\ Len(toClient') = 0
    BY <1>4 DEF Way
  <2>2. ASSUME NEW j \in In(Way', p)
        PROVE  j + n \in In(Way, p) /\ Way'[j] = Way[j + n]
    <3>1. In(toClient', p) = {}
      BY <1>4 DEF In
    <3>2. j = 1 /\ sendTel.tpci = p /\ Way'[1] = sendTel
      <4>1. In(Way', p) = IF sendTel.tpci = p THEN In(toClient', p) \cup {Len(toClient') + 1}
                          ELSE In(toClient', p)
        <5>1. Way' = Append(toClient', sendTel) /\ toClient' \in Seq(Telegram)
          BY <2>1
        <5> QED  BY <5>1, InAppend
      <4>2. Way'[Len(toClient') + 1] = sendTel
        BY <2>1, InAppend
      <4> QED  BY <2>1, <2>2, <3>1, <4>1, <4>2
    <3>3. n + 1 \in In(Way, p) /\ Way[n + 1] = sendTel
      BY <1>1, <2>1, <3>2, InAppend
    <3> QED  BY <1>1, <3>2, <3>3
  <2> QED  BY <1>1, <2>2 DEF Keeps
<1>5. CASE sendBuf = "SENDING" /\ toClient # << >> /\ toClient' = Tail(toClient)
  <2>1. /\ Way' = Append(toClient', sendTel) /\ Way = Append(toClient, sendTel)
        /\ toClient' \in Seq(Telegram) /\ Len(toClient') = n - 1 /\ n > 0
        /\ \A j \in 1 .. n - 1 : toClient'[j] = toClient[j + 1]
    BY <1>1, <1>5, TailIs DEF Way
  <2>2. ASSUME NEW j \in In(Way', p)
        PROVE  j + 1 \in In(Way, p) /\ Way'[j] = Way[j + 1]
    <3>1. CASE j \in In(toClient', p)
      <4>1. j \in 1 .. n - 1 /\ Way'[j] = toClient[j + 1] /\ j + 1 \in 1 .. n
        BY <1>1, <2>1, <3>1, InAppend
      <4>2. j + 1 \in In(toClient, p)
        BY <1>1, <2>1, <3>1, <4>1 DEF In
      <4>3. Way[j + 1] = toClient[j + 1] /\ j + 1 \in In(Way, p)
        <5>1. /\ Append(toClient, sendTel)[j + 1] = toClient[j + 1]
              /\ j + 1 \in In(Append(toClient, sendTel), p)
          BY <1>1, <4>2, InBefore
        <5> QED  BY <2>1, <5>1
      <4> QED  BY <4>1, <4>3
    <3>2. CASE j \notin In(toClient', p)
      <4>1. j = n /\ sendTel.tpci = p /\ Way'[j] = sendTel
        <5>1. In(Way', p) = IF sendTel.tpci = p THEN In(toClient', p) \cup {Len(toClient') + 1}
                            ELSE In(toClient', p)
          BY <2>1, InAppend
        <5>2. j = Len(toClient') + 1 /\ sendTel.tpci = p
          BY <2>2, <3>2, <5>1
        <5>3. Way'[Len(toClient') + 1] = sendTel
          BY <2>1, InAppend
        <5> QED  BY <1>1, <2>1, <5>2, <5>3
      <4>2. n + 1 \in In(Way, p) /\ Way[n + 1] = sendTel
        BY <1>1, <2>1, <4>1, InAppend
      <4> QED  BY <4>1, <4>2
    <3> QED  BY <3>1, <3>2
  <2>3. \A j \in In(Way', p) : j + 1 \in In(Way, p) /\ Way'[j] = Way[j + 1]
    BY <2>2
  <2>4. 1 \in Nat
    OBVIOUS
  <2> QED  BY ONLY <2>3, <2>4, KeepsShifted, Zenon
<1> QED  BY <1>2, <1>3, <1>4, <1>5

LEMMA WayBegins ==
    ASSUME ConversationTypes, toClient # << >>
    PROVE  1 \in In(Way, Head(toClient).tpci) /\ Way[1] = Head(toClient)
<1>1. /\ toClient \in Seq(Telegram) /\ 1 \in DOMAIN toClient /\ toClient[1] = Head(toClient)
  BY DEF ConversationTypes
<1>2. 1 \in In(toClient, Head(toClient).tpci)
  BY <1>1 DEF In
<1> QED  BY <1>1, <1>2, InAppend DEF Way

LEMMA NextWayType == ConversationTypes' => Way' \in Seq(Telegram)
BY DEF ConversationTypes, Way, IInv, TypeOK

LEMMA WayTypes ==
    ASSUME ConversationTypes, NEW p, NEW i \in In(Way, p)
    PROVE  Way[i] \in Telegram /\ Way[i].seq \in SeqNo /\ Way[i].tpci = p /\ i \in Nat \ {0}
<1>1. Way[i] \in Telegram
  BY WayType DEF In
<1> QED  BY <1>1, WayType DEF In, Telegram

-----------------------------------------------------------------------------
(* Answers arrive in their order *)

LEMMA NoneKept ==
    ASSUME NEW q, NEW r, NEW p, Keeps(q, r, p), In(q, p) = {}
    PROVE  In(r, p) = {}
BY DEF Keeps

LEMMA OpeningKept ==
    ASSUME IInv', NoAnswerBeforeOpen, UNCHANGED <<clRcv, answers>>,
           Keeps(Way, Way', "DATA"), Keeps(toDevice, toDevice', "CONNECT"),
           Keeps(toDevice, toDevice', "ACK"), Stays
    PROVE  NoAnswerBeforeOpen'
<1>1. SUFFICES ASSUME In(toDevice', "CONNECT") # {}
               PROVE  /\ answers' = << >> /\ clRcv' = 0
                      /\ In(Way', "DATA") = {} /\ In(toDevice', "ACK") = {}
                      /\ buf1State' = "FREE" /\ (open' => seqNoSend' = 0)
  BY DEF NoAnswerBeforeOpen, In
<1>2. In(toDevice, "CONNECT") # {}
  BY <1>1, NoneKept
<1>3. In(Way', "DATA") = {} /\ In(toDevice', "ACK") = {}
  BY <1>2, NoneKept DEF NoAnswerBeforeOpen
<1>4. buf1State' = "FREE" /\ (open' => seqNoSend' = 0)
  <2>1. CASE open'
    BY <1>2, <2>1 DEF Stays, NoAnswerBeforeOpen, bufferVars, open
  <2>2. CASE ~open'
    BY <2>2 DEF IInv, BuffersMatchState, open
  <2> QED  BY <2>1, <2>2
<1> QED  BY <1>2, <1>3, <1>4 DEF NoAnswerBeforeOpen

LEMMA OrderKept ==
    ASSUME ConversationTypes, ConversationTypes', AnswersInOrder, UNCHANGED <<clRcv, answers, first>>,
           Range(served) \subseteq Range(served'), Keeps(Way, Way', "DATA")
    PROVE  AnswersInOrder'
<1>1. PICK k \in Nat : \A j \in In(Way', "DATA") :
          j + k \in In(Way, "DATA") /\ Way'[j] = Way[j + k]
  BY DEF Keeps
<1>2. ASSUME NEW i \in In(Way', "DATA")
      PROVE  /\ Way'[i].apdu \in Range(served') /\ Way'[i].apdu >= first
             /\ Way'[i].seq \in {clRcv, Dec(clRcv)}
             /\ Way'[i].seq = clRcv => \A d \in Range(answers) : d < Way'[i].apdu
  BY <1>1 DEF AnswersInOrder
<1>3. ASSUME NEW i \in In(Way', "DATA"), NEW j \in In(Way', "DATA"), i < j, Way'[i].seq = clRcv
      PROVE  Way'[j].seq = clRcv
  <2>1. i \in Nat /\ j \in Nat
    BY <1>3, NextWayType DEF In
  <2>2. i + k < j + k
    BY <1>3, <2>1
  <2> QED  BY <1>1, <1>3, <2>2 DEF AnswersInOrder
<1>4. (\A d \in Range(answers) : d \in Range(served') /\ d >= first) /\ Increasing(answers')
  BY DEF AnswersInOrder
<1> QED  BY <1>2, <1>3, <1>4 DEF AnswersInOrder, In, Range

\* What the device knows of the answers.
DeviceAnswers == open => PendingAreNewer /\ (AnswerExpected \/ AnswerTaken) /\ AnswerAcksInOrder

LEMMA AnswerAcksKept ==
    ASSUME ConversationTypes, ConversationTypes', AnswerAcksInOrder,
           Keeps(toDevice, toDevice', "ACK"), UNCHANGED <<seqNoSend, clRcv>>
    PROVE  AnswerAcksInOrder'
<1>1. PICK k \in Nat : \A j \in In(toDevice', "ACK") :
          j + k \in In(toDevice, "ACK") /\ toDevice'[j] = toDevice[j + k]
  BY DEF Keeps
<1>2. ASSUME NEW i \in In(toDevice', "ACK"), NEW j \in In(toDevice', "ACK"), i < j,
             toDevice'[i].seq = seqNoSend
      PROVE  toDevice'[j].seq = seqNoSend
  <2>1. i \in Nat /\ j \in Nat
    <3>1. DOMAIN toDevice' = 1 .. Len(toDevice')
      BY DEF ConversationTypes
    <3>2. i \in DOMAIN toDevice' /\ j \in DOMAIN toDevice'
      BY <1>2 DEF In
    <3> QED  BY <3>1, <3>2
  <2>2. i + k < j + k
    BY <1>2, <2>1
  <2> QED  BY <1>1, <1>2, <2>2 DEF AnswerAcksInOrder
<1>3. \A i \in In(toDevice', "ACK") :
          /\ toDevice'[i].seq \in {seqNoSend, Dec(seqNoSend)}
          /\ toDevice'[i].seq = seqNoSend => clRcv = Inc(seqNoSend)
  BY <1>1 DEF AnswerAcksInOrder
<1> QED  BY <1>2, <1>3 DEF AnswerAcksInOrder, In

LEMMA PendingKept ==
    ASSUME ConversationTypes, ConversationTypes',
           open, open', DeviceAnswers, UNCHANGED <<clRcv, answers, first>>,
           Range(served) \subseteq Range(served'), Keeps(Way, Way', "DATA"),
           Stays
    PROVE  PendingAreNewer' /\ (AnswerExpected \/ AnswerTaken)'
<1>1. PICK k \in Nat : \A j \in In(Way', "DATA") :
          j + k \in In(Way, "DATA") /\ Way'[j] = Way[j + k]
  BY DEF Keeps
<1>2. UNCHANGED <<state, seqNoSend, buf1State, buf1, buf2State, buf2>>
  BY DEF Stays, bufferVars
<1>3. PendingAreNewer'
  BY <1>2 DEF DeviceAnswers, PendingAreNewer, Range
<1>4. CASE AnswerExpected
  <2>1. AnswerExpected'
    BY <1>1, <1>2, <1>4 DEF AnswerExpected, In, Range
  <2> QED  BY <1>3, <2>1
<1>5. CASE AnswerTaken
  <2>1. AnswerTaken'
    BY <1>1, <1>2, <1>5 DEF AnswerTaken, In, Range
  <2> QED  BY <1>3, <2>1
<1> QED  BY <1>4, <1>5 DEF DeviceAnswers

LEMMA QuietAnswers ==
    ASSUME ConversationTypes, ConversationTypes', AnswersInv,
           UNCHANGED <<clRcv, answers, first>>,
           Range(served) \subseteq Range(served'), Keeps(Way, Way', "DATA"),
           Keeps(toDevice, toDevice', "CONNECT"), Keeps(toDevice, toDevice', "ACK"), Stays
    PROVE  AnswersInv'
<1>1. NoAnswerBeforeOpen'
  BY OpeningKept DEF AnswersInv, ConversationTypes
<1>2. AnswersInOrder'
  BY OrderKept DEF AnswersInv
<1>3. ASSUME open'
      PROVE  PendingAreNewer' /\ (AnswerExpected \/ AnswerTaken)' /\ AnswerAcksInOrder'
  <2>1. open /\ seqNoSend' = seqNoSend
    BY <1>3 DEF Stays, open
  <2>2. PendingAreNewer' /\ (AnswerExpected \/ AnswerTaken)'
    BY <1>3, <2>1, PendingKept DEF AnswersInv, DeviceAnswers
  <2>3. AnswerAcksInOrder'
    BY <2>1, AnswerAcksKept DEF AnswersInv
  <2> QED  BY <2>2, <2>3
<1> QED  BY <1>1, <1>2, <1>3 DEF AnswersInv

LEMMA OpensAnswers ==
    ASSUME ServedInv, ServedInv', AnswersInv, Opens, Leaves(toDevice), UNCHANGED <<clientVars, answers>>
    PROVE  AnswersInv'
<1> USE DEF ServedInv
<1>1. 1 \in In(toDevice, "CONNECT")
  BY HeadIsFirst DEF Opens
<1>2. /\ answers = << >> /\ clRcv = 0 /\ In(Way, "DATA") = {} /\ In(toDevice, "ACK") = {}
  BY <1>1 DEF AnswersInv, NoAnswerBeforeOpen
<1>3. /\ Way' = Way /\ served' = served /\ answers' = answers /\ clRcv' = clRcv /\ first' = first
      /\ seqNoSend' = 0 /\ buf1State' = "FREE" /\ buf2State' = "FREE"
  BY DEF Opens, actionA01Connect, resetConnection, clientVars
<1>4. In(toDevice', "ACK") = {} /\ In(Way', "DATA") = {}
  BY <1>2, <1>3, LeavesKeeps, NoneKept
<1>5. NoAnswerBeforeOpen'
  BY <1>2, <1>3, <1>4 DEF NoAnswerBeforeOpen, In
<1>6. AnswersInOrder'
  BY <1>2, <1>3, <1>4 DEF AnswersInOrder, Increasing, Range, In
<1>7. PendingAreNewer'
  BY <1>3 DEF PendingAreNewer
<1>8. AnswerExpected'
  BY <1>2, <1>3, <1>4 DEF AnswerExpected, In
<1>9. AnswerAcksInOrder'
  BY <1>4 DEF AnswerAcksInOrder, In
<1> QED  BY <1>5, <1>6, <1>7, <1>8, <1>9 DEF AnswersInv

\* While there is no connection to open, nothing is said of one.
LEMMA NotOpening ==
    ASSUME Leaves(toDevice), ConversationTypes, In(toDevice, "CONNECT") = {}
    PROVE  NoAnswerBeforeOpen'
<1>1. In(toDevice', "CONNECT") = {}
  BY LeavesKeeps, NoneKept
<1> QED  BY <1>1 DEF NoAnswerBeforeOpen, In

LEMMA HeadIsNotOpening ==
    ASSUME ServedInv, toDevice # << >>, Head(toDevice).tpci # "CONNECT"
    PROVE  In(toDevice, "CONNECT") = {}
<1>1. Head(toDevice) = toDevice[1]
  BY HeadIsFirst DEF ServedInv
<1>2. ASSUME NEW i \in In(toDevice, "CONNECT") PROVE FALSE
  <2>1. i = 1
    BY DEF ServedInv, OpensFirst
  <2> QED  BY <1>1, <2>1 DEF In
<1> QED  BY <1>2

LEMMA ServesAnswers ==
    ASSUME ServedInv, ServedInv', AnswersInv, toDevice # << >>, Serves(Head(toDevice)),
           Leaves(toDevice), UNCHANGED <<clientVars, answers>>
    PROVE  AnswersInv'
<1> USE DEF ServedInv
<1> DEFINE t == Head(toDevice)
<1>1. /\ open /\ Way' = Append(Way, Ack(connectedAddr, "ACK", t.seq)) /\ t.tpci = "DATA"
      /\ Ack(connectedAddr, "ACK", t.seq).tpci # "DATA"
      /\ clRcv' = clRcv /\ answers' = answers /\ first' = first
      /\ UNCHANGED <<state, seqNoSend>>
  BY DEF Serves, Accepts, fromPartner, Ack, clientVars, actionA02sendAckPduAndProcessApci
<1>2. /\ \A d \in Range(served) : d < t.apdu
      /\ Range(served') = Range(served) \cup {t.apdu}
      /\ t.apdu \in first .. made
  BY ServesServed DEF ConversationTypes
<1>3. \/ /\ buf1State = "FREE" /\ buf1State' = "ACQUIRED" /\ buf1'.apdu = t.apdu
         /\ buf2State' = buf2State
      \/ /\ buf1State # "FREE" /\ buf2State' = "ACQUIRED" /\ buf2'.apdu = t.apdu
         /\ buf1State' = buf1State /\ buf1' = buf1
  BY DEF Serves, actionA02sendAckPduAndProcessApci, firstBufferFree, Data
<1> HIDE DEF t
<1>4. Keeps(Way, Way', "DATA")
  BY <1>1, WayType, KeepsAppend
<1>5. PICK k \in Nat : \A j \in In(Way', "DATA") :
          j + k \in In(Way, "DATA") /\ Way'[j] = Way[j + k]
  BY <1>4 DEF Keeps
<1>6. NoAnswerBeforeOpen'
  BY <1>1, HeadIsNotOpening, NotOpening DEF t
<1>7. AnswersInOrder'
  BY <1>1, <1>2, <1>4, OrderKept DEF AnswersInv
<1>8. AnswerAcksInOrder'
  BY <1>1, LeavesKeeps, AnswerAcksKept DEF AnswersInv
<1>9. t.apdu >= first /\ t.apdu \in Nat /\ first \in Nat
  BY <1>2, RequestNumbers
<1>10. CASE buf1State = "FREE"
  <2>1. buf2State = "FREE" /\ state # "OPEN_WAIT" /\ state' = state
    BY <1>1, <1>10 DEF ConversationTypes, IInv, BuffersMatchState
  <2>2. PendingAreNewer'
    BY <1>2, <1>3, <1>9, <1>10, <2>1, <1>1 DEF PendingAreNewer
  <2>3. AnswerExpected
    BY <1>1, <2>1 DEF AnswersInv, AnswerTaken
  <2>4. \A i \in In(Way', "DATA") : Way'[i].seq # clRcv
    BY <1>5, <2>1, <2>3 DEF AnswerExpected
  <2>5. \A d \in Range(answers) : d < t.apdu
    BY <1>2 DEF AnswersInv, AnswersInOrder
  <2>6. AnswerExpected'
    BY <1>1, <1>3, <1>10, <2>3, <2>4, <2>5 DEF AnswerExpected, In, Range
  <2> QED  BY <1>6, <1>7, <1>8, <2>2, <2>6 DEF AnswersInv
<1>11. CASE buf1State # "FREE"
  <2>1. PendingAreNewer
    BY <1>1 DEF AnswersInv
  <2>2. PendingAreNewer'
    BY <1>1, <1>2, <1>3, <1>9, <1>11, <2>1 DEF PendingAreNewer
  <2>3. CASE AnswerExpected
    <3>1. AnswerExpected'
      BY <1>1, <1>3, <1>5, <1>11, <2>3 DEF AnswerExpected, In, Range
    <3> QED  BY <1>6, <1>7, <1>8, <2>2, <3>1 DEF AnswersInv
  <2>4. CASE AnswerTaken
    <3>1. AnswerTaken'
      BY <1>1, <1>3, <1>5, <1>11, <2>4 DEF AnswerTaken, In, Range
    <3> QED  BY <1>6, <1>7, <1>8, <2>2, <3>1 DEF AnswersInv
  <2> QED  BY <1>1, <2>3, <2>4 DEF AnswersInv
<1> QED  BY <1>10, <1>11

LEMMA HearsAckAnswers ==
    ASSUME ServedInv, ServedInv', AnswersInv, toDevice # << >>, HearsAck(Head(toDevice)),
           Leaves(toDevice), UNCHANGED <<clientVars, answers>>
    PROVE  AnswersInv'
<1> USE DEF ServedInv
<1>1. /\ open /\ Head(toDevice).tpci = "ACK" /\ toDevice[1].seq = seqNoSend
      /\ 1 \in In(toDevice, "ACK")
  BY HeadIsFirst DEF HearsAck, open
<1>2. /\ Way' = Way /\ served' = served /\ clRcv' = clRcv /\ answers' = answers /\ first' = first
      /\ seqNoSend' = Inc(seqNoSend) /\ buf1State' = buf2State /\ buf2State' = "FREE"
      /\ (buf2State # "FREE" => buf1' = buf2)
  BY DEF HearsAck, actionA08IncrementSequenceNumber, clientVars
<1>3. clRcv = Inc(seqNoSend) /\ seqNoSend \in SeqNo
  BY <1>1 DEF AnswersInv, AnswerAcksInOrder, ConversationTypes, IInv, OpenHasPartner
<1>4. AnswerTaken /\ PendingAreNewer
  BY <1>1, <1>3, OtherNumber DEF AnswersInv, AnswerExpected
<1>5. NoAnswerBeforeOpen'
  BY <1>1, HeadIsNotOpening, NotOpening
<1>6. AnswersInOrder'
  BY <1>2 DEF AnswersInv, AnswersInOrder, In, Range, Increasing
<1>7. PendingAreNewer'
  BY <1>2, <1>4, RequestNumbers DEF PendingAreNewer, Range
<1>8. AnswerExpected'
  <2>1. ASSUME buf2State # "FREE", NEW d \in Range(answers)
        PROVE  d < buf2.apdu
    <3>1. /\ d <= buf1.apdu /\ buf1.apdu < buf2.apdu
          /\ buf2.apdu \in Range(served) /\ buf1.apdu \in Range(answers)
      BY <1>4, <2>1 DEF AnswerTaken, PendingAreNewer
    <3>2. d \in Nat /\ buf1.apdu \in Nat /\ buf2.apdu \in Nat
      BY <3>1, RequestNumbers DEF AnswersInv, AnswersInOrder
    <3> QED  BY <3>1, <3>2
  <2> QED  BY <1>2, <1>3, <1>4, <2>1 DEF AnswerExpected, AnswerTaken, In, Range
<1>9. AnswerAcksInOrder'
  <2>1. ASSUME NEW i \in In(toDevice', "ACK")
        PROVE  toDevice'[i].seq = seqNoSend
    <3>1. PICK k \in Nat : \A j \in In(toDevice', "ACK") :
              j + k \in In(toDevice, "ACK") /\ toDevice'[j] = toDevice[j + k]
      BY LeavesKeeps DEF Keeps
    <3>2. i + k \in In(toDevice, "ACK") /\ toDevice'[i] = toDevice[i + k]
      BY <3>1
    <3>3. i + k = 1 \/ 1 < i + k
      BY <3>2 DEF In, ConversationTypes
    <3> QED  BY <1>1, <3>2, <3>3 DEF AnswersInv, AnswerAcksInOrder
  <2>2. seqNoSend = Dec(seqNoSend') /\ seqNoSend # seqNoSend'
    BY <1>2, <1>3, OtherNumber
  <2> QED  BY <2>1, <2>2 DEF AnswerAcksInOrder, In
<1> QED  BY <1>5, <1>6, <1>7, <1>8, <1>9 DEF AnswersInv

\* The bus gets the response in the first buffer.
LEMMA AnswerIsSaid ==
    ASSUME ConversationTypes, ConversationTypes', AnswersInv, open, buf1State # "FREE",
           Way' = Append(Way, buf1), UNCHANGED <<clRcv, answers, first, served>>
    PROVE  /\ AnswersInOrder'
           /\ \A i \in In(Way', "DATA") :
                 (i \in In(Way, "DATA") /\ Way'[i] = Way[i]) \/ Way'[i] = buf1
<1>1. buf1.tpci = "DATA" /\ buf1.seq = seqNoSend /\ Way \in Seq(Telegram) /\ seqNoSend \in SeqNo
  BY WayType DEF ConversationTypes, IInv, PendingResponsesNumbered, OpenHasPartner
<1> DEFINE n == Len(Way) + 1
<1>2. /\ In(Way', "DATA") = In(Way, "DATA") \cup {n} /\ Way'[n] = buf1
      /\ \A i \in In(Way, "DATA") : i \in 1 .. Len(Way) /\ Way'[i] = Way[i]
  <2>1. In(Append(Way, buf1), "DATA") = In(Way, "DATA") \cup {n}
    BY <1>1, InAppend
  <2>2. Append(Way, buf1)[n] = buf1
    BY <1>1
  <2>3. \A i \in In(Way, "DATA") : i \in 1 .. Len(Way) /\ Append(Way, buf1)[i] = Way[i]
    BY <1>1, InBefore
  <2> QED  BY <2>1, <2>2, <2>3
<1>3. Len(Way) \in Nat
  BY <1>1
<1> HIDE DEF n
<1>4. /\ buf1.apdu \in Range(served) /\ buf1.apdu >= first
      /\ AnswerExpected \/ AnswerTaken
  BY DEF AnswersInv, PendingAreNewer
<1>5. /\ buf1.seq \in {clRcv, Dec(clRcv)}
      /\ buf1.seq = clRcv => \A d \in Range(answers) : d < buf1.apdu
      /\ \A i \in In(Way, "DATA") : Way[i].seq = clRcv => buf1.seq = clRcv
  <2>1. CASE AnswerExpected
    BY <1>1, <2>1 DEF AnswerExpected
  <2>2. CASE AnswerTaken
    BY <1>1, <2>2, OtherNumber DEF AnswerTaken
  <2> QED  BY <1>4, <2>1, <2>2
<1>6. ASSUME NEW i \in In(Way', "DATA")
      PROVE  /\ Way'[i].apdu \in Range(served) /\ Way'[i].apdu >= first
             /\ Way'[i].seq \in {clRcv, Dec(clRcv)}
             /\ Way'[i].seq = clRcv => \A d \in Range(answers) : d < Way'[i].apdu
  <2>1. CASE i = n
    BY <1>2, <1>4, <1>5, <2>1
  <2>2. CASE i # n
    BY <1>2, <2>2 DEF AnswersInv, AnswersInOrder
  <2> QED  BY <2>1, <2>2
<1>7. ASSUME NEW i \in In(Way', "DATA"), NEW j \in In(Way', "DATA"), i < j, Way'[i].seq = clRcv
      PROVE  Way'[j].seq = clRcv
  <2>1. i # n
    BY <1>2, <1>3, <1>7 DEF n
  <2>2. CASE j = n
    BY <1>2, <1>5, <1>7, <2>1, <2>2
  <2>3. CASE j # n
    BY <1>2, <1>7, <2>1, <2>3 DEF AnswersInv, AnswersInOrder
  <2> QED  BY <2>2, <2>3
<1>8. AnswersInOrder'
  BY <1>6, <1>7 DEF AnswersInv, AnswersInOrder, In, Range, Increasing
<1> QED  BY <1>2, <1>8

LEMMA SendsAnswers ==
    ASSUME ServedInv, ServedInv', AnswersInv, SendsAnswer \/ RepeatsAnswer,
           Leaves(toDevice), UNCHANGED <<clientVars, answers>>
    PROVE  AnswersInv'
<1> USE DEF ServedInv
<1>1. /\ Way' = Append(Way, buf1) /\ served' = served /\ answers' = answers /\ clRcv' = clRcv
      /\ first' = first
  BY DEF SendsAnswer, RepeatsAnswer, clientVars
<1>2. buf1State # "FREE" /\ open
  BY DEF SendsAnswer, RepeatsAnswer, ReadyToSend, ConversationTypes, IInv, BuffersMatchState, open
<1>3. In(toDevice, "CONNECT") = {}
  BY <1>2 DEF AnswersInv, NoAnswerBeforeOpen
<1>4. NoAnswerBeforeOpen'
  BY <1>3, NotOpening
<1>5. /\ AnswersInOrder'
      /\ \A i \in In(Way', "DATA") : (i \in In(Way, "DATA") /\ Way'[i] = Way[i]) \/ Way'[i] = buf1
  BY <1>1, <1>2, AnswerIsSaid
<1>6. ASSUME open'
      PROVE  /\ state' = "OPEN_WAIT" /\ seqNoSend' = seqNoSend
             /\ buf1' = buf1 /\ buf2State' = buf2State /\ buf2' = buf2
             /\ buf1State' # "FREE"
  BY <1>2, <1>6 DEF SendsAnswer, RepeatsAnswer, actionA07SendDirectTelegram, Stays, connVars, bufferVars
<1>7. ASSUME open'
      PROVE  PendingAreNewer' /\ (AnswerExpected \/ AnswerTaken)' /\ AnswerAcksInOrder'
  <2>1. AnswerAcksInOrder'
    BY <1>1, <1>2, <1>6, <1>7, LeavesKeeps, AnswerAcksKept DEF AnswersInv
  <2>2. PendingAreNewer'
    BY <1>1, <1>2, <1>6, <1>7 DEF AnswersInv, PendingAreNewer, Range
  <2>3. buf1.seq = seqNoSend /\ seqNoSend \in SeqNo
    BY <1>2 DEF ConversationTypes, IInv, PendingResponsesNumbered, OpenHasPartner
  <2>4. CASE AnswerExpected
    <3>1. AnswerExpected'
      BY <1>1, <1>2, <1>5, <1>6, <1>7, <2>4 DEF AnswerExpected, Range, In
    <3> QED  BY <2>1, <2>2, <3>1
  <2>5. CASE AnswerTaken
    <3>1. AnswerTaken'
      BY <1>1, <1>2, <1>5, <1>6, <1>7, <2>3, <2>5, OtherNumber DEF AnswerTaken, Range, In
    <3> QED  BY <2>1, <2>2, <3>1
  <2> QED  BY <1>2, <2>4, <2>5 DEF AnswersInv
<1> QED  BY <1>4, <1>5, <1>7 DEF AnswersInv

LEMMA DeviceKeepsAnswers ==
    ASSUME ServedInv, ServedInv', AnswersInv, DeviceSide
    PROVE  AnswersInv'
<1>1. /\ DeviceDoes /\ Leaves(toDevice) /\ UNCHANGED <<clientVars, acknowledged, answers>>
  BY DeviceStepIs DEF ServedInv
<1>2. ConversationTypes /\ ConversationTypes' /\ Way \in Seq(Telegram)
  BY WayType DEF ServedInv
<1>3. CASE served' = served /\ Stays /\ Keeps(Way, Way', "DATA")
  BY <1>1, <1>2, <1>3, LeavesKeeps, QuietAnswers DEF clientVars
<1>4. CASE DeviceQuiet
  BY <1>2, <1>3, <1>4, WaySilent DEF DeviceQuiet
<1>5. CASE SaysAgain
  <2>1. sendTel.tpci # "DATA"
    BY <1>5 DEF SaysAgain, Control
  <2> QED  BY <1>2, <1>3, <1>5, <2>1, KeepsAppend DEF SaysAgain
<1>6. CASE toDevice # << >> /\ AcksAgain(Head(toDevice))
  <2>1. PICK t : t.tpci # "DATA" /\ Way' = Append(Way, t)
    BY <1>6 DEF AcksAgain, Ack
  <2> QED  BY <1>2, <1>3, <1>6, <2>1, KeepsAppend DEF AcksAgain
<1>7. CASE Opens
  BY <1>1, <1>7, OpensAnswers
<1>8. CASE toDevice # << >> /\ Serves(Head(toDevice))
  BY <1>1, <1>8, ServesAnswers
<1>9. CASE toDevice # << >> /\ HearsAck(Head(toDevice))
  BY <1>1, <1>9, HearsAckAnswers
<1>10. CASE SendsAnswer \/ RepeatsAnswer
  BY <1>1, <1>10, SendsAnswers
<1> QED  BY <1>1, <1>4, <1>5, <1>6, <1>7, <1>8, <1>9, <1>10 DEF DeviceDoes

-----------------------------------------------------------------------------
(* ... and the client takes each of them once *)

LEMMA ConnectsAnswers ==
    ASSUME ServedInv, ServedInv', ClientConnects, clean'
    PROVE  AnswersInv'
<1>1. /\ toClient = << >> /\ toDevice = << >> /\ sendBuf = "FREE" /\ ~open
      /\ UNCHANGED <<vars, toClient>> /\ clRcv' = 0 /\ answers' = << >> /\ buf1State = "FREE"
  BY DEF ClientConnects, Settled, ServedInv, ConversationTypes, IInv, BuffersMatchState, open
<1>2. /\ In(Way', "DATA") = {} /\ ~open' /\ buf1State' = "FREE"
  BY <1>1 DEF In, Way, open, vars, isrVars, bufferVars
<1>3. In(toDevice', "ACK") = {}
  <2>1. toDevice \in Seq(Received(Client)) /\ In(toDevice, "ACK") = {}
    BY <1>1 DEF ServedInv, ConversationTypes, In
  <2>2. PICK t : t.tpci = "CONNECT" /\ toDevice' = Append(toDevice, t)
    BY ClientTelegrams DEF ClientConnects, Say
  <2>3. t.tpci # "ACK"
    BY <2>2
  <2> QED  BY <2>1, <2>2, <2>3, InAppend
<1> QED  BY <1>1, <1>2, <1>3 DEF AnswersInv, NoAnswerBeforeOpen, AnswersInOrder, Increasing, Range, In

LEMMA TakesNewAnswer ==
    ASSUME ServedInv, ServedInv', AnswersInv, TakesAnswer, Head(toClient).seq = clRcv
    PROVE  AnswersInv'
<1> USE DEF ServedInv
<1> DEFINE t == Way[1]
<1>1. /\ Head(toClient) = t /\ 1 \in In(Way, "DATA") /\ t.seq = clRcv /\ clRcv \in SeqNo
      /\ UNCHANGED <<sendBuf, sendTel>>
  BY WayBegins DEF TakesAnswer, ReceivesAnswer, ConversationTypes, vars, isrVars
<1>2. /\ toDevice' = Append(toDevice, Ack(Client, "ACK", clRcv)) /\ clRcv' = Inc(clRcv)
      /\ answers' = Append(answers, t.apdu) /\ first' = first /\ served' = served
      /\ UNCHANGED <<vars, state, seqNoSend, buf1State, buf1, buf2State, buf2>>
  BY <1>1 DEF TakesAnswer, ReceivesAnswer, Say, vars, connVars, bufferVars
<1> HIDE DEF t
<1>3. /\ t.apdu \in Range(served) /\ t.apdu >= first /\ \A d \in Range(answers) : d < t.apdu
      /\ \A d \in Range(answers) : d \in Range(served)
  BY <1>1 DEF AnswersInv, AnswersInOrder, t
<1>4. Range(answers') = Range(answers) \cup {t.apdu}
  BY <1>2, RangeAppend DEF ConversationTypes
<1>5. Keeps(Way, Way', "DATA")
  BY <1>1, WayToClient DEF TakesAnswer
<1>6. PICK k \in Nat : \A j \in In(Way', "DATA") :
          j + k \in In(Way, "DATA") /\ Way'[j] = Way[j + k]
  BY <1>5 DEF Keeps
<1>7. ASSUME NEW i \in In(Way', "DATA")
      PROVE  /\ Way'[i].seq = clRcv
             /\ Way'[i].apdu \in Range(served) /\ Way'[i].apdu >= first
  <2>1. i + k \in In(Way, "DATA") /\ Way'[i] = Way[i + k]
    BY <1>6
  <2>2. i + k = 1 \/ 1 < i + k
    BY <2>1, WayTypes
  <2> QED  BY <1>1, <2>1, <2>2 DEF AnswersInv, AnswersInOrder, t
<1>8. clRcv = Dec(clRcv') /\ clRcv # clRcv'
  BY <1>1, <1>2, OtherNumber
<1>9. Increasing(answers')
  <2>1. Increasing(answers) /\ answers \in Seq(Range(answers))
    BY DEF AnswersInv, AnswersInOrder, ConversationTypes, Range
  <2>2. Range(answers) \subseteq Int /\ t.apdu \in Int
    BY <1>3, RequestNumbers
  <2>3. Increasing(Append(answers, t.apdu))
    BY <1>3, <2>1, <2>2, IncreasingAppend
  <2> QED  BY <1>2, <2>3
<1>10. AnswersInOrder'
  <2>1. \A d \in Range(answers) : d \in Range(served) /\ d >= first
    BY DEF AnswersInv, AnswersInOrder
  <2>2. \A d \in Range(answers') : d \in Range(served) /\ d >= first
    BY <1>3, <1>4, <2>1
  <2> QED  BY <1>2, <1>7, <1>8, <1>9, <2>2 DEF AnswersInOrder, In, Range
<1>11. NoAnswerBeforeOpen'
  <2>1. In(toDevice, "CONNECT") = {}
    BY <1>1 DEF AnswersInv, NoAnswerBeforeOpen
  <2>2. Keeps(toDevice, toDevice', "CONNECT")
    <3>1. Ack(Client, "ACK", clRcv).tpci # "CONNECT"
      BY DEF Ack
    <3> QED  BY <1>2, <3>1, SaysOther
  <2>3. In(toDevice', "CONNECT") = {}
    BY <2>1, <2>2, NoneKept
  <2> QED  BY <2>3 DEF NoAnswerBeforeOpen, In
<1>12. ASSUME open
       PROVE  PendingAreNewer' /\ (AnswerExpected \/ AnswerTaken)' /\ AnswerAcksInOrder'
  <2>1. /\ AnswerExpected /\ state = "OPEN_WAIT" /\ t.apdu = buf1.apdu /\ seqNoSend = clRcv
    BY <1>1, <1>12 DEF AnswersInv, AnswerTaken, AnswerExpected, t
  <2>2. PendingAreNewer'
    BY <1>2, <1>12 DEF AnswersInv, PendingAreNewer, Range
  <2>3. AnswerTaken'
    <3>1. \A d \in Range(answers') : d <= buf1.apdu
      BY <1>3, <1>4, <2>1, RequestNumbers
    <3>2. buf1.apdu \in Range(answers')
      BY <1>4, <2>1
    <3> QED  BY <1>2, <1>7, <1>8, <2>1, <3>1, <3>2 DEF AnswerTaken, In, Range
  <2>4. AnswerAcksInOrder'
    <3> DEFINE n == Len(toDevice) + 1
               a == Ack(Client, "ACK", clRcv)
    <3>1. /\ In(toDevice', "ACK") = In(toDevice, "ACK") \cup {n} /\ toDevice'[n] = a
          /\ \A i \in In(toDevice, "ACK") : i \in 1 .. Len(toDevice) /\ toDevice'[i] = toDevice[i]
      <4>1. toDevice \in Seq(Received(Client)) /\ a.tpci = "ACK" /\ toDevice' = Append(toDevice, a)
        BY <1>2 DEF Ack, ConversationTypes
      <4> HIDE DEF a
      <4>2. /\ In(toDevice', "ACK") = In(toDevice, "ACK") \cup {Len(toDevice) + 1}
            /\ toDevice'[Len(toDevice) + 1] = a
            /\ \A i \in 1 .. Len(toDevice) : toDevice'[i] = toDevice[i]
        BY <4>1, InAppend
      <4>3. \A i \in In(toDevice, "ACK") : i \in 1 .. Len(toDevice)
        BY <4>1 DEF In
      <4> QED  BY <4>2, <4>3
    <3>2. a.seq = seqNoSend /\ Len(toDevice) \in Nat
      BY <2>1 DEF Ack, ConversationTypes
    <3> HIDE DEF a, n
    <3>3. \A i \in In(toDevice, "ACK") : toDevice[i].seq = Dec(seqNoSend) /\ toDevice[i].seq # seqNoSend
      BY <1>1, <1>12, <2>1, OtherNumber DEF AnswersInv, AnswerAcksInOrder
    <3>4. \A i \in In(toDevice', "ACK") : i = n \/ (i \in In(toDevice, "ACK") /\ toDevice'[i] = toDevice[i])
      BY <3>1
    <3>5. \A i, j \in In(toDevice', "ACK") : i < j => i # n
      BY <3>1, <3>2 DEF n
    <3> QED  BY <1>2, <2>1, <3>1, <3>2, <3>3, <3>4, <3>5 DEF AnswerAcksInOrder, In
  <2> QED  BY <2>2, <2>3, <2>4
<1> QED  BY <1>2, <1>10, <1>11, <1>12 DEF AnswersInv, open

LEMMA TakesOldAnswer ==
    ASSUME ServedInv, ServedInv', AnswersInv, TakesAnswer, Head(toClient).seq # clRcv
    PROVE  AnswersInv'
<1> USE DEF ServedInv
<1> DEFINE t == Way[1]
           a == Ack(Client, "ACK", Dec(clRcv))
           n == Len(toDevice) + 1
<1>1. /\ Head(toClient) = t /\ 1 \in In(Way, "DATA") /\ clRcv \in SeqNo
      /\ UNCHANGED <<sendBuf, sendTel>>
  BY WayBegins DEF TakesAnswer, ReceivesAnswer, ConversationTypes, vars, isrVars
<1>2. t.seq = Dec(clRcv)
  BY <1>1 DEF AnswersInv, AnswersInOrder
<1>3. /\ toDevice' = Append(toDevice, a) /\ clRcv' = clRcv /\ answers' = answers
      /\ first' = first /\ served' = served
      /\ UNCHANGED <<vars, state, seqNoSend, seqNoRcv, bufferVars>>
  BY <1>1, <1>2 DEF TakesAnswer, ReceivesAnswer, Say, vars, connVars
<1> HIDE DEF t
<1>4. Keeps(Way, Way', "DATA") /\ Stays
  BY <1>1, <1>3, WayToClient DEF TakesAnswer, Stays
<1>5. AnswersInOrder'
  BY <1>3, <1>4, OrderKept DEF AnswersInv
<1>6. NoAnswerBeforeOpen'
  <2>1. In(toDevice, "CONNECT") = {}
    BY <1>1 DEF AnswersInv, NoAnswerBeforeOpen
  <2>2. Keeps(toDevice, toDevice', "CONNECT")
    <3>1. a.tpci # "CONNECT"
      BY DEF Ack
    <3> QED  BY <1>3, <3>1, SaysOther
  <2>3. In(toDevice', "CONNECT") = {}
    BY <2>1, <2>2, NoneKept
  <2> QED  BY <2>3 DEF NoAnswerBeforeOpen, In
<1>7. ASSUME open
      PROVE  PendingAreNewer' /\ (AnswerExpected \/ AnswerTaken)' /\ AnswerAcksInOrder'
  <2>1. open'
    BY <1>3, <1>7 DEF open
  <2>2. PendingAreNewer' /\ (AnswerExpected \/ AnswerTaken)'
    BY <1>3, <1>4, <1>7, <2>1, PendingKept DEF AnswersInv, DeviceAnswers
  <2>3. AnswerAcksInOrder'
    <3>1. /\ In(toDevice', "ACK") = In(toDevice, "ACK") \cup {n} /\ toDevice'[n] = a
          /\ \A i \in In(toDevice, "ACK") : i \in 1 .. Len(toDevice) /\ toDevice'[i] = toDevice[i]
      <4>1. toDevice \in Seq(Received(Client)) /\ a.tpci = "ACK" /\ toDevice' = Append(toDevice, a)
        BY <1>3 DEF Ack, ConversationTypes
      <4> HIDE DEF a
      <4>2. /\ In(toDevice', "ACK") = In(toDevice, "ACK") \cup {Len(toDevice) + 1}
            /\ toDevice'[Len(toDevice) + 1] = a
            /\ \A i \in 1 .. Len(toDevice) : toDevice'[i] = toDevice[i]
        BY <4>1, InAppend
      <4>3. \A i \in In(toDevice, "ACK") : i \in 1 .. Len(toDevice)
        BY <4>1 DEF In
      <4> QED  BY <4>2, <4>3
    <3>2. a.seq = Dec(clRcv) /\ Len(toDevice) \in Nat /\ seqNoSend \in SeqNo
      BY <1>7 DEF Ack, ConversationTypes, IInv, OpenHasPartner
    <3> HIDE DEF a, n
    <3>3. AnswerAcksInOrder /\ (clRcv = seqNoSend \/ clRcv = Inc(seqNoSend))
      BY <1>7 DEF AnswersInv, AnswerExpected, AnswerTaken
    <3>4. /\ a.seq \in {seqNoSend, Dec(seqNoSend)}
          /\ a.seq = seqNoSend => clRcv = Inc(seqNoSend)
          /\ clRcv = Inc(seqNoSend) => a.seq = seqNoSend
      BY <3>2, <3>3, OtherNumber
    <3>5. ASSUME NEW i \in In(toDevice', "ACK")
          PROVE  /\ toDevice'[i].seq \in {seqNoSend, Dec(seqNoSend)}
                 /\ toDevice'[i].seq = seqNoSend => clRcv = Inc(seqNoSend)
      BY <3>1, <3>3, <3>4 DEF AnswerAcksInOrder
    <3>6. ASSUME NEW i \in In(toDevice', "ACK"), NEW j \in In(toDevice', "ACK"), i < j,
                 toDevice'[i].seq = seqNoSend
          PROVE  toDevice'[j].seq = seqNoSend
      <4>1. i # n
        BY <3>1, <3>2, <3>6 DEF n
      <4>2. CASE j = n
        BY <3>1, <3>4, <3>5, <3>6, <4>2
      <4>3. CASE j # n
        BY <3>1, <3>3, <3>6, <4>1, <4>3 DEF AnswerAcksInOrder
      <4> QED  BY <4>2, <4>3
    <3> QED  BY <1>3, <3>5, <3>6 DEF AnswerAcksInOrder, In
  <2> QED  BY <2>2, <2>3
<1> QED  BY <1>3, <1>5, <1>6, <1>7 DEF AnswersInv, open

LEMMA ClientKeepsAnswers ==
    ASSUME ServedInv, ServedInv', clean => AnswersInv, ClientSteps \/ ClientCrashes, clean'
    PROVE  AnswersInv'
<1> USE DEF ServedInv
<1>1. toDevice \in Seq(Received(Client))
  BY DEF ConversationTypes
<1>2. CASE /\ UNCHANGED <<vars, clRcv, answers, first, served, clean>>
           /\ toClient' = toClient \/ toClient' = << >>
                 \/ (toClient # << >> /\ toClient' = Tail(toClient))
           /\ toDevice' = toDevice \/ \E t : t.tpci \notin {"CONNECT", "ACK"}
                                             /\ toDevice' = Append(toDevice, t)
  <2>1. Keeps(Way, Way', "DATA")
    BY <1>2, WayToClient DEF vars, isrVars
  <2>2. Keeps(toDevice, toDevice', "CONNECT") /\ Keeps(toDevice, toDevice', "ACK")
    <3>1. CASE toDevice' = toDevice
      BY <1>1, <3>1, KeepsSame
    <3>2. CASE \E t : t.tpci \notin {"CONNECT", "ACK"} /\ toDevice' = Append(toDevice, t)
      <4>1. PICK t : t.tpci # "CONNECT" /\ t.tpci # "ACK" /\ toDevice' = Append(toDevice, t)
        BY <3>2
      <4> QED  BY <4>1, SaysOther
    <3> QED  BY <1>2, <3>1, <3>2
  <2>3. Stays
    BY <1>2 DEF Stays, vars, connVars
  <2>4. AnswersInv /\ Range(served) \subseteq Range(served')
    BY <1>2
  <2>5. UNCHANGED <<clRcv, answers, first>>
    BY <1>2
  <2> QED  BY <2>1, <2>2, <2>3, <2>4, <2>5, QuietAnswers
<1>3. CASE QuietClient
  <2>1. toDevice' = toDevice \/ \E t : t.tpci \notin {"CONNECT", "ACK"}
                                       /\ toDevice' = Append(toDevice, t)
    <3>1. Plain(Client, "DISCONNECT").tpci = "DISCONNECT" /\ Request.tpci = "DATA"
      BY DEF Plain, Request, Data
    <3> QED  BY <1>3, <3>1 DEF QuietClient
  <2>2. UNCHANGED <<vars, clRcv, answers, first, served, clean>>
    BY <1>3 DEF QuietClient
  <2>3. toClient' = toClient \/ toClient' = << >> \/ (toClient # << >> /\ toClient' = Tail(toClient))
    BY <1>3 DEF QuietClient
  <2> QED  BY <1>2, <2>1, <2>2, <2>3
<1>4. CASE ClientConnects
  BY <1>4, ConnectsAnswers
<1>5. CASE ClientRequests
  <2>1. PICK t : t.tpci = "DATA" /\ toDevice' = Append(toDevice, t)
    BY <1>5 DEF ClientRequests, Say, Data
  <2>2. UNCHANGED <<vars, clRcv, answers, first, served, clean, toClient>>
    BY <1>5 DEF ClientRequests, history
  <2> QED  BY <1>2, <2>1, <2>2
<1>6. CASE TakesAck
  BY <1>2, <1>6 DEF TakesAck
<1>7. CASE TakesAnswer
  <2>1. clean' = clean
    BY <1>7 DEF TakesAnswer
  <2> QED  BY <1>7, <2>1, TakesNewAnswer, TakesOldAnswer
<1> QED  BY <1>3, <1>4, <1>5, <1>6, <1>7, ClientStepIs

-----------------------------------------------------------------------------
(* What is acknowledged was processed *)

LEMMA AckOrderKept ==
    ASSUME ConversationTypes, ConversationTypes', AcksInOrder, Keeps(Way, Way', "ACK"),
           UNCHANGED <<waiting, clSend, made>>, Range(served) \subseteq Range(served')
    PROVE  AcksInOrder'
<1>1. PICK k \in Nat : \A j \in In(Way', "ACK") :
          j + k \in In(Way, "ACK") /\ Way'[j] = Way[j + k]
  BY DEF Keeps
<1>2. ASSUME NEW i \in In(Way', "ACK")
      PROVE  /\ Way'[i].seq \in {clSend, Dec(clSend)}
             /\ Way'[i].seq = clSend => waiting /\ made \in Range(served')
  BY <1>1 DEF AcksInOrder
<1>3. ASSUME NEW i \in In(Way', "ACK"), NEW j \in In(Way', "ACK"), i < j, Way'[i].seq = clSend
      PROVE  Way'[j].seq = clSend
  <2>1. i \in Nat /\ j \in Nat
    BY <1>3, NextWayType DEF In
  <2>2. i + k < j + k
    BY <1>3, <2>1
  <2> QED  BY <1>1, <1>3, <2>2 DEF AcksInOrder
<1> QED  BY <1>2, <1>3 DEF AcksInOrder, In, Range

LEMMA NumbersKept ==
    ASSUME RequestsAreNumbered, Keeps(toDevice, toDevice', "DATA"), UNCHANGED <<waiting, clSend, made>>
    PROVE  RequestsAreNumbered'
<1>1. PICK k \in Nat : \A j \in In(toDevice', "DATA") :
          j + k \in In(toDevice, "DATA") /\ toDevice'[j] = toDevice[j + k]
  BY DEF Keeps
<1> QED  BY <1>1 DEF RequestsAreNumbered, In

\* The device acknowledges the request that the client repeats, or none that
\* it waits for.
LEMMA AckIsSaid ==
    ASSUME ConversationTypes, AcksInOrder, NEW t, Way' = Append(Way, t), t.tpci = "ACK",
           t.seq \in {clSend, Dec(clSend)}, t.seq = clSend => waiting /\ made \in Range(served'),
           \A i \in In(Way, "ACK") : Way[i].seq = clSend => t.seq = clSend,
           UNCHANGED <<waiting, clSend, made>>, Range(served) \subseteq Range(served')
    PROVE  AcksInOrder'
<1> DEFINE n == Len(Way) + 1
<1>1. Way \in Seq(Telegram)
  BY WayType
<1>2. In(Way', "ACK") = In(Way, "ACK") \cup {n} /\ Way'[n] = t
  BY <1>1, InAppend
<1>3. \A i \in In(Way, "ACK") : i \in 1 .. Len(Way) /\ Way'[i] = Way[i]
  BY <1>1, InAppend
<1>4. Len(Way) \in Nat
  BY <1>1
<1> HIDE DEF n
<1>5. ASSUME NEW i \in In(Way', "ACK")
      PROVE  /\ Way'[i].seq \in {clSend, Dec(clSend)}
             /\ Way'[i].seq = clSend => waiting /\ made \in Range(served')
  <2>1. CASE i = n
    BY <1>2, <2>1
  <2>2. CASE i # n
    BY <1>2, <1>3, <2>2 DEF AcksInOrder
  <2> QED  BY <2>1, <2>2
<1>6. ASSUME NEW i \in In(Way', "ACK"), NEW j \in In(Way', "ACK"), i < j, Way'[i].seq = clSend
      PROVE  Way'[j].seq = clSend
  <2>1. i # n
    BY <1>2, <1>3, <1>4, <1>6 DEF n
  <2>2. CASE j = n
    BY <1>2, <1>3, <1>6, <2>1, <2>2
  <2>3. CASE j # n
    BY <1>2, <1>3, <1>6, <2>1, <2>3 DEF AcksInOrder
  <2> QED  BY <2>2, <2>3
<1> QED  BY <1>5, <1>6 DEF AcksInOrder, In, Range

LEMMA DeviceKeepsAcks ==
    ASSUME ServedInv, ServedInv', AcksInv, DeviceSide
    PROVE  AcksInv'
<1> USE DEF ServedInv
<1>1. /\ DeviceDoes /\ Leaves(toDevice) /\ UNCHANGED <<clientVars, acknowledged, answers>>
  BY DeviceStepIs
<1>2. UNCHANGED <<connected, waiting, clSend, made, first, acknowledged>>
  BY <1>1 DEF clientVars
<1>3. Way \in Seq(Telegram) /\ clSend \in SeqNo
  BY WayType DEF ConversationTypes
<1>4. Range(served) \subseteq Range(served')
  <2>1. CASE toDevice # << >> /\ Serves(Head(toDevice))
    BY <2>1, RangeAppend DEF Serves, ConversationTypes
  <2>2. CASE served' = served
    BY <2>2
  <2> QED  BY <1>1, <2>1, <2>2 DEF DeviceDoes, DeviceQuiet, SaysAgain, Opens, SendsAnswer,
                                   RepeatsAnswer, AcksAgain, HearsAck
<1>5. acknowledged' \subseteq Range(served')
  BY <1>2, <1>4 DEF AcksInv
<1>6. ASSUME connected PROVE RequestsAreNumbered'
  BY <1>1, <1>2, <1>6, LeavesKeeps, NumbersKept DEF AcksInv
<1>7. In(toDevice', "CONNECT") # {} => In(toDevice, "CONNECT") # {}
  BY <1>1, LeavesKeeps, NoneKept
<1>8. ASSUME connected,
             AcksInOrder', open' => RequestExpected',
             In(toDevice, "CONNECT") # {} => In(Way', "ACK") = {}
      PROVE  AcksInv'
  <2>1. In(toDevice', "CONNECT") # {} => clSend' = 0 /\ In(Way', "ACK") = {}
    BY <1>2, <1>7, <1>8 DEF AcksInv
  <2> QED  BY <1>5, <1>6, <1>8, <2>1 DEF AcksInv, In, Range
<1>9. CASE ~connected
  BY <1>2, <1>5, <1>9 DEF AcksInv, Range
<1>10. ASSUME connected, open' => open /\ seqNoRcv' = seqNoRcv, served' = served
       PROVE  open' => RequestExpected'
  BY <1>2, <1>10 DEF AcksInv, RequestExpected, Range
<1>11. ASSUME connected, open' => open /\ seqNoRcv' = seqNoRcv, served' = served,
              Keeps(Way, Way', "ACK")
       PROVE  AcksInv'
  <2>1. AcksInOrder'
    BY <1>2, <1>4, <1>11, AckOrderKept DEF AcksInv
  <2>2. In(toDevice, "CONNECT") # {} => In(Way', "ACK") = {}
    BY <1>11, NoneKept DEF AcksInv
  <2> QED  BY <1>8, <1>10, <1>11, <2>1, <2>2
<1>12. ASSUME Stays PROVE open' => open /\ seqNoRcv' = seqNoRcv
  BY <1>12 DEF Stays, open
<1>13. CASE connected /\ DeviceQuiet
  BY <1>11, <1>12, <1>13, WaySilent DEF DeviceQuiet
<1>14. CASE connected /\ SaysAgain
  <2>1. /\ Way' = Append(Way, sendTel) /\ Stays /\ served' = served /\ Way = Append(toClient, sendTel)
    BY <1>14 DEF SaysAgain, Way
  <2>2. CASE sendTel.tpci # "ACK"
    BY <1>3, <1>11, <1>12, <1>14, <2>1, <2>2, KeepsAppend
  <2>3. CASE sendTel.tpci = "ACK"
    <3> DEFINE m == Len(toClient) + 1
    <3>1. toClient \in Seq(Telegram)
      BY DEF ConversationTypes
    <3>2. m \in In(Way, "ACK") /\ Way[m] = sendTel
      BY <2>1, <2>3, <3>1, InAppend
    <3>3. \A i \in In(Way, "ACK") : i = m \/ i < m
      BY <2>1, <3>1 DEF In
    <3> HIDE DEF m
    <3>4. \A i \in In(Way, "ACK") : Way[i].seq = clSend => sendTel.seq = clSend
      BY <1>14, <3>2, <3>3 DEF AcksInv, AcksInOrder
    <3>5. AcksInOrder'
      <4>1. /\ AcksInOrder /\ sendTel.seq \in {clSend, Dec(clSend)}
            /\ sendTel.seq = clSend => waiting /\ made \in Range(served')
        BY <1>4, <1>14, <3>2 DEF AcksInv, AcksInOrder
      <4>2. Way' = Append(Way, sendTel) /\ UNCHANGED <<waiting, clSend, made>>
        BY <1>2, <2>1
      <4> QED  BY <1>4, <2>3, <3>4, <4>1, <4>2, AckIsSaid
    <3>6. In(toDevice, "CONNECT") = {}
      BY <1>14, <3>2 DEF AcksInv
    <3> QED  BY <1>8, <1>10, <1>12, <1>14, <2>1, <3>5, <3>6
  <2> QED  BY <2>2, <2>3
<1>15. CASE connected /\ Opens
  <2>1. 1 \in In(toDevice, "CONNECT")
    BY <1>15, HeadIsFirst DEF Opens
  <2>2. clSend = 0 /\ Way' = Way /\ served' = served /\ seqNoRcv' = 0
    BY <1>15, <2>1 DEF AcksInv, Opens, actionA01Connect, resetConnection
  <2>3. ~(waiting /\ made \in Range(served))
    BY <2>1, RequestNumbers DEF OpensFirst, ConversationTypes
  <2>4. RequestExpected'
    BY <1>2, <2>2, <2>3 DEF RequestExpected, Range
  <2>5. AcksInOrder' /\ In(Way', "ACK") = {}
    BY <1>15, <2>1, <2>2 DEF AcksInv, AcksInOrder, In
  <2> QED  BY <1>8, <1>15, <2>4, <2>5
<1>16. CASE connected /\ toDevice # << >> /\ Serves(Head(toDevice))
  <2> DEFINE t == Head(toDevice)
  <2>1. /\ t = toDevice[1] /\ 1 \in In(toDevice, "DATA") /\ t.seq \in SeqNo
        /\ t.seq = seqNoRcv /\ open /\ t.tpci = "DATA"
    BY <1>16, HeadIsFirst DEF Serves, Accepts, fromPartner
  <2>2. /\ Way' = Append(Way, Ack(connectedAddr, "ACK", t.seq)) /\ seqNoRcv' = Inc(t.seq)
        /\ Ack(connectedAddr, "ACK", t.seq).tpci = "ACK"
        /\ Ack(connectedAddr, "ACK", t.seq).seq = t.seq
    BY <1>16, <2>1 DEF Serves, actionA02sendAckPduAndProcessApci, Ack
  <2>3. t.apdu \in Range(served')
    <3>1. served' = Append(served, t.apdu)
      BY <1>16 DEF Serves
    <3> QED  BY <3>1, RangeAppend DEF ConversationTypes
  <2> HIDE DEF t
  <2>4. t.seq = clSend /\ waiting /\ t.apdu = made
    <3>1. RequestExpected /\ RequestsAreNumbered
      BY <1>16, <2>1 DEF AcksInv
    <3>2. t.seq \in {clSend, Dec(clSend)} /\ (t.seq = clSend => waiting /\ t.apdu = made)
      BY <2>1, <3>1 DEF RequestsAreNumbered
    <3>3. t.seq \in {clSend, Inc(clSend)}
      BY <2>1, <3>1 DEF RequestExpected
    <3> QED  BY <1>3, <3>2, <3>3, OtherNumber
  <2>5. RequestExpected'
    BY <1>2, <2>2, <2>3, <2>4 DEF RequestExpected, Range
  <2>6. AcksInOrder'
    BY <1>2, <1>4, <1>16, <2>2, <2>3, <2>4, AckIsSaid DEF AcksInv
  <2>7. In(toDevice, "CONNECT") = {}
    BY <1>16, <2>1, HeadIsNotOpening DEF t
  <2> QED  BY <1>8, <1>16, <2>5, <2>6, <2>7
<1>17. CASE connected /\ toDevice # << >> /\ AcksAgain(Head(toDevice))
  <2> DEFINE t == Head(toDevice)
  <2>1. /\ t.seq \in SeqNo /\ t.seq = Dec(seqNoRcv) /\ open /\ t.tpci = "DATA"
    BY <1>17, HeadIsFirst DEF AcksAgain, IsRepeated
  <2>2. /\ Way' = Append(Way, Ack(connectedAddr, "ACK", t.seq)) /\ Stays /\ served' = served
        /\ Ack(connectedAddr, "ACK", t.seq).tpci = "ACK"
        /\ Ack(connectedAddr, "ACK", t.seq).seq = t.seq
    BY <1>17 DEF AcksAgain, Ack
  <2> HIDE DEF t
  <2>3. RequestExpected /\ AcksInOrder
    BY <1>17, <2>1 DEF AcksInv
  <2>4. AcksInOrder'
    <3>1. CASE waiting /\ made \in Range(served)
      <4>1. t.seq = clSend
        BY <1>3, <2>1, <2>3, <3>1, OtherNumber DEF RequestExpected
      <4> QED  BY <1>2, <1>4, <2>2, <2>3, <3>1, <4>1, AckIsSaid
    <3>2. CASE ~(waiting /\ made \in Range(served))
      <4>1. t.seq = Dec(clSend) /\ t.seq # clSend
        BY <1>3, <2>1, <2>3, <3>2, OtherNumber DEF RequestExpected
      <4>2. \A i \in In(Way, "ACK") : Way[i].seq # clSend
        BY <2>3, <3>2 DEF AcksInOrder
      <4> QED  BY <1>2, <1>4, <2>2, <2>3, <4>1, <4>2, AckIsSaid
    <3> QED  BY <3>1, <3>2
  <2>5. In(toDevice, "CONNECT") = {}
    BY <1>17, <2>1, HeadIsNotOpening DEF t
  <2> QED  BY <1>8, <1>10, <1>12, <1>17, <2>2, <2>4, <2>5
<1>18. CASE connected /\ toDevice # << >> /\ HearsAck(Head(toDevice))
  <2>1. open /\ seqNoRcv' = seqNoRcv /\ Way' = Way /\ served' = served
    BY <1>18 DEF HearsAck, actionA08IncrementSequenceNumber, open
  <2> QED  BY <1>3, <1>11, <1>18, <2>1, KeepsSame
<1>19. CASE connected /\ (SendsAnswer \/ RepeatsAnswer)
  <2>1. /\ Way' = Append(Way, buf1) /\ served' = served /\ (open' => open /\ seqNoRcv' = seqNoRcv)
    BY <1>12, <1>19 DEF SendsAnswer, RepeatsAnswer, ReadyToSend, actionA07SendDirectTelegram, connVars, open
  <2>2. buf1.tpci # "ACK"
    <3>1. buf1State # "FREE" /\ open
      BY <1>19 DEF SendsAnswer, RepeatsAnswer, ReadyToSend, ConversationTypes, IInv, BuffersMatchState, open
    <3> QED  BY <3>1 DEF ConversationTypes, IInv, PendingResponsesNumbered
  <2> QED  BY <1>3, <1>11, <1>19, <2>1, <2>2, KeepsAppend
<1> QED  BY <1>1, <1>9, <1>13, <1>14, <1>15, <1>16, <1>17, <1>18, <1>19 DEF DeviceDoes

LEMMA ClientKeepsAcks ==
    ASSUME ServedInv, ServedInv', clean => AcksInv, ClientSteps \/ ClientCrashes, clean'
    PROVE  AcksInv'
<1> USE DEF ServedInv
<1>1. toDevice \in Seq(Received(Client)) /\ clSend \in SeqNo
  BY DEF ConversationTypes
<1>2. ASSUME clean' = clean, connected' => connected /\ waiting' = waiting,
             UNCHANGED <<vars, clSend, made, served, acknowledged>>,
             toClient' = toClient \/ toClient' = << >>
                \/ (toClient # << >> /\ toClient' = Tail(toClient)),
             Keeps(toDevice, toDevice', "CONNECT"), connected' => RequestsAreNumbered'
      PROVE  AcksInv'
  <2>1. /\ UNCHANGED <<sendBuf, sendTel, state, seqNoRcv>> /\ AcksInv
        /\ made' = made /\ clSend' = clSend /\ served' = served /\ acknowledged' = acknowledged
    BY <1>2 DEF vars, isrVars, connVars
  <2>2. Keeps(Way, Way', "ACK")
    BY <1>2, <2>1, WayToClient
  <2>3. ASSUME connected' PROVE AcksInOrder'
    BY <1>2, <2>1, <2>2, <2>3, AckOrderKept DEF AcksInv
  <2>4. ASSUME connected', open' PROVE RequestExpected'
    BY <1>2, <2>1, <2>4 DEF AcksInv, RequestExpected, open, Range
  <2>5. ASSUME connected', In(toDevice', "CONNECT") # {} PROVE clSend' = 0 /\ In(Way', "ACK") = {}
    BY <1>2, <2>1, <2>2, <2>5, NoneKept DEF AcksInv
  <2> QED  BY <1>2, <2>1, <2>3, <2>4, <2>5 DEF AcksInv, In, Range
<1>3. ASSUME connected, clean, NEW t \in Received(Client), toDevice' = Append(toDevice, t),
             t.tpci = "DATA", t.seq = clSend, clSend' = clSend, waiting', t.apdu = made',
             \A i \in In(toDevice, "DATA") :
                 toDevice[i].seq = clSend => toDevice[i].apdu = made'
      PROVE  RequestsAreNumbered'
  <2>1. In(toDevice', "DATA") = In(toDevice, "DATA") \cup {Len(toDevice) + 1}
    BY <1>1, <1>3, InAppend
  <2>2. /\ toDevice'[Len(toDevice) + 1] = t
        /\ \A i \in In(toDevice, "DATA") : toDevice'[i] = toDevice[i]
    <3>1. toDevice' = Append(toDevice, t)
      BY <1>3
    <3>2. toDevice'[Len(toDevice) + 1] = t
      BY <1>1, <3>1
    <3>3. \A i \in 1 .. Len(toDevice) : toDevice'[i] = toDevice[i]
      BY <1>1, <3>1
    <3>4. \A i \in In(toDevice, "DATA") : i \in 1 .. Len(toDevice)
      BY <1>1 DEF In
    <3> QED  BY <3>2, <3>3, <3>4
  <2>3. RequestsAreNumbered
    BY <1>3 DEF AcksInv
  <2> QED  BY <1>3, <2>1, <2>2, <2>3 DEF RequestsAreNumbered, In
<1>4. CASE QuietClient
  <2>1. /\ UNCHANGED <<vars, clSend, made, served, acknowledged, clean>>
        /\ connected' => connected /\ waiting' = waiting
        /\ toClient' = toClient \/ toClient' = << >>
               \/ (toClient # << >> /\ toClient' = Tail(toClient))
    <3>1. UNCHANGED <<vars, clSend, made, served, acknowledged, clean>>
      BY <1>4 DEF QuietClient
    <3>2. (connected' = connected /\ waiting' = waiting) \/ connected' = FALSE
      BY <1>4 DEF QuietClient
    <3>3. toClient' = toClient \/ toClient' = << >>
               \/ (toClient # << >> /\ toClient' = Tail(toClient))
      BY <1>4 DEF QuietClient
    <3>4. connected' => connected /\ waiting' = waiting
      BY <3>2
    <3> QED  BY <3>1, <3>3, <3>4
  <2>2. connected' => RequestsAreNumbered
    BY <2>1 DEF AcksInv
  <2>3. CASE waiting /\ waiting' /\ toDevice' = Append(toDevice, Request)
    <3>1. made \in Apdus
      BY <2>3, ClientAssumption DEF ConversationTypes
    <3>2. Request \in Received(Client) /\ Request.tpci = "DATA" /\ Request.seq = clSend
          /\ Request.apdu = made
      BY <1>1, <3>1, ClientTelegrams DEF Request
    <3>3. Keeps(toDevice, toDevice', "CONNECT")
      BY <1>1, <2>3, <3>2, KeepsAppend
    <3>4. connected' => RequestsAreNumbered'
      BY <1>3, <2>1, <2>2, <2>3, <3>2 DEF RequestsAreNumbered
    <3> QED  BY <1>2, <2>1, <3>3, <3>4
  <2>4. CASE toDevice' = toDevice \/ toDevice' = Append(toDevice, Plain(Client, "DISCONNECT"))
    <3>1. \A p \in {"DATA", "CONNECT"} : Keeps(toDevice, toDevice', p)
      <4>1. CASE toDevice' = toDevice
        BY <1>1, <4>1, KeepsSame
      <4>2. CASE toDevice' = Append(toDevice, Plain(Client, "DISCONNECT"))
        BY <1>1, <4>2, KeepsAppend, ClientTelegrams
      <4> QED  BY <2>4, <4>1, <4>2
    <3>2. connected' => RequestsAreNumbered'
      BY <2>1, <2>2, <3>1, NumbersKept
    <3> QED  BY <1>2, <2>1, <3>1, <3>2
  <2> QED  BY <1>4, <2>3, <2>4 DEF QuietClient
<1>5. CASE ClientConnects
  <2>1. /\ toClient' = << >> /\ toDevice = << >> /\ sendBuf' # "SENDING" /\ ~open' /\ clSend' = 0
        /\ acknowledged' = {} /\ Say(Plain(Client, "CONNECT"))
    BY <1>5 DEF ClientConnects, Settled, open, vars, isrVars
  <2>2. In(Way', "ACK") = {}
    BY <2>1 DEF Way, In
  <2>3. In(toDevice', "DATA") = {}
    <3>1. In(toDevice, "DATA") = {} /\ Plain(Client, "CONNECT").tpci # "DATA"
      BY <2>1, ClientTelegrams DEF In
    <3>2. toDevice' = Append(toDevice, Plain(Client, "CONNECT"))
      BY <2>1 DEF Say
    <3> QED  BY <1>1, <3>1, <3>2, InAppend
  <2> QED  BY <2>1, <2>2, <2>3 DEF AcksInv, AcksInOrder, RequestsAreNumbered, In
<1>6. CASE ClientRequests
  <2>1. /\ made' = made + 1 /\ clSend' = clSend /\ waiting' = TRUE /\ ~waiting /\ connected
        /\ made < MaxRequests /\ toDevice' = Append(toDevice, Data(Client, clSend, made'))
        /\ served' = served /\ acknowledged' = acknowledged /\ toClient' = toClient
        /\ UNCHANGED <<vars, clean, connected>>
    BY <1>6 DEF ClientRequests, MayRequest, Say, history
  <2>2. AcksInv /\ clean
    BY <2>1
  <2> DEFINE t == Data(Client, clSend, made')
  <2>3. made' \in Apdus /\ made' > made
    BY <2>1, ClientAssumption DEF ConversationTypes
  <2>4. /\ t \in Received(Client) /\ t.tpci = "DATA" /\ t.seq = clSend /\ t.apdu = made'
        /\ toDevice' = Append(toDevice, t)
    BY <1>1, <2>1, <2>3, ClientTelegrams
  <2> HIDE DEF t
  <2>5. RequestsAreNumbered'
    <3>1. \A i \in In(toDevice, "DATA") : toDevice[i].seq # clSend
      BY <2>1, <2>2 DEF AcksInv, RequestsAreNumbered
    <3> QED  BY <1>3, <2>1, <2>2, <2>4, <3>1
  <2>6. Way' = Way /\ state' = state /\ seqNoRcv' = seqNoRcv
    BY <2>1 DEF Way, vars, isrVars, connVars
  <2>7. AcksInOrder'
    <3>1. AcksInOrder
      BY <2>1, <2>2 DEF AcksInv
    <3>2. \A i \in In(Way, "ACK") : Way[i].seq # clSend
      BY <2>1, <3>1 DEF AcksInOrder
    <3> QED  BY <2>1, <2>6, <3>1, <3>2 DEF AcksInOrder, In
  <2>8. ASSUME open' PROVE RequestExpected'
    <3>1. seqNoRcv = clSend
      BY <2>1, <2>2, <2>6, <2>8 DEF AcksInv, RequestExpected, open
    <3>2. made' \notin Range(served)
      BY <2>1, <2>3, RequestNumbers DEF ServedInOrder
    <3> QED  BY <2>1, <2>6, <3>1, <3>2 DEF RequestExpected, Range
  <2>9. In(toDevice', "CONNECT") # {} => clSend' = 0 /\ In(Way', "ACK") = {}
    <3>1. Keeps(toDevice, toDevice', "CONNECT")
      BY <1>1, <2>4, KeepsAppend
    <3> QED  BY <2>1, <2>2, <2>6, <3>1, NoneKept DEF AcksInv
  <2> QED  BY <2>1, <2>2, <2>5, <2>7, <2>8, <2>9 DEF AcksInv, In, Range
<1>7. CASE TakesAck
  <2>1. /\ waiting /\ toClient # << >> /\ Head(toClient).tpci = "ACK" /\ Head(toClient).seq = clSend
        /\ waiting' = FALSE /\ clSend' = Inc(clSend) /\ acknowledged' = acknowledged \cup {made}
        /\ toClient' = Tail(toClient) /\ made' = made /\ served' = served /\ toDevice' = toDevice
        /\ clean' = clean /\ connected' = connected
        /\ UNCHANGED <<sendBuf, sendTel, state, seqNoRcv>>
    BY <1>7 DEF TakesAck, vars, isrVars, connVars
  <2>2. connected /\ AcksInv
    BY <2>1 DEF ConversationTypes
  <2>3. 1 \in In(Way, "ACK") /\ Way[1].seq = clSend
    BY <2>1, WayBegins
  <2>4. made \in Range(served) /\ In(toDevice, "CONNECT") = {}
    BY <2>2, <2>3 DEF AcksInv, AcksInOrder
  <2>5. clSend = Dec(clSend') /\ clSend # clSend'
    BY <1>1, <2>1, OtherNumber
  <2>6. \A i \in In(Way', "ACK") : Way'[i].seq = clSend
    <3>1. PICK k \in Nat : \A j \in In(Way', "ACK") :
              j + k \in In(Way, "ACK") /\ Way'[j] = Way[j + k]
      BY <2>1, WayToClient DEF Keeps
    <3>2. ASSUME NEW i \in In(Way', "ACK") PROVE Way'[i].seq = clSend
      <4>1. i + k \in In(Way, "ACK") /\ Way'[i] = Way[i + k]
        BY <3>1
      <4>2. i + k = 1 \/ 1 < i + k
        BY <4>1, WayTypes
      <4> QED  BY <2>2, <2>3, <4>1, <4>2 DEF AcksInv, AcksInOrder
    <3> QED  BY <3>2
  <2>7. \A i \in In(toDevice, "DATA") : toDevice[i].seq = clSend
    <3>1. ASSUME NEW i \in In(toDevice, "DATA") PROVE toDevice[i].seq = clSend
      <4>1. made <= toDevice[i].apdu /\ toDevice[i].apdu \in first .. made
        BY <2>4 DEF ServedInOrder, RequestsInOrder
      <4>2. toDevice[i].apdu = made
        BY <4>1, RequestNumbers
      <4> QED  BY <2>1, <4>2 DEF RequestsInOrder
    <3> QED  BY <3>1
  <2>8. AcksInOrder'
    BY <2>5, <2>6 DEF AcksInOrder, In
  <2>9. RequestsAreNumbered'
    BY <2>1, <2>5, <2>7 DEF RequestsAreNumbered, In
  <2>10. ASSUME open' PROVE RequestExpected'
    BY <2>1, <2>2, <2>4, <2>10 DEF AcksInv, RequestExpected, open
  <2>11. acknowledged' \subseteq Range(served')
    BY <2>1, <2>2, <2>4 DEF AcksInv
  <2>12. In(toDevice', "CONNECT") = {}
    BY <2>1, <2>4
  <2> QED  BY <2>8, <2>9, <2>10, <2>11, <2>12 DEF AcksInv, In, Range
<1>8. CASE TakesAnswer
  <2>1. PICK t : t.tpci \in {"ACK", "NACK"} /\ toDevice' = Append(toDevice, t)
    BY <1>8 DEF TakesAnswer, ReceivesAnswer, Say, Ack
  <2>2. \A p \in {"DATA", "CONNECT"} : Keeps(toDevice, toDevice', p)
    BY <1>1, <2>1, KeepsAppend
  <2>3. /\ waiting' = waiting /\ clSend' = clSend /\ connected' = connected
        /\ acknowledged' = acknowledged /\ UNCHANGED <<vars, made, served, clean>>
        /\ toClient # << >> /\ toClient' = Tail(toClient)
    BY <1>8 DEF TakesAnswer, ReceivesAnswer
  <2>4. connected' => RequestsAreNumbered'
    BY <2>2, <2>3, NumbersKept DEF AcksInv
  <2> QED  BY <1>2, <2>2, <2>3, <2>4
<1> QED  BY <1>4, <1>5, <1>6, <1>7, <1>8, ClientStepIs

-----------------------------------------------------------------------------
(* One request at a time: no answer is forgotten *)

LEMMA NoneUnanswered ==
    ASSUME ConversationTypes, Cardinality(Unanswered) < 1
    PROVE  \A d \in first .. made : d \in Range(answers)
<1>1. IsFiniteSet(first .. made)
  BY FS_Interval DEF ConversationTypes
<1>2. IsFiniteSet(Unanswered)
  BY <1>1, FS_Subset DEF Unanswered
<1>3. Cardinality(Unanswered) \in Nat
  BY <1>2, FS_CardinalityType
<1>4. Unanswered = {}
  BY <1>2, <1>3, FS_EmptySet
<1> QED  BY <1>4 DEF Unanswered

LEMMA DeviceForgetsNothing ==
    ASSUME ServedInv, ServedInv', AnswersInv, AnswersKept, DeviceSide
    PROVE  AnswersKept'
<1> USE DEF ServedInv
<1>1. /\ DeviceDoes /\ Leaves(toDevice) /\ UNCHANGED <<clientVars, acknowledged, answers>>
  BY DeviceStepIs
<1>2. UNCHANGED <<first, made, answers>>
  BY <1>1 DEF clientVars
<1>3. SUFFICES ASSUME open', NEW d \in Range(served'), d >= first
               PROVE  \/ d \in Range(answers)
                      \/ buf1State' # "FREE" /\ d = buf1'.apdu
                      \/ buf2State' # "FREE" /\ d = buf2'.apdu
  BY <1>2 DEF AnswersKept, Range
<1>4. CASE served' = served /\ open /\ UNCHANGED <<buf1State, buf1, buf2State, buf2>>
  BY <1>3, <1>4 DEF AnswersKept
<1>5. CASE Stays /\ served' = served
  BY <1>3, <1>4, <1>5 DEF Stays, bufferVars, open
<1>6. CASE Opens
  <2>1. 1 \in In(toDevice, "CONNECT") /\ served' = served
    BY <1>6, HeadIsFirst DEF Opens
  <2> QED  BY <1>3, <2>1, RequestNumbers DEF OpensFirst
<1>7. CASE SendsAnswer
  <2>1. /\ open /\ served' = served /\ buf1State # "FREE" /\ buf1State' # "FREE"
        /\ buf1' = buf1 /\ buf2State' = buf2State /\ buf2' = buf2
    BY <1>7 DEF SendsAnswer, ReadyToSend, actionA07SendDirectTelegram, open
  <2> QED  BY <1>3, <2>1 DEF AnswersKept
<1>8. CASE toDevice # << >> /\ HearsAck(Head(toDevice))
  <2>1. /\ open /\ Head(toDevice).tpci = "ACK" /\ toDevice[1].seq = seqNoSend
        /\ 1 \in In(toDevice, "ACK") /\ served' = served
        /\ buf1State' = buf2State /\ (buf2State # "FREE" => buf1' = buf2)
    BY <1>8, HeadIsFirst DEF HearsAck, open, actionA08IncrementSequenceNumber
  <2>2. clRcv = Inc(seqNoSend) /\ seqNoSend \in SeqNo
    BY <2>1 DEF AnswersInv, AnswerAcksInOrder, ConversationTypes, IInv, OpenHasPartner
  <2>3. buf1.apdu \in Range(answers)
    BY <2>1, <2>2, OtherNumber DEF AnswersInv, AnswerExpected, AnswerTaken
  <2> QED  BY <1>3, <2>1, <2>3 DEF AnswersKept
<1>9. CASE toDevice # << >> /\ Serves(Head(toDevice))
  <2> DEFINE t == Head(toDevice)
  <2>1. /\ open
        /\ \/ /\ buf1State = "FREE" /\ buf1State' = "ACQUIRED" /\ buf1'.apdu = t.apdu
           \/ /\ buf1State # "FREE" /\ buf2State' = "ACQUIRED" /\ buf2'.apdu = t.apdu
              /\ buf1State' = buf1State /\ buf1' = buf1
    BY <1>9 DEF Serves, Accepts, fromPartner, actionA02sendAckPduAndProcessApci, firstBufferFree, Data
  <2>2. /\ \A e \in Range(served) : e < t.apdu
        /\ Range(served') = Range(served) \cup {t.apdu}
        /\ t.apdu \in first .. made
    BY <1>1, <1>9, ServesServed DEF ConversationTypes
  <2> HIDE DEF t
  <2>3. CASE d = t.apdu
    BY <2>1, <2>3
  <2>4. CASE d \in Range(served) /\ buf1State = "FREE"
    BY <1>3, <2>1, <2>4 DEF AnswersKept, ConversationTypes, IInv, BuffersMatchState
  <2>5. CASE d \in Range(served) /\ buf1State # "FREE" /\ ~(buf2State # "FREE" /\ d = buf2.apdu)
    BY <1>3, <2>1, <2>5 DEF AnswersKept
  <2>6. CASE d \in Range(served) /\ buf1State # "FREE" /\ buf2State # "FREE" /\ d = buf2.apdu
    <3>1. d < t.apdu /\ t.apdu \in Nat /\ t.apdu <= made
      BY <2>2, <2>6, RequestNumbers
    <3>2. d \in first .. made - 1
      BY <1>3, <2>6, <3>1, RequestNumbers
    <3> QED  BY <3>2 DEF AnswersKept
  <2> QED  BY <2>2, <2>3, <2>4, <2>5, <2>6
<1> QED  BY <1>1, <1>5, <1>6, <1>7, <1>8, <1>9
         DEF DeviceDoes, DeviceQuiet, SaysAgain, RepeatsAnswer, AcksAgain

LEMMA ClientForgetsNothing ==
    ASSUME ServedInv, clean => AnswersKept, ClientSteps \/ ClientCrashes, clean', Window = 1
    PROVE  AnswersKept'
<1> USE DEF ServedInv
<1>1. ASSUME UNCHANGED <<vars, served, clean, made, first>>, Range(answers) \subseteq Range(answers')
      PROVE  AnswersKept'
  <2>1. /\ UNCHANGED <<state, buf1State, buf1, buf2State, buf2, made, first, served>>
        /\ AnswersKept
    BY <1>1 DEF vars, bufferVars
  <2> QED  BY <1>1, <2>1 DEF AnswersKept, open, Range
<1>2. CASE QuietClient
  BY <1>1, <1>2 DEF QuietClient
<1>3. CASE TakesAck
  BY <1>1, <1>3 DEF TakesAck
<1>4. CASE TakesAnswer
  <2>1. PICK a : answers' = answers \/ answers' = Append(answers, a)
    BY <1>4 DEF TakesAnswer, ReceivesAnswer
  <2>2. Range(answers) \subseteq Range(answers')
    BY <2>1, RangeAppend DEF ConversationTypes
  <2>3. UNCHANGED <<vars, served, clean, made, first>>
    BY <1>4 DEF TakesAnswer
  <2> QED  BY <1>1, <2>2, <2>3
<1>5. CASE ClientConnects
  <2>1. first' = made + 1 /\ made' = made /\ ~open'
    BY <1>5 DEF ClientConnects, open, vars
  <2>2. first' .. (made' - 1) = {}
    BY <2>1 DEF ConversationTypes
  <2> QED  BY <2>1, <2>2 DEF AnswersKept
<1>6. CASE ClientRequests
  <2>1. /\ made' = made + 1 /\ first' = first /\ answers' = answers /\ served' = served
        /\ UNCHANGED <<vars, clean>> /\ Cardinality(Unanswered) < 1
    BY <1>6 DEF ClientRequests, MayRequest, history
  <2>2. made' - 1 = made
    BY <2>1, RequestNumbers
  <2>3. \A d \in first' .. (made' - 1) : d \in Range(answers)
    BY <2>1, <2>2, NoneUnanswered
  <2>4. UNCHANGED <<state, buf1State, buf1, buf2State, buf2>> /\ AnswersKept
    BY <2>1 DEF vars, bufferVars
  <2> QED  BY <2>1, <2>3, <2>4 DEF AnswersKept, open, Range
<1> QED  BY <1>2, <1>3, <1>4, <1>5, <1>6, ClientStepIs

-----------------------------------------------------------------------------
(* The invariant and what follows from it *)

LEMMA InitConversation == ConnectionInit => ConversationInv
<1> SUFFICES ASSUME ConnectionInit PROVE ConversationInv
  OBVIOUS
<1>1. IInv
  BY InitIInv DEF ConnectionInit
<1>2. /\ connected = FALSE /\ waiting = FALSE /\ clSend = 0 /\ clRcv = 0
      /\ made = 0 /\ first = 1 /\ clean = TRUE /\ toDevice = << >> /\ toClient = << >>
      /\ served = << >> /\ acknowledged = {} /\ answers = << >>
      /\ ~open /\ sendBuf # "SENDING" /\ buf1State = "FREE"
  BY DEF ConnectionInit, Init, open
<1>3. ConversationTypes
  <2>1. << >> \in Seq(Received(Client)) /\ << >> \in Seq(Telegram) /\ << >> \in Seq(Ids)
        /\ << >> \in Seq(Apdus \cup {NoApdu})
    OBVIOUS
  <2>2. 0 \in SeqNo /\ 0 <= MaxRequests
    BY ZeroType, ClientAssumption
  <2>3. /\ made \in Nat /\ made <= MaxRequests /\ first \in Nat \ {0} /\ first <= made + 1
        /\ clSend \in SeqNo /\ clRcv \in SeqNo
    BY <1>2, <2>2
  <2>4. connected \in BOOLEAN /\ waiting \in BOOLEAN /\ clean \in BOOLEAN /\ ~waiting
    BY <1>2
  <2>5. /\ toDevice \in Seq(Received(Client)) /\ toClient \in Seq(Telegram)
        /\ served \in Seq(Ids) /\ answers \in Seq(Apdus \cup {NoApdu})
    BY <1>2, <2>1
  <2> QED  BY <1>1, <2>3, <2>4, <2>5 DEF ConversationTypes
<1>4. Range(<< >>) = {} /\ \A p : In(<< >>, p) = {}
  BY DEF Range, In
<1>5. ServedInv
  BY <1>2, <1>3, <1>4
  DEF ServedInv, RequestsInOrder, ServedInOrder, OpensFirst, Increasing, open
<1>6. \A p : In(Way, p) = {}
  BY <1>2, <1>4 DEF Way
<1>7. AnswersInv
  BY <1>2, <1>4, <1>6 DEF AnswersInv, NoAnswerBeforeOpen, AnswersInOrder, Increasing
<1>8. AcksInv
  BY <1>2, <1>4 DEF AcksInv
<1>9. AnswersKept
  <2>1. first .. made - 1 = {}
    BY <1>2
  <2> QED  BY <1>2, <2>1 DEF AnswersKept
<1> QED  BY <1>5, <1>7, <1>8, <1>9 DEF ConversationInv

LEMMA NextConversation == ConversationInv /\ [ConnectionNext]_connectionVars => ConversationInv'
<1> SUFFICES ASSUME ConversationInv, [ConnectionNext]_connectionVars
             PROVE  ConversationInv'
  OBVIOUS
<1>1. CASE DeviceSide
  <2>1. ServedInv /\ ServedInv'
    BY <1>1, DeviceServed DEF ConversationInv
  <2>2. clean' = clean
    BY <1>1, <2>1, DeviceStepIs DEF ServedInv, clientVars
  <2>3. clean => AnswersInv' /\ AcksInv'
    BY <1>1, <2>1, DeviceKeepsAnswers, DeviceKeepsAcks DEF ConversationInv
  <2>4. clean /\ Window = 1 => AnswersKept'
    BY <1>1, <2>1, DeviceForgetsNothing DEF ConversationInv
  <2> QED  BY <2>1, <2>2, <2>3, <2>4 DEF ConversationInv
<1>2. CASE ClientSteps \/ ClientCrashes
  <2>1. ServedInv /\ ServedInv'
    BY <1>2, ClientServed DEF ConversationInv
  <2>2. clean' => AnswersInv' /\ AcksInv'
    BY <1>2, <2>1, ClientKeepsAnswers, ClientKeepsAcks DEF ConversationInv
  <2>3. ASSUME clean', Window = 1 PROVE AnswersKept'
    <3>1. clean => AnswersKept
      BY <2>3 DEF ConversationInv
    <3> QED  BY <1>2, <2>1, <2>3, <3>1, ClientForgetsNothing
  <2> QED  BY <2>1, <2>2, <2>3 DEF ConversationInv
<1>3. CASE UNCHANGED connectionVars
  <2>1. /\ UNCHANGED <<vars, connected, clSend, clRcv, waiting, made, first, clean>>
        /\ UNCHANGED <<toDevice, toClient, served, acknowledged, answers>>
    BY <1>3 DEF connectionVars, clientVars, history
  <2>2. UNCHANGED <<state, connectedAddr, seqNoSend, seqNoRcv, repCount, conCtrlRepCount, sendBuf,
                    sendTel, buf1State, buf1, buf2State, buf2, connAge, ackAge>>
    BY <2>1 DEF vars, connVars, isrVars, bufferVars
  <2>3. Way' = Way /\ open' = open /\ IInv' = IInv
    <3>1. Way' = Way
      BY <2>1, <2>2 DEF Way
    <3>2. open' = open /\ BuffersMatchState' = BuffersMatchState /\ OpenHasPartner' = OpenHasPartner
      BY <2>2 DEF open, BuffersMatchState, OpenHasPartner
    <3>3. TypeOK' = TypeOK
      BY <2>2 DEF TypeOK
    <3>4. PendingResponsesNumbered' = PendingResponsesNumbered /\ RetriesAreFresh' = RetriesAreFresh
      BY <2>2 DEF PendingResponsesNumbered, RetriesAreFresh
    <3> QED  BY <3>1, <3>2, <3>3, <3>4 DEF IInv
  <2>4. ServedInv' = ServedInv
    BY <2>1, <2>2, <2>3 DEF ServedInv, ConversationTypes, RequestsInOrder, ServedInOrder,
                            OpensFirst, In, Range, Increasing
  <2>5. AnswersInv' = AnswersInv
    BY <2>1, <2>2, <2>3 DEF AnswersInv, NoAnswerBeforeOpen, AnswersInOrder, PendingAreNewer,
        AnswerExpected, AnswerTaken, AnswerAcksInOrder, In, Range, Increasing
  <2>6. AcksInv' = AcksInv
    BY <2>1, <2>2, <2>3 DEF AcksInv, AcksInOrder, RequestsAreNumbered, RequestExpected, In, Range
  <2>7. AnswersKept' = AnswersKept
    BY <2>1, <2>2, <2>3 DEF AnswersKept, Range
  <2> QED  BY <2>1, <2>4, <2>5, <2>6, <2>7 DEF ConversationInv
<1> QED  BY <1>1, <1>2, <1>3 DEF ConnectionNext, DeviceSide

LEMMA Conversation == ConnectionSpec => []ConversationInv
BY InitConversation, NextConversation, PTL DEF ConnectionSpec

\* Whatever is lost, doubled or delayed, and whichever side restarts: the
\* device processes no request twice or after a later one, and the client
\* takes no answer twice (processDirectTelegram, actionA02, actionA03).
THEOREM RequestsAreTakenOnce == ConnectionSpec => []ExactlyOnce
<1>1. ConversationInv => ExactlyOnce
  BY DEF ConversationInv, ServedInv, ServedInOrder, AnswersInv, AnswersInOrder, ExactlyOnce
<1> QED  BY <1>1, Conversation, PTL

\* The T_ACK the device repeats (actionA03) is never that of a request it
\* did not process: of what the client saw acknowledged, everything was.
THEOREM AcknowledgedRequestsAreServed == ConnectionSpec => []AcknowledgedIsServed
<1>1. ConversationInv => AcknowledgedIsServed
  BY DEF ConversationInv, AcksInv, AcknowledgedIsServed
<1> QED  BY <1>1, Conversation, PTL

\* With a client that has one request open at a time, an answer is with the
\* client or in one of the two buffers of the device (actionA02, actionA08):
\* none is overwritten, and when both sides are at rest all have arrived.
THEOREM ServedRequestsAreAnswered ==
    ASSUME Window = 1
    PROVE  ConnectionSpec => []RequestsAreAnswered
<1>1. ConversationInv => AcknowledgedIsServed
  BY DEF ConversationInv, AcksInv, AcknowledgedIsServed
<1>2. ConversationInv => NothingForgotten
  <2> SUFFICES ASSUME ConversationInv, Quiet, clean, state = "OPEN_IDLE",
                      NEW d \in Range(served), d >= first
               PROVE  d \in Range(answers)
    BY DEF NothingForgotten
  <2>1. open /\ buf1State = "FREE" /\ buf2State = "FREE"
    BY DEF Quiet, ReadyToSend, open, ConversationInv, ServedInv, ConversationTypes, IInv,
           TypeOK, BuffersMatchState, BufferState
  <2> QED  BY <2>1 DEF ConversationInv, AnswersKept
<1> QED  BY <1>1, <1>2, Conversation, PTL DEF RequestsAreAnswered

=============================================================================

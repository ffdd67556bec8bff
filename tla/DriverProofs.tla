---------------------------- MODULE DriverProofs -----------------------------
(***************************************************************************)
(* Proofs about the drivers. The I2C master: for messages of every length  *)
(* and for every fault of the bus, a call leaves the bus and never sends   *)
(* STOP against the slave; a transfer that is done without a lost          *)
(* arbitration was heard and answered in full. The serial port implements  *)
(* SerialService with buffers of every size: whatever the interrupt does   *)
(* in the middle of write() and read(), bytes go out and come in in their  *)
(* order; the assumption is the one the runs make: while readHead is out   *)
(* of range at most one byte is stored.                                    *)
(***************************************************************************)
EXTENDS I2cMaster, Serial, SequenceTheorems, TLAPS

-----------------------------------------------------------------------------
(* The lines of the bus *)

\* What holds the argument together: the flag STO is set only after the slave
\* has released the data line, STA never while it drives it.
LineInv ==
    /\ i2cPc \in {"idle", "poll", "stop"}
    /\ stat \in Stats /\ SI \in BOOLEAN /\ driving \in BOOLEAN
    /\ i2cPc = "poll" <=> status = "BUSY"
    /\ driving => stat \in {"SLAR_ACK", "RX_ACK"}
    /\ "STO" \in con => stat \in {"SLAW_ACK", "DATA_ACK", "RX_NAK", "BUSERR"} \cup Naks
    /\ "STA" \in con => stat \in {"SLAW_ACK", "DATA_ACK", "START", "RSTART"} \cup WithoutStop
    /\ stat \in {"START", "RSTART"} /\ ~SI => "STA" \notin con
    /\ i2cPc # "poll" => "STA" \notin con /\ ~SI
    /\ i2cPc = "poll" => "STO" \notin con
    /\ i2cPc = "stop" => "STO" \in con \/ stat \in WithoutStop
    /\ i2cPc = "idle" => stat \in WithoutStop /\ "STO" \notin con
    /\ i2cPc = "stop" /\ status = "ARBLOST" => stat = "ARBLOST"

LEMMA OutcomesGive ==
    ASSUME NEW good, NEW nak, NEW s \in Outcomes(good, nak)
    PROVE  s \in {good, nak, "BUSERR", "ARBLOST"}
BY DEF Outcomes

LEMMA LineBus == LineInv /\ Bus => LineInv'
<1> SUFFICES ASSUME LineInv, Bus PROVE LineInv'
  OBVIOUS
<1> USE DEF LineInv, Stats, Naks, WithoutStop, xfer
<1>1. CASE StartCondition
  BY <1>1 DEF Bus, StartCondition, Report
<1>2. CASE StopCondition
  BY <1>2 DEF Bus, StopCondition
<1>3. CASE Address
  <2>1. PICK s \in {"SLAR_ACK", "SLAR_NAK", "SLAW_ACK", "SLAW_NAK", "BUSERR", "ARBLOST"} :
           Report(s) /\ driving' = (s = "SLAR_ACK")
    BY <1>3, OutcomesGive DEF Address
  <2> QED  BY <1>3, <2>1 DEF Bus, Address, Report
<1>4. CASE SendByte
  <2>1. PICK s \in {"DATA_ACK", "DATA_NAK", "BUSERR", "ARBLOST"} : Report(s)
    BY <1>4, OutcomesGive DEF SendByte
  <2> QED  BY <1>4, <2>1 DEF Bus, SendByte, Report
<1>5. CASE ReceiveByte
  <2>1. PICK s \in {"RX_ACK", "RX_NAK", "BUSERR", "ARBLOST"} :
           Report(s) /\ driving' = (s = "RX_ACK")
    BY <1>5, OutcomesGive DEF ReceiveByte
  <2> QED  BY <1>5, <2>1 DEF Bus, ReceiveByte, Report
<1> QED  BY <1>1, <1>2, <1>3, <1>4, <1>5 DEF Bus

LEMMA LinePoll == LineInv /\ Poll => LineInv'
<1> SUFFICES ASSUME LineInv, Poll PROVE LineInv'
  OBVIOUS
<1> USE DEF LineInv, Stats, Naks, WithoutStop, slave, Poll, Flags, endStatus, newStatus
<1>1. CASE nextByte
  <2>1. newStatus = "BUSY" /\ stat \in {"SLAW_ACK", "DATA_ACK"}
    BY <1>1 DEF nextByte
  <2>2. SI' = FALSE /\ con' \in {{}, {"STA"}, {"STO"}}
    BY <1>1 DEF nextByte
  <2> QED  BY <2>1, <2>2
<1>2. CASE storeByte
  <2>1. con' = receiveFlags /\ SI' = FALSE
    BY <1>2 DEF storeByte
  <2>2. "STO" \in receiveFlags <=> stat = "RX_NAK"
    BY DEF receiveFlags
  <2>3. "STA" \notin receiveFlags
    BY DEF receiveFlags
  <2> QED  BY <1>2, <2>1, <2>2, <2>3 DEF storeByte
<1>3. CASE addressOrError
  BY <1>3 DEF addressOrError, errorFlags
<1> QED  BY <1>1, <1>2, <1>3

LEMMA LineInductive == LineInv /\ [I2cNext]_i2cVars => LineInv'
<1> SUFFICES ASSUME LineInv, [I2cNext]_i2cVars PROVE LineInv'
  OBVIOUS
<1>1. CASE Bus
  BY <1>1, LineBus
<1>2. CASE Poll
  BY <1>2, LinePoll
<1>3. CASE Stopped
  <2>1. CASE tryAgain
    <3>1. stat = "ARBLOST" /\ UNCHANGED <<stat, driving>>
      BY <1>3, <2>1 DEF LineInv, Stopped, tryAgain, slave
    <3>2. i2cPc' = "poll" /\ status' = "BUSY" /\ con' = {"STA"} /\ SI' = FALSE
      BY <1>3, <2>1 DEF Stopped, startTransfer
    <3> QED  BY <3>1, <3>2 DEF LineInv, WithoutStop, Stats, Naks
  <2>2. CASE ~tryAgain
    BY <1>3, <2>2 DEF LineInv, Stopped, tryAgain, slave, WithoutStop, Stats, Naks
  <2> QED  BY <2>1, <2>2
<1>4. CASE Call
  BY <1>4 DEF LineInv, Call, startTransfer, slave, WithoutStop, Stats, Naks
<1>5. CASE UNCHANGED i2cVars
  BY <1>5 DEF LineInv, i2cVars, xfer, slave, WithoutStop, Stats, Naks
<1> QED  BY <1>1, <1>2, <1>3, <1>4, <1>5 DEF I2cNext, I2cProcessor

LEMMA LineInvariant == I2cSpec => []LineInv
<1>1. I2cInit => LineInv
  BY DEF I2cInit, LineInv, Stats, Naks, WithoutStop
<1> QED  BY <1>1, LineInductive, PTL DEF I2cSpec

\* A call leaves the bus to others, whatever went wrong.
THEOREM CallLeavesBus == I2cSpec => []BusLeft
<1>1. LineInv => BusLeft
  BY DEF LineInv, BusLeft
<1> QED  BY <1>1, LineInvariant, PTL

\* No STOP and no repeated START is sent while the slave drives the line.
THEOREM StopAfterRelease == I2cSpec => LineReleased
<1>1. ASSUME LineInv, [I2cNext]_i2cVars, stat' # stat, stat' \in {"none", "RSTART"}
      PROVE  ~driving
  <2>1. CASE Bus
    <3>1. CASE StartCondition
      BY <3>1, <1>1 DEF LineInv, StartCondition, Report, WithoutStop
    <3>2. CASE StopCondition
      BY <3>2, <1>1 DEF LineInv, StopCondition, Naks
    <3>3. CASE Address
      BY <3>3, <1>1 DEF LineInv, Address
    <3>4. CASE SendByte
      BY <3>4, <1>1 DEF LineInv, SendByte
    <3>5. CASE ReceiveByte
      <4>1. stat' \in {"RX_ACK", "RX_NAK", "BUSERR", "ARBLOST"}
        BY <3>5, OutcomesGive DEF ReceiveByte, Report
      <4> QED  BY <4>1, <1>1
    <3> QED  BY <2>1, <3>1, <3>2, <3>3, <3>4, <3>5 DEF Bus
  <2>2. CASE I2cProcessor \/ Call \/ UNCHANGED i2cVars
    BY <2>2, <1>1 DEF I2cProcessor, Poll, Stopped, Call, i2cVars
  <2> QED  BY <2>1, <2>2, <1>1 DEF I2cNext
<1>2. LineInv /\ [I2cNext]_i2cVars
        => [stat' # stat /\ stat' \in {"none", "RSTART"} => ~driving]_i2cVars
  BY <1>1
<1> QED  BY <1>2, LineInvariant, PTL DEF I2cSpec, LineReleased

-----------------------------------------------------------------------------
(* Messages and answers *)

LEMMA NumbersNone == Numbers(0) = <<>>
BY DEF Numbers

LEMMA NumbersExtend ==
    ASSUME NEW n \in Nat
    PROVE  Append(Numbers(n), n + 1) = Numbers(n + 1)
<1>1. Numbers(n) \in Seq(Int) /\ Len(Numbers(n)) = n
  BY DEF Numbers
<1>2. Numbers(n + 1) \in Seq(Int) /\ Len(Numbers(n + 1)) = n + 1
  BY DEF Numbers
<1> DEFINE left == Append(Numbers(n), n + 1)
<1>3. left \in Seq(Int) /\ Len(left) = n + 1
  BY <1>1
<1>4. ASSUME NEW i \in 1 .. n + 1 PROVE left[i] = Numbers(n + 1)[i]
  BY <1>1 DEF Numbers
<1> QED  BY <1>2, <1>3, <1>4, SeqEqual

Counts ==
    /\ tx \in Nat /\ rx \in Nat /\ txSz \in 0 .. tx /\ rxSz \in 0 .. rx
    /\ rxBuff = Numbers(rx - rxSz)

\* The slave has the first n bytes of the message.
Has(n) == heard = Numbers(n)

\* What the state of the controller says of a transfer that is going on.
Fresh == txSz = tx /\ rxSz = rx
Going ==
    /\ tx + rx > 0
    /\ rx > 0 => rxSz > 0
    /\ stat \in WithoutStop /\ ~SI => Fresh
    /\ stat = "START" => Fresh /\ heard = <<>>
    /\ stat = "RSTART" => txSz = 0 /\ rxSz = rx /\ rx > 0 /\ Has(tx)
    /\ stat \in {"SLAW_ACK", "DATA_ACK"} =>
          /\ rxSz = rx
          /\ SI => Has(tx - txSz)
          /\ ~SI /\ "STA" \in con => txSz = 0 /\ rx > 0 /\ Has(tx)
          /\ ~SI /\ "STA" \notin con => txSz < tx /\ Has(tx - txSz - 1)
    /\ stat \in {"SLAR_ACK", "RX_ACK", "RX_NAK"} => txSz = 0 /\ Has(tx) /\ rx > 0
    /\ stat = "SLAR_ACK" => rxSz = rx /\ answers = 0
    /\ stat = "RX_ACK" /\ SI => rxSz > 1 /\ answers = rx - rxSz + 1
    /\ stat = "RX_ACK" /\ ~SI => answers = rx - rxSz
    /\ stat = "RX_NAK" => SI /\ rxSz = 1 /\ answers = rx
    /\ stat \in {"SLAR_ACK", "RX_ACK"} /\ ~SI => ("AA" \in con <=> rxSz > 1)

Ended ==
    /\ status = "DONE" => Has(tx) /\ rxSz = 0
    /\ rx > 0 /\ rxSz = 0 => Has(tx)

AnswerInv ==
    /\ LineInv
    /\ Counts
    /\ stat # "ARBLOST" /\ status # "ARBLOST"
    /\ i2cPc = "poll" => Going
    /\ i2cPc # "poll" => Ended

LEMMA NoArbitrationLost ==
    ASSUME lost \in Nat, lost' = 0,
           NEW good, NEW nak, NEW s \in Outcomes(good, nak), Report(s)
    PROVE  s \in {good, nak, "BUSERR"}
BY OutcomesGive DEF Report

LEMMA AnswerBus ==
    ASSUME lost \in Nat, lost' = 0, AnswerInv, Bus
    PROVE  AnswerInv'
<1>0. LineInv'
  BY LineBus DEF AnswerInv
<1>1. Counts' /\ status' = status /\ i2cPc' = i2cPc /\ ~SI
  BY DEF AnswerInv, Counts, Bus, xfer
<1>2. UNCHANGED <<tx, rx, txSz, rxSz>>
  BY DEF Bus, xfer
<1>3. CASE i2cPc # "poll"
  <2>1. StopCondition
    BY <1>1, <1>3 DEF AnswerInv, LineInv, Bus, StartCondition, Address, SendByte,
          ReceiveByte, WithoutStop, Naks
  <2> QED  BY <1>0, <1>1, <1>2, <1>3, <2>1 DEF AnswerInv, StopCondition, Ended, Has
<1>4. CASE i2cPc = "poll"
  <2>0. Going /\ Counts /\ LineInv /\ "STO" \notin con
    BY <1>4 DEF AnswerInv, LineInv
  <2>1. ASSUME Going', stat' # "ARBLOST" PROVE AnswerInv'
    BY <1>0, <1>1, <1>4, <2>1 DEF AnswerInv
  <2>2. CASE StartCondition
    <3>1. CASE stat \in WithoutStop
      <4>1. stat' = "START" /\ heard' = <<>>
        BY <3>1, <2>2 DEF StartCondition, Report, WithoutStop
      <4> QED  BY <4>1, <3>1, <2>0, <1>1, <1>2, <2>1 DEF Going, Fresh, WithoutStop
    <3>2. CASE stat \notin WithoutStop
      <4>1. stat' = "RSTART" /\ heard' = heard /\ stat \in {"SLAW_ACK", "DATA_ACK"} /\ "STA" \in con
        BY <3>2, <2>2 DEF StartCondition, Report
      <4> QED  BY <4>1, <2>0, <1>1, <1>2, <2>1 DEF Going, Has, WithoutStop
    <3> QED  BY <3>1, <3>2
  <2>3. CASE StopCondition
    BY <2>3, <2>0 DEF StopCondition
  <2>4. CASE Address
    <3>1. PICK s \in {"SLAR_ACK", "SLAR_NAK", "SLAW_ACK", "SLAW_NAK", "BUSERR"} :
             /\ Report(s)
             /\ s = "SLAR_ACK" => txSz = 0
             /\ s = "SLAW_ACK" => txSz # 0
      BY <2>4, NoArbitrationLost DEF Address
    <3>2. /\ stat' = s /\ SI' = TRUE /\ answers' = 0 /\ heard' = heard /\ con' = con
          /\ stat \in {"START", "RSTART"}
      BY <2>4, <3>1 DEF Address, Report
    <3>3. s = "SLAR_ACK" => rxSz = rx /\ rx > 0 /\ Has(tx)
      BY <3>1, <3>2, <2>0, NumbersNone DEF Going, Fresh, Has, Counts
    <3>4. s = "SLAW_ACK" => rxSz = rx /\ Has(tx - txSz)
      BY <3>1, <3>2, <2>0, NumbersNone DEF Going, Fresh, Has, Counts
    <3> QED  BY <3>1, <3>2, <3>3, <3>4, <2>0, <1>1, <1>2, <2>1 DEF Going, Has, WithoutStop
  <2>5. CASE SendByte
    <3>1. PICK s \in {"DATA_ACK", "DATA_NAK", "BUSERR"} :
             /\ Report(s)
             /\ heard' = IF s = "DATA_ACK" THEN Append(heard, dat) ELSE heard
      BY <2>5, NoArbitrationLost DEF SendByte
    <3>2. /\ stat' = s /\ SI' = TRUE
          /\ stat \in {"SLAW_ACK", "DATA_ACK"} /\ "STA" \notin con
      BY <2>5, <3>1 DEF SendByte, Report
    <3>3. rxSz = rx /\ txSz < tx /\ Has(tx - txSz - 1)
      BY <3>2, <1>1, <2>0 DEF Going
    <3>4. s = "DATA_ACK" => heard' = Numbers(tx - txSz)
      <4>1. tx - txSz - 1 \in Nat /\ tx - txSz - 1 + 1 = tx - txSz
        BY <3>3, <2>0 DEF Counts
      <4>2. Append(Numbers(tx - txSz - 1), tx - txSz) = Numbers(tx - txSz)
        BY <4>1, NumbersExtend
      <4> QED  BY <3>1, <3>3, <4>2 DEF Has, dat
    <3> QED  BY <3>1, <3>2, <3>3, <3>4, <2>0, <1>1, <1>2, <2>1 DEF Going, Has, WithoutStop
  <2>6. CASE ReceiveByte
    <3> DEFINE good == IF "AA" \in con THEN "RX_ACK" ELSE "RX_NAK"
    <3>1. PICK s \in {good, "BUSERR"} :
             Report(s) /\ answers' = IF s = good THEN answers + 1 ELSE answers
      BY <2>6, NoArbitrationLost DEF ReceiveByte
    <3>2. /\ stat' = s /\ SI' = TRUE /\ heard' = heard
          /\ stat \in {"SLAR_ACK", "RX_ACK"}
      BY <2>6, <3>1 DEF ReceiveByte, Report
    <3>3. answers = rx - rxSz /\ txSz = 0 /\ Has(tx) /\ rx > 0 /\ rxSz > 0
      BY <3>2, <1>1, <2>0 DEF Going, Counts
    <3>4. s = "RX_ACK" => rxSz > 1 /\ answers' = rx - rxSz + 1
      BY <3>1, <3>2, <3>3, <1>1, <2>0 DEF Going, Counts
    <3>5. s = "RX_NAK" => rxSz = 1 /\ answers' = rx
      BY <3>1, <3>2, <3>3, <1>1, <2>0 DEF Going, Counts
    <3> QED  BY <3>1, <3>2, <3>3, <3>4, <3>5, <2>0, <1>1, <1>2, <2>1 DEF Going, Has, WithoutStop
  <2> QED  BY <2>2, <2>3, <2>4, <2>5, <2>6 DEF Bus
<1> QED  BY <1>3, <1>4

LEMMA AnswerPoll == AnswerInv /\ Poll => AnswerInv'
<1> SUFFICES ASSUME AnswerInv, Poll PROVE AnswerInv'
  OBVIOUS
<1>0. LineInv'
  BY LinePoll DEF AnswerInv
<1>1. /\ i2cPc = "poll" /\ SI /\ Going /\ Counts /\ LineInv /\ stat # "ARBLOST" /\ status = "BUSY"
      /\ stat' = stat /\ heard' = heard /\ answers' = answers /\ tx' = tx /\ rx' = rx
      /\ status' = endStatus /\ i2cPc' = IF endStatus = "BUSY" THEN "poll" ELSE "stop"
  BY DEF AnswerInv, LineInv, Poll, slave
<1>2. CASE nextByte
  <2>1. stat \in {"SLAW_ACK", "DATA_ACK"} /\ rxSz = rx /\ Has(tx - txSz) /\ SI' = FALSE
    BY <1>1, <1>2 DEF nextByte, Flags, Going
  <2>2. newStatus = "BUSY"
    BY <2>1, <1>1 DEF newStatus, Naks
  <2>3. CASE txSz = 0
    <3>1. con' = (IF rxSz > 0 THEN {"STA"} ELSE {"STO"}) /\ UNCHANGED <<txSz, rxSz, rxBuff>>
      BY <1>2, <2>3 DEF nextByte, Flags
    <3>2. Counts' /\ Has(tx)
      BY <3>1, <1>1, <2>1, <2>3 DEF Counts
    <3>3. CASE rxSz > 0
      <4>1. endStatus = "BUSY" /\ con' = {"STA"}
        BY <3>1, <3>3, <2>2 DEF endStatus
      <4>2. Going'
        BY <4>1, <3>1, <3>2, <3>3, <2>1, <2>3, <1>1 DEF Going, Has, WithoutStop
      <4> QED  BY <1>0, <4>1, <4>2, <3>2, <1>1 DEF AnswerInv
    <3>4. CASE ~(rxSz > 0)
      <4>1. endStatus = "DONE"
        BY <3>1, <3>4, <2>2 DEF endStatus
      <4>2. rxSz = 0 /\ rx = 0
        BY <3>4, <1>1, <2>1 DEF Counts
      <4>3. Ended'
        BY <4>1, <4>2, <3>1, <3>2, <1>1 DEF Ended, Has
      <4> QED  BY <1>0, <4>1, <4>3, <3>2, <1>1 DEF AnswerInv
    <3> QED  BY <3>3, <3>4
  <2>4. CASE txSz # 0
    <3>1. con' = {} /\ txSz' = txSz - 1 /\ UNCHANGED <<rxSz, rxBuff>>
      BY <1>2, <2>4 DEF nextByte, Flags
    <3>2. endStatus = "BUSY"
      BY <3>1, <2>2 DEF endStatus
    <3>3. Counts' /\ txSz' < tx /\ tx - txSz' - 1 = tx - txSz
      BY <3>1, <1>1, <2>4 DEF Counts
    <3>4. Has(tx - txSz' - 1)
      BY <3>3, <2>1 DEF Has
    <3>5. Going'
      BY <3>1, <3>3, <3>4, <2>1, <1>1 DEF Going, Has, WithoutStop
    <3> QED  BY <1>0, <3>2, <3>3, <3>5, <1>1 DEF AnswerInv
  <2> QED  BY <2>3, <2>4
<1>3. CASE storeByte
  <2>1. /\ stat \in {"RX_ACK", "RX_NAK", "SLAR_ACK"} /\ SI' = FALSE /\ con' = receiveFlags
        /\ txSz' = txSz /\ txSz = 0 /\ Has(tx) /\ rx > 0
    BY <1>3, <1>1 DEF storeByte, Flags, Going
  <2>2. newStatus = "BUSY"
    BY <2>1, <1>1 DEF newStatus, Naks
  <2>3. CASE stat = "SLAR_ACK"
    <3>1. UNCHANGED <<rxSz, rxBuff>>
      BY <1>3, <2>3 DEF storeByte
    <3>2. "STO" \notin con' /\ ("AA" \in con' <=> rxSz' > 1)
      BY <2>1, <2>3 DEF receiveFlags
    <3>3. endStatus = "BUSY" /\ Counts'
      BY <3>1, <3>2, <2>1, <2>2, <1>1 DEF endStatus, Counts
    <3>4. Going'
      BY <3>1, <3>2, <2>1, <2>3, <1>1 DEF Going, Has, WithoutStop
    <3> QED  BY <1>0, <3>3, <3>4, <1>1 DEF AnswerInv
  <2>4. CASE stat # "SLAR_ACK"
    <3>1. rxBuff' = Append(rxBuff, answers) /\ rxSz' = rxSz - 1
      BY <1>3, <2>4 DEF storeByte
    <3>2. answers = rx - rxSz + 1 /\ rxSz > 0
      BY <1>1, <2>1, <2>4 DEF Going, Counts
    <3>3. Counts'
      <4>1. rx - rxSz \in Nat /\ rx - rxSz' = rx - rxSz + 1 /\ rxSz' \in 0 .. rx
        BY <3>1, <3>2, <1>1 DEF Counts
      <4>2. Append(Numbers(rx - rxSz), rx - rxSz + 1) = Numbers(rx - rxSz + 1)
        BY <4>1, NumbersExtend
      <4>3. rxBuff' = Numbers(rx - rxSz')
        BY <4>1, <4>2, <3>1, <3>2, <1>1 DEF Counts
      <4> QED  BY <4>1, <4>3, <2>1, <1>1 DEF Counts
    <3>4. CASE stat = "RX_ACK"
      <4>1. "STO" \notin con' /\ ("AA" \in con' <=> rxSz' > 1)
        BY <2>1, <3>4 DEF receiveFlags
      <4>2. endStatus = "BUSY"
        BY <4>1, <2>2 DEF endStatus
      <4>3. rxSz > 1 /\ answers' = rx - rxSz' /\ rxSz' > 0
        BY <3>1, <3>4, <1>1 DEF Going, Counts
      <4>4. Going'
        BY <4>1, <4>3, <3>4, <2>1, <1>1 DEF Going, Has, WithoutStop
      <4> QED  BY <1>0, <3>3, <4>2, <4>4, <1>1 DEF AnswerInv
    <3>5. CASE stat = "RX_NAK"
      <4>1. endStatus = "DONE"
        BY <2>1, <2>2, <3>5 DEF endStatus, receiveFlags
      <4>2. rxSz' = 0
        BY <3>1, <3>5, <1>1 DEF Going
      <4>3. Ended'
        BY <4>1, <4>2, <2>1, <1>1 DEF Ended, Has
      <4> QED  BY <1>0, <3>3, <4>1, <4>3, <1>1 DEF AnswerInv
    <3> QED  BY <2>1, <2>4, <3>4, <3>5
  <2> QED  BY <2>3, <2>4
<1>4. CASE addressOrError
  <2>1. UNCHANGED <<txSz, rxSz, rxBuff>> /\ SI' = FALSE
    BY <1>4 DEF addressOrError, Flags
  <2>2. Counts'
    BY <2>1, <1>1 DEF Counts
  <2>3. CASE stat \in {"START", "RSTART"}
    <3>1. con' = {} /\ endStatus = "BUSY"
      BY <1>4, <2>3, <1>1 DEF addressOrError, Flags, endStatus, newStatus, Naks
    <3>2. Going'
      BY <3>1, <2>1, <2>3, <1>1 DEF Going, Fresh, Has, WithoutStop
    <3> QED  BY <1>0, <2>2, <3>1, <3>2, <1>1 DEF AnswerInv
  <2>4. CASE stat \in {"BUSERR"} \cup Naks
    <3>1. endStatus \in {"NAK", "BUSERR"}
      BY <2>4 DEF endStatus, newStatus, Naks
    <3>2. Ended'
      BY <3>1, <2>1, <1>1 DEF Ended, Going, Has
    <3> QED  BY <1>0, <2>2, <3>1, <3>2, <1>1 DEF AnswerInv
  <2> QED  BY <2>3, <2>4, <1>1, <1>4 DEF addressOrError
<1> QED  BY <1>2, <1>3, <1>4 DEF Poll

\* What the count of lost arbitrations says: while none is lost in a call, the
\* invariant above holds, and a call starts without the trace of an earlier loss.
LostInv ==
    /\ lost \in Nat
    /\ stat = "ARBLOST" => lost > 0
    /\ i2cPc # "poll" => (stat = "ARBLOST" <=> status = "ARBLOST")
    /\ i2cPc = "idle" => stat # "ARBLOST"

TransferInv == LineInv /\ LostInv /\ (lost = 0 => AnswerInv)

LEMMA LostInductive == LineInv /\ LostInv /\ [I2cNext]_i2cVars => LostInv'
<1> SUFFICES ASSUME LineInv, LostInv, [I2cNext]_i2cVars PROVE LostInv'
  OBVIOUS
<1>1. CASE Bus
  <2>1. i2cPc' = i2cPc /\ status' = status /\ ~SI
    BY <1>1 DEF Bus, xfer
  <2>2. CASE StopCondition
    BY <2>1, <2>2 DEF StopCondition, LineInv, LostInv, Naks
  <2>3. CASE ~StopCondition
    <3>1. PICK s : Report(s)
      BY <1>1, <2>3 DEF Bus, StartCondition, Address, SendByte, ReceiveByte
    <3>2. i2cPc = "poll"
      BY <1>1, <2>1, <2>3 DEF Bus, StartCondition, Address, SendByte, ReceiveByte,
            LineInv, WithoutStop, Naks
    <3> QED  BY <2>1, <3>1, <3>2 DEF Report, LostInv
  <2> QED  BY <2>2, <2>3
<1>2. CASE Poll
  <2>1. lost' = lost /\ stat' = stat /\ i2cPc = "poll" /\ status = "BUSY"
    BY <1>2 DEF Poll, LineInv
  <2>2. i2cPc' = "stop" \/ i2cPc' = "poll"
    BY <1>2 DEF Poll
  <2>3. i2cPc' = "stop" => (stat = "ARBLOST" <=> status' = "ARBLOST")
    <3>1. newStatus = "ARBLOST" <=> stat = "ARBLOST"
      BY <2>1 DEF newStatus, Naks
    <3>2. newStatus = "BUSY" => stat # "ARBLOST"
      BY <3>1
    <3> QED  BY <1>2, <3>1, <3>2 DEF Poll, endStatus
  <2> QED  BY <2>1, <2>2, <2>3 DEF LostInv
<1>3. CASE Stopped
  BY <1>3 DEF Stopped, tryAgain, startTransfer, LostInv
<1>4. CASE Call
  BY <1>4 DEF Call, startTransfer, LostInv, slave
<1>5. CASE UNCHANGED i2cVars
  BY <1>5 DEF LostInv, i2cVars, xfer
<1> QED  BY <1>1, <1>2, <1>3, <1>4, <1>5 DEF I2cNext, I2cProcessor

LEMMA TransferInductive == TransferInv /\ [I2cNext]_i2cVars => TransferInv'
<1> SUFFICES ASSUME TransferInv, [I2cNext]_i2cVars PROVE TransferInv'
  OBVIOUS
<1>0. LineInv' /\ LostInv' /\ lost \in Nat
  BY LineInductive, LostInductive DEF TransferInv, LostInv
<1> SUFFICES ASSUME lost' = 0 PROVE AnswerInv'
  BY <1>0 DEF TransferInv
<1>1. CASE Bus
  <2>1. lost = 0
    <3>1. lost' = lost \/ \E s : Report(s)
      BY <1>1 DEF Bus, StartCondition, StopCondition, Address, SendByte, ReceiveByte
    <3> QED  BY <1>0, <3>1 DEF Report
  <2> QED  BY <1>0, <1>1, <2>1, AnswerBus DEF TransferInv
<1>2. CASE Poll
  <2>1. lost = 0
    BY <1>2 DEF Poll
  <2> QED  BY <1>2, <2>1, AnswerPoll DEF TransferInv
<1>3. CASE Stopped
  <2>1. AnswerInv
    BY <1>3 DEF Stopped, TransferInv
  <2>2. i2cPc = "stop" /\ i2cPc' = "idle" /\ UNCHANGED <<status, xfer, stat, slave>>
    BY <1>3, <2>1 DEF AnswerInv, Stopped, tryAgain, xfer
  <2> QED  BY <1>0, <2>1, <2>2 DEF AnswerInv, Counts, Ended, Has, xfer, slave
<1>4. CASE Call
  <2>1. /\ i2cPc = "idle" /\ i2cPc' = "poll" /\ SI' = FALSE /\ stat' = stat /\ status' = "BUSY"
        /\ rxBuff' = <<>>
    BY <1>4 DEF Call, startTransfer
  <2>2. stat # "ARBLOST" /\ stat \in WithoutStop
    BY <2>1 DEF TransferInv, LostInv, LineInv
  <2>3. PICK n \in 0 .. MaxTx, k \in 0 .. MaxRx :
           n + k > 0 /\ tx' = n /\ txSz' = n /\ rx' = k /\ rxSz' = k
    BY <1>4 DEF Call
  <2>4. Counts' /\ tx' + rx' > 0
    BY <2>1, <2>3, NumbersNone, I2cAssumption DEF Counts
  <2>5. Going'
    BY <2>1, <2>2, <2>3, <2>4, I2cAssumption DEF Going, Fresh, WithoutStop
  <2> QED  BY <1>0, <2>1, <2>2, <2>4, <2>5 DEF AnswerInv
<1>5. CASE UNCHANGED i2cVars
  <2>1. AnswerInv
    BY <1>5 DEF i2cVars, TransferInv
  <2> QED  BY <1>0, <1>5, <2>1 DEF AnswerInv, Counts, Going, Ended, Fresh, Has, i2cVars, xfer, slave
<1> QED  BY <1>1, <1>2, <1>3, <1>4, <1>5 DEF I2cNext, I2cProcessor

LEMMA TransferInvariant == I2cSpec => []TransferInv
<1>1. ASSUME I2cInit PROVE TransferInv
  <2>1. LineInv
    BY <1>1 DEF I2cInit, LineInv, Stats, Naks, WithoutStop
  <2>2. Counts
    <3>1. rx - rxSz = 0 /\ rxBuff = <<>>
      BY <1>1 DEF I2cInit
    <3>2. tx = 0 /\ rx = 0 /\ txSz = 0 /\ rxSz = 0
      BY <1>1 DEF I2cInit
    <3> QED  BY <3>1, <3>2, NumbersNone DEF Counts
  <2>3. Ended
    BY <1>1, NumbersNone DEF I2cInit, Ended, Has
  <2>4. LostInv
    BY <1>1 DEF I2cInit, LostInv
  <2> QED  BY <1>1, <2>1, <2>2, <2>3, <2>4 DEF I2cInit, AnswerInv, TransferInv
<1>2. TransferInv /\ [I2cNext]_i2cVars => TransferInv'
  BY TransferInductive
<1> QED  BY <1>1, <1>2, PTL DEF I2cSpec

\* A transfer that is done was heard in full and its answer is complete, for
\* messages of every length, if no arbitration was lost in it.
THEOREM TransferHeard == I2cSpec => []DoneMeansHeard
<1>1. TransferInv => DoneMeansHeard
  BY DEF TransferInv, AnswerInv, DoneMeansHeard, Ended, Has, Counts
<1> QED  BY <1>1, TransferInvariant, PTL

\* A full count of bytes read means the same, whatever the status.
THEOREM AnswerComplete == I2cSpec => []ReadIsAnswered
<1>1. TransferInv => ReadIsAnswered
  BY DEF TransferInv, AnswerInv, ReadIsAnswered, Ended, Has, Counts, result, wanted
<1> QED  BY <1>1, TransferInvariant, PTL

-----------------------------------------------------------------------------
(* Ring buffers *)

LEMMA ModBelow ==
    ASSUME NEW a \in 0 .. BufferSize - 1
    PROVE  a % BufferSize = a
BY SerialAssumption

LEMMA ModAbove ==
    ASSUME NEW a \in BufferSize .. 2 * BufferSize - 1
    PROVE  a % BufferSize = a - BufferSize
<1>1. a - BufferSize \in 0 .. BufferSize - 1 /\ a = (a - BufferSize) + 1 * BufferSize
  BY SerialAssumption
<1> QED  BY <1>1, SerialAssumption, Z3

\* The number of bytes, and the place of each.
Count(h, t) == (t + BufferSize - (h % BufferSize)) % BufferSize
Place(h, k) == (h + k - 1) % BufferSize
Bytes(buffer, h, n) == [k \in 1 .. n |-> buffer[Place(h, k)]]

LEMMA CountIs ==
    ASSUME NEW h \in Index, NEW t \in Index
    PROVE  Count(h, t) = IF h <= t THEN t - h ELSE t + BufferSize - h
<1>1. h % BufferSize = h
  BY ModBelow DEF Index
<1>2. CASE h <= t
  <2>1. t + BufferSize - h \in BufferSize .. 2 * BufferSize - 1
    BY <1>2, SerialAssumption DEF Index
  <2> QED  BY <1>1, <1>2, <2>1, ModAbove, SerialAssumption DEF Count, Index
<1>3. CASE t < h
  <2>1. t + BufferSize - h \in 0 .. BufferSize - 1
    BY <1>3, SerialAssumption DEF Index
  <2> QED  BY <1>1, <1>3, <2>1, ModBelow DEF Count, Index
<1> QED  BY <1>2, <1>3, SerialAssumption DEF Index

LEMMA PlaceIs ==
    ASSUME NEW h \in Index, NEW k \in 1 .. BufferSize
    PROVE  /\ Place(h, k) = IF h + k <= BufferSize THEN h + k - 1 ELSE h + k - 1 - BufferSize
           /\ Place(h, k) \in Index
<1>1. CASE h + k <= BufferSize
  <2>1. h + k - 1 \in 0 .. BufferSize - 1
    BY <1>1, SerialAssumption DEF Index
  <2> QED  BY <1>1, <2>1, ModBelow DEF Place, Index
<1>2. CASE h + k > BufferSize
  <2>1. h + k - 1 \in BufferSize .. 2 * BufferSize - 1
    BY <1>2, SerialAssumption DEF Index
  <2>2. Place(h, k) = h + k - 1 - BufferSize
    BY <2>1, ModAbove, SerialAssumption DEF Place, Index
  <2> QED  BY <1>2, <2>1, <2>2, SerialAssumption DEF Index
<1> QED  BY <1>1, <1>2, SerialAssumption DEF Index

LEMMA NextIs ==
    ASSUME NEW i \in Index
    PROVE  /\ Next1(i) = IF i = BufferSize - 1 THEN 0 ELSE i + 1
           /\ Next1(i) \in Index
<1>1. CASE i = BufferSize - 1
  <2>1. i + 1 \in BufferSize .. 2 * BufferSize - 1 /\ i + 1 - BufferSize = 0
    BY <1>1, SerialAssumption
  <2> QED  BY <1>1, <2>1, ModAbove, SerialAssumption DEF Next1, Index
<1>2. CASE i # BufferSize - 1
  <2>1. i + 1 \in 0 .. BufferSize - 1
    BY <1>2, SerialAssumption DEF Index
  <2> QED  BY <1>2, <2>1, ModBelow DEF Next1, Index
<1> QED  BY <1>1, <1>2

LEMMA ContentIs ==
    ASSUME NEW buffer, NEW h \in Index, NEW t \in Index
    PROVE  /\ Content(buffer, h, t) = Bytes(buffer, h, Count(h, t))
           /\ Count(h, t) \in 0 .. BufferSize - 1
<1>1. Count(h, t) \in 0 .. BufferSize - 1
  BY CountIs, SerialAssumption DEF Index
<1>2. Content(buffer, h, t) = Bytes(buffer, h, Count(h, t))
  BY DEF Content, Count, Place, Bytes
<1> QED  BY <1>1, <1>2

\* An index that is one too far stands for the first place.
LEMMA ContentMasked ==
    ASSUME NEW buffer, NEW t \in Index
    PROVE  /\ Content(buffer, BufferSize, t) = Content(buffer, 0, t)
           /\ BufferSize % BufferSize = 0 /\ 0 % BufferSize = 0
           /\ Count(BufferSize, t) = t
<1>1. BufferSize % BufferSize = 0 /\ 0 % BufferSize = 0
  <2>1. BufferSize \in BufferSize .. 2 * BufferSize - 1 /\ BufferSize - BufferSize = 0
    BY SerialAssumption
  <2>2. 0 \in 0 .. BufferSize - 1
    BY SerialAssumption
  <2> QED  BY <2>1, <2>2, ModAbove, ModBelow
<1>2. (t + BufferSize - 0) % BufferSize = t
  <2>1. t + BufferSize - 0 \in BufferSize .. 2 * BufferSize - 1 /\ t + BufferSize - 0 - BufferSize = t
    BY SerialAssumption DEF Index
  <2> QED  BY <2>1, ModAbove, SerialAssumption DEF Index
<1>3. ASSUME NEW k \in 1 .. t
      PROVE  (BufferSize + k - 1) % BufferSize = (0 + k - 1) % BufferSize
  <2>1. /\ BufferSize + k - 1 \in BufferSize .. 2 * BufferSize - 1
        /\ 0 + k - 1 \in 0 .. BufferSize - 1
        /\ BufferSize + k - 1 - BufferSize = 0 + k - 1
    BY SerialAssumption DEF Index
  <2>2. (BufferSize + k - 1) % BufferSize = BufferSize + k - 1 - BufferSize
    BY <2>1, ModAbove, SerialAssumption DEF Index
  <2>3. (0 + k - 1) % BufferSize = 0 + k - 1
    BY <2>1, ModBelow
  <2> QED  BY <2>1, <2>2, <2>3
<1>4. (t + BufferSize - (BufferSize % BufferSize)) % BufferSize = t
      /\ (t + BufferSize - (0 % BufferSize)) % BufferSize = t
  BY <1>1, <1>2
<1>5. Content(buffer, BufferSize, t) = [k \in 1 .. t |-> buffer[(BufferSize + k - 1) % BufferSize]]
  BY <1>4 DEF Content
<1>6. Content(buffer, 0, t) = [k \in 1 .. t |-> buffer[(0 + k - 1) % BufferSize]]
  BY <1>4 DEF Content
<1>7. Content(buffer, BufferSize, t) = Content(buffer, 0, t)
  BY <1>3, <1>5, <1>6
<1> QED  BY <1>1, <1>4, <1>7 DEF Count

-----------------------------------------------------------------------------
(* What the operations do to a ring buffer *)

LEMMA EmptyContent ==
    ASSUME NEW buffer, NEW h \in Index
    PROVE  Content(buffer, h, h) = <<>>
<1>1. Count(h, h) = 0
  BY CountIs DEF Index
<1>2. Bytes(buffer, h, 0) = <<>>
  BY DEF Bytes
<1> QED  BY <1>1, <1>2, ContentIs

\* A byte is put behind the last one.
LEMMA ContentAppended ==
    ASSUME NEW buffer \in [Index -> Byte \cup {NoByte}], NEW h \in Index, NEW t \in Index,
           h # Next1(t)
    PROVE  Content(buffer, h, Next1(t)) = Append(Content(buffer, h, t), buffer[t])
<1>1. PICK n \in 0 .. BufferSize - 2 : n = Count(h, t)
  <2>1. Count(h, t) = IF h <= t THEN t - h ELSE t + BufferSize - h
    BY CountIs
  <2>2. Next1(t) = IF t = BufferSize - 1 THEN 0 ELSE t + 1
    BY NextIs
  <2> QED  BY <2>1, <2>2, SerialAssumption DEF Index
<1>2. Count(h, Next1(t)) = n + 1
  <2>1. n = IF h <= t THEN t - h ELSE t + BufferSize - h
    BY <1>1, CountIs
  <2>2. Next1(t) = (IF t = BufferSize - 1 THEN 0 ELSE t + 1) /\ Next1(t) \in Index
    BY NextIs
  <2>3. Count(h, Next1(t)) = IF h <= Next1(t) THEN Next1(t) - h ELSE Next1(t) + BufferSize - h
    BY <2>2, CountIs
  <2> QED  BY <2>1, <2>2, <2>3, SerialAssumption DEF Index
<1>3. n + 1 \in 1 .. BufferSize /\ Place(h, n + 1) = t
  <2>1. n + 1 \in 1 .. BufferSize
    BY <1>1, SerialAssumption
  <2>2. n = IF h <= t THEN t - h ELSE t + BufferSize - h
    BY <1>1, CountIs
  <2> QED  BY <2>1, <2>2, PlaceIs, SerialAssumption DEF Index
<1>4. ASSUME NEW k \in 1 .. n + 1 PROVE Place(h, k) \in Index
  BY <1>1, PlaceIs, SerialAssumption
<1>5. Bytes(buffer, h, n + 1) = Append(Bytes(buffer, h, n), buffer[t])
  <2>1. Bytes(buffer, h, n) \in Seq(Byte \cup {NoByte}) /\ Len(Bytes(buffer, h, n)) = n
    BY <1>1, <1>4 DEF Bytes
  <2>2. /\ Bytes(buffer, h, n + 1) \in Seq(Byte \cup {NoByte})
        /\ Len(Bytes(buffer, h, n + 1)) = n + 1
    BY <1>1, <1>4 DEF Bytes
  <2>3. ASSUME NEW k \in 1 .. n + 1
        PROVE  Bytes(buffer, h, n + 1)[k] = Append(Bytes(buffer, h, n), buffer[t])[k]
    BY <1>3, <2>1 DEF Bytes
  <2>4. /\ Append(Bytes(buffer, h, n), buffer[t]) \in Seq(Byte \cup {NoByte})
        /\ Len(Append(Bytes(buffer, h, n), buffer[t])) = n + 1
    BY <2>1
  <2>5. Len(Bytes(buffer, h, n + 1)) = Len(Append(Bytes(buffer, h, n), buffer[t]))
    BY <2>2, <2>4
  <2>6. \A k \in 1 .. Len(Bytes(buffer, h, n + 1)) :
           Bytes(buffer, h, n + 1)[k] = Append(Bytes(buffer, h, n), buffer[t])[k]
    BY <2>2, <2>3
  <2> QED  BY <2>2, <2>4, <2>5, <2>6, SeqEqual
<1> QED  BY <1>1, <1>2, <1>5, ContentIs, NextIs

LEMMA ContentSeq ==
    ASSUME NEW buffer \in [Index -> Byte \cup {NoByte}], NEW h \in Index, NEW t \in Index
    PROVE  /\ Content(buffer, h, t) \in Seq(Byte \cup {NoByte})
           /\ Len(Content(buffer, h, t)) = Count(h, t)
<1>1. PICK n \in 0 .. BufferSize - 1 : n = Count(h, t)
  BY ContentIs
<1>2. ASSUME NEW k \in 1 .. n PROVE Place(h, k) \in Index
  BY <1>1, PlaceIs, SerialAssumption
<1>3. Bytes(buffer, h, n) \in Seq(Byte \cup {NoByte}) /\ Len(Bytes(buffer, h, n)) = n
  BY <1>1, <1>2 DEF Bytes
<1> QED  BY <1>1, <1>3, ContentIs

\* The oldest byte is taken.
LEMMA ContentTaken ==
    ASSUME NEW buffer \in [Index -> Byte \cup {NoByte}], NEW h \in Index, NEW t \in Index,
           h # t
    PROVE  /\ Content(buffer, h, t) # <<>>
           /\ Head(Content(buffer, h, t)) = buffer[h]
           /\ Tail(Content(buffer, h, t)) = Content(buffer, Next1(h), t)
<1> DEFINE S == Byte \cup {NoByte}
           old == Content(buffer, h, t)
           new == Content(buffer, Next1(h), t)
<1>0. Next1(h) \in Index
  BY NextIs
<1>1. Count(h, t) \in 1 .. BufferSize - 1 /\ Count(Next1(h), t) = Count(h, t) - 1
  <2>1. Count(h, t) = IF h <= t THEN t - h ELSE t + BufferSize - h
    BY CountIs
  <2>2. Next1(h) = IF h = BufferSize - 1 THEN 0 ELSE h + 1
    BY NextIs
  <2>3. Count(Next1(h), t) = IF Next1(h) <= t THEN t - Next1(h) ELSE t + BufferSize - Next1(h)
    BY <1>0, CountIs
  <2> QED  BY <2>1, <2>2, <2>3, SerialAssumption DEF Index
<1>2. old \in Seq(S) /\ Len(old) = Count(h, t) /\ new \in Seq(S) /\ Len(new) = Count(h, t) - 1
  BY <1>0, <1>1, ContentSeq
<1>3. old # <<>>
  BY <1>1, <1>2
<1>4. ASSUME NEW k \in 1 .. Count(h, t) PROVE old[k] = buffer[Place(h, k)]
  <2>1. old = Bytes(buffer, h, Count(h, t))
    BY ContentIs
  <2> QED  BY <2>1 DEF Bytes
<1>5. ASSUME NEW k \in 1 .. Count(h, t) - 1 PROVE new[k] = buffer[Place(h, k + 1)]
  <2>1. new[k] = buffer[Place(Next1(h), k)]
    <3>1. new = Bytes(buffer, Next1(h), Count(h, t) - 1)
      BY <1>0, <1>1, ContentIs
    <3> QED  BY <3>1 DEF Bytes
  <2>2. Next1(h) = IF h = BufferSize - 1 THEN 0 ELSE h + 1
    BY NextIs
  <2>3. k \in 1 .. BufferSize /\ k + 1 \in 1 .. BufferSize
    BY <1>1, SerialAssumption
  <2>4. Place(Next1(h), k) =
          IF Next1(h) + k <= BufferSize THEN Next1(h) + k - 1 ELSE Next1(h) + k - 1 - BufferSize
    BY <1>0, <2>3, PlaceIs
  <2>5. Place(h, k + 1) =
          IF h + (k + 1) <= BufferSize THEN h + (k + 1) - 1 ELSE h + (k + 1) - 1 - BufferSize
    BY <2>3, PlaceIs
  <2>6. Place(Next1(h), k) = Place(h, k + 1)
    BY <2>2, <2>4, <2>5, <1>1, SerialAssumption DEF Index
  <2> QED  BY <2>1, <2>6
<1>6. Head(old) = buffer[h]
  <2>1. Head(old) = old[1]
    BY <1>2, <1>3
  <2>2. Place(h, 1) = h
    BY PlaceIs, SerialAssumption DEF Index
  <2> QED  BY <2>1, <2>2, <1>1, <1>4
<1>7. Tail(old) = new
  <2> HIDE DEF old, new
  <2>1. Tail(old) \in Seq(S) /\ Len(Tail(old)) = Len(new)
    BY <1>1, <1>2, <1>3, HeadTailProperties
  <2>2. ASSUME NEW k \in 1 .. Len(Tail(old)) PROVE Tail(old)[k] = new[k]
    <3>1. k \in 1 .. Count(h, t) - 1 /\ k + 1 \in 1 .. Count(h, t)
      BY <1>1, <1>2, <2>1
    <3>2. Tail(old)[k] = old[k + 1]
      BY <1>2, <1>3, HeadTailProperties
    <3> QED  BY <3>1, <3>2, <1>4, <1>5
  <2> QED  BY <2>1, <2>2, <1>2, SeqEqual
<1> QED  BY <1>3, <1>6, <1>7

-----------------------------------------------------------------------------
(* Several bytes at once: the receive interrupt *)

Stored(buffer, t, fifo, n) ==
    [i \in Index |-> IF Count(t, i) < n THEN fifo[Count(t, i) + 1] ELSE buffer[i]]

LEMMA StoredType ==
    ASSUME NEW buffer \in [Index -> Byte \cup {NoByte}], NEW t \in Index,
           NEW fifo \in Seq(Byte), NEW n \in 0 .. Len(fifo)
    PROVE  Stored(buffer, t, fifo, n) \in [Index -> Byte \cup {NoByte}]
<1>1. ASSUME NEW i \in Index, Count(t, i) < n PROVE fifo[Count(t, i) + 1] \in Byte
  <2>1. Count(t, i) \in 0 .. BufferSize - 1
    BY ContentIs
  <2>2. Count(t, i) + 1 \in 1 .. Len(fifo)
    BY <1>1, <2>1
  <2> QED  BY <2>2, ElementOfSeq
<1> QED  BY <1>1 DEF Stored

LEMMA TailStored ==
    ASSUME NEW t \in Index, NEW n \in 0 .. BufferSize - 1
    PROVE  /\ (t + n) % BufferSize = IF t + n < BufferSize THEN t + n ELSE t + n - BufferSize
           /\ (t + n) % BufferSize \in Index
<1>1. CASE t + n < BufferSize
  <2>1. t + n \in 0 .. BufferSize - 1
    BY <1>1, SerialAssumption DEF Index
  <2> QED  BY <1>1, <2>1, ModBelow DEF Index
<1>2. CASE t + n >= BufferSize
  <2>1. t + n \in BufferSize .. 2 * BufferSize - 1
    BY <1>2, SerialAssumption DEF Index
  <2>2. (t + n) % BufferSize = t + n - BufferSize
    BY <2>1, ModAbove, SerialAssumption DEF Index
  <2> QED  BY <1>2, <2>1, <2>2, SerialAssumption DEF Index
<1> QED  BY <1>1, <1>2, SerialAssumption DEF Index

LEMMA ContentStored ==
    ASSUME NEW buffer \in [Index -> Byte \cup {NoByte}], NEW h \in Index, NEW t \in Index,
           NEW fifo \in Seq(Byte), NEW n \in 0 .. Len(fifo),
           Count(h, t) + n <= BufferSize - 1
    PROVE  Content(Stored(buffer, t, fifo, n), h, (t + n) % BufferSize)
             = Content(buffer, h, t) \o SubSeq(fifo, 1, n)
<1> DEFINE S == Byte \cup {NoByte}
           end2 == (t + n) % BufferSize
           new == Stored(buffer, t, fifo, n)
           left == Content(new, h, end2)
           before == Content(buffer, h, t)
           part == SubSeq(fifo, 1, n)
<1>1. PICK c \in 0 .. BufferSize - 1 : c = Count(h, t)
  BY ContentIs
<1>2. c = IF h <= t THEN t - h ELSE t + BufferSize - h
  BY <1>1, CountIs
<1>3. n \in 0 .. BufferSize - 1 /\ c + n <= BufferSize - 1
  BY <1>1, SerialAssumption, LenProperties
<1>4. /\ end2 = IF t + n < BufferSize THEN t + n ELSE t + n - BufferSize
      /\ end2 \in Index
  BY <1>3, TailStored
<1>5. Count(h, end2) = c + n
  <2>1. Count(h, end2) = IF h <= end2 THEN end2 - h ELSE end2 + BufferSize - h
    BY <1>4, CountIs
  <2> HIDE DEF end2
  <2>2. CASE t + n < BufferSize
    <3>1. end2 = t + n
      BY <2>2, <1>4
    <3>2. CASE h <= t
      BY <2>1, <2>2, <3>1, <3>2, <1>2, <1>3, SerialAssumption DEF Index
    <3>3. CASE t < h
      BY <2>1, <2>2, <3>1, <3>3, <1>2, <1>3, SerialAssumption DEF Index
    <3> QED  BY <3>2, <3>3, SerialAssumption DEF Index
  <2>3. CASE ~(t + n < BufferSize)
    <3>1. end2 = t + n - BufferSize
      BY <2>3, <1>4
    <3> QED  BY <2>1, <2>3, <3>1, <1>2, <1>3, SerialAssumption DEF Index
  <2> QED  BY <2>2, <2>3
<1>6. new \in [Index -> S]
  BY StoredType
<1>7. left \in Seq(S) /\ Len(left) = c + n
  BY <1>4, <1>5, <1>6, ContentSeq
<1>8. before \in Seq(S) /\ Len(before) = c
  BY <1>1, ContentSeq
<1>9. part \in Seq(S) /\ Len(part) = n /\ \A k \in 1 .. n : part[k] = fifo[k]
  <2>1. \A k \in 1 .. n : fifo[k] \in S
    BY ElementOfSeq, LenProperties
  <2>2. /\ SubSeq(fifo, 1, n) \in Seq(S)
        /\ Len(SubSeq(fifo, 1, n)) = IF 1 <= n THEN n - 1 + 1 ELSE 0
        /\ \A k \in 1 .. n - 1 + 1 : SubSeq(fifo, 1, n)[k] = fifo[1 + k - 1]
    BY <2>1, SubSeqProperties
  <2> QED  BY <2>2
<1>10. ASSUME NEW k \in 1 .. c + n
       PROVE  left[k] = IF k <= c THEN before[k] ELSE part[k - c]
  <2>1. k \in 1 .. BufferSize
    BY <1>3, SerialAssumption
  <2>2. PICK i \in Index : i = Place(h, k)
    BY <2>1, PlaceIs
  <2>3. i = IF h + k <= BufferSize THEN h + k - 1 ELSE h + k - 1 - BufferSize
    BY <2>1, <2>2, PlaceIs
  <2>4. left = Bytes(new, h, c + n) /\ before = Bytes(buffer, h, c)
    BY <1>1, <1>4, <1>5, ContentIs
  <2>5. left[k] = new[i]
    BY <2>2, <2>4 DEF Bytes
  <2>6. new[i] = IF Count(t, i) < n THEN fifo[Count(t, i) + 1] ELSE buffer[i]
    BY DEF Stored
  <2>7. Count(t, i) = IF t <= i THEN i - t ELSE i + BufferSize - t
    BY CountIs
  <2>8. CASE k <= c
    <3>1. ~(Count(t, i) < n)
      BY <2>3, <2>7, <2>8, <1>2, <1>3, SerialAssumption DEF Index
    <3>2. before[k] = buffer[i]
      BY <2>2, <2>4, <2>8 DEF Bytes
    <3> QED  BY <3>1, <3>2, <2>5, <2>6, <2>8
  <2>9. CASE k > c
    <3>1. Count(t, i) = k - c - 1 /\ k - c \in 1 .. n
      BY <2>3, <2>7, <2>9, <1>2, <1>3, SerialAssumption DEF Index
    <3>2. new[i] = fifo[k - c]
      BY <3>1, <2>6
    <3> QED  BY <3>1, <3>2, <2>5, <2>9, <1>9
  <2> QED  BY <2>8, <2>9
<1> HIDE DEF left, before, part, S
<1>11. /\ before \o part \in Seq(S) /\ Len(before \o part) = c + n
       /\ \A k \in 1 .. c + n : (before \o part)[k] = IF k <= c THEN before[k] ELSE part[k - c]
  BY <1>8, <1>9, ConcatProperties
<1>12. \A k \in 1 .. Len(left) : left[k] = (before \o part)[k]
  BY <1>7, <1>10, <1>11
<1>13. left = before \o part
  BY <1>7, <1>11, <1>12, SeqEqual
<1> QED  BY <1>13 DEF left, before, part

\* The handler stores as many bytes as find room, and all of them if readHead
\* is out of range.
LEMMA StoredNowIs ==
    ASSUME readHead \in 0 .. BufferSize, readTail \in Index, rxFifo \in Seq(Byte)
    PROVE  /\ storedNow \in 0 .. Len(rxFifo)
           /\ readHead = BufferSize => storedNow = Len(rxFifo)
           /\ readHead \in Index =>
                 /\ Count(readHead, readTail) + storedNow <= BufferSize - 1
                 /\ storedNow < Len(rxFifo)
                      => Count(readHead, readTail) + storedNow = BufferSize - 1
<1> DEFINE L == Len(rxFifo)
           Good(n) == room(n) /\ \A k \in n + 1 .. L : ~room(k)
<1>1. L \in Nat
  BY LenProperties
<1>2. CASE readHead = BufferSize
  <2>1. ASSUME NEW n \in Nat PROVE room(n)
    <3>1. ASSUME NEW j \in 0 .. n - 1 PROVE (readTail + j + 1) % BufferSize # readHead
      BY <1>2, SerialAssumption DEF Index
    <3> QED  BY <3>1 DEF room
  <2>2. Good(L)
    BY <1>1, <2>1
  <2>3. storedNow \in 0 .. L /\ Good(storedNow)
    BY <1>1, <2>2 DEF storedNow
  <2>4. storedNow = L
    BY <1>1, <2>1, <2>3
  <2> QED  BY <1>2, <2>4, <1>1, SerialAssumption DEF Index
<1>3. CASE readHead \in Index
  <2>1. PICK c \in 0 .. BufferSize - 1 : c = Count(readHead, readTail)
    BY <1>3, ContentIs
  <2>2. c = IF readHead <= readTail THEN readTail - readHead ELSE readTail + BufferSize - readHead
    BY <2>1, <1>3, CountIs
  <2> DEFINE free == BufferSize - 1 - c
  <2>3. free \in Nat
    BY <2>1, SerialAssumption
  <2>4. ASSUME NEW j \in 0 .. free
        PROVE  (readTail + j + 1) % BufferSize = readHead <=> j = free
    <3>1. (readTail + (j + 1)) % BufferSize =
            IF readTail + (j + 1) < BufferSize THEN readTail + (j + 1)
            ELSE readTail + (j + 1) - BufferSize
      <4>1. CASE j + 1 \in 0 .. BufferSize - 1
        BY <4>1, TailStored
      <4>2. CASE j + 1 = BufferSize
        <5>1. readTail + (j + 1) \in BufferSize .. 2 * BufferSize - 1
          BY <4>2, SerialAssumption DEF Index
        <5> QED  BY <5>1, ModAbove, SerialAssumption DEF Index
      <4> QED  BY <4>1, <4>2, <2>1, <2>3, SerialAssumption
    <3>2. readTail + j + 1 = readTail + (j + 1)
      BY SerialAssumption DEF Index
    <3>3. CASE readTail + (j + 1) < BufferSize
      BY <3>1, <3>2, <3>3, <2>2, <1>3, SerialAssumption DEF Index
    <3>4. CASE ~(readTail + (j + 1) < BufferSize)
      BY <3>1, <3>2, <3>4, <2>2, <1>3, SerialAssumption DEF Index
    <3> QED  BY <3>3, <3>4
  <2> HIDE DEF free
  <2>5. ASSUME NEW n \in Nat PROVE room(n) <=> n <= free
    <3>1. ASSUME n <= free PROVE room(n)
      <4>1. ASSUME NEW j \in 0 .. n - 1 PROVE (readTail + j + 1) % BufferSize # readHead
        <5>1. j \in 0 .. free /\ j # free
          BY <3>1, <2>3
        <5> QED  BY <5>1, <2>4
      <4> QED  BY <4>1 DEF room
    <3>2. ASSUME ~(n <= free) PROVE ~room(n)
      <4>1. free \in 0 .. n - 1 /\ free \in 0 .. free
        BY <3>2, <2>3
      <4>2. (readTail + free + 1) % BufferSize = readHead
        BY <4>1, <2>4
      <4> QED  BY <4>1, <4>2 DEF room
    <3> QED  BY <3>1, <3>2
  <2>6. \E n \in 0 .. L : Good(n)
    <3>1. CASE L <= free
      <4>1. room(L)
        BY <1>1, <2>5, <3>1
      <4> QED  BY <1>1, <4>1
    <3>2. CASE ~(L <= free)
      <4>1. room(free) /\ free \in 0 .. L
        BY <1>1, <2>3, <2>5, <3>2
      <4>2. ASSUME NEW k \in free + 1 .. L PROVE ~room(k)
        BY <2>3, <2>5, <1>1
      <4> QED  BY <4>1, <4>2
    <3> QED  BY <3>1, <3>2
  <2>7. storedNow \in 0 .. L /\ Good(storedNow)
    BY <2>6 DEF storedNow
  <2>8. storedNow <= free
    BY <2>5, <2>7
  <2>9. ASSUME storedNow < L PROVE storedNow = free
    <3>1. storedNow + 1 \in storedNow + 1 .. L /\ storedNow + 1 \in Nat
      BY <2>7, <2>9, <1>1
    <3>2. ~(storedNow + 1 <= free)
      BY <3>1, <2>5, <2>7
    <3> QED  BY <3>1, <3>2, <2>3, <2>7, <2>8
  <2>10. /\ Count(readHead, readTail) + storedNow <= BufferSize - 1
         /\ storedNow < L => Count(readHead, readTail) + storedNow = BufferSize - 1
    BY <2>1, <2>3, <2>7, <2>8, <2>9, SerialAssumption DEF free
  <2> QED  BY <2>7, <2>10, <1>3, SerialAssumption DEF Index
<1> QED  BY <1>2, <1>3, SerialAssumption DEF Index

LEMMA RxHandlerStores ==
    ASSUME readHead \in 0 .. BufferSize, readTail \in Index, rxFifo \in Seq(Byte), RxHandler
    PROVE  /\ readBuffer' = Stored(readBuffer, readTail, rxFifo, storedNow)
           /\ readTail' = (readTail + storedNow) % BufferSize
           /\ readHead' = readHead /\ rxFifo' = <<>>
<1>1. ASSUME NEW i \in Index PROVE (i + BufferSize - readTail) % BufferSize = Count(readTail, i)
  <2>1. readTail % BufferSize = readTail
    BY ModBelow DEF Index
  <2> QED  BY <2>1 DEF Count
<1>2. readBuffer' = Stored(readBuffer, readTail, rxFifo, storedNow)
  BY <1>1 DEF RxHandler, Stored
<1> QED  BY <1>2 DEF RxHandler

\* Where the next byte will be stored is not part of the content.
LEMMA ContentElsewhere ==
    ASSUME NEW buffer \in [Index -> Byte \cup {NoByte}], NEW h \in Index, NEW t \in Index,
           NEW b
    PROVE  Content([buffer EXCEPT ![t] = b], h, t) = Content(buffer, h, t)
<1> DEFINE other == [buffer EXCEPT ![t] = b]
<1>1. PICK c \in 0 .. BufferSize - 1 : c = Count(h, t)
  BY ContentIs
<1>2. c = IF h <= t THEN t - h ELSE t + BufferSize - h
  BY <1>1, CountIs
<1>3. ASSUME NEW k \in 1 .. c PROVE other[Place(h, k)] = buffer[Place(h, k)]
  <2>1. k \in 1 .. BufferSize
    BY <1>1, SerialAssumption
  <2>2. PICK i \in Index : i = Place(h, k)
    BY <2>1, PlaceIs
  <2>3. i = IF h + k <= BufferSize THEN h + k - 1 ELSE h + k - 1 - BufferSize
    BY <2>1, <2>2, PlaceIs
  <2>4. i # t
    BY <2>3, <1>2, SerialAssumption DEF Index
  <2> QED  BY <2>2, <2>4
<1>4. Bytes(other, h, c) = Bytes(buffer, h, c)
  BY <1>3 DEF Bytes
<1> QED  BY <1>1, <1>4, ContentIs

-----------------------------------------------------------------------------
(* Sequences *)

Cell == Byte \cup {NoByte}

LEMMA TakeFirst ==
    ASSUME NEW s \in Seq(Cell), NEW e \in Cell
    PROVE  <<e>> \o s # <<>> /\ Head(<<e>> \o s) = e /\ Tail(<<e>> \o s) = s
<1> DEFINE all == <<e>> \o s
<1>1. /\ all \in Seq(Cell) /\ Len(all) = 1 + Len(s)
      /\ \A i \in 1 .. 1 + Len(s) : all[i] = IF i <= 1 THEN e ELSE s[i - 1]
  <2>1. <<e>> \in Seq(Cell) /\ Len(<<e>>) = 1 /\ <<e>>[1] = e
    OBVIOUS
  <2>2. /\ <<e>> \o s \in Seq(Cell) /\ Len(<<e>> \o s) = Len(<<e>>) + Len(s)
        /\ \A i \in 1 .. Len(<<e>>) + Len(s) : (<<e>> \o s)[i] =
               IF i <= Len(<<e>>) THEN <<e>>[i] ELSE s[i - Len(<<e>>)]
    BY <2>1, ConcatProperties
  <2>3. ASSUME NEW i \in 1 .. 1 + Len(s), i <= 1 PROVE <<e>>[i] = e
    BY <2>3, LenProperties
  <2> QED  BY <2>1, <2>2, <2>3
<1>2. Len(s) \in Nat
  BY LenProperties
<1> HIDE DEF all
<1>3. all # <<>> /\ Head(all) = e
  BY <1>1, <1>2
<1>4. /\ Tail(all) \in Seq(Cell) /\ Len(Tail(all)) = Len(s)
      /\ \A i \in 1 .. Len(s) : Tail(all)[i] = all[i + 1]
  BY <1>1, <1>2, <1>3, HeadTailProperties
<1>5. ASSUME NEW i \in 1 .. Len(s) PROVE Tail(all)[i] = s[i]
  BY <1>1, <1>2, <1>4
<1>6. Tail(all) = s
  BY <1>4, <1>5, SeqEqual
<1> QED  BY <1>3, <1>6 DEF all

LEMMA AppendBehind ==
    ASSUME NEW s \in Seq(Cell), NEW r \in Seq(Cell), NEW e \in Cell
    PROVE  s \o Append(r, e) = Append(s \o r, e)
<1>1. Append(r, e) = r \o <<e>> /\ <<e>> \in Seq(Cell)
  BY AppendIsConcat
<1>2. s \o r \in Seq(Cell)
  BY ConcatProperties
<1>3. Append(s \o r, e) = (s \o r) \o <<e>>
  BY <1>2, AppendIsConcat
<1> QED  BY <1>1, <1>3, ConcatAssociative

LEMMA EmptyBehind ==
    ASSUME NEW s \in Seq(Cell)
    PROVE  s \o <<>> = s /\ <<>> \o s = s
BY ConcatEmptySeq

LEMMA HeadAndTail ==
    ASSUME NEW s \in Seq(Cell), s # <<>>
    PROVE  s = <<Head(s)>> \o Tail(s) /\ Head(s) \in Cell /\ Tail(s) \in Seq(Cell)
<1>1. Head(s) \in Cell /\ Tail(s) \in Seq(Cell)
  BY HeadTailProperties
<1>2. <<Head(s)>> \o Tail(s) # <<>> /\ Head(<<Head(s)>> \o Tail(s)) = Head(s)
      /\ Tail(<<Head(s)>> \o Tail(s)) = Tail(s)
  BY <1>1, TakeFirst
<1>3. <<Head(s)>> \in Seq(Cell) /\ Len(<<Head(s)>>) = 1
  BY <1>1
<1> DEFINE r == <<Head(s)>> \o Tail(s)
<1>4. r \in Seq(Cell) /\ Len(r) = Len(s)
  BY <1>1, <1>3, ConcatProperties, HeadTailProperties
<1>5. ASSUME NEW k \in 1 .. Len(s) PROVE r[k] = s[k]
  <2>1. CASE k = 1
    BY <2>1, <1>1, <1>3, ConcatProperties, HeadTailProperties
  <2>2. CASE k # 1
    <3>1. k - 1 \in 1 .. Len(Tail(s)) /\ (k - 1) + 1 = k
      BY <2>2, HeadTailProperties
    <3>2. Tail(s)[k - 1] = s[k]
      BY <3>1, HeadTailProperties
    <3>3. r[k] = Tail(s)[k - 1]
      BY <1>1, <1>3, <1>4, <2>2, ConcatProperties
    <3> QED  BY <3>2, <3>3
  <2> QED  BY <2>1, <2>2
<1>6. s = r
  BY <1>4, <1>5, SeqEqual
<1> QED  BY <1>1, <1>6

-----------------------------------------------------------------------------
(* The inductive invariant: what the main program has found out before an  *)
(* interrupt stays true behind it.                                         *)

WriteInv ==
    /\ writeHead \in Index /\ writeTail \in Index
    /\ writeBuffer \in [Index -> Cell]
    /\ Content(writeBuffer, writeHead, writeTail) \in Seq(Byte)
    /\ thr \in Cell /\ shift \in Cell /\ ch \in Cell
    /\ pc \in {"writeThre", "writeDirect"} => writeHead = writeTail
    /\ pc = "writeDirect" => thr = NoByte
    /\ pc \in {"writeThre", "writeDirect", "writeSpace", "writeStore", "writeTail"} => ch \in Byte
    /\ pc \in {"writeStore", "writeTail"} => HasSpace
    /\ pc = "writeTail" => writeBuffer[writeTail] = ch

ReadInv ==
    /\ readHead \in 0 .. BufferSize /\ readTail \in Index
    /\ readBuffer \in [Index -> Cell]
    /\ rxFifo \in Seq(Byte) /\ Len(rxFifo) <= FifoSize
    /\ inWindow \in 0 .. MaxInWindow
    /\ readHead = BufferSize => pc = "readMask" /\ readTail <= BufferSize - 2 + inWindow
    /\ pc # "readMask" => inWindow = 0
    /\ pc = "readAdvance" => readHead # readTail /\ ch = readBuffer[readHead]

OpenInv ==
    /\ enabled \in BOOLEAN /\ ieThre \in BOOLEAN /\ full \in BOOLEAN
    /\ pc \in {"idle", "writeThre", "writeDirect", "writeSpace", "writeStore", "writeTail",
               "writeEnable", "readAdvance", "readMask", "readPoll", "flush", "end"}
    /\ ~enabled => pc = "idle" /\ thr = NoByte /\ shift = NoByte /\ writeHead = writeTail

SerialInv == WriteInv /\ ReadInv /\ OpenInv

\* What the port stands for in the specification of the service.
Pending == One(shift) \o One(thr) \o Content(writeBuffer, writeHead, writeTail)
Arrived == IF enabled THEN Content(readBuffer, readHead, readTail) \o rxFifo ELSE <<>>

Quiet == UNCHANGED <<Pending, line, Arrived, given>>

LEMMA OneIs ==
    /\ One(NoByte) = <<>>
    /\ \A b \in Byte : One(b) = <<b>>
    /\ \A b \in Cell : One(b) \in Seq(Cell)
<1>1. NoByte \notin Byte
  BY SerialAssumption
<1>2. \A b \in Cell : <<b>> \in Seq(Cell)
  OBVIOUS
<1>3. <<>> \in Seq(Cell)
  BY EmptySeq
<1> QED  BY <1>1, <1>2, <1>3 DEF One, Cell

LEMMA ByteSeqIsCellSeq ==
    ASSUME NEW s \in Seq(Byte)
    PROVE  s \in Seq(Cell)
BY DEF Cell

-----------------------------------------------------------------------------
(* The steps of the interrupt *)

\* The handler runs in the middle of what the program does, or read() calls it.
Returns == pc' = pc \/ (pc = "readPoll" /\ pc' = "idle")

LEMMA TxHandlerQuiet ==
    ASSUME WriteInv, TxHandler, UNCHANGED <<ch, shift>>, Returns
    PROVE  WriteInv' /\ UNCHANGED <<Pending, writeTail>>
<1>1. CASE ~THRE
  <2>1. UNCHANGED <<writeHead, writeTail, writeBuffer, thr>>
    BY <1>1 DEF TxHandler, txVars
  <2> QED  BY <2>1 DEF WriteInv, HasSpace, Pending, Returns
<1>2. CASE THRE /\ writeHead = writeTail
  <2>1. UNCHANGED <<writeHead, writeTail, writeBuffer, thr>>
    BY <1>2 DEF TxHandler, txVars
  <2> QED  BY <2>1 DEF WriteInv, HasSpace, Pending, Returns
<1>3. CASE THRE /\ writeHead # writeTail
  <2> DEFINE C == Content(writeBuffer, writeHead, writeTail)
             D == Content(writeBuffer, Next1(writeHead), writeTail)
  <2>0. /\ writeHead \in Index /\ writeTail \in Index /\ writeBuffer \in [Index -> Byte \cup {NoByte}]
        /\ C \in Seq(Byte) /\ shift \in Cell
    BY DEF WriteInv, Cell
  <2>1. /\ thr = NoByte /\ thr' = writeBuffer[writeHead] /\ writeHead' = Next1(writeHead)
        /\ UNCHANGED <<writeTail, writeBuffer>>
    BY <1>3 DEF TxHandler, THRE
  <2>2. C # <<>> /\ Head(C) = writeBuffer[writeHead] /\ Tail(C) = D
    BY <1>3, <2>0, ContentTaken
  <2>3. Head(C) \in Byte /\ Tail(C) \in Seq(Byte)
    BY <2>0, <2>2, HeadTailProperties
  <2>4. D \in Seq(Byte) /\ thr' \in Byte
    BY <2>1, <2>2, <2>3
  <2>5. Next1(writeHead) \in Index
    BY <2>0, NextIs
  <2>6. Pending' = Pending
    <3>1. C = <<thr'>> \o D /\ C \in Seq(Cell) /\ D \in Seq(Cell)
      BY <2>0, <2>1, <2>2, <2>4, HeadAndTail, ByteSeqIsCellSeq
    <3>2. One(thr) = <<>> /\ One(thr') = <<thr'>> /\ One(shift) \in Seq(Cell) /\ <<thr'>> \in Seq(Cell)
      BY <2>0, <2>1, <2>4, OneIs DEF Cell
    <3> HIDE DEF C, D
    <3>3. One(shift) \o One(thr) \o C = One(shift) \o (<<thr'>> \o D)
      BY <3>1, <3>2, EmptyBehind
    <3>4. (One(shift) \o <<thr'>>) \o D = One(shift) \o (<<thr'>> \o D)
      BY <3>1, <3>2, ConcatAssociative
    <3>5. Pending = One(shift) \o One(thr) \o C
      BY DEF Pending, C
    <3>6. Pending' = (One(shift) \o One(thr')) \o D
      BY <2>1 DEF Pending, D
    <3> QED  BY <3>2, <3>3, <3>4, <3>5, <3>6
  <2>7. HasSpace => HasSpace'
    <3>1. Next1(writeHead) # Next1(writeTail)
      <4>1. /\ Next1(writeHead) = IF writeHead = BufferSize - 1 THEN 0 ELSE writeHead + 1
            /\ Next1(writeTail) = IF writeTail = BufferSize - 1 THEN 0 ELSE writeTail + 1
        BY <2>0, NextIs
      <4>2. writeHead \in 0 .. BufferSize - 1 /\ writeTail \in 0 .. BufferSize - 1
        BY <2>0 DEF Index
      <4> QED  BY <1>3, <4>1, <4>2, SerialAssumption
    <3> QED  BY <3>1, <2>1 DEF HasSpace
  <2>8. pc \notin {"writeThre", "writeDirect"}
    BY <1>3 DEF WriteInv
  <2>9. WriteInv'
    BY <2>0, <2>1, <2>4, <2>5, <2>7, <2>8 DEF WriteInv, Cell, Returns
  <2> QED  BY <2>1, <2>6, <2>9
<1> QED  BY <1>1, <1>2, <1>3

\* What the handler has put into the buffer is behind what was there, and what
\* found no room is the newest.
LEMMA RxHandlerQuiet ==
    ASSUME ReadInv, enabled, enabled', RxHandler, UNCHANGED <<ch, given, line>>,
           Returns, Pending' = Pending, MaxInWindow \in {0, 1},
           IF readHead = BufferSize
           THEN inWindow + storedNow <= MaxInWindow /\ inWindow' = inWindow + storedNow
           ELSE UNCHANGED inWindow
    PROVE  ReadInv' /\ [Port!Lose]_<<Pending, line, Arrived, given>>
<1> DEFINE n == storedNow
           B == Content(readBuffer, readHead, readTail)
           C == Content(readBuffer', readHead', readTail')
           part == SubSeq(rxFifo, 1, n)
<1>0. /\ readHead \in 0 .. BufferSize /\ readTail \in Index
      /\ readBuffer \in [Index -> Byte \cup {NoByte}] /\ rxFifo \in Seq(Byte)
  BY DEF ReadInv, Cell
<1>1. /\ readBuffer' = Stored(readBuffer, readTail, rxFifo, n)
      /\ readTail' = (readTail + n) % BufferSize
      /\ readHead' = readHead /\ rxFifo' = <<>>
  BY <1>0, RxHandlerStores
<1>2. /\ n \in 0 .. Len(rxFifo)
      /\ readHead = BufferSize => n = Len(rxFifo)
      /\ readHead \in Index =>
            /\ Count(readHead, readTail) + n <= BufferSize - 1
            /\ n < Len(rxFifo) => Count(readHead, readTail) + n = BufferSize - 1
  BY <1>0, StoredNowIs
<1>3. readBuffer' \in [Index -> Byte \cup {NoByte}]
  <2> HIDE DEF n
  <2> QED  BY <1>0, <1>1, <1>2, StoredType
<1>4. part \in Seq(Byte) /\ Len(part) = n /\ Len(rxFifo) \in Nat
  <2>1. \A k \in 1 .. n : rxFifo[k] \in Byte
    BY <1>0, <1>2, ElementOfSeq, LenProperties
  <2>2. Len(rxFifo) \in Nat
    BY <1>0, LenProperties
  <2> HIDE DEF n
  <2>3. /\ SubSeq(rxFifo, 1, n) \in Seq(Byte)
        /\ Len(SubSeq(rxFifo, 1, n)) = IF 1 <= n THEN n - 1 + 1 ELSE 0
    BY <2>1, <1>2, <2>2, SubSeqProperties
  <2> QED  BY <2>2, <2>3, <1>2
<1>5. /\ readTail' \in Index /\ C = B \o part /\ B \in Seq(Cell)
      /\ readHead \in Index => Len(B) = Count(readHead, readTail)
  <2> HIDE DEF n
  <2>1. CASE readHead \in Index
    <3>1. C = B \o part
      BY <2>1, <1>0, <1>1, <1>2, ContentStored
    <3>2. n \in 0 .. BufferSize - 1
      <4>1. Count(readHead, readTail) \in 0 .. BufferSize - 1
        BY <2>1, <1>0, ContentIs
      <4>2. Count(readHead, readTail) + n <= BufferSize - 1 /\ n \in Nat
        BY <2>1, <1>2, <1>4
      <4> QED  BY <4>1, <4>2, SerialAssumption
    <3>3. readTail' \in Index
      BY <3>2, <1>0, <1>1, TailStored
    <3> QED  BY <2>1, <3>1, <3>3, <1>0, ContentSeq DEF Cell
  <2>2. CASE readHead = BufferSize
    <3>1. 0 \in Index /\ readTail <= BufferSize - 2 + inWindow /\ inWindow \in 0 .. MaxInWindow
      BY <2>2, SerialAssumption DEF ReadInv, Index
    <3>2. readTail + n <= BufferSize - 1 /\ n \in 0 .. BufferSize - 1
      BY <2>2, <3>1, <1>0, <1>2, <1>4, SerialAssumption DEF Index, n
    <3>3. readTail' \in Index
      BY <3>2, <1>0, <1>1, TailStored
    <3>4. Count(0, readTail) = readTail
      BY <3>1, <1>0, CountIs, SerialAssumption DEF Index
    <3>5. Content(readBuffer', 0, readTail') = Content(readBuffer, 0, readTail) \o part
      BY <3>1, <3>2, <3>4, <1>0, <1>1, <1>2, ContentStored
    <3>6. B = Content(readBuffer, 0, readTail) /\ C = Content(readBuffer', 0, readTail')
      BY <2>2, <3>3, <1>0, <1>1, ContentMasked
    <3>7. B \in Seq(Cell)
      BY <3>1, <3>6, <1>0, ContentSeq DEF Cell
    <3>8. readHead \notin Index
      BY <2>2, SerialAssumption DEF Index
    <3> QED  BY <3>3, <3>5, <3>6, <3>7, <3>8
  <2>3. readHead \in Index \/ readHead = BufferSize
    BY <1>0, SerialAssumption DEF Index
  <2> QED  BY <2>1, <2>2, <2>3
<1>6. Arrived = B \o rxFifo /\ Arrived' = B \o part
  <2>1. Arrived' = C \o <<>>
    BY <1>1 DEF Arrived
  <2>0. part \in Seq(Cell)
    BY <1>4, ByteSeqIsCellSeq
  <2> HIDE DEF C, B, part
  <2>2. B \o part \in Seq(Cell)
    BY <2>0, <1>5, ConcatProperties
  <2>4. C = B \o part
    BY <1>5
  <2>5. C \o <<>> = C
    BY <2>2, <2>4, EmptyBehind
  <2>3. Arrived' = B \o part
    BY <2>1, <2>4, <2>5
  <2> QED  BY <2>3 DEF Arrived, B
<1>7. readHead = BufferSize => pc' = "readMask" /\ readTail' <= BufferSize - 2 + inWindow'
  <2> SUFFICES ASSUME readHead = BufferSize
               PROVE  pc' = "readMask" /\ readTail' <= BufferSize - 2 + inWindow'
    OBVIOUS
  <2>1. /\ readTail <= BufferSize - 2 + inWindow /\ inWindow \in 0 .. MaxInWindow
        /\ inWindow' = inWindow + n /\ inWindow + n <= MaxInWindow /\ pc = "readMask"
    BY DEF ReadInv
  <2> HIDE DEF n
  <2>2. n \in Nat /\ n \in 0 .. BufferSize - 1 /\ readTail + n < BufferSize
    BY <2>1, <1>0, <1>2, <1>4, SerialAssumption DEF Index
  <2>3. readTail' = readTail + n
    BY <2>2, <1>0, <1>1, TailStored
  <2>4. readTail \in 0 .. BufferSize - 1
    BY <1>0 DEF Index
  <2>5. readTail' <= BufferSize - 2 + inWindow'
    BY <2>1, <2>2, <2>3, <2>4, SerialAssumption
  <2>6. pc' = "readMask"
    BY <2>1 DEF Returns
  <2> QED  BY <2>5, <2>6
<1>8. pc = "readAdvance" => readHead' # readTail' /\ ch' = readBuffer'[readHead']
  <2> SUFFICES ASSUME pc = "readAdvance"
               PROVE  readHead' # readTail' /\ ch' = readBuffer'[readHead']
    OBVIOUS
  <2>1. readHead # readTail /\ ch = readBuffer[readHead] /\ readHead # BufferSize
    BY DEF ReadInv
  <2>2. readHead \in Index
    BY <2>1, <1>0, SerialAssumption DEF Index
  <2> HIDE DEF n
  <2>3. Count(readHead, readTail) \in 1 .. BufferSize - 1
        /\ Count(readTail, readHead) = BufferSize - Count(readHead, readTail)
    <3>1. Count(readHead, readTail) = IF readHead <= readTail THEN readTail - readHead
                                      ELSE readTail + BufferSize - readHead
      BY <2>2, <1>0, CountIs
    <3>2. Count(readTail, readHead) = IF readTail <= readHead THEN readHead - readTail
                                      ELSE readHead + BufferSize - readTail
      BY <2>2, <1>0, CountIs
    <3> QED  BY <3>1, <3>2, <2>1, <2>2, <1>0, SerialAssumption DEF Index
  <2>4. ~(Count(readTail, readHead) < n)
    BY <2>2, <2>3, <1>2, <1>4, SerialAssumption
  <2>5. readBuffer'[readHead] = readBuffer[readHead]
    BY <2>2, <2>4, <1>1 DEF Stored
  <2>6. Count(readHead, readTail') # 0
    <3>1. part \in Seq(Cell)
      BY <1>4, ByteSeqIsCellSeq
    <3>2. C = Content(readBuffer', readHead, readTail')
      BY <1>1
    <3>3. Len(C) = Count(readHead, readTail')
      BY <3>2, <2>2, <1>3, <1>5, ContentSeq
    <3> HIDE DEF B, C, part
    <3>4. Len(B \o part) = Len(B) + Len(part)
      BY <3>1, <1>5, ConcatProperties
    <3>6. Len(B) = Count(readHead, readTail) /\ Len(part) = n /\ n \in Nat /\ C = B \o part
      BY <2>2, <1>2, <1>4, <1>5
    <3>5. Len(C) = Count(readHead, readTail) + n /\ n \in Nat
      BY <3>4, <3>6
    <3> QED  BY <3>3, <3>5, <2>3, SerialAssumption
  <2>7. readHead # readTail'
    BY <2>2, <2>6, <1>5, CountIs, SerialAssumption DEF Index
  <2> QED  BY <2>1, <2>5, <2>7, <1>1
<1>9. inWindow' \in 0 .. MaxInWindow /\ (pc # "readMask" => inWindow' = 0)
  <2>1. CASE readHead = BufferSize
    <3>1. inWindow \in 0 .. MaxInWindow /\ pc = "readMask"
      BY <2>1 DEF ReadInv
    <3> QED  BY <2>1, <3>1, <1>2, <1>4
  <2>2. CASE readHead # BufferSize
    BY <2>2 DEF ReadInv
  <2> QED  BY <2>1, <2>2
<1>10. ReadInv'
  <2>1. /\ readHead' \in 0 .. BufferSize
        /\ readBuffer' \in [Index -> Cell]
        /\ rxFifo' \in Seq(Byte) /\ Len(rxFifo') <= FifoSize
    BY <1>0, <1>1, <1>3, SerialAssumption DEF Cell
  <2>2. /\ readTail' \in Index
        /\ readHead' = BufferSize => pc' = "readMask" /\ readTail' <= BufferSize - 2 + inWindow'
        /\ inWindow' \in 0 .. MaxInWindow /\ (pc' # "readMask" => inWindow' = 0)
        /\ pc' = "readAdvance" => readHead' # readTail' /\ ch' = readBuffer'[readHead']
    BY <1>1, <1>5, <1>7, <1>8, <1>9 DEF Returns
  <2> QED  BY <2>1, <2>2 DEF ReadInv
<1>11. [Port!Lose]_<<Pending, line, Arrived, given>>
  <2>0. rxFifo \in Seq(Cell) /\ part \in Seq(Cell)
    BY <1>0, <1>4, ByteSeqIsCellSeq
  <2>1. CASE n = Len(rxFifo)
    <3>1. part = rxFifo
      BY <2>1, <1>0, SubSeqFull
    <3> QED  BY <3>1, <1>6
  <2>2. CASE n < Len(rxFifo)
    <3>1. readHead \in Index /\ Len(B) + n = BufferSize - 1 /\ Len(B) \in Nat
      <4>1. readHead \in Index
        <5>1. readHead # BufferSize
          BY <2>2, <1>2, <1>4
        <5> QED  BY <5>1, <1>0, SerialAssumption DEF Index
      <4>3. Len(B) = Count(readHead, readTail)
        BY <4>1, <1>5
      <4>4. Len(B) \in Nat
        BY <1>5, LenProperties
      <4> QED  BY <2>2, <4>1, <4>3, <4>4, <1>2
    <3>2. Len(Arrived) = Len(B) + Len(rxFifo)
      <4> HIDE DEF B
      <4> QED  BY <2>0, <1>5, <1>6, ConcatProperties
    <3>3. SubSeq(B \o rxFifo, 1, BufferSize - 1) = B \o part
      <4> HIDE DEF B, n
      <4>1. BufferSize - 1 = Len(B) + n /\ n \in 0 .. Len(rxFifo)
        BY <3>1, <1>2, SerialAssumption
      <4>2. BufferSize - 1 \in Len(B) + 0 .. Len(B) + Len(rxFifo)
        BY <4>1, <1>4, <3>1
      <4> QED  BY <4>1, <4>2, <2>0, <1>5, <3>1
    <3>4. BufferSize - 1 \in BufferSize - 1 .. Len(Arrived) - 1
      <4>1. n \in 0 .. Len(rxFifo) /\ Len(rxFifo) \in Nat
        BY <1>2, <1>4
      <4> HIDE DEF n, B
      <4> QED  BY <2>2, <3>1, <3>2, <4>1, SerialAssumption
    <3>5. Arrived' = SubSeq(Arrived, 1, BufferSize - 1)
      BY <3>3, <1>6
    <3> HIDE DEF n, B, C, part
    <3> QED  BY <3>4, <3>5 DEF Port!Lose, Pending, Arrived
  <2>3. n = Len(rxFifo) \/ n < Len(rxFifo)
    BY <1>0, <1>2, <1>4
  <2> QED  BY <2>1, <2>2, <2>3
<1> QED  BY <1>10, <1>11

-----------------------------------------------------------------------------
(* The steps of the main program and of the UART *)

WritePcs == {"writeThre", "writeDirect", "writeSpace", "writeStore", "writeTail"}
PortVars == <<Pending, line, Arrived, given>>

LEMMA ReadSideKept ==
    ASSUME ReadInv, UNCHANGED <<rxVars, rxFifo, inWindow, enabled>>,
           pc # "readMask", pc' # "readAdvance"
    PROVE  ReadInv' /\ Arrived' = Arrived
<1>1. UNCHANGED <<readHead, readTail, readBuffer, rxFifo, inWindow, enabled>>
  BY DEF rxVars
<1>2. readHead # BufferSize /\ inWindow = 0
  BY DEF ReadInv
<1>3. ReadInv'
  BY <1>1, <1>2 DEF ReadInv
<1> QED  BY <1>1, <1>3 DEF Arrived

LEMMA WriteSideKept ==
    ASSUME WriteInv, UNCHANGED <<txVars, thr, shift>>, ch' \in Cell, pc' \notin WritePcs
    PROVE  WriteInv' /\ Pending' = Pending
<1>1. UNCHANGED <<writeHead, writeTail, writeBuffer, thr, shift>>
  BY DEF txVars
<1> QED  BY <1>1 DEF WriteInv, WritePcs, Pending

\* The steps of write() that the user of the port does not see.
LEMMA WriteQuiet ==
    ASSUME SerialInv,
           Write \/ writeThre \/ writeSpace \/ writeStore \/ writeEnable
    PROVE  SerialInv' /\ UNCHANGED PortVars
<1>0. /\ writeHead \in Index /\ writeTail \in Index
      /\ writeBuffer \in [Index -> Byte \cup {NoByte}]
  BY DEF SerialInv, WriteInv, Cell
<1>1. CASE Write
  <2>1. /\ UNCHANGED <<writeHead, writeTail, writeBuffer, thr, shift>>
        /\ UNCHANGED <<rxVars, rxFifo, inWindow, enabled>> /\ UNCHANGED <<ieThre, full, line, given>>
        /\ pc = "idle" /\ enabled /\ ch' \in Byte
        /\ pc' = IF writeHead = writeTail THEN "writeThre" ELSE "writeSpace"
    BY <1>1 DEF Write, txVars, uartVars, outVars, nothingBuffered
  <2>2. WriteInv' /\ Pending' = Pending
    BY <2>1 DEF SerialInv, WriteInv, Pending, Cell
  <2>3. ReadInv' /\ Arrived' = Arrived
    BY <2>1, ReadSideKept DEF SerialInv
  <2>4. OpenInv'
    BY <2>1 DEF SerialInv, OpenInv
  <2> QED  BY <2>1, <2>2, <2>3, <2>4 DEF SerialInv, PortVars
<1>2. CASE writeThre
  <2>1. /\ UNCHANGED <<writeHead, writeTail, writeBuffer, thr, shift>>
        /\ UNCHANGED <<rxVars, rxFifo, inWindow, enabled>> /\ UNCHANGED <<ieThre, full, ch, line, given>>
        /\ pc = "writeThre"
        /\ pc' = IF thr = NoByte THEN "writeDirect" ELSE "writeSpace"
    BY <1>2 DEF writeThre, txVars, uartVars, outVars, THRE
  <2>2. WriteInv' /\ Pending' = Pending
    BY <2>1 DEF SerialInv, WriteInv, Pending
  <2>3. ReadInv' /\ Arrived' = Arrived
    BY <2>1, ReadSideKept DEF SerialInv
  <2>4. OpenInv'
    BY <2>1 DEF SerialInv, OpenInv
  <2> QED  BY <2>1, <2>2, <2>3, <2>4 DEF SerialInv, PortVars
<1>3. CASE writeSpace
  <2>1. /\ UNCHANGED <<writeHead, writeTail, writeBuffer, thr, shift>>
        /\ UNCHANGED <<rxVars, rxFifo, inWindow, enabled>> /\ UNCHANGED <<ieThre, full, ch, line, given>>
        /\ pc = "writeSpace" /\ HasSpace /\ pc' = "writeStore"
    BY <1>3 DEF writeSpace, txVars, uartVars, outVars, Goto
  <2>2. WriteInv' /\ Pending' = Pending
    BY <2>1 DEF SerialInv, WriteInv, Pending, HasSpace
  <2>3. ReadInv' /\ Arrived' = Arrived
    BY <2>1, ReadSideKept DEF SerialInv
  <2>4. OpenInv'
    BY <2>1 DEF SerialInv, OpenInv
  <2> QED  BY <2>1, <2>2, <2>3, <2>4 DEF SerialInv, PortVars
<1>4. CASE writeStore
  <2>1. /\ UNCHANGED <<writeHead, writeTail, thr, shift>>
        /\ UNCHANGED <<rxVars, rxFifo, inWindow, enabled>> /\ UNCHANGED <<ieThre, full, ch, line, given>>
        /\ pc = "writeStore" /\ pc' = "writeTail"
        /\ writeBuffer' = [writeBuffer EXCEPT ![writeTail] = ch]
    BY <1>4 DEF writeStore, uartVars, outVars, Goto
  <2>2. Content(writeBuffer', writeHead', writeTail') = Content(writeBuffer, writeHead, writeTail)
    BY <1>0, <2>1, ContentElsewhere
  <2>3. WriteInv' /\ Pending' = Pending
    BY <2>1, <2>2 DEF SerialInv, WriteInv, Pending, HasSpace
  <2>4. ReadInv' /\ Arrived' = Arrived
    BY <2>1, ReadSideKept DEF SerialInv
  <2>5. OpenInv'
    BY <2>1 DEF SerialInv, OpenInv
  <2> QED  BY <2>1, <2>3, <2>4, <2>5 DEF SerialInv, PortVars
<1>5. CASE writeEnable
  <2>1. /\ UNCHANGED <<txVars, thr, shift>>
        /\ UNCHANGED <<rxVars, rxFifo, inWindow, enabled>> /\ UNCHANGED <<full, line, given>>
        /\ pc = "writeEnable" /\ pc' = "idle" /\ ch' = NoByte /\ ieThre' = TRUE
    BY <1>5 DEF writeEnable, outVars, Goto, thenEnabled
  <2>2. WriteInv' /\ Pending' = Pending
    BY <2>1, WriteSideKept DEF SerialInv, WritePcs, Cell
  <2>3. ReadInv' /\ Arrived' = Arrived
    BY <2>1, ReadSideKept DEF SerialInv
  <2>4. OpenInv'
    BY <2>1 DEF SerialInv, OpenInv
  <2> QED  BY <2>1, <2>2, <2>3, <2>4 DEF SerialInv, PortVars
<1> QED  BY <1>1, <1>2, <1>3, <1>4, <1>5

\* The two ways in which write() takes a byte.
LEMMA WriteAccepts ==
    ASSUME SerialInv, writeDirect \/ writeAdvance
    PROVE  SerialInv' /\ Port!Accept
<1> DEFINE C == Content(writeBuffer, writeHead, writeTail)
           first == One(shift) \o One(thr)
<1>0. /\ writeHead \in Index /\ writeTail \in Index
      /\ writeBuffer \in [Index -> Byte \cup {NoByte}]
      /\ C \in Seq(Byte) /\ thr \in Cell /\ shift \in Cell
  BY DEF SerialInv, WriteInv, Cell
<1>1. C \in Seq(Cell) /\ One(shift) \in Seq(Cell) /\ One(thr) \in Seq(Cell) /\ first \in Seq(Cell)
  <2>1. One(shift) \in Seq(Cell) /\ One(thr) \in Seq(Cell)
    BY <1>0, OneIs
  <2> QED  BY <2>1, <1>0, ByteSeqIsCellSeq, ConcatProperties
<1>2. CASE writeDirect
  <2>1. /\ UNCHANGED <<writeHead, writeTail, writeBuffer, shift>>
        /\ UNCHANGED <<rxVars, rxFifo, inWindow, enabled>> /\ UNCHANGED <<ieThre, full, ch, line, given>>
        /\ pc = "writeDirect" /\ pc' = "writeEnable" /\ thr' = ch
    BY <1>2 DEF writeDirect, txVars, outVars, Goto
  <2>2. writeHead = writeTail /\ thr = NoByte /\ ch \in Byte
    BY <2>1 DEF SerialInv, WriteInv
  <2>3. Pending' = Append(Pending, ch)
    <3>1. C = <<>> /\ Content(writeBuffer', writeHead', writeTail') = <<>>
      BY <1>0, <2>1, <2>2, EmptyContent
    <3>2. One(thr) = <<>> /\ One(thr') = <<ch>> /\ <<ch>> \in Seq(Cell) /\ ch \in Cell
      BY <2>1, <2>2, OneIs DEF Cell
    <3>3. Pending' = (One(shift) \o <<ch>>) \o <<>>
      BY <2>1, <3>1, <3>2 DEF Pending
    <3>4. One(shift) \o <<ch>> \in Seq(Cell)
      BY <1>1, <3>2, ConcatProperties
    <3>5. Pending' = One(shift) \o <<ch>>
      BY <3>3, <3>4, EmptyBehind
    <3>6. Pending = (One(shift) \o <<>>) \o <<>>
      BY <3>1, <3>2 DEF Pending
    <3>7. Pending = One(shift)
      BY <3>6, <1>1, EmptyBehind
    <3>8. Append(One(shift), ch) = One(shift) \o <<ch>>
      BY <1>1, <3>2, AppendIsConcat
    <3> QED  BY <3>5, <3>7, <3>8
  <2>4. WriteInv'
    BY <2>1, <2>2 DEF SerialInv, WriteInv, Cell
  <2>5. ReadInv' /\ Arrived' = Arrived
    BY <2>1, ReadSideKept DEF SerialInv
  <2>6. OpenInv'
    BY <2>1 DEF SerialInv, OpenInv
  <2> QED  BY <2>1, <2>2, <2>3, <2>4, <2>5, <2>6 DEF SerialInv, Port!Accept, Pending, Arrived
<1>3. CASE writeAdvance
  <2>1. /\ UNCHANGED <<writeHead, writeBuffer, thr, shift>>
        /\ UNCHANGED <<rxVars, rxFifo, inWindow, enabled>> /\ UNCHANGED <<ieThre, full, ch, line, given>>
        /\ pc = "writeTail" /\ pc' = "writeEnable" /\ writeTail' = Next1(writeTail)
    BY <1>3 DEF writeAdvance, uartVars, outVars, Goto, nextTail
  <2>2. writeHead # Next1(writeTail) /\ ch \in Byte /\ writeBuffer[writeTail] = ch
    BY <2>1 DEF SerialInv, WriteInv, HasSpace
  <2>3. Content(writeBuffer', writeHead', writeTail') = Append(C, ch)
    BY <1>0, <2>1, <2>2, ContentAppended
  <2>4. Pending' = Append(Pending, ch)
    <3>1. Pending = first \o C /\ Pending' = first \o Append(C, ch)
      BY <2>1, <2>3 DEF Pending
    <3>2. ch \in Cell
      BY <2>2 DEF Cell
    <3> HIDE DEF C, first
    <3> QED  BY <3>1, <3>2, <1>1, AppendBehind
  <2>5. WriteInv'
    <3>1. Append(C, ch) \in Seq(Byte)
      BY <1>0, <2>2, AppendProperties
    <3>2. writeTail' \in Index
      BY <1>0, <2>1, NextIs
    <3> QED  BY <1>0, <2>1, <2>2, <2>3, <3>1, <3>2 DEF SerialInv, WriteInv, Cell
  <2>6. ReadInv' /\ Arrived' = Arrived
    BY <2>1, ReadSideKept DEF SerialInv
  <2>7. OpenInv'
    BY <2>1 DEF SerialInv, OpenInv
  <2> QED  BY <2>1, <2>2, <2>4, <2>5, <2>6, <2>7 DEF SerialInv, Port!Accept, Pending, Arrived
<1> QED  BY <1>2, <1>3

LEMMA UartSteps ==
    ASSUME SerialInv, UartLoad \/ UartSend \/ UartReceive
    PROVE  SerialInv' /\ [Port!Transmit \/ Port!Arrive]_PortVars
<1> DEFINE C == Content(writeBuffer, writeHead, writeTail)
           R == Content(readBuffer, readHead, readTail)
<1>0. /\ writeHead \in Index /\ writeTail \in Index
      /\ writeBuffer \in [Index -> Byte \cup {NoByte}]
      /\ C \in Seq(Byte) /\ thr \in Cell /\ shift \in Cell
  BY DEF SerialInv, WriteInv, Cell
<1>1. C \in Seq(Cell) /\ One(shift) \in Seq(Cell) /\ One(thr) \in Seq(Cell)
  <2>1. One(shift) \in Seq(Cell) /\ One(thr) \in Seq(Cell)
    BY <1>0, OneIs
  <2> QED  BY <2>1, <1>0, ByteSeqIsCellSeq
<1>2. CASE UartLoad
  <2>1. /\ UNCHANGED <<writeHead, writeTail, writeBuffer>>
        /\ UNCHANGED <<readHead, readTail, readBuffer, rxFifo, inWindow, enabled>>
        /\ UNCHANGED <<ieThre, full, ch, pc, line, given>>
        /\ enabled /\ shift = NoByte /\ shift' = thr /\ thr' = NoByte
    BY <1>2 DEF UartLoad, txVars, rxVars, mainVars, outVars
  <2>2. One(shift) = <<>> /\ One(thr') = <<>> /\ One(shift') = One(thr)
    BY <2>1, OneIs
  <2>3. Pending' = Pending
    <3>1. Pending = (<<>> \o One(thr)) \o C /\ Pending' = (One(thr) \o <<>>) \o C
      BY <2>1, <2>2 DEF Pending
    <3>2. <<>> \o One(thr) = One(thr) /\ One(thr) \o <<>> = One(thr)
      BY <1>1, EmptyBehind
    <3> HIDE DEF C
    <3> QED  BY <3>1, <3>2
  <2>4. WriteInv'
    BY <2>1 DEF SerialInv, WriteInv, Cell, HasSpace
  <2>5. ReadInv' /\ Arrived' = Arrived
    BY <2>1 DEF SerialInv, ReadInv, Arrived
  <2>6. OpenInv'
    BY <2>1 DEF SerialInv, OpenInv
  <2> QED  BY <2>1, <2>3, <2>4, <2>5, <2>6 DEF SerialInv, PortVars
<1>3. CASE UartSend
  <2>1. /\ UNCHANGED <<writeHead, writeTail, writeBuffer, thr>>
        /\ UNCHANGED <<readHead, readTail, readBuffer, rxFifo, inWindow, enabled>>
        /\ UNCHANGED <<ieThre, full, ch, pc, given>>
        /\ enabled /\ shift # NoByte /\ shift' = NoByte /\ line' = shift
    BY <1>3 DEF UartSend, txVars, rxVars, mainVars
  <2>2. /\ Pending # <<>> /\ Head(Pending) = shift /\ Tail(Pending) = Pending'
    <3>1. One(shift) = <<shift>> /\ One(shift') = <<>> /\ <<shift>> \in Seq(Cell)
      BY <1>0, <2>1, OneIs DEF Cell
    <3>2. Pending = (<<shift>> \o One(thr)) \o C /\ Pending' = (<<>> \o One(thr)) \o C
      BY <2>1, <3>1 DEF Pending
    <3>3. <<>> \o One(thr) = One(thr)
      BY <1>1, EmptyBehind
    <3> HIDE DEF C
    <3>4. Pending = <<shift>> \o (One(thr) \o C) /\ Pending' = One(thr) \o C
      BY <3>1, <3>2, <3>3, <1>1, ConcatAssociative
    <3>5. One(thr) \o C \in Seq(Cell)
      BY <1>1, ConcatProperties
    <3> QED  BY <3>4, <3>5, <1>0, TakeFirst
  <2>3. WriteInv'
    BY <2>1 DEF SerialInv, WriteInv, Cell, HasSpace
  <2>4. ReadInv' /\ Arrived' = Arrived
    BY <2>1 DEF SerialInv, ReadInv, Arrived
  <2>5. OpenInv'
    BY <2>1 DEF SerialInv, OpenInv
  <2>6. Port!Transmit
    BY <2>1, <2>2, <2>4 DEF Port!Transmit, Pending, Arrived
  <2> QED  BY <2>3, <2>4, <2>5, <2>6 DEF SerialInv
<1>4. CASE UartReceive
  <2>1. PICK b \in Byte :
        /\ UNCHANGED <<writeHead, writeTail, writeBuffer, thr, shift>>
        /\ UNCHANGED <<readHead, readTail, readBuffer, inWindow, enabled>>
        /\ UNCHANGED <<ieThre, full, ch, pc, line, given>>
        /\ enabled /\ Len(rxFifo) < FifoSize /\ rxFifo' = Append(rxFifo, b)
    BY <1>4 DEF UartReceive, txVars, rxVars, mainVars, outVars
  <2>2. rxFifo \in Seq(Byte) /\ readHead \in 0 .. BufferSize /\ readTail \in Index
        /\ readBuffer \in [Index -> Byte \cup {NoByte}]
    BY DEF SerialInv, ReadInv, Cell
  <2>3. rxFifo' \in Seq(Byte) /\ Len(rxFifo') <= FifoSize
    BY <2>1, <2>2, SerialAssumption, AppendProperties, LenProperties
  <2>4. R \in Seq(Cell)
    <3>1. 0 \in Index /\ (readHead \in Index \/ readHead = BufferSize)
      BY <2>2, SerialAssumption DEF Index
    <3>2. Content(readBuffer, 0, readTail) \in Seq(Cell)
      BY <2>2, <3>1, ContentSeq DEF Cell
    <3>3. readHead \in Index => R \in Seq(Cell)
      BY <2>2, ContentSeq DEF Cell
    <3>4. readHead = BufferSize => R = Content(readBuffer, 0, readTail)
      BY <2>2, ContentMasked
    <3> QED  BY <3>1, <3>2, <3>3, <3>4
  <2>5. Arrived' = Append(Arrived, b)
    <3>1. Arrived = R \o rxFifo /\ Arrived' = R \o Append(rxFifo, b)
      BY <2>1 DEF Arrived
    <3>2. rxFifo \in Seq(Cell) /\ b \in Cell
      BY <2>2, ByteSeqIsCellSeq DEF Cell
    <3> HIDE DEF R
    <3> QED  BY <3>1, <3>2, <2>4, AppendBehind
  <2>6. WriteInv' /\ Pending' = Pending
    BY <2>1 DEF SerialInv, WriteInv, Pending, HasSpace
  <2>7. ReadInv'
    BY <2>1, <2>3 DEF SerialInv, ReadInv
  <2>8. OpenInv'
    BY <2>1 DEF SerialInv, OpenInv
  <2>9. Port!Arrive
    BY <2>1, <2>5, <2>6 DEF Port!Arrive, Pending, Arrived
  <2> QED  BY <2>6, <2>7, <2>8, <2>9 DEF SerialInv
<1> QED  BY <1>2, <1>3, <1>4

LEMMA ReadSteps ==
    ASSUME SerialInv, Read \/ readAdvance \/ readMask
    PROVE  SerialInv' /\ [Port!Deliver]_PortVars
<1> DEFINE R == Content(readBuffer, readHead, readTail)
<1>0. /\ rxFifo \in Seq(Byte) /\ readHead \in 0 .. BufferSize /\ readTail \in Index
      /\ readBuffer \in [Index -> Byte \cup {NoByte}]
  BY DEF SerialInv, ReadInv, Cell
<1>1. CASE Read
  <2>1. /\ UNCHANGED <<txVars, thr, shift>>
        /\ UNCHANGED <<readHead, readTail, readBuffer, rxFifo, inWindow, enabled>>
        /\ UNCHANGED <<ieThre, line, given>>
        /\ pc = "idle" /\ enabled /\ full' \in BOOLEAN
        /\ \/ pc' = "readPoll" /\ ch' = ch
           \/ pc' = "readAdvance" /\ ch' = readBuffer[readHead] /\ readHead # readTail
    BY <1>1 DEF Read, rxVars, uartVars, outVars, readBufferFull
  <2>2. readHead # BufferSize
    BY <2>1 DEF SerialInv, ReadInv
  <2>3. readHead \in Index
    BY <1>0, <2>2, SerialAssumption DEF Index
  <2>4. ch' \in Cell
    BY <1>0, <2>1, <2>3 DEF Cell, SerialInv, WriteInv
  <2>5. WriteInv' /\ Pending' = Pending
    BY <2>1, <2>4, WriteSideKept DEF SerialInv, WritePcs
  <2>6. ReadInv' /\ Arrived' = Arrived
    BY <2>1, <2>2 DEF SerialInv, ReadInv, Arrived
  <2>7. OpenInv'
    BY <2>1 DEF SerialInv, OpenInv
  <2> QED  BY <2>1, <2>5, <2>6, <2>7 DEF SerialInv, PortVars
<1>2. CASE readAdvance
  <2>1. /\ UNCHANGED <<txVars, thr, shift>>
        /\ UNCHANGED <<readTail, readBuffer, rxFifo, inWindow, enabled>>
        /\ UNCHANGED <<ieThre, full, line>>
        /\ pc = "readAdvance" /\ pc' = "readMask"
        /\ readHead' = readHead + 1 /\ given' = ch /\ ch' = NoByte
    BY <1>2 DEF readAdvance, uartVars, Goto
  <2>2. readHead # BufferSize /\ readHead # readTail /\ ch = readBuffer[readHead] /\ inWindow = 0
    BY <2>1 DEF SerialInv, ReadInv
  <2>3. readHead \in Index
    BY <1>0, <2>2, SerialAssumption DEF Index
  <2> DEFINE D == Content(readBuffer, Next1(readHead), readTail)
  <2>4. R # <<>> /\ Head(R) = ch /\ Tail(R) = D /\ R \in Seq(Cell)
    BY <1>0, <2>2, <2>3, ContentTaken, ContentSeq DEF Cell
  <2>5. Content(readBuffer', readHead', readTail') = D
    <3>1. CASE readHead = BufferSize - 1
      <4>1. readHead' = BufferSize /\ Next1(readHead) = 0
        BY <2>1, <2>3, <3>1, NextIs, SerialAssumption
      <4> QED  BY <4>1, <1>0, <2>1, ContentMasked
    <3>2. CASE readHead # BufferSize - 1
      <4>1. readHead' = Next1(readHead)
        BY <2>1, <2>3, <3>2, NextIs
      <4> QED  BY <4>1, <2>1
    <3> QED  BY <3>1, <3>2
  <2>6. enabled
    BY <2>1 DEF SerialInv, OpenInv
  <2>7. Arrived # <<>> /\ Head(Arrived) = ch /\ Tail(Arrived) = Arrived'
    <3>1. R = <<ch>> \o D /\ D \in Seq(Cell) /\ ch \in Cell
      BY <2>4, HeadAndTail
    <3>2. Arrived = R \o rxFifo /\ Arrived' = D \o rxFifo
      BY <2>1, <2>5, <2>6 DEF Arrived
    <3>3. rxFifo \in Seq(Cell) /\ <<ch>> \in Seq(Cell)
      BY <1>0, <3>1, ByteSeqIsCellSeq
    <3> HIDE DEF R, D
    <3>4. Arrived = <<ch>> \o (D \o rxFifo) /\ D \o rxFifo \in Seq(Cell)
      BY <3>1, <3>2, <3>3, ConcatAssociative, ConcatProperties
    <3> QED  BY <3>1, <3>2, <3>4, TakeFirst
  <2>8. WriteInv' /\ Pending' = Pending
    BY <2>1, WriteSideKept DEF SerialInv, WritePcs, Cell
  <2>9. ReadInv'
    <3>1. readHead' \in 0 .. BufferSize
      BY <2>1, <2>3, SerialAssumption DEF Index
    <3>2. readHead' = BufferSize => readTail' <= BufferSize - 2 + inWindow'
      BY <1>0, <2>1, <2>2, SerialAssumption DEF Index
    <3> QED  BY <2>1, <3>1, <3>2 DEF SerialInv, ReadInv
  <2>10. OpenInv'
    BY <2>1, <2>6 DEF SerialInv, OpenInv
  <2>11. Port!Deliver
    BY <2>1, <2>7, <2>8 DEF Port!Deliver, Pending, Arrived
  <2> QED  BY <2>8, <2>9, <2>10, <2>11 DEF SerialInv
<1>3. CASE readMask
  <2>1. /\ UNCHANGED <<txVars, thr, shift>>
        /\ UNCHANGED <<readTail, readBuffer, rxFifo, enabled>>
        /\ UNCHANGED <<ieThre, full, ch, line, given>>
        /\ pc = "readMask" /\ pc' = "readPoll"
        /\ readHead' = readHead % BufferSize /\ inWindow' = 0
    BY <1>3 DEF readMask, uartVars, outVars, Goto
  <2>2. /\ readHead' \in Index
        /\ Content(readBuffer', readHead', readTail') = R
    <3>1. CASE readHead = BufferSize
      <4>1. readHead' = 0 /\ 0 \in Index
        BY <1>0, <2>1, <3>1, ContentMasked, SerialAssumption DEF Index
      <4> QED  BY <4>1, <1>0, <2>1, <3>1, ContentMasked
    <3>2. CASE readHead # BufferSize
      <4>1. readHead \in 0 .. BufferSize - 1
        BY <1>0, <3>2, SerialAssumption
      <4>2. readHead' = readHead
        BY <2>1, <4>1, ModBelow
      <4> QED  BY <4>1, <4>2, <2>1 DEF Index
    <3> QED  BY <3>1, <3>2
  <2>3. WriteInv' /\ Pending' = Pending
    <3>1. ch \in Cell
      BY DEF SerialInv, WriteInv
    <3> QED  BY <2>1, <3>1, WriteSideKept DEF SerialInv, WritePcs
  <2>4. ReadInv' /\ Arrived' = Arrived
    <3>1. readHead' \in 0 .. BufferSize /\ readHead' # BufferSize /\ 0 \in 0 .. MaxInWindow
      BY <2>2, SerialAssumption DEF Index
    <3>2. ReadInv'
      BY <2>1, <3>1 DEF SerialInv, ReadInv
    <3> QED  BY <2>1, <2>2, <3>2 DEF Arrived
  <2>5. OpenInv'
    BY <2>1 DEF SerialInv, OpenInv
  <2> QED  BY <2>1, <2>3, <2>4, <2>5 DEF SerialInv, PortVars
<1> QED  BY <1>1, <1>2, <1>3

\* The handler, in an interrupt and at the end of read().
LEMMA HandlerSteps ==
    ASSUME SerialInv, MaxInWindow \in {0, 1}, interruptHandler \/ readPoll
    PROVE  SerialInv' /\ [Port!Lose]_PortVars
<1>1. CASE interruptHandler
  <2>1. /\ enabled /\ enabled' /\ TxHandler /\ RxHandler
        /\ UNCHANGED <<enabled, shift, pc, ch, full, line, given>>
        /\ IF pc = "readMask" /\ readHead = BufferSize
           THEN inWindow + storedNow <= MaxInWindow /\ inWindow' = inWindow + storedNow
           ELSE UNCHANGED inWindow
    BY <1>1 DEF interruptHandler, outVars
  <2>2. WriteInv' /\ Pending' = Pending
    BY <2>1, TxHandlerQuiet DEF SerialInv, Returns
  <2>3. readHead = BufferSize => pc = "readMask"
    BY DEF SerialInv, ReadInv
  <2>4. IF readHead = BufferSize
        THEN inWindow + storedNow <= MaxInWindow /\ inWindow' = inWindow + storedNow
        ELSE UNCHANGED inWindow
    BY <2>1, <2>3
  <2>5. ReadInv' /\ [Port!Lose]_PortVars
    BY <2>1, <2>2, <2>4, RxHandlerQuiet DEF SerialInv, Returns, PortVars
  <2>6. ieThre' \in BOOLEAN
    BY <2>1 DEF SerialInv, OpenInv, TxHandler
  <2>7. OpenInv'
    BY <2>1, <2>6 DEF SerialInv, OpenInv
  <2> QED  BY <2>2, <2>5, <2>7 DEF SerialInv
<1>2. CASE readPoll /\ full /\ RDR
  <2>1. /\ TxHandler /\ RxHandler /\ pc = "readPoll" /\ pc' = "idle" /\ full' = FALSE
        /\ UNCHANGED <<enabled, shift, ch, inWindow, line, given>>
    BY <1>2 DEF readPoll, outVars, Goto
  <2>2. enabled /\ enabled'
    BY <2>1 DEF SerialInv, OpenInv
  <2>3. readHead # BufferSize /\ inWindow = 0
    BY <2>1 DEF SerialInv, ReadInv
  <2>4. WriteInv' /\ Pending' = Pending
    BY <2>1, TxHandlerQuiet DEF SerialInv, Returns
  <2>5. ReadInv' /\ [Port!Lose]_PortVars
    BY <2>1, <2>2, <2>3, <2>4, RxHandlerQuiet DEF SerialInv, Returns, PortVars
  <2>6. ieThre' \in BOOLEAN
    BY <2>1 DEF SerialInv, OpenInv, TxHandler
  <2>7. OpenInv'
    BY <2>1, <2>2, <2>6 DEF SerialInv, OpenInv
  <2> QED  BY <2>4, <2>5, <2>7 DEF SerialInv
<1>3. CASE readPoll /\ ~(full /\ RDR)
  <2>1. /\ UNCHANGED <<txVars, thr, shift>>
        /\ UNCHANGED <<rxVars, rxFifo, inWindow, enabled>>
        /\ UNCHANGED <<ieThre, ch, line, given>>
        /\ pc = "readPoll" /\ pc' = "idle" /\ full' = FALSE
    BY <1>3 DEF readPoll, uartVars, outVars, Goto
  <2>2. WriteInv' /\ Pending' = Pending
    <3>1. ch' \in Cell
      BY <2>1 DEF SerialInv, WriteInv
    <3> QED  BY <2>1, <3>1, WriteSideKept DEF SerialInv, WritePcs
  <2>3. ReadInv' /\ Arrived' = Arrived
    BY <2>1, ReadSideKept DEF SerialInv
  <2>4. OpenInv'
    BY <2>1 DEF SerialInv, OpenInv
  <2> QED  BY <2>1, <2>2, <2>3, <2>4 DEF SerialInv, PortVars
<1> QED  BY <1>1, <1>2, <1>3

LEMMA CallSteps ==
    ASSUME SerialInv, Flush("flush") \/ Flush("end") \/ flushed \/ end \/ begin
    PROVE  SerialInv' /\ [Port!Close]_PortVars
<1>0. ch \in Cell
  BY DEF SerialInv, WriteInv
<1>1. CASE Flush("flush") \/ Flush("end") \/ flushed
  <2>1. /\ UNCHANGED <<txVars, thr, shift>>
        /\ UNCHANGED <<rxVars, rxFifo, inWindow, enabled>>
        /\ UNCHANGED <<ieThre, full, ch, line, given>>
        /\ pc \in {"idle", "flush"} /\ pc' \in {"idle", "flush", "end"}
        /\ pc = "idle" => enabled
    BY <1>1 DEF Flush, flushed, Goto, uartVars, outVars
  <2>2. WriteInv' /\ Pending' = Pending
    BY <1>0, <2>1, WriteSideKept DEF SerialInv, WritePcs
  <2>3. ReadInv' /\ Arrived' = Arrived
    BY <2>1, ReadSideKept DEF SerialInv
  <2>4. OpenInv'
    BY <2>1 DEF SerialInv, OpenInv
  <2> QED  BY <2>1, <2>2, <2>3, <2>4 DEF SerialInv, PortVars
<1>2. CASE end
  <2>1. /\ UNCHANGED <<writeHead, writeTail, writeBuffer>>
        /\ UNCHANGED <<readHead, readTail, readBuffer, rxFifo, inWindow>>
        /\ UNCHANGED <<ieThre, full, ch, line, given>>
        /\ pc = "end" /\ pc' = "idle" /\ writeHead = writeTail
        /\ enabled' = FALSE /\ thr' = NoByte /\ shift' = NoByte
    BY <1>2 DEF end, Goto, txVars, rxVars, outVars
  <2>2. writeHead \in Index /\ writeTail \in Index
    BY DEF SerialInv, WriteInv
  <2>3. Pending' = <<>>
    <3>1. Content(writeBuffer', writeHead', writeTail') = <<>>
      BY <2>1, <2>2, EmptyContent
    <3>2. Pending' = (<<>> \o <<>>) \o <<>>
      BY <2>1, <3>1, OneIs DEF Pending
    <3> QED  BY <3>2, EmptyBehind, EmptySeq
  <2>4. Arrived' = <<>>
    BY <2>1 DEF Arrived
  <2>5. Port!Close
    BY <2>1, <2>3, <2>4 DEF Port!Close, Pending, Arrived
  <2>6. WriteInv'
    BY <2>1 DEF SerialInv, WriteInv, Cell
  <2>7. ReadInv'
    BY <2>1 DEF SerialInv, ReadInv
  <2>8. OpenInv'
    BY <2>1 DEF SerialInv, OpenInv
  <2> QED  BY <2>5, <2>6, <2>7, <2>8 DEF SerialInv
<1>3. CASE begin
  <2>1. /\ UNCHANGED <<writeBuffer, readBuffer, ieThre, thr, shift>>
        /\ UNCHANGED <<pc, ch, full, inWindow, line, given>>
        /\ ~enabled /\ enabled' = TRUE
        /\ writeHead' = 0 /\ writeTail' = 0 /\ readHead' = 0 /\ readTail' = 0 /\ rxFifo' = <<>>
    BY <1>3 DEF begin, mainVars, outVars
  <2>2. pc = "idle" /\ thr = NoByte /\ shift = NoByte /\ writeHead = writeTail
    BY <2>1 DEF SerialInv, OpenInv
  <2>3. writeHead \in Index /\ writeTail \in Index /\ 0 \in Index
    BY SerialAssumption DEF SerialInv, WriteInv, Index
  <2>4. Content(writeBuffer, writeHead, writeTail) = <<>>
        /\ Content(writeBuffer', writeHead', writeTail') = <<>>
        /\ Content(readBuffer', readHead', readTail') = <<>>
    BY <2>1, <2>2, <2>3, EmptyContent
  <2>5. Pending' = Pending
    BY <2>1, <2>4 DEF Pending
  <2>6. Arrived = <<>> /\ Arrived' = <<>>
    <3>1. Arrived' = <<>> \o <<>>
      BY <2>1, <2>4 DEF Arrived
    <3> QED  BY <2>1, <3>1, EmptyBehind, EmptySeq DEF Arrived
  <2>7. WriteInv'
    <3>1. <<>> \in Seq(Byte)
      BY EmptySeq
    <3>2. /\ writeHead' \in Index /\ writeTail' \in Index
          /\ writeBuffer' \in [Index -> Cell]
          /\ thr' \in Cell /\ shift' \in Cell /\ ch' \in Cell
      BY <2>1, <2>3 DEF SerialInv, WriteInv
    <3>3. pc' = "idle"
      BY <2>1, <2>2
    <3>4. Content(writeBuffer', writeHead', writeTail') \in Seq(Byte)
      BY <2>4, <3>1
    <3> QED  BY <3>2, <3>3, <3>4 DEF WriteInv
  <2>8. ReadInv'
    <3>1. <<>> \in Seq(Byte) /\ Len(<<>>) <= FifoSize /\ 0 \in 0 .. BufferSize /\ 0 # BufferSize
      BY EmptySeq, SerialAssumption
    <3> QED  BY <2>1, <2>2, <2>3, <3>1 DEF SerialInv, ReadInv
  <2>9. OpenInv'
    BY <2>1, <2>2 DEF SerialInv, OpenInv
  <2> QED  BY <2>1, <2>5, <2>6, <2>7, <2>8, <2>9 DEF SerialInv, PortVars
<1> QED  BY <1>1, <1>2, <1>3

-----------------------------------------------------------------------------
(* The port implements the service *)

LEMMA InitPort == SerialInit => SerialInv /\ Port!SInit
<1> SUFFICES ASSUME SerialInit PROVE SerialInv /\ Port!SInit
  OBVIOUS
<1>1. 0 \in Index /\ 0 \in 0 .. BufferSize /\ 0 # BufferSize /\ 0 \in 0 .. MaxInWindow
  BY SerialAssumption DEF Index
<1>2. <<>> \in Seq(Byte) /\ Len(<<>>) <= FifoSize
  BY EmptySeq, SerialAssumption
<1>3. Content(writeBuffer, writeHead, writeTail) = <<>> /\ Content(readBuffer, readHead, readTail) = <<>>
  BY <1>1, EmptyContent DEF SerialInit
<1>4. Pending = <<>> /\ Arrived = <<>>
  <2>1. Pending = (<<>> \o <<>>) \o <<>> /\ Arrived = <<>> \o <<>>
    BY <1>3, OneIs DEF SerialInit, Pending, Arrived
  <2> QED  BY <2>1, EmptyBehind, EmptySeq
<1>5. WriteInv
  <2>1. /\ writeHead \in Index /\ writeTail \in Index
        /\ writeBuffer \in [Index -> Cell]
        /\ thr \in Cell /\ shift \in Cell /\ ch \in Cell
    BY <1>1 DEF SerialInit, Cell
  <2>2. pc = "idle"
    BY DEF SerialInit
  <2>3. Content(writeBuffer, writeHead, writeTail) \in Seq(Byte)
    BY <1>2, <1>3
  <2> QED  BY <2>1, <2>2, <2>3 DEF WriteInv
<1>6. ReadInv
  BY <1>1, <1>2 DEF SerialInit, ReadInv, Cell
<1>7. OpenInv
  BY DEF SerialInit, OpenInv
<1> QED  BY <1>4, <1>5, <1>6, <1>7 DEF SerialInit, SerialInv, Port!SInit, Pending, Arrived

LEMMA StepPort ==
    ASSUME SerialInv, MaxInWindow \in {0, 1}, [SerialNext]_serialVars
    PROVE  SerialInv' /\ [Port!SNext]_PortVars
<1>1. CASE Write \/ writeThre \/ writeSpace \/ writeStore \/ writeEnable
  BY <1>1, WriteQuiet
<1>2. CASE writeDirect \/ writeAdvance
  BY <1>2, WriteAccepts DEF Port!SNext
<1>3. CASE Read \/ readAdvance \/ readMask
  BY <1>3, ReadSteps DEF Port!SNext
<1>4. CASE interruptHandler \/ readPoll
  BY <1>4, HandlerSteps DEF Port!SNext
<1>5. CASE Flush("flush") \/ Flush("end") \/ flushed \/ end \/ begin
  BY <1>5, CallSteps DEF Port!SNext
<1>6. CASE UartLoad \/ UartSend \/ UartReceive
  BY <1>6, UartSteps DEF Port!SNext
<1>7. CASE UNCHANGED serialVars
  BY <1>7 DEF serialVars, txVars, rxVars, uartVars, mainVars, outVars, SerialInv, WriteInv, ReadInv,
              OpenInv, HasSpace, PortVars, Pending, Arrived
<1> QED  BY <1>1, <1>2, <1>3, <1>4, <1>5, <1>6, <1>7 DEF SerialNext, writeStep, readStep, Uart

\* For every size of the buffers and of the FIFO: what was accepted goes out in
\* its order, whichever way it took, and what came in is read in its order, the
\* newest lost for want of room only.
THEOREM PortImplementsService ==
    ASSUME MaxInWindow \in {0, 1}
    PROVE  SerialSpec => PortService
<1>1. SerialInit => SerialInv /\ Port!SInit
  BY InitPort
<1>2. SerialInv /\ [SerialNext]_serialVars => SerialInv' /\ [Port!SNext]_(Port!sVars)
  BY StepPort DEF PortVars, Pending, Arrived, Port!sVars
<1> QED  BY <1>1, <1>2, PTL DEF SerialSpec, PortService, Port!Service

\* Every index stays in range, except that of readHead in the middle of read().
THEOREM SerialTypeCorrect ==
    ASSUME MaxInWindow \in {0, 1}
    PROVE  SerialSpec => []SerialTypeOK
<1>1. SerialInit => SerialInv
  BY InitPort
<1>2. SerialInv /\ [SerialNext]_serialVars => SerialInv'
  BY StepPort
<1>3. SerialInv => SerialTypeOK
  BY DEF SerialInv, WriteInv, ReadInv, OpenInv, SerialTypeOK, Cell
<1> QED  BY <1>1, <1>2, <1>3, PTL DEF SerialSpec
==============================================================================

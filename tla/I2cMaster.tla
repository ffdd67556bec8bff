------------------------------ MODULE I2cMaster ------------------------------
(***************************************************************************)
(* The I2C master, sblib/src/i2c.cpp: a transfer sends txSz bytes to a     *)
(* slave and then, after a repeated start, reads rxSz bytes.  The          *)
(* controller makes one step on the bus at a time and reports a state; the *)
(* polling loop of MasterTransfer() answers with the next byte and the     *)
(* flags STA, STO and AA.  MasterSend(), MasterRead(), MasterCmdRead() and *)
(* MasterWriteRead() repeat a transfer whose arbitration is lost.  The     *)
(* slave, the other master and the controller are external.                *)
(***************************************************************************)
EXTENDS Integers, Sequences

CONSTANTS
    MaxTx, MaxRx,   \* bounds: bytes of a transfer
    Faults,         \* what may go wrong on the bus
    MaxLost         \* bound: arbitrations lost in a call

ASSUME I2cAssumption ==
    /\ {MaxTx, MaxRx, MaxLost} \subseteq Nat
    /\ Faults \subseteq {"NAK", "ARBLOST", "BUSERR"}

VARIABLES
    i2cPc,          \* "idle", "poll": the polling loop, "stop": wait for STOP
    tx, rx,         \* bytes the caller wants sent and read
    txSz, rxSz, rxBuff, status,
    stat, SI,       \* state of the controller; SI: it is new
    con,            \* flags STA, STO, AA
    heard,          \* bytes the slave acknowledged since the START
    answers,        \* bytes the slave sent since its address
    driving,        \* the slave sends the next bit
    lost

xfer == <<tx, rx, txSz, rxSz, rxBuff, status>>
slave == <<heard, answers, driving>>
i2cVars == <<i2cPc, xfer, stat, SI, con, slave, lost>>

WithoutStop == {"none", "ARBLOST", "BUSERR"}
Naks == {"SLAW_NAK", "DATA_NAK", "SLAR_NAK"}
Stats == WithoutStop \cup Naks \cup
         {"START", "RSTART", "SLAW_ACK", "DATA_ACK", "SLAR_ACK", "RX_ACK", "RX_NAK"}

\* A write whose arbitration is lost behind its last byte is tried again as a
\* read: a byte is stored that nobody wanted, and rxSz is negative.
I2cTypeOK ==
    /\ i2cPc \in {"idle", "poll", "stop"}
    /\ tx \in 0 .. MaxTx /\ rx \in 0 .. MaxRx
    /\ txSz \in 0 .. tx /\ rxSz \in -1 .. rx /\ Len(rxBuff) = rx - rxSz
    /\ status \in {"DONE", "NAK", "ARBLOST", "BUSERR", "BUSY"}
    /\ stat \in Stats /\ SI \in BOOLEAN /\ con \subseteq {"STA", "STO", "AA"}
    /\ Len(heard) <= MaxTx /\ answers \in 0 .. MaxRx /\ driving \in BOOLEAN
    /\ lost \in 0 .. MaxLost

I2cInit ==
    /\ i2cPc = "idle" /\ tx = 0 /\ rx = 0
    /\ txSz = 0 /\ rxSz = 0 /\ rxBuff = <<>> /\ status = "DONE"
    /\ stat = "none" /\ SI = FALSE /\ con = {}
    /\ heard = <<>> /\ answers = 0 /\ driving = FALSE
    /\ lost = 0

-----------------------------------------------------------------------------
(* The bus *)

\* DAT is the byte written last: the next one of the message is in it.
dat == tx - txSz

\* A byte is sent or received: the good outcome, its NAK, or a fault.
Outcomes(good, nak) ==
    {good} \cup (IF "NAK" \in Faults THEN {nak} ELSE {})
           \cup (IF "BUSERR" \in Faults THEN {"BUSERR"} ELSE {})
           \cup (IF "ARBLOST" \in Faults /\ lost < MaxLost THEN {"ARBLOST"} ELSE {})

Report(s) ==
    /\ stat' = s /\ SI' = TRUE
    /\ lost' = IF s = "ARBLOST" THEN lost + 1 ELSE lost

StartCondition ==
    /\ "STA" \in con
    /\ \/ stat \in WithoutStop /\ Report("START") /\ heard' = <<>>
       \/ stat \in {"SLAW_ACK", "DATA_ACK"} /\ Report("RSTART") /\ UNCHANGED heard
    /\ driving' = FALSE
    /\ UNCHANGED <<con, answers>>

\* After a bus error no STOP is sent.
StopCondition ==
    /\ "STO" \in con
    /\ stat' = "none" /\ con' = con \ {"STO"}
    /\ driving' = FALSE
    /\ UNCHANGED <<SI, heard, answers, lost>>

\* The direction bit is that of the message when the START was handled.
Address ==
    /\ stat \in {"START", "RSTART"}
    /\ \E s \in IF txSz = 0 THEN Outcomes("SLAR_ACK", "SLAR_NAK")
                            ELSE Outcomes("SLAW_ACK", "SLAW_NAK") :
          /\ Report(s)
          /\ driving' = (s = "SLAR_ACK")
    /\ answers' = 0
    /\ UNCHANGED <<con, heard>>

SendByte ==
    /\ stat \in {"SLAW_ACK", "DATA_ACK"} /\ con \cap {"STA", "STO"} = {}
    /\ \E s \in Outcomes("DATA_ACK", "DATA_NAK") :
          /\ Report(s)
          /\ heard' = IF s = "DATA_ACK" THEN Append(heard, dat) ELSE heard
    /\ UNCHANGED <<con, answers, driving>>

ReceiveByte ==
    /\ stat \in {"SLAR_ACK", "RX_ACK"}
    /\ LET good == IF "AA" \in con THEN "RX_ACK" ELSE "RX_NAK"
       IN  \E s \in Outcomes(good, good) :
              /\ Report(s)
              /\ answers' = IF s = good THEN answers + 1 ELSE answers
              /\ driving' = (s = "RX_ACK")
    /\ UNCHANGED <<con, heard>>

Bus ==
    /\ ~SI
    /\ StartCondition \/ StopCondition \/ Address \/ SendByte \/ ReceiveByte
    /\ UNCHANGED <<i2cPc, xfer>>

-----------------------------------------------------------------------------
(* handleMasterXferState() *)

\* CONSET and CONCLR: the flags are these, SI is cleared.
Flags(set) == con' = set /\ SI' = FALSE

\* AA is set if the byte that comes is not the last one.
receiveFlags ==
    (IF rxSz' > 1 THEN {"AA"} ELSE {}) \cup (IF stat = "RX_NAK" THEN {"STO"} ELSE {})

nextByte ==
    /\ stat \in {"SLAW_ACK", "DATA_ACK"}
    /\ IF txSz = 0
         THEN /\ Flags(IF rxSz > 0 THEN {"STA"} ELSE {"STO"})
              /\ UNCHANGED txSz
         ELSE Flags({}) /\ txSz' = txSz - 1
    /\ UNCHANGED <<rxSz, rxBuff>>

storeByte ==
    /\ stat \in {"RX_ACK", "RX_NAK", "SLAR_ACK"}
    /\ IF stat = "SLAR_ACK" THEN UNCHANGED <<rxSz, rxBuff>>
       ELSE rxBuff' = Append(rxBuff, answers) /\ rxSz' = rxSz - 1
    /\ Flags(receiveFlags)
    /\ UNCHANGED txSz

errorFlags == IF stat = "ARBLOST" THEN {} ELSE {"STO"}

addressOrError ==
    /\ stat \in {"START", "RSTART", "ARBLOST", "BUSERR"} \cup Naks
    /\ Flags(IF stat \in {"START", "RSTART"} THEN {} ELSE errorFlags)
    /\ UNCHANGED <<txSz, rxSz, rxBuff>>

\* The status an error gives.
newStatus ==
    CASE stat \in Naks -> "NAK"
      [] stat \in {"ARBLOST", "BUSERR"} -> stat
      [] OTHER -> status

\* Operators named ...Bug are not part of the specification: each is a
\* plausible error in the code.
endStatusBug == IF "STO" \in con' THEN "DONE" ELSE newStatus

\* A transfer that is stopped without an error is done.
endStatus == IF "STO" \in con' /\ newStatus = "BUSY" THEN "DONE" ELSE newStatus

-----------------------------------------------------------------------------
(* Chip_I2C_MasterTransfer(), and its callers *)

\* startMasterXfer()
startTransfer ==
    /\ status' = "BUSY"
    /\ con' = {"STA"} /\ SI' = FALSE
    /\ i2cPc' = "poll"

Call ==
    /\ i2cPc = "idle"
    /\ \E n \in 0 .. MaxTx, m \in 0 .. MaxRx :
          /\ n + m > 0
          /\ tx' = n /\ txSz' = n /\ rx' = m /\ rxSz' = m
    /\ rxBuff' = <<>> /\ lost' = 0
    /\ startTransfer
    /\ UNCHANGED <<stat, slave>>

\* Chip_I2C_EventHandlerPolling()
Poll ==
    /\ i2cPc = "poll" /\ SI
    /\ nextByte \/ storeByte \/ addressOrError
    /\ status' = endStatus
    /\ i2cPc' = IF endStatus = "BUSY" THEN "poll" ELSE "stop"
    /\ UNCHANGED <<tx, rx, stat, slave, lost>>

tryAgain == status = "ARBLOST"

\* The STOP has been sent: another try if the arbitration was lost.
Stopped ==
    /\ i2cPc = "stop" /\ "STO" \notin con
    /\ IF tryAgain THEN startTransfer
                   ELSE i2cPc' = "idle" /\ UNCHANGED <<status, con, SI>>
    /\ UNCHANGED <<tx, rx, txSz, rxSz, rxBuff, stat, slave, lost>>

I2cProcessor == Poll \/ Stopped

I2cNext == Bus \/ I2cProcessor \/ Call

I2cSpec == I2cInit /\ [][I2cNext]_i2cVars

\* Each step on the bus ends, unless a slave holds the clock for ever.
I2cFairness == WF_i2cVars(I2cProcessor) /\ WF_i2cVars(Bus)

(***************************************************************************)
(* Properties                                                              *)
(***************************************************************************)

\* The result of MasterSend() or of a function that reads.
result == IF rx = 0 THEN tx - txSz ELSE rx - rxSz
wanted == IF rx = 0 THEN tx ELSE rx

Numbers(n) == [i \in 1 .. n |-> i]

\* I2C_STATUS_DONE, of a transfer of both directions in which no arbitration
\* was lost: the slave acknowledged the whole message in one transfer and what
\* was stored is its whole answer.
DoneMeansHeard ==
    i2cPc = "idle" /\ status = "DONE" /\ lost = 0
        => heard = Numbers(tx) /\ rxBuff = Numbers(rx)

\* "Number of bytes read successfully" (i2c.h): a caller that compares it with
\* what it wanted has read the answer to its command, if no arbitration was
\* lost.
ReadIsAnswered ==
    i2cPc = "idle" /\ rx > 0 /\ result = wanted /\ lost = 0
        => heard = Numbers(tx) /\ rxBuff = Numbers(rx)

\* STOP and repeated START are sent only when the slave has released the data
\* line, which it does for a byte that is not acknowledged.
LineReleased ==
    [][stat' # stat /\ stat' \in {"none", "RSTART"} => ~driving]_i2cVars

\* A call leaves the bus to others.
BusLeft == i2cPc = "idle" => stat \in WithoutStop /\ ~SI

\* Every call returns.
TransferReturns == i2cPc # "idle" ~> i2cPc = "idle"
=============================================================================

------------------------------- MODULE Serial -------------------------------
(***************************************************************************)
(* The serial port of sblib/src/serial.cpp and buffered_stream.cpp: two    *)
(* ring buffers between the main program and the UART interrupt.  The main *)
(* program runs access by access (pc) to what the interrupt changes; the   *)
(* interrupt is one step.  The UART is a transmitter hold register, a      *)
(* shift register and a receive FIFO.                                      *)
(*                                                                         *)
(* LPC_UART->IER |= UART_IE_THRE is one step: an interrupt in the middle   *)
(* of it clears at most the bit that it sets.                              *)
(***************************************************************************)
EXTENDS Naturals, Sequences, FiniteSets

CONSTANTS
    Byte, NoByte,
    BufferSize,     \* BUFFER_SIZE, a power of two
    FifoSize,       \* size of the receive FIFO of the UART
    MaxInWindow,    \* bound: bytes that interrupts store while readHead is
                    \* out of range in the middle of read()
    AppOps          \* what the application calls

ASSUME SerialAssumption ==
    /\ NoByte \notin Byte
    /\ BufferSize \in Nat \ {0, 1}
    /\ FifoSize \in Nat \ {0}
    /\ MaxInWindow \in Nat
    /\ AppOps \subseteq {"write", "read", "flush", "end"}

VARIABLES
    writeHead, writeTail, writeBuffer,
    readHead, readTail, readBuffer,
    enabled,            \* enabled_
    ieThre,             \* UART_IE_THRE in IER
    thr, shift,         \* the registers of the transmitter
    rxFifo,             \* the FIFO of the receiver
    pc, ch, full,       \* where the main program is, and its local variables
    inWindow,           \* bytes stored since readHead went out of range
    line, given         \* the last byte on the line; the last result of read()

txVars == <<writeHead, writeTail, writeBuffer>>
rxVars == <<readHead, readTail, readBuffer>>
uartVars == <<ieThre, thr, shift, rxFifo>>
mainVars == <<pc, ch, full, inWindow>>
outVars == <<line, given>>
serialVars == <<txVars, rxVars, enabled, uartVars, mainVars, outVars>>

Index == 0 .. BufferSize - 1
Next1(i) == (i + 1) % BufferSize

SerialTypeOK ==
    /\ writeHead \in Index /\ writeTail \in Index
    /\ readHead \in 0 .. BufferSize /\ readTail \in Index
    /\ readHead = BufferSize => pc = "readMask"
    /\ writeBuffer \in [Index -> Byte \cup {NoByte}]
    /\ readBuffer \in [Index -> Byte \cup {NoByte}]
    /\ enabled \in BOOLEAN /\ ieThre \in BOOLEAN /\ full \in BOOLEAN
    /\ thr \in Byte \cup {NoByte} /\ shift \in Byte \cup {NoByte}
    /\ rxFifo \in Seq(Byte) /\ Len(rxFifo) <= FifoSize
    /\ pc \in {"idle", "writeThre", "writeDirect", "writeSpace", "writeStore", "writeTail",
               "writeEnable", "readAdvance", "readMask", "readPoll", "flush", "end"}
    /\ ch \in Byte \cup {NoByte}
    /\ inWindow \in 0 .. MaxInWindow

\* begin(): both buffers and both FIFOs are cleared.
SerialInit ==
    /\ writeHead = 0 /\ writeTail = 0 /\ writeBuffer = [i \in Index |-> NoByte]
    /\ readHead = 0 /\ readTail = 0 /\ readBuffer = [i \in Index |-> NoByte]
    /\ enabled = TRUE /\ ieThre = FALSE
    /\ thr = NoByte /\ shift = NoByte /\ rxFifo = <<>>
    /\ pc = "idle" /\ ch = NoByte /\ full = FALSE /\ inWindow = 0
    /\ line = NoByte /\ given = NoByte

\* Operators named ...Bug are not part of the specification: each is a
\* plausible error in the code.
THRE == thr = NoByte
RDR == rxFifo # <<>>
readBufferFull == Next1(readTail) = readHead

Goto(here, there) == pc = here /\ pc' = there

-----------------------------------------------------------------------------
(* write() *)

nothingBufferedBug == TRUE
nothingBuffered == writeHead = writeTail

Write ==
    /\ "write" \in AppOps
    /\ enabled
    /\ pc = "idle"
    /\ \E b \in Byte : ch' = b
    /\ pc' = IF nothingBuffered THEN "writeThre" ELSE "writeSpace"
    /\ UNCHANGED <<txVars, rxVars, enabled, uartVars, full, inWindow, outVars>>

writeThre ==
    /\ pc = "writeThre"
    /\ pc' = IF THRE THEN "writeDirect" ELSE "writeSpace"
    /\ UNCHANGED <<txVars, rxVars, enabled, uartVars, ch, full, inWindow, outVars>>

writeDirect ==
    /\ Goto("writeDirect", "writeEnable")
    /\ thr' = ch
    /\ UNCHANGED <<txVars, rxVars, enabled, ieThre, shift, rxFifo, ch, full, inWindow, outVars>>

HasSpace == writeHead # Next1(writeTail)

writeSpace ==
    /\ Goto("writeSpace", "writeStore")
    /\ HasSpace
    /\ UNCHANGED <<txVars, rxVars, enabled, uartVars, ch, full, inWindow, outVars>>

writeStore ==
    /\ Goto("writeStore", "writeTail")
    /\ writeBuffer' = [writeBuffer EXCEPT ![writeTail] = ch]
    /\ UNCHANGED <<writeHead, writeTail, rxVars, enabled, uartVars, ch, full, inWindow, outVars>>

nextTail == Next1(writeTail)

writeAdvance ==
    /\ Goto("writeTail", "writeEnable")
    /\ writeTail' = nextTail
    /\ UNCHANGED <<writeHead, writeBuffer, rxVars, enabled, uartVars, ch, full, inWindow, outVars>>

thenEnabled == TRUE

writeEnable ==
    /\ Goto("writeEnable", "idle")
    /\ ieThre' = thenEnabled
    /\ ch' = NoByte
    /\ UNCHANGED <<txVars, rxVars, enabled, thr, shift, rxFifo, full, inWindow, outVars>>

-----------------------------------------------------------------------------
(* The UART interrupt *)

TxHandler ==
    IF ~THRE THEN UNCHANGED <<txVars, ieThre, thr>>
    ELSE IF writeHead = writeTail
         THEN ieThre' = FALSE /\ UNCHANGED <<txVars, thr>>
         ELSE /\ thr' = writeBuffer[writeHead]
              /\ writeHead' = Next1(writeHead)
              /\ UNCHANGED <<writeTail, writeBuffer, ieThre>>

\* The number of bytes of the FIFO that find room; the rest is dropped.
room(n) == \A j \in 0 .. n - 1 : (readTail + j + 1) % BufferSize # readHead
storedNow == CHOOSE n \in 0 .. Len(rxFifo) :
                 room(n) /\ \A k \in n + 1 .. Len(rxFifo) : ~room(k)

RxHandler ==
    /\ readBuffer' = [i \in Index |->
           LET j == (i + BufferSize - readTail) % BufferSize
           IN  IF j < storedNow THEN rxFifo[j + 1] ELSE readBuffer[i]]
    /\ readTail' = (readTail + storedNow) % BufferSize
    /\ rxFifo' = <<>>
    /\ UNCHANGED readHead

interruptHandler ==
    /\ enabled
    /\ RDR \/ (ieThre /\ THRE)
    /\ TxHandler /\ RxHandler
    /\ IF pc = "readMask" /\ readHead = BufferSize
       THEN inWindow + storedNow <= MaxInWindow /\ inWindow' = inWindow + storedNow
       ELSE UNCHANGED inWindow
    /\ UNCHANGED <<enabled, shift, pc, ch, full, outVars>>

-----------------------------------------------------------------------------
(* read() *)

Read ==
    /\ "read" \in AppOps
    /\ enabled
    /\ pc = "idle"
    /\ full' = readBufferFull
    /\ IF readTail = readHead
       THEN pc' = "readPoll" /\ UNCHANGED ch
       ELSE pc' = "readAdvance" /\ ch' = readBuffer[readHead]
    /\ UNCHANGED <<txVars, rxVars, enabled, uartVars, inWindow, outVars>>

readAdvance ==
    /\ Goto("readAdvance", "readMask")
    /\ readHead' = readHead + 1
    /\ given' = ch
    /\ ch' = NoByte
    /\ UNCHANGED <<txVars, readTail, readBuffer, enabled, uartVars, full, inWindow, line>>

readMask ==
    /\ Goto("readMask", "readPoll")
    /\ readHead' = readHead % BufferSize
    /\ inWindow' = 0
    /\ UNCHANGED <<txVars, readTail, readBuffer, enabled, uartVars, ch, full, outVars>>

\* With the interrupt disabled, the handler is called.
readPoll ==
    /\ Goto("readPoll", "idle")
    /\ full' = FALSE
    /\ IF full /\ RDR
       THEN TxHandler /\ RxHandler /\ UNCHANGED shift
       ELSE UNCHANGED <<txVars, rxVars, uartVars>>
    /\ UNCHANGED <<enabled, ch, inWindow, outVars>>

-----------------------------------------------------------------------------
(* flush(), end() and begin() *)

Flush(op) ==
    /\ op \in AppOps
    /\ enabled
    /\ Goto("idle", op)
    /\ UNCHANGED <<txVars, rxVars, enabled, uartVars, ch, full, inWindow, outVars>>

flushed ==
    /\ Goto("flush", "idle")
    /\ writeHead = writeTail
    /\ UNCHANGED <<txVars, rxVars, enabled, uartVars, ch, full, inWindow, outVars>>

\* The clock of the UART is switched off, with what it was sending.
end ==
    /\ Goto("end", "idle")
    /\ writeHead = writeTail
    /\ enabled' = FALSE
    /\ thr' = NoByte /\ shift' = NoByte
    /\ UNCHANGED <<txVars, rxVars, ieThre, rxFifo, ch, full, inWindow, outVars>>

begin ==
    /\ ~enabled
    /\ enabled' = TRUE
    /\ writeHead' = 0 /\ writeTail' = 0 /\ readHead' = 0 /\ readTail' = 0
    /\ rxFifo' = <<>>
    /\ UNCHANGED <<writeBuffer, readBuffer, ieThre, thr, shift, mainVars, outVars>>

-----------------------------------------------------------------------------
(* The UART *)

UartLoad ==
    /\ enabled /\ shift = NoByte /\ thr # NoByte
    /\ shift' = thr /\ thr' = NoByte
    /\ UNCHANGED <<txVars, rxVars, enabled, ieThre, rxFifo, mainVars, outVars>>

UartSend ==
    /\ enabled /\ shift # NoByte
    /\ line' = shift /\ shift' = NoByte
    /\ UNCHANGED <<txVars, rxVars, enabled, ieThre, thr, rxFifo, mainVars, given>>

UartReceive ==
    /\ "read" \in AppOps
    /\ enabled /\ Len(rxFifo) < FifoSize
    /\ \E b \in Byte : rxFifo' = Append(rxFifo, b)
    /\ UNCHANGED <<txVars, rxVars, enabled, ieThre, thr, shift, mainVars, outVars>>

-----------------------------------------------------------------------------
writeStep == writeThre \/ writeDirect \/ writeSpace \/ writeStore \/ writeAdvance \/ writeEnable
readStep == readAdvance \/ readMask \/ readPoll
Uart == UartLoad \/ UartSend

SerialNext ==
    \/ Write \/ writeStep \/ Read \/ readStep
    \/ Flush("flush") \/ Flush("end") \/ flushed \/ end \/ begin
    \/ interruptHandler \/ Uart \/ UartReceive

SerialSpec == SerialInit /\ [][SerialNext]_serialVars

-----------------------------------------------------------------------------
(* Properties *)

\* The content of a ring buffer, oldest byte first.
Content(buffer, head, tail) ==
    [k \in 1 .. (tail + BufferSize - (head % BufferSize)) % BufferSize
        |-> buffer[(head + k - 1) % BufferSize]]

One(b) == IF b = NoByte THEN <<>> ELSE <<b>>

\* The port keeps its promise: bytes go out in the order in which write()
\* accepted them, whether they took the direct way or the buffer, and bytes
\* come in in order, lost only when the buffer is full (SerialService).
Port == INSTANCE SerialService WITH
    Capacity <- BufferSize - 1,
    pending <- One(shift) \o One(thr) \o Content(writeBuffer, writeHead, writeTail),
    arrived <- IF enabled THEN Content(readBuffer, readHead, readTail) \o rxFifo ELSE <<>>

PortService == Port!Service

=============================================================================

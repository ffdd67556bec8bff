--------------------------------- MODULE Spi ---------------------------------
(***************************************************************************)
(* Block transfers of the SPI master, sblib/src/spi.cpp: the FIFOs of the  *)
(* controller are filled and emptied by two loops, which run in            *)
(* transferBlock(), in finalizeBlockTransfer() and, for an asynchronous    *)
(* transfer, in the interrupt.  A word that is sent brings one that is     *)
(* received; both have its number.  A step of the processor is the look at *)
(* a loop's condition or one access to a FIFO.                             *)
(***************************************************************************)
EXTENDS Integers, Sequences

CONSTANTS
    SspFifoSize,    \* words in each FIFO, and iterations of the sending loop
    MaxWords,       \* bound: words of a block
    MinAsynchron,   \* the application sends shorter blocks synchronously
    SspPort,        \* the port the object is for: 0 or 1
    MaxShifts,      \* words that are shifted while the processor makes a step
    Prompt          \* the application finalizes a finished transfer at once

ASSUME SpiAssumption ==
    /\ {SspFifoSize, MaxWords, MinAsynchron, MaxShifts} \subseteq Nat \ {0}
    /\ SspPort \in {0, 1} /\ Prompt \in BOOLEAN

VARIABLES
    txFifo, shifter,    \* words to be sent; the one being shifted, or 0
    sspRxFifo,
    overrun,            \* a word found the receive FIFO full (RORRIM)
    words,              \* words of the block
    sndCount, recCount,
    maxCount,
    recData,            \* what was received
    finished,
    interrupt,          \* enabled: transmit FIFO at least half empty
    spiPc, caller,         \* of continueBlockTransfer()
    shifts              \* words shifted since the processor's last step

hardware == <<txFifo, shifter, sspRxFifo, overrun>>
block == <<words, sndCount, recCount, maxCount, recData, finished>>
spiVars == <<hardware, block, interrupt, spiPc, caller, shifts>>

SpiTypeOK ==
    /\ Len(txFifo) <= SspFifoSize /\ Len(sspRxFifo) <= SspFifoSize
    /\ shifter \in 0 .. MaxWords
    /\ words \in 0 .. MaxWords
    /\ sndCount \in 0 .. words /\ recCount \in sndCount .. words
    /\ maxCount \in 0 .. SspFifoSize
    /\ Len(recData) = words - recCount
    /\ {overrun, finished, interrupt} \subseteq BOOLEAN
    /\ spiPc \in {"idle", "send", "receive", "read", "return", "application"}
    /\ caller \in {"transferBlock", "asynchron", "interrupt", "finalize"}
    /\ shifts \in 0 .. MaxShifts

SpiInit ==
    /\ txFifo = <<>> /\ shifter = 0 /\ sspRxFifo = <<>> /\ overrun = FALSE
    /\ words = 0 /\ sndCount = 0 /\ recCount = 0 /\ maxCount = 0
    /\ recData = <<>> /\ finished = FALSE
    /\ interrupt = FALSE /\ spiPc = "idle" /\ caller = "transferBlock" /\ shifts = 0

-----------------------------------------------------------------------------
(* The controller *)

TNF == Len(txFifo) < SspFifoSize
RNE == sspRxFifo # <<>>
interruptPending == interrupt /\ 2 * Len(txFifo) <= SspFifoSize

\* The processor, its interrupt or the application is about to do something.
due == spiPc # "application" \/ interruptPending \/ (finished /\ Prompt)

\* A word has been shifted out and another one in.
Shift ==
    /\ due => shifts < MaxShifts
    /\ shifter # 0
    /\ IF Len(sspRxFifo) < SspFifoSize
         THEN sspRxFifo' = Append(sspRxFifo, shifter) /\ UNCHANGED overrun
         ELSE overrun' = TRUE /\ UNCHANGED sspRxFifo
    /\ IF txFifo = <<>> THEN shifter' = 0 /\ UNCHANGED txFifo
                        ELSE shifter' = Head(txFifo) /\ txFifo' = Tail(txFifo)
    /\ shifts' = IF due THEN shifts + 1 ELSE 0
    /\ UNCHANGED <<block, interrupt, spiPc, caller>>

\* The next word of sndData.
nextWord == words - sndCount + 1

\* DR is written, of port 0 whatever the object's port is.
writeDR ==
    IF SspPort # 0 THEN UNCHANGED <<txFifo, shifter>>
    ELSE IF shifter = 0 THEN shifter' = nextWord /\ UNCHANGED txFifo
    ELSE txFifo' = Append(txFifo, nextWord) /\ UNCHANGED shifter

\* An empty FIFO gives no word that was received.
readDR ==
    /\ IF RNE THEN sspRxFifo' = Tail(sspRxFifo) /\ recData' = Append(recData, Head(sspRxFifo))
              ELSE recData' = Append(recData, 0) /\ UNCHANGED sspRxFifo
    /\ recCount' = recCount - 1

-----------------------------------------------------------------------------
(* continueBlockTransfer() *)

Enter(c) == spiPc' = "send" /\ caller' = c /\ maxCount' = SspFifoSize

sendNext ==
    /\ writeDR
    /\ IF RNE THEN readDR ELSE UNCHANGED <<sspRxFifo, recData, recCount>>

SendLoop ==
    /\ spiPc = "send"
    /\ IF sndCount > 0 /\ TNF /\ maxCount > 0
         THEN /\ sendNext
              /\ sndCount' = sndCount - 1 /\ maxCount' = maxCount - 1
              /\ UNCHANGED spiPc
         ELSE spiPc' = "receive" /\ UNCHANGED <<hardware, sndCount, maxCount, recData, recCount>>
    /\ UNCHANGED <<overrun, words, finished, interrupt, caller>>

ReceiveLoop ==
    /\ spiPc = "receive"
    /\ IF recCount > 0 /\ RNE
         THEN spiPc' = "read" /\ UNCHANGED <<finished, interrupt>>
         ELSE /\ spiPc' = "return"
              /\ finished' = (finished \/ sndCount = 0)
              /\ interrupt' = (interrupt /\ sndCount # 0)
    /\ UNCHANGED <<hardware, words, sndCount, recCount, maxCount, recData, caller>>

ReadNext ==
    /\ spiPc = "read"
    /\ readDR
    /\ spiPc' = "receive"
    /\ UNCHANGED <<txFifo, shifter, overrun, words, sndCount, maxCount, finished,
                   interrupt, caller>>

-----------------------------------------------------------------------------
(* Its callers *)

\* transferBlock(): the receive FIFO is emptied first.
transferBlock(n, asynchron) ==
    /\ spiPc = "idle" /\ ~interruptPending
    /\ sspRxFifo' = <<>>
    /\ words' = n /\ sndCount' = n /\ recCount' = n /\ recData' = <<>>
    /\ finished' = FALSE
    /\ Enter(IF asynchron THEN "asynchron" ELSE "transferBlock")
    /\ UNCHANGED <<txFifo, shifter, overrun, interrupt>>

\* Operators named ...Bug are not part of the specification: each is a
\* plausible error in the code.
finalizeLoopBug == sndCount > 0

\* finalizeBlockTransfer()
finalizeLoop == recCount > 0

SpiReturn ==
    /\ spiPc = "return"
    /\ \/ /\ caller = "asynchron"
          /\ interrupt' = TRUE
          /\ spiPc' = "application" /\ UNCHANGED <<caller, maxCount>>
       \/ /\ caller = "interrupt"
          /\ spiPc' = "application" /\ UNCHANGED <<interrupt, caller, maxCount>>
       \/ /\ caller \in {"transferBlock", "finalize"}
          /\ IF finalizeLoop THEN Enter("finalize")
                             ELSE spiPc' = "idle" /\ UNCHANGED <<caller, maxCount>>
          /\ UNCHANGED interrupt
    /\ UNCHANGED <<hardware, words, sndCount, recCount, recData, finished>>

\* What is left for the interrupt when nothing has to be sent.
emptyFifo ==
    LET n == IF recCount < Len(sspRxFifo) THEN recCount ELSE Len(sspRxFifo)
    IN  /\ recData' = recData \o SubSeq(sspRxFifo, 1, n)
        /\ sspRxFifo' = SubSeq(sspRxFifo, n + 1, Len(sspRxFifo))
        /\ recCount' = recCount - n
        /\ finished' = TRUE /\ interrupt' = FALSE

\* SSP0_IRQHandler(): it finds finalizeBlockTransfer() running, or ended, if
\* the block was finished before the interrupt was enabled.
IRQHandler ==
    /\ interruptPending
    /\ spiPc \in {"application", "idle"} \/ caller = "finalize"
    /\ IF spiPc = "application"
         THEN Enter("interrupt") /\ UNCHANGED <<sspRxFifo, recCount, recData, finished, interrupt>>
         ELSE emptyFifo /\ UNCHANGED <<spiPc, caller, maxCount>>
    /\ UNCHANGED <<txFifo, shifter, overrun, words, sndCount>>

\* "After the finish flag has be set the user has to call the finalize
\* function"; an interrupt that is pending comes first.
finalizeBlockTransfer ==
    /\ spiPc = "application" /\ finished /\ ~interruptPending
    /\ IF finalizeLoop THEN Enter("finalize")
                       ELSE spiPc' = "idle" /\ UNCHANGED <<caller, maxCount>>
    /\ UNCHANGED <<hardware, words, sndCount, recCount, recData, finished, interrupt>>

SpiProcessor ==
    /\ SendLoop \/ ReceiveLoop \/ ReadNext \/ SpiReturn \/ IRQHandler
       \/ finalizeBlockTransfer
    /\ shifts' = 0

Start ==
    /\ \E n \in 1 .. MaxWords, asynchron \in BOOLEAN :
          (asynchron => n >= MinAsynchron) /\ transferBlock(n, asynchron)
    /\ shifts' = 0

SpiNext == SpiProcessor \/ Start \/ Shift

SpiSpec == SpiInit /\ [][SpiNext]_spiVars

\* The processor goes on, and the controller shifts what it has.
SpiFairness == WF_spiVars(SpiProcessor) /\ WF_spiVars(Shift)

(***************************************************************************)
(* Properties                                                              *)
(***************************************************************************)

\* "copy all received byes into the receive buffer" (spi.h): a block transfer
\* returns, with the words received in their order, none skipped and none
\* stored twice, however sending, receiving and the interrupt alternate.
BlockEnds == spiPc # "idle" ~> spiPc = "idle" /\ recData = [i \in 1 .. words |-> i]
=============================================================================

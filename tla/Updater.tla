------------------------------- MODULE Updater -------------------------------
(***************************************************************************)
(* An update of a device in full flash mode: the Selfbus Updater on the PC  *)
(* (Updater.java, DeviceManagement.java, FlashFullMode.java) and the        *)
(* bootloader it talks to.  Commands and their results get lost on the way,  *)
(* the power of the device fails, and the user starts an update that failed  *)
(* again.  The transport layer connection is not modelled: a lost telegram   *)
(* stands for whatever makes the management client of the updater report a   *)
(* timeout or a disconnect.                                                 *)
(***************************************************************************)
EXTENDS Bootloader

CONSTANTS
    Old, New,      \* the application of the device, and the one to program
    BlockCells,    \* the block size, with which UPD_PROGRAM is used
    Retries,       \* MAX_UPD_COMMAND_RETRY
    MaxLost,       \* bound: telegrams that get lost
    MaxFails       \* bound: power failures

ASSUME UpdaterAssumption ==
    /\ {Old, New} \subseteq DOMAIN Images /\ HasPlace(Old)
    /\ {BlockCells, Retries} \subseteq Nat \ {0}
    /\ BlockCells % PageCells = 0 /\ BlockCells <= BufferCells
    /\ {MaxLost, MaxFails} \subseteq Nat

VARIABLES
    step,      \* what Updater.run() is doing
    waiting,   \* sendUpdateData() is waiting for the result
    block,     \* the cells of the file that are programmed
    sentCells, \* nIndex of doFlash(): the cells of the block that were sent
    retry,     \* maxRetry of sendWithRetry()
    dropped,   \* dropCount or timeoutCount of the command is not 0
    lost, fails

runVars == <<step, block, sentCells>>
tryVars == <<waiting, retry, dropped>>
faults == <<lost, fails>>
updaterVars == <<bootVars, runVars, tryVars, faults>>

-----------------------------------------------------------------------------
(* The commands of an update, in their order *)

Length == Images[New].length
BlockLength == IF Length - block < BlockCells THEN Length - block ELSE BlockCells
BlockData == SubSeq(Code(New), block + 1, block + BlockLength)

Steps == {"unlock", "eraseFull", "erase", "send", "program", "sendDesc", "updateDesc"}
CommandOf ==
    CASE step = "unlock" -> [cmd |-> "UNLOCK_DEVICE"]
      [] step = "eraseFull" -> [cmd |-> "ERASE_COMPLETE_FLASH"]
      [] step = "erase" ->
           [cmd |-> "ERASE_ADDRESSRANGE", first |-> Images[New].first, count |-> Length]
      [] step = "send" -> [cmd |-> "SEND_DATA", data |-> << BlockData[sentCells + 1] >>]
      [] step = "program" ->
           [cmd |-> "PROGRAM", first |-> Images[New].first + block, count |-> BlockLength,
            data |-> BlockData]
      [] step = "sendDesc" ->
           [cmd |-> "SEND_DATA", data |-> << Descriptor(New)[sentCells + 1] >>]
      [] step = "updateDesc" ->
           [cmd |-> "UPDATE_BOOT_DESC", count |-> DescLength, data |-> Descriptor(New)]

\* A new command, with all of its attempts.
NextCommand(s) ==
    /\ step' = s
    /\ retry' = Retries /\ dropped' = FALSE /\ waiting' = FALSE

-----------------------------------------------------------------------------
(* The actions of the updater *)

\* Updater.run(): the device is asked to start its bootloader.
Begin ==
    /\ step \in {"idle", "failed"} /\ request = << >>
    /\ request' = << [cmd |-> "MASTER_RESET"] >>
    /\ answer' = << >>
    /\ NextCommand("unlock")
    /\ block' = 0 /\ sentCells' = 0
    /\ UNCHANGED <<flash, ramVars, mode, workVars, faults>>

SendCommand ==
    /\ step \in Steps /\ ~waiting /\ request = << >>
    /\ request' = << CommandOf >>
    /\ waiting' = TRUE
    /\ UNCHANGED <<flash, ramVars, mode, workVars, answer, runVars, retry, dropped, faults>>

\* An exception; restartProgrammingDevice() before it, or not.
Fail(restart) ==
    /\ NextCommand("failed")
    /\ request' = IF restart THEN << [cmd |-> "RESTART"] >> ELSE request
    /\ UNCHANGED <<block, sentCells>>

Continue(s) == NextCommand(s) /\ UNCHANGED <<request, block, sentCells>>

\* doFlash(): the cell is sent again if it took more than one attempt to have
\* it acknowledged.
sent(result, length, next) ==
    IF dropped THEN Continue(step)
      ELSE IF result # "SUCCESS" THEN Fail(TRUE)
      ELSE /\ NextCommand(IF sentCells + 1 < length THEN step ELSE next)
           /\ sentCells' = IF sentCells + 1 < length THEN sentCells + 1 ELSE 0
           /\ UNCHANGED <<request, block>>

\* doFullFlash(): a block of which not everything or too much was received is
\* sent again, but for the last one: the loop ends when the file is read, and
\* the descriptor follows though the block is not programmed.
FileIsRead == block + BlockLength >= Length
programmed(result) ==
    CASE result \in {"BYTECOUNT_TOO_LOW", "BYTECOUNT_TOO_HIGH"} ->
           Continue(IF FileIsRead THEN "sendDesc" ELSE "send")
      [] result = "COMPARE_ERROR" -> Fail(FALSE)
      [] result = "SUCCESS" ->
           /\ block' = block + BlockLength
           /\ NextCommand(IF FileIsRead THEN "sendDesc" ELSE "send")
           /\ UNCHANGED <<request, sentCells>>
      [] OTHER -> Fail(TRUE)

\* The last command: the device is restarted.
finished ==
    /\ request' = << [cmd |-> "RESTART"] >>
    /\ NextCommand("done")
    /\ UNCHANGED <<block, sentCells>>

GetResult ==
    /\ step \in Steps /\ waiting /\ answer # << >> /\ request = << >>
    /\ answer' = << >>
    /\ LET result == answer[1]
       IN CASE step = "send" -> sent(result, BlockLength, "program")
            [] step = "sendDesc" -> sent(result, DescLength, "updateDesc")
            [] step = "program" -> programmed(result)
            [] result # "SUCCESS" /\ step \notin {"send", "sendDesc", "program"} -> Fail(TRUE)
            [] step = "unlock" /\ result = "SUCCESS" ->
                 Continue("erase") \/ Continue("eraseFull")
            [] step \in {"erase", "eraseFull"} /\ result = "SUCCESS" -> Continue("send")
            [] step = "updateDesc" /\ result = "SUCCESS" -> finished
    /\ UNCHANGED <<flash, ramVars, mode, workVars, faults>>

\* The time a response may take is longer than any command does.
NoResult ==
    /\ step \in Steps /\ waiting
    /\ request = << >> /\ answer = << >> /\ calls = << >>
    /\ IF retry > 1
         THEN /\ retry' = retry - 1 /\ dropped' = TRUE /\ waiting' = FALSE
              /\ UNCHANGED <<request, runVars>>
         ELSE Fail(FALSE)
    /\ UNCHANGED <<flash, ramVars, mode, workVars, answer, faults>>

-----------------------------------------------------------------------------
(* Faults *)

\* Losing the last restart is an exception: it is acknowledged, not answered.
Lose ==
    /\ lost < MaxLost
    /\ step' = IF step = "done" THEN "failed" ELSE step
    /\ \/ request # << >> /\ request' = << >> /\ UNCHANGED answer
       \/ answer # << >> /\ answer' = << >> /\ UNCHANGED request
    /\ lost' = lost + 1
    /\ UNCHANGED <<flash, ramVars, mode, workVars, block, sentCells, tryVars, fails>>

PowerFailure ==
    /\ fails < MaxFails
    /\ fails' = fails + 1
    /\ PowerFail
    /\ UNCHANGED <<runVars, tryVars, lost>>

Device == BootloaderNext /\ UNCHANGED <<runVars, tryVars, faults>>
PowerOn == PowerUp /\ UNCHANGED <<runVars, tryVars, faults>>

UpdaterInit ==
    /\ BootloaderInit(Old)
    /\ step = "idle" /\ block = 0 /\ sentCells = 0
    /\ waiting = FALSE /\ retry = Retries /\ dropped = FALSE
    /\ lost = 0 /\ fails = 0

Client == Begin \/ SendCommand \/ GetResult \/ NoResult
Next == Client \/ Device \/ PowerOn \/ Lose \/ PowerFailure

UpdaterSpec == UpdaterInit /\ [][Next]_updaterVars

\* The device and the updater go on, the user switches the device on and
\* starts a failed update again.
UpdaterFairness ==
    WF_updaterVars(Device) /\ WF_updaterVars(PowerOn) /\ WF_updaterVars(Client)

-----------------------------------------------------------------------------
(* Properties *)

UpdaterTypeOK ==
    /\ BootloaderTypeOK
    /\ step \in Steps \cup {"idle", "failed", "done"}
    /\ waiting \in BOOLEAN /\ dropped \in BOOLEAN
    /\ block \in 0 .. Length
    /\ sentCells \in 0 .. BlockCells
    /\ retry \in 1 .. Retries
    /\ lost \in 0 .. MaxLost /\ fails \in 0 .. MaxFails

\* What the updater counts as programmed is in the flash, whatever was lost,
\* repeated and sent twice on the way, and whenever the power failed.
CountedIsProgrammed ==
    step \in Steps =>
        FlashContent(Images[New].first, block) = SubSeq(Code(New), 1, block)

\* An update that reports success leaves a device that starts the new
\* application.
DoneStartsNew ==
    step = "done" =>
        /\ FlashContent(bootDescriptorBlockAddress, DescLength) = Descriptor(New)
        /\ FlashContent(Images[New].first, Length) = Code(New)
        /\ mode \in {"off", "bootloader", New}

\* With telegrams lost and the power failing a number of times, an update that
\* is started again whenever it failed ends with the new application running.
EventuallyNew == <>[](mode = New)
=============================================================================

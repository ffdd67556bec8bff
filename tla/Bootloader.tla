------------------------------ MODULE Bootloader ------------------------------
(***************************************************************************)
(* The bootloader of firmware_updater/bootloader: the commands that change  *)
(* the flash (update.cpp, flash.cpp) and the choice, at every start, between *)
(* the application and the bootloader (bootloader.cpp,                      *)
(* boot_descriptor_block.cpp).  The power may fail at any time.             *)
(*                                                                         *)
(* The flash is an array of cells, each of them the data of one telegram; a *)
(* page has PageCells of them.  A checksum is modelled by the cells it is    *)
(* computed from: two different contents never have the same one.  One call *)
(* of the IAP functions of the flash is one step.                           *)
(***************************************************************************)
EXTENDS Integers, Sequences, FiniteSetsExt

CONSTANTS
    PageCells,     \* FLASH_PAGE_SIZE
    SectorPages,   \* FLASH_SECTOR_SIZE / FLASH_PAGE_SIZE
    Sectors,       \* the flash has that many sectors
    BootCells,     \* _image_size, the cells of the bootloader
    BufferCells,   \* the size of ramBuffer
    BlockPages,    \* the sizes one iapProgram() may have, in pages
    Images         \* the applications: name -> [first, length], in cells

\* The descriptor of an application takes two telegrams.
DescLength == 2

ASSUME BootloaderAssumption ==
    /\ {PageCells, SectorPages, Sectors, BootCells, BufferCells} \subseteq Nat \ {0}
    /\ BlockPages \subseteq Nat \ {0}
    /\ 1 \in BlockPages /\ DescLength <= PageCells /\ PageCells <= BufferCells
    /\ DOMAIN Images \cap {"off", "bootloader"} = {}
    /\ \A name \in DOMAIN Images : {Images[name].first, Images[name].length} \subseteq Nat \ {0}

VARIABLES
    flash,             \* what each cell holds
    ramBuffer,
    ramBufferPositon,  \* cells received (spelt as in update.cpp)
    deviceLocked,
    mode,              \* "off", "bootloader", or the application that runs
    calls,             \* the calls of IAP functions the command has left
    command,           \* the command that is being handled
    request,           \* the telegram to the bootloader: at most one
    answer             \* the result, on its way to the updater: at most one

ramVars == <<ramBuffer, ramBufferPositon, deviceLocked>>
workVars == <<calls, command>>
busVars == <<request, answer>>
bootVars == <<flash, ramVars, mode, workVars, busVars>>

-----------------------------------------------------------------------------
(* What the flash holds *)

SectorCells == SectorPages * PageCells
FlashCells == Sectors * SectorCells
LastCell == FlashCells - 1
Addresses == 0 .. LastCell
PageOf(cell) == cell \div PageCells
SectorOf(cell) == cell \div SectorCells

Erased == <<"erased", "", 0>>
Garbage == <<"garbage", "", 0>>
Unset == <<"unset", "", 0>>       \* what the RAM holds before anything is received
BootCell(i) == <<"boot", "", i>>
AppCell(name, i) == <<"app", name, i>>
DescCell(name, i) == <<"desc", name, i>>

Descriptor(name) == [i \in 1 .. DescLength |-> DescCell(name, i)]
Code(name) == [i \in 1 .. Images[name].length |-> AppCell(name, i)]

Contents ==
    {Erased, Garbage, Unset} \cup {BootCell(i) : i \in 1 .. BootCells}
        \cup UNION {{AppCell(name, i) : i \in 1 .. Images[name].length}
                      \cup {DescCell(name, i) : i \in 1 .. DescLength} : name \in DOMAIN Images}

\* The first page behind the bootloader and one page for the descriptor.
applicationFirstAddress ==
    ((BootCells + PageCells + PageCells - 1) \div PageCells) * PageCells
bootDescriptorBlockAddress == applicationFirstAddress - PageCells

\* The n cells of the flash from first on.
FlashContent(first, n) == [i \in 1 .. n |-> flash[first + i - 1]]

-----------------------------------------------------------------------------
(* Erasing (flash.cpp) *)

\* Operators named ...Bug are not part of the specification: each is a way
\* to get the definition after it wrong.
addressAllowedToProgramBug(first, length, isBootDescriptor) ==
    /\ first % PageCells = 0
    /\ length # 0
    /\ IF isBootDescriptor
         THEN first + length - 1 < applicationFirstAddress
         ELSE first + length - 1 <= LastCell
addressAllowedToProgram(first, length, isBootDescriptor) ==
    /\ first % PageCells = 0
    /\ length # 0
    /\ IF isBootDescriptor
         THEN /\ first >= bootDescriptorBlockAddress
              /\ first + length - 1 < applicationFirstAddress
         ELSE /\ first >= applicationFirstAddress
              /\ first + length - 1 <= LastCell

pageAllowedToErase(p) == PageOf(BootCells - 1) < p /\ p <= PageOf(LastCell)
sectorAllowedToErase(s) == SectorOf(BootCells - 1) < s /\ s <= SectorOf(LastCell)

\* The cells that a call is for
CallCells(call) == call.first .. call.last

\* One call each: the cells it changes and whether it is allowed.
erasePageRange(start, end) ==
    [op |-> "erase", first |-> start * PageCells, last |-> (end + 1) * PageCells - 1,
     allowed |-> pageAllowedToErase(start) /\ pageAllowedToErase(end)]
eraseSectorRange(start, end) ==
    [op |-> "erase", first |-> start * SectorCells, last |-> (end + 1) * SectorCells - 1,
     allowed |-> sectorAllowedToErase(start) /\ sectorAllowedToErase(end)]

\* Pages up to the first sector limit, pages behind the last one, and the
\* sectors between them.
eraseAddressRangeBug(first, last) ==
    LET aligned == first % SectorCells = 0
        startSector == IF aligned THEN SectorOf(first) ELSE SectorOf(first) + 1
        tail == SectorOf(last) * SectorPages
        lastPageInSector == PageOf(last) - tail + 1 = SectorPages
        endSector == SectorOf(last) - 1
    IN IF PageOf(last) - PageOf(first) + 1 < SectorPages
         THEN << erasePageRange(PageOf(first), PageOf(last)) >>
         ELSE (IF aligned THEN << >>
                 ELSE << erasePageRange(PageOf(first), startSector * SectorPages - 1) >>)
              \o (IF lastPageInSector THEN << >>
                    ELSE << erasePageRange(tail, PageOf(last)) >>)
              \o (IF startSector <= endSector
                    THEN << eraseSectorRange(startSector, endSector) >> ELSE << >>)
eraseAddressRange(first, last) ==
    LET aligned == first % SectorCells = 0
        startSector == IF aligned THEN SectorOf(first) ELSE SectorOf(first) + 1
        tail == SectorOf(last) * SectorPages       \* the first page of the last sector
        lastPageInSector == PageOf(last) - tail + 1 = SectorPages
        endSector == IF lastPageInSector THEN SectorOf(last) ELSE SectorOf(last) - 1
    IN IF PageOf(last) - PageOf(first) + 1 < SectorPages
         THEN << erasePageRange(PageOf(first), PageOf(last)) >>
         ELSE (IF aligned THEN << >>
                 ELSE << erasePageRange(PageOf(first), startSector * SectorPages - 1) >>)
              \o (IF lastPageInSector THEN << >>
                    ELSE << erasePageRange(tail, PageOf(last)) >>)
              \o (IF startSector <= endSector
                    THEN << eraseSectorRange(startSector, endSector) >> ELSE << >>)

eraseFullFlash == eraseAddressRange((PageOf(BootCells - 1) + 1) * PageCells, LastCell)

-----------------------------------------------------------------------------
(* Programming (update.cpp) *)

\* One call of iapProgram() with cells of ramBuffer from the position after
\* from on.
programCall(first, size, from, isBootDescriptor) ==
    [op |-> "program", first |-> first, last |-> first + size - 1, from |-> from,
     allowed |-> addressAllowedToProgram(first, size, isBootDescriptor)]

\* The size of the block that is programmed when n cells are left, the largest
\* that fits or a whole page, and how many are left then.
blockSize(n) ==
    LET fits == {size \in {b * PageCells : b \in BlockPages} : size <= n /\ size <= BufferCells}
    IN IF fits = {} THEN PageCells ELSE Max(fits)
afterBlock(n) == IF blockSize(n) < n THEN n - blockSize(n) ELSE 0

ProgramCallsBug(first, count) ==
    LET rest[n \in 0 .. count] ==
          IF n < PageCells THEN << >>
            ELSE << programCall(first + count - n, blockSize(n), count - n, FALSE) >>
                 \o rest[afterBlock(n)]
    IN rest[count]
ProgramCalls(first, count) ==
    LET rest[n \in 0 .. count] ==
          IF n = 0 THEN << >>
            ELSE << programCall(first + count - n, blockSize(n), count - n, FALSE) >>
                 \o rest[afterBlock(n)]
    IN rest[count]

\* Cells the calls write to are compared with the RAM afterwards: programming
\* cells that are not erased, with anything but what they hold, fails.
Programmed(call) ==
    [c \in CallCells(call) |->
        LET new == ramBuffer[call.from + c - call.first + 1]
        IN IF flash[c] \in {Erased, new} THEN new ELSE Garbage]

-----------------------------------------------------------------------------
(* The commands *)

NoCommand == [cmd |-> "NONE"]
Send(result) == answer' = << result >>

\* A command that is answered without touching the flash.
Answered(result) == Send(result) /\ UNCHANGED <<flash, workVars>>

\* A command that calls IAP functions, answered when the last one is done;
\* the bus is paused in between.
Starts(list) ==
    /\ calls' = list
    /\ command' = request[1]
    /\ UNCHANGED <<flash, answer>>

resetRAMBuffer == ramBufferPositon' = 0

\* The device is addressed by the UID that it was asked for.
updUnlockDevice ==
    /\ deviceLocked' = FALSE
    /\ resetRAMBuffer
    /\ Answered("SUCCESS")
    /\ UNCHANGED ramBuffer

updSendData ==
    LET c == request[1]
    IN IF ramBufferPositon + 1 > BufferCells
         THEN Answered("RAM_BUFFER_OVERFLOW") /\ UNCHANGED ramVars
         ELSE /\ ramBuffer' = [ramBuffer EXCEPT ![ramBufferPositon + 1] = c.data[1]]
              /\ ramBufferPositon' = ramBufferPositon + 1
              /\ Answered("SUCCESS")
              /\ UNCHANGED deviceLocked

ReceivedIs(data) == SubSeq(ramBuffer, 1, Len(data)) = data

\* The buffer is reset at once here, and after the last call in the code.
updProgram ==
    LET c == request[1]
        refused(result) == Answered(result) /\ UNCHANGED ramBufferPositon
    IN /\ IF ~addressAllowedToProgram(c.first, c.count, FALSE) THEN refused("ADDRESS_NOT_ALLOWED")
          ELSE IF c.count > BufferCells THEN refused("RAM_BUFFER_OVERFLOW")
          ELSE IF ramBufferPositon > c.count THEN Answered("BYTECOUNT_TOO_HIGH") /\ resetRAMBuffer
          ELSE IF ramBufferPositon < c.count THEN Answered("BYTECOUNT_TOO_LOW") /\ resetRAMBuffer
          ELSE IF ~ReceivedIs(c.data) THEN refused("CRC_ERROR")
          ELSE Starts(ProgramCalls(c.first, c.count)) /\ resetRAMBuffer
       /\ UNCHANGED <<ramBuffer, deviceLocked>>

updEraseAddressRange ==
    LET c == request[1]
    IN /\ IF addressAllowedToProgram(c.first, c.count, FALSE)
            THEN Starts(eraseAddressRange(c.first, c.first + c.count - 1))
            ELSE Answered("RANGE_NOT_ALLOWED")
       /\ resetRAMBuffer
       /\ UNCHANGED <<ramBuffer, deviceLocked>>

updEraseFullFlash ==
    /\ Starts(eraseFullFlash)
    /\ resetRAMBuffer
    /\ UNCHANGED <<ramBuffer, deviceLocked>>

HasPlace(name) ==
    /\ Images[name].first \in applicationFirstAddress .. LastCell
    /\ Images[name].first + Images[name].length - 1 <= LastCell
    /\ Images[name].length > 1

\* A descriptor as it stands in cells: startable if it describes an
\* application whose cells are all there.
checkApplicationBug(cells) ==
    \E name \in DOMAIN Images : cells = Descriptor(name)
checkApplication(cells) ==
    \E name \in DOMAIN Images :
        /\ cells = Descriptor(name)
        /\ HasPlace(name)
        /\ FlashContent(Images[name].first, Images[name].length) = Code(name)

\* The result of UPD_UPDATE_BOOT_DESC once the descriptor is in the flash.
DescriptorResult ==
    IF checkApplication(SubSeq(ramBuffer, 1, DescLength)) THEN "SUCCESS"
      ELSE "APPLICATION_NOT_STARTABLE"

\* The buffer keeps what it holds: a repeated command finds it again.
updUpdateBootDescriptorBlock ==
    LET c == request[1]
        page == PageOf(bootDescriptorBlockAddress)
    IN /\ IF c.count > BufferCells THEN Answered("RAM_BUFFER_OVERFLOW")
          ELSE IF ~ReceivedIs(c.data) THEN Answered("CRC_ERROR")
          ELSE IF FlashContent(bootDescriptorBlockAddress, c.count) = c.data
            THEN Answered(DescriptorResult)
          ELSE Starts(<< erasePageRange(page, page),
                         programCall(bootDescriptorBlockAddress, PageCells, 0, TRUE) >>)
       /\ UNCHANGED ramVars

-----------------------------------------------------------------------------
(* The actions of the bootloader *)

\* handleApciUsermsgManufacturerInternal(), for one command.
Handle(cmd, handler) ==
    /\ mode = "bootloader" /\ calls = << >> /\ answer = << >>
    /\ request # << >> /\ request[1].cmd = cmd
    /\ request' = << >>
    /\ IF deviceLocked /\ cmd # "UNLOCK_DEVICE"
         THEN Answered("DEVICE_LOCKED") /\ UNCHANGED ramVars
         ELSE handler
    /\ UNCHANGED mode

HandleCommand ==
    \/ Handle("UNLOCK_DEVICE", updUnlockDevice)
    \/ Handle("SEND_DATA", updSendData)
    \/ Handle("PROGRAM", updProgram)
    \/ Handle("ERASE_ADDRESSRANGE", updEraseAddressRange)
    \/ Handle("ERASE_COMPLETE_FLASH", updEraseFullFlash)
    \/ Handle("UPDATE_BOOT_DESC", updUpdateBootDescriptorBlock)

\* The result of the command whose last call was successful.
FinalResult ==
    IF command.cmd = "UPDATE_BOOT_DESC" THEN DescriptorResult ELSE "SUCCESS"

\* A call that is not allowed, or after which the flash differs from the RAM,
\* ends the command.
Refuse(result) == Send(result) /\ calls' = << >>

FlashCall ==
    /\ mode = "bootloader" /\ calls # << >>
    /\ LET call == Head(calls)
       IN IF ~call.allowed THEN Refuse("NOT_ALLOWED") /\ UNCHANGED flash
          ELSE IF call.op = "erase" THEN
             /\ flash' = [c \in Addresses |-> IF c \in CallCells(call) THEN Erased ELSE flash[c]]
             /\ calls' = Tail(calls)
             /\ IF Tail(calls) = << >> THEN Send("SUCCESS") ELSE UNCHANGED answer
          ELSE
             /\ flash' = [c \in Addresses |-> IF c \in CallCells(call) THEN Programmed(call)[c]
                                              ELSE flash[c]]
             /\ IF \E c \in CallCells(call) : Programmed(call)[c] = Garbage
                  THEN Refuse("COMPARE_ERROR")
                  ELSE /\ calls' = Tail(calls)
                       /\ IF Tail(calls) = << >> THEN Send(FinalResult) ELSE UNCHANGED answer
    /\ command' = IF calls' = << >> THEN NoCommand ELSE command
    /\ UNCHANGED <<ramVars, mode, request>>

\* startup(): the application if the descriptor in the flash is one of an
\* application that is complete.
Startup ==
    mode' = IF checkApplication(FlashContent(bootDescriptorBlockAddress, DescLength))
              THEN flash[bootDescriptorBlockAddress][2]
              ELSE "bootloader"

ramLost ==
    /\ ramBuffer' = [i \in 1 .. BufferCells + PageCells |-> Unset]
    /\ ramBufferPositon' = 0
    /\ deviceLocked' = TRUE
    /\ calls' = << >>
    /\ command' = NoCommand

\* APCI_BASIC_RESTART_PDU, which has no answer.
BasicRestart ==
    /\ mode = "bootloader" /\ calls = << >>
    /\ request # << >> /\ request[1].cmd = "RESTART"
    /\ request' = << >>
    /\ ramLost
    /\ Startup
    /\ UNCHANGED <<flash, answer>>

\* The application restarts into the bootloader, as the updater asked it to:
\* it leaves the magic word behind.
MasterReset ==
    /\ mode \in DOMAIN Images
    /\ request # << >> /\ request[1].cmd = "MASTER_RESET"
    /\ request' = << >>
    /\ mode' = "bootloader"
    /\ UNCHANGED <<flash, ramVars, workVars, answer>>

\* What is sent to a device that does not understand it, or is not there.
Unheard ==
    /\ request # << >>
    /\ \/ mode = "off"
       \/ mode \in DOMAIN Images /\ request[1].cmd # "MASTER_RESET"
       \/ mode = "bootloader" /\ (calls # << >> \/ request[1].cmd = "MASTER_RESET")
    /\ request' = << >>
    /\ UNCHANGED <<flash, ramVars, mode, workVars, answer>>

\* The power fails: the call in progress has changed some of its cells.
PowerFail ==
    /\ mode # "off"
    /\ mode' = "off"
    /\ IF calls = << >> \/ ~calls[1].allowed
         THEN UNCHANGED flash
         ELSE \E upto \in calls[1].first .. calls[1].last + 1 :
                flash' = [c \in Addresses |->
                            IF c \notin CallCells(calls[1]) \/ c > upto THEN flash[c]
                              ELSE IF c = upto THEN Garbage
                              ELSE IF calls[1].op = "erase" THEN Erased
                              ELSE Programmed(calls[1])[c]]
    /\ ramLost
    /\ answer' = << >>
    /\ UNCHANGED request

PowerUp ==
    /\ mode = "off"
    /\ Startup
    /\ UNCHANGED <<flash, ramVars, workVars, busVars>>

BootloaderNext == HandleCommand \/ FlashCall \/ BasicRestart \/ MasterReset \/ Unheard

\* A device with the application name, which runs.
BootloaderInit(name) ==
    /\ flash = [c \in Addresses |->
                  CASE c < BootCells -> BootCell(c + 1)
                    [] c - bootDescriptorBlockAddress \in 0 .. DescLength - 1 ->
                         DescCell(name, c - bootDescriptorBlockAddress + 1)
                    [] c - Images[name].first \in 0 .. Images[name].length - 1 ->
                         AppCell(name, c - Images[name].first + 1)
                    [] OTHER -> Erased]
    /\ ramBuffer = [i \in 1 .. BufferCells + PageCells |-> Unset]
    /\ ramBufferPositon = 0
    /\ deviceLocked = TRUE
    /\ mode = name
    /\ calls = << >> /\ command = NoCommand
    /\ request = << >> /\ answer = << >>

-----------------------------------------------------------------------------
(* The device with a partner that sends what it likes, over a bus that loses  *)
(* what it likes.  The telegrams of the updater are some of these.           *)

Telegrams ==
    [cmd : {"UNLOCK_DEVICE", "ERASE_COMPLETE_FLASH", "RESTART", "MASTER_RESET"}]
      \cup [cmd : {"SEND_DATA"}, data : {<< cell >> : cell \in Contents}]
      \cup [cmd : {"ERASE_ADDRESSRANGE"}, first : Nat, count : Nat]
      \cup [cmd : {"PROGRAM"}, first : Nat, count : Nat, data : Seq(Contents)]
      \cup [cmd : {"UPDATE_BOOT_DESC"}, count : Nat, data : Seq(Contents)]

AnyPartner ==
    /\ request' \in {request, << >>} \cup {<< c >> : c \in Telegrams}
    /\ answer' \in {answer, << >>}
    /\ UNCHANGED <<flash, ramVars, mode, workVars>>

BootInit == \E name \in DOMAIN Images : HasPlace(name) /\ BootloaderInit(name)
BootNext == BootloaderNext \/ PowerFail \/ PowerUp \/ AnyPartner
BootSpec == BootInit /\ [][BootNext]_bootVars

-----------------------------------------------------------------------------
(* Properties *)

BootloaderTypeOK ==
    /\ flash \in [Addresses -> Contents]
    /\ ramBuffer \in [1 .. BufferCells + PageCells -> Contents]
    /\ ramBufferPositon \in 0 .. BufferCells
    /\ deviceLocked \in BOOLEAN
    /\ mode \in {"off", "bootloader"} \cup DOMAIN Images
    /\ Len(calls) <= FlashCells
    /\ Len(request) <= 1 /\ Len(answer) <= 1

\* Whatever the updater sends and whenever the power fails, the flash of the
\* bootloader itself stays as it is: a device that can not start its
\* application can still be updated.
BootloaderKept == \A c \in 0 .. BootCells - 1 : flash[c] = BootCell(c + 1)

\* A range that is erased page by page, sector by sector and page by page is
\* erased by calls that are all allowed, take no cell twice and together
\* take the pages of the range and nothing else.
ErasesTheRange ==
    (calls = << >> /\ calls' # << >> /\ command'.cmd = "ERASE_ADDRESSRANGE")
      => LET last == command'.first + command'.count - 1
         IN /\ UNION {CallCells(calls'[i]) : i \in DOMAIN calls'}
                 = {c \in Addresses : PageOf(c) \in PageOf(command'.first) .. PageOf(last)}
            /\ \A i \in DOMAIN calls' : calls'[i].allowed
            /\ \A i, j \in DOMAIN calls' :
                 i # j => CallCells(calls'[i]) \cap CallCells(calls'[j]) = {}

\* The programmed block is cut into calls of sizes iapProgram() accepts,
\* which together take the pages of the block and read what was received.
ProgramsTheBlock ==
    (calls = << >> /\ calls' # << >> /\ command'.cmd = "PROGRAM")
      => LET last == command'.first + command'.count - 1
         IN /\ UNION {CallCells(calls'[i]) : i \in DOMAIN calls'}
                 = {c \in Addresses : PageOf(c) \in PageOf(command'.first) .. PageOf(last)}
            /\ \A i \in DOMAIN calls' :
                 /\ calls'[i].allowed
                 /\ calls'[i].from = calls'[i].first - command'.first
                 /\ (calls'[i].last - calls'[i].first + 1) \div PageCells \in BlockPages

\* Whatever was erased, programmed or left half done before, an application
\* is started only if it is one that was built, and complete.
StartsOnlyWhole ==
    mode \in DOMAIN Images
      => FlashContent(Images[mode].first, Images[mode].length) = Code(mode)

\* The calls that a command to erase or to program is cut into are all allowed
\* and together take the pages of its range, each once, and no others.
CommandsKeepToRange == [][ErasesTheRange /\ ProgramsTheBlock]_bootVars

=============================================================================

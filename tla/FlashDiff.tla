------------------------------ MODULE FlashDiff ------------------------------
(***************************************************************************)
(* An update in differential mode: the updater (FlashDiff.java,             *)
(* FlashDiffMode.java) sends, page by page, commands that build the new     *)
(* page from bytes of the old flash, of the last pages it has overwritten,  *)
(* and from raw bytes; the bootloader executes them (decompressor.cpp,      *)
(* update.cpp).  Both sides keep their own record of what the flash and the *)
(* overwritten pages hold.  A checksum is modelled by what it is made of.   *)
(***************************************************************************)
EXTENDS Integers, Sequences, FiniteSetsExt, SequencesExt

CONSTANTS
    PageSize,       \* FLASH_PAGE_SIZE
    WindowPages,    \* REMEMBER_OLD_PAGES_COUNT, OldWindow.PAGES
    MinPattern,     \* MINIMUM_PATTERN_LENGTH
    MaxCopy,        \* MAX_COPY_LENGTH
    Bytes,          \* values of a byte, 0 among them
    ErasedByte,     \* what is in the flash behind the old application
    RomPages,       \* the pages of the flash from the application on
    OldLengths, NewLengths,
    MaxFaults       \* bound: power failures and lost answers

ASSUME FlashDiffAssumption ==
    /\ {PageSize, WindowPages, MinPattern, MaxCopy, RomPages} \subseteq Nat \ {0}
    /\ {0, ErasedByte} \subseteq Bytes /\ Bytes \subseteq Nat
    /\ OldLengths \cup NewLengths \subseteq 1 .. RomPages * PageSize
    /\ MaxFaults \in Nat

VARIABLES
    old, new,      \* the images: the one the boot descriptor tells of, the one to program
    img1, window,  \* the updater's record of the flash and of the overwritten pages
    page,          \* the updater's page
    phase,         \* what the updater does
    rom, oldPages, \* the flash from the application on and the RAM copy of overwritten pages
    scratchpad,    \* the bytes of the page the bootloader builds
    romPage,       \* startAddrOfPageToBeFlashed, as a page
    diffFaults

images == <<old, new>>
client == <<img1, window, page, phase>>
device == <<rom, oldPages, scratchpad, romPage>>
diffVars == <<images, client, device, diffFaults>>

Least(m, n) == IF m <= n THEN m ELSE n
Zeros(n) == [i \in 1..n |-> 0]
DiffGarbage == -1

\* Arrays.copyOf(): truncated or filled with zeros
copyOf(s, n) == [i \in 1..n |-> IF i <= Len(s) THEN s[i] ELSE 0]

Pages(n) == (n + PageSize - 1) \div PageSize
RomSize == RomPages * PageSize
PageStart(p) == p * PageSize
DiffPageCells(p) == PageStart(p) + 1 .. PageStart(p) + PageSize
DiffPageOf(s, p) == SubSeq(s, PageStart(p) + 1, Least(PageStart(p) + PageSize, Len(s)))

-----------------------------------------------------------------------------
(* The updater: generateDiff() *)

\* How many bytes of src from offset s on are those of the new image from i on
common(src, s, i) ==
    Max({n \in 0 .. Min({Len(src) - s, Len(new) - i, MaxCopy}) :
            \A j \in 1..n : src[s + j] = new[i + j]})

\* letLongestCommonBytes(), cut at the end of the destination page
letLongestCommonBytes(src, i) ==
    LET n == Max({common(src, s, i) : s \in 0 .. Len(src) - 1})
    IN [offset |-> Min({s \in 0 .. Len(src) - 1 : common(src, s, i) = n}),
        length |-> Least(n, PageSize - (i % PageSize))]

\* A copy of the most bytes that either side has, from byte i of the image on
longestCopy(i) ==
    LET ram == letLongestCommonBytes(window, i)
        flash == letLongestCommonBytes(img1, i)
        best == IF flash.length > ram.length THEN flash ELSE ram
    IN [cmd |-> "COPY", source |-> IF flash.length > ram.length THEN "ROM" ELSE "RAM",
        at |-> best.offset, length |-> best.length]
commandAt(i) ==
    LET copy == longestCopy(i)
    IN IF copy.length >= MinPattern THEN copy ELSE [cmd |-> "RAW", data |-> << new[i + 1] >>]
bytesOf(c) == IF c.cmd = "RAW" THEN 1 ELSE c.length

\* The commands of a page
Commands(p) ==
    LET end == PageStart(p) + Len(DiffPageOf(new, p))
        from[i \in PageStart(p) .. end] ==
          IF i = end THEN << >>
            ELSE LET c == commandAt(i) IN << c >> \o from[i + bytesOf(c)]
    IN from[PageStart(p)]

\* The record the updater keeps of the page that was programmed
fillNextPage == SubSeq(window, PageSize + 1, Len(window))
                \o SubSeq(img1, PageStart(page) + 1, PageStart(page) + PageSize)
img1WithPage == [i \in 1 .. Len(img1) |-> IF i \in DiffPageCells(page) THEN new[i] ELSE img1[i]]

-----------------------------------------------------------------------------
(* The bootloader: Decompressor *)

\* putByte(), for the bytes of a command
execute(c) ==
    IF c.cmd = "RAW" THEN c.data
    ELSE LET source == IF c.source = "RAM" THEN oldPages ELSE rom
         IN SubSeq(source, c.at + 1, c.at + c.length)

executeAll(cmds) == FlattenSeq([k \in 1 .. Len(cmds) |-> execute(cmds[k])])

DeviceReset ==
    /\ scratchpad' = << >> /\ romPage' = 0
    /\ oldPages' = Zeros(WindowPages * PageSize)

\* Bytes that are equal are not programmed; a page is programmed as a whole,
\* zeros behind the end of the image.
pagesProgrammed ==
    LET equal == SubSeq(rom, PageStart(romPage) + 1, PageStart(romPage) + Len(scratchpad)) = scratchpad
    IN [i \in 1 .. RomSize |->
          IF i \in DiffPageCells(romPage) /\ ~equal
            THEN copyOf(scratchpad, PageSize)[i - PageStart(romPage)] ELSE rom[i]]

pageCompletedDoFlash ==
    /\ rom' = pagesProgrammed
    /\ oldPages' = SubSeq(oldPages, PageSize + 1, Len(oldPages)) \o DiffPageOf(rom, romPage)
    /\ scratchpad' = << >>
    /\ romPage' = romPage + 1

\* Operators named ...Bug are not part of the specification: each is a
\* plausible error in the code.
crcMatchesBug(expected) == TRUE

\* UPD_PROGRAM_DECOMPRESSED_DATA with the checksum of the bytes expected
crcMatches(expected) == scratchpad = expected

-----------------------------------------------------------------------------
(* The actions *)

DiffInit ==
    /\ \E n \in OldLengths : old \in [1..n -> Bytes]
    /\ \E n \in NewLengths : new \in [1..n -> Bytes]
    /\ rom = [i \in 1 .. RomSize |-> IF i <= Len(old) THEN old[i] ELSE ErasedByte]
    /\ oldPages = Zeros(WindowPages * PageSize)
    /\ scratchpad = << >> /\ romPage = 0
    /\ img1 = << >> /\ window = << >> /\ page = 0
    /\ phase = "idle" /\ diffFaults = 0

\* doDifferentialFlash(): the boot descriptor still tells of the old image.
\* The device was restarted into its bootloader.
BeginUpgrade ==
    /\ phase \in {"idle", "failed"}
    /\ phase' = "send"
    /\ img1' = copyOf(old, Len(new))
    /\ window' = Zeros(WindowPages * PageSize)
    /\ page' = 0
    /\ DeviceReset
    /\ UNCHANGED <<images, rom, diffFaults>>

\* The commands of a page; the answer to one of them may be lost, the updater
\* sends it again, and the bootloader executes it again.
SendPage ==
    /\ phase = "send"
    /\ \E again \in {0} \cup (IF diffFaults < MaxFaults THEN 1 .. Len(Commands(page)) ELSE {}) :
         LET cmds == Commands(page)
             received == IF again = 0 THEN cmds ELSE SubSeq(cmds, 1, again) \o SubSeq(cmds, again, Len(cmds))
         IN /\ scratchpad' = scratchpad \o executeAll(received)
            /\ diffFaults' = diffFaults + (IF again = 0 THEN 0 ELSE 1)
    /\ phase' = "program"
    /\ UNCHANGED <<images, img1, window, page, rom, oldPages, romPage>>

\* The page is programmed, and the updater brings its records up to date; on
\* an error it restarts the device and gives up.
NextPage ==
    /\ page' = page + 1
    /\ phase' = IF PageStart(page + 1) >= Len(new) THEN "descriptor" ELSE "send"
    /\ IF PageStart(page) + PageSize <= Len(new)
         THEN window' = fillNextPage /\ img1' = img1WithPage
         ELSE UNCHANGED <<window, img1>>

GiveUp == phase' = "failed" /\ DeviceReset /\ UNCHANGED <<img1, window, page, rom>>

ProgramPage ==
    /\ phase = "program"
    /\ IF crcMatches(DiffPageOf(new, page))
         THEN pageCompletedDoFlash /\ NextPage
         ELSE GiveUp
    /\ UNCHANGED <<images, diffFaults>>

\* The answer is lost: the page was programmed, the repeated command finds an
\* empty scratchpad.
AnswerLost ==
    /\ phase = "program" /\ diffFaults < MaxFaults /\ crcMatches(DiffPageOf(new, page))
    /\ rom' = pagesProgrammed
    /\ phase' = "failed" /\ DeviceReset
    /\ diffFaults' = diffFaults + 1
    /\ UNCHANGED <<images, img1, window, page>>

\* UPD_UPDATE_BOOT_DESC: the application is started if it is the one described.
ProgramDescriptor ==
    /\ phase = "descriptor"
    /\ phase' = IF SubSeq(rom, 1, Len(new)) = new THEN "done" ELSE "notStartable"
    /\ UNCHANGED <<images, img1, window, page, device, diffFaults>>

\* The page being erased or programmed is lost.
UpgradeInterrupted ==
    /\ phase \in {"send", "program"} /\ diffFaults < MaxFaults
    /\ \/ UNCHANGED rom
       \/ /\ phase = "program" /\ crcMatches(DiffPageOf(new, page))
          /\ rom' = [i \in 1 .. RomSize |-> IF i \in DiffPageCells(romPage) THEN DiffGarbage ELSE rom[i]]
    /\ phase' = "failed" /\ DeviceReset
    /\ diffFaults' = diffFaults + 1
    /\ UNCHANGED <<images, img1, window, page>>

DiffNext == BeginUpgrade \/ SendPage \/ ProgramPage \/ AnswerLost \/ ProgramDescriptor \/ UpgradeInterrupted

DiffSpec == DiffInit /\ [][DiffNext]_diffVars

-----------------------------------------------------------------------------
(* Properties *)

FlashDiffTypeOK ==
    /\ rom \in [1 .. RomSize -> Bytes \cup {DiffGarbage}]
    /\ Len(oldPages) = WindowPages * PageSize
    /\ \A i \in 1 .. Len(scratchpad) : scratchpad[i] \in Bytes \cup {DiffGarbage}
    /\ romPage \in 0 .. Pages(Len(new)) /\ page \in 0 .. Pages(Len(new))
    /\ phase \in {"idle", "send", "program", "descriptor", "done", "failed", "notStartable"}
    /\ diffFaults \in 0 .. MaxFaults

\* As long as nothing went wrong, both sides agree on what the flash and the
\* overwritten pages hold, on which page comes next, and every page can be
\* built: generateDiff() and the decompressor are inverse to each other for
\* every pair of images, pages overwritten in the meantime included.
RecordsAgree ==
    diffFaults = 0 =>
        /\ phase # "failed"
        /\ phase = "send" => /\ SubSeq(rom, 1, Len(img1)) = img1
                             /\ oldPages = window
                             /\ romPage = page

\* Whatever was repeated, lost or interrupted, on whichever mix of pages the
\* update is started again: an update that gets to its end has programmed the
\* new image (generateDiff() and the decompressor are inverse to each other,
\* and the checksum of a page stops what is not).
EndsWithNew == phase \in {"descriptor", "done"} => SubSeq(rom, 1, Len(new)) = new

=============================================================================

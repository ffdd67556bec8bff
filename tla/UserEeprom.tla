----------------------------- MODULE UserEeprom -----------------------------
(***************************************************************************)
(* The user memory of sblib/src/eib/userEeprom.cpp: a copy in RAM, which    *)
(* telegrams change, and the pages of one flash sector, which are written   *)
(* in turn, each with the whole content.  The sector is erased when all of  *)
(* its pages are used.  The power may fail at any time.                     *)
(*                                                                         *)
(* A page consists of rows, the units in which the flash is programmed; one *)
(* call of iapProgram() (iap.cpp) programs RowsPerCall of them, in order.   *)
(***************************************************************************)
EXTENDS Integers

CONSTANTS
    Contents,      \* what telegrams may write into the user memory
    Zero,          \* the content of a device without a valid page
    Mixed,         \* rows of different contents, or bits of two of them
    Blank,         \* an erased row
    NumPages,      \* numEepromPages()
    Rows,          \* flash pages of 256 bytes in size()
    RowsPerCall    \* flash pages in the 1024 bytes of one iapProgram()

ASSUME EepromAssumption ==
    /\ NumPages \in Nat \ {0}
    /\ Rows \in Nat \ {0}
    /\ RowsPerCall \in Nat \ {0}
    /\ Zero \notin Contents \cup {Mixed, Blank}
    /\ Mixed \notin Contents \cup {Blank}
    /\ Blank \notin Contents

VARIABLES
    rows,         \* the flash: the rows of each page
    used,         \* the flash: the last byte of size() is not 0xff
    ram,          \* userEepromData, except for its last byte
    ramUsed,      \* the last byte of userEepromData is not 0xff
    modified,     \* userEepromModified
    pc,           \* where writeUserEeprom() is
    page,         \* the page being written
    row,          \* the next row to be programmed
    irq,          \* interrupts are enabled
    saved,        \* history: the content last saved, or found at a restart
    erased,       \* history: the save in progress has erased the sector
    interrupted,  \* history: a save was, since the sector was erased last
    spoiled       \* history: the last save programmed over something, or was
                  \* interrupted where it erases or programs the row with the mark

flashVars == <<rows, used>>
ramVars == <<ram, ramUsed, modified>>
saveVars == <<pc, page, row, irq>>
history == <<saved, erased, interrupted, spoiled>>
eepromVars == <<flashVars, ramVars, saveVars, history>>

Pages == 1 .. NumPages
Image == Contents \cup {Zero, Mixed}

EepromTypeOK ==
    /\ rows \in [Pages -> [1 .. Rows -> Image \cup {Blank}]]
    /\ used \in [Pages -> BOOLEAN]
    /\ ram \in Image
    /\ ramUsed \in BOOLEAN
    /\ modified \in BOOLEAN
    /\ pc \in {"idle", "erase", "program", "failed", "off"}
    /\ page \in Pages
    /\ row \in 1 .. Rows + 1
    /\ irq \in BOOLEAN
    /\ saved \in Image
    /\ {erased, interrupted, spoiled} \subseteq BOOLEAN

\* A page that was never written, in a device that has just been started.
EepromInit ==
    /\ rows = [p \in Pages |-> [r \in 1 .. Rows |-> Blank]]
    /\ used = [p \in Pages |-> FALSE]
    /\ ram = Zero /\ ramUsed = TRUE /\ modified = FALSE
    /\ pc = "idle" /\ page = 1 /\ row = 1 /\ irq = TRUE
    /\ saved = Zero /\ erased = FALSE /\ interrupted = FALSE /\ spoiled = FALSE

-----------------------------------------------------------------------------
(* The flash *)

\* Programming only clears bits.
Overwrite(old, new) == IF old \in {Blank, new} THEN new ELSE Mixed

\* The flash after the rows up to last of the page were programmed.
ProgramRows(last) ==
    /\ rows' = [rows EXCEPT ![page] =
                  [r \in 1 .. Rows |-> IF r \in row .. last
                                         THEN Overwrite(rows[page][r], ram)
                                         ELSE rows[page][r]]]
    /\ used' = [used EXCEPT ![page] = @ \/ (last = Rows /\ ramUsed)]

lastRowOfCall == IF row + RowsPerCall - 1 < Rows THEN row + RowsPerCall - 1 ELSE Rows

-----------------------------------------------------------------------------
(* Reading and writing *)

valid(p) == used[p]

\* Operators named ...Bug are not part of the specification: each is a
\* plausible error in the code.
findValidPageBug ==
    IF \E p \in Pages : valid(p)
      THEN CHOOSE p \in Pages : valid(p) /\ \A q \in Pages : valid(q) => p <= q
      ELSE 0

\* The search from the last page down; 0 is the null pointer.
findValidPage ==
    IF \E p \in Pages : valid(p)
      THEN CHOOSE p \in Pages : valid(p) /\ \A q \in Pages : valid(q) => q <= p
      ELSE 0

\* What readUserEeprom() finds.
Recovered ==
    IF findValidPage = 0 THEN Zero
      ELSE IF \E c \in Image : \A r \in 1 .. Rows : rows[findValidPage][r] = c
        THEN rows[findValidPage][1]
        ELSE Mixed

\* The constructor, after a reset.
readUserEeprom ==
    /\ pc = "off"
    /\ ram' = Recovered /\ ramUsed' = TRUE /\ modified' = FALSE
    /\ pc' = "idle" /\ irq' = TRUE
    /\ saved' = Recovered /\ erased' = FALSE /\ spoiled' = FALSE
    /\ page' = 1 /\ row' = 1
    /\ UNCHANGED <<flashVars, interrupted>>

\* A memory write service; it may well write 0xff into the last byte.
MemoryWrite ==
    /\ pc = "idle"
    /\ ram' \in Contents /\ ramUsed' \in BOOLEAN
    /\ modified' = TRUE
    /\ UNCHANGED <<flashVars, saveVars, history>>

\* The page after the last valid one, or the first.
pageToWrite == (findValidPage % NumPages) + 1

\* Only the first page of an erased sector is free.
eraseNeeded(p) == p = 1

\* writeUserEeprom(), up to the first call that changes the flash.
beginWrite ==
    /\ pc = "idle" /\ modified
    /\ page' = pageToWrite /\ row' = 1
    /\ pc' = IF eraseNeeded(pageToWrite) THEN "erase" ELSE "program"
    /\ ramUsed' = TRUE
    /\ irq' = FALSE
    /\ UNCHANGED <<flashVars, ram, modified, history>>

\* iapEraseSector() enables the interrupts when it returns.
eraseSector ==
    /\ pc = "erase"
    /\ rows' = [p \in Pages |-> [r \in 1 .. Rows |-> Blank]]
    /\ used' = [p \in Pages |-> FALSE]
    /\ pc' = "program" /\ irq' = TRUE
    /\ erased' = TRUE /\ interrupted' = FALSE
    /\ UNCHANGED <<ramVars, page, row, saved, spoiled>>

\* One iapProgram(), which compares the flash with the RAM.  The last one
\* ends writeUserEeprom(); an error is fatal.
programChunk ==
    /\ pc = "program"
    /\ ProgramRows(lastRowOfCall)
    /\ irq' = TRUE
    /\ IF \A r \in row .. lastRowOfCall : rows'[page][r] = ram
         THEN /\ row' = lastRowOfCall + 1
              /\ IF lastRowOfCall = Rows
                   THEN /\ pc' = "idle" /\ modified' = FALSE
                        /\ saved' = ram /\ erased' = FALSE
                   ELSE UNCHANGED <<pc, modified, saved, erased>>
              /\ UNCHANGED spoiled
         ELSE /\ pc' = "failed" /\ spoiled' = TRUE
              /\ UNCHANGED <<row, modified, saved, erased>>
    /\ UNCHANGED <<ram, ramUsed, page, interrupted>>

\* The power fails while the sector is erased: any row may be erased, half
\* erased or left, and a mark is lost or not.
HalfErased ==
    /\ pc = "erase"
    /\ \E left \in [Pages -> [1 .. Rows -> {"row", "half", "nothing"}]] :
         rows' = [p \in Pages |-> [r \in 1 .. Rows |->
                    IF rows[p][r] = Blank \/ left[p][r] = "nothing" THEN Blank
                      ELSE IF left[p][r] = "row" THEN rows[p][r] ELSE Mixed]]
    /\ used' \in [Pages -> BOOLEAN] /\ \A p \in Pages : used'[p] => used[p]
    /\ spoiled' = TRUE

\* ... and while a row is programmed, the last of which holds the mark.
HalfProgrammed(last) ==
    /\ pc = "program"
    /\ rows' = [rows EXCEPT ![page] =
                  [r \in 1 .. Rows |-> IF r = last THEN Mixed
                                         ELSE IF r \in row .. last THEN Overwrite(rows[page][r], ram)
                                         ELSE rows[page][r]]]
    /\ \/ UNCHANGED used
       \/ last = Rows /\ used' = [used EXCEPT ![page] = @ \/ ramUsed]
    /\ spoiled' = (last = Rows)

\* After fatalError() nothing else helps.
PowerFailure ==
    /\ pc # "off"
    /\ pc' = "off"
    /\ \/ UNCHANGED <<flashVars, spoiled>>
       \/ HalfErased
       \/ /\ pc = "program"
          /\ \E last \in row .. lastRowOfCall :
               /\ ProgramRows(last)
               /\ spoiled' = \E r \in row .. last : rows'[page][r] # ram
       \/ \E last \in row .. lastRowOfCall : HalfProgrammed(last)
    /\ interrupted' = (interrupted \/ pc \in {"erase", "program"})
    /\ UNCHANGED <<ramVars, page, row, irq, saved, erased>>

EepromNext ==
    \/ readUserEeprom \/ MemoryWrite \/ beginWrite
    \/ eraseSector \/ programChunk \/ PowerFailure

EepromSpec == EepromInit /\ [][EepromNext]_eepromVars

-----------------------------------------------------------------------------
(* Properties *)

\* A restart finds the content saved last or, if it interrupts a save, the
\* new one, though pages are programmed in several steps and found by one byte
\* (userEeprom.cpp:41).  A save that had erased the sector (line 82) leaves a
\* new device.  Another content, a mixture or an old one, is found only if the
\* power failed while the sector was erased or the row with the mark was
\* programmed, or if the save programmed over rows that were not blank.  Such
\* a save ends in fatalError(); another one must have been interrupted before.
OldOrNew ==
    /\ \/ Recovered = saved
       \/ pc \in {"program", "off"} /\ Recovered = ram /\ modified
       \/ erased /\ Recovered = Zero
       \/ spoiled
    /\ pc = "failed" => interrupted

\* "If user-eeprom is modified, changes are written to the mcu's flash"
\* (userEeprom.h:98): writing never ends in fatalError().
SavesSucceed == pc # "failed"

=============================================================================

---------------------------- MODULE StorageProofs ----------------------------
(***************************************************************************)
(* Proofs about the memory of the device. The user EEPROM: any layout, and *)
(* power failures that leave an erase or a row half done. The memory       *)
(* mapper: any number of pages, for ranges that do not start in the middle *)
(* of a page (CleanRanges). The table allocator: any number and sizes of   *)
(* tables, full and partial downloads. A download: any objects and         *)
(* addresses, for a MASK 0701 device, which writes its address tables      *)
(* itself. The memory services: memories that lie anywhere, RAM from 0.    *)
(***************************************************************************)
EXTENDS UserEeprom, TableAlloc, MemMapper, Download, MemoryAccess, Induction, TLAPS

-----------------------------------------------------------------------------
(* The user EEPROM in flash *)

\* A page that is not in use is blank until a save is interrupted, but for
\* the rows of the save in progress.
FreeAreBlank ==
    ~interrupted => \A p \in Pages : ~used[p] => \A r \in 1 .. Rows :
        rows[p][r] = IF pc = "program" /\ p = page /\ r < row THEN ram ELSE Blank

\* Where writeUserEeprom() is.
SaveState ==
    /\ pc \in {"idle", "erase", "program"} => ~spoiled
    /\ pc \in {"idle", "erase"} => ~erased /\ Recovered = saved
    /\ pc \in {"erase", "program"} => modified /\ ramUsed
    /\ pc = "erase" => row = 1
    /\ pc = "program" =>
         /\ page > findValidPage
         /\ row <= Rows
         /\ \A r \in 1 .. Rows : r < row => rows[page][r] = ram
         /\ Recovered = IF erased THEN Zero ELSE saved

EepromInv == EepromTypeOK /\ FreeAreBlank /\ SaveState /\ OldOrNew

-----------------------------------------------------------------------------
(* What a restart finds *)

\* The search finds the last page in use.
LastIsFound ==
    /\ findValidPage \in 0 .. NumPages
    /\ findValidPage # 0 => findValidPage \in Pages /\ used[findValidPage]
    /\ \A p \in Pages : used[p] => p <= findValidPage

LEMMA LastPageFound == LastIsFound
<1>1. CASE \A p \in Pages : ~valid(p)
  BY <1>1, EepromAssumption DEF findValidPage, valid, LastIsFound
<1>2. CASE \E p \in Pages : valid(p)
  <2> DEFINE S == {p \in Pages : valid(p)}
             Last(p) == valid(p) /\ \A q \in Pages : valid(q) => q <= p
  <2>1. S \in SUBSET (0 .. NumPages) /\ S # {} /\ NumPages \in Nat
    BY <1>2, EepromAssumption DEF Pages
  <2>2. \E x \in S : \A y \in S : y <= x
    <3> HIDE DEF S
    <3> QED  BY <2>1, Greatest
  <2>3. \E p \in Pages : Last(p)
    BY <2>2
  <2>4. findValidPage = CHOOSE p \in Pages : Last(p)
    BY <1>2 DEF findValidPage
  <2>5. findValidPage \in Pages /\ Last(findValidPage)
    <3> HIDE DEF Last
    <3> QED  BY <2>3, <2>4
  <2> QED  BY <2>5, EepromAssumption DEF LastIsFound, Pages, valid
<1> QED  BY <1>1, <1>2

LEMMA LastIsFoundAlways == LastIsFound /\ LastIsFound'
<1>1. LastIsFound
  BY LastPageFound
<1>2. LastIsFound'
  BY LastPageFound, PTL
<1> QED  BY <1>1, <1>2

LEMMA RecoveredType ==
    ASSUME EepromTypeOK
    PROVE  Recovered \in Image
<1> DEFINE found == rows[findValidPage]
<1>1. CASE findValidPage = 0 \/ ~(\E c \in Image : \A r \in 1 .. Rows : found[r] = c)
  BY <1>1 DEF Recovered, Image
<1>2. CASE findValidPage # 0 /\ \E c \in Image : \A r \in 1 .. Rows : found[r] = c
  <2>1. 1 \in 1 .. Rows
    BY EepromAssumption
  <2>2. found[1] \in Image
    BY <1>2, <2>1
  <2> QED  BY <1>2, <2>2 DEF Recovered
<1> QED  BY <1>1, <1>2

\* What is found depends on the marks, and on the rows of the page found.
LEMMA SameFlash ==
    ASSUME UNCHANGED used, findValidPage # 0 => rows'[findValidPage] = rows[findValidPage]
    PROVE  findValidPage' = findValidPage /\ Recovered' = Recovered
<1>1. findValidPage' = findValidPage
  BY DEF findValidPage, valid
<1> QED  BY <1>1 DEF Recovered

-----------------------------------------------------------------------------
(* Programming *)

\* Programming changes the rows of one page.
LEMMA RowsProgrammed ==
    ASSUME EepromTypeOK, NEW last, ProgramRows(last)
    PROVE  /\ rows' \in [Pages -> [1 .. Rows -> Image \cup {Blank}]]
           /\ used' = [used EXCEPT ![page] = @ \/ (last = Rows /\ ramUsed)]
           /\ \A p \in Pages : p # page => rows'[p] = rows[p]
           /\ \A r \in 1 .. Rows : rows'[page][r] =
                IF r \in row .. last THEN Overwrite(rows[page][r], ram) ELSE rows[page][r]
<1> DEFINE new == [r \in 1 .. Rows |-> IF r \in row .. last THEN Overwrite(rows[page][r], ram)
                                                            ELSE rows[page][r]]
<1>1. new \in [1 .. Rows -> Image \cup {Blank}]
  <2>1. \A r \in 1 .. Rows : rows[page][r] \in Image \cup {Blank}
    BY DEF EepromTypeOK
  <2>2. \A r \in 1 .. Rows : Overwrite(rows[page][r], ram) \in Image
    BY DEF EepromTypeOK, Overwrite, Image
  <2> QED  BY <2>1, <2>2
<1>2. rows' = [rows EXCEPT ![page] = new]
  BY DEF ProgramRows
<1>3. /\ rows' \in [Pages -> [1 .. Rows -> Image \cup {Blank}]]
      /\ rows'[page] = new /\ \A p \in Pages : p # page => rows'[p] = rows[p]
  <2> HIDE DEF new
  <2> QED  BY <1>1, <1>2 DEF EepromTypeOK
<1> QED  BY <1>3 DEF ProgramRows

\* A part of the page that is being written: it is not found yet.
LEMMA PartProgrammed ==
    ASSUME EepromInv, pc = "program", NEW last \in 1 .. Rows - 1,
           used' = [used EXCEPT ![page] = @ \/ (last = Rows /\ ramUsed)] \/ UNCHANGED used,
           \A p \in Pages : p # page => rows'[p] = rows[p]
    PROVE  UNCHANGED used /\ findValidPage' = findValidPage /\ Recovered' = Recovered
<1>1. last # Rows /\ page > findValidPage
  BY EepromAssumption DEF EepromInv, SaveState
<1>2. UNCHANGED used
  BY <1>1 DEF EepromInv, EepromTypeOK
<1>3. findValidPage # 0 => findValidPage \in Pages /\ findValidPage # page
  BY <1>1, LastPageFound DEF LastIsFound
<1> QED  BY <1>2, <1>3, SameFlash

\* The last part makes it the page that is found.
LEMMA PageProgrammed ==
    ASSUME EepromInv, pc = "program", ProgramRows(Rows),
           \A r \in row .. Rows : rows'[page][r] = ram
    PROVE  /\ \A r \in 1 .. Rows : rows'[page][r] = ram
           /\ used'[page] /\ \A p \in Pages : p # page => used'[p] = used[p] /\ rows'[p] = rows[p]
           /\ findValidPage' = page /\ Recovered' = ram
<1>1. /\ page \in Pages /\ page > findValidPage /\ ram \in Image /\ ramUsed
      /\ row \in 1 .. Rows + 1 /\ \A r \in 1 .. Rows : r < row => rows[page][r] = ram
  BY DEF EepromInv, EepromTypeOK, SaveState
<1>2. /\ used' = [used EXCEPT ![page] = @ \/ ramUsed]
      /\ \A p \in Pages : p # page => rows'[p] = rows[p]
      /\ \A r \in 1 .. Rows : r < row => rows'[page][r] = rows[page][r]
  BY <1>1, RowsProgrammed, EepromAssumption DEF EepromInv
<1>3. used'[page] /\ \A p \in Pages : p # page => used'[p] = used[p]
  BY <1>1, <1>2 DEF EepromInv, EepromTypeOK
<1>4. \A r \in 1 .. Rows : rows'[page][r] = ram
  BY <1>1, <1>2, EepromAssumption
<1>5. findValidPage' = page
  <2>1. /\ findValidPage' # 0 => findValidPage' \in Pages /\ used'[findValidPage']
        /\ page <= findValidPage' /\ findValidPage' \in 0 .. NumPages
    BY <1>1, <1>3, LastIsFoundAlways DEF LastIsFound, Pages
  <2>2. ASSUME findValidPage' # page PROVE FALSE
    <3>1. findValidPage' \in Pages /\ used[findValidPage']
      BY <1>1, <1>3, <2>1, <2>2, EepromAssumption DEF Pages
    <3>2. findValidPage' <= findValidPage /\ findValidPage \in 0 .. NumPages
      BY <3>1, LastPageFound DEF LastIsFound
    <3> QED  BY <1>1, <2>1, <2>2, <3>2, EepromAssumption DEF Pages
  <2> QED  BY <2>2
<1>6. Recovered' = ram
  <2>1. page # 0 /\ 1 \in 1 .. Rows
    BY <1>1, EepromAssumption DEF Pages
  <2> QED  BY <1>1, <1>4, <1>5, <2>1 DEF Recovered
<1> QED  BY <1>2, <1>3, <1>4, <1>5, <1>6

-----------------------------------------------------------------------------
(* The inductive invariant *)

LEMMA InitEepromInv == EepromInit => EepromInv
<1> SUFFICES ASSUME EepromInit PROVE EepromInv
  OBVIOUS
<1>1. Recovered = Zero
  BY DEF EepromInit, findValidPage, valid, Recovered
<1>2. EepromTypeOK
  <2>1. 1 \in Pages /\ 1 \in 1 .. Rows + 1
    BY EepromAssumption DEF Pages
  <2>2. rows \in [Pages -> [1 .. Rows -> Image \cup {Blank}]] /\ used \in [Pages -> BOOLEAN]
    BY DEF EepromInit
  <2>3. ram \in Image /\ saved \in Image
    BY DEF EepromInit, Image
  <2> QED  BY <2>1, <2>2, <2>3, Zenon DEF EepromInit, EepromTypeOK
<1>3. FreeAreBlank /\ SaveState /\ OldOrNew
  BY <1>1 DEF EepromInit, FreeAreBlank, SaveState, OldOrNew
<1> QED  BY <1>2, <1>3 DEF EepromInv

LEMMA RestartInv == EepromInv /\ readUserEeprom => EepromInv'
<1> SUFFICES ASSUME EepromInv, readUserEeprom PROVE EepromInv'
  OBVIOUS
<1>1. Recovered \in Image
  BY RecoveredType DEF EepromInv
<1>2. UNCHANGED flashVars /\ Recovered' = Recovered
  BY SameFlash DEF readUserEeprom, flashVars
<1>3. EepromTypeOK'
  <2>1. 1 \in Pages /\ 1 \in 1 .. Rows + 1
    BY EepromAssumption DEF Pages
  <2> QED  BY <1>1, <1>2, <2>1 DEF readUserEeprom, EepromInv, EepromTypeOK, flashVars
<1>4. FreeAreBlank'
  BY <1>2 DEF readUserEeprom, EepromInv, FreeAreBlank, flashVars
<1>5. SaveState' /\ OldOrNew'
  BY <1>2 DEF readUserEeprom, SaveState, OldOrNew
<1> QED  BY <1>3, <1>4, <1>5 DEF EepromInv

LEMMA WriteInv == EepromInv /\ MemoryWrite => EepromInv'
<1> SUFFICES ASSUME EepromInv, MemoryWrite PROVE EepromInv'
  OBVIOUS
<1>1. UNCHANGED flashVars /\ Recovered' = Recovered
  BY SameFlash DEF MemoryWrite, flashVars
<1>2. EepromTypeOK'
  BY <1>1 DEF MemoryWrite, EepromInv, EepromTypeOK, flashVars, saveVars, history, Image
<1>3. FreeAreBlank'
  BY <1>1 DEF MemoryWrite, saveVars, history, flashVars, EepromInv, FreeAreBlank
<1>4. SaveState' /\ OldOrNew'
  BY <1>1 DEF MemoryWrite, saveVars, history, EepromInv, SaveState, OldOrNew
<1> QED  BY <1>2, <1>3, <1>4 DEF EepromInv

\* The next page is the one after the last page used, or the first one, for
\* which the sector is erased.
LEMMA NextPage ==
    /\ pageToWrite \in Pages
    /\ pageToWrite # 1 => pageToWrite > findValidPage
<1>1. findValidPage \in 0 .. NumPages /\ NumPages \in Nat \ {0}
  BY EepromAssumption, LastPageFound DEF LastIsFound
<1>2. CASE findValidPage = NumPages
  <2>1. NumPages % NumPages = 0
    BY <1>1
  <2> QED  BY <1>1, <1>2, <2>1 DEF pageToWrite, Pages
<1>3. CASE findValidPage < NumPages
  <2>1. findValidPage % NumPages = findValidPage
    BY <1>1, <1>3
  <2> QED  BY <1>1, <1>3, <2>1 DEF pageToWrite, Pages
<1> QED  BY <1>1, <1>2, <1>3

LEMMA BeginInv == EepromInv /\ beginWrite => EepromInv'
<1> SUFFICES ASSUME EepromInv, beginWrite PROVE EepromInv'
  OBVIOUS
<1>1. UNCHANGED flashVars /\ Recovered' = Recovered /\ findValidPage' = findValidPage
  BY SameFlash DEF beginWrite, flashVars
<1>2. /\ page' \in Pages /\ row' = 1
      /\ page' # 1 => page' > findValidPage
      /\ pc' = IF page' = 1 THEN "erase" ELSE "program"
  BY NextPage DEF beginWrite, eraseNeeded
<1>3. 1 \in 1 .. Rows + 1 /\ 1 <= Rows
  BY EepromAssumption
<1>4. EepromTypeOK'
  BY <1>1, <1>2, <1>3 DEF beginWrite, EepromInv, EepromTypeOK, flashVars, history
<1>5. FreeAreBlank'
  <2>1. pc = "idle" /\ UNCHANGED <<interrupted, rows, used>>
    BY DEF beginWrite, history, flashVars
  <2>2. \A r \in 1 .. Rows : ~(r < row')
    BY <1>2
  <2> QED  BY <2>1, <2>2 DEF EepromInv, FreeAreBlank
<1>6. SaveState' /\ OldOrNew'
  <2>1. \A r \in 1 .. Rows : ~(r < row')
    BY <1>2
  <2> QED
    BY <1>1, <1>2, <1>3, <2>1 DEF beginWrite, history, flashVars, EepromInv, SaveState, OldOrNew
<1> QED  BY <1>4, <1>5, <1>6 DEF EepromInv

LEMMA EraseInv == EepromInv /\ eraseSector => EepromInv'
<1> SUFFICES ASSUME EepromInv, eraseSector PROVE EepromInv'
  OBVIOUS
<1>1. \A p \in Pages : ~used'[p]
  BY DEF eraseSector
<1>2. findValidPage' = 0 /\ Recovered' = Zero
  BY <1>1 DEF findValidPage, valid, Recovered
<1>3. \A p \in Pages : \A r \in 1 .. Rows : rows'[p][r] = Blank
  BY DEF eraseSector
<1>4. EepromTypeOK'
  BY DEF eraseSector, ramVars, EepromInv, EepromTypeOK
<1>5. row' = 1 /\ page' \in Pages /\ page' > 0 /\ 1 <= Rows
  BY EepromAssumption DEF eraseSector, EepromInv, SaveState, EepromTypeOK, Pages
<1>6. \A r \in 1 .. Rows : ~(r < row')
  BY <1>5
<1>7. FreeAreBlank'
  BY <1>3, <1>6 DEF FreeAreBlank
<1>8. SaveState' /\ OldOrNew'
  BY <1>2, <1>5, <1>6 DEF eraseSector, ramVars, EepromInv, SaveState, OldOrNew
<1> QED  BY <1>4, <1>7, <1>8 DEF EepromInv

\* A call programs the row it begins with and ends with the page at the latest.
LEMMA LastRow ==
    ASSUME row \in 1 .. Rows
    PROVE  lastRowOfCall \in row .. Rows
  BY EepromAssumption DEF lastRowOfCall

LEMMA ProgramInv == EepromInv /\ programChunk => EepromInv'
<1> SUFFICES ASSUME EepromInv, programChunk PROVE EepromInv'
  OBVIOUS
<1> DEFINE last == lastRowOfCall
<1>1. row \in 1 .. Rows /\ ram \in Image /\ page \in Pages
  BY EepromAssumption DEF programChunk, EepromInv, EepromTypeOK, SaveState
<1>2. last \in row .. Rows
  BY <1>1, LastRow
<1>3. pc = "program" /\ ProgramRows(last) /\ UNCHANGED <<ram, ramUsed, page, interrupted>>
  BY DEF programChunk
<1> HIDE DEF last
<1>4. /\ rows' \in [Pages -> [1 .. Rows -> Image \cup {Blank}]] /\ used' \in [Pages -> BOOLEAN]
      /\ used' = [used EXCEPT ![page] = @ \/ (last = Rows /\ ramUsed)]
      /\ \A p \in Pages : p # page => rows'[p] = rows[p]
      /\ \A r \in 1 .. Rows : rows'[page][r] =
            IF r \in row .. last THEN Overwrite(rows[page][r], ram) ELSE rows[page][r]
  BY <1>3, RowsProgrammed DEF EepromInv, EepromTypeOK
<1> DEFINE good == \A r \in row .. last : rows'[page][r] = ram
<1>5. CASE good /\ last # Rows
  <2>1. last \in 1 .. Rows - 1
    BY <1>1, <1>2, <1>5, EepromAssumption
  <2>2. UNCHANGED used /\ findValidPage' = findValidPage /\ Recovered' = Recovered
    BY <1>3, <1>4, <2>1, PartProgrammed
  <2>3. row' = last + 1 /\ UNCHANGED <<pc, modified, saved, erased, spoiled>>
    BY <1>5 DEF programChunk, last
  <2>4. row' \in 1 .. Rows /\ row' \in 1 .. Rows + 1
    BY <1>1, <1>2, <2>1, <2>3, EepromAssumption
  <2>5. EepromTypeOK'
    BY <1>3, <1>4, <2>3, <2>4 DEF programChunk, EepromInv, EepromTypeOK
  <2>6. \A r \in 1 .. Rows : r < row' => rows'[page][r] = ram
    <3> SUFFICES ASSUME NEW r \in 1 .. Rows, r < row' PROVE rows'[page][r] = ram
      OBVIOUS
    <3>1. CASE r < row
      BY <1>1, <1>2, <1>3, <1>4, <3>1, EepromAssumption DEF EepromInv, SaveState
    <3>2. CASE ~(r < row)
      BY <1>1, <1>2, <1>5, <2>3, <3>2, EepromAssumption
    <3> QED  BY <3>1, <3>2
  <2>7. FreeAreBlank'
    <3> SUFFICES ASSUME ~interrupted, NEW p \in Pages, ~used[p], NEW r \in 1 .. Rows
                 PROVE  rows'[p][r] = IF p = page /\ r < row' THEN ram ELSE Blank
      BY <1>3, <2>2, <2>3 DEF FreeAreBlank
    <3>1. rows[p][r] = IF p = page /\ r < row THEN ram ELSE Blank
      BY <1>3 DEF EepromInv, FreeAreBlank
    <3>2. CASE p = page /\ r < row'
      BY <2>6, <3>2
    <3>3. CASE p = page /\ ~(r < row')
      BY <1>1, <1>2, <1>4, <2>3, <3>1, <3>3, EepromAssumption
    <3>4. CASE p # page
      BY <1>4, <3>1, <3>4
    <3> QED  BY <3>2, <3>3, <3>4
  <2>8. SaveState'
    BY <1>3, <2>2, <2>3, <2>4, <2>6 DEF EepromInv, SaveState
  <2>9. OldOrNew'
    BY <1>3, <2>2, <2>3 DEF EepromInv, OldOrNew, SaveState
  <2> QED  BY <2>5, <2>7, <2>8, <2>9 DEF EepromInv
<1>6. CASE good /\ last = Rows
  <2>1. /\ \A r \in 1 .. Rows : rows'[page][r] = ram
        /\ used'[page] /\ \A p \in Pages : p # page => used'[p] = used[p] /\ rows'[p] = rows[p]
        /\ Recovered' = ram
    BY <1>3, <1>6, PageProgrammed
  <2>2. /\ row' = Rows + 1 /\ pc' = "idle" /\ modified' = FALSE
        /\ saved' = ram /\ erased' = FALSE /\ spoiled' = spoiled
    BY <1>6 DEF programChunk, last
  <2>3. EepromTypeOK'
    <3>1. row' \in 1 .. Rows + 1
      BY <2>2, EepromAssumption
    <3> QED  BY <1>1, <1>3, <1>4, <2>2, <3>1 DEF programChunk, EepromInv, EepromTypeOK
  <2>4. FreeAreBlank'
    BY <1>3, <2>1, <2>2 DEF EepromInv, FreeAreBlank
  <2>5. SaveState' /\ OldOrNew'
    BY <1>3, <2>1, <2>2 DEF EepromInv, SaveState, OldOrNew
  <2> QED  BY <2>3, <2>4, <2>5 DEF EepromInv
<1>7. CASE ~good
  <2>1. interrupted
    <3> SUFFICES ASSUME ~interrupted PROVE good
      BY <1>7
    <3>1. page > findValidPage
      BY <1>3 DEF EepromInv, SaveState
    <3>2. ~used[page]
      BY <1>1, <3>1, LastPageFound, EepromAssumption DEF LastIsFound, Pages
    <3>3. \A r \in row .. last : r \in 1 .. Rows /\ rows[page][r] = Blank
      BY <1>1, <1>2, <3>2, EepromAssumption DEF EepromInv, FreeAreBlank
    <3> QED  BY <1>4, <3>3 DEF Overwrite
  <2>2. pc' = "failed" /\ spoiled' = TRUE /\ UNCHANGED <<row, modified, saved, erased>>
    BY <1>7 DEF programChunk, last
  <2>3. EepromTypeOK'
    BY <1>1, <1>3, <1>4, <2>2 DEF programChunk, EepromInv, EepromTypeOK
  <2> QED  BY <1>3, <2>1, <2>2, <2>3 DEF EepromInv, FreeAreBlank, SaveState, OldOrNew
<1> QED  BY <1>5, <1>6, <1>7

\* Half of an erase, or of a row.
LEMMA HalfErasedType ==
    ASSUME EepromTypeOK, HalfErased
    PROVE  /\ rows' \in [Pages -> [1 .. Rows -> Image \cup {Blank}]]
           /\ used' \in [Pages -> BOOLEAN] /\ spoiled'
<1>1. PICK left : rows' = [p \in Pages |-> [r \in 1 .. Rows |->
                    IF rows[p][r] = Blank \/ left[p][r] = "nothing" THEN Blank
                      ELSE IF left[p][r] = "row" THEN rows[p][r] ELSE Mixed]]
  BY DEF HalfErased
<1>2. \A p \in Pages, r \in 1 .. Rows : rows[p][r] \in Image \cup {Blank}
  BY DEF EepromTypeOK
<1> QED  BY <1>1, <1>2 DEF HalfErased, Image

LEMMA HalfProgrammedType ==
    ASSUME EepromTypeOK, NEW last, HalfProgrammed(last)
    PROVE  /\ rows' \in [Pages -> [1 .. Rows -> Image \cup {Blank}]]
           /\ used' \in [Pages -> BOOLEAN] /\ spoiled' = (last = Rows)
           /\ \A p \in Pages : p # page => rows'[p] = rows[p]
           /\ last # Rows => UNCHANGED used
<1> DEFINE new == [r \in 1 .. Rows |-> IF r = last THEN Mixed
                                         ELSE IF r \in row .. last THEN Overwrite(rows[page][r], ram)
                                         ELSE rows[page][r]]
<1>1. new \in [1 .. Rows -> Image \cup {Blank}]
  <2>1. \A r \in 1 .. Rows : rows[page][r] \in Image \cup {Blank}
    BY DEF EepromTypeOK
  <2>2. \A r \in 1 .. Rows : Overwrite(rows[page][r], ram) \in Image
    BY DEF EepromTypeOK, Overwrite, Image
  <2>3. Mixed \in Image
    BY DEF Image
  <2> QED  BY <2>1, <2>2, <2>3
<1>2. rows' = [rows EXCEPT ![page] = new]
  BY DEF HalfProgrammed
<1>3. rows' \in [Pages -> [1 .. Rows -> Image \cup {Blank}]]
      /\ \A p \in Pages : p # page => rows'[p] = rows[p]
  <2> HIDE DEF new
  <2> QED  BY <1>1, <1>2 DEF EepromTypeOK
<1> QED  BY <1>3 DEF HalfProgrammed, EepromTypeOK

LEMMA PowerInv == EepromInv /\ PowerFailure => EepromInv'
<1> SUFFICES ASSUME EepromInv, PowerFailure PROVE EepromInv'
  OBVIOUS
<1>1. /\ pc' = "off" /\ pc # "off" /\ UNCHANGED <<ramVars, page, row, irq, saved, erased>>
      /\ interrupted' = (interrupted \/ pc \in {"erase", "program"})
  BY DEF PowerFailure
<1>2. SaveState'
  BY <1>1 DEF SaveState
<1>3. ASSUME rows' \in [Pages -> [1 .. Rows -> Image \cup {Blank}]],
             used' \in [Pages -> BOOLEAN], spoiled' \in BOOLEAN
      PROVE  EepromTypeOK'
  BY <1>1, <1>3 DEF EepromInv, EepromTypeOK, ramVars
<1>4. CASE UNCHANGED <<flashVars, spoiled>>
  <2>1. EepromTypeOK'
    BY <1>3, <1>4 DEF EepromInv, EepromTypeOK, flashVars
  <2>2. Recovered' = Recovered
    BY <1>4, SameFlash DEF flashVars
  <2>3. OldOrNew'
    BY <1>1, <1>4, <2>2 DEF EepromInv, EepromTypeOK, SaveState, OldOrNew, ramVars
  <2>4. FreeAreBlank'
    BY <1>1, <1>4 DEF EepromInv, FreeAreBlank, flashVars
  <2> QED  BY <1>2, <2>1, <2>3, <2>4 DEF EepromInv
<1>5. ASSUME pc \in {"erase", "program"}, OldOrNew', EepromTypeOK' PROVE EepromInv'
  BY <1>1, <1>2, <1>5 DEF EepromInv, FreeAreBlank
<1>6. CASE HalfErased
  <2>1. EepromTypeOK' /\ spoiled'
    BY <1>3, <1>6, HalfErasedType DEF EepromInv
  <2>2. OldOrNew'
    BY <1>1, <2>1 DEF OldOrNew
  <2> QED  BY <1>5, <1>6, <2>1, <2>2 DEF HalfErased
<1>7. pc = "program" => row \in 1 .. Rows /\ lastRowOfCall \in row .. Rows
  BY LastRow, EepromAssumption DEF EepromInv, EepromTypeOK, SaveState
<1>8. ASSUME pc = "program", NEW last \in row .. lastRowOfCall, ProgramRows(last),
             spoiled' = \E r \in row .. last : rows'[page][r] # ram
      PROVE  EepromInv'
  <2>1. last \in row .. Rows /\ row \in 1 .. Rows
    BY <1>7, <1>8, EepromAssumption
  <2>2. /\ rows' \in [Pages -> [1 .. Rows -> Image \cup {Blank}]] /\ used' \in [Pages -> BOOLEAN]
        /\ used' = [used EXCEPT ![page] = @ \/ (last = Rows /\ ramUsed)]
        /\ \A p \in Pages : p # page => rows'[p] = rows[p]
    BY <1>8, RowsProgrammed DEF EepromInv, EepromTypeOK
  <2>3. EepromTypeOK'
    BY <1>3, <1>8, <2>2
  <2>4. CASE spoiled'
    <3>1. OldOrNew'
      BY <1>1, <2>4 DEF OldOrNew
    <3> QED  BY <1>5, <1>8, <2>3, <3>1
  <2>5. CASE ~spoiled' /\ last # Rows
    <3>1. last \in 1 .. Rows - 1
      BY <2>1, <2>5, EepromAssumption
    <3>2. Recovered' = Recovered
      BY <1>8, <2>2, <3>1, PartProgrammed
    <3>3. OldOrNew'
      BY <1>1, <1>8, <3>2 DEF EepromInv, SaveState, OldOrNew
    <3> QED  BY <1>5, <1>8, <2>3, <3>3
  <2>6. CASE ~spoiled' /\ last = Rows
    <3>1. Recovered' = ram
      BY <1>8, <2>6, PageProgrammed
    <3>2. OldOrNew'
      BY <1>1, <1>8, <3>1 DEF EepromInv, SaveState, OldOrNew, ramVars
    <3> QED  BY <1>5, <1>8, <2>3, <3>2
  <2> QED  BY <2>4, <2>5, <2>6
<1>9. ASSUME NEW last \in row .. lastRowOfCall, HalfProgrammed(last)
      PROVE  EepromInv'
  <2>1. pc = "program" /\ last \in row .. Rows /\ row \in 1 .. Rows
    BY <1>7, <1>9, EepromAssumption DEF HalfProgrammed
  <2>2. EepromTypeOK' /\ spoiled' = (last = Rows)
    BY <1>3, <1>9, HalfProgrammedType DEF EepromInv
  <2>3. CASE last = Rows
    <3>1. OldOrNew'
      BY <1>1, <2>2, <2>3 DEF OldOrNew
    <3> QED  BY <1>5, <2>1, <2>2, <3>1
  <2>4. CASE last # Rows
    <3>1. last \in 1 .. Rows - 1
      BY <2>1, <2>4, EepromAssumption
    <3>2. UNCHANGED used /\ \A p \in Pages : p # page => rows'[p] = rows[p]
      BY <1>9, <2>4, HalfProgrammedType DEF EepromInv
    <3>3. Recovered' = Recovered
      BY <2>1, <3>1, <3>2, PartProgrammed
    <3>4. OldOrNew'
      BY <1>1, <2>1, <3>3 DEF EepromInv, SaveState, OldOrNew
    <3> QED  BY <1>5, <2>1, <2>2, <3>4
  <2> QED  BY <2>3, <2>4
<1> QED  BY <1>4, <1>6, <1>8, <1>9 DEF PowerFailure

LEMMA NextEepromInv == EepromInv /\ [EepromNext]_eepromVars => EepromInv'
<1> SUFFICES ASSUME EepromInv, [EepromNext]_eepromVars PROVE EepromInv'
  OBVIOUS
<1>1. CASE UNCHANGED eepromVars
  <2>1. Recovered' = Recovered /\ findValidPage' = findValidPage
    BY <1>1, SameFlash DEF eepromVars, flashVars
  <2> QED
    BY <1>1, <2>1 DEF eepromVars, ramVars, saveVars, history, flashVars, EepromInv, EepromTypeOK,
       FreeAreBlank, SaveState, OldOrNew
<1> QED
  BY <1>1, RestartInv, WriteInv, BeginInv, EraseInv, ProgramInv, PowerInv DEF EepromNext

LEMMA EepromInvariant == EepromSpec => []EepromInv
<1>1. EepromInv /\ [EepromNext]_eepromVars => EepromInv'
  BY NextEepromInv
<1> QED  BY <1>1, InitEepromInv, PTL DEF EepromSpec

\* Whenever the power fails, in the middle of an erase or of a row as well,
\* the device comes back with the content saved last or with the one that was
\* being saved, but for the cases that OldOrNew names; and a save fails only
\* after another one was interrupted.
THEOREM RestartFindsOldOrNew == EepromSpec => []OldOrNew
<1>1. EepromInv => OldOrNew
  BY DEF EepromInv
<1> QED  BY <1>1, EepromInvariant, PTL

\* In a sector of one page (MASK0701, MASK0705, SYSTEMB), which is erased
\* before every save, no save ends in fatalError(), whatever a power failure
\* left there.
THEOREM NoSaveFails ==
    ASSUME NumPages = 1
    PROVE  EepromSpec => [](EepromTypeOK /\ SavesSucceed)
<1> DEFINE Fresh == (pc = "program" => ~interrupted) /\ SavesSucceed
<1>1. EepromInit => Fresh
  BY DEF EepromInit, SavesSucceed
<1>2. EepromInv /\ Fresh /\ [EepromNext]_eepromVars => Fresh'
  <2> SUFFICES ASSUME EepromInv, Fresh, [EepromNext]_eepromVars PROVE Fresh'
    OBVIOUS
  <2>1. CASE beginWrite
    <3>1. pageToWrite = 1
      BY NextPage DEF Pages
    <3> QED  BY <2>1, <3>1 DEF beginWrite, eraseNeeded, SavesSucceed
  <2>2. CASE programChunk
    <3>1. EepromInv'
      BY <2>2, ProgramInv
    <3>2. pc = "program" /\ interrupted' = interrupted /\ ~interrupted
      BY <2>2 DEF programChunk
    <3> QED  BY <3>1, <3>2 DEF EepromInv, OldOrNew, SavesSucceed
  <2>3. CASE readUserEeprom \/ eraseSector \/ PowerFailure
    BY <2>3 DEF readUserEeprom, eraseSector, PowerFailure, SavesSucceed
  <2>4. CASE MemoryWrite \/ UNCHANGED eepromVars
    <3>1. UNCHANGED <<pc, interrupted>>
      BY <2>4 DEF MemoryWrite, eepromVars, saveVars, history
    <3> QED  BY <3>1 DEF SavesSucceed
  <2> QED  BY <2>1, <2>2, <2>3, <2>4 DEF EepromNext
<1>3. EepromInv => EepromTypeOK
  BY DEF EepromInv
<1> QED  BY <1>1, <1>2, <1>3, EepromInvariant, PTL DEF EepromSpec

-----------------------------------------------------------------------------
(* The table allocator *)

Apart(t, u) ==
    \/ tableAddress[t] + tableSize[t] <= tableAddress[u]
    \/ tableAddress[u] + tableSize[u] <= tableAddress[t]

\* Tables have memory of their own below Top.
Placed ==
    /\ \A t \in Tables : Allocated(t) => tableAddress[t] + tableSize[t] <= Top
    /\ \A t, u \in Tables : t # u /\ Allocated(t) /\ Allocated(u) => Apart(t, u)
    /\ \A t \in Tables : loadState[t] = "LOADED" => Allocated(t)

\* The client writes only the table it asked the memory for.
Asked ==
    asked => /\ toUnload = {}
             /\ \A t \in Tables : Turn(t) => Allocated(t)

PlacedInv == TableAllocTypeOK /\ Placed /\ Asked

-----------------------------------------------------------------------------
(* Placement *)

LEMMA Numbers ==
    ASSUME PlacedInv, NEW t \in Tables
    PROVE  tableAddress[t] \in Nat /\ tableSize[t] \in Nat /\ Top \in Nat
<1>1. Sizes \cup {0} \subseteq Nat /\ Top \in Nat
  BY TableAllocAssumption
<1>2. tableAddress \in [Tables -> Nat] /\ tableSize \in [Tables -> Sizes \cup {0}]
  BY DEF PlacedInv, TableAllocTypeOK
<1> QED  BY <1>1, <1>2

LEMMA MemoryInside ==
    ASSUME PlacedInv, NEW t \in Tables, Allocated(t)
    PROVE  Memory(t) \subseteq Cells
<1>1. tableAddress[t] # 0 /\ tableAddress[t] + tableSize[t] <= Top
  BY DEF PlacedInv, Placed, Allocated
<1> QED  BY <1>1, Numbers DEF Memory, CellsAt, Cells

\* Before the first download no table has memory.
LEMMA InitPlaced == TablesInit => PlacedInv
<1> SUFFICES ASSUME TablesInit PROVE PlacedInv
  OBVIOUS
<1>1. NoContent \in [{} -> Tables \cup {Erased, Filled}] /\ DOMAIN NoContent = {}
  BY DEF NoContent
<1>2. \A t \in Tables : crc[t] = NoContent
  BY DEF TablesInit
<1>3. TableAllocTypeOK
  BY <1>1, <1>2 DEF TablesInit, TableAllocTypeOK
<1>4. Placed
  BY DEF TablesInit, Placed, Allocated
<1>5. Asked
  BY DEF TablesInit, Asked
<1> QED  BY <1>3, <1>4, <1>5 DEF PlacedInv

LEMMA UnloadPlaced ==
    ASSUME PlacedInv, NEW t \in Tables, Unload(t)
    PROVE  PlacedInv'
<1>1. TableAllocTypeOK'
  <2>1. NoContent \in [{} -> Tables \cup {Erased, Filled}] /\ DOMAIN NoContent = {}
    BY DEF NoContent
  <2>2. \A u \in Tables : crc'[u] = IF u = t THEN NoContent ELSE crc[u]
    <3>1. crc' = [crc EXCEPT ![t] = NoContent] /\ DOMAIN crc = Tables
      BY DEF PlacedInv, TableAllocTypeOK, Unload
    <3> QED  BY <3>1
  <2> QED  BY <2>1, <2>2 DEF PlacedInv, TableAllocTypeOK, Unload
<1>2. Placed'
  BY DEF PlacedInv, TableAllocTypeOK, Placed, Apart, Allocated, Unload
<1>3. Asked'
  BY DEF PlacedInv, Asked, Unload
<1> QED  BY <1>1, <1>2, <1>3 DEF PlacedInv

LEMMA StartLoadingPlaced ==
    ASSUME PlacedInv, NEW t \in Tables, StartLoading(t)
    PROVE  PlacedInv'
<1>1. TableAllocTypeOK'
  BY DEF PlacedInv, TableAllocTypeOK, StartLoading
<1>2. Placed'
  BY DEF PlacedInv, TableAllocTypeOK, Placed, Apart, Allocated, StartLoading
<1>3. Asked'
  BY DEF PlacedInv, TableAllocTypeOK, Asked, Turn, Allocated, StartLoading
<1> QED  BY <1>1, <1>2, <1>3 DEF PlacedInv

\* The new table ends where the lowest one begins.
LEMMA AllocatePlaced ==
    ASSUME PlacedInv, NEW t \in Tables, Allocate(t)
    PROVE  PlacedInv'
<1>1. PICK n \in Sizes, mode \in Modes : handleDataRelativeAllocation(t, n, mode)
  BY DEF Allocate
<1>2. PICK v \in 1..Top : /\ Lowest(v) /\ n < v
                          /\ tableAddress' = [tableAddress EXCEPT ![t] = v - n]
                          /\ tableSize' = [tableSize EXCEPT ![t] = n]
                          /\ mem' = [a \in Cells |->
                                       IF mode /\ a \in CellsAt(v, n) THEN Filled ELSE mem[a]]
  BY <1>1 DEF handleDataRelativeAllocation
<1>3. /\ n \in Nat \ {0} /\ Top \in Nat
      /\ tableAddress \in [Tables -> Nat] /\ tableSize \in [Tables -> Sizes \cup {0}]
      /\ Sizes \subseteq Nat
  BY TableAllocAssumption DEF PlacedInv, TableAllocTypeOK
<1>4. TableAllocTypeOK'
  <2>1. tableAddress' \in [Tables -> Nat] /\ tableSize' \in [Tables -> Sizes \cup {0}]
    BY <1>2, <1>3
  <2>2. mem' \in [Cells -> Tables \cup {Erased, Filled}]
    BY <1>2 DEF PlacedInv, TableAllocTypeOK
  <2>3. UNCHANGED <<crc, loadState, toUnload, toLoad>> /\ asked' \in BOOLEAN
    BY DEF Allocate
  <2> QED  BY <2>1, <2>2, <2>3 DEF PlacedInv, TableAllocTypeOK
<1>5. Placed'
  <2>1. \A u \in Tables : u # t => tableAddress'[u] = tableAddress[u] /\ tableSize'[u] = tableSize[u]
    BY <1>2, <1>3
  <2>2. tableAddress'[t] = v - n /\ tableSize'[t] = n
    BY <1>2, <1>3
  <2>3. v <= Top /\ \A u \in Tables : Allocated(u) => v <= tableAddress[u]
    BY <1>2 DEF Lowest
  <2>4. tableAddress'[t] + tableSize'[t] <= Top
    BY <2>2, <2>3, <1>2, <1>3
  <2>5. \A u \in Tables : u # t /\ Allocated(u)' => Apart(t, u)' /\ Apart(u, t)'
    BY <2>1, <2>2, <2>3, <1>2, <1>3 DEF Apart, Allocated
  <2>6. \A u, w \in Tables : u # w /\ u # t /\ w # t /\ Allocated(u)' /\ Allocated(w)' => Apart(u, w)'
    BY <2>1 DEF PlacedInv, Placed, Apart, Allocated
  <2>7. \A u \in Tables : loadState'[u] = "LOADED" => Allocated(u)'
    BY <2>1, <2>2, <1>2, <1>3 DEF PlacedInv, Placed, Allocated, Allocate
  <2> QED  BY <2>1, <2>4, <2>5, <2>6, <2>7 DEF PlacedInv, Placed, Allocated
<1>6. Asked'
  <2>1. toUnload' = {} /\ Turn(t) /\ toLoad' = toLoad
    BY DEF Allocate, Turn
  <2>2. \A u \in Tables : Turn(u)' => u = t
    BY <2>1 DEF Turn, Tables
  <2>3. Allocated(t)'
    BY <1>2, <1>3 DEF Allocated
  <2> QED  BY <2>1, <2>2, <2>3 DEF Asked
<1> QED  BY <1>4, <1>5, <1>6 DEF PlacedInv

LEMMA WriteTablePlaced ==
    ASSUME PlacedInv, NEW t \in Tables, WriteTable(t)
    PROVE  PlacedInv'
<1>1. TableAllocTypeOK'
  BY DEF PlacedInv, TableAllocTypeOK, WriteTable
<1>2. Placed'
  BY DEF PlacedInv, Placed, Apart, Allocated, WriteTable
<1>3. Asked'
  BY DEF PlacedInv, Asked, Turn, Allocated, WriteTable
<1> QED  BY <1>1, <1>2, <1>3 DEF PlacedInv

LEMMA LoadCompletedPlaced ==
    ASSUME PlacedInv, NEW t \in Tables, LoadCompleted(t)
    PROVE  PlacedInv'
<1>1. Allocated(t)
  BY DEF PlacedInv, Asked, LoadCompleted
<1>2. Memory(t) \subseteq Cells
  BY <1>1, MemoryInside
<1>3. TableAllocTypeOK'
  <2>1. Content(t) \in [Memory(t) -> Tables \cup {Erased, Filled}]
    BY <1>2 DEF PlacedInv, TableAllocTypeOK, Content
  <2>2. \A u \in Tables : crc'[u] = IF u = t THEN Content(t) ELSE crc[u]
    <3>1. crc' = [crc EXCEPT ![t] = Content(t)] /\ DOMAIN crc = Tables
      BY DEF LoadCompleted, PlacedInv, TableAllocTypeOK
    <3> QED  BY <3>1
  <2>3. DOMAIN Content(t) \subseteq Cells /\ DOMAIN Content(t) = Memory(t)
    BY <1>2 DEF Content
  <2>4. \A u \in Tables : /\ DOMAIN crc'[u] \subseteq Cells
                          /\ crc'[u] \in [DOMAIN crc'[u] -> Tables \cup {Erased, Filled}]
    <3> TAKE u \in Tables
    <3>1. CASE u = t
      BY <3>1, <2>1, <2>2, <2>3
    <3>2. CASE u # t
      BY <3>2, <2>2 DEF PlacedInv, TableAllocTypeOK
    <3> QED  BY <3>1, <3>2
  <2>5. DOMAIN crc' = Tables
    BY DEF LoadCompleted, PlacedInv, TableAllocTypeOK
  <2> QED  BY <2>4, <2>5 DEF PlacedInv, TableAllocTypeOK, LoadCompleted, Turn
<1>4. Placed'
  BY <1>1 DEF PlacedInv, TableAllocTypeOK, Placed, Apart, Allocated, LoadCompleted
<1>5. Asked'
  BY DEF Asked, LoadCompleted
<1> QED  BY <1>3, <1>4, <1>5 DEF PlacedInv

LEMMA DownloadPlaced ==
    ASSUME PlacedInv, Download
    PROVE  PlacedInv'
<1>1. toUnload' = toLoad' /\ toLoad' \subseteq Tables /\ asked' = FALSE
  BY DEF Download
<1>2. TableAllocTypeOK'
  BY <1>1 DEF PlacedInv, TableAllocTypeOK, Download
<1>3. Placed'
  BY DEF PlacedInv, Placed, Apart, Allocated, Download
<1>4. Asked'
  BY <1>1 DEF Asked
<1> QED  BY <1>2, <1>3, <1>4 DEF PlacedInv

LEMMA NextPlaced == PlacedInv /\ [TablesNext]_tablesVars => PlacedInv'
<1> SUFFICES ASSUME PlacedInv, [TablesNext]_tablesVars PROVE PlacedInv'
  OBVIOUS
<1>1. CASE Download
  BY <1>1, DownloadPlaced
<1>2. ASSUME NEW t \in Tables,
             Unload(t) \/ StartLoading(t) \/ Allocate(t) \/ WriteTable(t) \/ LoadCompleted(t)
      PROVE  PlacedInv'
  BY <1>2, UnloadPlaced, StartLoadingPlaced, AllocatePlaced, WriteTablePlaced, LoadCompletedPlaced
<1>3. CASE UNCHANGED tablesVars
  BY <1>3 DEF tablesVars, PlacedInv, TableAllocTypeOK, Placed, Asked, Apart, Allocated, Turn
<1> QED  BY <1>1, <1>2, <1>3 DEF TablesNext

\* Ranges that are apart have no cell in common.
LEMMA ApartDisjoint ==
    ASSUME PlacedInv, NEW t \in Tables, NEW u \in Tables, t # u, Allocated(t), Allocated(u)
    PROVE  Memory(t) \cap Memory(u) = {}
<1>1. Apart(t, u)
  BY DEF PlacedInv, Placed
<1>2. /\ tableAddress[t] \in Int /\ tableSize[t] \in Int
      /\ tableAddress[u] \in Int /\ tableSize[u] \in Int
  BY Numbers
<1> QED  BY <1>1, <1>2 DEF Apart, Memory, CellsAt

\* TableAllocTypeOK, for every number of tables and every size of the EEPROM.
THEOREM TablesTypeCorrect == TablesSpec => []TableAllocTypeOK
<1>1. PlacedInv => TableAllocTypeOK
  BY DEF PlacedInv
<1> QED  BY <1>1, InitPlaced, NextPlaced, PTL DEF TablesSpec

\* Two tables never share memory: for every number of tables, all sizes, full
\* and partial downloads, filled or not (handleDataRelativeAllocation() places
\* a table below the lowest one).
THEOREM TablesStayDisjoint == TablesSpec => []TablesDisjoint
<1>1. PlacedInv => TablesDisjoint
  BY ApartDisjoint DEF TablesDisjoint
<1> QED  BY <1>1, InitPlaced, NextPlaced, PTL DEF TablesSpec

-----------------------------------------------------------------------------
(* Content *)

\* A loaded table stays whole if its cells and its memory control block do
\* not change.
LEMMA StaysWhole ==
    ASSUME PlacedInv, LoadedIsWhole, NEW t \in Tables, loadState[t] = "LOADED",
           tableAddress'[t] = tableAddress[t], tableSize'[t] = tableSize[t], crc'[t] = crc[t],
           \A a \in Memory(t) : mem'[a] = mem[a]
    PROVE  /\ \A a \in Memory(t)' : mem'[a] = t
           /\ crc'[t] = Content(t)'
<1>1. Memory(t)' = Memory(t)
  BY DEF Memory
<1>2. \A a \in Memory(t) : mem[a] = t
  BY DEF LoadedIsWhole
<1>3. crc[t] = Content(t)
  BY DEF LoadedIsWhole
<1>4. Content(t)' = Content(t)
  BY <1>1 DEF Content
<1> QED  BY <1>1, <1>2, <1>3, <1>4

LEMMA NextWhole ==
    ASSUME TRUE \notin Modes, PlacedInv, LoadedIsWhole, [TablesNext]_tablesVars
    PROVE  LoadedIsWhole'
<1> SUFFICES ASSUME NEW t \in Tables, (loadState[t] = "LOADED")'
             PROVE  /\ \A a \in Memory(t)' : mem'[a] = t
                    /\ crc'[t] = Content(t)'
  BY DEF LoadedIsWhole
<1> DEFINE Same == /\ loadState[t] = "LOADED"
                   /\ tableAddress'[t] = tableAddress[t] /\ tableSize'[t] = tableSize[t]
                   /\ crc'[t] = crc[t] /\ \A a \in Memory(t) : mem'[a] = mem[a]
<1>1. Same => /\ \A a \in Memory(t)' : mem'[a] = t
              /\ crc'[t] = Content(t)'
  BY StaysWhole
<1>2. CASE Download
  BY <1>1, <1>2 DEF Download
<1>3. ASSUME NEW u \in Tables, Unload(u)
      PROVE  Same
  BY <1>3 DEF Unload, PlacedInv, TableAllocTypeOK
<1>4. ASSUME NEW u \in Tables, StartLoading(u)
      PROVE  Same
  BY <1>4 DEF StartLoading, PlacedInv, TableAllocTypeOK
<1>5. ASSUME NEW u \in Tables, Allocate(u)
      PROVE  Same
  <2>1. loadState[u] = "LOADING" /\ UNCHANGED <<loadState, crc>>
    BY <1>5 DEF Allocate
  <2>2. t # u
    BY <2>1
  <2>3. PICK n \in Sizes, mode \in Modes : handleDataRelativeAllocation(u, n, mode)
    BY <1>5 DEF Allocate
  <2>4. PICK v \in 1..Top : /\ tableAddress' = [tableAddress EXCEPT ![u] = v - n]
                            /\ tableSize' = [tableSize EXCEPT ![u] = n]
                            /\ mem' = [a \in Cells |->
                                         IF mode /\ a \in CellsAt(v, n) THEN Filled ELSE mem[a]]
    BY <2>3 DEF handleDataRelativeAllocation
  <2>5. mode = FALSE
    BY TableAllocAssumption
  <2>6. mem' = mem
    BY <2>4, <2>5 DEF PlacedInv, TableAllocTypeOK
  <2> QED  BY <2>1, <2>2, <2>4, <2>6 DEF PlacedInv, TableAllocTypeOK
<1>6. ASSUME NEW u \in Tables, WriteTable(u)
      PROVE  Same
  <2>1. t # u /\ loadState[t] = "LOADED" /\ UNCHANGED <<tableAddress, tableSize, crc, loadState>>
    BY <1>6 DEF WriteTable
  <2>2. Allocated(t) /\ Allocated(u)
    BY <2>1, <1>6 DEF WriteTable, PlacedInv, Placed, Asked
  <2>3. Memory(t) \cap Memory(u) = {}
    BY <2>1, <2>2, ApartDisjoint
  <2>4. Memory(t) \subseteq Cells
    BY <2>2, MemoryInside
  <2>5. mem' = [a \in Cells |-> IF a \in Memory(u) THEN u ELSE mem[a]]
    BY <1>6 DEF WriteTable
  <2> QED  BY <2>1, <2>3, <2>4, <2>5
<1>7. ASSUME NEW u \in Tables, LoadCompleted(u)
      PROVE  /\ \A a \in Memory(t)' : mem'[a] = t
             /\ crc'[t] = Content(t)'
  <2>1. CASE t = u
    <3>1. Memory(t)' = Memory(t) /\ Content(t)' = Content(t)
      BY <1>7 DEF LoadCompleted, Memory, Content
    <3>2. crc'[t] = Content(t)
      BY <1>7, <2>1 DEF LoadCompleted, PlacedInv, TableAllocTypeOK
    <3>3. \A a \in Memory(t) : mem'[a] = t
      BY <1>7, <2>1 DEF LoadCompleted
    <3> QED  BY <3>1, <3>2, <3>3
  <2>2. CASE t # u
    <3>1. Same
      BY <1>7, <2>2 DEF LoadCompleted, PlacedInv, TableAllocTypeOK
    <3> QED  BY <3>1, <1>1
  <2> QED  BY <2>1, <2>2
<1>8. CASE UNCHANGED tablesVars
  BY <1>1, <1>8 DEF tablesVars
<1> QED  BY <1>1, <1>2, <1>3, <1>4, <1>5, <1>6, <1>7, <1>8 DEF TablesNext

\* A loaded table is whole and its checksum right, whatever is loaded or given
\* up later, as long as no client asks for the memory to be filled (with
\* mode 1 it does not: filling starts above the table).
THEOREM LoadedStaysWhole ==
    ASSUME TRUE \notin Modes
    PROVE  TablesSpec => []LoadedIsWhole
<1>1. TablesInit => LoadedIsWhole
  BY DEF TablesInit, LoadedIsWhole
<1>2. PlacedInv /\ LoadedIsWhole /\ [TablesNext]_tablesVars => PlacedInv' /\ LoadedIsWhole'
  BY NextPlaced, NextWhole
<1> QED  BY <1>1, <1>2, InitPlaced, PTL DEF TablesSpec

-----------------------------------------------------------------------------
(* The memory mapper: its invariant *)

\* The types of the state while the table is one that the mapper has made.
TypesInRegion ==
    /\ flashTable \in [Virt -> Entries]
    /\ dataPages \in [0 .. RegionPages -> Page]
    /\ allocTable \in [Virt -> 0 .. RegionPages] /\ allocTableModified \in BOOLEAN
    /\ writePage \in 0 .. RegionPages /\ writeBuf \in Page /\ flashMemModified \in BOOLEAN
    /\ lastAllocated \in 0 .. RegionPages
    /\ mapperPc \in {"idle", "write", "range", "flash", "programTable", "programPage", "failed"}
    /\ after \in {"idle", "write", "range"}
    /\ request \in WriteRequest \cup RangeRequest \cup {None}
    /\ written \in [Virt -> Page \cup {Unmapped}]
    /\ durable \in [Virt -> Page \cup {Unmapped}]

Flashing == mapperPc \in {"flash", "programTable", "programPage"}
InWrite == mapperPc = "write" \/ (Flashing /\ after = "write")
InRange == mapperPc \in {"range", "failed"} \/ (Flashing /\ after = "range")

\* Every operation has the request that it works on.
RequestFits ==
    /\ InWrite => request \in WriteRequest
    /\ InRange => request \in RangeRequest /\ request.next >= 1

\* No page of the region belongs to two pages, and the remembered page is the
\* highest.
SharesNothing(table) == \A v, w \in Virt : table[v] = table[w] /\ table[v] # 0 => v = w
HighestIsRemembered == lastAllocated # 0 => \A v \in Virt : allocTable[v] <= lastAllocated

\* The table in the flash is sound, or the constructor has found an error in it
\* and nothing is durable.
FlashIsSound ==
    \/ Sound(flashTable)
    \/ errorFound(flashTable) /\ allocTableModified /\ \A v \in Virt : durable[v] = Unmapped

\* The buffer holds what was written to its page; the flash holds what was
\* written to every other page, and to that one when it is not marked.
Buffered(v) == allocTable[v] = writePage
ContentKept ==
    \A v \in Virt :
        /\ allocTable[v] = 0 => written[v] = Unmapped
        /\ allocTable[v] # 0 /\ Buffered(v) => writeBuf = written[v]
        /\ allocTable[v] # 0 /\ ~(Buffered(v) /\ flashMemModified)
              => dataPages[allocTable[v]] = written[v]

\* The buffer is given to another page only when it is not marked.
BufferIsFree ==
    /\ mapperPc = "write" => ~flashMemModified \/ writePage = allocTable[request.page]
    /\ mapperPc = "range" => ~flashMemModified

\* The table is in the flash unless it is marked, or will be at the end of
\* addRange(); pages are programmed after the table.
TableIsSaved ==
    /\ ~allocTableModified => flashTable = allocTable \/ (InRange /\ request.modified)
    /\ mapperPc = "programTable" => allocTableModified
    /\ mapperPc = "programPage" => ~allocTableModified /\ flashMemModified

\* A page that was durable is in the flash as it was then, as it was written
\* since, or is the one that is programmed.
DurableIsFound ==
    \A v \in Virt : durable[v] # Unmapped =>
        /\ allocTable[v] # 0
        /\ mapperPc # "programTable" => flashTable[v] = allocTable[v]
        /\ IF Buffered(v) /\ flashMemModified
           THEN ~InRange /\ (mapperPc = "programPage" \/ dataPages[writePage] = durable[v])
           ELSE \/ durable[v] = written[v]
                \/ mapperPc = "flash" /\ ~InRange /\ ~allocTableModified /\ Buffered(v)

MapperInv ==
    /\ TypesInRegion /\ RequestFits
    /\ SharesNothing(allocTable) /\ FlashIsSound /\ HighestIsRemembered
    /\ ContentKept /\ BufferIsFree /\ TableIsSaved /\ DurableIsFound

LEMMA MapperNumbers ==
    /\ VirtPages \in Nat \ {0} /\ RegionPages \in Nat \ {0}
    /\ AutoAddPage \in BOOLEAN
    /\ ZeroPage \in Page /\ BlankPage \in Page /\ Unmapped \notin Page
    /\ EmptyTable \in [Virt -> 0 .. RegionPages] /\ 0 .. RegionPages \subseteq Entries
BY MapperAssumption DEF ZeroPage, BlankPage, Page, MapperByte, EmptyTable, Entries, ZeroEntry

LEMMA MapperInitInv == MapperInit => MapperInv
<1> SUFFICES ASSUME MapperInit PROVE MapperInv
  OBVIOUS
<1>1. TypesInRegion
  <2>1. /\ flashTable \in [Virt -> Entries] /\ allocTable \in [Virt -> 0 .. RegionPages]
        /\ writePage \in 0 .. RegionPages /\ lastAllocated \in 0 .. RegionPages
    BY MapperNumbers DEF MapperInit
  <2>2. dataPages \in [0 .. RegionPages -> Page] /\ writeBuf \in Page
    BY MapperNumbers DEF MapperInit
  <2>3. allocTableModified \in BOOLEAN /\ flashMemModified \in BOOLEAN
    BY DEF MapperInit
  <2>4. written \in [Virt -> Page \cup {Unmapped}] /\ durable \in [Virt -> Page \cup {Unmapped}]
    BY DEF MapperInit
  <2> QED  BY <2>1, <2>2, <2>3, <2>4 DEF MapperInit, TypesInRegion
<1>2. RequestFits /\ BufferIsFree /\ TableIsSaved /\ HighestIsRemembered
  BY DEF MapperInit, RequestFits, InWrite, InRange, Flashing, BufferIsFree, TableIsSaved,
     HighestIsRemembered
<1>3. SharesNothing(allocTable) /\ FlashIsSound
  BY MapperNumbers DEF MapperInit, SharesNothing, EmptyTable, FlashIsSound, Sound
<1>4. ContentKept /\ DurableIsFound
  BY DEF MapperInit, ContentKept, DurableIsFound, EmptyTable
<1> QED  BY <1>1, <1>2, <1>3, <1>4 DEF MapperInv

-----------------------------------------------------------------------------
(* doFlash() *)

LEMMA EraseTableInv ==
    ASSUME MapperInv, eraseTable
    PROVE  MapperInv'
<1> USE DEF eraseTable, tableVars, pageVars, mapperHistory
<1>1. TypesInRegion'
  BY MapperNumbers DEF MapperInv, TypesInRegion
<1>2. RequestFits'
  BY DEF MapperInv, RequestFits, InWrite, InRange, Flashing
<1>3. SharesNothing(allocTable') /\ FlashIsSound' /\ HighestIsRemembered'
  BY MapperNumbers DEF MapperInv, SharesNothing, FlashIsSound, Sound, EmptyTable, HighestIsRemembered
<1>4. ContentKept' /\ BufferIsFree' /\ TableIsSaved'
  BY DEF MapperInv, ContentKept, Buffered, BufferIsFree, TableIsSaved, InRange, Flashing
<1>5. DurableIsFound'
  BY DEF MapperInv, DurableIsFound, Buffered, InRange, Flashing
<1> QED  BY <1>1, <1>2, <1>3, <1>4, <1>5 DEF MapperInv, SharesNothing

LEMMA ProgramTableInv ==
    ASSUME MapperInv, programTable
    PROVE  MapperInv'
<1> USE DEF programTable, pageVars, mapperHistory
<1>1. TypesInRegion'
  <2>1. allocTable \in [Virt -> Entries]
    BY MapperNumbers DEF MapperInv, TypesInRegion
  <2> QED  BY <2>1 DEF MapperInv, TypesInRegion
<1>2. RequestFits'
  BY DEF MapperInv, RequestFits, InWrite, InRange, Flashing
<1>3. SharesNothing(allocTable') /\ FlashIsSound' /\ HighestIsRemembered'
  BY DEF MapperInv, TypesInRegion, SharesNothing, FlashIsSound, Sound, HighestIsRemembered
<1>4. ContentKept' /\ BufferIsFree' /\ TableIsSaved'
  BY DEF MapperInv, ContentKept, Buffered, BufferIsFree, TableIsSaved, InRange, Flashing
<1>5. DurableIsFound'
  BY DEF MapperInv, DurableIsFound, Buffered, InRange, Flashing
<1> QED  BY <1>1, <1>2, <1>3, <1>4, <1>5 DEF MapperInv, SharesNothing

LEMMA ErasePageInv ==
    ASSUME MapperInv, erasePage
    PROVE  MapperInv'
<1> USE DEF erasePage, tableVars, pageVars, mapperHistory
<1>1. TypesInRegion'
  BY MapperNumbers DEF MapperInv, TypesInRegion
<1>2. RequestFits'
  BY DEF MapperInv, RequestFits, InWrite, InRange, Flashing
<1>3. SharesNothing(allocTable') /\ FlashIsSound' /\ HighestIsRemembered'
  BY DEF MapperInv, SharesNothing, FlashIsSound, Sound, HighestIsRemembered
<1>4. BufferIsFree' /\ TableIsSaved'
  BY DEF MapperInv, BufferIsFree, TableIsSaved, InRange, Flashing
<1>5. \A p \in 0 .. RegionPages : p # writePage => dataPages'[p] = dataPages[p]
  BY DEF MapperInv, TypesInRegion
<1>6. \A v \in Virt : allocTable[v] \in 0 .. RegionPages
  BY DEF MapperInv, TypesInRegion
<1>7. ContentKept'
  BY <1>5, <1>6 DEF MapperInv, ContentKept, Buffered
<1>8. DurableIsFound'
  BY DEF MapperInv, DurableIsFound, Buffered, InRange, Flashing
<1> QED  BY <1>1, <1>2, <1>3, <1>4, <1>7, <1>8 DEF MapperInv, SharesNothing

LEMMA ProgramPageInv ==
    ASSUME MapperInv, programPage
    PROVE  MapperInv'
<1> USE DEF programPage, tableVars, mapperHistory
<1>1. TypesInRegion'
  BY DEF MapperInv, TypesInRegion
<1>2. RequestFits'
  BY DEF MapperInv, RequestFits, InWrite, InRange, Flashing
<1>3. SharesNothing(allocTable') /\ FlashIsSound' /\ HighestIsRemembered'
  BY DEF MapperInv, SharesNothing, FlashIsSound, Sound, HighestIsRemembered
<1>4. BufferIsFree' /\ TableIsSaved'
  BY DEF MapperInv, BufferIsFree, TableIsSaved, InRange, Flashing
<1>5. \A p \in 0 .. RegionPages : dataPages'[p] = IF p = writePage THEN writeBuf ELSE dataPages[p]
  BY DEF MapperInv, TypesInRegion
<1>6. \A v \in Virt : allocTable[v] \in 0 .. RegionPages
  BY DEF MapperInv, TypesInRegion
<1>7. ContentKept'
  BY <1>5, <1>6 DEF MapperInv, ContentKept, Buffered
<1>8. DurableIsFound'
  BY DEF MapperInv, DurableIsFound, TableIsSaved, Buffered, InRange, Flashing
<1> QED  BY <1>1, <1>2, <1>3, <1>4, <1>7, <1>8 DEF MapperInv, SharesNothing

LEMMA FlashedInv ==
    ASSUME MapperInv, flashed
    PROVE  MapperInv'
<1> USE DEF flashed, regionVars, tableVars, pageVars
<1>1. TypesInRegion'
  BY DEF MapperInv, TypesInRegion
<1>2. RequestFits'
  BY DEF MapperInv, RequestFits, InWrite, InRange, Flashing, TypesInRegion
<1>3. SharesNothing(allocTable') /\ FlashIsSound' /\ HighestIsRemembered'
  BY DEF MapperInv, SharesNothing, FlashIsSound, Sound, HighestIsRemembered
<1>4. ContentKept' /\ BufferIsFree'
  BY DEF MapperInv, ContentKept, Buffered, BufferIsFree
<1>5. InRange' <=> InRange
  BY DEF InRange, Flashing, MapperInv, TypesInRegion
<1>6. TableIsSaved'
  BY <1>5 DEF MapperInv, TableIsSaved, TypesInRegion
<1>7. DurableIsFound'
  <2>1. CASE after = "range"
    BY <1>5, <2>1 DEF MapperInv, DurableIsFound, Buffered, InRange, Flashing
  <2>2. CASE after # "range"
    <3>1. durable' = written /\ flashTable = allocTable
      BY <2>2 DEF MapperInv, TableIsSaved, InRange, Flashing
    <3> QED  BY <1>6, <3>1 DEF MapperInv, ContentKept, DurableIsFound, Buffered
  <2> QED  BY <2>1, <2>2
<1> QED  BY <1>1, <1>2, <1>3, <1>4, <1>6, <1>7 DEF MapperInv, SharesNothing

-----------------------------------------------------------------------------
(* Allocation *)

LEMMA HighestAllocated ==
    ASSUME TypesInRegion, HighestIsRemembered
    PROVE  /\ highestAllocated \in 0 .. RegionPages
           /\ \A v \in Virt : allocTable[v] <= highestAllocated
<1>1. RegionPages \in Nat /\ \A v \in Virt : allocTable[v] \in 0 .. RegionPages
  BY MapperNumbers DEF TypesInRegion
<1>2. CASE lastAllocated # 0
  BY <1>1, <1>2 DEF highestAllocated, HighestIsRemembered, TypesInRegion
<1>3. CASE lastAllocated = 0
  <2> DEFINE S == {p \in 0 .. RegionPages : p = 0 \/ \E v \in Virt : allocTable[v] = p}
             Is(p) == /\ p = 0 \/ \E v \in Virt : allocTable[v] = p
                      /\ \A v \in Virt : allocTable[v] <= p
  <2>1. 0 \in S /\ S \in SUBSET (0 .. RegionPages) /\ \A v \in Virt : allocTable[v] \in S
    BY <1>1
  <2>2. PICK x \in S : \A y \in S : y <= x
    <3> HIDE DEF S
    <3> QED  BY <1>1, <2>1, Greatest
  <2>3. x \in 0 .. RegionPages /\ Is(x)
    BY <2>1, <2>2
  <2>4. highestUsed \in 0 .. RegionPages /\ Is(highestUsed)
    <3>1. highestUsed = CHOOSE p \in 0 .. RegionPages : Is(p)
      BY DEF highestUsed
    <3> HIDE DEF Is
    <3> QED  BY <2>3, <3>1
  <2> QED  BY <1>3, <2>4 DEF highestAllocated
<1> QED  BY <1>2, <1>3

\* A page that is allocated is one of the region that no other page has.
LEMMA FreshPage ==
    ASSUME MapperInv, ~OutOfMemory, NEW v \in Virt, allocTable[v] = 0, allocatePage(v)
    PROVE  /\ writePage' \in 1 .. RegionPages
           /\ \A w \in Virt : allocTable[w] # writePage'
           /\ allocTable' \in [Virt -> 0 .. RegionPages]
           /\ allocTable'[v] = writePage'
           /\ \A w \in Virt \ {v} : allocTable'[w] = allocTable[w]
           /\ lastAllocated' \in 0 .. RegionPages
           /\ HighestIsRemembered' /\ SharesNothing(allocTable')
<1> DEFINE h == highestAllocated
<1>1. TypesInRegion /\ RegionPages \in Nat \ {0}
  BY MapperNumbers DEF MapperInv
<1>2. h \in 0 .. RegionPages /\ \A w \in Virt : allocTable[w] <= h
  BY HighestAllocated DEF MapperInv
<1>3. h # RegionPages
  BY DEF OutOfMemory
<1>4. /\ lastAllocated' = IF h = 0 THEN 0 ELSE h + 1
      /\ writePage' = h + 1
      /\ allocTable' = [allocTable EXCEPT ![v] = h + 1]
  BY DEF allocatePage
<1> HIDE DEF h
<1>5. h + 1 \in 1 .. RegionPages
  BY <1>1, <1>2, <1>3
<1>6. \A w \in Virt : allocTable[w] \in 0 .. RegionPages /\ allocTable[w] # h + 1
  BY <1>1, <1>2 DEF TypesInRegion
<1>7. /\ allocTable' \in [Virt -> 0 .. RegionPages]
      /\ allocTable'[v] = h + 1 /\ \A w \in Virt \ {v} : allocTable'[w] = allocTable[w]
  BY <1>1, <1>4, <1>5 DEF TypesInRegion
<1>8. HighestIsRemembered'
  <2>1. \A w \in Virt : allocTable'[w] <= h + 1
    BY <1>1, <1>2, <1>6, <1>7
  <2> QED  BY <1>4, <2>1 DEF HighestIsRemembered
<1>9. SharesNothing(allocTable')
  BY <1>6, <1>7 DEF SharesNothing, MapperInv
<1>10. lastAllocated' \in 0 .. RegionPages
  BY <1>1, <1>4, <1>5
<1> QED  BY <1>4, <1>5, <1>6, <1>7, <1>8, <1>9, <1>10

-----------------------------------------------------------------------------
(* Writing *)

LEMMA StoreType ==
    ASSUME NEW b \in Page, NEW w \in WriteRequest
    PROVE  Store(b, w) \in Page
BY DEF Store, Page, WriteRequest, MapperByte

LEMMA WriteMemInv ==
    ASSUME MapperInv, NEW v \in Virt, NEW o \in Offsets, NEW x \in Values, writeMem(v, o, x)
    PROVE  MapperInv'
<1>1. /\ mapperPc = "idle"
      /\ request' = [page |-> v, offset |-> o, data |-> x]
      /\ mapperPc' = (IF writePage # allocTable[v] THEN "flash" ELSE "write") /\ after' = "write"
      /\ UNCHANGED <<flashTable, dataPages, allocTable, allocTableModified, lastAllocated,
                     writePage, writeBuf, flashMemModified, written, durable>>
  BY DEF writeMem, flushBeforeSwap, regionVars, tableVars, pageVars, mapperHistory
<1>2. request' \in WriteRequest /\ request'.page = v
  BY <1>1 DEF WriteRequest
<1>3. TypesInRegion'
  BY <1>1, <1>2 DEF MapperInv, TypesInRegion
<1>4. RequestFits'
  BY <1>1, <1>2 DEF RequestFits, InWrite, InRange, Flashing
<1>5. SharesNothing(allocTable') /\ FlashIsSound' /\ HighestIsRemembered'
  BY <1>1 DEF MapperInv, SharesNothing, FlashIsSound, Sound, HighestIsRemembered
<1>6. ContentKept' /\ BufferIsFree'
  BY <1>1, <1>2 DEF MapperInv, ContentKept, Buffered, BufferIsFree
<1>7. TableIsSaved' /\ DurableIsFound'
  BY <1>1 DEF MapperInv, TableIsSaved, DurableIsFound, Buffered, InRange, Flashing
<1> QED  BY <1>3, <1>4, <1>5, <1>6, <1>7 DEF MapperInv, SharesNothing

LEMMA WriteMappedInv ==
    ASSUME MapperInv, endOfWrite, writeMapped
    PROVE  MapperInv'
<1> DEFINE v == request.page
           p == allocTable[v]
           new == Store(swappedIn(p), request)
<1>1. /\ mapperPc = "write" /\ mapperPc' = "idle" /\ after' = "idle" /\ request' = None
      /\ p # 0 \/ ~AutoAddPage
      /\ writePage' = p /\ writeBuf' = new /\ flashMemModified' = TRUE
      /\ written' = IF p = 0 THEN written ELSE [written EXCEPT ![v] = Store(@, request)]
      /\ UNCHANGED <<flashTable, dataPages, durable, allocTable, allocTableModified, lastAllocated>>
  BY DEF endOfWrite, writeMapped, tableVars, regionVars
<1>2. request \in WriteRequest /\ v \in Virt
  BY <1>1 DEF MapperInv, RequestFits, InWrite, WriteRequest
<1>3. TypesInRegion /\ p \in 0 .. RegionPages
  BY <1>2 DEF MapperInv, TypesInRegion
<1>4. swappedIn(p) \in Page
  BY <1>3 DEF swappedIn, TypesInRegion
<1>5. p # 0 => swappedIn(p) = written[v] /\ written[v] \in Page
  <2>1. p # 0 => swappedIn(p) = written[v]
    BY <1>2, <1>3 DEF MapperInv, ContentKept, Buffered, swappedIn
  <2> QED  BY <1>4, <2>1
<1>6. new \in Page
  BY <1>2, <1>4, StoreType
<1>7. /\ written' \in [Virt -> Page \cup {Unmapped}]
      /\ \A w \in Virt : written'[w] = IF w = v /\ p # 0 THEN new ELSE written[w]
  <2>1. CASE p = 0
    BY <1>1, <1>3, <2>1 DEF TypesInRegion
  <2>2. CASE p # 0
    <3>1. written' = [written EXCEPT ![v] = new]
      BY <1>1, <1>5, <2>2
    <3> HIDE DEF new
    <3> QED  BY <1>2, <1>3, <1>6, <2>2, <3>1 DEF TypesInRegion
  <2> QED  BY <2>1, <2>2
<1>8. ~flashMemModified \/ writePage = p
  BY <1>1 DEF MapperInv, BufferIsFree
<1> HIDE DEF new
<1>9. TypesInRegion'
  BY <1>1, <1>3, <1>6, <1>7 DEF TypesInRegion
<1>10. RequestFits' /\ BufferIsFree'
  BY <1>1 DEF RequestFits, InWrite, InRange, Flashing, BufferIsFree
<1>11. SharesNothing(allocTable') /\ FlashIsSound' /\ HighestIsRemembered'
  BY <1>1 DEF MapperInv, SharesNothing, FlashIsSound, Sound, HighestIsRemembered
<1>12. \A w \in Virt : allocTable[w] = p /\ p # 0 => w = v
  BY <1>2 DEF MapperInv, SharesNothing
<1>13. ContentKept'
  <2> SUFFICES ASSUME NEW w \in Virt
               PROVE  /\ allocTable[w] = 0 => written'[w] = Unmapped
                      /\ allocTable[w] # 0 /\ allocTable[w] = p => new = written'[w]
                      /\ allocTable[w] # 0 /\ allocTable[w] # p => dataPages[allocTable[w]] = written'[w]
    BY <1>1 DEF ContentKept, Buffered
  <2>1. CASE w = v
    BY <1>7, <2>1 DEF MapperInv, ContentKept
  <2>2. CASE w # v
    BY <1>7, <1>8, <1>12, <2>2 DEF MapperInv, ContentKept, Buffered
  <2> QED  BY <2>1, <2>2
<1>14. TableIsSaved'
  BY <1>1 DEF MapperInv, TableIsSaved, InRange, Flashing
<1>15. DurableIsFound'
  <2> SUFFICES ASSUME NEW w \in Virt, durable[w] # Unmapped
               PROVE  /\ allocTable[w] # 0 /\ flashTable[w] = allocTable[w]
                      /\ allocTable[w] = p => dataPages[p] = durable[w]
                      /\ allocTable[w] # p => durable[w] = written'[w]
    BY <1>1 DEF DurableIsFound, Buffered, InRange, Flashing
  <2>1. /\ allocTable[w] # 0 /\ flashTable[w] = allocTable[w]
        /\ IF Buffered(w) /\ flashMemModified THEN dataPages[writePage] = durable[w]
           ELSE durable[w] = written[w]
    BY <1>1 DEF MapperInv, DurableIsFound
  <2>2. CASE Buffered(w) /\ flashMemModified
    <3>1. p = writePage
      BY <1>8, <2>2
    <3> QED  BY <2>1, <2>2, <3>1 DEF Buffered
  <2>3. CASE ~(Buffered(w) /\ flashMemModified)
    <3>1. durable[w] = written[w] /\ dataPages[allocTable[w]] = written[w]
      BY <2>1, <2>3 DEF MapperInv, ContentKept
    <3>2. allocTable[w] # p => w # v
      OBVIOUS
    <3> QED  BY <1>7, <2>1, <3>1, <3>2
  <2> QED  BY <2>2, <2>3
<1> QED  BY <1>9, <1>10, <1>11, <1>13, <1>14, <1>15 DEF MapperInv, SharesNothing

LEMMA WriteNewPageInv ==
    ASSUME MapperInv, endOfWrite, writeNewPage
    PROVE  MapperInv'
<1> DEFINE v == request.page
           new == Store(ZeroPage, request)
<1>1. /\ mapperPc = "write" /\ mapperPc' = "idle" /\ after' = "idle" /\ request' = None
      /\ allocTable[v] = 0 /\ ~OutOfMemory /\ allocatePage(v)
      /\ allocTableModified' = TRUE /\ writeBuf' = new /\ flashMemModified' = TRUE
      /\ written' = [written EXCEPT ![v] = new]
      /\ UNCHANGED <<flashTable, dataPages, durable>>
  BY DEF endOfWrite, writeNewPage, regionVars
<1>2. request \in WriteRequest /\ v \in Virt
  BY <1>1 DEF MapperInv, RequestFits, InWrite, WriteRequest
<1>3. new \in Page
  BY <1>2, MapperNumbers, StoreType
<1>4. /\ writePage' \in 1 .. RegionPages
      /\ \A w \in Virt : allocTable[w] # writePage'
      /\ allocTable' \in [Virt -> 0 .. RegionPages]
      /\ allocTable'[v] = writePage'
      /\ \A w \in Virt \ {v} : allocTable'[w] = allocTable[w]
      /\ lastAllocated' \in 0 .. RegionPages
      /\ HighestIsRemembered' /\ SharesNothing(allocTable')
  BY <1>1, <1>2, FreshPage
<1> HIDE DEF new
<1>5. TypesInRegion'
  BY <1>1, <1>2, <1>3, <1>4 DEF MapperInv, TypesInRegion
<1>6. RequestFits' /\ BufferIsFree'
  BY <1>1 DEF RequestFits, InWrite, InRange, Flashing, BufferIsFree
<1>7. \A w \in Virt : written'[w] = IF w = v THEN new ELSE written[w]
  BY <1>1 DEF MapperInv, TypesInRegion
<1>8. ~flashMemModified \/ writePage = 0
  BY <1>1 DEF MapperInv, BufferIsFree
<1>9. writePage' # 0
  BY <1>4
<1>10. ContentKept'
  <2> SUFFICES ASSUME NEW w \in Virt
               PROVE  /\ allocTable'[w] = 0 => written'[w] = Unmapped
                      /\ allocTable'[w] # 0 /\ allocTable'[w] = writePage' => new = written'[w]
                      /\ allocTable'[w] # 0 /\ allocTable'[w] # writePage'
                            => dataPages[allocTable'[w]] = written'[w]
    BY <1>1 DEF ContentKept, Buffered
  <2>1. CASE w = v
    BY <1>4, <1>7, <1>9, <2>1
  <2>2. CASE w # v
    BY <1>4, <1>7, <1>8, <2>2 DEF MapperInv, ContentKept, Buffered
  <2> QED  BY <2>1, <2>2
<1>11. TableIsSaved'
  BY <1>1 DEF TableIsSaved
<1>12. DurableIsFound'
  <2> SUFFICES ASSUME NEW w \in Virt, durable[w] # Unmapped
               PROVE  /\ allocTable'[w] # 0 /\ flashTable[w] = allocTable'[w]
                      /\ allocTable'[w] # writePage'
                      /\ durable[w] = written'[w]
    BY <1>1 DEF DurableIsFound, Buffered, InRange, Flashing
  <2>1. /\ allocTable[w] # 0 /\ flashTable[w] = allocTable[w]
        /\ IF Buffered(w) /\ flashMemModified THEN TRUE ELSE durable[w] = written[w]
    BY <1>1 DEF MapperInv, DurableIsFound
  <2>2. w # v /\ ~(Buffered(w) /\ flashMemModified)
    BY <1>1, <1>8, <2>1 DEF Buffered
  <2> QED  BY <1>4, <1>7, <2>1, <2>2
<1>13. FlashIsSound'
  BY <1>1 DEF MapperInv, FlashIsSound
<1> QED  BY <1>1, <1>4, <1>5, <1>6, <1>10, <1>11, <1>12, <1>13 DEF MapperInv, SharesNothing

LEMMA WriteFailsInv ==
    ASSUME MapperInv, endOfWrite, writeFails
    PROVE  MapperInv'
<1>1. /\ mapperPc = "write" /\ mapperPc' = "idle" /\ after' = "idle" /\ request' = None
      /\ allocTable[request.page] = 0 /\ writePage' = 0
      /\ lastAllocated' = highestAllocated
      /\ UNCHANGED <<flashTable, dataPages, durable, allocTable, allocTableModified,
                     writeBuf, flashMemModified, written>>
  BY DEF endOfWrite, writeFails, regionVars
<1>2. highestAllocated \in 0 .. RegionPages /\ \A v \in Virt : allocTable[v] <= highestAllocated
  BY HighestAllocated DEF MapperInv
<1>3. TypesInRegion'
  BY <1>1, <1>2, MapperNumbers DEF MapperInv, TypesInRegion
<1>4. RequestFits' /\ BufferIsFree'
  BY <1>1 DEF RequestFits, InWrite, InRange, Flashing, BufferIsFree
<1>5. SharesNothing(allocTable') /\ FlashIsSound' /\ HighestIsRemembered'
  BY <1>1, <1>2 DEF MapperInv, SharesNothing, FlashIsSound, Sound, HighestIsRemembered
<1>6. ~flashMemModified \/ writePage = 0
  BY <1>1 DEF MapperInv, BufferIsFree
<1>7. ContentKept' /\ TableIsSaved'
  BY <1>1, <1>6 DEF MapperInv, ContentKept, Buffered, TableIsSaved, InRange, Flashing
<1>8. DurableIsFound'
  BY <1>1, <1>6 DEF MapperInv, DurableIsFound, Buffered, InRange, Flashing
<1> QED  BY <1>3, <1>4, <1>5, <1>7, <1>8 DEF MapperInv, SharesNothing

-----------------------------------------------------------------------------
(* addRange() *)

LEMMA AddRangeInv ==
    ASSUME MapperInv, CleanRanges,
           NEW first \in Virt, NEW last \in Virt, addRange(first, last)
    PROVE  MapperInv'
<1>1. /\ mapperPc = "idle" /\ ~flashMemModified /\ mapperPc' = "range"
      /\ request' = [next |-> first, last |-> last, modified |-> FALSE]
      /\ UNCHANGED <<flashTable, dataPages, allocTable, allocTableModified, lastAllocated,
                     writePage, writeBuf, flashMemModified, after, written, durable>>
  BY DEF addRange, regionVars, tableVars, pageVars, mapperHistory
<1>2. request' \in RangeRequest /\ request'.next >= 1
  BY <1>1 DEF RangeRequest, Virt
<1>3. TypesInRegion'
  BY <1>1, <1>2 DEF MapperInv, TypesInRegion
<1>4. RequestFits'
  BY <1>1, <1>2 DEF RequestFits, InWrite, InRange, Flashing
<1>5. SharesNothing(allocTable') /\ FlashIsSound' /\ HighestIsRemembered'
  BY <1>1 DEF MapperInv, SharesNothing, FlashIsSound, Sound, HighestIsRemembered
<1>6. ContentKept' /\ BufferIsFree'
  BY <1>1 DEF MapperInv, ContentKept, Buffered, BufferIsFree
<1>7. TableIsSaved' /\ DurableIsFound'
  BY <1>1 DEF MapperInv, TableIsSaved, DurableIsFound, Buffered, InRange, Flashing
<1> QED  BY <1>3, <1>4, <1>5, <1>6, <1>7 DEF MapperInv, SharesNothing

\* The page that is looked at is one of the range.
LEMMA RangeIsVirtual ==
    ASSUME MapperInv, mapperPc = "range"
    PROVE  /\ request \in RangeRequest /\ request.next >= 1
           /\ request.next <= request.last => request.next \in Virt
<1>1. request \in RangeRequest /\ request.next >= 1
  BY DEF MapperInv, RequestFits, InRange
<1>2. request.next \in Nat /\ request.last \in Virt
  BY <1>1 DEF RangeRequest
<1> QED  BY <1>1, <1>2, MapperNumbers DEF Virt

LEMMA RangeAllocatesInv ==
    ASSUME MapperInv, rangeAllocates
    PROVE  MapperInv'
<1> DEFINE v == request.next
<1>1. /\ mapperPc = "range" /\ v <= request.last /\ mapperPc' = "flash" /\ after' = "range"
      /\ allocTable[v] = 0 /\ ~OutOfMemory /\ allocatePage(v)
      /\ writeBuf' = ZeroPage /\ flashMemModified' = TRUE
      /\ allocTableModified' = allocTableModified
      /\ request' = [request EXCEPT !.next = @ + 1, !.modified = TRUE]
      /\ written' = [written EXCEPT ![v] = ZeroPage]
      /\ UNCHANGED <<flashTable, dataPages, durable>>
  BY DEF rangeAllocates, rangeTable, doFlash, regionVars
<1>2. request \in RangeRequest /\ v >= 1 /\ v \in Virt
  BY <1>1, RangeIsVirtual
<1>3. request' \in RangeRequest /\ request'.next >= 1 /\ request'.modified
  <2>1. request' = [next |-> v + 1, last |-> request.last, modified |-> TRUE]
    BY <1>1, <1>2 DEF RangeRequest
  <2> QED  BY <1>2, <2>1 DEF RangeRequest
<1>4. /\ writePage' \in 1 .. RegionPages
      /\ \A w \in Virt : allocTable[w] # writePage'
      /\ allocTable' \in [Virt -> 0 .. RegionPages]
      /\ allocTable'[v] = writePage'
      /\ \A w \in Virt \ {v} : allocTable'[w] = allocTable[w]
      /\ lastAllocated' \in 0 .. RegionPages
      /\ HighestIsRemembered' /\ SharesNothing(allocTable')
  BY <1>1, <1>2, FreshPage
<1>5. TypesInRegion'
  <2>1. request' \in WriteRequest \cup RangeRequest \cup {None}
    BY <1>3
  <2> QED  BY <1>1, <1>2, <1>4, <2>1, MapperNumbers DEF MapperInv, TypesInRegion
<1>6. RequestFits' /\ BufferIsFree'
  BY <1>1, <1>3 DEF RequestFits, InWrite, InRange, Flashing, BufferIsFree
<1>7. \A w \in Virt : written'[w] = IF w = v THEN ZeroPage ELSE written[w]
  BY <1>1 DEF MapperInv, TypesInRegion
<1>8. ~flashMemModified /\ writePage' # 0
  BY <1>1, <1>4 DEF MapperInv, BufferIsFree
<1>9. ContentKept'
  <2> SUFFICES ASSUME NEW w \in Virt
               PROVE  /\ allocTable'[w] = 0 => written'[w] = Unmapped
                      /\ allocTable'[w] # 0 /\ allocTable'[w] = writePage' => ZeroPage = written'[w]
                      /\ allocTable'[w] # 0 /\ allocTable'[w] # writePage'
                            => dataPages[allocTable'[w]] = written'[w]
    BY <1>1 DEF ContentKept, Buffered
  <2>1. CASE w = v
    BY <1>4, <1>7, <1>8, <2>1
  <2>2. CASE w # v
    BY <1>4, <1>7, <1>8, <2>2 DEF MapperInv, ContentKept, Buffered
  <2> QED  BY <2>1, <2>2
<1>10. TableIsSaved'
  BY <1>1, <1>3 DEF TableIsSaved, InRange, Flashing
<1>11. DurableIsFound'
  <2> SUFFICES ASSUME NEW w \in Virt, durable[w] # Unmapped
               PROVE  /\ allocTable'[w] # 0 /\ flashTable[w] = allocTable'[w]
                      /\ allocTable'[w] # writePage'
                      /\ durable[w] = written'[w]
    BY <1>1 DEF DurableIsFound, Buffered, InRange, Flashing
  <2>1. allocTable[w] # 0 /\ flashTable[w] = allocTable[w] /\ durable[w] = written[w]
    BY <1>1, <1>8 DEF MapperInv, DurableIsFound
  <2>2. w # v
    BY <1>1, <2>1
  <2> QED  BY <1>4, <1>7, <2>1, <2>2
<1>12. FlashIsSound'
  BY <1>1 DEF MapperInv, FlashIsSound
<1> QED  BY <1>1, <1>4, <1>5, <1>6, <1>9, <1>10, <1>11, <1>12 DEF MapperInv, SharesNothing

LEMMA RangeSkipsInv ==
    ASSUME MapperInv, rangeSkips
    PROVE  MapperInv'
<1>1. /\ mapperPc = "range" /\ request.next <= request.last
      /\ request' = [request EXCEPT !.next = @ + 1]
      /\ UNCHANGED <<flashTable, dataPages, allocTable, allocTableModified, lastAllocated,
                     writePage, writeBuf, flashMemModified, mapperPc, after, written, durable>>
  BY DEF rangeSkips, regionVars, tableVars, pageVars, mapperHistory
<1>2. request \in RangeRequest /\ request.next >= 1
  BY <1>1, RangeIsVirtual
<1>3. request' \in RangeRequest /\ request'.next >= 1 /\ request'.modified = request.modified
  <2>1. request' = [next |-> request.next + 1, last |-> request.last, modified |-> request.modified]
    BY <1>1, <1>2 DEF RangeRequest
  <2> QED  BY <1>2, <2>1 DEF RangeRequest
<1>4. TypesInRegion'
  BY <1>1, <1>3 DEF MapperInv, TypesInRegion
<1>5. RequestFits'
  BY <1>1, <1>3 DEF RequestFits, InWrite, InRange, Flashing
<1>6. SharesNothing(allocTable') /\ FlashIsSound' /\ HighestIsRemembered'
  BY <1>1 DEF MapperInv, SharesNothing, FlashIsSound, Sound, HighestIsRemembered
<1>7. ContentKept' /\ BufferIsFree'
  BY <1>1 DEF MapperInv, ContentKept, Buffered, BufferIsFree
<1>8. TableIsSaved' /\ DurableIsFound'
  BY <1>1, <1>3 DEF MapperInv, TableIsSaved, DurableIsFound, Buffered, InRange, Flashing
<1> QED  BY <1>4, <1>5, <1>6, <1>7, <1>8 DEF MapperInv, SharesNothing

LEMMA RangeFailsInv ==
    ASSUME MapperInv, rangeFails
    PROVE  MapperInv'
<1>1. /\ mapperPc = "range" /\ mapperPc' = "failed" /\ lastAllocated' = highestAllocated
      /\ UNCHANGED <<flashTable, dataPages, allocTable, allocTableModified, writePage, writeBuf,
                     flashMemModified, after, request, written, durable>>
  BY DEF rangeFails, regionVars, pageVars, mapperHistory
<1>2. highestAllocated \in 0 .. RegionPages /\ \A v \in Virt : allocTable[v] <= highestAllocated
  BY HighestAllocated DEF MapperInv
<1>3. TypesInRegion'
  BY <1>1, <1>2 DEF MapperInv, TypesInRegion
<1>4. RequestFits' /\ BufferIsFree'
  BY <1>1 DEF MapperInv, RequestFits, InWrite, InRange, Flashing, BufferIsFree
<1>5. SharesNothing(allocTable') /\ FlashIsSound' /\ HighestIsRemembered'
  BY <1>1, <1>2 DEF MapperInv, SharesNothing, FlashIsSound, Sound, HighestIsRemembered
<1>6. ContentKept' /\ TableIsSaved'
  BY <1>1 DEF MapperInv, ContentKept, Buffered, TableIsSaved, InRange, Flashing
<1>7. DurableIsFound'
  BY <1>1 DEF MapperInv, DurableIsFound, Buffered, InRange, Flashing
<1> QED  BY <1>3, <1>4, <1>5, <1>6, <1>7 DEF MapperInv, SharesNothing

LEMMA EndOfRangeInv ==
    ASSUME MapperInv, endOfRange
    PROVE  MapperInv'
<1>1. /\ mapperPc = "range" /\ mapperPc' = "flash" /\ after' = "idle" /\ request' = None
      /\ allocTableModified' = (allocTableModified \/ request.modified)
      /\ UNCHANGED <<flashTable, dataPages, allocTable, lastAllocated, writePage, writeBuf,
                     flashMemModified, written, durable>>
  BY DEF endOfRange, tableChanged, doFlash, regionVars, pageVars, mapperHistory
<1>2. request \in RangeRequest
  BY <1>1, RangeIsVirtual
<1>3. TypesInRegion'
  BY <1>1, <1>2 DEF MapperInv, TypesInRegion, RangeRequest
<1>4. RequestFits' /\ BufferIsFree'
  BY <1>1 DEF RequestFits, InWrite, InRange, Flashing, BufferIsFree
<1>5. SharesNothing(allocTable') /\ FlashIsSound' /\ HighestIsRemembered'
  BY <1>1 DEF MapperInv, SharesNothing, FlashIsSound, Sound, HighestIsRemembered
<1>6. ContentKept' /\ TableIsSaved'
  BY <1>1 DEF MapperInv, ContentKept, Buffered, TableIsSaved, InRange, Flashing
<1>7. ~flashMemModified
  BY <1>1 DEF MapperInv, BufferIsFree
<1>8. DurableIsFound'
  BY <1>1, <1>7 DEF MapperInv, DurableIsFound, Buffered, InRange, Flashing
<1> QED  BY <1>3, <1>4, <1>5, <1>6, <1>8 DEF MapperInv, SharesNothing

-----------------------------------------------------------------------------
(* Flushing and restarting *)

LEMMA FlushMemoryInv ==
    ASSUME MapperInv, flushMemory
    PROVE  MapperInv'
<1>1. /\ mapperPc = "idle" /\ mapperPc' = "flash" /\ after' = "idle"
      /\ UNCHANGED <<flashTable, dataPages, allocTable, allocTableModified, lastAllocated,
                     writePage, writeBuf, flashMemModified, request, written, durable>>
  BY DEF flushMemory, doFlash, regionVars, tableVars, pageVars, mapperHistory
<1>2. TypesInRegion' /\ RequestFits' /\ BufferIsFree'
  BY <1>1 DEF MapperInv, TypesInRegion, RequestFits, InWrite, InRange, Flashing, BufferIsFree
<1>3. SharesNothing(allocTable') /\ FlashIsSound' /\ HighestIsRemembered'
  BY <1>1 DEF MapperInv, SharesNothing, FlashIsSound, Sound, HighestIsRemembered
<1>4. ContentKept' /\ TableIsSaved'
  BY <1>1 DEF MapperInv, ContentKept, Buffered, TableIsSaved, InRange, Flashing
<1>5. DurableIsFound'
  BY <1>1 DEF MapperInv, DurableIsFound, Buffered, InRange, Flashing
<1> QED  BY <1>2, <1>3, <1>4, <1>5 DEF MapperInv, SharesNothing

LEMMA ContentsAre ==
    ASSUME NEW table \in [Virt -> Entries], NEW pages \in [0 .. RegionPages -> Page]
    PROVE  /\ PagesOf(table, pages) \in [Virt -> Page \cup {Unmapped}]
           /\ \A v \in Virt : table[v] \in 0 .. RegionPages =>
                PagesOf(table, pages)[v] = IF table[v] = 0 THEN Unmapped ELSE pages[table[v]]
<1>1. RegionPages \in Nat
  BY MapperNumbers
<1> QED  BY <1>1 DEF PagesOf

\* The failure leaves a flash of tables and pages, and what is not at risk.
LEMMA AfterPowerFails ==
    ASSUME TypesInRegion, PowerFails
    PROVE  /\ flashTable' \in [Virt -> Entries]
           /\ dataPages' \in [0 .. RegionPages -> Page]
           /\ \A p \in 0 .. RegionPages : p # writePage => dataPages'[p] = dataPages[p]
<1>1. flashTable' \in [Virt -> Entries]
  BY DEF PowerFails, TypesInRegion
<1>2. CASE dataPages' = dataPages
  BY <1>1, <1>2 DEF TypesInRegion
<1>3. CASE \E q \in Page : dataPages' = [dataPages EXCEPT ![writePage] = q]
  BY <1>1, <1>3 DEF TypesInRegion
<1> QED  BY <1>2, <1>3 DEF PowerFails

\* What the constructor leaves of a table without an error that is not sound.
Wild == MapperTypeOK /\ mapperPc = "wild"

LEMMA MapperRestartInv ==
    ASSUME MapperInv, MapperRestart
    PROVE  MapperInv' \/ Wild'
<1>1. TypesInRegion /\ RegionPages \in Nat /\ ZeroPage \in Page
      /\ EmptyTable \in [Virt -> 0 .. RegionPages] /\ 0 .. RegionPages \subseteq Entries
  BY MapperNumbers DEF MapperInv
<1>2. flashTable' \in [Virt -> Entries] /\ dataPages' \in [0 .. RegionPages -> Page]
  BY <1>1, AfterPowerFails DEF MapperRestart
<1>3. /\ allocTable' = IF errorFound(flashTable') THEN EmptyTable ELSE flashTable'
      /\ allocTableModified' = errorFound(flashTable') /\ lastAllocated' = 0
      /\ writePage' = 0 /\ writeBuf' = ZeroPage /\ flashMemModified' = FALSE
      /\ mapperPc' = IF Sound(allocTable') THEN "idle" ELSE "wild"
      /\ after' = "idle" /\ request' = None
      /\ written' = PagesOf(allocTable', dataPages') /\ durable' = written'
  BY DEF MapperRestart, constructor
<1>4. allocTable' \in [Virt -> Entries] /\ allocTableModified' \in BOOLEAN
  <2>1. errorFound(flashTable') \in BOOLEAN
    BY DEF errorFound
  <2> QED  BY <1>1, <1>2, <1>3, <2>1
<1>5. written' \in [Virt -> Page \cup {Unmapped}]
  BY <1>2, <1>3, <1>4, ContentsAre
<1>6. /\ writePage' \in 0 .. RegionPages /\ writeBuf' \in Page /\ flashMemModified' \in BOOLEAN
      /\ lastAllocated' \in 0 .. RegionPages /\ after' = "idle" /\ request' = None
      /\ durable' \in [Virt -> Page \cup {Unmapped}]
  <2>1. flashMemModified' \in BOOLEAN
    BY <1>3
  <2>2. writePage' \in 0 .. RegionPages /\ lastAllocated' \in 0 .. RegionPages
    BY <1>1, <1>3
  <2> QED  BY <1>1, <1>3, <1>5, <2>1, <2>2
<1>7. CASE ~Sound(allocTable')
  <2>1. mapperPc' = "wild"
    BY <1>3, <1>7
  <2> QED  BY <1>2, <1>4, <1>5, <1>6, <2>1 DEF Wild, MapperTypeOK
<1>8. CASE Sound(allocTable')
  <2>1. mapperPc' = "idle" /\ \A v \in Virt : allocTable'[v] \in 0 .. RegionPages
    BY <1>3, <1>8 DEF Sound
  <2>2. TypesInRegion'
    <3>1. allocTable' \in [Virt -> 0 .. RegionPages]
      BY <1>4, <2>1
    <3> QED  BY <1>2, <1>4, <1>5, <1>6, <2>1, <3>1 DEF TypesInRegion
  <2>3. RequestFits' /\ BufferIsFree' /\ HighestIsRemembered' /\ TableIsSaved'
    BY <1>3, <2>1 DEF RequestFits, InWrite, InRange, Flashing, BufferIsFree, TableIsSaved,
       HighestIsRemembered
  <2>4. SharesNothing(allocTable')
    BY <1>8 DEF SharesNothing, Sound
  <2>5. \A v \in Virt : written'[v] = IF allocTable'[v] = 0 THEN Unmapped ELSE dataPages'[allocTable'[v]]
    BY <1>2, <1>3, <1>4, <2>1, ContentsAre
  <2>6. FlashIsSound'
    <3>1. CASE errorFound(flashTable')
      <4>1. \A v \in Virt : allocTable'[v] = 0
        BY <1>3, <3>1 DEF EmptyTable
      <4> QED  BY <1>3, <2>5, <3>1, <4>1 DEF FlashIsSound
    <3>2. CASE ~errorFound(flashTable')
      BY <1>3, <1>8, <3>2 DEF FlashIsSound
    <3> QED  BY <3>1, <3>2
  <2>7. ContentKept'
    BY <1>3, <2>5 DEF ContentKept, Buffered
  <2>8. DurableIsFound'
    <3> SUFFICES ASSUME NEW v \in Virt, written'[v] # Unmapped
                 PROVE  allocTable'[v] # 0 /\ flashTable'[v] = allocTable'[v]
      BY <1>3, <2>1 DEF DurableIsFound, Buffered
    <3>1. allocTable'[v] # 0
      BY <2>5
    <3>2. ~errorFound(flashTable')
      BY <1>3, <3>1 DEF EmptyTable
    <3> QED  BY <1>3, <3>1, <3>2
  <2> QED  BY <2>2, <2>3, <2>4, <2>6, <2>7, <2>8 DEF MapperInv, SharesNothing
<1> QED  BY <1>7, <1>8

LEMMA MapperNextInv ==
    ASSUME MapperInv, CleanRanges, [MapperNext]_mapperVars
    PROVE  MapperInv' \/ Wild'
<1>1. ASSUME UNCHANGED mapperVars  PROVE MapperInv'
  <2>1. UNCHANGED <<flashTable, dataPages, allocTable, allocTableModified, lastAllocated, writePage,
                    writeBuf, flashMemModified, mapperPc, after, request, written, durable>>
    BY <1>1 DEF mapperVars, regionVars, tableVars, pageVars, mapperHistory
  <2>2. TypesInRegion' /\ RequestFits' /\ BufferIsFree' /\ HighestIsRemembered'
    BY <2>1 DEF MapperInv, TypesInRegion, RequestFits, InWrite, InRange, Flashing, BufferIsFree,
       HighestIsRemembered
  <2>3. SharesNothing(allocTable') /\ FlashIsSound'
    BY <2>1 DEF MapperInv, SharesNothing, FlashIsSound, Sound
  <2>4. ContentKept' /\ TableIsSaved' /\ DurableIsFound'
    BY <2>1 DEF MapperInv, ContentKept, Buffered, TableIsSaved, DurableIsFound, InRange, Flashing
  <2> QED  BY <2>2, <2>3, <2>4 DEF MapperInv, SharesNothing
<1>2. CASE FlashStep
  BY <1>2, EraseTableInv, ProgramTableInv, ErasePageInv, ProgramPageInv, FlashedInv DEF FlashStep
<1>3. CASE endOfWrite
  BY <1>3, WriteMappedInv, WriteNewPageInv, WriteFailsInv DEF endOfWrite
<1>4. CASE RangeStep
  BY <1>4, RangeAllocatesInv, RangeSkipsInv, RangeFailsInv, EndOfRangeInv DEF RangeStep
<1>5. CASE flushMemory \/ MapperRestart
  BY <1>5, FlushMemoryInv, MapperRestartInv
<1>6. CASE \E v \in Virt, o \in Offsets, x \in Values : writeMem(v, o, x)
  BY <1>6, WriteMemInv
<1>7. CASE \E first \in Virt : \E last \in first .. VirtPages : addRange(first, last)
  <2>1. PICK first \in Virt : \E last \in first .. VirtPages : addRange(first, last)
    BY <1>7
  <2>2. PICK last \in first .. VirtPages : addRange(first, last)
    BY <2>1
  <2>3. last \in Virt
    BY MapperNumbers DEF Virt
  <2> QED  BY <2>2, <2>3, AddRangeInv
<1> QED  BY <1>1, <1>2, <1>3, <1>4, <1>5, <1>6, <1>7 DEF MapperNext

\* Nothing of a wild mapper is followed.
LEMMA WildStays ==
    ASSUME Wild, [MapperNext]_mapperVars
    PROVE  Wild'
<1>1. mapperPc = "wild"
  BY DEF Wild
<1>2. UNCHANGED mapperVars
  BY <1>1 DEF MapperNext, FlashStep, eraseTable, programTable, erasePage, programPage, flashed, endOfWrite,
     RangeStep, rangeAllocates, rangeSkips, rangeFails, endOfRange, flushMemory, MapperRestart,
     writeMem, addRange
<1> QED  BY <1>2 DEF Wild, MapperTypeOK, mapperVars, regionVars, tableVars, pageVars, mapperHistory

LEMMA MapperKeepsInv == ASSUME CleanRanges PROVE MapperSpec => [](MapperInv \/ Wild)
<1>1. MapperInit => MapperInv
  BY MapperInitInv
<1>2. (MapperInv \/ Wild) /\ [MapperNext]_mapperVars => MapperInv' \/ Wild'
  BY MapperNextInv, WildStays
<1> QED  BY <1>1, <1>2, PTL DEF MapperSpec

\* mem_mapper.cpp keeps every field in its range.
THEOREM MapperTypes == ASSUME CleanRanges PROVE MapperSpec => []MapperTypeOK
<1>1. MapperInv \/ Wild => MapperTypeOK
  <2>1. ASSUME MapperInv PROVE MapperTypeOK
    BY <2>1, MapperNumbers DEF MapperInv, TypesInRegion, MapperTypeOK
  <2> QED  BY <2>1 DEF Wild
<1> QED  BY <1>1, MapperKeepsInv, PTL

\* readMem() and memoryPtr() return what writeMem() and addRange() stored,
\* whichever page is in the write buffer, and after doFlash() so does the flash.
THEOREM MapperReadsBack == ASSUME CleanRanges PROVE MapperSpec => []ReadsBack
<1>1. MapperInv \/ Wild => ReadsBack
  BY DEF MapperInv, ContentKept, Buffered, ReadsBack, readMem, Wild
<1> QED  BY <1>1, MapperKeepsInv, PTL

\* Once nothing is to be flashed, the flash holds everything.
LEMMA InvFlushed ==
    ASSUME MapperInv, mapperPc = "idle", ~allocTableModified, ~flashMemModified
    PROVE  flashTable = allocTable /\ PagesOf(flashTable, dataPages) = written
<1>1. flashTable = allocTable
  BY DEF MapperInv, TableIsSaved, InRange, Flashing
<1>2. TypesInRegion /\ \A v \in Virt : allocTable[v] \in 0 .. RegionPages
  BY DEF MapperInv, TypesInRegion
<1>3. /\ PagesOf(flashTable, dataPages) \in [Virt -> Page \cup {Unmapped}]
      /\ \A v \in Virt : PagesOf(flashTable, dataPages)[v] =
           IF allocTable[v] = 0 THEN Unmapped ELSE dataPages[allocTable[v]]
  BY <1>1, <1>2, ContentsAre DEF TypesInRegion
<1>4. \A v \in Virt : PagesOf(flashTable, dataPages)[v] = written[v]
  BY <1>3 DEF MapperInv, ContentKept
<1> QED  BY <1>1, <1>2, <1>3, <1>4 DEF TypesInRegion

\* A table that no failure has damaged is sound, or nothing is durable.
LEMMA RestartFindsWritten ==
    ASSUME MapperInv, MapperRestart, ~TableTorn
    PROVE  RestartKeeps
<1>1. TypesInRegion /\ mapperPc # "programTable" /\ flashTable' = flashTable
      /\ RegionPages \in Nat /\ EmptyTable \in [Virt -> 0 .. RegionPages]
  BY MapperNumbers DEF MapperInv, TableTorn
<1>2. dataPages' \in [0 .. RegionPages -> Page] /\ flashTable \in [Virt -> Entries]
  BY <1>1, AfterPowerFails DEF MapperRestart, TypesInRegion
<1>3. /\ allocTable' = IF errorFound(flashTable) THEN EmptyTable ELSE flashTable
      /\ mapperPc' = IF Sound(allocTable') THEN "idle" ELSE "wild"
      /\ written' = PagesOf(allocTable', dataPages')
  BY <1>1 DEF MapperRestart, constructor
<1>4. mapperPc' = "idle"
  <2>1. Sound(EmptyTable)
    BY <1>1 DEF Sound, EmptyTable
  <2>2. CASE Sound(flashTable)
    BY <1>3, <2>1, <2>2
  <2>3. CASE ~Sound(flashTable)
    BY <1>3, <2>1, <2>3 DEF MapperInv, FlashIsSound
  <2> QED  BY <2>2, <2>3
<1>5. ASSUME NEW v \in Virt, durable[v] # Unmapped
      PROVE  \/ written'[v] \in {durable[v], written[v]}
             \/ PageTorn /\ allocTable[v] = writePage
  <2>1. Sound(flashTable)
    BY <1>5 DEF MapperInv, FlashIsSound
  <2>2. ~errorFound(flashTable)
    BY <1>1, <2>1 DEF Sound, errorFound, ZeroEntry
  <2>3. allocTable[v] # 0 /\ flashTable[v] = allocTable[v] /\ allocTable[v] \in 0 .. RegionPages
    BY <1>1, <1>5 DEF MapperInv, DurableIsFound, TypesInRegion
  <2>4. written'[v] = dataPages'[allocTable[v]]
    BY <1>2, <1>3, <2>2, <2>3, ContentsAre
  <2>5. CASE PageTorn /\ allocTable[v] = writePage
    BY <2>5
  <2>6. CASE PageTorn /\ allocTable[v] # writePage
    <3>1. dataPages'[allocTable[v]] = dataPages[allocTable[v]]
      BY <1>1, <2>3, <2>6, AfterPowerFails DEF MapperRestart
    <3> QED  BY <2>3, <2>4, <2>6, <3>1 DEF MapperInv, ContentKept, Buffered
  <2>7. CASE ~PageTorn
    <3>1. mapperPc # "programPage" /\ dataPages' = dataPages
      BY <2>7 DEF PageTorn
    <3>2. CASE Buffered(v) /\ flashMemModified
      BY <1>5, <2>4, <3>1, <3>2 DEF MapperInv, DurableIsFound, Buffered
    <3>3. CASE ~(Buffered(v) /\ flashMemModified)
      BY <2>3, <2>4, <3>1, <3>3 DEF MapperInv, ContentKept
    <3> QED  BY <3>2, <3>3
  <2> QED  BY <2>5, <2>6, <2>7
<1>6. ASSUME mapperPc = "idle", ~allocTableModified, ~flashMemModified
      PROVE  written' = written
  <2>1. flashTable = allocTable /\ PagesOf(flashTable, dataPages) = written
    BY <1>6, InvFlushed
  <2>2. \A v \in Virt : flashTable[v] \in 0 .. RegionPages
    BY <1>1, <2>1 DEF TypesInRegion
  <2>3. ~errorFound(flashTable)
    BY <1>1, <2>2 DEF errorFound, ZeroEntry
  <2>4. dataPages' = dataPages
    BY <1>6, AfterPowerFails DEF MapperRestart, PowerFails, pageAtRisk
  <2> QED  BY <1>3, <2>1, <2>3, <2>4
<1> QED  BY <1>4, <1>5, <1>6 DEF RestartKeeps

\* A power failure, between two steps of doFlash() or in one of them, loses no
\* more than the page, or the table, that is being rewritten.
THEOREM MapperSurvivesPowerFailure ==
    ASSUME CleanRanges PROVE MapperSpec => SurvivesPowerFailure
<1>1. MapperInv \/ Wild => (MapperRestart /\ ~TableTorn => RestartKeeps)
  <2>1. Wild => ~MapperRestart
    BY DEF Wild, MapperRestart
  <2> QED  BY <2>1, RestartFindsWritten
<1> QED  BY <1>1, MapperKeepsInv, PTL DEF SurvivesPowerFailure

-----------------------------------------------------------------------------
(* A download: its invariant *)

\* The address that the device answers to is in the image, at the place where
\* begin() looks for it; begin()'s own table stays the one in use.
AddressIsStored == ownAddr = eeprom.own["fixed"]
StaticTabInUse == StaticTab # "none" => eeprom.comms = StaticTab

DownloadInv == DownloadTypeOK /\ AddressIsStored /\ StaticTabInUse /\ SavedUnlessModified

LEMMA ImageFields ==
    ASSUME NEW image \in EepromImage
    PROVE  /\ image.loadState \in [Objects -> LoadState] /\ image.addrTab \in Places
           /\ image.comms \in Places /\ image.own \in [Places -> Addresses]
           /\ image = [loadState |-> image.loadState, addrTab |-> image.addrTab,
                       comms |-> image.comms, own |-> image.own]
BY DEF EepromImage

\* What setOwnAddress() leaves: the address at its place, and all else as it was,
\* the whole image if the address was there and no address table is loading.
LEMMA OwnAddressIsWritten ==
    ASSUME NEW image \in EepromImage, NEW a \in Addresses
    PROVE  LET new == withOwnAddress(image, a) IN
           /\ new \in EepromImage
           /\ new.loadState = image.loadState /\ new.addrTab = image.addrTab
           /\ new.comms = image.comms
           /\ new.own["fixed"] = a
           /\ LoadingAddrTable(image) => new.own[image.addrTab] = a
           /\ a = image.own["fixed"] /\ ~LoadingAddrTable(image) => new = image
<1> DEFINE own == [p \in Places |-> IF p = "fixed" \/ (LoadingAddrTable(image) /\ p = image.addrTab)
                                    THEN a ELSE image.own[p]]
           new == withOwnAddress(image, a)
<1>1. /\ image.loadState \in [Objects -> LoadState] /\ image.addrTab \in Places
      /\ image.comms \in Places /\ image.own \in [Places -> Addresses]
      /\ image = [loadState |-> image.loadState, addrTab |-> image.addrTab,
                  comms |-> image.comms, own |-> image.own]
  BY ImageFields
<1>2. new = [image EXCEPT !.own = own]
  BY DEF withOwnAddress
<1>3. own \in [Places -> Addresses]
  BY <1>1
<1>4. own["fixed"] = a /\ (LoadingAddrTable(image) => own[image.addrTab] = a)
  BY <1>1 DEF Places
<1>5. a = image.own["fixed"] /\ ~LoadingAddrTable(image) => own = image.own
  BY <1>1
<1> HIDE DEF own
<1>6. new = [loadState |-> image.loadState, addrTab |-> image.addrTab,
             comms |-> image.comms, own |-> own]
  BY <1>1, <1>2
<1>7. new \in EepromImage
  BY <1>1, <1>3, <1>6 DEF EepromImage
<1> QED  BY <1>1, <1>4, <1>5, <1>6, <1>7

LEMMA ValidAddress ==
    ASSUME NEW a \in Addresses
    PROVE  validAddress(a) \in Addresses /\ (a # 0 => validAddress(a) = a)
BY DownloadAssumption DEF validAddress

\* begin() comes up with the address at its place, the default one instead of
\* 0.0.0, with the load states and the table addresses of the image, and what it
\* did not mark is as in the image.
LEMMA BeginsWithImage ==
    ASSUME NEW image \in EepromImage, begin(image)
    PROVE  /\ eeprom' \in EepromImage
           /\ ownAddr' = validAddress(image.own["fixed"]) /\ ownAddr' \in Addresses
           /\ AddressIsStored' /\ StaticTabInUse'
           /\ eeprom'.loadState = image.loadState /\ eeprom'.addrTab = image.addrTab
           /\ StaticTab = "none" \/ image.comms = StaticTab => eeprom'.comms = image.comms
           /\ imageModified' \in BOOLEAN
           /\ ~imageModified' => eeprom' = image
<1> DEFINE b == image.own["fixed"]
           first == withOwnAddress(image, b)
           second == begunWith(image)
           third == withStaticTab(second)
<1>1. /\ eeprom' = withValidAddress(third) /\ ownAddr' = eeprom'.own["fixed"]
      /\ imageModified' = (LoadingAddrTable(image) \/ withStaticTab(image) # image \/ b = 0)
  BY DEF begin
<1>2. b \in Addresses
  BY DEF EepromImage, Places
<1> HIDE DEF b
<1>3. /\ first \in EepromImage
      /\ first.loadState = image.loadState /\ first.addrTab = image.addrTab
      /\ first.comms = image.comms /\ first.own["fixed"] = b
      /\ LoadingAddrTable(image) => first.own[image.addrTab] = b
      /\ ~LoadingAddrTable(image) => first = image
  BY <1>2, OwnAddressIsWritten DEF b
<1>4. second = IF LoadingAddrTable(image) THEN withOwnAddress(first, first.own[image.addrTab]) ELSE first
  BY DEF begunWith, b
<1> HIDE DEF first, second
<1>5. /\ second \in EepromImage
      /\ second.loadState = image.loadState /\ second.addrTab = image.addrTab
      /\ second.comms = image.comms /\ second.own["fixed"] = b
      /\ ~LoadingAddrTable(image) => second = image
  BY <1>2, <1>3, <1>4, OwnAddressIsWritten
<1>6. /\ third \in EepromImage
      /\ third.loadState = image.loadState /\ third.addrTab = image.addrTab
      /\ third.comms = (IF StaticTab = "none" THEN image.comms ELSE StaticTab)
      /\ third.own["fixed"] = b
  <2>1. CASE StaticTab = "none"
    BY <1>5, <2>1 DEF withStaticTab
  <2>2. CASE StaticTab # "none"
    <3>1. third = [loadState |-> second.loadState, addrTab |-> second.addrTab,
                   comms |-> StaticTab, own |-> second.own]
      BY <1>5, <2>2, ImageFields DEF withStaticTab
    <3>2. StaticTab \in Places
      BY <2>2, DownloadAssumption
    <3>3. /\ second.loadState \in [Objects -> LoadState] /\ second.addrTab \in Places
          /\ second.own \in [Places -> Addresses]
      BY <1>5, ImageFields
    <3>4. third \in EepromImage
      BY <3>1, <3>2, <3>3 DEF EepromImage
    <3> QED  BY <1>5, <2>2, <3>1, <3>4
  <2> QED  BY <2>1, <2>2
<1>7. ~LoadingAddrTable(image) => third = withStaticTab(image)
  BY <1>5
<1> HIDE DEF third
<1>8. /\ eeprom' \in EepromImage
      /\ eeprom'.loadState = image.loadState /\ eeprom'.addrTab = image.addrTab
      /\ eeprom'.comms = (IF StaticTab = "none" THEN image.comms ELSE StaticTab)
      /\ eeprom'.own["fixed"] = validAddress(b)
      /\ b # 0 => eeprom' = third
  <2>1. CASE b = 0
    <3>1. eeprom' = withOwnAddress(third, PHY_ADDR_DEFAULT)
      BY <1>1, <1>6, <2>1 DEF withValidAddress
    <3>2. PHY_ADDR_DEFAULT \in Addresses /\ validAddress(b) = PHY_ADDR_DEFAULT
      BY <2>1, DownloadAssumption DEF validAddress
    <3>3. third \in EepromImage
      BY <1>6
    <3>4. /\ eeprom' \in EepromImage
          /\ eeprom'.loadState = third.loadState /\ eeprom'.addrTab = third.addrTab
          /\ eeprom'.comms = third.comms /\ eeprom'.own["fixed"] = PHY_ADDR_DEFAULT
      <4> HIDE DEF PHY_ADDR_DEFAULT
      <4> QED  BY <3>1, <3>2, <3>3, OwnAddressIsWritten
    <3> QED  BY <1>6, <2>1, <3>2, <3>4
  <2>2. CASE b # 0
    BY <1>1, <1>6, <2>2 DEF withValidAddress, validAddress
  <2> QED  BY <2>1, <2>2
<1>9. imageModified' \in BOOLEAN /\ (~imageModified' => eeprom' = image)
  BY <1>1, <1>7, <1>8 DEF LoadingAddrTable
<1> QED  BY <1>1, <1>2, <1>8, <1>9, ValidAddress DEF AddressIsStored, StaticTabInUse, b

LEMMA DownloadInitInv == DownloadInit => DownloadInv
<1> SUFFICES ASSUME DownloadInit PROVE DownloadInv
  OBVIOUS
<1> DEFINE own == [flash.own EXCEPT !["fixed"] = validAddress(@)]
           comms == IF StaticTab = "none" THEN flash.comms ELSE StaticTab
<1>1. flash \in EepromImage /\ imageModified = (eeprom # flash) /\ connected = FALSE
  BY DEF DownloadInit
<1>2. /\ flash.loadState \in [Objects -> LoadState] /\ flash.addrTab \in Places
      /\ flash.comms \in Places /\ flash.own \in [Places -> Addresses]
      /\ flash = [loadState |-> flash.loadState, addrTab |-> flash.addrTab,
                  comms |-> flash.comms, own |-> flash.own]
  <2>1. flash \in EepromImage
    BY <1>1
  <2> QED  BY <2>1, ImageFields
<1>3. own \in [Places -> Addresses]
  BY <1>2, ValidAddress DEF Places
<1>4. comms \in Places
  <2>1. StaticTab \in Places \cup {"none"}
    BY DownloadAssumption
  <2> QED  BY <1>2, <2>1
<1>5. eeprom = [loadState |-> flash.loadState, addrTab |-> flash.addrTab, comms |-> comms, own |-> own]
  <2> DEFINE moved == [flash EXCEPT !.comms = comms]
  <2>1. eeprom = [moved EXCEPT !.own = own]
    BY DEF DownloadInit
  <2> HIDE DEF own, comms
  <2>2. moved = [loadState |-> flash.loadState, addrTab |-> flash.addrTab, comms |-> comms,
                 own |-> flash.own]
    BY <1>2
  <2> HIDE DEF moved
  <2> QED  BY <2>1, <2>2
<1> HIDE DEF own
<1>6. eeprom \in EepromImage
  <2> HIDE DEF comms
  <2> QED  BY <1>2, <1>3, <1>4, <1>5 DEF EepromImage
<1>7. StaticTabInUse
  BY <1>5 DEF StaticTabInUse, comms
<1>8. ownAddr = eeprom.own["fixed"] /\ ownAddr \in Addresses
  BY <1>6 DEF DownloadInit, EepromImage, Places
<1>9. imageModified \in BOOLEAN
  BY <1>1
<1> QED  BY <1>1, <1>6, <1>7, <1>8, <1>9
       DEF DownloadInv, DownloadTypeOK, AddressIsStored, SavedUnlessModified

-----------------------------------------------------------------------------
(* Load controls *)

\* A load control changes the image in the load state of its object and in the
\* place of a table; begin()'s table stays.
LEMMA LoadPropertyImage ==
    ASSUME DownloadTypeOK, StaticTabInUse, NEW o \in Objects, NEW r \in loadProperty(o)
    PROVE  /\ r.new \in LoadState /\ r.image \in EepromImage
           /\ r.image.own = eeprom.own
           /\ StaticTab # "none" => r.image.comms = StaticTab
<1>1. eeprom \in EepromImage
  BY DEF DownloadTypeOK
<1>2. \A p \in Places : commsPlace(p) \in Places /\ (StaticTab # "none" => commsPlace(p) = StaticTab)
  BY DownloadAssumption DEF commsPlace
<1>3. ASSUME NEW p \in Places
      PROVE  LET new == [eeprom EXCEPT !.addrTab = p] IN
             new \in EepromImage /\ new.own = eeprom.own /\ new.comms = eeprom.comms
  BY <1>1, <1>3, ImageFields DEF EepromImage
<1>4. ASSUME NEW p \in Places
      PROVE  LET new == [eeprom EXCEPT !.comms = p] IN
             new \in EepromImage /\ new.own = eeprom.own /\ new.comms = p
  BY <1>1, <1>4, ImageFields DEF EepromImage
<1>5. ASSUME NEW p \in Places
      PROVE  /\ taskSegment(o, p) \in EepromImage /\ taskSegment(o, p).own = eeprom.own
             /\ StaticTab # "none" => taskSegment(o, p).comms = StaticTab
  BY <1>1, <1>2, <1>3, <1>4 DEF taskSegment, StaticTabInUse
<1>6. ASSUME NEW p \in Places
      PROVE  /\ taskCtrl2(p) \in EepromImage /\ taskCtrl2(p).own = eeprom.own
             /\ StaticTab # "none" => taskCtrl2(p).comms = StaticTab
  BY <1>1, <1>2, <1>4 DEF taskCtrl2
<1>7. CASE r \in {[new |-> s, image |-> eeprom] : s \in LoadState}
  BY <1>1, <1>7 DEF StaticTabInUse
<1>8. CASE r \in {[new |-> "LOADING", image |-> taskSegment(o, p)] : p \in Places}
  BY <1>5, <1>8 DEF LoadState
<1>9. CASE r \in {[new |-> "LOADING", image |-> taskCtrl2(p)] : p \in Places}
  BY <1>6, <1>9 DEF LoadState
<1> QED  BY <1>7, <1>8, <1>9 DEF loadProperty

LEMMA LoadControlInv ==
    ASSUME DownloadInv, MASK0701, LoadControl
    PROVE  DownloadInv'
<1>1. PICK o \in Objects : \E r \in loadProperty(o) :
        /\ eeprom' = [r.image EXCEPT !.loadState[o] = r.new]
        /\ imageModified' = marksModified
        /\ UNCHANGED <<flash, ownAddr, connected>>
  BY DEF LoadControl
<1>2. PICK r \in loadProperty(o) : eeprom' = [r.image EXCEPT !.loadState[o] = r.new]
  BY <1>1
<1>3. /\ imageModified' = TRUE
      /\ UNCHANGED <<flash, ownAddr, connected>>
  BY <1>1 DEF marksModified, DownloadInv, DownloadTypeOK
<1>4. /\ r.new \in LoadState /\ r.image \in EepromImage /\ r.image.own = eeprom.own
      /\ StaticTab # "none" => r.image.comms = StaticTab
  BY LoadPropertyImage DEF DownloadInv
<1>5. eeprom' = [loadState |-> [r.image.loadState EXCEPT ![o] = r.new], addrTab |-> r.image.addrTab,
                 comms |-> r.image.comms, own |-> r.image.own]
  BY <1>2, <1>4, ImageFields
<1>6. eeprom' \in EepromImage
  <2>1. [r.image.loadState EXCEPT ![o] = r.new] \in [Objects -> LoadState]
    BY <1>4, ImageFields
  <2> QED  BY <1>4, <1>5, <2>1, ImageFields DEF EepromImage
<1> QED  BY <1>3, <1>4, <1>5, <1>6
       DEF DownloadInv, DownloadTypeOK, AddressIsStored, StaticTabInUse, SavedUnlessModified

LEMMA WriteAddrTableInv ==
    ASSUME DownloadInv, WriteAddrTable
    PROVE  DownloadInv'
<1>1. PICK p \in Places : /\ eeprom' = [eeprom EXCEPT !.own[p] = ownAddr]
                          /\ imageModified' = TRUE
                          /\ UNCHANGED <<flash, ownAddr, connected>>
  BY DEF WriteAddrTable
<1>2. eeprom \in EepromImage /\ ownAddr \in Addresses /\ ownAddr = eeprom.own["fixed"]
  BY DEF DownloadInv, DownloadTypeOK, AddressIsStored
<1>3. eeprom' = [loadState |-> eeprom.loadState, addrTab |-> eeprom.addrTab,
                 comms |-> eeprom.comms, own |-> [eeprom.own EXCEPT ![p] = ownAddr]]
  BY <1>1, <1>2, ImageFields
<1>4. /\ [eeprom.own EXCEPT ![p] = ownAddr] \in [Places -> Addresses]
      /\ [eeprom.own EXCEPT ![p] = ownAddr]["fixed"] = ownAddr
  BY <1>2, ImageFields DEF Places
<1>5. eeprom' \in EepromImage
  BY <1>2, <1>3, <1>4, ImageFields DEF EepromImage
<1> QED  BY <1>1, <1>3, <1>4, <1>5
       DEF DownloadInv, DownloadTypeOK, AddressIsStored, StaticTabInUse, SavedUnlessModified

LEMMA AssignAddressInv ==
    ASSUME DownloadInv, AssignAddress
    PROVE  DownloadInv'
<1>1. PICK a \in Addresses : setOwnAddress(a)
  BY DEF AssignAddress
<1>2. /\ eeprom' = withOwnAddress(eeprom, a) /\ ownAddr' = a
      /\ imageModified' = (imageModified \/ a # eeprom.own["fixed"] \/ LoadingAddrTable(eeprom))
      /\ UNCHANGED <<flash, connected>>
  BY <1>1 DEF setOwnAddress
<1>3. eeprom \in EepromImage
  BY DEF DownloadInv, DownloadTypeOK
<1>4. /\ eeprom' \in EepromImage /\ eeprom'.comms = eeprom.comms /\ eeprom'.own["fixed"] = a
      /\ a = eeprom.own["fixed"] /\ ~LoadingAddrTable(eeprom) => eeprom' = eeprom
  BY <1>2, <1>3, OwnAddressIsWritten
<1>5. imageModified' \in BOOLEAN
  BY <1>2 DEF DownloadInv, DownloadTypeOK, LoadingAddrTable
<1> QED  BY <1>2, <1>4, <1>5
       DEF DownloadInv, DownloadTypeOK, AddressIsStored, StaticTabInUse, SavedUnlessModified

-----------------------------------------------------------------------------
(* Saving and restarting *)

\* What is flushed is the image in the RAM.
LEMMA FlushedImage ==
    ASSUME DownloadInv
    PROVE  flushed = eeprom /\ flushed \in EepromImage
BY DEF DownloadInv, DownloadTypeOK, SavedUnlessModified, flushed

LEMMA SaveInv ==
    ASSUME DownloadInv, Save \/ Connection
    PROVE  DownloadInv'
<1>1. CASE Save
  BY <1>1, FlushedImage DEF Save, DownloadInv, DownloadTypeOK, AddressIsStored, StaticTabInUse,
     SavedUnlessModified
<1>2. CASE Connection
  BY <1>2 DEF Connection, DownloadInv, DownloadTypeOK, AddressIsStored, StaticTabInUse,
     SavedUnlessModified
<1> QED  BY <1>1, <1>2

LEMMA DownloadRestartInv ==
    ASSUME DownloadInv, Restart \/ PowerReturns
    PROVE  DownloadInv'
<1> DEFINE image == IF Restart THEN flushed ELSE flash
<1>1. flash' = image /\ begin(image) /\ connected' = FALSE /\ image \in EepromImage
  BY FlushedImage DEF Restart, PowerReturns, DownloadInv, DownloadTypeOK
<1> HIDE DEF image
<1>2. /\ eeprom' \in EepromImage /\ ownAddr' \in Addresses /\ imageModified' \in BOOLEAN
      /\ AddressIsStored' /\ StaticTabInUse'
      /\ ~imageModified' => eeprom' = image
  BY <1>1, BeginsWithImage
<1> QED  BY <1>1, <1>2 DEF DownloadInv, DownloadTypeOK, SavedUnlessModified

LEMMA DownloadNextInv ==
    ASSUME DownloadInv, MASK0701, [DownloadNext]_downloadVars
    PROVE  DownloadInv'
<1>1. CASE UNCHANGED downloadVars
  BY <1>1 DEF downloadVars, DownloadInv, DownloadTypeOK, AddressIsStored, StaticTabInUse,
     SavedUnlessModified
<1>2. CASE DownloadNext
  BY <1>2, LoadControlInv, WriteAddrTableInv, AssignAddressInv, SaveInv, DownloadRestartInv DEF DownloadNext
<1> QED  BY <1>1, <1>2

LEMMA DownloadKeepsInv == ASSUME MASK0701 PROVE DownloadSpec => []DownloadInv
<1>1. DownloadInit => DownloadInv
  BY DownloadInitInv
<1>2. DownloadInv /\ [DownloadNext]_downloadVars => DownloadInv'
  BY DownloadNextInv
<1> QED  BY <1>1, <1>2, PTL DEF DownloadSpec

\* A restart of a MASK0701 brings back its address, its load states and the
\* places of its tables, at any time of a download.
LEMMA RestartKeepsDevice == ASSUME DownloadInv, Restart PROVE KeepsDevice /\ KeepsAddress
<1>1. begin(eeprom) /\ eeprom \in EepromImage
  BY FlushedImage DEF Restart
<1>2. /\ ownAddr' = validAddress(eeprom.own["fixed"])
      /\ eeprom'.loadState = eeprom.loadState /\ eeprom'.addrTab = eeprom.addrTab
      /\ eeprom'.comms = eeprom.comms
  BY <1>1, BeginsWithImage DEF DownloadInv, StaticTabInUse
<1> QED  BY <1>2 DEF DownloadInv, AddressIsStored, KeepsDevice, KeepsAddress

\* A device of mask version 0701 that restarts keeps its load states, its tables
\* and its address (the default instead of 0.0.0), also in the middle of a download;
\* a power failure takes nothing but what was marked as modified.
THEOREM DeviceIsKept == ASSUME MASK0701 PROVE DownloadSpec => RestartsKeepDevice
<1>1. ASSUME DownloadInv, DownloadInv', [DownloadNext]_downloadVars
      PROVE  [KeepsDevice /\ KeepsAddress /\ SavedUnlessModified']_downloadVars
  <2>1. SavedUnlessModified'
    BY <1>1 DEF DownloadInv
  <2>2. CASE Restart
    BY <1>1, <2>1, <2>2, RestartKeepsDevice
  <2>3. CASE ~Restart /\ PowerReturns /\ ~imageModified
    <3>1. begin(eeprom) /\ eeprom \in EepromImage
      BY <1>1, <2>3 DEF PowerReturns, DownloadInv, DownloadTypeOK, SavedUnlessModified
    <3>2. ownAddr' = validAddress(ownAddr)
      BY <1>1, <3>1, BeginsWithImage DEF DownloadInv, AddressIsStored
    <3> QED  BY <2>1, <2>3, <3>2 DEF KeepsDevice, KeepsAddress
  <2>4. CASE ~Restart /\ ~(PowerReturns /\ ~imageModified)
    BY <2>1, <2>4 DEF KeepsDevice, KeepsAddress
  <2> QED  BY <2>2, <2>3, <2>4
<1> QED  BY <1>1, DownloadKeepsInv, PTL DEF DownloadSpec, RestartsKeepDevice

-----------------------------------------------------------------------------
(* The memory services: where each byte is found *)

\* An address that some memory answers for, and the memory that does
Answering == Mapped \cup Eeprom \cup Ram
memoryOf(b) == IF b \in Mapped THEN "mapped" ELSE IF b \in Eeprom THEN "eeprom" ELSE "ram"
Found(s, e) == [b \in {c \in s .. e : s .. c \subseteq Answering} |-> memoryOf(b)]

LEMMA AddressNumbers ==
    /\ LastAddress \in Nat /\ Address \subseteq Nat /\ MaxCount \in Nat \ {0}
    /\ Mapped \subseteq Address /\ Eeprom \subseteq Address /\ Ram \subseteq Address
    /\ Answering \subseteq Address /\ RamStart \in Nat /\ RamSize \in Nat /\ StatusOffset \in Nat
BY MemoryAssumption DEF Address, Answering

\* What is found of a request in one memory ends where the memory ends.
LEMMA PartEndIs ==
    ASSUME NEW memory \in SUBSET Address, NEW a \in Nat, NEW e \in Address,
           a <= e => \A x, y \in memory \cap (a .. e) : x .. y \subseteq memory
    PROVE  LET p == partEnd(memory, a, e) IN
           /\ p \in Nat /\ p >= a /\ (a <= e => p <= e + 1) /\ (a > e => p = a)
           /\ a .. p - 1 \subseteq memory
           /\ a <= e /\ a \in memory => p > a
           /\ p <= e => p \notin memory
<1>1. LastAddress \in Nat /\ e \in 0 .. LastAddress /\ memory \subseteq 0 .. LastAddress
  BY AddressNumbers DEF Address
<1>2. CASE a > e \/ a \notin memory
  BY <1>1, <1>2 DEF partEnd
<1>3. CASE a <= e /\ a \in memory /\ e \in memory
  <2>1. partEnd(memory, a, e) = e + 1
    BY <1>1, <1>3 DEF partEnd
  <2>2. a .. e \subseteq memory
    BY <1>1, <1>3
  <2> QED  BY <1>1, <1>3, <2>1, <2>2
<1>4. CASE a <= e /\ a \in memory /\ e \notin memory
  <2> DEFINE S == {b \in a .. LastAddress + 1 : b \notin memory}
             p == EndOf(memory, a)
  <2>1. S \in SUBSET Nat /\ e \in S
    BY <1>1, <1>4
  <2>2. \E b \in S : \A c \in S : b <= c
    <3> HIDE DEF S
    <3> QED  BY <2>1, Smallest
  <2>3. \E b \in a .. LastAddress + 1 : b \notin memory /\ \A c \in a .. b - 1 : c \in memory
    BY <1>1, <2>2
  <2>4. p \in a .. LastAddress + 1 /\ p \notin memory /\ \A c \in a .. p - 1 : c \in memory
    BY <2>3 DEF EndOf
  <2>5. partEnd(memory, a, e) = p
    BY <1>1, <1>4 DEF partEnd
  <2> HIDE DEF p
  <2>6. p <= e
    BY <1>1, <1>4, <2>4
  <2> QED  BY <1>1, <1>4, <2>4, <2>5, <2>6
<1> QED  BY <1>1, <1>2, <1>3, <1>4

\* One round of processApciMemoryOperation() finds the bytes up to the first
\* that no memory answers for, or that needs another round.
Round(s, e) ==
    LET m == partEnd(Mapped, s, e)
        p == partEnd(Eeprom, m, e)
    IN  Over(Part("mapped", s, m), Over(Part("eeprom", m, p), Part("ram", p, partEnd(Ram, p, e))))
roundEnd(s, e) == partEnd(Ram, partEnd(Eeprom, partEnd(Mapped, s, e), e), e)

LEMMA RoundIs ==
    ASSUME NEW s \in Address, NEW e \in Address, e - s < MaxCount
    PROVE  LET r == roundEnd(s, e) IN
           /\ r \in Nat /\ r >= s
           /\ s <= e => r <= e + 1 /\ (r = s <=> s \notin Answering)
           /\ s > e => r = s
           /\ s .. r - 1 \subseteq Answering
           /\ Round(s, e) = [b \in s .. r - 1 |-> memoryOf(b)]
<1> DEFINE m == partEnd(Mapped, s, e)
           p == partEnd(Eeprom, m, e)
           r == partEnd(Ram, p, e)
<1>1. /\ s \in Nat /\ e \in Nat /\ MaxCount \in Nat /\ RamStart \in Nat /\ RamSize \in Nat
      /\ Mapped \in SUBSET Address /\ Eeprom \in SUBSET Address /\ Ram \in SUBSET Address
      /\ Address \subseteq Nat
  BY AddressNumbers
<1>2. /\ Mapped \cap Eeprom = {} /\ Mapped \cap Ram = {} /\ Eeprom \cap Ram = {}
  BY MemoryAssumption
<1>3. \A x, y \in Mapped \cap (s .. e) : x .. y \subseteq Mapped
  <2> SUFFICES ASSUME NEW x \in Mapped \cap (s .. e), NEW y \in Mapped \cap (s .. e)
               PROVE  x .. y \subseteq Mapped
    OBVIOUS
  <2>1. y - x < MaxCount
    BY <1>1
  <2> QED  BY <2>1, MemoryAssumption
<1>4. /\ m \in Nat /\ m >= s /\ (s <= e => m <= e + 1) /\ (s > e => m = s)
      /\ s .. m - 1 \subseteq Mapped /\ (s <= e /\ s \in Mapped => m > s)
  BY <1>1, <1>3, PartEndIs
<1> HIDE DEF m
<1>5. \A x, y \in Eeprom \cap (m .. e) : x .. y \subseteq Eeprom
  BY MemoryAssumption
<1>6. /\ p \in Nat /\ p >= m /\ (m <= e => p <= e + 1) /\ (m > e => p = m)
      /\ m .. p - 1 \subseteq Eeprom /\ (m <= e /\ m \in Eeprom => p > m)
  BY <1>1, <1>4, <1>5, PartEndIs
<1> HIDE DEF p
<1>7. \A x, y \in Ram \cap (p .. e) : x .. y \subseteq Ram
  BY <1>1 DEF Ram
<1>8. /\ r \in Nat /\ r >= p /\ (p <= e => r <= e + 1) /\ (p > e => r = p)
      /\ p .. r - 1 \subseteq Ram /\ (p <= e /\ p \in Ram => r > p)
  BY <1>1, <1>6, <1>7, PartEndIs
<1> HIDE DEF r
<1>9. s .. r - 1 \subseteq Answering
  BY <1>1, <1>4, <1>6, <1>8 DEF Answering
<1>10. s <= e => (r = s <=> s \notin Answering)
  BY <1>1, <1>4, <1>6, <1>8, <1>9 DEF Answering
<1>11. Over(Part("mapped", s, m), Over(Part("eeprom", m, p), Part("ram", p, r)))
         = [b \in s .. r - 1 |-> memoryOf(b)]
  <2> DEFINE inner == Over(Part("eeprom", m, p), Part("ram", p, r))
             all == Over(Part("mapped", s, m), inner)
  <2>1. /\ DOMAIN inner = (m .. p - 1) \cup (p .. r - 1)
        /\ \A b \in DOMAIN inner : inner[b] = IF b \in m .. p - 1 THEN "eeprom" ELSE "ram"
    BY DEF Over, Part
  <2>2. /\ DOMAIN all = (s .. m - 1) \cup DOMAIN inner
        /\ \A b \in DOMAIN all : all[b] = IF b \in s .. m - 1 THEN "mapped" ELSE inner[b]
        /\ all = [b \in DOMAIN all |-> all[b]]
    BY DEF Over, Part
  <2> HIDE DEF inner, all
  <2>3. DOMAIN all = s .. r - 1
    BY <1>1, <1>4, <1>6, <1>8, <2>1, <2>2
  <2>4. ASSUME NEW b \in s .. r - 1 PROVE all[b] = memoryOf(b)
    <3>1. CASE b \in s .. m - 1
      BY <1>4, <2>2, <2>3, <3>1 DEF memoryOf
    <3>2. CASE b \in m .. p - 1
      BY <1>1, <1>2, <1>4, <1>6, <2>1, <2>2, <2>3, <3>2 DEF memoryOf
    <3>3. CASE b \in p .. r - 1
      BY <1>1, <1>2, <1>4, <1>6, <1>8, <2>1, <2>2, <2>3, <3>3 DEF memoryOf
    <3> QED  BY <1>1, <1>4, <1>6, <1>8, <3>1, <3>2, <3>3
  <2> QED  BY <2>2, <2>3, <2>4 DEF all, inner
<1>12. roundEnd(s, e) = r /\ Round(s, e) = Over(Part("mapped", s, m), Over(Part("eeprom", m, p), Part("ram", p, r)))
  BY DEF roundEnd, Round, m, p, r
<1> QED  BY <1>1, <1>4, <1>6, <1>8, <1>9, <1>10, <1>11, <1>12
\* The rounds of a request from address a to address e
IsSearch(g, a, e) ==
    g = [s \in a .. e |->
          LET m == partEnd(Mapped, s, e)
              p == partEnd(Eeprom, m, e)
              r == IF p = StatusOffset /\ e = StatusOffset THEN e + 1 ELSE partEnd(Ram, p, e)
          IN  IF r = s THEN <<>>
              ELSE Over(Over(Part("mapped", s, m), Over(Part("eeprom", m, p), Part("ram", p, r))),
                        IF r > e THEN <<>> ELSE g[r])]

\* Where the RAM begins at address 0, the status is one of its bytes.
LEMMA StatusInRam ==
    ASSUME RamStart = 0, NEW p, NEW e, p = StatusOffset, e = StatusOffset
    PROVE  partEnd(Ram, p, e) = e + 1
BY MemoryAssumption, AddressNumbers DEF partEnd, Ram

LEMMA SearchStep ==
    ASSUME RamStart = 0, NEW g, NEW e, NEW s
    PROVE  LET m == partEnd(Mapped, s, e)
               p == partEnd(Eeprom, m, e)
               r == IF p = StatusOffset /\ e = StatusOffset THEN e + 1 ELSE partEnd(Ram, p, e)
           IN  (IF r = s THEN <<>>
                ELSE Over(Over(Part("mapped", s, m), Over(Part("eeprom", m, p), Part("ram", p, r))),
                          IF r > e THEN <<>> ELSE g[r]))
               = IF roundEnd(s, e) = s THEN <<>>
                 ELSE Over(Round(s, e), IF roundEnd(s, e) > e THEN <<>> ELSE g[roundEnd(s, e)])
<1> DEFINE m == partEnd(Mapped, s, e)
           p == partEnd(Eeprom, m, e)
           r == IF p = StatusOffset /\ e = StatusOffset THEN e + 1 ELSE partEnd(Ram, p, e)
<1>1. r = partEnd(Ram, p, e)
  <2> HIDE DEF p
  <2> QED  BY StatusInRam
<1>2. roundEnd(s, e) = r
  BY <1>1 DEF roundEnd
<1>3. Round(s, e) = Over(Part("mapped", s, m), Over(Part("eeprom", m, p), Part("ram", p, r)))
  BY <1>1 DEF Round
<1> HIDE DEF r
<1> QED  BY <1>2, <1>3 DEF r

\* What a round finds and what the rounds after it find is what is to be found.
LEMMA RoundFinds ==
    ASSUME NEW s \in Address, NEW e \in Address, e - s < MaxCount
    PROVE  Found(s, e) = IF roundEnd(s, e) = s THEN <<>>
                         ELSE Over(Round(s, e),
                                   IF roundEnd(s, e) > e THEN <<>> ELSE Found(roundEnd(s, e), e))
<1> DEFINE r == roundEnd(s, e)
           All(t) == {c \in t .. e : t .. c \subseteq Answering}
<1>1. /\ s \in Nat /\ e \in Nat
  BY AddressNumbers
<1>2. /\ r \in Nat /\ r >= s
      /\ s <= e => r <= e + 1 /\ (r = s <=> s \notin Answering)
      /\ s > e => r = s
      /\ s .. r - 1 \subseteq Answering
      /\ Round(s, e) = [b \in s .. r - 1 |-> memoryOf(b)]
  BY RoundIs
<1> HIDE DEF r
<1>3. CASE r = s
  <2>1. All(s) = {}
    BY <1>1, <1>2, <1>3
  <2>2. Found(s, e) = [c \in {} |-> memoryOf(c)]
    BY <2>1 DEF Found
  <2> QED  BY <1>3, <2>2 DEF r
<1>4. CASE r # s
  <2>1. s <= e /\ r > s /\ r <= e + 1
    BY <1>1, <1>2, <1>4
  <2> DEFINE rest == IF r > e THEN <<>> ELSE Found(r, e)
             both == Over(Round(s, e), rest)
  <2>2. /\ DOMAIN rest = All(r)
        /\ \A c \in All(r) : rest[c] = memoryOf(c)
    <3>1. CASE r > e
      <4>1. All(r) = {}
        BY <1>1, <1>2, <3>1
      <4>2. DOMAIN << >> = {}
        OBVIOUS
      <4> QED  BY <3>1, <4>1, <4>2
    <3>2. CASE ~(r > e)
      BY <3>2 DEF Found
    <3> QED  BY <3>1, <3>2
  <2> HIDE DEF rest
  <2>3. /\ DOMAIN both = (s .. r - 1) \cup All(r)
        /\ \A c \in DOMAIN both : both[c] = memoryOf(c)
        /\ both = [c \in DOMAIN both |-> both[c]]
    BY <1>2, <2>2 DEF Over
  <2> HIDE DEF both
  <2>4. (s .. r - 1) \cup All(r) = All(s)
    <3>1. ASSUME NEW c \in s .. r - 1 PROVE c \in All(s)
      BY <1>1, <1>2, <2>1, <3>1
    <3>2. ASSUME NEW c \in All(r) PROVE c \in All(s)
      <4>1. s .. c \subseteq (s .. r - 1) \cup (r .. c)
        BY <1>1, <1>2
      <4> QED  BY <1>1, <1>2, <2>1, <4>1
    <3>3. ASSUME NEW c \in All(s), c \notin s .. r - 1 PROVE c \in All(r)
      BY <1>1, <1>2, <2>1, <3>3
    <3> HIDE DEF All
    <3> QED  BY <3>1, <3>2, <3>3
  <2>5. Found(s, e) = [c \in All(s) |-> memoryOf(c)]
    BY DEF Found
  <2> HIDE DEF All
  <2>6. Found(s, e) = both
    BY <2>3, <2>4, <2>5
  <2> QED  BY <1>4, <2>6 DEF both, rest, r
<1> QED  BY <1>3, <1>4

\* The loop of processApciMemoryOperation() finds each byte up to the first that
\* no memory answers for.
LEMMA SearchFinds ==
    ASSUME RamStart = 0, NEW a \in Address, NEW e \in Address, e - a < MaxCount,
           NEW g, IsSearch(g, a, e), NEW s \in a .. e
    PROVE  g[s] = Found(s, e)
<1> DEFINE Wrong == {t \in a .. e : g[t] # Found(t, e)}
<1>1. /\ LastAddress \in Nat /\ Address = 0 .. LastAddress /\ MaxCount \in Nat
      /\ a \in Nat /\ e \in Nat /\ a .. e \subseteq Address
  BY AddressNumbers DEF Address
<1>2. SUFFICES ASSUME Wrong # {} PROVE FALSE
  OBVIOUS
<1>3. PICK t \in Wrong : \A u \in Wrong : u <= t
  <2>1. Wrong \in SUBSET (0 .. LastAddress)
    BY <1>1
  <2> HIDE DEF Wrong
  <2> QED  BY <1>1, <1>2, <2>1, Greatest
<1> DEFINE r == roundEnd(t, e)
<1>4. g[t] = IF r = t THEN <<>> ELSE Over(Round(t, e), IF r > e THEN <<>> ELSE g[r])
  <2>1. t \in a .. e
    OBVIOUS
  <2> HIDE DEF Wrong
  <2> DEFINE body(u) ==
               LET m == partEnd(Mapped, u, e)
                   p == partEnd(Eeprom, m, e)
                   x == IF p = StatusOffset /\ e = StatusOffset THEN e + 1 ELSE partEnd(Ram, p, e)
               IN  IF x = u THEN <<>>
                   ELSE Over(Over(Part("mapped", u, m), Over(Part("eeprom", m, p), Part("ram", p, x))),
                             IF x > e THEN <<>> ELSE g[x])
  <2>2. g = [u \in a .. e |-> body(u)]
    BY Zenon DEF IsSearch
  <2>3. body(t) = IF r = t THEN <<>> ELSE Over(Round(t, e), IF r > e THEN <<>> ELSE g[r])
    BY SearchStep
  <2> HIDE DEF body
  <2> QED  BY <2>1, <2>2, <2>3
<1>5. e - t < MaxCount /\ t \in Address /\ t \in Nat
  BY <1>1
<1>6. r \in Nat /\ r >= t
  BY <1>1, <1>5, RoundIs
<1>7. r # t /\ ~(r > e) => g[r] = Found(r, e)
  <2> SUFFICES ASSUME r # t, ~(r > e) PROVE g[r] = Found(r, e)
    OBVIOUS
  <2>1. r \in a .. e /\ r > t
    BY <1>1, <1>5, <1>6
  <2> HIDE DEF r
  <2> QED  BY <1>1, <1>3, <1>5, <2>1
<1>8. Found(t, e) = IF r = t THEN <<>> ELSE Over(Round(t, e), IF r > e THEN <<>> ELSE Found(r, e))
  BY <1>1, <1>5, RoundFinds
<1>9. g[t] = Found(t, e)
  <2> HIDE DEF r
  <2> QED  BY <1>4, <1>7, <1>8
<1> QED  BY <1>9

LEMMA SearchExists ==
    ASSUME RamStart = 0, NEW a \in Address, NEW e \in Address, e - a < MaxCount
    PROVE  \E g : IsSearch(g, a, e)
<1> DEFINE g == [s \in a .. e |-> Found(s, e)]
<1>1. /\ LastAddress \in Nat /\ Address = 0 .. LastAddress /\ MaxCount \in Nat
      /\ a \in Nat /\ e \in Nat /\ a .. e \subseteq Address
  BY AddressNumbers DEF Address
<1>2. ASSUME NEW s \in a .. e
      PROVE  Found(s, e) = IF roundEnd(s, e) = s THEN <<>>
                           ELSE Over(Round(s, e), IF roundEnd(s, e) > e THEN <<>> ELSE g[roundEnd(s, e)])
  <2> DEFINE r == roundEnd(s, e)
  <2>1. s \in Address /\ s \in Nat /\ e - s < MaxCount
    BY <1>1
  <2>2. r \in Nat /\ r >= s
    BY <2>1, RoundIs
  <2>3. Found(s, e) = IF r = s THEN <<>> ELSE Over(Round(s, e), IF r > e THEN <<>> ELSE Found(r, e))
    BY <2>1, RoundFinds
  <2>4. ~(r > e) => g[r] = Found(r, e)
    <3>1. ~(r > e) => r \in a .. e
      BY <1>1, <2>1, <2>2
    <3> HIDE DEF r
    <3> QED  BY <3>1
  <2> HIDE DEF r, g
  <2>5. Found(s, e) = IF r = s THEN <<>> ELSE Over(Round(s, e), IF r > e THEN <<>> ELSE g[r])
    BY <2>3, <2>4
  <2> QED  BY <2>5 DEF r
<1> DEFINE body(s) ==
             LET m == partEnd(Mapped, s, e)
                 p == partEnd(Eeprom, m, e)
                 r == IF p = StatusOffset /\ e = StatusOffset THEN e + 1 ELSE partEnd(Ram, p, e)
             IN  IF r = s THEN <<>>
                 ELSE Over(Over(Part("mapped", s, m), Over(Part("eeprom", m, p), Part("ram", p, r))),
                           IF r > e THEN <<>> ELSE g[r])
<1>3. ASSUME NEW s \in a .. e PROVE Found(s, e) = body(s)
  <2>1. body(s) = IF roundEnd(s, e) = s THEN <<>>
                  ELSE Over(Round(s, e), IF roundEnd(s, e) > e THEN <<>> ELSE g[roundEnd(s, e)])
    <3> HIDE DEF g
    <3> QED  BY SearchStep
  <2> HIDE DEF g, body
  <2> QED  BY <1>2, <2>1
<1>4. g = [s \in a .. e |-> body(s)]
  <2> HIDE DEF body
  <2> QED  BY <1>3
<1> HIDE DEF g
<1>5. IsSearch(g, a, e)
  BY <1>4 DEF IsSearch
<1> QED  BY <1>5

\* What processApciMemoryOperation() finds of a request
LEMMA PartsAre ==
    ASSUME RamStart = 0, NEW a \in Address, NEW n \in 1 .. MaxCount, a + n - 1 <= LastAddress
    PROVE  parts[a][n] = Found(a, a + n - 1)
<1> DEFINE e == a + n - 1
           f[s \in a .. e] ==
             LET m == partEnd(Mapped, s, e)
                 p == partEnd(Eeprom, m, e)
                 r == IF p = StatusOffset /\ e = StatusOffset THEN e + 1 ELSE partEnd(Ram, p, e)
             IN  IF r = s THEN <<>>
                 ELSE Over(Over(Part("mapped", s, m), Over(Part("eeprom", m, p), Part("ram", p, r))),
                           IF r > e THEN <<>> ELSE f[r])
<1>1. /\ a \in Nat /\ n \in Nat /\ e \in Address /\ e - a < MaxCount /\ MaxCount \in Nat
      /\ a \in a .. e
  BY AddressNumbers DEF Address
<1>2. n \in 1 .. MaxCount
  OBVIOUS
<1>3. parts[a][n] = f[a]
  BY <1>2, Zenon DEF parts
<1>4. IsSearch(f, a, e)
  <2>1. \E h : IsSearch(h, a, e)
    BY <1>1, SearchExists
  <2>2. f = CHOOSE h : IsSearch(h, a, e)
    BY Zenon DEF IsSearch
  <2> HIDE DEF f, e
  <2> QED  BY <2>1, <2>2, Zenon
<1> HIDE DEF f
<1>5. f[a] = Found(a, e)
  <2> HIDE DEF e
  <2> QED  BY <1>1, <1>4, SearchFinds
<1> QED  BY <1>3, <1>5
-----------------------------------------------------------------------------
(* The memory services: what they read and write *)

\* The byte that a memory holds for an address
ByteAt(m, b) ==
    IF b \in Mapped THEN m.mapped[b] ELSE IF b \in Eeprom THEN m.eeprom[b]
    ELSE IF b = StatusOffset THEN m.status ELSE m.userRamData[b]

\* All bytes of a request are found, or not.
LEMMA FoundAll ==
    ASSUME RamStart = 0, NEW a \in Address, NEW n \in 1 .. MaxCount, a + n - 1 <= LastAddress
    PROVE  /\ Succeeds(a, n) <=> a .. a + n - 1 \subseteq Answering
           /\ Succeeds(a, n) => \A b \in a .. a + n - 1 : parts[a][n][b] = memoryOf(b)
<1> DEFINE e == a + n - 1
           All == {c \in a .. e : a .. c \subseteq Answering}
<1>1. a \in Nat /\ n \in Nat \ {0} /\ e \in Nat
  BY AddressNumbers
<1>2. parts[a][n] = [b \in All |-> memoryOf(b)]
  BY PartsAre DEF Found
<1>3. Succeeds(a, n) <=> All = a .. e
  BY <1>1, <1>2 DEF Succeeds
<1>4. All = a .. e <=> a .. e \subseteq Answering
  <2>1. ASSUME All = a .. e PROVE a .. e \subseteq Answering
    <3>1. e \in a .. e
      BY <1>1
    <3> QED  BY <2>1, <3>1
  <2>2. ASSUME a .. e \subseteq Answering PROVE All = a .. e
    BY <1>1, <2>2
  <2> QED  BY <2>1, <2>2
<1> HIDE DEF All
<1> QED  BY <1>2, <1>3, <1>4

LEMMA ReadIs ==
    ASSUME RamStart = 0, NEW m,
           NEW a \in Address, NEW n \in 1 .. MaxCount, a + n - 1 <= LastAddress
    PROVE  Read(m, a, n) = IF a .. a + n - 1 \subseteq Answering
                           THEN [i \in 1 .. n |-> ByteAt(m, a + i - 1)] ELSE <<>>
<1>1. /\ a \in Nat /\ n \in Nat \ {0} /\ Mapped \cap Eeprom = {} /\ StatusOffset \in Nat
  BY AddressNumbers, MemoryAssumption
<1> DEFINE byte(b) == CASE parts[a][n][b] = "mapped" -> m.mapped[b]
                        [] parts[a][n][b] = "eeprom" -> m.eeprom[b]
                        [] OTHER -> IF isStatus(parts[a][n], b) THEN m.status
                                                          ELSE m.userRamData[b - RamStart]
<1>2. Read(m, a, n) = IF Succeeds(a, n) THEN [i \in 1 .. n |-> byte(a + i - 1)] ELSE <<>>
  BY DEF Read
<1>3. ASSUME Succeeds(a, n), NEW b \in a .. a + n - 1
      PROVE  byte(b) = ByteAt(m, b)
  <2>1. parts[a][n][b] = memoryOf(b)
    BY <1>3, FoundAll
  <2>2. b \in Nat /\ b - RamStart = b
    BY <1>1
  <2>3. isStatus(parts[a][n], b) <=> b = StatusOffset
    BY <2>2 DEF isStatus
  <2>4. CASE b \in Mapped
    BY <2>1, <2>4 DEF memoryOf, ByteAt
  <2>5. CASE b \in Eeprom /\ b \notin Mapped
    BY <2>1, <2>5 DEF memoryOf, ByteAt
  <2>6. CASE b \notin Eeprom /\ b \notin Mapped
    <3>1. parts[a][n][b] = "ram"
      BY <2>1, <2>6 DEF memoryOf
    <3> QED  BY <2>2, <2>3, <2>6, <3>1 DEF ByteAt
  <2> QED  BY <2>4, <2>5, <2>6
<1> HIDE DEF byte
<1>4. \A i \in 1 .. n : a + i - 1 \in a .. a + n - 1
  BY <1>1
<1> QED  BY <1>2, <1>3, <1>4, FoundAll

LEMMA SingleReadIs ==
    ASSUME RamStart = 0, NEW m, NEW b \in Address
    PROVE  SingleRead(m, b) = IF b \in Answering THEN << ByteAt(m, b) >> ELSE <<>>
<1>1. b \in Nat /\ 1 \in 1 .. MaxCount /\ b + 1 - 1 <= LastAddress /\ b .. b + 1 - 1 = {b}
  BY AddressNumbers DEF Address
<1>2. Read(m, b, 1) = IF b .. b + 1 - 1 \subseteq Answering
                      THEN [i \in 1 .. 1 |-> ByteAt(m, b + i - 1)] ELSE <<>>
  BY <1>1, ReadIs
<1>3. [i \in 1 .. 1 |-> ByteAt(m, b + i - 1)] = << ByteAt(m, b) >>
  <2>1. \A i \in 1 .. 1 : b + i - 1 = b
    BY <1>1
  <2>2. [i \in 1 .. 1 |-> ByteAt(m, b + i - 1)] = [i \in 1 .. 1 |-> ByteAt(m, b)]
    BY <2>1
  <2>3. \A v : [i \in 1 .. 1 |-> v] = << v >>
    OBVIOUS
  <2> QED  BY <2>2, <2>3
<1> QED  BY <1>1, <1>2, <1>3 DEF SingleRead

\* A read over any memories is as good as one byte by byte.
LEMMA ReadsWhole == ASSUME RamStart = 0 PROVE AnswersAreWhole
<1> SUFFICES ASSUME NEW a \in Address, NEW n \in 1 .. MaxCount, a + n - 1 <= LastAddress
             PROVE  LET bytes == [i \in 1 .. n |-> SingleRead(memories, a + i - 1)]
                    IN  Read(memories, a, n) = IF \E i \in 1 .. n : bytes[i] = <<>> THEN <<>>
                                               ELSE [i \in 1 .. n |-> bytes[i][1]]
  BY DEF AnswersAreWhole, Requests
<1> DEFINE bytes == [i \in 1 .. n |-> SingleRead(memories, a + i - 1)]
           e == a + n - 1
<1>1. a \in Nat /\ n \in Nat \ {0} /\ e \in Nat
  BY AddressNumbers
<1>2. ASSUME NEW i \in 1 .. n
      PROVE  /\ bytes[i] = <<>> <=> a + i - 1 \notin Answering
             /\ a + i - 1 \in Answering => bytes[i][1] = ByteAt(memories, a + i - 1)
  <2>1. a + i - 1 \in Address
    BY <1>1, AddressNumbers DEF Address
  <2> DEFINE b == a + i - 1
  <2>2. bytes[i] = IF b \in Answering THEN << ByteAt(memories, b) >> ELSE <<>>
    BY <2>1, SingleReadIs
  <2> HIDE DEF b, bytes
  <2>3. \A v : << v >> # << >> /\ << v >>[1] = v
    OBVIOUS
  <2>4. bytes[i] = <<>> <=> b \notin Answering
    BY <2>2, <2>3
  <2>5. b \in Answering => bytes[i][1] = ByteAt(memories, b)
    BY <2>2, <2>3
  <2> QED  BY <2>4, <2>5 DEF b
<1>3. (\A i \in 1 .. n : a + i - 1 \in Answering) <=> a .. e \subseteq Answering
  <2>1. \A i \in 1 .. n : a + i - 1 \in a .. e
    BY <1>1
  <2>2. \A b \in a .. e : b - a + 1 \in 1 .. n /\ a + (b - a + 1) - 1 = b
    BY <1>1
  <2> HIDE DEF e
  <2> QED  BY <2>1, <2>2
<1>4. Read(memories, a, n) = IF a .. e \subseteq Answering
                             THEN [i \in 1 .. n |-> ByteAt(memories, a + i - 1)] ELSE <<>>
  BY ReadIs
<1> HIDE DEF bytes, e
<1>5. CASE a .. e \subseteq Answering
  <2>1. \A i \in 1 .. n : bytes[i] # <<>> /\ bytes[i][1] = ByteAt(memories, a + i - 1)
    BY <1>2, <1>3, <1>5
  <2>2. [i \in 1 .. n |-> ByteAt(memories, a + i - 1)] = [i \in 1 .. n |-> bytes[i][1]]
    BY <2>1
  <2> QED  BY <1>4, <1>5, <2>1, <2>2 DEF bytes
<1>6. CASE ~(a .. e \subseteq Answering)
  <2>1. \E i \in 1 .. n : bytes[i] = <<>>
    BY <1>2, <1>3, <1>6
  <2> QED  BY <1>4, <1>6, <2>1 DEF bytes
<1> QED  BY <1>5, <1>6
\* A write leaves its bytes where a read finds them, up to the first that no
\* memory answers for, and every other byte as it was.
LEMMA WriteLeaves ==
    ASSUME RamStart = 0, NEW m \in Memories,
           NEW a \in Address, NEW n \in 1 .. MaxCount, a + n - 1 <= LastAddress,
           NEW data \in [1 .. n -> Value]
    PROVE  LET reached == {c \in a .. a + n - 1 : a .. c \subseteq Answering} IN
           /\ Write(m, a, data) \in Memories
           /\ \A b \in Answering : ByteAt(Write(m, a, data), b)
                                    = IF b \in reached THEN data[b - a + 1] ELSE ByteAt(m, b)
<1> DEFINE reached == {c \in a .. a + n - 1 : a .. c \subseteq Answering}
           where == parts[a][Len(data)]
           of(memory) == {b \in DOMAIN where : where[b] = memory}
           byte(b) == data[b - a + 1]
           state == {b \in of("ram") : isStatus(where, b)}
           cells == {b - RamStart : b \in of("ram") \ state}
           next == Write(m, a, data)
<1>1. /\ a \in Nat /\ n \in Nat \ {0} /\ RamSize \in Nat /\ StatusOffset \in Ram
      /\ Mapped \cap Eeprom = {} /\ Mapped \cap Ram = {} /\ Eeprom \cap Ram = {}
      /\ Ram = 0 .. RamSize - 1
  BY AddressNumbers, MemoryAssumption DEF Ram
<1>2. Len(data) = n
  BY <1>1
<1>3. where = [b \in reached |-> memoryOf(b)]
  BY <1>2, PartsAre DEF Found
<1>4. /\ next.mapped = Over([b \in of("mapped") |-> byte(b)], m.mapped)
      /\ next.eeprom = Over([b \in of("eeprom") |-> byte(b)], m.eeprom)
      /\ next.userRamData = Over([i \in cells |-> byte(i + RamStart)], m.userRamData)
      /\ next.status = IF state = {} THEN m.status ELSE byte(CHOOSE b \in state : TRUE)
      /\ next = [mapped |-> next.mapped, eeprom |-> next.eeprom,
                  userRamData |-> next.userRamData, status |-> next.status]
  BY DEF Write
<1>5. /\ reached \subseteq a .. a + n - 1 /\ reached \subseteq Answering
  <2>1. \A c \in reached : c \in a .. c
    BY <1>1
  <2> QED  BY <2>1
<1>6. \A b \in reached : byte(b) \in Value
  BY <1>1, <1>5
<1> HIDE DEF where, byte, next
<1>7. /\ of("mapped") = reached \cap Mapped
      /\ of("eeprom") = reached \cap Eeprom
      /\ of("ram") = reached \cap Ram
  <2> HIDE DEF reached
  <2>1. DOMAIN where = reached /\ \A b \in reached : where[b] = memoryOf(b)
    BY <1>3
  <2>2. of("mapped") = reached \cap Mapped
    BY <2>1 DEF memoryOf
  <2>3. of("eeprom") = reached \cap Eeprom
    BY <1>1, <2>1 DEF memoryOf
  <2>4. of("ram") = reached \cap Ram
    BY <1>1, <1>5, <2>1 DEF memoryOf, Answering
  <2> QED  BY <2>2, <2>3, <2>4
<1>8. state = reached \cap {StatusOffset}
  <2>1. \A b \in Ram : isStatus(where, b) <=> b = StatusOffset
    BY <1>1 DEF isStatus
  <2> HIDE DEF of, reached
  <2> QED  BY <1>1, <1>7, <2>1
<1>9. cells = (reached \cap Ram) \ {StatusOffset}
  <2> HIDE DEF of, state, reached
  <2>1. of("ram") \ state = (reached \cap Ram) \ {StatusOffset}
    BY <1>7, <1>8
  <2>2. \A b \in Ram : b - RamStart = b
    BY <1>1
  <2> QED  BY <2>1, <2>2
<1>10. \A i \in cells : i + RamStart = i
  <2> HIDE DEF cells
  <2> QED  BY <1>1, <1>9
<1> HIDE DEF of, state, cells, reached
<1>11. /\ m.mapped \in [Mapped -> Value] /\ m.eeprom \in [Eeprom -> Value]
       /\ m.userRamData \in [Ram -> Value] /\ m.status \in Value
  BY <1>1 DEF Memories
<1>12. /\ next.mapped \in [Mapped -> Value]
       /\ \A b \in Mapped : next.mapped[b] = IF b \in reached THEN byte(b) ELSE m.mapped[b]
  BY <1>4, <1>6, <1>7, <1>11 DEF Over
<1>13. /\ next.eeprom \in [Eeprom -> Value]
       /\ \A b \in Eeprom : next.eeprom[b] = IF b \in reached THEN byte(b) ELSE m.eeprom[b]
  BY <1>4, <1>6, <1>7, <1>11 DEF Over
<1>14. /\ next.userRamData \in [Ram -> Value]
       /\ \A b \in Ram \ {StatusOffset} :
             next.userRamData[b] = IF b \in reached THEN byte(b) ELSE m.userRamData[b]
  BY <1>4, <1>6, <1>9, <1>10, <1>11 DEF Over
<1>15. /\ next.status = IF StatusOffset \in reached THEN byte(StatusOffset) ELSE m.status
       /\ next.status \in Value
  BY <1>4, <1>6, <1>8, <1>11
<1>16. next \in Memories
  BY <1>1, <1>4, <1>12, <1>13, <1>14, <1>15 DEF Memories
<1>17. ASSUME NEW b \in Answering
       PROVE  ByteAt(next, b) = IF b \in reached THEN byte(b) ELSE ByteAt(m, b)
  <2>1. CASE b \in Mapped
    BY <1>12, <2>1 DEF ByteAt
  <2>2. CASE b \in Eeprom
    BY <1>1, <1>13, <2>2 DEF ByteAt
  <2>3. CASE b \in Ram \ {StatusOffset}
    BY <1>1, <1>14, <2>3 DEF ByteAt
  <2>4. CASE b = StatusOffset
    BY <1>1, <1>15, <2>4 DEF ByteAt
  <2> QED  BY <2>1, <2>2, <2>3, <2>4 DEF Answering
<1> QED  BY <1>16, <1>17 DEF reached, byte, next

LEMMA WritesRead == ASSUME RamStart = 0, MemoryTypeOK PROVE WriteIsRead
<1> SUFFICES ASSUME NEW a \in Address, NEW n \in 1 .. MaxCount, a + n - 1 <= LastAddress,
                    NEW data \in [1 .. n -> Value]
             PROVE  LET next == Write(memories, a, data)
                        reached == {b \in a .. a + n - 1 :
                                       \A c \in a .. b : SingleRead(memories, c) # <<>>}
                    IN  \A b \in Address :
                          SingleRead(next, b) = IF b \in reached THEN <<data[b - a + 1]>>
                                                 ELSE SingleRead(memories, b)
  BY DEF WriteIsRead, Requests
<1> DEFINE next == Write(memories, a, data)
           reached == {b \in a .. a + n - 1 : \A c \in a .. b : SingleRead(memories, c) # <<>>}
           found == {c \in a .. a + n - 1 : a .. c \subseteq Answering}
<1>1. a \in Nat /\ n \in Nat \ {0} /\ a .. a + n - 1 \subseteq Address
  BY AddressNumbers DEF Address
<1>2. \A c \in Address : SingleRead(memories, c) # <<>> <=> c \in Answering
  <2>1. \A v : << v >> # << >>
    OBVIOUS
  <2> QED  BY <2>1, SingleReadIs
<1>3. reached = found
  <2>1. \A b \in a .. a + n - 1 : a .. b \subseteq Address
    BY <1>1
  <2>2. \A b \in a .. a + n - 1 :
          (\A c \in a .. b : SingleRead(memories, c) # <<>>) <=> a .. b \subseteq Answering
    BY <1>2, <2>1
  <2> QED  BY <2>2
<1>4. \A b \in found : b \in Answering
  <2>1. \A b \in found : b \in a .. b
    BY <1>1
  <2> QED  BY <2>1
<1>5. \A b \in Answering : ByteAt(next, b) = IF b \in found THEN data[b - a + 1]
                                              ELSE ByteAt(memories, b)
  BY WriteLeaves DEF MemoryTypeOK
<1> HIDE DEF next, reached, found
<1>6. ASSUME NEW b \in Address
      PROVE  SingleRead(next, b) = IF b \in reached THEN <<data[b - a + 1]>>
                                    ELSE SingleRead(memories, b)
  BY <1>3, <1>4, <1>5, SingleReadIs
<1> QED  BY <1>6 DEF next, reached

-----------------------------------------------------------------------------
(* The memory services: their theorems *)

LEMMA AccessTypes == ASSUME RamStart = 0 PROVE AccessSpec => []MemoryTypeOK
<1>1. AccessInit => MemoryTypeOK
  <2> SUFFICES ASSUME AccessInit PROVE MemoryTypeOK
    OBVIOUS
  <2>1. memories \in Memories
    BY DEF AccessInit, Memories
  <2>2. eepromModified \in BOOLEAN /\ deviceControl \in BOOLEAN
    BY DEF AccessInit
  <2>3. response = -1 /\ MaxCount \in Nat
    BY AddressNumbers DEF AccessInit
  <2> QED  BY <2>1, <2>2, <2>3 DEF MemoryTypeOK
<1>2. ASSUME MemoryTypeOK, [AccessNext]_accessVars PROVE MemoryTypeOK'
  <2>1. ASSUME NEW a \in Address, NEW n \in 0 .. MaxCount, a + n - 1 <= LastAddress,
               ReadService(a, n)
        PROVE  MemoryTypeOK'
    <3>1. a \in Nat /\ n \in Nat /\ MaxCount \in Nat
      BY AddressNumbers
    <3>2. response' \in -1 .. MaxCount
      <4>1. CASE n = 0
        BY <2>1, <3>1, <4>1 DEF ReadService
      <4>2. CASE n > 0
        <5>1. n \in 1 .. MaxCount
          BY <3>1, <4>2
        <5>2. Read(memories, a, n) = <<>> \/
              Read(memories, a, n) = [i \in 1 .. n |-> ByteAt(memories, a + i - 1)]
          BY <2>1, <5>1, ReadIs
        <5>3. Len(Read(memories, a, n)) \in {0, n}
          <6>1. ASSUME Read(memories, a, n) = <<>> PROVE Len(Read(memories, a, n)) = 0
            BY <6>1
          <6>2. ASSUME Read(memories, a, n) = [i \in 1 .. n |-> ByteAt(memories, a + i - 1)]
                PROVE  Len(Read(memories, a, n)) = n
            BY <3>1, <6>2
          <6> QED  BY <5>2, <6>1, <6>2
        <5> QED  BY <2>1, <3>1, <4>2, <5>3 DEF ReadService
      <4> QED  BY <3>1, <4>1, <4>2
    <3> QED  BY <1>2, <2>1, <3>2 DEF ReadService, MemoryTypeOK
  <2>2. ASSUME NEW n \in 0 .. MaxCount, NEW a \in 0 .. LastAddress + 1 - n,
               NEW data \in [1 .. n -> Value], WriteService(a, data)
        PROVE  MemoryTypeOK'
    <3>1. n \in Nat /\ MaxCount \in Nat /\ LastAddress \in Nat /\ Len(data) = n
      BY AddressNumbers
    <3>2. memories' \in Memories
      <4>1. CASE data = <<>>
        BY <1>2, <2>2, <4>1 DEF WriteService, MemoryTypeOK
      <4>2. CASE data # <<>>
        <5>1. n # 0
          <6>1. ASSUME n = 0 PROVE data = << >>
            BY <6>1
          <6> QED  BY <4>2, <6>1
        <5>2. n \in 1 .. MaxCount /\ a \in Address /\ a + n - 1 <= LastAddress
          BY <3>1, <5>1 DEF Address
        <5>3. Write(memories, a, data) \in Memories
          BY <1>2, <5>2, WriteLeaves DEF MemoryTypeOK
        <5> QED  BY <2>2, <4>2, <5>3 DEF WriteService
      <4> QED  BY <4>1, <4>2
    <3>3. response' \in -1 .. MaxCount
      BY <2>2, <3>1 DEF WriteService
    <3>4. eepromModified' \in BOOLEAN
      BY <1>2, <2>2 DEF WriteService, MemoryTypeOK
    <3> QED  BY <1>2, <2>2, <3>2, <3>3, <3>4 DEF WriteService, MemoryTypeOK
  <2>3. CASE Saved
    BY <1>2, <2>3 DEF Saved, MemoryTypeOK
  <2>4. CASE UNCHANGED accessVars
    BY <1>2, <2>4 DEF accessVars, MemoryTypeOK
  <2> QED  BY <1>2, <2>1, <2>2, <2>3, <2>4 DEF AccessNext
<1> QED  BY <1>1, <1>2, PTL DEF AccessSpec

\* Where the RAM begins at address 0, as in the classes for BCU1 and BCU2, a
\* memory service answers with all the bytes it was asked for or with none, and
\* writes the bytes it was given and no others, in whatever way the memories
\* lie (processApciMemoryOperation(), bcu_default.cpp).
THEOREM ServicesAgree ==
    ASSUME RamStart = 0
    PROVE  AccessSpec => [](MemoryServicesAgree /\ AnswersAreWhole /\ WriteIsRead)
<1>1. MemoryTypeOK => MemoryServicesAgree /\ AnswersAreWhole /\ WriteIsRead
  BY ReadsWhole, WritesRead DEF MemoryServicesAgree
<1> QED  BY <1>1, AccessTypes, PTL
==============================================================================

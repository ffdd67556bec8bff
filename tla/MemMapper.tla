------------------------------ MODULE MemMapper ------------------------------
(***************************************************************************)
(* The memory mapper of sblib/src/mem_mapper.cpp: virtual pages in a region *)
(* of the flash, whose first page is the allocation table, with a RAM copy  *)
(* of the table and of one page, the write buffer.  doFlash() writes both   *)
(* back, by erasing and programming one flash page after the other; the     *)
(* power may fail between any two of these steps and within each, and the   *)
(* constructor looks at what is left of the table.                          *)
(***************************************************************************)
EXTENDS Integers

CONSTANTS
    VirtPages,      \* 1 .. VirtPages: the virtual pages
    RegionPages,    \* 1 .. RegionPages: the data pages of the region
    Offsets,        \* the addresses within a page
    Values,         \* the values of a byte that are written
    ZeroByte, BlankByte,    \* the values of a new and of an erased byte
    Unmapped,       \* the content of a page that is not allocated
    AutoAddPage,    \* autoAddPage
    CheckedWrites,  \* writes come from processApciMemoryOperation()
    CleanRanges     \* addRange() is called by setup(), with nothing to flash

ASSUME MapperAssumption ==
    /\ VirtPages \in Nat \ {0} /\ RegionPages \in Nat \ {0}
    /\ AutoAddPage \in BOOLEAN /\ CheckedWrites \in BOOLEAN /\ CleanRanges \in BOOLEAN
    /\ Unmapped \notin [Offsets -> Values \cup {ZeroByte, BlankByte}]

Virt == 1 .. VirtPages
MapperByte == Values \cup {ZeroByte, BlankByte}
Page == [Offsets -> MapperByte]
ZeroPage == [o \in Offsets |-> ZeroByte]
BlankPage == [o \in Offsets |-> BlankByte]
EmptyTable == [v \in Virt |-> 0]

\* What a byte of the table may name: nothing (0), a page of the region, or the
\* page of a byte 0, which stands for every page outside the region as well.
ZeroEntry == RegionPages + 1
Entries == 0 .. ZeroEntry

VARIABLES
    flashTable,          \* the flash: the allocation table
    dataPages,               \* the flash: the data pages; page 0 is the first of the chip
    allocTable, allocTableModified,
    writePage, writeBuf, flashMemModified,
    lastAllocated,
    mapperPc,                  \* where the operation in progress is
    after,               \* where doFlash() returns to
    request,             \* the write, or the range, in progress
    written,                 \* history: what has been written
    durable              \* history: what had been written when doFlash() last returned

regionVars == <<flashTable, dataPages>>
tableVars == <<allocTable, allocTableModified, lastAllocated>>
pageVars == <<writePage, writeBuf, flashMemModified>>
mapperHistory == <<written, durable>>
mapperVars == <<regionVars, tableVars, pageVars, mapperPc, after, request, mapperHistory>>

WriteRequest == [page : Virt, offset : Offsets, data : Values]
RangeRequest == [next : Nat, last : Virt, modified : BOOLEAN]
None == [next |-> 0]

MapperTypeOK ==
    /\ flashTable \in [Virt -> Entries]
    /\ dataPages \in [0 .. RegionPages -> Page]
    /\ allocTable \in [Virt -> Entries] /\ allocTableModified \in BOOLEAN
    /\ writePage \in 0 .. RegionPages /\ writeBuf \in Page /\ flashMemModified \in BOOLEAN
    /\ lastAllocated \in 0 .. RegionPages
    /\ mapperPc \in {"idle", "write", "range", "flash", "programTable", "programPage",
                     "failed", "wild"}
    /\ after \in {"idle", "write", "range"}
    /\ request \in WriteRequest \cup RangeRequest \cup {None}
    /\ written \in [Virt -> Page \cup {Unmapped}]
    /\ durable \in [Virt -> Page \cup {Unmapped}]

MapperInit ==
    /\ flashTable = EmptyTable /\ dataPages = [p \in 0 .. RegionPages |-> BlankPage]
    /\ allocTable = EmptyTable /\ allocTableModified = FALSE
    /\ writePage = 0 /\ writeBuf = ZeroPage /\ flashMemModified = FALSE
    /\ lastAllocated = 0
    /\ mapperPc = "idle" /\ after = "idle" /\ request = None
    /\ written = [v \in Virt |-> Unmapped] /\ durable = written

-----------------------------------------------------------------------------
(* doFlash(): returns to "after" *)

doFlash(return) == mapperPc' = "flash" /\ after' = return

eraseTable ==
    /\ mapperPc = "flash" /\ allocTableModified
    /\ flashTable' = EmptyTable
    /\ mapperPc' = "programTable"
    /\ UNCHANGED <<dataPages, tableVars, pageVars, after, request, mapperHistory>>

programTable ==
    /\ mapperPc = "programTable"
    /\ flashTable' = allocTable
    /\ allocTableModified' = FALSE
    /\ mapperPc' = "flash"
    /\ UNCHANGED <<dataPages, allocTable, lastAllocated, pageVars, after, request, mapperHistory>>

erasePage ==
    /\ mapperPc = "flash" /\ ~allocTableModified /\ flashMemModified
    /\ dataPages' = [dataPages EXCEPT ![writePage] = BlankPage]
    /\ mapperPc' = "programPage"
    /\ UNCHANGED <<flashTable, tableVars, pageVars, after, request, mapperHistory>>

programPage ==
    /\ mapperPc = "programPage"
    /\ dataPages' = [dataPages EXCEPT ![writePage] = writeBuf]
    /\ flashMemModified' = FALSE
    /\ mapperPc' = "flash"
    /\ UNCHANGED <<flashTable, tableVars, writePage, writeBuf, after, request, mapperHistory>>

flashed ==
    /\ mapperPc = "flash" /\ ~allocTableModified /\ ~flashMemModified
    /\ mapperPc' = after
    /\ durable' = IF after = "range" THEN durable ELSE written
    /\ UNCHANGED <<regionVars, tableVars, pageVars, after, request, written>>

FlashStep == eraseTable \/ programTable \/ erasePage \/ programPage \/ flashed

-----------------------------------------------------------------------------
(* Allocation.  Operators named ...Bug are not part of the specification. *)

highestUsed ==
    CHOOSE p \in 0 .. RegionPages :
        /\ p = 0 \/ \E v \in Virt : allocTable[v] = p
        /\ \A v \in Virt : allocTable[v] <= p

\* The highest entry of the table is looked for until it is known.
highestAllocatedBug == lastAllocated
highestAllocated == IF lastAllocated = 0 THEN highestUsed ELSE lastAllocated

OutOfMemory == highestAllocated = RegionPages

\* allocatePage() of a page that is free; the first one is not remembered.
allocatePage(v) ==
    /\ lastAllocated' = IF highestAllocated = 0 THEN 0 ELSE highestAllocated + 1
    /\ writePage' = highestAllocated + 1
    /\ allocTable' = [allocTable EXCEPT ![v] = highestAllocated + 1]

-----------------------------------------------------------------------------
(* Operations *)

isMapped(v) == AutoAddPage \/ allocTable[v] # 0

flushBeforeSwap(v) == IF writePage # allocTable[v] THEN "flash" ELSE "write"

\* writeMem(), which flushes the write buffer when another page is needed.
writeMem(v, o, x) ==
    /\ mapperPc = "idle"
    /\ CheckedWrites => isMapped(v)
    /\ request' = [page |-> v, offset |-> o, data |-> x]
    /\ mapperPc' = flushBeforeSwap(v) /\ after' = "write"
    /\ UNCHANGED <<regionVars, tableVars, pageVars, mapperHistory>>

\* The buffer for a page: the page itself if it is in the buffer already.
swappedInBug(p) == IF p = 0 THEN writeBuf ELSE dataPages[p]
swappedIn(p) == IF p \in {0, writePage} THEN writeBuf ELSE dataPages[p]

Store(buffer, w) == [buffer EXCEPT ![w.offset] = w.data]

writeMapped ==
    LET p == allocTable[request.page] IN
    /\ p # 0 \/ ~AutoAddPage
    /\ writePage' = p
    /\ writeBuf' = Store(swappedIn(p), request)
    /\ flashMemModified' = TRUE
    /\ written' = IF p = 0 THEN written ELSE [written EXCEPT ![request.page] = Store(@, request)]
    /\ UNCHANGED tableVars

writeNewPage ==
    /\ allocTable[request.page] = 0 /\ AutoAddPage /\ ~OutOfMemory
    /\ allocatePage(request.page)
    /\ allocTableModified' = TRUE
    /\ writeBuf' = Store(ZeroPage, request)
    /\ flashMemModified' = TRUE
    /\ written' = [written EXCEPT ![request.page] = Store(ZeroPage, request)]

writeFails ==
    /\ allocTable[request.page] = 0 /\ AutoAddPage /\ OutOfMemory
    /\ writePage' = 0
    /\ lastAllocated' = highestAllocated
    /\ UNCHANGED <<allocTable, allocTableModified, writeBuf, flashMemModified, written>>

endOfWrite ==
    /\ mapperPc = "write"
    /\ writeMapped \/ writeNewPage \/ writeFails
    /\ mapperPc' = "idle" /\ after' = "idle" /\ request' = None
    /\ UNCHANGED <<regionVars, durable>>

\* addRange(), page by page.  When it fails the application calls fatalError().
addRange(first, last) ==
    /\ mapperPc = "idle"
    /\ CleanRanges => ~flashMemModified
    /\ mapperPc' = "range"
    /\ request' = [next |-> first, last |-> last, modified |-> FALSE]
    /\ UNCHANGED <<regionVars, tableVars, pageVars, after, mapperHistory>>

rangeTable == allocTableModified

rangeAllocates ==
    /\ mapperPc = "range" /\ request.next <= request.last
    /\ allocTable[request.next] = 0 /\ ~OutOfMemory
    /\ allocatePage(request.next)
    /\ writeBuf' = ZeroPage
    /\ flashMemModified' = TRUE
    /\ allocTableModified' = rangeTable
    /\ doFlash("range")
    /\ request' = [request EXCEPT !.next = @ + 1, !.modified = TRUE]
    /\ written' = [written EXCEPT ![request.next] = ZeroPage]
    /\ UNCHANGED <<regionVars, durable>>

rangeSkips ==
    /\ mapperPc = "range" /\ request.next <= request.last
    /\ allocTable[request.next] # 0
    /\ request' = [request EXCEPT !.next = @ + 1]
    /\ UNCHANGED <<regionVars, tableVars, pageVars, mapperPc, after, mapperHistory>>

rangeFails ==
    /\ mapperPc = "range" /\ request.next <= request.last
    /\ allocTable[request.next] = 0 /\ OutOfMemory
    /\ lastAllocated' = highestAllocated
    /\ mapperPc' = "failed"
    /\ UNCHANGED <<regionVars, allocTable, allocTableModified, pageVars, after, request, mapperHistory>>

tableChanged == allocTableModified \/ request.modified

endOfRange ==
    /\ mapperPc = "range" /\ request.next > request.last
    /\ allocTableModified' = tableChanged
    /\ doFlash("idle")
    /\ request' = None
    /\ UNCHANGED <<regionVars, allocTable, lastAllocated, pageVars, mapperHistory>>

RangeStep == rangeAllocates \/ rangeSkips \/ rangeFails \/ endOfRange

\* doFlash() by the main loop, or by readMem() and memoryPtr() with forceFlash.
flushMemory ==
    /\ mapperPc = "idle"
    /\ doFlash("idle")
    /\ UNCHANGED <<regionVars, tableVars, pageVars, request, mapperHistory>>

-----------------------------------------------------------------------------
(* Power failures *)

\* The table, or the page of the write buffer, is being erased or programmed.
tableAtRisk == mapperPc = "programTable" \/ (mapperPc = "flash" /\ allocTableModified)
pageAtRisk ==
    mapperPc = "programPage" \/ (mapperPc = "flash" /\ ~allocTableModified /\ flashMemModified)

\* A page at risk may be left with anything in it.
PowerFails ==
    /\ flashTable' \in IF tableAtRisk THEN [Virt -> Entries] ELSE {flashTable}
    /\ dataPages' \in IF pageAtRisk THEN {[dataPages EXCEPT ![writePage] = q] : q \in Page}
                      ELSE {dataPages}

\* More than one zero in the table is a sign of corruption.
errorFound(table) ==
    \E v, w \in Virt : v # w /\ table[v] = ZeroEntry /\ table[w] = ZeroEntry

\* Every entry is a page of the region, and of one virtual page only.
Sound(table) ==
    /\ \A v \in Virt : table[v] \in 0 .. RegionPages
    /\ \A v, w \in Virt : table[v] = table[w] /\ table[v] # 0 => v = w

\* What a table and the data pages hold.
PagesOf(table, pages) ==
    [v \in Virt |-> IF table[v] \in 1 .. RegionPages THEN pages[table[v]] ELSE Unmapped]

\* The constructor.  It empties a table in which it finds an error.  What the
\* mapper does with a corrupted table that passes is not followed.
constructor ==
    /\ allocTable' = IF errorFound(flashTable') THEN EmptyTable ELSE flashTable'
    /\ allocTableModified' = errorFound(flashTable')
    /\ lastAllocated' = 0
    /\ writePage' = 0 /\ writeBuf' = ZeroPage /\ flashMemModified' = FALSE
    /\ mapperPc' = IF Sound(allocTable') THEN "idle" ELSE "wild"
    /\ after' = "idle" /\ request' = None
    /\ written' = PagesOf(allocTable', dataPages') /\ durable' = written'

MapperRestart ==
    /\ mapperPc # "wild"
    /\ PowerFails
    /\ constructor

MapperNext ==
    \/ FlashStep \/ endOfWrite \/ RangeStep \/ flushMemory \/ MapperRestart
    \/ \E v \in Virt, o \in Offsets, x \in Values : writeMem(v, o, x)
    \/ \E first \in Virt : \E last \in first .. VirtPages : addRange(first, last)

MapperSpec == MapperInit /\ [][MapperNext]_mapperVars

-----------------------------------------------------------------------------
(* Properties *)

\* What readMem() and memoryPtr() return for a page, with forceFlash or without.
readMem(v) ==
    IF allocTable[v] = 0 THEN Unmapped
      ELSE IF allocTable[v] = writePage THEN writeBuf
      ELSE dataPages[allocTable[v]]

\* What was written is read back, whichever page is in the write buffer
\* (mem_mapper.cpp:177-260), and after doFlash() from the flash as well.
ReadsBack ==
    mapperPc = "idle" => \A v \in Virt :
        /\ readMem(v) = written[v]
        /\ ~flashMemModified /\ allocTable[v] # 0 => dataPages[allocTable[v]] = written[v]

\* The table, or the page, was damaged by the power failure of this step.
TableTorn == mapperPc = "programTable" \/ flashTable' # flashTable
PageTorn == mapperPc = "programPage" \/ dataPages' # dataPages

\* A restart finds every page that was flushed before, as it was then or as it
\* has been written since, but for the page that was being rewritten.  Once
\* nothing was left to be flashed it finds everything.
RestartKeeps ==
    /\ mapperPc' = "idle"
    /\ \A v \in Virt :
          \/ durable[v] = Unmapped
          \/ written'[v] \in {durable[v], written[v]}
          \/ PageTorn /\ allocTable[v] = writePage
    /\ mapperPc = "idle" /\ ~allocTableModified /\ ~flashMemModified => written' = written

\* A power failure, between two steps of doFlash() or in one of them, loses no
\* more than the table while it is rewritten, or the page that is being
\* rewritten, and nothing at all if all was flushed (mem_mapper.cpp:66).
SurvivesPowerFailure == [][MapperRestart /\ ~TableTorn => RestartKeeps]_mapperVars

=============================================================================

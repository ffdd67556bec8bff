---------------------------- MODULE UpdateProofs -----------------------------
(***************************************************************************)
(* Proofs about the update of a device.  The bootloader, for every layout  *)
(* of the flash and of the firmware and for every partner: what it is sent *)
(* is any telegram, and what it answers may be lost.  The updater, which   *)
(* is such a partner: what it takes for done is in the flash.  The         *)
(* differential update, for every pair of images: the pages the bootloader *)
(* builds are those of the new image, and both sides keep the same         *)
(* records.                                                                *)
(***************************************************************************)
EXTENDS MCUpdate, Induction, SequenceTheorems, TLAPS

-----------------------------------------------------------------------------
(* The places in the flash *)

LEMMA Quotient ==
    ASSUME NEW a \in Int, NEW n \in Nat \ {0}
    PROVE  /\ a \div n \in Int /\ a % n \in 0 .. n - 1
           /\ a = n * (a \div n) + (a % n)
OBVIOUS

LEMMA QuotientIs ==
    ASSUME NEW n \in Nat \ {0}, NEW q \in Int, NEW r \in 0 .. n - 1
    PROVE  (n * q + r) \div n = q /\ (n * q + r) % n = r
OBVIOUS

LEMMA TimesMonotone ==
    ASSUME NEW a \in Int, NEW b \in Int, NEW n \in Nat, a <= b
    PROVE  n * a <= n * b
OBVIOUS

LEMMA BootNumbers ==
    /\ PageCells \in Nat \ {0} /\ SectorPages \in Nat \ {0} /\ Sectors \in Nat \ {0}
    /\ BootCells \in Nat \ {0} /\ BufferCells \in Nat \ {0}
    /\ SectorCells \in Nat \ {0} /\ FlashCells \in Nat \ {0}
    /\ DescLength <= PageCells
<1>1. PageCells \in Nat \ {0} /\ SectorPages \in Nat \ {0} /\ Sectors \in Nat \ {0}
  BY BootloaderAssumption
<1>2. \A a, b \in Nat \ {0} : a * b \in Nat \ {0}
  OBVIOUS
<1>3. SectorCells \in Nat \ {0}
  BY <1>1, <1>2 DEF SectorCells
<1>4. FlashCells \in Nat \ {0}
  BY <1>1, <1>2, <1>3 DEF FlashCells
<1> QED  BY <1>1, <1>3, <1>4, BootloaderAssumption

\* The descriptor and the applications are behind the bootloader.
LEMMA PlacesInFlash ==
    /\ applicationFirstAddress \in Nat /\ bootDescriptorBlockAddress \in Nat
    /\ applicationFirstAddress = bootDescriptorBlockAddress + PageCells
    /\ bootDescriptorBlockAddress >= BootCells
    /\ applicationFirstAddress % PageCells = 0
<1> DEFINE X == BootCells + PageCells + PageCells - 1
           q == X \div PageCells
<1>1. PageCells \in Nat \ {0} /\ BootCells \in Nat /\ X \in Nat
  BY BootNumbers
<1>2. q \in Int /\ X % PageCells \in 0 .. PageCells - 1 /\ X = PageCells * q + (X % PageCells)
  BY <1>1, Quotient
<1>3. applicationFirstAddress = q * PageCells
  BY DEF applicationFirstAddress
<1> DEFINE a == PageCells * q
<1>4. a \in Int /\ a = q * PageCells
  BY <1>1, <1>2
<1>5. a % PageCells = 0
  <2>1. PageCells * q + 0 = PageCells * q /\ 0 \in 0 .. PageCells - 1
    BY <1>1, <1>2
  <2>2. (PageCells * q + 0) % PageCells = 0
    <3> HIDE DEF q
    <3> QED  BY <1>1, <1>2, <2>1, QuotientIs
  <2> QED  BY <2>1, <2>2
<1> HIDE DEF a, q
<1>6. a >= BootCells + PageCells
  BY <1>1, <1>2, <1>4 DEF a
<1> QED  BY <1>1, <1>3, <1>4, <1>5, <1>6 DEF bootDescriptorBlockAddress

LEMMA TimesStrict ==
    ASSUME NEW a \in Int, NEW b \in Int, NEW n \in Nat \ {0}, a < b
    PROVE  n * a + n <= n * b
<1>1. a + 1 \in Int /\ a + 1 <= b
  OBVIOUS
<1>2. n * (a + 1) <= n * b
  BY <1>1, TimesMonotone
<1>3. n * (a + 1) = n * a + n
  OBVIOUS
<1> QED  BY <1>2, <1>3

\* A quotient is at least p from the p-th multiple on.
LEMMA AtLeast ==
    ASSUME NEW c \in Int, NEW n \in Nat \ {0}, NEW p \in Int
    PROVE  c \div n >= p <=> c >= p * n
<1> DEFINE q == c \div n
           a == n * q
           b == p * n
<1>1. q \in Int /\ c % n \in 0 .. n - 1 /\ c = n * q + (c % n)
  BY Quotient
<1> HIDE DEF q
<1>2. a \in Int /\ b \in Int /\ b = n * p
  BY <1>1
<1>3. q >= p => a >= b
  BY <1>1, <1>2, TimesMonotone
<1>4. q < p => a + n <= b
  BY <1>1, <1>2, TimesStrict
<1> HIDE DEF a, b
<1>5. c \in a .. a + n - 1
  BY <1>1, <1>2 DEF a
<1>6. q >= p <=> c >= b
  BY <1>1, <1>2, <1>3, <1>4, <1>5
<1> QED  BY <1>6 DEF b, q

\* A page, or a sector, behind the last one of the bootloader begins behind it.
LEMMA BehindBootloader ==
    ASSUME NEW n \in Nat \ {0}, NEW p \in Int
    PROVE  (BootCells - 1) \div n < p <=> p * n >= BootCells
<1>1. BootCells - 1 \in Int
  BY BootNumbers
<1>2. (BootCells - 1) \div n \in Int /\ p * n \in Int
  BY <1>1, Quotient
<1>3. (BootCells - 1) \div n >= p <=> BootCells - 1 >= p * n
  BY <1>1, AtLeast
<1> DEFINE q == (BootCells - 1) \div n
           b == p * n
<1> HIDE DEF q, b
<1>4. q < p <=> b >= BootCells
  BY <1>2, <1>3, BootNumbers DEF q, b
<1> QED  BY <1>4 DEF q, b

LEMMA PagesAreNumbers ==
    ASSUME NEW c \in Int
    PROVE  PageOf(c) \in Int /\ SectorOf(c) \in Int
BY BootNumbers DEF PageOf, SectorOf

\* The pages of the flash and their cells.
NumPages == Sectors * SectorPages
CellsOf(a, b) == {c \in Addresses : PageOf(c) \in a .. b}

LEMMA PagesInFlash ==
    /\ NumPages \in Nat \ {0} /\ LastCell \in Nat /\ LastCell + 1 = NumPages * PageCells
    /\ PageOf(LastCell) = NumPages - 1
<1>1. /\ PageCells \in Nat \ {0} /\ SectorPages \in Nat \ {0} /\ Sectors \in Nat \ {0}
      /\ FlashCells \in Nat \ {0}
  BY BootNumbers
<1>2. NumPages \in Nat \ {0}
  <2>1. \A a, b \in Nat \ {0} : a * b \in Nat \ {0}
    OBVIOUS
  <2> QED  BY <1>1, <2>1 DEF NumPages
<1>3. FlashCells = NumPages * PageCells
  BY <1>1 DEF FlashCells, SectorCells, NumPages
<1>4. LastCell \in Nat /\ LastCell + 1 = NumPages * PageCells
  BY <1>1, <1>3 DEF LastCell
<1>5. PageOf(LastCell) \in Int
  BY <1>1, <1>4, Quotient DEF PageOf
<1>6. PageOf(LastCell) >= NumPages - 1
  <2>1. (NumPages - 1) * PageCells = NumPages * PageCells - PageCells
    BY <1>1, <1>2
  <2>2. LastCell >= (NumPages - 1) * PageCells
    BY <1>1, <1>4, <2>1
  <2> QED  BY <1>1, <1>2, <1>4, <2>2, AtLeast DEF PageOf
<1>7. ~(PageOf(LastCell) >= NumPages)
  BY <1>1, <1>2, <1>4, AtLeast DEF PageOf
<1> QED  BY <1>2, <1>4, <1>5, <1>6, <1>7

\* The cells from the first one of a page to the last one of a page.
LEMMA PagesAreCells ==
    ASSUME NEW a \in Nat, NEW b \in Int, b < NumPages
    PROVE  a * PageCells .. (b + 1) * PageCells - 1 = CellsOf(a, b)
<1>1. PageCells \in Nat \ {0} /\ NumPages \in Nat /\ LastCell + 1 = NumPages * PageCells
      /\ LastCell \in Nat
  BY BootNumbers, PagesInFlash
<1> DEFINE x == a * PageCells
           y == (b + 1) * PageCells
<1>2. x \in Nat /\ y \in Int
  BY <1>1
<1>3. y <= LastCell + 1
  <2>1. b + 1 \in Int /\ b + 1 <= NumPages
    BY <1>1
  <2>2. PageCells * (b + 1) <= PageCells * NumPages
    BY <1>1, <2>1, TimesMonotone
  <2> QED  BY <1>1, <2>1, <2>2
<1>4. ASSUME NEW c \in Int
      PROVE  PageOf(c) \in Int /\ (PageOf(c) >= a <=> c >= x) /\ (PageOf(c) >= b + 1 <=> c >= y)
  <2>1. PageOf(c) \in Int
    BY PagesAreNumbers
  <2>2. c \div PageCells >= a <=> c >= a * PageCells
    BY <1>1, AtLeast
  <2>3. b + 1 \in Int
    OBVIOUS
  <2>4. c \div PageCells >= b + 1 <=> c >= (b + 1) * PageCells
    BY <1>1, <2>3, AtLeast
  <2> QED  BY <2>1, <2>2, <2>4 DEF PageOf
<1> HIDE DEF x, y
<1>5. ASSUME NEW c \in x .. y - 1
      PROVE  c \in CellsOf(a, b)
  <2>1. c \in Int /\ c >= x /\ ~(c >= y)
    BY <1>2
  <2>2. c \in Addresses
    BY <1>1, <1>2, <1>3, <2>1 DEF Addresses
  <2>3. PageOf(c) \in a .. b
    BY <1>4, <2>1
  <2> QED  BY <2>2, <2>3 DEF CellsOf
<1>6. ASSUME NEW c \in CellsOf(a, b)
      PROVE  c \in x .. y - 1
  <2>1. c \in Int /\ PageOf(c) \in a .. b
    BY <1>1 DEF CellsOf, Addresses
  <2> QED  BY <1>2, <1>4, <2>1
<1> QED  BY <1>5, <1>6 DEF x, y

-----------------------------------------------------------------------------
(* The calls of a command leave the bootloader alone *)

Calls ==
    [op : {"erase"}, first : Int, last : Int, allowed : BOOLEAN]
      \cup [op : {"program"}, first : Int, last : Int, from : Int, allowed : BOOLEAN]
SafeCalls == {call \in Calls : call.allowed => call.first >= BootCells}

LEMMA EraseCallsAreSafe ==
    ASSUME NEW a \in Int, NEW b \in Int
    PROVE  erasePageRange(a, b) \in SafeCalls /\ eraseSectorRange(a, b) \in SafeCalls
<1>1. a * PageCells \in Int /\ (b + 1) * PageCells - 1 \in Int
  BY BootNumbers
<1>2. a * SectorCells \in Int /\ (b + 1) * SectorCells - 1 \in Int
  BY BootNumbers
<1>3. pageAllowedToErase(a) => a * PageCells >= BootCells
  BY BehindBootloader, BootNumbers DEF pageAllowedToErase, PageOf
<1>4. sectorAllowedToErase(a) => a * SectorCells >= BootCells
  BY BehindBootloader, BootNumbers DEF sectorAllowedToErase, SectorOf
<1>5. /\ pageAllowedToErase(a) \in BOOLEAN /\ pageAllowedToErase(b) \in BOOLEAN
      /\ sectorAllowedToErase(a) \in BOOLEAN /\ sectorAllowedToErase(b) \in BOOLEAN
  BY DEF pageAllowedToErase, sectorAllowedToErase
<1>6. erasePageRange(a, b) \in SafeCalls
  BY <1>1, <1>3, <1>5 DEF erasePageRange, SafeCalls, Calls
<1>7. eraseSectorRange(a, b) \in SafeCalls
  BY <1>2, <1>4, <1>5 DEF eraseSectorRange, SafeCalls, Calls
<1> QED  BY <1>6, <1>7

LEMMA ProgramCallIsSafe ==
    ASSUME NEW first \in Int, NEW size \in Int, NEW from \in Int, NEW isDesc \in BOOLEAN
    PROVE  programCall(first, size, from, isDesc) \in SafeCalls
<1>1. addressAllowedToProgram(first, size, isDesc) => first >= BootCells
  BY PlacesInFlash, BootNumbers DEF addressAllowedToProgram
<1>2. addressAllowedToProgram(first, size, isDesc) \in BOOLEAN
  BY DEF addressAllowedToProgram
<1> QED  BY <1>1, <1>2 DEF programCall, SafeCalls, Calls

LEMMA EraseListIsSafe ==
    ASSUME NEW first \in Int, NEW last \in Int
    PROVE  eraseAddressRange(first, last) \in Seq(SafeCalls)
<1> DEFINE aligned == first % SectorCells = 0
           startSector == IF aligned THEN SectorOf(first) ELSE SectorOf(first) + 1
           tail == SectorOf(last) * SectorPages
           lastPageInSector == PageOf(last) - tail + 1 = SectorPages
           endSector == IF lastPageInSector THEN SectorOf(last) ELSE SectorOf(last) - 1
           A == IF aligned THEN << >>
                  ELSE << erasePageRange(PageOf(first), startSector * SectorPages - 1) >>
           B == IF lastPageInSector THEN << >> ELSE << erasePageRange(tail, PageOf(last)) >>
           C == IF startSector <= endSector
                  THEN << eraseSectorRange(startSector, endSector) >> ELSE << >>
           D == << erasePageRange(PageOf(first), PageOf(last)) >>
<1>1. eraseAddressRange(first, last)
        = IF PageOf(last) - PageOf(first) + 1 < SectorPages THEN D ELSE A \o B \o C
  BY DEF eraseAddressRange
<1>2. PageOf(first) \in Int /\ PageOf(last) \in Int /\ SectorOf(first) \in Int /\ SectorOf(last) \in Int
  BY PagesAreNumbers
<1>3. /\ startSector \in Int /\ tail \in Int /\ endSector \in Int
      /\ startSector * SectorPages - 1 \in Int
  BY <1>2, BootNumbers
<1> HIDE DEF startSector, tail, endSector, aligned, lastPageInSector
<1>4. A \in Seq(SafeCalls) /\ B \in Seq(SafeCalls) /\ C \in Seq(SafeCalls) /\ D \in Seq(SafeCalls)
  BY <1>2, <1>3, EraseCallsAreSafe
<1> HIDE DEF A, B, C, D
<1> QED  BY <1>1, <1>4

-----------------------------------------------------------------------------
(* Lists of calls *)

\* The calls are of a set and take the cells of S, each cell once.
Takes(list, G, S) ==
    /\ list \in Seq(G)
    /\ UNION {CallCells(list[i]) : i \in DOMAIN list} = S
    /\ \A i, j \in DOMAIN list : i # j => CallCells(list[i]) \cap CallCells(list[j]) = {}

LEMMA NoCalls == ASSUME NEW G PROVE Takes(<< >>, G, {})
BY DEF Takes

LEMMA OneCall ==
    ASSUME NEW G, NEW call \in G
    PROVE  Takes(<< call >>, G, CallCells(call))
<1> DEFINE list == << call >>
<1>1. list \in Seq(G) /\ DOMAIN list = {1} /\ list[1] = call
  OBVIOUS
<1> HIDE DEF list
<1> QED  BY <1>1 DEF Takes, list

\* Lists that share no cell can be joined.
LEMMA JoinCalls ==
    ASSUME NEW G, NEW S, NEW T, NEW l, NEW m, Takes(l, G, S), Takes(m, G, T), S \cap T = {}
    PROVE  Takes(l \o m, G, S \cup T)
<1> DEFINE list == l \o m
<1>1. l \in Seq(G) /\ m \in Seq(G)
  BY DEF Takes
<1>2. /\ list \in Seq(G) /\ Len(l) \in Nat /\ Len(m) \in Nat
      /\ DOMAIN l = 1 .. Len(l) /\ DOMAIN m = 1 .. Len(m)
      /\ DOMAIN list = 1 .. Len(l) + Len(m)
      /\ \A i \in DOMAIN l : list[i] = l[i]
      /\ \A i \in DOMAIN m : list[Len(l) + i] = m[i]
  BY <1>1
<1> HIDE DEF list
<1>3. \A i \in DOMAIN l : CallCells(l[i]) \subseteq S
  BY DEF Takes
<1>4. \A i \in DOMAIN m : CallCells(m[i]) \subseteq T
  BY DEF Takes
<1>5. ASSUME NEW i \in DOMAIN list
      PROVE  \/ i \in DOMAIN l /\ list[i] = l[i]
             \/ i - Len(l) \in DOMAIN m /\ list[i] = m[i - Len(l)]
  <2>1. CASE i <= Len(l)
    BY <1>2, <2>1
  <2>2. CASE ~(i <= Len(l))
    <3>1. i - Len(l) \in 1 .. Len(m) /\ Len(l) + (i - Len(l)) = i
      BY <1>2, <2>2
    <3> QED  BY <1>2, <3>1
  <2> QED  BY <2>1, <2>2
<1>6. UNION {CallCells(list[i]) : i \in DOMAIN list} = S \cup T
  <2>1. ASSUME NEW i \in DOMAIN list PROVE CallCells(list[i]) \subseteq S \cup T
    BY <1>3, <1>4, <1>5
  <2>2. ASSUME NEW c \in S PROVE \E i \in DOMAIN list : c \in CallCells(list[i])
    <3>1. PICK i \in DOMAIN l : c \in CallCells(l[i])
      BY DEF Takes
    <3>2. i \in DOMAIN list
      BY <1>2
    <3> QED  BY <1>2, <3>1, <3>2
  <2>3. ASSUME NEW c \in T PROVE \E i \in DOMAIN list : c \in CallCells(list[i])
    <3>1. PICK i \in DOMAIN m : c \in CallCells(m[i])
      BY DEF Takes
    <3>2. Len(l) + i \in DOMAIN list
      BY <1>2
    <3> QED  BY <1>2, <3>1, <3>2
  <2> QED  BY <2>1, <2>2, <2>3
<1>7. ASSUME NEW i \in DOMAIN list, NEW j \in DOMAIN list, i # j
      PROVE  CallCells(list[i]) \cap CallCells(list[j]) = {}
  <2>1. /\ \A a, b \in DOMAIN l : a # b => CallCells(l[a]) \cap CallCells(l[b]) = {}
        /\ \A a, b \in DOMAIN m : a # b => CallCells(m[a]) \cap CallCells(m[b]) = {}
    BY DEF Takes
  <2>2. i \in Nat /\ j \in Nat /\ i - Len(l) # j - Len(l)
    BY <1>2, <1>7
  <2>3. \/ i \in DOMAIN l /\ list[i] = l[i]
        \/ i - Len(l) \in DOMAIN m /\ list[i] = m[i - Len(l)]
    BY <1>5
  <2>4. \/ j \in DOMAIN l /\ list[j] = l[j]
        \/ j - Len(l) \in DOMAIN m /\ list[j] = m[j - Len(l)]
    BY <1>5
  <2> QED  BY <1>3, <1>4, <1>7, <2>1, <2>2, <2>3, <2>4
<1> QED  BY <1>2, <1>6, <1>7 DEF Takes, list

-----------------------------------------------------------------------------
(* Programming takes the pages of the block *)

LEMMA BlockSize ==
    ASSUME NEW n \in Nat \ {0}
    PROVE  /\ \E k \in BlockPages : blockSize(n) = k * PageCells
           /\ blockSize(n) \in Nat \ {0}
           /\ blockSize(n) > n => blockSize(n) = PageCells
           /\ afterBlock(n) \in 0 .. n - 1
<1> DEFINE sizes == {b * PageCells : b \in BlockPages}
           fits == {size \in sizes : size <= n /\ size <= BufferCells}
<1>1. /\ PageCells \in Nat \ {0} /\ BufferCells \in Nat /\ PageCells <= BufferCells
      /\ BlockPages \subseteq Nat \ {0} /\ 1 \in BlockPages
  BY BootNumbers, BootloaderAssumption
<1>2. \A size \in sizes : size \in Nat \ {0}
  <2>1. \A a, b \in Nat \ {0} : a * b \in Nat \ {0}
    OBVIOUS
  <2> QED  BY <1>1, <2>1
<1>3. PageCells \in sizes
  <2>1. 1 * PageCells = PageCells
    BY <1>1
  <2> QED  BY <1>1, <2>1
<1> DEFINE size == IF fits = {} THEN PageCells ELSE Max(fits)
<1>4. blockSize(n) = size
  BY DEF blockSize
<1>5. fits \in SUBSET (0 .. n)
  BY <1>2
<1>6. fits # {} => Max(fits) \in fits
  <2> SUFFICES ASSUME fits # {} PROVE Max(fits) \in fits
    OBVIOUS
  <2>1. \E x \in fits : \A y \in fits : y <= x
    <3> HIDE DEF fits
    <3> QED  BY <1>5, Greatest
  <2>2. \A x, y \in fits : y <= x => x >= y
    BY <1>2
  <2> HIDE DEF fits
  <2>3. \E x \in fits : \A y \in fits : x >= y
    BY <2>1, <2>2
  <2> QED  BY <2>3 DEF Max
<1>7. size \in sizes /\ (size > n => size = PageCells)
  <2>1. CASE fits = {}
    BY <1>3, <2>1
  <2>2. CASE fits # {}
    <3> DEFINE m == Max(fits)
    <3>1. m \in sizes /\ m <= n
      BY <1>6, <2>2
    <3>2. m \in Nat /\ size = m
      BY <1>2, <2>2, <3>1
    <3> HIDE DEF m, size, sizes
    <3>3. ~(m > n)
      BY <3>1, <3>2
    <3> QED  BY <3>1, <3>2, <3>3
  <2> QED  BY <2>1, <2>2
<1> HIDE DEF size
<1>8. \E k \in BlockPages : size = k * PageCells
  BY <1>7
<1> HIDE DEF sizes
<1>9. size \in Nat \ {0}
  BY <1>2, <1>7
<1>10. afterBlock(n) \in 0 .. n - 1
  BY <1>4, <1>9 DEF afterBlock
<1> QED  BY <1>4, <1>7, <1>8, <1>9, <1>10

IsCallList(g, first, count, n) ==
    g = [i \in 0 .. n |->
           IF i = 0 THEN << >>
             ELSE << programCall(first + count - i, blockSize(i), count - i, FALSE) >>
                  \o g[afterBlock(i)]]

LEMMA CallListExists ==
    ASSUME NEW first, NEW count, NEW n \in Nat
    PROVE  \E g : IsCallList(g, first, count, n)
<1> DEFINE Call(i) == << programCall(first + count - i, blockSize(i), count - i, FALSE) >>
           Z == {k \in Nat : \E g : IsCallList(g, first, count, k)}
<1>1. 0 \in Z
  <2>1. IsCallList([i \in 0 .. 0 |-> << >>], first, count, 0)
    BY DEF IsCallList
  <2> QED  BY <2>1
<1>2. \A k \in Z : k + 1 \in Z
  <2> SUFFICES ASSUME NEW k \in Nat, NEW g, IsCallList(g, first, count, k)
               PROVE  \E h : IsCallList(h, first, count, k + 1)
    OBVIOUS
  <2>0. \A i \in 1 .. k + 1 : afterBlock(i) \in 0 .. i - 1
    BY BlockSize
  <2> DEFINE h == [i \in 0 .. k + 1 |-> IF i <= k THEN g[i] ELSE Call(k + 1) \o g[afterBlock(k + 1)]]
  <2>1. \A i \in 0 .. k : h[i] = g[i]
    OBVIOUS
  <2>2. \A i \in 0 .. k : g[i] = IF i = 0 THEN << >> ELSE Call(i) \o g[afterBlock(i)]
    BY DEF IsCallList
  <2>3. afterBlock(k + 1) \in 0 .. k
    BY <2>0
  <2>4. h[k + 1] = Call(k + 1) \o h[afterBlock(k + 1)]
    BY <2>1, <2>3
  <2> HIDE DEF Call
  <2>5. ASSUME NEW i \in 0 .. k + 1
        PROVE  h[i] = IF i = 0 THEN << >> ELSE Call(i) \o h[afterBlock(i)]
    <3> HIDE DEF h
    <3>1. CASE i = k + 1
      <4>1. i # 0
        BY <3>1
      <4> QED  BY <2>4, <3>1, <4>1
    <3>2. CASE i \in 1 .. k
      <4>1. afterBlock(i) \in 0 .. k /\ i \in 0 .. k /\ i # 0
        BY <2>0, <3>2
      <4> QED  BY <2>1, <2>2, <4>1
    <3>3. CASE i = 0
      BY <2>1, <2>2, <3>3
    <3> QED  BY <3>1, <3>2, <3>3
  <2>6. h = [i \in 0 .. k + 1 |-> h[i]]
    OBVIOUS
  <2>7. IsCallList(h, first, count, k + 1)
    <3> HIDE DEF h
    <3>1. h = [i \in 0 .. k + 1 |-> IF i = 0 THEN << >> ELSE Call(i) \o h[afterBlock(i)]]
      BY <2>5, <2>6
    <3> QED  BY <3>1 DEF IsCallList, Call
  <2> QED  BY <2>7
<1>3. Z \in SUBSET Nat
  OBVIOUS
<1>4. Z = Nat
  <2> HIDE DEF Z
  <2> QED  BY <1>1, <1>2, <1>3, SetInduction
<1> QED  BY <1>4

\* The calls are a list of this kind, the last of them for count cells.
LEMMA ProgramCallsAre ==
    ASSUME NEW first, NEW count \in Nat
    PROVE  \E g : IsCallList(g, first, count, count) /\ ProgramCalls(first, count) = g[count]
<1> DEFINE rest[n \in 0 .. count] ==
             IF n = 0 THEN << >>
               ELSE << programCall(first + count - n, blockSize(n), count - n, FALSE) >>
                    \o rest[afterBlock(n)]
<1>1. IsCallList(rest, first, count, count)
  <2>1. \E h : IsCallList(h, first, count, count)
    BY CallListExists
  <2>2. rest = CHOOSE h : IsCallList(h, first, count, count)
    BY Zenon DEF IsCallList
  <2> HIDE DEF rest
  <2> QED  BY <2>1, <2>2, Zenon
<1>2. ProgramCalls(first, count) = rest[count]
  BY Zenon DEF ProgramCalls, rest
<1> HIDE DEF rest
<1> QED  BY <1>1, <1>2

\* The calls of UPD_PROGRAM: of a size that iapProgram() accepts, from the cell
\* of the buffer that belongs to the cell of the flash.
BlockCalls(first) ==
    {call \in SafeCalls :
        /\ call.op = "program" /\ call.allowed
        /\ call.from = call.first - first
        /\ (call.last - call.first + 1) \div PageCells \in BlockPages}

\* From a place in the flash to the last page of the block.
ToTheEnd(first, count, n) ==
    IF n = 0 THEN {} ELSE CellsOf(PageOf(first + count - n), PageOf(first + count - 1))

LEMMA AlignedCell ==
    ASSUME NEW c \in Nat, c % PageCells = 0
    PROVE  PageOf(c) \in Nat /\ c = PageOf(c) * PageCells
<1>1. PageCells \in Nat \ {0}
  BY BootNumbers
<1> DEFINE q == c \div PageCells
<1>2. q \in Int /\ c = PageCells * q + (c % PageCells)
  BY <1>1, Quotient
<1>3. c = PageCells * q
  <2> DEFINE a == PageCells * q
  <2>1. a \in Int /\ c = a + 0
    BY <1>1, <1>2
  <2> HIDE DEF a
  <2>2. c = a
    BY <2>1
  <2> QED  BY <2>2 DEF a
<1>4. q >= 0
  BY <1>1, AtLeast
<1> HIDE DEF q
<1> QED  BY <1>1, <1>2, <1>3, <1>4 DEF q, PageOf

\* A cell k pages behind the first one of a page is the first one of a page.
LEMMA PagesOn ==
    ASSUME NEW c \in Nat, NEW k \in Nat, c % PageCells = 0
    PROVE  /\ c + k * PageCells \in Nat /\ (c + k * PageCells) % PageCells = 0
           /\ PageOf(c + k * PageCells) = PageOf(c) + k
<1>1. PageCells \in Nat \ {0} /\ PageOf(c) \in Nat /\ c = PageOf(c) * PageCells
  BY BootNumbers, AlignedCell
<1> DEFINE p == PageOf(c)
<1>2. c + k * PageCells = PageCells * (p + k) + 0
  BY <1>1
<1>3. p + k \in Int /\ 0 \in 0 .. PageCells - 1
  BY <1>1
<1>4. /\ (PageCells * (p + k) + 0) \div PageCells = p + k
      /\ (PageCells * (p + k) + 0) % PageCells = 0
  BY <1>1, <1>3, QuotientIs
<1>5. c + k * PageCells \in Nat
  BY <1>1
<1> QED  BY <1>2, <1>4, <1>5 DEF PageOf

LEMMA NextBlock ==
    ASSUME NEW first \in Nat, NEW count \in Nat, NEW n \in 1 .. count,
           (first + count - n) % PageCells = 0, afterBlock(n) # 0
    PROVE  (first + count - afterBlock(n)) % PageCells = 0
<1> DEFINE c == first + count - n
           z == blockSize(n)
<1>1. PICK k \in BlockPages : z = k * PageCells
  BY BlockSize
<1>2. z \in Nat /\ afterBlock(n) = n - z /\ k \in Nat
  BY BlockSize, BootloaderAssumption DEF afterBlock
<1>3. c \in Nat /\ first + count - afterBlock(n) = c + z
  BY <1>2
<1>4. (c + z) % PageCells = 0
  BY <1>1, <1>2, <1>3, PagesOn
<1> QED  BY <1>3, <1>4

LEMMA ProgramOneBlock ==
    ASSUME NEW first \in Nat, NEW count \in Nat, NEW n \in 1 .. count,
           first >= applicationFirstAddress, first + count - 1 <= LastCell,
           (first + count - n) % PageCells = 0,
           NEW list, Takes(list, BlockCalls(first), ToTheEnd(first, count, afterBlock(n)))
    PROVE  Takes(<< programCall(first + count - n, blockSize(n), count - n, FALSE) >> \o list,
                 BlockCalls(first), ToTheEnd(first, count, n))
<1> DEFINE c == first + count - n
           e == first + count - 1
           call == programCall(c, blockSize(n), count - n, FALSE)
<1>1. /\ PageCells \in Nat \ {0} /\ LastCell \in Nat /\ NumPages \in Nat \ {0}
      /\ LastCell + 1 = NumPages * PageCells /\ PageOf(LastCell) = NumPages - 1
      /\ BlockPages \subseteq Nat \ {0} /\ applicationFirstAddress \in Nat
  BY BootNumbers, PagesInFlash, PlacesInFlash, BootloaderAssumption
<1>2. PICK k \in BlockPages : blockSize(n) = k * PageCells
  BY BlockSize
<1>3. /\ blockSize(n) \in Nat \ {0} /\ (blockSize(n) > n => blockSize(n) = PageCells)
      /\ afterBlock(n) \in 0 .. n - 1
  BY BlockSize
<1> DEFINE z == blockSize(n)
<1>4. c \in Nat /\ c <= e /\ e \in Nat /\ e <= LastCell /\ c % PageCells = 0 /\ c >= applicationFirstAddress
  BY <1>1
<1>5. k \in Nat \ {0} /\ z = k * PageCells
  BY <1>1, <1>2
<1> DEFINE p == PageOf(c)
<1>6. p \in Nat /\ c = p * PageCells
  BY <1>4, AlignedCell
<1>7. c + z \in Nat /\ (c + z) % PageCells = 0 /\ PageOf(c + z) = p + k
  BY <1>4, <1>5, PagesOn
<1>20. c + z \in Nat /\ e \in Int /\ NumPages \in Int
  BY <1>1, <1>4, <1>7
<1>21. c \in Int /\ z \in Int
  BY <1>3, <1>4
<1>8. PageOf(e) \in Int /\ PageOf(e) >= p
  <2>1. PageOf(e) \in Int
    BY <1>4, PagesAreNumbers
  <2>2. e \div PageCells >= p <=> e >= p * PageCells
    BY <1>1, <1>4, <1>6, AtLeast
  <2>3. PageOf(e) >= p
    BY <1>4, <1>6, <2>2 DEF PageOf
  <2> QED  BY <2>1, <2>3
<1>9. PageOf(e) <= NumPages - 1
  <2>0. e \div PageCells >= NumPages <=> e >= NumPages * PageCells
    <3>1. PageCells \in Nat \ {0}
      BY <1>1
    <3> HIDE DEF e
    <3> QED  BY <1>20, <3>1, AtLeast
  <2>1. ~(PageOf(e) >= NumPages)
    BY <1>1, <1>4, <2>0 DEF PageOf
  <2> QED  BY <1>1, <1>8, <2>1
<1>10. /\ k = PageOf(e) - p + 1 \/ p + k <= PageOf(e)
       /\ afterBlock(n) = 0 => p + k = PageOf(e) + 1
       /\ afterBlock(n) # 0 => p + k <= PageOf(e) /\ first + count - afterBlock(n) = c + z
  <2>1. CASE z >= n
    <3>1. afterBlock(n) = 0
      BY <1>3, <2>1 DEF afterBlock
    <3>2. ~(PageOf(e) >= p + k)
      <4>1. e < c + z
        BY <1>3, <1>4, <2>1
      <4>2. (p + k) * PageCells = c + z /\ p + k \in Int
        BY <1>1, <1>5, <1>6
      <4> HIDE DEF p, z
      <4>3. ~(e >= (p + k) * PageCells)
        BY <1>4, <1>7, <4>1, <4>2
      <4>4. e \div PageCells >= p + k <=> e >= (p + k) * PageCells
        BY <1>1, <1>4, <4>2, AtLeast
      <4> QED  BY <4>3, <4>4 DEF PageOf
    <3>3. z = PageCells \/ z = n
      BY <1>3, <2>1
    <3>4. PageOf(e) >= p + k - 1
      <4>1. CASE z = PageCells
        <5>1. k = 1
          <6>1. k > 1 => PageCells * 1 + PageCells <= PageCells * k
            BY <1>1, <1>5, TimesStrict
          <6>2. PageCells * 1 = PageCells /\ PageCells * k = z
            BY <1>1, <1>5
          <6> HIDE DEF z
          <6> QED  BY <1>1, <1>5, <4>1, <6>1, <6>2
        <5> QED  BY <1>6, <1>8, <5>1
      <4>2. CASE z = n
        <5>1. e = c + z - 1
          BY <4>2
        <5>2. (p + k - 1) * PageCells = c + z - PageCells
          BY <1>1, <1>5, <1>6
        <5>3. p + k - 1 \in Int
          BY <1>5, <1>6
        <5>4. e \div PageCells >= p + k - 1 <=> e >= (p + k - 1) * PageCells
          BY <1>1, <1>4, <5>3, AtLeast
        <5>5. e >= c + z - PageCells
          <6> DEFINE y == c + z
          <6>1. y \in Nat
            BY <1>20
          <6>2. e = y - 1 /\ c + z - PageCells = y - PageCells
            <7> HIDE DEF e, c, z
            <7> QED  BY <1>1, <1>21, <5>1
          <6> HIDE DEF y, e, c, z
          <6>3. e >= y - PageCells
            BY <1>1, <6>1, <6>2
          <6> QED  BY <6>2, <6>3
        <5> QED  BY <5>2, <5>4, <5>5 DEF PageOf
      <4> QED  BY <3>3, <4>1, <4>2
    <3> HIDE DEF p, z
    <3> QED  BY <1>5, <1>6, <1>8, <3>1, <3>2, <3>4
  <2>2. CASE z < n
    <3>1. afterBlock(n) = n - z /\ afterBlock(n) # 0 /\ first + count - afterBlock(n) = c + z
      BY <1>3, <2>2 DEF afterBlock
    <3>2. c + z <= e
      BY <1>3, <2>2
    <3>3. (p + k) * PageCells = c + z /\ p + k \in Int
      BY <1>1, <1>5, <1>6
    <3>4. e \div PageCells >= p + k <=> e >= (p + k) * PageCells
      BY <1>1, <1>4, <3>3, AtLeast
    <3>5. p + k <= PageOf(e)
      BY <1>8, <3>2, <3>3, <3>4 DEF PageOf
    <3> QED  BY <3>1, <3>5
  <2> QED  BY <1>3, <1>4, <2>1, <2>2
<1> HIDE DEF p, z
<1>11. CallCells(call) = CellsOf(p, p + k - 1)
  <2>1. call.first = p * PageCells /\ call.last = (p + k - 1 + 1) * PageCells - 1
    BY <1>1, <1>5, <1>6 DEF programCall, z
  <2>2. p + k - 1 \in Int /\ p + k - 1 < NumPages
    BY <1>1, <1>5, <1>6, <1>8, <1>9, <1>10
  <2> QED  BY <1>6, <2>1, <2>2, PagesAreCells DEF CallCells
<1>12. call \in BlockCalls(first)
  <2>1. call \in SafeCalls
    <3>1. c \in Int /\ blockSize(n) \in Int /\ count - n \in Int /\ FALSE \in BOOLEAN
      BY <1>3, <1>4
    <3> HIDE DEF c
    <3> QED  BY <3>1, ProgramCallIsSafe
  <2>2. call.from = call.first - first
    BY DEF programCall
  <2>3. (call.last - call.first + 1) \div PageCells = k
    <3>1. call.last - call.first + 1 = PageCells * k + 0
      BY <1>1, <1>4, <1>5, <1>7 DEF programCall, z
    <3>2. (PageCells * k + 0) \div PageCells = k
      BY <1>1, <1>5, QuotientIs
    <3> QED  BY <3>1, <3>2
  <2>4. c + z - 1 <= LastCell
    <3>1. (p + k) * PageCells = c + z
      BY <1>1, <1>5, <1>6
    <3>2. p + k \in Int /\ p + k <= NumPages
      BY <1>1, <1>5, <1>6, <1>8, <1>9, <1>10
    <3>3. PageCells * (p + k) <= PageCells * NumPages
      BY <1>1, <3>2, TimesMonotone
    <3>4. PageCells * (p + k) = (p + k) * PageCells /\ PageCells * NumPages = NumPages * PageCells
      BY <1>1, <3>2
    <3> DEFINE y == c + z
    <3>5. y \in Nat /\ y <= LastCell + 1
      BY <1>1, <1>20, <3>1, <3>3, <3>4
    <3>7. c + z - 1 = y - 1
      <4> HIDE DEF c, z
      <4> QED  BY <1>21
    <3> HIDE DEF y
    <3>6. y - 1 <= LastCell
      BY <1>1, <3>5
    <3> HIDE DEF c, z
    <3> QED  BY <3>6, <3>7
  <2>5. call.allowed
    BY <1>3, <1>4, <2>4 DEF programCall, addressAllowedToProgram, z
  <2> QED  BY <2>1, <2>2, <2>3, <2>5 DEF BlockCalls, programCall
<1>13. Takes(<< call >>, BlockCalls(first), CellsOf(p, p + k - 1))
  BY <1>11, <1>12, OneCall
<1>14. ToTheEnd(first, count, afterBlock(n)) = CellsOf(p + k, PageOf(e))
  <2>1. CASE afterBlock(n) = 0
    BY <1>5, <1>6, <1>8, <1>10, <2>1 DEF ToTheEnd, CellsOf
  <2>2. CASE afterBlock(n) # 0
    BY <1>7, <1>10, <2>2 DEF ToTheEnd, z
  <2> QED  BY <2>1, <2>2
<1>15. \A a \in Addresses : PageOf(a) \in Int
  BY PagesAreNumbers DEF Addresses
<1>16. /\ CellsOf(p, p + k - 1) \cap CellsOf(p + k, PageOf(e)) = {}
       /\ CellsOf(p, p + k - 1) \cup CellsOf(p + k, PageOf(e)) = CellsOf(p, PageOf(e))
  BY <1>5, <1>6, <1>8, <1>10, <1>15 DEF CellsOf
<1>17. ToTheEnd(first, count, n) = CellsOf(p, PageOf(e))
  BY DEF ToTheEnd, p
<1>18. Takes(<< call >> \o list, BlockCalls(first), CellsOf(p, PageOf(e)))
  <2> HIDE DEF call, e
  <2>1. Takes(list, BlockCalls(first), CellsOf(p + k, PageOf(e)))
    BY <1>14
  <2>2. Takes(<< call >> \o list, BlockCalls(first),
              CellsOf(p, p + k - 1) \cup CellsOf(p + k, PageOf(e)))
    BY <1>13, <1>16, <2>1, JoinCalls
  <2> QED  BY <1>16, <2>2
<1> QED  BY <1>17, <1>18

LEMMA ProgramTakesBlock ==
    ASSUME NEW first \in Nat, NEW count \in Nat,
           addressAllowedToProgram(first, count, FALSE)
    PROVE  Takes(ProgramCalls(first, count), BlockCalls(first),
                 CellsOf(PageOf(first), PageOf(first + count - 1)))
<1>1. /\ first % PageCells = 0 /\ count # 0
      /\ first >= applicationFirstAddress /\ first + count - 1 <= LastCell
  BY DEF addressAllowedToProgram
<1>2. PICK g : IsCallList(g, first, count, count) /\ ProgramCalls(first, count) = g[count]
  BY ProgramCallsAre
<1>3. /\ g[0] = << >>
      /\ \A n \in 1 .. count : g[n] = << programCall(first + count - n, blockSize(n), count - n, FALSE) >>
                                      \o g[afterBlock(n)]
  BY <1>2 DEF IsCallList
<1> DEFINE Good(n) == (n = 0 \/ (first + count - n) % PageCells = 0)
                         => Takes(g[n], BlockCalls(first), ToTheEnd(first, count, n))
           Z == {m \in Nat : \A n \in 0 .. count : n <= m => Good(n)}
<1>4. Good(0)
  BY <1>3, NoCalls DEF ToTheEnd
<1>5. 0 \in Z
  <2> HIDE DEF Good
  <2> QED  BY <1>4
<1>6. \A m \in Z : m + 1 \in Z
  <2> SUFFICES ASSUME NEW m \in Nat, \A n \in 0 .. count : n <= m => Good(n),
                      m + 1 \in 0 .. count
               PROVE  Good(m + 1)
    <3> HIDE DEF Good
    <3> QED  OBVIOUS
  <2> SUFFICES ASSUME (first + count - (m + 1)) % PageCells = 0
               PROVE  Takes(g[m + 1], BlockCalls(first), ToTheEnd(first, count, m + 1))
    OBVIOUS
  <2> DEFINE a == afterBlock(m + 1)
  <2>1. a \in 0 .. m /\ m + 1 \in 1 .. count
    BY BlockSize
  <2>2. a # 0 => (first + count - a) % PageCells = 0
    BY <1>1, <2>1, NextBlock
  <2>3. Takes(g[a], BlockCalls(first), ToTheEnd(first, count, a))
    BY <2>1, <2>2
  <2>4. Takes(<< programCall(first + count - (m + 1), blockSize(m + 1), count - (m + 1), FALSE) >> \o g[a],
              BlockCalls(first), ToTheEnd(first, count, m + 1))
    BY <1>1, <2>1, <2>3, ProgramOneBlock
  <2> QED  BY <1>3, <2>1, <2>4
<1>7. Z \in SUBSET Nat
  OBVIOUS
<1>8. Z = Nat
  <2> HIDE DEF Z
  <2> QED  BY <1>5, <1>6, <1>7, SetInduction
<1>9. Good(count)
  <2> HIDE DEF Good
  <2>1. count \in Z /\ count \in 0 .. count
    BY <1>8
  <2> QED  BY <2>1
<1>10. first + count - count = first
  OBVIOUS
<1> QED  BY <1>1, <1>2, <1>9, <1>10 DEF ToTheEnd

-----------------------------------------------------------------------------
(* Erasing takes the pages of the range *)

AllowedCalls == {call \in SafeCalls : call.allowed}

LEMMA NoPages ==
    ASSUME NEW a \in Int, NEW b \in Int, a > b
    PROVE  CellsOf(a, b) = {}
<1>1. \A c \in Addresses : PageOf(c) \in Int
  BY PagesAreNumbers DEF Addresses
<1> QED  BY <1>1 DEF CellsOf

LEMMA MorePages ==
    ASSUME NEW a \in Int, NEW b \in Int, NEW c \in Int, a <= b, b <= c + 1
    PROVE  /\ CellsOf(a, b - 1) \cup CellsOf(b, c) = CellsOf(a, c)
           /\ CellsOf(a, b - 1) \cap CellsOf(b, c) = {}
<1>1. \A cell \in Addresses : PageOf(cell) \in Int
  BY PagesAreNumbers DEF Addresses
<1> QED  BY <1>1 DEF CellsOf

LEMMA ErasePages ==
    ASSUME NEW a \in Nat, NEW b \in Nat, a <= b, b < NumPages, PageOf(BootCells - 1) < a
    PROVE  Takes(<< erasePageRange(a, b) >>, AllowedCalls, CellsOf(a, b))
<1> DEFINE call == erasePageRange(a, b)
<1>1. NumPages \in Nat /\ PageOf(LastCell) = NumPages - 1 /\ BootCells \in Nat \ {0}
  BY PagesInFlash, BootNumbers
<1>2. PageOf(BootCells - 1) \in Int
  BY <1>1, PagesAreNumbers
<1>3. call.allowed
  <2>1. pageAllowedToErase(a) /\ pageAllowedToErase(b)
    BY <1>1, <1>2 DEF pageAllowedToErase
  <2> QED  BY <2>1 DEF erasePageRange
<1>4. CallCells(call) = CellsOf(a, b)
  BY <1>1, PagesAreCells DEF erasePageRange, CallCells
<1>5. call \in AllowedCalls
  BY <1>3, EraseCallsAreSafe DEF AllowedCalls
<1> QED  BY <1>4, <1>5, OneCall

\* Sectors are SectorPages pages each.
LEMMA PagesOfSector ==
    ASSUME NEW s \in Int
    PROVE  /\ s * SectorCells = (s * SectorPages) * PageCells
           /\ s * SectorPages \in Int
           /\ \A c \in Int : SectorOf(c) >= s <=> PageOf(c) >= s * SectorPages
<1>1. /\ PageCells \in Nat \ {0} /\ SectorPages \in Nat \ {0} /\ SectorCells \in Nat \ {0}
      /\ SectorCells = SectorPages * PageCells
  BY BootNumbers DEF SectorCells
<1>2. s * SectorPages \in Int
  BY <1>1
<1>3. s * SectorCells = (s * SectorPages) * PageCells
  BY <1>1
<1>4. ASSUME NEW c \in Int PROVE SectorOf(c) >= s <=> PageOf(c) >= s * SectorPages
  <2>1. c \div SectorCells >= s <=> c >= s * SectorCells
    BY <1>1, AtLeast
  <2> DEFINE p == s * SectorPages
  <2>2. c \div PageCells >= p <=> c >= p * PageCells
    <3> HIDE DEF p
    <3>1. p \in Int
      BY <1>2 DEF p
    <3> QED  BY <1>1, <3>1, AtLeast
  <2> QED  BY <1>3, <2>1, <2>2 DEF PageOf, SectorOf
<1> QED  BY <1>2, <1>3, <1>4

LEMMA EraseSectors ==
    ASSUME NEW a \in Nat, NEW b \in Nat, a <= b, (b + 1) * SectorPages <= NumPages,
           PageOf(BootCells - 1) < a * SectorPages
    PROVE  Takes(<< eraseSectorRange(a, b) >>, AllowedCalls,
                 CellsOf(a * SectorPages, (b + 1) * SectorPages - 1))
<1> DEFINE call == eraseSectorRange(a, b)
           x == a * SectorPages
           y == (b + 1) * SectorPages
<1>1. /\ NumPages \in Nat /\ PageOf(LastCell) = NumPages - 1 /\ BootCells \in Nat \ {0}
      /\ LastCell \in Nat /\ SectorPages \in Nat \ {0} /\ SectorCells \in Nat \ {0}
  BY PagesInFlash, BootNumbers
<1>2. x \in Nat /\ y \in Nat /\ y - 1 + 1 = y
  BY <1>1
<1>3. a * SectorCells = x * PageCells /\ (b + 1) * SectorCells = y * PageCells
  BY PagesOfSector
<1>4. CallCells(call) = CellsOf(x, y - 1)
  <2>1. call.first = x * PageCells /\ call.last = y * PageCells - 1
    BY <1>3 DEF eraseSectorRange
  <2> HIDE DEF x, y
  <2>2. y - 1 \in Int /\ y - 1 < NumPages
    BY <1>1, <1>2 DEF y
  <2> QED  BY <1>2, <2>1, <2>2, PagesAreCells DEF CallCells
<1>5. BootCells - 1 \in Int /\ SectorOf(BootCells - 1) \in Int /\ SectorOf(LastCell) \in Int
      /\ PageOf(BootCells - 1) \in Int
  BY <1>1, PagesAreNumbers
<1>6. SectorOf(BootCells - 1) < a
  <2>1. ~(PageOf(BootCells - 1) >= x)
    <3> HIDE DEF x
    <3> QED  BY <1>2, <1>5 DEF x
  <2>2. ~(SectorOf(BootCells - 1) >= a)
    BY <1>5, <2>1, PagesOfSector
  <2> QED  BY <1>5, <2>2
<1>7. b <= SectorOf(LastCell)
  <2>1. b * SectorPages <= NumPages - 1
    <3>1. (b + 1) * SectorPages = b * SectorPages + SectorPages /\ b * SectorPages \in Int
      BY <1>1
    <3> DEFINE z == b * SectorPages
    <3> HIDE DEF z
    <3>2. z + SectorPages <= NumPages /\ z \in Int
      BY <3>1 DEF z
    <3>3. z <= NumPages - 1
      BY <1>1, <3>2
    <3> QED  BY <3>3 DEF z
  <2>2. b * SectorPages \in Int
    BY <1>1
  <2>3. PageOf(LastCell) >= b * SectorPages
    BY <1>1, <2>1, <2>2
  <2>4. SectorOf(LastCell) >= b
    BY <1>1, <2>3, PagesOfSector
  <2> QED  BY <1>5, <2>4
<1>8. call.allowed
  <2>1. sectorAllowedToErase(a) /\ sectorAllowedToErase(b)
    BY <1>5, <1>6, <1>7 DEF sectorAllowedToErase
  <2> QED  BY <2>1 DEF eraseSectorRange
<1>9. call \in AllowedCalls
  BY <1>8, EraseCallsAreSafe DEF AllowedCalls
<1> QED  BY <1>4, <1>9, OneCall

LEMMA EraseTakesRange ==
    ASSUME NEW first \in Nat, NEW count \in Nat,
           addressAllowedToProgram(first, count, FALSE)
    PROVE  Takes(eraseAddressRange(first, first + count - 1), AllowedCalls,
                 CellsOf(PageOf(first), PageOf(first + count - 1)))
<1> DEFINE last == first + count - 1
           s == PageOf(first)
           e == PageOf(last)
           aligned == first % SectorCells = 0
           startSector == IF aligned THEN SectorOf(first) ELSE SectorOf(first) + 1
           tail == SectorOf(last) * SectorPages
           lastPageInSector == e - tail + 1 = SectorPages
           endSector == IF lastPageInSector THEN SectorOf(last) ELSE SectorOf(last) - 1
           x == startSector * SectorPages
           y == IF lastPageInSector THEN e + 1 ELSE tail
           A == IF aligned THEN << >> ELSE << erasePageRange(s, x - 1) >>
           B == IF lastPageInSector THEN << >> ELSE << erasePageRange(tail, e) >>
           C == IF startSector <= endSector
                  THEN << eraseSectorRange(startSector, endSector) >> ELSE << >>
           D == << erasePageRange(s, e) >>
<1>1. eraseAddressRange(first, last) = IF e - s + 1 < SectorPages THEN D ELSE A \o B \o C
  BY DEF eraseAddressRange
<1>2. /\ PageCells \in Nat \ {0} /\ SectorPages \in Nat \ {0} /\ SectorCells \in Nat \ {0}
      /\ BootCells \in Nat \ {0} /\ LastCell \in Nat /\ NumPages \in Nat \ {0}
      /\ PageOf(LastCell) = NumPages - 1
  BY BootNumbers, PagesInFlash
<1>3. /\ first % PageCells = 0 /\ first <= last /\ last \in Nat /\ last <= LastCell
      /\ first >= BootCells
  <2>1. /\ first % PageCells = 0 /\ count # 0
        /\ first >= applicationFirstAddress /\ first + count - 1 <= LastCell
    BY DEF addressAllowedToProgram
  <2> QED  BY <1>2, <2>1, PlacesInFlash
<1>4. s \in Nat /\ first = s * PageCells
  BY <1>3, AlignedCell
<1> HIDE DEF last
<1>5. e \in Int /\ s <= e /\ e <= NumPages - 1
  <2>1. e \in Int /\ NumPages \in Int
    BY <1>2, <1>3, PagesAreNumbers
  <2>2. last \div PageCells >= s <=> last >= s * PageCells
    BY <1>2, <1>3, <1>4, AtLeast
  <2>3. last \div PageCells >= NumPages <=> last >= NumPages * PageCells
    BY <1>2, <1>3, <2>1, AtLeast
  <2>4. LastCell + 1 = NumPages * PageCells
    BY PagesInFlash
  <2>5. ~(last >= NumPages * PageCells)
    BY <1>2, <1>3, <2>4
  <2>6. last >= s * PageCells
    BY <1>3, <1>4
  <2> HIDE DEF s
  <2> QED  BY <1>2, <1>4, <2>1, <2>2, <2>3, <2>5, <2>6 DEF PageOf
<1>6. PageOf(BootCells - 1) \in Int /\ PageOf(BootCells - 1) < s
  <2>1. s * PageCells >= BootCells
    BY <1>3, <1>4
  <2>2. (BootCells - 1) \div PageCells < s
    BY <1>2, <1>4, <2>1, BehindBootloader
  <2>3. BootCells - 1 \in Int
    BY <1>2
  <2> QED  BY <2>2, <2>3, PagesAreNumbers DEF PageOf
<1>7. SectorOf(first) \in Int /\ SectorOf(last) \in Int /\ first \in Int /\ last \in Int
  BY <1>3, PagesAreNumbers
<1> HIDE DEF s, e
<1>8. tail \in Int /\ tail <= e /\ e < tail + SectorPages
  <2>1. tail \in Int /\ (e >= tail <=> SectorOf(last) >= SectorOf(last))
    BY <1>7, PagesOfSector DEF e
  <2>2. SectorOf(last) + 1 \in Int
    BY <1>7
  <2>3. ~(SectorOf(last) >= SectorOf(last) + 1)
    BY <1>7
  <2>4. SectorOf(last) + 1 >= SectorOf(last) /\ SectorOf(last) >= SectorOf(last)
    BY <1>7
  <2>5. (SectorOf(last) + 1) * SectorPages = tail + SectorPages
    BY <1>2, <1>7
  <2>6. ~(e >= tail + SectorPages)
    BY <1>7, <2>2, <2>3, <2>5, PagesOfSector DEF e
  <2> HIDE DEF tail
  <2> QED  BY <1>2, <1>5, <2>1, <2>4, <2>6
<1>9. /\ startSector \in Int /\ x \in Int
      /\ aligned => x = s
      /\ ~aligned => s < x
      /\ x <= s + SectorPages - 1
  <2> DEFINE f == SectorOf(first) * SectorPages
  <2>1. f \in Int /\ s >= f
    <3>1. f \in Int /\ (s >= f <=> SectorOf(first) >= SectorOf(first))
      BY <1>7, PagesOfSector DEF s
    <3>2. SectorOf(first) >= SectorOf(first)
      BY <1>7
    <3> QED  BY <3>1, <3>2
  <2>2. (SectorOf(first) + 1) * SectorPages = f + SectorPages
    BY <1>2, <1>7
  <2>3. ~(s >= f + SectorPages)
    <3>1. SectorOf(first) + 1 \in Int /\ ~(SectorOf(first) >= SectorOf(first) + 1)
      BY <1>7
    <3> QED  BY <1>7, <2>2, <3>1, PagesOfSector DEF s
  <2>4. first = SectorCells * SectorOf(first) + (first % SectorCells)
        /\ first % SectorCells \in 0 .. SectorCells - 1
    BY <1>2, <1>7, Quotient DEF SectorOf
  <2>5. SectorOf(first) * SectorCells = f * PageCells
    BY <1>7, PagesOfSector
  <2>6. SectorCells * SectorOf(first) = SectorOf(first) * SectorCells
    BY <1>2, <1>7
  <2>7. first = f * PageCells + (first % SectorCells)
    BY <2>4, <2>5, <2>6
  <2> HIDE DEF f
  <2>8. aligned <=> s = f
    <3>1. f * PageCells \in Int /\ s * PageCells \in Int
      BY <1>2, <1>4, <2>1
    <3> DEFINE a == f * PageCells
               r == first % SectorCells
    <3>2. r \in Int /\ a \in Int /\ first = a + r
      BY <1>2, <2>4, <2>7, <3>1
    <3>3. s = f => first = a
      BY <1>4
    <3>4. s > f => PageCells * f + PageCells <= PageCells * s
      BY <1>2, <1>4, <2>1, TimesStrict
    <3>5. PageCells * f = a /\ PageCells * s = first
      BY <1>2, <1>4, <2>1
    <3> HIDE DEF a, r
    <3>6. s # f => first # a
      BY <1>2, <1>4, <1>7, <2>1, <3>2, <3>4, <3>5
    <3>7. first = a <=> r = 0
      BY <1>7, <3>2
    <3> QED  BY <3>3, <3>6, <3>7 DEF r
  <2>9. CASE aligned
    <3>1. startSector = SectorOf(first) /\ x = f
      BY <2>9 DEF f
    <3> QED  BY <1>2, <1>4, <1>7, <2>1, <2>8, <2>9, <3>1
  <2>10. CASE ~aligned
    <3>1. startSector = SectorOf(first) + 1 /\ x = f + SectorPages
      BY <2>2, <2>10
    <3>2. f < s /\ s < f + SectorPages
      BY <1>2, <1>4, <2>1, <2>3, <2>8, <2>10
    <3> QED  BY <1>2, <1>4, <1>7, <2>1, <2>10, <3>1, <3>2
  <2> QED  BY <2>9, <2>10
<1>10. CASE e - s + 1 < SectorPages
  <2>1. e \in Nat /\ e < NumPages
    BY <1>2, <1>4, <1>5
  <2>2. Takes(D, AllowedCalls, CellsOf(s, e))
    BY <1>4, <1>5, <1>6, <2>1, ErasePages
  <2> HIDE DEF D
  <2> QED  BY <1>1, <1>10, <2>2 DEF last, s, e
<1>11. CASE ~(e - s + 1 < SectorPages)
  <2> HIDE DEF tail, x, startSector, aligned
  <2>1. x <= e
    BY <1>2, <1>4, <1>5, <1>9, <1>11
  <2>2. /\ endSector \in Int /\ (endSector + 1) * SectorPages = y
        /\ y \in Int /\ tail <= y /\ y <= e + 1 /\ endSector <= SectorOf(last)
    <3>1. CASE lastPageInSector
      <4>1. endSector = SectorOf(last) /\ y = e + 1 /\ e + 1 = tail + SectorPages
        BY <1>2, <1>5, <1>8, <3>1
      <4>2. (SectorOf(last) + 1) * SectorPages = tail + SectorPages
        BY <1>2, <1>7 DEF tail
      <4> HIDE DEF endSector, y, tail
      <4>3. (endSector + 1) * SectorPages = tail + SectorPages
        BY <4>1, <4>2
      <4>4. endSector \in Int /\ y \in Int /\ y <= e + 1 /\ endSector <= SectorOf(last)
        BY <1>5, <1>7, <4>1
      <4>5. tail <= y
        BY <1>2, <1>8, <4>1
      <4>6. tail + SectorPages = y
        BY <4>1
      <4> QED  BY <4>3, <4>4, <4>5, <4>6
    <3>2. CASE ~lastPageInSector
      <4>1. endSector = SectorOf(last) - 1 /\ y = tail /\ endSector + 1 = SectorOf(last)
        BY <1>7, <3>2
      <4> QED  BY <1>5, <1>7, <1>8, <4>1 DEF tail
    <3> QED  BY <3>1, <3>2
  <2>3. startSector <= SectorOf(last)
    <3>1. x \in Int /\ (e >= x <=> SectorOf(last) >= startSector)
      BY <1>7, <1>9, PagesOfSector DEF x, e
    <3> QED  BY <1>5, <1>7, <1>9, <2>1, <3>1
  <2>4. x <= tail
    <3>1. SectorPages * startSector <= SectorPages * SectorOf(last)
      BY <1>2, <1>7, <1>9, <2>3, TimesMonotone
    <3> QED  BY <1>2, <1>7, <1>9, <3>1 DEF x, tail
  <2>5. /\ startSector <= endSector => x < y
        /\ startSector > endSector => x = y
    <3> HIDE DEF endSector, y
    <3>1. startSector < endSector + 1 => SectorPages * startSector + SectorPages <= SectorPages * (endSector + 1)
      <4>1. endSector + 1 \in Int
        BY <2>2
      <4> QED  BY <1>2, <1>9, <4>1, TimesStrict
    <3>2. startSector >= endSector + 1 => SectorPages * (endSector + 1) <= SectorPages * startSector
      <4>1. endSector + 1 \in Int
        BY <2>2
      <4> QED  BY <1>2, <1>9, <4>1, TimesMonotone
    <3>3. SectorPages * startSector = x /\ SectorPages * (endSector + 1) = y
      <4>1. SectorPages * (endSector + 1) = (endSector + 1) * SectorPages
        BY <1>2, <2>2
      <4> QED  BY <1>2, <1>9, <2>2, <4>1 DEF x
    <3>4. startSector <= endSector => x + SectorPages <= y
      BY <1>9, <2>2, <3>1, <3>3
    <3>5. startSector > endSector => y <= x
      BY <1>9, <2>2, <3>2, <3>3
    <3>6. x <= y
      BY <1>8, <1>9, <2>2, <2>4
    <3> QED  BY <1>2, <1>9, <2>2, <3>4, <3>5, <3>6
  <2>6. x >= s /\ x \in Nat /\ tail \in Nat /\ e \in Nat /\ y \in Nat /\ x <= y
    BY <1>4, <1>5, <1>8, <1>9, <2>2, <2>4
  <2>7. Takes(A, AllowedCalls, CellsOf(s, x - 1))
    <3>1. CASE aligned
      <4>1. CellsOf(s, x - 1) = {}
        BY <1>4, <1>9, <2>6, <3>1, NoPages
      <4> QED  BY <3>1, <4>1, NoCalls
    <3>2. CASE ~aligned
      <4>1. x - 1 \in Nat /\ s <= x - 1 /\ x - 1 < NumPages
        BY <1>2, <1>4, <1>5, <1>9, <2>1, <2>6, <3>2
      <4> QED  BY <1>4, <1>6, <3>2, <4>1, ErasePages
    <3> QED  BY <3>1, <3>2
  <2>8. Takes(B, AllowedCalls, CellsOf(y, e))
    <3>1. CASE lastPageInSector
      <4>1. y = e + 1
        BY <3>1
      <4> HIDE DEF y
      <4>2. CellsOf(y, e) = {}
        <5>1. y > e
          BY <1>5, <4>1
        <5> QED  BY <1>5, <2>2, <5>1, NoPages
      <4> QED  BY <3>1, <4>2, NoCalls
    <3>2. CASE ~lastPageInSector
      <4>1. y = tail /\ PageOf(BootCells - 1) < tail /\ e < NumPages
        BY <1>2, <1>4, <1>5, <1>6, <1>8, <1>9, <2>4, <2>6, <3>2
      <4> HIDE DEF y
      <4>2. Takes(<< erasePageRange(tail, e) >>, AllowedCalls, CellsOf(tail, e))
        BY <1>8, <2>6, <4>1, ErasePages
      <4> QED  BY <3>2, <4>1, <4>2
    <3> QED  BY <3>1, <3>2
  <2>9. Takes(C, AllowedCalls, CellsOf(x, y - 1))
    <3>1. CASE startSector <= endSector
      <4> HIDE DEF endSector, y
      <4>1. startSector \in Nat /\ endSector \in Nat
        <5>1. startSector < 0 => SectorPages * startSector + SectorPages <= SectorPages * 0
          BY <1>2, <1>9, TimesStrict
        <5>2. SectorPages * startSector = x /\ SectorPages * 0 = 0
          BY <1>2, <1>9 DEF x
        <5>3. ~(startSector < 0)
          BY <1>2, <2>6, <5>1, <5>2
        <5> QED  BY <1>9, <2>2, <3>1, <5>3
      <4>2. y <= NumPages /\ PageOf(BootCells - 1) < x
        BY <1>2, <1>4, <1>5, <1>6, <2>2, <2>6
      <4>3. Takes(<< eraseSectorRange(startSector, endSector) >>, AllowedCalls,
                  CellsOf(startSector * SectorPages, (endSector + 1) * SectorPages - 1))
        BY <2>2, <3>1, <4>1, <4>2, EraseSectors DEF x
      <4> QED  BY <2>2, <3>1, <4>3 DEF x
    <3>2. CASE ~(startSector <= endSector)
      <4> HIDE DEF endSector, y
      <4>1. CellsOf(x, y - 1) = {}
        <5>1. x = y
          BY <1>9, <2>2, <2>5, <3>2
        <5>2. y - 1 \in Int /\ x > y - 1
          BY <2>6, <5>1
        <5> QED  BY <2>6, <5>2, NoPages
      <4> QED  BY <3>2, <4>1, NoCalls
    <3> QED  BY <3>1, <3>2
  <2> HIDE DEF A, B, C, D, y, endSector, lastPageInSector
  <2>10. /\ CellsOf(x, y - 1) \cup CellsOf(y, e) = CellsOf(x, e)
         /\ CellsOf(x, y - 1) \cap CellsOf(y, e) = {}
    BY <1>5, <2>2, <2>6, MorePages
  <2>11. /\ CellsOf(s, x - 1) \cup CellsOf(x, e) = CellsOf(s, e)
         /\ CellsOf(s, x - 1) \cap CellsOf(x, e) = {}
    BY <1>4, <1>5, <2>1, <2>6, MorePages
  <2>12. Takes(A \o B, AllowedCalls, CellsOf(s, x - 1) \cup CellsOf(y, e))
    BY <2>7, <2>8, <2>10, <2>11, JoinCalls
  <2>13. Takes((A \o B) \o C, AllowedCalls, (CellsOf(s, x - 1) \cup CellsOf(y, e)) \cup CellsOf(x, y - 1))
    BY <2>9, <2>10, <2>11, <2>12, JoinCalls
  <2>14. (CellsOf(s, x - 1) \cup CellsOf(y, e)) \cup CellsOf(x, y - 1) = CellsOf(s, e)
    BY <2>10, <2>11
  <2>15. eraseAddressRange(first, last) = (A \o B) \o C
    BY <1>1, <1>11
  <2> QED  BY <2>13, <2>14, <2>15 DEF last, s, e
<1> QED  BY <1>10, <1>11

-----------------------------------------------------------------------------
(* The invariant *)

\* The calls that a command has left are those that leave the bootloader alone,
\* and what the bootloader gets are telegrams.
CallsAreSafe == calls \in Seq(SafeCalls)
RequestIsTelegram == request = << >> \/ \E c \in Telegrams : request = << c >>
FlashHasRoom == applicationFirstAddress <= LastCell

BootInv ==
    /\ CallsAreSafe /\ RequestIsTelegram /\ FlashHasRoom
    /\ BootloaderKept /\ StartsOnlyWhole

LEMMA BootCellsInFlash ==
    ASSUME FlashHasRoom
    PROVE  0 .. BootCells - 1 \subseteq Addresses
BY PlacesInFlash, PagesInFlash, BootNumbers DEF FlashHasRoom, Addresses

LEMMA ImageNumbers ==
    ASSUME NEW name \in DOMAIN Images
    PROVE  /\ Images[name].first \in Nat \ {0} /\ Images[name].length \in Nat \ {0}
           /\ name # "off" /\ name # "bootloader"
BY BootloaderAssumption

LEMMA BootInitInv == BootInit => BootInv
<1> SUFFICES ASSUME BootInit PROVE BootInv
  OBVIOUS
<1>1. PICK name \in DOMAIN Images : HasPlace(name) /\ BootloaderInit(name)
  BY DEF BootInit
<1> DEFINE d == bootDescriptorBlockAddress
           first == Images[name].first
           length == Images[name].length
<1>2. /\ d \in Nat /\ d >= BootCells /\ applicationFirstAddress = d + PageCells
      /\ PageCells \in Nat /\ 2 <= PageCells /\ BootCells \in Nat \ {0} /\ LastCell \in Nat
      /\ first \in Nat /\ length \in Nat \ {0}
  BY PlacesInFlash, BootNumbers, PagesInFlash, ImageNumbers DEF DescLength
<1>3. first >= applicationFirstAddress /\ first <= LastCell /\ first + length - 1 <= LastCell
  BY <1>1, <1>2 DEF HasPlace
<1> HIDE DEF d, first, length
<1>4. FlashHasRoom
  BY <1>2, <1>3 DEF FlashHasRoom
<1>5. flash = [c \in Addresses |->
                 CASE c < BootCells -> BootCell(c + 1)
                   [] c - d \in 0 .. DescLength - 1 -> DescCell(name, c - d + 1)
                   [] c - first \in 0 .. length - 1 -> AppCell(name, c - first + 1)
                   [] OTHER -> Erased]
  BY <1>1 DEF BootloaderInit, d, first, length
<1>6. BootloaderKept
  <2> SUFFICES ASSUME NEW c \in 0 .. BootCells - 1 PROVE flash[c] = BootCell(c + 1)
    BY DEF BootloaderKept
  <2>1. c \in Addresses /\ c < BootCells
    BY <1>2, <1>4, BootCellsInFlash
  <2>2. ~(c - d \in 0 .. DescLength - 1) /\ ~(c - first \in 0 .. length - 1)
    BY <1>2, <1>3
  <2> QED  BY <1>5, <2>1, <2>2
<1>7. mode = name /\ calls = << >> /\ request = << >>
  BY <1>1 DEF BootloaderInit
<1>8. FlashContent(first, length) = Code(name)
  <2>1. ASSUME NEW i \in 1 .. length PROVE flash[first + i - 1] = AppCell(name, i)
    <3> DEFINE c == first + i - 1
    <3>1. c \in Addresses /\ ~(c < BootCells) /\ ~(c - d \in 0 .. 1) /\ c - first = i - 1
      BY <1>2, <1>3 DEF Addresses
    <3>2. c - first \in 0 .. length - 1 /\ c - first + 1 = i
      BY <1>2, <3>1
    <3> HIDE DEF c
    <3>3. DescLength - 1 = 1
      BY DEF DescLength
    <3>4. flash[c] = AppCell(name, c - first + 1)
      BY <1>5, <3>1, <3>2, <3>3
    <3> QED  BY <3>2, <3>4 DEF c
  <2> QED  BY <2>1 DEF FlashContent, Code, length
<1>9. StartsOnlyWhole
  BY <1>7, <1>8 DEF StartsOnlyWhole, first, length
<1>10. CallsAreSafe /\ RequestIsTelegram
  BY <1>7 DEF CallsAreSafe, RequestIsTelegram
<1> QED  BY <1>4, <1>6, <1>9, <1>10 DEF BootInv

\* Nothing else is started: a start chooses an application that is whole.
LEMMA StartsWhole ==
    ASSUME Startup, UNCHANGED flash
    PROVE  StartsOnlyWhole'
<1> DEFINE d == bootDescriptorBlockAddress
<1> SUFFICES ASSUME mode' \in DOMAIN Images
             PROVE  FlashContent(Images[mode'].first, Images[mode'].length) = Code(mode')
  BY DEF StartsOnlyWhole, FlashContent
<1>1. checkApplication(FlashContent(d, DescLength)) /\ mode' = flash[d][2]
  BY BootloaderAssumption DEF Startup
<1>2. PICK name \in DOMAIN Images :
        /\ FlashContent(d, DescLength) = Descriptor(name)
        /\ FlashContent(Images[name].first, Images[name].length) = Code(name)
  BY <1>1 DEF checkApplication
<1>3. d \in Nat /\ d + 1 - 1 = d
  BY PlacesInFlash
<1>4. FlashContent(d, DescLength)[1] = flash[d] /\ Descriptor(name)[1] = DescCell(name, 1)
  BY <1>3 DEF FlashContent, Descriptor, DescLength
<1>5. flash[d] = << "desc", name, 1 >>
  BY <1>2, <1>4 DEF DescCell
<1> QED  BY <1>1, <1>2, <1>5

\* A telegram that is handled.
LEMMA TelegramIs ==
    ASSUME RequestIsTelegram, request # << >>
    PROVE  /\ request[1] \in Telegrams
           /\ request[1].cmd \in {"ERASE_ADDRESSRANGE", "PROGRAM"}
                => request[1].first \in Nat /\ request[1].count \in Nat
<1>1. PICK c \in Telegrams : request = << c >>
  BY DEF RequestIsTelegram
<1>2. c.cmd \in {"ERASE_ADDRESSRANGE", "PROGRAM"} => c.first \in Nat /\ c.count \in Nat
  BY DEF Telegrams
<1> QED  BY <1>1, <1>2

LEMMA HandleSafe ==
    ASSUME RequestIsTelegram, HandleCommand
    PROVE  /\ CallsAreSafe' /\ request' = << >> /\ UNCHANGED <<flash, mode>> /\ mode = "bootloader"
<1>1. /\ mode = "bootloader" /\ calls = << >> /\ request # << >> /\ request' = << >>
      /\ UNCHANGED mode
  BY DEF HandleCommand, Handle
<1>2. << >> \in Seq(SafeCalls)
  OBVIOUS
<1>3. ASSUME NEW result, Answered(result) PROVE calls' = << >> /\ UNCHANGED flash
  BY <1>1, <1>3 DEF Answered, workVars
<1>4. ASSUME NEW list, list \in Seq(SafeCalls), Starts(list) PROVE CallsAreSafe' /\ UNCHANGED flash
  BY <1>4 DEF Starts, CallsAreSafe
<1>5. CASE Handle("UNLOCK_DEVICE", updUnlockDevice)
  BY <1>1, <1>2, <1>3, <1>5 DEF Handle, updUnlockDevice, CallsAreSafe
<1>6. CASE Handle("SEND_DATA", updSendData)
  BY <1>1, <1>2, <1>3, <1>6 DEF Handle, updSendData, CallsAreSafe
<1>7. CASE Handle("PROGRAM", updProgram)
  <2>1. request[1].cmd = "PROGRAM" /\ request[1].first \in Nat /\ request[1].count \in Nat
    BY <1>1, <1>7, TelegramIs DEF Handle
  <2>2. \/ \E result : Answered(result)
        \/ /\ addressAllowedToProgram(request[1].first, request[1].count, FALSE)
           /\ Starts(ProgramCalls(request[1].first, request[1].count))
    BY <1>7 DEF Handle, updProgram
  <2>3. CASE \E result : Answered(result)
    BY <1>1, <1>2, <1>3, <2>3 DEF CallsAreSafe
  <2>4. CASE /\ addressAllowedToProgram(request[1].first, request[1].count, FALSE)
             /\ Starts(ProgramCalls(request[1].first, request[1].count))
    <3> DEFINE list == ProgramCalls(request[1].first, request[1].count)
    <3>1. list \in Seq(BlockCalls(request[1].first))
      BY <2>1, <2>4, ProgramTakesBlock DEF Takes
    <3>2. BlockCalls(request[1].first) \subseteq SafeCalls
      BY DEF BlockCalls
    <3> HIDE DEF list
    <3>3. list \in Seq(SafeCalls)
      BY <3>1, <3>2
    <3> QED  BY <1>1, <1>4, <2>4, <3>3 DEF list
  <2> QED  BY <2>2, <2>3, <2>4, <1>1
<1>8. CASE Handle("ERASE_ADDRESSRANGE", updEraseAddressRange)
  <2>1. request[1].first \in Nat /\ request[1].count \in Nat
    BY <1>1, <1>8, TelegramIs DEF Handle
  <2> DEFINE first == request[1].first
             last == request[1].first + request[1].count - 1
             list == eraseAddressRange(first, last)
  <2>2. (\E result : Answered(result)) \/ Starts(list)
    BY <1>8 DEF Handle, updEraseAddressRange
  <2>3. first \in Int /\ last \in Int
    BY <2>1
  <2> HIDE DEF first, last
  <2>4. list \in Seq(SafeCalls)
    BY <2>3, EraseListIsSafe
  <2> HIDE DEF list
  <2> QED  BY <1>1, <1>2, <1>3, <1>4, <2>2, <2>4 DEF CallsAreSafe
<1>9. CASE Handle("ERASE_COMPLETE_FLASH", updEraseFullFlash)
  <2>1. (\E result : Answered(result)) \/ Starts(eraseFullFlash)
    BY <1>9 DEF Handle, updEraseFullFlash
  <2>2. (PageOf(BootCells - 1) + 1) * PageCells \in Int /\ LastCell \in Int
    <3>1. BootCells - 1 \in Int
      BY BootNumbers
    <3> QED  BY <3>1, PagesAreNumbers, PagesInFlash, BootNumbers
  <2>3. eraseFullFlash \in Seq(SafeCalls)
    BY <2>2, EraseListIsSafe DEF eraseFullFlash
  <2> QED  BY <1>1, <1>2, <1>3, <1>4, <2>1, <2>3 DEF CallsAreSafe
<1>10. CASE Handle("UPDATE_BOOT_DESC", updUpdateBootDescriptorBlock)
  <2> DEFINE place == PageOf(bootDescriptorBlockAddress)
             erase == erasePageRange(place, place)
             program == programCall(bootDescriptorBlockAddress, PageCells, 0, TRUE)
             list == << erase, program >>
  <2>1. (\E result : Answered(result)) \/ Starts(list)
    BY <1>10 DEF Handle, updUpdateBootDescriptorBlock
  <2>2. bootDescriptorBlockAddress \in Int /\ PageCells \in Int
    BY PlacesInFlash, BootNumbers
  <2>3. erase \in SafeCalls
    BY <2>2, PagesAreNumbers, EraseCallsAreSafe
  <2>4. program \in SafeCalls
    <3>1. 0 \in Int /\ TRUE \in BOOLEAN
      OBVIOUS
    <3> QED  BY <2>2, <3>1, ProgramCallIsSafe
  <2> HIDE DEF erase, program
  <2>5. list \in Seq(SafeCalls)
    BY <2>3, <2>4
  <2> HIDE DEF list
  <2> QED  BY <1>1, <1>2, <1>3, <1>4, <2>1, <2>5 DEF CallsAreSafe
<1> QED  BY <1>1, <1>5, <1>6, <1>7, <1>8, <1>9, <1>10 DEF HandleCommand

\* A call that is allowed changes cells behind the bootloader only.
LEMMA CallKeepsBootloader ==
    ASSUME CallsAreSafe, calls # << >>
    PROVE  /\ Head(calls) = calls[1] /\ Tail(calls) \in Seq(SafeCalls)
           /\ calls[1].allowed => \A c \in 0 .. BootCells - 1 : c \notin CallCells(calls[1])
<1>1. calls[1] \in SafeCalls /\ Head(calls) = calls[1] /\ Tail(calls) \in Seq(SafeCalls)
  BY DEF CallsAreSafe
<1>2. calls[1].allowed => calls[1].first >= BootCells /\ calls[1].first \in Int
  BY <1>1 DEF SafeCalls, Calls
<1> QED  BY <1>1, <1>2, BootNumbers DEF CallCells

LEMMA FlashCallInv ==
    ASSUME BootInv, FlashCall
    PROVE  BootInv'
<1> DEFINE call == Head(calls)
<1>1. /\ mode = "bootloader" /\ calls # << >> /\ UNCHANGED <<mode, request>>
      /\ Head(calls) = calls[1] /\ Tail(calls) \in Seq(SafeCalls)
  BY CallKeepsBootloader DEF FlashCall, BootInv
<1>2. CallsAreSafe'
  <2>1. calls' \in {<< >>, Tail(calls)}
    BY DEF FlashCall, Refuse
  <2>2. << >> \in Seq(SafeCalls)
    OBVIOUS
  <2>3. calls' \in Seq(SafeCalls)
    BY <1>1, <2>1, <2>2
  <2> QED  BY <2>3 DEF CallsAreSafe
<1>3. \A c \in Addresses : (c \notin CallCells(call) \/ ~call.allowed) => flash'[c] = flash[c]
  <2>1. CASE ~call.allowed
    BY <2>1 DEF FlashCall
  <2>2. CASE call.allowed
    <3> DEFINE erased == [c \in Addresses |-> IF c \in CallCells(call) THEN Erased ELSE flash[c]]
               written == [c \in Addresses |-> IF c \in CallCells(call) THEN Programmed(call)[c] ELSE flash[c]]
    <3>1. flash' = erased \/ flash' = written
      BY <2>2 DEF FlashCall
    <3> QED  BY <2>2, <3>1
  <2> QED  BY <2>1, <2>2
<1>4. BootloaderKept'
  <2>1. \A c \in 0 .. BootCells - 1 : c \in Addresses /\ (c \notin CallCells(call) \/ ~call.allowed)
    BY <1>1, CallKeepsBootloader, BootCellsInFlash DEF BootInv
  <2> QED  BY <1>3, <2>1 DEF BootInv, BootloaderKept
<1>5. StartsOnlyWhole'
  BY <1>1, BootloaderAssumption DEF StartsOnlyWhole
<1> QED  BY <1>1, <1>2, <1>4, <1>5 DEF BootInv, RequestIsTelegram, FlashHasRoom

LEMMA PowerFailInv ==
    ASSUME BootInv, PowerFail
    PROVE  BootInv'
<1>1. calls' = << >> /\ mode' = "off" /\ UNCHANGED request
  BY DEF PowerFail, ramLost
<1>2. \A c \in 0 .. BootCells - 1 : flash'[c] = flash[c]
  <2>1. CASE calls = << >> \/ ~calls[1].allowed
    BY <2>1 DEF PowerFail
  <2>2. CASE ~(calls = << >> \/ ~calls[1].allowed)
    <3>1. \A c \in 0 .. BootCells - 1 : c \in Addresses /\ c \notin CallCells(calls[1])
      BY <2>2, CallKeepsBootloader, BootCellsInFlash DEF BootInv
    <3>2. PICK upto \in calls[1].first .. calls[1].last + 1 :
            flash' = [c \in Addresses |->
                        IF c \notin CallCells(calls[1]) \/ c > upto THEN flash[c]
                          ELSE IF c = upto THEN Garbage
                          ELSE IF calls[1].op = "erase" THEN Erased
                          ELSE Programmed(calls[1])[c]]
      BY <2>2 DEF PowerFail
    <3> QED  BY <3>1, <3>2
  <2> QED  BY <2>1, <2>2
<1>3. CallsAreSafe'
  BY <1>1 DEF CallsAreSafe
<1>4. StartsOnlyWhole'
  BY <1>1, BootloaderAssumption DEF StartsOnlyWhole
<1> QED  BY <1>1, <1>2, <1>3, <1>4 DEF BootInv, RequestIsTelegram, FlashHasRoom, BootloaderKept

LEMMA BootNextInv ==
    ASSUME BootInv, [BootNext]_bootVars
    PROVE  BootInv'
<1>1. ASSUME UNCHANGED <<flash, mode>>, CallsAreSafe', RequestIsTelegram' PROVE BootInv'
  BY <1>1 DEF BootInv, FlashHasRoom, BootloaderKept, StartsOnlyWhole, FlashContent
<1>2. ASSUME UNCHANGED flash, CallsAreSafe', RequestIsTelegram', StartsOnlyWhole' PROVE BootInv'
  BY <1>2 DEF BootInv, FlashHasRoom, BootloaderKept
<1>3. CASE UNCHANGED bootVars
  BY <1>1, <1>3 DEF bootVars, workVars, busVars, BootInv, CallsAreSafe, RequestIsTelegram
<1>4. CASE HandleCommand
  <2>1. CallsAreSafe' /\ request' = << >> /\ UNCHANGED <<flash, mode>>
    BY <1>4, HandleSafe DEF BootInv
  <2> QED  BY <1>1, <2>1 DEF RequestIsTelegram
<1>5. CASE BasicRestart
  <2>1. Startup /\ UNCHANGED flash /\ calls' = << >> /\ request' = << >>
    BY <1>5 DEF BasicRestart, ramLost
  <2> QED  BY <1>2, <2>1, StartsWhole DEF CallsAreSafe, RequestIsTelegram
<1>6. CASE MasterReset
  <2>1. mode' = "bootloader" /\ UNCHANGED <<flash, calls>> /\ request' = << >>
    BY <1>6 DEF MasterReset, workVars
  <2>2. StartsOnlyWhole'
    BY <2>1, BootloaderAssumption DEF StartsOnlyWhole
  <2> QED  BY <1>2, <2>1, <2>2 DEF BootInv, CallsAreSafe, RequestIsTelegram
<1>7. CASE Unheard
  BY <1>1, <1>7 DEF Unheard, workVars, BootInv, CallsAreSafe, RequestIsTelegram
<1>8. CASE PowerUp
  <2>1. Startup /\ UNCHANGED <<flash, calls, request>>
    BY <1>8 DEF PowerUp, workVars, busVars
  <2> QED  BY <1>2, <2>1, StartsWhole DEF BootInv, CallsAreSafe, RequestIsTelegram
<1>9. CASE AnyPartner
  <2>1. UNCHANGED <<flash, mode, calls>> /\ request' \in {request, << >>} \cup {<< c >> : c \in Telegrams}
    BY <1>9 DEF AnyPartner, workVars
  <2> QED  BY <1>1, <2>1 DEF BootInv, CallsAreSafe, RequestIsTelegram
<1> QED  BY <1>3, <1>4, <1>5, <1>6, <1>7, <1>8, <1>9, FlashCallInv, PowerFailInv
         DEF BootNext, BootloaderNext

LEMMA BootKeepsInv == BootSpec => []BootInv
<1>1. BootInit => BootInv
  BY BootInitInv
<1>2. BootInv /\ [BootNext]_bootVars => BootInv'
  BY BootNextInv
<1> QED  BY <1>1, <1>2, PTL DEF BootSpec

\* Whatever the bootloader is sent, and whenever the power fails, it leaves its
\* own flash as it is (flash.cpp, update.cpp).
THEOREM BootloaderStays == BootSpec => []BootloaderKept
<1>1. BootInv => BootloaderKept
  BY DEF BootInv
<1> QED  BY <1>1, BootKeepsInv, PTL

\* The bootloader starts an application only if all of it is in the flash
\* (boot_descriptor_block.cpp, bootloader.cpp).
THEOREM OnlyWholeStarts == BootSpec => []StartsOnlyWhole
<1>1. BootInv => StartsOnlyWhole
  BY DEF BootInv
<1> QED  BY <1>1, BootKeepsInv, PTL

\* The calls that a command to erase or to program is cut into are allowed, and
\* together take the pages of its range, each once, and no others.
THEOREM CommandsTakeTheirRange == BootSpec => CommandsKeepToRange
<1>1. ASSUME BootInv, [BootNext]_bootVars
      PROVE  [ErasesTheRange /\ ProgramsTheBlock]_bootVars
  <2> SUFFICES ASSUME BootNext, calls = << >>, calls' # << >>
               PROVE  ErasesTheRange /\ ProgramsTheBlock
    BY <1>1 DEF ErasesTheRange, ProgramsTheBlock
  <2>1. HandleCommand
    BY DEF BootNext, BootloaderNext, FlashCall, BasicRestart, MasterReset, Unheard, PowerFail, PowerUp,
       AnyPartner, ramLost, workVars
  <2>2. request # << >> /\ RequestIsTelegram
    BY <1>1, <2>1 DEF HandleCommand, Handle, BootInv
  <2>3. ASSUME NEW result, Answered(result) PROVE FALSE
    BY <2>3 DEF Answered, workVars
  <2> DEFINE c == request[1]
             S == CellsOf(PageOf(c.first), PageOf(c.first + c.count - 1))
  <2>4. CASE Handle("PROGRAM", updProgram)
    <3>1. c.cmd = "PROGRAM" /\ c.first \in Nat /\ c.count \in Nat
      BY <2>2, <2>4, TelegramIs DEF Handle
    <3>2. /\ addressAllowedToProgram(c.first, c.count, FALSE)
          /\ calls' = ProgramCalls(c.first, c.count) /\ command' = c
      BY <2>3, <2>4 DEF Handle, updProgram, Starts
    <3>3. Takes(calls', BlockCalls(c.first), S)
      BY <3>1, <3>2, ProgramTakesBlock
    <3>4. \A i \in DOMAIN calls' : calls'[i] \in BlockCalls(c.first)
      BY <3>3 DEF Takes
    <3>5. ErasesTheRange
      BY <3>1, <3>2 DEF ErasesTheRange
    <3>6. UNION {CallCells(calls'[i]) : i \in DOMAIN calls'} = S
      BY <3>3 DEF Takes
    <3> QED  BY <3>2, <3>4, <3>5, <3>6 DEF ProgramsTheBlock, BlockCalls, CellsOf
  <2>5. CASE Handle("ERASE_ADDRESSRANGE", updEraseAddressRange)
    <3>1. c.cmd = "ERASE_ADDRESSRANGE" /\ c.first \in Nat /\ c.count \in Nat
      BY <2>2, <2>5, TelegramIs DEF Handle
    <3>2. /\ addressAllowedToProgram(c.first, c.count, FALSE)
          /\ calls' = eraseAddressRange(c.first, c.first + c.count - 1) /\ command' = c
      BY <2>3, <2>5 DEF Handle, updEraseAddressRange, Starts
    <3>3. Takes(calls', AllowedCalls, S)
      BY <3>1, <3>2, EraseTakesRange
    <3>4. \A i \in DOMAIN calls' : calls'[i].allowed
      BY <3>3 DEF Takes, AllowedCalls
    <3>5. ProgramsTheBlock
      BY <3>1, <3>2 DEF ProgramsTheBlock
    <3> QED  BY <3>2, <3>3, <3>4, <3>5 DEF Takes, ErasesTheRange, CellsOf
  <2>6. CASE Handle("ERASE_COMPLETE_FLASH", updEraseFullFlash)
    <3>1. c.cmd = "ERASE_COMPLETE_FLASH" /\ command' = c
      BY <2>3, <2>6 DEF Handle, updEraseFullFlash, Starts
    <3> QED  BY <3>1 DEF ErasesTheRange, ProgramsTheBlock
  <2>7. CASE Handle("UPDATE_BOOT_DESC", updUpdateBootDescriptorBlock)
    <3>1. c.cmd = "UPDATE_BOOT_DESC" /\ command' = c
      BY <2>3, <2>7 DEF Handle, updUpdateBootDescriptorBlock, Starts
    <3> QED  BY <3>1 DEF ErasesTheRange, ProgramsTheBlock
  <2>8. CASE Handle("UNLOCK_DEVICE", updUnlockDevice) \/ Handle("SEND_DATA", updSendData)
    BY <2>3, <2>8 DEF Handle, updUnlockDevice, updSendData
  <2> QED  BY <2>1, <2>4, <2>5, <2>6, <2>7, <2>8 DEF HandleCommand
<1> QED  BY <1>1, BootKeepsInv, PTL DEF BootSpec, CommandsKeepToRange

-----------------------------------------------------------------------------
(* The commands of the updater *)

\* Where the new application begins, and the block that is programmed next.
NewFirst == Images[New].first
BlockFirst == NewFirst + block

\* The commands in their order: which cell is sent, and which block.
StepShape ==
    /\ step \in Steps \cup {"idle", "failed", "done"}
    /\ block \in 0 .. Length
    /\ step \in {"unlock", "erase", "eraseFull"} => block = 0 /\ sentCells = 0
    /\ step = "send" => block < Length /\ sentCells \in 0 .. BlockLength - 1
    /\ step = "program" => block < Length /\ sentCells = 0
    /\ step = "sendDesc" => sentCells \in 0 .. DescLength - 1

LEMMA UpdateNumbers ==
    /\ New \in DOMAIN Images /\ Old \in DOMAIN Images
    /\ Length \in Nat \ {0} /\ NewFirst \in Nat \ {0}
    /\ BlockCells \in Nat \ {0} /\ BlockCells <= BufferCells
    /\ BufferCells \in Nat /\ PageCells \in Nat \ {0}
BY UpdaterAssumption, ImageNumbers, BootNumbers DEF Length, NewFirst

LEMMA CellsAreContents ==
    /\ \A i \in 1 .. Images[New].length : AppCell(New, i) \in Contents
    /\ \A i \in 1 .. DescLength : DescCell(New, i) \in Contents
<1> DEFINE cells(name) == {AppCell(name, i) : i \in 1 .. Images[name].length}
                             \cup {DescCell(name, i) : i \in 1 .. DescLength}
           all == {cells(name) : name \in DOMAIN Images}
<1>1. UNION all \subseteq Contents
  BY DEF Contents
<1>2. cells(New) \in all
  BY UpdateNumbers
<1>3. \A i \in 1 .. Images[New].length : AppCell(New, i) \in cells(New)
  OBVIOUS
<1>4. \A i \in 1 .. DescLength : DescCell(New, i) \in cells(New)
  OBVIOUS
<1> HIDE DEF cells, all
<1>5. cells(New) \subseteq Contents
  BY <1>1, <1>2
<1> QED  BY <1>3, <1>4, <1>5

LEMMA BlockIs ==
    ASSUME block \in 0 .. Length
    PROVE  /\ BlockLength \in Nat /\ block + BlockLength <= Length /\ BlockLength <= BufferCells
           /\ block < Length => BlockLength > 0
           /\ BlockFirst \in Nat \ {0}
           /\ BlockData \in Seq(Contents) /\ Len(BlockData) = BlockLength
           /\ \A i \in 1 .. BlockLength : BlockData[i] = AppCell(New, block + i)
<1>1. BlockLength \in Nat /\ block + BlockLength <= Length /\ BlockLength <= BufferCells
      /\ (block < Length => BlockLength > 0)
  BY UpdateNumbers DEF BlockLength
<1>2. BlockFirst \in Nat \ {0}
  BY UpdateNumbers DEF BlockFirst
<1> DEFINE code == Code(New)
<1>3. code \in Seq(Contents) /\ Len(code) = Length /\ \A i \in 1 .. Length : code[i] = AppCell(New, i)
  <2>1. code = [i \in 1 .. Length |-> AppCell(New, i)]
    BY DEF Code, Length
  <2>2. \A i \in 1 .. Length : AppCell(New, i) \in Contents
    BY CellsAreContents DEF Length
  <2> HIDE DEF code
  <2>3. Length \in Nat
    BY UpdateNumbers
  <2> QED  BY <2>1, <2>2, <2>3
<1> HIDE DEF code
<1>4. BlockData = SubSeq(code, block + 1, block + BlockLength)
  BY DEF BlockData, code
<1>5. /\ block + 1 \in Nat /\ block + BlockLength \in Nat /\ block + 1 >= 1
      /\ block + BlockLength <= Len(code) /\ block \in Nat
  BY <1>1, <1>3, UpdateNumbers
<1>6. /\ BlockData \in Seq(Contents) /\ Len(BlockData) = BlockLength
      /\ \A i \in 1 .. BlockLength : BlockData[i] = code[block + i]
  <2> DEFINE m == block + 1
             n == block + BlockLength
  <2>1. m \in 1 .. Len(code) + 1 /\ n \in m - 1 .. Len(code)
    BY <1>1, <1>3, <1>5
  <2>2. n - m + 1 = BlockLength /\ \A i \in 1 .. BlockLength : m + i - 1 = block + i
    BY <1>1, <1>5
  <2> HIDE DEF m, n
  <2>3. /\ SubSeq(code, m, n) \in Seq(Contents) /\ Len(SubSeq(code, m, n)) = n - m + 1
        /\ \A i \in 1 .. n - m + 1 : SubSeq(code, m, n)[i] = code[m + i - 1]
    BY <1>3, <2>1, SubSeqProperties
  <2> QED  BY <1>4, <2>2, <2>3 DEF m, n
<1>7. \A i \in 1 .. BlockLength : block + i \in 1 .. Length
  BY <1>1, <1>5, UpdateNumbers
<1> QED  BY <1>1, <1>2, <1>3, <1>6, <1>7

LEMMA CommandIs ==
    ASSUME step \in Steps
    PROVE  /\ step = "unlock" => CommandOf = [cmd |-> "UNLOCK_DEVICE"]
           /\ step = "eraseFull" => CommandOf = [cmd |-> "ERASE_COMPLETE_FLASH"]
           /\ step = "erase" => CommandOf = [cmd |-> "ERASE_ADDRESSRANGE", first |-> NewFirst, count |-> Length]
           /\ step = "send" => CommandOf = [cmd |-> "SEND_DATA", data |-> << BlockData[sentCells + 1] >>]
           /\ step = "program"
                => CommandOf = [cmd |-> "PROGRAM", first |-> BlockFirst, count |-> BlockLength,
                                data |-> BlockData]
           /\ step = "sendDesc" => CommandOf = [cmd |-> "SEND_DATA", data |-> << Descriptor(New)[sentCells + 1] >>]
           /\ step = "updateDesc"
                => CommandOf = [cmd |-> "UPDATE_BOOT_DESC", count |-> DescLength, data |-> Descriptor(New)]
BY DEF CommandOf, Steps, NewFirst, BlockFirst

LEMMA DescriptorIs ==
    /\ Descriptor(New) \in Seq(Contents) /\ Len(Descriptor(New)) = DescLength /\ DescLength = 2
    /\ \A i \in 1 .. DescLength : Descriptor(New)[i] = DescCell(New, i)
<1> DEFINE desc == Descriptor(New)
<1>1. desc = [i \in 1 .. DescLength |-> DescCell(New, i)]
  BY DEF Descriptor
<1>2. \A i \in 1 .. DescLength : DescCell(New, i) \in Contents
  BY CellsAreContents
<1>3. DescLength = 2
  BY DEF DescLength
<1> HIDE DEF desc
<1>4. desc \in Seq(Contents) /\ Len(desc) = DescLength /\ \A i \in 1 .. DescLength : desc[i] = DescCell(New, i)
  BY <1>1, <1>2, <1>3
<1> QED  BY <1>3, <1>4 DEF desc

LEMMA CommandIsTelegram ==
    ASSUME StepShape, step \in Steps
    PROVE  CommandOf \in Telegrams
<1>1. block \in 0 .. Length /\ NewFirst \in Nat /\ Length \in Nat
  BY UpdateNumbers DEF StepShape
<1>2. CASE step = "unlock"
  BY <1>2, CommandIs DEF Telegrams
<1>3. CASE step = "eraseFull"
  BY <1>3, CommandIs DEF Telegrams
<1>4. CASE step = "erase"
  BY <1>1, <1>4, CommandIs DEF Telegrams
<1>5. CASE step = "send"
  <2>1. sentCells + 1 \in 1 .. BlockLength
    BY <1>1, <1>5, BlockIs DEF StepShape
  <2>2. BlockData[sentCells + 1] \in Contents
    BY <1>1, <2>1, BlockIs
  <2> HIDE DEF BlockData
  <2> QED  BY <1>5, <2>2, CommandIs DEF Telegrams
<1>6. CASE step = "program"
  <2>1. BlockFirst \in Nat /\ BlockLength \in Nat /\ BlockData \in Seq(Contents)
    BY <1>1, BlockIs
  <2> QED  BY <1>6, <2>1, CommandIs DEF Telegrams
<1>7. CASE step = "sendDesc"
  <2>1. sentCells + 1 \in 1 .. DescLength
    BY <1>7, DescriptorIs DEF StepShape
  <2>2. Descriptor(New)[sentCells + 1] \in Contents
    BY <2>1, DescriptorIs
  <2> QED  BY <1>7, <2>2, CommandIs DEF Telegrams
<1>8. CASE step = "updateDesc"
  <2>1. DescLength \in Nat /\ Descriptor(New) \in Seq(Contents)
    BY DescriptorIs
  <2> QED  BY <1>8, <2>1, CommandIs DEF Telegrams
<1> QED  BY <1>2, <1>3, <1>4, <1>5, <1>6, <1>7, <1>8 DEF Steps

-----------------------------------------------------------------------------
(* The steps of the updater *)

DeviceSame == UNCHANGED <<flash, ramVars, mode, workVars>>

LEMMA ResultIs ==
    ASSUME GetResult
    PROVE  /\ step \in Steps /\ waiting /\ answer # << >> /\ request = << >>
           /\ answer' = << >> /\ DeviceSame /\ waiting' = FALSE
           /\ \/ /\ step \in {"send", "sendDesc"}
                 /\ UNCHANGED <<step, request, block, sentCells>>
              \/ /\ step' = "failed" /\ UNCHANGED <<block, sentCells>>
                 /\ request' \in {<< >>, << [cmd |-> "RESTART"] >>}
              \/ /\ step = "send" /\ UNCHANGED <<request, block>>
                 /\ IF sentCells + 1 < BlockLength
                      THEN step' = "send" /\ sentCells' = sentCells + 1
                      ELSE step' = "program" /\ sentCells' = 0
              \/ /\ step = "sendDesc" /\ UNCHANGED <<request, block>>
                 /\ IF sentCells + 1 < DescLength
                      THEN step' = "sendDesc" /\ sentCells' = sentCells + 1
                      ELSE step' = "updateDesc" /\ sentCells' = 0
              \/ /\ step = "program" /\ UNCHANGED <<request, block, sentCells>>
                 /\ step' = IF FileIsRead THEN "sendDesc" ELSE "send"
              \/ /\ step = "program" /\ answer[1] = "SUCCESS" /\ UNCHANGED <<request, sentCells>>
                 /\ block' = block + BlockLength
                 /\ step' = IF FileIsRead THEN "sendDesc" ELSE "send"
              \/ /\ step = "unlock" /\ step' \in {"erase", "eraseFull"}
                 /\ UNCHANGED <<request, block, sentCells>>
              \/ /\ step \in {"erase", "eraseFull"} /\ step' = "send"
                 /\ UNCHANGED <<request, block, sentCells>>
              \/ /\ step = "updateDesc" /\ answer[1] = "SUCCESS" /\ step' = "done"
                 /\ UNCHANGED <<block, sentCells>> /\ request' = << [cmd |-> "RESTART"] >>
<1>1. /\ step \in Steps /\ waiting /\ answer # << >> /\ request = << >>
      /\ answer' = << >> /\ DeviceSame
  BY DEF GetResult, DeviceSame
<1> DEFINE result == answer[1]
<1>2. ASSUME NEW restart \in BOOLEAN, Fail(restart)
      PROVE  /\ step' = "failed" /\ UNCHANGED <<block, sentCells>> /\ waiting' = FALSE
             /\ request' \in {<< >>, << [cmd |-> "RESTART"] >>}
  BY <1>1, <1>2 DEF Fail, NextCommand
<1>3. CASE step = "send"
  <2>1. sent(result, BlockLength, "program")
    BY <1>3 DEF GetResult, Steps
  <2> QED  BY <1>1, <1>2, <1>3, <2>1 DEF sent, Continue, NextCommand
<1>4. CASE step = "sendDesc"
  <2>1. sent(result, DescLength, "updateDesc")
    BY <1>4 DEF GetResult, Steps
  <2> QED  BY <1>1, <1>2, <1>4, <2>1 DEF sent, Continue, NextCommand
<1>5. CASE step = "program"
  <2>1. programmed(result)
    BY <1>5 DEF GetResult, Steps
  <2> QED  BY <1>1, <1>2, <1>5, <2>1 DEF programmed, Continue, NextCommand
<1>6. CASE step = "unlock"
  <2>1. Fail(TRUE) \/ Continue("erase") \/ Continue("eraseFull")
    BY <1>6 DEF GetResult, Steps
  <2> QED  BY <1>1, <1>2, <1>6, <2>1 DEF Continue, NextCommand
<1>7. CASE step \in {"erase", "eraseFull"}
  <2>1. Fail(TRUE) \/ Continue("send")
    BY <1>7 DEF GetResult, Steps
  <2> QED  BY <1>1, <1>2, <1>7, <2>1 DEF Continue, NextCommand
<1>8. CASE step = "updateDesc"
  <2>1. Fail(TRUE) \/ (result = "SUCCESS" /\ finished)
    BY <1>8 DEF GetResult, Steps
  <2> QED  BY <1>1, <1>2, <1>8, <2>1 DEF finished, NextCommand
<1> QED  BY <1>1, <1>3, <1>4, <1>5, <1>6, <1>7, <1>8 DEF Steps

LEMMA StepShapeInit == UpdaterInit => StepShape
BY UpdateNumbers DEF UpdaterInit, StepShape, Steps

LEMMA StepShapeKept ==
    ASSUME StepShape, [Next]_updaterVars
    PROVE  StepShape'
<1>1. ASSUME UNCHANGED runVars PROVE StepShape'
  BY <1>1 DEF runVars, StepShape, BlockLength
<1>2. ASSUME step' \in {"failed", "idle", "done"}, UNCHANGED block PROVE StepShape'
  BY <1>2 DEF StepShape
<1>3. CASE Begin
  BY <1>3, UpdateNumbers DEF Begin, NextCommand, StepShape, Steps
<1>4. CASE SendCommand
  BY <1>1, <1>4 DEF SendCommand
<1>5. CASE GetResult
  <2>1. block \in Nat /\ BlockLength \in Nat /\ block + BlockLength <= Length
        /\ (block < Length => BlockLength > 0) /\ Length \in Nat /\ block <= Length
    BY UpdateNumbers, BlockIs DEF StepShape
  <2>2. /\ UNCHANGED block => BlockLength' = BlockLength
        /\ block' \in Nat /\ block' < Length => BlockLength' \in Nat /\ BlockLength' > 0
    BY UpdateNumbers DEF BlockLength
  <2>3. DescLength = 2
    BY DEF DescLength
  <2> DEFINE same == UNCHANGED <<block, sentCells>>
  <2>4. CASE step' \in {step, "failed"} /\ same
    BY <1>1, <1>2, <2>4 DEF runVars
  <2>5. CASE step = "send" /\ UNCHANGED block
             /\ (IF sentCells + 1 < BlockLength
                  THEN step' = "send" /\ sentCells' = sentCells + 1
                  ELSE step' = "program" /\ sentCells' = 0)
    BY <2>1, <2>2, <2>5 DEF StepShape, Steps
  <2>6. CASE step = "sendDesc" /\ UNCHANGED block
             /\ (IF sentCells + 1 < DescLength
                  THEN step' = "sendDesc" /\ sentCells' = sentCells + 1
                  ELSE step' = "updateDesc" /\ sentCells' = 0)
    BY <2>1, <2>3, <2>6 DEF StepShape, Steps
  <2>7. CASE step = "program" /\ step' = (IF FileIsRead THEN "sendDesc" ELSE "send") /\ same
    BY <2>1, <2>2, <2>3, <2>7 DEF StepShape, Steps
  <2>8. CASE step = "program" /\ UNCHANGED sentCells /\ block' = block + BlockLength
             /\ step' = IF FileIsRead THEN "sendDesc" ELSE "send"
    BY <2>1, <2>2, <2>3, <2>8 DEF StepShape, Steps, FileIsRead
  <2>9. CASE step = "unlock" /\ step' \in {"erase", "eraseFull"} /\ same
    BY <2>1, <2>2, <2>9 DEF StepShape, Steps
  <2>10. CASE step \in {"erase", "eraseFull"} /\ step' = "send" /\ same
    BY <2>1, <2>2, <2>10, UpdateNumbers DEF StepShape, Steps
  <2>11. CASE step' = "done" /\ same
    BY <1>2, <2>11
  <2> QED  BY <1>5, <2>4, <2>5, <2>6, <2>7, <2>8, <2>9, <2>10, <2>11, ResultIs
<1>6. CASE NoResult
  <2>1. UNCHANGED runVars \/ Fail(FALSE)
    BY <1>6 DEF NoResult
  <2> QED  BY <1>1, <1>2, <2>1 DEF Fail, NextCommand
<1>7. CASE Lose
  <2>1. UNCHANGED <<block, sentCells>> /\ step' = IF step = "done" THEN "failed" ELSE step
    BY <1>7 DEF Lose
  <2> QED  BY <1>1, <1>2, <2>1 DEF runVars
<1>8. CASE Device \/ PowerOn \/ PowerFailure \/ UNCHANGED updaterVars
  BY <1>1, <1>8 DEF Device, PowerOn, PowerFailure, updaterVars
<1> QED  BY <1>3, <1>4, <1>5, <1>6, <1>7, <1>8 DEF Next, Client

\* The updater is one of the partners that the bootloader may have.
LEMMA UpdaterIsPartner ==
    ASSUME StepShape, [Next]_updaterVars
    PROVE  [BootNext]_bootVars
<1>1. ASSUME request' \in {request, << >>} \cup {<< c >> : c \in Telegrams},
             answer' \in {answer, << >>}, DeviceSame
      PROVE  BootNext
  BY <1>1 DEF BootNext, AnyPartner, DeviceSame
<1>2. [cmd |-> "MASTER_RESET"] \in Telegrams /\ [cmd |-> "RESTART"] \in Telegrams
  BY DEF Telegrams
<1>3. CASE Begin
  BY <1>1, <1>2, <1>3 DEF Begin, DeviceSame
<1>4. CASE SendCommand
  BY <1>1, <1>4, CommandIsTelegram DEF SendCommand, DeviceSame
<1>5. CASE GetResult
  <2>1. request' \in {request, << [cmd |-> "RESTART"] >>} /\ answer' = << >> /\ DeviceSame
    BY <1>5, ResultIs
  <2> QED  BY <1>1, <1>2, <2>1
<1>6. CASE NoResult
  <2>1. UNCHANGED request /\ UNCHANGED answer /\ DeviceSame
    BY <1>6 DEF NoResult, Fail, DeviceSame
  <2> QED  BY <1>1, <2>1
<1>7. CASE Lose
  BY <1>1, <1>7 DEF Lose, DeviceSame
<1>8. CASE Device
  BY <1>8 DEF Device, BootNext
<1>9. CASE PowerOn
  BY <1>9 DEF PowerOn, BootNext
<1>10. CASE PowerFailure
  BY <1>10 DEF PowerFailure, BootNext
<1>11. CASE UNCHANGED updaterVars
  BY <1>11 DEF updaterVars
<1> QED  BY <1>3, <1>4, <1>5, <1>6, <1>7, <1>8, <1>9, <1>10, <1>11 DEF Next, Client

\* What the updater does is what the bootloader's partner may do: whatever
\* holds with every partner holds with it (DeviceManagement.java, update.cpp).
THEOREM UpdaterIsAllowed == UpdaterSpec => BootSpec
<1>1. UpdaterInit => BootInit
  BY UpdaterAssumption DEF UpdaterInit, BootInit
<1>2. UpdaterInit => StepShape
  BY StepShapeInit
<1>3. StepShape /\ [Next]_updaterVars => StepShape'
  BY StepShapeKept
<1>4. StepShape /\ [Next]_updaterVars => [BootNext]_bootVars
  BY UpdaterIsPartner
<1> QED  BY <1>1, <1>2, <1>3, <1>4, PTL DEF UpdaterSpec, BootSpec

-----------------------------------------------------------------------------
(* The update: what is on its way, and what is in the flash *)

Coded(first, from, n) == \A i \in 1 .. n : flash[first + i - 1] = AppCell(New, from + i)

\* The descriptor of the new application is in the flash, and all of it.
DescribesNew ==
    /\ \A i \in 1 .. DescLength : flash[bootDescriptorBlockAddress + i - 1] = DescCell(New, i)
    /\ HasPlace(New)
    /\ Coded(NewFirst, 0, Length)

Memories ==
    /\ flash = [c \in Addresses |-> flash[c]]
    /\ ramBuffer = [i \in 1 .. BufferCells + PageCells |-> ramBuffer[i]]

\* A telegram, the calls of a command and its result are never there at once.
Asked ==
    request # << >> =>
        /\ calls = << >> /\ answer = << >>
        /\ \/ step \in Steps /\ waiting /\ request = << CommandOf >>
           \/ step = "unlock" /\ ~waiting /\ request = << [cmd |-> "MASTER_RESET"] >>
           \/ step \in {"failed", "done"} /\ request = << [cmd |-> "RESTART"] >>
Busy ==
    calls # << >> =>
        /\ step \in {"eraseFull", "erase", "program", "updateDesc"} /\ waiting
        /\ request = << >> /\ answer = << >>
        /\ mode = "bootloader" /\ command = CommandOf
Told ==
    answer # << >> =>
        /\ step \in Steps /\ waiting /\ request = << >> /\ calls = << >> /\ mode = "bootloader"

\* What is counted as programmed, and where it ends.
Counted ==
    /\ step \in Steps => Coded(NewFirst, 0, block)
    /\ block > 0 => NewFirst >= applicationFirstAddress /\ NewFirst + block - 1 <= LastCell

\* While a block is programmed, each of its cells is in the flash or in a call.
ProgramRuns ==
    step = "program" /\ calls # << >> =>
        /\ addressAllowedToProgram(BlockFirst, BlockLength, FALSE)
        /\ \A i \in 1 .. BlockLength : ramBuffer[i] = AppCell(New, block + i)
        /\ calls \in Seq(BlockCalls(BlockFirst))
        /\ \A k \in DOMAIN calls : \A c \in CallCells(calls[k]) : c >= BlockFirst
        /\ \A i \in 1 .. BlockLength :
             \/ flash[BlockFirst + i - 1] = AppCell(New, block + i)
             \/ \E k \in DOMAIN calls : BlockFirst + i - 1 \in CallCells(calls[k])
Programs ==
    step = "program" /\ answer # << >> /\ answer[1] = "SUCCESS" =>
        /\ addressAllowedToProgram(BlockFirst, BlockLength, FALSE)
        /\ Coded(BlockFirst, block, BlockLength)

\* The descriptor is erased and programmed; its command fails without the code.
EraseDesc == erasePageRange(PageOf(bootDescriptorBlockAddress), PageOf(bootDescriptorBlockAddress))
ProgramDesc == programCall(bootDescriptorBlockAddress, PageCells, 0, TRUE)
DescribeRuns ==
    step = "updateDesc" /\ calls # << >> =>
        /\ \A i \in 1 .. DescLength : ramBuffer[i] = DescCell(New, i)
        /\ calls \in {<< EraseDesc, ProgramDesc >>, << ProgramDesc >>}
Describes ==
    step = "updateDesc" /\ answer # << >> /\ answer[1] = "SUCCESS" => DescribesNew
DoneIs == step = "done" => DescribesNew /\ mode \in {"off", "bootloader", New}

Works == ProgramRuns /\ Programs /\ DescribeRuns /\ Describes
UpdaterInv == StepShape /\ Memories /\ Asked /\ Busy /\ Told /\ Counted /\ Works /\ DoneIs

\* The names of the steps tell them apart.
LEMMA SameRun ==
    ASSUME UNCHANGED runVars
    PROVE  /\ step' = step /\ block' = block /\ sentCells' = sentCells
           /\ CommandOf' = CommandOf /\ BlockFirst' = BlockFirst /\ BlockLength' = BlockLength
BY DEF runVars, CommandOf, BlockFirst, BlockLength, BlockData

LEMMA SameFlash ==
    ASSUME UNCHANGED <<flash, block>>
    PROVE  /\ DescribesNew' = DescribesNew
           /\ \A first, from, n : Coded(first, from, n)' = Coded(first, from, n)
BY DEF DescribesNew, Coded

\* The calls that bring the descriptor into the flash take its page.
LEMMA DescCallsAre ==
    /\ CallCells(EraseDesc) = bootDescriptorBlockAddress .. applicationFirstAddress - 1
    /\ CallCells(ProgramDesc) = bootDescriptorBlockAddress .. applicationFirstAddress - 1
    /\ EraseDesc.op = "erase" /\ ProgramDesc.op = "program"
    /\ ProgramDesc.first = bootDescriptorBlockAddress /\ ProgramDesc.from = 0
<1> DEFINE b == bootDescriptorBlockAddress
           p == PageOf(b)
<1>1. b \in Nat /\ applicationFirstAddress = b + PageCells /\ PageCells \in Nat \ {0}
      /\ applicationFirstAddress % PageCells = 0 /\ applicationFirstAddress \in Nat
  BY PlacesInFlash, BootNumbers
<1>2. b % PageCells = 0
  <2> DEFINE q == applicationFirstAddress \div PageCells
  <2>1. q \in Int /\ applicationFirstAddress = PageCells * q + 0
    <3>1. q \in Int /\ applicationFirstAddress = PageCells * q + (applicationFirstAddress % PageCells)
      BY <1>1, Quotient
    <3> QED  BY <1>1, <3>1
  <2> HIDE DEF b, q
  <2>2. b = PageCells * (q - 1) + 0
    BY <1>1, <2>1
  <2>3. q - 1 \in Int /\ 0 \in 0 .. PageCells - 1
    BY <1>1, <2>1
  <2>4. (PageCells * (q - 1) + 0) % PageCells = 0
    BY <1>1, <2>3, QuotientIs
  <2> QED  BY <2>2, <2>4
<1>3. p \in Nat /\ b = p * PageCells
  BY <1>1, <1>2, AlignedCell
<1>4. (p + 1) * PageCells = p * PageCells + PageCells
  BY <1>1, <1>3
<1> HIDE DEF p
<1>5. EraseDesc.first = b /\ EraseDesc.last = b + PageCells - 1 /\ EraseDesc.op = "erase"
  <2>1. EraseDesc.first = p * PageCells /\ EraseDesc.last = (p + 1) * PageCells - 1 /\ EraseDesc.op = "erase"
    BY DEF EraseDesc, erasePageRange, p
  <2>2. (p + 1) * PageCells = b + PageCells
    BY <1>3, <1>4
  <2> DEFINE y == b + PageCells
  <2>3. EraseDesc.last = y - 1
    BY <2>1, <2>2
  <2> QED  BY <1>1, <1>3, <2>1, <2>3
<1>6. /\ ProgramDesc.first = b /\ ProgramDesc.last = b + PageCells - 1
      /\ ProgramDesc.op = "program" /\ ProgramDesc.from = 0
  BY DEF ProgramDesc, programCall
<1> QED  BY <1>1, <1>5, <1>6 DEF CallCells

\* One call, or the power failing in it, changes the cells of that call.
LEMMA CallChanges ==
    ASSUME BootInv, Memories, FlashCall \/ PowerFail
    PROVE  /\ flash' = [c \in Addresses |-> flash'[c]]
           /\ calls = << >> => flash' = flash
           /\ \A c \in Addresses : c \notin CallCells(calls[1]) => flash'[c] = flash[c]
<1>1. CASE FlashCall
  <2> DEFINE call == Head(calls)
             erased == [c \in Addresses |-> IF c \in CallCells(call) THEN Erased ELSE flash[c]]
             program == [c \in Addresses |-> IF c \in CallCells(call) THEN Programmed(call)[c] ELSE flash[c]]
  <2>1. calls # << >> /\ (flash' = flash \/ flash' = erased \/ flash' = program)
    BY <1>1 DEF FlashCall
  <2>2. Head(calls) = calls[1]
    BY <2>1, CallKeepsBootloader DEF BootInv
  <2> QED  BY <2>1, <2>2 DEF Memories
<1>2. CASE PowerFail
  <2>1. CASE calls = << >> \/ ~calls[1].allowed
    BY <1>2, <2>1 DEF PowerFail, Memories
  <2>2. CASE ~(calls = << >> \/ ~calls[1].allowed)
    <3>1. PICK upto \in calls[1].first .. calls[1].last + 1 :
            flash' = [c \in Addresses |->
                        IF c \notin CallCells(calls[1]) \/ c > upto THEN flash[c]
                          ELSE IF c = upto THEN Garbage
                          ELSE IF calls[1].op = "erase" THEN Erased
                          ELSE Programmed(calls[1])[c]]
      BY <1>2, <2>2 DEF PowerFail
    <3> QED  BY <2>2, <3>1
  <2> QED  BY <2>1, <2>2
<1> QED  BY <1>1, <1>2

LEMMA PlaceOf ==
    ASSUME block \in 0 .. Length
    PROVE  /\ applicationFirstAddress \in Nat /\ bootDescriptorBlockAddress \in Nat
           /\ NewFirst \in Nat \ {0} /\ Length \in Nat \ {0} /\ block \in Nat /\ BlockFirst = NewFirst + block
           /\ DescLength = 2 /\ bootDescriptorBlockAddress + 2 <= applicationFirstAddress
           /\ LastCell \in Nat
BY PlacesInFlash, UpdateNumbers, BootNumbers, PagesInFlash DEF BlockFirst, DescLength

\* The telegram that is handled is the command of the step.
LEMMA HandledIs ==
    ASSUME UpdaterInv, NEW cmd, NEW handler, Handle(cmd, handler), cmd \notin {"MASTER_RESET", "RESTART"}
    PROVE  /\ step \in Steps /\ waiting /\ request = << CommandOf >> /\ CommandOf.cmd = cmd
           /\ request' = << >> /\ calls = << >> /\ answer = << >> /\ mode = "bootloader" /\ UNCHANGED mode
<1>1. /\ mode = "bootloader" /\ calls = << >> /\ answer = << >> /\ request' = << >>
      /\ request # << >> /\ request[1].cmd = cmd /\ UNCHANGED mode
  BY DEF Handle
<1>2. \/ step \in Steps /\ waiting /\ request = << CommandOf >>
      \/ request = << [cmd |-> "MASTER_RESET"] >>
      \/ request = << [cmd |-> "RESTART"] >>
  BY <1>1 DEF UpdaterInv, Asked
<1> HIDE DEF CommandOf
<1> QED  BY <1>1, <1>2

\* What a command that calls nothing leaves behind.
LEMMA AnswerInv ==
    ASSUME UpdaterInv, NEW cmd, NEW handler, Handle(cmd, handler), cmd \notin {"MASTER_RESET", "RESTART"},
           NEW result, Answered(result), UNCHANGED <<runVars, tryVars>>, Memories',
           step = "program" => result # "SUCCESS",
           step = "updateDesc" /\ result = "SUCCESS" => DescribesNew
    PROVE  UpdaterInv'
<1>1. /\ step \in Steps /\ waiting /\ request' = << >> /\ calls = << >>
      /\ mode = "bootloader" /\ UNCHANGED mode
  BY HandledIs
<1>2. /\ answer' = << result >> /\ UNCHANGED <<flash, calls, command, step, block, waiting>>
  BY DEF Answered, Send, workVars, runVars, tryVars
<1>3. Asked' /\ Busy' /\ ProgramRuns' /\ DescribeRuns'
  BY <1>1, <1>2 DEF Asked, Busy, ProgramRuns, DescribeRuns
<1>4. Told'
  BY <1>1, <1>2 DEF Told
<1>5. Counted'
  BY <1>2, SameFlash DEF UpdaterInv, Counted
<1>6. answer'[1] = result
  BY <1>2
<1>7. Programs' /\ Describes'
  BY <1>2, <1>6, SameFlash DEF Programs, Describes
<1>8. DoneIs'
  BY <1>1, <1>2 DEF DoneIs, Steps
<1>9. StepShape'
  BY SameRun DEF UpdaterInv, StepShape
<1> QED  BY <1>3, <1>4, <1>5, <1>7, <1>8, <1>9 DEF UpdaterInv, Works

\* What a command that calls something leaves behind.
LEMMA StartInv ==
    ASSUME UpdaterInv, NEW cmd, NEW handler, Handle(cmd, handler), cmd \notin {"MASTER_RESET", "RESTART"},
           NEW list, Starts(list), UNCHANGED <<runVars, tryVars, ramBuffer>>,
           step \in {"eraseFull", "erase", "program", "updateDesc"},
           ProgramRuns', DescribeRuns'
    PROVE  UpdaterInv'
<1>1. /\ step \in Steps /\ waiting /\ request = << CommandOf >> /\ request' = << >> /\ calls = << >>
      /\ mode = "bootloader" /\ UNCHANGED mode /\ answer = << >>
  BY HandledIs
<1>2. /\ command' = CommandOf /\ UNCHANGED <<flash, answer, step, block, waiting>>
  <2> HIDE DEF CommandOf
  <2> QED  BY <1>1 DEF Starts, runVars, tryVars
<1>3. CommandOf' = CommandOf
  BY SameRun
<1>4. Asked' /\ Told' /\ Programs' /\ Describes'
  BY <1>1, <1>2 DEF Asked, Told, Programs, Describes
<1>5. Busy'
  <2> HIDE DEF CommandOf
  <2> QED  BY <1>1, <1>2, <1>3 DEF Busy
<1>6. Counted'
  BY <1>2, SameFlash DEF UpdaterInv, Counted
<1>7. DoneIs'
  BY <1>1, <1>2 DEF DoneIs, Steps
<1>8. StepShape' /\ Memories'
  BY <1>2, SameRun DEF UpdaterInv, StepShape, Memories
<1> QED  BY <1>4, <1>5, <1>6, <1>7, <1>8 DEF UpdaterInv, Works

\* A telegram whose checksum is that of the buffer says what is in it.
LEMMA ReceivedMeans ==
    ASSUME NEW data, Len(data) \in Nat, ReceivedIs(data)
    PROVE  \A i \in 1 .. Len(data) : ramBuffer[i] = data[i]
<1> DEFINE n == Len(data)
           S == {ramBuffer[i] : i \in 1 .. n}
<1>1. n \in Nat /\ 1 \in Nat
  OBVIOUS
<1>2. \A i \in 1 .. n : ramBuffer[i] \in S
  OBVIOUS
<1>3. SubSeq(ramBuffer, 1, n) = data
  BY DEF ReceivedIs
<1> HIDE DEF S, n
<1>4. /\ \A i \in 1 .. n - 1 + 1 : SubSeq(ramBuffer, 1, n)[i] = ramBuffer[1 + i - 1]
  <2>1. 1 \in 1 .. n + 1 /\ n \in 1 - 1 .. n
    BY <1>1
  <2> QED  BY <1>1, <1>2, <2>1, SubSeqProperties
<1>5. \A i \in 1 .. n : 1 + i - 1 = i /\ i \in 1 .. n - 1 + 1
  BY <1>1
<1> QED  BY <1>3, <1>4, <1>5 DEF n

LEMMA ProgramHandled ==
    ASSUME UpdaterInv, Handle("PROGRAM", updProgram), UNCHANGED <<runVars, tryVars>>
    PROVE  UpdaterInv'
<1>1. step \in Steps /\ request = << CommandOf >> /\ CommandOf.cmd = "PROGRAM" /\ calls = << >>
  BY HandledIs
<1>2. step = "program"
  BY <1>1, CommandIs DEF Steps
<1> DEFINE c == request[1]
<1>3. c.first = BlockFirst /\ c.count = BlockLength /\ c.data = BlockData /\ c = CommandOf
  <2>1. c = CommandOf
    <3> HIDE DEF CommandOf
    <3> QED  BY <1>1
  <2>2. CommandOf = [cmd |-> "PROGRAM", first |-> BlockFirst, count |-> BlockLength, data |-> BlockData]
    BY <1>1, <1>2, CommandIs
  <2> HIDE DEF CommandOf, c
  <2> QED  BY <2>1, <2>2
<1> HIDE DEF c
<1>4. block \in 0 .. Length /\ block < Length
  BY <1>2 DEF UpdaterInv, StepShape
<1>5. /\ BlockLength \in Nat \ {0} /\ block + BlockLength <= Length /\ BlockFirst \in Nat
      /\ Len(BlockData) = BlockLength /\ \A i \in 1 .. BlockLength : BlockData[i] = AppCell(New, block + i)
  BY <1>4, BlockIs
<1>6. \/ \E result : Answered(result) /\ result # "SUCCESS" /\ UNCHANGED ramBuffer
      \/ /\ addressAllowedToProgram(BlockFirst, BlockLength, FALSE) /\ ReceivedIs(BlockData)
         /\ Starts(ProgramCalls(BlockFirst, BlockLength)) /\ UNCHANGED ramBuffer
  <2>1. (Answered("DEVICE_LOCKED") /\ UNCHANGED ramVars) \/ updProgram
    BY DEF Handle
  <2>2. CASE Answered("DEVICE_LOCKED") /\ UNCHANGED ramVars
    BY <2>2 DEF ramVars
  <2>3. CASE updProgram
    <3> HIDE DEF BlockFirst, BlockLength, BlockData
    <3> QED  BY <1>3, <2>3 DEF updProgram, c
  <2> QED  BY <2>1, <2>2, <2>3
<1>7. ASSUME NEW result, Answered(result), result # "SUCCESS", UNCHANGED ramBuffer
      PROVE  UpdaterInv'
  <2>1. Memories'
    BY <1>7 DEF UpdaterInv, Memories, Answered
  <2> QED  BY <1>2, <1>7, <2>1, AnswerInv
<1>8. ASSUME addressAllowedToProgram(BlockFirst, BlockLength, FALSE), ReceivedIs(BlockData),
             Starts(ProgramCalls(BlockFirst, BlockLength)), UNCHANGED ramBuffer
      PROVE  UpdaterInv'
  <2>1. \A i \in 1 .. BlockLength : ramBuffer[i] = AppCell(New, block + i)
    <3> HIDE DEF BlockLength, BlockData
    <3> QED  BY <1>5, <1>8, ReceivedMeans
  <2> DEFINE S == CellsOf(PageOf(BlockFirst), PageOf(BlockFirst + BlockLength - 1))
             list == ProgramCalls(BlockFirst, BlockLength)
  <2>2. Takes(list, BlockCalls(BlockFirst), S)
    <3> HIDE DEF BlockLength, BlockFirst
    <3> QED  BY <1>5, <1>8, ProgramTakesBlock
  <2>3. /\ BlockFirst % PageCells = 0 /\ BlockFirst + BlockLength - 1 <= LastCell
        /\ BlockFirst >= applicationFirstAddress
    BY <1>8 DEF addressAllowedToProgram
  <2>4. PageOf(BlockFirst) \in Nat /\ BlockFirst = PageOf(BlockFirst) * PageCells
    <3> HIDE DEF BlockFirst
    <3> QED  BY <1>5, <2>3, AlignedCell
  <2> DEFINE f == BlockFirst
             n == BlockLength
  <2> HIDE DEF f, n
  <2>5. f \in Nat /\ n \in Nat \ {0} /\ PageOf(f) \in Nat /\ f = PageOf(f) * PageCells
        /\ f + n - 1 <= LastCell /\ LastCell \in Nat /\ PageCells \in Nat \ {0}
    BY <1>5, <2>3, <2>4, PagesInFlash, BootNumbers DEF f, n
  <2>6. ASSUME NEW i \in Int
        PROVE  PageOf(i) \in Int /\ (PageOf(i) >= PageOf(f) <=> i >= f)
               /\ (f + n - 1 >= i => PageOf(f + n - 1) >= PageOf(i))
    <3>1. PageOf(i) \in Int
      BY PagesAreNumbers
    <3>2. i \div PageCells >= PageOf(f) <=> i >= PageOf(f) * PageCells
      BY <2>5, AtLeast
    <3>3. f + n - 1 \in Int /\ i \in Int /\ PageOf(i) \in Int
      BY <2>5, <3>1
    <3> DEFINE e == f + n - 1
    <3> HIDE DEF e
    <3>4. i \div PageCells >= PageOf(i) <=> i >= PageOf(i) * PageCells
      BY <2>5, <3>1, AtLeast
    <3>5. e \div PageCells >= PageOf(i) <=> e >= PageOf(i) * PageCells
      BY <2>5, <3>3, AtLeast DEF e
    <3>6. i >= PageOf(i) * PageCells
      BY <3>1, <3>4 DEF PageOf
    <3>7. e >= i => e >= PageOf(i) * PageCells
      <4> DEFINE z == PageOf(i) * PageCells
      <4>1. z \in Int
        BY <2>5, <3>1
      <4> HIDE DEF z
      <4> QED  BY <3>3, <3>6, <4>1 DEF z, e
    <3> QED  BY <2>5, <3>1, <3>2, <3>5, <3>7 DEF PageOf, e
  <2>7. S \subseteq {i \in Int : i >= f}
    <3>1. \A i \in S : i \in Int /\ PageOf(i) >= PageOf(f)
      <4>1. \A i \in S : i \in Addresses /\ PageOf(i) \in PageOf(f) .. PageOf(f + n - 1)
        BY DEF CellsOf, f, n
      <4> QED  BY <2>5, <4>1 DEF Addresses
    <3> HIDE DEF S
    <3> QED  BY <2>6, <3>1
  <2>8. \A i \in 1 .. n : f + i - 1 \in S
    <3> SUFFICES ASSUME NEW i \in 1 .. n PROVE f + i - 1 \in S
      OBVIOUS
    <3> DEFINE a == f + i - 1
    <3>1. a \in Int /\ a >= f /\ f + n - 1 >= a /\ a \in Addresses
      BY <2>5 DEF Addresses
    <3> HIDE DEF a
    <3>2. PageOf(a) \in Int /\ PageOf(a) >= PageOf(f) /\ PageOf(f + n - 1) >= PageOf(a)
      BY <2>6, <3>1
    <3>3. f + n - 1 \in Int
      BY <2>5
    <3>4. PageOf(f + n - 1) \in Int
      <4> DEFINE e == f + n - 1
      <4> HIDE DEF e
      <4> QED  BY <3>3, PagesAreNumbers DEF e
    <3>5. PageOf(a) \in PageOf(f) .. PageOf(f + n - 1)
      BY <2>5, <3>2, <3>4
    <3> QED  BY <3>1, <3>5 DEF CellsOf, a, f, n
  <2> HIDE DEF S, list
  <2>9. /\ list \in Seq(BlockCalls(f))
        /\ \A k \in DOMAIN list : CallCells(list[k]) \subseteq S
        /\ \A i \in S : \E k \in DOMAIN list : i \in CallCells(list[k])
    BY <2>2 DEF Takes, f
  <2>10. calls' = list /\ UNCHANGED <<flash, ramBuffer, step, block>>
    BY <1>8 DEF Starts, runVars, list
  <2>11. /\ \A k \in DOMAIN list : \A i \in CallCells(list[k]) : i >= f
         /\ \A i \in 1 .. n : \E k \in DOMAIN list : f + i - 1 \in CallCells(list[k])
    BY <2>7, <2>8, <2>9
  <2>12. BlockFirst' = f /\ BlockLength' = n
    BY SameRun DEF f, n
  <2>13. /\ addressAllowedToProgram(f, n, FALSE) /\ \A i \in 1 .. n : ramBuffer[i] = AppCell(New, block + i)
    BY <1>8, <2>1 DEF f, n
  <2>14. ProgramRuns'
    <3> HIDE DEF BlockLength, BlockFirst
    <3> QED  BY <2>9, <2>10, <2>11, <2>12, <2>13 DEF ProgramRuns
  <2>15. DescribeRuns'
    BY <1>2, <2>10 DEF DescribeRuns
  <2> QED  BY <1>2, <1>8, <2>14, <2>15, StartInv
<1> QED  BY <1>6, <1>7, <1>8

\* Commands that change neither the flash nor anything but the buffer.
LEMMA LightHandled ==
    ASSUME UpdaterInv, UNCHANGED <<runVars, tryVars>>,
           Handle("UNLOCK_DEVICE", updUnlockDevice) \/ Handle("SEND_DATA", updSendData)
    PROVE  UpdaterInv'
<1>1. CASE Handle("UNLOCK_DEVICE", updUnlockDevice)
  <2>1. step \in Steps /\ CommandOf.cmd = "UNLOCK_DEVICE"
    BY <1>1, HandledIs
  <2>2. step \notin {"program", "updateDesc"}
    BY <2>1, CommandIs
  <2>3. Answered("SUCCESS") /\ UNCHANGED ramBuffer
    BY <1>1 DEF Handle, updUnlockDevice
  <2>4. Memories'
    BY <2>3 DEF UpdaterInv, Memories, Answered
  <2> QED  BY <1>1, <2>2, <2>3, <2>4, AnswerInv
<1>2. CASE Handle("SEND_DATA", updSendData)
  <2>1. step \in Steps /\ CommandOf.cmd = "SEND_DATA"
    BY <1>2, HandledIs
  <2>2. step \notin {"program", "updateDesc"}
    BY <2>1, CommandIs
  <2>3. (\E result : Answered(result))
        /\ (\/ UNCHANGED ramBuffer
            \/ ramBuffer' = [ramBuffer EXCEPT ![ramBufferPositon + 1] = request[1].data[1]])
    BY <1>2 DEF Handle, updSendData, ramVars
  <2>4. UNCHANGED flash
    BY <2>3 DEF Answered
  <2>5. ramBuffer' = [i \in 1 .. BufferCells + PageCells |-> ramBuffer'[i]]
    BY <2>3 DEF UpdaterInv, Memories
  <2>6. Memories'
    BY <2>4, <2>5 DEF UpdaterInv, Memories
  <2> QED  BY <1>2, <2>2, <2>3, <2>6, AnswerInv
<1> QED  BY <1>1, <1>2

LEMMA EraseHandled ==
    ASSUME UpdaterInv, UNCHANGED <<runVars, tryVars>>,
           Handle("ERASE_ADDRESSRANGE", updEraseAddressRange)
             \/ Handle("ERASE_COMPLETE_FLASH", updEraseFullFlash)
    PROVE  UpdaterInv'
<1>1. PICK cmd \in {"ERASE_ADDRESSRANGE", "ERASE_COMPLETE_FLASH"}, handler \in BOOLEAN :
        /\ Handle(cmd, handler) /\ UNCHANGED ramBuffer
        /\ (\E result : Answered(result)) \/ (\E list : Starts(list))
  <2>1. CASE Handle("ERASE_ADDRESSRANGE", updEraseAddressRange)
    <3>1. /\ UNCHANGED ramBuffer
          /\ (\E result : Answered(result)) \/ (\E list : Starts(list))
      BY <2>1 DEF Handle, updEraseAddressRange, ramVars
    <3> QED  BY <2>1, <3>1 DEF Handle
  <2>2. CASE Handle("ERASE_COMPLETE_FLASH", updEraseFullFlash)
    <3>1. /\ UNCHANGED ramBuffer
          /\ (\E result : Answered(result)) \/ (\E list : Starts(list))
      BY <2>2 DEF Handle, updEraseFullFlash, ramVars
    <3> QED  BY <2>2, <3>1 DEF Handle
  <2> QED  BY <2>1, <2>2
<1>2. step \in Steps /\ CommandOf.cmd = cmd
  BY <1>1, HandledIs
<1>3. step \in {"erase", "eraseFull"}
  BY <1>1, <1>2, CommandIs DEF Steps
<1>4. CASE \E result : Answered(result)
  <2>1. Memories'
    BY <1>1, <1>4 DEF UpdaterInv, Memories, Answered
  <2> QED  BY <1>1, <1>3, <1>4, <2>1, AnswerInv
<1>5. CASE \E list : Starts(list)
  <2>1. step' = step
    BY SameRun
  <2>2. ProgramRuns' /\ DescribeRuns'
    BY <1>3, <2>1 DEF ProgramRuns, DescribeRuns
  <2> QED  BY <1>1, <1>3, <1>5, <2>2, StartInv
<1> QED  BY <1>1, <1>4, <1>5

\* The descriptor of an application tells which one it is.
LEMMA StartableIs ==
    ASSUME block \in 0 .. Length, \A i \in 1 .. DescLength : ramBuffer[i] = DescCell(New, i),
           DescriptorResult = "SUCCESS"
    PROVE  HasPlace(New) /\ Coded(NewFirst, 0, Length)
<1>1. checkApplication(SubSeq(ramBuffer, 1, DescLength))
  BY DEF DescriptorResult
<1>2. PICK name \in DOMAIN Images :
        /\ SubSeq(ramBuffer, 1, DescLength) = Descriptor(name) /\ HasPlace(name)
        /\ FlashContent(Images[name].first, Images[name].length) = Code(name)
  BY <1>1 DEF checkApplication
<1>3. SubSeq(ramBuffer, 1, DescLength)[1] = ramBuffer[1]
  <2> DEFINE S == {ramBuffer[1], ramBuffer[2]}
  <2>1. \A i \in 1 .. 2 : ramBuffer[i] \in S
    OBVIOUS
  <2> HIDE DEF S
  <2>2. SubSeq(ramBuffer, 1, 2)[1] = ramBuffer[1]
    <3>1. \A i \in 1 .. 2 - 1 + 1 : SubSeq(ramBuffer, 1, 2)[i] = ramBuffer[1 + i - 1]
      BY <2>1, SubSeqProperties
    <3>2. 1 \in 1 .. 2 - 1 + 1 /\ 1 + 1 - 1 = 1
      OBVIOUS
    <3> QED  BY <3>1, <3>2
  <2> QED  BY <2>2 DEF DescLength
<1>4. Descriptor(name)[1] = DescCell(name, 1) /\ ramBuffer[1] = DescCell(New, 1)
  BY DEF Descriptor, DescLength
<1>5. name = New
  <2>1. DescCell(name, 1) = DescCell(New, 1)
    BY <1>2, <1>3, <1>4
  <2> QED  BY <2>1 DEF DescCell
<1>6. \A i \in 1 .. Length : FlashContent(NewFirst, Length)[i] = flash[NewFirst + i - 1]
  BY DEF FlashContent
<1>7. \A i \in 1 .. Length : Code(New)[i] = AppCell(New, 0 + i)
  BY UpdateNumbers DEF Code, Length
<1>8. FlashContent(NewFirst, Length) = Code(New)
  BY <1>2, <1>5 DEF NewFirst, Length
<1> QED  BY <1>2, <1>5, <1>6, <1>7, <1>8 DEF Coded

LEMMA DescriptorHandled ==
    ASSUME UpdaterInv, Handle("UPDATE_BOOT_DESC", updUpdateBootDescriptorBlock), UNCHANGED <<runVars, tryVars>>
    PROVE  UpdaterInv'
<1>1. step \in Steps /\ request = << CommandOf >> /\ CommandOf.cmd = "UPDATE_BOOT_DESC" /\ calls = << >>
  BY HandledIs
<1>2. step = "updateDesc"
  BY <1>1, CommandIs DEF Steps
<1> DEFINE c == request[1]
<1>3. c.count = DescLength /\ c.data = Descriptor(New)
  <2>1. c = CommandOf
    <3> HIDE DEF CommandOf
    <3> QED  BY <1>1
  <2>2. CommandOf = [cmd |-> "UPDATE_BOOT_DESC", count |-> DescLength, data |-> Descriptor(New)]
    BY <1>1, <1>2, CommandIs
  <2> HIDE DEF CommandOf, c
  <2> QED  BY <2>1, <2>2
<1> HIDE DEF c
<1>4. UNCHANGED ramBuffer
  BY DEF Handle, updUpdateBootDescriptorBlock, ramVars
<1>5. \/ \E result : Answered(result) /\ result # "SUCCESS"
      \/ /\ ReceivedIs(Descriptor(New)) /\ Answered(DescriptorResult)
         /\ FlashContent(bootDescriptorBlockAddress, DescLength) = Descriptor(New)
      \/ ReceivedIs(Descriptor(New)) /\ Starts(<< EraseDesc, ProgramDesc >>)
  <2>1. Answered("DEVICE_LOCKED") \/ updUpdateBootDescriptorBlock
    BY DEF Handle
  <2>2. CASE Answered("DEVICE_LOCKED")
    BY <2>2
  <2>3. CASE updUpdateBootDescriptorBlock
    BY <1>3, <2>3 DEF updUpdateBootDescriptorBlock, c, EraseDesc, ProgramDesc
  <2> QED  BY <2>1, <2>2, <2>3
<1>6. ReceivedIs(Descriptor(New)) => \A i \in 1 .. DescLength : ramBuffer[i] = DescCell(New, i)
  <2> SUFFICES ASSUME ReceivedIs(Descriptor(New))
               PROVE  \A i \in 1 .. DescLength : ramBuffer[i] = DescCell(New, i)
    OBVIOUS
  <2>1. Len(Descriptor(New)) = DescLength /\ Len(Descriptor(New)) \in Nat
    BY DescriptorIs
  <2>2. \A i \in 1 .. DescLength : ramBuffer[i] = Descriptor(New)[i]
    <3> DEFINE data == Descriptor(New)
    <3> HIDE DEF data
    <3>1. \A i \in 1 .. Len(data) : ramBuffer[i] = data[i]
      BY <2>1, ReceivedMeans DEF data
    <3> QED  BY <2>1, <3>1 DEF data
  <2> QED  BY <2>2, DescriptorIs
<1>7. ASSUME NEW result, Answered(result), result = "SUCCESS" => DescribesNew PROVE UpdaterInv'
  <2>1. Memories'
    BY <1>4, <1>7 DEF UpdaterInv, Memories, Answered
  <2> QED  BY <1>2, <1>7, <2>1, AnswerInv
<1>8. CASE ReceivedIs(Descriptor(New)) /\ Answered(DescriptorResult)
           /\ FlashContent(bootDescriptorBlockAddress, DescLength) = Descriptor(New)
  <2>1. ASSUME DescriptorResult = "SUCCESS" PROVE DescribesNew
    <3>1. HasPlace(New) /\ Coded(NewFirst, 0, Length)
      BY <1>6, <1>8, <2>1, StartableIs DEF UpdaterInv, StepShape
    <3>2. \A i \in 1 .. DescLength : flash[bootDescriptorBlockAddress + i - 1] = DescCell(New, i)
      <4>1. \A i \in 1 .. DescLength :
              FlashContent(bootDescriptorBlockAddress, DescLength)[i] = flash[bootDescriptorBlockAddress + i - 1]
        BY DEF FlashContent
      <4> HIDE DEF bootDescriptorBlockAddress
      <4> QED  BY <1>8, <4>1, DescriptorIs
    <3> QED  BY <3>1, <3>2 DEF DescribesNew
  <2> QED  BY <1>7, <1>8, <2>1
<1>9. CASE ReceivedIs(Descriptor(New)) /\ Starts(<< EraseDesc, ProgramDesc >>)
  <2>1. step' = step
    BY SameRun
  <2>2. calls' = << EraseDesc, ProgramDesc >>
    BY <1>9 DEF Starts
  <2> HIDE DEF EraseDesc, ProgramDesc
  <2>3. ProgramRuns' /\ DescribeRuns'
    BY <1>2, <1>4, <1>6, <1>9, <2>1, <2>2 DEF ProgramRuns, DescribeRuns
  <2> QED  BY <1>2, <1>4, <1>9, <2>3, StartInv
<1> QED  BY <1>5, <1>7, <1>8, <1>9

\* The flash changes behind what is counted, or in the page of the descriptor.
LEMMA CallsAreBehind ==
    ASSUME BootInv, UpdaterInv, FlashCall \/ PowerFail, UNCHANGED runVars
    PROVE  Memories' /\ Counted' /\ StepShape'

<1>1. /\ flash' = [c \in Addresses |-> flash'[c]]
      /\ calls = << >> => flash' = flash
      /\ \A c \in Addresses : c \notin CallCells(calls[1]) => flash'[c] = flash[c]
  BY CallChanges DEF UpdaterInv
<1>2. step' = step /\ block' = block /\ UNCHANGED <<runVars>> /\ block \in 0 .. Length
  BY SameRun DEF UpdaterInv, StepShape
<1>3. Memories'
  <2>1. ramBuffer' = ramBuffer \/ ramBuffer' = [i \in 1 .. BufferCells + PageCells |-> Unset]
    BY DEF FlashCall, PowerFail, ramLost, ramVars
  <2> QED  BY <1>1, <2>1 DEF UpdaterInv, Memories
<1>4. StepShape'
  BY <1>2, SameRun DEF UpdaterInv, StepShape
<1>5. ASSUME step \in Steps, NEW i \in 1 .. block PROVE flash'[NewFirst + i - 1] = flash[NewFirst + i - 1]
  <2> DEFINE c == NewFirst + i - 1
  <2>1. /\ NewFirst \in Nat /\ block \in Nat /\ block > 0 /\ c < BlockFirst /\ c \in Addresses
        /\ c >= applicationFirstAddress
    BY <1>2, <1>5, PlaceOf DEF UpdaterInv, Counted, Addresses
  <2> HIDE DEF c
  <2>2. CASE calls = << >>
    BY <1>1, <2>2 DEF c
  <2>3. CASE calls # << >> /\ step = "program"
    <3>1. 1 \in DOMAIN calls
      BY <2>3 DEF UpdaterInv, Works, ProgramRuns
    <3>2. \A a \in CallCells(calls[1]) : a >= BlockFirst
      BY <2>3, <3>1 DEF UpdaterInv, Works, ProgramRuns
    <3>3. c \notin CallCells(calls[1])
      BY <1>2, <2>1, <3>2, PlaceOf DEF Addresses
    <3> QED  BY <1>1, <2>1, <3>3 DEF c
  <2>4. CASE calls # << >> /\ step = "updateDesc"
    <3>1. calls[1] \in {EraseDesc, ProgramDesc}
      BY <2>4 DEF UpdaterInv, Works, DescribeRuns
    <3>2. c \notin CallCells(calls[1])
      BY <1>2, <2>1, <3>1, DescCallsAre, PlaceOf
    <3> QED  BY <1>1, <2>1, <3>2 DEF c
  <2>5. CASE calls # << >> /\ step \in {"erase", "eraseFull"}
    <3>1. block = 0
      BY <2>5 DEF UpdaterInv, StepShape
    <3> QED  BY <2>1, <3>1
  <2> QED  BY <2>2, <2>3, <2>4, <2>5 DEF UpdaterInv, Busy
<1>6. Counted'
  BY <1>2, <1>5 DEF UpdaterInv, Counted, Coded
<1> QED  BY <1>1, <1>3, <1>4, <1>6

LEMMA FailInv ==
    ASSUME BootInv, UpdaterInv, PowerFail, UNCHANGED <<runVars, tryVars>>
    PROVE  UpdaterInv'
<1>1. /\ calls' = << >> /\ answer' = << >> /\ mode' = "off" /\ UNCHANGED <<request, step, waiting>>
  BY DEF PowerFail, ramLost, runVars, tryVars
<1>2. Memories' /\ Counted' /\ StepShape'
  BY CallsAreBehind
<1>3. Asked'
  BY <1>1, SameRun DEF UpdaterInv, Asked
<1>4. Busy' /\ Told' /\ Works'
  BY <1>1 DEF Busy, Told, Works, ProgramRuns, Programs, DescribeRuns, Describes
<1>5. DoneIs'
  <2> SUFFICES ASSUME step = "done" PROVE DoneIs'
    BY <1>1 DEF DoneIs
  <2>1. calls = << >>
    BY DEF UpdaterInv, Busy
  <2>2. UNCHANGED flash
    BY <2>1, CallChanges DEF UpdaterInv
  <2> QED  BY <1>1, <2>2, SameFlash DEF UpdaterInv, DoneIs, runVars
<1> QED  BY <1>2, <1>3, <1>4, <1>5 DEF UpdaterInv

\* What a call ends with: an error, the next call, or the result.
LEMMA CallEnds ==
    ASSUME BootInv, FlashCall
    PROVE  /\ calls # << >> /\ UNCHANGED <<ramVars, mode, request>>
           /\ calls' # << >> => command' = command
           /\ \/ \E result \in {"NOT_ALLOWED", "COMPARE_ERROR"} : answer' = << result >> /\ calls' = << >>
              \/ /\ calls[1].op = "erase" => \A c \in Addresses \cap CallCells(calls[1]) : flash'[c] = Erased
                 /\ calls[1].op # "erase" =>
                      /\ \A c \in CallCells(calls[1]) : Programmed(calls[1])[c] # Garbage
                      /\ \A c \in Addresses \cap CallCells(calls[1]) : flash'[c] = Programmed(calls[1])[c]
                 /\ calls' = Tail(calls)
                 /\ IF Tail(calls) = << >>
                      THEN answer' = << IF calls[1].op = "erase" THEN "SUCCESS" ELSE FinalResult >>
                      ELSE UNCHANGED answer
<1>1. calls # << >> /\ Head(calls) = calls[1] /\ UNCHANGED <<ramVars, mode, request>>
      /\ (calls' # << >> => command' = command)
  BY CallKeepsBootloader DEF FlashCall, BootInv
<1> DEFINE call == calls[1]
           erased == [c \in Addresses |-> IF c \in CallCells(call) THEN Erased ELSE flash[c]]
           program == [c \in Addresses |-> IF c \in CallCells(call) THEN Programmed(call)[c] ELSE flash[c]]
<1>2. \/ Refuse("NOT_ALLOWED")
      \/ Refuse("COMPARE_ERROR")
      \/ /\ call.op = "erase" /\ flash' = erased /\ calls' = Tail(calls)
         /\ IF Tail(calls) = << >> THEN Send("SUCCESS") ELSE UNCHANGED answer
      \/ /\ call.op # "erase" /\ flash' = program /\ calls' = Tail(calls)
         /\ \A c \in CallCells(call) : Programmed(call)[c] # Garbage
         /\ IF Tail(calls) = << >> THEN Send(FinalResult) ELSE UNCHANGED answer
  <2> HIDE DEF erased, program
  <2> QED  BY <1>1 DEF FlashCall, erased, program
<1>3. \A result : Refuse(result) => answer' = << result >> /\ calls' = << >>
  BY DEF Refuse, Send
<1> QED  BY <1>1, <1>2, <1>3 DEF Send

\* What a cell holds after it was programmed.
LEMMA ProgrammedIs ==
    ASSUME NEW call, NEW c \in CallCells(call), Programmed(call)[c] # Garbage
    PROVE  Programmed(call)[c] = ramBuffer[call.from + c - call.first + 1]
BY DEF Programmed

LEMMA TailIs ==
    ASSUME NEW S, calls \in Seq(S), calls # << >>
    PROVE  /\ Tail(calls) \in Seq(S) /\ 1 \in DOMAIN calls
           /\ \A k \in DOMAIN Tail(calls) : k + 1 \in DOMAIN calls /\ Tail(calls)[k] = calls[k + 1]
           /\ \A k \in DOMAIN calls : k # 1 => k - 1 \in DOMAIN Tail(calls) /\ Tail(calls)[k - 1] = calls[k]
OBVIOUS

\* A call of a block: its cells are in the flash, or the command has failed.
LEMMA BlockCallDone ==
    ASSUME BootInv, UpdaterInv, FlashCall, UNCHANGED <<runVars, tryVars>>, step = "program"
    PROVE  ProgramRuns' /\ Programs'
<1>1. calls # << >> /\ UNCHANGED ramBuffer
  BY CallEnds DEF ramVars
<1> DEFINE f == BlockFirst
           n == BlockLength
<1>2. /\ addressAllowedToProgram(f, n, FALSE)
      /\ \A i \in 1 .. n : ramBuffer[i] = AppCell(New, block + i)
      /\ calls \in Seq(BlockCalls(f))
      /\ \A k \in DOMAIN calls : \A c \in CallCells(calls[k]) : c >= f
      /\ \A i \in 1 .. n :
           \/ flash[f + i - 1] = AppCell(New, block + i)
           \/ \E k \in DOMAIN calls : f + i - 1 \in CallCells(calls[k])
  BY <1>1 DEF UpdaterInv, Works, ProgramRuns
<1>3. /\ f \in Nat /\ n \in Nat /\ BlockFirst' = f /\ BlockLength' = n /\ step' = step /\ block' = block
      /\ block \in Nat
  BY SameRun, BlockIs, UpdateNumbers DEF UpdaterInv, StepShape
<1>4. f >= applicationFirstAddress /\ f + n - 1 <= LastCell
  BY <1>2 DEF addressAllowedToProgram
<1> HIDE DEF f, n
<1>5. /\ Tail(calls) \in Seq(BlockCalls(f)) /\ 1 \in DOMAIN calls
      /\ \A k \in DOMAIN Tail(calls) : k + 1 \in DOMAIN calls /\ Tail(calls)[k] = calls[k + 1]
      /\ \A k \in DOMAIN calls : k # 1 => k - 1 \in DOMAIN Tail(calls) /\ Tail(calls)[k - 1] = calls[k]
  BY <1>1, <1>2, TailIs
<1>6. calls[1] \in BlockCalls(f)
  BY <1>2, <1>5
<1>7. /\ calls[1].op = "program" /\ calls[1].from = calls[1].first - f
      /\ calls[1].first \in Int
  BY <1>6 DEF BlockCalls, SafeCalls, Calls
<1>8. CASE calls' = << >> /\ \E result \in {"NOT_ALLOWED", "COMPARE_ERROR"} : answer' = << result >>
  <2>1. calls' = << >> /\ answer'[1] # "SUCCESS"
    BY <1>8
  <2> QED  BY <2>1 DEF ProgramRuns, Programs
<1>9. CASE /\ \A c \in CallCells(calls[1]) : Programmed(calls[1])[c] # Garbage
           /\ \A c \in Addresses \cap CallCells(calls[1]) : flash'[c] = Programmed(calls[1])[c]
           /\ calls' = Tail(calls)
  <2>1. ASSUME NEW i \in 1 .. n, f + i - 1 \in CallCells(calls[1])
        PROVE  flash'[f + i - 1] = AppCell(New, block + i)
    <3> DEFINE c == f + i - 1
    <3>1. c \in Addresses /\ c \in Int /\ c = f + i - 1
      BY <1>3, <1>4, PlacesInFlash, PagesInFlash DEF Addresses
    <3> HIDE DEF c
    <3>2. c \in CallCells(calls[1])
      BY <2>1 DEF c
    <3>3. flash'[c] = Programmed(calls[1])[c] /\ Programmed(calls[1])[c] # Garbage
      BY <1>9, <3>1, <3>2
    <3>4. Programmed(calls[1])[c] = ramBuffer[calls[1].from + c - calls[1].first + 1]
      BY <3>2, <3>3, ProgrammedIs
    <3>5. calls[1].from + c - calls[1].first + 1 = i
      BY <1>3, <1>7, <3>1
    <3> QED  BY <1>2, <3>3, <3>4, <3>5 DEF c
  <2>2. \A i \in 1 .. n : f + i - 1 \in Addresses
    BY <1>3, <1>4, PlacesInFlash, PagesInFlash DEF Addresses
  <2>3. \A c \in Addresses : c \notin CallCells(calls[1]) => flash'[c] = flash[c]
    BY CallChanges DEF UpdaterInv
  <2>4. ASSUME NEW i \in 1 .. n
        PROVE  \/ flash'[f + i - 1] = AppCell(New, block + i)
               \/ \E k \in DOMAIN Tail(calls) : f + i - 1 \in CallCells(Tail(calls)[k])
    <3>1. CASE f + i - 1 \in CallCells(calls[1])
      BY <2>1, <3>1
    <3>2. CASE f + i - 1 \notin CallCells(calls[1])
      <4>1. flash'[f + i - 1] = flash[f + i - 1]
        BY <2>2, <2>3, <3>2
      <4>2. \A k \in DOMAIN calls : f + i - 1 \in CallCells(calls[k]) => k # 1
        BY <3>2
      <4> QED  BY <1>2, <1>5, <4>1, <4>2
    <3> QED  BY <3>1, <3>2
  <2>5. \A k \in DOMAIN Tail(calls) : \A c \in CallCells(Tail(calls)[k]) : c >= f
    BY <1>2, <1>5
  <2>6. ProgramRuns'
    BY <1>1, <1>2, <1>3, <1>5, <1>9, <2>4, <2>5 DEF ProgramRuns, f, n
  <2>7. ASSUME answer' # << >> PROVE \A i \in 1 .. n : flash'[f + i - 1] = AppCell(New, block + i)
    <3>1. answer = << >>
      BY <1>1 DEF UpdaterInv, Busy
    <3>2. Tail(calls) = << >>
      BY <1>7, <1>9, <2>7, <3>1, CallEnds
    <3>3. ~ \E k \in DOMAIN Tail(calls) : TRUE
      BY <3>2
    <3> QED  BY <2>4, <3>3
  <2>8. Programs'
    BY <1>2, <1>3, <2>7 DEF Programs, Coded, f, n
  <2> QED  BY <2>6, <2>8
<1> QED  BY <1>7, <1>8, <1>9, CallEnds

\* A call for the descriptor: the command succeeds if all of it is there.
LEMMA DescriptorCallDone ==
    ASSUME BootInv, UpdaterInv, FlashCall, UNCHANGED <<runVars, tryVars>>, step = "updateDesc"
    PROVE  DescribeRuns' /\ Describes'
<1>1. calls # << >> /\ UNCHANGED ramBuffer
  BY CallEnds DEF ramVars
<1>2. /\ \A i \in 1 .. DescLength : ramBuffer[i] = DescCell(New, i)
      /\ calls \in {<< EraseDesc, ProgramDesc >>, << ProgramDesc >>}
  BY <1>1 DEF UpdaterInv, Works, DescribeRuns
<1>3. step' = step /\ block' = block /\ block \in 0 .. Length
  BY SameRun DEF UpdaterInv, StepShape
<1>4. CASE calls' = << >> /\ \E result \in {"NOT_ALLOWED", "COMPARE_ERROR"} : answer' = << result >>
  <2>1. calls' = << >> /\ answer'[1] # "SUCCESS"
    BY <1>4
  <2> QED  BY <2>1 DEF DescribeRuns, Describes
<1>5. answer = << >> /\ command = CommandOf
  BY <1>1 DEF UpdaterInv, Busy
<1>6. CASE calls = << EraseDesc, ProgramDesc >> /\ calls' = Tail(calls)
           /\ (Tail(calls) # << >> => UNCHANGED answer)
  <2>1. calls' = << ProgramDesc >> /\ calls' # << >>
    <3> HIDE DEF EraseDesc, ProgramDesc
    <3> QED  BY <1>6
  <2>2. answer' = << >>
    BY <1>5, <1>6, <2>1
  <2> HIDE DEF EraseDesc, ProgramDesc
  <2> QED  BY <1>1, <1>2, <2>1, <2>2 DEF DescribeRuns, Describes
<1>7. CASE /\ calls = << ProgramDesc >>
           /\ \A c \in CallCells(ProgramDesc) : Programmed(ProgramDesc)[c] # Garbage
           /\ \A c \in Addresses \cap CallCells(ProgramDesc) : flash'[c] = Programmed(ProgramDesc)[c]
           /\ calls' = Tail(calls) /\ (Tail(calls) = << >> => answer' = << FinalResult >>)
  <2>1. calls' = << >> /\ answer' = << FinalResult >>
    <3> HIDE DEF EraseDesc, ProgramDesc, FinalResult
    <3> QED  BY <1>7
  <2>2. FinalResult = DescriptorResult
    <3>1. command.cmd = "UPDATE_BOOT_DESC"
      BY <1>5, CommandIs DEF Steps
    <3> QED  BY <3>1 DEF FinalResult
  <2>3. ASSUME DescriptorResult = "SUCCESS" PROVE DescribesNew'
    <3> DEFINE b == bootDescriptorBlockAddress
    <3>1. HasPlace(New) /\ Coded(NewFirst, 0, Length)
      BY <1>2, <1>3, <2>3, StartableIs
    <3>2. /\ b \in Nat /\ applicationFirstAddress \in Nat /\ b + 2 <= applicationFirstAddress
          /\ NewFirst \in Nat /\ Length \in Nat /\ LastCell \in Nat /\ DescLength = 2
      BY <1>3, PlaceOf
    <3>3. NewFirst >= applicationFirstAddress /\ NewFirst <= LastCell /\ NewFirst + Length - 1 <= LastCell
      BY <3>1, <3>2 DEF HasPlace, NewFirst, Length
    <3> HIDE DEF b
    <3>4. CallCells(ProgramDesc) = b .. applicationFirstAddress - 1
          /\ ProgramDesc.first = b /\ ProgramDesc.from = 0
      BY DescCallsAre DEF b
    <3>5. ASSUME NEW i \in 1 .. DescLength PROVE flash'[b + i - 1] = DescCell(New, i)
      <4> DEFINE c == b + i - 1
      <4>1. c \in Addresses \cap CallCells(ProgramDesc) /\ c \in Int
        BY <3>2, <3>3, <3>4 DEF Addresses
      <4>2. 0 + c - b + 1 = i
        BY <3>2
      <4> HIDE DEF c
      <4>3. flash'[c] = Programmed(ProgramDesc)[c] /\ Programmed(ProgramDesc)[c] # Garbage
        BY <1>7, <4>1
      <4>4. Programmed(ProgramDesc)[c] = ramBuffer[ProgramDesc.from + c - ProgramDesc.first + 1]
        BY <4>1, <4>3, ProgrammedIs
      <4> QED  BY <1>2, <3>4, <4>2, <4>3, <4>4 DEF c
    <3>6. ASSUME NEW i \in 1 .. Length PROVE flash'[NewFirst + i - 1] = AppCell(New, 0 + i)
      <4> DEFINE c == NewFirst + i - 1
      <4>1. c \in Addresses /\ c \notin CallCells(ProgramDesc)
        BY <3>2, <3>3, <3>4 DEF Addresses
      <4> HIDE DEF c
      <4>2. calls[1] = ProgramDesc
        BY <1>7
      <4>3. flash'[c] = flash[c]
        BY <4>1, <4>2, CallChanges DEF UpdaterInv
      <4> QED  BY <3>1, <4>3 DEF Coded, c
    <3>7. HasPlace(New)'
      BY <3>1
    <3> QED  BY <3>5, <3>6, <3>7 DEF DescribesNew, Coded, b
  <2>4. answer'[1] = DescriptorResult
    BY <2>1, <2>2
  <2> QED  BY <2>1, <2>3, <2>4 DEF DescribeRuns, Describes
<1>8. CASE calls = << EraseDesc, ProgramDesc >>
  <2>1. \/ calls' = << >> /\ \E result \in {"NOT_ALLOWED", "COMPARE_ERROR"} : answer' = << result >>
        \/ calls' = Tail(calls) /\ (Tail(calls) # << >> => UNCHANGED answer)
    BY CallEnds
  <2> QED  BY <1>4, <1>6, <1>8, <2>1
<1>9. CASE calls = << ProgramDesc >>
  <2>1. calls[1] = ProgramDesc /\ ProgramDesc.op # "erase"
    BY <1>9, DescCallsAre
  <2>2. \/ calls' = << >> /\ \E result \in {"NOT_ALLOWED", "COMPARE_ERROR"} : answer' = << result >>
        \/ /\ \A c \in CallCells(ProgramDesc) : Programmed(ProgramDesc)[c] # Garbage
           /\ \A c \in Addresses \cap CallCells(ProgramDesc) : flash'[c] = Programmed(ProgramDesc)[c]
           /\ calls' = Tail(calls) /\ (Tail(calls) = << >> => answer' = << FinalResult >>)
    <3> HIDE DEF ProgramDesc, FinalResult
    <3> QED  BY <2>1, CallEnds
  <2> QED  BY <1>4, <1>7, <1>9, <2>2
<1> QED  BY <1>2, <1>8, <1>9

LEMMA CallInv ==
    ASSUME BootInv, UpdaterInv, FlashCall, UNCHANGED <<runVars, tryVars>>
    PROVE  UpdaterInv'
<1>1. /\ calls # << >> /\ UNCHANGED <<mode, request, step, waiting>>
      /\ calls' # << >> => command' = command
  BY CallEnds DEF runVars, tryVars
<1>2. /\ step \in {"eraseFull", "erase", "program", "updateDesc"} /\ waiting
      /\ request = << >> /\ answer = << >> /\ mode = "bootloader" /\ command = CommandOf
  BY <1>1 DEF UpdaterInv, Busy
<1>3. Memories' /\ Counted' /\ StepShape'
  BY CallsAreBehind
<1>4. CommandOf' = CommandOf
  BY SameRun
<1>5. calls' # << >> => answer' = << >>
  <2>1. \/ calls' = << >>
        \/ calls' = Tail(calls) /\ (Tail(calls) # << >> => UNCHANGED answer)
    BY CallEnds
  <2> QED  BY <1>2, <2>1
<1>6. Asked' /\ Told' /\ DoneIs'
  BY <1>1, <1>2, <1>5 DEF Asked, Told, DoneIs, Steps
<1>7. Busy'
  <2> HIDE DEF CommandOf
  <2> QED  BY <1>1, <1>2, <1>4, <1>5 DEF Busy
<1>8. Works'
  <2>1. CASE step = "program"
    BY <1>1, <2>1, BlockCallDone DEF Works, DescribeRuns, Describes
  <2>2. CASE step = "updateDesc"
    BY <1>1, <2>2, DescriptorCallDone DEF Works, ProgramRuns, Programs
  <2>3. CASE step \in {"eraseFull", "erase"}
    BY <1>1, <2>3 DEF Works, ProgramRuns, Programs, DescribeRuns, Describes
  <2> QED  BY <1>2, <2>1, <2>2, <2>3
<1> QED  BY <1>3, <1>6, <1>7, <1>8 DEF UpdaterInv

\* A start with the descriptor of the new application is one of it.
LEMMA StartsNew ==
    ASSUME DescribesNew, Startup
    PROVE  mode' \in {"bootloader", New}
<1>1. /\ bootDescriptorBlockAddress \in Nat /\ DescLength = 2
      /\ \A i \in 1 .. DescLength : flash[bootDescriptorBlockAddress + i - 1] = DescCell(New, i)
  BY PlacesInFlash DEF DescribesNew, DescLength
<1> DEFINE b == bootDescriptorBlockAddress
<1>2. b + 1 - 1 = b
  <2> HIDE DEF b
  <2> QED  BY <1>1 DEF b
<1>3. flash[b] = DescCell(New, 1)
  <2> HIDE DEF b
  <2> QED  BY <1>1, <1>2 DEF b
<1>4. flash[b][2] = New
  BY <1>3 DEF DescCell
<1> QED  BY <1>4 DEF Startup

\* A start, or what does not touch the flash and no telegram but the request.
LEMMA RestartInv ==
    ASSUME UpdaterInv, UNCHANGED <<runVars, tryVars, flash, answer>>, answer = << >>, calls' = << >>,
           ramBuffer' = [i \in 1 .. BufferCells + PageCells |-> ramBuffer'[i]],
           request' \in {request, << >>}, mode' = "bootloader" \/ Startup
    PROVE  UpdaterInv'
<1>1. UNCHANGED <<step, block, waiting>>
  BY DEF runVars, tryVars
<1>2. Busy' /\ Told' /\ Works'
  BY DEF Busy, Told, Works, ProgramRuns, Programs, DescribeRuns, Describes
<1>3. Asked'
  <2>1. CommandOf' = CommandOf
    BY SameRun
  <2> HIDE DEF CommandOf
  <2> QED  BY <1>1, <2>1 DEF UpdaterInv, Asked
<1>4. Counted'
  BY <1>1, SameFlash DEF UpdaterInv, Counted
<1>5. StepShape' /\ Memories'
  BY SameRun DEF UpdaterInv, StepShape, Memories
<1>6. DoneIs'
  <2> SUFFICES ASSUME step = "done" PROVE DescribesNew /\ mode' \in {"bootloader", New}
    BY <1>1, SameFlash DEF DoneIs
  <2> QED  BY StartsNew DEF UpdaterInv, DoneIs
<1> QED  BY <1>2, <1>3, <1>4, <1>5, <1>6 DEF UpdaterInv

LEMMA DeviceInv ==
    ASSUME BootInv, UpdaterInv, BootloaderNext \/ PowerUp, UNCHANGED <<runVars, tryVars>>
    PROVE  UpdaterInv'
<1>1. CASE HandleCommand
  BY <1>1, LightHandled, ProgramHandled, EraseHandled, DescriptorHandled DEF HandleCommand
<1>2. CASE FlashCall
  BY <1>2, CallInv
<1>3. CASE BasicRestart
  <2>1. /\ request # << >> /\ calls' = << >> /\ UNCHANGED <<flash, answer>> /\ request' = << >> /\ Startup
        /\ ramBuffer' = [i \in 1 .. BufferCells + PageCells |-> Unset]
    BY <1>3 DEF BasicRestart, ramLost
  <2>2. answer = << >>
    BY <2>1 DEF UpdaterInv, Asked
  <2> QED  BY <2>1, <2>2, RestartInv
<1>4. CASE MasterReset
  <2>1. /\ request # << >> /\ UNCHANGED <<flash, answer, calls, ramBuffer>> /\ request' = << >>
        /\ mode' = "bootloader"
    BY <1>4 DEF MasterReset, ramVars, workVars
  <2>2. answer = << >> /\ calls = << >>
    BY <2>1 DEF UpdaterInv, Asked
  <2>3. ramBuffer' = [i \in 1 .. BufferCells + PageCells |-> ramBuffer'[i]]
    BY <2>1 DEF UpdaterInv, Memories
  <2> QED  BY <2>1, <2>2, <2>3, RestartInv
<1>5. CASE Unheard
  <2>1. /\ request # << >> /\ UNCHANGED <<flash, answer, calls, ramBuffer, mode, step, block, waiting>>
        /\ request' = << >>
    BY <1>5 DEF Unheard, ramVars, workVars, runVars, tryVars
  <2>2. answer = << >> /\ calls = << >>
    BY <2>1 DEF UpdaterInv, Asked
  <2>3. Asked' /\ Busy' /\ Told' /\ Works'
    BY <2>1, <2>2 DEF Asked, Busy, Told, Works, ProgramRuns, Programs, DescribeRuns, Describes
  <2>4. Counted' /\ DoneIs'
    BY <2>1, SameFlash DEF UpdaterInv, Counted, DoneIs
  <2>5. StepShape' /\ Memories'
    BY <2>1, SameRun DEF UpdaterInv, StepShape, Memories
  <2> QED  BY <2>3, <2>4, <2>5 DEF UpdaterInv
<1>6. CASE PowerUp
  <2>1. /\ mode = "off" /\ Startup /\ UNCHANGED <<flash, answer, request, calls, ramBuffer>>
    BY <1>6 DEF PowerUp, ramVars, workVars, busVars
  <2>2. answer = << >> /\ calls = << >>
    BY <2>1 DEF UpdaterInv, Busy, Told
  <2>3. ramBuffer' = [i \in 1 .. BufferCells + PageCells |-> ramBuffer'[i]]
    BY <2>1 DEF UpdaterInv, Memories
  <2> QED  BY <2>1, <2>2, <2>3, RestartInv
<1> QED  BY <1>1, <1>2, <1>3, <1>4, <1>5, <1>6 DEF BootloaderNext

\* A step of the updater while the device has nothing to do.
LEMMA QuietInv ==
    ASSUME UpdaterInv, DeviceSame, StepShape', calls = << >>, answer' = << >>,
           Asked', Counted', DoneIs'
    PROVE  UpdaterInv'
<1>1. calls' = << >>
  BY DEF DeviceSame, workVars
<1>2. Busy' /\ Told' /\ Works'
  BY <1>1 DEF Busy, Told, Works, ProgramRuns, Programs, DescribeRuns, Describes
<1>3. Memories'
  BY DEF UpdaterInv, Memories, DeviceSame, ramVars
<1> QED  BY <1>2, <1>3 DEF UpdaterInv

LEMMA ClientInv ==
    ASSUME UpdaterInv, Client \/ Lose
    PROVE  UpdaterInv'
<1>0. StepShape'
  BY StepShapeKept DEF UpdaterInv, Next
<1>1. CASE Begin
  <2>1. /\ step \in {"idle", "failed"} /\ request' = << [cmd |-> "MASTER_RESET"] >> /\ answer' = << >>
        /\ step' = "unlock" /\ waiting' = FALSE /\ block' = 0 /\ DeviceSame
    BY <1>1 DEF Begin, NextCommand, DeviceSame
  <2>2. calls = << >> /\ calls' = << >>
    BY <2>1 DEF UpdaterInv, Busy, DeviceSame, workVars
  <2>3. Asked'
    BY <2>1, <2>2 DEF Asked
  <2>4. Counted' /\ DoneIs'
    BY <2>1 DEF Counted, Coded, DoneIs
  <2> QED  BY <1>0, <2>1, <2>2, <2>3, <2>4, QuietInv
<1>2. CASE SendCommand
  <2>1. /\ step \in Steps /\ ~waiting /\ request' = << CommandOf >> /\ waiting' = TRUE
        /\ UNCHANGED <<answer, runVars, step, block>> /\ DeviceSame
    BY <1>2 DEF SendCommand, DeviceSame, runVars
  <2>2. calls = << >> /\ answer = << >> /\ calls' = << >>
    BY <2>1 DEF UpdaterInv, Busy, Told, DeviceSame, workVars
  <2>3. CommandOf' = CommandOf
    BY <2>1, SameRun
  <2>4. Asked'
    <3> HIDE DEF CommandOf
    <3> QED  BY <2>1, <2>2, <2>3 DEF Asked
  <2>5. Counted' /\ DoneIs'
    BY <2>1, SameFlash DEF UpdaterInv, Counted, DoneIs, DeviceSame
  <2> QED  BY <1>0, <2>1, <2>2, <2>4, <2>5, QuietInv
<1>3. CASE GetResult
  <2>1. /\ step \in Steps /\ waiting /\ answer # << >> /\ request = << >> /\ answer' = << >> /\ DeviceSame
        /\ waiting' = FALSE
    BY <1>3, ResultIs
  <2>2. calls = << >> /\ calls' = << >> /\ mode = "bootloader"
    BY <2>1 DEF UpdaterInv, Told, DeviceSame, workVars
  <2>3. UNCHANGED <<flash, mode>>
    BY <2>1 DEF DeviceSame
  <2>4. CASE UNCHANGED <<block, request>> /\ step' \in Steps
    <3>1. Asked' /\ DoneIs'
      BY <2>1, <2>4 DEF Asked, DoneIs, Steps
    <3>2. Counted'
      BY <2>1, <2>3, <2>4, SameFlash DEF UpdaterInv, Counted
    <3> QED  BY <1>0, <2>1, <2>2, <3>1, <3>2, QuietInv
  <2>5. CASE step' = "failed" /\ UNCHANGED block /\ request' \in {<< >>, << [cmd |-> "RESTART"] >>}
    <3>1. Asked' /\ DoneIs'
      BY <2>1, <2>2, <2>5 DEF Asked, DoneIs
    <3>2. Counted'
      BY <2>1, <2>3, <2>5, SameFlash DEF UpdaterInv, Counted, Steps
    <3> QED  BY <1>0, <2>1, <2>2, <3>1, <3>2, QuietInv
  <2>6. CASE /\ step = "program" /\ answer[1] = "SUCCESS" /\ UNCHANGED request
             /\ block' = block + BlockLength
             /\ step' = IF FileIsRead THEN "sendDesc" ELSE "send"
    <3>1. Asked' /\ DoneIs'
      BY <2>1, <2>6 DEF Asked, DoneIs
    <3>2. addressAllowedToProgram(BlockFirst, BlockLength, FALSE) /\ Coded(BlockFirst, block, BlockLength)
      BY <2>1, <2>6 DEF UpdaterInv, Works, Programs
    <3>3. Coded(NewFirst, 0, block) /\ block \in 0 .. Length
      BY <2>1 DEF UpdaterInv, Counted, StepShape
    <3> DEFINE n == BlockLength
    <3>4. /\ n \in Nat /\ NewFirst \in Nat /\ block \in Nat /\ BlockFirst = NewFirst + block
          /\ applicationFirstAddress \in Nat /\ LastCell \in Nat
      BY <3>3, BlockIs, PlaceOf
    <3>5. BlockFirst >= applicationFirstAddress /\ BlockFirst + n - 1 <= LastCell
      BY <3>2 DEF addressAllowedToProgram
    <3> HIDE DEF n
    <3>6. ASSUME NEW i \in 1 .. block + n PROVE flash[NewFirst + i - 1] = AppCell(New, 0 + i)
      <4>1. CASE i <= block
        BY <3>3, <3>4, <4>1 DEF Coded
      <4>2. CASE i > block
        <5> DEFINE j == i - block
        <5>1. j \in 1 .. n /\ BlockFirst + j - 1 = NewFirst + i - 1 /\ block + j = 0 + i
          BY <3>4, <4>2
        <5> HIDE DEF j
        <5>2. flash[BlockFirst + j - 1] = AppCell(New, block + j)
          BY <3>2, <5>1 DEF Coded, n
        <5> QED  BY <5>1, <5>2
      <4> QED  BY <3>4, <4>1, <4>2
    <3>7. block' = block + n
      BY <2>6 DEF n
    <3>8. Coded(NewFirst, 0, block)'
      <4>1. NewFirst' = NewFirst /\ AppCell(New, 0)' = AppCell(New, 0)
        BY DEF NewFirst
      <4> QED  BY <2>3, <3>6, <3>7, <4>1 DEF Coded
    <3>9. block' > 0 => NewFirst >= applicationFirstAddress /\ NewFirst + block' - 1 <= LastCell
      <4>1. NewFirst >= applicationFirstAddress
        <5>1. CASE block = 0
          BY <3>4, <3>5, <5>1
        <5>2. CASE block > 0
          BY <5>2 DEF UpdaterInv, Counted
        <5> QED  BY <3>4, <5>1, <5>2
      <4> QED  BY <3>4, <3>5, <3>7, <4>1
    <3>10. Counted'
      BY <3>8, <3>9 DEF Counted
    <3> QED  BY <1>0, <2>1, <2>2, <3>1, <3>10, QuietInv
  <2>7. CASE /\ step = "updateDesc" /\ answer[1] = "SUCCESS" /\ step' = "done"
             /\ UNCHANGED block /\ request' = << [cmd |-> "RESTART"] >>
    <3>1. DescribesNew
      BY <2>1, <2>7 DEF UpdaterInv, Works, Describes
    <3>2. Asked'
      BY <2>1, <2>2, <2>7 DEF Asked
    <3>3. DoneIs'
      BY <2>2, <2>3, <2>7, <3>1, SameFlash DEF DoneIs
    <3>4. Counted'
      BY <2>1, <2>3, <2>7, SameFlash DEF UpdaterInv, Counted, Steps
    <3> QED  BY <1>0, <2>1, <2>2, <3>2, <3>3, <3>4, QuietInv
  <2>8. \/ UNCHANGED <<block, request>> /\ step' \in Steps
        \/ step' = "failed" /\ UNCHANGED block /\ request' \in {<< >>, << [cmd |-> "RESTART"] >>}
        \/ /\ step = "program" /\ answer[1] = "SUCCESS" /\ UNCHANGED request
           /\ block' = block + BlockLength
           /\ step' = IF FileIsRead THEN "sendDesc" ELSE "send"
        \/ /\ step = "updateDesc" /\ answer[1] = "SUCCESS" /\ step' = "done"
           /\ UNCHANGED block /\ request' = << [cmd |-> "RESTART"] >>
    <3> HIDE DEF BlockLength, DescLength, FileIsRead
    <3> QED  BY <1>3, <2>1, ResultIs DEF Steps
  <2> QED  BY <2>4, <2>5, <2>6, <2>7, <2>8
<1>4. CASE NoResult
  <2>1. /\ step \in Steps /\ request = << >> /\ answer = << >> /\ calls = << >>
        /\ UNCHANGED <<request, answer, block>> /\ step' \in {step, "failed"} /\ DeviceSame
    BY <1>4 DEF NoResult, Fail, NextCommand, DeviceSame, runVars
  <2>2. Asked' /\ DoneIs'
    BY <2>1 DEF Asked, DoneIs, Steps
  <2>3. Counted'
    BY <2>1, SameFlash DEF UpdaterInv, Counted, Steps, DeviceSame
  <2> QED  BY <1>0, <2>1, <2>2, <2>3, QuietInv
<1>5. CASE Lose
  <2>1. /\ UNCHANGED <<block, waiting, sentCells>> /\ DeviceSame
        /\ step' = IF step = "done" THEN "failed" ELSE step
    BY <1>5 DEF Lose, DeviceSame, tryVars
  <2>2. calls = << >> /\ calls' = << >> /\ request' = << >> /\ answer' = << >>
    <3>1. answer # << >> => request = << >> /\ calls = << >>
      BY DEF UpdaterInv, Told
    <3>2. request # << >> => answer = << >> /\ calls = << >>
      BY DEF UpdaterInv, Asked
    <3>3. \/ request # << >> /\ request' = << >> /\ UNCHANGED answer
          \/ answer # << >> /\ answer' = << >> /\ UNCHANGED request
      BY <1>5 DEF Lose
    <3> QED  BY <2>1, <3>1, <3>2, <3>3 DEF DeviceSame, workVars
  <2>3. Asked' /\ DoneIs'
    BY <2>1, <2>2 DEF Asked, DoneIs
  <2>4. Counted'
    BY <2>1, SameFlash DEF UpdaterInv, Counted, Steps, DeviceSame
  <2> QED  BY <1>0, <2>1, <2>2, <2>3, <2>4, QuietInv
<1> QED  BY <1>1, <1>2, <1>3, <1>4, <1>5 DEF Client

LEMMA UpdaterNextInv ==
    ASSUME BootInv, UpdaterInv, [Next]_updaterVars
    PROVE  UpdaterInv'
<1>1. CASE Client \/ Lose
  BY <1>1, ClientInv
<1>2. CASE Device
  BY <1>2, DeviceInv DEF Device
<1>3. CASE PowerOn
  BY <1>3, DeviceInv DEF PowerOn
<1>4. CASE PowerFailure
  BY <1>4, FailInv DEF PowerFailure
<1>5. CASE UNCHANGED updaterVars
  <2>1. /\ UNCHANGED <<runVars, waiting, block, step>>
        /\ UNCHANGED <<flash, ramBuffer, mode, calls, command, request, answer>>
    BY <1>5 DEF updaterVars, bootVars, ramVars, workVars, busVars, runVars, tryVars
  <2>2. CommandOf' = CommandOf /\ BlockFirst' = BlockFirst /\ BlockLength' = BlockLength
    BY <2>1, SameRun
  <2>3. StepShape'
    BY <2>1, SameRun DEF UpdaterInv, StepShape
  <2> HIDE DEF CommandOf, BlockFirst, BlockLength
  <2>4. Asked' /\ Busy' /\ Told'
    BY <2>1, <2>2 DEF UpdaterInv, Asked, Busy, Told
  <2>5. Counted' /\ DoneIs' /\ Memories' /\ Describes' /\ DescribeRuns'
    BY <2>1, SameFlash DEF UpdaterInv, Counted, DoneIs, Memories, Works, Describes, DescribeRuns
  <2>6. Programs' /\ ProgramRuns'
    BY <2>1, <2>2 DEF UpdaterInv, Works, Programs, ProgramRuns, Coded
  <2> QED  BY <2>3, <2>4, <2>5, <2>6 DEF UpdaterInv, Works
<1> QED  BY <1>1, <1>2, <1>3, <1>4, <1>5 DEF Next

LEMMA UpdaterInitInv == UpdaterInit => UpdaterInv
<1> SUFFICES ASSUME UpdaterInit PROVE UpdaterInv
  OBVIOUS
<1>1. StepShape
  BY StepShapeInit
<1>2. /\ BootloaderInit(Old) /\ step = "idle" /\ block = 0
      /\ calls = << >> /\ request = << >> /\ answer = << >>
  BY DEF UpdaterInit, BootloaderInit
<1>3. Memories
  BY <1>2 DEF BootloaderInit, Memories
<1>4. Asked /\ Busy /\ Told /\ Works
  BY <1>2 DEF Asked, Busy, Told, Works, ProgramRuns, Programs, DescribeRuns, Describes
<1>5. Counted /\ DoneIs
  BY <1>2 DEF Counted, Coded, DoneIs, Steps
<1> QED  BY <1>1, <1>3, <1>4, <1>5 DEF UpdaterInv

LEMMA UpdaterKeepsInv == UpdaterSpec => []UpdaterInv
<1>1. UpdaterInit => UpdaterInv
  BY UpdaterInitInv
<1>2. BootInv /\ UpdaterInv /\ [Next]_updaterVars => UpdaterInv'
  BY UpdaterNextInv
<1> QED  BY <1>1, <1>2, UpdaterIsAllowed, BootKeepsInv, PTL DEF UpdaterSpec

\* What the invariant says of the contents of the flash, as sequences.
LEMMA CodedIs ==
    ASSUME NEW n \in 0 .. Length, Coded(NewFirst, 0, n)
    PROVE  FlashContent(NewFirst, n) = SubSeq(Code(New), 1, n)
<1>1. Length \in Nat /\ n \in Nat
  BY UpdateNumbers
<1> DEFINE code == Code(New)
           S == {code[i] : i \in 1 .. n}
<1>2. \A i \in 1 .. n : code[i] = AppCell(New, 0 + i)
  BY <1>1 DEF Code, Length
<1>3. \A i \in 1 .. n : code[i] \in S
  OBVIOUS
<1> HIDE DEF code, S
<1>4. /\ SubSeq(code, 1, n) \in Seq(S)
      /\ Len(SubSeq(code, 1, n)) = IF 1 <= n THEN n - 1 + 1 ELSE 0
      /\ \A i \in 1 .. n - 1 + 1 : SubSeq(code, 1, n)[i] = code[1 + i - 1]
  BY <1>1, <1>3, SubSeqProperties
<1> DEFINE cut == SubSeq(code, 1, n)
<1> HIDE DEF cut
<1>5. /\ cut = [i \in 1 .. n |-> cut[i]]
  <2>1. Len(cut) = n
    BY <1>1, <1>4 DEF cut
  <2> QED  BY <1>4, <2>1 DEF cut
<1>6. \A i \in 1 .. n : cut[i] = flash[NewFirst + i - 1]
  <2> SUFFICES ASSUME NEW i \in 1 .. n PROVE cut[i] = flash[NewFirst + i - 1]
    OBVIOUS
  <2>1. 1 + i - 1 = i /\ i \in 1 .. n - 1 + 1
    BY <1>1
  <2>2. cut[i] = code[i]
    BY <1>4, <2>1 DEF cut
  <2> QED  BY <1>2, <2>2 DEF Coded
<1> QED  BY <1>5, <1>6 DEF FlashContent, cut, code

LEMMA CodeIs == SubSeq(Code(New), 1, Length) = Code(New)
<1> DEFINE code == Code(New)
           S == {code[i] : i \in 1 .. Length}
<1>1. Length \in Nat /\ code = [i \in 1 .. Length |-> code[i]]
  BY UpdateNumbers DEF Code, Length
<1>2. \A i \in 1 .. Length : code[i] \in S
  OBVIOUS
<1> HIDE DEF code, S
<1>3. code \in Seq(S) /\ Len(code) = Length
  BY <1>1, <1>2
<1> QED  BY <1>3 DEF code

LEMMA UpdaterInvImplies ==
    ASSUME UpdaterInv
    PROVE  CountedIsProgrammed /\ DoneStartsNew
<1>1. CountedIsProgrammed
  <2> SUFFICES ASSUME step \in Steps
               PROVE  FlashContent(NewFirst, block) = SubSeq(Code(New), 1, block)
    BY DEF CountedIsProgrammed, NewFirst
  <2>1. block \in 0 .. Length /\ Coded(NewFirst, 0, block)
    BY DEF UpdaterInv, Counted, StepShape
  <2> QED  BY <2>1, CodedIs
<1>2. DoneStartsNew
  <2> SUFFICES ASSUME step = "done"
               PROVE  /\ FlashContent(bootDescriptorBlockAddress, DescLength) = Descriptor(New)
                      /\ FlashContent(NewFirst, Length) = Code(New)
                      /\ mode \in {"off", "bootloader", New}
    BY DEF DoneStartsNew, NewFirst
  <2>1. DescribesNew /\ mode \in {"off", "bootloader", New}
    BY DEF UpdaterInv, DoneIs
  <2>2. FlashContent(NewFirst, Length) = Code(New)
    <3>1. Length \in 0 .. Length
      BY UpdateNumbers
    <3> QED  BY <2>1, <3>1, CodedIs, CodeIs DEF DescribesNew
  <2>3. FlashContent(bootDescriptorBlockAddress, DescLength) = Descriptor(New)
    <3> HIDE DEF bootDescriptorBlockAddress
    <3> QED  BY <2>1 DEF DescribesNew, FlashContent, Descriptor
  <2> QED  BY <2>1, <2>2, <2>3
<1> QED  BY <1>1, <1>2

\* What the updater counts as programmed is in the flash, whatever was lost,
\* repeated and sent twice on the way (DeviceManagement.java, update.cpp).
THEOREM CountsWhatIsThere == UpdaterSpec => []CountedIsProgrammed
BY UpdaterInvImplies, UpdaterKeepsInv, PTL

\* An update that reports success leaves a device that starts the new
\* application (DeviceManagement.java, boot_descriptor_block.cpp).
THEOREM SuccessStartsNew == UpdaterSpec => []DoneStartsNew
BY UpdaterInvImplies, UpdaterKeepsInv, PTL


-----------------------------------------------------------------------------
(* Parts of sequences *)

\* A part of a sequence, as a function.
LEMMA PartIs ==
    ASSUME NEW s, NEW a \in Int, NEW n \in Nat
    PROVE  /\ SubSeq(s, a + 1, a + n) = [j \in 1 .. n |-> s[a + j]]
           /\ Len(SubSeq(s, a + 1, a + n)) = n
<1> DEFINE S == {s[i] : i \in a + 1 .. a + n}
           cut == SubSeq(s, a + 1, a + n)
<1>1. \A i \in a + 1 .. a + n : s[i] \in S
  OBVIOUS
<1> HIDE DEF S
<1>2. /\ cut \in Seq(S)
      /\ Len(cut) = IF a + 1 <= a + n THEN (a + n) - (a + 1) + 1 ELSE 0
      /\ \A i \in 1 .. (a + n) - (a + 1) + 1 : cut[i] = s[(a + 1) + i - 1]
  BY <1>1, SubSeqProperties
<1> HIDE DEF cut
<1>3. Len(cut) = n
  BY <1>2
<1>4. \A i \in 1 .. n : cut[i] = s[a + i]
  <2> SUFFICES ASSUME NEW i \in 1 .. n PROVE cut[i] = s[a + i]
    OBVIOUS
  <2>1. i \in 1 .. (a + n) - (a + 1) + 1 /\ (a + 1) + i - 1 = a + i
    OBVIOUS
  <2> QED  BY <1>2, <2>1
<1>5. cut = [i \in 1 .. n |-> cut[i]]
  BY <1>2, <1>3
<1>6. cut = [j \in 1 .. n |-> s[a + j]]
  BY <1>4, <1>5
<1> QED  BY <1>3, <1>6 DEF cut

\* Parts that follow each other are one part.
LEMMA PartsJoin ==
    ASSUME NEW s, NEW a \in Nat, NEW b \in Nat, NEW c \in Nat, a <= b, b <= c
    PROVE  SubSeq(s, a + 1, b) \o SubSeq(s, b + 1, c) = SubSeq(s, a + 1, c)
<1> DEFINE m == b - a
           n == c - b
           l == SubSeq(s, a + 1, b)
           r == SubSeq(s, b + 1, c)
<1>1. m \in Nat /\ n \in Nat /\ b = a + m /\ c = b + n /\ c = a + (m + n) /\ m + n \in Nat
  OBVIOUS
<1> HIDE DEF m, n
<1>2. l = [j \in 1 .. m |-> s[a + j]]
  BY <1>1, PartIs
<1>3. r = [j \in 1 .. n |-> s[b + j]]
  BY <1>1, PartIs
<1>4. SubSeq(s, a + 1, c) = [j \in 1 .. m + n |-> s[a + j]]
  BY <1>1, PartIs
<1> DEFINE S == {s[j] : j \in 1 .. c}
<1>5. l \in Seq(S) /\ Len(l) = m /\ r \in Seq(S) /\ Len(r) = n
  <2>1. \A j \in 1 .. m : s[a + j] \in S
    BY <1>1
  <2>2. \A j \in 1 .. n : s[b + j] \in S
    BY <1>1
  <2> HIDE DEF S, l, r
  <2> QED  BY <1>1, <1>2, <1>3, <2>1, <2>2
<1> HIDE DEF l, r, S
<1>6. l \o r = [j \in 1 .. m + n |-> IF j <= m THEN l[j] ELSE r[j - m]]
  <2> DEFINE t == l \o r
  <2>1. /\ t \in Seq(S) /\ Len(t) = m + n
        /\ \A j \in 1 .. m + n : t[j] = IF j <= m THEN l[j] ELSE r[j - m]
    BY <1>1, <1>5
  <2> HIDE DEF t
  <2>2. t = [j \in 1 .. m + n |-> t[j]]
    BY <2>1
  <2> QED  BY <2>1, <2>2 DEF t
<1>7. ASSUME NEW j \in 1 .. m + n PROVE (IF j <= m THEN l[j] ELSE r[j - m]) = s[a + j]
  <2>1. CASE j <= m
    BY <1>1, <1>2, <2>1
  <2>2. CASE j > m
    <3>1. j - m \in 1 .. n /\ b + (j - m) = a + j
      BY <1>1, <2>2
    <3>2. r[j - m] = s[b + (j - m)]
      BY <1>3, <3>1
    <3> QED  BY <1>1, <2>2, <3>1, <3>2
  <2> QED  BY <1>1, <2>1, <2>2
<1>8. l \o r = [j \in 1 .. m + n |-> s[a + j]]
  BY <1>6, <1>7
<1> QED  BY <1>4, <1>8 DEF l, r

-----------------------------------------------------------------------------
(* The parts of a sequence, in their order, make up the sequence *)

IsFlatten(f, seqs) ==
    f = [i \in 1 .. Len(seqs) |-> IF i = 1 THEN seqs[i] ELSE f[i - 1] \o seqs[i]]

\* Where each part ends.
Cut(seqs, s, ends) ==
    /\ \A k \in 0 .. Len(seqs) : ends[k] \in Nat
    /\ \A k \in 1 .. Len(seqs) : ends[k - 1] <= ends[k] /\ seqs[k] = SubSeq(s, ends[k - 1] + 1, ends[k])

LEMMA FlattenIs ==
    ASSUME NEW seqs, NEW s, NEW ends, Len(seqs) \in Nat, Cut(seqs, s, ends),
           NEW f, IsFlatten(f, seqs)
    PROVE  \A i \in 1 .. Len(seqs) : ends[0] <= ends[i] /\ f[i] = SubSeq(s, ends[0] + 1, ends[i])
<1> DEFINE n == Len(seqs)
           Right(i) == ends[0] <= ends[i] /\ f[i] = SubSeq(s, ends[0] + 1, ends[i])
           Z == {i \in Nat : i \in 1 .. n => Right(i)}
<1>1. /\ \A k \in 0 .. n : ends[k] \in Nat
      /\ \A k \in 1 .. n : ends[k - 1] <= ends[k] /\ seqs[k] = SubSeq(s, ends[k - 1] + 1, ends[k])
  BY DEF Cut
<1>2. n \in Nat /\ \A i \in 1 .. n : f[i] = IF i = 1 THEN seqs[i] ELSE f[i - 1] \o seqs[i]
  BY DEF IsFlatten
<1> HIDE DEF n
<1>3. 0 \in Z
  OBVIOUS
<1>4. ASSUME NEW i \in Z PROVE i + 1 \in Z
  <2> DEFINE l == i + 1
  <2> SUFFICES ASSUME l \in 1 .. n PROVE Right(l)
    OBVIOUS
  <2>1. l - 1 = i /\ i \in Nat /\ (i # 0 => i \in 1 .. n) /\ i \in 0 .. n /\ 0 \in 0 .. n /\ l \in 0 .. n
    BY <1>2
  <2>2. l = 1 <=> i = 0
    BY <2>1
  <2> HIDE DEF l
  <2>3. ends[0] \in Nat /\ ends[i] \in Nat /\ ends[l] \in Nat /\ ends[i] <= ends[l]
        /\ seqs[l] = SubSeq(s, ends[i] + 1, ends[l])
    BY <1>1, <2>1
  <2>4. CASE i = 0
    <3>1. f[l] = seqs[l]
      BY <1>2, <2>2, <2>4
    <3> QED  BY <2>3, <2>4, <3>1
  <2>5. CASE i # 0
    <3>1. f[l] = f[i] \o seqs[l]
      BY <1>2, <2>1, <2>2, <2>5
    <3>2. Right(i)
      BY <1>4, <2>1, <2>5
    <3>3. SubSeq(s, ends[0] + 1, ends[i]) \o SubSeq(s, ends[i] + 1, ends[l]) = SubSeq(s, ends[0] + 1, ends[l])
      BY <2>3, <3>2, PartsJoin
    <3>4. f[l] = SubSeq(s, ends[0] + 1, ends[l])
      BY <2>3, <3>1, <3>2, <3>3, Zenon
    <3>5. ends[0] <= ends[l]
      BY <2>3, <3>2
    <3> QED  BY <3>4, <3>5
  <2> QED  BY <2>4, <2>5
<1>5. Z = Nat
  <2>1. Z \in SUBSET Nat
    OBVIOUS
  <2> HIDE DEF Z
  <2> QED  BY <1>3, <1>4, <2>1, SetInduction
<1>6. ASSUME NEW i \in 1 .. n PROVE Right(i)
  <2>1. i \in Z
    <3> HIDE DEF Z
    <3> QED  BY <1>2, <1>5
  <2> QED  BY <2>1
<1> QED  BY <1>6 DEF n

LEMMA FlattenParts ==
    ASSUME NEW seqs, NEW s, NEW ends, Len(seqs) \in Nat \ {0}, Cut(seqs, s, ends)
    PROVE  FlattenSeq(seqs) = SubSeq(s, ends[0] + 1, ends[Len(seqs)])
<1> DEFINE flatten[i \in 1 .. Len(seqs)] == IF i = 1 THEN seqs[i] ELSE flatten[i - 1] \o seqs[i]
<1>1. FlattenSeq(seqs) = IF Len(seqs) = 0 THEN seqs ELSE flatten[Len(seqs)]
  BY Zenon DEF FlattenSeq, flatten
<1>2. flatten = CHOOSE h : IsFlatten(h, seqs)
  BY Zenon DEF IsFlatten
<1> HIDE DEF flatten
<1>3. \E h : IsFlatten(h, seqs)
  <2> DEFINE h == [i \in 1 .. Len(seqs) |-> SubSeq(s, ends[0] + 1, ends[i])]
             n == Len(seqs)
             Z == {i \in Nat : i <= n => ends[0] <= ends[i]}
  <2>0. n \in Nat /\ \A i \in 0 .. n : ends[i] \in Nat
    BY DEF Cut
  <2>1. \A i \in 1 .. n : ends[i - 1] <= ends[i] /\ seqs[i] = SubSeq(s, ends[i - 1] + 1, ends[i])
    BY DEF Cut
  <2> HIDE DEF n
  <2>2. \A i \in 0 .. n : ends[0] <= ends[i]
    <3>1. 0 \in Z
      BY <2>0
    <3>2. ASSUME NEW i \in Z PROVE i + 1 \in Z
      <4> SUFFICES ASSUME i + 1 <= n PROVE ends[0] <= ends[i + 1]
        OBVIOUS
      <4>1. i + 1 \in 1 .. n /\ i + 1 - 1 = i /\ i \in 0 .. n /\ i + 1 \in 0 .. n /\ 0 \in 0 .. n /\ i <= n
        BY <2>0
      <4>2. ends[i] <= ends[i + 1]
        BY <2>1, <4>1
      <4>3. ends[0] <= ends[i]
        BY <3>2, <4>1
      <4>4. ends[0] \in Nat /\ ends[i] \in Nat /\ ends[i + 1] \in Nat
        BY <2>0, <4>1
      <4> QED  BY <4>2, <4>3, <4>4
    <3>3. Z \in SUBSET Nat
      OBVIOUS
    <3>4. Z = Nat
      <4> HIDE DEF Z
      <4> QED  BY <3>1, <3>2, <3>3, SetInduction
    <3> QED  BY <3>4
  <2>3. ASSUME NEW i \in 1 .. n PROVE h[i] = IF i = 1 THEN seqs[i] ELSE h[i - 1] \o seqs[i]
    <3>1. h[i] = SubSeq(s, ends[0] + 1, ends[i])
      BY DEF n
    <3>2. CASE i = 1
      <4>1. 1 - 1 = 0
        OBVIOUS
      <4> QED  BY <2>1, <3>1, <3>2, <4>1
    <3>3. CASE i # 1
      <4>1. i - 1 \in 1 .. n /\ i - 1 \in 0 .. n /\ i \in 0 .. n /\ 0 \in 0 .. n
        BY <2>0, <3>3
      <4>2. h[i - 1] = SubSeq(s, ends[0] + 1, ends[i - 1])
        BY <4>1 DEF n
      <4>3. /\ ends[0] \in Nat /\ ends[i - 1] \in Nat /\ ends[i] \in Nat
            /\ ends[0] <= ends[i - 1] /\ ends[i - 1] <= ends[i]
        BY <2>0, <2>1, <2>2, <4>1
      <4>4. seqs[i] = SubSeq(s, ends[i - 1] + 1, ends[i])
        BY <2>1
      <4>5. SubSeq(s, ends[0] + 1, ends[i - 1]) \o SubSeq(s, ends[i - 1] + 1, ends[i])
              = SubSeq(s, ends[0] + 1, ends[i])
        BY <4>3, PartsJoin
      <4>6. h[i] = h[i - 1] \o seqs[i]
        <5> HIDE DEF h
        <5> QED  BY <3>1, <4>2, <4>4, <4>5, Zenon
      <4> HIDE DEF h
      <4> QED  BY <3>3, <4>6
    <3> QED  BY <3>2, <3>3
  <2>4. h = [i \in 1 .. n |-> h[i]]
    BY DEF n
  <2> HIDE DEF h
  <2>5. h = [i \in 1 .. n |-> IF i = 1 THEN seqs[i] ELSE h[i - 1] \o seqs[i]]
    BY <2>3, <2>4
  <2> QED  BY <2>5 DEF IsFlatten, n
<1>4. IsFlatten(flatten, seqs)
  BY <1>2, <1>3, Zenon
<1> QED  BY <1>1, <1>4, FlattenIs

-----------------------------------------------------------------------------
(* The commands of a page: generateDiff() *)

LEMMA MaxIn ==
    ASSUME NEW n \in Nat, NEW S \in SUBSET (0 .. n), S # {}
    PROVE  Max(S) \in S /\ \A x \in S : x <= Max(S)
<1>1. \E x \in S : \A y \in S : y <= x
  BY Greatest
<1>2. \E x \in S : \A y \in S : x >= y
  BY <1>1
<1>3. Max(S) \in S /\ \A y \in S : Max(S) >= y
  BY <1>2 DEF Max
<1> QED  BY <1>3

LEMMA MinIn ==
    ASSUME NEW S \in SUBSET Nat, S # {}
    PROVE  Min(S) \in S /\ \A x \in S : Min(S) <= x
BY Smallest DEF Min

DiffNumbers ==
    /\ PageSize \in Nat \ {0} /\ WindowPages \in Nat \ {0} /\ MinPattern \in Nat \ {0}
    /\ MaxCopy \in Nat \ {0} /\ RomPages \in Nat \ {0}
    /\ WindowPages * PageSize \in Nat \ {0} /\ RomPages * PageSize \in Nat \ {0}

LEMMA DiffNumbersHold == DiffNumbers
<1>1. /\ PageSize \in Nat \ {0} /\ WindowPages \in Nat \ {0} /\ MinPattern \in Nat \ {0}
      /\ MaxCopy \in Nat \ {0} /\ RomPages \in Nat \ {0}
  BY FlashDiffAssumption
<1>2. \A a, b \in Nat \ {0} : a * b \in Nat \ {0}
  OBVIOUS
<1> QED  BY <1>1, <1>2 DEF DiffNumbers

\* As many bytes are common as both sides have, and they are the same bytes.
LEMMA CommonIs ==
    ASSUME NEW src, Len(src) \in Nat, Len(new) \in Nat,
           NEW s \in 0 .. Len(src) - 1, NEW i \in 0 .. Len(new) - 1
    PROVE  LET n == common(src, s, i)
           IN /\ n \in Nat /\ n <= MaxCopy /\ s + n <= Len(src) /\ i + n <= Len(new)
              /\ \A j \in 1 .. n : src[s + j] = new[i + j]
<1> DEFINE T == {Len(src) - s, Len(new) - i, MaxCopy}
           S == {n \in 0 .. Min(T) : \A j \in 1..n : src[s + j] = new[i + j]}
           n == common(src, s, i)
<1>1. T \in SUBSET Nat /\ T # {}
  BY DiffNumbersHold DEF DiffNumbers
<1>2. Min(T) \in T /\ \A x \in T : Min(T) <= x
  BY <1>1, MinIn
<1>3. Min(T) \in Nat /\ Min(T) <= Len(src) - s /\ Min(T) <= Len(new) - i /\ Min(T) <= MaxCopy
  BY <1>1, <1>2
<1>4. 0 \in S /\ S \in SUBSET (0 .. Min(T))
  BY <1>3
<1>5. n = Max(S)
  BY DEF common
<1>6. n \in S
  <2> HIDE DEF S, n
  <2>1. Max(S) \in S
    BY <1>3, <1>4, MaxIn
  <2> QED  BY <1>5, <2>1
<1> HIDE DEF n
<1>7. n \in 0 .. Min(T) /\ \A j \in 1 .. n : src[s + j] = new[i + j]
  BY <1>6
<1> HIDE DEF T, S
<1>8. n <= Len(src) - s /\ n <= Len(new) - i /\ n <= MaxCopy /\ n \in Nat
  BY <1>3, <1>7, DiffNumbersHold DEF DiffNumbers
<1>9. n \in Nat /\ n <= MaxCopy /\ s + n <= Len(src) /\ i + n <= Len(new)
  BY <1>8, DiffNumbersHold DEF DiffNumbers
<1> QED  BY <1>7, <1>9 DEF n

\* What is copied is in the source, stays in the page and in the image, and is
\* what the image has there.
LEMMA LongestIs ==
    ASSUME NEW src, Len(src) \in Nat \ {0}, Len(new) \in Nat, NEW i \in 0 .. Len(new) - 1
    PROVE  LET l == letLongestCommonBytes(src, i)
           IN /\ l.offset \in Nat /\ l.length \in Nat
              /\ l.offset + l.length <= Len(src) /\ i + l.length <= Len(new)
              /\ l.length <= PageSize - (i % PageSize)
              /\ \A j \in 1 .. l.length : src[l.offset + j] = new[i + j]
<1> DEFINE S == 0 .. Len(src) - 1
           L == {common(src, s, i) : s \in S}
           n == Max(L)
           O == {s \in S : common(src, s, i) = n}
           o == Min(O)
           r == PageSize - (i % PageSize)
           l == letLongestCommonBytes(src, i)
<1>1. \A s \in S : /\ common(src, s, i) \in Nat /\ common(src, s, i) <= MaxCopy
                   /\ s + common(src, s, i) <= Len(src) /\ i + common(src, s, i) <= Len(new)
                   /\ \A j \in 1 .. common(src, s, i) : src[s + j] = new[i + j]
  BY CommonIs
<1>2. L \in SUBSET (0 .. MaxCopy) /\ L # {}
  <2>1. 0 \in S /\ MaxCopy \in Nat
    BY DiffNumbersHold DEF DiffNumbers
  <2>2. \A s \in S : common(src, s, i) \in 0 .. MaxCopy
    BY <1>1, <2>1
  <2> HIDE DEF S
  <2> QED  BY <2>1, <2>2
<1>3. n \in L
  <2> HIDE DEF L
  <2> QED  BY <1>2, MaxIn, DiffNumbersHold DEF DiffNumbers
<1>4. O \in SUBSET Nat /\ O # {}
  <2> HIDE DEF n
  <2>1. O \in SUBSET Nat
    OBVIOUS
  <2>2. \E s \in S : n = common(src, s, i)
    BY <1>3
  <2> QED  BY <2>1, <2>2
<1>5. o \in O
  <2> HIDE DEF O
  <2> QED  BY <1>4, MinIn
<1>6. o \in S /\ common(src, o, i) = n
  BY <1>5
<1>7. r \in Nat \ {0}
  <2>1. PageSize \in Nat \ {0} /\ i \in Int
    BY DiffNumbersHold DEF DiffNumbers
  <2>2. i % PageSize \in 0 .. PageSize - 1
    BY <2>1, Quotient
  <2> QED  BY <2>1, <2>2
<1>8. l.offset = o /\ l.length = Least(n, r)
  BY DEF letLongestCommonBytes
<1> HIDE DEF n, o, r, l, L, O
<1>9. /\ n \in Nat /\ o + n <= Len(src) /\ i + n <= Len(new) /\ o \in Nat
      /\ \A j \in 1 .. n : src[o + j] = new[i + j]
  <2>1. /\ common(src, o, i) \in Nat /\ o + common(src, o, i) <= Len(src)
        /\ i + common(src, o, i) <= Len(new)
        /\ \A j \in 1 .. common(src, o, i) : src[o + j] = new[i + j]
    BY <1>1, <1>6
  <2>2. o \in Nat
    BY <1>6
  <2> QED  BY <1>6, <2>1, <2>2
<1>10. Least(n, r) \in Nat /\ Least(n, r) <= n /\ Least(n, r) <= r
  BY <1>7, <1>9 DEF Least
<1>11. o + Least(n, r) <= Len(src) /\ i + Least(n, r) <= Len(new)
  BY <1>9, <1>10
<1>12. \A j \in 1 .. Least(n, r) : src[o + j] = new[i + j]
  BY <1>9, <1>10
<1> QED  BY <1>8, <1>9, <1>10, <1>11, <1>12 DEF l, r

\* Where a page begins and ends, and how much of it is left
LEMMA PageIs ==
    ASSUME NEW p \in Nat, Len(new) \in Nat, PageStart(p) < Len(new)
    PROVE  LET end == PageStart(p) + Len(DiffPageOf(new, p))
           IN /\ PageStart(p) \in Nat /\ end \in Nat /\ PageStart(p) < end
              /\ end = Least(PageStart(p) + PageSize, Len(new))
              /\ DiffPageOf(new, p) = SubSeq(new, PageStart(p) + 1, end)
              /\ \A i \in PageStart(p) .. end - 1 :
                    i \in 0 .. Len(new) - 1 /\ i + (PageSize - (i % PageSize)) = PageStart(p) + PageSize
<1> DEFINE a == PageStart(p)
           b == Least(a + PageSize, Len(new))
           n == b - a
<1>1. PageSize \in Nat \ {0} /\ a = PageSize * p /\ a \in Nat
  BY DiffNumbersHold DEF DiffNumbers, PageStart
<1> HIDE DEF a
<1>2. b \in Nat /\ a < b /\ b <= Len(new) /\ b <= a + PageSize /\ n \in Nat /\ b = a + n
  BY <1>1 DEF Least, a
<1>3. DiffPageOf(new, p) = SubSeq(new, a + 1, b)
  BY DEF DiffPageOf, a
<1> HIDE DEF b, n
<1>4. Len(DiffPageOf(new, p)) = n
  BY <1>1, <1>2, <1>3, PartIs
<1>5. ASSUME NEW i \in a .. b - 1
      PROVE  i \in 0 .. Len(new) - 1 /\ i + (PageSize - (i % PageSize)) = a + PageSize
  <2> DEFINE r == i - a
  <2>1. r \in 0 .. PageSize - 1 /\ i = a + r /\ i \in 0 .. Len(new) - 1
    BY <1>1, <1>2
  <2> HIDE DEF r
  <2>2. i % PageSize = r
    <3>1. PageSize \in Nat \ {0} /\ p \in Int /\ r \in 0 .. PageSize - 1
      BY <1>1, <2>1
    <3>2. (PageSize * p + r) % PageSize = r
      BY <3>1, QuotientIs
    <3> QED  BY <1>1, <2>1, <3>2
  <2> QED  BY <1>1, <2>1, <2>2
<1>6. a + Len(DiffPageOf(new, p)) = b
  BY <1>2, <1>4
<1> QED  BY <1>1, <1>2, <1>3, <1>5, <1>6 DEF a, b

\* Both sides agree on the flash and on the overwritten pages.
Agree ==
    /\ \A i \in 1 .. Len(new) : rom[i] = img1[i]
    /\ oldPages = window

\* A command builds at least one byte, stays in its page, and when both sides
\* agree it builds the bytes of the new image.
LEMMA CommandAtIs ==
    ASSUME NEW p \in Nat, Len(new) \in Nat, PageStart(p) < Len(new),
           Len(img1) = Len(new), Len(window) \in Nat \ {0},
           NEW i \in PageStart(p) .. PageStart(p) + Len(DiffPageOf(new, p)) - 1
    PROVE  /\ bytesOf(commandAt(i)) \in Nat \ {0}
           /\ i + bytesOf(commandAt(i)) <= PageStart(p) + Len(DiffPageOf(new, p))
           /\ Agree => execute(commandAt(i)) = SubSeq(new, i + 1, i + bytesOf(commandAt(i)))
<1> DEFINE inRam == letLongestCommonBytes(window, i)
           inRom == letLongestCommonBytes(img1, i)
           copy == longestCopy(i)
           c == commandAt(i)
           end == PageStart(p) + Len(DiffPageOf(new, p))
<1>1. /\ i \in 0 .. Len(new) - 1 /\ i + (PageSize - (i % PageSize)) = PageStart(p) + PageSize
      /\ end = Least(PageStart(p) + PageSize, Len(new))
      /\ PageStart(p) \in Nat /\ end \in Nat
  BY PageIs
<1>2. PageSize - (i % PageSize) \in Nat
  BY <1>1, Quotient, DiffNumbersHold DEF DiffNumbers
<1>3. \A n \in Nat : n <= PageSize - (i % PageSize) /\ i + n <= Len(new) => i + n <= end
  <2> DEFINE a == PageStart(p)
             r == PageSize - (i % PageSize)
  <2> HIDE DEF end, a, r
  <2> SUFFICES ASSUME NEW n \in Nat, n <= r, i + n <= Len(new) PROVE i + n <= end
    BY DEF r
  <2>1. i \in Int /\ r \in Nat /\ a \in Nat /\ PageSize \in Nat /\ i + r = a + PageSize /\ end = Least(a + PageSize, Len(new))
    BY <1>1, <1>2, DiffNumbersHold DEF DiffNumbers, a, r
  <2> QED  BY <2>1 DEF Least
<1>4. /\ inRam.offset \in Nat /\ inRam.length \in Nat
      /\ inRam.offset + inRam.length <= Len(window) /\ i + inRam.length <= Len(new)
      /\ inRam.length <= PageSize - (i % PageSize)
      /\ \A j \in 1 .. inRam.length : window[inRam.offset + j] = new[i + j]
  BY <1>1, LongestIs
<1>5. /\ inRom.offset \in Nat /\ inRom.length \in Nat
      /\ inRom.offset + inRom.length <= Len(img1) /\ i + inRom.length <= Len(new)
      /\ inRom.length <= PageSize - (i % PageSize)
      /\ \A j \in 1 .. inRom.length : img1[inRom.offset + j] = new[i + j]
  BY <1>1, LongestIs
<1>6. copy = [cmd |-> "COPY", source |-> IF inRom.length > inRam.length THEN "ROM" ELSE "RAM",
              at |-> (IF inRom.length > inRam.length THEN inRom ELSE inRam).offset,
              length |-> (IF inRom.length > inRam.length THEN inRom ELSE inRam).length]
  BY DEF longestCopy
<1> HIDE DEF inRam, inRom, copy
<1>7. CASE copy.length >= MinPattern
  <2>1. c = copy
    BY <1>7 DEF commandAt, copy
  <2>2. \/ copy = [cmd |-> "COPY", source |-> "ROM", at |-> inRom.offset, length |-> inRom.length]
        \/ copy = [cmd |-> "COPY", source |-> "RAM", at |-> inRam.offset, length |-> inRam.length]
    BY <1>6
  <2>3. copy.length \in Nat \ {0} /\ bytesOf(c) = copy.length
    <3>1. copy.length \in Nat /\ copy.cmd = "COPY"
      BY <1>4, <1>5, <2>2
    <3> QED  BY <1>7, <2>1, <3>1, DiffNumbersHold DEF bytesOf, DiffNumbers
  <2>4. i + copy.length <= end
    <3>1. copy.length = inRom.length \/ copy.length = inRam.length
      BY <2>2
    <3> HIDE DEF end
    <3> QED  BY <1>3, <1>4, <1>5, <3>1
  <2>5. ASSUME Agree PROVE execute(c) = SubSeq(new, i + 1, i + copy.length)
    <3> DEFINE n == copy.length
               o == copy.at
    <3>1. i \in Int /\ n \in Nat
      BY <1>1, <2>3
    <3>2. o \in Int
      BY <1>4, <1>5, <2>2
    <3>3. \/ copy.source = "ROM" /\ n = inRom.length /\ o = inRom.offset /\ copy.cmd = "COPY"
          \/ copy.source = "RAM" /\ n = inRam.length /\ o = inRam.offset /\ copy.cmd = "COPY"
      BY <2>2
    <3>4. \/ copy.source = "ROM" /\ execute(c) = SubSeq(rom, o + 1, o + n)
          \/ copy.source = "RAM" /\ execute(c) = SubSeq(window, o + 1, o + n)
      BY <2>1, <2>5, <3>3 DEF execute, Agree
    <3> HIDE DEF n, o
    <3>5. SubSeq(new, i + 1, i + n) = [j \in 1 .. n |-> new[i + j]]
      BY <3>1, PartIs
    <3>6. CASE copy.source = "ROM"
      <4>1. SubSeq(rom, o + 1, o + n) = [j \in 1 .. n |-> rom[o + j]]
        BY <3>1, <3>2, PartIs
      <4>2. n = inRom.length /\ o = inRom.offset /\ execute(c) = SubSeq(rom, o + 1, o + n)
        BY <3>3, <3>4, <3>6
      <4>3. \A j \in 1 .. n : rom[o + j] = new[i + j]
        <5> SUFFICES ASSUME NEW j \in 1 .. n PROVE rom[o + j] = new[i + j]
          OBVIOUS
        <5>1. o + j \in 1 .. Len(new) /\ j \in 1 .. inRom.length
          <6>1. o \in Nat /\ o + n <= Len(new) /\ n = inRom.length
            BY <1>5, <4>2
          <6>2. j \in Nat /\ 1 <= j /\ j <= n
            BY <3>1
          <6> HIDE DEF inRom
          <6> QED  BY <3>1, <6>1, <6>2
        <5> QED  BY <1>5, <2>5, <4>2, <5>1 DEF Agree
      <4> QED  BY <3>5, <4>1, <4>2, <4>3 DEF n
    <3>7. CASE copy.source = "RAM"
      <4>1. SubSeq(window, o + 1, o + n) = [j \in 1 .. n |-> window[o + j]]
        BY <3>1, <3>2, PartIs
      <4>2. n = inRam.length /\ o = inRam.offset /\ execute(c) = SubSeq(window, o + 1, o + n)
        BY <3>3, <3>4, <3>7
      <4>3. \A j \in 1 .. n : window[o + j] = new[i + j]
        BY <1>4, <4>2
      <4> QED  BY <3>5, <4>1, <4>2, <4>3 DEF n
    <3> QED  BY <3>3, <3>6, <3>7
  <2> QED  BY <2>3, <2>4, <2>5
<1>8. CASE ~(copy.length >= MinPattern)
  <2>1. c = [cmd |-> "RAW", data |-> << new[i + 1] >>]
    BY <1>8 DEF commandAt, copy
  <2>2. bytesOf(c) = 1 /\ execute(c) = << new[i + 1] >>
    BY <2>1 DEF bytesOf, execute
  <2>3. SubSeq(new, i + 1, i + 1) = [j \in 1 .. 1 |-> new[i + j]]
    BY <1>1, PartIs
  <2>4. [j \in 1 .. 1 |-> new[i + j]] = << new[i + 1] >>
    OBVIOUS
  <2>5. i + 1 <= end
    BY <1>1
  <2> QED  BY <2>2, <2>3, <2>4, <2>5
<1> QED  BY <1>7, <1>8

-----------------------------------------------------------------------------
(* A list of pieces, each of which says where the next one begins *)

\* The lists from each place on: c says which piece is at a place, w how far it
\* takes the list.
IsPieceList(f, c, w, a, end) ==
    f = [i \in a .. end |-> IF i = end THEN << >> ELSE << c[i] >> \o f[i + w[i]]]

\* Every piece takes the list on, and not behind its end.
Advances(w, a, end) == \A i \in a .. end - 1 : w[i] \in Nat \ {0} /\ i + w[i] <= end

LEMMA PieceListExists ==
    ASSUME NEW c, NEW w, NEW a \in Nat, NEW end \in Nat, a <= end, Advances(w, a, end)
    PROVE  \E f : IsPieceList(f, c, w, a, end)
<1> DEFINE Z == {k \in Nat : k <= end - a => \E f : IsPieceList(f, c, w, end - k, end)}
<1>1. 0 \in Z
  <2>1. end - 0 = end /\ end \in end .. end /\ \A i \in end .. end : i = end
    OBVIOUS
  <2> DEFINE f == [i \in end .. end |-> << >>]
  <2>2. f = [i \in end .. end |-> IF i = end THEN << >> ELSE << c[i] >> \o f[i + w[i]]]
    BY <2>1
  <2>3. IsPieceList(f, c, w, end, end)
    <3> HIDE DEF f
    <3> QED  BY <2>2 DEF IsPieceList
  <2> QED  BY <2>1, <2>3
<1>2. ASSUME NEW k \in Z PROVE k + 1 \in Z
  <2> SUFFICES ASSUME k + 1 <= end - a PROVE \E h : IsPieceList(h, c, w, end - (k + 1), end)
    OBVIOUS
  <2>1. k \in Nat /\ k <= end - a
    OBVIOUS
  <2>2. PICK f : IsPieceList(f, c, w, end - k, end)
    BY <1>2, <2>1
  <2> DEFINE b == end - k
             d == end - (k + 1)
             h == [i \in d .. end |-> IF i = d THEN << c[d] >> \o f[d + w[d]] ELSE f[i]]
  <2>3. b \in Nat /\ d \in Nat /\ b = d + 1 /\ a <= d /\ b <= end /\ d \in a .. end - 1
    BY <2>1
  <2>4. d + w[d] \in b .. end
    BY <2>3 DEF Advances
  <2>5. \A i \in b .. end : i \in d .. end /\ i # d /\ i \in a .. end /\ (i # end => i \in a .. end - 1)
    BY <2>3
  <2> HIDE DEF b, d
  <2>6. \A i \in b .. end : f[i] = IF i = end THEN << >> ELSE << c[i] >> \o f[i + w[i]]
    BY <2>2 DEF IsPieceList, b
  <2>7. \A i \in b .. end : h[i] = f[i]
    BY <2>5
  <2>8. h[d] = << c[d] >> \o h[d + w[d]] /\ d \in d .. end /\ d # end
    <3>1. d \in d .. end /\ d # end
      BY <2>3
    <3>2. h[d] = << c[d] >> \o f[d + w[d]]
      BY <3>1
    <3> HIDE DEF h
    <3> QED  BY <2>4, <2>7, <3>1, <3>2
  <2>9. ASSUME NEW i \in d .. end
        PROVE  h[i] = IF i = end THEN << >> ELSE << c[i] >> \o h[i + w[i]]
    <3> HIDE DEF h
    <3>1. CASE i = d
      BY <2>8, <3>1
    <3>2. CASE i # d
      <4>1. i \in b .. end
        BY <2>3, <3>2
      <4>2. CASE i = end
        BY <2>6, <2>7, <4>1, <4>2
      <4>3. CASE i # end
        <5>1. i + w[i] \in b .. end
          <6>1. w[i] \in Nat /\ i + w[i] <= end
            BY <2>5, <4>1, <4>3 DEF Advances
          <6> QED  BY <2>3, <4>1, <6>1
        <5>2. h[i + w[i]] = f[i + w[i]] /\ h[i] = f[i]
          BY <2>7, <4>1, <5>1
        <5>3. f[i] = << c[i] >> \o f[i + w[i]]
          BY <2>6, <4>1, <4>3
        <5> QED  BY <4>3, <5>2, <5>3, Zenon
      <4> QED  BY <4>2, <4>3
    <3> QED  BY <3>1, <3>2
  <2>10. h = [i \in d .. end |-> h[i]]
    OBVIOUS
  <2>11. IsPieceList(h, c, w, d, end)
    <3> HIDE DEF h
    <3>1. h = [i \in d .. end |-> IF i = end THEN << >> ELSE << c[i] >> \o h[i + w[i]]]
      BY <2>9, <2>10
    <3> QED  BY <3>1 DEF IsPieceList
  <2> QED  BY <2>11 DEF d
<1>3. Z \in SUBSET Nat
  OBVIOUS
<1>4. end - a \in Nat /\ end - (end - a) = a
  OBVIOUS
<1>5. Z = Nat
  <2> HIDE DEF Z
  <2> QED  BY <1>1, <1>2, <1>3, SetInduction
<1>6. end - a \in Z
  <2> HIDE DEF Z
  <2> QED  BY <1>4, <1>5
<1> QED  BY <1>4, <1>6

\* Where each piece of a list ends.
Pieces(l, c, w, a, end, ends) ==
    /\ Len(l) \in Nat
    /\ ends[0] = a /\ ends[Len(l)] = end
    /\ \A k \in 0 .. Len(l) : ends[k] \in a .. end
    /\ \A k \in 1 .. Len(l) : /\ ends[k - 1] \in a .. end - 1
                              /\ l[k] = c[ends[k - 1]]
                              /\ ends[k] = ends[k - 1] + w[ends[k - 1]]

LEMMA PieceListIs ==
    ASSUME NEW c, NEW w, NEW a \in Nat, NEW end \in Nat, a <= end, Advances(w, a, end),
           NEW f, IsPieceList(f, c, w, a, end)
    PROVE  \E ends : Pieces(f[a], c, w, a, end, ends)
<1> DEFINE S == {c[i] : i \in a .. end - 1}
           Right(i) == f[i] \in Seq(S) /\ \E ends : Pieces(f[i], c, w, i, end, ends)
           Z == {k \in Nat : \A i \in a .. end : end - i <= k => Right(i)}
<1>1. \A i \in a .. end : f[i] = IF i = end THEN << >> ELSE << c[i] >> \o f[i + w[i]]
  BY DEF IsPieceList
<1>2. Right(end)
  <2>1. f[end] = << >> /\ << >> \in Seq(S) /\ Len(<< >>) = 0
    <3>1. end \in a .. end
      OBVIOUS
    <3>2. << >> \in Seq(S) /\ Len(<< >>) = 0
      OBVIOUS
    <3> QED  BY <1>1, <3>1, <3>2
  <2> DEFINE ends == [k \in 0 .. 0 |-> end]
  <2>2. Pieces(<< >>, c, w, end, end, ends)
    <3>1. ends[0] = end /\ \A k \in 0 .. 0 : ends[k] \in end .. end
      OBVIOUS
    <3>2. \A k \in 1 .. 0 : FALSE
      OBVIOUS
    <3> HIDE DEF ends
    <3> QED  BY <2>1, <3>1, <3>2 DEF Pieces
  <2> HIDE DEF S, ends
  <2> QED  BY <2>1, <2>2
<1>3. 0 \in Z
  <2>1. \A i \in a .. end : end - i <= 0 => i = end
    OBVIOUS
  <2> HIDE DEF Right
  <2> QED  BY <1>2, <2>1
<1>4. ASSUME NEW m \in Z PROVE m + 1 \in Z
  <2> SUFFICES ASSUME NEW i \in a .. end, end - i <= m + 1 PROVE Right(i)
    <3> HIDE DEF Right
    <3> QED  OBVIOUS
  <2>1. CASE i = end
    BY <1>2, <2>1
  <2>2. CASE i # end
    <3> DEFINE j == i + w[i]
    <3>1. i \in a .. end - 1 /\ w[i] \in Nat \ {0} /\ j \in i + 1 .. end
      BY <2>2 DEF Advances
    <3>2. j \in a .. end /\ end - j <= m
      BY <3>1
    <3>3. Right(j)
      <4> HIDE DEF Right, j
      <4> QED  BY <1>4, <3>2
    <3> DEFINE l == f[j]
               x == << c[i] >> \o l
    <3>4. f[i] = x
      BY <1>1, <2>2
    <3>5. PICK ends : Pieces(l, c, w, j, end, ends)
      BY <3>3
    <3>6. c[i] \in S /\ l \in Seq(S)
      BY <3>1, <3>3
    <3> HIDE DEF j, S, l
    <3>7. /\ x \in Seq(S) /\ Len(x) = Len(l) + 1 /\ Len(l) \in Nat
          /\ x[1] = c[i] /\ \A k \in 1 .. Len(l) : x[k + 1] = l[k]
      BY <3>6
    <3> HIDE DEF x
    <3> DEFINE n == Len(l)
               others == [k \in 0 .. n + 1 |-> IF k = 0 THEN i ELSE ends[k - 1]]
    <3>8. /\ n \in Nat /\ ends[0] = j /\ ends[n] = end
          /\ \A k \in 0 .. n : ends[k] \in j .. end
          /\ \A k \in 1 .. n : /\ ends[k - 1] \in j .. end - 1
                               /\ l[k] = c[ends[k - 1]]
                               /\ ends[k] = ends[k - 1] + w[ends[k - 1]]
      BY <3>5 DEF Pieces
    <3>9. Len(x) = n + 1
      BY <3>7
    <3> HIDE DEF n
    <3>10. others[0] = i /\ \A k \in 1 .. n + 1 : others[k] = ends[k - 1]
      BY <3>8
    <3> HIDE DEF others
    <3>11. others[n + 1] = end
      <4>1. n + 1 \in 1 .. n + 1 /\ n + 1 - 1 = n
        BY <3>8
      <4> QED  BY <3>8, <3>10, <4>1
    <3>12. \A k \in 0 .. n + 1 : others[k] \in i .. end
      <4> SUFFICES ASSUME NEW k \in 0 .. n + 1 PROVE others[k] \in i .. end
        OBVIOUS
      <4>1. CASE k = 0
        BY <3>10, <4>1
      <4>2. CASE k # 0
        <5>1. k \in 1 .. n + 1 /\ k - 1 \in 0 .. n
          BY <3>8, <4>2
        <5>2. others[k] \in j .. end
          BY <3>8, <3>10, <5>1
        <5> QED  BY <3>1, <5>2
      <4> QED  BY <4>1, <4>2
    <3>13. ASSUME NEW k \in 1 .. n + 1
           PROVE  /\ others[k - 1] \in i .. end - 1 /\ x[k] = c[others[k - 1]]
                  /\ others[k] = others[k - 1] + w[others[k - 1]]
      <4>1. CASE k = 1
        <5>1. k - 1 = 0 /\ others[k - 1] = i /\ others[k] = ends[0]
          BY <3>10, <4>1
        <5>2. others[k] = i + w[i]
          BY <3>8, <5>1 DEF j
        <5>3. i \in i .. end - 1
          BY <3>1
        <5> QED  BY <3>7, <4>1, <5>1, <5>2, <5>3
      <4>2. CASE k # 1
        <5> DEFINE q == k - 1
        <5>1. q \in 1 .. n /\ q \in 1 .. n + 1 /\ k = q + 1
          BY <3>8, <4>2
        <5> HIDE DEF q
        <5>2. others[q] = ends[q - 1] /\ others[k] = ends[q]
          <6>1. k - 1 = q
            BY <5>1
          <6> QED  BY <3>10, <5>1, <6>1
        <5>3. /\ ends[q - 1] \in j .. end - 1 /\ l[q] = c[ends[q - 1]]
              /\ ends[q] = ends[q - 1] + w[ends[q - 1]]
          BY <3>8, <5>1
        <5>4. x[k] = l[q]
          BY <3>7, <5>1 DEF n
        <5>5. others[q] \in i .. end - 1
          BY <3>1, <5>2, <5>3
        <5> QED  BY <5>2, <5>3, <5>4, <5>5 DEF q
      <4> QED  BY <4>1, <4>2
    <3>14. Pieces(x, c, w, i, end, others)
      BY <3>8, <3>9, <3>10, <3>11, <3>12, <3>13 DEF Pieces
    <3> QED  BY <3>4, <3>7, <3>14
  <2> QED  BY <2>1, <2>2
<1>5. Z \in SUBSET Nat
  OBVIOUS
<1>6. Z = Nat
  <2> HIDE DEF Z
  <2> QED  BY <1>3, <1>4, <1>5, SetInduction
<1>7. Right(a)
  <2>1. end - a \in Nat /\ a \in a .. end /\ end - a <= end - a
    OBVIOUS
  <2>2. end - a \in Z
    <3> HIDE DEF Z
    <3> QED  BY <1>6, <2>1
  <2> HIDE DEF Right
  <2> QED  BY <2>1, <2>2
<1> QED  BY <1>7

-----------------------------------------------------------------------------
(* The commands of a page build the page *)

LEMMA PageIsBuilt ==
    ASSUME NEW p \in Nat, Len(new) \in Nat, PageStart(p) < Len(new),
           Len(img1) = Len(new), Len(window) \in Nat \ {0}, Agree
    PROVE  executeAll(Commands(p)) = DiffPageOf(new, p)
<1> DEFINE a == PageStart(p)
           end == PageStart(p) + Len(DiffPageOf(new, p))
           c == [i \in a .. end - 1 |-> commandAt(i)]
           w == [i \in a .. end - 1 |-> bytesOf(commandAt(i))]
           list[i \in PageStart(p) .. end] ==
             IF i = end THEN << >>
               ELSE LET d == commandAt(i) IN << d >> \o list[i + bytesOf(d)]
<1>1. a \in Nat /\ end \in Nat /\ a < end /\ DiffPageOf(new, p) = SubSeq(new, a + 1, end)
  BY PageIs
<1>2. \A i \in a .. end - 1 : /\ bytesOf(commandAt(i)) \in Nat \ {0}
                              /\ i + bytesOf(commandAt(i)) <= end
                              /\ execute(commandAt(i)) = SubSeq(new, i + 1, i + bytesOf(commandAt(i)))
  <2> SUFFICES ASSUME NEW i \in a .. end - 1
               PROVE  /\ bytesOf(commandAt(i)) \in Nat \ {0}
                      /\ i + bytesOf(commandAt(i)) <= end
                      /\ execute(commandAt(i)) = SubSeq(new, i + 1, i + bytesOf(commandAt(i)))
    OBVIOUS
  <2> HIDE DEF c, w, list
  <2>1. i \in PageStart(p) .. PageStart(p) + Len(DiffPageOf(new, p)) - 1
    BY <1>1
  <2> QED  BY <1>1, <2>1, CommandAtIs
<1>3. Commands(p) = list[a]
  BY Zenon DEF Commands, list
<1>4. list = CHOOSE f : f = [i \in a .. end |->
                IF i = end THEN << >> ELSE << commandAt(i) >> \o f[i + bytesOf(commandAt(i))]]
  BY Zenon DEF list
<1> HIDE DEF list, a, end
<1>5. \A i \in a .. end - 1 : c[i] = commandAt(i) /\ w[i] = bytesOf(commandAt(i))
  OBVIOUS
<1>6. Advances(w, a, end)
  BY <1>2, <1>5 DEF Advances
<1> HIDE DEF c, w
<1>7. ASSUME NEW f
      PROVE  f = [i \in a .. end |-> IF i = end THEN << >> ELSE << commandAt(i) >> \o f[i + bytesOf(commandAt(i))]]
             <=> IsPieceList(f, c, w, a, end)
  <2>1. \A i \in a .. end : i # end => i \in a .. end - 1
    BY <1>1
  <2>2. [i \in a .. end |-> IF i = end THEN << >> ELSE << commandAt(i) >> \o f[i + bytesOf(commandAt(i))]]
          = [i \in a .. end |-> IF i = end THEN << >> ELSE << c[i] >> \o f[i + w[i]]]
    BY <1>5, <2>1
  <2> QED  BY <2>2 DEF IsPieceList
<1>8. \E f : IsPieceList(f, c, w, a, end)
  <2>1. a <= end
    BY <1>1
  <2> QED  BY <1>1, <1>6, <2>1, PieceListExists
<1>9. IsPieceList(list, c, w, a, end)
  <2>1. list = [i \in a .. end |-> IF i = end THEN << >> ELSE << commandAt(i) >> \o list[i + bytesOf(commandAt(i))]]
    BY <1>4, <1>7, <1>8, Zenon
  <2> QED  BY <1>7, <2>1
<1>10. PICK ends : Pieces(list[a], c, w, a, end, ends)
  BY <1>1, <1>6, <1>9, PieceListIs
<1> DEFINE cmds == Commands(p)
           seqs == [k \in 1 .. Len(cmds) |-> execute(cmds[k])]
           n == Len(cmds)
<1>11. /\ n \in Nat /\ ends[0] = a /\ ends[n] = end
       /\ \A k \in 0 .. n : ends[k] \in a .. end
       /\ \A k \in 1 .. n : /\ ends[k - 1] \in a .. end - 1 /\ cmds[k] = c[ends[k - 1]]
                            /\ ends[k] = ends[k - 1] + w[ends[k - 1]]
  BY <1>3, <1>10 DEF Pieces
<1>12. n \in Nat \ {0}
  BY <1>1, <1>11
<1>13. executeAll(cmds) = FlattenSeq(seqs)
  BY DEF executeAll
<1>14. Len(seqs) = n /\ \A k \in 1 .. n : seqs[k] = execute(cmds[k])
  BY <1>11
<1> HIDE DEF cmds, n, seqs
<1>15. Cut(seqs, new, ends)
  <2>1. \A k \in 0 .. n : ends[k] \in Nat
    BY <1>1, <1>11
  <2>2. ASSUME NEW k \in 1 .. n
        PROVE  ends[k - 1] <= ends[k] /\ seqs[k] = SubSeq(new, ends[k - 1] + 1, ends[k])
    <3> DEFINE i == ends[k - 1]
    <3>1. i \in a .. end - 1 /\ cmds[k] = c[i] /\ ends[k] = i + w[i]
      BY <1>11
    <3> HIDE DEF i
    <3>2. w[i] \in Nat /\ w[i] = bytesOf(commandAt(i)) /\ seqs[k] = execute(commandAt(i))
      BY <1>2, <1>5, <1>14, <3>1
    <3>3. seqs[k] = SubSeq(new, i + 1, ends[k])
      BY <1>2, <3>1, <3>2
    <3>4. i <= ends[k]
      BY <1>1, <3>1, <3>2
    <3> QED  BY <3>3, <3>4 DEF i
  <2> QED  BY <1>14, <2>1, <2>2 DEF Cut
<1>16. FlattenSeq(seqs) = SubSeq(new, a + 1, end)
  <2>1. FlattenSeq(seqs) = SubSeq(new, ends[0] + 1, ends[Len(seqs)])
    BY <1>12, <1>14, <1>15, FlattenParts
  <2> QED  BY <1>11, <1>14, <2>1
<1> QED  BY <1>1, <1>13, <1>16 DEF cmds

-----------------------------------------------------------------------------
(* An update in differential mode *)

Cells == Bytes \cup {DiffGarbage}

\* The images and the flash they are in.
ImagesAre ==
    /\ old \in Seq(Bytes) /\ Len(old) \in OldLengths
    /\ new \in Seq(Bytes) /\ Len(new) \in NewLengths
    /\ rom \in [1 .. RomSize -> Cells]
    /\ diffFaults \in Nat

\* The updater's record has the size of the new image.
RecordsAre ==
    phase # "idle" => /\ page \in Nat
                      /\ img1 \in Seq(Bytes) /\ Len(img1) = Len(new)
                      /\ Len(window) = WindowPages * PageSize

\* The pages up to the one that is built are those of the new image.
PagesAre ==
    /\ phase \in {"send", "program"} =>
         /\ romPage = page /\ PageStart(page) < Len(new)
         /\ \A i \in 1 .. PageStart(page) : rom[i] = new[i]
    /\ phase \in {"descriptor", "done"} => \A i \in 1 .. Len(new) : rom[i] = new[i]

DiffInv == ImagesAre /\ RecordsAre /\ PagesAre

\* As long as nothing went wrong, both sides agree.
NothingWrong ==
    diffFaults = 0 =>
        /\ phase # "failed"
        /\ phase = "idle" => rom = [i \in 1 .. RomSize |-> IF i <= Len(old) THEN old[i] ELSE ErasedByte]
        /\ phase \in {"send", "program"} => Agree
        /\ phase = "send" => scratchpad = << >>
        /\ phase = "program" => scratchpad = DiffPageOf(new, page)

\* The updater fills what is behind the old image with zeros; so it must be
\* zero there, or the new image must end before.
NoGap == ErasedByte = 0 \/ \A m \in OldLengths, n \in NewLengths : n <= m

LEMMA ImageSizes ==
    ASSUME ImagesAre
    PROVE  /\ Len(new) \in Nat \ {0} /\ Len(new) <= RomSize /\ RomSize \in Nat \ {0}
           /\ Len(old) \in Nat \ {0} /\ Len(old) <= RomSize
           /\ DOMAIN rom = 1 .. RomSize /\ Len(rom) = RomSize
<1>1. RomSize \in Nat \ {0} /\ RomSize = RomPages * PageSize
  BY DiffNumbersHold DEF DiffNumbers, RomSize
<1>2. Len(new) \in 1 .. RomSize /\ Len(old) \in 1 .. RomSize
  BY <1>1, FlashDiffAssumption DEF ImagesAre
<1>3. DOMAIN rom = 1 .. RomSize /\ Len(rom) = RomSize
  <2>1. rom \in [1 .. RomSize -> Cells] /\ RomSize \in Nat
    BY <1>1 DEF ImagesAre
  <2> HIDE DEF RomSize
  <2>2. rom \in Seq(Cells)
    BY <2>1
  <2> QED  BY <2>1, <2>2
<1> QED  BY <1>1, <1>2, <1>3

LEMMA NextPageStart ==
    ASSUME NEW p \in Nat
    PROVE  /\ PageStart(p) \in Nat /\ PageStart(p + 1) = PageStart(p) + PageSize
           /\ p + 1 \in Nat /\ PageSize \in Nat \ {0} /\ PageStart(0) = 0
BY DiffNumbersHold DEF DiffNumbers, PageStart

\* What is programmed is the page of the new image, and only its cells.
LEMMA PageProgrammed ==
    ASSUME ImagesAre, romPage \in Nat, PageStart(romPage) < Len(new),
           scratchpad = DiffPageOf(new, romPage)
    PROVE  /\ pagesProgrammed \in [1 .. RomSize -> Cells]
           /\ \A i \in 1 .. Len(new) : pagesProgrammed[i] = IF i \in DiffPageCells(romPage) THEN new[i] ELSE rom[i]
<1> DEFINE a == PageStart(romPage)
           end == Least(a + PageSize, Len(new))
           n == end - a
           equal == SubSeq(rom, a + 1, a + Len(scratchpad)) = scratchpad
           copied == copyOf(scratchpad, PageSize)
           h == pagesProgrammed
<1>1. a \in Nat /\ PageSize \in Nat \ {0}
  BY NextPageStart
<1>2. /\ Len(new) \in Nat \ {0} /\ Len(new) <= RomSize /\ RomSize \in Nat
  BY ImageSizes
<1> HIDE DEF a
<1>3. /\ a < Len(new) /\ end \in Nat /\ n \in Nat /\ end = a + n /\ n <= PageSize
      /\ end <= Len(new) /\ end <= a + PageSize
      /\ \A i \in a + 1 .. a + PageSize : i <= Len(new) => i <= end
  <2>1. a < Len(new)
    BY DEF a
  <2> QED  BY <1>1, <1>2, <2>1 DEF Least
<1>4. scratchpad = SubSeq(new, a + 1, end)
  BY DEF DiffPageOf, a
<1>5. h = [i \in 1 .. RomSize |->
             IF i \in a + 1 .. a + PageSize /\ ~equal THEN copied[i - a] ELSE rom[i]]
  BY DEF pagesProgrammed, DiffPageCells, a
<1> HIDE DEF end, n, h
<1>6. scratchpad = [j \in 1 .. n |-> new[a + j]] /\ Len(scratchpad) = n
  BY <1>1, <1>3, <1>4, PartIs
<1>7. SubSeq(rom, a + 1, a + n) = [j \in 1 .. n |-> rom[a + j]]
  BY <1>1, <1>3, PartIs
<1>8. /\ \A j \in 1 .. n : copied[j] = new[a + j]
      /\ \A j \in 1 .. PageSize : j > n => copied[j] = 0
  <2>1. copied = [j \in 1 .. PageSize |-> IF j <= n THEN scratchpad[j] ELSE 0]
    BY <1>6 DEF copyOf
  <2> HIDE DEF copied
  <2>2. \A j \in 1 .. n : j \in 1 .. PageSize /\ j <= n /\ scratchpad[j] = new[a + j]
    BY <1>1, <1>3, <1>6
  <2>3. \A j \in 1 .. PageSize : j > n => ~(j <= n)
    BY <1>3
  <2> QED  BY <2>1, <2>2, <2>3
<1> HIDE DEF copied
<1>9. equal => \A j \in 1 .. n : rom[a + j] = new[a + j]
  BY <1>6, <1>7
<1> HIDE DEF equal
<1>10. ASSUME NEW i \in 1 .. RomSize PROVE h[i] \in Cells
  <2>1. CASE i \in a + 1 .. a + PageSize /\ ~equal
    <3>1. h[i] = copied[i - a] /\ i - a \in 1 .. PageSize /\ i = a + (i - a)
      BY <1>1, <1>5, <2>1
    <3>2. CASE i - a <= n
      <4>1. i - a \in 1 .. n
        BY <1>3, <3>1, <3>2
      <4>2. h[i] = new[i] /\ i \in 1 .. Len(new)
        BY <1>1, <1>2, <1>3, <1>8, <3>1, <4>1
      <4> QED  BY <4>2 DEF ImagesAre, Cells
    <3>3. CASE i - a > n
      BY <1>8, <3>1, <3>3, FlashDiffAssumption DEF Cells
    <3> QED  BY <1>3, <3>1, <3>2, <3>3
  <2>2. CASE ~(i \in a + 1 .. a + PageSize /\ ~equal)
    <3>1. h[i] = rom[i]
      BY <1>5, <2>2
    <3> QED  BY <3>1 DEF ImagesAre
  <2> QED  BY <2>1, <2>2
<1>11. h \in [1 .. RomSize -> Cells]
  <2>1. DOMAIN h = 1 .. RomSize /\ h = [i \in 1 .. RomSize |-> h[i]]
    BY <1>5
  <2> QED  BY <1>10, <2>1
<1>12. ASSUME NEW i \in 1 .. Len(new)
       PROVE  h[i] = IF i \in a + 1 .. a + PageSize THEN new[i] ELSE rom[i]
  <2>1. i \in 1 .. RomSize
    BY <1>2
  <2>2. CASE i \in a + 1 .. a + PageSize
    <3>1. i - a \in 1 .. n /\ a + (i - a) = i
      BY <1>1, <1>3, <2>2
    <3>2. equal => rom[i] = new[i]
      BY <1>9, <3>1
    <3>3. copied[i - a] = new[i]
      BY <1>8, <3>1
    <3> QED  BY <1>5, <2>1, <2>2, <3>2, <3>3
  <2>3. CASE i \notin a + 1 .. a + PageSize
    BY <1>5, <2>1, <2>3
  <2> QED  BY <2>2, <2>3
<1> QED  BY <1>11, <1>12 DEF h, DiffPageCells, a

\* The updater's record of overwritten pages keeps its size.
LEMMA WindowKeepsSize ==
    ASSUME Len(window) = WindowPages * PageSize, page \in Nat
    PROVE  Len(fillNextPage) = WindowPages * PageSize
<1> DEFINE m == WindowPages * PageSize - PageSize
           a == PageStart(page)
           l == SubSeq(window, PageSize + 1, PageSize + m)
           r == SubSeq(img1, a + 1, a + PageSize)
           S == {window[PageSize + j] : j \in 1 .. m} \cup {img1[a + j] : j \in 1 .. PageSize}
<1>1. a \in Nat /\ PageSize \in Nat \ {0} /\ WindowPages \in Nat \ {0}
  BY NextPageStart, DiffNumbersHold DEF DiffNumbers
<1>2. m \in Nat /\ PageSize + m = WindowPages * PageSize
  <2>1. PageSize * 1 <= PageSize * WindowPages
    BY <1>1, TimesMonotone
  <2> QED  BY <1>1, <2>1
<1>3. fillNextPage = l \o r
  BY <1>2 DEF fillNextPage
<1> HIDE DEF m, a
<1>4. l = [j \in 1 .. m |-> window[PageSize + j]]
  BY <1>1, <1>2, PartIs
<1>5. r = [j \in 1 .. PageSize |-> img1[a + j]]
  BY <1>1, PartIs
<1>6. l \in Seq(S) /\ Len(l) = m /\ r \in Seq(S) /\ Len(r) = PageSize
  <2>1. \A j \in 1 .. m : window[PageSize + j] \in S
    OBVIOUS
  <2>2. \A j \in 1 .. PageSize : img1[a + j] \in S
    OBVIOUS
  <2> HIDE DEF S, l, r
  <2> QED  BY <1>1, <1>2, <1>4, <1>5, <2>1, <2>2
<1> HIDE DEF S, l, r
<1>7. Len(l \o r) = m + PageSize
  BY <1>6
<1> QED  BY <1>1, <1>2, <1>3, <1>7

LEMMA DiffInitInv ==
    ASSUME DiffInit
    PROVE  DiffInv /\ NothingWrong
<1>1. PICK n \in OldLengths : old \in [1..n -> Bytes]
  BY DEF DiffInit
<1>2. PICK m \in NewLengths : new \in [1..m -> Bytes]
  BY DEF DiffInit
<1>3. n \in Nat /\ m \in Nat
  BY FlashDiffAssumption
<1>4. old \in Seq(Bytes) /\ Len(old) = n /\ new \in Seq(Bytes) /\ Len(new) = m
  BY <1>1, <1>2, <1>3
<1>5. rom = [i \in 1 .. RomSize |-> IF i <= Len(old) THEN old[i] ELSE ErasedByte]
      /\ phase = "idle" /\ diffFaults = 0
  BY DEF DiffInit
<1>6. rom \in [1 .. RomSize -> Cells]
  <2> SUFFICES ASSUME NEW i \in 1 .. RomSize
               PROVE  (IF i <= Len(old) THEN old[i] ELSE ErasedByte) \in Cells
    BY <1>5
  <2>1. i \in Nat /\ 1 <= i
    BY DEF RomSize
  <2>2. CASE i <= Len(old)
    <3>1. i \in 1 .. n
      BY <1>3, <1>4, <2>1, <2>2
    <3> QED  BY <1>1, <2>2, <3>1 DEF Cells
  <2>3. CASE ~(i <= Len(old))
    BY <2>3, FlashDiffAssumption DEF Cells
  <2> QED  BY <2>2, <2>3
<1>7. ImagesAre
  BY <1>4, <1>5, <1>6 DEF ImagesAre
<1> QED  BY <1>5, <1>7 DEF DiffInv, RecordsAre, PagesAre, NothingWrong

-----------------------------------------------------------------------------
(* Every step keeps the images and the pages *)

LEMMA BeginUpgradeInv ==
    ASSUME DiffInv, BeginUpgrade
    PROVE  DiffInv'
<1>1. /\ phase' = "send" /\ page' = 0 /\ romPage' = 0 /\ UNCHANGED <<old, new, rom, diffFaults>>
      /\ img1' = copyOf(old, Len(new)) /\ window' = Zeros(WindowPages * PageSize)
  BY DEF BeginUpgrade, DeviceReset, images
<1>2. Len(new) \in Nat \ {0} /\ WindowPages * PageSize \in Nat
  BY ImageSizes, DiffNumbersHold DEF DiffInv, DiffNumbers
<1>3. img1' \in Seq(Bytes) /\ Len(img1') = Len(new) /\ Len(window') = WindowPages * PageSize
  <2> DEFINE n == WindowPages * PageSize
  <2>0. \A i \in 1 .. Len(new) : (IF i <= Len(old) THEN old[i] ELSE 0) \in Bytes
    BY <1>2, ImageSizes, FlashDiffAssumption DEF DiffInv, ImagesAre
  <2>1. n \in Nat
    BY <1>2
  <2> HIDE DEF n
  <2>2. copyOf(old, Len(new)) \in Seq(Bytes) /\ Len(copyOf(old, Len(new))) = Len(new)
    BY <1>2, <2>0 DEF copyOf
  <2>3. Len(Zeros(n)) = n
    BY <2>1 DEF Zeros
  <2> QED  BY <1>1, <2>2, <2>3 DEF n
<1>4. PageStart(0) = 0
  BY NextPageStart
<1>5. ImagesAre'
  BY <1>1 DEF ImagesAre, DiffInv, RomSize
<1>6. RecordsAre'
  BY <1>1, <1>3 DEF RecordsAre
<1>7. PagesAre'
  <2>1. PageStart(page)' = 0
    BY <1>1, <1>4 DEF PageStart
  <2> QED  BY <1>1, <1>2, <2>1 DEF PagesAre
<1> QED  BY <1>5, <1>6, <1>7 DEF DiffInv

LEMMA SendPageInv ==
    ASSUME DiffInv, SendPage
    PROVE  DiffInv'
<1>1. /\ phase = "send" /\ phase' = "program"
      /\ UNCHANGED <<old, new, img1, window, page, rom, romPage>>
      /\ diffFaults' \in {diffFaults, diffFaults + 1}
  BY DEF SendPage, images, DiffInv, ImagesAre
<1>2. ImagesAre'
  BY <1>1 DEF ImagesAre, DiffInv, RomSize
<1>3. RecordsAre'
  BY <1>1 DEF RecordsAre, DiffInv
<1>4. PagesAre'
  BY <1>1 DEF PagesAre, DiffInv, PageStart
<1> QED  BY <1>2, <1>3, <1>4 DEF DiffInv

\* A step after which the updater has given up, or runs no more
LEMMA GivenUpInv ==
    ASSUME DiffInv, phase # "idle", phase' \in {"failed", "notStartable"},
           UNCHANGED <<old, new, img1, window, page>>,
           diffFaults' \in Nat, rom' \in [1 .. RomSize -> Cells]
    PROVE  DiffInv'
<1>1. ImagesAre'
  BY DEF ImagesAre, DiffInv, RomSize, Cells
<1>2. RecordsAre'
  BY DEF RecordsAre, DiffInv
<1>3. PagesAre'
  BY DEF PagesAre
<1> QED  BY <1>1, <1>2, <1>3 DEF DiffInv

LEMMA ProgramPageInv ==
    ASSUME DiffInv, ProgramPage
    PROVE  DiffInv'
<1>1. phase = "program" /\ UNCHANGED <<old, new, diffFaults>>
  BY DEF ProgramPage, images
<1>2. /\ romPage = page /\ PageStart(page) < Len(new) /\ page \in Nat
      /\ \A i \in 1 .. PageStart(page) : rom[i] = new[i]
      /\ img1 \in Seq(Bytes) /\ Len(img1) = Len(new)
      /\ Len(window) = WindowPages * PageSize /\ ImagesAre
  BY <1>1 DEF DiffInv, PagesAre, RecordsAre
<1>3. CASE ~crcMatches(DiffPageOf(new, page))
  <2>1. GiveUp
    BY <1>3 DEF ProgramPage
  <2>2. phase' = "failed" /\ UNCHANGED <<img1, window, page, rom>>
    BY <2>1 DEF GiveUp
  <2> QED  BY <1>1, <1>2, <2>2, GivenUpInv DEF ImagesAre
<1>4. CASE crcMatches(DiffPageOf(new, page))
  <2>1. scratchpad = DiffPageOf(new, romPage) /\ pageCompletedDoFlash /\ NextPage
    BY <1>2, <1>4 DEF ProgramPage, crcMatches
  <2>2. /\ rom' = pagesProgrammed /\ romPage' = page + 1 /\ page' = page + 1
        /\ phase' = IF PageStart(page + 1) >= Len(new) THEN "descriptor" ELSE "send"
        /\ \/ window' = fillNextPage /\ img1' = img1WithPage
           \/ UNCHANGED <<window, img1>>
    BY <1>2, <2>1 DEF pageCompletedDoFlash, NextPage
  <2>3. /\ pagesProgrammed \in [1 .. RomSize -> Cells]
        /\ \A i \in 1 .. Len(new) :
              pagesProgrammed[i] = IF i \in DiffPageCells(page) THEN new[i] ELSE rom[i]
    BY <1>2, <2>1, PageProgrammed
  <2>4. /\ PageStart(page) \in Nat /\ PageStart(page + 1) = PageStart(page) + PageSize
        /\ page + 1 \in Nat /\ PageSize \in Nat \ {0} /\ Len(new) \in Nat
    BY <1>2, NextPageStart, ImageSizes
  <2>5. ImagesAre'
    BY <1>1, <1>2, <2>2, <2>3 DEF ImagesAre, RomSize, Cells
  <2>6. RecordsAre'
    <3>1. Len(fillNextPage) = WindowPages * PageSize
      BY <1>2, WindowKeepsSize
    <3>2. img1WithPage \in Seq(Bytes) /\ Len(img1WithPage) = Len(new)
      BY <1>2, <2>4 DEF img1WithPage, ImagesAre
    <3> QED  BY <1>1, <1>2, <2>2, <2>4, <3>1, <3>2 DEF RecordsAre
  <2>7. \A i \in 1 .. Len(new) : i <= PageStart(page) + PageSize => rom'[i] = new[i]
    <3> SUFFICES ASSUME NEW i \in 1 .. Len(new), i <= PageStart(page) + PageSize
                 PROVE  rom'[i] = new[i]
      OBVIOUS
    <3>1. CASE i <= PageStart(page)
      <4>1. i \in 1 .. PageStart(page) /\ i \notin DiffPageCells(page)
        BY <2>4, <3>1 DEF DiffPageCells
      <4> QED  BY <1>2, <2>2, <2>3, <4>1
    <3>2. CASE i > PageStart(page)
      <4>1. i \in DiffPageCells(page)
        BY <2>4, <3>2 DEF DiffPageCells
      <4> QED  BY <2>2, <2>3, <4>1
    <3> QED  BY <2>4, <3>1, <3>2
  <2>8. PagesAre'
    <3>1. PageStart(page)' = PageStart(page + 1)
      BY <2>2 DEF PageStart
    <3>2. CASE PageStart(page + 1) >= Len(new)
      <4>1. phase' = "descriptor" /\ \A i \in 1 .. Len(new) : rom'[i] = new[i]
        BY <2>2, <2>4, <2>7, <3>2
      <4> QED  BY <1>1, <4>1 DEF PagesAre
    <3>3. CASE ~(PageStart(page + 1) >= Len(new))
      <4>1. phase' = "send" /\ PageStart(page + 1) < Len(new)
        BY <2>2, <2>4, <3>3
      <4>2. \A i \in 1 .. PageStart(page + 1) : rom'[i] = new[i]
        <5>1. \A i \in 1 .. PageStart(page + 1) : i \in 1 .. Len(new) /\ i <= PageStart(page) + PageSize
          BY <2>4, <4>1
        <5> QED  BY <2>7, <5>1
      <4> QED  BY <1>1, <2>2, <3>1, <4>1, <4>2 DEF PagesAre
    <3> QED  BY <3>2, <3>3
  <2> QED  BY <2>5, <2>6, <2>8 DEF DiffInv
<1> QED  BY <1>3, <1>4

LEMMA AnswerLostInv ==
    ASSUME DiffInv, AnswerLost
    PROVE  DiffInv'
<1>1. /\ phase = "program" /\ phase' = "failed" /\ crcMatches(DiffPageOf(new, page))
      /\ UNCHANGED <<old, new, img1, window, page>>
      /\ rom' = pagesProgrammed /\ diffFaults' = diffFaults + 1
  BY DEF AnswerLost, images
<1>2. romPage = page /\ PageStart(page) < Len(new) /\ page \in Nat /\ ImagesAre
  BY <1>1 DEF DiffInv, PagesAre, RecordsAre
<1>3. pagesProgrammed \in [1 .. RomSize -> Cells]
  BY <1>1, <1>2, PageProgrammed DEF crcMatches
<1> QED  BY <1>1, <1>2, <1>3, GivenUpInv DEF ImagesAre

\* What is there at the end is the new image.
LEMMA PagesMakeImage ==
    ASSUME DiffInv
    PROVE  EndsWithNew
<1> SUFFICES ASSUME phase \in {"descriptor", "done"} PROVE SubSeq(rom, 1, Len(new)) = new
  BY DEF EndsWithNew
<1>1. /\ \A i \in 1 .. Len(new) : rom[i] = new[i]
      /\ Len(new) \in Nat /\ new \in Seq(Bytes)
  BY ImageSizes DEF DiffInv, PagesAre, ImagesAre
<1>2. SubSeq(rom, 0 + 1, 0 + Len(new)) = [i \in 1 .. Len(new) |-> rom[0 + i]]
  BY <1>1, PartIs
<1>3. /\ \A i \in 1 .. Len(new) : 0 + i = i
      /\ 0 + 1 = 1 /\ 0 + Len(new) = Len(new)
  BY <1>1
<1>4. new = [i \in 1 .. Len(new) |-> new[i]]
  BY <1>1
<1> QED  BY <1>1, <1>2, <1>3, <1>4

LEMMA ProgramDescriptorInv ==
    ASSUME DiffInv, ProgramDescriptor
    PROVE  DiffInv' /\ phase' = "done"
<1>1. /\ phase = "descriptor" /\ UNCHANGED <<old, new, img1, window, page, rom, diffFaults>>
      /\ phase' = IF SubSeq(rom, 1, Len(new)) = new THEN "done" ELSE "notStartable"
  BY DEF ProgramDescriptor, images, device
<1>2. \A i \in 1 .. Len(new) : rom[i] = new[i]
  BY <1>1 DEF DiffInv, PagesAre
<1>3. SubSeq(rom, 1, Len(new)) = new
  BY <1>1, PagesMakeImage DEF EndsWithNew
<1>4. ImagesAre'
  BY <1>1 DEF ImagesAre, DiffInv, RomSize
<1>5. RecordsAre'
  BY <1>1 DEF RecordsAre, DiffInv
<1>6. PagesAre'
  BY <1>1, <1>2, <1>3 DEF PagesAre
<1> QED  BY <1>1, <1>3, <1>4, <1>5, <1>6 DEF DiffInv

LEMMA UpgradeInterruptedInv ==
    ASSUME DiffInv, UpgradeInterrupted
    PROVE  DiffInv'
<1>1. /\ phase \in {"send", "program"} /\ phase' = "failed"
      /\ UNCHANGED <<old, new, img1, window, page>> /\ diffFaults' = diffFaults + 1
  BY DEF UpgradeInterrupted, images
<1>2. rom \in [1 .. RomSize -> Cells] /\ diffFaults \in Nat
  BY DEF DiffInv, ImagesAre
<1>3. rom' \in [1 .. RomSize -> Cells]
  <2>1. \/ rom' = rom
        \/ rom' = [i \in 1 .. RomSize |-> IF i \in DiffPageCells(romPage) THEN DiffGarbage ELSE rom[i]]
    BY DEF UpgradeInterrupted
  <2> QED  BY <1>2, <2>1 DEF Cells
<1> QED  BY <1>1, <1>2, <1>3, GivenUpInv

LEMMA DiffNextInv ==
    ASSUME DiffInv, [DiffNext]_diffVars
    PROVE  DiffInv'
<1>1. CASE DiffNext
  BY <1>1, BeginUpgradeInv, SendPageInv, ProgramPageInv, AnswerLostInv, ProgramDescriptorInv,
     UpgradeInterruptedInv DEF DiffNext
<1>2. CASE UNCHANGED diffVars
  <2>1. UNCHANGED <<old, new, img1, window, page, phase, rom, romPage, diffFaults>>
    BY <1>2 DEF diffVars, images, client, device
  <2>2. ImagesAre'
    BY <2>1 DEF ImagesAre, DiffInv, RomSize, Cells
  <2>3. RecordsAre'
    BY <2>1 DEF RecordsAre, DiffInv
  <2>4. PagesAre'
    BY <2>1 DEF PagesAre, DiffInv, PageStart
  <2> QED  BY <2>2, <2>3, <2>4 DEF DiffInv
<1> QED  BY <1>1, <1>2

-----------------------------------------------------------------------------
(* Nothing goes wrong unless something is lost or interrupted *)

\* What the updater assumes of the flash it begins with is there.
LEMMA BeginUpgradeAgrees ==
    ASSUME NoGap, DiffInv, NothingWrong, BeginUpgrade
    PROVE  NothingWrong'
<1> SUFFICES ASSUME diffFaults' = 0 PROVE phase' = "send" /\ Agree' /\ scratchpad' = << >>
  BY DEF NothingWrong
<1>1. /\ phase' = "send" /\ UNCHANGED <<old, new, rom, diffFaults>>
      /\ img1' = copyOf(old, Len(new)) /\ window' = Zeros(WindowPages * PageSize)
      /\ oldPages' = Zeros(WindowPages * PageSize) /\ scratchpad' = << >>
      /\ phase \in {"idle", "failed"}
  BY DEF BeginUpgrade, DeviceReset, images
<1>2. rom = [i \in 1 .. RomSize |-> IF i <= Len(old) THEN old[i] ELSE ErasedByte]
  BY <1>1 DEF NothingWrong
<1>3. /\ Len(new) \in Nat /\ Len(new) <= RomSize /\ RomSize \in Nat /\ Len(old) \in Nat
      /\ Len(old) \in OldLengths /\ Len(new) \in NewLengths
  BY ImageSizes DEF DiffInv, ImagesAre
<1>4. ASSUME NEW i \in 1 .. Len(new) PROVE rom[i] = img1'[i]
  <2>1. i \in 1 .. RomSize
    BY <1>3
  <2>2. img1'[i] = IF i <= Len(old) THEN old[i] ELSE 0
    BY <1>1 DEF copyOf
  <2>3. rom[i] = IF i <= Len(old) THEN old[i] ELSE ErasedByte
    <3> HIDE DEF RomSize
    <3> QED  BY <1>2, <2>1
  <2>4. ErasedByte = 0 \/ i <= Len(old)
    BY <1>3 DEF NoGap
  <2> QED  BY <2>2, <2>3, <2>4
<1> QED  BY <1>1, <1>4 DEF Agree

LEMMA SendPageAgrees ==
    ASSUME DiffInv, NothingWrong, SendPage
    PROVE  NothingWrong'
<1> SUFFICES ASSUME diffFaults' = 0
             PROVE  phase' = "program" /\ Agree' /\ scratchpad' = DiffPageOf(new', page')
  BY DEF NothingWrong
<1>1. PICK again \in {0} \cup (IF diffFaults < MaxFaults THEN 1 .. Len(Commands(page)) ELSE {}) :
        LET cmds == Commands(page)
            received == IF again = 0 THEN cmds ELSE SubSeq(cmds, 1, again) \o SubSeq(cmds, again, Len(cmds))
        IN /\ scratchpad' = scratchpad \o executeAll(received)
           /\ diffFaults' = diffFaults + (IF again = 0 THEN 0 ELSE 1)
  BY DEF SendPage
<1>2. /\ phase = "send" /\ phase' = "program"
      /\ UNCHANGED <<old, new, img1, window, page, rom, oldPages>>
  BY DEF SendPage, images
<1>3. diffFaults \in Nat /\ diffFaults' = diffFaults + (IF again = 0 THEN 0 ELSE 1)
  BY <1>1 DEF DiffInv, ImagesAre
<1>4. again = 0 /\ diffFaults = 0
  BY <1>3
<1>5. scratchpad' = scratchpad \o executeAll(Commands(page))
  BY <1>1, <1>4
<1>6. Agree /\ scratchpad = << >>
  BY <1>2, <1>4 DEF NothingWrong
<1>7. /\ page \in Nat /\ PageStart(page) < Len(new) /\ Len(img1) = Len(new)
      /\ Len(window) = WindowPages * PageSize
  BY <1>2 DEF DiffInv, PagesAre, RecordsAre
<1>8. Len(new) \in Nat /\ Len(window) \in Nat \ {0} /\ new \in Seq(Bytes)
  BY <1>7, ImageSizes, DiffNumbersHold DEF DiffInv, DiffNumbers, ImagesAre
<1>9. executeAll(Commands(page)) = DiffPageOf(new, page)
  BY <1>6, <1>7, <1>8, PageIsBuilt
<1>10. << >> \o DiffPageOf(new, page) = DiffPageOf(new, page)
  <2>1. DiffPageOf(new, page) \in Seq(Bytes)
    <3> DEFINE a == PageStart(page)
               end == a + Len(DiffPageOf(new, page))
    <3>1. a \in Nat /\ end \in Nat /\ end <= Len(new) /\ DiffPageOf(new, page) = SubSeq(new, a + 1, end)
      <4>1. /\ a \in Nat /\ end \in Nat /\ end = Least(a + PageSize, Len(new))
            /\ DiffPageOf(new, page) = SubSeq(new, a + 1, end)
        BY <1>7, <1>8, PageIs
      <4> HIDE DEF a, end
      <4>2. end <= Len(new)
        BY <1>8, <4>1, NextPageStart DEF Least
      <4> QED  BY <4>1, <4>2
    <3> HIDE DEF a, end
    <3>2. \A i \in a + 1 .. end : new[i] \in Bytes
      BY <1>8, <3>1
    <3>3. a + 1 \in Int /\ end \in Int
      BY <3>1
    <3> QED  BY <3>1, <3>2, <3>3, SubSeqProperties
  <2> QED  BY <2>1
<1>11. scratchpad' = DiffPageOf(new, page)
  BY <1>5, <1>6, <1>9, <1>10, Zenon
<1> QED  BY <1>2, <1>6, <1>11 DEF Agree

LEMMA ProgramPageAgrees ==
    ASSUME DiffInv, NothingWrong, ProgramPage
    PROVE  NothingWrong'
<1>1. phase = "program" /\ UNCHANGED <<old, new, diffFaults>>
  BY DEF ProgramPage, images
<1> SUFFICES ASSUME diffFaults = 0 PROVE NothingWrong'
  BY <1>1 DEF NothingWrong
<1>2. Agree /\ scratchpad = DiffPageOf(new, page)
  BY <1>1 DEF NothingWrong
<1>3. /\ romPage = page /\ PageStart(page) < Len(new) /\ page \in Nat
      /\ Len(img1) = Len(new) /\ ImagesAre
  BY <1>1 DEF DiffInv, PagesAre, RecordsAre
<1>4. pageCompletedDoFlash /\ NextPage
  BY <1>2 DEF ProgramPage, crcMatches
<1>5. /\ rom' = pagesProgrammed /\ scratchpad' = << >>
      /\ oldPages' = SubSeq(oldPages, PageSize + 1, Len(oldPages)) \o DiffPageOf(rom, page)
      /\ phase' = IF PageStart(page + 1) >= Len(new) THEN "descriptor" ELSE "send"
      /\ PageStart(page) + PageSize <= Len(new) => window' = fillNextPage /\ img1' = img1WithPage
  BY <1>3, <1>4 DEF pageCompletedDoFlash, NextPage
<1>6. /\ PageStart(page) \in Nat /\ PageStart(page + 1) = PageStart(page) + PageSize
      /\ PageSize \in Nat \ {0} /\ Len(new) \in Nat /\ Len(new) <= RomSize /\ Len(rom) = RomSize
      /\ RomSize \in Nat
  BY <1>3, NextPageStart, ImageSizes
<1>7. CASE PageStart(page + 1) >= Len(new)
  BY <1>5, <1>7 DEF NothingWrong
<1>8. CASE ~(PageStart(page + 1) >= Len(new))
  <2> DEFINE a == PageStart(page)
  <2>1. /\ phase' = "send" /\ a + PageSize < Len(new)
        /\ window' = fillNextPage /\ img1' = img1WithPage
    BY <1>5, <1>6, <1>8
  <2>2. \A i \in 1 .. Len(new) :
           rom'[i] = IF i \in DiffPageCells(page) THEN new[i] ELSE rom[i]
    BY <1>2, <1>3, <1>5, PageProgrammed
  <2>3. ASSUME NEW i \in 1 .. Len(new) PROVE rom'[i] = img1'[i]
    <3>1. img1'[i] = IF i \in DiffPageCells(page) THEN new[i] ELSE img1[i]
      BY <1>3, <2>1 DEF img1WithPage
    <3> QED  BY <1>2, <2>2, <3>1 DEF Agree
  <2>4. oldPages' = window'
    <3>1. DiffPageOf(rom, page) = SubSeq(rom, a + 1, a + PageSize)
      <4>1. Least(a + PageSize, Len(rom)) = a + PageSize
        <5> HIDE DEF a
        <5> QED  BY <1>6, <2>1 DEF Least, a
      <4> QED  BY <4>1 DEF DiffPageOf
    <3>2. SubSeq(rom, a + 1, a + PageSize) = SubSeq(img1, a + 1, a + PageSize)
      <4> HIDE DEF a
      <4>1. a \in Nat
        BY <1>6 DEF a
      <4>2. \A j \in 1 .. PageSize : a + j \in 1 .. Len(new)
        BY <1>6, <2>1, <4>1
      <4>3. \A j \in 1 .. PageSize : rom[a + j] = img1[a + j]
        BY <1>2, <4>2 DEF Agree
      <4>4. SubSeq(rom, a + 1, a + PageSize) = [j \in 1 .. PageSize |-> rom[a + j]]
        BY <1>6, <4>1, PartIs
      <4>5. SubSeq(img1, a + 1, a + PageSize) = [j \in 1 .. PageSize |-> img1[a + j]]
        BY <1>6, <4>1, PartIs
      <4> QED  BY <4>3, <4>4, <4>5
    <3> QED  BY <1>2, <1>5, <2>1, <3>1, <3>2 DEF fillNextPage, Agree
  <2>5. Agree'
    BY <1>1, <2>3, <2>4 DEF Agree
  <2> QED  BY <1>5, <2>1, <2>5 DEF NothingWrong
<1> QED  BY <1>7, <1>8

LEMMA DiffNextAgrees ==
    ASSUME NoGap, DiffInv, NothingWrong, [DiffNext]_diffVars
    PROVE  NothingWrong'
<1>1. CASE BeginUpgrade \/ SendPage \/ ProgramPage
  BY <1>1, BeginUpgradeAgrees, SendPageAgrees, ProgramPageAgrees
<1>2. CASE AnswerLost \/ UpgradeInterrupted
  <2>1. diffFaults' = diffFaults + 1 /\ diffFaults \in Nat
    BY <1>2 DEF AnswerLost, UpgradeInterrupted, DiffInv, ImagesAre
  <2> QED  BY <2>1 DEF NothingWrong
<1>3. CASE ProgramDescriptor
  <2>1. phase' = "done"
    BY <1>3, ProgramDescriptorInv
  <2> QED  BY <2>1 DEF NothingWrong
<1>4. CASE UNCHANGED diffVars
  <2>1. UNCHANGED <<old, new, img1, window, page, phase, rom, oldPages, scratchpad, diffFaults>>
    BY <1>4 DEF diffVars, images, client, device
  <2>2. DiffPageOf(new, page)' = DiffPageOf(new, page)
    BY <2>1 DEF DiffPageOf, PageStart
  <2>3. Agree => Agree'
    BY <2>1 DEF Agree
  <2> QED  BY <2>1, <2>2, <2>3 DEF NothingWrong, RomSize
<1> QED  BY <1>1, <1>2, <1>3, <1>4 DEF DiffNext

LEMMA NothingWrongImplies ==
    ASSUME DiffInv, NothingWrong
    PROVE  RecordsAgree
<1> SUFFICES ASSUME diffFaults = 0, phase = "send" PROVE SubSeq(rom, 1, Len(img1)) = img1 /\ oldPages = window /\ romPage = page
  BY DEF RecordsAgree, NothingWrong
<1>1. /\ \A i \in 1 .. Len(new) : rom[i] = img1[i]
      /\ oldPages = window /\ romPage = page /\ Len(img1) = Len(new) /\ img1 \in Seq(Bytes)
  BY DEF NothingWrong, Agree, DiffInv, PagesAre, RecordsAre
<1>2. Len(new) \in Nat
  BY ImageSizes DEF DiffInv
<1>3. SubSeq(rom, 0 + 1, 0 + Len(new)) = [i \in 1 .. Len(new) |-> rom[0 + i]]
  BY <1>2, PartIs
<1>4. /\ \A i \in 1 .. Len(new) : 0 + i = i
      /\ 0 + 1 = 1 /\ 0 + Len(new) = Len(new)
  BY <1>2
<1>5. img1 = [i \in 1 .. Len(new) |-> img1[i]]
  BY <1>1, <1>2
<1> QED  BY <1>1, <1>3, <1>4, <1>5

DiffIInv == DiffInv /\ NothingWrong

LEMMA DiffKeepsInv == DiffSpec => []DiffInv
<1>1. DiffInit => DiffInv
  BY DiffInitInv
<1>2. DiffInv /\ [DiffNext]_diffVars => DiffInv'
  BY DiffNextInv
<1> QED  BY <1>1, <1>2, PTL DEF DiffSpec

\* A differential update that gets to its end has programmed the new image,
\* whatever was repeated, lost or interrupted, and on whichever mix of pages
\* it was started again (FlashDiffMode.java, decompressor.cpp).
THEOREM DiffEndsWithNew == DiffSpec => []EndsWithNew
<1>1. DiffInv => EndsWithNew
  BY PagesMakeImage
<1> QED  BY <1>1, DiffKeepsInv, PTL

\* As long as nothing is lost or interrupted, the updater's record of the flash
\* and of the overwritten pages is what the device has, and every page that is
\* sent is the page of the new image: what generateDiff() takes apart, the
\* decompressor puts together (FlashDiff.java, decompressor.cpp).
THEOREM DiffRecordsAgree ==
    ASSUME NoGap
    PROVE  DiffSpec => []RecordsAgree
<1>1. DiffInit => DiffIInv
  BY DiffInitInv DEF DiffIInv
<1>2. DiffIInv /\ [DiffNext]_diffVars => DiffIInv'
  BY DiffNextInv, DiffNextAgrees DEF DiffIInv
<1>3. DiffIInv => RecordsAgree
  BY NothingWrongImplies DEF DiffIInv
<1> QED  BY <1>1, <1>2, <1>3, PTL DEF DiffSpec

-----------------------------------------------------------------------------
(* Both kinds of update, as they are checked *)

UpdateInv ==
    /\ part = "update" => BootInv /\ UpdaterInv
    /\ part = "diff" => DiffIInv

LEMMA UpdateNextInv ==
    ASSUME NoGap, UpdateInv, [UpdateNext]_updateVars
    PROVE  UpdateInv'
<1>1. CASE UNCHANGED updateVars
  <2>1. UNCHANGED part /\ UNCHANGED updaterVars /\ UNCHANGED diffVars
    BY <1>1 DEF updateVars
  <2>2. part = "update" => [Next]_updaterVars /\ [BootNext]_bootVars
    <3>1. UNCHANGED bootVars
      BY <2>1 DEF updaterVars
    <3> QED  BY <2>1, <3>1
  <2>3. [DiffNext]_diffVars
    BY <2>1
  <2> QED  BY <2>1, <2>2, <2>3, UpdaterNextInv, BootNextInv, DiffNextInv, DiffNextAgrees DEF UpdateInv, DiffIInv
<1>2. CASE part = "update" /\ Next /\ UNCHANGED <<part, changing, diffVars>>
  <2>1. BootInv /\ UpdaterInv /\ [Next]_updaterVars /\ part' = "update"
    BY <1>2 DEF UpdateInv
  <2>2. [BootNext]_bootVars
    BY <2>1, UpdaterIsPartner DEF UpdaterInv
  <2> QED  BY <2>1, <2>2, UpdaterNextInv, BootNextInv DEF UpdateInv
<1>3. CASE part = "commands" /\ UNCHANGED part
  BY <1>3 DEF UpdateInv
<1>4. CASE part = "diff" /\ DiffNext /\ UNCHANGED part
  <2>1. DiffIInv /\ [DiffNext]_diffVars /\ part' = "diff"
    BY <1>4 DEF UpdateInv
  <2> QED  BY <2>1, DiffNextInv, DiffNextAgrees DEF UpdateInv, DiffIInv
<1> QED  BY <1>1, <1>2, <1>3, <1>4 DEF UpdateNext

\* What the updater takes for done is done, in full and in differential mode
\* (DeviceManagement.java, FlashDiffMode.java, update.cpp).
THEOREM SuccessIsNew ==
    ASSUME NoGap
    PROVE  UpdateSpec => []SuccessMeansNew
<1>1. UpdateInit => UpdateInv
  <2> SUFFICES ASSUME UpdateInit PROVE UpdateInv
    OBVIOUS
  <2>1. UpdaterInit /\ DiffInit
    BY DEF UpdateInit
  <2>2. BootInit
    BY <2>1, UpdaterAssumption DEF UpdaterInit, BootInit
  <2> QED  BY <2>1, <2>2, BootInitInv, UpdaterInitInv, DiffInitInv DEF UpdateInv, DiffIInv
<1>2. UpdateInv /\ [UpdateNext]_updateVars => UpdateInv'
  BY UpdateNextInv
<1>3. UpdateInv => SuccessMeansNew
  BY UpdaterInvImplies, PagesMakeImage, NothingWrongImplies DEF UpdateInv, DiffIInv, SuccessMeansNew
<1> QED  BY <1>1, <1>2, <1>3, PTL DEF UpdateSpec
=============================================================================

------------------------------ MODULE OneWire -------------------------------
(***************************************************************************)
(* The search of sblib/src/onewire.cpp: every call of OneWireSearch()      *)
(* walks down the tree of ROM codes once, bit by bit, and turns where the  *)
(* one before took its last 0.  _LastFamilyDiscrepancy is written and      *)
(* never read, and is left out.                                            *)
(***************************************************************************)
EXTENDS OneWireLine

VARIABLES
    ROM_NO,
    LastDiscrepancy,    \* _LastDiscrepancy
    LastDeviceFlag,     \* _bLastDeviceFlag
    id_bit_number,      \* the next bit, 0 while no search is running
    last_zero,
    bRet,               \* the answer of the last search
    newAddr             \* what the caller gets

searchVars == <<ROM_NO, LastDiscrepancy, LastDeviceFlag>>
oneWireVars == <<lineVars, goalVars, searchVars, id_bit_number, last_zero, bRet, newAddr>>

NoRom == [i \in 1 .. Bits |-> 0]
searching == id_bit_number # 0

SearchTypeOK ==
    /\ LineTypeOK
    /\ ROM_NO \in Roms /\ newAddr \in Roms
    /\ LastDiscrepancy \in 0 .. Bits
    /\ LastDeviceFlag \in BOOLEAN /\ bRet \in BOOLEAN
    /\ id_bit_number \in 0 .. Bits
    /\ last_zero \in 0 .. Bits

OneWireInit ==
    /\ LineInit
    /\ ROM_NO = NoRom /\ LastDiscrepancy = 0 /\ LastDeviceFlag = FALSE
    /\ id_bit_number = 0 /\ last_zero = 0
    /\ bRet = FALSE /\ newAddr = NoRom

FromTheStart == LastDiscrepancy' = 0 /\ LastDeviceFlag' = FALSE

OneWireResetSearch ==
    /\ ~searching
    /\ FromTheStart /\ ROM_NO' = NoRom
    /\ Restart({})
    /\ UNCHANGED <<lineVars, id_bit_number, last_zero, bRet, newAddr>>

OneWireTargetSearch(f) ==
    /\ ~searching
    /\ ROM_NO' = [i \in 1 .. Bits |-> IF i <= FamilyBits THEN f[i] ELSE 0]
    /\ LastDiscrepancy' = Bits /\ LastDeviceFlag' = FALSE
    /\ Restart({f})
    /\ UNCHANGED <<lineVars, id_bit_number, last_zero, bRet, newAddr>>

\* The beginning of OneWireSearch().
SearchIsOver ==
    /\ ~searching /\ LastDeviceFlag
    /\ bRet' = FALSE
    /\ UNCHANGED <<lineVars, goalVars, searchVars, id_bit_number, last_zero, newAddr>>

NobodyThere ==
    /\ ~searching /\ ~LastDeviceFlag /\ ~Presence
    /\ FromTheStart /\ bRet' = FALSE
    /\ Restart({})
    /\ UNCHANGED <<lineVars, ROM_NO, id_bit_number, last_zero, newAddr>>

SearchBegins ==
    /\ ~searching /\ ~LastDeviceFlag /\ Presence
    /\ id_bit_number' = 1 /\ last_zero' = 0
    /\ ListenAll
    /\ UNCHANGED <<goalVars, searchVars, bRet, newAddr>>

\* The loop of OneWireSearch().
discrepancy == id_bit(id_bit_number) = cmp_id_bit(id_bit_number)

NobodyAnswers ==
    /\ searching
    /\ id_bit(id_bit_number) = 1 /\ cmp_id_bit(id_bit_number) = 1
    /\ FromTheStart /\ bRet' = FALSE /\ id_bit_number' = 0
    /\ Restart({})
    /\ UNCHANGED <<lineVars, ROM_NO, last_zero, newAddr>>

\* Operators named ...Bug are not part of the specification: each is a
\* plausible error in the code.
search_directionBug ==
    CASE ~discrepancy -> id_bit(id_bit_number)
      [] discrepancy /\ id_bit_number <= LastDiscrepancy -> ROM_NO[id_bit_number]
      [] OTHER -> 0

search_direction ==
    CASE ~discrepancy -> id_bit(id_bit_number)
      [] discrepancy /\ id_bit_number < LastDiscrepancy -> ROM_NO[id_bit_number]
      [] OTHER -> IF id_bit_number = LastDiscrepancy THEN 1 ELSE 0

zero == IF discrepancy /\ search_direction = 0 THEN id_bit_number ELSE last_zero

\* The search went through all bits; a family code 0 is taken for a failure.
Finish(rom) ==
    /\ bRet' = TRUE
    /\ IF family(rom) = NoFamily
         THEN FromTheStart /\ Restart({}) /\ UNCHANGED newAddr
         ELSE /\ LastDiscrepancy' = zero /\ LastDeviceFlag' = (zero = 0)
              /\ newAddr' = rom
              /\ Return(rom)

SearchBit ==
    /\ searching
    /\ id_bit(id_bit_number) = 0 \/ cmp_id_bit(id_bit_number) = 0
    /\ ROM_NO' = [ROM_NO EXCEPT ![id_bit_number] = search_direction]
    /\ Choose(id_bit_number, search_direction)
    /\ last_zero' = zero
    /\ IF id_bit_number < Bits
         THEN /\ id_bit_number' = id_bit_number + 1
              /\ UNCHANGED <<goalVars, LastDiscrepancy, LastDeviceFlag, bRet, newAddr>>
         ELSE id_bit_number' = 0 /\ Finish(ROM_NO')

OneWireSearch ==
    SearchIsOver \/ NobodyThere \/ SearchBegins \/ NobodyAnswers \/ SearchBit

Outside ==
    LineNext /\ UNCHANGED <<searchVars, id_bit_number, last_zero, bRet, newAddr>>

OneWireNext ==
    \/ OneWireResetSearch
    \/ \E f \in Families : OneWireTargetSearch(f)
    \/ OneWireSearch
    \/ Outside

OneWireSpec == OneWireInit /\ [][OneWireNext]_oneWireVars

(***************************************************************************)
(* Properties                                                              *)
(***************************************************************************)
searchEnds == searching /\ ~searching'

\* On a line that is not shorted an answer is the ROM code of a device that
\* is there.  An enumeration without removals and shorts returns none twice,
\* and when it says that it has seen the last device it has returned every
\* one that was on the line from its start.
AnswersArePresent ==
    bRet' /\ ~shorted => newAddr' \in present /\ (complete => newAddr' \notin found)
NoneMissed == complete' /\ LastDeviceFlag' => stayed' \subseteq found'

\* The search after OneWireTargetSearch() returns a device of the family if
\* one was there all the time, whatever was plugged in or removed before it.
TargetFound ==
    \A f \in sought :
        (\E d \in stayed : family(d) = f) => bRet' /\ family(newAddr') = f

\* What a search promises at its end, with devices that come and go.
FindsDevices ==
    [][searchEnds => AnswersArePresent /\ NoneMissed /\ TargetFound]_oneWireVars

=============================================================================

------------------------------ MODULE TableAlloc ------------------------------
(***************************************************************************)
(* The memory of a SYSTEMB device's tables: a load control asks for memory  *)
(* for a table (DataRelativeAllocation), the device places it in its user   *)
(* EEPROM below the tables it has, the client fills it in and completes the *)
(* load, and the device keeps a checksum in the table's memory control      *)
(* block (class PropertiesSYSTEMB).  The client is a download procedure     *)
(* that may be given up and started again at any time.                      *)
(***************************************************************************)
EXTENDS Integers

CONSTANTS
    NTables,    \* address, association and object table, application 1 and 2
    First,      \* addresses below hold the device's own fields, not tables
    Top,        \* USER_EEPROM_START + USER_EEPROM_SIZE
    Sizes,      \* memory a client asks for
    Partial,    \* the client may load some of the tables only
    Modes       \* mode of the request: TRUE fills the memory

ASSUME TableAllocAssumption ==
    /\ NTables \in Nat \ {0}
    /\ First \in Nat \ {0} /\ Top \in Nat /\ Sizes \subseteq Nat \ {0}
    /\ \A n \in Sizes : First + NTables * n <= Top
    /\ Partial \in BOOLEAN /\ Modes \subseteq BOOLEAN

Tables == 1..NTables
Cells == 1..(Top - 1)
Erased == 0
Filled == -1

VARIABLES
    tableAddress,   \* PID_TABLE_REFERENCE, 0: none
    tableSize,      \* in the memory control block
    crc,            \* in the memory control block: the content it was made of
    loadState,
    mem,            \* whose data the cells of the user EEPROM hold
    toUnload, toLoad,   \* the client's download: tables it still has to unload, to load
    asked               \* it has asked for the memory of the table it is loading

tablesVars == <<tableAddress, tableSize, crc, loadState, mem, toUnload, toLoad, asked>>

CellsAt(address, size) == address..(address + size - 1)
Memory(t) == CellsAt(tableAddress[t], tableSize[t])
Content(t) == [a \in Memory(t) |-> mem[a]]
NoContent == [a \in {} |-> Erased]
Allocated(t) == tableAddress[t] # 0

TableAllocTypeOK ==
    /\ tableAddress \in [Tables -> Nat]
    /\ tableSize \in [Tables -> Sizes \cup {0}]
    /\ loadState \in [Tables -> {"UNLOADED", "LOADING", "LOADED"}]
    /\ mem \in [Cells -> Tables \cup {Erased, Filled}]
    /\ DOMAIN crc = Tables
    /\ \A t \in Tables : /\ DOMAIN crc[t] \subseteq Cells
                         /\ crc[t] \in [DOMAIN crc[t] -> Tables \cup {Erased, Filled}]
    /\ toUnload \subseteq toLoad /\ toLoad \subseteq Tables
    /\ asked \in BOOLEAN

TablesInit ==
    /\ tableAddress = [t \in Tables |-> 0]
    /\ tableSize = [t \in Tables |-> 0]
    /\ crc = [t \in Tables |-> NoContent]
    /\ loadState = [t \in Tables |-> "UNLOADED"]
    /\ mem = [a \in Cells |-> Erased]
    /\ toUnload = {} /\ toLoad = {} /\ asked = FALSE

-----------------------------------------------------------------------------
(* Load controls: loadProperty() *)

\* LC_UNLOAD: the table reference is cleared, the memory is not.  (Nor is the
\* checksum; nobody reads it before the next LC_LOAD_COMPLETED, so the model
\* forgets it.)
Unload(t) ==
    /\ t \in toUnload /\ \A u \in toUnload : t <= u
    /\ loadState' = [loadState EXCEPT ![t] = "UNLOADED"]
    /\ tableAddress' = [tableAddress EXCEPT ![t] = 0]
    /\ toUnload' = toUnload \ {t}
    /\ crc' = [crc EXCEPT ![t] = NoContent]
    /\ UNCHANGED <<tableSize, mem, toLoad, asked>>

\* The client unloads all it will load and then loads one table after the other.
Turn(t) == toUnload = {} /\ t \in toLoad /\ \A u \in toLoad : t <= u

StartLoading(t) ==
    /\ Turn(t) /\ loadState[t] = "UNLOADED"
    /\ loadState' = [loadState EXCEPT ![t] = "LOADING"]
    /\ UNCHANGED <<tableAddress, tableSize, crc, mem, toUnload, toLoad, asked>>

\* Operators named ...Bug are not part of the specification: each is a
\* plausible error in the code.
LowestBug(virtMemAddr) ==
    /\ virtMemAddr \in {Top} \cup ({tableAddress[t] : t \in Tables \ {NTables}} \ {0})
    /\ \A t \in Tables \ {NTables} : Allocated(t) => virtMemAddr <= tableAddress[t]

\* Where the lowest table begins
Lowest(virtMemAddr) ==
    /\ virtMemAddr \in {Top} \cup ({tableAddress[t] : t \in Tables} \ {0})
    /\ \A t \in Tables : Allocated(t) => virtMemAddr <= tableAddress[t]

\* The table is placed below the lowest one.  The filling (mode 1) starts at
\* virtMemAddr, above the memory that was allocated; what it writes beyond
\* the end of the user EEPROM is not modelled.
\* Bound: the client stops before the address would get negative.
handleDataRelativeAllocation(t, reqMemSize, mode) ==
    \E virtMemAddr \in 1..Top :
        /\ Lowest(virtMemAddr)
        /\ reqMemSize < virtMemAddr
        /\ tableAddress' = [tableAddress EXCEPT ![t] = virtMemAddr - reqMemSize]
        /\ tableSize' = [tableSize EXCEPT ![t] = reqMemSize]
        /\ mem' = [a \in Cells |->
                     IF mode /\ a \in CellsAt(virtMemAddr, reqMemSize) THEN Filled ELSE mem[a]]

Allocate(t) ==
    /\ Turn(t) /\ loadState[t] = "LOADING" /\ ~asked
    /\ asked' = TRUE
    /\ \E n \in Sizes : \E mode \in Modes : handleDataRelativeAllocation(t, n, mode)
    /\ UNCHANGED <<crc, loadState, toUnload, toLoad>>

\* A_Memory_Write of the client, who has read the table reference
WriteTable(t) ==
    /\ Turn(t) /\ loadState[t] = "LOADING" /\ asked
    /\ mem' = [a \in Cells |-> IF a \in Memory(t) THEN t ELSE mem[a]]
    /\ UNCHANGED <<tableAddress, tableSize, crc, loadState, toUnload, toLoad, asked>>

\* LC_LOAD_COMPLETED, once the table is written
LoadCompletedBug(t) ==
    /\ Turn(t) /\ loadState[t] = "LOADING" /\ asked
    /\ \A a \in Memory(t) : mem[a] = t
    /\ loadState' = [loadState EXCEPT ![t] = "LOADED"]
    /\ crc' = [crc EXCEPT ![t] = [a \in CellsAt(tableAddress[t] + 1, tableSize[t]) |->
                                     IF a \in Cells THEN mem[a] ELSE Erased]]
    /\ toLoad' = toLoad \ {t} /\ asked' = FALSE
    /\ UNCHANGED <<tableAddress, tableSize, mem, toUnload>>
LoadCompleted(t) ==
    /\ Turn(t) /\ loadState[t] = "LOADING" /\ asked
    /\ \A a \in Memory(t) : mem[a] = t
    /\ loadState' = [loadState EXCEPT ![t] = "LOADED"]
    /\ crc' = [crc EXCEPT ![t] = Content(t)]
    /\ toLoad' = toLoad \ {t} /\ asked' = FALSE
    /\ UNCHANGED <<tableAddress, tableSize, mem, toUnload>>

\* A new download, perhaps instead of one that was given up, begins with
\* unloading what it will load.
Download ==
    \E S \in (IF Partial THEN SUBSET Tables \ {{}} ELSE {Tables}) :
        /\ toUnload' = S /\ toLoad' = S /\ asked' = FALSE
        /\ UNCHANGED <<tableAddress, tableSize, crc, loadState, mem>>

TablesNext ==
    \/ Download
    \/ \E t \in Tables : Unload(t) \/ StartLoading(t) \/ Allocate(t) \/ WriteTable(t) \/ LoadCompleted(t)

TablesSpec == TablesInit /\ [][TablesNext]_tablesVars

-----------------------------------------------------------------------------
(* Properties *)

\* Two tables never share memory, in whatever order they are unloaded and
\* loaded again.
TablesDisjoint ==
    \A t, u \in Tables : t # u /\ Allocated(t) /\ Allocated(u) => Memory(t) \cap Memory(u) = {}

\* A loaded table is what the client wrote, with the checksum of it, whatever
\* was loaded or given up since.
LoadedIsWhole ==
    \A t \in Tables : loadState[t] = "LOADED" =>
        /\ \A a \in Memory(t) : mem[a] = t
        /\ crc[t] = Content(t)

=============================================================================

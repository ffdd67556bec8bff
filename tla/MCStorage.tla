------------------------------ MODULE MCStorage ------------------------------
(***************************************************************************)
(* Model checking what a device keeps, and how its partner gets at it: the  *)
(* user EEPROM in the flash (UserEeprom), the memory mapper (MemMapper),    *)
(* the memory services (MemoryAccess), the memory of the tables             *)
(* (TableAlloc) and a download (Download).  The parts share nothing: a      *)
(* behaviour belongs to one of them, and the others do not move.            *)
(***************************************************************************)
EXTENDS UserEeprom, MemMapper, MemoryAccess, TableAlloc, Download

CONSTANTS c1, c2, one

MCContents == {c1, c2}
MCValues == {one}

VARIABLE part

storageVars == <<part, eepromVars, mapperVars, accessVars, tablesVars, downloadVars>>

\* One of the initial states of the parts that do not move
AccessIdle == deviceControl = FALSE /\ memories.status = 0
DownloadIdle ==
    /\ flash = [loadState |-> [o \in Objects |-> "UNLOADED"], addrTab |-> "fixed",
                comms |-> "fixed", own |-> [p \in Places |-> CHOOSE a \in Addresses : TRUE]]

StorageInit ==
    /\ part \in {"eeprom", "mapper", "access", "tables", "download"}
    /\ EepromInit /\ MapperInit /\ AccessInit /\ TablesInit /\ DownloadInit
    /\ part # "access" => AccessIdle
    /\ part # "download" => DownloadIdle

StorageNext ==
    \/ /\ part = "eeprom" /\ EepromNext
       /\ UNCHANGED <<part, mapperVars, accessVars, tablesVars, downloadVars>>
    \/ /\ part = "mapper" /\ MapperNext
       /\ UNCHANGED <<part, eepromVars, accessVars, tablesVars, downloadVars>>
    \/ /\ part = "access" /\ AccessNext
       /\ UNCHANGED <<part, eepromVars, mapperVars, tablesVars, downloadVars>>
    \/ /\ part = "tables" /\ TablesNext
       /\ UNCHANGED <<part, eepromVars, mapperVars, accessVars, downloadVars>>
    \/ /\ part = "download" /\ DownloadNext
       /\ UNCHANGED <<part, eepromVars, mapperVars, accessVars, tablesVars>>

StorageSpec == StorageInit /\ [][StorageNext]_storageVars

=============================================================================

------------------------------- MODULE Download -------------------------------
(***************************************************************************)
(* Downloading a device: the load states of its interface objects, the      *)
(* places of its tables and its individual address, kept in the user        *)
(* EEPROM (RAM), and what of them a restart brings back from the flash      *)
(* (classes BCU2, MASK0701, PropertiesBCU2, PropertiesMASK0701).  Flashing   *)
(* is one step here; UserEeprom has its inside.                             *)
(***************************************************************************)
EXTENDS Naturals

CONSTANTS
    Objects,      \* interface objects with a load state
    Addresses,    \* individual addresses that occur
    MASK0701,     \* the device is a MASK0701, whose load controls are memory writes
    StaticTab     \* begin()'s read-only communication object table, or "none"

Places == {"fixed", "other"}     \* 0x0116, where addrTab() is, and elsewhere
PHY_ADDR_DEFAULT == 65535        \* 15.15.255
ASSUME DownloadAssumption ==
    /\ Addresses \subseteq 0..65535 /\ PHY_ADDR_DEFAULT \in Addresses
    /\ Objects \subseteq {"ADDR_TABLE", "ASSOC_TABLE", "APPLICATION"}
    /\ MASK0701 \in BOOLEAN /\ StaticTab \in Places \cup {"none"}

VARIABLES
    eeprom,     \* userEepromData: load states, addrTabAddr, commsTabAddr, and
                \* the individual address in the address table at each place
    flash,      \* what readUserEeprom() would read
    imageModified,   \* userEepromModified
    ownAddr,    \* the address the device answers to
    connected   \* directConnection()

downloadVars == <<eeprom, flash, imageModified, ownAddr, connected>>

LoadState == {"UNLOADED", "LOADED", "LOADING", "ERROR"}
EepromImage == [loadState : [Objects -> LoadState], addrTab : Places, comms : Places,
          own : [Places -> Addresses]]

DownloadTypeOK ==
    /\ {eeprom, flash} \subseteq EepromImage
    /\ {imageModified, connected} \subseteq BOOLEAN
    /\ ownAddr \in Addresses

\* 0.0.0 is not allowed for a device that is no router.
validAddress(a) == IF a = 0 THEN PHY_ADDR_DEFAULT ELSE a

\* Any finished download, perhaps one of an earlier version of the application,
\* after begin().
DownloadInit ==
    /\ flash \in EepromImage /\ flash.addrTab = "fixed"
    /\ flash.loadState \in [Objects -> {"UNLOADED", "LOADED"}]
    /\ eeprom = [flash EXCEPT !.comms = IF StaticTab = "none" THEN @ ELSE StaticTab,
                             !.own["fixed"] = validAddress(@)]
    /\ imageModified = (eeprom # flash)
    /\ ownAddr = eeprom.own["fixed"]
    /\ connected = FALSE

-----------------------------------------------------------------------------
(* Individual address *)

LoadingAddrTable(image) == "ADDR_TABLE" \in Objects /\ image.loadState["ADDR_TABLE"] = "LOADING"

\* BCU2::setOwnAddress(): while the address table is loading, the address
\* is written into it, too, wherever it is.
withOwnAddress(image, a) ==
    [image EXCEPT !.own = [p \in Places |->
        IF p = "fixed" \/ (LoadingAddrTable(image) /\ p = image.addrTab) THEN a ELSE @[p]]]

setOwnAddress(a) ==
    /\ eeprom' = withOwnAddress(eeprom, a)
    /\ imageModified' = (imageModified \/ a # eeprom.own["fixed"] \/ LoadingAddrTable(eeprom))
    /\ ownAddr' = a
    /\ UNCHANGED <<flash, connected>>

\* BcuDefault::begin() and BCU2::begin(): setOwnAddress() of BCU2 with the stored
\* address, after which modified is cleared, and again with the address from the
\* table if that is loading; the address is in both places then.
begunWith(image) ==
    LET first == withOwnAddress(image, image.own["fixed"])
    IN IF LoadingAddrTable(image) THEN withOwnAddress(first, first.own[image.addrTab]) ELSE first

\* BCU2::begin(): a read-only communication object table replaces the stored one.
withStaticTab(image) == IF StaticTab = "none" THEN image ELSE [image EXCEPT !.comms = StaticTab]

\* BcuDefault::_begin(): setOwnAddress() with the default instead of 0.0.0.
withValidAddress(image) ==
    IF image.own["fixed"] = 0 THEN withOwnAddress(image, PHY_ADDR_DEFAULT) ELSE image

\* Operators named ...Bug are not part of the specification: each is a
\* plausible error in the code.
beginStaticBug(image) ==
    /\ eeprom' = withValidAddress(withStaticTab(begunWith(image)))
    /\ ownAddr' = eeprom'.own["fixed"]
    /\ imageModified' = (LoadingAddrTable(image) \/ image.own["fixed"] = 0)

\* begin() with the image read from the flash.  It marks what it changes: the
\* place of the table, the default address, and the address in a loading table.
begin(image) ==
    /\ eeprom' = withValidAddress(withStaticTab(begunWith(image)))
    /\ ownAddr' = eeprom'.own["fixed"]
    /\ imageModified' = \/ LoadingAddrTable(image)
                         \/ withStaticTab(image) # image
                         \/ image.own["fixed"] = 0

-----------------------------------------------------------------------------
(* Load controls: loadProperty() and its callers *)

commsPlace(p) == IF StaticTab = "none" THEN p ELSE StaticTab

\* handleAllocAbsTaskSegment(): where a table is.  Its modified(true) comes
\* after the default: of the switch and is never reached.
taskSegment(o, p) ==
    IF o = "ADDR_TABLE" THEN [eeprom EXCEPT !.addrTab = p]
    ELSE IF o = "APPLICATION" /\ MASK0701 THEN [eeprom EXCEPT !.comms = commsPlace(p)]
    ELSE eeprom

\* handleTaskCtrl2()
taskCtrl2(p) == [eeprom EXCEPT !.comms = commsPlace(p)]

\* The new load state of object o and the image.  A load control is not
\* refused in any state; a memory range the device does not have, an unknown
\* control or a wrong length is an error.
loadProperty(o) ==
    {[new |-> s, image |-> eeprom] : s \in LoadState}
        \cup {[new |-> "LOADING", image |-> taskSegment(o, p)] : p \in Places}
        \cup {[new |-> "LOADING", image |-> taskCtrl2(p)] : p \in Places}

\* MASK0701 marks the EEPROM as modified, propertyValueWriteTelegram() does not.
marksModified == imageModified \/ MASK0701

LoadControl ==
    \E o \in Objects : \E r \in loadProperty(o) :
        /\ eeprom' = [r.image EXCEPT !.loadState[o] = r.new]
        /\ imageModified' = marksModified
        /\ UNCHANGED <<flash, ownAddr, connected>>

\* The client writes the address table: its first entry is our address.
WriteAddrTable ==
    \E p \in Places :
        /\ eeprom' = [eeprom EXCEPT !.own[p] = ownAddr]
        /\ imageModified' = TRUE
        /\ UNCHANGED <<flash, ownAddr, connected>>

\* A_IndividualAddress_Write, in programming mode
AssignAddress == \E a \in Addresses : setOwnAddress(a)

Connection ==
    /\ connected' = ~connected
    /\ UNCHANGED <<eeprom, flash, imageModified, ownAddr>>

-----------------------------------------------------------------------------
(* Saving and restarting *)

flushed == IF imageModified THEN eeprom ELSE flash

\* BcuDefault::loop()
Save ==
    /\ imageModified /\ ~connected
    /\ flash' = flushed
    /\ imageModified' = FALSE
    /\ UNCHANGED <<eeprom, ownAddr, connected>>

\* softSystemReset(): flushUserMemory() before the reset
Restart ==
    /\ flash' = flushed
    /\ begin(flushed)
    /\ connected' = FALSE

PowerReturns ==
    /\ begin(flash)
    /\ connected' = FALSE
    /\ UNCHANGED flash

DownloadNext ==
    \/ LoadControl
    \/ WriteAddrTable
    \/ AssignAddress
    \/ Connection
    \/ Save
    \/ Restart
    \/ PowerReturns

DownloadSpec == DownloadInit /\ [][DownloadNext]_downloadVars

-----------------------------------------------------------------------------
(* Properties *)

\* userEeprom.h:76 "The EEPROM will be written to flash when the bus is idle,
\* all telegrams are processed, and no direct data connection is open": what
\* is not marked as modified is in the flash, load states and table addresses
\* included.
SavedUnlessModified == ~imageModified => flash = eeprom

\* A restart gives back the device that the client had: its address, unless that
\* is 0.0.0, its load states and the places of its tables (begin() after
\* flushUserMemory()).
KeepsDevice ==
    Restart => /\ ownAddr' = validAddress(ownAddr)
               /\ eeprom'.loadState = eeprom.loadState
               /\ eeprom'.addrTab = eeprom.addrTab
               /\ eeprom'.comms = eeprom.comms

\* Only A_IndividualAddress_Write changes an address other than 0.0.0: neither a
\* restart in the middle of a download, when the table the address is taken from
\* may not be written yet, nor a power failure after the address was saved.
KeepsAddress ==
    Restart \/ (PowerReturns /\ ~imageModified) => ownAddr' = validAddress(ownAddr)

\* A MASK0701 that restarts keeps its load states, its tables and its address
\* (0.0.0 becomes the default), also in the middle of a download, and loses
\* nothing to a power failure that was not marked as modified.
RestartsKeepDevice == [][KeepsDevice /\ KeepsAddress /\ SavedUnlessModified']_downloadVars

=============================================================================

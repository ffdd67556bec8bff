---------------------------- MODULE OneWireLine -----------------------------
(***************************************************************************)
(* The devices on a 1-Wire line as the searches of sblib/src/onewire.cpp   *)
(* and sblib/src/i2c/ds2482.cpp see them.  A device answers a bit with its *)
(* value and then the complement, and takes part until a direction is      *)
(* chosen that is not its bit.  Devices come and go between any two bits,  *)
(* and the line may be shorted for a while.                                *)
(***************************************************************************)
EXTENDS Integers, FiniteSets

CONSTANTS
    Bits,           \* of a ROM code, 64 on real devices
    FamilyBits,     \* the first of them, 8
    Sensors,        \* the ROM codes of the devices there are
    MaxChanges      \* bound: devices come, go or short the line this often

Roms == [1 .. Bits -> {0, 1}]
family(rom) == [n \in 1 .. FamilyBits |-> rom[n]]
NoFamily == [n \in 1 .. FamilyBits |-> 0]
Families == {family(d) : d \in Sensors}

\* The last bits are a checksum: no two devices differ in the last bit only.
ASSUME SensorAssumption ==
    /\ Bits \in Nat /\ FamilyBits \in 1 .. Bits - 1
    /\ Sensors \subseteq Roms
    /\ \A d, e \in Sensors : (\A n \in 1 .. Bits - 1 : d[n] = e[n]) => d = e
    /\ NoFamily \notin Families
    /\ MaxChanges \in Nat

VARIABLES
    present,    \* the devices on the line
    selected,   \* those that take part in the running search
    shorted,    \* the line is held low
    changes,
    \* what the enumeration since the last reset of a search has to do:
    complete,   \* whether all devices are due
    sought,     \* the family that the next search has to find, if any: none
                \* after a short, or if a device goes that takes part
    stayed,     \* the devices on the line from its start
    found       \* the devices it returned

lineVars == <<present, selected, shorted, changes>>
goalVars == <<complete, sought, stayed, found>>

LineTypeOK ==
    /\ present \subseteq Sensors
    /\ selected \subseteq present
    /\ shorted \in BOOLEAN
    /\ changes \in 0 .. MaxChanges
    /\ complete \in BOOLEAN /\ sought \subseteq Families
    /\ stayed \subseteq present
    /\ found \subseteq Roms

LineInit ==
    /\ present \in SUBSET Sensors
    /\ selected = {} /\ shorted = FALSE /\ changes = 0
    /\ complete = TRUE /\ sought = {} /\ stayed = present /\ found = {}

\* A bit that nobody pulls low reads 1.
id_bit(n) == IF shorted \/ \E d \in selected : d[n] = 0 THEN 0 ELSE 1
cmp_id_bit(n) == IF shorted \/ \E d \in selected : d[n] = 1 THEN 0 ELSE 1

\* Presence pulse after a reset of the line.
Presence == ~shorted /\ present # {}

\* All devices listen to the search command.
ListenAll == selected' = present /\ UNCHANGED <<present, shorted, changes>>
Choose(n, direction) ==
    /\ selected' = {d \in selected : d[n] = direction}
    /\ UNCHANGED <<present, shorted, changes>>

Restart(families) ==
    /\ complete' = (families = {}) /\ sought' = families
    /\ stayed' = present /\ found' = {}

\* The search returns a ROM code.
Return(rom) ==
    /\ found' = found \cup {rom}
    /\ sought' = {}
    /\ UNCHANGED <<complete, stayed>>

Change == changes < MaxChanges /\ changes' = changes + 1

Plug(d) ==
    /\ Change
    /\ d \notin present /\ present' = present \cup {d}
    /\ UNCHANGED <<selected, shorted, goalVars>>

Unplug(d) ==
    /\ Change
    /\ d \in present /\ present' = present \ {d}
    /\ selected' = selected \ {d} /\ stayed' = stayed \ {d}
    /\ complete' = FALSE
    /\ sought' = IF d \in selected THEN {} ELSE sought
    /\ UNCHANGED <<shorted, found>>

\* A line held low is a reset to the devices.
Short ==
    /\ Change
    /\ shorted' = ~shorted
    /\ selected' = {} /\ complete' = FALSE /\ sought' = {}
    /\ UNCHANGED <<present, stayed, found>>

LineNext == Short \/ \E d \in Sensors : Plug(d) \/ Unplug(d)
=============================================================================

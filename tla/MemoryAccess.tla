---------------------------- MODULE MemoryAccess ----------------------------
(***************************************************************************)
(* The memory services of BcuDefault (sblib/src/eib/bcu_default.cpp): a    *)
(* read or write may start in one memory and end in another.  The code     *)
(* cuts it in parts: the memory mapper's, the user EEPROM's and the user   *)
(* RAM's, round after round, until all is done or nothing is found.        *)
(*                                                                         *)
(* The status of the system has an address in the RAM but lies outside of  *)
(* it.  What the mapper does with its pages is MemMapper's.                *)
(***************************************************************************)
EXTENDS Integers, Sequences

CONSTANTS
    LastAddress,                \* the last address
    Mapped,             \* addresses of mapped pages
    Eeprom, RamStart, RamSize,
    StatusOffset,       \* statusOffset()
    MaxCount,           \* bytes in one telegram
    Value

Address == 0 .. LastAddress
Ram == RamStart .. RamStart + RamSize - 1

ASSUME MemoryAssumption ==
    /\ {LastAddress, RamStart, RamSize} \subseteq Nat
    /\ Mapped \subseteq Address /\ Eeprom \subseteq Address /\ Ram \subseteq Address
    /\ Mapped \cap (Eeprom \cup Ram) = {} /\ Eeprom \cap Ram = {}
    /\ StatusOffset \in 0 .. RamSize - 1
    /\ MaxCount \in Nat \ {0}
    /\ \A a, b \in Eeprom : a .. b \subseteq Eeprom
    \* A page is longer than a telegram: none spans an unmapped page.
    /\ \A a, b \in Mapped : b - a < MaxCount => a .. b \subseteq Mapped

VARIABLES
    memories,            \* the contents of the memories
    eepromModified,       \* userEeprom->modified()
    deviceControl,  \* DEVCTRL_MEM_AUTO_RESPONSE
    response        \* number of bytes in the response, -1 for no response

accessVars == <<memories, eepromModified, deviceControl, response>>

Memories == [mapped : [Mapped -> Value], eeprom : [Eeprom -> Value],
           userRamData : [0 .. RamSize - 1 -> Value], status : Value]

MemoryTypeOK ==
    /\ memories \in Memories
    /\ eepromModified \in BOOLEAN /\ deviceControl \in BOOLEAN
    /\ response \in -1 .. MaxCount

AccessInit ==
    /\ \E v \in Value :
          memories = [mapped |-> [a \in Mapped |-> v], eeprom |-> [a \in Eeprom |-> v],
                 userRamData |-> [i \in 0 .. RamSize - 1 |-> v], status |-> v]
    /\ eepromModified = FALSE /\ deviceControl \in BOOLEAN /\ response = -1

(***************************************************************************)
(* processApciMemoryOperation()                                            *)
(*                                                                         *)
(* Operators named ...Bug are not part of the specification: each is a     *)
(* plausible error in the code.                                            *)
(***************************************************************************)
\* The first address from a that is not in the memory
EndOf(memory, a) ==
    CHOOSE b \in a .. LastAddress + 1 : b \notin memory /\ \A c \in a .. b - 1 : c \in memory

\* The part from a to e that a memory takes ends before this address: all of
\* it if it holds both ends, else up to the end of the memory.
partEnd(memory, a, e) ==
    IF a > e \/ a \notin memory THEN a
    ELSE IF e \in memory THEN e + 1 ELSE EndOf(memory, a)

Part(memory, from, end) == [a \in from .. end - 1 |-> memory]

\* All of f, and what else g has
Over(f, g) == [a \in DOMAIN f \cup DOMAIN g |-> IF a \in DOMAIN f THEN f[a] ELSE g[a]]

partsBug == [s \in Address |-> [n \in 1 .. MaxCount |->
    LET e == s + n - 1
        m == partEnd(Mapped, s, e)
        p == partEnd(Eeprom, m, e)
        r == IF p = StatusOffset /\ e = StatusOffset THEN e + 1 ELSE partEnd(Ram, p, e)
    IN  Over(Part("mapped", s, m), Over(Part("eeprom", m, p), Part("ram", p, r)))]]

\* For each request, the memory that each byte of it belongs to: all bytes, or
\* those before the first one that is found nowhere.
parts == [a \in Address |-> [n \in 1 .. MaxCount |->
    LET e == a + n - 1
        f[s \in a .. e] ==
          LET m == partEnd(Mapped, s, e)
              p == partEnd(Eeprom, m, e)
              r == IF p = StatusOffset /\ e = StatusOffset THEN e + 1 ELSE partEnd(Ram, p, e)
          IN  IF r = s THEN <<>>    \* startNotFound
              ELSE Over(Over(Part("mapped", s, m), Over(Part("eeprom", m, p), Part("ram", p, r))),
                        IF r > e THEN <<>> ELSE f[r])
    IN  f[a]]]

Succeeds(a, n) == n > 0 /\ DOMAIN parts[a][n] = a .. a + n - 1

\* cpyToUserRam() and cpyFromUserRam(): the status is a byte that is copied
\* alone and has the address of the status, or the byte with its index.
isStatus(where, b) ==
    \/ b = StatusOffset /\ \A c \in {b - 1, b + 1} \cap DOMAIN where : where[c] # "ram"
    \/ b - RamStart = StatusOffset

\* What a read of n > 0 bytes answers with
Read(m, a, n) ==
    LET byte(b) == CASE parts[a][n][b] = "mapped" -> m.mapped[b]
                     [] parts[a][n][b] = "eeprom" -> m.eeprom[b]
                     [] OTHER -> IF isStatus(parts[a][n], b) THEN m.status
                                                       ELSE m.userRamData[b - RamStart]
    IN  IF Succeeds(a, n) THEN [i \in 1 .. n |-> byte(a + i - 1)] ELSE <<>>

\* What a write of one byte or more leaves.  A write that ends at an address
\* found nowhere has written what is before.
Write(m, a, data) ==
    LET where == parts[a][Len(data)]
        of(memory) == {b \in DOMAIN where : where[b] = memory}
        byte(b) == data[b - a + 1]
        state == {b \in of("ram") : isStatus(where, b)}
        cells == {b - RamStart : b \in of("ram") \ state}
    IN  [mapped |-> Over([b \in of("mapped") |-> byte(b)], m.mapped),
         eeprom |-> Over([b \in of("eeprom") |-> byte(b)], m.eeprom),
         userRamData |-> Over([i \in cells |-> byte(i + RamStart)], m.userRamData),
         status |-> IF state = {} THEN m.status ELSE byte(CHOOSE b \in state : TRUE)]

(***************************************************************************)
(* Services                                                                *)
(***************************************************************************)
\* A response without bytes says that the address cannot be read.
ReadService(a, n) ==
    /\ response' = IF n > 0 THEN Len(Read(memories, a, n)) ELSE 0
    /\ UNCHANGED <<memories, eepromModified, deviceControl>>

\* The response to a write is a read of what was written, on success.
WriteService(a, data) ==
    /\ IF data = <<>> THEN UNCHANGED <<memories, eepromModified>>
       ELSE /\ memories' = Write(memories, a, data)
            /\ eepromModified' = (eepromModified \/ \E b \in Eeprom : b \in DOMAIN parts[a][Len(data)])
    /\ response' = IF Succeeds(a, Len(data)) /\ deviceControl THEN Len(data) ELSE -1
    /\ UNCHANGED deviceControl

\* flushUserMemory(), which saves the user EEPROM
Saved == eepromModified /\ eepromModified' = FALSE /\ UNCHANGED <<memories, deviceControl, response>>

AccessNext ==
    \/ \E a \in Address, n \in 0 .. MaxCount : a + n - 1 <= LastAddress /\ ReadService(a, n)
    \/ \E n \in 0 .. MaxCount : \E a \in 0 .. LastAddress + 1 - n, data \in [1 .. n -> Value] : WriteService(a, data)
    \/ Saved

AccessSpec == AccessInit /\ [][AccessNext]_accessVars

(***************************************************************************)
(* Properties                                                              *)
(***************************************************************************)
Requests == {r \in Address \X (1 .. MaxCount) : r[1] + r[2] - 1 <= LastAddress}

\* What a client reads byte by byte, nothing where no memory answers
SingleRead(m, a) == Read(m, a, 1)

\* A read over any memories answers with the bytes that single reads answer
\* with, and with none if one of them is found nowhere.
AnswersAreWhole ==
    \A r \in Requests :
        LET bytes == [i \in 1 .. r[2] |-> SingleRead(memories, r[1] + i - 1)]
        IN  Read(memories, r[1], r[2]) = IF \E i \in 1 .. r[2] : bytes[i] = <<>> THEN <<>>
                                     ELSE [i \in 1 .. r[2] |-> bytes[i][1]]

\* A write over any memories leaves each of its bytes where a single read finds
\* it, up to the first that is found nowhere, and no other byte changed.
WriteIsRead ==
    \A r \in Requests : \A data \in [1 .. r[2] -> Value] :
        LET after == Write(memories, r[1], data)
            reached == {b \in r[1] .. r[1] + r[2] - 1 :
                           \A c \in r[1] .. b : SingleRead(memories, c) # <<>>}
        IN  \A b \in Address :
              SingleRead(after, b) = IF b \in reached THEN <<data[b - r[1] + 1]>>
                                                      ELSE SingleRead(memories, b)

\* Of the states that hold the same bytes, one will do.
oneOfAlike == response = -1 /\ ~eepromModified /\ deviceControl

\* Whatever was written before: a memory service answers with all the bytes
\* that the client asked for or with none, and writes the bytes it was given
\* and no others.
MemoryServicesAgree == oneOfAlike => AnswersAreWhole /\ WriteIsRead
=============================================================================

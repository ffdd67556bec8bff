----------------------------- MODULE ComObjects -----------------------------
(***************************************************************************)
(* The group communication objects of sblib/src/eib/com_objects.cpp, with  *)
(* the association tables of com_objectsBCU1.cpp (BCU1, BCU2 and the masks *)
(* 0701 and 0705 share them).  The application and the BCU meet in a table *)
(* of RAM flags, four bits for each object and two objects in each byte.   *)
(* A round of the main loop processes a received group telegram, sends the *)
(* telegram of one object, and then runs the application, which first asks *)
(* for the updated objects and then does its periodic work.                *)
(*                                                                         *)
(* A byte of flags is the set of its bits.  Values are opaque; the bus is  *)
(* seen as the telegrams of a step, the one received and those sent.       *)
(***************************************************************************)
EXTENDS Naturals, Sequences

CONSTANTS
    NumObjects,     \* number of communication objects
    Values,         \* the values of an object
    GroupAddrs,     \* number of group addresses in the address table
    Assoc,          \* association table: <<index of the address, object>>
    Comm, Trans, Read, Write,   \* the objects with this bit in their config
    AppOps          \* the operations that the application uses

Objects == 0 .. NumObjects - 1
Addrs == 1 .. GroupAddrs
INVALID_OBJECT_NUMBER == NumObjects     \* none: a telegram from the bus
Requests == {"write", "writeBytes", "read", "setValue"}
Updates == {"update", "updateBytes"}

ASSUME ObjectsAssumption ==
    /\ NumObjects \in Nat \ {0}
    /\ GroupAddrs \in Nat \ {0}
    /\ Assoc \in Seq((Nat \ {0}) \X Objects)
    /\ Comm \cup Trans \cup Read \cup Write \subseteq Objects
    /\ AppOps \subseteq Requests \cup Updates
    /\ Values # {}

VARIABLES
    flagsTab,           \* the RAM flags
    value,              \* the object values
    sendNextObjIndex,
    nextUpdatedObjIndex,
    pc,                 \* what the main loop does next
    telegrams,          \* of the last step: the one received, those sent
    request,            \* history: the last request of the application, until
                        \* it is sent or taken back by another call
    report              \* history: the report of a value that came from
                        \* elsewhere is due, or was dropped

tableVars == <<flagsTab, value>>
history == <<request, report>>
objectsVars == <<tableVars, sendNextObjIndex, nextUpdatedObjIndex, pc, telegrams, history>>

\* Bits of a nibble of flags
COMFLAG_ERROR == {0}
COMFLAG_TRANSREQ == {0, 1}
COMFLAG_TRANS_MASK == {0, 1}
COMFLAG_DATAREQ == {2}
COMFLAG_UPDATE == {3}

\* A telegram of the bus, or of object obj of this device.
Telegram == [obj : Objects \cup {INVALID_OBJECT_NUMBER}, addr : Addrs,
             apci : {"write", "read", "response"}, data : Values]

ObjectsTypeOK ==
    /\ flagsTab \in [0 .. (NumObjects - 1) \div 2 -> SUBSET (0 .. 7)]
    /\ value \in [Objects -> Values]
    /\ sendNextObjIndex \in 0 .. NumObjects
    /\ nextUpdatedObjIndex \in 0 .. NumObjects
    /\ pc \in {"receive", "send", "drain", "periodic"}
    /\ telegrams \in Seq(Telegram)
    /\ request \in [Objects -> {"none", "write", "read"}]
    /\ report \in [Objects -> {"none", "due", "dropped"}]

ObjectsInit ==
    /\ flagsTab = [b \in 0 .. (NumObjects - 1) \div 2 |-> {}]
    /\ value \in [Objects -> Values]
    /\ sendNextObjIndex = 0
    /\ nextUpdatedObjIndex = 0
    /\ pc = "receive"
    /\ telegrams = <<>>
    /\ request = [o \in Objects |-> "none"]
    /\ report = [o \in Objects |-> "none"]

-----------------------------------------------------------------------------
(* The table of flags.  Operators named ...Bug, here and below, are not part *)
(* of the specification: each is a plausible error in the code.              *)

BitsOf(o, flags) == IF o % 2 = 1 THEN {b + 4 : b \in flags} ELSE flags

FlagsOf(o) == {b \in 0 .. 3 : BitsOf(o, {b}) \subseteq flagsTab[o \div 2]}

addObjectFlags(tab, o, flags) == [tab EXCEPT ![o \div 2] = @ \cup BitsOf(o, flags)]
clearObjectFlags(tab, o, flags) == [tab EXCEPT ![o \div 2] = @ \ BitsOf(o, flags)]

setObjectFlagsByteBug(tab, o, flags) == [tab EXCEPT ![o \div 2] = BitsOf(o, flags)]
setObjectFlags(tab, o, flags) == addObjectFlags(clearObjectFlags(tab, o, 0 .. 3), o, flags)

-----------------------------------------------------------------------------
(* Group telegrams *)

WrittenByFirstBug(a, trg_objno) ==
    {o \in Comm \cap Write : \E i \in DOMAIN Assoc :
        /\ Assoc[i] = <<a, o>> /\ o # trg_objno
        /\ \A j \in 1 .. i - 1 : Assoc[j][1] # a}

\* The objects of address a that a group write changes; the object that the
\* application has written is passed over.
WrittenBy(a, trg_objno) ==
    {o \in (Comm \cap Write) \ {trg_objno} : \E i \in DOMAIN Assoc : Assoc[i] = <<a, o>>}

\* The tables while a telegram is processed, and the telegrams of the step.
Tables == [val |-> value, tab |-> flagsTab, rep |-> report, tels |-> <<>>]

processGroupWriteTelegram(t, objs, v) ==
    [t EXCEPT !.val = [o \in Objects |-> IF o \in objs THEN v ELSE t.val[o]],
              !.tab = [b \in DOMAIN t.tab |->
                          t.tab[b] \cup UNION {BitsOf(o, COMFLAG_UPDATE) : o \in {x \in objs : x \div 2 = b}}],
              !.rep = [o \in Objects |-> IF o \in objs THEN "due" ELSE t.rep[o]]]

\* A write or a response also goes to the other objects of the group here.
sendGroupWriteTelegram(t, o, a, apci) ==
    [processGroupWriteTelegram(t, WrittenBy(a, o), t.val[o]) EXCEPT
        !.tels = Append(@, [obj |-> o, addr |-> a, apci |-> apci, data |-> t.val[o]])]

sendGroupReadTelegram(t, o, a) ==
    [t EXCEPT !.tels = Append(@, [obj |-> o, addr |-> a, apci |-> "read", data |-> t.val[o]])]

Received(a, apci, v) ==
    [Tables EXCEPT !.tels = << [obj |-> INVALID_OBJECT_NUMBER, addr |-> a, apci |-> apci, data |-> v] >>]

\* Every object of the group that may be read answers, in table order.
answerRead(t, a) ==
    LET after[i \in 0 .. Len(Assoc)] ==
            IF i = 0 THEN t
            ELSE IF Assoc[i][1] = a /\ Assoc[i][2] \in Comm \cap Read
                 THEN sendGroupWriteTelegram(after[i - 1], Assoc[i][2], a, "response")
                 ELSE after[i - 1]
    IN  after[Len(Assoc)]

Becomes(t) ==
    /\ value' = t.val
    /\ report' = t.rep
    /\ telegrams' = t.tels

processGroupTelegram(a, apci, v) ==
    LET t == Received(a, apci, v)
    IN  \E u \in {IF apci = "read" THEN answerRead(t, a)
                 ELSE processGroupWriteTelegram(t, WrittenBy(a, INVALID_OBJECT_NUMBER), v)} :
            Becomes(u) /\ flagsTab' = u.tab

Receive ==
    /\ pc = "receive"
    /\ pc' = "send"
    /\ \E a \in Addrs, apci \in {"write", "read", "response"}, v \in Values :
            processGroupTelegram(a, apci, v)
    /\ UNCHANGED <<sendNextObjIndex, nextUpdatedObjIndex, request>>

ReceiveNothing ==
    /\ pc = "receive"
    /\ pc' = "send"
    /\ telegrams' = <<>>
    /\ UNCHANGED <<tableVars, sendNextObjIndex, nextUpdatedObjIndex, history>>

-----------------------------------------------------------------------------
(* Sending *)

\* The entries of object o with an address of the table; firstObjectAddr()
\* returns the address of the first, or 0.
AddrsOf(o) == {i \in DOMAIN Assoc : Assoc[i][2] = o /\ Assoc[i][1] \in Addrs}
firstObjectAddr(o) == Assoc[CHOOSE i \in AddrsOf(o) : \A j \in AddrsOf(o) : i <= j][1]

MaySend(o) == AddrsOf(o) # {} /\ o \in Comm \cap Trans
Requested(o) == COMFLAG_TRANSREQ \subseteq FlagsOf(o)

\* The search goes to the end of the table and does not start again.
scanFrom == sendNextObjIndex % NumObjects
ToSend == {o \in scanFrom .. NumObjects - 1 : MaySend(o) /\ Requested(o)}

\* What is left of the flags.  The status becomes ERROR, where the comment at
\* com_objects.cpp:488 says "transmitting".
afterSending(tab, o) ==
    addObjectFlags(clearObjectFlags(tab, o, COMFLAG_TRANS_MASK \cup COMFLAG_DATAREQ), o, COMFLAG_ERROR)

indexAfter(o) == o + 1

sendNextGroupTelegram ==
    /\ pc = "send"
    /\ ToSend # {}
    /\ \E o \in {x \in ToSend : \A y \in ToSend : x <= y} :
       \E t \in {IF COMFLAG_DATAREQ \subseteq FlagsOf(o)
                THEN sendGroupReadTelegram(Tables, o, firstObjectAddr(o))
                ELSE sendGroupWriteTelegram(Tables, o, firstObjectAddr(o), "write")} :
           /\ Becomes(t)
           /\ flagsTab' = afterSending(t.tab, o)
           /\ sendNextObjIndex' = indexAfter(o)
           /\ request' = [request EXCEPT ![o] = "none"]
    /\ pc' = "drain"
    /\ UNCHANGED nextUpdatedObjIndex

sendNothing ==
    /\ pc = "send"
    /\ ToSend = {}
    /\ pc' = "drain"
    /\ telegrams' = <<>>
    /\ sendNextObjIndex' = scanFrom + 1
    /\ UNCHANGED <<tableVars, nextUpdatedObjIndex, history>>

\* The last telegram is still being sent, or the rate limit not reached.
SendLater ==
    /\ pc = "send"
    /\ pc' = "drain"
    /\ telegrams' = <<>>
    /\ UNCHANGED <<tableVars, sendNextObjIndex, nextUpdatedObjIndex, history>>

-----------------------------------------------------------------------------
(* The application *)

firstUpdatedBug == 1
firstUpdated == 0
Updated == {o \in firstUpdated .. NumObjects - 1 : COMFLAG_UPDATE \subseteq FlagsOf(o)}

nextUpdatedObject ==
    /\ pc = "drain"
    /\ Updated # {}
    /\ LET o == CHOOSE x \in Updated : \A y \in Updated : x <= y
       IN  /\ flagsTab' = clearObjectFlags(flagsTab, o, COMFLAG_UPDATE)
           /\ nextUpdatedObjIndex' = o + 1
           /\ report' = [report EXCEPT ![o] = "none"]
    /\ telegrams' = <<>>
    /\ UNCHANGED <<value, sendNextObjIndex, pc, request>>

noUpdatedObject ==
    /\ pc = "drain"
    /\ Updated = {}
    /\ pc' = "periodic"
    /\ nextUpdatedObjIndex' = firstUpdated + 1
    /\ telegrams' = <<>>
    /\ UNCHANGED <<tableVars, sendNextObjIndex, history>>

\* One call of the application.  Those that take a number set the flags and
\* those that take bytes add to them: the former take a request back, and drop
\* the report of a value that the application has not been told of.  A read
\* leaves the value alone.
call(op, o, v) ==
    /\ value' = IF op = "read" THEN value ELSE [value EXCEPT ![o] = v]
    /\ flagsTab' =
           CASE op = "write"       -> setObjectFlags(flagsTab, o, COMFLAG_TRANSREQ)
             [] op = "writeBytes"  -> addObjectFlags(flagsTab, o, COMFLAG_TRANSREQ)
             [] op = "read"        -> setObjectFlags(flagsTab, o, COMFLAG_TRANSREQ \cup COMFLAG_DATAREQ)
             [] op = "setValue"    -> setObjectFlags(flagsTab, o, {})
             [] op = "update"      -> setObjectFlags(flagsTab, o, COMFLAG_UPDATE)
             [] op = "updateBytes" -> addObjectFlags(flagsTab, o, COMFLAG_UPDATE)
    /\ request' = [request EXCEPT ![o] =
           CASE op \in {"write", "writeBytes"} -> "write"
             [] op = "read"                    -> "read"
             [] op \in {"setValue", "update"}  -> "none"
             [] op = "updateBytes"             -> @]
    /\ report' = [report EXCEPT ![o] =
           CASE op \in Updates                                     -> "due"
             [] op \in {"write", "setValue", "read"} /\ @ = "due"  -> "dropped"
             [] OTHER                                              -> @]

\* The handler of an updated object makes requests; it does not mark objects
\* as updated, which the loop it is called from would take up at once.
AppCall ==
    /\ pc \in {"drain", "periodic"}
    /\ \E op \in AppOps, o \in Objects, v \in Values :
            /\ op \in Updates => pc = "periodic"
            /\ op = "read" => v = value[o]
            /\ call(op, o, v)
    /\ telegrams' = <<>>
    /\ UNCHANGED <<sendNextObjIndex, nextUpdatedObjIndex, pc>>

loopReturns ==
    /\ pc = "periodic"
    /\ pc' = "receive"
    /\ telegrams' = <<>>
    /\ UNCHANGED <<tableVars, sendNextObjIndex, nextUpdatedObjIndex, history>>

-----------------------------------------------------------------------------
ObjectsNext ==
    \/ Receive \/ ReceiveNothing
    \/ sendNextGroupTelegram \/ sendNothing \/ SendLater
    \/ nextUpdatedObject \/ noUpdatedObject
    \/ AppCall \/ loopReturns

ObjectsSpec == ObjectsInit /\ [][ObjectsNext]_objectsVars

\* The application returns to the loop, and the loop finds the bus free again
\* and again: BusKeepsService and PauseSucceeds of module Bus.
sendIfFree == sendNextGroupTelegram \/ sendNothing
LoopGoesOn ==
    ReceiveNothing \/ SendLater \/ nextUpdatedObject \/ noUpdatedObject \/ loopReturns

-----------------------------------------------------------------------------
(* Properties *)

\* The flags of an object are its own: they tell the request that is still to
\* be sent and whether the report of a new value is due, whatever was done to
\* the object that shares their byte, and to the rest of the group.
FlagsTellHistory ==
    \A o \in Objects :
        /\ report[o] = "due" <=> COMFLAG_UPDATE \subseteq FlagsOf(o)
        /\ (request[o] # "none") <=> Requested(o)
        /\ (request[o] = "read") <=> COMFLAG_DATAREQ \subseteq FlagsOf(o)

\* Telegram t gives its value to object o.
GivesTo(t, o) ==
    /\ t.apci # "read" /\ t.obj # o /\ o \in Comm \cap Write
    /\ \E i \in DOMAIN Assoc : Assoc[i] = <<t.addr, o>>

\* A group telegram, received or sent, leaves the group in one state: every
\* object here that takes part has the value of the last telegram, and the
\* report of it is due for all but the object that sent it.
lastTelegram == telegrams[Len(telegrams)]
GroupInSync ==
    telegrams' # <<>> /\ lastTelegram'.apci # "read" =>
      LET t == lastTelegram'
      IN  /\ \A o \in Objects : GivesTo(t, o) => value'[o] = t.data /\ report'[o] = "due"
          /\ t.obj \in Objects => value'[t.obj] = t.data

\* Nothing else happens to an object: unless the application calls, a value
\* and its report come from a telegram of the object's group, and a request is
\* gone only when its telegram is there.
OnlyByTelegrams ==
    \A o \in Objects :
        /\ value'[o] # value[o] \/ (report'[o] = "due" /\ report[o] # "due") =>
             AppCall \/ \E i \in DOMAIN telegrams' :
                           GivesTo(telegrams'[i], o) /\ telegrams'[i].data = value'[o]
        /\ request'[o] # request[o] =>
             AppCall \/ \E i \in DOMAIN telegrams' : telegrams'[i].obj = o

\* An answer is given only to a read of its address, by an object that may be
\* read.  Any other telegram of this device was asked for by the application,
\* is what it asked for last, and does not come back to it as a new value.
AsRequested ==
    \A i \in DOMAIN telegrams' : telegrams'[i].obj \in Objects =>
      LET t == telegrams'[i]
      IN  IF t.apci = "response"
          THEN /\ telegrams'[1].obj = INVALID_OBJECT_NUMBER
               /\ telegrams'[1].apci = "read" /\ telegrams'[1].addr = t.addr
               /\ t.obj \in Comm \cap Read
          ELSE /\ request[t.obj] = t.apci
               /\ t.data = value[t.obj]
               /\ MaySend(t.obj)
               /\ report'[t.obj] = report[t.obj]

\* Every telegram, received or sent, does what it should and nothing else.
GroupsAgree == [][GroupInSync /\ OnlyByTelegrams /\ AsRequested]_objectsVars

\* Every request that may be sent is sent, unless the application takes it
\* back, however often it asks for telegrams of other objects.
RequestsAreSent == \A o \in Objects : Requested(o) /\ MaySend(o) ~> ~Requested(o)

\* Every value that arrives is reported to the application, unless a call of
\* its own drops the report: again and again no report is due.  (OnlyByTelegrams
\* and FlagsTellHistory leave no other way for a report to get lost.)
UpdatesAreSeen == []<>(\A o \in Objects : report[o] # "due")
=============================================================================

-------------------------- MODULE ApplicationProofs --------------------------
(***************************************************************************)
(* Proofs about what the library does for the application: the group       *)
(* objects (ComObjects), timeouts (Timeouts), the limit on group telegrams *)
(* (GroupRate) and delays (Delays).  They hold for any number of objects,  *)
(* any flags and association table, and any width of the counter of        *)
(* milliseconds; the invariants are ObjectsInv, TimeoutInv, RateInv and    *)
(* DelayInv.                                                               *)
(***************************************************************************)
EXTENDS ComObjects, Timeouts, GroupRate, Delays,
        Induction, TLAPS


-----------------------------------------------------------------------------
(* The table of flags *)

Bytes == 0 .. (NumObjects - 1) \div 2
Tabs == [Bytes -> SUBSET (0 .. 7)]

\* The flags of object o in a table.
Bits(tab, o) == {b \in 0 .. 3 : BitsOf(o, {b}) \subseteq tab[o \div 2]}

\* Where bit b of object o is in its byte.
Place(o, b) == IF o % 2 = 1 THEN b + 4 ELSE b

LEMMA ByteOf ==
    ASSUME NEW o \in Objects
    PROVE  o \in Nat /\ o \div 2 \in Bytes /\ o % 2 \in {0, 1} /\ o = 2 * (o \div 2) + (o % 2)
<1>1. NumObjects \in Nat \ {0} /\ o \in 0 .. NumObjects - 1
  BY ObjectsAssumption DEF Objects
<1>2. o \in Int /\ o \div 2 \in Int /\ o % 2 \in 0 .. 1
  BY <1>1
<1>4. o = 2 * (o \div 2) + (o % 2)
  BY <1>1
<1>3. o \div 2 >= 0 /\ o \div 2 <= (NumObjects - 1) \div 2
  BY <1>1
<1> QED  BY <1>1, <1>2, <1>3, <1>4 DEF Bytes

LEMMA PlacesDiffer ==
    ASSUME NEW o \in Objects, NEW p \in Objects, NEW b \in 0 .. 3, NEW c \in 0 .. 3,
           o \div 2 = p \div 2, Place(o, b) = Place(p, c)
    PROVE  o = p /\ b = c
<1>1. o % 2 \in {0, 1} /\ p % 2 \in {0, 1}
  BY ByteOf
<1>2. o % 2 = p % 2 /\ b = c
  BY <1>1 DEF Place
<1> QED  BY <1>2, ByteOf

LEMMA BitsAre ==
    ASSUME NEW o \in Objects, NEW b \in 0 .. 3, NEW tab
    PROVE  b \in Bits(tab, o) <=> Place(o, b) \in tab[o \div 2]
BY DEF Bits, BitsOf, Place

LEMMA BitsOfAre ==
    ASSUME NEW o \in Objects, NEW flags \in SUBSET (0 .. 3)
    PROVE  BitsOf(o, flags) = {Place(o, b) : b \in flags} /\ BitsOf(o, flags) \subseteq 0 .. 7
<1>1. BitsOf(o, flags) = {Place(o, b) : b \in flags}
  <2>1. CASE o % 2 = 1
    BY <2>1 DEF BitsOf, Place
  <2>2. CASE o % 2 # 1
    BY <2>2 DEF BitsOf, Place
  <2> QED  BY <2>1, <2>2
<1>2. \A b \in 0 .. 3 : Place(o, b) \in 0 .. 7
  BY DEF Place
<1> QED  BY <1>1, <1>2

LEMMA AddFlags ==
    ASSUME NEW tab \in Tabs, NEW o \in Objects, NEW flags \in SUBSET (0 .. 3)
    PROVE  /\ addObjectFlags(tab, o, flags) \in Tabs
           /\ \A p \in Objects : Bits(addObjectFlags(tab, o, flags), p) =
                IF p = o THEN Bits(tab, p) \cup flags ELSE Bits(tab, p)
<1> DEFINE new == addObjectFlags(tab, o, flags)
<1>1. new \in Tabs
  BY BitsOfAre, ByteOf DEF addObjectFlags, Tabs
<1>2. ASSUME NEW p \in Objects, NEW b \in 0 .. 3
      PROVE  b \in Bits(new, p) <=> b \in Bits(tab, p) \/ (p = o /\ b \in flags)
  <2>1. p \div 2 \in Bytes /\ o \div 2 \in Bytes
    BY ByteOf
  <2>2. new[p \div 2] = IF p \div 2 = o \div 2 THEN tab[p \div 2] \cup BitsOf(o, flags) ELSE tab[p \div 2]
    BY <2>1 DEF addObjectFlags, Tabs
  <2>3. p \div 2 = o \div 2 => (Place(p, b) \in BitsOf(o, flags) <=> p = o /\ b \in flags)
    BY BitsOfAre, PlacesDiffer
  <2> HIDE DEF new
  <2> QED  BY <2>2, <2>3, BitsAre, ByteOf
<1>3. ASSUME NEW p \in Objects
      PROVE  Bits(new, p) = IF p = o THEN Bits(tab, p) \cup flags ELSE Bits(tab, p)
  <2>1. Bits(new, p) \subseteq 0 .. 3 /\ Bits(tab, p) \subseteq 0 .. 3
    BY DEF Bits
  <2> HIDE DEF new
  <2> QED  BY <1>2, <2>1
<1> QED  BY <1>1, <1>3

LEMMA ClearFlags ==
    ASSUME NEW tab \in Tabs, NEW o \in Objects, NEW flags \in SUBSET (0 .. 3)
    PROVE  /\ clearObjectFlags(tab, o, flags) \in Tabs
           /\ \A p \in Objects : Bits(clearObjectFlags(tab, o, flags), p) =
                IF p = o THEN Bits(tab, p) \ flags ELSE Bits(tab, p)
<1> DEFINE new == clearObjectFlags(tab, o, flags)
<1>1. new \in Tabs
  BY BitsOfAre, ByteOf DEF clearObjectFlags, Tabs
<1>2. ASSUME NEW p \in Objects, NEW b \in 0 .. 3
      PROVE  b \in Bits(new, p) <=> b \in Bits(tab, p) /\ ~(p = o /\ b \in flags)
  <2>1. p \div 2 \in Bytes /\ o \div 2 \in Bytes
    BY ByteOf
  <2>2. new[p \div 2] = IF p \div 2 = o \div 2 THEN tab[p \div 2] \ BitsOf(o, flags) ELSE tab[p \div 2]
    BY <2>1 DEF clearObjectFlags, Tabs
  <2>3. p \div 2 = o \div 2 => (Place(p, b) \in BitsOf(o, flags) <=> p = o /\ b \in flags)
    BY BitsOfAre, PlacesDiffer
  <2> HIDE DEF new
  <2> QED  BY <2>2, <2>3, BitsAre, ByteOf
<1>3. ASSUME NEW p \in Objects
      PROVE  Bits(new, p) = IF p = o THEN Bits(tab, p) \ flags ELSE Bits(tab, p)
  <2>1. Bits(new, p) \subseteq 0 .. 3 /\ Bits(tab, p) \subseteq 0 .. 3
    BY DEF Bits
  <2> HIDE DEF new
  <2> QED  BY <1>2, <2>1
<1> QED  BY <1>1, <1>3

LEMMA SetFlags ==
    ASSUME NEW tab \in Tabs, NEW o \in Objects, NEW flags \in SUBSET (0 .. 3)
    PROVE  /\ setObjectFlags(tab, o, flags) \in Tabs
           /\ \A p \in Objects : Bits(setObjectFlags(tab, o, flags), p) =
                IF p = o THEN flags ELSE Bits(tab, p)
<1>1. Bits(tab, o) \subseteq 0 .. 3
  BY DEF Bits
<1> DEFINE cleared == clearObjectFlags(tab, o, 0 .. 3)
<1>2. /\ cleared \in Tabs
      /\ \A p \in Objects : Bits(cleared, p) = IF p = o THEN Bits(tab, p) \ (0 .. 3) ELSE Bits(tab, p)
  BY ClearFlags
<1> HIDE DEF cleared
<1>3. /\ addObjectFlags(cleared, o, flags) \in Tabs
      /\ \A p \in Objects : Bits(addObjectFlags(cleared, o, flags), p) =
           IF p = o THEN Bits(cleared, p) \cup flags ELSE Bits(cleared, p)
  BY <1>2, AddFlags
<1>4. setObjectFlags(tab, o, flags) = addObjectFlags(cleared, o, flags)
  BY DEF setObjectFlags, cleared
<1> QED  BY <1>1, <1>2, <1>3, <1>4

-----------------------------------------------------------------------------
(* Group telegrams *)

Reports == {"none", "due", "dropped"}
GroupTables == [val : [Objects -> Values], tab : Tabs, rep : [Objects -> Reports], tels : Seq(Telegram)]

\* The objects objs have been given the value v, and are marked as updated.
Written(u, t, objs, v) ==
    /\ u \in GroupTables /\ u.tels = t.tels
    /\ \A p \in Objects :
         /\ u.val[p] = IF p \in objs THEN v ELSE t.val[p]
         /\ u.rep[p] = IF p \in objs THEN "due" ELSE t.rep[p]
         /\ Bits(u.tab, p) = IF p \in objs THEN Bits(t.tab, p) \cup COMFLAG_UPDATE
                               ELSE Bits(t.tab, p)

LEMMA GroupWrite ==
    ASSUME NEW t \in GroupTables, NEW objs \in SUBSET Objects, NEW v \in Values
    PROVE  Written(processGroupWriteTelegram(t, objs, v), t, objs, v)
<1> DEFINE u == processGroupWriteTelegram(t, objs, v)
           shown == [o \in Objects |-> IF o \in objs THEN v ELSE t.val[o]]
           tab == [b \in Bytes |->
                     t.tab[b] \cup UNION {BitsOf(o, COMFLAG_UPDATE) : o \in {x \in objs : x \div 2 = b}}]
           rep == [o \in Objects |-> IF o \in objs THEN "due" ELSE t.rep[o]]
<1>1. /\ t.val \in [Objects -> Values] /\ t.tab \in Tabs
      /\ t.rep \in [Objects -> Reports] /\ t.tels \in Seq(Telegram)
      /\ DOMAIN t.tab = Bytes
  BY DEF GroupTables, Tabs
<1>2. u = [val |-> shown, tab |-> tab, rep |-> rep, tels |-> t.tels]
  <2>1. u = [t EXCEPT !.val = shown, !.tab = tab, !.rep = rep]
    BY <1>1 DEF processGroupWriteTelegram
  <2> HIDE DEF shown, tab, rep
  <2> QED  BY <2>1 DEF GroupTables
<1>3. \A o \in Objects : BitsOf(o, COMFLAG_UPDATE) = {Place(o, 3)} /\ Place(o, 3) \in 0 .. 7
  <2>1. \A o \in Objects : /\ BitsOf(o, COMFLAG_UPDATE) = {Place(o, b) : b \in COMFLAG_UPDATE}
                           /\ BitsOf(o, COMFLAG_UPDATE) \subseteq 0 .. 7
    BY BitsOfAre DEF COMFLAG_UPDATE
  <2> QED  BY <2>1 DEF COMFLAG_UPDATE
<1>4. shown \in [Objects -> Values] /\ rep \in [Objects -> Reports]
  BY <1>1 DEF Reports
<1>5. tab \in Tabs
  <2> SUFFICES ASSUME NEW b \in Bytes PROVE tab[b] \in SUBSET (0 .. 7)
    BY DEF Tabs
  <2>1. t.tab[b] \in SUBSET (0 .. 7)
    BY <1>1 DEF Tabs
  <2>2. UNION {BitsOf(o, COMFLAG_UPDATE) : o \in {x \in objs : x \div 2 = b}} \subseteq 0 .. 7
    BY <1>3
  <2> QED  BY <2>1, <2>2
<1>6. u \in GroupTables
  <2> HIDE DEF shown, tab, rep
  <2> QED  BY <1>1, <1>2, <1>4, <1>5 DEF GroupTables
<1>7. ASSUME NEW p \in Objects
      PROVE  Bits(tab, p) = IF p \in objs THEN Bits(t.tab, p) \cup COMFLAG_UPDATE ELSE Bits(t.tab, p)
  <2>1. ASSUME NEW b \in 0 .. 3
        PROVE  b \in Bits(tab, p) <=> b \in Bits(t.tab, p) \/ (p \in objs /\ b = 3)
    <3>1. p \div 2 \in Bytes
      BY ByteOf
    <3>2. tab[p \div 2] = t.tab[p \div 2] \cup UNION {BitsOf(o, COMFLAG_UPDATE) : o \in {x \in objs : x \div 2 = p \div 2}}
      BY <3>1
    <3>3. Place(p, b) \in UNION {BitsOf(o, COMFLAG_UPDATE) : o \in {x \in objs : x \div 2 = p \div 2}}
            <=> \E o \in objs : o \div 2 = p \div 2 /\ Place(p, b) = Place(o, 3)
      BY <1>3
    <3>4. (\E o \in objs : o \div 2 = p \div 2 /\ Place(p, b) = Place(o, 3)) <=> p \in objs /\ b = 3
      BY PlacesDiffer
    <3> HIDE DEF tab
    <3> QED  BY <3>2, <3>3, <3>4, BitsAre
  <2>2. Bits(tab, p) \subseteq 0 .. 3 /\ Bits(t.tab, p) \subseteq 0 .. 3
    BY DEF Bits
  <2> HIDE DEF tab
  <2> QED  BY <2>1, <2>2 DEF COMFLAG_UPDATE
<1>8. \A p \in Objects : /\ u.val[p] = IF p \in objs THEN v ELSE t.val[p]
                         /\ u.rep[p] = IF p \in objs THEN "due" ELSE t.rep[p]
  <2>1. u.val = shown /\ u.rep = rep
    BY <1>2
  <2> QED  BY <2>1
<1>9. u.tels = t.tels /\ u.tab = tab
  BY <1>2
<1> HIDE DEF u, shown, tab, rep
<1>10. Written(u, t, objs, v)
  BY <1>6, <1>7, <1>8, <1>9 DEF Written
<1> QED  BY <1>10 DEF u

\* The group of telegram m agrees with it, and all but its sender are marked.
InSync(t, m) ==
    /\ \A p \in Objects : GivesTo(m, p) => t.val[p] = m.data /\ t.rep[p] = "due"
    /\ m.obj \in Objects => t.val[m.obj] = m.data

\* What has changed since the state was changed by a telegram of t.
Caused(t) ==
    \A p \in Objects : t.val[p] # value[p] \/ (t.rep[p] = "due" /\ report[p] # "due") =>
        \E i \in DOMAIN t.tels : GivesTo(t.tels[i], p) /\ t.tels[i].data = t.val[p]

LEMMA ObjectsAre == NumObjects \in Nat /\ INVALID_OBJECT_NUMBER \notin Objects
BY ObjectsAssumption DEF Objects, INVALID_OBJECT_NUMBER

\* A telegram gives its value to the objects that processGroupTelegram() writes.
LEMMA GivesToWritten ==
    ASSUME NEW m, m.apci # "read", NEW p \in Objects
    PROVE  GivesTo(m, p) <=> p \in WrittenBy(m.addr, m.obj)
BY DEF GivesTo, WrittenBy

\* The telegram m has been added to those of t, and was given to its objects.
LEMMA TelegramCauses ==
    ASSUME NEW t \in GroupTables, Caused(t), NEW u, NEW m, m.apci # "read",
           u.tels = Append(t.tels, m),
           \A p \in Objects :
                /\ u.val[p] = IF p \in WrittenBy(m.addr, m.obj) THEN m.data ELSE t.val[p]
                /\ u.rep[p] = IF p \in WrittenBy(m.addr, m.obj) THEN "due" ELSE t.rep[p]
    PROVE  Caused(u)
<1>1. t.tels \in Seq(Telegram)
  BY DEF GroupTables
<1>2. /\ Len(u.tels) \in DOMAIN u.tels /\ u.tels[Len(u.tels)] = m
      /\ \A i \in DOMAIN t.tels : i \in DOMAIN u.tels /\ u.tels[i] = t.tels[i]
  BY <1>1
<1> SUFFICES ASSUME NEW p \in Objects,
                    u.val[p] # value[p] \/ (u.rep[p] = "due" /\ report[p] # "due")
             PROVE  \E i \in DOMAIN u.tels : GivesTo(u.tels[i], p) /\ u.tels[i].data = u.val[p]
  BY DEF Caused
<1>3. CASE p \in WrittenBy(m.addr, m.obj)
  <2>1. GivesTo(m, p) /\ u.val[p] = m.data
    BY <1>3, GivesToWritten
  <2> QED  BY <1>2, <2>1
<1>4. CASE p \notin WrittenBy(m.addr, m.obj)
  <2>1. u.val[p] = t.val[p] /\ u.rep[p] = t.rep[p]
    BY <1>4
  <2>2. PICK i \in DOMAIN t.tels : GivesTo(t.tels[i], p) /\ t.tels[i].data = t.val[p]
    BY <2>1 DEF Caused
  <2>3. i \in DOMAIN u.tels /\ u.tels[i] = t.tels[i]
    BY <1>2, <2>2
  <2> QED  BY <2>1, <2>2, <2>3
<1> QED  BY <1>3, <1>4

LEMMA AssocEntry ==
    ASSUME NEW i \in DOMAIN Assoc
    PROVE  Assoc[i][1] \in Nat \ {0} /\ Assoc[i][2] \in Objects /\ Assoc[i] = <<Assoc[i][1], Assoc[i][2]>>
<1>1. Assoc[i] \in (Nat \ {0}) \X Objects
  BY ObjectsAssumption
<1> QED  BY <1>1

\* What sending the value of object o to address a, as telegram m, makes of t.
WriteSent(u, t, o, a, m) ==
    /\ u \in GroupTables /\ m \in Telegram
    /\ u.tels = Append(t.tels, m)
    /\ InSync(u, m)
    /\ \A p \in Objects :
         /\ u.val[p] = IF p \in WrittenBy(a, o) THEN t.val[o] ELSE t.val[p]
         /\ u.rep[p] = IF p \in WrittenBy(a, o) THEN "due" ELSE t.rep[p]
         /\ Bits(u.tab, p) = IF p \in WrittenBy(a, o) THEN Bits(t.tab, p) \cup COMFLAG_UPDATE
                               ELSE Bits(t.tab, p)

LEMMA SendGroupWrite ==
    ASSUME NEW t \in GroupTables, NEW o \in Objects, NEW a \in Addrs,
           NEW apci \in {"write", "response"},
           NEW u, u = sendGroupWriteTelegram(t, o, a, apci),
           NEW m, m = [obj |-> o, addr |-> a, apci |-> apci, data |-> t.val[o]]
    PROVE  WriteSent(u, t, o, a, m)
<1> DEFINE w == processGroupWriteTelegram(t, WrittenBy(a, o), t.val[o])
<1>1. WrittenBy(a, o) \in SUBSET Objects /\ o \notin WrittenBy(a, o)
  BY ObjectsAssumption DEF WrittenBy
<1>2. t.val[o] \in Values /\ t.tels \in Seq(Telegram)
  BY DEF GroupTables
<1>3. Written(w, t, WrittenBy(a, o), t.val[o])
  BY <1>1, <1>2, GroupWrite
<1>4. m \in Telegram
  BY <1>2 DEF Telegram
<1> HIDE DEF w
<1>5. u = [w EXCEPT !.tels = Append(w.tels, m)]
  BY <1>3 DEF sendGroupWriteTelegram, w, Written
<1>6. /\ u \in GroupTables /\ u.val = w.val /\ u.tab = w.tab /\ u.rep = w.rep
      /\ u.tels = Append(t.tels, m)
  <2>1. u = [val |-> w.val, tab |-> w.tab, rep |-> w.rep, tels |-> Append(w.tels, m)]
    BY <1>3, <1>5 DEF GroupTables, Written
  <2>2. Append(w.tels, m) \in Seq(Telegram)
    BY <1>2, <1>3, <1>4 DEF Written
  <2> QED  BY <1>3, <2>1, <2>2 DEF GroupTables, Written
<1>7. InSync(u, m)
  <2>1. u.val[o] = t.val[o]
    BY <1>1, <1>3, <1>6 DEF Written
  <2>2. m.apci # "read" /\ m.addr = a /\ m.obj = o /\ m.data = t.val[o]
    OBVIOUS
  <2>3. ASSUME NEW p \in Objects, GivesTo(m, p) PROVE p \in WrittenBy(a, o)
    BY <2>2, <2>3, GivesToWritten
  <2> QED  BY <1>3, <1>6, <2>1, <2>2, <2>3 DEF InSync, Written
<1> QED  BY <1>3, <1>4, <1>6, <1>7 DEF Written, WriteSent

-----------------------------------------------------------------------------
(* The answers to a read *)

AnswerStep(t, a, i) ==
    IF Assoc[i][1] = a /\ Assoc[i][2] \in Comm \cap Read
    THEN sendGroupWriteTelegram(t, Assoc[i][2], a, "response") ELSE t

IsAnswers(g, t, a, n) ==
    g = [i \in 0 .. n |-> IF i = 0 THEN t ELSE AnswerStep(g[i - 1], a, i)]

LEMMA AnswersExist ==
    ASSUME NEW t, NEW a, NEW n \in Nat
    PROVE  \E g : IsAnswers(g, t, a, n)
<1> DEFINE Z == {k \in Nat : \E g : IsAnswers(g, t, a, k)}
<1>1. 0 \in Z
  <2>1. IsAnswers([i \in 0 .. 0 |-> t], t, a, 0)
    BY DEF IsAnswers
  <2> QED  BY <2>1
<1>2. \A k \in Z : k + 1 \in Z
  <2> SUFFICES ASSUME NEW k \in Nat, NEW g, IsAnswers(g, t, a, k) PROVE \E h : IsAnswers(h, t, a, k + 1)
    OBVIOUS
  <2> DEFINE h == [i \in 0 .. k + 1 |-> IF i <= k THEN g[i] ELSE AnswerStep(g[k], a, k + 1)]
  <2>1. \A i \in 0 .. k : h[i] = g[i]
    OBVIOUS
  <2>2. \A i \in 0 .. k : g[i] = IF i = 0 THEN t ELSE AnswerStep(g[i - 1], a, i)
    BY DEF IsAnswers
  <2>3. h[k + 1] = AnswerStep(h[k], a, k + 1)
    BY <2>1
  <2>4. ASSUME NEW i \in 0 .. k + 1
        PROVE  h[i] = IF i = 0 THEN t ELSE AnswerStep(h[i - 1], a, i)
    <3>1. i = k + 1 \/ (i \in 0 .. k /\ (i = 0 \/ i - 1 \in 0 .. k))
      OBVIOUS
    <3> HIDE DEF h
    <3> QED  BY <2>1, <2>2, <2>3, <3>1
  <2>5. h = [i \in 0 .. k + 1 |-> h[i]]
    OBVIOUS
  <2>6. IsAnswers(h, t, a, k + 1)
    <3> HIDE DEF h
    <3> QED  BY <2>4, <2>5 DEF IsAnswers
  <2> QED  BY <2>6
<1>3. Z \in SUBSET Nat
  OBVIOUS
<1>4. Z = Nat
  <2> HIDE DEF Z
  <2> QED  BY <1>1, <1>2, <1>3, SetInduction
<1> QED  BY <1>4

\* Some objects have been marked as updated since the state; nothing else
\* has happened to the flags.
Marked(t, objs) ==
    /\ t \in GroupTables
    /\ \A p \in Objects :
         /\ t.rep[p] = IF p \in objs THEN "due" ELSE report[p]
         /\ Bits(t.tab, p) = IF p \in objs THEN Bits(flagsTab, p) \cup COMFLAG_UPDATE
                               ELSE Bits(flagsTab, p)

\* Telegram m is an answer to a read of address a.
IsAnswer(m, a) == m.apci = "response" /\ m.addr = a /\ m.obj \in Comm \cap Read

\* What holds while a read of address a is answered.
Answered(t, a) ==
    /\ \E objs \in SUBSET Objects : Marked(t, objs)
    /\ Caused(t)
    /\ 1 \in DOMAIN t.tels
    /\ t.tels[1].obj = INVALID_OBJECT_NUMBER /\ t.tels[1].apci = "read" /\ t.tels[1].addr = a
    /\ \A i \in DOMAIN t.tels : i = 1 \/ IsAnswer(t.tels[i], a)
    /\ t.tels[Len(t.tels)].apci # "read" => InSync(t, t.tels[Len(t.tels)])

LEMMA TablesNow ==
    ASSUME ObjectsTypeOK
    PROVE  Tables \in GroupTables /\ Marked(Tables, {}) /\ Caused(Tables)
<1>1. Tables \in GroupTables
  BY DEF ObjectsTypeOK, Tables, GroupTables, Tabs, Bytes, Reports
<1>2. Tables.rep = report /\ Tables.tab = flagsTab /\ Tables.val = value
  BY DEF Tables
<1> QED  BY <1>1, <1>2 DEF Marked, Caused

\* The tables as a telegram from the bus finds them.
LEMMA ReceivedIs ==
    ASSUME ObjectsTypeOK, NEW a \in Addrs, NEW apci \in {"write", "read", "response"}, NEW v \in Values,
           NEW t, t = Received(a, apci, v),
           NEW m, m = [obj |-> INVALID_OBJECT_NUMBER, addr |-> a, apci |-> apci, data |-> v]
    PROVE  /\ t \in GroupTables /\ t.tels = <<m>> /\ m \in Telegram
           /\ t.val = value /\ t.tab = flagsTab /\ t.rep = report
           /\ Marked(t, {}) /\ Caused(t)
<1>1. m \in Telegram
  BY DEF Telegram
<1>2. t = [val |-> value, tab |-> flagsTab, rep |-> report, tels |-> <<m>>]
  BY DEF Received, Tables
<1>3. value \in [Objects -> Values] /\ flagsTab \in Tabs /\ report \in [Objects -> Reports]
  BY DEF ObjectsTypeOK, Tabs, Bytes, Reports
<1>4. <<m>> \in Seq(Telegram)
  BY <1>1
<1>5. t \in GroupTables /\ t.tels = <<m>> /\ t.val = value /\ t.tab = flagsTab /\ t.rep = report
  BY <1>2, <1>3, <1>4 DEF GroupTables
<1> QED  BY <1>1, <1>5 DEF Marked, Caused

LEMMA AnswerOne ==
    ASSUME ObjectsTypeOK, NEW a \in Addrs, NEW t, Answered(t, a), NEW i \in DOMAIN Assoc
    PROVE  Answered(AnswerStep(t, a, i), a)
<1>1. CASE ~ (Assoc[i][1] = a /\ Assoc[i][2] \in Comm \cap Read)
  BY <1>1 DEF AnswerStep
<1>2. CASE Assoc[i][1] = a /\ Assoc[i][2] \in Comm \cap Read
  <2> DEFINE o == Assoc[i][2]
             u == sendGroupWriteTelegram(t, o, a, "response")
             m == [obj |-> o, addr |-> a, apci |-> "response", data |-> t.val[o]]
  <2>1. AnswerStep(t, a, i) = u
    BY <1>2 DEF AnswerStep
  <2>2. PICK objs \in SUBSET Objects : Marked(t, objs)
    BY DEF Answered
  <2>3. t \in GroupTables /\ o \in Objects
    BY <2>2, AssocEntry DEF Marked
  <2>4. /\ u \in GroupTables /\ m \in Telegram
        /\ u.tels = Append(t.tels, m)
        /\ InSync(u, m)
        /\ \A p \in Objects :
             /\ u.val[p] = IF p \in WrittenBy(a, o) THEN t.val[o] ELSE t.val[p]
             /\ u.rep[p] = IF p \in WrittenBy(a, o) THEN "due" ELSE t.rep[p]
             /\ Bits(u.tab, p) = IF p \in WrittenBy(a, o) THEN Bits(t.tab, p) \cup COMFLAG_UPDATE
                                   ELSE Bits(t.tab, p)
    <3>1. /\ u = sendGroupWriteTelegram(t, o, a, "response")
          /\ m = [obj |-> o, addr |-> a, apci |-> "response", data |-> t.val[o]]
      OBVIOUS
    <3> HIDE DEF o, u, m
    <3>2. WriteSent(u, t, o, a, m)
      BY <2>3, <3>1, SendGroupWrite
    <3> QED  BY <3>2 DEF WriteSent
  <2>5. t.tels \in Seq(Telegram) /\ 1 \in DOMAIN t.tels
    BY <2>3 DEF GroupTables, Answered
  <2>6. m.addr = a /\ m.obj = o /\ m.data = t.val[o] /\ m.apci = "response" /\ IsAnswer(m, a)
    BY <1>2 DEF IsAnswer
  <2> HIDE DEF o, u, m
  <2>7. Len(u.tels) = Len(t.tels) + 1 /\ u.tels[Len(u.tels)] = m
        /\ 1 \in DOMAIN u.tels /\ u.tels[1] = t.tels[1]
    BY <2>4, <2>5
  <2>8. \A k \in DOMAIN u.tels : k = 1 \/ IsAnswer(u.tels[k], a)
    <3>1. \A k \in DOMAIN u.tels : (k \in DOMAIN t.tels /\ u.tels[k] = t.tels[k]) \/ u.tels[k] = m
      BY <2>4, <2>5
    <3>2. \A k \in DOMAIN t.tels : k = 1 \/ IsAnswer(t.tels[k], a)
      BY DEF Answered
    <3> QED  BY <2>6, <3>1, <3>2
  <2>9. Marked(u, objs \cup WrittenBy(a, o))
    BY <2>2, <2>4 DEF Marked
  <2>10. objs \cup WrittenBy(a, o) \in SUBSET Objects
    BY ObjectsAssumption DEF WrittenBy
  <2>11. Caused(u)
    <3>1. Caused(t)
      BY DEF Answered
    <3> QED  BY <2>3, <2>4, <2>6, <3>1, TelegramCauses
  <2>12. u.tels[1].obj = INVALID_OBJECT_NUMBER /\ u.tels[1].apci = "read" /\ u.tels[1].addr = a
    BY <2>7 DEF Answered
  <2>13. \E objs1 \in SUBSET Objects : Marked(u, objs1)
    BY <2>9, <2>10
  <2> QED  BY <2>1, <2>4, <2>7, <2>8, <2>11, <2>12, <2>13 DEF Answered
<1> QED  BY <1>1, <1>2

LEMMA Answers ==
    ASSUME ObjectsTypeOK, NEW a \in Addrs, NEW t, Answered(t, a)
    PROVE  Answered(answerRead(t, a), a)
<1> DEFINE after[i \in 0 .. Len(Assoc)] ==
             IF i = 0 THEN t
             ELSE IF Assoc[i][1] = a /\ Assoc[i][2] \in Comm \cap Read
                  THEN sendGroupWriteTelegram(after[i - 1], Assoc[i][2], a, "response")
                  ELSE after[i - 1]
<1>1. Len(Assoc) \in Nat /\ DOMAIN Assoc = 1 .. Len(Assoc)
  BY ObjectsAssumption
<1>2. IsAnswers(after, t, a, Len(Assoc))
  <2>1. \E h : IsAnswers(h, t, a, Len(Assoc))
    BY <1>1, AnswersExist
  <2>2. after = CHOOSE h : IsAnswers(h, t, a, Len(Assoc))
    BY Zenon DEF IsAnswers, AnswerStep
  <2> HIDE DEF after
  <2> QED  BY <2>1, <2>2, Zenon
<1>3. answerRead(t, a) = after[Len(Assoc)]
  BY Zenon DEF answerRead, after
<1> HIDE DEF after
<1>4. after[0] = t /\ \A n \in Nat : n + 1 <= Len(Assoc) => after[n + 1] = AnswerStep(after[n], a, n + 1)
  BY <1>1, <1>2 DEF IsAnswers
<1> DEFINE Z == {n \in Nat : n <= Len(Assoc) => Answered(after[n], a)}
<1>5. 0 \in Z
  BY <1>4
<1>6. \A n \in Z : n + 1 \in Z
  <2> SUFFICES ASSUME NEW n \in Nat, n + 1 <= Len(Assoc), Answered(after[n], a)
               PROVE  Answered(after[n + 1], a)
    BY <1>1
  <2>1. n + 1 \in DOMAIN Assoc
    BY <1>1
  <2>2. Answered(AnswerStep(after[n], a, n + 1), a)
    BY <2>1, AnswerOne
  <2> QED  BY <1>4, <2>2
<1>7. Z \in SUBSET Nat
  OBVIOUS
<1>8. Z = Nat
  <2> HIDE DEF Z
  <2> QED  BY <1>5, <1>6, <1>7, SetInduction
<1> QED  BY <1>1, <1>3, <1>8

-----------------------------------------------------------------------------
(* The invariant *)

\* What a call of objectWrite() with bytes leaves of a read request makes the
\* flags of ComObjects ambiguous; an application that uses one of the two
\* calls only has none of that.
ReadsOrBytes == ~ ({"read", "writeBytes"} \subseteq AppOps)

\* What the flags of one object say.
FlagsSay(bits, rep, req) ==
    /\ rep = "due" <=> 3 \in bits
    /\ (req # "none") <=> {0, 1} \subseteq bits
    /\ (req = "read") <=> 2 \in bits

ObjectsInv ==
    /\ ObjectsTypeOK
    /\ ReadsOrBytes => \A o \in Objects : FlagsSay(Bits(flagsTab, o), report[o], request[o])
    /\ "read" \notin AppOps => \A o \in Objects : request[o] # "read"

LEMMA FlagsAreBits == \A o \in Objects : FlagsOf(o) = Bits(flagsTab, o)
BY DEF FlagsOf, Bits

LEMMA ObjectsInvTells == ObjectsInv /\ ReadsOrBytes => FlagsTellHistory
BY FlagsAreBits DEF ObjectsInv, FlagsSay, FlagsTellHistory, Requested, COMFLAG_UPDATE,
   COMFLAG_DATAREQ, COMFLAG_TRANSREQ

LEMMA ObjectsTypes ==
    ObjectsTypeOK =>
        /\ flagsTab \in Tabs
        /\ Tables \in GroupTables
        /\ DOMAIN request = Objects /\ DOMAIN report = Objects
BY TablesNow DEF ObjectsTypeOK, Tabs, Bytes

LEMMA ObjectsInitInv == ObjectsInit => ObjectsInv
<1> SUFFICES ASSUME ObjectsInit PROVE ObjectsInv
  OBVIOUS
<1>1. NumObjects \in Nat \ {0}
  BY ObjectsAssumption
<1>2. ObjectsTypeOK
  BY <1>1 DEF ObjectsInit, ObjectsTypeOK
<1>3. \A o \in Objects : Bits(flagsTab, o) = {}
  <2>1. \A o \in Objects : flagsTab[o \div 2] = {}
    BY ByteOf DEF ObjectsInit, Bytes
  <2>2. \A o \in Objects, b \in 0 .. 3 : b \notin Bits(flagsTab, o)
    BY <2>1, BitsAre
  <2> QED  BY <2>2 DEF Bits
<1> QED  BY <1>2, <1>3 DEF ObjectsInit, ObjectsInv, FlagsSay

\* A step that leaves flags and history alone, or only marks some objects.
LEMMA MarkedInv ==
    ASSUME ObjectsInv, NEW t, Marked(t, {}) \/ \E objs \in SUBSET Objects : Marked(t, objs),
           flagsTab' = t.tab, value' = t.val, report' = t.rep, telegrams' = t.tels,
           request' = request, sendNextObjIndex' \in 0 .. NumObjects,
           nextUpdatedObjIndex' \in 0 .. NumObjects,
           pc' \in {"receive", "send", "drain", "periodic"}
    PROVE  ObjectsInv'
<1>1. PICK objs \in SUBSET Objects : Marked(t, objs)
  OBVIOUS
<1>2. t \in GroupTables
  BY <1>1 DEF Marked
<1>3. ObjectsTypeOK'
  BY <1>2 DEF ObjectsInv, ObjectsTypeOK, GroupTables, Tabs, Bytes, Reports
<1>4. ASSUME ReadsOrBytes, NEW o \in Objects
      PROVE  FlagsSay(Bits(flagsTab', o), report'[o], request'[o])
  <2>1. FlagsSay(Bits(flagsTab, o), report[o], request[o])
    BY <1>4 DEF ObjectsInv
  <2>2. /\ report'[o] = IF o \in objs THEN "due" ELSE report[o]
        /\ Bits(flagsTab', o) = IF o \in objs THEN Bits(flagsTab, o) \cup {3} ELSE Bits(flagsTab, o)
    BY <1>1 DEF Marked, COMFLAG_UPDATE
  <2> QED  BY <2>1, <2>2 DEF FlagsSay
<1> QED  BY <1>3, <1>4 DEF ObjectsInv, Bits

-----------------------------------------------------------------------------
(* What a step sends *)

LEMMA FirstAddress ==
    ASSUME NEW o \in Objects, MaySend(o)
    PROVE  firstObjectAddr(o) \in Addrs
<1>1. AddrsOf(o) \in SUBSET Nat /\ AddrsOf(o) # {}
  <2>1. DOMAIN Assoc = 1 .. Len(Assoc) /\ Len(Assoc) \in Nat
    BY ObjectsAssumption
  <2> QED  BY <2>1 DEF AddrsOf, MaySend
<1>2. \E i \in AddrsOf(o) : \A j \in AddrsOf(o) : i <= j
  BY <1>1, Smallest
<1> DEFINE i == CHOOSE i \in AddrsOf(o) : \A j \in AddrsOf(o) : i <= j
<1>3. i \in AddrsOf(o)
  BY <1>2
<1>4. firstObjectAddr(o) = Assoc[i][1]
  BY DEF firstObjectAddr
<1> HIDE DEF i
<1> QED  BY <1>3, <1>4 DEF AddrsOf

LEMMA SendsOne ==
    ASSUME ObjectsTypeOK, sendNextGroupTelegram
    PROVE  \E o \in Objects, t \in GroupTables, objs \in SUBSET Objects :
             /\ o \notin objs /\ MaySend(o) /\ Requested(o) /\ Marked(t, objs)
             /\ Becomes(t) /\ flagsTab' = afterSending(t.tab, o)
             /\ sendNextObjIndex' = o + 1
             /\ request' = [request EXCEPT ![o] = "none"]
             /\ t.val[o] = value[o]
             /\ \E m \in Telegram :
                  /\ t.tels = <<m>> /\ m.obj = o /\ m.data = value[o]
                  /\ m.apci = IF 2 \in Bits(flagsTab, o) THEN "read" ELSE "write"
                  /\ m.apci = "write" => InSync(t, m)
             /\ Caused(t)
<1>1. NumObjects \in Nat \ {0} /\ scanFrom \in Nat
  BY ObjectsAssumption DEF ObjectsTypeOK, scanFrom
<1>2. PICK o \in ToSend :
       \E t \in {IF COMFLAG_DATAREQ \subseteq FlagsOf(o)
                THEN sendGroupReadTelegram(Tables, o, firstObjectAddr(o))
                ELSE sendGroupWriteTelegram(Tables, o, firstObjectAddr(o), "write")} :
           /\ Becomes(t) /\ flagsTab' = afterSending(t.tab, o)
           /\ sendNextObjIndex' = o + 1
           /\ request' = [request EXCEPT ![o] = "none"]
  BY DEF sendNextGroupTelegram, indexAfter
<1>3. o \in Objects /\ MaySend(o) /\ Requested(o)
  BY <1>1 DEF ToSend, Objects
<1> DEFINE a == firstObjectAddr(o)
           t == IF 2 \in Bits(flagsTab, o) THEN sendGroupReadTelegram(Tables, o, a)
                ELSE sendGroupWriteTelegram(Tables, o, a, "write")
<1>4. COMFLAG_DATAREQ \subseteq FlagsOf(o) <=> 2 \in Bits(flagsTab, o)
  BY <1>3, FlagsAreBits DEF COMFLAG_DATAREQ
<1>5. /\ Becomes(t) /\ flagsTab' = afterSending(t.tab, o)
      /\ sendNextObjIndex' = o + 1
      /\ request' = [request EXCEPT ![o] = "none"]
  BY <1>2, <1>4
<1>6. a \in Addrs
  BY <1>3, FirstAddress
<1>7. /\ Tables \in GroupTables /\ Tables.val = value /\ Tables.tels = <<>>
      /\ Tables.rep = report /\ Tables.tab = flagsTab
      /\ value[o] \in Values
  BY <1>3, TablesNow DEF Tables, ObjectsTypeOK
<1> HIDE DEF a
<1>8. CASE 2 \in Bits(flagsTab, o)
  <2> DEFINE m == [obj |-> o, addr |-> a, apci |-> "read", data |-> value[o]]
  <2>1. m \in Telegram /\ m.obj = o /\ m.data = value[o] /\ m.apci = "read"
    BY <1>3, <1>6, <1>7 DEF Telegram
  <2> HIDE DEF m
  <2>2. t = [Tables EXCEPT !.tels = <<m>>]
    BY <1>7, <1>8 DEF sendGroupReadTelegram, m
  <2>3. t = [val |-> value, tab |-> flagsTab, rep |-> report, tels |-> <<m>>]
    BY <2>2 DEF Tables
  <2> HIDE DEF t
  <2>4. t \in GroupTables
    BY <2>1, <2>3, <1>7 DEF GroupTables, Tables
  <2>5. Marked(t, {}) /\ Caused(t)
    BY <2>3, <2>4 DEF Marked, Caused
  <2> QED  BY <1>3, <1>5, <1>8, <2>1, <2>3, <2>4, <2>5
<1>9. CASE 2 \notin Bits(flagsTab, o)
  <2> DEFINE m == [obj |-> o, addr |-> a, apci |-> "write", data |-> Tables.val[o]]
  <2>1. m.obj = o /\ m.data = value[o] /\ m.apci = "write" /\ m.addr = a
    BY <1>7
  <2>2. t = sendGroupWriteTelegram(Tables, o, a, "write") /\ m = [obj |-> o, addr |-> a, apci |-> "write", data |-> Tables.val[o]]
    BY <1>9
  <2> HIDE DEF t, m
  <2>3. /\ t \in GroupTables /\ m \in Telegram
        /\ t.tels = Append(Tables.tels, m)
        /\ InSync(t, m)
        /\ \A p \in Objects :
             /\ t.val[p] = IF p \in WrittenBy(a, o) THEN Tables.val[o] ELSE Tables.val[p]
             /\ t.rep[p] = IF p \in WrittenBy(a, o) THEN "due" ELSE Tables.rep[p]
             /\ Bits(t.tab, p) = IF p \in WrittenBy(a, o) THEN Bits(Tables.tab, p) \cup COMFLAG_UPDATE
                                   ELSE Bits(Tables.tab, p)
    <3>1. Tables \in GroupTables
      BY <1>7
    <3>2. WriteSent(t, Tables, o, a, m)
      BY <1>3, <1>6, <2>2, <3>1, SendGroupWrite
    <3> QED  BY <3>2 DEF WriteSent
  <2>4. Marked(t, WrittenBy(a, o))
    BY <1>7, <2>3 DEF Marked
  <2>5. WrittenBy(a, o) \in SUBSET Objects /\ o \notin WrittenBy(a, o)
    BY ObjectsAssumption DEF WrittenBy
  <2>6. t.tels = <<m>>
    BY <1>7, <2>3
  <2>7. t.val[o] = value[o]
    BY <1>3, <2>1, <2>3 DEF InSync
  <2>8. Caused(t)
    <3>1. Tables \in GroupTables /\ Caused(Tables)
      BY TablesNow
    <3> QED  BY <1>7, <2>1, <2>3, <3>1, TelegramCauses
  <2> QED  BY <1>3, <1>5, <1>9, <2>1, <2>3, <2>4, <2>5, <2>6, <2>7, <2>8
<1> QED  BY <1>8, <1>9

LEMMA AfterSending ==
    ASSUME NEW tab \in Tabs, NEW o \in Objects
    PROVE  /\ afterSending(tab, o) \in Tabs
           /\ \A p \in Objects : Bits(afterSending(tab, o), p) =
                IF p = o THEN (Bits(tab, p) \ {0, 1, 2}) \cup {0} ELSE Bits(tab, p)
<1> DEFINE cleared == clearObjectFlags(tab, o, COMFLAG_TRANS_MASK \cup COMFLAG_DATAREQ)
<1>1. COMFLAG_TRANS_MASK \cup COMFLAG_DATAREQ = {0, 1, 2} /\ COMFLAG_ERROR = {0}
  BY DEF COMFLAG_TRANS_MASK, COMFLAG_DATAREQ, COMFLAG_ERROR
<1>2. cleared \in Tabs
      /\ \A p \in Objects : Bits(cleared, p) = IF p = o THEN Bits(tab, p) \ {0, 1, 2} ELSE Bits(tab, p)
  <2>1. cleared = clearObjectFlags(tab, o, {0, 1, 2}) /\ {0, 1, 2} \in SUBSET (0 .. 3)
    BY <1>1
  <2> HIDE DEF cleared
  <2> QED  BY <2>1, ClearFlags
<1>3. afterSending(tab, o) = addObjectFlags(cleared, o, {0})
  BY <1>1 DEF afterSending
<1> HIDE DEF cleared
<1>4. /\ addObjectFlags(cleared, o, {0}) \in Tabs
      /\ \A p \in Objects : Bits(addObjectFlags(cleared, o, {0}), p) =
           IF p = o THEN Bits(cleared, p) \cup {0} ELSE Bits(cleared, p)
  BY <1>2, AddFlags
<1> QED  BY <1>2, <1>3, <1>4

\* A received telegram: the answers to a read, or the objects it writes.
LEMMA ReceivesOne ==
    ASSUME ObjectsTypeOK, Receive
    PROVE  \E t \in GroupTables, objs \in SUBSET Objects :
             /\ Marked(t, objs) /\ Becomes(t) /\ flagsTab' = t.tab
             /\ Caused(t)
             /\ \A i \in DOMAIN t.tels : t.tels[i].obj \in Objects =>
                  /\ t.tels[1].obj = INVALID_OBJECT_NUMBER /\ t.tels[1].apci = "read"
                  /\ IsAnswer(t.tels[i], t.tels[1].addr)
             /\ t.tels[Len(t.tels)].apci # "read" => InSync(t, t.tels[Len(t.tels)])
<1>1. PICK a \in Addrs, apci \in {"write", "read", "response"}, v \in Values :
        processGroupTelegram(a, apci, v)
  BY DEF Receive
<1> DEFINE t == Received(a, apci, v)
           m == [obj |-> INVALID_OBJECT_NUMBER, addr |-> a, apci |-> apci, data |-> v]
<1>2. m.obj = INVALID_OBJECT_NUMBER /\ m.addr = a /\ m.apci = apci /\ m.data = v
  OBVIOUS
<1>3. t = Received(a, apci, v) /\ m = [obj |-> INVALID_OBJECT_NUMBER, addr |-> a, apci |-> apci, data |-> v]
  OBVIOUS
<1> HIDE DEF m, t
<1>4. /\ t \in GroupTables /\ t.tels = <<m>> /\ m \in Telegram
      /\ t.val = value /\ t.tab = flagsTab /\ t.rep = report
      /\ Marked(t, {}) /\ Caused(t)
  BY <1>3, ReceivedIs
<1>5. Len(t.tels) = 1 /\ DOMAIN t.tels = {1} /\ t.tels[1] = m
  BY <1>4
<1>6. CASE apci = "read"
  <2>1. Becomes(answerRead(t, a)) /\ flagsTab' = answerRead(t, a).tab
    BY <1>1, <1>3, <1>6 DEF processGroupTelegram
  <2>2. Answered(t, a)
    BY <1>2, <1>4, <1>5, <1>6 DEF Answered
  <2>3. Answered(answerRead(t, a), a)
    BY <2>2, Answers
  <2> DEFINE u == answerRead(t, a)
  <2> HIDE DEF u
  <2>4. PICK objs \in SUBSET Objects : Marked(u, objs)
    BY <2>3 DEF Answered, u
  <2>5. u \in GroupTables
    BY <2>4 DEF Marked
  <2>6. ASSUME NEW i \in DOMAIN u.tels, u.tels[i].obj \in Objects
        PROVE  /\ u.tels[1].obj = INVALID_OBJECT_NUMBER /\ u.tels[1].apci = "read"
               /\ IsAnswer(u.tels[i], u.tels[1].addr)
    BY <2>3, <2>6, ObjectsAre DEF Answered, u
  <2>7. Caused(u) /\ (u.tels[Len(u.tels)].apci # "read" => InSync(u, u.tels[Len(u.tels)]))
    BY <2>3 DEF Answered, u
  <2>8. Becomes(u) /\ flagsTab' = u.tab
    BY <2>1 DEF u
  <2> QED  BY <2>4, <2>5, <2>6, <2>7, <2>8
<1>7. CASE apci # "read"
  <2> DEFINE objs == WrittenBy(a, INVALID_OBJECT_NUMBER)
             u == processGroupWriteTelegram(t, objs, v)
  <2>1. Becomes(u) /\ flagsTab' = u.tab
    BY <1>1, <1>3, <1>7 DEF processGroupTelegram
  <2>2. objs \in SUBSET Objects
    BY ObjectsAssumption DEF WrittenBy
  <2>3. \A p \in Objects : GivesTo(m, p) <=> p \in objs
    BY <1>2, <1>7, GivesToWritten
  <2> HIDE DEF objs
  <2>4. Written(u, t, objs, v)
    BY <1>4, <2>2, GroupWrite
  <2> HIDE DEF u
  <2>5. Marked(u, objs) /\ u.tels = <<m>> /\ u \in GroupTables
    BY <1>4, <2>4 DEF Written, Marked
  <2>6. Len(u.tels) = 1 /\ DOMAIN u.tels = {1} /\ u.tels[1] = m
    BY <2>5
  <2>7. \A i \in DOMAIN u.tels : u.tels[i].obj \notin Objects
    BY <1>2, <2>6, ObjectsAre
  <2>8. InSync(u, m)
    BY <1>2, <2>3, <2>4, ObjectsAre DEF InSync, Written
  <2>9. Caused(u)
    BY <1>2, <1>4, <2>3, <2>4, <2>6 DEF Caused, Written
  <2> QED  BY <2>1, <2>2, <2>5, <2>6, <2>7, <2>8, <2>9
<1> QED  BY <1>6, <1>7

-----------------------------------------------------------------------------
(* The invariant, step by step *)

LEMMA ReceiveInv ==
    ASSUME ObjectsInv, Receive
    PROVE  ObjectsInv'
<1>1. ObjectsTypeOK
  BY DEF ObjectsInv
<1>2. PICK t \in GroupTables, objs \in SUBSET Objects : Marked(t, objs) /\ Becomes(t) /\ flagsTab' = t.tab
  BY <1>1, ReceivesOne
<1>3. /\ request' = request /\ sendNextObjIndex' = sendNextObjIndex
      /\ nextUpdatedObjIndex' = nextUpdatedObjIndex /\ pc' = "send"
  BY DEF Receive
<1> QED  BY <1>1, <1>2, <1>3, MarkedInv DEF Becomes, ObjectsTypeOK

LEMMA QuietInv ==
    ASSUME ObjectsInv, UNCHANGED <<tableVars, history>>, telegrams' = <<>>,
           sendNextObjIndex' \in 0 .. NumObjects,
           nextUpdatedObjIndex' \in 0 .. NumObjects,
           pc' \in {"receive", "send", "drain", "periodic"}
    PROVE  ObjectsInv'
<1>1. Marked(Tables, {}) /\ Tables.rep = report /\ Tables.tab = flagsTab
      /\ Tables.val = value /\ Tables.tels = <<>>
  BY TablesNow DEF ObjectsInv, Tables
<1> QED  BY <1>1, MarkedInv DEF tableVars, history

LEMMA SendInv ==
    ASSUME ObjectsInv, sendNextGroupTelegram
    PROVE  ObjectsInv'
<1>1. ObjectsTypeOK
  BY DEF ObjectsInv
<1>2. PICK o \in Objects, t \in GroupTables, objs \in SUBSET Objects :
             /\ o \notin objs /\ Marked(t, objs)
             /\ Becomes(t) /\ flagsTab' = afterSending(t.tab, o)
             /\ sendNextObjIndex' = o + 1
             /\ request' = [request EXCEPT ![o] = "none"]
  BY <1>1, SendsOne
<1>3. nextUpdatedObjIndex' = nextUpdatedObjIndex /\ pc' = "drain"
  BY DEF sendNextGroupTelegram
<1>4. t.tab \in Tabs
  BY DEF GroupTables
<1>5. ObjectsTypeOK'
  <2>1. flagsTab' \in Tabs
    BY <1>2, <1>4, AfterSending
  <2>2. sendNextObjIndex' \in 0 .. NumObjects
    BY <1>2, ObjectsAssumption DEF Objects
  <2>3. request' \in [Objects -> {"none", "write", "read"}]
    BY <1>1, <1>2 DEF ObjectsTypeOK
  <2>4. value' \in [Objects -> Values] /\ report' \in [Objects -> Reports] /\ telegrams' \in Seq(Telegram)
    BY <1>2 DEF GroupTables, Becomes
  <2> QED  BY <1>1, <1>3, <2>1, <2>2, <2>3, <2>4 DEF ObjectsTypeOK, Tabs, Bytes, Reports
<1>6. ASSUME ReadsOrBytes, NEW p \in Objects
      PROVE  FlagsSay(Bits(flagsTab', p), report'[p], request'[p])
  <2>1. FlagsSay(Bits(flagsTab, p), report[p], request[p])
    BY <1>6 DEF ObjectsInv
  <2>2. Bits(flagsTab', p) = IF p = o THEN (Bits(t.tab, p) \ {0, 1, 2}) \cup {0} ELSE Bits(t.tab, p)
    BY <1>2, <1>4, AfterSending
  <2>3. /\ report'[p] = IF p \in objs THEN "due" ELSE report[p]
        /\ Bits(t.tab, p) = IF p \in objs THEN Bits(flagsTab, p) \cup {3} ELSE Bits(flagsTab, p)
    BY <1>2 DEF Marked, COMFLAG_UPDATE, Becomes
  <2>4. request'[p] = IF p = o THEN "none" ELSE request[p]
    BY <1>1, <1>2 DEF ObjectsTypeOK
  <2> QED  BY <1>2, <2>1, <2>2, <2>3, <2>4 DEF FlagsSay
<1>7. "read" \notin AppOps => \A p \in Objects : request'[p] # "read"
  BY <1>1, <1>2 DEF ObjectsInv, ObjectsTypeOK
<1> QED  BY <1>5, <1>6, <1>7 DEF ObjectsInv, Bits

LEMMA NextUpdatedInv ==
    ASSUME ObjectsInv, nextUpdatedObject
    PROVE  ObjectsInv'
<1>1. ObjectsTypeOK /\ flagsTab \in Tabs
  BY ObjectsTypes DEF ObjectsInv
<1>2. NumObjects \in Nat \ {0}
  BY ObjectsAssumption
<1>3. Updated \in SUBSET Nat /\ Updated \in SUBSET Objects /\ Updated # {}
  BY <1>2 DEF Updated, nextUpdatedObject, Objects, firstUpdated
<1>4. \E x \in Updated : \A y \in Updated : x <= y
  BY <1>3, Smallest
<1> DEFINE o == CHOOSE x \in Updated : \A y \in Updated : x <= y
<1>5. o \in Objects
  BY <1>3, <1>4
<1>6. /\ flagsTab' = clearObjectFlags(flagsTab, o, COMFLAG_UPDATE)
      /\ nextUpdatedObjIndex' = o + 1
      /\ report' = [report EXCEPT ![o] = "none"]
      /\ telegrams' = <<>>
      /\ UNCHANGED <<value, sendNextObjIndex, pc, request>>
  BY DEF nextUpdatedObject
<1> HIDE DEF o
<1>7. /\ flagsTab' \in Tabs
      /\ \A p \in Objects : Bits(flagsTab', p) = IF p = o THEN Bits(flagsTab, p) \ {3} ELSE Bits(flagsTab, p)
  <2>1. flagsTab' = clearObjectFlags(flagsTab, o, {3}) /\ {3} \in SUBSET (0 .. 3)
    BY <1>6 DEF COMFLAG_UPDATE
  <2> QED  BY <1>1, <1>5, <2>1, ClearFlags
<1>8. ObjectsTypeOK'
  <2>1. nextUpdatedObjIndex' \in 0 .. NumObjects
    BY <1>2, <1>5, <1>6 DEF Objects
  <2>2. telegrams' \in Seq(Telegram)
    BY <1>6
  <2> QED  BY <1>1, <1>6, <1>7, <2>1, <2>2 DEF ObjectsTypeOK, Tabs, Bytes
<1>9. ASSUME ReadsOrBytes, NEW p \in Objects
      PROVE  FlagsSay(Bits(flagsTab', p), report'[p], request'[p])
  <2>1. FlagsSay(Bits(flagsTab, p), report[p], request[p])
    BY <1>9 DEF ObjectsInv
  <2>2. report'[p] = IF p = o THEN "none" ELSE report[p]
    BY <1>1, <1>6 DEF ObjectsTypeOK
  <2>3. request'[p] = request[p]
    BY <1>6
  <2>4. CASE p = o
    <3>1. Bits(flagsTab', p) = Bits(flagsTab, p) \ {3} /\ report'[p] = "none"
      BY <1>7, <2>2, <2>4
    <3> QED  BY <2>1, <2>3, <3>1 DEF FlagsSay
  <2>5. CASE p # o
    <3>1. Bits(flagsTab', p) = Bits(flagsTab, p) /\ report'[p] = report[p]
      BY <1>7, <2>2, <2>5
    <3> QED  BY <2>1, <2>3, <3>1 DEF FlagsSay
  <2> QED  BY <2>4, <2>5
<1> QED  BY <1>6, <1>8, <1>9 DEF ObjectsInv, Bits


\* The flags of the object of a call, and of no other.
LEMMA CallFlags ==
    ASSUME ObjectsTypeOK, NEW op \in AppOps, NEW o \in Objects, NEW v \in Values, call(op, o, v)
    PROVE  /\ flagsTab' \in Tabs
           /\ \A p \in Objects \ {o} : Bits(flagsTab', p) = Bits(flagsTab, p)
           /\ Bits(flagsTab', o) =
                CASE op = "write"       -> {0, 1}
                  [] op = "writeBytes"  -> Bits(flagsTab, o) \cup {0, 1}
                  [] op = "read"        -> {0, 1, 2}
                  [] op = "setValue"    -> {}
                  [] op = "update"      -> {3}
                  [] op = "updateBytes" -> Bits(flagsTab, o) \cup {3}
<1>1. op \in {"write", "writeBytes", "read", "setValue", "update", "updateBytes"}
  BY ObjectsAssumption DEF Requests, Updates
<1>2. flagsTab \in Tabs
  BY ObjectsTypes
<1>3. COMFLAG_TRANSREQ = {0, 1} /\ COMFLAG_TRANSREQ \cup COMFLAG_DATAREQ = {0, 1, 2}
      /\ COMFLAG_UPDATE = {3}
  BY DEF COMFLAG_TRANSREQ, COMFLAG_DATAREQ, COMFLAG_UPDATE
<1>4. ASSUME NEW flags \in SUBSET (0 .. 3), flagsTab' = setObjectFlags(flagsTab, o, flags)
      PROVE  /\ flagsTab' \in Tabs
             /\ \A p \in Objects \ {o} : Bits(flagsTab', p) = Bits(flagsTab, p)
             /\ Bits(flagsTab', o) = flags
  BY <1>2, <1>4, SetFlags
<1>5. ASSUME NEW flags \in SUBSET (0 .. 3), flagsTab' = addObjectFlags(flagsTab, o, flags)
      PROVE  /\ flagsTab' \in Tabs
             /\ \A p \in Objects \ {o} : Bits(flagsTab', p) = Bits(flagsTab, p)
             /\ Bits(flagsTab', o) = Bits(flagsTab, o) \cup flags
  BY <1>2, <1>5, AddFlags
<1>6. /\ {0, 1} \in SUBSET (0 .. 3) /\ {0, 1, 2} \in SUBSET (0 .. 3)
      /\ {3} \in SUBSET (0 .. 3) /\ {} \in SUBSET (0 .. 3)
  OBVIOUS
<1>7. CASE op = "write"
  <2>1. flagsTab' = setObjectFlags(flagsTab, o, {0, 1})
    BY <1>3, <1>7 DEF call
  <2> QED  BY <1>4, <1>6, <1>7, <2>1
<1>8. CASE op = "writeBytes"
  <2>1. flagsTab' = addObjectFlags(flagsTab, o, {0, 1})
    BY <1>3, <1>8 DEF call
  <2> QED  BY <1>5, <1>6, <1>8, <2>1
<1>9. CASE op = "read"
  <2>1. flagsTab' = setObjectFlags(flagsTab, o, {0, 1, 2})
    BY <1>3, <1>9 DEF call
  <2> QED  BY <1>4, <1>6, <1>9, <2>1
<1>10. CASE op = "setValue"
  <2>1. flagsTab' = setObjectFlags(flagsTab, o, {})
    BY <1>10 DEF call
  <2> QED  BY <1>4, <1>6, <1>10, <2>1
<1>11. CASE op = "update"
  <2>1. flagsTab' = setObjectFlags(flagsTab, o, {3})
    BY <1>3, <1>11 DEF call
  <2> QED  BY <1>4, <1>6, <1>11, <2>1
<1>12. CASE op = "updateBytes"
  <2>1. flagsTab' = addObjectFlags(flagsTab, o, {3})
    BY <1>3, <1>12 DEF call
  <2> QED  BY <1>5, <1>6, <1>12, <2>1
<1> QED  BY <1>1, <1>7, <1>8, <1>9, <1>10, <1>11, <1>12

LEMMA CallInv ==
    ASSUME ObjectsInv, AppCall
    PROVE  ObjectsInv'
<1>1. PICK op \in AppOps, o \in Objects, v \in Values : call(op, o, v)
  BY DEF AppCall
<1>2. /\ telegrams' = <<>>
      /\ UNCHANGED <<sendNextObjIndex, nextUpdatedObjIndex, pc>>
  BY DEF AppCall
<1>3. ObjectsTypeOK
  BY DEF ObjectsInv
<1>4. op \in {"write", "writeBytes", "read", "setValue", "update", "updateBytes"}
  BY ObjectsAssumption DEF Requests, Updates
<1>5. /\ flagsTab' \in Tabs
      /\ \A p \in Objects \ {o} : Bits(flagsTab', p) = Bits(flagsTab, p)
      /\ Bits(flagsTab', o) =
           CASE op = "write"       -> {0, 1}
             [] op = "writeBytes"  -> Bits(flagsTab, o) \cup {0, 1}
             [] op = "read"        -> {0, 1, 2}
             [] op = "setValue"    -> {}
             [] op = "update"      -> {3}
             [] op = "updateBytes" -> Bits(flagsTab, o) \cup {3}
  BY <1>1, <1>3, CallFlags
<1>6. /\ request' \in [Objects -> {"none", "write", "read"}]
      /\ \A p \in Objects \ {o} : request'[p] = request[p]
      /\ request'[o] = CASE op \in {"write", "writeBytes"} -> "write"
                         [] op = "read"                    -> "read"
                         [] op \in {"setValue", "update"}  -> "none"
                         [] op = "updateBytes"             -> request[o]
  BY <1>1, <1>3, <1>4 DEF call, ObjectsTypeOK
<1>7. /\ report' \in [Objects -> {"none", "due", "dropped"}]
      /\ \A p \in Objects \ {o} : report'[p] = report[p]
      /\ op \in {"update", "updateBytes"} => report'[o] = "due"
      /\ op \in {"write", "setValue", "read"} => report'[o] # "due"
      /\ op = "writeBytes" => report'[o] = report[o]
  BY <1>1, <1>3, <1>4 DEF call, ObjectsTypeOK, Updates
<1>8. value' \in [Objects -> Values]
  BY <1>1, <1>3 DEF call, ObjectsTypeOK
<1>9. ObjectsTypeOK'
  <2>1. telegrams' \in Seq(Telegram)
    BY <1>2
  <2> QED  BY <1>2, <1>3, <1>5, <1>6, <1>7, <1>8, <2>1 DEF ObjectsTypeOK, Tabs, Bytes
<1>10. ASSUME ReadsOrBytes
       PROVE  FlagsSay(Bits(flagsTab', o), report'[o], request'[o])
  <2>1. FlagsSay(Bits(flagsTab, o), report[o], request[o])
    BY <1>10 DEF ObjectsInv
  <2>2. op = "writeBytes" => request[o] # "read"
    BY <1>10 DEF ObjectsInv, ReadsOrBytes
  <2>3. request[o] \in {"none", "write", "read"}
    BY <1>3 DEF ObjectsTypeOK
  <2>4. CASE op \in {"write", "read", "setValue"}
    BY <1>5, <1>6, <1>7, <2>4 DEF FlagsSay
  <2>5. CASE op = "writeBytes"
    BY <1>5, <1>6, <1>7, <2>1, <2>2, <2>3, <2>5 DEF FlagsSay
  <2>6. CASE op = "update"
    BY <1>5, <1>6, <1>7, <2>6 DEF FlagsSay
  <2>7. CASE op = "updateBytes"
    BY <1>5, <1>6, <1>7, <2>1, <2>7 DEF FlagsSay
  <2> QED  BY <1>4, <2>4, <2>5, <2>6, <2>7
<1>11. ASSUME ReadsOrBytes, NEW p \in Objects \ {o}
       PROVE  FlagsSay(Bits(flagsTab', p), report'[p], request'[p])
  <2>1. FlagsSay(Bits(flagsTab, p), report[p], request[p])
    BY <1>11 DEF ObjectsInv
  <2>2. report'[p] = report[p] /\ request'[p] = request[p] /\ Bits(flagsTab', p) = Bits(flagsTab, p)
    BY <1>5, <1>6, <1>7
  <2> QED  BY <2>1, <2>2
<1>12. ASSUME "read" \notin AppOps, NEW p \in Objects PROVE request'[p] # "read"
  <2>1. op # "read" /\ request[p] # "read" /\ request[o] # "read"
    BY <1>12 DEF ObjectsInv
  <2> QED  BY <1>4, <1>6, <2>1
<1> QED  BY <1>9, <1>10, <1>11, <1>12 DEF ObjectsInv, Bits

LEMMA ObjectsNextInv ==
    ASSUME ObjectsInv, [ObjectsNext]_objectsVars
    PROVE  ObjectsInv'
<1>1. /\ sendNextObjIndex \in 0 .. NumObjects /\ nextUpdatedObjIndex \in 0 .. NumObjects
      /\ pc \in {"receive", "send", "drain", "periodic"}
      /\ NumObjects \in Nat \ {0}
      /\ scanFrom + 1 \in 0 .. NumObjects /\ firstUpdated + 1 \in 0 .. NumObjects
  BY ObjectsAssumption DEF ObjectsInv, ObjectsTypeOK, scanFrom, firstUpdated
<1>2. CASE Receive
  BY <1>2, ReceiveInv
<1>3. CASE ReceiveNothing
  BY <1>1, <1>3, QuietInv DEF ReceiveNothing
<1>4. CASE sendNextGroupTelegram
  BY <1>4, SendInv
<1>5. CASE sendNothing
  BY <1>1, <1>5, QuietInv DEF sendNothing, tableVars, history
<1>6. CASE SendLater
  BY <1>1, <1>6, QuietInv DEF SendLater
<1>7. CASE nextUpdatedObject
  BY <1>7, NextUpdatedInv
<1>8. CASE noUpdatedObject
  BY <1>1, <1>8, QuietInv DEF noUpdatedObject
<1>9. CASE AppCall
  BY <1>9, CallInv
<1>10. CASE loopReturns
  BY <1>1, <1>10, QuietInv DEF loopReturns
<1>11. CASE UNCHANGED objectsVars
  BY <1>11 DEF objectsVars, tableVars, history, ObjectsInv, ObjectsTypeOK, Bits
<1> QED  BY <1>2, <1>3, <1>4, <1>5, <1>6, <1>7, <1>8, <1>9, <1>10, <1>11 DEF ObjectsNext

LEMMA ObjectsInvariant == ObjectsSpec => []ObjectsInv
<1>1. ObjectsInit => ObjectsInv
  BY ObjectsInitInv
<1>2. ObjectsInv /\ [ObjectsNext]_objectsVars => ObjectsInv'
  BY ObjectsNextInv
<1> QED  BY <1>1, <1>2, PTL DEF ObjectsSpec

\* The types of the state, and with them that every access to a table is to an
\* entry it has.
THEOREM ObjectsHaveTypes == ObjectsSpec => []ObjectsTypeOK
<1>1. ObjectsInv => ObjectsTypeOK
  BY DEF ObjectsInv
<1> QED  BY <1>1, ObjectsInvariant, PTL

\* The flags of an object tell the request that is still to be sent, and
\* whether a report is due: com_objects.cpp, for every table.
THEOREM FlagsTell ==
    ASSUME ReadsOrBytes
    PROVE  ObjectsSpec => []FlagsTellHistory
<1>1. ObjectsInv => FlagsTellHistory
  BY ObjectsInvTells
<1> QED  BY <1>1, ObjectsInvariant, PTL

-----------------------------------------------------------------------------
(* The telegrams *)

LEMMA SilentStep ==
    ASSUME [ObjectsNext]_objectsVars
    PROVE  Receive \/ sendNextGroupTelegram \/ telegrams' = <<>> \/ UNCHANGED objectsVars
BY DEF ObjectsNext, ReceiveNothing, sendNothing, SendLater, nextUpdatedObject, noUpdatedObject,
   AppCall, loopReturns

LEMMA StepInSync ==
    ASSUME ObjectsTypeOK, ObjectsNext
    PROVE  GroupInSync
<1> SUFFICES ASSUME telegrams' # <<>>, lastTelegram'.apci # "read" PROVE GroupInSync
  BY DEF GroupInSync
<1>1. \E t : value' = t.val /\ report' = t.rep /\ InSync(t, lastTelegram')
  <2>1. CASE Receive
    <3>1. PICK t \in GroupTables, objs \in SUBSET Objects :
             /\ Marked(t, objs) /\ Becomes(t)
             /\ t.tels[Len(t.tels)].apci # "read" => InSync(t, t.tels[Len(t.tels)])
      BY <2>1, ReceivesOne
    <3> QED  BY <3>1 DEF Becomes, lastTelegram
  <2>2. CASE sendNextGroupTelegram
    <3>1. PICK t \in GroupTables, m \in Telegram :
             /\ Becomes(t) /\ t.tels = <<m>>
             /\ m.apci \in {"read", "write"}
             /\ m.apci = "write" => InSync(t, m)
      BY <2>2, SendsOne
    <3>2. lastTelegram' = m
      BY <3>1 DEF lastTelegram, Becomes
    <3> QED  BY <3>1, <3>2 DEF Becomes
  <2> QED  BY <2>1, <2>2 DEF ObjectsNext, ReceiveNothing, sendNothing, SendLater,
             nextUpdatedObject, noUpdatedObject, AppCall, loopReturns
<1> QED  BY <1>1 DEF InSync, GroupInSync

\* Every group telegram, received or sent, leaves the group in one state, with
\* any tables: the updates that processGroupTelegram(), sendGroupWriteTelegram()
\* and processGroupWriteTelegram() make.
THEOREM GroupsInSync == ObjectsSpec => [][GroupInSync]_objectsVars
<1>1. ObjectsInv /\ [ObjectsNext]_objectsVars => [GroupInSync]_objectsVars
  BY StepInSync DEF ObjectsInv
<1> QED  BY <1>1, ObjectsInvariant, PTL DEF ObjectsSpec

LEMMA StepOnlyByTelegrams ==
    ASSUME ObjectsTypeOK, ObjectsNext
    PROVE  OnlyByTelegrams
<1>1. CASE Receive
  <2>1. PICK t \in GroupTables : Becomes(t) /\ Caused(t)
    BY <1>1, ReceivesOne
  <2>2. request' = request
    BY <1>1 DEF Receive
  <2> QED  BY <2>1, <2>2 DEF Becomes, Caused, OnlyByTelegrams
<1>2. CASE sendNextGroupTelegram
  <2>1. PICK o \in Objects, t \in GroupTables, m \in Telegram :
          /\ Becomes(t) /\ Caused(t) /\ t.tels = <<m>> /\ m.obj = o
          /\ request' = [request EXCEPT ![o] = "none"]
    BY <1>2, SendsOne
  <2>2. telegrams' = <<m>> /\ 1 \in DOMAIN telegrams' /\ telegrams'[1].obj = o
    BY <2>1 DEF Becomes
  <2>3. \A p \in Objects : request'[p] # request[p] => p = o
    BY <2>1 DEF ObjectsTypeOK
  <2> QED  BY <2>1, <2>2, <2>3 DEF Becomes, Caused, OnlyByTelegrams
<1>3. CASE AppCall
  BY <1>3 DEF OnlyByTelegrams
<1>4. CASE nextUpdatedObject
  <2>1. /\ value' = value /\ request' = request
        /\ \E o : report' = [report EXCEPT ![o] = "none"]
    BY <1>4 DEF nextUpdatedObject
  <2>2. \A p \in Objects : report'[p] = "due" => report[p] = "due"
    BY <2>1 DEF ObjectsTypeOK
  <2> QED  BY <2>1, <2>2 DEF OnlyByTelegrams
<1>5. CASE UNCHANGED <<value, request, report>>
  BY <1>5 DEF OnlyByTelegrams
<1> QED  BY <1>1, <1>2, <1>3, <1>4, <1>5 DEF ObjectsNext, ReceiveNothing, sendNothing, SendLater,
           noUpdatedObject, loopReturns, tableVars, history

LEMMA StepAsRequested ==
    ASSUME ReadsOrBytes, ObjectsInv, ObjectsNext
    PROVE  AsRequested
<1> DEFINE Asked(t) == /\ t.apci # "response"
                       /\ request[t.obj] = t.apci
                       /\ t.data = value[t.obj]
                       /\ MaySend(t.obj)
                       /\ report'[t.obj] = report[t.obj]
<1> SUFFICES ASSUME NEW i \in DOMAIN telegrams', telegrams'[i].obj \in Objects
             PROVE  \/ Asked(telegrams'[i])
                    \/ /\ telegrams'[i].apci = "response"
                       /\ telegrams'[1].obj = INVALID_OBJECT_NUMBER
                       /\ telegrams'[1].apci = "read" /\ telegrams'[1].addr = telegrams'[i].addr
                       /\ telegrams'[i].obj \in Comm \cap Read
  BY DEF AsRequested
<1>1. CASE Receive
  BY <1>1, ReceivesOne DEF Becomes, ObjectsInv, IsAnswer
<1>2. CASE sendNextGroupTelegram
  <2>1. ObjectsTypeOK
    BY DEF ObjectsInv
  <2>2. PICK o \in Objects, t \in GroupTables, objs \in SUBSET Objects, m \in Telegram :
             /\ o \notin objs /\ MaySend(o) /\ Requested(o) /\ Marked(t, objs)
             /\ Becomes(t)
             /\ t.tels = <<m>> /\ m.obj = o /\ m.data = value[o]
             /\ m.apci = IF 2 \in Bits(flagsTab, o) THEN "read" ELSE "write"
    BY <1>2, <2>1, SendsOne
  <2>3. telegrams' = <<m>> /\ i = 1
    BY <2>2 DEF Becomes
  <2>4. FlagsSay(Bits(flagsTab, o), report[o], request[o]) /\ request[o] \in {"none", "write", "read"}
    BY <2>1 DEF ObjectsInv, ObjectsTypeOK
  <2>5. {0, 1} \subseteq Bits(flagsTab, o)
    BY <2>2, FlagsAreBits DEF Requested, COMFLAG_TRANSREQ
  <2>6. request[o] = m.apci /\ m.apci # "response"
    BY <2>2, <2>4, <2>5 DEF FlagsSay
  <2>7. report'[o] = report[o]
    BY <2>2 DEF Marked, Becomes
  <2> QED  BY <2>2, <2>3, <2>6, <2>7
<1> QED  BY <1>1, <1>2 DEF ObjectsNext, ReceiveNothing, sendNothing, SendLater,
             nextUpdatedObject, noUpdatedObject, AppCall, loopReturns

\* Every group telegram, received or sent, leaves the group in one state; no
\* other object changes, and no object without a telegram or a call of the
\* application; and what is sent is an answer to a read, or what the
\* application asked for last.
THEOREM GroupsDoAgree ==
    ASSUME ReadsOrBytes
    PROVE  ObjectsSpec => GroupsAgree
<1>1. ObjectsInv /\ [ObjectsNext]_objectsVars => [GroupInSync /\ OnlyByTelegrams /\ AsRequested]_objectsVars
  BY StepInSync, StepOnlyByTelegrams, StepAsRequested DEF ObjectsInv
<1> QED  BY <1>1, ObjectsInvariant, PTL DEF ObjectsSpec, GroupsAgree

-----------------------------------------------------------------------------
(* The counter of milliseconds *)

\* The remainder, for numbers less than one range away.
LEMMA Remainders ==
    ASSUME NEW a \in Int
    PROVE  /\ a \in 0 .. Wrap - 1 => a % Wrap = a
           /\ a \in Wrap .. 2 * Wrap - 1 => a % Wrap = a - Wrap
           /\ a \in -Wrap .. -1 => a % Wrap = a + Wrap
BY ClockAssumption

LEMMA CounterRange ==
    ASSUME systemTime \in Time, NEW ms \in Int
    PROVE  Plus(systemTime, ms) \in Time
BY ClockAssumption DEF Time, Plus

\* Half of the counter's range, as the assumptions write it.
LEMMA Half == Wrap \div 2 \in Nat /\ 2 * (Wrap \div 2) = Wrap
BY ClockAssumption

-----------------------------------------------------------------------------
(* Timeouts *)

\* The timeout is the value of the counter when nothing is left, or the one
\* after it: start() passes over zero.
EndMatches ==
    \/ timeout = STOPPED /\ left = NotRunning
    \/ /\ timeout \in 1 .. Wrap - 1
       /\ left \in -MaxLate .. (Wrap \div 2) - 1
       /\ \/ Plus(systemTime, left) = timeout
          \/ Plus(systemTime, left) = 0 /\ timeout = 1

TimeoutInv ==
    /\ systemTime \in Time /\ answer \in BOOLEAN
    /\ EndMatches

LEMMA TimeoutInvTypes == TimeoutInv => TimeoutTypeOK
BY Half, ClockAssumption, TimeoutAssumption
   DEF TimeoutInv, EndMatches, TimeoutTypeOK, Time, NotRunning, STOPPED

LEMMA TimeoutInitInv == TimeoutInit => TimeoutInv
<1>1. 0 \in Time
  BY ClockAssumption DEF Time
<1> QED  BY <1>1 DEF TimeoutInit, TimeoutInv, EndMatches

LEMMA StartInv ==
    ASSUME TimeoutInv, NEW ms \in Periods, start(ms)
    PROVE  TimeoutInv'
<1>1. ms \in 0 .. (Wrap \div 2) - 1 /\ MaxLate \in Nat
  BY Half, TimeoutAssumption
<1>2. Plus(systemTime, ms) \in Time
  BY <1>1, CounterRange DEF TimeoutInv
<1>3. systemTime' = systemTime /\ answer' = answer
  BY DEF start
<1>4. CASE ms = 0
  BY <1>3, <1>4 DEF start, TimeoutInv, EndMatches
<1>5. CASE ms # 0
  <2>1. left' = ms /\ Plus(systemTime', left') = Plus(systemTime, ms)
    BY <1>3, <1>5 DEF start
  <2>2. timeout' = IF Plus(systemTime, ms) = 0 THEN 1 ELSE Plus(systemTime, ms)
    BY <1>5 DEF start, STOPPED
  <2>3. left' \in -MaxLate .. (Wrap \div 2) - 1
    BY <1>1, <2>1, Half
  <2> QED  BY <1>2, <1>3, <2>1, <2>2, <2>3, ClockAssumption DEF TimeoutInv, EndMatches, Time
<1> QED  BY <1>4, <1>5

LEMMA TickInv ==
    ASSUME TimeoutInv, TimeoutTick
    PROVE  TimeoutInv'
<1>1. systemTime' = Plus(systemTime, 1) /\ systemTime' \in Time
  BY CounterRange DEF TimeoutTick, SysTick_Handler, TimeoutInv
<1>2. timeout' = timeout /\ answer' = answer
  BY DEF TimeoutTick
<1>3. CASE timeout = STOPPED /\ left = NotRunning
  BY <1>1, <1>2, <1>3 DEF TimeoutTick, TimeoutInv, EndMatches
<1>4. CASE timeout # STOPPED \/ left # NotRunning
  <2>1. /\ left \in -MaxLate .. (Wrap \div 2) - 1 /\ left > -MaxLate
        /\ left' = left - 1
    BY <1>4, Half, TimeoutAssumption DEF TimeoutInv, EndMatches, TimeoutTick, NotRunning
  <2>2. left' \in -MaxLate .. (Wrap \div 2) - 1
    BY <2>1, Half, TimeoutAssumption
  <2>3. Plus(systemTime', left') = Plus(systemTime, left)
    BY <1>1, <2>1, Half, ClockAssumption, TimeoutAssumption DEF Plus, TimeoutInv, Time
  <2> QED  BY <1>1, <1>2, <1>4, <2>2, <2>3 DEF TimeoutInv, EndMatches
<1> QED  BY <1>3, <1>4

\* What expired() answers: over() compares the counter with the end as signed
\* numbers, which is right within half of the range.
LEMMA OverInTime ==
    ASSUME TimeoutInv
    PROVE  /\ started /\ over => left # NotRunning /\ left <= 0
           /\ left < 0 => started /\ over
<1>1. CASE timeout = STOPPED /\ left = NotRunning
  BY <1>1, ClockAssumption DEF started, NotRunning
<1>2. CASE ~(timeout = STOPPED /\ left = NotRunning)
  <2>1. /\ timeout \in 1 .. Wrap - 1
        /\ left \in -MaxLate .. (Wrap \div 2) - 1
        /\ \/ Plus(systemTime, left) = timeout
           \/ Plus(systemTime, left) = 0 /\ timeout = 1
    BY <1>2 DEF TimeoutInv, EndMatches
  <2>2. systemTime \in 0 .. Wrap - 1 /\ MaxLate \in 0 .. (Wrap \div 2) - 1
    BY TimeoutAssumption DEF TimeoutInv, Time
  <2>3. PICK late \in {0, 1} : elapsed(timeout) = (-left - late) % Wrap
    BY <2>1, <2>2, Half, ClockAssumption DEF Plus, elapsed
  <2>4. -left - late \in -(Wrap \div 2) .. (Wrap \div 2) - 1
    BY <2>1, <2>2, Half
  <2>5. elapsed(timeout) = IF -left - late >= 0 THEN -left - late ELSE Wrap - left - late
    BY <2>1, <2>3, <2>4, Half, Remainders, ClockAssumption
  <2>6. over <=> -left - late >= 0
    BY <2>1, <2>2, <2>4, <2>5, Half, ClockAssumption DEF over, signed
  <2>7. started /\ left # NotRunning
    BY <2>1, Half, ClockAssumption DEF started, NotRunning, STOPPED
  <2> QED  BY <2>1, <2>2, <2>6, <2>7, Half
<1> QED  BY <1>1, <1>2

LEMMA ExpiredInTime ==
    ASSUME TimeoutInv, expired
    PROVE  /\ TimeoutInv'
           /\ answer' => left # NotRunning /\ left <= 0
           /\ left < 0 => answer'
<1>1. answer' = (started /\ over) /\ systemTime' = systemTime
  BY DEF expired
<1>2. \/ timeout' = STOPPED /\ left' = NotRunning
      \/ timeout' = timeout /\ left' = left
  BY DEF expired
<1>3. TimeoutInv'
  BY <1>1, <1>2 DEF TimeoutInv, EndMatches, started
<1> QED  BY <1>1, <1>3, OverInTime

LEMMA TimeoutNextInv ==
    ASSUME TimeoutInv, [TimeoutNext]_timeoutVars
    PROVE  TimeoutInv'
<1>1. CASE stop
  BY <1>1 DEF stop, TimeoutInv, EndMatches
<1>2. CASE UNCHANGED timeoutVars
  BY <1>2 DEF timeoutVars, TimeoutInv, EndMatches
<1> QED  BY <1>1, <1>2, StartInv, TickInv, ExpiredInTime DEF TimeoutNext

\* The counter, the end of the timeout and what expired() answered keep their
\* types (class Timeout, timeout.h).
THEOREM TimeoutTypes == TimeoutSpec => []TimeoutTypeOK
<1>1. TimeoutInit => TimeoutInv
  BY TimeoutInitInv
<1>2. TimeoutInv /\ [TimeoutNext]_timeoutVars => TimeoutInv'
  BY TimeoutNextInv
<1>3. TimeoutInv => TimeoutTypeOK
  BY TimeoutInvTypes
<1> QED  BY <1>1, <1>2, <1>3, PTL DEF TimeoutSpec

\* Timeout::expired() answers "yes" for a running timeout whose time is over,
\* and only then, although the comparison is one of numbers that wrap.
THEOREM TimeoutsExpireInTime == TimeoutSpec => ExpiresInTime
<1>1. TimeoutInit => TimeoutInv
  BY TimeoutInitInv
<1>2. TimeoutInv /\ [TimeoutNext]_timeoutVars => TimeoutInv'
  BY TimeoutNextInv
<1>3. TimeoutInv /\ [TimeoutNext]_timeoutVars =>
        [expired => /\ answer' => left # NotRunning /\ left <= 0
                    /\ left < 0 => answer']_timeoutVars
  BY ExpiredInTime
<1> QED  BY <1>1, <1>2, <1>3, PTL DEF TimeoutSpec, ExpiresInTime

-----------------------------------------------------------------------------
(* The rate of the group telegrams *)

\* The counter is never far behind the time of the last telegram, and tells
\* the time since then, or that it is a second ago.
RateInv ==
    /\ RateTypeOK
    /\ elapsed(groupTelSent) <= 2 * Second - 1 + gap
    /\ \/ elapsed(groupTelSent) = since
       \/ elapsed(groupTelSent) >= Second /\ since >= Second

LEMMA RateNumbers ==
    ASSUME RateTypeOK
    PROVE  /\ Wrap \in Nat \ {0, 1} /\ Second \in Nat \ {0} /\ 3 * Second < Wrap
           /\ gap \in 0 .. Second /\ MaxGap \in 1 .. Second
           /\ groupTelWaitMillis \in 1 .. Second
           /\ since \in 0 .. Wrap
           /\ elapsed(groupTelSent) \in 0 .. Wrap - 1
<1>1. \A w \in Limits \cup {DefaultWait} : w \in 1 .. Second
  BY RateAssumption
<1>2. elapsed(groupTelSent) \in 0 .. Wrap - 1
  BY ClockAssumption DEF RateTypeOK, elapsed, Time
<1> QED  BY <1>1, <1>2, RateAssumption, ClockAssumption DEF RateTypeOK

LEMMA RateInitInv == RateInit => RateInv
<1> SUFFICES ASSUME RateInit PROVE RateInv
  OBVIOUS
<1>1. elapsed(groupTelSent) = 0
  BY ClockAssumption DEF RateInit, elapsed, Time
<1>2. RateTypeOK
  BY ClockAssumption, RateAssumption DEF RateInit, RateTypeOK, Time
<1> QED  BY <1>1, <1>2, RateAssumption DEF RateInit, RateInv

LEMMA RateTickInv ==
    ASSUME RateInv, RateTick
    PROVE  RateInv' /\ since' >= since
<1>1. /\ groupTelSent' = groupTelSent /\ groupTelWaitMillis' = groupTelWaitMillis
      /\ gap < MaxGap /\ gap' = gap + 1
      /\ since' = IF since < Wrap THEN since + 1 ELSE since
      /\ systemTime' = (systemTime + 1) % Wrap
  BY DEF RateTick, SysTick_Handler, Plus
<1>2. systemTime \in 0 .. Wrap - 1 /\ groupTelSent \in 0 .. Wrap - 1
  BY DEF RateInv, RateTypeOK, Time
<1>3. elapsed(groupTelSent) < Wrap - 1
  BY <1>1, RateNumbers DEF RateInv
<1>4. elapsed(groupTelSent)' = elapsed(groupTelSent) + 1
  BY <1>1, <1>2, <1>3, ClockAssumption DEF elapsed
<1>5. RateTypeOK'
  BY <1>1, <1>2, RateNumbers, ClockAssumption DEF RateInv, RateTypeOK, Time
<1> QED  BY <1>1, <1>3, <1>4, <1>5, RateNumbers DEF RateInv

LEMMA LoopInv ==
    ASSUME RateInv, NEW hasTelegram \in BOOLEAN, loop(hasTelegram)
    PROVE  /\ RateInv'
           /\ since' < since => since >= groupTelWaitMillis
           /\ hasTelegram /\ since >= groupTelWaitMillis => since' = 0
<1> DEFINE send == may /\ hasTelegram
           sent == IF send THEN systemTime ELSE groupTelSent
<1>1. /\ groupTelSent' = caughtUp(sent)
      /\ since' = IF send THEN 0 ELSE since
      /\ gap' = 0 /\ systemTime' = systemTime /\ groupTelWaitMillis' = groupTelWaitMillis
  BY DEF loop
<1>2. may <=> elapsed(groupTelSent) >= groupTelWaitMillis
  BY DEF may
<1>3. may <=> since >= groupTelWaitMillis
  BY <1>2, RateNumbers DEF RateInv
<1>4. sent \in 0 .. Wrap - 1 /\ systemTime \in 0 .. Wrap - 1
  BY DEF RateInv, RateTypeOK, Time
<1>5. elapsed(sent) = IF send THEN 0 ELSE elapsed(groupTelSent)
  BY <1>4, ClockAssumption DEF elapsed
<1>6. CASE elapsed(sent) >= 2 * Second
  <2>1. ~send /\ sent = groupTelSent /\ elapsed(sent) = elapsed(groupTelSent)
    BY <1>5, <1>6, RateNumbers DEF RateInv
  <2>2. groupTelSent' = (groupTelSent + Second) % Wrap
    BY <1>1, <1>6, <2>1 DEF caughtUp, Plus
  <2>3. elapsed(groupTelSent)' = elapsed(groupTelSent) - Second
    BY <1>1, <1>4, <1>6, <2>1, <2>2, RateNumbers DEF elapsed, RateInv
  <2>4. groupTelSent' \in Time
    BY <1>4, <2>1, <2>2, RateNumbers DEF Time, RateInv
  <2>5. since' = since /\ elapsed(groupTelSent) >= 2 * Second
    BY <1>1, <1>6, <2>1
  <2>6. elapsed(groupTelSent)' >= Second /\ since' >= Second
    BY <2>3, <2>5, RateNumbers DEF RateInv
  <2>7. elapsed(groupTelSent)' <= 2 * Second - 1 + gap'
    BY <1>1, <2>3, RateNumbers DEF RateInv
  <2>8. RateTypeOK'
    BY <1>1, <1>4, <2>4, <2>5, RateNumbers DEF RateInv, RateTypeOK, Time
  <2>9. hasTelegram /\ since >= groupTelWaitMillis => since' = 0
    BY <1>1, <1>3
  <2> QED  BY <2>5, <2>6, <2>7, <2>8, <2>9, RateNumbers DEF RateInv
<1>7. CASE elapsed(sent) < 2 * Second
  <2>1. groupTelSent' = sent /\ elapsed(groupTelSent)' = elapsed(sent)
    BY <1>1, <1>4, <1>5, <1>7, RateNumbers DEF caughtUp, elapsed, RateInv
  <2>2. RateTypeOK'
    BY <1>1, <1>4, <2>1, RateNumbers DEF RateInv, RateTypeOK, Time
  <2>3. elapsed(groupTelSent)' <= 2 * Second - 1 + gap'
    BY <1>1, <1>7, <2>1, <1>5, RateNumbers DEF RateInv
  <2>4. \/ elapsed(groupTelSent)' = since'
        \/ elapsed(groupTelSent)' >= Second /\ since' >= Second
    BY <1>1, <1>5, <2>1 DEF RateInv
  <2>5. since' < since => since >= groupTelWaitMillis
    BY <1>1, <1>3, RateNumbers DEF RateInv
  <2>6. hasTelegram /\ since >= groupTelWaitMillis => since' = 0
    BY <1>1, <1>3
  <2> QED  BY <2>2, <2>3, <2>4, <2>5, <2>6 DEF RateInv
<1>8. elapsed(sent) \in Nat
  BY <1>5, RateNumbers DEF RateInv
<1> QED  BY <1>6, <1>7, <1>8, RateNumbers DEF RateInv

LEMMA RateLimitInv ==
    ASSUME RateInv, NEW limit \in Limits \cup {DefaultWait}, setGroupTelRateLimit(limit)
    PROVE  RateInv' /\ since' = since
BY DEF RateInv, RateTypeOK, setGroupTelRateLimit, elapsed

LEMMA RateNextInv ==
    ASSUME RateInv, [RateNext]_rateVars
    PROVE  RateInv'
<1>1. CASE UNCHANGED rateVars
  BY <1>1 DEF rateVars, RateInv, RateTypeOK, elapsed
<1> QED  BY <1>1, RateTickInv, LoopInv, RateLimitInv DEF RateNext

\* The counter, groupTelSent and groupTelWaitMillis keep their types
\* (bcu_default.cpp).
THEOREM RateTypes == RateSpec => []RateTypeOK
<1>1. RateInv => RateTypeOK
  BY DEF RateInv
<1> QED  BY <1>1, RateInitInv, RateNextInv, PTL DEF RateSpec

LEMMA RateStep ==
    ASSUME RateInv, RateNext
    PROVE  /\ since' < since => since >= groupTelWaitMillis
           /\ loop(TRUE) /\ since >= groupTelWaitMillis => since' = 0
<1>1. since \in Nat /\ since' \in Nat
  BY RateNumbers, RateNextInv DEF RateInv, RateTypeOK
<1>2. RateTick => ~(since' < since)
  BY <1>1, RateTickInv
<1>3. ASSUME NEW hasTelegram \in BOOLEAN, loop(hasTelegram)
      PROVE  since' < since => since >= groupTelWaitMillis
  BY <1>3, LoopInv
<1>4. ASSUME NEW limit \in Limits \cup {DefaultWait}, setGroupTelRateLimit(limit)
      PROVE  since' < since => since >= groupTelWaitMillis
  BY <1>1, <1>4, RateLimitInv
<1>5. loop(TRUE) /\ since >= groupTelWaitMillis => since' = 0
  BY LoopInv
<1> QED  BY <1>2, <1>3, <1>4, <1>5 DEF RateNext

\* BcuDefault::loop() sends no group telegram before groupTelWaitMillis have
\* passed since the last one, and does not hold one back for longer, although
\* it moves groupTelSent forward so that it is never far in the past.
THEOREM GroupRateIsKept == RateSpec => RateKept
<1>1. RateInv /\ [RateNext]_rateVars =>
        [/\ since' < since => since >= groupTelWaitMillis
         /\ loop(TRUE) /\ since >= groupTelWaitMillis => since' = 0]_rateVars
  BY RateStep
<1> QED  BY <1>1, RateInitInv, RateNextInv, PTL DEF RateSpec, RateKept


-----------------------------------------------------------------------------
(* SysTick *)

\* Division by the length of a round, and by MaxMsec.
LEMMA Division ==
    ASSUME NEW a \in Int, NEW n \in Nat \ {0}
    PROVE  /\ a \div n \in Int /\ a % n \in 0 .. n - 1
           /\ a = n * (a \div n) + (a % n)
OBVIOUS

LEMMA QuotientUnique ==
    ASSUME NEW n \in Nat \ {0}, NEW q \in Int, NEW r \in 0 .. n - 1
    PROVE  (n * q + r) \div n = q /\ (n * q + r) % n = r
OBVIOUS

LEMMA Distributes ==
    ASSUME NEW a \in Nat, NEW b \in Nat, NEW n \in Nat
    PROVE  (a - b) * n = a * n - b * n
OBVIOUS

LEMMA Sums ==
    ASSUME NEW a \in Int, NEW b \in Int, NEW c \in Int, NEW d \in Int, NEW e \in Int,
           e >= b - d
    PROVE  e + ((a - b) - c) >= a - (c + d)
OBVIOUS

LEMMA DelayNumbers ==
    /\ Load \in Nat \ {0} /\ Round = Load + 1 /\ Round \in Nat \ {0, 1}
    /\ MaxMsec \in Nat \ {0} /\ MinClocks \in Nat /\ Longest = MaxMsec * Round
    /\ MinClocks < Longest /\ Longest \in Nat \ {0}
    /\ Wrap \in Nat \ {0, 1} /\ MaxSteal \in Nat \ {0}
BY DelayAssumption, ClockAssumption DEF Round, Longest

\* Whole rounds and the position in the last one add up to the clocks passed.
LEMMA ClocksPass ==
    ASSUME val \in 0 .. Load, NEW d \in Nat
    PROVE  /\ rounds(d) \in Nat
           /\ (val - d) % Round \in 0 .. Load
           /\ (val - d) % Round = val - d + rounds(d) * Round
<1> DEFINE x == Load - val + d
           q == x \div Round
           r == x % Round
<1>1. Load \in Nat \ {0} /\ Round = Load + 1 /\ Round \in Nat \ {0} /\ x \in Nat
  BY DelayNumbers
<1>2. rounds(d) = q /\ q \in Nat
  BY <1>1 DEF rounds
<1> HIDE DEF x
<1>3. r \in 0 .. Round - 1 /\ x = Round * q + r
  <2>1. x \in Int /\ Round \in Nat \ {0}
    BY <1>1
  <2> QED  BY <2>1, Division
<1> HIDE DEF q, r
<1> DEFINE p == -q
           s == Load - r
<1>4. p \in Int /\ s \in 0 .. Round - 1 /\ s \in 0 .. Load
  BY <1>1, <1>2, <1>3
<1>5. val - d = Round * p + s
  BY <1>1, <1>2, <1>3 DEF x
<1>6. s = val - d + q * Round
  BY <1>1, <1>2, <1>3 DEF x
<1> HIDE DEF p, s
<1>7. (Round * p + s) % Round = s
  BY <1>1, <1>4, QuotientUnique
<1> QED  BY <1>2, <1>4, <1>5, <1>6, <1>7

-----------------------------------------------------------------------------
(* The invariant *)

\* What the chunks that are still to be waited for add up to, at the least.
Chunks(ms) == (ms + MaxMsec - 1) \div MaxMsec
Rest(ms) == ms * Round - Chunks(ms) * MinClocks

LEMMA ChunksAre ==
    ASSUME NEW ms \in Nat
    PROVE  /\ Chunks(ms) \in Nat
           /\ ms = 0 => Chunks(ms) = 0
           /\ ms \in 1 .. MaxMsec => Chunks(ms) = 1
           /\ ms > MaxMsec => Chunks(ms) = Chunks(ms - MaxMsec) + 1
<1> DEFINE n == MaxMsec
<1>1. n \in Nat \ {0}
  BY DelayNumbers
<1> HIDE DEF n
<1>2. Chunks(ms) \in Nat
  BY DelayNumbers DEF Chunks
<1>3. ASSUME ms = 0 PROVE Chunks(ms) = 0
  <2>1. (n * 0 + (n - 1)) \div n = 0
    BY <1>1, QuotientUnique
  <2>2. ms + n - 1 = n * 0 + (n - 1)
    BY <1>1, <1>3
  <2> QED  BY <2>1, <2>2 DEF Chunks, n
<1>4. ASSUME ms \in 1 .. n PROVE Chunks(ms) = 1
  <2>1. (n * 1 + (ms - 1)) \div n = 1
    BY <1>1, <1>4, QuotientUnique
  <2>2. ms + n - 1 = n * 1 + (ms - 1)
    BY <1>1, <1>4
  <2> QED  BY <2>1, <2>2 DEF Chunks, n
<1>5. ASSUME ms > n PROVE Chunks(ms) = Chunks(ms - n) + 1
  <2> DEFINE x == (ms - n) + n - 1
             q == x \div n
             r == x % n
  <2>1. x \in Int
    BY <1>1
  <2>2. q \in Int /\ r \in 0 .. n - 1 /\ x = n * q + r
    <3> HIDE DEF x
    <3> QED  BY <1>1, <2>1, Division
  <2>3. ms + n - 1 = x + n
    BY <1>1
  <2>4. Chunks(ms - n) = q
    BY DEF Chunks, n
  <2> HIDE DEF x, q, r
  <2>5. x + n = n * (q + 1) + r
    BY <1>1, <2>2
  <2>6. (n * (q + 1) + r) \div n = q + 1
    BY <1>1, <2>2, QuotientUnique
  <2> QED  BY <2>3, <2>4, <2>5, <2>6 DEF Chunks, n
<1> QED  BY <1>2, <1>3, <1>4, <1>5 DEF n

\* delay() has seen no more ticks than rounds that have ended, and has one
\* more to see when its copy of systemTime is an old one.
LoopHasLasted ==
    spent + val >= asked + Round - msec * Round + (IF lastSystemTime = systemTime THEN 0 ELSE Round)

\* What has been waited for and what is still to be add up to what was asked.
MicrosHasLasted == spent + ticksToWait + Rest(msec) >= asked
ChunkHasLasted == spent + Rest(msec) >= asked

DelayInv ==
    /\ DelayTypeOK
    /\ delayPc = "idle" => msec = 0 /\ spent >= asked
    /\ delayPc \in {"loop", "WFI", "asleep"} => spent > asked \/ LoopHasLasted
    /\ delayPc = "chunk" => spent > asked \/ ChunkHasLasted
    /\ delayPc = "micros" => /\ lastSystemTickValue = val
                             /\ spent > asked \/ MicrosHasLasted

LEMMA DelayInitInv == DelayInit => DelayInv
<1> SUFFICES ASSUME DelayInit PROVE DelayInv
  OBVIOUS
<1>1. 0 \in Time /\ 0 \in 0 .. Load /\ 0 \in 0 .. Longest
  BY DelayNumbers DEF Time
<1>2. DelayTypeOK
  <2>1. val \in 0 .. Load /\ systemTime \in Time /\ lastSystemTime \in Time
    BY <1>1 DEF DelayInit
  <2>2. msec \in Nat /\ lastSystemTickValue \in 0 .. Load /\ ticksToWait \in 0 .. Longest
    BY <1>1 DEF DelayInit
  <2>3. asked \in Int /\ spent \in Nat /\ delayPc = "idle"
    BY DEF DelayInit
  <2>4. inside \in BOOLEAN
    BY DEF DelayInit
  <2> QED  BY <2>1, <2>2, <2>3, <2>4 DEF DelayTypeOK
<1>3. msec = 0 /\ spent >= asked /\ delayPc = "idle"
  BY DEF DelayInit
<1> QED  BY <1>2, <1>3 DEF DelayInv

LEMMA PassIs ==
    ASSUME DelayTypeOK, NEW d \in Nat \ {0}, Pass(d)
    PROVE  /\ val' \in 0 .. Load /\ systemTime' \in Time /\ spent' \in Nat
           /\ spent > asked => spent' > asked
           /\ spent <= asked => spent' = spent + d
           /\ val' >= val - d
           /\ spent' = spent + d /\ systemTime' # systemTime => spent' + val' >= spent + val + Round
           /\ spent' = spent + d => spent' + val' >= spent + val
           /\ elapsedTicks(val, val') \in Int /\ elapsedTicks(val, val') <= d
<1> DEFINE q == rounds(d)
<1>1. /\ q \in Nat /\ val' \in 0 .. Load /\ val' = val - d + q * Round
  BY ClocksPass DEF Pass, DelayTypeOK
<1>2. Load \in Nat \ {0} /\ Round = Load + 1 /\ Wrap \in Nat \ {0, 1}
  BY DelayNumbers
<1>3. /\ val \in 0 .. Load /\ spent \in Nat /\ asked \in Int /\ systemTime \in 0 .. Wrap - 1
  BY DEF DelayTypeOK, Time
<1>4. spent' = IF spent > asked THEN spent ELSE spent + d
  BY DEF Pass
<1>5. PICK n \in 0 .. q : /\ IF inside THEN n = 0 ELSE q > 0 => n > 0
                          /\ systemTime' = Plus(systemTime, n)
  BY DEF Pass
<1> HIDE DEF q
<1>6. systemTime' \in Time
  BY <1>1, <1>2, <1>3, <1>5 DEF Plus, Time
<1>7. q * Round \in Nat /\ (q > 0 => q * Round >= Round)
  BY <1>1, <1>2
<1>8. systemTime' # systemTime => q > 0
  <2>1. n = 0 => systemTime' = systemTime
    BY <1>2, <1>3, <1>5 DEF Plus
  <2> QED  BY <1>1, <1>5, <2>1
<1>9. elapsedTicks(val, val') \in Int /\ elapsedTicks(val, val') <= d
  <2>1. CASE q = 0
    BY <1>1, <1>2, <1>3, <2>1 DEF elapsedTicks
  <2>2. CASE q > 0
    BY <1>1, <1>2, <1>3, <1>7, <2>2 DEF elapsedTicks
  <2> QED  BY <1>1, <2>1, <2>2
<1> QED  BY <1>1, <1>2, <1>3, <1>4, <1>6, <1>7, <1>8, <1>9

-----------------------------------------------------------------------------
(* The calls *)

LEMMA DelayStarts ==
    ASSUME DelayInv, NEW isr \in BOOLEAN, NEW ms \in Msecs, delay(ms, isr)
    PROVE  DelayInv'
<1>1. /\ delayPc = "idle" /\ delayPc' = IF isr THEN "chunk" ELSE "loop"
      /\ msec' = ms /\ lastSystemTime' = systemTime /\ inside' = isr
      /\ asked' = IF isr THEN Rest(ms) ELSE (ms - 1) * Round
      /\ spent' = 0
      /\ UNCHANGED <<val, systemTime, ticksToWait, lastSystemTickValue>>
  BY DEF delay, Rest, Chunks, micros
<1>2. ms \in Nat /\ Chunks(ms) \in Nat
  BY ChunksAre, DelayAssumption
<1>3. Rest(ms) \in Int /\ (ms - 1) * Round \in Int /\ (ms - 1) * Round = ms * Round - Round
  BY <1>2, DelayNumbers DEF Rest
<1>4. DelayTypeOK'
  BY <1>1, <1>2, <1>3 DEF DelayInv, DelayTypeOK
<1>5. CASE isr
  <2>1. ChunkHasLasted'
    BY <1>1, <1>3, <1>5 DEF ChunkHasLasted, Rest, Chunks
  <2> QED  BY <1>1, <1>4, <1>5, <2>1 DEF DelayInv
<1>6. CASE ~isr
  <2>1. ms * Round \in Nat /\ Round \in Nat /\ val \in Nat
    BY <1>2, DelayNumbers DEF DelayInv, DelayTypeOK
  <2>2. LoopHasLasted'
    BY <1>1, <1>3, <1>6, <2>1 DEF LoopHasLasted, Round
  <2> QED  BY <1>1, <1>4, <1>6, <2>2 DEF DelayInv
<1> QED  BY <1>5, <1>6

LEMMA ClocksOf ==
    ASSUME NEW clocks \in 0 .. Longest
    PROVE  clocksOf(clocks) \in 1 .. Longest /\ clocksOf(clocks) >= clocks - MinClocks
BY DelayNumbers DEF clocksOf

LEMMA MicrosStart ==
    ASSUME DelayInv, NEW isr \in BOOLEAN, NEW clocks \in Waits, delayMicroseconds(clocks, isr)
    PROVE  DelayInv'
<1>1. /\ delayPc = "idle" /\ delayPc' = "micros"
      /\ ticksToWait' = clocksOf(clocks) /\ lastSystemTickValue' = val
      /\ inside' = isr /\ asked' = clocks - MinClocks /\ spent' = 0
      /\ UNCHANGED <<val, systemTime, msec, lastSystemTime>>
  BY DEF delayMicroseconds, StartMicros
<1>2. msec = 0 /\ DelayTypeOK
  BY <1>1 DEF DelayInv
<1>3. clocks \in 0 .. Longest /\ MinClocks \in Nat /\ Longest \in Nat
  BY DelayAssumption, DelayNumbers DEF Longest
<1>4. clocksOf(clocks) \in 1 .. Longest /\ clocksOf(clocks) >= clocks - MinClocks
  BY <1>3, ClocksOf
<1>5. DelayTypeOK'
  BY <1>1, <1>2, <1>3, <1>4 DEF DelayTypeOK
<1>6. Rest(0) = 0
  BY ChunksAre, DelayNumbers DEF Rest
<1>7. MicrosHasLasted'
  <2>1. Rest(msec') = 0
    BY <1>1, <1>2, <1>6
  <2>2. spent' + ticksToWait' + Rest(msec') >= asked'
    BY <1>1, <1>3, <1>4, <2>1
  <2> QED  BY <2>2 DEF MicrosHasLasted, Rest, Chunks, Round
<1> QED  BY <1>1, <1>5, <1>7 DEF DelayInv

-----------------------------------------------------------------------------
(* The loop of delay() *)

\* Clocks pass, and neither the call nor what it knows of the time changes.
LEMMA PassInLoop ==
    ASSUME DelayInv, LoopHasLasted \/ spent > asked, NEW d \in Nat \ {0}, Pass(d),
           UNCHANGED <<asked, msec, lastSystemTime>>
    PROVE  (LoopHasLasted \/ spent > asked)'
<1>1. DelayTypeOK
  BY DEF DelayInv
<1> DEFINE togo == msec * Round
<1>2. /\ val \in Nat /\ spent \in Nat /\ asked \in Int /\ Round \in Nat /\ togo \in Nat
      /\ val' \in Nat /\ spent' \in Nat
  BY <1>1, PassIs, DelayNumbers DEF DelayTypeOK
<1>3. CASE spent > asked
  BY <1>1, <1>3, PassIs
<1>4. CASE spent <= asked
  <2>1. spent + val >= asked + Round - togo + (IF lastSystemTime = systemTime THEN 0 ELSE Round)
    BY <1>2, <1>4 DEF LoopHasLasted
  <2>2. spent' = spent + d
    BY <1>1, <1>4, PassIs
  <2>3. /\ spent' + val' >= spent + val
        /\ systemTime' # systemTime => spent' + val' >= spent + val + Round
    BY <1>1, <2>2, PassIs
  <2>4. msec' * Round = togo
    OBVIOUS
  <2> HIDE DEF togo
  <2>5. spent' + val' >= asked + Round - togo + (IF lastSystemTime = systemTime' THEN 0 ELSE Round)
    <3> DEFINE before == IF lastSystemTime = systemTime THEN 0 ELSE Round
               later == IF lastSystemTime = systemTime' THEN 0 ELSE Round
    <3>1. /\ before \in Nat /\ later \in Nat /\ later <= Round
          /\ later <= before \/ systemTime' # systemTime
      BY <1>2
    <3> DEFINE x == asked + Round - togo
               y == spent + val
               z == spent' + val'
    <3>2. y >= x + before
      BY <2>1
    <3>3. x \in Int /\ y \in Int /\ z \in Int
      BY <1>2
    <3>4. z >= y /\ (systemTime' # systemTime => z >= y + Round)
      BY <2>3
    <3>5. z >= x + later
      <4> HIDE DEF before, later, x, y, z
      <4>1. CASE systemTime' # systemTime
        BY <1>2, <3>1, <3>2, <3>3, <3>4, <4>1
      <4>2. CASE systemTime' = systemTime
        BY <1>2, <3>1, <3>2, <3>3, <3>4, <4>2
      <4> QED  BY <4>1, <4>2
    <3> QED  BY <3>5
  <2> QED  BY <2>4, <2>5 DEF LoopHasLasted, Round
<1> QED  BY <1>2, <1>3, <1>4

LEMMA WaitInv ==
    ASSUME DelayInv, wait
    PROVE  DelayInv'
<1>1. PICK d \in Clocks : Pass(d)
  BY DEF wait
<1>2. d \in Nat \ {0} /\ DelayTypeOK
  BY DelayNumbers DEF Clocks, DelayInv
<1>3. /\ delayPc = "loop" /\ msec > 0
      /\ UNCHANGED <<asked, inside, ticksToWait, lastSystemTickValue>>
  BY DEF wait, callVars, micros
<1>4. LoopHasLasted \/ spent > asked
  BY <1>3 DEF DelayInv
<1>5. CASE lastSystemTime = systemTime
  <2>1. delayPc' = "WFI" /\ UNCHANGED <<msec, lastSystemTime>>
    BY <1>5 DEF wait
  <2>2. (LoopHasLasted \/ spent > asked)'
    BY <1>1, <1>2, <1>3, <1>4, <2>1, PassInLoop
  <2>3. DelayTypeOK'
    BY <1>1, <1>2, <1>3, <2>1, PassIs DEF DelayTypeOK
  <2> QED  BY <2>1, <2>2, <2>3 DEF DelayInv
<1>6. CASE lastSystemTime # systemTime
  <2>1. delayPc' = "loop" /\ lastSystemTime' = systemTime /\ msec' = msec - 1
    BY <1>3, <1>6 DEF wait
  <2>2. DelayTypeOK'
    BY <1>1, <1>2, <1>3, <2>1, PassIs DEF DelayTypeOK
  <2> DEFINE togo == msec * Round
  <2>3. msec' * Round = togo - Round
    BY <1>2, <2>1, DelayNumbers DEF DelayTypeOK
  <2>4. /\ val \in Nat /\ spent \in Nat /\ asked \in Int /\ Round \in Nat /\ togo \in Nat
        /\ val' \in Nat /\ spent' \in Nat
    BY <1>1, <1>2, PassIs, DelayNumbers DEF DelayTypeOK
  <2>5. CASE spent > asked
    <3>1. (spent > asked)'
      BY <1>1, <1>2, <1>3, <2>5, PassIs
    <3> QED  BY <2>1, <2>2, <3>1 DEF DelayInv
  <2>6. CASE spent <= asked
    <3>1. spent + val >= asked + Round - togo + Round
      BY <1>4, <1>6, <2>4, <2>6 DEF LoopHasLasted
    <3>2. spent' = spent + d
      BY <1>1, <1>2, <2>6, PassIs
    <3>3. /\ spent' + val' >= spent + val
          /\ systemTime' # systemTime => spent' + val' >= spent + val + Round
      BY <1>1, <1>2, <3>2, PassIs
    <3> HIDE DEF togo
    <3>4. spent' + val' >= asked + Round - (togo - Round) + (IF systemTime = systemTime' THEN 0 ELSE Round)
      <4> DEFINE later == IF systemTime = systemTime' THEN 0 ELSE Round
      <4>1. later \in Nat /\ later <= Round /\ (later = 0 \/ systemTime' # systemTime)
        BY <2>4
      <4> DEFINE x == asked + Round - togo
                 x2 == asked + Round - (togo - Round)
                 y == spent + val
                 z == spent' + val'
      <4>2. x \in Int /\ x2 \in Int /\ x2 = x + Round /\ y \in Int /\ z \in Int
        BY <2>4
      <4>3. y >= x2
        BY <3>1, <4>2
      <4>4. z >= y /\ (systemTime' # systemTime => z >= y + Round)
        BY <3>3
      <4>5. z >= x2 + later
        <5> HIDE DEF later, x, x2, y, z
        <5>1. CASE systemTime' # systemTime
          BY <2>4, <4>1, <4>2, <4>3, <4>4, <5>1
        <5>2. CASE systemTime' = systemTime
          BY <2>4, <4>1, <4>2, <4>3, <4>4, <5>2
        <5> QED  BY <5>1, <5>2
      <4> QED  BY <4>5
    <3>5. LoopHasLasted'
      BY <1>3, <2>1, <2>3, <3>4 DEF LoopHasLasted, Round
    <3> QED  BY <2>1, <2>2, <3>5 DEF DelayInv
  <2> QED  BY <2>4, <2>5, <2>6
<1> QED  BY <1>5, <1>6

LEMMA SleepInv ==
    ASSUME DelayInv, sleep \/ wake
    PROVE  DelayInv'
<1>1. DelayTypeOK
  BY DEF DelayInv
<1>2. \E d \in Nat \ {0} : Pass(d)
  BY <1>1, DelayNumbers DEF sleep, wake, Clocks, DelayTypeOK
<1>3. PICK d \in Nat \ {0} : Pass(d)
  BY <1>2
<1>4. /\ delayPc \in {"WFI", "asleep"} /\ delayPc' \in {"asleep", "loop"}
      /\ UNCHANGED <<asked, inside, msec, lastSystemTime, ticksToWait, lastSystemTickValue>>
  BY DEF sleep, wake, callVars, micros
<1>5. (LoopHasLasted \/ spent > asked)'
  BY <1>3, <1>4, PassInLoop DEF DelayInv
<1>6. DelayTypeOK'
  BY <1>1, <1>3, <1>4, PassIs DEF DelayTypeOK
<1> QED  BY <1>4, <1>5, <1>6 DEF DelayInv

LEMMA ReturnInv ==
    ASSUME DelayInv, return
    PROVE  DelayInv'
<1>1. /\ delayPc = "loop" /\ msec = 0 /\ delayPc' = "idle"
      /\ UNCHANGED <<val, systemTime, asked, inside, msec, lastSystemTime, ticksToWait,
                     lastSystemTickValue, spent>>
  BY DEF return, callVars, micros
<1>2. DelayTypeOK
  BY DEF DelayInv
<1>3. DelayTypeOK'
  BY <1>1, <1>2 DEF DelayTypeOK
<1>4. spent >= asked
  <2>1. spent > asked \/ LoopHasLasted
    BY <1>1 DEF DelayInv
  <2>2. msec * Round = 0 /\ val \in 0 .. Load /\ Round = Load + 1 /\ Load \in Nat
        /\ spent \in Nat /\ asked \in Int
    BY <1>1, <1>2, DelayNumbers DEF DelayTypeOK
  <2> QED  BY <2>1, <2>2 DEF LoopHasLasted
<1> QED  BY <1>1, <1>3, <1>4 DEF DelayInv

-----------------------------------------------------------------------------
(* The loops of an interrupt and of delayMicroseconds() *)

LEMMA ChunkInv ==
    ASSUME DelayInv, chunk
    PROVE  DelayInv'
<1> DEFINE ms == IF msec > MaxMsec THEN MaxMsec ELSE msec
           clocks == ms * Round
<1>1. /\ delayPc = "chunk" /\ delayPc' = "micros"
      /\ msec' = msec - ms
      /\ ticksToWait' = clocksOf(clocks) /\ lastSystemTickValue' = val
      /\ UNCHANGED <<val, systemTime, spent, asked, inside, lastSystemTime>>
  BY DEF chunk, callVars, StartMicros
<1>2. DelayTypeOK
  BY DEF DelayInv
<1>3. msec \in Nat /\ ms \in 0 .. MaxMsec /\ msec - ms \in Nat /\ MaxMsec \in Nat \ {0}
  BY <1>2, DelayNumbers DEF DelayTypeOK
<1>4. clocks \in 0 .. Longest
  <2> HIDE DEF ms
  <2> QED  BY <1>3, DelayNumbers
<1>5. clocksOf(clocks) \in 1 .. Longest /\ clocksOf(clocks) >= clocks - MinClocks
  <2> HIDE DEF clocks
  <2> QED  BY <1>4, ClocksOf
<1>6. DelayTypeOK'
  BY <1>1, <1>2, <1>3, <1>5, DelayNumbers DEF DelayTypeOK
<1>7. Chunks(msec) = Chunks(msec - ms) + (IF msec = 0 THEN 0 ELSE 1)
  <2>1. CASE msec = 0
    <3>2. ms = 0
      BY <2>1, DelayNumbers
    <3>1. msec - ms = 0 /\ Chunks(0) = 0
      BY <2>1, <3>2, ChunksAre
    <3> QED  BY <2>1, <3>1
  <2>2. CASE msec \in 1 .. MaxMsec
    <3>1. msec - ms = 0 /\ Chunks(msec) = 1 /\ Chunks(0) = 0
      BY <1>3, <2>2, ChunksAre
    <3> QED  BY <2>2, <3>1
  <2>3. CASE msec > MaxMsec
    BY <1>3, <2>3, ChunksAre
  <2> QED  BY <1>3, <2>1, <2>2, <2>3
<1>8. ticksToWait' + Rest(msec - ms) >= Rest(msec)
  <2>1. CASE msec = 0
    <3>1. ms = 0 /\ ticksToWait' \in Nat
      BY <1>6, <2>1, DelayNumbers DEF DelayTypeOK
    <3>2. Rest(msec - ms) = 0 /\ Rest(msec) = 0
      BY <2>1, <3>1, ChunksAre, DelayNumbers DEF Rest
    <3> QED  BY <3>1, <3>2
  <2>2. CASE msec # 0
    <3>1. /\ Chunks(msec) = Chunks(msec - ms) + 1 /\ Chunks(msec - ms) \in Nat
          /\ MinClocks \in Nat /\ Round \in Nat
      BY <1>3, <1>7, <2>2, ChunksAre, DelayNumbers
    <3> DEFINE whole == msec * Round
               lostLater == Chunks(msec - ms) * MinClocks
    <3>2. (msec - ms) * Round = whole - clocks
      <4> HIDE DEF ms
      <4> QED  BY <1>3, <3>1, Distributes
    <3>3. Chunks(msec) * MinClocks = lostLater + MinClocks
      BY <3>1
    <3>4. Rest(msec) = whole - (lostLater + MinClocks) /\ Rest(msec - ms) = (whole - clocks) - lostLater
      BY <3>2, <3>3 DEF Rest
    <3>5. whole \in Int /\ clocks \in Int /\ lostLater \in Int /\ ticksToWait' \in Int /\ MinClocks \in Int
      BY <1>3, <1>4, <1>6, <3>1, DelayNumbers DEF DelayTypeOK
    <3>6. ticksToWait' >= clocks - MinClocks
      BY <1>1, <1>5
    <3> HIDE DEF ms, clocks, whole, lostLater
    <3>7. ticksToWait' + ((whole - clocks) - lostLater) >= whole - (lostLater + MinClocks)
      BY <3>5, <3>6, Sums
    <3> QED  BY <3>4, <3>7
  <2> QED  BY <2>1, <2>2
<1> HIDE DEF ms
<1>9. spent > asked \/ MicrosHasLasted'
  <2>1. Rest(msec) \in Int /\ Rest(msec - ms) \in Int /\ spent \in Nat /\ asked \in Int
        /\ ticksToWait' \in Nat
    BY <1>2, <1>3, <1>6, ChunksAre, DelayNumbers DEF Rest, DelayTypeOK
  <2>2. spent > asked \/ spent + Rest(msec) >= asked
    BY <1>1 DEF DelayInv, ChunkHasLasted
  <2>3. spent > asked \/ spent + ticksToWait' + Rest(msec - ms) >= asked
    BY <1>8, <2>1, <2>2
  <2> QED  BY <1>1, <2>3 DEF MicrosHasLasted, Rest, Chunks, Round
<1> QED  BY <1>1, <1>6, <1>9 DEF DelayInv

LEMMA PollInv ==
    ASSUME DelayInv, poll
    PROVE  DelayInv'
<1>1. PICK d \in Clocks : Pass(d)
  BY DEF poll
<1> DEFINE togo == ticksToWait - elapsedTicks(lastSystemTickValue, val')
<1>2. /\ delayPc = "micros"
      /\ IF togo > 0
         THEN delayPc' = delayPc /\ ticksToWait' = togo /\ lastSystemTickValue' = val'
         ELSE /\ delayPc' = IF msec > 0 THEN "chunk" ELSE "idle"
              /\ ticksToWait' = 0 /\ lastSystemTickValue' = 0
      /\ UNCHANGED <<asked, inside, msec, lastSystemTime>>
  BY DEF poll, callVars
<1>3. DelayTypeOK /\ d \in Nat \ {0} /\ lastSystemTickValue = val
  BY <1>2, DelayNumbers DEF DelayInv, Clocks
<1>4. /\ togo \in Int /\ togo >= ticksToWait - d
      /\ ticksToWait \in 0 .. Longest /\ Longest \in Nat
  BY <1>1, <1>3, PassIs, DelayNumbers DEF DelayTypeOK
<1>5. elapsedTicks(lastSystemTickValue, val') \in Nat
  BY <1>1, <1>3, PassIs, DelayNumbers DEF DelayTypeOK, elapsedTicks
<1>6. togo <= ticksToWait
  BY <1>4, <1>5 DEF DelayTypeOK
<1> HIDE DEF togo
<1>7. DelayTypeOK'
  <2>1. ticksToWait' \in 0 .. Longest
    BY <1>2, <1>4, <1>6
  <2>2. lastSystemTickValue' \in 0 .. Load
    BY <1>1, <1>2, <1>3, PassIs, DelayNumbers
  <2>3. delayPc' \in {"micros", "chunk", "idle"}
    BY <1>2
  <2> QED  BY <1>1, <1>2, <1>3, <2>1, <2>2, <2>3, PassIs DEF DelayTypeOK
<1>8. /\ Rest(msec) \in Int /\ spent \in Nat /\ asked \in Int /\ spent' \in Nat
      /\ msec \in Nat /\ Rest(0) = 0
  BY <1>1, <1>3, PassIs, ChunksAre, DelayNumbers DEF Rest, DelayTypeOK
<1>9. spent' > asked \/ spent' + (IF togo > 0 THEN togo ELSE 0) + Rest(msec) >= asked
  <2>1. CASE spent > asked
    BY <1>1, <1>3, <2>1, PassIs
  <2>2. CASE spent <= asked
    <3>1. spent + ticksToWait + Rest(msec) >= asked
      BY <1>2, <1>8, <2>2 DEF DelayInv, MicrosHasLasted
    <3>2. spent' = spent + d
      BY <1>1, <1>3, <2>2, PassIs
    <3> QED  BY <1>3, <1>4, <1>8, <3>1, <3>2
  <2> QED  BY <1>8, <2>1, <2>2
<1>10. CASE togo > 0
  <2>1. delayPc' = "micros" /\ ticksToWait' = togo /\ lastSystemTickValue' = val' /\ msec' = msec /\ asked' = asked
    BY <1>2, <1>10
  <2>2. (spent > asked \/ MicrosHasLasted)'
    BY <1>9, <1>10, <2>1 DEF MicrosHasLasted, Rest, Chunks, Round
  <2> QED  BY <1>7, <2>1, <2>2 DEF DelayInv
<1>11. CASE ~(togo > 0)
  <2>1. delayPc' = (IF msec > 0 THEN "chunk" ELSE "idle") /\ msec' = msec /\ asked' = asked
    BY <1>2, <1>11
  <2>2. spent' > asked \/ spent' + Rest(msec) >= asked
    BY <1>8, <1>9, <1>11
  <2>3. CASE msec > 0
    <3>1. (spent > asked \/ ChunkHasLasted)'
      BY <2>1, <2>2 DEF ChunkHasLasted, Rest, Chunks, Round
    <3> QED  BY <1>7, <2>1, <2>3, <3>1 DEF DelayInv
  <2>4. CASE msec = 0
    <3>1. spent' >= asked
      BY <1>8, <2>2, <2>4
    <3> QED  BY <1>7, <2>1, <2>4, <3>1 DEF DelayInv
  <2> QED  BY <1>8, <2>3, <2>4
<1> QED  BY <1>10, <1>11

LEMMA DelayNextInv ==
    ASSUME DelayInv, [DelayNext]_delayVars
    PROVE  DelayInv'
<1>1. CASE UNCHANGED delayVars
  BY <1>1 DEF delayVars, micros, DelayInv, DelayTypeOK, LoopHasLasted, MicrosHasLasted,
     ChunkHasLasted, Rest, Chunks, Round
<1>2. CASE Calls
  BY <1>2, DelayStarts, MicrosStart DEF Calls
<1>3. CASE Body
  BY <1>3, WaitInv, SleepInv, ChunkInv, PollInv, ReturnInv DEF Body
<1> QED  BY <1>1, <1>2, <1>3 DEF DelayNext

LEMMA DelayInvariant == DelaySpec => []DelayInv
BY DelayInitInv, DelayNextInv, PTL DEF DelaySpec

\* The types; what is left to be waited for never becomes negative.
THEOREM DelayTypes == DelaySpec => []DelayTypeOK
<1>1. DelayInv => DelayTypeOK
  BY DEF DelayInv
<1> QED  BY <1>1, DelayInvariant, PTL

\* No call of delay() or delayMicroseconds() returns early, whatever the
\* length of a round, and however many clocks other interrupts take.
THEOREM DelaysLastLongEnough == DelaySpec => []LastsLongEnough
<1>1. DelayInv => LastsLongEnough
  BY DEF DelayInv, LastsLongEnough
<1> QED  BY <1>1, DelayInvariant, PTL

=============================================================================

--------------------------- MODULE SerialService ---------------------------
(***************************************************************************)
(* What a serial port promises (sblib/inc/sblib/serial.h): the bytes that  *)
(* write() has accepted go out in their order, each of them once; the bytes *)
(* that came in are read in their order, and when some are lost it is the  *)
(* newest, for want of room.  Closing the port forgets both.               *)
(***************************************************************************)
EXTENDS Naturals, Sequences

CONSTANTS
    Byte,           \* the bytes that are written and received
    NoByte,         \* nothing
    Capacity        \* bytes that find room before any is lost

VARIABLES
    pending,        \* accepted by write(), not yet on the line
    line,           \* the last byte that went out
    arrived,        \* came in, not yet read
    given           \* the last byte that read() returned

sVars == <<pending, line, arrived, given>>

SInit ==
    /\ pending = <<>> /\ arrived = <<>>
    /\ line = NoByte /\ given = NoByte

Accept ==
    /\ \E b \in Byte : pending' = Append(pending, b)
    /\ UNCHANGED <<line, arrived, given>>

Transmit ==
    /\ pending # <<>>
    /\ line' = Head(pending)
    /\ pending' = Tail(pending)
    /\ UNCHANGED <<arrived, given>>

Arrive ==
    /\ \E b \in Byte : arrived' = Append(arrived, b)
    /\ UNCHANGED <<pending, line, given>>

Lose ==
    /\ \E n \in Capacity .. Len(arrived) - 1 : arrived' = SubSeq(arrived, 1, n)
    /\ UNCHANGED <<pending, line, given>>

Deliver ==
    /\ arrived # <<>>
    /\ given' = Head(arrived)
    /\ arrived' = Tail(arrived)
    /\ UNCHANGED <<pending, line>>

Close ==
    /\ pending' = <<>>
    /\ arrived' = <<>>
    /\ UNCHANGED <<line, given>>

SNext == Accept \/ Transmit \/ Arrive \/ Lose \/ Deliver \/ Close

Service == SInit /\ [][SNext]_sVars

=============================================================================

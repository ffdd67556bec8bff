----------------------------- MODULE MCPartners -----------------------------
(***************************************************************************)
(* Model checking two partners of one conversation: the client and the     *)
(* transport layer of a device (Connection), and the sender and the        *)
(* receiver of one telegram on the line (BusLink).  The two parts share     *)
(* nothing: a behaviour belongs to one of them, and the other one does not  *)
(* move.                                                                   *)
(***************************************************************************)
EXTENDS Connection, BusLink

CONSTANTS c1, c2, o1

MCRemotes == {Client}
MCApdus == 1 .. MaxRequests

VARIABLE part

partnersVars == <<part, connectionVars, linkVars>>

PartnersInit ==
    /\ part \in {"connection", "link"}
    /\ ConnectionInit /\ LinkInit

PartnersNext ==
    \/ part = "connection" /\ ConnectionNext /\ UNCHANGED <<part, linkVars>>
    \/ part = "link" /\ LinkNext /\ UNCHANGED <<part, connectionVars>>

PartnersSpec ==
    /\ PartnersInit /\ [][PartnersNext]_partnersVars
    /\ part = "connection" => ConnectionFairness

\* In every conversation of a client it gets its answers in the end, and the
\* device keeps no connection that nobody uses, however the connection breaks.
EveryClientIsServed == part = "connection" => ClientIsServed /\ ConnectionEnds

=============================================================================

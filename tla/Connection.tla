------------------------------ MODULE Connection ------------------------------
(***************************************************************************)
(* A management client and the transport layer of a device, end to end: the *)
(* client opens a connection, sends numbered requests and wants an answer   *)
(* to each.  TLayer4 is the device; its partner here is not arbitrary but   *)
(* keeps the protocol.  Telegrams are lost or arrive twice, and either side *)
(* restarts without a word to the other.                                    *)
(*                                                                         *)
(* The client is a library outside this repository; it follows the same     *)
(* state machine as the device (KNX "Style 3").                             *)
(***************************************************************************)
EXTENDS TLayer4, Sequences, FiniteSets, Functions

CONSTANTS
    Client,        \* the individual address of the client
    MaxRequests,   \* bound: requests the client makes; Apdus is 1 .. MaxRequests
    Wanted,        \* answers after which the client has what it wants
    Window,        \* requests the client makes before it has their answers
    Prompt,        \* telegrams take no time compared with the timeouts
    MaxFaults,     \* bound: telegrams lost or doubled
    MaxRestarts,   \* bound: restarts of the device
    MaxCrashes     \* bound: restarts of the client

ASSUME ClientAssumption ==
    /\ Remotes = {Client} /\ Apdus = 1 .. MaxRequests
    /\ {MaxRequests, Wanted, Window} \subseteq Nat \ {0}
    /\ {MaxFaults, MaxRestarts, MaxCrashes} \subseteq Nat
    /\ Prompt \in BOOLEAN

VARIABLES
    connected,     \* the client has a connection
    clSend, clRcv, \* its sequence numbers
    waiting,       \* it waits for the T_ACK of request made
    clRep,         \* repetitions of that request
    made,          \* requests it has made
    first,         \* the first request of this connection
    clean,         \* the device had none left when the client opened it
    toDevice, toClient,          \* telegrams on their way
    served,        \* the requests the device processed
    acknowledged,  \* the requests of this connection with a T_ACK
    answers,       \* the answers in this connection
    got,           \* all answers
    faults, restarts, crashes

clientVars == <<connected, clSend, clRcv, waiting, clRep, made, first, clean>>
history == <<acknowledged, answers, got>>
faultVars == <<faults, restarts, crashes>>
connectionVars ==
    <<vars, clientVars, toDevice, toClient, served, history, faultVars>>

Ids == 1 .. MaxRequests
Request == Data(Client, clSend, made)

ConnectionTypeOK ==
    /\ TypeOK
    /\ {connected, waiting, clean} \subseteq BOOLEAN
    /\ {clSend, clRcv} \subseteq SeqNo
    /\ clRep \in 0 .. MaxRep
    /\ made \in 0 .. MaxRequests /\ first \in 1 .. MaxRequests + 1
    /\ \A i \in DOMAIN toDevice : toDevice[i] \in Received(Client)
    /\ \A i \in DOMAIN toClient : toClient[i] \in Telegram
    /\ acknowledged \subseteq Ids /\ got \in Nat
    /\ faults \in 0 .. MaxFaults /\ restarts \in 0 .. MaxRestarts /\ crashes \in 0 .. MaxCrashes

ConnectionInit ==
    /\ Init
    /\ connected = FALSE /\ waiting = FALSE
    /\ clSend = 0 /\ clRcv = 0 /\ clRep = 0
    /\ made = 0 /\ first = 1 /\ clean = TRUE
    /\ toDevice = << >> /\ toClient = << >>
    /\ served = << >> /\ acknowledged = {} /\ answers = << >> /\ got = 0
    /\ faults = 0 /\ restarts = 0 /\ crashes = 0

-----------------------------------------------------------------------------
(* The client *)

Unanswered == (first .. made) \ Range(answers)
Done == got >= Wanted

MayRequest ==
    /\ connected /\ ~waiting /\ ~Done
    /\ made < MaxRequests /\ Cardinality(Unanswered) < Window

\* Nothing is on its way, and neither side has anything to send: time passes.
Settled == toDevice = << >> /\ toClient = << >> /\ sendBuf = "FREE"
Quiet == Settled /\ ~ReadyToSend /\ ~ConnectionTimedOut /\ ~AckTimedOut
TimePasses == Prompt => Quiet /\ ~MayRequest

Say(t) == toDevice' = Append(toDevice, t)
Close ==
    /\ Say(Plain(Client, "DISCONNECT"))
    /\ connected' = FALSE /\ waiting' = FALSE

\* A client that connects again does so after what was on its way arrived:
\* a T_ACK does not tell of which connection it is.
ClientConnects ==
    /\ ~connected /\ ~Done /\ made < MaxRequests
    /\ Settled /\ TimePasses
    /\ Say(Plain(Client, "CONNECT"))
    /\ connected' = TRUE /\ first' = made + 1 /\ clean' = ~open
    /\ clSend' = 0 /\ clRcv' = 0
    /\ acknowledged' = {} /\ answers' = << >>
    /\ UNCHANGED <<vars, waiting, clRep, made, toClient, served, got, faultVars>>

ClientRequests ==
    /\ MayRequest
    /\ made' = made + 1 /\ waiting' = TRUE /\ clRep' = 0
    /\ Say(Data(Client, clSend, made'))
    /\ UNCHANGED <<vars, connected, clSend, clRcv, first, clean, toClient, served, history, faultVars>>

\* No T_ACK: the request is repeated, at most MaxRep times; then, or when an
\* answer does not come, the client closes the connection.
ClientTimesOut ==
    /\ connected /\ TimePasses
    /\ \/ /\ waiting /\ clRep < MaxRep
          /\ clRep' = clRep + 1
          /\ Say(Request)
          /\ UNCHANGED <<connected, waiting>>
       \/ /\ IF waiting THEN clRep = MaxRep ELSE Unanswered # {} \/ made = MaxRequests \/ Done
          /\ Close
          /\ UNCHANGED clRep
    /\ UNCHANGED <<vars, clSend, clRcv, made, first, clean, toClient, served, history, faultVars>>

ReceivesAck(t) ==
    /\ t.tpci = "ACK"
    /\ \/ /\ waiting /\ t.seq = clSend
          /\ waiting' = FALSE /\ clSend' = Inc(clSend)
          /\ acknowledged' = acknowledged \cup {made}
          /\ UNCHANGED <<connected, clRep, toDevice>>
       \/ /\ waiting /\ t.seq # clSend
          /\ Close
          /\ UNCHANGED <<clSend, clRep, acknowledged>>
       \/ /\ ~waiting
          /\ UNCHANGED <<connected, waiting, clSend, clRep, acknowledged, toDevice>>
    /\ UNCHANGED <<clRcv, answers, got>>

ReceivesNack(t) ==
    /\ t.tpci = "NACK"
    /\ \/ /\ t.seq = clSend /\ waiting /\ clRep < MaxRep
          /\ clRep' = clRep + 1
          /\ Say(Request)
          /\ UNCHANGED <<connected, waiting>>
       \/ /\ t.seq = clSend /\ ~(waiting /\ clRep < MaxRep)
          /\ Close
          /\ UNCHANGED clRep
       \/ /\ t.seq # clSend
          /\ UNCHANGED <<connected, waiting, clRep, toDevice>>
    /\ UNCHANGED <<clSend, clRcv, history>>

ReceivesAnswer(t) ==
    /\ t.tpci = "DATA"
    /\ LET expected == t.seq = clRcv
           repeated == t.seq = Dec(clRcv) IN
       /\ Say(Ack(Client, IF expected \/ repeated THEN "ACK" ELSE "NACK", t.seq))
       /\ clRcv' = IF expected THEN Inc(clRcv) ELSE clRcv
       /\ answers' = IF expected THEN Append(answers, t.apdu) ELSE answers
       /\ got' = IF expected THEN got + 1 ELSE got
    /\ UNCHANGED <<connected, waiting, clSend, clRep, acknowledged>>

ReceivesDisconnect(t) ==
    /\ t.tpci = "DISCONNECT"
    /\ connected' = FALSE /\ waiting' = FALSE
    /\ UNCHANGED <<clSend, clRcv, clRep, toDevice, history>>

ClientReceives ==
    /\ toClient # << >>
    /\ toClient' = Tail(toClient)
    /\ LET t == Head(toClient) IN
       IF connected
       THEN ReceivesAck(t) \/ ReceivesNack(t) \/ ReceivesAnswer(t) \/ ReceivesDisconnect(t)
       ELSE UNCHANGED <<connected, waiting, clSend, clRcv, clRep, toDevice, history>>
    /\ UNCHANGED <<vars, made, first, clean, served, faultVars>>

ClientCrashes ==
    /\ connected /\ crashes < MaxCrashes
    /\ crashes' = crashes + 1
    /\ connected' = FALSE /\ waiting' = FALSE
    /\ toClient' = << >>
    /\ UNCHANGED <<vars, clSend, clRcv, clRep, made, first, clean, toDevice, served,
                   history, faults, restarts>>

-----------------------------------------------------------------------------
(* The bus and the device *)

Fault == faults < MaxFaults /\ faults' = faults + 1
NoFault == UNCHANGED faults
Unharmed == UNCHANGED <<clientVars, history, restarts, crashes>>

\* The device processes the telegram; every request has an answer.  A
\* telegram the bus repeats, because its link layer acknowledgement was
\* lost, is there once more.
DeviceReceives ==
    /\ toDevice # << >>
    /\ LET t == Head(toDevice) IN
       /\ processTelegram(t, TRUE)
       /\ served' = IF Accepts(t) THEN Append(served, t.apdu) ELSE served
    /\ \/ NoFault /\ toDevice' = Tail(toDevice)
       \/ Fault /\ UNCHANGED toDevice
    /\ UNCHANGED toClient /\ Unharmed

LosesTelegram ==
    /\ toDevice # << >> /\ Fault
    /\ toDevice' = Tail(toDevice)
    /\ UNCHANGED <<vars, toClient, served>> /\ Unharmed

\* The bus has sent a telegram of the device, or reports that it could not:
\* then the client may have it all the same.
DeviceSends ==
    /\ \E successful \in BOOLEAN :
        /\ finishedSendingTelegram(successful)
        /\ IF successful THEN NoFault ELSE Fault
        /\ \/ toClient' = Append(toClient, sendTel)
           \/ ~successful /\ UNCHANGED toClient
    /\ UNCHANGED <<toDevice, served>> /\ Unharmed

DeviceLoop ==
    /\ sendBuf = "FREE" /\ loop
    /\ UNCHANGED <<toDevice, toClient, served, faults>> /\ Unharmed

DeviceTick ==
    /\ open /\ TimePasses /\ Tick
    /\ UNCHANGED <<toDevice, toClient, served, faults>> /\ Unharmed

DeviceRestarts ==
    /\ restarts < MaxRestarts /\ restarts' = restarts + 1
    /\ state' = "CLOSED" /\ connectedAddr' = NoAddr
    /\ seqNoSend' = -1 /\ seqNoRcv' = -1
    /\ repCount' = 0 /\ conCtrlRepCount' = 0
    /\ sendBuf' = "FREE" /\ buf1State' = "FREE" /\ buf2State' = "FREE"
    /\ UNCHANGED <<sendTel, buf1, buf2, connAge, ackAge>>
    /\ UNCHANGED <<clientVars, toDevice, toClient, served, history, faults, crashes>>

ClientSteps == ClientConnects \/ ClientRequests \/ ClientTimesOut \/ ClientReceives
DeviceSteps == DeviceReceives \/ DeviceSends \/ DeviceLoop \/ DeviceTick

ConnectionNext ==
    \/ ClientSteps
    \/ DeviceSteps
    \/ LosesTelegram
    \/ ClientCrashes
    \/ DeviceRestarts

ConnectionSpec == ConnectionInit /\ [][ConnectionNext]_connectionVars

\* Telegrams arrive in the end, the main loop of the device runs again and
\* again, and the client does not stop before it has what it wants.
ConnectionFairness ==
    /\ WF_connectionVars(ClientConnects)
    /\ WF_connectionVars(ClientRequests)
    /\ WF_connectionVars(ClientTimesOut)
    /\ WF_connectionVars(ClientReceives)
    /\ WF_connectionVars(DeviceReceives)
    /\ WF_connectionVars(DeviceSends)
    /\ WF_connectionVars(DeviceLoop)
    /\ WF_connectionVars(DeviceTick)

-----------------------------------------------------------------------------
(* Properties *)

Increasing(s) == \A i, j \in DOMAIN s : i < j => s[i] < s[j]

\* The device never processes a request twice or after a later one, and the
\* client takes no answer twice and none to a request that was not
\* processed, whatever is lost, repeated or arrives twice.
ExactlyOnce ==
    /\ Increasing(served)
    /\ clean => /\ Increasing(answers)
                /\ Range(answers) \subseteq {d \in Range(served) : d >= first}

\* What the device acknowledged, it processed: a new request is never taken
\* for the repetition of an old one (actionA03), as long as the connection
\* is a new one for the device, too.
AcknowledgedIsServed ==
    clean => acknowledged \subseteq Range(served)

\* Both sides have a connection and nothing to wait for: the client has the
\* answer to every request the device processed in it.
NothingForgotten ==
    Quiet /\ connected /\ clean /\ state = "OPEN_IDLE" =>
        \A d \in Range(served) : d >= first => d \in Range(answers)

\* A request that was acknowledged was processed, one that was processed is
\* answered before both sides are at rest.
RequestsAreAnswered == AcknowledgedIsServed /\ NothingForgotten

\* However the connection breaks, the device does not keep a connection that
\* nobody uses: it closes it, or the client connects again.
ConnectionEnds == []<>(state = "CLOSED" \/ connected)

\* However the connection breaks, the client gets its answers in the end.
ClientIsServed == <>Done

=============================================================================

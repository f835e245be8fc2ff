----------------------------- MODULE JavaLogin -----------------------------
(***************************************************************************)
(* The login of the bridge at the Java server: DialAndLogin and negotiate  *)
(* (src/java/protocol/client.go) over one framed connection                *)
(* (src/java/protocol/conn.go).                                            *)
(*                                                                         *)
(* One goroutine writes and reads; a second one, when the context has no   *)
(* deadline, turns a cancellation into a deadline of the socket.  A packet *)
(* is its operation, the number of the request it is about, its length and *)
(* the protocol state it was written in; a frame is the packet with the    *)
(* format that the writer's compression threshold gave it.                 *)
(*                                                                         *)
(* The Java server is external.  It follows the protocol: it moves to the  *)
(* next state when the client's packet says so, switches to compressed     *)
(* frames only while it waits for nothing, and may at any time refuse,     *)
(* hang up, send a malformed or an oversized packet, or fall silent.       *)
(***************************************************************************)
EXTENDS Integers, Sequences

CONSTANTS
    Limit,        \* maxPacketSize = maxDecompressedSize, in units of length
    Thresholds,   \* compression thresholds the server may choose
    MaxPackets,   \* bound: packets the server sends besides success and finish
    MaxInFlight   \* bound: unread frames from the server

ASSUME LoginAssumption ==
    /\ Limit \in Nat
    /\ Thresholds \subseteq Int
    /\ MaxPackets \in Nat
    /\ MaxInFlight \in Nat

VARIABLES
    pc,             \* where DialAndLogin stands
    outcome,        \* what it returns: "running", "ok" or "error"
    state,          \* Conn.state
    compression,    \* Conn.compression
    configuration,  \* Client.Configuration
    open,           \* the connection is open at this end
    hasDeadline,    \* the context has a deadline
    ctxErr,         \* ctx.Err(): "none", "cancelled" or "expired"
    connDeadline,   \* deadline of the socket: "none", "ahead" or "passed"
    watcher,        \* goroutine of applyContextDeadline: "none", "waiting", "stopped", "gone"
    fromServer,     \* frames on the way to the bridge
    toServer,       \* frames on the way to the server
    srvState,       \* protocol state of the server
    srvCompression, \* its threshold
    srvWaits,       \* it waits for a packet that moves the login on
    srvClosed,      \* it has hung up
    asked,          \* requests it wants answered, in order
    offered,        \* configuration packets it has sent, in order
    sent            \* optional packets it has sent

conn == <<state, compression, open>>
context == <<hasDeadline, ctxErr>>
deadline == <<connDeadline, watcher>>
client == <<pc, outcome, conn, configuration>>
server == <<srvState, srvCompression, srvWaits, srvClosed, asked, offered, sent>>
vars == <<client, context, deadline, fromServer, toServer, server>>

Handshaking == 0
Login == 1
Configuration == 2
Play == 3

LoginRequests == {"plugin", "cookie"}
ConfigurationRequests == {"keepAlive", "ping", "cookie", "knownPacks"}
Requests == LoginRequests \cup ConfigurationRequests
Refusals == {"disconnect", "encryption", "malformed"}
Retained == {"registry", "features", "tags", "resetChat"}

NoConfiguration == [registries |-> <<>>, features |-> 0, tags |-> 0, resetChat |-> FALSE]

(***************************************************************************)
(* Framing                                                                 *)
(***************************************************************************)
\* Mutant: a threshold of zero is taken for no compression.
FormatNoZero(threshold, size) ==
    IF threshold <= 0 THEN "raw" ELSE IF size < threshold THEN "stored" ELSE "zlib"

\* encodeFrame: how a body is framed.
Format(threshold, size) ==
    IF threshold < 0 THEN "raw" ELSE IF size < threshold THEN "stored" ELSE "zlib"

\* decodeFrame takes a frame for what its sender made of it.
Readable(threshold, frame) == (frame.format = "raw") = (threshold < 0)

TooLarge(frame) == frame.size > Limit

Frame(op, id, size, phase, threshold) ==
    [op |-> op, id |-> id, size |-> size, phase |-> phase,
     format |-> Format(threshold, size)]

(***************************************************************************)
(* The connection as the bridge sees it                                    *)
(***************************************************************************)
\* A read or write after the deadline fails at once, whatever is buffered.
CanRead == connDeadline # "passed" /\ fromServer # <<>>
ReadFails == connDeadline = "passed" \/ (fromServer = <<>> /\ srvClosed)

Fails ==
    /\ pc' = "deferred"
    /\ outcome' = "error"

\* WritePacket of one packet, in the state and compression of the connection;
\* a write to a server that has hung up may still succeed.
Writes(op, id, size, phase, next) ==
    \/ /\ connDeadline # "passed"
       /\ toServer' = Append(toServer, Frame(op, id, size, phase, compression'))
       /\ pc' = next
       /\ UNCHANGED outcome
    \/ /\ connDeadline = "passed" \/ srvClosed
       /\ Fails
       /\ UNCHANGED toServer

(***************************************************************************)
(* DialAndLogin                                                            *)
(***************************************************************************)
\* Mutant: a cancellation is only watched for through the context's deadline.
WatchesNothing == connDeadline' = (IF hasDeadline THEN "ahead" ELSE "none") /\ watcher' = "none"

\* applyContextDeadline
AppliesDeadline ==
    IF hasDeadline
    THEN connDeadline' = "ahead" /\ watcher' = "none"
    ELSE connDeadline' = "none" /\ watcher' = "waiting"

Dial ==
    /\ pc = "dial"
    /\ \/ /\ ctxErr = "none"
          /\ pc' = "handshake"
          /\ open' = TRUE
          /\ AppliesDeadline
          /\ UNCHANGED outcome
       \/ /\ pc' = "returned"
          /\ outcome' = "error"
          /\ UNCHANGED <<open, deadline>>
    /\ UNCHANGED <<state, compression, configuration, context, fromServer, toServer, server>>

WriteHandshake ==
    /\ pc = "handshake"
    /\ UNCHANGED conn
    /\ Writes("handshake", 0, 4, Handshaking, "loginStart")
    /\ UNCHANGED <<configuration, context, deadline, fromServer, server>>

\* Mutant: the connection is still handshaking when the login starts.
WriteLoginStartHandshaking ==
    /\ pc = "loginStart"
    /\ UNCHANGED conn
    /\ Writes("loginStart", 0, 4, Login, "loop")
    /\ UNCHANGED <<configuration, context, deadline, fromServer, server>>

WriteLoginStart ==
    /\ pc = "loginStart"
    /\ state' = Login
    /\ UNCHANGED <<compression, open>>
    /\ Writes("loginStart", 0, 4, Login, "loop")
    /\ UNCHANGED <<configuration, context, deadline, fromServer, server>>

\* The head of the loop of negotiate.
CheckContext ==
    /\ pc = "loop"
    /\ \/ ctxErr = "none" /\ pc' = "read" /\ UNCHANGED outcome
       \/ ctxErr # "none" /\ Fails
    /\ UNCHANGED <<conn, configuration, context, deadline, fromServer, toServer, server>>

ReadError ==
    /\ pc = "read"
    /\ \/ ReadFails /\ UNCHANGED fromServer
       \/ CanRead /\ TooLarge(Head(fromServer)) /\ fromServer' = Tail(fromServer)
    /\ Fails
    /\ UNCHANGED <<conn, configuration, context, deadline, toServer, server>>

\* ReadPacket has returned a packet of one of these operations in this state.
Received(phase, ops) ==
    /\ pc = "read"
    /\ CanRead
    /\ state = phase
    /\ Head(fromServer).op \in ops
    /\ ~TooLarge(Head(fromServer))
    /\ fromServer' = Tail(fromServer)

Packet == Head(fromServer)

\* A disconnect, an encryption request and a packet that does not decode end
\* the negotiation in either state.
Refused ==
    /\ Received(state, Refusals)
    /\ Fails
    /\ UNCHANGED <<conn, configuration, context, deadline, toServer, server>>

\* Packets no case names are skipped.
Skipped ==
    /\ Received(state, {"other"})
    /\ pc' = "loop"
    /\ UNCHANGED <<outcome, conn, configuration, context, deadline, toServer, server>>

\* Conn.SetCompression
SetsCompression(threshold) ==
    \/ /\ threshold <= Limit
       /\ compression' = IF threshold < 0 THEN -1 ELSE threshold
       /\ pc' = "loop"
       /\ UNCHANGED outcome
    \/ /\ threshold > Limit
       /\ Fails
       /\ UNCHANGED compression

LoginSetCompression ==
    /\ Received(Login, {"setCompression"})
    /\ SetsCompression(Packet.id)
    /\ UNCHANGED <<state, open, configuration, context, deadline, toServer, server>>

\* Plugin requests are refused by number, cookies answered as absent.
LoginRequest ==
    /\ Received(Login, LoginRequests)
    /\ UNCHANGED conn
    /\ Writes(Packet.op, Packet.id, 4, Login, "loop")
    /\ UNCHANGED <<configuration, context, deadline, server>>

LoginSuccess ==
    /\ Received(Login, {"success"})
    /\ UNCHANGED conn
    /\ Writes("loginAcknowledged", 0, 1, Login, "acknowledged")
    /\ UNCHANGED <<configuration, context, deadline, server>>

\* SetState(StateConfiguration) and sendClientInformation.
EnterConfiguration ==
    /\ pc = "acknowledged"
    /\ state' = Configuration
    /\ UNCHANGED <<compression, open>>
    /\ Writes("clientInformation", 0, 4, Configuration, "loop")
    /\ UNCHANGED <<configuration, context, deadline, fromServer, server>>

\* Mutant: pings fall through to the default case.
ConfigurationRequestNoPong ==
    /\ UNCHANGED <<conn, configuration, context, deadline, server>>
    /\ \/ /\ Received(Configuration, ConfigurationRequests \ {"ping"})
          /\ Writes(Packet.op, Packet.id, 4, Configuration, "loop")
       \/ /\ Received(Configuration, {"ping"})
          /\ pc' = "loop"
          /\ UNCHANGED <<outcome, toServer>>

\* Keep-alive, ping, cookie and known-packs requests are answered.
ConfigurationRequest ==
    /\ Received(Configuration, ConfigurationRequests)
    /\ UNCHANGED conn
    /\ Writes(Packet.op, Packet.id, 4, Configuration, "loop")
    /\ UNCHANGED <<configuration, context, deadline, server>>

\* Mutant: a registry replaces the ones before it.
RetainedLast(config, op, id) ==
    IF op = "registry" THEN [config EXCEPT !.registries = <<id>>]
    ELSE IF op = "features" THEN [config EXCEPT !.features = id]
    ELSE IF op = "tags" THEN [config EXCEPT !.tags = id]
    ELSE [config EXCEPT !.resetChat = TRUE]

\* Registries accumulate, feature flags and tags replace the ones before.
RetainedWith(config, op, id) ==
    IF op = "registry" THEN [config EXCEPT !.registries = Append(@, id)]
    ELSE IF op = "features" THEN [config EXCEPT !.features = id]
    ELSE IF op = "tags" THEN [config EXCEPT !.tags = id]
    ELSE [config EXCEPT !.resetChat = TRUE]

ConfigurationData ==
    /\ Received(Configuration, Retained)
    /\ configuration' = RetainedWith(configuration, Packet.op, Packet.id)
    /\ pc' = "loop"
    /\ UNCHANGED <<outcome, conn, context, deadline, toServer, server>>

ConfigurationFinish ==
    /\ Received(Configuration, {"finish"})
    /\ UNCHANGED conn
    /\ Writes("finishAcknowledged", 0, 1, Configuration, "finished")
    /\ UNCHANGED <<configuration, context, deadline, server>>

EnterPlay ==
    /\ pc = "finished"
    /\ state' = Play
    /\ pc' = "deferred"
    /\ outcome' = "ok"
    /\ UNCHANGED <<compression, open, configuration, context, deadline, fromServer,
                   toServer, server>>

\* Mutant: the deadline stays on the socket.
LeavesDeadline == UNCHANGED deadline

\* The function that applyContextDeadline returned.
ClearsDeadline ==
    IF hasDeadline
    THEN connDeadline' = "none" /\ UNCHANGED watcher
    ELSE /\ watcher' = IF watcher = "waiting" THEN "stopped" ELSE watcher
         /\ UNCHANGED connDeadline

ClosesOnError == open' = (outcome = "ok")

\* The deferred calls: the deadline is cleared, a failed connection closed.
Return ==
    /\ pc = "deferred"
    /\ pc' = "returned"
    /\ ClearsDeadline
    /\ ClosesOnError
    /\ UNCHANGED <<outcome, state, compression, configuration, context, fromServer,
                   toServer, server>>

(***************************************************************************)
(* Context and deadline                                                    *)
(***************************************************************************)
Cancel ==
    /\ ctxErr = "none"
    /\ ctxErr' = "cancelled"
    /\ UNCHANGED <<client, hasDeadline, deadline, fromServer, toServer, server>>

DeadlineReached ==
    /\ hasDeadline
    /\ ctxErr # "expired"
    /\ connDeadline # "passed"
    /\ ctxErr' = IF ctxErr = "none" THEN "expired" ELSE ctxErr
    /\ connDeadline' = IF connDeadline = "ahead" THEN "passed" ELSE connDeadline
    /\ UNCHANGED <<client, hasDeadline, watcher, fromServer, toServer, server>>

\* The select of the watcher: once both channels are ready either may win.
WatcherFires ==
    /\ watcher \in {"waiting", "stopped"}
    /\ ctxErr # "none"
    /\ connDeadline' = "passed"
    /\ watcher' = "gone"
    /\ UNCHANGED <<client, context, fromServer, toServer, server>>

WatcherStops ==
    /\ watcher = "stopped"
    /\ watcher' = "gone"
    /\ UNCHANGED <<client, context, connDeadline, fromServer, toServer, server>>

(***************************************************************************)
(* The Java server                                                         *)
(***************************************************************************)
\* Frames that move the login on, and the state they belong to.
Moves == {"handshake", "loginAcknowledged", "finishAcknowledged"}

ServerReads ==
    /\ ~srvClosed
    /\ toServer # <<>>
    /\ toServer' = Tail(toServer)
    /\ LET op == Head(toServer).op
       IN  /\ srvState' = IF op \in Moves THEN srvState + 1 ELSE srvState
           /\ srvWaits' = IF op \in {"loginStart", "loginAcknowledged", "finishAcknowledged"}
                          THEN FALSE ELSE srvWaits
           /\ asked' = IF op \in Requests THEN Tail(asked) ELSE asked
    /\ UNCHANGED <<client, context, deadline, fromServer, srvCompression, srvClosed,
                   offered, sent>>

ServerWrites(op, id, size) ==
    /\ ~srvClosed
    /\ ~srvWaits
    /\ Len(fromServer) < MaxInFlight
    /\ fromServer' = Append(fromServer, Frame(op, id, size, srvState, srvCompression))

\* A packet besides the ones that move the login on, numbered by the count.
ServerWritesOptional(op, size) ==
    /\ sent < MaxPackets
    /\ sent' = sent + 1
    /\ ServerWrites(op, sent', size)

ServerAsks(op) ==
    /\ \/ srvState = Login /\ op \in LoginRequests
       \/ srvState = Configuration /\ op \in ConfigurationRequests
    /\ ServerWritesOptional(op, 4)
    /\ asked' = Append(asked, [op |-> op, id |-> sent'])
    /\ UNCHANGED <<client, context, deadline, toServer, srvState, srvCompression, srvWaits,
                   srvClosed, offered>>

ServerOffers(op) ==
    /\ srvState = Configuration
    /\ ServerWritesOptional(op, 4)
    /\ offered' = Append(offered, [op |-> op, id |-> sent'])
    /\ UNCHANGED <<client, context, deadline, toServer, srvState, srvCompression, srvWaits,
                   srvClosed, asked>>

\* The threshold travels in the packet's number; the frames after it obey it.
ServerSetsCompression(threshold) ==
    /\ srvState = Login
    /\ srvCompression = -1
    /\ asked = <<>> /\ toServer = <<>>
    /\ ServerWrites("setCompression", threshold, 4)
    /\ srvCompression' = IF threshold < 0 THEN -1 ELSE threshold
    /\ UNCHANGED <<client, context, deadline, toServer, srvState, srvWaits, srvClosed, asked,
                   offered, sent>>

\* Success and finish: the server then waits for the acknowledgement.
ServerMovesOn(op) ==
    /\ op = (IF srvState = Login THEN "success" ELSE "finish")
    /\ srvState \in {Login, Configuration}
    /\ ServerWrites(op, 0, 4)
    /\ srvWaits' = TRUE
    /\ UNCHANGED <<client, context, deadline, toServer, srvState, srvCompression, srvClosed,
                   asked, offered, sent>>

\* A packet without meaning here, a refusal, an oversized packet or, in play,
\* the first packet of the game.
ServerWritesOther(op, size) ==
    /\ op = "encryption" => srvState = Login
    /\ ServerWritesOptional(op, size)
    /\ UNCHANGED <<client, context, deadline, toServer, srvState, srvCompression, srvWaits,
                   srvClosed, asked, offered>>

ServerHangsUp ==
    /\ ~srvClosed
    /\ srvClosed' = TRUE
    /\ UNCHANGED <<client, context, deadline, fromServer, toServer, srvState, srvCompression,
                   srvWaits, asked, offered, sent>>

(***************************************************************************)
(* Specification                                                           *)
(***************************************************************************)
Init ==
    /\ pc = "dial"
    /\ outcome = "running"
    /\ state = Handshaking
    /\ compression = -1
    /\ configuration = NoConfiguration
    /\ open = FALSE
    /\ hasDeadline \in BOOLEAN
    /\ ctxErr = "none"
    /\ connDeadline = "none"
    /\ watcher = "none"
    /\ fromServer = <<>>
    /\ toServer = <<>>
    /\ srvState = Handshaking
    /\ srvCompression = -1
    /\ srvWaits = TRUE
    /\ srvClosed = FALSE
    /\ asked = <<>>
    /\ offered = <<>>
    /\ sent = 0

Bridge ==
    \/ Dial \/ WriteHandshake \/ WriteLoginStart \/ CheckContext
    \/ ReadError \/ Refused \/ Skipped
    \/ LoginSetCompression \/ LoginRequest \/ LoginSuccess \/ EnterConfiguration
    \/ ConfigurationRequest \/ ConfigurationData \/ ConfigurationFinish \/ EnterPlay
    \/ Return

Watcher == WatcherFires \/ WatcherStops

Server ==
    \/ ServerReads
    \/ \E op \in Requests : ServerAsks(op)
    \/ \E op \in Retained : ServerOffers(op)
    \/ \E threshold \in Thresholds : ServerSetsCompression(threshold)
    \/ \E op \in {"success", "finish"} : ServerMovesOn(op)
    \/ \E op \in Refusals \cup {"other"} : ServerWritesOther(op, 4)
    \/ ServerWritesOther("other", Limit + 1)
    \/ ServerHangsUp

Next == Bridge \/ Watcher \/ Cancel \/ DeadlineReached \/ Server

Spec == Init /\ [][Next]_vars

\* Goroutines run and time passes; the server owes nothing, not even an answer.
Fairness == WF_vars(Bridge) /\ WF_vars(Watcher) /\ WF_vars(DeadlineReached)

FairSpec == Spec /\ Fairness

(***************************************************************************)
(* Properties                                                              *)
(***************************************************************************)
FrameType(frame) ==
    /\ frame.op \in Requests \cup Refusals \cup Retained \cup Moves
                    \cup {"loginStart", "clientInformation", "setCompression", "success",
                          "finish", "other"}
    /\ frame.id \in Int
    /\ frame.phase \in Handshaking..Play
    /\ frame.format \in {"raw", "stored", "zlib"}

\* Every variable has its type.
TypeOK ==
    /\ pc \in {"dial", "handshake", "loginStart", "loop", "read", "acknowledged",
               "finished", "deferred", "returned"}
    /\ outcome \in {"running", "ok", "error"}
    /\ state \in Handshaking..Play
    /\ compression \in -1..Limit
    /\ open \in BOOLEAN
    /\ hasDeadline \in BOOLEAN
    /\ ctxErr \in {"none", "cancelled", "expired"}
    /\ connDeadline \in {"none", "ahead", "passed"}
    /\ watcher \in {"none", "waiting", "stopped", "gone"}
    /\ \A i \in DOMAIN fromServer : FrameType(fromServer[i])
    /\ \A i \in DOMAIN toServer : FrameType(toServer[i])
    /\ srvState \in Handshaking..Play
    /\ srvCompression \in Thresholds \cup {-1}
    /\ srvWaits \in BOOLEAN
    /\ srvClosed \in BOOLEAN
    /\ sent \in 0..MaxPackets

\* Both ends switch to compressed frames at the same frame: whatever one end is about
\* to read was framed the way it takes frames apart (SetCompression, encodeFrame,
\* decodeFrame), for thresholds of zero and below as well.  And it was written in the
\* state it is read in: the packet IDs of the states overlap, so a packet read one state
\* early or late is another packet.
EndsAgree ==
    /\ pc = "read" /\ fromServer # <<>> =>
         Readable(compression, Head(fromServer)) /\ Head(fromServer).phase = state
    /\ ~srvClosed /\ toServer # <<>> =>
         Readable(srvCompression, Head(toServer)) /\ Head(toServer).phase = srvState

\* The server gets the answers it asked for, each once and in the order of its
\* requests: cookies, plugin messages, keep-alives, pings and known packs.
AnswersInOrder ==
    ~srvClosed /\ toServer # <<>> /\ Head(toServer).op \in Requests =>
        /\ asked # <<>>
        /\ Head(asked) = [op |-> Head(toServer).op, id |-> Head(toServer).id]

\* The numbers of the offered packets of an operation; they grow in the order of
\* sending, so the latest is the greatest.
OfferedIDs(op) == {offered[i].id : i \in {j \in DOMAIN offered : offered[j].op = op}}
Latest(id, ids) == IF ids = {} THEN id = 0 ELSE id \in ids /\ \A other \in ids : other <= id

\* A login that returns has all the server's configuration, the registries in order
\* and of the flags and tags the latest, and leaves the packets of the game to its
\* caller.
ConfigurationComplete ==
    outcome = "ok" =>
        /\ {configuration.registries[i] : i \in DOMAIN configuration.registries}
             = OfferedIDs("registry")
        /\ \A i, j \in DOMAIN configuration.registries :
             i < j => configuration.registries[i] < configuration.registries[j]
        /\ Latest(configuration.features, OfferedIDs("features"))
        /\ Latest(configuration.tags, OfferedIDs("tags"))
        /\ configuration.resetChat <=> OfferedIDs("resetChat") # {}
        /\ \A i \in DOMAIN fromServer : fromServer[i].phase = Play

\* DialAndLogin returns an open connection or an error and none, and a deadline
\* is left on the open one only by a context that has ended already: the
\* caller's reads do not fail by a deadline of the login.
ReturnsCleanly ==
    pc = "returned" =>
        /\ open <=> outcome = "ok"
        /\ open /\ ctxErr = "none" => connDeadline = "none"

\* The login ends once its context has ended, however silent the server is, and once
\* the server has hung up.
LoginEnds ==
    /\ ctxErr # "none" ~> pc = "returned"
    /\ srvClosed ~> pc = "returned"

\* The state each end has committed itself to: the client's packets commit it
\* before SetState does.
Committed ==
    IF pc \in {"loginStart", "acknowledged", "finished"} THEN state + 1 ELSE state

Phases == INSTANCE LoginPhases WITH client <- Committed, server <- srvState

\* Client and server pass the states of the protocol hand in hand.
PassesPhases == Phases!Spec
=============================================================================

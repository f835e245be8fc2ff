-------------------------- MODULE JavaLogin_proofs --------------------------
(***************************************************************************)
(* Proofs about DialAndLogin, for every limit, threshold and server.  The  *)
(* first is that it returns cleanly, in which the queues play no part:     *)
(* what matters is who may move the deadline of the socket, and when the   *)
(* connection is open.  The others are about the packets on their way.     *)
(***************************************************************************)
EXTENDS JavaLogin, DataLemmas, TLAPS

Working == {"handshake", "loginStart", "loop", "read", "acknowledged", "finished"}

\* The connection is open from the dial to the return, and only the last step
\* of the negotiation makes the outcome a success.
OpenWhileRunning ==
    /\ pc \in {"dial", "deferred", "returned"} \cup Working
    /\ open \in BOOLEAN
    /\ pc = "dial" => ~open /\ outcome = "running"
    /\ pc \in Working => open /\ outcome = "running"
    /\ pc = "deferred" => open
    /\ pc = "returned" => (open <=> outcome = "ok")

\* With a deadline the bridge alone sets and clears that of the socket; without
\* one the watcher alone sets it, once the context has been cancelled.
DeadlineOwned ==
    /\ hasDeadline \in BOOLEAN
    /\ hasDeadline => watcher = "none"
    /\ hasDeadline /\ pc = "returned" /\ open => connDeadline = "none"
    /\ ~hasDeadline /\ ctxErr = "none" => connDeadline = "none"

IInv == OpenWhileRunning /\ DeadlineOwned

LEMMA InitHolds == Init => IInv
  BY DEF Init, IInv, OpenWhileRunning, DeadlineOwned, Working

\* The steps of negotiate between the dial and the return: each goes on with
\* the connection open, or stops with an outcome.
Middle == Bridge /\ pc # "dial" /\ pc # "deferred"

LEMMA MiddleFrame ==
    ASSUME IInv, Middle
    PROVE  /\ pc \in Working
           /\ open' = open
           /\ UNCHANGED <<hasDeadline, ctxErr, connDeadline, watcher>>
           /\ \/ pc' \in Working /\ outcome' = outcome
              \/ pc' = "deferred"
  <1> USE DEF Middle, IInv, OpenWhileRunning, Working, conn, context, deadline, server, Writes,
          Fails, Received
  <1>1. CASE WriteHandshake
    BY <1>1 DEF WriteHandshake
  <1>2. CASE WriteLoginStart
    BY <1>2 DEF WriteLoginStart
  <1>3. CASE CheckContext
    BY <1>3 DEF CheckContext
  <1>4. CASE ReadError
    BY <1>4 DEF ReadError
  <1>5. CASE Refused
    BY <1>5 DEF Refused
  <1>6. CASE Skipped
    BY <1>6 DEF Skipped
  <1>7. CASE LoginSetCompression
    BY <1>7 DEF LoginSetCompression, SetsCompression
  <1>8. CASE LoginRequest
    BY <1>8 DEF LoginRequest
  <1>9. CASE LoginSuccess
    BY <1>9 DEF LoginSuccess
  <1>10. CASE EnterConfiguration
    BY <1>10 DEF EnterConfiguration
  <1>11. CASE ConfigurationRequest
    BY <1>11 DEF ConfigurationRequest
  <1>12. CASE ConfigurationData
    BY <1>12 DEF ConfigurationData
  <1>13. CASE ConfigurationFinish
    BY <1>13 DEF ConfigurationFinish
  <1>14. CASE EnterPlay
    BY <1>14 DEF EnterPlay
  <1> QED
    BY <1>1, <1>2, <1>3, <1>4, <1>5, <1>6, <1>7, <1>8, <1>9, <1>10, <1>11, <1>12, <1>13, <1>14
       DEF Bridge, Dial, Return

LEMMA StepHolds == IInv /\ [Next]_vars => IInv'
  <1> SUFFICES ASSUME IInv, [Next]_vars PROVE IInv'
    OBVIOUS
  <1> USE DEF IInv, OpenWhileRunning, DeadlineOwned, Working
  <1>1. CASE Dial
    <2>1. CASE pc' = "handshake"
      BY <1>1, <2>1 DEF Dial, AppliesDeadline, context, deadline
    <2>2. CASE pc' = "returned"
      <3>1. open' = open /\ outcome' = "error" /\ UNCHANGED <<context, deadline>>
        BY <1>1, <2>2 DEF Dial, deadline
      <3> QED
        BY <1>1, <2>2, <3>1 DEF Dial, context, deadline
    <2> QED
      BY <1>1, <2>1, <2>2 DEF Dial
  <1>2. CASE Middle
    <2>1. /\ pc \in Working
          /\ open' = open
          /\ UNCHANGED <<hasDeadline, ctxErr, connDeadline, watcher>>
          /\ \/ pc' \in Working /\ outcome' = outcome
             \/ pc' = "deferred"
      BY <1>2, MiddleFrame
    <2> QED
      BY <2>1
  <1>3. CASE Return
    BY <1>3 DEF Return, ClearsDeadline, ClosesOnError, context
  <1>4. CASE Cancel
    BY <1>4 DEF Cancel, client, conn, deadline
  <1>5. CASE DeadlineReached
    BY <1>5 DEF DeadlineReached, client, conn
  <1>6. CASE WatcherFires
    BY <1>6 DEF WatcherFires, client, conn, context
  <1>7. CASE WatcherStops
    BY <1>7 DEF WatcherStops, client, conn, context
  <1>8. CASE Server
    <2>1. UNCHANGED <<client, context, deadline>>
      BY <1>8 DEF Server, ServerReads, ServerAsks, ServerOffers, ServerSetsCompression,
                  ServerMovesOn, ServerWritesOther, ServerHangsUp
    <2> QED
      BY <2>1 DEF client, conn, context, deadline
  <1>9. CASE UNCHANGED vars
    BY <1>9 DEF vars, client, conn, context, deadline
  <1>10. Bridge => Dial \/ Middle \/ Return
    BY DEF Bridge, Middle, Dial, Return, WriteHandshake, WriteLoginStart, CheckContext,
           ReadError, Refused, Skipped, LoginSetCompression, LoginRequest, LoginSuccess,
           EnterConfiguration, ConfigurationRequest, ConfigurationData, ConfigurationFinish,
           EnterPlay, Received
  <1> QED
    BY <1>1, <1>2, <1>3, <1>4, <1>5, <1>6, <1>7, <1>8, <1>9, <1>10 DEF Next, Watcher

\* Whatever the server and the context do, DialAndLogin returns an open
\* connection or an error and none, and on an open one no deadline is left
\* while its context lives (client.go, the deferred calls of DialAndLogin).
THEOREM CleanReturn == Spec => []ReturnsCleanly
  <1>1. IInv => ReturnsCleanly
    BY DEF IInv, OpenWhileRunning, DeadlineOwned, ReturnsCleanly
  <1> QED
    BY InitHolds, StepHolds, <1>1, PTL DEF Spec

(***************************************************************************)
(* Packets on their way                                                    *)
(*                                                                         *)
(* What is about to be read depends on everything that was in the queues   *)
(* when it was written, so the invariant of the framing, the phases, the   *)
(* answers and the configuration is one over all positions of both queues. *)
(* It has a part for each, and each part is preserved for a reason of its  *)
(* own; the steps are sorted by what they do to the queues first.          *)
(***************************************************************************)
Unblocks == {"loginStart", "loginAcknowledged", "finishAcknowledged"}
Turns == Moves \cup Unblocks
Ends == {"success", "finish"}
FromServerOps == Requests \cup Refusals \cup Retained \cup Ends \cup {"setCompression", "other"}
ToServerOps == Requests \cup Turns \cup {"clientInformation"}

Formats == {"raw", "stored", "zlib"}
FramesOf(ops) ==
    [op : ops, id : Int, size : Int, phase : Handshaking..Play, format : Formats]
Configurations ==
    [registries : Seq(Int), features : Int, tags : Int, resetChat : BOOLEAN]

Typed ==
    /\ toServer \in Seq(FramesOf(ToServerOps))
    /\ fromServer \in Seq(FramesOf(FromServerOps))
    /\ asked \in Seq([op : Requests, id : Int])
    /\ offered \in Seq([op : Retained, id : Int])
    /\ sent \in Nat
    /\ compression \in Int
    /\ srvCompression \in Int
    /\ srvState \in Handshaking..Play
    /\ srvWaits \in BOOLEAN

\* Conn.state at each point of DialAndLogin.
PcState ==
    /\ pc \in {"dial", "handshake", "loginStart", "loop", "read", "acknowledged", "finished",
               "deferred", "returned"}
    /\ outcome \in {"running", "ok", "error"}
    /\ state \in Handshaking..Play
    /\ pc \in {"dial", "handshake", "loginStart"} => state = Handshaking
    /\ pc \in {"loop", "read"} => state \in {Login, Configuration}
    /\ pc = "acknowledged" => state = Login
    /\ pc = "finished" => state = Configuration
    /\ pc \notin {"deferred", "returned"} => outcome = "running"
    /\ pc \in {"deferred", "returned"} => outcome # "running"
    /\ outcome = "ok" => state = Play

\* A packet that moves the server on is on its way.
Moved == \E i \in DOMAIN toServer : toServer[i].op \in Moves

\* What comes from the server was written in the state it still is in; nothing follows
\* a success or a finish.
FromInPhase ==
    \A i \in DOMAIN fromServer :
       /\ fromServer[i].phase = srvState
       /\ fromServer[i].op = "setCompression" => srvState = Login
       /\ fromServer[i].op \in Retained => srvState = Configuration
       /\ fromServer[i].op \in Ends => i = Len(fromServer) /\ srvWaits

\* What the client writes counts from the state of the server, one more behind the
\* packet that moves it on; until the server has read that, it is silent.
ToInPhase ==
    \A i \in DOMAIN toServer :
       /\ toServer[i].op \in Turns => fromServer = <<>> /\ srvWaits
       /\ toServer[i].op = "handshake" => i = 1
       /\ toServer[i].op = "loginStart" => toServer[i].phase = Login
       /\ toServer[i].phase =
            IF \E j \in DOMAIN toServer : j < i /\ toServer[j].op \in Moves
            THEN srvState + 1 ELSE srvState

OneTurn ==
    \A i, j \in DOMAIN toServer :
       /\ toServer[i].op \in Moves /\ toServer[j].op \in Moves => i = j
       /\ toServer[i].op \in Unblocks /\ toServer[j].op \in Unblocks => i = j

Ahead == Committed = IF Moved THEN srvState + 1 ELSE srvState

\* Until the login start has been written the server waits for it.
Starting ==
    /\ pc \in {"dial", "handshake", "loginStart"} =>
          /\ srvWaits /\ fromServer = <<>>
          /\ \A i \in DOMAIN toServer : toServer[i].op \notin Unblocks
    /\ pc \in {"dial", "handshake"} => toServer = <<>> /\ srvState = Handshaking
    /\ srvState = Handshaking => srvWaits /\ fromServer = <<>>

InPhase == FromInPhase /\ ToInPhase /\ OneTurn /\ Ahead /\ Starting

\* Numbers of the answers and of the requests on their way.
Answering == {toServer[i].id : i \in {j \in DOMAIN toServer : toServer[j].op \in Requests}}
Asking == {fromServer[i].id : i \in {j \in DOMAIN fromServer : fromServer[j].op \in Requests}}

RequestOf(frame) == [op |-> frame.op, id |-> frame.id]

\* What is asked is numbered upwards; a request travels down one queue and up the
\* other, and the numbers of the answers are below those of the requests that have
\* none.  Only a client that has failed owes an answer.
Answered ==
    /\ \A k \in DOMAIN asked : asked[k].id \in 1..sent
    /\ \A j, k \in DOMAIN asked : j < k => asked[j].id < asked[k].id
    /\ \A i \in DOMAIN toServer : toServer[i].op \in Requests =>
          \E k \in DOMAIN asked : asked[k] = RequestOf(toServer[i])
    /\ \A i, j \in DOMAIN toServer :
          toServer[i].op \in Requests /\ toServer[j].op \in Requests /\ i < j =>
             toServer[i].id < toServer[j].id
    /\ \A k \in DOMAIN asked : asked[k].id \notin Answering =>
          \A i \in DOMAIN toServer : toServer[i].op \in Requests => toServer[i].id < asked[k].id
    /\ \A i \in DOMAIN fromServer : fromServer[i].op \in Requests =>
          /\ \E k \in DOMAIN asked : asked[k] = RequestOf(fromServer[i])
          /\ \A j \in DOMAIN toServer :
                toServer[j].op \in Requests => toServer[j].id < fromServer[i].id
    /\ \A i, j \in DOMAIN fromServer :
          fromServer[i].op \in Requests /\ fromServer[j].op \in Requests /\ i < j =>
             fromServer[i].id < fromServer[j].id
    /\ outcome # "error" => \A k \in DOMAIN asked : asked[k].id \in Answering \cup Asking

\* The packet that switches compression on.
Switch(i) == fromServer[i].op = "setCompression" /\ fromServer[i].id >= 0
Raw(frame) == frame.format = "raw"

\* A switch on its way parts the queue: plain frames up to it, none of which the client
\* answers, and compressed ones behind it.  Without one both ends agree.
Switched ==
    /\ \A i \in DOMAIN fromServer : fromServer[i].op = "setCompression" => Raw(fromServer[i])
    /\ \A i \in DOMAIN toServer : Raw(toServer[i]) <=> srvCompression < 0
    /\ \A i \in DOMAIN fromServer : Switch(i) =>
          /\ srvCompression >= 0
          /\ \A j \in DOMAIN fromServer :
                /\ j < i => fromServer[j].op \notin Requests \cup Ends
                /\ Raw(fromServer[j]) <=> j <= i
          /\ outcome # "error" => compression < 0
    /\ (\A i \in DOMAIN fromServer : ~Switch(i)) =>
          /\ \A i \in DOMAIN fromServer : Raw(fromServer[i]) <=> srvCompression < 0
          /\ outcome # "error" => (compression < 0 <=> srvCompression < 0)

\* The configuration has taken in a packet.
Holds(config, op, id) ==
    \/ op = "registry" /\ \E i \in DOMAIN config.registries : config.registries[i] = id
    \/ op = "features" /\ id <= config.features
    \/ op = "tags" /\ id <= config.tags
    \/ op = "resetChat" /\ config.resetChat

\* Numbers of the configuration packets on their way.
Pending == {fromServer[i].id : i \in {j \in DOMAIN fromServer : fromServer[j].op \in Retained}}

\* What has been offered is pending or kept, and what is pending comes after what is
\* kept.  Only a client that has failed has lost any.
Kept ==
    /\ configuration \in Configurations
    /\ \A k \in DOMAIN offered : offered[k].id \in 1..sent
    /\ \A j, k \in DOMAIN offered : j < k => offered[j].id < offered[k].id
    /\ \A i \in DOMAIN fromServer : fromServer[i].op \in Retained =>
          fromServer[i].id \in OfferedIDs(fromServer[i].op)
    /\ \A i, j \in DOMAIN fromServer :
          fromServer[i].op \in Retained /\ fromServer[j].op \in Retained /\ i < j =>
             fromServer[i].id < fromServer[j].id
    /\ \A i, j \in DOMAIN configuration.registries :
          i < j => configuration.registries[i] < configuration.registries[j]
    /\ \A i \in DOMAIN configuration.registries :
          configuration.registries[i] \in OfferedIDs("registry")
    /\ configuration.features \in {0} \cup OfferedIDs("features")
    /\ configuration.tags \in {0} \cup OfferedIDs("tags")
    /\ configuration.resetChat => OfferedIDs("resetChat") # {}
    /\ \A id \in Pending :
          /\ \A i \in DOMAIN configuration.registries : configuration.registries[i] < id
          /\ configuration.features < id
          /\ configuration.tags < id
    /\ outcome # "error" =>
          \A k \in DOMAIN offered :
             offered[k].id \in Pending \/ Holds(configuration, offered[k].op, offered[k].id)

QueueInv == Typed /\ PcState /\ InPhase /\ Answered /\ Switched /\ Kept

(***************************************************************************)
(* What a step does to the queues                                          *)
(***************************************************************************)
\* What the queues and the client's progress depend on at the server.
progress == <<srvState, srvCompression, srvWaits, asked, offered, sent>>

\* No packet is taken or written.
Idles ==
    /\ UNCHANGED <<progress, fromServer, toServer, compression, configuration, Committed>>
    /\ \/ outcome' = outcome
       \/ outcome = "running" /\ outcome' = "error"
       \/ outcome = "running" /\ outcome' = "ok" /\ Committed = Play
    /\ pc' \in {"dial", "handshake"} => pc \in {"dial", "handshake"}
    /\ pc' = "loginStart" => pc = "loginStart"

\* The first frame from the server is taken.
Takes ==
    /\ fromServer # <<>>
    /\ fromServer' = Tail(fromServer)
    /\ outcome = "running"
    /\ pc' \notin {"dial", "handshake", "loginStart"}
    /\ UNCHANGED progress

\* A packet is written, in the state the client has committed itself to.
Sends(op, id, size) ==
    /\ toServer' = Append(toServer, Frame(op, id, size, Committed, compression))
    /\ outcome = "running" /\ outcome' = "running"
    /\ UNCHANGED <<progress, compression, configuration>>

\* A frame is skipped, or it ends the login.
Drops ==
    /\ Takes
    /\ outcome' = "error" \/ (outcome' = "running" /\ Packet.op = "other")
    /\ UNCHANGED <<toServer, compression, configuration, Committed>>

SendsHandshake ==
    /\ pc = "handshake" /\ pc' = "loginStart"
    /\ Sends("handshake", 0, 4)
    /\ UNCHANGED fromServer
    /\ Committed = Handshaking /\ Committed' = Login

SendsLoginStart ==
    /\ pc = "loginStart" /\ pc' = "loop"
    /\ Sends("loginStart", 0, 4)
    /\ UNCHANGED fromServer
    /\ Committed = Login /\ Committed' = Login

SendsInformation ==
    /\ pc = "acknowledged" /\ pc' = "loop"
    /\ Sends("clientInformation", 0, 4)
    /\ UNCHANGED fromServer
    /\ Committed = Configuration /\ Committed' = Configuration

\* A request is answered.
Answers ==
    /\ Takes
    /\ Packet.op \in Requests
    /\ Sends(Packet.op, Packet.id, 4)
    /\ UNCHANGED Committed

\* A success or a finish is acknowledged.
Acknowledges ==
    /\ Takes
    /\ Packet.op \in Ends
    /\ \E op \in {"loginAcknowledged", "finishAcknowledged"} : Sends(op, 0, 1)
    /\ Committed < Play /\ Committed' = Committed + 1

\* SetCompression.
Compresses ==
    /\ Takes
    /\ Packet.op = "setCompression"
    /\ compression' = IF Packet.id < 0 THEN -1 ELSE Packet.id
    /\ outcome' = "running"
    /\ UNCHANGED <<toServer, configuration, Committed>>

\* A packet of the configuration is kept.
Keeps ==
    /\ Takes
    /\ Packet.op \in Retained
    /\ configuration' = RetainedWith(configuration, Packet.op, Packet.id)
    /\ outcome' = "running"
    /\ UNCHANGED <<toServer, compression, Committed>>

ClientStep ==
    \/ Idles \/ Drops \/ SendsHandshake \/ SendsLoginStart \/ SendsInformation
    \/ Answers \/ Acknowledges \/ Compresses \/ Keeps

\* The packets of the server, each with what the server notes about it.
Delivers(op, id, size) ==
    /\ ServerWrites(op, id, size)
    /\ op \in Requests \cup Retained => id = sent + 1 /\ sent' = sent + 1
    /\ op \notin Requests \cup Retained => sent' \in {sent, sent + 1}
    /\ asked' = IF op \in Requests THEN Append(asked, [op |-> op, id |-> id]) ELSE asked
    /\ offered' = IF op \in Retained THEN Append(offered, [op |-> op, id |-> id]) ELSE offered
    /\ srvCompression' = IF op = "setCompression" /\ id >= 0 THEN id ELSE srvCompression
    /\ op = "setCompression" =>
          srvState = Login /\ srvCompression = -1 /\ asked = <<>> /\ toServer = <<>>
    /\ op \in Retained => srvState = Configuration
    /\ op \in Ends => srvWaits' = TRUE
    /\ op \notin Ends => UNCHANGED srvWaits
    /\ UNCHANGED <<client, toServer, srvState>>

ServerStep ==
    \/ ServerReads
    \/ \E op \in FromServerOps, id \in Int, size \in Int : Delivers(op, id, size)

\* The steps beside the connection.
Elsewhere == Watcher \/ Cancel \/ DeadlineReached

\* PcState is inductive by itself: each step of negotiate leaves it where the next one
\* expects it.
LEMMA PcStep == PcState /\ [Next]_vars => PcState'
  <1> SUFFICES ASSUME PcState, [Next]_vars PROVE PcState'
    OBVIOUS
  <1> USE DEF PcState, Handshaking, Login, Configuration, Play, conn, context, deadline, server
  <1>1. CASE Dial
    BY <1>1 DEF Dial
  <1>2. CASE WriteHandshake
    BY <1>2 DEF WriteHandshake, Writes, Fails
  <1>3. CASE WriteLoginStart
    BY <1>3 DEF WriteLoginStart, Writes, Fails
  <1>4. CASE CheckContext
    BY <1>4 DEF CheckContext, Fails
  <1>5. CASE ReadError
    BY <1>5 DEF ReadError, Fails
  <1>6. CASE Refused
    BY <1>6 DEF Refused, Received, Fails
  <1>7. CASE Skipped
    BY <1>7 DEF Skipped, Received
  <1>8. CASE LoginSetCompression
    BY <1>8 DEF LoginSetCompression, Received, SetsCompression, Fails
  <1>9. CASE LoginRequest
    BY <1>9 DEF LoginRequest, Received, Writes, Fails
  <1>10. CASE LoginSuccess
    BY <1>10 DEF LoginSuccess, Received, Writes, Fails
  <1>11. CASE EnterConfiguration
    BY <1>11 DEF EnterConfiguration, Writes, Fails
  <1>12. CASE ConfigurationRequest
    BY <1>12 DEF ConfigurationRequest, Received, Writes, Fails
  <1>13. CASE ConfigurationData
    BY <1>13 DEF ConfigurationData, Received
  <1>14. CASE ConfigurationFinish
    BY <1>14 DEF ConfigurationFinish, Received, Writes, Fails
  <1>15. CASE EnterPlay
    BY <1>15 DEF EnterPlay
  <1>16. CASE Return
    BY <1>16 DEF Return
  <1>17. CASE Elsewhere \/ Server \/ UNCHANGED vars
    <2>1. UNCHANGED client
      BY <1>17 DEF Elsewhere, Watcher, WatcherFires, WatcherStops, Cancel, DeadlineReached, Server,
                   ServerReads, ServerAsks, ServerOffers, ServerSetsCompression,
                   ServerMovesOn, ServerWritesOther, ServerHangsUp, vars
    <2> QED
      BY <2>1 DEF client
  <1> QED
    BY <1>1, <1>2, <1>3, <1>4, <1>5, <1>6, <1>7, <1>8, <1>9, <1>10, <1>11, <1>12, <1>13, <1>14,
       <1>15, <1>16, <1>17 DEF Next, Bridge, Elsewhere

\* Every step of the bridge, of the watcher and of the context is one of the kinds above.
LEMMA ClientSteps ==
    ASSUME PcState, Bridge \/ Elsewhere \/ ServerHangsUp \/ UNCHANGED vars
    PROVE  ClientStep
  <1> USE DEF PcState, Handshaking, Login, Configuration, Play, conn, context, deadline, server,
              progress, Committed, ClientStep
  <1>1. CASE Dial
    <2> Idles
      BY <1>1 DEF Dial, Idles
    <2> QED
      OBVIOUS
  <1>2. CASE WriteHandshake
    <2> Idles \/ SendsHandshake
      BY <1>2 DEF WriteHandshake, Writes, Fails, Idles, SendsHandshake, Sends
    <2> QED
      OBVIOUS
  <1>3. CASE WriteLoginStart
    <2> Idles \/ SendsLoginStart
      BY <1>3 DEF WriteLoginStart, Writes, Fails, Idles, SendsLoginStart, Sends
    <2> QED
      OBVIOUS
  <1>4. CASE CheckContext
    <2> Idles
      BY <1>4 DEF CheckContext, Fails, Idles
    <2> QED
      OBVIOUS
  <1>5. CASE ReadError
    <2> Idles \/ Drops
      BY <1>5 DEF ReadError, CanRead, Fails, Idles, Drops, Takes
    <2> QED
      OBVIOUS
  <1>6. CASE Refused
    <2> Drops
      BY <1>6 DEF Refused, Received, CanRead, Fails, Drops, Takes
    <2> QED
      OBVIOUS
  <1>7. CASE Skipped
    <2> Drops
      BY <1>7 DEF Skipped, Received, CanRead, Drops, Takes, Packet
    <2> QED
      OBVIOUS
  <1>8. CASE LoginSetCompression
    <2> Drops \/ Compresses
      BY <1>8 DEF LoginSetCompression, Received, CanRead, SetsCompression, Fails, Drops, Takes,
                  Compresses, Packet
    <2> QED
      OBVIOUS
  <1>9. CASE LoginRequest
    <2> Drops \/ Answers
      BY <1>9 DEF LoginRequest, Received, CanRead, Writes, Fails, Drops, Takes, Answers, Sends,
                  Packet, Requests
    <2> QED
      OBVIOUS
  <1>10. CASE LoginSuccess
    <2> Drops \/ Acknowledges
      BY <1>10 DEF LoginSuccess, Received, CanRead, Writes, Fails, Drops, Takes, Acknowledges,
                   Sends, Packet, Ends
    <2> QED
      OBVIOUS
  <1>11. CASE EnterConfiguration
    <2> Idles \/ SendsInformation
      BY <1>11 DEF EnterConfiguration, Writes, Fails, Idles, SendsInformation, Sends
    <2> QED
      OBVIOUS
  <1>12. CASE ConfigurationRequest
    <2> Drops \/ Answers
      BY <1>12 DEF ConfigurationRequest, Received, CanRead, Writes, Fails, Drops, Takes, Answers,
                   Sends, Packet, Requests
    <2> QED
      OBVIOUS
  <1>13. CASE ConfigurationData
    <2> Keeps
      BY <1>13 DEF ConfigurationData, Received, CanRead, Takes, Keeps, Packet
    <2> QED
      OBVIOUS
  <1>14. CASE ConfigurationFinish
    <2> Drops \/ Acknowledges
      BY <1>14 DEF ConfigurationFinish, Received, CanRead, Writes, Fails, Drops, Takes,
                   Acknowledges, Sends, Packet, Ends
    <2> QED
      OBVIOUS
  <1>15. CASE EnterPlay
    <2> Idles
      BY <1>15 DEF EnterPlay, Idles
    <2> QED
      OBVIOUS
  <1>16. CASE Return
    <2> Idles
      BY <1>16 DEF Return, Idles
    <2> QED
      OBVIOUS
  <1>17. CASE Elsewhere \/ ServerHangsUp \/ UNCHANGED vars
    <2>1. UNCHANGED <<client, fromServer, toServer, progress>>
      BY <1>17 DEF Elsewhere, Watcher, WatcherFires, WatcherStops, Cancel, DeadlineReached,
                   ServerHangsUp, vars
    <2> Idles
      BY <2>1 DEF Idles, client
    <2> QED
      OBVIOUS
  <1> QED
    BY <1>1, <1>2, <1>3, <1>4, <1>5, <1>6, <1>7, <1>8, <1>9, <1>10, <1>11, <1>12, <1>13, <1>14,
       <1>15, <1>16, <1>17 DEF Bridge

\* The operations of the server that the invariants tell apart.
LEMMA FromServerDisjoint ==
    /\ \A op \in Requests : op \in FromServerOps /\ op # "setCompression" /\ op \notin Retained \cup Ends
    /\ \A op \in Retained : op \in FromServerOps /\ op # "setCompression" /\ op \notin Requests \cup Ends
    /\ \A op \in Ends : op \in FromServerOps /\ op # "setCompression" /\ op \notin Requests \cup Retained
    /\ \A op \in Refusals \cup {"other"} :
          op \in FromServerOps /\ op # "setCompression" /\ op \notin Requests \cup Retained \cup Ends
    /\ "setCompression" \in FromServerOps /\ "setCompression" \notin Requests \cup Retained \cup Ends
  BY DEF Requests, LoginRequests, ConfigurationRequests, Retained, Ends, Refusals, FromServerOps

\* Every step of the server is a read or a packet delivered; a hang-up changes nothing
\* that matters to the queues.
LEMMA ServerSteps == ASSUME sent \in Nat, Server, ~ServerHangsUp PROVE ServerStep
  <1> USE LoginAssumption, FromServerDisjoint
  <1>1. ASSUME NEW op \in Requests, ServerAsks(op) PROVE ServerStep
    <2>1. Delivers(op, sent + 1, 4)
      BY <1>1 DEF Delivers, ServerAsks, ServerWritesOptional
    <2> QED
      BY <1>1, <2>1 DEF ServerStep
  <1>2. ASSUME NEW op \in Retained, ServerOffers(op) PROVE ServerStep
    <2>1. Delivers(op, sent + 1, 4)
      BY <1>2 DEF Delivers, ServerOffers, ServerWritesOptional
    <2> QED
      BY <1>2, <2>1 DEF ServerStep
  <1>3. ASSUME NEW threshold \in Thresholds, ServerSetsCompression(threshold) PROVE ServerStep
    <2>1. Delivers("setCompression", threshold, 4)
      <3>1. threshold \in Int
        BY <1>3
      <3>2. srvCompression' = IF threshold >= 0 THEN threshold ELSE srvCompression
        BY <1>3, <3>1 DEF ServerSetsCompression
      <3> QED
        BY <1>3, <3>2 DEF Delivers, ServerSetsCompression
    <2> QED
      BY <1>3, <2>1 DEF ServerStep
  <1>4. ASSUME NEW op \in Ends, ServerMovesOn(op) PROVE ServerStep
    <2>1. Delivers(op, 0, 4)
      BY <1>4 DEF Delivers, ServerMovesOn
    <2> QED
      BY <1>4, <2>1 DEF ServerStep
  <1>5. ASSUME NEW op \in Refusals \cup {"other"}, NEW size \in Int, ServerWritesOther(op, size)
        PROVE  ServerStep
    <2>1. Delivers(op, sent + 1, size)
      BY <1>5 DEF Delivers, ServerWritesOther, ServerWritesOptional
    <2> QED
      BY <1>5, <2>1 DEF ServerStep
  <1>6. CASE ServerReads
    BY <1>6 DEF ServerStep
  <1> QED
    BY <1>1, <1>2, <1>3, <1>4, <1>5, <1>6 DEF Server, Ends

(***************************************************************************)
(* Types                                                                   *)
(***************************************************************************)
\* What the server writes joins the queue in its state and compression.
LEMMA Delivered ==
    ASSUME Typed, NEW op \in FromServerOps, NEW id \in Int, NEW size \in Int,
           ServerWrites(op, id, size)
    PROVE  /\ fromServer' \in Seq(FramesOf(FromServerOps))
           /\ \E frame \in FramesOf(FromServerOps) :
                 /\ fromServer' = Append(fromServer, frame)
                 /\ frame.op = op /\ frame.id = id /\ frame.phase = srvState
                 /\ Raw(frame) <=> srvCompression < 0
  <1> DEFINE frame == Frame(op, id, size, srvState, srvCompression)
  <1>1. fromServer' = Append(fromServer, frame)
    BY DEF ServerWrites
  <1>3. srvState \in Handshaking..Play /\ srvCompression \in Int
    BY DEF Typed
  <1>2. /\ frame \in FramesOf(FromServerOps)
        /\ frame.op = op /\ frame.id = id /\ frame.phase = srvState
        /\ Raw(frame) <=> srvCompression < 0
    BY <1>3 DEF Frame, FramesOf, Formats, Format, Raw
  <1>4. fromServer' \in Seq(FramesOf(FromServerOps))
    BY <1>1, <1>2, AppendProperties DEF Typed
  <1> QED
    BY <1>1, <1>2, <1>4

\* And what the client writes, in the state it has committed itself to.
LEMMA Sent ==
    ASSUME Typed, Committed \in Handshaking..Play, NEW op \in ToServerOps, NEW id \in Int,
           NEW size \in Int, Sends(op, id, size)
    PROVE  /\ toServer' \in Seq(FramesOf(ToServerOps))
           /\ \E frame \in FramesOf(ToServerOps) :
                 /\ toServer' = Append(toServer, frame)
                 /\ frame.op = op /\ frame.id = id /\ frame.phase = Committed
                 /\ Raw(frame) <=> compression < 0
  <1> DEFINE frame == Frame(op, id, size, Committed, compression)
  <1>1. toServer' = Append(toServer, frame)
    BY DEF Sends
  <1>3. compression \in Int
    BY DEF Typed
  <1>2. /\ frame \in FramesOf(ToServerOps)
        /\ frame.op = op /\ frame.id = id /\ frame.phase = Committed
        /\ Raw(frame) <=> compression < 0
    BY <1>3 DEF Frame, FramesOf, Formats, Format, Raw
  <1>4. toServer' \in Seq(FramesOf(ToServerOps))
    BY <1>1, <1>2, AppendProperties DEF Typed
  <1> QED
    BY <1>1, <1>2, <1>4

\* The state the client has committed itself to is one of the protocol.
LEMMA CommittedTyped == PcState => Committed \in Handshaking..Play
  BY DEF PcState, Committed, Handshaking, Login, Configuration, Play

\* A frame taken from the server.
LEMMA Taken ==
    ASSUME Typed, Takes
    PROVE  /\ fromServer' \in Seq(FramesOf(FromServerOps))
           /\ Packet \in FramesOf(FromServerOps)
           /\ Packet = fromServer[1]
  BY Popped DEF Typed, Takes, Packet

\* Which operations travel in which direction.
LEMMA OpsTyped ==
    /\ Requests \subseteq FromServerOps /\ Requests \subseteq ToServerOps
    /\ Retained \subseteq FromServerOps /\ Ends \subseteq FromServerOps
    /\ Turns \subseteq ToServerOps /\ Moves \subseteq Turns /\ Unblocks \subseteq Turns
    /\ Refusals \subseteq FromServerOps /\ {"setCompression", "other"} \subseteq FromServerOps
  BY DEF FromServerOps, ToServerOps, Turns

\* The state and the compression the server has announced, once a packet moves it on.
LEMMA ServerStateTyped ==
    ASSUME Typed, PcState, InPhase, toServer # <<>>, Head(toServer).op \in Moves
    PROVE  srvState + 1 \in Handshaking..Play
  <1>1. Committed \in Handshaking..Play
    BY CommittedTyped
  <1>2. Moved
    BY Popped DEF Moved, Typed
  <1> QED
    BY <1>1, <1>2 DEF InPhase, Ahead, Typed, Handshaking, Play

\* An answer on its way has been asked for.
LEMMA AskedHead ==
    ASSUME Typed, Answered, toServer # <<>>, Head(toServer).op \in Requests
    PROVE  asked # <<>>
  <1>1. Head(toServer) = toServer[1] /\ 1 \in DOMAIN toServer
    BY Popped DEF Typed
  <1>2. PICK k \in DOMAIN asked : asked[k] = RequestOf(toServer[1])
    BY <1>1 DEF Answered
  <1> QED
    BY <1>2

\* Types are preserved; that the server never passes Play, and never takes an answer it
\* did not ask for, needs the phases and the answers.
LEMMA TypeStep ==
    ASSUME Typed, PcState, InPhase, Answered, ClientStep \/ ServerStep
    PROVE  Typed'
  <1> USE OpsTyped
  <1>0. Committed \in Handshaking..Play
    BY CommittedTyped
  <1>1. CASE Idles
    BY <1>1 DEF Idles, Typed, progress
  <1>2. CASE Drops \/ Compresses \/ Keeps
    <2>1. /\ fromServer' \in Seq(FramesOf(FromServerOps)) /\ Packet.id \in Int
          /\ UNCHANGED <<toServer, progress>>
      BY <1>2, Taken DEF Drops, Compresses, Keeps, Takes, FramesOf
    <2>2. compression' \in Int
      BY <1>2, <2>1 DEF Drops, Compresses, Keeps, Typed
    <2> QED
      BY <2>1, <2>2 DEF Typed, progress
  <1>3. CASE SendsHandshake \/ SendsLoginStart \/ SendsInformation
    <2>1. \E op \in ToServerOps : Sends(op, 0, 4)
      BY <1>3 DEF SendsHandshake, SendsLoginStart, SendsInformation, ToServerOps, Turns, Moves,
                  Unblocks
    <2>2. toServer' \in Seq(FramesOf(ToServerOps))
      BY <1>0, <2>1, Sent
    <2>3. UNCHANGED <<progress, fromServer, compression>>
      BY <1>3 DEF SendsHandshake, SendsLoginStart, SendsInformation, Sends
    <2> QED
      BY <2>2, <2>3 DEF Typed, progress
  <1>4. CASE Answers \/ Acknowledges
    <2>1. fromServer' \in Seq(FramesOf(FromServerOps)) /\ Packet.id \in Int
      BY <1>4, Taken DEF Answers, Acknowledges, FramesOf
    <2>2. \E op \in ToServerOps, id \in Int, size \in Int : Sends(op, id, size)
      <3>1. CASE Answers
        BY <3>1, <2>1 DEF Answers
      <3>2. CASE Acknowledges
        <4>1. {"loginAcknowledged", "finishAcknowledged"} \subseteq ToServerOps
          BY DEF ToServerOps, Turns, Moves
        <4> QED
          BY <3>2, <4>1 DEF Acknowledges
      <3> QED
        BY <1>4, <3>1, <3>2
    <2>3. toServer' \in Seq(FramesOf(ToServerOps))
      BY <1>0, <2>2, Sent
    <2>4. UNCHANGED <<progress, compression>>
      BY <2>2 DEF Sends
    <2> QED
      BY <2>1, <2>3, <2>4 DEF Typed, progress
  <1>5. CASE ServerReads
    <2>1. toServer' \in Seq(FramesOf(ToServerOps))
      BY <1>5, Popped DEF ServerReads, Typed
    <2>2. srvState' \in Handshaking..Play
      BY <1>5, ServerStateTyped DEF ServerReads, Typed
    <2>3. asked' \in Seq([op : Requests, id : Int])
      BY <1>5, AskedHead, Popped DEF ServerReads, Typed
    <2>4. UNCHANGED <<fromServer, offered, sent, compression, srvCompression>> /\ srvWaits' \in BOOLEAN
      BY <1>5 DEF ServerReads, Typed, client, conn
    <2> QED
      BY <2>1, <2>2, <2>3, <2>4 DEF Typed
  <1>6. ASSUME NEW op \in FromServerOps, NEW id \in Int, NEW size \in Int, Delivers(op, id, size)
        PROVE  Typed'
    <2>1. fromServer' \in Seq(FramesOf(FromServerOps))
      BY <1>6, Delivered DEF Delivers
    <2>2. asked' \in Seq([op : Requests, id : Int])
      <3>1. CASE op \in Requests
        BY <1>6, <3>1, AppendProperties DEF Delivers, Typed
      <3> QED
        BY <1>6, <3>1 DEF Delivers, Typed
    <2>3. offered' \in Seq([op : Retained, id : Int])
      <3>1. CASE op \in Retained
        BY <1>6, <3>1, AppendProperties DEF Delivers, Typed
      <3> QED
        BY <1>6, <3>1 DEF Delivers, Typed
    <2>4. sent' \in Nat /\ srvCompression' \in Int
      BY <1>6 DEF Delivers, Typed
    <2>5. srvWaits' \in BOOLEAN
      BY <1>6 DEF Delivers, Typed
    <2> QED
      BY <1>6, <2>1, <2>2, <2>3, <2>4, <2>5 DEF Delivers, Typed, client, conn
  <1> QED
    BY <1>1, <1>2, <1>3, <1>4, <1>5, <1>6 DEF ClientStep, ServerStep


(***************************************************************************)
(* Phases                                                                  *)
(***************************************************************************)
\* Without a packet nothing changes.
LEMMA PhaseIdles == ASSUME Typed, InPhase, Idles PROVE InPhase'
  <1>1. UNCHANGED <<fromServer, toServer, srvState, srvWaits>> /\ Committed' = Committed
    BY DEF Idles, progress
  <1>2. FromInPhase' /\ ToInPhase' /\ OneTurn'
    BY <1>1 DEF InPhase, FromInPhase, ToInPhase, OneTurn
  <1>3. Moved' <=> Moved
    BY <1>1 DEF Moved
  <1>4. Ahead'
    BY <1>1, <1>3 DEF InPhase, Ahead
  <1>5. Starting'
    BY <1>1 DEF InPhase, Starting, Idles
  <1> QED
    BY <1>2, <1>4, <1>5 DEF InPhase

\* A frame taken without an answer.
LEMMA PhaseTakes ==
    ASSUME Typed, InPhase, Takes, UNCHANGED <<toServer, Committed>>
    PROVE  InPhase'
  <1>1. UNCHANGED <<toServer, srvState, srvWaits>> /\ Committed' = Committed
    BY DEF Takes, progress
  <1>2. FromInPhase'
    BY <1>1, Popped DEF InPhase, FromInPhase, Takes, Typed
  <1>3. ToInPhase' /\ OneTurn'
    BY <1>1, Popped DEF InPhase, ToInPhase, OneTurn, Takes, Typed
  <1>4. Ahead'
    BY <1>1 DEF InPhase, Ahead, Moved
  <1>5. Starting'
    BY <1>1 DEF InPhase, Starting, Takes
  <1> QED
    BY <1>2, <1>3, <1>4, <1>5 DEF InPhase


\* A packet written, on its own or as the answer to the frame taken.
LEMMA PhaseSends ==
    ASSUME Typed, PcState, InPhase, NEW op \in ToServerOps, NEW id \in Int, NEW size \in Int,
           Sends(op, id, size),
           UNCHANGED fromServer \/ Takes,
           op \in Turns => fromServer' = <<>> /\ srvWaits,
           op \in Moves => \A i \in DOMAIN toServer : toServer[i].op \notin Moves,
           op \in Unblocks => \A i \in DOMAIN toServer : toServer[i].op \notin Unblocks,
           op = "handshake" => toServer = <<>>,
           op = "loginStart" => Committed = Login,
           Committed' = IF op \in Moves THEN Committed + 1 ELSE Committed,
           Starting'
    PROVE  InPhase'
  <1> DEFINE n == Len(toServer) + 1
  <1>1. UNCHANGED <<srvState, srvWaits>>
    BY DEF Sends, progress
  <1>2. PICK frame \in FramesOf(ToServerOps) :
           /\ toServer' = Append(toServer, frame)
           /\ frame.op = op /\ frame.phase = Committed
    BY CommittedTyped, Sent
  <1>3. /\ DOMAIN toServer' = 1..n /\ n \in Nat /\ n > 0 /\ toServer'[n] = frame
        /\ \A i \in DOMAIN toServer : i \in Nat /\ i \in 1..n /\ i < n /\ toServer'[i] = toServer[i]
        /\ \A i \in 1..n : i \in DOMAIN toServer \/ i = n
        /\ DOMAIN toServer = 1..(n - 1)
    BY <1>2, Pushed DEF Typed
  <1>4. FromInPhase'
    <2>1. CASE UNCHANGED fromServer
      BY <1>1, <2>1 DEF InPhase, FromInPhase
    <2>2. CASE Takes
      BY <1>1, <2>2, Popped DEF InPhase, FromInPhase, Takes, Typed
    <2> QED
      BY <2>1, <2>2
  <1>5. fromServer = <<>> => fromServer' = <<>>
    BY DEF Takes
  <1>6. ToInPhase'
    <2> SUFFICES ASSUME NEW i \in 1..n
                 PROVE  /\ toServer'[i].op \in Turns => fromServer' = <<>> /\ srvWaits
                        /\ toServer'[i].op = "handshake" => i = 1
                        /\ toServer'[i].op = "loginStart" => toServer'[i].phase = Login
                        /\ toServer'[i].phase =
                             IF \E j \in 1..n : j < i /\ toServer'[j].op \in Moves
                             THEN srvState + 1 ELSE srvState
      BY <1>1, <1>3 DEF ToInPhase
    <2>1. CASE i \in DOMAIN toServer
      <3>1. (\E j \in 1..n : j < i /\ toServer'[j].op \in Moves)
              <=> (\E j \in DOMAIN toServer : j < i /\ toServer[j].op \in Moves)
        BY <1>3, <2>1
      <3>2. toServer'[i] = toServer[i]
        BY <1>3, <2>1
      <3> QED
        BY <1>5, <2>1, <3>1, <3>2 DEF InPhase, ToInPhase
    <2>2. CASE i = n
      <3>1. (\E j \in 1..n : j < i /\ toServer'[j].op \in Moves) <=> Moved
        BY <1>3, <2>2 DEF Moved
      <3>2. toServer'[i] = frame
        BY <1>3, <2>2
      <3>3. op = "handshake" => n = 1
        BY EmptySeq
      <3> QED
        BY <1>2, <2>2, <3>1, <3>2, <3>3 DEF InPhase, Ahead
    <2> QED
      BY <1>3, <2>1, <2>2
  <1>7. OneTurn'
    BY <1>2, <1>3 DEF InPhase, OneTurn
  <1>8. Ahead'
    <2>1. Moved' <=> Moved \/ op \in Moves
      BY <1>2, <1>3 DEF Moved
    <2>2. op \in Moves => ~Moved
      BY DEF Moved
    <2> QED
      BY <1>1, <2>1, <2>2 DEF InPhase, Ahead
  <1> QED
    BY <1>4, <1>6, <1>7, <1>8 DEF InPhase

\* The steps of the client keep the phases.  The acknowledgement is the delicate one:
\* the success it answers was the last frame, so the queue is empty behind it.
LEMMA PhaseClient == ASSUME Typed, PcState, InPhase, ClientStep PROVE InPhase'
  <1>1. CASE Idles
    BY <1>1, PhaseIdles
  <1>2. CASE Drops \/ Compresses \/ Keeps
    BY <1>2, PhaseTakes DEF Drops, Compresses, Keeps
  <1>3. CASE SendsHandshake
    <2>1. toServer = <<>> /\ fromServer = <<>> /\ srvWaits /\ srvState = Handshaking
      BY <1>3 DEF SendsHandshake, InPhase, Starting
    <2>2. "handshake" \in ToServerOps /\ "handshake" \in Moves /\ "handshake" \notin Unblocks
      BY DEF ToServerOps, Turns, Moves, Unblocks
    <2>3. Starting'
      <3>1. toServer' = <<Frame("handshake", 0, 4, Committed, compression)>>
        BY <1>3, <2>1, AppendProperties, EmptySeq DEF SendsHandshake, Sends
      <3>2. \A i \in DOMAIN toServer' : toServer'[i].op = "handshake"
        BY <3>1 DEF Frame
      <3> QED
        BY <1>3, <2>1, <2>2, <3>2 DEF SendsHandshake, Sends, progress, Starting
    <2> QED
      BY <1>3, <2>1, <2>2, <2>3, PhaseSends DEF SendsHandshake, Handshaking, Login
  <1>4. CASE SendsLoginStart
    <2>1. /\ fromServer = <<>> /\ srvWaits
          /\ \A i \in DOMAIN toServer : toServer[i].op \notin Unblocks
      BY <1>4 DEF SendsLoginStart, InPhase, Starting
    <2>2. "loginStart" \in ToServerOps /\ "loginStart" \notin Moves
      BY DEF ToServerOps, Turns, Moves, Unblocks
    <2>3. Starting'
      BY <1>4, <2>1 DEF SendsLoginStart, Sends, progress, Starting
    <2> QED
      BY <1>4, <2>1, <2>2, <2>3, PhaseSends DEF SendsLoginStart
  <1>5. CASE SendsInformation
    <2>1. "clientInformation" \in ToServerOps /\ "clientInformation" \notin Turns
      BY DEF ToServerOps, Turns, Moves, Unblocks
    <2>2. Starting'
      BY <1>5 DEF SendsInformation, Sends, progress, InPhase, Starting
    <2> QED
      BY <1>5, <2>1, <2>2, PhaseSends, OpsTyped DEF SendsInformation
  <1>6. CASE Answers
    <2>1. /\ Packet.op \in ToServerOps /\ Packet.op \notin Turns /\ Packet.id \in Int
      BY <1>6, Taken, OpsTyped DEF Answers, FramesOf, Requests, LoginRequests,
         ConfigurationRequests,
                                   Turns, Moves, Unblocks
    <2>2. Starting'
      BY <1>6 DEF Answers, Takes, progress, InPhase, Starting
    <2>3. Packet.op \notin Moves /\ Packet.op \notin Unblocks
          /\ Packet.op # "handshake" /\ Packet.op # "loginStart"
      BY <2>1, OpsTyped DEF Moves, Turns, Unblocks
    <2>4. /\ Takes /\ Sends(Packet.op, Packet.id, 4)
          /\ Committed' = IF Packet.op \in Moves THEN Committed + 1 ELSE Committed
      BY <1>6, <2>3 DEF Answers
    <2> QED
      BY <2>1, <2>2, <2>3, <2>4, PhaseSends
  <1>7. CASE Acknowledges
    <2>1. PICK op \in ToServerOps :
             Sends(op, 0, 1) /\ op \in Moves /\ op \in Unblocks /\ op # "handshake"
                             /\ op # "loginStart"
      BY <1>7 DEF Acknowledges, ToServerOps, Turns, Moves, Unblocks
    <2>3. srvWaits /\ Len(fromServer) = 1 /\ fromServer # <<>>
      BY <1>7, Taken, Popped DEF Acknowledges, Takes, InPhase, FromInPhase, Typed
    <2>4. fromServer' = <<>>
      <3>1. fromServer' \in Seq(FramesOf(FromServerOps)) /\ Len(fromServer') = 0
        BY <1>7, <2>3, Popped DEF Acknowledges, Takes, Typed
      <3> QED
        BY <3>1, EmptySeq
    <2>5. \A i \in DOMAIN toServer : toServer[i].op \notin Turns
      BY <2>3 DEF InPhase, ToInPhase
    <2>6. Starting'
      BY <1>7, <2>4 DEF Acknowledges, Takes, progress, InPhase, Starting
    <2>7. /\ Takes
          /\ Committed' = IF op \in Moves THEN Committed + 1 ELSE Committed
          /\ \A i \in DOMAIN toServer : toServer[i].op \notin Moves
          /\ \A i \in DOMAIN toServer : toServer[i].op \notin Unblocks
      BY <1>7, <2>1, <2>5, OpsTyped DEF Acknowledges
    <2> QED
      BY <2>1, <2>3, <2>4, <2>6, <2>7, PhaseSends
  <1> QED
    BY <1>1, <1>2, <1>3, <1>4, <1>5, <1>6, <1>7 DEF ClientStep


\* A packet of the server, which waits for nothing when it writes.
LEMMA PhaseDelivers ==
    ASSUME Typed, InPhase, NEW op \in FromServerOps, NEW id \in Int, NEW size \in Int,
           Delivers(op, id, size)
    PROVE  InPhase'
  <1> DEFINE n == Len(fromServer) + 1
  <1>1. /\ ~srvWaits
        /\ op = "setCompression" => srvState = Login
        /\ op \in Retained => srvState = Configuration
        /\ op \in Ends => srvWaits' = TRUE
        /\ op \notin Ends => UNCHANGED srvWaits
        /\ UNCHANGED <<pc, toServer, srvState, Committed>>
    BY DEF Delivers, ServerWrites, client, conn, Committed
  <1>2. PICK frame \in FramesOf(FromServerOps) :
           /\ fromServer' = Append(fromServer, frame)
           /\ frame.op = op /\ frame.phase = srvState
    BY Delivered DEF Delivers
  <1>3. /\ DOMAIN fromServer' = 1..n /\ Len(fromServer') = n /\ fromServer'[n] = frame
        /\ \A i \in DOMAIN fromServer : fromServer'[i] = fromServer[i]
        /\ \A i \in 1..n : i \in DOMAIN fromServer \/ i = n
    BY <1>2, Pushed DEF Typed
  <1>4. FromInPhase'
    BY <1>1, <1>2, <1>3 DEF InPhase, FromInPhase
  <1>5. \A i \in DOMAIN toServer : toServer[i].op \notin Turns
    BY <1>1 DEF InPhase, ToInPhase
  <1>6. ToInPhase' /\ OneTurn'
    BY <1>1, <1>5 DEF InPhase, ToInPhase, OneTurn
  <1>7. Ahead'
    BY <1>1 DEF InPhase, Ahead, Moved
  <1>8. Starting'
    BY <1>1 DEF InPhase, Starting
  <1> QED
    BY <1>4, <1>6, <1>7, <1>8 DEF InPhase

\* The server takes a frame.  If it moves the server on, every frame behind it was already
\* counted one state further.
LEMMA PhaseReads == ASSUME Typed, PcState, InPhase, ServerReads PROVE InPhase'
  <1> DEFINE op == Head(toServer).op
  <1> HIDE DEF op
  <1>1. /\ toServer # <<>> /\ toServer' = Tail(toServer)
        /\ srvState' = IF op \in Moves THEN srvState + 1 ELSE srvState
        /\ srvWaits' = IF op \in Unblocks THEN FALSE ELSE srvWaits
        /\ UNCHANGED <<fromServer, pc, Committed>>
    BY DEF ServerReads, Unblocks, client, conn, Committed, op
  <1>2. /\ op = toServer[1].op /\ 1 \in DOMAIN toServer /\ DOMAIN toServer \subseteq Nat \ {0}
        /\ \A i \in DOMAIN toServer' :
              i \in Nat /\ i > 0 /\ i + 1 \in DOMAIN toServer /\ toServer'[i] = toServer[i + 1]
        /\ \A i \in DOMAIN toServer :
              i = 1 \/ (i - 1 \in DOMAIN toServer' /\ toServer'[i - 1] = toServer[i])
    BY <1>1, Popped DEF Typed, op
  <1>3. op \in Turns => fromServer = <<>> /\ srvWaits
    BY <1>2 DEF InPhase, ToInPhase
  <1>4. FromInPhase'
    BY <1>1, <1>3, OpsTyped DEF InPhase, FromInPhase
  <1>5. /\ op \in Moves => \A i \in DOMAIN toServer' : toServer'[i].op \notin Moves
        /\ op \in Unblocks => \A i \in DOMAIN toServer' : toServer'[i].op \notin Unblocks
        /\ \A i \in DOMAIN toServer' : toServer'[i].op # "handshake"
    BY <1>2 DEF InPhase, OneTurn, ToInPhase
  <1>6. ASSUME NEW i \in DOMAIN toServer'
        PROVE  /\ toServer'[i].op \in Turns => fromServer = <<>> /\ srvWaits'
               /\ toServer'[i].op = "loginStart" => toServer'[i].phase = Login
    <2>1. /\ toServer'[i].op \in Turns => fromServer = <<>> /\ srvWaits
          /\ toServer'[i].op = "loginStart" => toServer'[i].phase = Login
      BY <1>2 DEF InPhase, ToInPhase
    <2>2. toServer'[i].op \in Turns => toServer'[i].op \in Unblocks
      BY <1>5 DEF Turns, Moves, Unblocks
    <2> QED
      BY <1>1, <1>5, <2>1, <2>2
  <1>7. ASSUME NEW i \in DOMAIN toServer'
        PROVE  toServer'[i].phase =
                 IF \E j \in DOMAIN toServer' : j < i /\ toServer'[j].op \in Moves
                 THEN srvState' + 1 ELSE srvState'
    <2>1. /\ i + 1 \in DOMAIN toServer /\ toServer'[i] = toServer[i + 1]
          /\ toServer[i + 1].phase =
               IF \E j \in DOMAIN toServer : j < i + 1 /\ toServer[j].op \in Moves
               THEN srvState + 1 ELSE srvState
      BY <1>2 DEF InPhase, ToInPhase
    <2>2. (\E j \in DOMAIN toServer : j < i + 1 /\ toServer[j].op \in Moves)
            <=> op \in Moves \/ \E j \in DOMAIN toServer' : j < i /\ toServer'[j].op \in Moves
      BY <1>2
    <2> QED
      BY <1>1, <1>5, <2>1, <2>2
  <1>8. ToInPhase'
    BY <1>1, <1>5, <1>6, <1>7 DEF ToInPhase
  <1>9. OneTurn'
    BY <1>2 DEF InPhase, OneTurn
  <1>10. Ahead'
    <2>1. Moved <=> op \in Moves \/ Moved'
      BY <1>2 DEF Moved
    <2>2. op \in Moves => ~Moved'
      BY <1>5 DEF Moved
    <2> QED
      BY <1>1, <2>1, <2>2 DEF InPhase, Ahead
  <1>11. Starting'
    <2>1. ASSUME pc \in {"dial", "handshake", "loginStart"}
          PROVE  /\ srvWaits' /\ fromServer = <<>>
                 /\ \A i \in DOMAIN toServer' : toServer'[i].op \notin Unblocks
      <3>1. op \notin Unblocks
        BY <1>2, <2>1 DEF InPhase, Starting
      <3> QED
        BY <1>1, <1>2, <2>1, <3>1 DEF InPhase, Starting
    <2>2. pc \notin {"dial", "handshake"}
      BY <1>1 DEF InPhase, Starting
    <2>3. ASSUME srvState' = Handshaking PROVE srvWaits' /\ fromServer = <<>>
      <3>1. srvState = Handshaking /\ op \notin Moves
        BY <1>1, <2>3 DEF Typed, Handshaking, Play
      <3>2. toServer[1].phase = srvState
        BY <1>2 DEF InPhase, ToInPhase
      <3>3. op # "loginStart"
        BY <1>2, <3>1, <3>2 DEF InPhase, ToInPhase, Handshaking, Login
      <3>4. op \notin Unblocks
        BY <3>1, <3>3 DEF Moves, Unblocks
      <3> QED
        BY <1>1, <3>1, <3>4 DEF InPhase, Starting
    <2> QED
      BY <1>1, <2>1, <2>2, <2>3 DEF Starting
  <1> QED
    BY <1>4, <1>8, <1>9, <1>10, <1>11 DEF InPhase

\* Together: the phases are preserved.
LEMMA PhaseStep == ASSUME Typed, PcState, InPhase, ClientStep \/ ServerStep PROVE InPhase'
  BY PhaseClient, PhaseReads, PhaseDelivers DEF ServerStep


(***************************************************************************)
(* Refinement                                                              *)
(***************************************************************************)
\* Every step is one of LoginPhases, or none of its variables changes.
LEMMA PhasesStep ==
    ASSUME Typed, PcState, InPhase, ClientStep \/ ServerStep
    PROVE  [Phases!Next]_(Phases!vars)
  <1> USE DEF Phases!Next, Phases!vars, Phases!ClientCommits, Phases!ServerFollows,
              Phases!Succeed, Phases!Fail, Phases!Play, Play
  <1>1. CASE Idles
    BY <1>1 DEF Idles, progress
  <1>2. CASE Drops \/ Compresses \/ Keeps
    BY <1>2 DEF Drops, Compresses, Keeps, Takes, progress
  <1>3. CASE SendsHandshake
    <2>1. Committed = srvState
      BY <1>3 DEF SendsHandshake, InPhase, Starting
    <2> QED
      BY <1>3, <2>1 DEF SendsHandshake, Sends, progress, Handshaking, Login
  <1>4. CASE SendsLoginStart \/ SendsInformation
    BY <1>4 DEF SendsLoginStart, SendsInformation, Sends, progress
  <1>5. CASE Answers
    BY <1>5 DEF Answers, Sends, progress
  <1>6. CASE Acknowledges
    <2>1. ~Moved
      BY <1>6 DEF Acknowledges, Takes, InPhase, ToInPhase, Moved, Turns
    <2>2. Committed = srvState
      BY <2>1 DEF InPhase, Ahead
    <2>3. outcome = "running" /\ UNCHANGED <<outcome, srvState>>
      BY <1>6 DEF Acknowledges, Sends, Takes, progress
    <2> QED
      BY <1>6, <2>2, <2>3 DEF Acknowledges
  <1>7. CASE ServerReads
    <2>1. UNCHANGED <<Committed, outcome>>
      BY <1>7 DEF ServerReads, client, conn, Committed
    <2>2. CASE Head(toServer).op \in Moves
      <3>1. Moved
        BY <1>7, <2>2, Popped DEF ServerReads, Moved, Typed
      <3>2. srvState < Committed /\ srvState' = srvState + 1
        BY <1>7, <2>2, <3>1 DEF ServerReads, InPhase, Ahead, Typed, Handshaking
      <3> QED
        BY <2>1, <3>2
    <2>3. CASE Head(toServer).op \notin Moves
      BY <1>7, <2>1, <2>3 DEF ServerReads
    <2> QED
      BY <2>2, <2>3
  <1>8. ASSUME NEW op \in FromServerOps, NEW id \in Int, NEW size \in Int, Delivers(op, id, size)
        PROVE  UNCHANGED <<Committed, srvState, outcome>>
    BY <1>8 DEF Delivers, client, conn, Committed
  <1> QED
    BY <1>1, <1>2, <1>3, <1>4, <1>5, <1>6, <1>7, <1>8 DEF ClientStep, ServerStep


(***************************************************************************)
(* Answers                                                                 *)
(***************************************************************************)
\* A step that moves no request: the requests and answers of the queues stay, those
\* from the server perhaps one place ahead.
LEMMA AnsweredQuiet ==
    ASSUME Typed, Typed', Answered, UNCHANGED asked, sent <= sent',
           \A i \in DOMAIN toServer : i \in DOMAIN toServer' /\ toServer'[i] = toServer[i],
           \A i \in DOMAIN toServer' : toServer'[i].op \in Requests => i \in DOMAIN toServer,
           NEW d \in {0, 1},
           \A i \in DOMAIN fromServer' : fromServer'[i].op \in Requests =>
              i + d \in DOMAIN fromServer /\ fromServer'[i] = fromServer[i + d],
           outcome' # "error" =>
              /\ outcome # "error"
              /\ \A i \in DOMAIN fromServer : fromServer[i].op \in Requests =>
                    i - d \in DOMAIN fromServer' /\ fromServer'[i - d] = fromServer[i]
    PROVE  Answered'
  <1>1. DOMAIN fromServer' \subseteq Int /\ DOMAIN fromServer \subseteq Int /\ sent \in Int /\ sent' \in Int
    BY LenProperties DEF Typed
  <1>2. /\ \A k \in DOMAIN asked' : asked'[k].id \in 1..sent'
        /\ \A j, k \in DOMAIN asked' : j < k => asked'[j].id < asked'[k].id
    BY <1>1 DEF Answered
  <1>3. /\ \A i \in DOMAIN toServer' : toServer'[i].op \in Requests =>
              \E k \in DOMAIN asked' : asked'[k] = RequestOf(toServer'[i])
        /\ \A i, j \in DOMAIN toServer' :
              toServer'[i].op \in Requests /\ toServer'[j].op \in Requests /\ i < j =>
                 toServer'[i].id < toServer'[j].id
    BY DEF Answered
  <1>4. Answering' = Answering
    <2>1. \A id : id \in Answering' <=> id \in Answering
      BY DEF Answering
    <2> QED
      BY <2>1
  <1>5. \A k \in DOMAIN asked' : asked'[k].id \notin Answering' =>
           \A i \in DOMAIN toServer' : toServer'[i].op \in Requests => toServer'[i].id < asked'[k].id
    BY <1>4 DEF Answered
  <1>6. \A i \in DOMAIN fromServer' : fromServer'[i].op \in Requests =>
           /\ \E k \in DOMAIN asked' : asked'[k] = RequestOf(fromServer'[i])
           /\ \A j \in DOMAIN toServer' : toServer'[j].op \in Requests => toServer'[j].id < fromServer'[i].id
    BY DEF Answered
  <1>7. \A i, j \in DOMAIN fromServer' :
           fromServer'[i].op \in Requests /\ fromServer'[j].op \in Requests /\ i < j =>
              fromServer'[i].id < fromServer'[j].id
    BY <1>1 DEF Answered
  <1>8. outcome' # "error" =>
           \A k \in DOMAIN asked' : asked'[k].id \in Answering' \cup Asking'
    <2>1. outcome' # "error" => Asking \subseteq Asking'
      BY DEF Asking
    <2> QED
      BY <1>4, <2>1 DEF Answered
  <1> QED
    BY <1>2, <1>3, <1>5, <1>6, <1>7, <1>8 DEF Answered


\* A request is answered: its number leaves one queue for the end of the other, beyond
\* all answers there and before all requests still to come.
LEMMA AnsweredAnswers ==
    ASSUME Typed, Typed', PcState, Answered, Answers
    PROVE  Answered'
  <1> DEFINE n == Len(toServer) + 1
  <1>1. /\ fromServer # <<>> /\ fromServer' = Tail(fromServer) /\ outcome = "running"
        /\ UNCHANGED <<asked, sent>>
        /\ Packet = fromServer[1] /\ Packet.op \in Requests /\ Packet.id \in Int
        /\ Sends(Packet.op, Packet.id, 4)
    BY Taken DEF Answers, Takes, progress, FramesOf
  <1>2. PICK frame \in FramesOf(ToServerOps) :
           toServer' = Append(toServer, frame) /\ frame.op = Packet.op /\ frame.id = Packet.id
    BY <1>1, CommittedTyped, Sent, OpsTyped
  <1>3. /\ DOMAIN toServer' = 1..n /\ n \in Nat /\ n > 0 /\ toServer'[n] = frame
        /\ \A i \in DOMAIN toServer : i \in 1..n /\ i < n /\ toServer'[i] = toServer[i]
        /\ \A i \in 1..n : i \in DOMAIN toServer \/ i = n
    BY <1>2, Pushed DEF Typed
  <1>4. /\ 1 \in DOMAIN fromServer
        /\ \A i \in DOMAIN fromServer' :
              i \in Nat /\ i > 0 /\ i + 1 \in DOMAIN fromServer /\ fromServer'[i] = fromServer[i + 1]
        /\ \A i \in DOMAIN fromServer :
              i = 1 \/ (i - 1 \in DOMAIN fromServer' /\ fromServer'[i - 1] = fromServer[i])
    BY <1>1, Popped DEF Typed
  <1>5. /\ \A i \in DOMAIN toServer : toServer[i].op \in Requests => toServer[i].id < Packet.id
        /\ \A i \in DOMAIN fromServer' : fromServer'[i].op \in Requests => Packet.id < fromServer'[i].id
        /\ \E k \in DOMAIN asked : asked[k] = RequestOf(Packet)
    <2>1. \A i \in DOMAIN fromServer' : fromServer'[i].op \in Requests => Packet.id < fromServer'[i].id
      BY <1>1, <1>4 DEF Answered
    <2> QED
      BY <1>1, <1>4, <2>1 DEF Answered
  <1>6. /\ \A k \in DOMAIN asked' : asked'[k].id \in 1..sent'
        /\ \A j, k \in DOMAIN asked' : j < k => asked'[j].id < asked'[k].id
    BY <1>1 DEF Answered
  <1>7. \A i \in DOMAIN toServer' : toServer'[i].op \in Requests =>
           \E k \in DOMAIN asked' : asked'[k] = RequestOf(toServer'[i])
    <2>1. RequestOf(frame) = RequestOf(Packet)
      BY <1>2 DEF RequestOf
    <2> QED
      BY <1>1, <1>3, <1>5, <2>1 DEF Answered
  <1>8. \A i, j \in DOMAIN toServer' :
           toServer'[i].op \in Requests /\ toServer'[j].op \in Requests /\ i < j =>
              toServer'[i].id < toServer'[j].id
    BY <1>2, <1>3, <1>5 DEF Answered
  <1>9. Answering' = Answering \cup {Packet.id}
    <2>1. \A id : id \in Answering' <=> id \in Answering \cup {Packet.id}
      BY <1>1, <1>2, <1>3 DEF Answering
    <2> QED
      BY <2>1
  <1>10. Asking \subseteq Asking' \cup {Packet.id}
    BY <1>1, <1>4 DEF Asking
  <1>11. \A k \in DOMAIN asked' : asked'[k].id \in Answering' \cup Asking'
    BY <1>1, <1>9, <1>10 DEF Answered
  <1>12. \A id \in Asking' : Packet.id < id
    BY <1>5 DEF Asking
  <1>13. \A k \in DOMAIN asked' : asked'[k].id \notin Answering' =>
            \A i \in DOMAIN toServer' : toServer'[i].op \in Requests => toServer'[i].id < asked'[k].id
    <2> SUFFICES ASSUME NEW k \in DOMAIN asked, asked[k].id \notin Answering',
                        NEW i \in DOMAIN toServer', toServer'[i].op \in Requests
                 PROVE  toServer'[i].id < asked[k].id
      BY <1>1
    <2>1. Packet.id < asked[k].id
      BY <1>1, <1>11, <1>12
    <2>2. asked[k].id \notin Answering
      BY <1>9
    <2> QED
      BY <1>2, <1>3, <2>1, <2>2 DEF Answered
  <1>14. \A i \in DOMAIN fromServer' : fromServer'[i].op \in Requests =>
            /\ \E k \in DOMAIN asked' : asked'[k] = RequestOf(fromServer'[i])
            /\ \A j \in DOMAIN toServer' : toServer'[j].op \in Requests => toServer'[j].id < fromServer'[i].id
    BY <1>1, <1>2, <1>3, <1>4, <1>5 DEF Answered
  <1>15. \A i, j \in DOMAIN fromServer' :
            fromServer'[i].op \in Requests /\ fromServer'[j].op \in Requests /\ i < j =>
               fromServer'[i].id < fromServer'[j].id
    BY <1>4 DEF Answered
  <1> QED
    BY <1>6, <1>7, <1>8, <1>11, <1>13, <1>14, <1>15 DEF Answered

\* The answer at the head is to the first request.
LEMMA HeadAnswered ==
    ASSUME Typed, Answered, toServer # <<>>, Head(toServer).op \in Requests
    PROVE  /\ asked # <<>>
           /\ Head(asked) = RequestOf(Head(toServer))
           /\ Head(asked) = asked[1] /\ Head(toServer) = toServer[1]
  <1>1. /\ Head(toServer) = toServer[1] /\ 1 \in DOMAIN toServer
        /\ DOMAIN toServer \subseteq Nat \ {0}
    BY Popped DEF Typed
  <1>2. asked # <<>>
    BY AskedHead
  <1>3. /\ Head(asked) = asked[1] /\ 1 \in DOMAIN asked
        /\ DOMAIN asked \subseteq Nat \ {0}
    BY <1>2, Popped DEF Typed
  <1>4. PICK k \in DOMAIN asked : asked[k] = RequestOf(toServer[1])
    BY <1>1 DEF Answered
  <1>5. k = 1
    <2> SUFFICES ASSUME k # 1 PROVE FALSE
      OBVIOUS
    <2>1. /\ asked[1].id < asked[k].id /\ asked[k].id = toServer[1].id
          /\ asked[1].id \in Int /\ asked[k].id \in Int
      BY <1>3, <1>4 DEF Answered, RequestOf
    <2>2. CASE asked[1].id \in Answering
      <3>1. PICK i \in DOMAIN toServer : toServer[i].op \in Requests /\ toServer[i].id = asked[1].id
        BY <2>2 DEF Answering
      <3>2. i # 1 => toServer[1].id < toServer[i].id
        BY <1>1, <3>1 DEF Answered
      <3> QED
        BY <2>1, <3>1, <3>2
    <2>3. CASE asked[1].id \notin Answering
      <3>1. toServer[1].id < asked[1].id
        BY <1>1, <1>3, <2>3 DEF Answered
      <3> QED
        BY <2>1, <3>1
    <2> QED
      BY <2>2, <2>3
  <1> QED
    BY <1>1, <1>2, <1>3, <1>4, <1>5


\* The server takes an answer, to its first request, or another packet.
LEMMA AnsweredReads ==
    ASSUME Typed, Typed', Answered, ServerReads
    PROVE  Answered'
  <1>1. /\ toServer # <<>> /\ toServer' = Tail(toServer)
        /\ UNCHANGED <<fromServer, sent, outcome>>
    BY DEF ServerReads, client
  <1>2. /\ 1 \in DOMAIN toServer /\ Head(toServer) = toServer[1]
        /\ DOMAIN toServer \subseteq Int
        /\ \A i \in DOMAIN toServer' :
              i \in Nat /\ i > 0 /\ i + 1 \in DOMAIN toServer /\ toServer'[i] = toServer[i + 1]
        /\ \A i \in DOMAIN toServer :
              i = 1 \/ (i - 1 \in DOMAIN toServer' /\ toServer'[i - 1] = toServer[i])
    BY <1>1, Popped DEF Typed
  <1>3. Answering' \subseteq Answering
    BY <1>2 DEF Answering
  <1>4. Asking' = Asking
    BY <1>1 DEF Asking
  <1>5. \A i, j \in DOMAIN toServer' :
           toServer'[i].op \in Requests /\ toServer'[j].op \in Requests /\ i < j =>
              toServer'[i].id < toServer'[j].id
    BY <1>2 DEF Answered
  <1>6. \A i, j \in DOMAIN fromServer' :
           fromServer'[i].op \in Requests /\ fromServer'[j].op \in Requests /\ i < j =>
              fromServer'[i].id < fromServer'[j].id
    BY <1>1 DEF Answered
  <1>7. CASE toServer[1].op \notin Requests
    <2>1. asked' = asked
      BY <1>2, <1>7 DEF ServerReads
    <2>2. Answering' = Answering
      <3>1. Answering \subseteq Answering'
        BY <1>2, <1>7 DEF Answering
      <3> QED
        BY <1>3, <3>1
    <2>3. \A k \in DOMAIN asked' : asked'[k].id \notin Answering' =>
             \A i \in DOMAIN toServer' : toServer'[i].op \in Requests => toServer'[i].id < asked'[k].id
      BY <1>2, <2>1, <2>2 DEF Answered
    <2>4. /\ \A k \in DOMAIN asked' : asked'[k].id \in 1..sent'
          /\ \A j, k \in DOMAIN asked' : j < k => asked'[j].id < asked'[k].id
      BY <1>1, <2>1 DEF Answered
    <2>5. \A i \in DOMAIN toServer' : toServer'[i].op \in Requests =>
             \E k \in DOMAIN asked' : asked'[k] = RequestOf(toServer'[i])
      BY <1>2, <2>1 DEF Answered
    <2>6. \A i \in DOMAIN fromServer' : fromServer'[i].op \in Requests =>
             /\ \E k \in DOMAIN asked' : asked'[k] = RequestOf(fromServer'[i])
             /\ \A j \in DOMAIN toServer' : toServer'[j].op \in Requests => toServer'[j].id < fromServer'[i].id
      BY <1>1, <1>2, <2>1 DEF Answered
    <2>7. outcome' # "error" => \A k \in DOMAIN asked' : asked'[k].id \in Answering' \cup Asking'
      BY <1>1, <1>4, <2>1, <2>2 DEF Answered
    <2> QED
      BY <1>5, <1>6, <2>3, <2>4, <2>5, <2>6, <2>7 DEF Answered
  <1>8. CASE toServer[1].op \in Requests
    <2>1. /\ asked # <<>> /\ asked' = Tail(asked) /\ asked[1] = RequestOf(toServer[1])
      BY <1>1, <1>2, <1>8, HeadAnswered DEF ServerReads
    <2>2. /\ 1 \in DOMAIN asked /\ DOMAIN asked \subseteq Int
          /\ \A k \in DOMAIN asked' :
                k \in Nat /\ k > 0 /\ k + 1 \in DOMAIN asked /\ asked'[k] = asked[k + 1]
          /\ \A k \in DOMAIN asked :
                k = 1 \/ (k - 1 \in DOMAIN asked' /\ asked'[k - 1] = asked[k])
      BY <2>1, Popped, SMTT(60) DEF Typed
    <2>3. asked[1].id = toServer[1].id /\ asked[1].id \in Int
      BY <2>1, <2>2 DEF RequestOf, Answered
    <2>4. \A k \in DOMAIN asked' : asked[1].id < asked'[k].id /\ asked'[k].id \in Int
      BY <2>2 DEF Answered
    <2>5. Answering \subseteq Answering' \cup {asked[1].id}
      BY <1>2, <2>3 DEF Answering
    <2>6. \A k \in DOMAIN asked' : asked'[k].id \in Answering <=> asked'[k].id \in Answering'
      BY <1>3, <2>4, <2>5
    <2>7. \A k \in DOMAIN asked' : asked'[k].id \notin Answering' =>
             \A i \in DOMAIN toServer' : toServer'[i].op \in Requests => toServer'[i].id < asked'[k].id
      BY <1>2, <2>2, <2>6 DEF Answered
    <2>8. /\ \A k \in DOMAIN asked' : asked'[k].id \in 1..sent'
          /\ \A j, k \in DOMAIN asked' : j < k => asked'[j].id < asked'[k].id
      <3>1. \A k \in DOMAIN asked' : asked'[k].id \in 1..sent'
        BY <1>1, <2>2 DEF Answered
      <3>2. ASSUME NEW j \in DOMAIN asked', NEW k \in DOMAIN asked', j < k
            PROVE  asked'[j].id < asked'[k].id
        <4>1. j + 1 \in DOMAIN asked /\ k + 1 \in DOMAIN asked /\ j + 1 < k + 1
          BY <2>2, <3>2
        <4>2. asked[j + 1].id < asked[k + 1].id
          BY <4>1 DEF Answered
        <4> QED
          BY <2>2, <4>2
      <3> QED
        BY <3>1, <3>2
    <2>9. \A i \in DOMAIN toServer' : toServer'[i].op \in Requests => toServer[1].id < toServer'[i].id
      BY <1>2, <1>8 DEF Answered
    <2>10. \A frame : (\E k \in DOMAIN asked : asked[k] = RequestOf(frame)) /\ asked[1].id < frame.id =>
              \E k \in DOMAIN asked' : asked'[k] = RequestOf(frame)
      <3> SUFFICES ASSUME NEW frame, NEW k \in DOMAIN asked, asked[k] = RequestOf(frame),
                          asked[1].id < frame.id
                   PROVE  \E m \in DOMAIN asked' : asked'[m] = RequestOf(frame)
        OBVIOUS
      <3>1. asked[k].id = frame.id
        BY DEF RequestOf
      <3>2. k # 1
        BY <2>3, <3>1
      <3> QED
        BY <2>2, <3>2
    <2>11. \A i \in DOMAIN toServer' : toServer'[i].op \in Requests =>
              \E k \in DOMAIN asked' : asked'[k] = RequestOf(toServer'[i])
      BY <1>2, <2>3, <2>9, <2>10 DEF Answered
    <2>12. \A i \in DOMAIN fromServer' : fromServer'[i].op \in Requests =>
              /\ \E k \in DOMAIN asked' : asked'[k] = RequestOf(fromServer'[i])
              /\ \A j \in DOMAIN toServer' : toServer'[j].op \in Requests => toServer'[j].id < fromServer'[i].id
      BY <1>1, <1>2, <1>8, <2>3, <2>10 DEF Answered
    <2>13. outcome' # "error" => \A k \in DOMAIN asked' : asked'[k].id \in Answering' \cup Asking'
      BY <1>1, <1>4, <2>2, <2>6 DEF Answered
    <2> QED
      BY <1>5, <1>6, <2>7, <2>8, <2>11, <2>12, <2>13 DEF Answered
  <1> QED
    BY <1>7, <1>8

\* The server asks, with a number beyond all, or sends something else.
LEMMA AnsweredAsks ==
    ASSUME Typed, Typed', Answered, NEW op \in FromServerOps, NEW id \in Int, NEW size \in Int,
           Delivers(op, id, size)
    PROVE  Answered'
  <1> DEFINE n == Len(fromServer) + 1
  <1>1. PICK frame \in FramesOf(FromServerOps) :
           fromServer' = Append(fromServer, frame) /\ frame.op = op /\ frame.id = id
    BY Delivered DEF Delivers
  <1>2. /\ DOMAIN fromServer' = 1..n /\ n \in Nat /\ fromServer'[n] = frame
        /\ \A i \in DOMAIN fromServer : i \in 1..n /\ i < n /\ fromServer'[i] = fromServer[i]
        /\ \A i \in 1..n : i \in DOMAIN fromServer \/ i = n
    BY <1>1, Pushed DEF Typed
  <1>3. UNCHANGED <<toServer, outcome>> /\ sent \in Nat /\ sent' \in Nat /\ sent <= sent'
    BY DEF Delivers, client, Typed
  <1>4. CASE op \notin Requests
    <2>1. asked' = asked
      BY <1>4 DEF Delivers
    <2>2. \A i \in DOMAIN fromServer' : fromServer'[i].op \in Requests =>
             i + 0 \in DOMAIN fromServer /\ fromServer'[i] = fromServer[i + 0]
      BY <1>1, <1>2, <1>4
    <2>3. \A i \in DOMAIN fromServer : i - 0 \in DOMAIN fromServer' /\ fromServer'[i - 0] = fromServer[i]
      BY <1>2
    <2>4. 0 \in {0, 1}
      OBVIOUS
    <2> QED
      BY <1>3, <2>1, <2>2, <2>3, <2>4, AnsweredQuiet
  <1>5. CASE op \in Requests
    <2> DEFINE m == Len(asked) + 1
    <2>1. id = sent + 1 /\ sent' = sent + 1 /\ asked' = Append(asked, [op |-> op, id |-> id])
      BY <1>5 DEF Delivers
    <2>2. /\ DOMAIN asked' = 1..m /\ m \in Nat /\ m > 0 /\ asked'[m] = [op |-> op, id |-> id]
          /\ \A k \in DOMAIN asked : k \in 1..m /\ k < m /\ asked'[k] = asked[k]
          /\ \A k \in 1..m : k \in DOMAIN asked \/ k = m
      <3>1. [op |-> op, id |-> id] \in [op : Requests, id : Int]
        BY <1>5
      <3>2. asked \in Seq([op : Requests, id : Int])
        BY DEF Typed
      <3> DEFINE entry == [op |-> op, id |-> id]
      <3> HIDE DEF entry
      <3>3. asked' = Append(asked, entry) /\ entry \in [op : Requests, id : Int]
        BY <2>1, <3>1 DEF entry
      <3>4. /\ DOMAIN asked' = 1..m /\ m \in Nat /\ m > 0 /\ asked'[m] = entry
            /\ \A k \in DOMAIN asked : k \in 1..m /\ k < m /\ asked'[k] = asked[k]
            /\ \A k \in 1..m : k \in DOMAIN asked \/ k = m
        BY <3>2, <3>3, Pushed
      <3> QED
        BY <3>4 DEF entry
    <2>3. \A k \in DOMAIN asked : asked[k].id \in 1..sent
      BY DEF Answered
    <2>4. /\ \A k \in DOMAIN asked' : asked'[k].id \in 1..sent'
          /\ \A j, k \in DOMAIN asked' : j < k => asked'[j].id < asked'[k].id
      BY <1>3, <2>1, <2>2, <2>3 DEF Answered
    <2>5. \A i \in DOMAIN toServer : toServer[i].op \in Requests => toServer[i].id \in 1..sent
      BY <2>3 DEF Answered, RequestOf
    <2>6. \A i \in DOMAIN fromServer : fromServer[i].op \in Requests => fromServer[i].id \in 1..sent
      BY <2>3 DEF Answered, RequestOf
    <2>7. \A i \in DOMAIN toServer' : toServer'[i].op \in Requests =>
             \E k \in DOMAIN asked' : asked'[k] = RequestOf(toServer'[i])
      BY <1>3, <2>2 DEF Answered
    <2>8. \A i, j \in DOMAIN toServer' :
             toServer'[i].op \in Requests /\ toServer'[j].op \in Requests /\ i < j =>
                toServer'[i].id < toServer'[j].id
      BY <1>3 DEF Answered
    <2>9. Answering' = Answering
      BY <1>3 DEF Answering
    <2>10. \A k \in DOMAIN asked' : asked'[k].id \notin Answering' =>
              \A i \in DOMAIN toServer' : toServer'[i].op \in Requests => toServer'[i].id < asked'[k].id
      BY <1>3, <2>1, <2>2, <2>5, <2>9 DEF Answered
    <2>11. \A i \in DOMAIN fromServer' : fromServer'[i].op \in Requests =>
              /\ \E k \in DOMAIN asked' : asked'[k] = RequestOf(fromServer'[i])
              /\ \A j \in DOMAIN toServer' : toServer'[j].op \in Requests => toServer'[j].id < fromServer'[i].id
      <3>1. RequestOf(frame) = [op |-> op, id |-> id]
        BY <1>1 DEF RequestOf
      <3> QED
        BY <1>1, <1>2, <1>3, <2>1, <2>2, <2>5, <3>1 DEF Answered
    <2>12. \A i, j \in DOMAIN fromServer' :
              fromServer'[i].op \in Requests /\ fromServer'[j].op \in Requests /\ i < j =>
                 fromServer'[i].id < fromServer'[j].id
      BY <1>1, <1>2, <1>3, <2>1, <2>6 DEF Answered
    <2>13. Asking' = Asking \cup {id}
      <3>1. \A other : other \in Asking' <=> other \in Asking \cup {id}
        BY <1>1, <1>2, <1>5 DEF Asking
      <3> QED
        BY <3>1
    <2>14. outcome' # "error" => \A k \in DOMAIN asked' : asked'[k].id \in Answering' \cup Asking'
      BY <1>3, <2>2, <2>9, <2>13 DEF Answered
    <2> QED
      BY <2>4, <2>7, <2>8, <2>10, <2>11, <2>12, <2>14 DEF Answered
  <1> QED
    BY <1>4, <1>5

\* Together: requests and answers stay in order.
LEMMA AnsweredStep ==
    ASSUME Typed, Typed', PcState, Answered, ClientStep \/ ServerStep
    PROVE  Answered'
  <1>0. 0 \in {0, 1} /\ 1 \in {0, 1} /\ sent \in Nat
    BY DEF Typed
  <1>1. CASE Idles
    <2>1. UNCHANGED <<asked, sent, toServer, fromServer>> /\ (outcome' # "error" => outcome # "error")
      BY <1>1 DEF Idles, progress
    <2>2. \A i \in DOMAIN fromServer : i + 0 = i /\ i - 0 = i
      BY LenProperties DEF Typed
    <2> QED
      BY <1>0, <2>1, <2>2, AnsweredQuiet
  <1>2. ASSUME Takes, UNCHANGED asked, sent' = sent,
               \A i \in DOMAIN toServer : i \in DOMAIN toServer' /\ toServer'[i] = toServer[i],
               \A i \in DOMAIN toServer' : toServer'[i].op \in Requests => i \in DOMAIN toServer,
               outcome' # "error" => Packet.op \notin Requests
        PROVE  Answered'
    <2>1. /\ Packet = fromServer[1] /\ outcome = "running"
          /\ \A i \in DOMAIN fromServer' :
                i + 1 \in DOMAIN fromServer /\ fromServer'[i] = fromServer[i + 1]
          /\ \A i \in DOMAIN fromServer :
                i = 1 \/ (i - 1 \in DOMAIN fromServer' /\ fromServer'[i - 1] = fromServer[i])
      BY <1>2, Taken, Popped DEF Takes, Typed
    <2>2. outcome' # "error" =>
             /\ outcome # "error"
             /\ \A i \in DOMAIN fromServer : fromServer[i].op \in Requests =>
                   i - 1 \in DOMAIN fromServer' /\ fromServer'[i - 1] = fromServer[i]
      BY <1>2, <2>1
    <2> QED
      BY <1>0, <1>2, <2>1, <2>2, AnsweredQuiet
  <1>3. CASE Drops \/ Compresses \/ Keeps
    <2>1. /\ Takes /\ UNCHANGED <<asked, toServer>> /\ sent' = sent
          /\ outcome' # "error" => Packet.op \notin Requests
      BY <1>3, FromServerDisjoint DEF Drops, Compresses, Keeps, Takes, progress
    <2> QED
      BY <1>2, <2>1
  <1>4. ASSUME NEW op \in ToServerOps \ Requests, NEW size \in Int, Sends(op, 0, size)
        PROVE  /\ \A i \in DOMAIN toServer : i \in DOMAIN toServer' /\ toServer'[i] = toServer[i]
               /\ \A i \in DOMAIN toServer' : toServer'[i].op \in Requests => i \in DOMAIN toServer
               /\ UNCHANGED asked /\ sent' = sent /\ outcome # "error"
    <2>1. PICK frame \in FramesOf(ToServerOps) :
             toServer' = Append(toServer, frame) /\ frame.op = op
      BY <1>4, CommittedTyped, Sent
    <2> QED
      BY <1>4, <2>1, Pushed DEF Typed, Sends, progress
  <1>5. CASE SendsHandshake \/ SendsLoginStart \/ SendsInformation
    <2>1. PICK op \in ToServerOps \ Requests : Sends(op, 0, 4)
      BY <1>5 DEF SendsHandshake, SendsLoginStart, SendsInformation, ToServerOps, Turns, Moves,
                  Unblocks, Requests, LoginRequests, ConfigurationRequests
    <2>2. fromServer' = fromServer
      BY <1>5 DEF SendsHandshake, SendsLoginStart, SendsInformation
    <2>3. \A i \in DOMAIN fromServer : i + 0 = i /\ i - 0 = i
      BY LenProperties DEF Typed
    <2> QED
      BY <1>0, <1>4, <2>1, <2>2, <2>3, AnsweredQuiet
  <1>6. CASE Acknowledges
    <2>1. PICK op \in ToServerOps \ Requests : Sends(op, 0, 1)
      BY <1>6 DEF Acknowledges, ToServerOps, Turns, Moves, Unblocks, Requests, LoginRequests,
                  ConfigurationRequests
    <2>2. Takes /\ Packet.op \notin Requests
      BY <1>6, FromServerDisjoint DEF Acknowledges
    <2> QED
      BY <1>2, <1>4, <2>1, <2>2
  <1>7. CASE Answers
    BY <1>7, AnsweredAnswers
  <1> QED
    BY <1>1, <1>3, <1>5, <1>6, <1>7, AnsweredReads, AnsweredAsks DEF ClientStep, ServerStep


(***************************************************************************)
(* Compression                                                             *)
(***************************************************************************)
\* A frame taken, and the connection's compression changed only by the packet that
\* announces it.
LEMMA SwitchedTakes ==
    ASSUME Typed, Typed', Switched, Takes,
           \A i \in DOMAIN toServer' : Raw(toServer'[i]) <=> srvCompression < 0,
           outcome' # "error" =>
              IF Packet.op = "setCompression"
              THEN compression' = IF Packet.id < 0 THEN -1 ELSE Packet.id
              ELSE compression' = compression
    PROVE  Switched'
  <1>1. /\ fromServer # <<>> /\ fromServer' = Tail(fromServer) /\ outcome = "running"
        /\ srvCompression' = srvCompression
        /\ Packet = fromServer[1] /\ 1 \in DOMAIN fromServer /\ DOMAIN fromServer \subseteq Int
        /\ \A i \in DOMAIN fromServer' :
              i \in Nat /\ i > 0 /\ i + 1 \in DOMAIN fromServer /\ fromServer'[i] = fromServer[i + 1]
        /\ \A i \in DOMAIN fromServer :
              i = 1 \/ (i - 1 \in DOMAIN fromServer' /\ fromServer'[i - 1] = fromServer[i])
    BY Taken, Popped DEF Takes, Typed, progress
  <1>2. srvCompression \in Int /\ compression \in Int /\ Packet.id \in Int
    BY Taken DEF Typed, FramesOf
  <1>3. \A i \in DOMAIN fromServer' : Switch(i)' <=> Switch(i + 1)
    BY <1>1 DEF Switch
  <1>4. \A i \in DOMAIN fromServer' : fromServer'[i].op = "setCompression" => Raw(fromServer'[i])
    BY <1>1 DEF Switched
  <1>5. \A i \in DOMAIN toServer' : Raw(toServer'[i]) <=> srvCompression' < 0
    BY <1>1
  <1>6. ASSUME NEW i \in DOMAIN fromServer', Switch(i)'
        PROVE  /\ srvCompression' >= 0
               /\ \A j \in DOMAIN fromServer' :
                     /\ j < i => fromServer'[j].op \notin Requests \cup Ends
                     /\ Raw(fromServer'[j]) <=> j <= i
               /\ outcome' # "error" => compression' < 0
    <2>1. i + 1 \in DOMAIN fromServer /\ Switch(i + 1)
      BY <1>1, <1>3, <1>6
    <2>2. /\ srvCompression >= 0 /\ compression < 0
          /\ \A j \in DOMAIN fromServer :
                /\ j < i + 1 => fromServer[j].op \notin Requests \cup Ends
                /\ Raw(fromServer[j]) <=> j <= i + 1
      BY <1>1, <2>1 DEF Switched
    <2>3. ~Switch(1)
      <3> SUFFICES ASSUME Switch(1) PROVE FALSE
        OBVIOUS
      <3>1. Raw(fromServer[i + 1]) <=> i + 1 <= 1
        BY <1>1, <2>1 DEF Switched
      <3>2. Raw(fromServer[i + 1])
        BY <2>1, <2>2, <1>1
      <3> QED
        BY <1>1, <3>1, <3>2
    <2>4. outcome' # "error" => compression' < 0
      BY <1>1, <1>2, <2>2, <2>3 DEF Switch
    <2>5. \A j \in DOMAIN fromServer' :
                /\ j < i => fromServer'[j].op \notin Requests \cup Ends
                /\ Raw(fromServer'[j]) <=> j <= i
      BY <1>1, <2>2
    <2> QED
      BY <1>1, <2>2, <2>4, <2>5
  <1>7. ASSUME \A i \in DOMAIN fromServer' : ~Switch(i)'
        PROVE  /\ \A i \in DOMAIN fromServer' : Raw(fromServer'[i]) <=> srvCompression' < 0
               /\ outcome' # "error" => (compression' < 0 <=> srvCompression' < 0)
    <2>1. ASSUME NEW i \in DOMAIN fromServer, i # 1 PROVE ~Switch(i)
      <3>1. i - 1 \in DOMAIN fromServer' /\ fromServer'[i - 1] = fromServer[i]
        BY <1>1, <2>1
      <3>2. ~(fromServer'[i - 1].op = "setCompression" /\ fromServer'[i - 1].id >= 0)
        BY <1>7, <3>1 DEF Switch
      <3> QED
        BY <3>1, <3>2 DEF Switch
    <2>2. CASE Switch(1)
      <3>1. /\ srvCompression >= 0
            /\ \A j \in DOMAIN fromServer : Raw(fromServer[j]) <=> j <= 1
        BY <1>1, <2>2 DEF Switched
      <3>2. \A i \in DOMAIN fromServer' : ~Raw(fromServer'[i])
        BY <1>1, <3>1
      <3>3. outcome' # "error" => compression' >= 0
        BY <1>1, <1>2, <2>2 DEF Switch
      <3> QED
        BY <1>1, <1>2, <3>1, <3>2, <3>3
    <2>3. CASE ~Switch(1)
      <3>1. /\ \A i \in DOMAIN fromServer : Raw(fromServer[i]) <=> srvCompression < 0
            /\ compression < 0 <=> srvCompression < 0
        BY <1>1, <2>1, <2>3 DEF Switched
      <3>2. outcome' # "error" => (compression' < 0 <=> srvCompression < 0)
        <4>1. CASE Packet.op = "setCompression"
          <5>1. Raw(fromServer[1]) /\ Packet.id < 0
            BY <1>1, <1>2, <2>3, <4>1 DEF Switched, Switch
          <5> QED
            BY <1>1, <3>1, <4>1, <5>1
        <4>2. CASE Packet.op # "setCompression"
          BY <3>1, <4>2
        <4> QED
          BY <4>1, <4>2
      <3> QED
        BY <1>1, <3>1, <3>2
    <2> QED
      BY <2>2, <2>3
  <1> QED
    BY <1>4, <1>5, <1>6, <1>7 DEF Switched

\* Nobody writes while a switch is on its way.
LEMMA NoSwitch ==
    ASSUME Typed, PcState, InPhase, Switched,
           SendsHandshake \/ SendsLoginStart \/ SendsInformation \/ Answers \/ Acknowledges
    PROVE  \A i \in DOMAIN fromServer : ~Switch(i)
  <1> SUFFICES ASSUME NEW i \in DOMAIN fromServer, Switch(i) PROVE FALSE
    OBVIOUS
  <1>1. CASE SendsHandshake \/ SendsLoginStart
    BY <1>1 DEF SendsHandshake, SendsLoginStart, InPhase, Starting
  <1>2. CASE SendsInformation
    <2>1. srvState = Login /\ Committed = Configuration
      BY <1>2 DEF SendsInformation, InPhase, FromInPhase, Switch
    <2>2. Moved
      BY <2>1 DEF InPhase, Ahead, Login, Configuration
    <2>3. fromServer = <<>>
      BY <2>2 DEF Moved, InPhase, ToInPhase, Turns
    <2> QED
      BY <2>3
  <1>3. CASE Answers \/ Acknowledges
    <2>1. Packet.op \in Requests \cup Ends /\ Takes
      BY <1>3 DEF Answers, Acknowledges
    <2>2. Packet = fromServer[1] /\ 1 \in DOMAIN fromServer /\ i \in Nat /\ i >= 1
      BY <2>1, Taken, Popped DEF Takes, Typed
    <2>3. i # 1
      BY <2>1, <2>2, FromServerDisjoint DEF Switch
    <2> QED
      BY <2>1, <2>2, <2>3 DEF Switched
  <1> QED
    BY <1>1, <1>2, <1>3


\* What the client writes is framed the way the server takes frames apart.
LEMMA SwitchedSends ==
    ASSUME Typed, Typed', PcState, InPhase, Switched,
           SendsHandshake \/ SendsLoginStart \/ SendsInformation \/ Answers \/ Acknowledges
    PROVE  Switched'
  <1>1. PICK op \in ToServerOps, id \in Int, size \in Int : Sends(op, id, size)
    <2>1. CASE Answers
      BY <2>1, Taken, OpsTyped DEF Answers, FramesOf
    <2>2. CASE SendsHandshake \/ SendsLoginStart \/ SendsInformation \/ Acknowledges
      <3>1. {"handshake", "loginStart", "clientInformation", "loginAcknowledged",
             "finishAcknowledged"} \subseteq ToServerOps
        BY DEF ToServerOps, Turns, Moves, Unblocks
      <3> QED
        BY <2>2, <3>1 DEF SendsHandshake, SendsLoginStart, SendsInformation, Acknowledges
    <2> QED
      BY <2>1, <2>2
  <1>2. PICK frame \in FramesOf(ToServerOps) :
           toServer' = Append(toServer, frame) /\ (Raw(frame) <=> compression < 0)
    BY <1>1, CommittedTyped, Sent
  <1>3. /\ \A i \in DOMAIN fromServer : ~Switch(i)
        /\ outcome # "error" /\ UNCHANGED <<compression, srvCompression>>
    BY <1>1, NoSwitch DEF Sends, progress
  <1>4. compression < 0 <=> srvCompression < 0
    BY <1>3 DEF Switched
  <1>5. \A i \in DOMAIN toServer' : Raw(toServer'[i]) <=> srvCompression < 0
    BY <1>2, <1>4, Pushed DEF Switched, Typed
  <1>6. CASE UNCHANGED fromServer
    BY <1>3, <1>4, <1>5, <1>6 DEF Switched, Switch
  <1>7. CASE Takes
    <2>1. Packet.op # "setCompression"
      <3>1. CASE Answers \/ Acknowledges
        BY <3>1, FromServerDisjoint DEF Answers, Acknowledges
      <3>2. CASE SendsHandshake \/ SendsLoginStart \/ SendsInformation
        <4>1. UNCHANGED fromServer /\ fromServer \in Seq(FramesOf(FromServerOps))
          BY <3>2 DEF SendsHandshake, SendsLoginStart, SendsInformation, Typed
        <4> QED
          BY <1>7, <4>1, Popped DEF Takes
      <3> QED
        BY <3>1, <3>2
    <2> QED
      BY <1>3, <1>5, <1>7, <2>1, SwitchedTakes
  <1> QED
    BY <1>6, <1>7 DEF SendsHandshake, SendsLoginStart, SendsInformation, Answers, Acknowledges

\* The server announces a threshold, and frames what follows by it.
LEMMA SwitchedDelivers ==
    ASSUME Typed, Typed', InPhase, Answered, Switched,
           NEW op \in FromServerOps, NEW id \in Int, NEW size \in Int, Delivers(op, id, size)
    PROVE  Switched'
  <1> DEFINE n == Len(fromServer) + 1
  <1>1. PICK frame \in FramesOf(FromServerOps) :
           /\ fromServer' = Append(fromServer, frame)
           /\ frame.op = op /\ frame.id = id /\ (Raw(frame) <=> srvCompression < 0)
    BY Delivered DEF Delivers
  <1>2. /\ DOMAIN fromServer' = 1..n /\ n \in Nat /\ n > 0 /\ fromServer'[n] = frame
        /\ DOMAIN fromServer = 1..(n - 1)
        /\ \A i \in DOMAIN fromServer : i \in 1..n /\ i < n /\ fromServer'[i] = fromServer[i]
        /\ \A i \in 1..n : i \in DOMAIN fromServer \/ i = n
    BY <1>1, Pushed DEF Typed
  <1>3. /\ UNCHANGED <<toServer, outcome, compression>> /\ ~srvWaits /\ srvCompression \in Int
        /\ srvCompression' = IF op = "setCompression" /\ id >= 0 THEN id ELSE srvCompression
        /\ op = "setCompression" => srvCompression = -1 /\ asked = <<>> /\ toServer = <<>>
    BY DEF Delivers, ServerWrites, client, conn, Typed
  <1>4. \A i \in DOMAIN fromServer : Switch(i)' <=> Switch(i)
    BY <1>2 DEF Switch
  <1>5. \A i \in DOMAIN fromServer' : i = n => (Switch(i)' <=> op = "setCompression" /\ id >= 0)
    BY <1>1, <1>2 DEF Switch
  <1>6. \A i \in DOMAIN fromServer' : fromServer'[i].op = "setCompression" => Raw(fromServer'[i])
    BY <1>1, <1>2, <1>3 DEF Switched
  <1>7. \A i \in DOMAIN toServer' : Raw(toServer'[i]) <=> srvCompression' < 0
    <2>1. CASE op = "setCompression"
      BY <1>3, <2>1
    <2>2. CASE op # "setCompression"
      BY <1>3, <2>2 DEF Switched
    <2> QED
      BY <2>1, <2>2
  <1>8. CASE op = "setCompression" /\ id >= 0
    <2>1. \A i \in DOMAIN fromServer : ~Switch(i)
      BY <1>3, <1>8 DEF Switched
    <2>2. /\ \A i \in DOMAIN fromServer : Raw(fromServer[i])
          /\ outcome # "error" => compression < 0
      BY <1>3, <1>8, <2>1 DEF Switched
    <2>3. \A i \in DOMAIN fromServer : fromServer[i].op \notin Requests \cup Ends
      BY <1>3, <1>8 DEF Answered, InPhase, FromInPhase
    <2>4. \A i \in DOMAIN fromServer' : Raw(fromServer'[i]) /\ (Switch(i)' => i = n)
      BY <1>1, <1>2, <1>3, <1>4, <1>8, <2>1, <2>2
    <2>5. \A i \in DOMAIN fromServer' : Switch(i)' =>
             /\ srvCompression' >= 0
             /\ \A j \in DOMAIN fromServer' :
                   /\ j < i => fromServer'[j].op \notin Requests \cup Ends
                   /\ Raw(fromServer'[j]) <=> j <= i
             /\ outcome' # "error" => compression' < 0
      BY <1>2, <1>3, <1>8, <2>2, <2>3, <2>4
    <2> QED
      BY <1>2, <1>5, <1>6, <1>7, <1>8, <2>5 DEF Switched
  <1>9. CASE ~(op = "setCompression" /\ id >= 0)
    <2>1. srvCompression' = srvCompression
      BY <1>3, <1>9
    <2>2. \A i \in DOMAIN fromServer' : Switch(i)' => i \in DOMAIN fromServer /\ Switch(i)
      BY <1>2, <1>4, <1>5, <1>9
    <2>3. \A i \in DOMAIN fromServer' : Switch(i)' =>
             /\ srvCompression' >= 0
             /\ \A j \in DOMAIN fromServer' :
                   /\ j < i => fromServer'[j].op \notin Requests \cup Ends
                   /\ Raw(fromServer'[j]) <=> j <= i
             /\ outcome' # "error" => compression' < 0
      <3> SUFFICES ASSUME NEW i \in DOMAIN fromServer, Switch(i)
                   PROVE  /\ srvCompression >= 0
                          /\ \A j \in 1..n :
                                /\ j < i => fromServer'[j].op \notin Requests \cup Ends
                                /\ Raw(fromServer'[j]) <=> j <= i
                          /\ outcome # "error" => compression < 0
        BY <1>2, <1>3, <2>1, <2>2
      <3>1. /\ srvCompression >= 0
            /\ \A j \in DOMAIN fromServer :
                  /\ j < i => fromServer[j].op \notin Requests \cup Ends
                  /\ Raw(fromServer[j]) <=> j <= i
            /\ outcome # "error" => compression < 0
        BY DEF Switched
      <3>2. ~Raw(fromServer'[n])
        BY <1>1, <1>2, <1>3, <3>1
      <3> QED
        BY <1>2, <3>1, <3>2
    <2>4. (\A i \in DOMAIN fromServer' : ~Switch(i)') =>
             /\ \A i \in DOMAIN fromServer' : Raw(fromServer'[i]) <=> srvCompression' < 0
             /\ outcome' # "error" => (compression' < 0 <=> srvCompression' < 0)
      BY <1>1, <1>2, <1>3, <1>4, <2>1 DEF Switched
    <2> QED
      BY <1>6, <1>7, <2>3, <2>4 DEF Switched
  <1> QED
    BY <1>8, <1>9

\* Together: there is at most one switch on its way, and it parts the queue.
LEMMA SwitchedStep ==
    ASSUME Typed, Typed', PcState, InPhase, Answered, Switched, ClientStep \/ ServerStep
    PROVE  Switched'
  <1>1. CASE Idles
    <2>1. /\ UNCHANGED <<fromServer, toServer, srvCompression, compression>>
          /\ outcome' # "error" => outcome # "error"
      BY <1>1 DEF Idles, progress
    <2> QED
      BY <2>1 DEF Switched, Switch
  <1>2. CASE Drops \/ Compresses \/ Keeps
    <2>1. /\ Takes /\ UNCHANGED toServer
          /\ outcome' # "error" =>
                IF Packet.op = "setCompression"
                THEN compression' = IF Packet.id < 0 THEN -1 ELSE Packet.id
                ELSE compression' = compression
      BY <1>2, FromServerDisjoint DEF Drops, Compresses, Keeps
    <2>2. \A i \in DOMAIN toServer' : Raw(toServer'[i]) <=> srvCompression < 0
      BY <2>1 DEF Switched
    <2> QED
      BY <2>1, <2>2, SwitchedTakes
  <1>3. CASE ServerReads
    <2>1. /\ toServer # <<>> /\ toServer' = Tail(toServer)
          /\ UNCHANGED <<fromServer, outcome, compression, srvCompression>>
      BY <1>3 DEF ServerReads, client, conn
    <2>2. \A i \in DOMAIN toServer' : Raw(toServer'[i]) <=> srvCompression < 0
      BY <2>1, Popped DEF Switched, Typed
    <2> QED
      BY <2>1, <2>2 DEF Switched, Switch
  <1> QED
    BY <1>1, <1>2, <1>3, SwitchedSends, SwitchedDelivers DEF ClientStep, ServerStep


(***************************************************************************)
(* The configuration                                                       *)
(***************************************************************************)
\* A step that moves no packet of the configuration.
LEMMA KeptQuiet ==
    ASSUME Typed, Typed', Kept, UNCHANGED <<configuration, offered>>, sent <= sent',
           NEW d \in {0, 1},
           \A i \in DOMAIN fromServer' : fromServer'[i].op \in Retained =>
              i + d \in DOMAIN fromServer /\ fromServer'[i] = fromServer[i + d],
           outcome' # "error" =>
              /\ outcome # "error"
              /\ \A i \in DOMAIN fromServer : fromServer[i].op \in Retained =>
                    i - d \in DOMAIN fromServer' /\ fromServer'[i - d] = fromServer[i]
    PROVE  Kept'
  <1>1. DOMAIN fromServer' \subseteq Int /\ DOMAIN fromServer \subseteq Int /\ sent \in Int /\ sent' \in Int
    BY LenProperties DEF Typed
  <1>2. \A op : OfferedIDs(op)' = OfferedIDs(op)
    BY DEF OfferedIDs
  <1>3. Pending' \subseteq Pending
    BY DEF Pending
  <1>4. outcome' # "error" => outcome # "error" /\ Pending \subseteq Pending'
    BY DEF Pending
  <1>5. /\ \A k \in DOMAIN offered' : offered'[k].id \in 1..sent'
        /\ \A j, k \in DOMAIN offered' : j < k => offered'[j].id < offered'[k].id
    BY <1>1 DEF Kept
  <1>6. \A i \in DOMAIN fromServer' : fromServer'[i].op \in Retained =>
           fromServer'[i].id \in OfferedIDs(fromServer'[i].op)
    BY DEF Kept
  <1>7. \A i, j \in DOMAIN fromServer' :
           fromServer'[i].op \in Retained /\ fromServer'[j].op \in Retained /\ i < j =>
              fromServer'[i].id < fromServer'[j].id
    BY <1>1 DEF Kept
  <1>8. \A i \in DOMAIN fromServer' : fromServer'[i].op \in Retained =>
           fromServer'[i].id \in {offered'[k].id : k \in {m \in DOMAIN offered' : offered'[m].op = fromServer'[i].op}}
    BY <1>6 DEF OfferedIDs
  <1>9. outcome' # "error" =>
           \A k \in DOMAIN offered' :
              offered'[k].id \in Pending' \/ Holds(configuration', offered'[k].op, offered'[k].id)
    BY <1>4 DEF Kept
  <1>10. \A id \in Pending' :
            /\ \A i \in DOMAIN configuration.registries : configuration.registries[i] < id
            /\ configuration.features < id
            /\ configuration.tags < id
    BY <1>3 DEF Kept
  <1> QED
    BY <1>2, <1>5, <1>7, <1>8, <1>9, <1>10 DEF Kept, OfferedIDs


\* What a retained packet changes.
LEMMA RetainedFields ==
    ASSUME NEW config \in Configurations, NEW op \in Retained, NEW id \in Int
    PROVE  /\ RetainedWith(config, op, id) \in Configurations
           /\ RetainedWith(config, op, id).registries =
                IF op = "registry" THEN Append(config.registries, id) ELSE config.registries
           /\ RetainedWith(config, op, id).features = IF op = "features" THEN id ELSE config.features
           /\ RetainedWith(config, op, id).tags = IF op = "tags" THEN id ELSE config.tags
           /\ RetainedWith(config, op, id).resetChat =
                IF op = "resetChat" THEN TRUE ELSE config.resetChat
  <1> USE DEF Configurations
  <1>1. config.registries \in Seq(Int) /\ Append(config.registries, id) \in Seq(Int)
    BY AppendProperties
  <1>2. CASE op = "registry"
    BY <1>1, <1>2 DEF RetainedWith
  <1>3. CASE op = "features"
    BY <1>3 DEF RetainedWith
  <1>4. CASE op = "tags"
    BY <1>4 DEF RetainedWith
  <1>5. CASE op = "resetChat"
    BY <1>5 DEF RetainedWith
  <1> QED
    BY <1>2, <1>3, <1>4, <1>5 DEF Retained

\* The client keeps a packet, which is the first one pending.
LEMMA KeptKeeps ==
    ASSUME Typed, Typed', Kept, Keeps
    PROVE  Kept'
  <1> DEFINE op == Packet.op
             id == Packet.id
  <1>1. /\ fromServer # <<>> /\ fromServer' = Tail(fromServer) /\ Packet = fromServer[1]
        /\ outcome = "running" /\ UNCHANGED <<offered, sent>> /\ op \in Retained /\ id \in Int
        /\ configuration' = RetainedWith(configuration, op, id)
    BY Taken DEF Keeps, Takes, progress, FramesOf
  <1> HIDE DEF op, id
  <1>2. /\ op = fromServer[1].op /\ id = fromServer[1].id
        /\ 1 \in DOMAIN fromServer /\ DOMAIN fromServer \subseteq Int
        /\ \A i \in DOMAIN fromServer' :
              i \in Nat /\ i > 0 /\ i + 1 \in DOMAIN fromServer /\ fromServer'[i] = fromServer[i + 1]
        /\ \A i \in DOMAIN fromServer :
              i = 1 \/ (i - 1 \in DOMAIN fromServer' /\ fromServer'[i - 1] = fromServer[i])
    BY <1>1, Popped DEF Typed, op, id
  <1>3. /\ configuration \in Configurations /\ configuration' \in Configurations
        /\ configuration'.registries =
             IF op = "registry" THEN Append(configuration.registries, id) ELSE configuration.registries
        /\ configuration'.features = IF op = "features" THEN id ELSE configuration.features
        /\ configuration'.tags = IF op = "tags" THEN id ELSE configuration.tags
        /\ configuration'.resetChat = IF op = "resetChat" THEN TRUE ELSE configuration.resetChat
    <2>1. configuration \in Configurations
      BY DEF Kept, Configurations
    <2> QED
      BY <1>1, <2>1, RetainedFields
  <1>4. \A o : OfferedIDs(o)' = OfferedIDs(o)
    BY <1>1 DEF OfferedIDs
  <1>5. /\ id \in OfferedIDs(op) /\ id \in Pending
        /\ \A other \in Pending' : id < other /\ other \in Pending
        /\ Pending \subseteq Pending' \cup {id}
    <2>1. id \in OfferedIDs(op)
      BY <1>1, <1>2 DEF Kept
    <2>2. id \in Pending /\ Pending' \subseteq Pending /\ Pending \subseteq Pending' \cup {id}
      <3>1. id \in Pending
        BY <1>1, <1>2 DEF Pending
      <3>2. Pending' \subseteq Pending
        BY <1>2 DEF Pending
      <3>3. ASSUME NEW other \in Pending, other # id PROVE other \in Pending'
        <4>1. PICK i \in DOMAIN fromServer : fromServer[i].op \in Retained /\ fromServer[i].id = other
          BY <3>3 DEF Pending
        <4>2. i - 1 \in DOMAIN fromServer' /\ fromServer'[i - 1] = fromServer[i]
          BY <1>2, <3>3, <4>1
        <4> QED
          BY <4>1, <4>2 DEF Pending
      <3> QED
        BY <3>1, <3>2, <3>3
    <2>3. \A i \in DOMAIN fromServer' : fromServer'[i].op \in Retained => id < fromServer'[i].id
      BY <1>1, <1>2 DEF Kept
    <2>4. \A other \in Pending' : id < other
      BY <2>3 DEF Pending
    <2> QED
      BY <2>1, <2>2, <2>4
  <1>6. /\ \A i \in DOMAIN configuration.registries : configuration.registries[i] < id
        /\ configuration.features < id /\ configuration.tags < id
    BY <1>5 DEF Kept
  <1> DEFINE rs == configuration.registries
             rn == configuration'.registries
  <1>7. rs \in Seq(Int) /\ rn \in Seq(Int)
    BY <1>3 DEF Configurations
  <1>8. /\ \A i, j \in DOMAIN rn : i < j => rn[i] < rn[j]
        /\ \A i \in DOMAIN rn : rn[i] \in OfferedIDs("registry") /\ (rn[i] = id \/ \E j \in DOMAIN rs : rs[j] = rn[i])
        /\ \A i \in DOMAIN rs : i \in DOMAIN rn /\ rn[i] = rs[i]
        /\ op = "registry" => \E i \in DOMAIN rn : rn[i] = id
    <2>1. CASE op = "registry"
      <3>1. rn = Append(rs, id)
        BY <1>3, <2>1
      <3>2. /\ DOMAIN rn = 1..(Len(rs) + 1) /\ Len(rs) \in Nat /\ rn[Len(rs) + 1] = id
            /\ \A i \in DOMAIN rs : i \in DOMAIN rn /\ i < Len(rs) + 1 /\ rn[i] = rs[i]
            /\ \A i \in DOMAIN rn : i \in DOMAIN rs \/ i = Len(rs) + 1
        BY <1>1, <1>7, <3>1, Pushed
      <3>3. \A i, j \in DOMAIN rn : i < j => rn[i] < rn[j]
        BY <1>6, <3>2 DEF Kept
      <3> QED
        BY <1>5, <2>1, <3>2, <3>3 DEF Kept
    <2>2. CASE op # "registry"
      BY <1>3, <2>2 DEF Kept
    <2> QED
      BY <2>1, <2>2
  <1>9. /\ configuration'.features \in {0} \cup OfferedIDs("features")
        /\ configuration'.tags \in {0} \cup OfferedIDs("tags")
        /\ configuration'.resetChat => OfferedIDs("resetChat") # {}
    BY <1>3, <1>5 DEF Kept
  <1>10. \A other \in Pending' :
           /\ \A i \in DOMAIN rn : rn[i] < other
           /\ configuration'.features < other
           /\ configuration'.tags < other
    <2> SUFFICES ASSUME NEW other \in Pending'
                 PROVE  /\ \A i \in DOMAIN rn : rn[i] < other
                        /\ configuration'.features < other
                        /\ configuration'.tags < other
      OBVIOUS
    <2>1. id < other /\ other \in Pending
      BY <1>5
    <2>2. /\ \A i \in DOMAIN rs : rs[i] < other
          /\ configuration.features < other /\ configuration.tags < other
      BY <2>1 DEF Kept
    <2> QED
      BY <1>3, <1>8, <2>1, <2>2
  <1>11. \A k \in DOMAIN offered :
            offered[k].id \in Pending' \/ Holds(configuration', offered[k].op, offered[k].id)
    <2> SUFFICES ASSUME NEW k \in DOMAIN offered, offered[k].id \notin Pending'
                 PROVE  Holds(configuration', offered[k].op, offered[k].id)
      OBVIOUS
    <2>1. CASE offered[k].id = id
      <3>1. PICK m \in DOMAIN offered : offered[m].op = op /\ offered[m].id = id
        BY <1>5 DEF OfferedIDs
      <3>2. DOMAIN offered \subseteq Int /\ id \in Int
        BY <1>1, LenProperties DEF Typed
      <3>3. m = k
        BY <2>1, <3>1, <3>2 DEF Kept
      <3> QED
        BY <1>1, <1>3, <1>8, <2>1, <3>1, <3>3 DEF Holds, Retained
    <2>2. CASE offered[k].id # id
      <3>1. Holds(configuration, offered[k].op, offered[k].id)
        BY <1>1, <1>5, <2>2 DEF Kept
      <3>2. offered[k].id \in Int /\ configuration.features \in Int /\ configuration.tags \in Int
        BY <1>3 DEF Kept, Configurations
      <3> QED
        BY <1>1, <1>3, <1>6, <1>8, <3>1, <3>2 DEF Holds
    <2> QED
      BY <2>1, <2>2
  <1>12. /\ \A k \in DOMAIN offered' : offered'[k].id \in 1..sent'
         /\ \A j, k \in DOMAIN offered' : j < k => offered'[j].id < offered'[k].id
    BY <1>1 DEF Kept
  <1>13. \A i \in DOMAIN fromServer' : fromServer'[i].op \in Retained =>
            fromServer'[i].id \in OfferedIDs(fromServer'[i].op)
    BY <1>2 DEF Kept
  <1>14. \A i \in DOMAIN fromServer' : fromServer'[i].op \in Retained =>
            fromServer'[i].id \in {offered'[k].id : k \in {m \in DOMAIN offered' : offered'[m].op = fromServer'[i].op}}
    BY <1>1, <1>13 DEF OfferedIDs
  <1>15. \A i, j \in DOMAIN fromServer' :
            fromServer'[i].op \in Retained /\ fromServer'[j].op \in Retained /\ i < j =>
               fromServer'[i].id < fromServer'[j].id
    BY <1>2 DEF Kept
  <1>16. OfferedIDs("registry")' = OfferedIDs("registry") /\ OfferedIDs("features")' = OfferedIDs("features")
         /\ OfferedIDs("tags")' = OfferedIDs("tags") /\ OfferedIDs("resetChat")' = OfferedIDs("resetChat")
    BY <1>1 DEF OfferedIDs
  <1> QED
    BY <1>1, <1>3, <1>8, <1>9, <1>10, <1>11, <1>12, <1>14, <1>15, <1>16 DEF Kept, Configurations,
       OfferedIDs


\* The server offers a packet, with a number beyond all, or sends something else.
LEMMA KeptOffers ==
    ASSUME Typed, Typed', Kept, NEW op \in FromServerOps, NEW id \in Int, NEW size \in Int,
           Delivers(op, id, size)
    PROVE  Kept'
  <1> DEFINE n == Len(fromServer) + 1
  <1>1. PICK frame \in FramesOf(FromServerOps) :
           fromServer' = Append(fromServer, frame) /\ frame.op = op /\ frame.id = id
    BY Delivered DEF Delivers
  <1>2. /\ DOMAIN fromServer' = 1..n /\ n \in Nat /\ fromServer'[n] = frame
        /\ \A i \in DOMAIN fromServer : i \in 1..n /\ i < n /\ fromServer'[i] = fromServer[i]
        /\ \A i \in 1..n : i \in DOMAIN fromServer \/ i = n
    BY <1>1, Pushed DEF Typed
  <1>3. /\ UNCHANGED <<toServer, outcome, configuration>>
        /\ sent \in Nat /\ sent' \in Nat /\ sent <= sent'
    BY DEF Delivers, client, Typed
  <1>4. CASE op \notin Retained
    <2>1. offered' = offered
      BY <1>4 DEF Delivers
    <2>2. \A i \in DOMAIN fromServer' : fromServer'[i].op \in Retained =>
             i + 0 \in DOMAIN fromServer /\ fromServer'[i] = fromServer[i + 0]
      BY <1>1, <1>2, <1>4
    <2>3. \A i \in DOMAIN fromServer : i - 0 \in DOMAIN fromServer' /\ fromServer'[i - 0] = fromServer[i]
      BY <1>2
    <2>4. 0 \in {0, 1}
      OBVIOUS
    <2> QED
      BY <1>3, <2>1, <2>2, <2>3, <2>4, KeptQuiet
  <1>5. CASE op \in Retained
    <2> DEFINE m == Len(offered) + 1
               entry == [op |-> op, id |-> id]
    <2>1. id = sent + 1 /\ sent' = sent + 1 /\ offered' = Append(offered, entry)
      BY <1>5 DEF Delivers
    <2>2. entry.op = op /\ entry.id = id /\ entry \in [op : Retained, id : Int]
      BY <1>5
    <2> HIDE DEF entry
    <2>3. /\ DOMAIN offered' = 1..m /\ m \in Nat /\ m > 0 /\ offered'[m] = entry
          /\ \A k \in DOMAIN offered : k \in 1..m /\ k < m /\ offered'[k] = offered[k]
          /\ \A k \in 1..m : k \in DOMAIN offered \/ k = m
      <3>1. offered \in Seq([op : Retained, id : Int])
        BY DEF Typed
      <3> QED
        BY <2>1, <2>2, <3>1, Pushed
    <2>4. \A k \in DOMAIN offered : offered[k].id \in 1..sent
      BY DEF Kept
    <2>5. /\ \A k \in DOMAIN offered' : offered'[k].id \in 1..sent'
          /\ \A j, k \in DOMAIN offered' : j < k => offered'[j].id < offered'[k].id
      <3>1. \A k \in DOMAIN offered' : offered'[k].id = IF k = m THEN id ELSE offered[k].id
        BY <2>2, <2>3
      <3>2. \A k \in DOMAIN offered' : offered'[k].id \in 1..sent'
        BY <1>3, <2>1, <2>3, <2>4, <3>1
      <3>3. ASSUME NEW j \in DOMAIN offered', NEW k \in DOMAIN offered', j < k
            PROVE  offered'[j].id < offered'[k].id
        <4>1. CASE k = m
          BY <1>3, <2>1, <2>3, <2>4, <3>1, <3>3, <4>1
        <4>2. CASE k # m
          <5>1. j \in DOMAIN offered /\ k \in DOMAIN offered
            BY <2>3, <3>3, <4>2
          <5> QED
            BY <2>3, <3>3, <5>1 DEF Kept
        <4> QED
          BY <4>1, <4>2
      <3> QED
        BY <3>2, <3>3
    <2>6. \A o : OfferedIDs(o) \subseteq OfferedIDs(o)'
      BY <2>3 DEF OfferedIDs
    <2>7. id \in OfferedIDs(op)'
      BY <2>2, <2>3 DEF OfferedIDs
    <2>8. \A o : \A other \in OfferedIDs(o) : other \in 1..sent
      BY <2>4 DEF OfferedIDs
    <2>9. \A i \in DOMAIN fromServer : fromServer[i].op \in Retained => fromServer[i].id \in 1..sent
      BY <2>8 DEF Kept
    <2>10. \A i \in DOMAIN fromServer' : fromServer'[i].op \in Retained =>
              \E k \in DOMAIN offered' : offered'[k].op = fromServer'[i].op /\ offered'[k].id = fromServer'[i].id
      <3>1. \A i \in DOMAIN fromServer : fromServer[i].op \in Retained =>
               \E k \in DOMAIN offered : offered[k].op = fromServer[i].op /\ offered[k].id = fromServer[i].id
        BY DEF Kept, OfferedIDs
      <3> QED
        BY <1>1, <1>2, <2>2, <2>3, <3>1
    <2>11. \A i, j \in DOMAIN fromServer' :
              fromServer'[i].op \in Retained /\ fromServer'[j].op \in Retained /\ i < j =>
                 fromServer'[i].id < fromServer'[j].id
      BY <1>1, <1>2, <1>3, <2>1, <2>9 DEF Kept
    <2>12. \A other : other \in Pending' <=> other \in Pending \/ other = id
      BY <1>1, <1>2, <1>5 DEF Pending
    <2>13. /\ \A i \in DOMAIN configuration.registries : configuration.registries[i] < id
           /\ configuration.features < id
           /\ configuration.tags < id
      BY <1>3, <2>1, <2>8 DEF Kept
    <2>14. outcome' # "error" =>
              \A k \in DOMAIN offered' :
                 offered'[k].id \in Pending' \/ Holds(configuration', offered'[k].op, offered'[k].id)
      BY <1>3, <2>2, <2>3, <2>12 DEF Kept
    <2>15. \A other \in Pending' :
              /\ \A i \in DOMAIN configuration.registries : configuration.registries[i] < other
              /\ configuration.features < other
              /\ configuration.tags < other
      BY <2>12, <2>13 DEF Kept
    <2>16. /\ \A i \in DOMAIN configuration.registries :
                 configuration.registries[i] \in OfferedIDs("registry")'
           /\ configuration.features \in {0} \cup OfferedIDs("features")'
           /\ configuration.tags \in {0} \cup OfferedIDs("tags")'
           /\ configuration.resetChat => OfferedIDs("resetChat")' # {}
      BY <2>6 DEF Kept
    <2>17. \A i \in DOMAIN fromServer' : fromServer'[i].op \in Retained =>
              fromServer'[i].id \in {offered'[k].id : k \in {j \in DOMAIN offered' : offered'[j].op = fromServer'[i].op}}
      BY <2>10
    <2> QED
      BY <1>3, <2>5, <2>11, <2>14, <2>15, <2>16, <2>17 DEF Kept, OfferedIDs
  <1> QED
    BY <1>4, <1>5

\* Together: the configuration is what has been offered and is not pending.
LEMMA KeptStep ==
    ASSUME Typed, Typed', PcState, Kept, ClientStep \/ ServerStep
    PROVE  Kept'
  <1>0. 0 \in {0, 1} /\ 1 \in {0, 1} /\ sent \in Nat
    BY DEF Typed
  <1>1. ASSUME UNCHANGED fromServer, UNCHANGED <<configuration, offered>>, sent' = sent,
               outcome' # "error" => outcome # "error"
        PROVE  Kept'
    <2>1. \A i \in DOMAIN fromServer : i + 0 = i /\ i - 0 = i
      BY LenProperties DEF Typed
    <2> QED
      BY <1>0, <1>1, <2>1, KeptQuiet
  <1>2. ASSUME Takes, UNCHANGED configuration, outcome' # "error" => Packet.op \notin Retained
        PROVE  Kept'
    <2>1. /\ Packet = fromServer[1] /\ outcome = "running" /\ sent' = sent
          /\ UNCHANGED <<configuration, offered>>
          /\ \A i \in DOMAIN fromServer' :
                i + 1 \in DOMAIN fromServer /\ fromServer'[i] = fromServer[i + 1]
          /\ \A i \in DOMAIN fromServer :
                i = 1 \/ (i - 1 \in DOMAIN fromServer' /\ fromServer'[i - 1] = fromServer[i])
      BY <1>2, Taken, Popped DEF Takes, Typed, progress
    <2>2. outcome' # "error" =>
             /\ outcome # "error"
             /\ \A i \in DOMAIN fromServer : fromServer[i].op \in Retained =>
                   i - 1 \in DOMAIN fromServer' /\ fromServer'[i - 1] = fromServer[i]
      BY <1>2, <2>1
    <2> QED
      BY <1>0, <2>1, <2>2, KeptQuiet
  <1>3. CASE Idles
    BY <1>1, <1>3 DEF Idles, progress
  <1>4. CASE SendsHandshake \/ SendsLoginStart \/ SendsInformation
    <2>1. UNCHANGED <<fromServer, configuration, offered>> /\ sent' = sent /\ outcome # "error"
      BY <1>4 DEF SendsHandshake, SendsLoginStart, SendsInformation, Sends, progress
    <2> QED
      BY <1>1, <2>1
  <1>5. CASE Drops \/ Compresses \/ Answers \/ Acknowledges
    <2>1. /\ Takes /\ configuration' = configuration
          /\ outcome' # "error" => Packet.op \notin Retained
      BY <1>5, FromServerDisjoint DEF Drops, Compresses, Answers, Acknowledges, Sends
    <2> QED
      BY <1>2, <2>1
  <1>6. CASE Keeps
    BY <1>6, KeptKeeps
  <1>7. CASE ServerReads
    BY <1>1, <1>7 DEF ServerReads, client
  <1> QED
    BY <1>3, <1>4, <1>5, <1>6, <1>7, KeptOffers DEF ClientStep, ServerStep


(***************************************************************************)
(* Theorems                                                                *)
(***************************************************************************)
\* No packet is on its way at the dial.
LEMMA QueueInit == Init => QueueInv
  <1> SUFFICES ASSUME Init PROVE QueueInv
    OBVIOUS
  <1> USE DEF Init, Handshaking, Login, Configuration, Play
  <1>1. /\ \A S : <<>> \in Seq(S)
        /\ DOMAIN toServer = {} /\ DOMAIN fromServer = {} /\ DOMAIN asked = {} /\ DOMAIN offered = {}
    BY EmptySeq
  <1>2. Typed
    BY <1>1 DEF Typed
  <1>3. PcState
    BY DEF PcState
  <1>4. InPhase
    BY <1>1 DEF InPhase, FromInPhase, ToInPhase, OneTurn, Ahead, Starting, Moved, Committed
  <1>5. Answered
    BY <1>1 DEF Answered
  <1>6. Switched
    BY <1>1 DEF Switched
  <1>7. Kept
    <2>1. DOMAIN configuration.registries = {} /\ configuration.registries \in Seq(Int)
      BY <1>1 DEF NoConfiguration
    <2>2. configuration \in Configurations
      BY <1>1 DEF NoConfiguration, Configurations
    <2>3. Pending = {}
      BY <1>1 DEF Pending
    <2> QED
      BY <1>1, <2>1, <2>2, <2>3 DEF Kept, NoConfiguration
  <1> QED
    BY <1>2, <1>3, <1>4, <1>5, <1>6, <1>7 DEF QueueInv

\* A step of the specification is one of the kinds above.
LEMMA Steps == ASSUME QueueInv, [Next]_vars PROVE ClientStep \/ ServerStep
  <1>1. CASE Server
    <2>1. sent \in Nat
      BY DEF QueueInv, Typed
    <2>2. PcState
      BY DEF QueueInv
    <2> QED
      BY <1>1, <2>1, <2>2, ServerSteps, ClientSteps
  <1>2. CASE Bridge \/ Elsewhere \/ UNCHANGED vars
    BY <1>2, ClientSteps DEF QueueInv
  <1> QED
    BY <1>1, <1>2 DEF Next, Elsewhere

\* The invariant is inductive.
LEMMA QueueStep == QueueInv /\ [Next]_vars => QueueInv'
  <1> SUFFICES ASSUME QueueInv, [Next]_vars PROVE QueueInv'
    OBVIOUS
  <1>1. /\ Typed /\ PcState /\ InPhase /\ Answered /\ Switched /\ Kept
        /\ ClientStep \/ ServerStep
    BY Steps DEF QueueInv
  <1>2. PcState'
    BY <1>1, PcStep
  <1>3. Typed'
    BY <1>1, TypeStep
  <1>4. InPhase'
    BY <1>1, PhaseStep
  <1>5. Answered'
    BY <1>1, <1>3, AnsweredStep
  <1>6. Switched'
    BY <1>1, <1>3, SwitchedStep
  <1>7. Kept'
    BY <1>1, <1>3, KeptStep
  <1> QED
    BY <1>2, <1>3, <1>4, <1>5, <1>6, <1>7 DEF QueueInv

\* Both ends take frames apart the way they were framed, and in the protocol state they
\* were written in, for every threshold, limit and order of packets (SetCompression and
\* SetState of conn.go as negotiate calls them).
THEOREM Agreement == Spec => []EndsAgree
  <1>1. QueueInv => EndsAgree
    <2> SUFFICES ASSUME QueueInv PROVE EndsAgree
      OBVIOUS
    <2>1. ASSUME pc = "read", fromServer # <<>>
          PROVE  Readable(compression, Head(fromServer)) /\ Head(fromServer).phase = state
      <3>1. Head(fromServer) = fromServer[1] /\ 1 \in DOMAIN fromServer /\ DOMAIN fromServer \subseteq Nat \ {0}
        BY <2>1, Popped DEF QueueInv, Typed
      <3>2. fromServer[1].phase = srvState
        BY <3>1 DEF QueueInv, InPhase, FromInPhase
      <3>3. ~Moved
        BY <2>1 DEF QueueInv, InPhase, ToInPhase, Moved, Turns
      <3>4. state = srvState
        BY <2>1, <3>3 DEF QueueInv, InPhase, Ahead, Committed
      <3>5. outcome # "error"
        BY <2>1 DEF QueueInv, PcState
      <3>6. Raw(fromServer[1]) <=> compression < 0
        <4>1. CASE \E i \in DOMAIN fromServer : Switch(i)
          <5>1. PICK i \in DOMAIN fromServer : Switch(i)
            BY <4>1
          <5> QED
            BY <3>1, <3>5, <5>1 DEF QueueInv, Switched
        <4>2. CASE ~\E i \in DOMAIN fromServer : Switch(i)
          BY <3>1, <3>5, <4>2 DEF QueueInv, Switched
        <4> QED
          BY <4>1, <4>2
      <3> QED
        BY <3>1, <3>2, <3>4, <3>6 DEF Readable, Raw
    <2>2. ASSUME toServer # <<>>
          PROVE  Readable(srvCompression, Head(toServer)) /\ Head(toServer).phase = srvState
      <3>1. Head(toServer) = toServer[1] /\ 1 \in DOMAIN toServer /\ DOMAIN toServer \subseteq Nat \ {0}
        BY <2>2, Popped DEF QueueInv, Typed
      <3>2. toServer[1].phase = srvState
        BY <3>1 DEF QueueInv, InPhase, ToInPhase
      <3>3. Raw(toServer[1]) <=> srvCompression < 0
        BY <3>1 DEF QueueInv, Switched
      <3> QED
        BY <3>1, <3>2, <3>3 DEF Readable, Raw
    <2> QED
      BY <2>1, <2>2 DEF EndsAgree
  <1> QED
    BY QueueInit, QueueStep, <1>1, PTL DEF Spec

\* The server gets the answers to its cookie, plugin, keep-alive, ping and known-packs
\* requests each once and in the order of asking (negotiate of client.go).
THEOREM OrderedAnswers == Spec => []AnswersInOrder
  <1>1. QueueInv => AnswersInOrder
    BY HeadAnswered DEF QueueInv, AnswersInOrder, RequestOf
  <1> QED
    BY QueueInit, QueueStep, <1>1, PTL DEF Spec

\* A login that returns without error has kept every registry, the latest flags and tags
\* and the reset, and has left the packets of the game unread (Client.Configuration).
THEOREM CompleteConfiguration == Spec => []ConfigurationComplete
  <1>1. QueueInv => ConfigurationComplete
    <2> SUFFICES ASSUME QueueInv, outcome = "ok" PROVE ConfigurationComplete
      BY DEF ConfigurationComplete
    <2>1. Committed = Play
      BY DEF QueueInv, PcState, Committed
    <2>2. \A i \in DOMAIN fromServer : fromServer[i].phase = Play /\ fromServer[i].op \notin Retained
      <3> SUFFICES ASSUME NEW i \in DOMAIN fromServer
                   PROVE  fromServer[i].phase = Play /\ fromServer[i].op \notin Retained
        OBVIOUS
      <3>1. ~Moved
        BY DEF QueueInv, InPhase, ToInPhase, Moved, Turns
      <3>2. srvState = Play
        BY <2>1, <3>1 DEF QueueInv, InPhase, Ahead
      <3> QED
        BY <3>2 DEF QueueInv, InPhase, FromInPhase, Play, Configuration
    <2>3. Pending = {}
      BY <2>2 DEF Pending
    <2>4. \A op : \A id \in OfferedIDs(op) : id \in Int /\ id > 0 /\ Holds(configuration, op, id)
      BY <2>3 DEF QueueInv, Kept, OfferedIDs
    <2>5. {configuration.registries[i] : i \in DOMAIN configuration.registries} = OfferedIDs("registry")
      BY <2>4 DEF QueueInv, Kept, Holds
    <2>6. Latest(configuration.features, OfferedIDs("features"))
      BY <2>4 DEF QueueInv, Kept, Holds, Latest
    <2>7. Latest(configuration.tags, OfferedIDs("tags"))
      BY <2>4 DEF QueueInv, Kept, Holds, Latest
    <2>8. configuration.resetChat <=> OfferedIDs("resetChat") # {}
      BY <2>4 DEF QueueInv, Kept, Holds
    <2>9. \A i, j \in DOMAIN configuration.registries :
             i < j => configuration.registries[i] < configuration.registries[j]
      BY DEF QueueInv, Kept
    <2> QED
      BY <2>2, <2>5, <2>6, <2>7, <2>8, <2>9 DEF ConfigurationComplete
  <1> QED
    BY QueueInit, QueueStep, <1>1, PTL DEF Spec

\* The login implements LoginPhases: the client commits itself to the next state only when
\* the server is in the same one, the server follows, and success comes in Play.
THEOREM ImplementsPhases == Spec => PassesPhases
  <1>1. Init => Phases!Init
    BY DEF Init, Phases!Init, Phases!Handshaking, Handshaking, Committed
  <1>2. QueueInv /\ [Next]_vars => [Phases!Next]_(Phases!vars)
    BY Steps, PhasesStep DEF QueueInv
  <1> QED
    BY QueueInit, QueueStep, <1>1, <1>2, PTL DEF Spec, PassesPhases, Phases!Spec

=============================================================================

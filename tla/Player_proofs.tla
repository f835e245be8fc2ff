--------------------------- MODULE Player_proofs ---------------------------
(***************************************************************************)
(* Proofs about the player: where the player is and what world the client  *)
(* sees (Player), and what the player does and with which slot             *)
(* (PlayerActions).                                                        *)
(***************************************************************************)
EXTENDS Player, PlayerActions, DataLemmas, FiniteSetTheorems, TLAPS

(***************************************************************************)
(* Proofs that at rest the client sees the world the server has it see and *)
(* that the server has the player where the client is, for every number of *)
(* packets, positions, chunks and dimensions, custom dimensions included.  *)
(*                                                                         *)
(* At rest says nothing of the packets on their way, so the invariants     *)
(* follow what each packet will do: the last one that sets the mode or the *)
(* dimension carries what the server has, content of a chunk that nothing  *)
(* behind it removes is content the server has the client have, and when   *)
(* nothing will move the client its last input is the last the server      *)
(* hears.                                                                  *)
(***************************************************************************)

\* Names of the dimensions the player can be in.
Places == {Home} \cup Dimensions

\* The packets in each of the four queues.
ServerPackets ==
    [type : {"position"}, id : Nat \ {0}, relative : BOOLEAN, yaw : Yaws, height : Int]
    \cup [type : {"rotation"}, yaw : Yaws]
    \cup [type : {"mode"}, mode : Modes]
    \cup [type : {"respawn"}, dimension : Places, mode : 0..3]
    \cup [type : {"chunk"}, chunk : SentChunks, of : Places]
    \cup [type : {"unload"}, chunk : SentChunks]
Answers ==
    [type : {"confirm"}, id : Nat \ {0}] \cup [type : {"move"}, feet : Int, yaw : Yaws]
ClientPackets ==
    [type : {"move"}, position : Int, yaw : Yaws, why : {"teleport", "turn"}]
    \cup [type : {"dimension"}, dimension : Int, position : Int]
    \cup [type : {"respawn"}, position : Int]
    \cup [type : {"mode"}, mode : Int]
    \cup [type : {"chunk"}, chunk : SentChunks, dimension : Int, content : SUBSET Places]
Inputs == [eyes : Int, yaw : Yaws]

PacketsTyped ==
    /\ fromServer \in Seq(ServerPackets)
    /\ toServer \in Seq(Answers)
    /\ toClient \in Seq(ClientPackets)
    /\ fromClient \in Seq(Inputs)

JavaTyped ==
    javaPlayer \in [feet : Int, yaw : Yaws, dimension : Places, mode : 0..3,
                    chunks : SUBSET SentChunks, awaits : Nat]
HereTyped == here \in [position : Int, yaw : Yaws, dimension : Int]
BedrockTyped ==
    bedrockPlayer \in [eyes : Int, yaw : Yaws, dimension : Int, mode : Int,
                       chunks : SUBSET (SentChunks \X Places), reported : BOOLEAN]
StepsTyped == playerSteps \in [teleports : Nat, packets : Nat, inputs : Nat]
PlayersTyped == JavaTyped /\ HereTyped /\ BedrockTyped /\ StepsTyped

(***************************************************************************)
(* Game mode and dimension: the last packet that sets it, wherever it is,  *)
(* carries what the server has.                                            *)
(***************************************************************************)
SetsMode(i) == \/ fromServer[i].type = "mode" /\ KnownMode(fromServer[i].mode)
               \/ fromServer[i].type = "respawn"
\* The last of the packets on their way from the server that sets the mode.
LastModeSet ==
    \A i \in DOMAIN fromServer :
       SetsMode(i) /\ (\A j \in DOMAIN fromServer : SetsMode(j) => j <= i) =>
          fromServer[i].mode = javaPlayer.mode
\* Behind it, the last of those on their way to the client, or the client itself.
ModeReaches ==
    (\A i \in DOMAIN fromServer : ~SetsMode(i)) =>
       /\ \A i \in DOMAIN toClient :
             /\ toClient[i].type = "mode"
             /\ \A j \in DOMAIN toClient : toClient[j].type = "mode" => j <= i
             => toClient[i].mode = GameType(javaPlayer.mode)
       /\ (\A i \in DOMAIN toClient : toClient[i].type # "mode") =>
             bedrockPlayer.mode = GameType(javaPlayer.mode)

Respawns(i) == fromServer[i].type = "respawn"
Changes(i) == toClient[i].type = "dimension"
\* The last respawn on its way, or the bridge, has the dimension of the server; the last
\* change of dimension on its way, or the client, that of the bridge.
LastRespawn ==
    \/ \E i \in DOMAIN fromServer :
          /\ Respawns(i) /\ fromServer[i].dimension = javaPlayer.dimension
          /\ \A j \in DOMAIN fromServer : Respawns(j) => j <= i
    \/ /\ \A i \in DOMAIN fromServer : ~Respawns(i)
       /\ here.dimension = DimensionID(javaPlayer.dimension)
LastChange ==
    /\ \A i \in DOMAIN toClient :
          Changes(i) /\ (\A j \in DOMAIN toClient : Changes(j) => j <= i) =>
             toClient[i].dimension = here.dimension
    /\ (\A i \in DOMAIN toClient : ~Changes(i)) => bedrockPlayer.dimension = here.dimension

(***************************************************************************)
(* Chunks                                                                  *)
(***************************************************************************)
\* A chunk is of the dimension the player is in where it stands in the queue.
ChunksInPlace ==
    \A i \in DOMAIN fromServer : fromServer[i].type = "chunk" =>
       /\ (\A j \in DOMAIN fromServer : Respawns(j) => j > i) =>
             here.dimension = DimensionID(fromServer[i].of)
       /\ \A j \in DOMAIN fromServer :
             /\ Respawns(j) /\ j < i
             /\ \A k \in DOMAIN fromServer : Respawns(k) => k <= j \/ k > i
             => fromServer[j].dimension = fromServer[i].of

\* A chunk for the client that no change of dimension follows is for the dimension the
\* bridge is in.
ChunksAddressed ==
    \A i \in DOMAIN toClient :
       toClient[i].type = "chunk" /\ (\A j \in DOMAIN toClient : Changes(j) => j < i) =>
          toClient[i].dimension = here.dimension

\* What is on its way behind position n will remove the content of a chunk.
RemovedByServer(n, c, place) ==
    \E i \in DOMAIN fromServer :
       /\ i > n
       /\ \/ fromServer[i].type = "unload" /\ fromServer[i].chunk = c
          \/ Respawns(i) /\ fromServer[i].dimension # place
RemovedByBridge(n, c, place) ==
    \E i \in DOMAIN toClient :
       /\ i > n
       /\ \/ Changes(i)
          \/ toClient[i].type = "chunk" /\ toClient[i].chunk = c /\ place \notin toClient[i].content
\* The packets of the server that the bridge has not handled will remove it.
Unloading(c) ==
    \E i \in DOMAIN fromServer :
       \/ fromServer[i].type = "unload" /\ fromServer[i].chunk = c
       \/ Respawns(i) /\ DimensionID(fromServer[i].dimension) # here.dimension

\* The queues, and the client, have the content of a chunk.
ServerChunk(i, c, place) ==
    fromServer[i].type = "chunk" /\ fromServer[i].chunk = c /\ fromServer[i].of = place
BridgeChunk(i, c, place) ==
    toClient[i].type = "chunk" /\ toClient[i].chunk = c /\ place \in toClient[i].content

Current(c, place) == c \in javaPlayer.chunks /\ place = javaPlayer.dimension

\* What nothing on its way removes is what the server has the client have.
ServerChunksCurrent ==
    \A i \in DOMAIN fromServer, c \in SentChunks, place \in Places :
       ServerChunk(i, c, place) /\ ~RemovedByServer(i, c, place) => Current(c, place)
BridgeChunksCurrent ==
    \A i \in DOMAIN toClient, c \in SentChunks, place \in Places :
       BridgeChunk(i, c, place) /\ ~RemovedByBridge(i, c, place) /\ ~Unloading(c) =>
          Current(c, place)
ClientChunksCurrent ==
    \A c \in SentChunks, place \in Places :
       /\ <<c, place>> \in bedrockPlayer.chunks
       /\ ~RemovedByBridge(0, c, place) /\ ~Unloading(c)
       => Current(c, place)

\* What the server has the client have is on its way or there.
SentByServer(c, place) ==
    \E i \in DOMAIN fromServer : ServerChunk(i, c, place) /\ ~RemovedByServer(i, c, place)
SentByBridge(c, place) ==
    \E i \in DOMAIN toClient : BridgeChunk(i, c, place) /\ ~RemovedByBridge(i, c, place)
AtClient(c, place) ==
    <<c, place>> \in bedrockPlayer.chunks /\ ~RemovedByBridge(0, c, place)
ChunksReach ==
    \A c \in SentChunks, place \in Places : Current(c, place) =>
       \/ SentByServer(c, place)
       \/ /\ ~RemovedByServer(0, c, place)
          /\ here.dimension = DimensionID(place)
          /\ SentByBridge(c, place) \/ AtClient(c, place)

(***************************************************************************)
(* Teleports and moves                                                     *)
(***************************************************************************)
\* The confirmation the server waits for is on its way, or what it answers.
ConfirmationComes ==
    javaPlayer.awaits # NoTeleport =>
       \/ \E i \in DOMAIN fromServer :
             fromServer[i].type = "position" /\ fromServer[i].id = javaPlayer.awaits
       \/ \E i \in DOMAIN toServer :
             toServer[i].type = "confirm" /\ toServer[i].id = javaPlayer.awaits

\* The client will be moved, and has not told where it is then.
Moving ==
    \/ \E i \in DOMAIN fromServer : fromServer[i].type \in {"position", "rotation"}
    \/ \E i \in DOMAIN toClient : toClient[i].type = "move"

\* What the client has told last is the last thing the server hears.
Told ==
    bedrockPlayer.reported /\ ~Moving =>
       \/ /\ fromClient # <<>>
          /\ fromClient[Len(fromClient)].eyes = bedrockPlayer.eyes
          /\ fromClient[Len(fromClient)].yaw = bedrockPlayer.yaw
       \/ /\ fromClient = <<>> /\ toServer # <<>>
          /\ toServer[Len(toServer)].type = "move"
          /\ toServer[Len(toServer)].feet = bedrockPlayer.eyes - EyeOffset
          /\ toServer[Len(toServer)].yaw = bedrockPlayer.yaw
       \/ /\ fromClient = <<>> /\ toServer = <<>>
          /\ javaPlayer.feet = bedrockPlayer.eyes - EyeOffset
          /\ javaPlayer.yaw = bedrockPlayer.yaw

\* The parts of the invariant.
ModeInv == LastModeSet /\ ModeReaches
DimensionInv == LastRespawn /\ LastChange
ChunkInv ==
    /\ ChunksInPlace /\ ChunksAddressed
    /\ ServerChunksCurrent /\ BridgeChunksCurrent /\ ClientChunksCurrent /\ ChunksReach
MoveInv == ConfirmationComes /\ Told

PlayerInv == PacketsTyped /\ PlayersTyped /\ ModeInv /\ DimensionInv /\ ChunkInv /\ MoveInv

(***************************************************************************)
(* Dimensions                                                              *)
(***************************************************************************)
\* Two dimensions the player can be in never share an ID: custom ones are numbered in the
\* order of their names, above the three that are known.
LEMMA Injective ==
    \A d, e \in Places : DimensionID(d) = DimensionID(e) => d = e
  <1> DEFINE Below(n) == {e \in Custom : e.name < n}
  <1>1. IsFiniteSet(Custom)
    BY PlayerAssumption, FS_Subset DEF Custom
  <1>2. \A n : IsFiniteSet(Below(n)) /\ Cardinality(Below(n)) \in Nat
    BY <1>1, FS_Subset, FS_CardinalityType
  <1>3. \A e \in Custom : e.name \in Nat /\ e.name \notin Vanilla
    BY PlayerAssumption DEF Custom
  <1>4. \A d, e \in Custom : d.name < e.name =>
           Cardinality(Below(d.name)) # Cardinality(Below(e.name))
    <2> SUFFICES ASSUME NEW d \in Custom, NEW e \in Custom, d.name < e.name
                 PROVE  Cardinality(Below(d.name)) # Cardinality(Below(e.name))
      OBVIOUS
    <2>1. Below(d.name) \subseteq Below(e.name) /\ d \in Below(e.name) /\ d \notin Below(d.name)
      BY <1>3
    <2>2. Below(d.name) \in SUBSET Below(e.name) /\ Below(d.name) # Below(e.name)
      BY <2>1
    <2> HIDE DEF Below
    <2> QED
      BY <2>2, <1>2, FS_Subset
  <1>5. \A n : IF \E e \in Custom : e.name = n THEN DimensionID(n) = 1000 + Cardinality(Below(n))
               ELSE n \in Vanilla => DimensionID(n) = n
    BY DEF DimensionID, FallbackID, FirstCustom
  <1>6. \A n \in Places : (\E e \in Custom : e.name = n) \/ n \in Vanilla
    BY DimensionsAssumption DEF Places, Home, Vanilla
  <1> HIDE DEF Below
  <1> SUFFICES ASSUME NEW d \in Places, NEW e \in Places, DimensionID(d) = DimensionID(e)
               PROVE  d = e
    OBVIOUS
  <1>7. CASE (\E c \in Custom : c.name = d) /\ (\E c \in Custom : c.name = e)
    <2>1. PICK c1 \in Custom : c1.name = d
      BY <1>7
    <2>2. PICK c2 \in Custom : c2.name = e
      BY <1>7
    <2>3. Cardinality(Below(d)) = Cardinality(Below(e))
      BY <1>7, <1>5, <1>2
    <2> QED
      BY <2>1, <2>2, <2>3, <1>3, <1>4
  <1>8. CASE (\E c \in Custom : c.name = d) /\ ~(\E c \in Custom : c.name = e)
    <2>1. e \in {0, 1, 2} /\ DimensionID(e) = e
      BY <1>8, <1>6, <1>5 DEF Vanilla
    <2> QED
      BY <1>8, <1>5, <1>2, <2>1
  <1>9. CASE ~(\E c \in Custom : c.name = d) /\ (\E c \in Custom : c.name = e)
    <2>1. d \in {0, 1, 2} /\ DimensionID(d) = d
      BY <1>9, <1>6, <1>5 DEF Vanilla
    <2>2. DimensionID(e) = 1000 + Cardinality(Below(e)) /\ Cardinality(Below(e)) \in Nat
      BY <1>9, <1>5, <1>2
    <2>3. \A n \in {0, 1, 2}, c \in Nat : n # 1000 + c
      OBVIOUS
    <2>4. d # 1000 + Cardinality(Below(e))
      BY <2>1, <2>2, <2>3
    <2> QED
      BY <2>1, <2>2, <2>4, ZenonT(60)
  <1>10. CASE ~(\E c \in Custom : c.name = d) /\ ~(\E c \in Custom : c.name = e)
    BY <1>10, <1>6, <1>5
  <1> QED
    BY <1>7, <1>8, <1>9, <1>10

LEMMA DimensionNumber == \A d \in Places : DimensionID(d) \in Int
  <1>1. IsFiniteSet(Custom)
    BY PlayerAssumption, FS_Subset DEF Custom
  <1>2. \A n : Cardinality({e \in Custom : e.name < n}) \in Nat
    BY <1>1, FS_Subset, FS_CardinalityType
  <1> QED
    BY <1>2, DimensionsAssumption DEF DimensionID, FallbackID, FirstCustom, Places, Home, Vanilla

(***************************************************************************)
(* Types                                                                   *)
(***************************************************************************)
\* What the type of a packet says of its fields.
LEMMA ServerPacketFields ==
    \A p \in ServerPackets :
       /\ p.type \in {"position", "rotation", "mode", "respawn", "chunk", "unload"}
       /\ p.type = "position" =>
             p.id \in Nat \ {0} /\ p.yaw \in Yaws /\ p.height \in Int /\ p.relative \in BOOLEAN
       /\ p.type = "rotation" => p.yaw \in Yaws
       /\ p.type = "mode" => p.mode \in Modes
       /\ p.type = "respawn" => p.dimension \in Places /\ p.mode \in 0..3
       /\ p.type = "chunk" => p.chunk \in SentChunks /\ p.of \in Places
       /\ p.type = "unload" => p.chunk \in SentChunks
  BY DEF ServerPackets

LEMMA ClientPacketFields ==
    \A p \in ClientPackets :
       /\ p.type \in {"move", "dimension", "respawn", "mode", "chunk"}
       /\ p.type = "move" => p.position \in Int /\ p.yaw \in Yaws
       /\ p.type = "dimension" => p.dimension \in Int /\ p.position \in Int
       /\ p.type = "respawn" => p.position \in Int
       /\ p.type = "mode" => p.mode \in Int
       /\ p.type = "chunk" =>
             p.chunk \in SentChunks /\ p.dimension \in Int /\ p.content \in SUBSET Places
  BY DEF ClientPackets

LEMMA AnswerFields ==
    \A p \in Answers :
       /\ p.type \in {"confirm", "move"}
       /\ p.type = "confirm" => p.id \in Nat \ {0}
       /\ p.type = "move" => p.feet \in Int /\ p.yaw \in Yaws
  BY DEF Answers

(***************************************************************************)
(* What the steps do                                                       *)
(***************************************************************************)
\* The server says p.
Saying(p) ==
    /\ fromServer' = Append(fromServer, p)
    /\ UNCHANGED <<toServer, toClient, fromClient, here, bedrockPlayer>>
    /\ javaPlayer'.mode =
          IF p.type = "respawn" \/ (p.type = "mode" /\ KnownMode(p.mode)) THEN p.mode ELSE javaPlayer.mode
    /\ javaPlayer'.dimension = IF p.type = "respawn" THEN p.dimension ELSE javaPlayer.dimension
    /\ p.type = "chunk" => p.of = javaPlayer.dimension
    /\ javaPlayer'.chunks =
          IF p.type = "chunk" THEN javaPlayer.chunks \cup {p.chunk}
          ELSE IF p.type = "unload" THEN javaPlayer.chunks \ {p.chunk}
          ELSE IF p.type = "respawn" /\ p.dimension # javaPlayer.dimension THEN {}
          ELSE javaPlayer.chunks
    /\ javaPlayer'.awaits = IF p.type = "position" THEN p.id ELSE javaPlayer.awaits
    /\ p.type \notin {"position", "rotation"} =>
          javaPlayer'.feet = javaPlayer.feet /\ javaPlayer'.yaw = javaPlayer.yaw
ServerSays ==
    /\ \E p \in ServerPackets : Saying(p)
    /\ PlayersTyped'

\* The bridge handles p and writes w to the client and a to the server.
Handling(p, w, a) ==
    /\ fromServer # <<>> /\ p = Head(fromServer)
    /\ fromServer' = Tail(fromServer)
    /\ toServer' = toServer \o a
    /\ toClient' = toClient \o w
    /\ UNCHANGED <<javaPlayer, fromClient, bedrockPlayer>>
    /\ here'.dimension = IF p.type = "respawn" THEN DimensionID(p.dimension) ELSE here.dimension
    /\ \A i \in DOMAIN w :
          /\ w[i].type = "mode" =>
                /\ p.type = "respawn" \/ (p.type = "mode" /\ KnownMode(p.mode))
                /\ w[i].mode = GameType(p.mode)
          /\ w[i].type = "dimension" =>
                p.type = "respawn" /\ w[i].dimension = here'.dimension /\ here'.dimension # here.dimension
          /\ w[i].type = "chunk" =>
                /\ p.type \in {"chunk", "unload"}
                /\ w[i].chunk = p.chunk /\ w[i].dimension = here.dimension
                /\ w[i].content = IF p.type = "chunk" THEN {p.of} ELSE {}
    /\ p.type = "respawn" \/ (p.type = "mode" /\ KnownMode(p.mode)) =>
          \E i \in DOMAIN w : w[i].type = "mode"
    /\ here'.dimension # here.dimension => \E i \in DOMAIN w : w[i].type = "dimension"
    /\ p.type \in {"chunk", "unload"} => \E i \in DOMAIN w : w[i].type = "chunk"
    /\ p.type \in {"position", "rotation"} => \E i \in DOMAIN w : w[i].type = "move"
    /\ a = IF p.type = "position" THEN <<[type |-> "confirm", id |-> p.id]>> ELSE <<>>
BridgeHandles ==
    /\ \E p \in ServerPackets, w \in Seq(ClientPackets), a \in Seq(Answers) : Handling(p, w, a)
    /\ PlayersTyped'

\* The client shows p.
Showing(p) ==
    /\ toClient # <<>> /\ p = Head(toClient)
    /\ toClient' = Tail(toClient)
    /\ UNCHANGED <<javaPlayer, fromServer, toServer, fromClient, here>>
    /\ bedrockPlayer'.mode = IF p.type = "mode" THEN p.mode ELSE bedrockPlayer.mode
    /\ bedrockPlayer'.dimension =
          IF p.type = "dimension" THEN p.dimension ELSE bedrockPlayer.dimension
    /\ bedrockPlayer'.chunks =
          IF p.type = "dimension" THEN {}
          ELSE IF p.type = "chunk" /\ p.dimension = bedrockPlayer.dimension
          THEN {e \in bedrockPlayer.chunks : e[1] # p.chunk} \cup ({p.chunk} \X p.content)
          ELSE bedrockPlayer.chunks
    /\ bedrockPlayer'.reported =>
          /\ bedrockPlayer.reported /\ p.type # "move"
          /\ bedrockPlayer'.eyes = bedrockPlayer.eyes
          /\ bedrockPlayer'.yaw = bedrockPlayer.yaw
ClientShows ==
    /\ \E p \in ClientPackets : Showing(p)
    /\ PlayersTyped'

\* The server hears p.
Hearing(p) ==
    /\ toServer # <<>> /\ p = Head(toServer)
    /\ toServer' = Tail(toServer)
    /\ UNCHANGED <<fromServer, toClient, fromClient, here, bedrockPlayer>>
    /\ javaPlayer'.mode = javaPlayer.mode
    /\ javaPlayer'.dimension = javaPlayer.dimension
    /\ javaPlayer'.chunks = javaPlayer.chunks
    /\ javaPlayer'.awaits =
          IF p.type = "confirm" /\ p.id = javaPlayer.awaits THEN NoTeleport ELSE javaPlayer.awaits
    /\ IF p.type = "move" /\ javaPlayer.awaits = NoTeleport
       THEN javaPlayer'.feet = p.feet /\ javaPlayer'.yaw = p.yaw
       ELSE javaPlayer'.feet = javaPlayer.feet /\ javaPlayer'.yaw = javaPlayer.yaw
ServerHears ==
    /\ \E p \in Answers : Hearing(p)
    /\ PlayersTyped'

\* The bridge passes the input p on.
Passing(p) ==
    /\ fromClient # <<>> /\ p = Head(fromClient)
    /\ fromClient' = Tail(fromClient)
    /\ toServer' = Append(toServer, EncodeInput(p))
    /\ UNCHANGED <<javaPlayer, fromServer, toClient, here, bedrockPlayer>>
BridgePasses ==
    /\ \E p \in Inputs : Passing(p)
    /\ PlayersTyped'

\* The client tells where it is.
Telling(p) ==
    /\ fromClient' = Append(fromClient, p)
    /\ UNCHANGED <<javaPlayer, fromServer, toServer, toClient, here>>
    /\ bedrockPlayer'.mode = bedrockPlayer.mode
    /\ bedrockPlayer'.dimension = bedrockPlayer.dimension
    /\ bedrockPlayer'.chunks = bedrockPlayer.chunks
    /\ bedrockPlayer'.eyes = p.eyes /\ bedrockPlayer'.yaw = p.yaw
ClientTells ==
    /\ \E p \in Inputs : Telling(p)
    /\ PlayersTyped'

PlayerRests == UNCHANGED playerVars

\* What can happen.
PlayerMoves ==
    \/ ServerSays \/ BridgeHandles \/ ClientShows
    \/ ServerHears \/ BridgePasses \/ ClientTells \/ PlayerRests

\* Saying a packet counts it.
LEMMA SaysCounted ==
    ASSUME StepsTyped, NEW p, Says(p)
    PROVE  StepsTyped'
  <1> DEFINE b == playerSteps.teleports
             c == IF p.type = "position" THEN b + 1 ELSE b
  <1>1. /\ playerSteps = [teleports |-> b, packets |-> playerSteps.packets,
                          inputs |-> playerSteps.inputs]
        /\ b \in Nat
    BY DEF StepsTyped
  <1>2. playerSteps' = [playerSteps EXCEPT !.packets = playerSteps.packets + 1,
                                           !.teleports = c]
    BY <1>1 DEF Says
  <1>3. c \in Nat
    BY <1>1
  <1> HIDE DEF c
  <1>4. playerSteps' = [teleports |-> c, packets |-> playerSteps.packets + 1,
                        inputs |-> playerSteps.inputs]
    BY <1>1, <1>2
  <1> QED
    BY <1>1, <1>3, <1>4 DEF StepsTyped

\* Every step of the model is one of these.
LEMMA SaysStep ==
    ASSUME PacketsTyped, PlayersTyped, ServerActs
    PROVE  ServerSays
  <1> USE PlayerAssumption DEF PlayersTyped, Says
  <1>1. ASSUME NEW h \in Heights, NEW y \in Yaws, NEW r \in BOOLEAN, ServerTeleports(h, y, r)
        PROVE  ServerSays
    <2> DEFINE id == playerSteps.teleports + 1
               p == [type |-> "position", id |-> id, relative |-> r, yaw |-> y,
                     height |-> IF r THEN h - javaPlayer.feet ELSE h]
    <2>0. h \in Int /\ javaPlayer.feet \in Int /\ id \in Nat \ {0}
      BY DEF JavaTyped, StepsTyped
    <2>1. p \in ServerPackets
      <3>1. (IF r THEN h - javaPlayer.feet ELSE h) \in Int
        BY <2>0
      <3> QED
        BY <2>0, <3>1 DEF ServerPackets
    <2>2. Saying(p)
      BY <1>1 DEF ServerTeleports, Saying
    <2>3. JavaTyped' /\ HereTyped' /\ BedrockTyped'
      BY <1>1, <2>0 DEF JavaTyped, HereTyped, BedrockTyped, ServerTeleports
    <2>4. StepsTyped'
      BY <1>1, SaysCounted DEF ServerTeleports
    <2> QED
      BY <2>1, <2>2, <2>3, <2>4 DEF ServerSays
  <1>2. ASSUME NEW y \in Yaws, ServerTurns(y) PROVE ServerSays
    <2> DEFINE p == [type |-> "rotation", yaw |-> y]
    <2>1. p \in ServerPackets
      BY <1>2 DEF ServerPackets
    <2>2. Saying(p)
      BY <1>2 DEF ServerTurns, Saying
    <2>3. JavaTyped' /\ HereTyped' /\ BedrockTyped'
      BY <1>2 DEF JavaTyped, HereTyped, BedrockTyped, ServerTurns
    <2>4. StepsTyped'
      BY <1>2, SaysCounted DEF ServerTurns
    <2> QED
      BY <2>1, <2>2, <2>3, <2>4 DEF ServerSays
  <1>3. ASSUME NEW m \in Modes, ServerSetsMode(m) PROVE ServerSays
    <2> DEFINE p == [type |-> "mode", mode |-> m]
    <2>1. p \in ServerPackets
      BY <1>3 DEF ServerPackets
    <2>2. Saying(p)
      BY <1>3 DEF ServerSetsMode, Saying
    <2>3. JavaTyped' /\ HereTyped' /\ BedrockTyped'
      BY <1>3 DEF JavaTyped, HereTyped, BedrockTyped, ServerSetsMode, KnownMode
    <2>4. StepsTyped'
      BY <1>3, SaysCounted DEF ServerSetsMode, KnownMode
    <2> QED
      BY <2>1, <2>2, <2>3, <2>4 DEF ServerSays
  <1>4. ASSUME NEW m \in Modes, NEW d \in Dimensions, ServerRespawns(d, m) PROVE ServerSays
    <2> DEFINE p == [type |-> "respawn", dimension |-> d, mode |-> m]
    <2>1. p \in ServerPackets
      BY <1>4 DEF ServerPackets, ServerRespawns, KnownMode, Places
    <2>2. Saying(p)
      BY <1>4 DEF ServerRespawns, Saying
    <2>3. JavaTyped' /\ HereTyped' /\ BedrockTyped'
      BY <1>4 DEF JavaTyped, HereTyped, BedrockTyped, ServerRespawns, KnownMode, Places
    <2>4. StepsTyped'
      BY <1>4, SaysCounted DEF ServerRespawns, KnownMode, Places
    <2> QED
      BY <2>1, <2>2, <2>3, <2>4 DEF ServerSays
  <1>5. ASSUME NEW c \in SentChunks, ServerSendsChunk(c) PROVE ServerSays
    <2> DEFINE p == [type |-> "chunk", chunk |-> c, of |-> javaPlayer.dimension]
    <2>1. p \in ServerPackets
      BY DEF JavaTyped, ServerPackets
    <2>2. Saying(p)
      BY <1>5 DEF ServerSendsChunk, Saying
    <2>3. JavaTyped' /\ HereTyped' /\ BedrockTyped'
      BY <1>5 DEF JavaTyped, HereTyped, BedrockTyped, ServerSendsChunk
    <2>4. StepsTyped'
      BY <1>5, SaysCounted DEF ServerSendsChunk
    <2> QED
      BY <2>1, <2>2, <2>3, <2>4 DEF ServerSays
  <1>6. ASSUME NEW c \in SentChunks, ServerUnloads(c) PROVE ServerSays
    <2> DEFINE p == [type |-> "unload", chunk |-> c]
    <2>1. p \in ServerPackets
      BY <1>6 DEF ServerPackets
    <2>2. Saying(p)
      BY <1>6 DEF ServerUnloads, Saying
    <2>3. JavaTyped' /\ HereTyped' /\ BedrockTyped'
      BY <1>6 DEF JavaTyped, HereTyped, BedrockTyped, ServerUnloads
    <2>4. StepsTyped'
      BY <1>6, SaysCounted DEF ServerUnloads
    <2> QED
      BY <2>1, <2>2, <2>3, <2>4 DEF ServerSays
  <1> QED
    BY <1>1, <1>2, <1>3, <1>4, <1>5, <1>6 DEF ServerActs

LEMMA HandlesStep ==
    ASSUME PacketsTyped, PlayersTyped, HandleJava
    PROVE  BridgeHandles
  <1> DEFINE p == Head(fromServer)
  <1> USE DEF PlayersTyped
  <1>1. fromServer # <<>> /\ p \in ServerPackets
    BY Popped DEF PacketsTyped, HandleJava
  <1> HIDE DEF p
  <1> USE DEF Handled
  <1> DEFINE Done == \E w \in Seq(ClientPackets), a \in Seq(Answers) : Handling(p, w, a)
  <1>2. SUFFICES Done /\ HereTyped' /\ JavaTyped' /\ BedrockTyped' /\ StepsTyped'
    BY <1>1 DEF BridgeHandles
  <1>3. CASE HandlePosition(p)
    <2> DEFINE move == Move(Applied(p), p.yaw, "teleport")
               answer == [type |-> "confirm", id |-> p.id]
    <2>1. /\ p.type = "position" /\ p.id \in Nat \ {0} /\ p.yaw \in Yaws
          /\ p.height \in Int /\ here.position \in Int
      BY <1>1, <1>3, ServerPacketFields DEF HandlePosition, HereTyped
    <2>2. Applied(p) \in Int
      BY <2>1 DEF Applied
    <2>3. move \in ClientPackets /\ answer \in Answers /\ move.type = "move"
      BY <2>1, <2>2 DEF Move, ClientPackets, Answers
    <2>4. <<move>> \in Seq(ClientPackets) /\ <<answer>> \in Seq(Answers)
      BY <2>3
    <2>5. here'.dimension = here.dimension /\ HereTyped'
      BY <1>3, <2>1, <2>2 DEF HandlePosition, HereTyped
    <2>6. /\ toServer' = toServer \o <<answer>> /\ toClient' = toClient \o <<move>>
          /\ fromServer' = Tail(fromServer)
          /\ UNCHANGED <<javaPlayer, fromClient, bedrockPlayer, playerSteps>>
      BY <1>3 DEF HandlePosition
    <2> HIDE DEF move
    <2>7. DOMAIN <<move>> = {1} /\ <<move>>[1].type = "move"
      BY <2>3
    <2>8. Handling(p, <<move>>, <<answer>>)
      BY <1>1, <2>1, <2>5, <2>6, <2>7 DEF Handling, p
    <2> QED
      BY <2>4, <2>5, <2>6, <2>8 DEF JavaTyped, BedrockTyped, StepsTyped
  <1>4. CASE HandleRotation(p)
    <2> DEFINE move == Move(here.position, p.yaw, "turn")
    <2>1. p.type = "rotation" /\ p.yaw \in Yaws /\ here.position \in Int
      BY <1>1, <1>4, ServerPacketFields DEF HandleRotation, HereTyped
    <2>2. move \in ClientPackets /\ move.type = "move"
      BY <2>1 DEF Move, ClientPackets
    <2>3. <<move>> \in Seq(ClientPackets) /\ <<>> \in Seq(Answers)
      BY <2>2
    <2>4. here'.dimension = here.dimension /\ HereTyped'
      BY <1>4, <2>1 DEF HandleRotation, HereTyped
    <2>5. /\ toServer' = toServer \o <<>> /\ toClient' = toClient \o <<move>>
          /\ fromServer' = Tail(fromServer)
          /\ UNCHANGED <<javaPlayer, fromClient, bedrockPlayer, playerSteps>>
      BY <1>4 DEF HandleRotation
    <2> HIDE DEF move
    <2>6. DOMAIN <<move>> = {1} /\ <<move>>[1].type = "move"
      BY <2>2
    <2>7. Handling(p, <<move>>, <<>>)
      BY <1>1, <2>1, <2>4, <2>5, <2>6 DEF Handling, p
    <2> QED
      BY <2>3, <2>4, <2>5, <2>7 DEF JavaTyped, BedrockTyped, StepsTyped
  <1>5. CASE HandleMode(p)
    <2> DEFINE w == IF KnownMode(p.mode) THEN <<SetMode(p.mode)>> ELSE <<>>
    <2>1. p.type = "mode" /\ p.mode \in Int
      BY <1>1, <1>5, ServerPacketFields, PlayerAssumption DEF HandleMode
    <2>2. SetMode(p.mode) \in ClientPackets /\ SetMode(p.mode).type = "mode"
          /\ SetMode(p.mode).mode = GameType(p.mode)
      BY <2>1 DEF SetMode, ClientPackets, GameType, Spectator
    <2>3. w \in Seq(ClientPackets) /\ <<>> \in Seq(Answers)
      BY <2>2
    <2>4. /\ toServer' = toServer \o <<>> /\ toClient' = toClient \o w
          /\ fromServer' = Tail(fromServer)
          /\ UNCHANGED <<here, javaPlayer, fromClient, bedrockPlayer, playerSteps>>
      BY <1>5 DEF HandleMode
    <2>5. /\ \A i \in DOMAIN w : KnownMode(p.mode) /\ w[i] = SetMode(p.mode)
          /\ KnownMode(p.mode) => 1 \in DOMAIN w /\ w[1] = SetMode(p.mode)
      OBVIOUS
    <2> HIDE DEF w
    <2>6. Handling(p, w, <<>>)
      BY <1>1, <2>1, <2>2, <2>4, <2>5 DEF Handling, p
    <2> QED
      BY <2>3, <2>4, <2>6 DEF HereTyped, JavaTyped, BedrockTyped, StepsTyped
  <1>6. CASE HandleRespawn(p)
    <2> DEFINE dimension == DimensionID(p.dimension)
               change == [type |-> "dimension", dimension |-> dimension, position |-> here.position]
               back == [type |-> "respawn", position |-> here.position]
               mode == SetMode(p.mode)
               changes == IF dimension # here.dimension THEN <<change>> ELSE <<>>
               w == changes \o <<back, mode>>
    <2>1. /\ p.type = "respawn" /\ p.dimension \in Places /\ p.mode \in 0..3 /\ KnownMode(p.mode)
          /\ dimension \in Int /\ here.position \in Int
      BY <1>1, <1>6, ServerPacketFields, DimensionNumber DEF HandleRespawn, HereTyped, KnownMode
    <2>2. /\ mode \in ClientPackets /\ mode.type = "mode" /\ mode.mode = GameType(p.mode)
          /\ back \in ClientPackets /\ back.type = "respawn"
          /\ change \in ClientPackets /\ change.type = "dimension" /\ change.dimension = dimension
      BY <2>1 DEF SetMode, ClientPackets, GameType, Spectator
    <2>3. /\ toServer' = toServer \o <<>> /\ toClient' = toClient \o w
          /\ fromServer' = Tail(fromServer)
          /\ UNCHANGED <<javaPlayer, fromClient, bedrockPlayer, playerSteps>>
          /\ here' = [here EXCEPT !.dimension = dimension]
      BY <1>6, <2>1 DEF HandleRespawn
    <2>4. here'.dimension = dimension /\ HereTyped'
      BY <2>3, <2>1 DEF HereTyped
    <2> HIDE DEF mode, change, back, dimension
    <2>5. /\ changes \in Seq(ClientPackets) /\ <<back, mode>> \in Seq(ClientPackets)
          /\ DOMAIN <<back, mode>> = {1, 2}
          /\ <<back, mode>>[1] = back /\ <<back, mode>>[2] = mode
          /\ \A i \in DOMAIN changes : dimension # here.dimension /\ changes[i] = change
          /\ dimension # here.dimension => 1 \in DOMAIN changes /\ changes[1] = change
      BY <2>2
    <2> HIDE DEF changes
    <2>6. /\ w \in Seq(ClientPackets)
          /\ \A i \in DOMAIN w :
                \/ w[i] = back \/ w[i] = mode
                \/ w[i] = change /\ dimension # here.dimension
          /\ \E i \in DOMAIN w : w[i] = mode
          /\ dimension # here.dimension => \E i \in DOMAIN w : w[i] = change
      <3> DEFINE tail == <<back, mode>>
      <3>1. /\ tail \in Seq(ClientPackets) /\ DOMAIN tail = {1, 2}
            /\ tail[1] = back /\ tail[2] = mode
        BY <2>5
      <3>2. w = changes \o tail
        OBVIOUS
      <3> HIDE DEF tail, w
      <3>3. /\ w \in Seq(ClientPackets)
            /\ \A i \in DOMAIN changes : i \in DOMAIN w /\ w[i] = changes[i]
            /\ \A i \in DOMAIN tail : Len(changes) + i \in DOMAIN w /\ w[Len(changes) + i] = tail[i]
            /\ \A i \in DOMAIN w : i \in DOMAIN changes \/ i - Len(changes) \in DOMAIN tail
            /\ \A i \in DOMAIN w : i \in Int
            /\ Len(changes) \in Nat
        <4>1. changes \in Seq(ClientPackets)
          BY <2>5
        <4> QED
          BY <4>1, <3>1, <3>2, Joined
      <3>4. \A i \in DOMAIN w :
               i \in DOMAIN changes \/ \E k \in DOMAIN tail : w[i] = tail[k]
        BY <3>3
      <3> QED
        BY <2>5, <3>1, <3>3, <3>4
    <2> HIDE DEF w
    <2>7. Handling(p, w, <<>>)
      BY <1>1, <2>1, <2>2, <2>3, <2>4, <2>6 DEF Handling, p, dimension
    <2>8. <<>> \in Seq(Answers)
      OBVIOUS
    <2> QED
      BY <2>3, <2>4, <2>6, <2>7, <2>8 DEF JavaTyped, BedrockTyped, StepsTyped
  <1>7. CASE HandleChunk(p) \/ HandleUnload(p)
    <2> DEFINE content == IF p.type = "chunk" THEN {p.of} ELSE {}
               chunk == [type |-> "chunk", chunk |-> p.chunk, dimension |-> here.dimension,
                         content |-> content]
    <2>1. /\ p.type \in {"chunk", "unload"} /\ p.chunk \in SentChunks
          /\ content \in SUBSET Places /\ here.dimension \in Int
      BY <1>1, <1>7, ServerPacketFields DEF HandleChunk, HandleUnload, HereTyped
    <2>2. /\ toServer' = toServer \o <<>> /\ toClient' = toClient \o <<chunk>>
          /\ fromServer' = Tail(fromServer)
          /\ UNCHANGED <<here, javaPlayer, fromClient, bedrockPlayer, playerSteps>>
      BY <1>7 DEF HandleChunk, HandleUnload
    <2>3. chunk \in ClientPackets /\ chunk.type = "chunk" /\ chunk.chunk = p.chunk
          /\ chunk.dimension = here.dimension /\ chunk.content = content
      BY <2>1 DEF ClientPackets
    <2> HIDE DEF chunk
    <2>4. /\ <<chunk>> \in Seq(ClientPackets) /\ <<>> \in Seq(Answers)
          /\ DOMAIN <<chunk>> = {1} /\ <<chunk>>[1] = chunk
      BY <2>3
    <2>5. Handling(p, <<chunk>>, <<>>)
      BY <1>1, <2>1, <2>2, <2>3, <2>4 DEF Handling, p
    <2> QED
      BY <2>2, <2>4, <2>5 DEF HereTyped, JavaTyped, BedrockTyped, StepsTyped
  <1> QED
    BY <1>1, <1>3, <1>4, <1>5, <1>6, <1>7 DEF HandleJava, p

LEMMA ShowsStep ==
    ASSUME PacketsTyped, PlayersTyped, ClientReceives
    PROVE  ClientShows
  <1> DEFINE p == Head(toClient)
  <1>1. toClient # <<>> /\ p \in ClientPackets
    BY Popped DEF PacketsTyped, ClientReceives
  <1> HIDE DEF p
  <1>2. /\ toClient' = Tail(toClient) /\ bedrockPlayer' = Shown(bedrockPlayer, p)
        /\ UNCHANGED <<javaPlayer, fromServer, toServer, fromClient, here, playerSteps>>
    BY DEF ClientReceives, p
  <1>3. Showing(p) /\ BedrockTyped'
    <2> USE <1>1, <1>2, ClientPacketFields DEF PlayersTyped, BedrockTyped, Showing, p, Shown
    <2>1. CASE p.type = "move"
      BY <2>1
    <2>2. CASE p.type = "dimension"
      BY <2>2
    <2>3. CASE p.type = "respawn"
      BY <2>3
    <2>4. CASE p.type = "mode"
      BY <2>4
    <2>5. CASE p.type = "chunk" /\ p.dimension = bedrockPlayer.dimension
      BY <2>5
    <2>6. CASE p.type = "chunk" /\ p.dimension # bedrockPlayer.dimension
      BY <2>6
    <2> QED
      BY <2>1, <2>2, <2>3, <2>4, <2>5, <2>6
  <1> QED
    BY <1>1, <1>2, <1>3 DEF ClientShows, PlayersTyped, HereTyped, JavaTyped, StepsTyped

LEMMA HearsStep ==
    ASSUME PacketsTyped, PlayersTyped, ServerReceives
    PROVE  ServerHears
  <1> DEFINE p == Head(toServer)
  <1>1. toServer # <<>> /\ p \in Answers
    BY Popped DEF PacketsTyped, ServerReceives
  <1>2. p.type \in {"confirm", "move"}
    BY <1>1, AnswerFields
  <1>3. Hearing(p) /\ JavaTyped'
    BY <1>1, <1>2, AnswerFields DEF ServerReceives, PlayersTyped, JavaTyped, Hearing, NoTeleport
  <1> QED
    BY <1>1, <1>3 DEF ServerHears, ServerReceives, PlayersTyped, HereTyped, BedrockTyped, StepsTyped

LEMMA PassesStep ==
    ASSUME PacketsTyped, PlayersTyped, HandleInput
    PROVE  BridgePasses
  <1>1. fromClient # <<>> /\ Head(fromClient) \in Inputs
    BY Popped DEF PacketsTyped, HandleInput
  <1>2. Passing(Head(fromClient))
    BY <1>1 DEF HandleInput, Passing
  <1> QED
    BY <1>1, <1>2 DEF BridgePasses, HandleInput, PlayersTyped, HereTyped, BedrockTyped, StepsTyped, JavaTyped

LEMMA TellsStep ==
    ASSUME PacketsTyped, PlayersTyped, NEW h \in Heights, NEW y \in Yaws, ClientMoves(h, y)
    PROVE  ClientTells
  <1> DEFINE p == [eyes |-> h, yaw |-> y]
  <1>1. p \in Inputs
    BY PlayerAssumption DEF Inputs
  <1>2. Telling(p)
    BY DEF ClientMoves, Telling, PlayersTyped, BedrockTyped
  <1>3. BedrockTyped'
    BY PlayerAssumption DEF ClientMoves, PlayersTyped, BedrockTyped
  <1>4. StepsTyped'
    BY DEF ClientMoves, PlayersTyped, StepsTyped
  <1> QED
    BY <1>1, <1>2, <1>3, <1>4 DEF ClientTells, ClientMoves, PlayersTyped, HereTyped, JavaTyped

\* The steps of the specification.
LEMMA Classified ==
    ASSUME PacketsTyped, PlayersTyped, [PlayerNext]_playerVars
    PROVE  PlayerMoves
  BY SaysStep, HandlesStep, ShowsStep, HearsStep, PassesStep, TellsStep
     DEF PlayerNext, PlayerMoves, PlayerRests

LEMMA TypesStep ==
    ASSUME PacketsTyped, PlayersTyped, PlayerMoves
    PROVE  PacketsTyped' /\ PlayersTyped'
  <1> USE DEF PacketsTyped
  <1>1. CASE ServerSays
    BY <1>1, Pushed DEF ServerSays, Saying
  <1>2. CASE BridgeHandles
    BY <1>2, Popped, Joined DEF BridgeHandles, Handling
  <1>3. CASE ClientShows
    BY <1>3, Popped DEF ClientShows, Showing
  <1>4. CASE ServerHears
    BY <1>4, Popped DEF ServerHears, Hearing
  <1>5. CASE BridgePasses
    <2>1. PICK p \in Inputs : Passing(p)
      BY <1>5 DEF BridgePasses
    <2>2. EncodeInput(p) \in Answers
      BY PlayerAssumption DEF EncodeInput, Inputs, Answers
    <2> QED
      BY <1>5, <2>1, <2>2, Popped, Pushed DEF BridgePasses, Passing
  <1>6. CASE ClientTells
    BY <1>6, Pushed DEF ClientTells, Telling
  <1>7. CASE PlayerRests
    BY <1>7 DEF PlayerRests, playerVars, queues, PlayersTyped, HereTyped, BedrockTyped, StepsTyped, JavaTyped
  <1> QED
    BY <1>1, <1>2, <1>3, <1>4, <1>5, <1>6, <1>7 DEF PlayerMoves

(***************************************************************************)
(* Positions in the queues                                                 *)
(***************************************************************************)
\* The positions after a packet has been said, handled, written or shown.
SaidLast(p) ==
    /\ Len(fromServer) \in Nat
    /\ Len(fromServer) + 1 \in DOMAIN fromServer' /\ fromServer'[Len(fromServer) + 1] = p
    /\ \A i \in DOMAIN fromServer :
          /\ i \in Int /\ i > 0 /\ i < Len(fromServer) + 1
          /\ i \in DOMAIN fromServer' /\ fromServer'[i] = fromServer[i]
    /\ \A i \in DOMAIN fromServer' :
          i \in Int /\ (i \in DOMAIN fromServer \/ i = Len(fromServer) + 1)
HandledFirst(p) ==
    /\ 1 \in DOMAIN fromServer /\ fromServer[1] = p
    /\ \A i \in DOMAIN fromServer :
          /\ i \in Int /\ i >= 1
          /\ i = 1 \/ (i - 1 \in DOMAIN fromServer' /\ fromServer'[i - 1] = fromServer[i])
    /\ \A i \in DOMAIN fromServer' :
          /\ i \in Int /\ i >= 1
          /\ i + 1 \in DOMAIN fromServer /\ fromServer'[i] = fromServer[i + 1]
WrittenLast(w) ==
    /\ Len(toClient) \in Nat
    /\ \A k \in DOMAIN w :
          /\ k \in Int /\ k > 0
          /\ Len(toClient) + k \in DOMAIN toClient' /\ toClient'[Len(toClient) + k] = w[k]
    /\ \A i \in DOMAIN toClient :
          /\ i \in Int /\ i > 0 /\ i <= Len(toClient)
          /\ i \in DOMAIN toClient' /\ toClient'[i] = toClient[i]
    /\ \A i \in DOMAIN toClient' :
          i \in Int /\ (i \in DOMAIN toClient \/ \E k \in DOMAIN w : i = Len(toClient) + k)
ShownFirst(p) ==
    /\ 1 \in DOMAIN toClient /\ toClient[1] = p
    /\ \A i \in DOMAIN toClient :
          /\ i \in Int /\ i >= 1
          /\ i = 1 \/ (i - 1 \in DOMAIN toClient' /\ toClient'[i - 1] = toClient[i])
    /\ \A i \in DOMAIN toClient' :
          /\ i \in Int /\ i >= 1
          /\ i + 1 \in DOMAIN toClient /\ toClient'[i] = toClient[i + 1]

LEMMA SaidQueue ==
    ASSUME PacketsTyped, NEW p \in ServerPackets, Saying(p)
    PROVE  SaidLast(p)
  BY Pushed DEF PacketsTyped, Saying, SaidLast

LEMMA HandledQueues ==
    ASSUME PacketsTyped, NEW p, NEW w \in Seq(ClientPackets), NEW a, Handling(p, w, a)
    PROVE  HandledFirst(p) /\ WrittenLast(w)
  <1>1. HandledFirst(p)
    BY Popped DEF PacketsTyped, Handling, HandledFirst
  <1>2. toClient \in Seq(ClientPackets) /\ toClient' = toClient \o w
    BY DEF PacketsTyped, Handling
  <1>3. \A i \in DOMAIN toClient' :
           i \in Int /\ (i \in DOMAIN toClient \/ (i > Len(toClient) /\ i - Len(toClient) \in DOMAIN w))
    BY <1>2, Joined
  <1>4. \A i \in DOMAIN toClient' : i \in DOMAIN toClient \/ \E k \in DOMAIN w : i = Len(toClient) + k
    <2>1. Len(toClient) \in Int
      BY <1>2, LenProperties
    <2> QED
      BY <1>3, <2>1
  <1>5. \A i \in DOMAIN toClient : i \in Int /\ i > 0 /\ i <= Len(toClient)
    BY <1>2, LenProperties
  <1> QED
    BY <1>1, <1>2, <1>3, <1>4, <1>5, Joined DEF WrittenLast

LEMMA ShownQueue ==
    ASSUME PacketsTyped, NEW p, Showing(p)
    PROVE  ShownFirst(p)
  BY Popped DEF PacketsTyped, Showing, ShownFirst

\* The other steps leave the world as it is.
Elsewhere ==
    /\ UNCHANGED <<fromServer, toClient, here>>
    /\ javaPlayer'.mode = javaPlayer.mode
    /\ javaPlayer'.dimension = javaPlayer.dimension
    /\ javaPlayer'.chunks = javaPlayer.chunks
    /\ bedrockPlayer'.mode = bedrockPlayer.mode
    /\ bedrockPlayer'.dimension = bedrockPlayer.dimension
    /\ bedrockPlayer'.chunks = bedrockPlayer.chunks

LEMMA WorldSteps ==
    ASSUME PlayerMoves
    PROVE  ServerSays \/ BridgeHandles \/ ClientShows \/ Elsewhere
  BY DEF PlayerMoves, ServerHears, Hearing, BridgePasses, Passing, ClientTells, Telling, PlayerRests,
         playerVars, queues, Elsewhere

(***************************************************************************)
(* Game mode                                                               *)
(***************************************************************************)
LEMMA ModeStep ==
    ASSUME PacketsTyped, PlayersTyped, ModeInv, PlayerMoves
    PROVE  ModeInv'
  <1> USE DEF ModeInv, LastModeSet, ModeReaches, SetsMode
  <1>1. CASE ServerSays
    <2>1. PICK p \in ServerPackets : Saying(p)
      BY <1>1 DEF ServerSays
    <2>2. SaidLast(p)
      BY <2>1, SaidQueue
    <2>3. LastModeSet'
      BY <2>1, <2>2 DEF Saying, SaidLast
    <2>4. ModeReaches'
      BY <2>1, <2>2 DEF Saying, SaidLast
    <2> QED
      BY <2>3, <2>4
  <1>2. CASE BridgeHandles
    <2>1. PICK p \in ServerPackets, w \in Seq(ClientPackets), a \in Seq(Answers) : Handling(p, w, a)
      BY <1>2 DEF BridgeHandles
    <2>2. HandledFirst(p) /\ WrittenLast(w)
      BY <2>1, HandledQueues
    <2>3. LastModeSet'
      <3> SUFFICES ASSUME NEW i \in DOMAIN fromServer', SetsMode(i)',
                          \A j \in DOMAIN fromServer' : SetsMode(j)' => j <= i
                   PROVE  fromServer'[i].mode = javaPlayer'.mode
        OBVIOUS
      <3>1. /\ i + 1 \in DOMAIN fromServer /\ fromServer'[i] = fromServer[i + 1]
            /\ SetsMode(i + 1) /\ i \in Int
        BY <2>2 DEF HandledFirst
      <3>2. ASSUME NEW j \in DOMAIN fromServer, SetsMode(j) PROVE j <= i + 1
        <4>1. CASE j = 1
          BY <4>1, <3>1, <2>2 DEF HandledFirst
        <4>2. CASE j # 1
          <5>1. j - 1 \in DOMAIN fromServer' /\ fromServer'[j - 1] = fromServer[j] /\ j \in Int
            BY <4>2, <2>2 DEF HandledFirst
          <5>2. SetsMode(j - 1)'
            BY <5>1, <3>2
          <5> QED
            BY <5>1, <5>2, <3>1
        <4> QED
          BY <4>1, <4>2
      <3> QED
        BY <2>1, <3>1, <3>2 DEF Handling
    <2>4. ModeReaches'
      <3> SUFFICES ASSUME \A i \in DOMAIN fromServer' : ~SetsMode(i)' PROVE
              /\ \A i \in DOMAIN toClient' :
                    /\ toClient'[i].type = "mode"
                    /\ \A j \in DOMAIN toClient' : toClient'[j].type = "mode" => j <= i
                    => toClient'[i].mode = GameType(javaPlayer.mode)
              /\ (\A i \in DOMAIN toClient' : toClient'[i].type # "mode") =>
                    bedrockPlayer.mode = GameType(javaPlayer.mode)
        BY <2>1 DEF Handling
      <3>1. CASE SetsMode(1)
        <4>1. p.mode = javaPlayer.mode
          BY <3>1, <2>2 DEF HandledFirst
        <4>2. \A k \in DOMAIN w : w[k].type = "mode" => w[k].mode = GameType(javaPlayer.mode)
          BY <4>1, <2>1 DEF Handling
        <4>3. PICK k \in DOMAIN w : w[k].type = "mode"
          BY <2>1, <2>2, <3>1 DEF Handling, HandledFirst
        <4>4. /\ Len(toClient) + k \in DOMAIN toClient' /\ toClient'[Len(toClient) + k].type = "mode"
              /\ \A i \in DOMAIN toClient : i < Len(toClient) + k
          BY <4>3, <2>2 DEF WrittenLast
        <4>5. \A i \in DOMAIN toClient' : i >= Len(toClient) + k /\ toClient'[i].type = "mode" =>
                 toClient'[i].mode = GameType(javaPlayer.mode)
          BY <4>2, <4>4, <2>2, SMTT(60) DEF WrittenLast
        <4> QED
          BY <4>4, <4>5
      <3>2. CASE ~SetsMode(1)
        <4>1. \A k \in DOMAIN w : w[k].type # "mode"
          BY <3>2, <2>1, <2>2 DEF Handling, HandledFirst
        <4>2. \A i \in DOMAIN fromServer : ~SetsMode(i)
          BY <3>2, <2>2 DEF HandledFirst
        <4>3. \A i \in DOMAIN toClient' : toClient'[i].type = "mode" =>
                 i \in DOMAIN toClient /\ toClient'[i] = toClient[i]
          BY <4>1, <2>2 DEF WrittenLast
        <4>4. \A i \in DOMAIN toClient : i \in DOMAIN toClient' /\ toClient'[i] = toClient[i]
          BY <2>2 DEF WrittenLast
        <4> QED
          BY <4>2, <4>3, <4>4
      <3> QED
        BY <3>1, <3>2
    <2> QED
      BY <2>3, <2>4
  <1>3. CASE ClientShows
    <2>1. PICK p \in ClientPackets : Showing(p)
      BY <1>3 DEF ClientShows
    <2>2. ShownFirst(p)
      BY <2>1, ShownQueue
    <2>3. LastModeSet'
      BY <2>1 DEF Showing
    <2>4. ModeReaches'
      <3> SUFFICES ASSUME \A i \in DOMAIN fromServer : ~SetsMode(i) PROVE
              /\ \A i \in DOMAIN toClient' :
                    /\ toClient'[i].type = "mode"
                    /\ \A j \in DOMAIN toClient' : toClient'[j].type = "mode" => j <= i
                    => toClient'[i].mode = GameType(javaPlayer.mode)
              /\ (\A i \in DOMAIN toClient' : toClient'[i].type # "mode") =>
                    bedrockPlayer'.mode = GameType(javaPlayer.mode)
        BY <2>1 DEF Showing
      <3>1. ASSUME NEW i \in DOMAIN toClient', toClient'[i].type = "mode",
                   \A j \in DOMAIN toClient' : toClient'[j].type = "mode" => j <= i
            PROVE  toClient'[i].mode = GameType(javaPlayer.mode)
        <4>1. i + 1 \in DOMAIN toClient /\ toClient'[i] = toClient[i + 1] /\ i \in Int
          BY <2>2 DEF ShownFirst
        <4>2. \A j \in DOMAIN toClient : toClient[j].type = "mode" => j <= i + 1
          BY <2>2, <3>1 DEF ShownFirst
        <4> QED
          BY <3>1, <4>1, <4>2
      <3>2. ASSUME \A i \in DOMAIN toClient' : toClient'[i].type # "mode"
            PROVE  bedrockPlayer'.mode = GameType(javaPlayer.mode)
        <4>1. \A j \in DOMAIN toClient : toClient[j].type = "mode" => j = 1
          BY <2>2, <3>2 DEF ShownFirst
        <4> QED
          BY <2>1, <2>2, <4>1 DEF Showing, ShownFirst
      <3> QED
        BY <3>1, <3>2
    <2> QED
      BY <2>3, <2>4
  <1>4. CASE Elsewhere
    BY <1>4 DEF Elsewhere
  <1> QED
    BY <1>1, <1>2, <1>3, <1>4, WorldSteps

(***************************************************************************)
(* Dimension                                                               *)
(***************************************************************************)
LEMMA DimensionStep ==
    ASSUME PacketsTyped, PlayersTyped, DimensionInv, PlayerMoves
    PROVE  DimensionInv'
  <1> USE DEF DimensionInv, LastRespawn, LastChange, Respawns, Changes
  <1>1. CASE ServerSays
    <2>1. PICK p \in ServerPackets : Saying(p)
      BY <1>1 DEF ServerSays
    <2>2. SaidLast(p)
      BY <2>1, SaidQueue
    <2>3. LastRespawn'
      <3>1. CASE p.type = "respawn"
        <4>1. /\ Len(fromServer) + 1 \in DOMAIN fromServer'
              /\ fromServer'[Len(fromServer) + 1].type = "respawn"
              /\ fromServer'[Len(fromServer) + 1].dimension = javaPlayer'.dimension
              /\ \A j \in DOMAIN fromServer' : j <= Len(fromServer) + 1
          BY <3>1, <2>1, <2>2 DEF Saying, SaidLast
        <4> QED
          BY <4>1
      <3>2. CASE p.type # "respawn"
        <4>1. /\ \A j \in DOMAIN fromServer' : Respawns(j)' => j \in DOMAIN fromServer /\ Respawns(j)
              /\ \A j \in DOMAIN fromServer : j \in DOMAIN fromServer' /\ fromServer'[j] = fromServer[j]
              /\ javaPlayer'.dimension = javaPlayer.dimension /\ here' = here
          BY <3>2, <2>1, <2>2 DEF Saying, SaidLast
        <4> QED
          BY <4>1
      <3> QED
        BY <3>1, <3>2
    <2>4. LastChange'
      BY <2>1 DEF Saying
    <2> QED
      BY <2>3, <2>4
  <1>2. CASE BridgeHandles
    <2>1. PICK p \in ServerPackets, w \in Seq(ClientPackets), a \in Seq(Answers) : Handling(p, w, a)
      BY <1>2 DEF BridgeHandles
    <2>2. HandledFirst(p) /\ WrittenLast(w)
      BY <2>1, HandledQueues
    <2>3. LastRespawn'
      <3>1. javaPlayer' = javaPlayer
        BY <2>1 DEF Handling
      <3>2. ASSUME NEW i \in DOMAIN fromServer, Respawns(i), i # 1,
                   fromServer[i].dimension = javaPlayer.dimension,
                   \A j \in DOMAIN fromServer : Respawns(j) => j <= i
            PROVE  LastRespawn'
        <4>1. i - 1 \in DOMAIN fromServer' /\ fromServer'[i - 1] = fromServer[i] /\ i \in Int
          BY <2>2, <3>2 DEF HandledFirst
        <4>2. \A j \in DOMAIN fromServer' : Respawns(j)' => j <= i - 1
          BY <2>2, <3>2, <4>1 DEF HandledFirst
        <4> QED
          BY <3>1, <3>2, <4>1, <4>2
      <3>3. ASSUME \A j \in DOMAIN fromServer : Respawns(j) => j <= 1
            PROVE  \A j \in DOMAIN fromServer' : ~Respawns(j)'
        BY <2>2, <3>3 DEF HandledFirst
      <3>4. CASE p.type = "respawn"
        <4>1. Respawns(1) /\ 1 \in DOMAIN fromServer /\ here'.dimension = DimensionID(fromServer[1].dimension)
          BY <2>1, <2>2, <3>4 DEF Handling, HandledFirst
        <4>2. PICK i \in DOMAIN fromServer :
                 /\ Respawns(i) /\ fromServer[i].dimension = javaPlayer.dimension
                 /\ \A j \in DOMAIN fromServer : Respawns(j) => j <= i
          BY <4>1
        <4>3. CASE i = 1
          BY <3>1, <3>3, <4>1, <4>2, <4>3
        <4> QED
          BY <3>2, <4>2, <4>3
      <3>5. CASE p.type # "respawn"
        <4>1. ~Respawns(1) /\ here'.dimension = here.dimension
          BY <2>1, <2>2, <3>5 DEF Handling, HandledFirst
        <4> QED
          BY <3>1, <3>2, <3>3, <4>1
      <3> QED
        BY <3>4, <3>5
    <2>4. LastChange'
      <3>1. CASE here'.dimension = here.dimension
        <4>1. \A k \in DOMAIN w : w[k].type # "dimension"
          BY <2>1, <3>1 DEF Handling
        <4> QED
          BY <2>1, <2>2, <3>1, <4>1, SMTT(60) DEF Handling, WrittenLast
      <3>2. CASE here'.dimension # here.dimension
        <4>1. PICK k \in DOMAIN w : w[k].type = "dimension"
          BY <2>1, <3>2 DEF Handling
        <4>2. \A j \in DOMAIN w : w[j].type = "dimension" => w[j].dimension = here'.dimension
          BY <2>1 DEF Handling
        <4>3. /\ Len(toClient) + k \in DOMAIN toClient'
              /\ toClient'[Len(toClient) + k].type = "dimension"
              /\ \A i \in DOMAIN toClient : i < Len(toClient) + k
          BY <4>1, <2>2 DEF WrittenLast
        <4>4. ASSUME NEW i \in DOMAIN toClient', i >= Len(toClient) + k, Changes(i)'
              PROVE  toClient'[i].dimension = here'.dimension
          <5>1. PICK m \in DOMAIN w : i = Len(toClient) + m
            BY <4>3, <4>4, <2>2 DEF WrittenLast
          <5>2. toClient'[i] = w[m]
            BY <5>1, <2>2 DEF WrittenLast
          <5> QED
            BY <5>2, <4>2, <4>4
        <4> QED
          BY <4>3, <4>4
      <3> QED
        BY <3>1, <3>2
    <2> QED
      BY <2>3, <2>4
  <1>3. CASE ClientShows
    <2>1. PICK p \in ClientPackets : Showing(p)
      BY <1>3 DEF ClientShows
    <2>2. ShownFirst(p)
      BY <2>1, ShownQueue
    <2>3. LastRespawn'
      BY <2>1 DEF Showing
    <2>4. LastChange'
      <3>1. ASSUME NEW i \in DOMAIN toClient', Changes(i)',
                   \A j \in DOMAIN toClient' : Changes(j)' => j <= i
            PROVE  toClient'[i].dimension = here'.dimension
        <4>1. /\ i + 1 \in DOMAIN toClient /\ toClient'[i] = toClient[i + 1]
              /\ Changes(i + 1) /\ i \in Int
          BY <2>2, <3>1 DEF ShownFirst
        <4>2. \A j \in DOMAIN toClient : Changes(j) => j <= i + 1
          BY <2>2, <3>1 DEF ShownFirst
        <4> QED
          BY <2>1, <4>1, <4>2 DEF Showing
      <3>2. ASSUME \A i \in DOMAIN toClient' : ~Changes(i)'
            PROVE  bedrockPlayer'.dimension = here'.dimension
        <4>1. \A j \in DOMAIN toClient : Changes(j) => j = 1
          BY <2>2, <3>2 DEF ShownFirst
        <4> QED
          BY <2>1, <2>2, <4>1 DEF Showing, ShownFirst
      <3> QED
        BY <3>1, <3>2
    <2> QED
      BY <2>3, <2>4
  <1>4. CASE Elsewhere
    BY <1>4 DEF Elsewhere
  <1> QED
    BY <1>1, <1>2, <1>3, <1>4, WorldSteps

(***************************************************************************)
(* Chunks                                                                  *)
(***************************************************************************)
LEMMA ChunksInPlaceStep ==
    ASSUME PacketsTyped, PlayersTyped, DimensionInv, ChunksInPlace, PlayerMoves
    PROVE  ChunksInPlace'
  <1> USE DEF ChunksInPlace, Respawns
  <1>1. CASE ServerSays
    <2>1. PICK p \in ServerPackets : Saying(p)
      BY <1>1 DEF ServerSays
    <2>2. SaidLast(p)
      BY <2>1, SaidQueue
    <2> SUFFICES ASSUME NEW i \in DOMAIN fromServer', fromServer'[i].type = "chunk"
                 PROVE  /\ (\A j \in DOMAIN fromServer' : Respawns(j)' => j > i) =>
                              here.dimension = DimensionID(fromServer'[i].of)
                        /\ \A j \in DOMAIN fromServer' :
                              /\ Respawns(j)' /\ j < i
                              /\ \A k \in DOMAIN fromServer' : Respawns(k)' => k <= j \/ k > i
                              => fromServer'[j].dimension = fromServer'[i].of
      BY <2>1 DEF Saying
    <2>3. CASE i \in DOMAIN fromServer
      BY <2>2, <2>3 DEF SaidLast
    <2>4. CASE i = Len(fromServer) + 1
      <3>1. p.type = "chunk" /\ fromServer'[i] = p /\ p.of = javaPlayer.dimension
        BY <2>1, <2>2, <2>4 DEF Saying, SaidLast
      <3>2. \A j \in DOMAIN fromServer' : j < i => j \in DOMAIN fromServer /\ fromServer'[j] = fromServer[j]
        BY <2>2, <2>4 DEF SaidLast
      <3>3. \A j \in DOMAIN fromServer : j \in DOMAIN fromServer' /\ fromServer'[j] = fromServer[j] /\ ~(j > i)
        BY <2>2, <2>4 DEF SaidLast
      <3>4. ASSUME \A j \in DOMAIN fromServer' : Respawns(j)' => j > i
            PROVE  here.dimension = DimensionID(p.of)
        BY <3>1, <3>3, <3>4 DEF DimensionInv, LastRespawn
      <3>5. ASSUME NEW j \in DOMAIN fromServer', Respawns(j)', j < i,
                   \A k \in DOMAIN fromServer' : Respawns(k)' => k <= j \/ k > i
            PROVE  fromServer'[j].dimension = p.of
        <4>1. j \in DOMAIN fromServer /\ Respawns(j) /\ \A k \in DOMAIN fromServer : Respawns(k) => k <= j
          BY <3>2, <3>3, <3>5
        <4>2. PICK m \in DOMAIN fromServer :
                 /\ Respawns(m) /\ fromServer[m].dimension = javaPlayer.dimension
                 /\ \A k \in DOMAIN fromServer : Respawns(k) => k <= m
          BY <4>1 DEF DimensionInv, LastRespawn
        <4>3. m <= j /\ j <= m /\ m \in Int /\ j \in Int
          BY <4>1, <4>2, <2>2 DEF SaidLast
        <4>4. m = j
          BY <4>3
        <4> QED
          BY <3>1, <3>2, <3>5, <4>2, <4>4
      <3> QED
        BY <3>1, <3>4, <3>5
    <2> QED
      BY <2>2, <2>3, <2>4 DEF SaidLast
  <1>2. CASE BridgeHandles
    <2>1. PICK p \in ServerPackets, w \in Seq(ClientPackets), a \in Seq(Answers) : Handling(p, w, a)
      BY <1>2 DEF BridgeHandles
    <2>2. HandledFirst(p)
      BY <2>1, HandledQueues
    <2> SUFFICES ASSUME NEW i \in DOMAIN fromServer', fromServer'[i].type = "chunk"
                 PROVE  /\ (\A j \in DOMAIN fromServer' : Respawns(j)' => j > i) =>
                              here'.dimension = DimensionID(fromServer'[i].of)
                        /\ \A j \in DOMAIN fromServer' :
                              /\ Respawns(j)' /\ j < i
                              /\ \A k \in DOMAIN fromServer' : Respawns(k)' => k <= j \/ k > i
                              => fromServer'[j].dimension = fromServer'[i].of
      OBVIOUS
    <2>3. i + 1 \in DOMAIN fromServer /\ fromServer'[i] = fromServer[i + 1] /\ i \in Int /\ i >= 1
      BY <2>2 DEF HandledFirst
    <2>4. ASSUME \A j \in DOMAIN fromServer' : Respawns(j)' => j > i
          PROVE  here'.dimension = DimensionID(fromServer'[i].of)
      <3>1. \A k \in DOMAIN fromServer : Respawns(k) => k <= 1 \/ k > i + 1
        BY <2>2, <2>3, <2>4 DEF HandledFirst
      <3>2. CASE p.type = "respawn"
        <4>1. 1 \in DOMAIN fromServer /\ Respawns(1) /\ 1 < i + 1 /\ fromServer[1] = p
          BY <3>2, <2>2, <2>3 DEF HandledFirst
        <4>2. p.dimension = fromServer[i + 1].of
          BY <4>1, <3>1, <2>3
        <4> QED
          BY <4>2, <3>2, <2>1, <2>3 DEF Handling
      <3>3. CASE p.type # "respawn"
        <4>1. \A j \in DOMAIN fromServer : Respawns(j) => j > i + 1
          BY <3>1, <3>3, <2>2, <2>3 DEF HandledFirst
        <4> QED
          BY <4>1, <3>3, <2>1, <2>3 DEF Handling
      <3> QED
        BY <3>2, <3>3
    <2>5. ASSUME NEW j \in DOMAIN fromServer', Respawns(j)', j < i,
                 \A k \in DOMAIN fromServer' : Respawns(k)' => k <= j \/ k > i
          PROVE  fromServer'[j].dimension = fromServer'[i].of
      <3>1. j + 1 \in DOMAIN fromServer /\ fromServer'[j] = fromServer[j + 1] /\ j \in Int /\ j >= 1
        BY <2>2 DEF HandledFirst
      <3>2. ASSUME NEW k \in DOMAIN fromServer, Respawns(k) PROVE k <= j + 1 \/ k > i + 1
        <4>1. CASE k = 1
          BY <4>1, <3>1
        <4>2. CASE k # 1
          <5>1. k - 1 \in DOMAIN fromServer' /\ fromServer'[k - 1] = fromServer[k] /\ k \in Int
            BY <4>2, <2>2 DEF HandledFirst
          <5> QED
            BY <5>1, <3>1, <3>2, <2>3, <2>5
        <4> QED
          BY <4>1, <4>2
      <3>3. Respawns(j + 1) /\ j + 1 < i + 1
        BY <2>3, <2>5, <3>1
      <3> QED
        BY <3>1, <3>2, <3>3, <2>3
    <2> QED
      BY <2>4, <2>5
  <1>3. CASE ClientShows \/ Elsewhere
    <2>1. UNCHANGED <<fromServer, here>>
      BY <1>3 DEF ClientShows, Showing, Elsewhere
    <2> QED
      BY <2>1
  <1> QED
    BY <1>1, <1>2, <1>3, WorldSteps

LEMMA ChunksAddressedStep ==
    ASSUME PacketsTyped, PlayersTyped, ChunksAddressed, PlayerMoves
    PROVE  ChunksAddressed'
  <1> USE DEF ChunksAddressed, Changes
  <1>1. CASE BridgeHandles
    <2>1. PICK p \in ServerPackets, w \in Seq(ClientPackets), a \in Seq(Answers) : Handling(p, w, a)
      BY <1>1 DEF BridgeHandles
    <2>2. WrittenLast(w)
      BY <2>1, HandledQueues
    <2> SUFFICES ASSUME NEW i \in DOMAIN toClient', toClient'[i].type = "chunk",
                        \A j \in DOMAIN toClient' : Changes(j)' => j < i
                 PROVE  toClient'[i].dimension = here'.dimension
      OBVIOUS
    <2>3. CASE i \in DOMAIN toClient
      <3>1. \A k \in DOMAIN w : w[k].type # "dimension"
        BY <2>2, <2>3 DEF WrittenLast
      <3>2. here'.dimension = here.dimension
        BY <2>1, <3>1 DEF Handling
      <3> QED
        BY <2>2, <2>3, <3>2 DEF WrittenLast
    <2>4. ASSUME NEW k \in DOMAIN w, i = Len(toClient) + k PROVE toClient'[i].dimension = here'.dimension
      <3>1. toClient'[i] = w[k]
        BY <2>2, <2>4 DEF WrittenLast
      <3> QED
        BY <3>1, <2>1 DEF Handling
    <2> QED
      BY <2>2, <2>3, <2>4 DEF WrittenLast
  <1>2. CASE ClientShows
    <2>1. PICK p \in ClientPackets : Showing(p)
      BY <1>2 DEF ClientShows
    <2>2. ShownFirst(p)
      BY <2>1, ShownQueue
    <2> SUFFICES ASSUME NEW i \in DOMAIN toClient', toClient'[i].type = "chunk",
                        \A j \in DOMAIN toClient' : Changes(j)' => j < i
                 PROVE  toClient'[i].dimension = here.dimension
      BY <2>1 DEF Showing
    <2>3. i + 1 \in DOMAIN toClient /\ toClient'[i] = toClient[i + 1] /\ i \in Int /\ i >= 1
      BY <2>2 DEF ShownFirst
    <2>4. \A j \in DOMAIN toClient : Changes(j) => j < i + 1
      BY <2>2, <2>3 DEF ShownFirst
    <2> QED
      BY <2>3, <2>4
  <1>3. CASE ServerSays \/ Elsewhere
    BY <1>3 DEF ServerSays, Saying, Elsewhere
  <1> QED
    BY <1>1, <1>2, <1>3, WorldSteps

\* What a queue still has in it to remove a chunk, after another packet has been said, handled, written
\* or shown.
LEMMA RemovedLater ==
    ASSUME NEW n \in Nat, NEW c, NEW place
    PROVE  /\ \A p : SaidLast(p) /\ RemovedByServer(n, c, place) => RemovedByServer(n, c, place)'
           /\ \A p : HandledFirst(p) =>
                 (RemovedByServer(n, c, place)' <=> RemovedByServer(n + 1, c, place))
           /\ \A w : WrittenLast(w) /\ RemovedByBridge(n, c, place) => RemovedByBridge(n, c, place)'
           /\ \A p : ShownFirst(p) =>
                 (RemovedByBridge(n, c, place)' <=> RemovedByBridge(n + 1, c, place))
  <1> USE DEF RemovedByServer, RemovedByBridge, Respawns, Changes
  <1>1. ASSUME NEW p, SaidLast(p), RemovedByServer(n, c, place) PROVE RemovedByServer(n, c, place)'
    BY <1>1 DEF SaidLast
  <1>2. ASSUME NEW p, HandledFirst(p), RemovedByServer(n, c, place)'
        PROVE  RemovedByServer(n + 1, c, place)
    BY <1>2 DEF HandledFirst
  <1>3. ASSUME NEW p, HandledFirst(p), RemovedByServer(n + 1, c, place)
        PROVE  RemovedByServer(n, c, place)'
    BY <1>3 DEF HandledFirst
  <1>4. ASSUME NEW w, WrittenLast(w), RemovedByBridge(n, c, place) PROVE RemovedByBridge(n, c, place)'
    BY <1>4 DEF WrittenLast
  <1>5. ASSUME NEW p, ShownFirst(p), RemovedByBridge(n, c, place)'
        PROVE  RemovedByBridge(n + 1, c, place)
    BY <1>5 DEF ShownFirst
  <1>6. ASSUME NEW p, ShownFirst(p), RemovedByBridge(n + 1, c, place)
        PROVE  RemovedByBridge(n, c, place)'
    BY <1>6 DEF ShownFirst
  <1> HIDE DEF RemovedByServer, RemovedByBridge
  <1> QED
    BY <1>1, <1>2, <1>3, <1>4, <1>5, <1>6

\* The world keeps what it knows when nothing of it changes.
LEMMA ChunksElsewhere ==
    ASSUME Elsewhere
    PROVE  /\ \A i, c, place : ServerChunk(i, c, place)' <=> ServerChunk(i, c, place)
           /\ \A i, c, place : BridgeChunk(i, c, place)' <=> BridgeChunk(i, c, place)
           /\ \A i, c, place : RemovedByServer(i, c, place)' <=> RemovedByServer(i, c, place)
           /\ \A i, c, place : RemovedByBridge(i, c, place)' <=> RemovedByBridge(i, c, place)
           /\ \A c, place : Current(c, place)' <=> Current(c, place)
           /\ \A c : Unloading(c)' <=> Unloading(c)
           /\ UNCHANGED <<fromServer, toClient, here>>
           /\ bedrockPlayer'.chunks = bedrockPlayer.chunks
  BY DEF Elsewhere, ServerChunk, BridgeChunk, RemovedByServer, RemovedByBridge, Current, Unloading,
         Respawns, Changes

LEMMA ServerChunksStep ==
    ASSUME PacketsTyped, PlayersTyped, ServerChunksCurrent, PlayerMoves
    PROVE  ServerChunksCurrent'
  <1> SUFFICES ASSUME NEW i \in DOMAIN fromServer', NEW c \in SentChunks, NEW place \in Places,
                      ServerChunk(i, c, place)', ~RemovedByServer(i, c, place)'
               PROVE  Current(c, place)'
    BY DEF ServerChunksCurrent
  <1> USE DEF ServerChunksCurrent
  <1>1. CASE ServerSays
    <2>1. PICK p \in ServerPackets : Saying(p)
      BY <1>1 DEF ServerSays
    <2>2. SaidLast(p)
      BY <2>1, SaidQueue
    <2>3. CASE i \in DOMAIN fromServer
      <3>1. fromServer[i] = fromServer'[i] /\ i < Len(fromServer) + 1 /\ i \in Nat
        BY <2>2, <2>3 DEF SaidLast
      <3>2. ~RemovedByServer(i, c, place)
        BY <2>2, <3>1, RemovedLater
      <3>3. c \in javaPlayer.chunks /\ place = javaPlayer.dimension
        BY <3>1, <3>2, <2>3 DEF Current, ServerChunk
      <3>4. /\ ~(p.type = "unload" /\ p.chunk = c)
            /\ ~(p.type = "respawn" /\ p.dimension # place)
        BY <2>2, <3>1 DEF SaidLast, RemovedByServer, Respawns
      <3> QED
        BY <3>3, <3>4, <2>1 DEF Saying, Current
    <2>4. CASE i = Len(fromServer) + 1
      BY <2>1, <2>2, <2>4 DEF Saying, SaidLast, Current, ServerChunk
    <2> QED
      BY <2>2, <2>3, <2>4 DEF SaidLast
  <1>2. CASE BridgeHandles
    <2>1. PICK p \in ServerPackets, w \in Seq(ClientPackets), a \in Seq(Answers) : Handling(p, w, a)
      BY <1>2 DEF BridgeHandles
    <2>2. HandledFirst(p) /\ javaPlayer' = javaPlayer
      BY <2>1, HandledQueues DEF Handling
    <2>3. i + 1 \in DOMAIN fromServer /\ fromServer'[i] = fromServer[i + 1] /\ i \in Nat
      BY <2>2 DEF HandledFirst
    <2>4. ~RemovedByServer(i + 1, c, place)
      BY <2>2, <2>3, RemovedLater
    <2> QED
      BY <2>2, <2>3, <2>4 DEF ServerChunk, Current
  <1>3. CASE ClientShows
    <2>1. fromServer' = fromServer /\ javaPlayer' = javaPlayer
      BY <1>3 DEF ClientShows, Showing
    <2> QED
      BY <2>1 DEF Current, RemovedByServer, Respawns, ServerChunk
  <1>4. CASE Elsewhere
    BY <1>4, ChunksElsewhere
  <1> QED
    BY <1>1, <1>2, <1>3, <1>4, WorldSteps

\* The server says nothing that lets what it does not have the client have stay.
LEMMA SayingChunks ==
    ASSUME PacketsTyped, PlayersTyped, DimensionInv, NEW p \in ServerPackets, Saying(p),
           NEW c \in SentChunks, NEW place \in Places, ~Unloading(c)', Current(c, place)
    PROVE  Current(c, place)'
  <1>1. SaidLast(p)
    BY SaidQueue
  <1>2. p.type = "unload" => p.chunk # c
    BY <1>1 DEF SaidLast, Unloading
  <1>3. p.type = "respawn" => DimensionID(p.dimension) = here.dimension /\ p.dimension \in Places
    BY <1>1, ServerPacketFields DEF SaidLast, Unloading, Respawns, Saying
  <1>4. ASSUME p.type = "respawn" PROVE p.dimension = javaPlayer.dimension
    <2>1. \A i \in DOMAIN fromServer : Respawns(i) => DimensionID(fromServer[i].dimension) = here.dimension
      BY <1>1 DEF SaidLast, Unloading, Respawns, Saying
    <2>2. here.dimension = DimensionID(javaPlayer.dimension)
      BY <2>1 DEF DimensionInv, LastRespawn
    <2> QED
      BY <2>2, <1>3, <1>4, Injective DEF PlayersTyped, JavaTyped
  <1> QED
    BY <1>2, <1>4 DEF Current, Saying

\* A packet the bridge has handled removes nothing any more that its writing does not.
LEMMA HandlingChunks ==
    ASSUME PacketsTyped, PlayersTyped, ChunksInPlace,
           NEW p \in ServerPackets, NEW w \in Seq(ClientPackets), NEW a, Handling(p, w, a),
           NEW c \in SentChunks, NEW place \in Places, ~Unloading(c)',
           \A k \in DOMAIN w : w[k].type # "dimension" /\ ~(w[k].type = "chunk" /\ w[k].chunk = c
                                                       /\ place \notin w[k].content)
    PROVE  ~Unloading(c)
  <1>1. HandledFirst(p)
    BY HandledQueues
  <1>2. here'.dimension = here.dimension
    BY DEF Handling
  <1>3. ~(p.type = "unload" /\ p.chunk = c)
    BY DEF Handling
  <1>4. ~(p.type = "respawn" /\ DimensionID(p.dimension) # here.dimension)
    BY <1>2 DEF Handling
  <1>5. ASSUME NEW i \in DOMAIN fromServer, i # 1
        PROVE  ~ \/ fromServer[i].type = "unload" /\ fromServer[i].chunk = c
                 \/ Respawns(i) /\ DimensionID(fromServer[i].dimension) # here.dimension
    <2>1. i - 1 \in DOMAIN fromServer' /\ fromServer'[i - 1] = fromServer[i]
      BY <1>1, <1>5 DEF HandledFirst
    <2> QED
      BY <2>1, <1>2 DEF Unloading, Respawns
  <1> QED
    BY <1>1, <1>3, <1>4, <1>5 DEF HandledFirst, Unloading, Respawns

\* A chunk that the bridge sends on, and that nothing it has not handled removes, is one
\* the server has the client have.
LEMMA HandledChunk ==
    ASSUME PacketsTyped, PlayersTyped, ChunksInPlace, ServerChunksCurrent,
           NEW p \in ServerPackets, NEW w \in Seq(ClientPackets), NEW a, Handling(p, w, a),
           NEW c \in SentChunks, NEW place \in Places, ~Unloading(c)',
           p.type = "chunk", p.chunk = c, p.of = place
    PROVE  Current(c, place)
  <1>1. HandledFirst(p) /\ here'.dimension = here.dimension
    BY HandledQueues DEF Handling
  <1>2. ServerChunk(1, c, place) /\ 1 \in DOMAIN fromServer
    BY <1>1 DEF ServerChunk, HandledFirst
  <1>3. \A i \in DOMAIN fromServer : Respawns(i) => i > 1
    BY <1>1 DEF HandledFirst, Respawns
  <1>4. here.dimension = DimensionID(place)
    BY <1>1, <1>2, <1>3 DEF ChunksInPlace, HandledFirst
  <1>5. ASSUME NEW i \in DOMAIN fromServer, i > 1
        PROVE  ~ \/ fromServer[i].type = "unload" /\ fromServer[i].chunk = c
                 \/ Respawns(i) /\ fromServer[i].dimension # place
    <2>1. i - 1 \in DOMAIN fromServer' /\ fromServer'[i - 1] = fromServer[i]
      BY <1>1, <1>5 DEF HandledFirst
    <2>2. fromServer[i] \in ServerPackets
      BY DEF PacketsTyped
    <2>3. ~ \/ fromServer[i].type = "unload" /\ fromServer[i].chunk = c
            \/ Respawns(i) /\ DimensionID(fromServer[i].dimension) # here.dimension
      BY <2>1, <1>1 DEF Unloading, Respawns
    <2> QED
      BY <2>2, <2>3, <1>4, ServerPacketFields, Injective DEF Respawns
  <1>6. ~RemovedByServer(1, c, place)
    BY <1>5 DEF RemovedByServer
  <1> QED
    BY <1>2, <1>6 DEF ServerChunksCurrent

LEMMA BridgeChunksStep ==
    ASSUME PacketsTyped, PlayersTyped, DimensionInv, ChunksInPlace, ServerChunksCurrent,
           BridgeChunksCurrent, PlayerMoves
    PROVE  BridgeChunksCurrent'
  <1> SUFFICES ASSUME NEW i \in DOMAIN toClient', NEW c \in SentChunks, NEW place \in Places,
                      BridgeChunk(i, c, place)', ~RemovedByBridge(i, c, place)', ~Unloading(c)'
               PROVE  Current(c, place)'
    BY DEF BridgeChunksCurrent
  <1> USE DEF BridgeChunksCurrent
  <1>1. CASE ServerSays
    <2>1. PICK p \in ServerPackets : Saying(p)
      BY <1>1 DEF ServerSays
    <2>2. toClient' = toClient /\ here' = here
      BY <2>1 DEF Saying
    <2>3. ~Unloading(c)
      BY <2>1, <2>2, SaidQueue DEF SaidLast, Unloading, Respawns
    <2>4. ~RemovedByBridge(i, c, place)
      BY <2>2 DEF RemovedByBridge, Changes
    <2>5. BridgeChunk(i, c, place) /\ i \in DOMAIN toClient
      BY <2>2 DEF BridgeChunk
    <2>6. Current(c, place)
      BY <2>3, <2>4, <2>5
    <2> QED
      BY <2>1, <2>6, SayingChunks
  <1>2. CASE BridgeHandles
    <2>1. PICK p \in ServerPackets, w \in Seq(ClientPackets), a \in Seq(Answers) : Handling(p, w, a)
      BY <1>2 DEF BridgeHandles
    <2>2. HandledFirst(p) /\ WrittenLast(w)
      BY <2>1, HandledQueues
    <2>3. CASE i \in DOMAIN toClient
      <3>1. BridgeChunk(i, c, place) /\ i \in Nat
        BY <2>2, <2>3 DEF WrittenLast, BridgeChunk
      <3>2. ~RemovedByBridge(i, c, place)
        BY <2>2, <3>1, RemovedLater
      <3>3. \A k \in DOMAIN w :
               w[k].type # "dimension" /\ ~(w[k].type = "chunk" /\ w[k].chunk = c
                                            /\ place \notin w[k].content)
        BY <2>2, <2>3 DEF WrittenLast, RemovedByBridge, Changes
      <3>4. ~Unloading(c)
        BY <3>3, <2>1, HandlingChunks
      <3> QED
        BY <3>1, <3>2, <3>4, <2>1, <2>3 DEF Handling, Current
    <2>4. ASSUME NEW k \in DOMAIN w, i = Len(toClient) + k PROVE Current(c, place)'
      <3>1. w[k].type = "chunk" /\ w[k].chunk = c /\ place \in w[k].content
        BY <2>2, <2>4 DEF WrittenLast, BridgeChunk
      <3>2. p.type = "chunk" /\ p.chunk = c /\ p.of = place
        BY <3>1, <2>1 DEF Handling
      <3>3. Current(c, place)
        BY <3>2, <2>1, HandledChunk
      <3> QED
        BY <3>3, <2>1 DEF Handling, Current
    <2> QED
      BY <2>2, <2>3, <2>4 DEF WrittenLast
  <1>3. CASE ClientShows
    <2>1. PICK p \in ClientPackets : Showing(p)
      BY <1>3 DEF ClientShows
    <2>2. ShownFirst(p)
      BY <2>1, ShownQueue
    <2>3. i + 1 \in DOMAIN toClient /\ toClient'[i] = toClient[i + 1] /\ i \in Nat
      BY <2>2 DEF ShownFirst
    <2>4. ~RemovedByBridge(i + 1, c, place)
      BY <2>2, <2>3, RemovedLater
    <2>5. UNCHANGED <<fromServer, here, javaPlayer>>
      BY <2>1 DEF Showing
    <2> QED
      BY <2>3, <2>4, <2>5 DEF BridgeChunk, Current, Unloading, Respawns
  <1>4. CASE Elsewhere
    BY <1>4, ChunksElsewhere
  <1> QED
    BY <1>1, <1>2, <1>3, <1>4, WorldSteps

LEMMA ClientChunksStep ==
    ASSUME PacketsTyped, PlayersTyped, DimensionInv, ChunksInPlace, ChunksAddressed,
           BridgeChunksCurrent, ClientChunksCurrent, PlayerMoves
    PROVE  ClientChunksCurrent'
  <1> SUFFICES ASSUME NEW c \in SentChunks, NEW place \in Places, <<c, place>> \in bedrockPlayer'.chunks,
                      ~RemovedByBridge(0, c, place)', ~Unloading(c)'
               PROVE  Current(c, place)'
    BY DEF ClientChunksCurrent
  <1> USE DEF ClientChunksCurrent
  <1>1. CASE ServerSays
    <2>1. PICK p \in ServerPackets : Saying(p)
      BY <1>1 DEF ServerSays
    <2>2. toClient' = toClient /\ here' = here /\ bedrockPlayer' = bedrockPlayer
      BY <2>1 DEF Saying
    <2>3. ~Unloading(c)
      BY <2>1, <2>2, SaidQueue DEF SaidLast, Unloading, Respawns
    <2>4. ~RemovedByBridge(0, c, place)
      BY <2>2 DEF RemovedByBridge, Changes
    <2>5. Current(c, place)
      BY <2>2, <2>3, <2>4
    <2> QED
      BY <2>1, <2>5, SayingChunks
  <1>2. CASE BridgeHandles
    <2>1. PICK p \in ServerPackets, w \in Seq(ClientPackets), a \in Seq(Answers) : Handling(p, w, a)
      BY <1>2 DEF BridgeHandles
    <2>2. HandledFirst(p) /\ WrittenLast(w)
      BY <2>1, HandledQueues
    <2>3. ~RemovedByBridge(0, c, place)
      BY <2>2, RemovedLater
    <2>4. \A k \in DOMAIN w :
             w[k].type # "dimension" /\ ~(w[k].type = "chunk" /\ w[k].chunk = c
                                          /\ place \notin w[k].content)
      BY <2>2 DEF WrittenLast, RemovedByBridge, Changes
    <2>5. ~Unloading(c)
      BY <2>4, <2>1, HandlingChunks
    <2> QED
      BY <2>3, <2>5, <2>1 DEF Handling, Current
  <1>3. CASE ClientShows
    <2>1. PICK p \in ClientPackets : Showing(p)
      BY <1>3 DEF ClientShows
    <2>2. ShownFirst(p)
      BY <2>1, ShownQueue
    <2>3. UNCHANGED <<fromServer, here, javaPlayer>>
      BY <2>1 DEF Showing
    <2>4. ~Unloading(c) /\ Current(c, place)' = Current(c, place)
      BY <2>3 DEF Unloading, Respawns, Current
    <2>5. ~RemovedByBridge(1, c, place)
      BY <2>2, RemovedLater
    <2>6. CASE BridgeChunk(1, c, place)
      BY <2>2, <2>4, <2>5, <2>6 DEF ShownFirst, BridgeChunksCurrent
    <2>7. CASE ~BridgeChunk(1, c, place)
      <3>1. p.type # "dimension" /\ ~(p.type = "chunk" /\ p.chunk = c /\ place \in p.content)
        BY <2>1, <2>2, <2>7 DEF Showing, BridgeChunk, ShownFirst
      <3>2. <<c, place>> \in bedrockPlayer.chunks
        BY <2>1, <3>1 DEF Showing
      <3>3. CASE p.type = "chunk" /\ p.chunk = c
        <4>1. \A j \in DOMAIN toClient : ~Changes(j)
          BY <2>2, <2>5, <3>1 DEF ShownFirst, RemovedByBridge, Changes
        <4>2. p.dimension = bedrockPlayer.dimension
          BY <4>1, <2>2, <3>3 DEF DimensionInv, LastChange, ChunksAddressed, ShownFirst
        <4> QED
          BY <4>2, <3>1, <3>3, <2>1 DEF Showing
      <3>4. CASE ~(p.type = "chunk" /\ p.chunk = c)
        <4>1. ~RemovedByBridge(0, c, place)
          BY <2>2, <2>5, <3>1, <3>4 DEF ShownFirst, RemovedByBridge, Changes
        <4> QED
          BY <4>1, <2>4, <3>2
      <3> QED
        BY <3>3, <3>4
    <2> QED
      BY <2>6, <2>7
  <1>4. CASE Elsewhere
    BY <1>4, ChunksElsewhere
  <1> QED
    BY <1>1, <1>2, <1>3, <1>4, WorldSteps

LEMMA ChunksReachStep ==
    ASSUME PacketsTyped, PlayersTyped, DimensionInv, ChunksInPlace, ChunksAddressed, ChunksReach,
           PlayerMoves
    PROVE  ChunksReach'
  <1> SUFFICES ASSUME NEW c \in SentChunks, NEW place \in Places, Current(c, place)'
               PROVE  \/ SentByServer(c, place)'
                      \/ /\ ~RemovedByServer(0, c, place)'
                         /\ here'.dimension = DimensionID(place)
                         /\ SentByBridge(c, place)' \/ AtClient(c, place)'
    BY DEF ChunksReach
  <1> USE DEF ChunksReach
  <1>1. CASE ServerSays
    <2>1. PICK p \in ServerPackets : Saying(p)
      BY <1>1 DEF ServerSays
    <2>2. SaidLast(p)
      BY <2>1, SaidQueue
    <2>3. /\ ~(p.type = "unload" /\ p.chunk = c)
          /\ ~(p.type = "respawn" /\ p.dimension # place)
      BY <2>1 DEF Saying, Current
    <2>4. ASSUME NEW n \in Nat, ~RemovedByServer(n, c, place) PROVE ~RemovedByServer(n, c, place)'
      BY <2>2, <2>3, <2>4 DEF SaidLast, RemovedByServer, Respawns
    <2>5. CASE Current(c, place)
      <3>1. CASE SentByServer(c, place)
        <4>1. PICK i \in DOMAIN fromServer : ServerChunk(i, c, place) /\ ~RemovedByServer(i, c, place)
          BY <3>1 DEF SentByServer
        <4>2. i \in Nat /\ i \in DOMAIN fromServer' /\ ServerChunk(i, c, place)'
          BY <4>1, <2>2 DEF SaidLast, ServerChunk
        <4> QED
          BY <4>1, <4>2, <2>4 DEF SentByServer
      <3>2. CASE /\ ~RemovedByServer(0, c, place)
                 /\ here.dimension = DimensionID(place)
                 /\ SentByBridge(c, place) \/ AtClient(c, place)
        <4>1. UNCHANGED <<toClient, here, bedrockPlayer>>
          BY <2>1 DEF Saying
        <4>2. SentByBridge(c, place)' \/ AtClient(c, place)'
          BY <3>2, <4>1 DEF SentByBridge, AtClient, BridgeChunk, RemovedByBridge, Changes
        <4> QED
          BY <3>2, <4>1, <4>2, <2>4
      <3> QED
        BY <2>5, <3>1, <3>2
    <2>6. CASE ~Current(c, place)
      <3>1. p.type = "chunk" /\ p.chunk = c /\ p.of = place
        BY <2>1, <2>6, <2>3 DEF Saying, Current
      <3> DEFINE n == Len(fromServer) + 1
      <3>2. n \in DOMAIN fromServer' /\ fromServer'[n] = p /\ \A j \in DOMAIN fromServer' : ~(j > n)
        BY <2>2 DEF SaidLast
      <3> HIDE DEF n
      <3>3. \A i : i = n => ServerChunk(i, c, place)' /\ ~RemovedByServer(i, c, place)'
        BY <3>1, <3>2 DEF ServerChunk, RemovedByServer
      <3> QED
        BY <3>2, <3>3 DEF SentByServer
    <2> QED
      BY <2>5, <2>6
  <1>2. CASE BridgeHandles
    <2>1. PICK p \in ServerPackets, w \in Seq(ClientPackets), a \in Seq(Answers) : Handling(p, w, a)
      BY <1>2 DEF BridgeHandles
    <2>2. HandledFirst(p) /\ WrittenLast(w)
      BY <2>1, HandledQueues
    <2>3. Current(c, place) /\ bedrockPlayer' = bedrockPlayer
      BY <2>1 DEF Handling, Current
    <2>4. CASE SentByServer(c, place)
      <3>1. PICK i \in DOMAIN fromServer : ServerChunk(i, c, place) /\ ~RemovedByServer(i, c, place)
        BY <2>4 DEF SentByServer
      <3>2. CASE i = 1
        <4>1. p.type = "chunk" /\ p.chunk = c /\ p.of = place
          BY <3>1, <3>2, <2>2 DEF HandledFirst, ServerChunk
        <4>2. ~RemovedByServer(0, c, place)'
          BY <3>1, <3>2, <2>2, RemovedLater
        <4>3. here'.dimension = here.dimension
          BY <4>1, <2>1 DEF Handling
        <4>4. \A j \in DOMAIN fromServer : Respawns(j) => j > 1
          BY <4>1, <2>2 DEF HandledFirst, Respawns
        <4>5. here.dimension = DimensionID(place)
          BY <4>1, <4>4, <2>2 DEF ChunksInPlace, HandledFirst
        <4>6. PICK k \in DOMAIN w : w[k].type = "chunk"
          BY <4>1, <2>1 DEF Handling
        <4>7. \A m \in DOMAIN w :
                 /\ w[m].type # "dimension"
                 /\ w[m].type = "chunk" => w[m].chunk = c /\ place \in w[m].content
          BY <4>1, <4>3, <2>1 DEF Handling
        <4> DEFINE n == Len(toClient) + k
        <4>8. n \in DOMAIN toClient' /\ toClient'[n] = w[k] /\ \A m \in DOMAIN toClient : m <= n
          BY <2>2 DEF WrittenLast
        <4>9. \A j \in DOMAIN toClient' : j > n => \E m \in DOMAIN w : toClient'[j] = w[m]
          BY <4>8, <2>2 DEF WrittenLast
        <4> HIDE DEF n
        <4>10. \A j : j = n => BridgeChunk(j, c, place)' /\ ~RemovedByBridge(j, c, place)'
          BY <4>6, <4>7, <4>8, <4>9 DEF BridgeChunk, RemovedByBridge, Changes
        <4>11. SentByBridge(c, place)'
          BY <4>8, <4>10 DEF SentByBridge
        <4> QED
          BY <4>2, <4>3, <4>5, <4>11
      <3>3. CASE i # 1
        <4>1. i \in Int /\ i >= 1 /\ i - 1 \in DOMAIN fromServer' /\ fromServer'[i - 1] = fromServer[i]
          BY <3>3, <2>2 DEF HandledFirst
        <4>2. i - 1 \in Nat /\ (i - 1) + 1 = i
          BY <4>1
        <4>3. ~RemovedByServer(i - 1, c, place)'
          BY <3>1, <4>2, <2>2, RemovedLater
        <4>4. ServerChunk(i - 1, c, place)'
          BY <3>1, <4>1 DEF ServerChunk
        <4> QED
          BY <4>1, <4>3, <4>4 DEF SentByServer
      <3> QED
        BY <3>2, <3>3
    <2>5. CASE /\ ~RemovedByServer(0, c, place)
               /\ here.dimension = DimensionID(place)
               /\ SentByBridge(c, place) \/ AtClient(c, place)
      <3>1. ~RemovedByServer(1, c, place)
        BY <2>5, <2>2 DEF RemovedByServer, HandledFirst
      <3>2. ~RemovedByServer(0, c, place)'
        BY <3>1, <2>2, RemovedLater
      <3>3. ~(p.type = "unload" /\ p.chunk = c) /\ ~(p.type = "respawn" /\ p.dimension # place)
        BY <2>5, <2>2 DEF RemovedByServer, HandledFirst, Respawns
      <3>4. here'.dimension = here.dimension
        BY <3>3, <2>5, <2>1 DEF Handling
      <3>5. p.type = "chunk" /\ p.chunk = c => p.of = place
        <4> SUFFICES ASSUME p.type = "chunk", p.chunk = c PROVE p.of = place
          OBVIOUS
        <4>1. \A j \in DOMAIN fromServer : Respawns(j) => j > 1
          BY <2>2 DEF HandledFirst, Respawns
        <4>2. here.dimension = DimensionID(p.of) /\ p.of \in Places
          BY <4>1, <2>2, ServerPacketFields DEF ChunksInPlace, HandledFirst
        <4> QED
          BY <4>2, <2>5, Injective
      <3>6. \A m \in DOMAIN w :
               /\ w[m].type # "dimension"
               /\ w[m].type = "chunk" /\ w[m].chunk = c => place \in w[m].content
        BY <3>3, <3>4, <3>5, <2>1 DEF Handling
      <3>7. ASSUME NEW n \in Nat, ~RemovedByBridge(n, c, place) PROVE ~RemovedByBridge(n, c, place)'
        BY <3>6, <3>7, <2>2 DEF WrittenLast, RemovedByBridge, Changes
      <3>8. CASE AtClient(c, place)
        BY <3>2, <3>4, <3>7, <3>8, <2>3, <2>5 DEF AtClient
      <3>9. CASE SentByBridge(c, place)
        <4>1. PICK i \in DOMAIN toClient : BridgeChunk(i, c, place) /\ ~RemovedByBridge(i, c, place)
          BY <3>9 DEF SentByBridge
        <4>2. i \in Nat /\ i \in DOMAIN toClient' /\ BridgeChunk(i, c, place)'
          BY <4>1, <2>2 DEF WrittenLast, BridgeChunk
        <4>3. SentByBridge(c, place)'
          BY <4>1, <4>2, <3>7 DEF SentByBridge
        <4> QED
          BY <4>3, <3>2, <3>4, <2>5
      <3> QED
        BY <2>5, <3>8, <3>9
    <2> QED
      BY <2>3, <2>4, <2>5
  <1>3. CASE ClientShows
    <2>1. PICK p \in ClientPackets : Showing(p)
      BY <1>3 DEF ClientShows
    <2>2. ShownFirst(p)
      BY <2>1, ShownQueue
    <2>3. UNCHANGED <<fromServer, here, javaPlayer>>
      BY <2>1 DEF Showing
    <2>4. Current(c, place)
      BY <2>3 DEF Current
    <2>5. CASE SentByServer(c, place)
      BY <2>3, <2>5 DEF SentByServer, ServerChunk, RemovedByServer, Respawns
    <2>6. CASE /\ ~RemovedByServer(0, c, place)
               /\ here.dimension = DimensionID(place)
               /\ SentByBridge(c, place) \/ AtClient(c, place)
      <3>1. ~RemovedByServer(0, c, place)' /\ here'.dimension = DimensionID(place)
        BY <2>3, <2>6 DEF RemovedByServer, Respawns
      <3>2. CASE AtClient(c, place)
        <4>1. ~RemovedByBridge(1, c, place)
          BY <3>2, <2>2 DEF AtClient, RemovedByBridge, ShownFirst
        <4>2. p.type # "dimension" /\ ~(p.type = "chunk" /\ p.chunk = c /\ place \notin p.content)
          BY <3>2, <2>2 DEF AtClient, RemovedByBridge, ShownFirst, Changes
        <4>3. <<c, place>> \in bedrockPlayer'.chunks
          BY <4>2, <3>2, <2>1 DEF Showing, AtClient
        <4>4. ~RemovedByBridge(0, c, place)'
          BY <4>1, <2>2, RemovedLater
        <4> QED
          BY <3>1, <4>3, <4>4 DEF AtClient
      <3>3. CASE SentByBridge(c, place)
        <4>1. PICK i \in DOMAIN toClient : BridgeChunk(i, c, place) /\ ~RemovedByBridge(i, c, place)
          BY <3>3 DEF SentByBridge
        <4>2. CASE i = 1
          <5>1. p.type = "chunk" /\ p.chunk = c /\ place \in p.content
            BY <4>1, <4>2, <2>2 DEF BridgeChunk, ShownFirst
          <5>2. \A j \in DOMAIN toClient : ~Changes(j)
            BY <5>1, <4>1, <4>2, <2>2 DEF ShownFirst, RemovedByBridge, Changes
          <5>3. p.dimension = bedrockPlayer.dimension
            BY <5>1, <5>2, <2>2 DEF DimensionInv, LastChange, ChunksAddressed, ShownFirst
          <5>4. <<c, place>> \in bedrockPlayer'.chunks
            BY <5>1, <5>3, <2>1 DEF Showing
          <5>5. ~RemovedByBridge(0, c, place)'
            BY <4>1, <4>2, <2>2, RemovedLater
          <5> QED
            BY <3>1, <5>4, <5>5 DEF AtClient
        <4>3. CASE i # 1
          <5>1. i \in Int /\ i >= 1 /\ i - 1 \in DOMAIN toClient' /\ toClient'[i - 1] = toClient[i]
            BY <4>3, <2>2 DEF ShownFirst
          <5>2. i - 1 \in Nat /\ (i - 1) + 1 = i
            BY <5>1
          <5>3. ~RemovedByBridge(i - 1, c, place)'
            BY <4>1, <5>2, <2>2, RemovedLater
          <5>4. BridgeChunk(i - 1, c, place)'
            BY <4>1, <5>1 DEF BridgeChunk
          <5>5. SentByBridge(c, place)'
            BY <5>1, <5>3, <5>4 DEF SentByBridge
          <5> QED
            BY <3>1, <5>5
        <4> QED
          BY <4>2, <4>3
      <3> QED
        BY <2>6, <3>2, <3>3
    <2> QED
      BY <2>4, <2>5, <2>6
  <1>4. CASE Elsewhere
    BY <1>4, ChunksElsewhere DEF SentByServer, SentByBridge, AtClient
  <1> QED
    BY <1>1, <1>2, <1>3, <1>4, WorldSteps

(***************************************************************************)
(* Teleports and moves                                                     *)
(***************************************************************************)
\* What a queue to the server has at its end and at its start.
LEMMA ToServerEnds ==
    ASSUME NEW S, NEW q \in Seq(S)
    PROVE  /\ \A e \in S : Append(q, e) # <<>> /\ Append(q, e)[Len(Append(q, e))] = e
           /\ q # <<>> /\ Tail(q) # <<>> => Tail(q)[Len(Tail(q))] = q[Len(q)]
           /\ q # <<>> /\ Tail(q) = <<>> => Head(q) = q[Len(q)] /\ Len(q) = 1
  <1>1. ASSUME NEW e \in S PROVE Append(q, e) # <<>> /\ Append(q, e)[Len(Append(q, e))] = e
    BY AppendProperties
  <1>2. ASSUME q # <<>> PROVE /\ Len(Tail(q)) = Len(q) - 1 /\ Tail(q) \in Seq(S) /\ Len(q) \in Nat
                              /\ Len(q) > 0 /\ Head(q) = q[1]
                              /\ \A i \in 1..Len(Tail(q)) : Tail(q)[i] = q[i + 1]
    BY <1>2, HeadTailProperties, EmptySeq, LenProperties
  <1>3. ASSUME q # <<>>, Tail(q) # <<>> PROVE Tail(q)[Len(Tail(q))] = q[Len(q)]
    <2>1. Len(Tail(q)) > 0
      BY <1>2, <1>3, EmptySeq, LenProperties
    <2> QED
      BY <2>1, <1>2, <1>3
  <1>4. ASSUME q # <<>>, Tail(q) = <<>> PROVE Head(q) = q[Len(q)] /\ Len(q) = 1
    <2> DEFINE rest == Tail(q)
    <2>1. rest = <<>> /\ Len(rest) = Len(q) - 1 /\ Head(q) = q[1] /\ Len(q) \in Nat
      BY <1>2, <1>4
    <2> HIDE DEF rest
    <2>2. Len(rest) = 0
      BY <2>1
    <2>3. Len(q) = 1
      BY <2>1, <2>2
    <2>4. Head(q) = q[Len(q)]
      BY <2>1, <2>3
    <2> QED
      BY <2>3, <2>4
  <1> QED
    BY <1>1, <1>3, <1>4

\* A teleport travels down as a position and back as its confirmation.
LEMMA ConfirmationStep ==
    ASSUME PacketsTyped, PlayersTyped, ConfirmationComes, PlayerMoves
    PROVE  ConfirmationComes'
  <1> USE DEF ConfirmationComes, NoTeleport
  <1>1. CASE ServerSays
    <2>1. PICK p \in ServerPackets : Saying(p)
      BY <1>1 DEF ServerSays
    <2>2. SaidLast(p)
      BY <2>1, SaidQueue
    <2> QED
      BY <2>1, <2>2 DEF Saying, SaidLast
  <1>2. CASE BridgeHandles
    <2>1. PICK p \in ServerPackets, w \in Seq(ClientPackets), a \in Seq(Answers) : Handling(p, w, a)
      BY <1>2 DEF BridgeHandles
    <2>2. HandledFirst(p) /\ javaPlayer' = javaPlayer
      BY <2>1, HandledQueues DEF Handling
    <2>3. /\ \A i \in DOMAIN toServer : i \in DOMAIN toServer' /\ toServer'[i] = toServer[i]
          /\ \A i \in DOMAIN a : Len(toServer) + i \in DOMAIN toServer' /\ toServer'[Len(toServer) + i] = a[i]
      <3>1. toServer \in Seq(Answers) /\ toServer' = toServer \o a
        BY <2>1 DEF Handling, PacketsTyped
      <3> QED
        BY <3>1, Joined
    <2>4. p.type = "position" => 1 \in DOMAIN a /\ a[1].type = "confirm" /\ a[1].id = p.id
      BY <2>1 DEF Handling
    <2>5. CASE p.type = "position" /\ p.id = javaPlayer.awaits
      <3>1. \E i \in DOMAIN toServer' :
               toServer'[i].type = "confirm" /\ toServer'[i].id = javaPlayer.awaits
        BY <2>3, <2>4, <2>5
      <3> QED
        BY <3>1, <2>2
    <2>6. CASE ~(p.type = "position" /\ p.id = javaPlayer.awaits)
      <3>1. ASSUME NEW i \in DOMAIN fromServer, fromServer[i].type = "position",
                   fromServer[i].id = javaPlayer.awaits
            PROVE  \E j \in DOMAIN fromServer' :
                      fromServer'[j].type = "position" /\ fromServer'[j].id = javaPlayer.awaits
        BY <3>1, <2>2, <2>6 DEF HandledFirst
      <3> QED
        BY <3>1, <2>2, <2>3
    <2> QED
      BY <2>5, <2>6
  <1>3. CASE ServerHears
    <2>1. PICK p \in Answers : Hearing(p)
      BY <1>3 DEF ServerHears
    <2>2. /\ p = toServer[1]
          /\ \A i \in DOMAIN toServer : i = 1 \/ (i - 1 \in DOMAIN toServer' /\ toServer'[i - 1] = toServer[i])
      BY <2>1, Popped DEF Hearing, PacketsTyped
    <2> QED
      BY <2>1, <2>2 DEF Hearing
  <1>4. CASE BridgePasses
    <2>1. PICK p \in Inputs : Passing(p)
      BY <1>4 DEF BridgePasses
    <2>2. EncodeInput(p) \in Answers
      BY PlayerAssumption DEF EncodeInput, Inputs, Answers
    <2>3. \A i \in DOMAIN toServer : i \in DOMAIN toServer' /\ toServer'[i] = toServer[i]
      BY <2>1, <2>2, Pushed DEF Passing, PacketsTyped
    <2> QED
      BY <2>1, <2>3 DEF Passing
  <1>5. CASE ClientShows \/ ClientTells \/ PlayerRests
    <2>1. UNCHANGED <<javaPlayer, fromServer, toServer>>
      BY <1>5 DEF ClientShows, Showing, ClientTells, Telling, PlayerRests, playerVars, queues
    <2> QED
      BY <2>1
  <1> QED
    BY <1>1, <1>2, <1>3, <1>4, <1>5 DEF PlayerMoves

\* When nothing will move the client, no confirmation is on its way behind its last move.
LEMMA ToldStep ==
    ASSUME PacketsTyped, PlayersTyped, ConfirmationComes, Told, PlayerMoves
    PROVE  Told'
  <1> SUFFICES ASSUME bedrockPlayer'.reported, ~Moving'
               PROVE  \/ /\ fromClient' # <<>>
                         /\ fromClient'[Len(fromClient')].eyes = bedrockPlayer'.eyes
                         /\ fromClient'[Len(fromClient')].yaw = bedrockPlayer'.yaw
                      \/ /\ fromClient' = <<>> /\ toServer' # <<>>
                         /\ toServer'[Len(toServer')].type = "move"
                         /\ toServer'[Len(toServer')].feet = bedrockPlayer'.eyes - EyeOffset
                         /\ toServer'[Len(toServer')].yaw = bedrockPlayer'.yaw
                      \/ /\ fromClient' = <<>> /\ toServer' = <<>>
                         /\ javaPlayer'.feet = bedrockPlayer'.eyes - EyeOffset
                         /\ javaPlayer'.yaw = bedrockPlayer'.yaw
    BY DEF Told
  <1>1. CASE ServerSays
    <2>1. PICK p \in ServerPackets : Saying(p)
      BY <1>1 DEF ServerSays
    <2>2. SaidLast(p)
      BY <2>1, SaidQueue
    <2>3. ~Moving /\ p.type \notin {"position", "rotation"}
      BY <2>1, <2>2 DEF Saying, SaidLast, Moving
    <2>4. /\ UNCHANGED <<fromClient, toServer, bedrockPlayer>>
          /\ javaPlayer'.feet = javaPlayer.feet /\ javaPlayer'.yaw = javaPlayer.yaw
      BY <2>1, <2>3 DEF Saying
    <2> QED
      BY <2>3, <2>4 DEF Told
  <1>2. CASE BridgeHandles
    <2>1. PICK p \in ServerPackets, w \in Seq(ClientPackets), a \in Seq(Answers) : Handling(p, w, a)
      BY <1>2 DEF BridgeHandles
    <2>2. HandledFirst(p) /\ WrittenLast(w)
      BY <2>1, HandledQueues
    <2>3. p.type \notin {"position", "rotation"}
      BY <2>1, <2>2 DEF Handling, WrittenLast, Moving
    <2>4. ~Moving
      BY <2>2, <2>3 DEF HandledFirst, WrittenLast, Moving
    <2>5. UNCHANGED <<fromClient, toServer, bedrockPlayer, javaPlayer>>
      BY <2>1, <2>3, ConcatEmptySeq DEF Handling, PacketsTyped
    <2> QED
      BY <2>4, <2>5 DEF Told
  <1>3. CASE ClientShows
    <2>1. PICK p \in ClientPackets : Showing(p)
      BY <1>3 DEF ClientShows
    <2>2. ShownFirst(p)
      BY <2>1, ShownQueue
    <2>3. /\ bedrockPlayer.reported /\ p.type # "move"
          /\ bedrockPlayer'.eyes = bedrockPlayer.eyes /\ bedrockPlayer'.yaw = bedrockPlayer.yaw
          /\ UNCHANGED <<javaPlayer, fromServer, toServer, fromClient>>
      BY <2>1 DEF Showing
    <2>4. ~Moving
      BY <2>2, <2>3 DEF ShownFirst, Moving
    <2> QED
      BY <2>3, <2>4 DEF Told
  <1>4. CASE ServerHears
    <2>1. PICK p \in Answers : Hearing(p)
      BY <1>4 DEF ServerHears
    <2>2. ~Moving /\ bedrockPlayer.reported /\ UNCHANGED <<fromClient, bedrockPlayer>>
      BY <2>1 DEF Hearing, Moving
    <2>3. toServer # <<>>
      BY <2>1 DEF Hearing
    <2>4. CASE fromClient # <<>>
      BY <2>2, <2>4 DEF Told
    <2>5. CASE fromClient = <<>>
      <3>1. /\ toServer[Len(toServer)].type = "move"
            /\ toServer[Len(toServer)].feet = bedrockPlayer.eyes - EyeOffset
            /\ toServer[Len(toServer)].yaw = bedrockPlayer.yaw
        BY <2>2, <2>3, <2>5 DEF Told
      <3>2. CASE Tail(toServer) # <<>>
        <4>1. toServer'[Len(toServer')] = toServer[Len(toServer)] /\ toServer' # <<>>
          BY <2>1, <2>3, <3>2, ToServerEnds DEF Hearing, PacketsTyped
        <4> QED
          BY <4>1, <3>1, <2>2, <2>5
      <3>3. CASE Tail(toServer) = <<>>
        <4>1. p = toServer[Len(toServer)] /\ Len(toServer) = 1 /\ toServer' = <<>>
          BY <2>1, <2>3, <3>3, ToServerEnds DEF Hearing, PacketsTyped
        <4>2. DOMAIN toServer = {1}
          BY <4>1, LenProperties DEF PacketsTyped
        <4>3. javaPlayer.awaits = NoTeleport
          BY <4>1, <4>2, <3>1, <2>2 DEF ConfirmationComes, Moving
        <4>4. javaPlayer'.feet = p.feet /\ javaPlayer'.yaw = p.yaw
          BY <4>1, <4>3, <3>1, <2>1 DEF Hearing
        <4> QED
          BY <4>1, <4>4, <3>1, <2>2, <2>5
      <3> QED
        BY <3>2, <3>3
    <2> QED
      BY <2>4, <2>5
  <1>5. CASE BridgePasses
    <2>1. PICK p \in Inputs : Passing(p)
      BY <1>5 DEF BridgePasses
    <2>2. ~Moving /\ bedrockPlayer.reported /\ bedrockPlayer' = bedrockPlayer
      BY <2>1 DEF Passing, Moving
    <2>3. /\ fromClient[Len(fromClient)].eyes = bedrockPlayer.eyes
          /\ fromClient[Len(fromClient)].yaw = bedrockPlayer.yaw
      BY <2>1, <2>2 DEF Told, Passing
    <2>4. CASE Tail(fromClient) # <<>>
      <3>1. fromClient'[Len(fromClient')] = fromClient[Len(fromClient)] /\ fromClient' # <<>>
        BY <2>1, <2>4, ToServerEnds DEF Passing, PacketsTyped
      <3> QED
        BY <3>1, <2>2, <2>3
    <2>5. CASE Tail(fromClient) = <<>>
      <3>1. p = fromClient[Len(fromClient)] /\ fromClient' = <<>>
        BY <2>1, <2>5, ToServerEnds DEF Passing, PacketsTyped
      <3>2. EncodeInput(p) \in Answers
        BY PlayerAssumption DEF EncodeInput, Inputs, Answers
      <3>3. toServer'[Len(toServer')] = EncodeInput(p) /\ toServer' # <<>>
        BY <3>2, <2>1, ToServerEnds DEF Passing, PacketsTyped
      <3> QED
        BY <3>1, <3>3, <2>2, <2>3 DEF EncodeInput
    <2> QED
      BY <2>4, <2>5
  <1>6. CASE ClientTells
    <2>1. PICK p \in Inputs : Telling(p)
      BY <1>6 DEF ClientTells
    <2>2. fromClient'[Len(fromClient')] = p /\ fromClient' # <<>>
      BY <2>1, ToServerEnds DEF Telling, PacketsTyped
    <2> QED
      BY <2>1, <2>2 DEF Telling
  <1>7. CASE PlayerRests
    BY <1>7 DEF PlayerRests, playerVars, queues, Told, Moving
  <1> QED
    BY <1>1, <1>2, <1>3, <1>4, <1>5, <1>6, <1>7 DEF PlayerMoves

(***************************************************************************)
(* Theorems                                                                *)
(***************************************************************************)
\* At the start nothing is on its way and both ends agree.
LEMMA PlayerInitHolds == PlayerInit => PlayerInv
  <1> SUFFICES ASSUME NEW h \in Heights, NEW y \in Yaws, NEW m \in Modes \ {3},
        /\ javaPlayer = [feet |-> h, yaw |-> y, dimension |-> Home, mode |-> JoinMode(m),
                     chunks |-> {}, awaits |-> NoTeleport]
        /\ here = [position |-> h, yaw |-> y, dimension |-> DimensionID(Home)]
        /\ bedrockPlayer = [eyes |-> h, yaw |-> y, dimension |-> DimensionID(Home),
                     mode |-> JoinMode(m), chunks |-> {}, reported |-> FALSE]
        /\ fromServer = <<>> /\ toServer = <<>> /\ toClient = <<>> /\ fromClient = <<>>
        /\ playerSteps = [teleports |-> 0, packets |-> 0, inputs |-> 0]
               PROVE  PlayerInv
    BY DEF PlayerInit
  <1>1. /\ JoinMode(m) \in 0..3 /\ GameType(JoinMode(m)) = JoinMode(m)
        /\ Home \in Places /\ DimensionID(Home) \in Int /\ h \in Int
    BY PlayerAssumption, DimensionNumber DEF JoinMode, KnownMode, GameType, Places
  <1>2. /\ DOMAIN fromServer = {} /\ DOMAIN toServer = {}
        /\ DOMAIN toClient = {} /\ DOMAIN fromClient = {}
    OBVIOUS
  <1>3. PacketsTyped
    BY DEF PacketsTyped
  <1>4. PlayersTyped
    BY <1>1 DEF PlayersTyped, JavaTyped, HereTyped, BedrockTyped, StepsTyped, NoTeleport
  <1>5. ModeInv
    BY <1>1, <1>2 DEF ModeInv, LastModeSet, ModeReaches
  <1>6. DimensionInv
    BY <1>2 DEF DimensionInv, LastRespawn, LastChange
  <1>7. ChunkInv
    BY <1>2 DEF ChunkInv, ChunksInPlace, ChunksAddressed, ServerChunksCurrent, BridgeChunksCurrent,
                ClientChunksCurrent, ChunksReach, Current
  <1>8. MoveInv
    BY DEF MoveInv, ConfirmationComes, Told
  <1> QED
    BY <1>3, <1>4, <1>5, <1>6, <1>7, <1>8 DEF PlayerInv

\* Each part is preserved by every kind of step.
LEMMA PlayerStep == PlayerInv /\ [PlayerNext]_playerVars => PlayerInv'
  <1> SUFFICES ASSUME PlayerInv, [PlayerNext]_playerVars PROVE PlayerInv'
    OBVIOUS
  <1> USE DEF PlayerInv, ChunkInv, MoveInv
  <1>1. PlayerMoves
    BY Classified
  <1> QED
    BY <1>1, TypesStep, ModeStep, DimensionStep, ChunksInPlaceStep, ChunksAddressedStep,
       ServerChunksStep, BridgeChunksStep, ClientChunksStep, ChunksReachStep,
       ConfirmationStep, ToldStep

\* At rest the client is in the dimension and mode of the server and has exactly its chunks,
\* whatever dimension changes, chunks and unloads crossed on the way.
THEOREM WorldCorrect == PlayerSpec => []WorldAgrees
  <1>1. PlayerInv => WorldAgrees
    <2> SUFFICES ASSUME PlayerInv, PlayerAtRest PROVE
            /\ bedrockPlayer.dimension = DimensionID(javaPlayer.dimension)
            /\ bedrockPlayer.chunks = javaPlayer.chunks \X {javaPlayer.dimension}
            /\ bedrockPlayer.mode = GameType(javaPlayer.mode)
      BY DEF WorldAgrees
    <2>1. DOMAIN fromServer = {} /\ DOMAIN toClient = {}
      BY DEF PlayerAtRest
    <2>2. bedrockPlayer.dimension = DimensionID(javaPlayer.dimension)
      BY <2>1 DEF PlayerInv, DimensionInv, LastRespawn, LastChange
    <2>3. bedrockPlayer.mode = GameType(javaPlayer.mode)
      BY <2>1 DEF PlayerInv, ModeInv, ModeReaches
    <2>4. /\ \A n, c, place : ~RemovedByBridge(n, c, place)
          /\ \A c : ~Unloading(c)
          /\ \A c, place : ~SentByServer(c, place) /\ ~SentByBridge(c, place)
      BY <2>1 DEF RemovedByBridge, Unloading, SentByServer, SentByBridge
    <2>5. /\ bedrockPlayer.chunks \subseteq SentChunks \X Places
          /\ javaPlayer.chunks \subseteq SentChunks /\ javaPlayer.dimension \in Places
      BY DEF PlayerInv, PlayersTyped, BedrockTyped, JavaTyped
    <2>6. \A c \in SentChunks, place \in Places :
             <<c, place>> \in bedrockPlayer.chunks <=> Current(c, place)
      BY <2>4 DEF PlayerInv, ChunkInv, ClientChunksCurrent, ChunksReach, AtClient
    <2>7. bedrockPlayer.chunks = javaPlayer.chunks \X {javaPlayer.dimension}
      BY <2>5, <2>6 DEF Current
    <2> QED
      BY <2>2, <2>3, <2>7
  <1> QED
    BY PlayerInitHolds, PlayerStep, <1>1, PTL DEF PlayerSpec

\* At rest no teleport waits for its confirmation, and the server has the player where the
\* client has told it is.
THEOREM PositionsCorrect == PlayerSpec => []PositionsMeet
  <1>1. PlayerInv => PositionsMeet
    <2> SUFFICES ASSUME PlayerInv, PlayerAtRest PROVE
            /\ javaPlayer.awaits = NoTeleport
            /\ bedrockPlayer.reported => /\ javaPlayer.feet = bedrockPlayer.eyes - EyeOffset
                                         /\ javaPlayer.yaw = bedrockPlayer.yaw
      BY DEF PositionsMeet
    <2>1. /\ DOMAIN fromServer = {} /\ DOMAIN toClient = {} /\ DOMAIN toServer = {}
          /\ fromClient = <<>> /\ toServer = <<>>
      BY DEF PlayerAtRest
    <2>2. ~Moving
      BY <2>1 DEF Moving
    <2> QED
      BY <2>1, <2>2 DEF PlayerInv, MoveInv, ConfirmationComes, Told
  <1> QED
    BY PlayerInitHolds, PlayerStep, <1>1, PTL DEF PlayerSpec

-----------------------------------------------------------------------------

(***************************************************************************)
(* HandMatches and AtRestAgree hold for any set of slots and any packets   *)
(* of a client that interacts by inventory transactions.                   *)
(*                                                                         *)
(* The invariant follows a value through the queues: the last packet, step *)
(* or message that sets it is what the place behind the queue comes to.    *)
(* For the held slot there are two modes while nothing has crossed: a slot *)
(* of the server is alone on its way to the client, or none is and the     *)
(* server comes to the slot of the bridge and the bridge to the client's.  *)
(* Every list of steps selects first (WorkInOrder), so the steps after it  *)
(* name the slot that is selected by then (NamedSelected), and what they   *)
(* have written is behind that selection (HandsMatch).                     *)
(***************************************************************************)

\* What is written to the server, and the steps that lead to it.
JavaPackets ==
    [op : {"held"}, slot : Slots]
    \cup [op : {"edge"}, name : PlayerStates, on : BOOLEAN]
    \cup [op : {"move", "swing", "glide"}]
    \cup [op : {"dig", "use"}, slot : AnySlots, sequence : Int]
    \cup [op : {"useEntity"}, slot : AnySlots, sneaking : BOOLEAN]
StepSet ==
    [do : {"ensure"}, slot : AnySlots]
    \cup [do : {"store"}, slot : Slots]
    \cup [do : {"track"}, name : PlayerStates, on : BOOLEAN]
    \cup [do : {"glide"}, on : BOOLEAN]
    \cup [do : {"number"}, op : {"dig", "use"}, valid : BOOLEAN, slot : AnySlots]
    \cup [do : {"useEntity"}, slot : AnySlots]
    \cup [do : {"write"}, packet : [op : {"move", "swing"}] \cup [op : {"held"}, slot : Slots]]

QueuesTyped ==
    /\ work \in Seq(StepSet)
    /\ fromBedrock \in Seq(LegacyPackets)
    /\ toBedrock \in Seq(Slots)
    /\ fromJava \in Seq(Slots)
    /\ toJava \in Seq(JavaPackets)

BridgeTyped ==
    /\ selectedSlot \in Slots
    /\ moving \in [PlayerStates -> BOOLEAN]
    /\ gliding \in BOOLEAN
    /\ nextSequence \in Int
PeersTyped ==
    /\ srvSlot \in Slots /\ srvMoving \in [PlayerStates -> BOOLEAN]
    /\ cliSlot \in Slots /\ cliMoving \in [PlayerStates -> BOOLEAN]
    /\ unannounced \in BOOLEAN /\ crossed \in BOOLEAN

TypesOK == QueuesTyped /\ BridgeTyped /\ PeersTyped

(***************************************************************************)
(* Movement states                                                         *)
(***************************************************************************)
EdgesOf(p, n) == IF n = "sprinting" THEN p.sprint ELSE p.sneak
Reports(i, n) == fromBedrock[i].type = "input" /\ EdgesOf(fromBedrock[i], n) # {}
Tracks(i, n) == work[i].do = "track" /\ work[i].name = n
Edges1(i, n) == toJava[i].op = "edge" /\ toJava[i].name = n

\* The last report of a state that the bridge has not read is how the client is; without
\* one the running handler, or the bridge, has the state as the client has.
StateReaches(n) ==
    \/ \E i \in DOMAIN fromBedrock :
          /\ Reports(i, n) /\ Wanted(EdgesOf(fromBedrock[i], n)) = cliMoving[n]
          /\ \A j \in DOMAIN fromBedrock : Reports(j, n) => j <= i
    \/ /\ \A i \in DOMAIN fromBedrock : ~Reports(i, n)
       /\ \A i \in DOMAIN work : Tracks(i, n) => work[i].on = cliMoving[n]
       /\ (\A i \in DOMAIN work : ~Tracks(i, n)) => moving[n] = cliMoving[n]
EdgeReaches(n) ==
    \/ \E i \in DOMAIN toJava :
          /\ Edges1(i, n) /\ toJava[i].on = moving[n]
          /\ \A j \in DOMAIN toJava : Edges1(j, n) => j <= i
    \/ /\ \A i \in DOMAIN toJava : ~Edges1(i, n)
       /\ srvMoving[n] = moving[n]
MovingInv == \A n \in PlayerStates : StateReaches(n) /\ EdgeReaches(n)

(***************************************************************************)
(* The held slot                                                           *)
(***************************************************************************)
WritesHeld(i) == work[i].do = "write" /\ work[i].packet.op = "held"
\* The slot a step takes for granted.
Names(i, s) ==
    \/ work[i].do = "number" /\ work[i].op = "use" /\ work[i].slot = s
    \/ work[i].do = "useEntity" /\ work[i].slot = s
\* The running handler leaves the bridge and the server with slot s selected.
WorkSelects(s) ==
    IF work = <<>> THEN s = selectedSlot
    ELSE IF work[1].do = "store" THEN s = work[1].slot
    ELSE IF work[1].do = "ensure" /\ work[1].slot # Outside THEN s = work[1].slot
    ELSE IF WritesHeld(1) THEN s = work[1].packet.slot
    ELSE s = selectedSlot
\* A handler selects before it does anything else, and what it does then is with that slot.
WorkInOrder ==
    \A i \in DOMAIN work :
       /\ work[i].do = "ensure" => i = 1
       /\ WritesHeld(i) => i = 1 /\ 2 \in DOMAIN work
                           /\ work[2].do = "store" /\ work[2].slot = work[1].packet.slot
       /\ work[i].do = "store" => i = 1 \/ (i = 2 /\ WritesHeld(1))
NamedSelected == \A i \in DOMAIN work, s \in Slots : Names(i, s) => WorkSelects(s)

Held(i) == toJava[i].op = "held"
\* The server will have slot s selected when it has read everything.
ServerComesTo(s) ==
    \/ \E i \in DOMAIN toJava :
          /\ Held(i) /\ toJava[i].slot = s
          /\ \A j \in DOMAIN toJava : Held(j) => j <= i
    \/ (\A i \in DOMAIN toJava : ~Held(i)) /\ srvSlot = s
\* What is on its way to the server is done with the slot selected there by then.
HandsMatch ==
    \A i \in DOMAIN toJava :
       toJava[i].op \in Hands /\ toJava[i].slot # Outside =>
          /\ (\A j \in DOMAIN toJava : Held(j) => j > i) => toJava[i].slot = srvSlot
          /\ \A j \in DOMAIN toJava :
                /\ Held(j) /\ j < i
                /\ \A k \in DOMAIN toJava : Held(k) => k <= j \/ k > i
                => toJava[j].slot = toJava[i].slot

\* Packets of the client that select a slot.
Selects(i) == fromBedrock[i].type \in {"equipment", "useItem", "useEntity"}
              /\ fromBedrock[i].slot # Outside
\* The bridge will have slot s selected when it has handled everything.
BridgeComesTo(s) ==
    \/ \E i \in DOMAIN fromBedrock :
          /\ Selects(i) /\ fromBedrock[i].slot = s
          /\ \A j \in DOMAIN fromBedrock : Selects(j) => j <= i
    \/ (\A i \in DOMAIN fromBedrock : ~Selects(i)) /\ WorkSelects(s)

\* A slot of the server is alone on its way to the client.
ServersSlot ==
    /\ work = <<>> /\ fromBedrock = <<>> /\ toJava = <<>> /\ ~unannounced
    /\ \/ Len(fromJava) = 1 /\ fromJava[1] = srvSlot /\ toBedrock = <<>>
       \/ fromJava = <<>> /\ Len(toBedrock) = 1 /\ toBedrock[1] = srvSlot
          /\ selectedSlot = srvSlot

\* None is: the server comes to the slot of the bridge, and the bridge to the client's.
AtBridge(s) == s = IF work # <<>> /\ work[1].do = "store" THEN work[1].slot ELSE selectedSlot
ServerFollows == \A s \in Slots : AtBridge(s) => ServerComesTo(s)
BridgeFollows == \A s \in Slots : s = cliSlot => BridgeComesTo(s)
ClientsSlots ==
    /\ fromJava = <<>> /\ toBedrock = <<>>
    /\ ServerFollows
    /\ ~unannounced => BridgeFollows

SlotInv == ~crossed => NamedSelected /\ HandsMatch /\ (ServersSlot \/ ClientsSlots)

ActionsInv == TypesOK /\ WorkInOrder /\ MovingInv /\ SlotInv
(***************************************************************************)
(* The steps of a packet                                                   *)
(***************************************************************************)
\* What has been put into a list of steps stays in it.
LEMMA StepKept ==
    ASSUME NEW S, NEW q \in Seq(S), NEW r \in Seq(S), NEW e
    PROVE  /\ (\E i \in DOMAIN q : q[i] = e) => \E i \in DOMAIN (q \o r) : (q \o r)[i] = e
           /\ (\E i \in DOMAIN r : r[i] = e) => \E i \in DOMAIN (q \o r) : (q \o r)[i] = e
  <1>1. \A i \in DOMAIN q : i \in DOMAIN (q \o r) /\ (q \o r)[i] = q[i]
    BY Joined
  <1>2. \A i \in DOMAIN r : Len(q) + i \in DOMAIN (q \o r) /\ (q \o r)[Len(q) + i] = r[i]
    BY Joined
  <1>3. (\E i \in DOMAIN q : q[i] = e) => \E i \in DOMAIN (q \o r) : (q \o r)[i] = e
    BY <1>1
  <1>4. (\E i \in DOMAIN r : r[i] = e) => \E i \in DOMAIN (q \o r) : (q \o r)[i] = e
    BY <1>2
  <1> QED
    BY <1>3, <1>4

Selecting(p) == p.type \in {"equipment", "useItem", "useEntity"} /\ p.slot # Outside
Reporting(p, n) == p.type = "input" /\ EdgesOf(p, n) # {}

\* What the elements of Steps(p) are, and which of them there are.
Prepared(p, w) ==
    /\ w \in Seq(StepSet)
    /\ \A i \in DOMAIN w :
          /\ w[i].do = "ensure" =>
                i = 1 /\ w[i].slot = p.slot /\ p.type \in {"equipment", "useItem", "useEntity"}
          /\ w[i].do = "write" => w[i].packet.op # "held"
          /\ w[i].do # "store"
          /\ (w[i].do = "number" /\ w[i].op = "use") \/ w[i].do = "useEntity" =>
                w[i].slot = Outside \/ (Selecting(p) /\ w[i].slot = p.slot)
          /\ w[i].do = "track" =>
                Reporting(p, w[i].name) /\ w[i].on = Wanted(EdgesOf(p, w[i].name))
    /\ Selecting(p) => 1 \in DOMAIN w /\ w[1].do = "ensure"
    /\ \A n \in PlayerStates : Reporting(p, n) =>
          \E i \in DOMAIN w : w[i].do = "track" /\ w[i].name = n

LEMMA PacketFields ==
    \A p \in LegacyPackets :
       /\ p.type \in {"input", "equipment", "useItem", "useEntity", "interact", "animate", "action"}
       /\ p.slot \in AnySlots
       /\ p.type = "input" =>
             p.sprint \in Edge /\ p.sneak \in Edge /\ p.glide \in Edge /\ p.dig \in BOOLEAN /\ ~p.use
       /\ p.type \in {"useItem", "useEntity", "interact", "animate"} => p.valid \in BOOLEAN
       /\ p.type = "useEntity" => p.attack \in BOOLEAN
       /\ p.type = "action" => p.action = "dig"
  BY DEF LegacyPackets

LEMMA InputPrepared ==
    ASSUME NEW p \in LegacyPackets, p.type = "input"
    PROVE  Prepared(p, Steps(p))
  <1> DEFINE Good == {e \in StepSet :
                        /\ e.do \in {"track", "glide", "number", "write"}
                        /\ e.do = "track" =>
                              EdgesOf(p, e.name) # {} /\ e.on = Wanted(EdgesOf(p, e.name))
                        /\ e.do = "number" => e.op = "dig"
                        /\ e.do = "write" => e.packet.op = "move"}
             a1 == TrackEdges("sprinting", p.sprint)
             a2 == TrackEdges("sneaking", p.sneak)
             a3 == If("start" \in p.glide /\ "stop" \notin p.glide, <<Glide(TRUE)>>)
             a4 == If("stop" \in p.glide, <<Glide(FALSE)>>)
             a5 == If(p.dig, <<Numbered("dig", TRUE, p.slot)>>)
             a6 == If(p.use, <<Numbered("use", p.valid, p.slot)>>)
             a7 == <<Write([op |-> "move"])>>
  <1>1. Steps(p) = a1 \o a2 \o a3 \o a4 \o a5 \o a6 \o a7
    BY DEF Steps, InputSteps
  <1>2. /\ p.slot \in AnySlots /\ ~p.use
        /\ p.sprint \in Edge /\ p.sneak \in Edge
    BY PacketFields
  <1>3. a1 \in Seq(Good) /\ (p.sprint # {} => 1 \in DOMAIN a1 /\ a1[1] = Track("sprinting", Wanted(p.sprint)))
    <2>1. p.sprint # {} => Track("sprinting", Wanted(p.sprint)) \in Good
      BY <1>2 DEF Track, StepSet, PlayerStates, EdgesOf, Wanted
    <2> HIDE DEF Good
    <2> QED
      BY <2>1 DEF TrackEdges, If
  <1>4. a2 \in Seq(Good) /\ (p.sneak # {} => 1 \in DOMAIN a2 /\ a2[1] = Track("sneaking", Wanted(p.sneak)))
    <2>1. p.sneak # {} => Track("sneaking", Wanted(p.sneak)) \in Good
      BY <1>2 DEF Track, StepSet, PlayerStates, EdgesOf, Wanted
    <2> HIDE DEF Good
    <2> QED
      BY <2>1 DEF TrackEdges, If
  <1>5. a3 \in Seq(Good) /\ a4 \in Seq(Good)
    <2> DEFINE g1 == Glide(TRUE)
               g2 == Glide(FALSE)
    <2>1. g1 \in Good /\ g2 \in Good
      BY DEF Glide, StepSet
    <2>3. a3 = <<g1>> \/ a3 = <<>>
      BY DEF If
    <2>4. a4 = <<g2>> \/ a4 = <<>>
      BY DEF If
    <2> HIDE DEF Good, g1, g2
    <2>2. <<g1>> \in Seq(Good) /\ <<g2>> \in Seq(Good) /\ <<>> \in Seq(Good)
      BY <2>1
    <2> QED
      BY <2>2, <2>3, <2>4
  <1>6. a5 \in Seq(Good) /\ a6 \in Seq(Good)
    <2> DEFINE g == Numbered("dig", TRUE, p.slot)
    <2>1. g \in Good
      BY <1>2 DEF Numbered, StepSet
    <2>3. a5 = <<g>> \/ a5 = <<>>
      BY DEF If
    <2>4. a6 = <<>>
      BY <1>2 DEF If
    <2> HIDE DEF Good, g
    <2>2. <<g>> \in Seq(Good) /\ <<>> \in Seq(Good)
      BY <2>1
    <2> QED
      BY <2>2, <2>3, <2>4
  <1>7. a7 \in Seq(Good)
    <2>1. Write([op |-> "move"]) \in Good
      BY DEF Write, StepSet
    <2> HIDE DEF Good
    <2> QED
      BY <2>1
  <1> HIDE DEF a1, a2, a3, a4, a5, a6, a7
  <1> DEFINE b2 == a1 \o a2
             b3 == b2 \o a3
             b4 == b3 \o a4
             b5 == b4 \o a5
             b6 == b5 \o a6
             b7 == b6 \o a7
             Has(w, e) == \E i \in DOMAIN w : w[i] = e
  <1> HIDE DEF Good
  <1>8. b2 \in Seq(Good) /\ (\A e : Has(a1, e) \/ Has(a2, e) => Has(b2, e))
    <2>1. a1 \in Seq(Good) /\ a2 \in Seq(Good)
      BY <1>3, <1>4
    <2>2. b2 \in Seq(Good)
      BY <2>1, ConcatProperties
    <2>3. \A e : Has(a1, e) => Has(b2, e)
      BY <2>1, StepKept
    <2>4. ASSUME NEW i \in DOMAIN a2
          PROVE  Len(a1) + i \in DOMAIN b2 /\ b2[Len(a1) + i] = a2[i]
      BY <2>1, Joined
    <2>5. \A e : Has(a2, e) => Has(b2, e)
      BY <2>4
    <2> QED
      BY <2>2, <2>3, <2>5
  <1> HIDE DEF b2
  <1>9. b3 \in Seq(Good) /\ (\A e : Has(b2, e) => Has(b3, e))
    BY <1>8, <1>5, StepKept, ConcatProperties
  <1> HIDE DEF b3
  <1>10. b4 \in Seq(Good) /\ (\A e : Has(b3, e) => Has(b4, e))
    BY <1>9, <1>5, StepKept, ConcatProperties
  <1> HIDE DEF b4
  <1>11. b5 \in Seq(Good) /\ (\A e : Has(b4, e) => Has(b5, e))
    BY <1>10, <1>6, StepKept, ConcatProperties
  <1> HIDE DEF b5
  <1>12. b6 \in Seq(Good) /\ (\A e : Has(b5, e) => Has(b6, e))
    BY <1>11, <1>6, StepKept, ConcatProperties
  <1> HIDE DEF b6
  <1>13. b7 \in Seq(Good) /\ (\A e : Has(b6, e) => Has(b7, e))
    BY <1>12, <1>7, StepKept, ConcatProperties
  <1>14. Steps(p) = b7
    BY <1>1 DEF b2, b3, b4, b5, b6
  <1> HIDE DEF b7
  <1>15. \A n \in PlayerStates : EdgesOf(p, n) # {} => Has(b7, Track(n, Wanted(EdgesOf(p, n))))
    <2>1. \A e : Has(a1, e) \/ Has(a2, e) => Has(b7, e)
      <3> HIDE DEF Has
      <3> QED
        BY <1>8, <1>9, <1>10, <1>11, <1>12, <1>13
    <2>2. p.sprint # {} => Has(a1, Track("sprinting", Wanted(p.sprint)))
      BY <1>3
    <2>3. p.sneak # {} => Has(a2, Track("sneaking", Wanted(p.sneak)))
      BY <1>4
    <2> HIDE DEF Has
    <2> QED
      BY <2>1, <2>2, <2>3 DEF PlayerStates, EdgesOf
  <1>16. \A i \in DOMAIN b7 : b7[i] \in Good
    BY <1>13
  <1>17. b7 \in Seq(StepSet)
    BY <1>13 DEF Good
  <1>18. ~Selecting(p) /\ \A n : Reporting(p, n) <=> EdgesOf(p, n) # {}
    BY DEF Selecting, Reporting
  <1> QED
    BY <1>14, <1>15, <1>16, <1>17, <1>18 DEF Prepared, Good, Track


\* What a handler does with the slot it has selected first.
WithSlot(p) ==
    {e \in StepSet :
       \/ e.do = "number" /\ e.op = "use" /\ e.slot = p.slot
       \/ e.do = "useEntity" /\ e.slot = p.slot
       \/ e.do = "write" /\ e.packet.op = "swing"}

LEMMA SelectionPrepared ==
    ASSUME NEW p \in LegacyPackets, p.type \in {"useItem", "useEntity"}, p.slot # Outside,
           NEW t \in Seq(WithSlot(p))
    PROVE  Prepared(p, <<Ensure(p.slot)>> \o t)
  <1> DEFINE e == Ensure(p.slot)
             w == <<e>> \o t
  <1>1. p.slot \in AnySlots
    BY PacketFields
  <1>2. e \in StepSet /\ e.do = "ensure" /\ e.slot = p.slot
    BY <1>1 DEF Ensure, StepSet
  <1>3. Selecting(p) /\ \A n : ~Reporting(p, n)
    BY DEF Selecting, Reporting
  <1>4. t \in Seq(StepSet) /\ \A i \in DOMAIN t : t[i] \in WithSlot(p)
    BY DEF WithSlot
  <1> HIDE DEF e
  <1>5. <<e>> \in Seq(StepSet) /\ Len(<<e>>) = 1 /\ DOMAIN <<e>> = {1} /\ <<e>>[1] = e
    BY <1>2
  <1>6. /\ w \in Seq(StepSet)
        /\ 1 \in DOMAIN w /\ w[1] = e
        /\ \A i \in DOMAIN t : i > 0 /\ i \in Int /\ 1 + i \in DOMAIN w /\ w[1 + i] = t[i]
        /\ \A i \in DOMAIN w : i \in Int /\ (i = 1 \/ (i > 1 /\ i - 1 \in DOMAIN t))
    BY <1>4, <1>5, Joined
  <1>7. \A i \in DOMAIN w : i = 1 \/ w[i] \in WithSlot(p)
    BY <1>4, <1>6
  <1> HIDE DEF w
  <1>8. Prepared(p, w)
    BY <1>2, <1>3, <1>6, <1>7 DEF Prepared, WithSlot
  <1> QED
    BY <1>8 DEF w, e

\* The client's packets other than its inputs.
LEMMA OtherPrepared ==
    ASSUME NEW p \in LegacyPackets, p.type # "input"
    PROVE  Prepared(p, Steps(p))
  <1>1. /\ p.type \in {"equipment", "useItem", "useEntity", "interact", "animate", "action"}
        /\ p.slot \in AnySlots
        /\ \A n : ~Reporting(p, n)
    BY PacketFields DEF Reporting
  <1>2. <<>> \in Seq(StepSet) /\ DOMAIN <<>> = {}
    OBVIOUS
  <1>3. ~Selecting(p) => Prepared(p, <<>>)
    BY <1>1, <1>2 DEF Prepared
  <1>4. ASSUME NEW e \in StepSet,
               \/ e.do = "ensure" /\ e.slot = p.slot /\ p.type = "equipment"
               \/ /\ ~Selecting(p)
                  /\ \/ e.do = "number" /\ e.op = "dig"
                     \/ e.do = "useEntity" /\ e.slot = Outside
                     \/ e.do = "write" /\ e.packet.op = "swing"
        PROVE  Prepared(p, <<e>>)
    <2>1. <<e>> \in Seq(StepSet) /\ DOMAIN <<e>> = {1} /\ <<e>>[1] = e
      OBVIOUS
    <2> QED
      BY <1>1, <1>4, <2>1 DEF Prepared
  <1>5. CASE p.type = "equipment"
    <2>1. Steps(p) = <<Ensure(p.slot)>>
      BY <1>5 DEF Steps
    <2>2. Ensure(p.slot) \in StepSet /\ Ensure(p.slot).do = "ensure"
          /\ Ensure(p.slot).slot = p.slot
      BY <1>1 DEF Ensure, StepSet
    <2> QED
      BY <1>4, <1>5, <2>1, <2>2
  <1>6. CASE p.type = "useItem"
    <2>1. Steps(p) = UseItemSteps(p) /\ p.valid \in BOOLEAN
      BY <1>6, PacketFields DEF Steps
    <2>2. CASE p.slot = Outside
      BY <1>3, <2>1, <2>2 DEF UseItemSteps, If, Selecting
    <2>3. CASE p.slot # Outside
      <3> DEFINE e == Numbered("use", p.valid, p.slot)
      <3>1. Steps(p) = <<Ensure(p.slot)>> \o <<e>>
        BY <2>1, <2>3 DEF UseItemSteps, If, HeldFirst
      <3>2. e \in WithSlot(p)
        BY <1>1, <2>1 DEF Numbered, WithSlot, StepSet
      <3> HIDE DEF e
      <3>3. <<e>> \in Seq(WithSlot(p))
        BY <3>2
      <3> QED
        BY <1>6, <2>3, <3>1, <3>3, SelectionPrepared
    <2> QED
      BY <2>2, <2>3
  <1>7. CASE p.type = "useEntity"
    <2>1. Steps(p) = UseEntitySteps(p) /\ p.valid \in BOOLEAN /\ p.attack \in BOOLEAN
      BY <1>7, PacketFields DEF Steps
    <2>2. CASE p.slot = Outside
      BY <1>3, <2>1, <2>2 DEF UseEntitySteps, If, Selecting
    <2>3. CASE p.slot # Outside
      <3> DEFINE e == Ensure(p.slot)
                 u == UseEntity(p.slot)
                 s == Write([op |-> "swing"])
                 us == If(p.valid, <<u>>)
                 ss == If(p.valid /\ p.attack, <<s>>)
      <3>1. Steps(p) = <<e>> \o us \o ss
        BY <2>1, <2>3 DEF UseEntitySteps, If, HeldFirst
      <3>2. u \in WithSlot(p) /\ s \in WithSlot(p)
        BY <1>1 DEF UseEntity, Write, WithSlot, StepSet
      <3>3. us = <<u>> \/ us = <<>>
        BY DEF If
      <3>4. ss = <<s>> \/ ss = <<>>
        BY DEF If
      <3>5. e \in StepSet
        BY <1>1 DEF Ensure, StepSet
      <3> HIDE DEF e, u, s, us, ss
      <3>11. <<>> \in Seq(WithSlot(p)) /\ <<u>> \in Seq(WithSlot(p)) /\ <<s>> \in Seq(WithSlot(p))
        BY <3>2
      <3>6. us \in Seq(WithSlot(p)) /\ ss \in Seq(WithSlot(p))
        BY <3>11, <3>3, <3>4
      <3>7. us \o ss \in Seq(WithSlot(p))
        BY <3>6, ConcatProperties
      <3>8. us \in Seq(StepSet) /\ ss \in Seq(StepSet) /\ <<e>> \in Seq(StepSet)
        BY <3>5, <3>6 DEF WithSlot
      <3>9. <<e>> \o us \o ss = <<e>> \o (us \o ss)
        BY <3>8, ConcatAssociative
      <3>10. Prepared(p, <<Ensure(p.slot)>> \o (us \o ss))
        BY <1>7, <2>3, <3>7, SelectionPrepared
      <3> QED
        BY <3>1, <3>9, <3>10 DEF e
    <2> QED
      BY <2>2, <2>3
  <1>8. CASE p.type = "interact"
    <2> DEFINE e == UseEntity(Outside)
    <2>1. Steps(p) = <<e>> \/ Steps(p) = <<>>
      BY <1>8 DEF Steps, If
    <2>2. e \in StepSet /\ e.do = "useEntity" /\ e.slot = Outside
      BY DEF UseEntity, StepSet, AnySlots
    <2>3. ~Selecting(p)
      BY <1>8 DEF Selecting
    <2> HIDE DEF e
    <2> QED
      BY <1>3, <1>4, <2>1, <2>2, <2>3
  <1>9. CASE p.type = "animate"
    <2> DEFINE e == Write([op |-> "swing"])
    <2>1. Steps(p) = <<e>> \/ Steps(p) = <<>>
      BY <1>9 DEF Steps, If
    <2>2. e \in StepSet /\ e.do = "write" /\ e.packet.op = "swing"
      BY DEF Write, StepSet
    <2>3. ~Selecting(p)
      BY <1>9 DEF Selecting
    <2> HIDE DEF e
    <2> QED
      BY <1>3, <1>4, <2>1, <2>2, <2>3
  <1>10. CASE p.type = "action"
    <2> DEFINE e == Numbered("dig", TRUE, p.slot)
    <2>1. p.action = "dig"
      BY <1>10, PacketFields
    <2>2. Steps(p) = <<e>> \o <<>>
      BY <1>10, <2>1 DEF Steps, ActionSteps, If
    <2>3. e \in StepSet /\ e.do = "number" /\ e.op = "dig"
      BY <1>1 DEF Numbered, StepSet
    <2>4. ~Selecting(p)
      BY <1>10 DEF Selecting
    <2> HIDE DEF e
    <2>5. <<e>> \o <<>> = <<e>>
      BY <2>3, ConcatEmptySeq
    <2> QED
      BY <1>4, <2>2, <2>3, <2>4, <2>5
  <1> QED
    BY <1>1, <1>5, <1>6, <1>7, <1>8, <1>9, <1>10

LEMMA StepsPrepared == \A p \in LegacyPackets : Prepared(p, Steps(p))
  BY InputPrepared, OtherPrepared

(***************************************************************************)
(* What an action does, field by field                                     *)
(***************************************************************************)
LEMMA StepFields ==
    \A e \in StepSet :
       /\ e.do \in {"ensure", "store", "track", "glide", "number", "useEntity", "write"}
       /\ e.do = "ensure" => e.slot \in AnySlots
       /\ e.do = "store" => e.slot \in Slots
       /\ e.do = "track" => e.name \in PlayerStates /\ e.on \in BOOLEAN
       /\ e.do = "glide" => e.on \in BOOLEAN
       /\ e.do = "number" => e.op \in {"dig", "use"} /\ e.valid \in BOOLEAN /\ e.slot \in AnySlots
       /\ e.do = "useEntity" => e.slot \in AnySlots
       /\ e.do = "write" =>
             /\ e.packet \in JavaPackets /\ e.packet.op \in {"move", "swing", "held"}
             /\ e.packet.op = "held" => e.packet.slot \in Slots
  BY DEF StepSet, JavaPackets

LEMMA JavaFields ==
    \A e \in JavaPackets :
       /\ e.op = "held" => e.slot \in Slots
       /\ e.op = "edge" => e.name \in PlayerStates /\ e.on \in BOOLEAN
       /\ e.op \in Hands => e.slot \in AnySlots
  BY DEF JavaPackets, Hands

\* Step h of a handler writes e to the server.
Sent(h, e) ==
    /\ e.op = "edge" <=> h.do = "track"
    /\ e.op = "edge" => e.name = h.name /\ e.on = h.on
    /\ e.op = "held" <=> h.do = "write" /\ h.packet.op = "held"
    /\ e.op = "held" => e.slot = h.packet.slot
    /\ e.op \in Hands => e.slot = h.slot /\ (h.do = "useEntity" \/ (h.do = "number" /\ h.op = "use"))

\* The bridge reads p.
Reading(p) ==
    /\ work = <<>> /\ fromBedrock # <<>> /\ p = Head(fromBedrock)
    /\ work' = Steps(p) /\ Prepared(p, work')
    /\ fromBedrock' = Tail(fromBedrock)
    /\ UNCHANGED <<bridge, toBedrock, fromJava, toJava, server, player, counters>>
Reads == \E p \in LegacyPackets : Reading(p)

\* The bridge takes step h.
Taking(h) ==
    /\ work # <<>> /\ h = Head(work)
    /\ UNCHANGED <<fromBedrock, toBedrock, fromJava, server, player, counters>>
Ensures ==
    /\ \E h \in StepSet :
          /\ Taking(h) /\ h.do = "ensure"
          /\ UNCHANGED <<toJava, selectedSlot, moving>>
          /\ \/ h.slot \in {Outside, selectedSlot} /\ work' = Tail(work)
             \/ /\ h.slot \notin {Outside, selectedSlot}
                /\ work' = <<Write([op |-> "held", slot |-> h.slot]), Store(h.slot)>> \o Tail(work)
Stores ==
    \E h \in StepSet :
       /\ Taking(h) /\ h.do = "store"
       /\ UNCHANGED <<toJava, moving>>
       /\ work' = Tail(work) /\ selectedSlot' = h.slot
Does ==
    \E h \in StepSet :
       /\ Taking(h) /\ h.do \notin {"ensure", "store"}
       /\ work' = Tail(work) /\ selectedSlot' = selectedSlot
       /\ \/ /\ toJava' = toJava
             /\ h.do # "write"
             /\ moving' = moving /\ (h.do = "track" => moving[h.name] = h.on)
          \/ \E e \in JavaPackets :
                /\ toJava' = Append(toJava, e) /\ Sent(h, e)
                /\ IF h.do = "track" THEN moving' = [moving EXCEPT ![h.name] = h.on]
                   ELSE moving' = moving

\* Every action is one of these and leaves everything of its type.
LEMMA ReadClientStep ==
    ASSUME TypesOK, ReadClient
    PROVE  Reads /\ TypesOK'
  <1> USE DEF TypesOK, QueuesTyped
  <1> DEFINE p == Head(fromBedrock)
  <1>1. p \in LegacyPackets /\ Tail(fromBedrock) \in Seq(LegacyPackets)
    BY Popped DEF ReadClient
  <1>2. Prepared(p, Steps(p))
    BY <1>1, StepsPrepared
  <1>3. Reading(p)
    BY <1>2 DEF Reading, ReadClient
  <1>4. QueuesTyped'
    BY <1>1, <1>2 DEF ReadClient, Prepared
  <1>5. BridgeTyped' /\ PeersTyped'
    BY DEF ReadClient, bridge, server, player, counters, BridgeTyped, PeersTyped
  <1> QED
    BY <1>1, <1>3, <1>4, <1>5 DEF Reads

LEMMA EnsureStep ==
    ASSUME TypesOK, EnsureJavaHeldSlot
    PROVE  Ensures /\ TypesOK'
  <1> DEFINE h == Head(work)
             w == Write([op |-> "held", slot |-> h.slot])
             s == Store(h.slot)
  <1>1. work # <<>> /\ work \in Seq(StepSet) /\ h.do = "ensure"
    BY DEF TypesOK, QueuesTyped, EnsureJavaHeldSlot, Step
  <1>2. h \in StepSet /\ Tail(work) \in Seq(StepSet)
    BY <1>1, Popped
  <1>3. UNCHANGED <<toJava, bridge>> /\ Taking(h)
    BY <1>1 DEF EnsureJavaHeldSlot, Taking, Step
  <1>4. h.slot \in AnySlots
    BY <1>1, <1>2, StepFields
  <1>5. CASE h.slot \in {Outside, selectedSlot}
    <2>1. work' = <<>> \o Tail(work)
      BY <1>5 DEF EnsureJavaHeldSlot, If, Next1
    <2>2. work' = Tail(work)
      BY <1>2, <2>1, ConcatEmptySeq
    <2>3. Ensures
      BY <1>1, <1>2, <1>3, <1>5, <2>2 DEF Ensures, bridge
    <2> QED
      BY <1>2, <1>3, <2>2, <2>3
         DEF TypesOK, QueuesTyped, BridgeTyped, PeersTyped, Taking, bridge, server, player, counters
  <1>6. CASE h.slot \notin {Outside, selectedSlot}
    <2>1. work' = <<w, s>> \o Tail(work)
      BY <1>6 DEF EnsureJavaHeldSlot, If, Next1
    <2>2. h.slot \in Slots
      BY <1>4, <1>6 DEF AnySlots
    <2>3. w \in StepSet /\ s \in StepSet
      BY <2>2 DEF Write, Store, StepSet
    <2>4. Ensures
      BY <1>1, <1>2, <1>3, <1>6, <2>1 DEF Ensures, bridge
    <2> HIDE DEF w, s, h
    <2>5. <<w, s>> \in Seq(StepSet)
      BY <2>3
    <2>6. work' \in Seq(StepSet)
      BY <1>2, <2>1, <2>5, ConcatProperties DEF h
    <2> QED
      BY <1>3, <2>6, <2>4
         DEF TypesOK, QueuesTyped, BridgeTyped, PeersTyped, Taking, bridge, server, player, counters
  <1> QED
    BY <1>5, <1>6

LEMMA StoreStep ==
    ASSUME TypesOK, StoreSlot
    PROVE  Stores /\ TypesOK'
  <1> DEFINE h == Head(work)
  <1>1. work # <<>> /\ work \in Seq(StepSet) /\ h.do = "store"
    BY DEF TypesOK, QueuesTyped, StoreSlot, Step
  <1>2. h \in StepSet /\ Tail(work) \in Seq(StepSet)
    BY <1>1, Popped
  <1>3. h.slot \in Slots
    BY <1>1, <1>2, StepFields
  <1>4. Taking(h) /\ work' = Tail(work) /\ selectedSlot' = h.slot
        /\ UNCHANGED <<moving, gliding, nextSequence, toJava>>
    BY <1>1 DEF StoreSlot, Taking, Step, Next1
  <1>5. Stores
    BY <1>1, <1>2, <1>4 DEF Stores
  <1> QED
    BY <1>2, <1>3, <1>4, <1>5
       DEF TypesOK, QueuesTyped, BridgeTyped, PeersTyped, Taking, server, player, counters

\* The steps that change neither the selected slot nor the rest of the list.
LEMMA DoesStep ==
    ASSUME TypesOK,
           TrackState \/ TrackGlide \/ NumberInteraction \/ InteractWithEntity \/ WriteToJava
    PROVE  Does /\ TypesOK'
  <1> DEFINE h == Head(work)
  <1>1. /\ work # <<>> /\ work \in Seq(StepSet) /\ toJava \in Seq(JavaPackets)
        /\ Taking(h) /\ work' = Tail(work) /\ selectedSlot' = selectedSlot
    BY DEF TypesOK, QueuesTyped, TrackState, TrackGlide, NumberInteraction, InteractWithEntity,
           WriteToJava, Step, Taking, bridge
  <1>2. h \in StepSet /\ Tail(work) \in Seq(StepSet)
    BY <1>1, Popped
  <1>3. ASSUME NEW e \in JavaPackets, toJava' = Append(toJava, e)
        PROVE  toJava' \in Seq(JavaPackets)
    BY <1>1, <1>3, Pushed
  <1>4. ASSUME toJava' \in Seq(JavaPackets), moving' \in [PlayerStates -> BOOLEAN],
               gliding' \in BOOLEAN, nextSequence' \in Int
        PROVE  TypesOK'
    BY <1>1, <1>2, <1>4
       DEF TypesOK, QueuesTyped, BridgeTyped, PeersTyped, Taking, server, player, counters
  <1>5. /\ moving \in [PlayerStates -> BOOLEAN] /\ gliding \in BOOLEAN /\ nextSequence \in Int
        /\ MaxSequence \in Int
    BY ActionsAssumption DEF TypesOK, BridgeTyped
  <1>6. CASE TrackState
    <2>1. h.do = "track" /\ UNCHANGED <<gliding, nextSequence>>
      BY <1>6 DEF TrackState, Step
    <2>2. h.name \in PlayerStates /\ h.on \in BOOLEAN
      BY <1>2, <2>1, StepFields
    <2>3. CASE moving[h.name] = h.on
      <3>1. UNCHANGED <<moving, toJava>>
        BY <1>6, <2>3 DEF TrackState, Next1
      <3>2. Does
        BY <1>1, <1>2, <2>1, <2>3, <3>1 DEF Does
      <3> QED
        BY <1>1, <1>4, <1>5, <2>1, <3>1, <3>2
    <2>4. CASE moving[h.name] # h.on
      <3> DEFINE e == [op |-> "edge", name |-> h.name, on |-> h.on]
      <3>1. moving' = [moving EXCEPT ![h.name] = h.on] /\ toJava' = Append(toJava, e)
        BY <1>6, <2>4 DEF TrackState, Next1, SendsAll
      <3>2. e \in JavaPackets /\ Sent(h, e)
        BY <2>1, <2>2 DEF JavaPackets, Sent, Hands
      <3>3. moving' \in [PlayerStates -> BOOLEAN]
        BY <1>5, <2>2, <3>1
      <3> HIDE DEF e
      <3>4. Does
        BY <1>1, <1>2, <2>1, <3>1, <3>2 DEF Does
      <3> QED
        BY <1>3, <1>4, <1>5, <2>1, <3>1, <3>2, <3>3, <3>4
    <2> QED
      BY <2>3, <2>4
  <1>7. CASE TrackGlide
    <2>1. h.do = "glide" /\ UNCHANGED <<moving, nextSequence>> /\ gliding' = h.on
      BY <1>7 DEF TrackGlide, Step, Next1
    <2>2. h.on \in BOOLEAN
      BY <1>2, <2>1, StepFields
    <2>3. CASE toJava' = toJava
      <3>1. Does
        BY <1>1, <1>2, <2>1, <2>3 DEF Does
      <3> QED
        BY <1>1, <1>4, <1>5, <2>1, <2>2, <2>3, <3>1
    <2>4. CASE toJava' # toJava
      <3> DEFINE e == [op |-> "glide"]
      <3>1. toJava' = Append(toJava, e)
        BY <1>7, <2>4 DEF TrackGlide, SendsAll
      <3>2. e \in JavaPackets /\ Sent(h, e)
        BY <2>1 DEF JavaPackets, Sent, Hands
      <3> HIDE DEF e
      <3>3. Does
        BY <1>1, <1>2, <2>1, <3>1, <3>2 DEF Does
      <3> QED
        BY <1>3, <1>4, <1>5, <2>1, <2>2, <3>1, <3>2, <3>3
    <2> QED
      BY <2>3, <2>4
  <1>8. CASE NumberInteraction
    <2>1. /\ h.do = "number" /\ UNCHANGED <<moving, gliding>>
          /\ nextSequence' = IF nextSequence = MaxSequence THEN 1 ELSE nextSequence + 1
      BY <1>8 DEF NumberInteraction, Step
    <2>2. h.op \in {"dig", "use"} /\ h.slot \in AnySlots
      BY <1>2, <2>1, StepFields
    <2>3. nextSequence' \in Int
      BY <1>5, <2>1
    <2>4. CASE toJava' = toJava
      <3>1. Does
        BY <1>1, <1>2, <2>1, <2>4 DEF Does
      <3> QED
        BY <1>1, <1>4, <1>5, <2>1, <2>3, <2>4, <3>1
    <2>5. CASE toJava' # toJava
      <3> DEFINE e == [op |-> h.op, slot |-> h.slot, sequence |-> nextSequence]
      <3>1. toJava' = Append(toJava, e)
        BY <1>8, <2>5 DEF NumberInteraction, SendsAll, Next1
      <3>2. e \in JavaPackets /\ Sent(h, e)
        BY <1>5, <2>1, <2>2 DEF JavaPackets, Sent, Hands
      <3> HIDE DEF e
      <3>3. Does
        BY <1>1, <1>2, <2>1, <3>1, <3>2 DEF Does
      <3> QED
        BY <1>3, <1>4, <1>5, <2>1, <2>3, <3>1, <3>2, <3>3
    <2> QED
      BY <2>4, <2>5
  <1>9. CASE InteractWithEntity
    <2> DEFINE e == [op |-> "useEntity", slot |-> h.slot, sneaking |-> moving["sneaking"]]
    <2>1. h.do = "useEntity" /\ UNCHANGED <<moving, gliding, nextSequence>>
          /\ toJava' = Append(toJava, e)
      BY <1>9 DEF InteractWithEntity, Step, bridge, SendsAll, Next1
    <2>2. h.slot \in AnySlots
      BY <1>2, <2>1, StepFields
    <2>3. moving["sneaking"] \in BOOLEAN
      BY <1>5 DEF PlayerStates
    <2>4. e \in JavaPackets /\ Sent(h, e)
      BY <2>1, <2>2, <2>3 DEF JavaPackets, Sent, Hands
    <2> HIDE DEF e
    <2>5. Does
      BY <1>1, <1>2, <2>1, <2>4 DEF Does
    <2> QED
      BY <1>3, <1>4, <1>5, <2>1, <2>4, <2>5
  <1>10. CASE WriteToJava
    <2> DEFINE e == h.packet
    <2>1. h.do = "write" /\ UNCHANGED <<moving, gliding, nextSequence>>
          /\ toJava' = Append(toJava, e)
      BY <1>10 DEF WriteToJava, Step, bridge, SendsAll, Next1
    <2>2. e \in JavaPackets /\ Sent(h, e)
      BY <1>2, <2>1, StepFields DEF Sent, Hands
    <2> HIDE DEF e
    <2>3. Does
      BY <1>1, <1>2, <2>1, <2>2 DEF Does
    <2> QED
      BY <1>3, <1>4, <1>5, <2>1, <2>2, <2>3
  <1> QED
    BY <1>6, <1>7, <1>8, <1>9, <1>10

\* The bridge passes on a slot of the server.
Passes ==
    \E s \in Slots :
       /\ fromJava # <<>> /\ s = Head(fromJava)
       /\ selectedSlot' = s
       /\ toBedrock' = Append(toBedrock, s)
       /\ fromJava' = Tail(fromJava)
       /\ UNCHANGED <<moving, work, fromBedrock, toJava, server, player, counters>>

\* The player selects a slot, and the client sends p.
Chooses ==
    /\ unannounced'
    /\ crossed' = (crossed \/ ForcedInFlight)
    /\ UNCHANGED <<bridge, work, fromBedrock, toBedrock, fromJava, toJava, server, cliMoving>>
Tells ==
    \E p \in LegacyPackets :
       /\ fromBedrock' = Append(fromBedrock, p)
       /\ p.slot \in {cliSlot, Outside}
       /\ crossed' = (crossed \/ ForcedInFlight)
       /\ ~unannounced' => ~unannounced \/ (p.type = "equipment" /\ p.slot = cliSlot)
       /\ \A n \in PlayerStates :
             cliMoving'[n] = IF Reporting(p, n) THEN Wanted(EdgesOf(p, n)) ELSE cliMoving[n]
       /\ UNCHANGED <<bridge, work, toBedrock, fromJava, toJava, server, cliSlot>>
Follows ==
    \E s \in Slots :
       /\ toBedrock # <<>> /\ s = Head(toBedrock)
       /\ cliSlot' = s /\ ~unannounced'
       /\ toBedrock' = Tail(toBedrock)
       /\ UNCHANGED <<bridge, work, fromBedrock, fromJava, toJava, server, cliMoving, counters>>

\* The server selects a slot, and reads p.
Forces ==
    \E s \in Slots :
       /\ srvSlot' = s
       /\ fromJava' = Append(fromJava, s)
       /\ crossed' = (crossed \/ unannounced \/ ~Quiescent)
       /\ UNCHANGED <<bridge, work, fromBedrock, toBedrock, toJava, srvMoving, player>>
Hears ==
    \E p \in JavaPackets :
       /\ toJava # <<>> /\ p = Head(toJava)
       /\ toJava' = Tail(toJava)
       /\ srvSlot' = IF p.op = "held" THEN p.slot ELSE srvSlot
       /\ srvMoving' = IF p.op = "edge" THEN [srvMoving EXCEPT ![p.name] = p.on] ELSE srvMoving
       /\ UNCHANGED <<bridge, work, fromBedrock, toBedrock, fromJava, player, counters>>

LEMMA HeldItemSlotStep ==
    ASSUME TypesOK, HeldItemSlot
    PROVE  Passes /\ TypesOK'
  <1> DEFINE s == Head(fromJava)
  <1>1. fromJava # <<>> /\ fromJava \in Seq(Slots) /\ toBedrock \in Seq(Slots)
    BY DEF TypesOK, QueuesTyped, HeldItemSlot
  <1>2. s \in Slots /\ Tail(fromJava) \in Seq(Slots)
    BY <1>1, Popped
  <1>3. Append(toBedrock, s) \in Seq(Slots)
    BY <1>1, <1>2, Pushed
  <1>4. Passes
    BY <1>1, <1>2 DEF HeldItemSlot, Passes
  <1> QED
    BY <1>2, <1>3, <1>4
       DEF TypesOK, QueuesTyped, BridgeTyped, PeersTyped, HeldItemSlot, server, player, counters

LEMMA PlayerSelectsStep ==
    ASSUME TypesOK, NEW slot \in Slots, PlayerSelects(slot)
    PROVE  Chooses /\ TypesOK'
  <1>1. Chooses
    BY DEF PlayerSelects, Chooses
  <1>2. crossed' \in BOOLEAN
    BY DEF PlayerSelects, ForcedInFlight, TypesOK, PeersTyped
  <1> QED
    BY <1>1, <1>2 DEF TypesOK, QueuesTyped, BridgeTyped, PeersTyped, PlayerSelects, bridge, server

\* An input has the states it reports as its edges say.
LEMMA Reported ==
    ASSUME NEW p \in LegacyPackets, NEW on \in BOOLEAN, p.type = "input", NEW n \in PlayerStates
    PROVE  /\ After(on, EdgesOf(p, n)) \in BOOLEAN
           /\ After(on, EdgesOf(p, n)) =
                 IF EdgesOf(p, n) # {} THEN Wanted(EdgesOf(p, n)) ELSE on
  <1>1. EdgesOf(p, n) \in SUBSET {"start", "stop"}
    BY PacketFields DEF EdgesOf, Edge
  <1> QED
    BY <1>1 DEF After, Wanted

LEMMA ClientSendsStep ==
    ASSUME TypesOK, NEW p \in LegacyPackets, ClientSends(p)
    PROVE  Tells /\ TypesOK'
  <1>1. fromBedrock' \in Seq(LegacyPackets) /\ fromBedrock' = Append(fromBedrock, p)
    BY Pushed DEF TypesOK, QueuesTyped, ClientSends
  <1>2. /\ cliMoving' \in [PlayerStates -> BOOLEAN]
        /\ \A n \in PlayerStates :
              cliMoving'[n] = IF Reporting(p, n) THEN Wanted(EdgesOf(p, n)) ELSE cliMoving[n]
    <2>1. cliMoving \in [PlayerStates -> BOOLEAN]
      BY DEF TypesOK, PeersTyped
    <2>2. CASE p.type = "input"
      <3> DEFINE a == After(cliMoving["sprinting"], p.sprint)
                 b == After(cliMoving["sneaking"], p.sneak)
      <3>1. cliMoving' = [sprinting |-> a, sneaking |-> b]
        BY <2>2 DEF ClientSends
      <3>2. a \in BOOLEAN /\ a = IF p.sprint # {} THEN Wanted(p.sprint) ELSE cliMoving["sprinting"]
        <4>1. cliMoving["sprinting"] \in BOOLEAN /\ "sprinting" \in PlayerStates
          BY <2>1 DEF PlayerStates
        <4>2. EdgesOf(p, "sprinting") = p.sprint
          BY DEF EdgesOf
        <4> QED
          BY <2>2, <4>1, <4>2, Reported
      <3>3. b \in BOOLEAN /\ b = IF p.sneak # {} THEN Wanted(p.sneak) ELSE cliMoving["sneaking"]
        <4>1. cliMoving["sneaking"] \in BOOLEAN /\ "sneaking" \in PlayerStates
          BY <2>1 DEF PlayerStates
        <4>2. EdgesOf(p, "sneaking") = p.sneak
          BY DEF EdgesOf
        <4> QED
          BY <2>2, <4>1, <4>2, Reported
      <3> HIDE DEF a, b
      <3>4. cliMoving' \in [{"sprinting", "sneaking"} -> BOOLEAN]
            /\ cliMoving'["sprinting"] = a /\ cliMoving'["sneaking"] = b
        BY <3>1, <3>2, <3>3
      <3> QED
        BY <2>2, <3>2, <3>3, <3>4 DEF PlayerStates, Reporting, EdgesOf
    <2>3. CASE p.type # "input"
      <3>1. cliMoving' = cliMoving
        BY <2>3, PacketFields DEF ClientSends, PlayerStates
      <3> QED
        BY <2>1, <2>3, <3>1 DEF Reporting
    <2> QED
      BY <2>2, <2>3
  <1>3. /\ ~unannounced' => ~unannounced \/ (p.type = "equipment" /\ p.slot = cliSlot)
        /\ unannounced' \in BOOLEAN /\ crossed' \in BOOLEAN
    BY DEF ClientSends, ForcedInFlight, TypesOK, PeersTyped
  <1>4. Tells
    BY <1>1, <1>2, <1>3 DEF ClientSends, Tells
  <1> QED
    BY <1>1, <1>2, <1>3, <1>4
       DEF TypesOK, QueuesTyped, BridgeTyped, PeersTyped, ClientSends, bridge, server

LEMMA ClientReadsStep ==
    ASSUME TypesOK, ClientReads
    PROVE  Follows /\ TypesOK'
  <1> DEFINE s == Head(toBedrock)
  <1>1. toBedrock # <<>> /\ toBedrock \in Seq(Slots)
    BY DEF TypesOK, QueuesTyped, ClientReads
  <1>2. s \in Slots /\ Tail(toBedrock) \in Seq(Slots)
    BY <1>1, Popped
  <1>3. Follows
    BY <1>1, <1>2 DEF ClientReads, Follows
  <1> QED
    BY <1>2, <1>3
       DEF TypesOK, QueuesTyped, BridgeTyped, PeersTyped, ClientReads, bridge, server, counters

LEMMA ServerSelectsStep ==
    ASSUME TypesOK, NEW slot \in Slots, ServerSelects(slot)
    PROVE  Forces /\ TypesOK'
  <1>1. fromJava' = Append(fromJava, slot) /\ fromJava' \in Seq(Slots)
    BY Pushed DEF TypesOK, QueuesTyped, ServerSelects
  <1>2. Forces
    BY <1>1 DEF ServerSelects, Forces
  <1>3. crossed' \in BOOLEAN
    BY DEF ServerSelects, Quiescent, TypesOK, PeersTyped
  <1> QED
    BY <1>1, <1>2, <1>3
       DEF TypesOK, QueuesTyped, BridgeTyped, PeersTyped, ServerSelects, bridge, player

LEMMA ServerReadsStep ==
    ASSUME TypesOK, ServerReads
    PROVE  Hears /\ TypesOK'
  <1> DEFINE p == Head(toJava)
  <1>1. toJava # <<>> /\ toJava \in Seq(JavaPackets)
    BY DEF TypesOK, QueuesTyped, ServerReads
  <1>2. p \in JavaPackets /\ Tail(toJava) \in Seq(JavaPackets)
    BY <1>1, Popped
  <1>3. /\ p.op = "held" => p.slot \in Slots
        /\ p.op = "edge" => p.name \in PlayerStates /\ p.on \in BOOLEAN
    BY <1>2, JavaFields
  <1>4. Hears
    BY <1>1, <1>2 DEF ServerReads, Hears
  <1>5. srvSlot' \in Slots
    BY <1>3 DEF ServerReads, TypesOK, PeersTyped
  <1>6. srvMoving' \in [PlayerStates -> BOOLEAN]
    BY <1>3 DEF ServerReads, TypesOK, PeersTyped
  <1> QED
    BY <1>2, <1>4, <1>5, <1>6
       DEF TypesOK, QueuesTyped, BridgeTyped, PeersTyped, ServerReads, bridge, player, counters

\* What can happen, if the client sends only packets of its kind.
Rests == UNCHANGED actionVars
Acts == \/ Reads \/ Ensures \/ Stores \/ Does
        \/ Passes \/ Chooses \/ Tells \/ Follows \/ Forces \/ Hears \/ Rests

LEMMA ActionStep ==
    ASSUME TypesOK, Offered \subseteq LegacyPackets, [ActionsNext]_actionVars
    PROVE  Acts /\ TypesOK'
  <1>1. CASE ReadClient
    BY <1>1, ReadClientStep DEF Acts
  <1>2. CASE EnsureJavaHeldSlot
    BY <1>2, EnsureStep DEF Acts
  <1>3. CASE StoreSlot
    BY <1>3, StoreStep DEF Acts
  <1>4. CASE TrackState \/ TrackGlide \/ NumberInteraction \/ InteractWithEntity \/ WriteToJava
    BY <1>4, DoesStep DEF Acts
  <1>5. CASE HeldItemSlot
    BY <1>5, HeldItemSlotStep DEF Acts
  <1>6. ASSUME NEW slot \in Slots, PlayerSelects(slot) PROVE Acts /\ TypesOK'
    BY <1>6, PlayerSelectsStep DEF Acts
  <1>7. ASSUME NEW p \in Offered, ClientSends(p) PROVE Acts /\ TypesOK'
    BY <1>7, ClientSendsStep DEF Acts
  <1>8. CASE ClientReads
    BY <1>8, ClientReadsStep DEF Acts
  <1>9. ASSUME NEW slot \in Slots, ServerSelects(slot) PROVE Acts /\ TypesOK'
    BY <1>9, ServerSelectsStep DEF Acts
  <1>10. CASE ServerReads
    BY <1>10, ServerReadsStep DEF Acts
  <1>11. CASE UNCHANGED actionVars
    BY <1>11 DEF Acts, Rests, actionVars, TypesOK, QueuesTyped, BridgeTyped, PeersTyped, bridge,
                 server, player, counters
  <1> QED
    BY <1>1, <1>2, <1>3, <1>4, <1>5, <1>6, <1>7, <1>8, <1>9, <1>10, <1>11
       DEF ActionsNext, PumpBedrock, Peers

(***************************************************************************)
(* The list of steps                                                       *)
(***************************************************************************)
\* The rest of a list that is in order selects nothing any more.
Plain(i) == work[i].do \notin {"ensure", "store"} /\ ~WritesHeld(i)

LEMMA RestPlain ==
    ASSUME TypesOK, WorkInOrder, NEW i \in DOMAIN work, i # 1,
           ~(i = 2 /\ WritesHeld(1))
    PROVE  Plain(i)
  BY DEF WorkInOrder, Plain

\* What a list has besides its selecting steps is there before and after every step but the
\* reading of a packet; a selecting step leaves the rest.
Kept ==
    /\ \A i \in DOMAIN work' : Plain(i)' =>
          \E j \in DOMAIN work : j # 1 /\ work[j] = work'[i]
    /\ \A j \in DOMAIN work : j # 1 =>
          \E i \in DOMAIN work' : work'[i] = work[j]

LEMMA EnsureKeeps ==
    ASSUME TypesOK, TypesOK', WorkInOrder, Ensures
    PROVE  /\ Kept /\ WorkInOrder'
           /\ \A s : WorkSelects(s)' <=> WorkSelects(s)
           /\ work # <<>> => work[1].do # "store" /\ work[1].do # "track"
           /\ work' = <<>> \/ work'[1].do # "store"
  <1>1. PICK h \in StepSet :
          /\ Taking(h) /\ h.do = "ensure"
          /\ selectedSlot' = selectedSlot
          /\ \/ h.slot \in {Outside, selectedSlot} /\ work' = Tail(work)
             \/ /\ h.slot \notin {Outside, selectedSlot}
                /\ work' = <<Write([op |-> "held", slot |-> h.slot]), Store(h.slot)>> \o Tail(work)
    BY DEF Ensures
  <1>2. /\ work # <<>> /\ h = work[1] /\ 1 \in DOMAIN work
        /\ Tail(work) \in Seq(StepSet)
        /\ \A i \in DOMAIN Tail(work) :
              i \in Nat /\ i > 0 /\ i + 1 \in DOMAIN work /\ Tail(work)[i] = work[i + 1]
        /\ \A i \in DOMAIN work :
              /\ i \in Nat
              /\ i = 1 \/ (i - 1 \in DOMAIN Tail(work) /\ Tail(work)[i - 1] = work[i])
    BY <1>1, Popped DEF TypesOK, QueuesTyped, Taking
  <1>3. \A i \in DOMAIN work : i # 1 => Plain(i)
    BY <1>1, <1>2, RestPlain DEF WritesHeld
  <1>4. CASE h.slot \in {Outside, selectedSlot}
    <2>1. work' = Tail(work)
      BY <1>1, <1>4
    <2>2. \A i \in DOMAIN work' : i + 1 \in DOMAIN work /\ i + 1 # 1 /\ work'[i] = work[i + 1]
      BY <1>2, <2>1
    <2>3. \A i \in DOMAIN work' : Plain(i)'
      BY <1>3, <2>2 DEF Plain, WritesHeld
    <2>4. \A j \in DOMAIN work : j # 1 => j - 1 \in DOMAIN work' /\ work'[j - 1] = work[j]
      BY <1>2, <2>1
    <2>5. Kept
      BY <2>2, <2>4 DEF Kept
    <2>6. WorkInOrder'
      BY <2>3 DEF WorkInOrder, Plain
    <2>7. work' = <<>> \/ 1 \in DOMAIN work'
      BY Popped DEF TypesOK, QueuesTyped
    <2>8. work' = <<>> \/ Plain(1)'
      BY <2>3, <2>7
    <2>9. \A s : WorkSelects(s)' <=> s = selectedSlot
      BY <1>1, <2>8 DEF WorkSelects, Plain
    <2>10. \A s : WorkSelects(s) <=> s = selectedSlot
      BY <1>1, <1>2, <1>4 DEF WorkSelects, WritesHeld
    <2> QED
      BY <1>1, <1>2, <2>5, <2>6, <2>8, <2>9, <2>10 DEF Plain
  <1>5. CASE h.slot \notin {Outside, selectedSlot}
    <2> DEFINE w == Write([op |-> "held", slot |-> h.slot])
               s == Store(h.slot)
               two == <<w, s>>
    <2>1. work' = two \o Tail(work)
      BY <1>1, <1>5
    <2>2. h.slot \in Slots
      BY <1>1, <1>5, StepFields DEF AnySlots
    <2>3. /\ w \in StepSet /\ w.do = "write" /\ w.packet.op = "held" /\ w.packet.slot = h.slot
          /\ s \in StepSet /\ s.do = "store" /\ s.slot = h.slot
      BY <2>2 DEF Write, Store, StepSet
    <2> HIDE DEF w, s
    <2>4. two \in Seq(StepSet) /\ Len(two) = 2 /\ DOMAIN two = {1, 2} /\ two[1] = w /\ two[2] = s
      BY <2>3
    <2> HIDE DEF two
    <2>5. /\ 1 \in DOMAIN work' /\ 2 \in DOMAIN work' /\ work'[1] = w /\ work'[2] = s
          /\ \A i \in DOMAIN Tail(work) : 2 + i \in DOMAIN work' /\ work'[2 + i] = Tail(work)[i]
          /\ \A i \in DOMAIN work' : i \in Int /\ (i \in {1, 2} \/ (i > 2 /\ i - 2 \in DOMAIN Tail(work)))
      <3> DEFINE r == Tail(work)
      <3>1. r \in Seq(StepSet) /\ work' = two \o r
        BY <1>2, <2>1
      <3> HIDE DEF r
      <3>2. \A i \in DOMAIN two : i \in DOMAIN work' /\ work'[i] = two[i]
        BY <2>4, <3>1, Joined
      <3>4. ASSUME NEW i \in DOMAIN r
            PROVE  Len(two) + i \in DOMAIN work' /\ work'[Len(two) + i] = r[i]
        <4>1. two \in Seq(StepSet) /\ r \in Seq(StepSet)
          BY <2>4, <3>1
        <4>2. Len(two) + i \in DOMAIN (two \o r) /\ (two \o r)[Len(two) + i] = r[i]
          BY <4>1, Joined
        <4> QED
          BY <3>1, <4>2
      <3>3. \A i \in DOMAIN work' :
               /\ i \in Int
               /\ i \in DOMAIN two \/ (i > Len(two) /\ i - Len(two) \in DOMAIN r)
        BY <2>4, <3>1, Joined
      <3> QED
        BY <2>4, <3>2, <3>3, <3>4 DEF r
    <2>6. \A i \in DOMAIN work' : i \in {1, 2} \/
             (i - 1 \in DOMAIN work /\ i - 1 # 1 /\ work'[i] = work[i - 1])
      <3> SUFFICES ASSUME NEW i \in DOMAIN work', i \notin {1, 2}
                   PROVE  i - 1 \in DOMAIN work /\ i - 1 # 1 /\ work'[i] = work[i - 1]
        OBVIOUS
      <3>1. i \in Int /\ i > 2 /\ i - 2 \in DOMAIN Tail(work) /\ 2 + (i - 2) = i
            /\ (i - 2) + 1 = i - 1
        BY <2>5
      <3>2. work'[2 + (i - 2)] = Tail(work)[i - 2]
        BY <2>5, <3>1
      <3>3. (i - 2) + 1 \in DOMAIN work /\ Tail(work)[i - 2] = work[(i - 2) + 1]
        BY <1>2, <3>1
      <3> QED
        BY <3>1, <3>2, <3>3
    <2>7. \A i \in DOMAIN work' : i \in {1, 2} \/ Plain(i)'
      BY <1>3, <2>6 DEF Plain, WritesHeld
    <2>8. ~Plain(1)' /\ ~Plain(2)'
      BY <2>3, <2>5 DEF Plain, WritesHeld
    <2>9. \A j \in DOMAIN work : j # 1 => \E i \in DOMAIN work' : work'[i] = work[j]
      <3> SUFFICES ASSUME NEW j \in DOMAIN work, j # 1
                   PROVE  \E i \in DOMAIN work' : work'[i] = work[j]
        OBVIOUS
      <3>1. j - 1 \in DOMAIN Tail(work) /\ Tail(work)[j - 1] = work[j]
        BY <1>2
      <3> QED
        BY <2>5, <3>1
    <2>10. Kept
      BY <2>6, <2>8, <2>9 DEF Kept
    <2>11. WorkInOrder'
      BY <2>3, <2>5, <2>7 DEF WorkInOrder, Plain, WritesHeld
    <2>12. \A t : WorkSelects(t)' <=> t = h.slot
      <3>1. work' # <<>>
        BY <2>5
      <3> QED
        BY <2>3, <2>5, <3>1 DEF WorkSelects, WritesHeld
    <2>13. \A t : WorkSelects(t) <=> t = h.slot
      BY <1>1, <1>2, <1>5 DEF WorkSelects
    <2> QED
      BY <1>1, <1>2, <2>3, <2>5, <2>10, <2>11, <2>12, <2>13
  <1> QED
    BY <1>4, <1>5

\* Any other step is taken off the list.
LEMMA OtherKeeps ==
    ASSUME TypesOK, TypesOK', WorkInOrder, Stores \/ Does
    PROVE  /\ Kept /\ WorkInOrder'
           /\ \A s : WorkSelects(s)' <=> WorkSelects(s)
  <1>1. PICK h \in StepSet : /\ Taking(h) /\ work' = Tail(work) /\ h.do # "ensure"
                             /\ selectedSlot' = IF h.do = "store" THEN h.slot ELSE selectedSlot
    BY DEF Stores, Does
  <1>2. /\ work # <<>> /\ h = work[1] /\ 1 \in DOMAIN work
        /\ \A i \in DOMAIN work' :
              i \in Nat /\ i > 0 /\ i + 1 \in DOMAIN work /\ work'[i] = work[i + 1]
        /\ \A i \in DOMAIN work :
              /\ i \in Nat
              /\ i = 1 \/ (i - 1 \in DOMAIN work' /\ work'[i - 1] = work[i])
    BY <1>1, Popped DEF TypesOK, QueuesTyped, Taking
  <1>3. Kept
    <2>1. \A i \in DOMAIN work' : \E j \in DOMAIN work : j # 1 /\ work[j] = work'[i]
      BY <1>2
    <2>2. \A j \in DOMAIN work : j # 1 => \E i \in DOMAIN work' : work'[i] = work[j]
      BY <1>2
    <2> QED
      BY <2>1, <2>2 DEF Kept
  <1>4. CASE WritesHeld(1)
    <2>1. /\ 2 \in DOMAIN work /\ work[2].do = "store" /\ work[2].slot = h.packet.slot
          /\ h.do = "write" /\ h.packet.op = "held"
      BY <1>2, <1>4 DEF WorkInOrder, WritesHeld
    <2>2. 1 \in DOMAIN work' /\ work'[1] = work[2] /\ work' # <<>>
      <3>1. 2 - 1 \in DOMAIN work' /\ work'[2 - 1] = work[2]
        BY <1>2, <2>1
      <3>2. 2 - 1 = 1
        OBVIOUS
      <3> QED
        BY <3>1, <3>2
    <2>3. \A i \in DOMAIN work' : i = 1 \/ Plain(i)'
      <3> SUFFICES ASSUME NEW i \in DOMAIN work', i # 1
                   PROVE  Plain(i)'
        OBVIOUS
      <3>1. i + 1 \in DOMAIN work /\ i + 1 # 1 /\ i + 1 # 2 /\ work'[i] = work[i + 1]
        BY <1>2
      <3>2. Plain(i + 1)
        BY <3>1, RestPlain
      <3> QED
        BY <3>1, <3>2 DEF Plain, WritesHeld
    <2>4. WorkInOrder'
      BY <2>1, <2>2, <2>3 DEF WorkInOrder, Plain, WritesHeld
    <2>5. \A s : WorkSelects(s)' <=> s = h.packet.slot
      BY <2>1, <2>2 DEF WorkSelects
    <2>6. \A s : WorkSelects(s) <=> s = h.packet.slot
      BY <1>2, <1>4, <2>1 DEF WorkSelects
    <2> QED
      BY <1>3, <2>4, <2>5, <2>6
  <1>5. CASE ~WritesHeld(1)
    <2>1. \A i \in DOMAIN work' : Plain(i)'
      <3> SUFFICES ASSUME NEW i \in DOMAIN work'
                   PROVE  Plain(i)'
        OBVIOUS
      <3>1. i + 1 \in DOMAIN work /\ i + 1 # 1 /\ work'[i] = work[i + 1]
        BY <1>2
      <3>2. Plain(i + 1)
        BY <1>5, <3>1, RestPlain
      <3> QED
        BY <3>1, <3>2 DEF Plain, WritesHeld
    <2>2. WorkInOrder'
      BY <2>1 DEF WorkInOrder, Plain
    <2>3. work' = <<>> \/ Plain(1)'
      <3>1. work' = <<>> \/ 1 \in DOMAIN work'
        BY Popped DEF TypesOK, QueuesTyped
      <3> QED
        BY <2>1, <3>1
    <2>4. \A s : WorkSelects(s)' <=> s = selectedSlot'
      BY <2>3 DEF WorkSelects, Plain
    <2>5. \A s : WorkSelects(s) <=> s = selectedSlot'
      BY <1>1, <1>2, <1>5 DEF WorkSelects
    <2> QED
      BY <1>3, <2>2, <2>4, <2>5
  <1> QED
    BY <1>4, <1>5

LEMMA ReadingSelects ==
    ASSUME TypesOK, TypesOK', NEW p \in LegacyPackets, Reading(p)
    PROVE  /\ WorkInOrder' /\ NamedSelected'
           /\ work' = <<>> \/ work'[1].do # "store"
           /\ \A s : WorkSelects(s) <=> s = selectedSlot
           /\ \A s : WorkSelects(s)' <=> s = IF Selecting(p) THEN p.slot ELSE selectedSlot
  <1>1. Prepared(p, work') /\ work = <<>> /\ selectedSlot' = selectedSlot
    BY DEF Reading, bridge
  <1>2. work' = <<>> \/ 1 \in DOMAIN work'
    BY Popped DEF TypesOK, QueuesTyped
  <1>3. WorkInOrder'
    BY <1>1 DEF Prepared, WorkInOrder, WritesHeld
  <1>4. \A s : WorkSelects(s)' <=> s = IF Selecting(p) THEN p.slot ELSE selectedSlot
    <2>1. CASE Selecting(p)
      <3>1. 1 \in DOMAIN work' /\ work'[1].do = "ensure" /\ work'[1].slot = p.slot /\ p.slot # Outside
        BY <1>1, <2>1 DEF Prepared, Selecting
      <3>2. work' # <<>>
        BY <3>1
      <3> QED
        BY <2>1, <3>1, <3>2 DEF WorkSelects
    <2>2. CASE ~Selecting(p)
      <3>1. \A i \in DOMAIN work' :
               /\ work'[i].do # "store" /\ ~WritesHeld(i)'
               /\ work'[i].do = "ensure" => work'[i].slot = Outside
        BY <1>1, <2>2 DEF Prepared, Selecting, WritesHeld
      <3>2. work' = <<>> \/ (/\ work'[1].do # "store" /\ ~WritesHeld(1)'
                             /\ work'[1].do = "ensure" => work'[1].slot = Outside)
        BY <1>2, <3>1
      <3> QED
        BY <1>1, <2>2, <3>2 DEF WorkSelects
    <2> QED
      BY <2>1, <2>2
  <1>5. NamedSelected'
    <2>1. Outside \notin Slots
      BY ActionsAssumption
    <2>2. \A i \in DOMAIN work', s \in Slots : Names(i, s)' => Selecting(p) /\ s = p.slot
      BY <1>1, <2>1 DEF Names, Prepared
    <2> QED
      BY <1>4, <2>2 DEF NamedSelected
  <1>6. work' = <<>> \/ work'[1].do # "store"
    BY <1>1, <1>2 DEF Prepared
  <1> QED
    BY <1>1, <1>3, <1>4, <1>5, <1>6 DEF WorkSelects

\* A step names the slot its handler selects, whatever is done first.
LEMMA KeptNamed ==
    ASSUME Kept, NamedSelected, \A s : WorkSelects(s)' <=> WorkSelects(s)
    PROVE  NamedSelected'
  <1>1. \A s : \A i \in DOMAIN work' : Names(i, s)' => \E j \in DOMAIN work : Names(j, s)
    <2> SUFFICES ASSUME NEW s, NEW i \in DOMAIN work', Names(i, s)'
                 PROVE  \E j \in DOMAIN work : Names(j, s)
      OBVIOUS
    <2>1. Plain(i)'
      BY DEF Names, Plain, WritesHeld
    <2>2. PICK j \in DOMAIN work : work[j] = work'[i]
      BY <2>1 DEF Kept
    <2> QED
      BY <2>2 DEF Names
  <1> QED
    BY <1>1 DEF NamedSelected

(***************************************************************************)
(* Movement states                                                         *)
(***************************************************************************)
WorkReaches(n) ==
    /\ \A i \in DOMAIN work : Tracks(i, n) => work[i].on = cliMoving[n]
    /\ (\A i \in DOMAIN work : ~Tracks(i, n)) => moving[n] = cliMoving[n]

LEMMA ReadingState ==
    ASSUME TypesOK, TypesOK', NEW p \in LegacyPackets, Reading(p),
           NEW n \in PlayerStates, StateReaches(n)
    PROVE  StateReaches(n)'
  <1>1. /\ Prepared(p, work') /\ work = <<>> /\ moving' = moving /\ cliMoving' = cliMoving
        /\ fromBedrock' = Tail(fromBedrock) /\ fromBedrock # <<>> /\ p = Head(fromBedrock)
        /\ fromBedrock \in Seq(LegacyPackets)
    BY DEF Reading, bridge, player, TypesOK, QueuesTyped
  <1>2. /\ p = fromBedrock[1] /\ 1 \in DOMAIN fromBedrock
        /\ \A i \in DOMAIN fromBedrock' :
              i \in Nat /\ i > 0 /\ i + 1 \in DOMAIN fromBedrock /\ fromBedrock'[i] = fromBedrock[i + 1]
        /\ \A i \in DOMAIN fromBedrock :
              /\ i \in Nat
              /\ i = 1 \/ (i - 1 \in DOMAIN fromBedrock' /\ fromBedrock'[i - 1] = fromBedrock[i])
    BY <1>1, Popped
  <1>3. \A i \in DOMAIN fromBedrock' : Reports(i, n)' <=> Reports(i + 1, n)
    BY <1>2 DEF Reports
  <1>4. Reports(1, n) <=> Reporting(p, n)
    BY <1>2 DEF Reports, Reporting
  <1>5. \A i \in DOMAIN work' : Tracks(i, n)' =>
           Reporting(p, n) /\ work'[i].on = Wanted(EdgesOf(p, n))
    BY <1>1 DEF Prepared, Tracks
  <1>6. Reporting(p, n) => \E i \in DOMAIN work' : Tracks(i, n)'
    BY <1>1 DEF Prepared, Tracks
  <1>7. ASSUME NEW i \in DOMAIN fromBedrock, i # 1,
               Reports(i, n), Wanted(EdgesOf(fromBedrock[i], n)) = cliMoving[n],
               \A j \in DOMAIN fromBedrock : Reports(j, n) => j <= i
        PROVE  StateReaches(n)'
    <2>1. i - 1 \in DOMAIN fromBedrock' /\ fromBedrock'[i - 1] = fromBedrock[i]
          /\ i \in Nat /\ (i - 1) + 1 = i
      BY <1>2, <1>7
    <2>2. \A k : k = i - 1 => /\ k \in DOMAIN fromBedrock' /\ Reports(k, n)'
                              /\ Wanted(EdgesOf(fromBedrock'[k], n)) = cliMoving'[n]
                              /\ \A j \in DOMAIN fromBedrock' : Reports(j, n)' => j <= k
      <3>1. \A j \in DOMAIN fromBedrock' : Reports(j, n)' => j <= i - 1
        <4> SUFFICES ASSUME NEW j \in DOMAIN fromBedrock', Reports(j, n)'
                     PROVE  j <= i - 1
          OBVIOUS
        <4>1. j \in Nat /\ j + 1 \in DOMAIN fromBedrock /\ Reports(j + 1, n)
          BY <1>2, <1>3
        <4>2. j + 1 <= i
          BY <1>7, <4>1
        <4> QED
          BY <2>1, <4>1, <4>2
      <3> QED
        BY <1>1, <1>7, <2>1, <3>1 DEF Reports
    <2> QED
      BY <2>2 DEF StateReaches
  <1>8. ASSUME \A j \in DOMAIN fromBedrock : Reports(j, n) => j = 1,
               WorkReaches(n)'
        PROVE  StateReaches(n)'
    <2>1. \A j \in DOMAIN fromBedrock' : ~Reports(j, n)'
      BY <1>2, <1>3, <1>8
    <2> QED
      BY <1>8, <2>1 DEF StateReaches, WorkReaches
  <1>9. CASE Reports(1, n) /\ Wanted(EdgesOf(fromBedrock[1], n)) = cliMoving[n]
             /\ \A j \in DOMAIN fromBedrock : Reports(j, n) => j <= 1
    <2>1. WorkReaches(n)'
      BY <1>1, <1>2, <1>4, <1>5, <1>6, <1>9 DEF WorkReaches
    <2>2. \A j \in DOMAIN fromBedrock : Reports(j, n) => j = 1
      <3> SUFFICES ASSUME NEW j \in DOMAIN fromBedrock, Reports(j, n), j # 1 PROVE FALSE
        OBVIOUS
      <3>1. j <= 1 /\ j \in Nat /\ j - 1 \in DOMAIN fromBedrock'
        BY <1>2, <1>9
      <3>2. j - 1 > 0
        BY <1>2, <3>1
      <3> QED
        BY <3>1, <3>2
    <2> QED
      BY <1>8, <2>1, <2>2
  <1>10. CASE (\A i \in DOMAIN fromBedrock : ~Reports(i, n)) /\ WorkReaches(n)
    <2>1. moving[n] = cliMoving[n]
      BY <1>1, <1>10 DEF WorkReaches
    <2>2. ~Reporting(p, n)
      BY <1>2, <1>4, <1>10
    <2>3. WorkReaches(n)'
      BY <1>1, <1>5, <2>1, <2>2 DEF WorkReaches
    <2> QED
      BY <1>8, <1>10, <2>3
  <1> QED
    BY <1>7, <1>9, <1>10 DEF StateReaches, WorkReaches

\* The steps of the handler.
LEMMA WorkingState ==
    ASSUME TypesOK, TypesOK', WorkInOrder, Ensures \/ Stores \/ Does,
           NEW n \in PlayerStates, StateReaches(n)
    PROVE  StateReaches(n)'
  <1>1. Kept
    BY EnsureKeeps, OtherKeeps
  <1>2. /\ fromBedrock' = fromBedrock /\ cliMoving' = cliMoving
        /\ 1 \in DOMAIN work
        /\ \/ work[1].do = "track" /\ moving' = [moving EXCEPT ![work[1].name] = work[1].on]
           \/ work[1].do = "track" /\ moving' = moving /\ moving[work[1].name] = work[1].on
           \/ work[1].do # "track" /\ moving' = moving
    <2>1. work # <<>> => 1 \in DOMAIN work /\ Head(work) = work[1]
      BY Popped DEF TypesOK, QueuesTyped
    <2> QED
      BY <2>1 DEF Ensures, Stores, Does, Taking, player
  <1>3. CASE \A i \in DOMAIN fromBedrock : ~Reports(i, n)
    <2>1. WorkReaches(n)
      BY <1>3 DEF StateReaches, WorkReaches
    <2>2. \A i \in DOMAIN work' : Tracks(i, n)' =>
             \E j \in DOMAIN work : j # 1 /\ work[j] = work'[i]
      BY <1>1 DEF Kept, Plain, Tracks, WritesHeld
    <2>3. \A i \in DOMAIN work' : Tracks(i, n)' => work'[i].on = cliMoving'[n]
      BY <1>2, <2>1, <2>2 DEF WorkReaches, Tracks
    <2>4. moving \in [PlayerStates -> BOOLEAN]
      BY DEF TypesOK, BridgeTyped
    <2>5. ASSUME \A i \in DOMAIN work' : ~Tracks(i, n)'
          PROVE  moving'[n] = cliMoving'[n]
      <3>1. \A j \in DOMAIN work : j = 1 \/ ~Tracks(j, n)
        BY <1>1, <2>5 DEF Kept, Tracks
      <3>2. CASE Tracks(1, n)
        BY <1>2, <2>1, <2>4, <3>2 DEF WorkReaches, Tracks
      <3>3. CASE ~Tracks(1, n)
        <4>1. moving[n] = cliMoving[n]
          BY <2>1, <3>1, <3>3 DEF WorkReaches
        <4>2. moving'[n] = moving[n]
          BY <1>2, <2>4, <3>3 DEF Tracks
        <4> QED
          BY <1>2, <4>1, <4>2
      <3> QED
        BY <3>2, <3>3
    <2>6. \A i \in DOMAIN fromBedrock' : ~Reports(i, n)'
      BY <1>2, <1>3 DEF Reports
    <2> QED
      BY <2>3, <2>5, <2>6 DEF StateReaches
  <1>4. CASE \E i \in DOMAIN fromBedrock :
                /\ Reports(i, n) /\ Wanted(EdgesOf(fromBedrock[i], n)) = cliMoving[n]
                /\ \A j \in DOMAIN fromBedrock : Reports(j, n) => j <= i
    BY <1>2, <1>4 DEF StateReaches, Reports
  <1> QED
    BY <1>3, <1>4 DEF StateReaches

\* A packet of the client.
LEMMA TellingState ==
    ASSUME TypesOK, Tells, NEW n \in PlayerStates, StateReaches(n)
    PROVE  StateReaches(n)'
  <1>1. PICK p \in LegacyPackets :
          /\ fromBedrock' = Append(fromBedrock, p)
          /\ cliMoving'[n] = IF Reporting(p, n) THEN Wanted(EdgesOf(p, n)) ELSE cliMoving[n]
          /\ work' = work /\ moving' = moving
    BY DEF Tells, bridge
  <1> DEFINE l == Len(fromBedrock) + 1
  <1>2. /\ l \in Nat /\ l \in DOMAIN fromBedrock' /\ fromBedrock'[l] = p
        /\ \A i \in DOMAIN fromBedrock :
              i \in Nat /\ i \in DOMAIN fromBedrock' /\ i < l /\ fromBedrock'[i] = fromBedrock[i]
        /\ \A i \in DOMAIN fromBedrock' : i \in Nat /\ (i \in DOMAIN fromBedrock \/ i = l)
    BY <1>1, Pushed DEF TypesOK, QueuesTyped
  <1> HIDE DEF l
  <1>3. \A i \in DOMAIN fromBedrock : Reports(i, n)' <=> Reports(i, n)
    BY <1>2 DEF Reports
  <1>4. \A i : i = l => (Reports(i, n)' <=> Reporting(p, n))
    BY <1>2 DEF Reports, Reporting
  <1>5. CASE Reporting(p, n)
    <2>1. \A i : i = l => /\ i \in DOMAIN fromBedrock' /\ Reports(i, n)'
                          /\ Wanted(EdgesOf(fromBedrock'[i], n)) = cliMoving'[n]
                          /\ \A j \in DOMAIN fromBedrock' : j <= i
      BY <1>1, <1>2, <1>4, <1>5
    <2> QED
      BY <2>1 DEF StateReaches
  <1>6. CASE ~Reporting(p, n)
    <2>1. \A i \in DOMAIN fromBedrock' : Reports(i, n)' => i \in DOMAIN fromBedrock /\ Reports(i, n)
      BY <1>2, <1>3, <1>4, <1>6
    <2>2. cliMoving'[n] = cliMoving[n]
      BY <1>1, <1>6
    <2>3. CASE \E i \in DOMAIN fromBedrock :
                  /\ Reports(i, n) /\ Wanted(EdgesOf(fromBedrock[i], n)) = cliMoving[n]
                  /\ \A j \in DOMAIN fromBedrock : Reports(j, n) => j <= i
      BY <1>2, <1>3, <2>1, <2>2, <2>3 DEF StateReaches
    <2>4. CASE \A i \in DOMAIN fromBedrock : ~Reports(i, n)
      <3>1. \A i \in DOMAIN fromBedrock' : ~Reports(i, n)'
        BY <2>1, <2>4
      <3> QED
        BY <1>1, <2>2, <2>4, <3>1 DEF StateReaches, Tracks
    <2> QED
      BY <2>3, <2>4 DEF StateReaches
  <1> QED
    BY <1>5, <1>6

\* What the bridge knows of a state reaches the server.
LEMMA DoingEdge ==
    ASSUME TypesOK, Does, NEW n \in PlayerStates, EdgeReaches(n)
    PROVE  EdgeReaches(n)'
  <1>0. moving \in [PlayerStates -> BOOLEAN] /\ srvMoving' = srvMoving
    BY DEF TypesOK, BridgeTyped, Does, Taking, server
  <1>1. CASE toJava' = toJava /\ moving' = moving
    BY <1>0, <1>1 DEF EdgeReaches, Edges1
  <1>2. ASSUME NEW h \in StepSet, NEW e \in JavaPackets,
               toJava' = Append(toJava, e), Sent(h, e),
               IF h.do = "track" THEN moving' = [moving EXCEPT ![h.name] = h.on]
               ELSE moving' = moving
        PROVE  EdgeReaches(n)'
    <2> DEFINE l == Len(toJava) + 1
    <2>1. /\ l \in Nat /\ l \in DOMAIN toJava' /\ toJava'[l] = e
          /\ \A i \in DOMAIN toJava :
                i \in Nat /\ i \in DOMAIN toJava' /\ i < l /\ toJava'[i] = toJava[i]
          /\ \A i \in DOMAIN toJava' : i \in Nat /\ (i \in DOMAIN toJava \/ i = l)
      BY <1>2, Pushed DEF TypesOK, QueuesTyped
    <2> HIDE DEF l
    <2>2. \A i \in DOMAIN toJava : Edges1(i, n)' <=> Edges1(i, n)
      BY <2>1 DEF Edges1
    <2>3. \A i : i = l => (Edges1(i, n)' <=> e.op = "edge" /\ e.name = n)
      BY <2>1 DEF Edges1
    <2>4. CASE e.op = "edge" /\ e.name = n
      <3>1. moving'[n] = e.on
        BY <1>0, <1>2, <2>4 DEF Sent
      <3>2. \A i : i = l => /\ i \in DOMAIN toJava' /\ Edges1(i, n)' /\ toJava'[i].on = moving'[n]
                            /\ \A j \in DOMAIN toJava' : j <= i
        BY <2>1, <2>3, <2>4, <3>1
      <3> QED
        BY <3>2 DEF EdgeReaches
    <2>5. CASE ~(e.op = "edge" /\ e.name = n)
      <3>1. moving'[n] = moving[n]
        BY <1>0, <1>2, <2>5 DEF Sent
      <3>2. \A i \in DOMAIN toJava' : Edges1(i, n)' => i \in DOMAIN toJava /\ Edges1(i, n)
        BY <2>1, <2>2, <2>3, <2>5
      <3>3. CASE \E i \in DOMAIN toJava :
                    /\ Edges1(i, n) /\ toJava[i].on = moving[n]
                    /\ \A j \in DOMAIN toJava : Edges1(j, n) => j <= i
        BY <2>1, <2>2, <3>1, <3>2, <3>3 DEF EdgeReaches
      <3>4. CASE (\A i \in DOMAIN toJava : ~Edges1(i, n)) /\ srvMoving[n] = moving[n]
        BY <1>0, <3>1, <3>2, <3>4 DEF EdgeReaches
      <3> QED
        BY <3>3, <3>4 DEF EdgeReaches
    <2> QED
      BY <2>4, <2>5
  <1> QED
    BY <1>1, <1>2 DEF Does

LEMMA HearingEdge ==
    ASSUME TypesOK, Hears, NEW n \in PlayerStates, EdgeReaches(n)
    PROVE  EdgeReaches(n)'
  <1>1. PICK p \in JavaPackets :
          /\ toJava # <<>> /\ p = Head(toJava)
          /\ toJava' = Tail(toJava)
          /\ srvMoving' = IF p.op = "edge" THEN [srvMoving EXCEPT ![p.name] = p.on] ELSE srvMoving
          /\ moving' = moving
    BY DEF Hears, bridge
  <1>2. /\ p = toJava[1] /\ 1 \in DOMAIN toJava
        /\ \A i \in DOMAIN toJava' :
              i \in Nat /\ i > 0 /\ i + 1 \in DOMAIN toJava /\ toJava'[i] = toJava[i + 1]
        /\ \A i \in DOMAIN toJava :
              /\ i \in Nat
              /\ i = 1 \/ (i - 1 \in DOMAIN toJava' /\ toJava'[i - 1] = toJava[i])
    BY <1>1, Popped DEF TypesOK, QueuesTyped
  <1>3. \A i \in DOMAIN toJava' : Edges1(i, n)' <=> Edges1(i + 1, n)
    BY <1>2 DEF Edges1
  <1>4. srvMoving \in [PlayerStates -> BOOLEAN]
    BY DEF TypesOK, PeersTyped
  <1>5. srvMoving'[n] = IF Edges1(1, n) THEN toJava[1].on ELSE srvMoving[n]
    BY <1>1, <1>2, <1>4 DEF Edges1
  <1>6. ASSUME NEW i \in DOMAIN toJava, i # 1, Edges1(i, n), toJava[i].on = moving[n],
               \A j \in DOMAIN toJava : Edges1(j, n) => j <= i
        PROVE  EdgeReaches(n)'
    <2>1. i - 1 \in DOMAIN toJava' /\ toJava'[i - 1] = toJava[i]
          /\ i \in Nat /\ (i - 1) + 1 = i
      BY <1>2, <1>6
    <2>2. \A j \in DOMAIN toJava' : Edges1(j, n)' => j <= i - 1
      <3> SUFFICES ASSUME NEW j \in DOMAIN toJava', Edges1(j, n)'
                   PROVE  j <= i - 1
        OBVIOUS
      <3>1. j \in Nat /\ j + 1 \in DOMAIN toJava /\ Edges1(j + 1, n)
        BY <1>2, <1>3
      <3>2. j + 1 <= i
        BY <1>6, <3>1
      <3> QED
        BY <2>1, <3>1, <3>2
    <2>3. \A k : k = i - 1 => /\ k \in DOMAIN toJava' /\ Edges1(k, n)'
                              /\ toJava'[k].on = moving'[n]
                              /\ \A j \in DOMAIN toJava' : Edges1(j, n)' => j <= k
      BY <1>1, <1>6, <2>1, <2>2 DEF Edges1
    <2> QED
      BY <2>3 DEF EdgeReaches
  <1>7. CASE Edges1(1, n) /\ toJava[1].on = moving[n]
             /\ \A j \in DOMAIN toJava : Edges1(j, n) => j <= 1
    <2>1. \A j \in DOMAIN toJava' : ~Edges1(j, n)'
      <3> SUFFICES ASSUME NEW j \in DOMAIN toJava', Edges1(j, n)'
                   PROVE  FALSE
        OBVIOUS
      <3>1. j \in Nat /\ j > 0 /\ j + 1 <= 1
        BY <1>2, <1>3, <1>7
      <3> QED
        BY <3>1
    <2> QED
      BY <1>1, <1>5, <1>7, <2>1 DEF EdgeReaches
  <1>8. CASE (\A i \in DOMAIN toJava : ~Edges1(i, n)) /\ srvMoving[n] = moving[n]
    <2>1. \A j \in DOMAIN toJava' : ~Edges1(j, n)'
      BY <1>2, <1>3, <1>8
    <2> QED
      BY <1>1, <1>2, <1>5, <1>8, <2>1 DEF EdgeReaches
  <1> QED
    BY <1>6, <1>7, <1>8 DEF EdgeReaches

LEMMA MovingStep ==
    ASSUME TypesOK, TypesOK', WorkInOrder, MovingInv, Acts
    PROVE  MovingInv'
  <1> SUFFICES ASSUME NEW n \in PlayerStates
               PROVE  StateReaches(n)' /\ EdgeReaches(n)'
    BY DEF MovingInv
  <1>1. StateReaches(n) /\ EdgeReaches(n)
    BY DEF MovingInv
  <1>2. CASE Reads \/ Ensures \/ Stores \/ Does
    <2>1. StateReaches(n)'
      BY <1>1, <1>2, ReadingState, WorkingState DEF Reads
    <2>2. CASE UNCHANGED <<toJava, moving, srvMoving>>
      BY <1>1, <2>1, <2>2 DEF EdgeReaches, Edges1
    <2>3. CASE Does
      BY <1>1, <2>1, <2>3, DoingEdge
    <2>4. Does \/ UNCHANGED <<toJava, moving, srvMoving>>
      BY <1>2 DEF Reads, Reading, Ensures, Stores, Taking, bridge, server
    <2> QED
      BY <2>2, <2>3, <2>4
  <1>3. CASE Tells
    <2>1. StateReaches(n)'
      BY <1>1, <1>3, TellingState
    <2>2. UNCHANGED <<toJava, moving, srvMoving>>
      BY <1>3 DEF Tells, bridge, server
    <2> QED
      BY <1>1, <2>1, <2>2 DEF EdgeReaches, Edges1
  <1>4. CASE Hears
    <2>1. EdgeReaches(n)'
      BY <1>1, <1>4, HearingEdge
    <2>2. UNCHANGED <<fromBedrock, work, moving, cliMoving>>
      BY <1>4 DEF Hears, bridge, player
    <2> QED
      BY <1>1, <2>1, <2>2 DEF StateReaches, Reports, Tracks
  <1>5. CASE Passes \/ Chooses \/ Follows \/ Forces \/ Rests
    <2>1. UNCHANGED <<fromBedrock, work, moving, cliMoving>>
      BY <1>5 DEF Passes, Chooses, Follows, Forces, Rests, bridge, player, actionVars
    <2>2. UNCHANGED <<toJava, moving, srvMoving>>
      BY <1>5 DEF Passes, Chooses, Follows, Forces, Rests, bridge, server, actionVars
    <2> QED
      BY <1>1, <2>1, <2>2 DEF StateReaches, Reports, Tracks, EdgeReaches, Edges1
  <1> QED
    BY <1>2, <1>3, <1>4, <1>5 DEF Acts

(***************************************************************************)
(* The held slot                                                           *)
(***************************************************************************)
\* Something is written to the server.
LEMMA WritingSlot ==
    ASSUME TypesOK, NEW e \in JavaPackets, toJava' = Append(toJava, e), srvSlot' = srvSlot
    PROVE  /\ e.op = "held" => ServerComesTo(e.slot)'
           /\ e.op # "held" => \A s : ServerComesTo(s) => ServerComesTo(s)'
           /\ /\ HandsMatch
              /\ e.op \in Hands /\ e.slot # Outside => ServerComesTo(e.slot)
              => HandsMatch'
  <1> DEFINE l == Len(toJava) + 1
  <1>1. /\ l \in Nat /\ l \in DOMAIN toJava' /\ toJava'[l] = e
        /\ \A i \in DOMAIN toJava :
              i \in Nat /\ i \in DOMAIN toJava' /\ i < l /\ toJava'[i] = toJava[i]
        /\ \A i \in DOMAIN toJava' : i \in Nat /\ (i \in DOMAIN toJava \/ i = l)
    BY Pushed DEF TypesOK, QueuesTyped
  <1> HIDE DEF l
  <1>2. \A i \in DOMAIN toJava : Held(i)' <=> Held(i)
    BY <1>1 DEF Held
  <1>3. \A i : i = l => (Held(i)' <=> e.op = "held")
    BY <1>1 DEF Held
  <1>4. ASSUME e.op = "held"
        PROVE  ServerComesTo(e.slot)'
    <2>1. \A i : i = l => /\ i \in DOMAIN toJava' /\ Held(i)' /\ toJava'[i].slot = e.slot
                          /\ \A j \in DOMAIN toJava' : j <= i
      BY <1>1, <1>3, <1>4
    <2> QED
      BY <2>1 DEF ServerComesTo
  <1>5. ASSUME e.op # "held", NEW s, ServerComesTo(s)
        PROVE  ServerComesTo(s)'
    <2>1. \A i \in DOMAIN toJava' : Held(i)' => i \in DOMAIN toJava /\ Held(i)
      BY <1>1, <1>2, <1>3, <1>5
    <2>2. CASE \E i \in DOMAIN toJava :
                  /\ Held(i) /\ toJava[i].slot = s
                  /\ \A j \in DOMAIN toJava : Held(j) => j <= i
      BY <1>1, <1>2, <2>1, <2>2 DEF ServerComesTo
    <2>3. CASE (\A i \in DOMAIN toJava : ~Held(i)) /\ srvSlot = s
      BY <2>1, <2>3 DEF ServerComesTo
    <2> QED
      BY <1>5, <2>2, <2>3 DEF ServerComesTo
  <1>6. ASSUME HandsMatch, e.op \in Hands /\ e.slot # Outside => ServerComesTo(e.slot)
        PROVE  HandsMatch'
    <2> SUFFICES ASSUME NEW i \in DOMAIN toJava',
                        toJava'[i].op \in Hands, toJava'[i].slot # Outside
                 PROVE  /\ (\A j \in DOMAIN toJava' : Held(j)' => j > i) => toJava'[i].slot = srvSlot'
                        /\ \A j \in DOMAIN toJava' :
                              /\ Held(j)' /\ j < i
                              /\ \A k \in DOMAIN toJava' : Held(k)' => k <= j \/ k > i
                              => toJava'[j].slot = toJava'[i].slot
      BY DEF HandsMatch
    <2>1. CASE i \in DOMAIN toJava
      <3>1. toJava[i].op \in Hands /\ toJava[i].slot # Outside /\ toJava'[i] = toJava[i]
        BY <1>1, <2>1
      <3>2. /\ (\A j \in DOMAIN toJava : Held(j) => j > i) => toJava[i].slot = srvSlot
            /\ \A j \in DOMAIN toJava :
                  /\ Held(j) /\ j < i
                  /\ \A k \in DOMAIN toJava : Held(k) => k <= j \/ k > i
                  => toJava[j].slot = toJava[i].slot
        BY <1>6, <2>1, <3>1 DEF HandsMatch
      <3>3. ASSUME \A j \in DOMAIN toJava' : Held(j)' => j > i
            PROVE  toJava'[i].slot = srvSlot'
        BY <1>1, <1>2, <3>1, <3>2, <3>3
      <3>4. ASSUME NEW j \in DOMAIN toJava', Held(j)', j < i,
                   \A k \in DOMAIN toJava' : Held(k)' => k <= j \/ k > i
            PROVE  toJava'[j].slot = toJava'[i].slot
        <4>1. j \in DOMAIN toJava /\ toJava'[j] = toJava[j] /\ Held(j)
          BY <1>1, <1>2, <2>1, <3>4
        <4>2. \A k \in DOMAIN toJava : Held(k) => k <= j \/ k > i
          BY <1>1, <1>2, <3>4
        <4> QED
          BY <3>1, <3>2, <3>4, <4>1, <4>2
      <3> QED
        BY <3>3, <3>4
    <2>2. CASE i = l
      <3>1. toJava'[i] = e /\ e.op # "held"
        BY <1>1, <2>2 DEF Hands
      <3>2. \A j \in DOMAIN toJava' : Held(j)' => j \in DOMAIN toJava /\ Held(j) /\ j < i
        BY <1>1, <1>2, <1>3, <2>2, <3>1
      <3>3. ServerComesTo(e.slot)
        BY <1>6, <3>1
      <3>4. CASE (\A j \in DOMAIN toJava : ~Held(j)) /\ srvSlot = e.slot
        BY <3>1, <3>2, <3>4
      <3>5. ASSUME NEW m \in DOMAIN toJava, Held(m), toJava[m].slot = e.slot,
                   \A j \in DOMAIN toJava : Held(j) => j <= m
            PROVE  /\ ~\A j \in DOMAIN toJava' : Held(j)' => j > i
                   /\ \A j \in DOMAIN toJava' :
                         /\ Held(j)' /\ j < i
                         /\ \A k \in DOMAIN toJava' : Held(k)' => k <= j \/ k > i
                         => toJava'[j].slot = toJava'[i].slot
        <4>1. m \in DOMAIN toJava' /\ Held(m)' /\ m \in Nat /\ m < i /\ i \in Nat
          BY <1>1, <1>2, <2>2, <3>5
        <4>2. ~(m > i)
          BY <4>1
        <4>3. ASSUME NEW j \in DOMAIN toJava', Held(j)', j < i,
                     \A k \in DOMAIN toJava' : Held(k)' => k <= j \/ k > i
              PROVE  toJava'[j].slot = toJava'[i].slot
          <5>1. j \in DOMAIN toJava /\ Held(j) /\ j \in Nat /\ toJava'[j] = toJava[j]
            BY <1>1, <3>2, <4>3
          <5>2. j <= m /\ m <= j
            BY <3>5, <4>1, <4>2, <4>3, <5>1
          <5>3. j = m
            BY <4>1, <5>1, <5>2
          <5> QED
            BY <3>1, <3>5, <5>1, <5>3
        <4> QED
          BY <4>1, <4>2, <4>3
      <3> QED
        BY <3>1, <3>3, <3>4, <3>5 DEF ServerComesTo
    <2> QED
      BY <1>1, <2>1, <2>2
  <1> QED
    BY <1>4, <1>5, <1>6

\* The server reads a packet.
LEMMA HearingSlot ==
    ASSUME TypesOK, Hears
    PROVE  /\ \A s : ServerComesTo(s) => ServerComesTo(s)'
           /\ HandsMatch => HandsMatch'
  <1>1. PICK p \in JavaPackets :
          /\ toJava # <<>> /\ p = Head(toJava)
          /\ toJava' = Tail(toJava)
          /\ srvSlot' = IF p.op = "held" THEN p.slot ELSE srvSlot
    BY DEF Hears
  <1>2. /\ p = toJava[1] /\ 1 \in DOMAIN toJava
        /\ \A i \in DOMAIN toJava' :
              i \in Nat /\ i > 0 /\ i + 1 \in DOMAIN toJava /\ toJava'[i] = toJava[i + 1]
        /\ \A i \in DOMAIN toJava :
              /\ i \in Nat
              /\ i = 1 \/ (i - 1 \in DOMAIN toJava' /\ toJava'[i - 1] = toJava[i])
    BY <1>1, Popped DEF TypesOK, QueuesTyped
  <1>3. \A i \in DOMAIN toJava' : Held(i)' <=> Held(i + 1)
    BY <1>2 DEF Held
  <1>4. srvSlot' = IF Held(1) THEN toJava[1].slot ELSE srvSlot
    BY <1>1, <1>2 DEF Held
  <1>5. ASSUME NEW s, ServerComesTo(s)
        PROVE  ServerComesTo(s)'
    <2>1. ASSUME NEW i \in DOMAIN toJava, i # 1, Held(i), toJava[i].slot = s,
                 \A j \in DOMAIN toJava : Held(j) => j <= i
          PROVE  ServerComesTo(s)'
      <3>1. i - 1 \in DOMAIN toJava' /\ toJava'[i - 1] = toJava[i]
            /\ i \in Nat /\ (i - 1) + 1 = i
        BY <1>2, <2>1
      <3>2. \A j \in DOMAIN toJava' : Held(j)' => j <= i - 1
        <4> SUFFICES ASSUME NEW j \in DOMAIN toJava', Held(j)'
                     PROVE  j <= i - 1
          OBVIOUS
        <4>1. j \in Nat /\ j + 1 \in DOMAIN toJava /\ Held(j + 1)
          BY <1>2, <1>3
        <4>2. j + 1 <= i
          BY <2>1, <4>1
        <4> QED
          BY <3>1, <4>1, <4>2
      <3>3. \A k : k = i - 1 => /\ k \in DOMAIN toJava' /\ Held(k)' /\ toJava'[k].slot = s
                                /\ \A j \in DOMAIN toJava' : Held(j)' => j <= k
        BY <2>1, <3>1, <3>2 DEF Held
      <3> QED
        BY <3>3 DEF ServerComesTo
    <2>2. CASE Held(1) /\ toJava[1].slot = s /\ \A j \in DOMAIN toJava : Held(j) => j <= 1
      <3>1. \A j \in DOMAIN toJava' : ~Held(j)'
        <4> SUFFICES ASSUME NEW j \in DOMAIN toJava', Held(j)'
                     PROVE  FALSE
          OBVIOUS
        <4>1. j \in Nat /\ j > 0 /\ j + 1 <= 1
          BY <1>2, <1>3, <2>2
        <4> QED
          BY <4>1
      <3> QED
        BY <1>4, <2>2, <3>1 DEF ServerComesTo
    <2>3. CASE (\A i \in DOMAIN toJava : ~Held(i)) /\ srvSlot = s
      <3>1. \A j \in DOMAIN toJava' : ~Held(j)'
        BY <1>2, <1>3, <2>3
      <3> QED
        BY <1>2, <1>4, <2>3, <3>1 DEF ServerComesTo
    <2> QED
      BY <1>5, <2>1, <2>2, <2>3 DEF ServerComesTo
  <1>6. ASSUME HandsMatch
        PROVE  HandsMatch'
    <2> SUFFICES ASSUME NEW i \in DOMAIN toJava',
                        toJava'[i].op \in Hands, toJava'[i].slot # Outside
                 PROVE  /\ (\A j \in DOMAIN toJava' : Held(j)' => j > i) => toJava'[i].slot = srvSlot'
                        /\ \A j \in DOMAIN toJava' :
                              /\ Held(j)' /\ j < i
                              /\ \A k \in DOMAIN toJava' : Held(k)' => k <= j \/ k > i
                              => toJava'[j].slot = toJava'[i].slot
      BY DEF HandsMatch
    <2> DEFINE o == i + 1
    <2>1. i \in Nat /\ i > 0 /\ o \in Nat /\ o = i + 1 /\ o \in DOMAIN toJava /\ toJava'[i] = toJava[o]
      BY <1>2
    <2> HIDE DEF o
    <2>2. /\ (\A j \in DOMAIN toJava : Held(j) => j > o) => toJava[o].slot = srvSlot
          /\ \A j \in DOMAIN toJava :
                /\ Held(j) /\ j < o
                /\ \A k \in DOMAIN toJava : Held(k) => k <= j \/ k > o
                => toJava[j].slot = toJava[o].slot
      BY <1>6, <2>1 DEF HandsMatch
    <2>3. ASSUME \A j \in DOMAIN toJava' : Held(j)' => j > i
          PROVE  toJava'[i].slot = srvSlot'
      <3>1. \A k \in DOMAIN toJava : Held(k) => k = 1 \/ k > o
        <4> SUFFICES ASSUME NEW k \in DOMAIN toJava, Held(k), k # 1
                     PROVE  k > o
          OBVIOUS
        <4>1. k \in Nat /\ k - 1 \in DOMAIN toJava' /\ (k - 1) + 1 = k
          BY <1>2
        <4>2. Held((k - 1) + 1)
          BY <4>1
        <4>3. \A j : j = k - 1 => Held(j)'
          BY <1>3, <4>1, <4>2
        <4>4. k - 1 > i
          BY <2>3, <4>1, <4>3
        <4> QED
          BY <2>1, <4>1, <4>4
      <3>2. CASE Held(1)
        <4>1. \A k \in DOMAIN toJava : Held(k) => k <= 1 \/ k > o
          BY <1>2, <3>1
        <4>2. toJava[1].slot = toJava[o].slot
          BY <1>2, <2>1, <2>2, <3>2, <4>1
        <4> QED
          BY <1>4, <2>1, <3>2, <4>2
      <3>3. CASE ~Held(1)
        <4>1. \A k \in DOMAIN toJava : Held(k) => k > o
          BY <3>1, <3>3
        <4> QED
          BY <1>4, <2>1, <2>2, <3>3, <4>1
      <3> QED
        BY <3>2, <3>3
    <2>4. ASSUME NEW j \in DOMAIN toJava', Held(j)', j < i,
                 \A k \in DOMAIN toJava' : Held(k)' => k <= j \/ k > i
          PROVE  toJava'[j].slot = toJava'[i].slot
      <3> DEFINE m == j + 1
      <3>1. j \in Nat /\ j > 0 /\ m \in Nat /\ m = j + 1 /\ m \in DOMAIN toJava /\ Held(m)
            /\ toJava'[j] = toJava[m] /\ m < o
        BY <1>2, <1>3, <2>1, <2>4
      <3> HIDE DEF m
      <3>2. \A k \in DOMAIN toJava : Held(k) => k <= m \/ k > o
        <4> SUFFICES ASSUME NEW k \in DOMAIN toJava, Held(k), k # 1
                     PROVE  k <= m \/ k > o
          BY <3>1
        <4>1. k \in Nat /\ k - 1 \in DOMAIN toJava' /\ (k - 1) + 1 = k
          BY <1>2
        <4>2. Held((k - 1) + 1)
          BY <4>1
        <4>3. \A q : q = k - 1 => Held(q)'
          BY <1>3, <4>1, <4>2
        <4>4. k - 1 <= j \/ k - 1 > i
          BY <2>4, <4>1, <4>3
        <4> QED
          BY <2>1, <3>1, <4>1, <4>4
      <3> QED
        BY <2>1, <2>2, <3>1, <3>2
    <2> QED
      BY <2>3, <2>4
  <1> QED
    BY <1>5, <1>6

\* What the bridge comes to does not change when it reads a packet, or takes a step.
LEMMA ReadingComes ==
    ASSUME TypesOK, TypesOK', NEW p \in LegacyPackets, Reading(p), NEW s, BridgeComesTo(s)
    PROVE  BridgeComesTo(s)'
  <1>1. fromBedrock' = Tail(fromBedrock) /\ fromBedrock # <<>> /\ p = Head(fromBedrock)
        /\ fromBedrock \in Seq(LegacyPackets)
    BY DEF Reading, TypesOK, QueuesTyped
  <1>2. /\ p = fromBedrock[1] /\ 1 \in DOMAIN fromBedrock
        /\ \A i \in DOMAIN fromBedrock' :
              i \in Nat /\ i > 0 /\ i + 1 \in DOMAIN fromBedrock /\ fromBedrock'[i] = fromBedrock[i + 1]
        /\ \A i \in DOMAIN fromBedrock :
              /\ i \in Nat
              /\ i = 1 \/ (i - 1 \in DOMAIN fromBedrock' /\ fromBedrock'[i - 1] = fromBedrock[i])
    BY <1>1, Popped
  <1>3. \A i \in DOMAIN fromBedrock' : Selects(i)' <=> Selects(i + 1)
    BY <1>2 DEF Selects
  <1>4. Selects(1) <=> Selecting(p)
    BY <1>2 DEF Selects, Selecting
  <1>5. /\ \A t : WorkSelects(t) <=> t = selectedSlot
        /\ \A t : WorkSelects(t)' <=> t = IF Selecting(p) THEN p.slot ELSE selectedSlot
    BY ReadingSelects
  <1>6. ASSUME NEW i \in DOMAIN fromBedrock, i # 1, Selects(i), fromBedrock[i].slot = s,
               \A j \in DOMAIN fromBedrock : Selects(j) => j <= i
        PROVE  BridgeComesTo(s)'
    <2>1. i - 1 \in DOMAIN fromBedrock' /\ fromBedrock'[i - 1] = fromBedrock[i]
          /\ i \in Nat /\ (i - 1) + 1 = i
      BY <1>2, <1>6
    <2>2. \A j \in DOMAIN fromBedrock' : Selects(j)' => j <= i - 1
      <3> SUFFICES ASSUME NEW j \in DOMAIN fromBedrock', Selects(j)'
                   PROVE  j <= i - 1
        OBVIOUS
      <3>1. j \in Nat /\ j + 1 \in DOMAIN fromBedrock /\ Selects(j + 1)
        BY <1>2, <1>3
      <3>2. j + 1 <= i
        BY <1>6, <3>1
      <3> QED
        BY <2>1, <3>1, <3>2
    <2>3. \A k : k = i - 1 => /\ k \in DOMAIN fromBedrock' /\ Selects(k)'
                              /\ fromBedrock'[k].slot = s
                              /\ \A j \in DOMAIN fromBedrock' : Selects(j)' => j <= k
      BY <1>6, <2>1, <2>2 DEF Selects
    <2> QED
      BY <2>3 DEF BridgeComesTo
  <1>7. CASE Selects(1) /\ fromBedrock[1].slot = s
             /\ \A j \in DOMAIN fromBedrock : Selects(j) => j <= 1
    <2>1. \A j \in DOMAIN fromBedrock' : ~Selects(j)'
      <3> SUFFICES ASSUME NEW j \in DOMAIN fromBedrock', Selects(j)'
                   PROVE  FALSE
        OBVIOUS
      <3>1. j \in Nat /\ j > 0 /\ j + 1 <= 1
        BY <1>2, <1>3, <1>7
      <3> QED
        BY <3>1
    <2>2. WorkSelects(s)'
      BY <1>2, <1>4, <1>5, <1>7
    <2> QED
      BY <2>1, <2>2 DEF BridgeComesTo
  <1>8. CASE (\A i \in DOMAIN fromBedrock : ~Selects(i)) /\ WorkSelects(s)
    <2>1. \A j \in DOMAIN fromBedrock' : ~Selects(j)'
      BY <1>2, <1>3, <1>8
    <2>2. WorkSelects(s)'
      BY <1>2, <1>4, <1>5, <1>8
    <2> QED
      BY <2>1, <2>2 DEF BridgeComesTo
  <1> QED
    BY <1>6, <1>7, <1>8 DEF BridgeComesTo

LEMMA WorkingComes ==
    ASSUME fromBedrock' = fromBedrock, \A t : WorkSelects(t)' <=> WorkSelects(t),
           NEW s, BridgeComesTo(s)
    PROVE  BridgeComesTo(s)'
  <1>1. \A i : Selects(i)' <=> Selects(i)
    BY DEF Selects
  <1> QED
    BY <1>1 DEF BridgeComesTo

\* A packet of the client selects the slot of the client or none.
LEMMA TellingComes ==
    ASSUME TypesOK, Tells, ~unannounced', ~unannounced => BridgeFollows
    PROVE  BridgeFollows'
  <1>1. PICK p \in LegacyPackets :
          /\ fromBedrock' = Append(fromBedrock, p)
          /\ p.slot \in {cliSlot, Outside}
          /\ ~unannounced \/ (p.type = "equipment" /\ p.slot = cliSlot)
          /\ UNCHANGED <<selectedSlot, work, cliSlot>>
    BY DEF Tells, bridge
  <1> DEFINE l == Len(fromBedrock) + 1
  <1>2. /\ l \in Nat /\ l \in DOMAIN fromBedrock' /\ fromBedrock'[l] = p
        /\ \A i \in DOMAIN fromBedrock :
              i \in Nat /\ i \in DOMAIN fromBedrock' /\ i < l /\ fromBedrock'[i] = fromBedrock[i]
        /\ \A i \in DOMAIN fromBedrock' : i \in Nat /\ (i \in DOMAIN fromBedrock \/ i = l)
    BY <1>1, Pushed DEF TypesOK, QueuesTyped
  <1> HIDE DEF l
  <1>3. \A i \in DOMAIN fromBedrock : Selects(i)' <=> Selects(i)
    BY <1>2 DEF Selects
  <1>4. \A i : i = l => (Selects(i)' <=> Selecting(p))
    BY <1>2 DEF Selects, Selecting
  <1>5. \A t \in Slots : t = cliSlot => BridgeComesTo(t)'
    <2> SUFFICES ASSUME NEW t \in Slots, t = cliSlot
                 PROVE  BridgeComesTo(t)'
      OBVIOUS
    <2>1. CASE Selecting(p)
      <3>1. p.slot = t
        BY <1>1, <2>1 DEF Selecting
      <3>2. \A i : i = l => /\ i \in DOMAIN fromBedrock' /\ Selects(i)' /\ fromBedrock'[i].slot = t
                            /\ \A j \in DOMAIN fromBedrock' : j <= i
        BY <1>2, <1>4, <2>1, <3>1
      <3> QED
        BY <3>2 DEF BridgeComesTo
    <2>2. CASE ~Selecting(p)
      <3>1. \A i \in DOMAIN fromBedrock' : Selects(i)' => i \in DOMAIN fromBedrock /\ Selects(i)
        BY <1>2, <1>3, <1>4, <2>2
      <3>2. p.slot # cliSlot \/ p.type # "equipment"
        <4>1. cliSlot # Outside
          BY ActionsAssumption DEF TypesOK, PeersTyped
        <4> QED
          BY <2>2, <4>1 DEF Selecting
      <3>3. BridgeComesTo(t)
        BY <1>1, <3>2 DEF BridgeFollows
      <3>4. CASE \E i \in DOMAIN fromBedrock :
                    /\ Selects(i) /\ fromBedrock[i].slot = t
                    /\ \A j \in DOMAIN fromBedrock : Selects(j) => j <= i
        BY <1>2, <1>3, <3>1, <3>4 DEF BridgeComesTo
      <3>5. CASE (\A i \in DOMAIN fromBedrock : ~Selects(i)) /\ WorkSelects(t)
        <4>1. WorkSelects(t)'
          BY <1>1, <3>5 DEF WorkSelects, WritesHeld
        <4> QED
          BY <3>1, <3>5, <4>1 DEF BridgeComesTo
      <3> QED
        BY <3>3, <3>4, <3>5 DEF BridgeComesTo
    <2> QED
      BY <2>1, <2>2
  <1>6. cliSlot' = cliSlot
    BY <1>1
  <1> QED
    BY <1>5, <1>6 DEF BridgeFollows

\* An uncrossed step is taken from an uncrossed state.
LEMMA CrossedStays ==
    ASSUME TypesOK', Acts, ~crossed'
    PROVE  ~crossed
  BY DEF Acts, Reads, Reading, Ensures, Stores, Does, Taking, Passes, Chooses, Tells, Follows, Forces,
         Hears, Rests, counters, actionVars, TypesOK, PeersTyped

\* Nothing happens to the slots of queues that stay.
LEMMA SlotsStay ==
    ASSUME UNCHANGED <<work, selectedSlot, toJava, srvSlot>>
    PROVE  /\ NamedSelected => NamedSelected'
           /\ HandsMatch => HandsMatch'
           /\ \A s : WorkSelects(s)' <=> WorkSelects(s)
           /\ ServerFollows => ServerFollows'
  <1>1. \A s : WorkSelects(s)' <=> WorkSelects(s)
    BY DEF WorkSelects, WritesHeld
  <1>2. \A s : \A i : Names(i, s)' <=> Names(i, s)
    BY DEF Names
  <1>3. \A i : Held(i)' <=> Held(i)
    BY DEF Held
  <1>4. \A s : ServerComesTo(s) => ServerComesTo(s)'
    BY <1>3 DEF ServerComesTo
  <1>5. NamedSelected => NamedSelected'
    BY <1>1, <1>2 DEF NamedSelected
  <1>6. HandsMatch => HandsMatch'
    BY <1>3 DEF HandsMatch
  <1>7. ServerFollows => ServerFollows'
    BY <1>4 DEF ServerFollows, AtBridge
  <1> QED
    BY <1>1, <1>5, <1>6, <1>7

Body == NamedSelected /\ HandsMatch /\ (ServersSlot \/ ClientsSlots)

LEMMA ReadsSlot ==
    ASSUME TypesOK, TypesOK', Reads, Body
    PROVE  Body'
  <1>1. PICK p \in LegacyPackets : Reading(p)
    BY DEF Reads
  <1>2. /\ fromBedrock # <<>> /\ work = <<>>
        /\ UNCHANGED <<selectedSlot, toBedrock, fromJava, toJava, srvSlot, cliSlot, unannounced>>
    BY <1>1 DEF Reading, bridge, server, player
  <1>3. ClientsSlots
    BY <1>2 DEF Body, ServersSlot
  <1>4. NamedSelected' /\ (work' = <<>> \/ work'[1].do # "store")
    BY <1>1, ReadingSelects
  <1>5. \A i : Held(i)' <=> Held(i)
    BY <1>2 DEF Held
  <1>6. HandsMatch'
    BY <1>2, <1>5 DEF HandsMatch, Body
  <1>7. ServerFollows'
    <2>1. \A s : AtBridge(s)' <=> AtBridge(s)
      BY <1>2, <1>4 DEF AtBridge
    <2>2. \A s : ServerComesTo(s) => ServerComesTo(s)'
      BY <1>2, <1>5 DEF ServerComesTo
    <2> QED
      BY <1>3, <2>1, <2>2 DEF ServerFollows, ClientsSlots
  <1>8. BridgeFollows => BridgeFollows'
    BY <1>1, <1>2, ReadingComes DEF BridgeFollows
  <1> QED
    BY <1>2, <1>3, <1>4, <1>6, <1>7, <1>8 DEF Body, ClientsSlots

LEMMA EnsuresSlot ==
    ASSUME TypesOK, TypesOK', WorkInOrder, Ensures, Body
    PROVE  Body'
  <1>1. /\ work # <<>>
        /\ UNCHANGED <<selectedSlot, fromBedrock, toBedrock, fromJava, toJava, srvSlot, cliSlot,
                       unannounced>>
    BY DEF Ensures, Taking, server, player
  <1>2. ClientsSlots
    BY <1>1 DEF Body, ServersSlot
  <1>3. /\ Kept
        /\ \A s : WorkSelects(s)' <=> WorkSelects(s)
        /\ work[1].do # "store" /\ (work' = <<>> \/ work'[1].do # "store")
    BY <1>1, EnsureKeeps
  <1>4. NamedSelected'
    BY <1>3, KeptNamed DEF Body
  <1>5. \A i : Held(i)' <=> Held(i)
    BY <1>1 DEF Held
  <1>6. HandsMatch'
    BY <1>1, <1>5 DEF HandsMatch, Body
  <1>7. ServerFollows'
    <2>1. \A s : AtBridge(s)' <=> AtBridge(s)
      BY <1>1, <1>3 DEF AtBridge
    <2>2. \A s : ServerComesTo(s) => ServerComesTo(s)'
      BY <1>1, <1>5 DEF ServerComesTo
    <2> QED
      BY <1>2, <2>1, <2>2 DEF ServerFollows, ClientsSlots
  <1>8. BridgeFollows => BridgeFollows'
    BY <1>1, <1>3, WorkingComes DEF BridgeFollows
  <1> QED
    BY <1>1, <1>2, <1>4, <1>6, <1>7, <1>8 DEF Body, ClientsSlots

LEMMA StoresSlot ==
    ASSUME TypesOK, TypesOK', WorkInOrder, Stores, Body
    PROVE  Body'
  <1>1. PICK h \in StepSet : /\ Taking(h) /\ h.do = "store"
                             /\ toJava' = toJava /\ work' = Tail(work) /\ selectedSlot' = h.slot
    BY DEF Stores
  <1>2. /\ work # <<>> /\ h = work[1]
        /\ \A i \in DOMAIN work' : i + 1 \in DOMAIN work /\ work'[i] = work[i + 1] /\ i \in Nat /\ i > 0
        /\ work' = <<>> \/ 1 \in DOMAIN work'
        /\ UNCHANGED <<fromBedrock, toBedrock, fromJava, srvSlot, cliSlot, unannounced>>
    <2>1. work # <<>> /\ h = Head(work) /\ work \in Seq(StepSet) /\ work' \in Seq(StepSet)
          /\ UNCHANGED <<fromBedrock, toBedrock, fromJava, srvSlot, cliSlot, unannounced>>
      BY <1>1 DEF Taking, TypesOK, QueuesTyped, server, player
    <2>2. /\ h = work[1]
          /\ \A i \in DOMAIN work' : i + 1 \in DOMAIN work /\ work'[i] = work[i + 1] /\ i \in Nat /\ i > 0
      BY <1>1, <2>1, Popped
    <2>3. work' = <<>> \/ 1 \in DOMAIN work'
      BY <2>1, Popped
    <2> QED
      BY <2>1, <2>2, <2>3
  <1>3. ClientsSlots
    BY <1>2 DEF Body, ServersSlot
  <1>4. Kept /\ \A s : WorkSelects(s)' <=> WorkSelects(s)
    BY OtherKeeps
  <1>5. NamedSelected'
    BY <1>4, KeptNamed DEF Body
  <1>6. \A i : Held(i)' <=> Held(i)
    BY <1>1 DEF Held
  <1>7. HandsMatch'
    BY <1>1, <1>2, <1>6 DEF HandsMatch, Body
  <1>8. ServerFollows'
    <2>1. \A s : AtBridge(s) <=> s = h.slot
      BY <1>1, <1>2 DEF AtBridge
    <2>2. \A i \in DOMAIN work' : work'[i].do # "store"
      <3> SUFFICES ASSUME NEW i \in DOMAIN work'
                   PROVE  work'[i].do # "store"
        OBVIOUS
      <3>1. i + 1 \in DOMAIN work /\ i + 1 # 1 /\ work'[i] = work[i + 1] /\ ~WritesHeld(1)
        BY <1>1, <1>2 DEF WritesHeld
      <3>2. Plain(i + 1)
        BY <3>1, RestPlain
      <3> QED
        BY <3>1, <3>2 DEF Plain
    <2>3. \A s : AtBridge(s)' <=> s = h.slot
      BY <1>1, <1>2, <2>2 DEF AtBridge
    <2>4. \A s : ServerComesTo(s) => ServerComesTo(s)'
      BY <1>1, <1>2, <1>6 DEF ServerComesTo
    <2> QED
      BY <1>3, <2>1, <2>3, <2>4 DEF ServerFollows, ClientsSlots
  <1>9. BridgeFollows => BridgeFollows'
    BY <1>2, <1>4, WorkingComes DEF BridgeFollows
  <1> QED
    BY <1>2, <1>3, <1>5, <1>7, <1>8, <1>9 DEF Body, ClientsSlots

LEMMA DoesSlot ==
    ASSUME TypesOK, TypesOK', WorkInOrder, Does, Body
    PROVE  Body'
  <1>1. PICK h \in StepSet :
          /\ Taking(h) /\ h.do \notin {"ensure", "store"}
          /\ work' = Tail(work) /\ selectedSlot' = selectedSlot
          /\ \/ toJava' = toJava /\ h.do # "write"
             \/ \E e \in JavaPackets : toJava' = Append(toJava, e) /\ Sent(h, e)
    BY DEF Does
  <1>2. /\ work # <<>> /\ h = work[1] /\ 1 \in DOMAIN work
        /\ UNCHANGED <<fromBedrock, toBedrock, fromJava, srvSlot, cliSlot, unannounced>>
    <2>1. work # <<>> /\ h = Head(work) /\ work \in Seq(StepSet)
          /\ UNCHANGED <<fromBedrock, toBedrock, fromJava, srvSlot, cliSlot, unannounced>>
      BY <1>1 DEF Taking, TypesOK, QueuesTyped, server, player
    <2> QED
      BY <2>1, Popped
  <1>3. ClientsSlots
    BY <1>2 DEF Body, ServersSlot
  <1>4. Kept /\ WorkInOrder' /\ \A s : WorkSelects(s)' <=> WorkSelects(s)
    BY OtherKeeps
  <1>5. NamedSelected'
    BY <1>4, KeptNamed DEF Body
  <1>6. BridgeFollows => BridgeFollows'
    BY <1>2, <1>4, WorkingComes DEF BridgeFollows
  <1>7. \A s : AtBridge(s) <=> s = selectedSlot
    BY <1>1, <1>2 DEF AtBridge
  <1>8. selectedSlot \in Slots /\ ServerComesTo(selectedSlot)
    BY <1>3, <1>7 DEF TypesOK, BridgeTyped, ClientsSlots, ServerFollows
  <1>9. \A s : AtBridge(s)' <=> s = IF WritesHeld(1) THEN h.packet.slot ELSE selectedSlot
    <2>1. work' = <<>> \/ (1 \in DOMAIN work' /\ 2 \in DOMAIN work /\ work'[1] = work[2])
      <3>1. work' = <<>> \/ 1 \in DOMAIN work'
        BY Popped DEF TypesOK, QueuesTyped
      <3>2. \A i \in DOMAIN work' : i + 1 \in DOMAIN work /\ work'[i] = work[i + 1]
        BY <1>1, <1>2, Popped DEF TypesOK, QueuesTyped
      <3>3. 1 \in DOMAIN work' => 1 + 1 \in DOMAIN work /\ work'[1] = work[1 + 1]
        BY <3>2
      <3> QED
        BY <3>1, <3>3
    <2>2. CASE WritesHeld(1)
      <3>1. 2 \in DOMAIN work /\ work[2].do = "store" /\ work[2].slot = h.packet.slot
        BY <1>2, <2>2 DEF WorkInOrder
      <3>2. work' # <<>>
        <4>1. 2 - 1 \in DOMAIN work'
          BY <1>1, <1>2, <3>1, Popped DEF TypesOK, QueuesTyped
        <4> QED
          BY <4>1
      <3> QED
        BY <2>1, <2>2, <3>1, <3>2 DEF AtBridge
    <2>3. CASE ~WritesHeld(1)
      <3>1. 2 \in DOMAIN work => work[2].do # "store"
        BY <2>3 DEF WorkInOrder
      <3> QED
        BY <1>1, <2>1, <2>3, <3>1 DEF AtBridge
    <2> QED
      BY <2>2, <2>3
  <1>10. CASE toJava' = toJava /\ h.do # "write"
    <2>1. \A i : Held(i)' <=> Held(i)
      BY <1>10 DEF Held
    <2>2. HandsMatch'
      BY <1>2, <1>10, <2>1 DEF HandsMatch, Body
    <2>3. \A s : ServerComesTo(s) => ServerComesTo(s)'
      BY <1>2, <1>10, <2>1 DEF ServerComesTo
    <2>4. ~WritesHeld(1)
      BY <1>2, <1>10 DEF WritesHeld
    <2>5. ServerFollows'
      BY <1>3, <1>7, <1>9, <2>3, <2>4 DEF ServerFollows, ClientsSlots
    <2> QED
      BY <1>2, <1>3, <1>5, <1>6, <2>2, <2>5 DEF Body, ClientsSlots
  <1>11. ASSUME NEW e \in JavaPackets, toJava' = Append(toJava, e), Sent(h, e)
         PROVE  Body'
    <2>1. /\ e.op = "held" => ServerComesTo(e.slot)'
          /\ e.op # "held" => \A s : ServerComesTo(s) => ServerComesTo(s)'
          /\ /\ HandsMatch
             /\ e.op \in Hands /\ e.slot # Outside => ServerComesTo(e.slot)
             => HandsMatch'
      BY <1>2, <1>11, WritingSlot
    <2>2. e.op \in Hands /\ e.slot # Outside => ServerComesTo(e.slot)
      <3> SUFFICES ASSUME e.op \in Hands, e.slot # Outside
                   PROVE  ServerComesTo(e.slot)
        OBVIOUS
      <3>1. e.slot \in Slots
        BY JavaFields DEF AnySlots
      <3>2. Names(1, e.slot) /\ ~WritesHeld(1)
        BY <1>2, <1>11 DEF Sent, Names, WritesHeld, Hands
      <3>3. WorkSelects(e.slot)
        BY <1>2, <3>1, <3>2 DEF Body, NamedSelected
      <3>4. e.slot = selectedSlot
        BY <1>1, <1>2, <3>2, <3>3 DEF WorkSelects
      <3> QED
        BY <1>8, <3>4
    <2>3. HandsMatch'
      BY <2>1, <2>2 DEF Body
    <2>4. WritesHeld(1) <=> e.op = "held"
      BY <1>2, <1>11 DEF Sent, WritesHeld
    <2>5. ServerFollows'
      <3>1. CASE e.op = "held"
        <4>1. \A s : AtBridge(s)' <=> s = e.slot
          BY <1>9, <1>11, <2>4, <3>1 DEF Sent
        <4>2. ServerComesTo(e.slot)'
          BY <2>1, <3>1
        <4> QED
          BY <4>1, <4>2 DEF ServerFollows
      <3>2. CASE e.op # "held"
        BY <1>3, <1>7, <1>9, <2>1, <2>4, <3>2 DEF ServerFollows, ClientsSlots
      <3> QED
        BY <3>1, <3>2
    <2> QED
      BY <1>2, <1>3, <1>5, <1>6, <2>3, <2>5 DEF Body, ClientsSlots
  <1> QED
    BY <1>1, <1>10, <1>11

LEMMA PassesSlot ==
    ASSUME TypesOK, TypesOK', Passes, Body
    PROVE  Body'
  <1>1. PICK s \in Slots :
          /\ fromJava # <<>> /\ s = Head(fromJava)
          /\ selectedSlot' = s
          /\ toBedrock' = Append(toBedrock, s)
          /\ fromJava' = Tail(fromJava)
          /\ UNCHANGED <<work, fromBedrock, toJava, srvSlot, unannounced>>
    BY DEF Passes, server, player
  <1>2. /\ work = <<>> /\ fromBedrock = <<>> /\ toJava = <<>> /\ ~unannounced
        /\ Len(fromJava) = 1 /\ fromJava[1] = srvSlot /\ toBedrock = <<>>
    BY <1>1 DEF Body, ServersSlot, ClientsSlots
  <1>3. s = srvSlot /\ Len(fromJava') = 0 /\ fromJava' \in Seq(Slots)
    BY <1>1, <1>2, Popped DEF TypesOK, QueuesTyped
  <1>4. fromJava' = <<>>
    BY <1>3, EmptySeq
  <1>5. Len(toBedrock') = 1 /\ toBedrock'[1] = s
    BY <1>1, <1>2
  <1>6. NamedSelected' /\ HandsMatch'
    BY <1>1, <1>2 DEF NamedSelected, HandsMatch
  <1> QED
    BY <1>1, <1>2, <1>3, <1>4, <1>5, <1>6 DEF Body, ServersSlot

LEMMA ChoosesSlot ==
    ASSUME TypesOK, Chooses, ~crossed', Body
    PROVE  Body'
  <1>1. /\ fromJava = <<>> /\ toBedrock = <<>> /\ unannounced'
        /\ UNCHANGED <<work, selectedSlot, toJava, srvSlot, fromJava, toBedrock>>
    BY DEF Chooses, ForcedInFlight, bridge, server
  <1>2. ClientsSlots
    <2>1. Len(<<>>) = 0
      OBVIOUS
    <2> QED
      BY <1>1, <2>1 DEF Body, ServersSlot
  <1> QED
    BY <1>1, <1>2, SlotsStay DEF Body, ClientsSlots

LEMMA TellsSlot ==
    ASSUME TypesOK, Tells, ~crossed', Body
    PROVE  Body'
  <1>1. /\ fromJava = <<>> /\ toBedrock = <<>>
        /\ UNCHANGED <<work, selectedSlot, toJava, srvSlot, fromJava, toBedrock>>
    BY DEF Tells, ForcedInFlight, bridge, server
  <1>2. ClientsSlots
    <2>1. Len(<<>>) = 0
      OBVIOUS
    <2> QED
      BY <1>1, <2>1 DEF Body, ServersSlot
  <1>3. ~unannounced' => BridgeFollows'
    BY <1>2, TellingComes DEF ClientsSlots
  <1> QED
    BY <1>1, <1>2, <1>3, SlotsStay DEF Body, ClientsSlots

LEMMA FollowsSlot ==
    ASSUME TypesOK, TypesOK', Follows, Body
    PROVE  Body'
  <1>1. PICK s \in Slots :
          /\ toBedrock # <<>> /\ s = Head(toBedrock)
          /\ cliSlot' = s /\ toBedrock' = Tail(toBedrock)
          /\ UNCHANGED <<work, selectedSlot, fromBedrock, fromJava, toJava, srvSlot>>
    BY DEF Follows, bridge, server
  <1>2. /\ work = <<>> /\ fromBedrock = <<>> /\ toJava = <<>>
        /\ fromJava = <<>> /\ Len(toBedrock) = 1 /\ toBedrock[1] = srvSlot /\ selectedSlot = srvSlot
    BY <1>1 DEF Body, ServersSlot, ClientsSlots
  <1>3. s = srvSlot /\ Len(toBedrock') = 0 /\ toBedrock' \in Seq(Slots)
    BY <1>1, <1>2, Popped DEF TypesOK, QueuesTyped
  <1>4. toBedrock' = <<>>
    BY <1>3, EmptySeq
  <1>5. ServerFollows'
    <2>1. \A t : AtBridge(t)' <=> t = srvSlot
      BY <1>1, <1>2 DEF AtBridge
    <2>2. \A t : t = srvSlot => ServerComesTo(t)'
      BY <1>1, <1>2 DEF ServerComesTo
    <2> QED
      BY <2>1, <2>2 DEF ServerFollows
  <1>6. BridgeFollows'
    <2>1. \A t : t = srvSlot => WorkSelects(t)'
      BY <1>1, <1>2 DEF WorkSelects
    <2>2. \A t : t = srvSlot => BridgeComesTo(t)'
      BY <1>1, <1>2, <2>1 DEF BridgeComesTo
    <2>3. cliSlot' = srvSlot
      BY <1>1, <1>3
    <2> QED
      BY <2>2, <2>3 DEF BridgeFollows
  <1>7. NamedSelected' /\ HandsMatch'
    BY <1>1, <1>2 DEF NamedSelected, HandsMatch
  <1> QED
    BY <1>1, <1>2, <1>4, <1>5, <1>6, <1>7 DEF Body, ClientsSlots

LEMMA ForcesSlot ==
    ASSUME TypesOK, Forces, ~crossed', Body
    PROVE  Body'
  <1>1. PICK s \in Slots :
          /\ srvSlot' = s
          /\ fromJava' = Append(fromJava, s)
          /\ UNCHANGED <<work, fromBedrock, toBedrock, toJava, unannounced>>
          /\ ~unannounced /\ Quiescent
    BY DEF Forces, bridge, player
  <1>2. /\ work = <<>> /\ fromBedrock = <<>> /\ toBedrock = <<>>
        /\ fromJava = <<>> /\ toJava = <<>>
    BY <1>1 DEF Quiescent
  <1>3. Len(fromJava') = 1 /\ fromJava'[1] = s
    BY <1>1, <1>2
  <1>4. NamedSelected' /\ HandsMatch'
    BY <1>1, <1>2 DEF NamedSelected, HandsMatch
  <1> QED
    BY <1>1, <1>2, <1>3, <1>4 DEF Body, ServersSlot

LEMMA HearsSlot ==
    ASSUME TypesOK, TypesOK', Hears, Body
    PROVE  Body'
  <1>1. /\ toJava # <<>>
        /\ UNCHANGED <<work, selectedSlot, fromBedrock, toBedrock, fromJava, cliSlot, unannounced>>
    BY DEF Hears, bridge, player
  <1>2. ClientsSlots
    BY <1>1 DEF Body, ServersSlot
  <1>3. /\ \A s : ServerComesTo(s) => ServerComesTo(s)'
        /\ HandsMatch => HandsMatch'
    BY HearingSlot
  <1>4. \A s : WorkSelects(s)' <=> WorkSelects(s)
    BY <1>1 DEF WorkSelects, WritesHeld
  <1>5. \A s : \A i : Names(i, s)' <=> Names(i, s)
    BY <1>1 DEF Names
  <1>6. NamedSelected'
    BY <1>1, <1>4, <1>5 DEF NamedSelected, Body
  <1>7. ServerFollows'
    BY <1>1, <1>2, <1>3 DEF ServerFollows, ClientsSlots, AtBridge
  <1>8. BridgeFollows => BridgeFollows'
    BY <1>1, <1>4, WorkingComes DEF BridgeFollows
  <1> QED
    BY <1>1, <1>2, <1>3, <1>6, <1>7, <1>8 DEF Body, ClientsSlots

LEMMA RestsSlot ==
    ASSUME Rests, Body
    PROVE  Body'
  <1>1. UNCHANGED <<work, selectedSlot, toJava, srvSlot, fromBedrock, toBedrock, fromJava, cliSlot,
                    unannounced>>
    BY DEF Rests, actionVars, bridge, server, player
  <1>2. BridgeFollows => BridgeFollows'
    <2>1. \A s : WorkSelects(s)' <=> WorkSelects(s)
      BY <1>1, SlotsStay
    <2> QED
      BY <1>1, <2>1, WorkingComes DEF BridgeFollows
  <1> QED
    BY <1>1, <1>2, SlotsStay DEF Body, ServersSlot, ClientsSlots

LEMMA SlotStep ==
    ASSUME TypesOK, TypesOK', WorkInOrder, SlotInv, Acts
    PROVE  SlotInv'
  <1> SUFFICES ASSUME ~crossed' PROVE Body'
    BY DEF SlotInv, Body
  <1>1. Body
    BY CrossedStays DEF SlotInv, Body
  <1> QED
    BY <1>1, ReadsSlot, EnsuresSlot, StoresSlot, DoesSlot, PassesSlot, ChoosesSlot, TellsSlot,
       FollowsSlot, ForcesSlot, HearsSlot, RestsSlot DEF Acts

LEMMA OrderStep ==
    ASSUME TypesOK, TypesOK', WorkInOrder, Acts
    PROVE  WorkInOrder'
  <1>1. CASE Reads
    BY <1>1, ReadingSelects DEF Reads
  <1>2. CASE Ensures \/ Stores \/ Does
    BY <1>2, EnsureKeeps, OtherKeeps
  <1>3. CASE Passes \/ Chooses \/ Tells \/ Follows \/ Forces \/ Hears \/ Rests
    <2>1. work' = work
      BY <1>3 DEF Passes, Chooses, Tells, Follows, Forces, Hears, Rests, actionVars
    <2> QED
      BY <2>1 DEF WorkInOrder, WritesHeld
  <1> QED
    BY <1>1, <1>2, <1>3 DEF Acts

(***************************************************************************)
(* The theorems                                                            *)
(***************************************************************************)
LEMMA ActionsInitHolds == ActionsInit => ActionsInv
  <1> SUFFICES ASSUME ActionsInit PROVE ActionsInv
    OBVIOUS
  <1>1. /\ work = <<>> /\ fromBedrock = <<>> /\ toBedrock = <<>> /\ fromJava = <<>> /\ toJava = <<>>
        /\ selectedSlot = 0 /\ srvSlot = 0 /\ cliSlot = 0 /\ 0 \in Slots
        /\ moving = Still /\ srvMoving = Still /\ cliMoving = Still
        /\ Still \in [PlayerStates -> BOOLEAN]
        /\ DOMAIN <<>> = {}
    BY ActionsAssumption DEF ActionsInit, Still
  <1>2. TypesOK
    <2>1. QueuesTyped
      BY <1>1 DEF QueuesTyped
    <2>2. BridgeTyped
      <3>1. gliding \in BOOLEAN
        BY DEF ActionsInit
      <3>2. nextSequence \in Int
        BY DEF ActionsInit
      <3> QED
        BY <1>1, <3>1, <3>2 DEF BridgeTyped
    <2>3. PeersTyped
      BY <1>1 DEF ActionsInit, PeersTyped
    <2> QED
      BY <2>1, <2>2, <2>3 DEF TypesOK
  <1>3. WorkInOrder /\ NamedSelected /\ HandsMatch
    BY <1>1 DEF WorkInOrder, NamedSelected, HandsMatch
  <1>4. MovingInv
    BY <1>1 DEF MovingInv, StateReaches, EdgeReaches
  <1>5. ServerFollows
    BY <1>1 DEF ServerFollows, AtBridge, ServerComesTo
  <1>6. BridgeFollows
    BY <1>1 DEF BridgeFollows, BridgeComesTo, WorkSelects
  <1> QED
    BY <1>1, <1>2, <1>3, <1>4, <1>5, <1>6 DEF ActionsInv, SlotInv, ClientsSlots

LEMMA ActionsStep ==
    Offered \subseteq LegacyPackets /\ ActionsInv /\ [ActionsNext]_actionVars => ActionsInv'
  BY ActionStep, OrderStep, MovingStep, SlotStep DEF ActionsInv

\* The invariant gives the properties.
LEMMA InvHands == ActionsInv => HandMatches
  <1> SUFFICES ASSUME ActionsInv, ~crossed, Interacting
               PROVE  Head(toJava).slot = srvSlot
    BY DEF HandMatches
  <1>1. /\ toJava # <<>> /\ toJava \in Seq(JavaPackets)
        /\ Head(toJava).op \in Hands /\ Head(toJava).slot # Outside
        /\ HandsMatch
    BY DEF Interacting, ActionsInv, TypesOK, QueuesTyped, SlotInv
  <1>2. Head(toJava) = toJava[1] /\ 1 \in DOMAIN toJava /\ \A i \in DOMAIN toJava : i \in Nat /\ i > 0
    BY <1>1, Popped
  <1>3. \A j \in DOMAIN toJava : Held(j) => j > 1
    BY <1>1, <1>2 DEF Held, Hands
  <1> QED
    BY <1>1, <1>2, <1>3 DEF HandsMatch

LEMMA InvAtRest == ActionsInv => AtRestAgree
  <1> SUFFICES ASSUME ActionsInv, Quiescent
               PROVE  /\ ~crossed => selectedSlot = srvSlot /\ (~unannounced => cliSlot = srvSlot)
                      /\ srvMoving = cliMoving
    BY DEF AtRestAgree
  <1>1. /\ work = <<>> /\ fromBedrock = <<>> /\ toBedrock = <<>> /\ fromJava = <<>> /\ toJava = <<>>
        /\ DOMAIN <<>> = {} /\ Len(<<>>) = 0
    BY DEF Quiescent
  <1>2. ASSUME ~crossed
        PROVE  selectedSlot = srvSlot /\ (~unannounced => cliSlot = srvSlot)
    <2>1. ClientsSlots /\ selectedSlot \in Slots /\ cliSlot \in Slots
      BY <1>1, <1>2 DEF ActionsInv, SlotInv, ServersSlot, TypesOK, BridgeTyped, PeersTyped
    <2>2. ServerComesTo(selectedSlot)
      BY <1>1, <2>1 DEF ClientsSlots, ServerFollows, AtBridge
    <2>3. selectedSlot = srvSlot
      BY <1>1, <2>2 DEF ServerComesTo
    <2>4. ~unannounced => BridgeComesTo(cliSlot)
      BY <2>1 DEF ClientsSlots, BridgeFollows
    <2>5. ~unannounced => cliSlot = selectedSlot
      BY <1>1, <2>4 DEF BridgeComesTo, WorkSelects
    <2> QED
      BY <2>3, <2>5
  <1>3. srvMoving = cliMoving
    <2>1. srvMoving \in [PlayerStates -> BOOLEAN] /\ cliMoving \in [PlayerStates -> BOOLEAN]
      BY DEF ActionsInv, TypesOK, PeersTyped
    <2>2. ASSUME NEW n \in PlayerStates
          PROVE  srvMoving[n] = cliMoving[n]
      <3>1. StateReaches(n) /\ EdgeReaches(n)
        BY DEF ActionsInv, MovingInv
      <3>2. moving[n] = cliMoving[n]
        BY <1>1, <3>1 DEF StateReaches
      <3>3. srvMoving[n] = moving[n]
        BY <1>1, <3>1 DEF EdgeReaches
      <3> QED
        BY <3>2, <3>3
    <2> QED
      BY <2>1, <2>2
  <1> QED
    BY <1>2, <1>3

\* The server carries out every interaction of a client that uses inventory transactions with
\* the slot the client made it with, whatever the order in which its selections, its
\* interactions and the slots of the server arrive, as long as none of them cross.
THEOREM HandsCorrect ==
    ASSUME Offered \subseteq LegacyPackets
    PROVE  ActionsSpec => []HandMatches
  <1>1. ActionsInv /\ [ActionsNext]_actionVars => ActionsInv'
    BY ActionsStep
  <1> QED
    BY <1>1, ActionsInitHolds, InvHands, PTL DEF ActionsSpec

\* At rest the held slot and the movement states of such a client are the same at the client,
\* at the bridge and at the server.
THEOREM RestCorrect ==
    ASSUME Offered \subseteq LegacyPackets
    PROVE  ActionsSpec => []AtRestAgree
  <1>1. ActionsInv /\ [ActionsNext]_actionVars => ActionsInv'
    BY ActionsStep
  <1> QED
    BY <1>1, ActionsInitHolds, InvAtRest, PTL DEF ActionsSpec

=============================================================================

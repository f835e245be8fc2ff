------------------------------- MODULE Player -------------------------------
(***************************************************************************)
(* Where the player is: position, rotation, dimension and game mode        *)
(* (src/translate: the player cases of basic.go, input.go, dimensions.go,  *)
(* and the respawn of world_packets.go).                                   *)
(*                                                                         *)
(* The Java server decides where the player is and the client where it     *)
(* goes next; the bridge keeps Basic.position, which only packets of the   *)
(* Java server change, and Basic.gameData.  Four queues carry the packets  *)
(* of the two connections.  pumpJava and pumpBedrock each handle one       *)
(* packet at a time; neither handler reads here what the other writes, so  *)
(* that a handler is one action.                                           *)
(*                                                                         *)
(* One axis stands for the three: the vertical one, on which the client    *)
(* reports its eyes and the server the feet of the player.                 *)
(***************************************************************************)
EXTENDS Integers, Sequences, FiniteSets, SequencesExt

CONSTANTS
    Heights,         \* positions on the axis
    EyeOffset,       \* bedrockPlayerEyeOffset
    Yaws,            \* rotations
    Registry,        \* entries of dimension_type: [name, sections, min], names in order
    Dimensions,      \* names of the dimensions the server sends the player to
    Modes,           \* Java game modes the server sets, some of them unknown
    SentChunks,      \* chunk positions
    MaxPlayerPackets, MaxInputs, MaxQueue  \* bounds on a behaviour

NoTeleport == 0
Home == 0            \* minecraft:overworld
Vanilla == {0, 1, 2}
FirstCustom == 1000  \* firstCustomBedrockDimension
MaxDimensionSections == 32    \* maxChunkSections
Spectator == 6       \* packet.GameTypeSpectator

ASSUME PlayerAssumption ==
    /\ Heights \subseteq Int /\ EyeOffset \in Nat
    /\ IsFiniteSet(Registry)
    /\ Registry \subseteq [name : Nat, sections : Int, min : Int, kept : BOOLEAN]
    /\ \A e, f \in Registry : e.name = f.name => e = f
    /\ Dimensions \subseteq Nat
    /\ Modes \subseteq Int
    /\ MaxPlayerPackets \in Nat /\ MaxInputs \in Nat /\ MaxQueue \in Nat

VARIABLES
    javaPlayer,      \* the server: feet, yaw, dimension, mode, chunks sent, teleport awaited
    fromServer, toServer, toClient, fromClient,
    here,            \* Basic.position and Basic.gameData.Dimension
    bedrockPlayer,   \* the client: eyes, yaw, dimension, mode, chunks with their dimension
    playerSteps      \* packets of the server and inputs so far, for the bounds

queues == <<fromServer, toServer, toClient, fromClient>>
playerVars == <<javaPlayer, queues, here, bedrockPlayer, playerSteps>>

(***************************************************************************)
(* newJavaDimensionCatalog                                                 *)
(***************************************************************************)
\* Entries with a value whose height is a positive number of sections, of which a
\* chunk has at most 32; the vanilla names keep their own IDs and layouts.
Custom ==
    {e \in Registry : e.kept /\ e.sections \in 1..MaxDimensionSections /\ e.name \notin Vanilla}

\* javaDimensionID without a catalog: three names are known, the rest is the overworld.
FallbackID(name) == IF name \in Vanilla THEN name ELSE Home

\* Basic.javaDimensionID: custom dimensions are numbered in the order of their names.
DimensionID(name) ==
    IF \E e \in Custom : e.name = name
    THEN FirstCustom + Cardinality({e \in Custom : e.name < name})
    ELSE FallbackID(name)

\* The server sends the player to dimensions of its registry: two others would
\* both be the overworld.
ASSUME DimensionsAssumption == Dimensions \subseteq Vanilla \cup {e.name : e \in Custom}

\* The Bedrock game mode of a Java mode; of an unknown one there is none.
KnownMode(mode) == mode \in 0..3
GameType(mode) == IF mode = 3 THEN Spectator ELSE mode

(***************************************************************************)
(* Initial states                                                          *)
(***************************************************************************)
\* After Bootstrap: StartGame puts the player where Basic.position is.  A mode that
\* is not known is survival.  Nobody joins as a spectator here: StartGame would
\* carry the Java number of that mode, which is another one on Bedrock.
JoinMode(mode) == IF KnownMode(mode) THEN mode ELSE 0

PlayerInit ==
    \E h \in Heights, y \in Yaws, m \in Modes \ {3} :
        /\ javaPlayer = [feet |-> h, yaw |-> y, dimension |-> Home, mode |-> JoinMode(m),
                     chunks |-> {}, awaits |-> NoTeleport]
        /\ here = [position |-> h, yaw |-> y, dimension |-> DimensionID(Home)]
        /\ bedrockPlayer = [eyes |-> h, yaw |-> y, dimension |-> DimensionID(Home),
                     mode |-> JoinMode(m), chunks |-> {}, reported |-> FALSE]
        /\ fromServer = <<>> /\ toServer = <<>> /\ toClient = <<>> /\ fromClient = <<>>
        /\ playerSteps = [teleports |-> 0, packets |-> 0, inputs |-> 0]

(***************************************************************************)
(* The Java server (external)                                              *)
(***************************************************************************)
Says(p) ==
    /\ playerSteps.packets < MaxPlayerPackets
    /\ Len(fromServer) < MaxQueue
    /\ fromServer' = Append(fromServer, p)
    /\ playerSteps' = [playerSteps EXCEPT !.packets = @ + 1,
                                          !.teleports = IF p.type = "position" THEN @ + 1 ELSE @]
    /\ UNCHANGED <<toServer, toClient, fromClient, here, bedrockPlayer>>

\* A teleport takes effect at once; until it is confirmed the server ignores moves.
ServerTeleports(height, yaw, relative) ==
    LET id == playerSteps.teleports + 1
    IN  /\ Says([type |-> "position", id |-> id, relative |-> relative, yaw |-> yaw,
                 height |-> IF relative THEN height - javaPlayer.feet ELSE height])
        /\ javaPlayer' = [javaPlayer EXCEPT !.feet = height, !.yaw = yaw, !.awaits = id]
ServerTurns(yaw) ==
    /\ Says([type |-> "rotation", yaw |-> yaw])
    /\ javaPlayer' = [javaPlayer EXCEPT !.yaw = yaw]
ServerSetsMode(mode) ==
    /\ Says([type |-> "mode", mode |-> mode])
    /\ javaPlayer' = [javaPlayer EXCEPT !.mode = IF KnownMode(mode) THEN mode ELSE @]
\* In another dimension the chunks are others, and are sent again.
ServerRespawns(dimension, mode) ==
    /\ KnownMode(mode)
    /\ Says([type |-> "respawn", dimension |-> dimension, mode |-> mode])
    /\ javaPlayer' = [javaPlayer EXCEPT !.dimension = dimension, !.mode = mode,
                                   !.chunks = IF dimension = javaPlayer.dimension THEN @ ELSE {}]
ServerSendsChunk(chunk) ==
    /\ chunk \notin javaPlayer.chunks
    /\ Says([type |-> "chunk", chunk |-> chunk, of |-> javaPlayer.dimension])
    /\ javaPlayer' = [javaPlayer EXCEPT !.chunks = @ \cup {chunk}]
ServerUnloads(chunk) ==
    /\ chunk \in javaPlayer.chunks
    /\ Says([type |-> "unload", chunk |-> chunk])
    /\ javaPlayer' = [javaPlayer EXCEPT !.chunks = @ \ {chunk}]

ServerReceives ==
    /\ toServer # <<>>
    /\ toServer' = Tail(toServer)
    /\ LET p == Head(toServer)
       IN  javaPlayer' = IF p.type = "confirm"
                         THEN [javaPlayer EXCEPT !.awaits = IF p.id = @ THEN NoTeleport ELSE @]
                         ELSE IF javaPlayer.awaits # NoTeleport THEN javaPlayer
                         ELSE [javaPlayer EXCEPT !.feet = p.feet, !.yaw = p.yaw]
    /\ UNCHANGED <<fromServer, toClient, fromClient, here, bedrockPlayer, playerSteps>>

(***************************************************************************)
(* pumpJava                                                                *)
(***************************************************************************)
Handled(p, writesToServer, writesToClient) ==
    /\ fromServer # <<>> /\ Head(fromServer) = p
    /\ fromServer' = Tail(fromServer)
    /\ toServer' = toServer \o writesToServer
    /\ toClient' = toClient \o writesToClient
    /\ UNCHANGED <<javaPlayer, fromClient, bedrockPlayer, playerSteps>>

Move(position, yaw, why) == [type |-> "move", position |-> position, yaw |-> yaw, why |-> why]

\* applyPosition: a relative position is added to the one the bridge has.
Applied(p) == IF p.relative THEN here.position + p.height ELSE p.height

\* Mutant: a relative teleport is not confirmed.
HandlePositionUnconfirmed(p) ==
    /\ p.type = "position"
    /\ here' = [here EXCEPT !.position = Applied(p), !.yaw = p.yaw]
    /\ Handled(p, IF p.relative THEN <<>> ELSE <<[type |-> "confirm", id |-> p.id]>>,
               <<Move(Applied(p), p.yaw, "teleport")>>)

\* The position case: apply, confirm, and move the client.
HandlePosition(p) ==
    /\ p.type = "position"
    /\ here' = [here EXCEPT !.position = Applied(p), !.yaw = p.yaw]
    /\ Handled(p, <<[type |-> "confirm", id |-> p.id]>>,
               <<Move(Applied(p), p.yaw, "teleport")>>)

\* The rotation case: MovePlayer with the new rotation and the position of the bridge.
HandleRotation(p) ==
    /\ p.type = "rotation"
    /\ here' = [here EXCEPT !.yaw = p.yaw]
    /\ Handled(p, <<>>, <<Move(here.position, p.yaw, "turn")>>)

SetMode(mode) == [type |-> "mode", mode |-> GameType(mode)]

\* translateJavaGameStateChange, its game mode: an unknown one is skipped.
HandleMode(p) ==
    /\ p.type = "mode"
    /\ Handled(p, <<>>, IF KnownMode(p.mode) THEN <<SetMode(p.mode)>> ELSE <<>>)
    /\ UNCHANGED here

\* translateJavaRespawn: nothing at all for an unknown mode; ChangeDimension only
\* between dimensions with different IDs.
HandleRespawn(p) ==
    /\ p.type = "respawn"
    /\ LET dimension == DimensionID(p.dimension)
           change == <<[type |-> "dimension", dimension |-> dimension, position |-> here.position]>>
       IN  IF ~KnownMode(p.mode)
           THEN Handled(p, <<>>, <<>>) /\ UNCHANGED here
           ELSE /\ here' = [here EXCEPT !.dimension = dimension]
                /\ Handled(p, <<>>,
                           (IF dimension # here.dimension THEN change ELSE <<>>)
                           \o <<[type |-> "respawn", position |-> here.position], SetMode(p.mode)>>)

\* The chunk and the unload case: a chunk for the dimension the bridge is in, or an
\* empty one in its place.
HandleChunk(p) ==
    /\ p.type = "chunk"
    /\ Handled(p, <<>>, <<[type |-> "chunk", chunk |-> p.chunk, dimension |-> here.dimension,
                           content |-> {p.of}]>>)
    /\ UNCHANGED here
HandleUnload(p) ==
    /\ p.type = "unload"
    /\ Handled(p, <<>>, <<[type |-> "chunk", chunk |-> p.chunk, dimension |-> here.dimension,
                           content |-> {}]>>)
    /\ UNCHANGED here

(***************************************************************************)
(* pumpBedrock                                                             *)
(***************************************************************************)
\* encodeBedrockPositionLook
EncodeInput(p) == [type |-> "move", feet |-> p.eyes - EyeOffset, yaw |-> p.yaw]

\* PlayerAuthInput and MovePlayer.
HandleInput ==
    /\ fromClient # <<>>
    /\ fromClient' = Tail(fromClient)
    /\ toServer' = Append(toServer, EncodeInput(Head(fromClient)))
    /\ UNCHANGED <<javaPlayer, fromServer, toClient, here, bedrockPlayer, playerSteps>>

(***************************************************************************)
(* The client (external)                                                   *)
(***************************************************************************)
\* It tells where it is with every input, having moved or not.
ClientMoves(height, yaw) ==
    /\ playerSteps.inputs < MaxInputs
    /\ Len(fromClient) < MaxQueue
    /\ playerSteps' = [playerSteps EXCEPT !.inputs = @ + 1]
    /\ bedrockPlayer' = [bedrockPlayer EXCEPT !.eyes = height, !.yaw = yaw, !.reported = TRUE]
    /\ fromClient' = Append(fromClient, [eyes |-> height, yaw |-> yaw])
    /\ UNCHANGED <<javaPlayer, fromServer, toServer, toClient, here>>

\* Another dimension is empty; a chunk of one it is not in is ignored.
Shown(c, p) ==
    CASE p.type = "move" ->
            [c EXCEPT !.eyes = p.position, !.yaw = p.yaw, !.reported = FALSE]
      [] p.type = "dimension" ->
            [c EXCEPT !.dimension = p.dimension, !.chunks = {}, !.eyes = p.position, !.reported = FALSE]
      [] p.type = "respawn" -> [c EXCEPT !.eyes = p.position, !.reported = FALSE]
      [] p.type = "mode" -> [c EXCEPT !.mode = p.mode]
      [] p.type = "chunk" /\ p.dimension = c.dimension ->
            [c EXCEPT !.chunks = {e \in @ : e[1] # p.chunk} \cup ({p.chunk} \X p.content)]
      [] OTHER -> c

ClientReceives ==
    /\ toClient # <<>>
    /\ toClient' = Tail(toClient)
    /\ bedrockPlayer' = Shown(bedrockPlayer, Head(toClient))
    /\ UNCHANGED <<javaPlayer, fromServer, toServer, fromClient, here, playerSteps>>

ServerActs ==
    \/ \E h \in Heights, y \in Yaws, r \in BOOLEAN : ServerTeleports(h, y, r)
    \/ \E y \in Yaws : ServerTurns(y)
    \/ \E m \in Modes : ServerSetsMode(m) \/ \E d \in Dimensions : ServerRespawns(d, m)
    \/ \E c \in SentChunks : ServerSendsChunk(c) \/ ServerUnloads(c)

HandleJava ==
    /\ fromServer # <<>>
    /\ LET p == Head(fromServer)
       IN  \/ HandlePosition(p) \/ HandleRotation(p) \/ HandleMode(p)
           \/ HandleRespawn(p) \/ HandleChunk(p) \/ HandleUnload(p)

PlayerNext ==
    \/ ServerActs
    \/ ServerReceives
    \/ HandleJava
    \/ HandleInput
    \/ \E h \in Heights, y \in Yaws : ClientMoves(h, y)
    \/ ClientReceives

PlayerSpec == PlayerInit /\ [][PlayerNext]_playerVars

(***************************************************************************)
(* Properties                                                              *)
(***************************************************************************)
PlayerAtRest == fromServer = <<>> /\ toServer = <<>> /\ toClient = <<>> /\ fromClient = <<>>

\* Every teleport is confirmed in the end, or the server would ignore the player for
\* good; and when the client has told where it is and all has been heard, the server
\* has the player's feet below the eyes of the client, whatever teleports, turns and
\* moves crossed on the way.
PositionsMeet ==
    PlayerAtRest =>
        /\ javaPlayer.awaits = NoTeleport
        /\ bedrockPlayer.reported => /\ javaPlayer.feet = bedrockPlayer.eyes - EyeOffset
                                     /\ javaPlayer.yaw = bedrockPlayer.yaw

\* At rest the client is in the server's dimension and game mode and has exactly the
\* chunks the server has it have there: none of the dimension it left, none it was
\* sent too early or too late, custom dimensions included.
WorldAgrees ==
    PlayerAtRest =>
        /\ bedrockPlayer.dimension = DimensionID(javaPlayer.dimension)
        /\ bedrockPlayer.chunks = javaPlayer.chunks \X {javaPlayer.dimension}
        /\ bedrockPlayer.mode = GameType(javaPlayer.mode)
=============================================================================

---------------------------- MODULE PacketReader ----------------------------
(***************************************************************************)
(* The Java pump reads one packet.  The server writes it field by field,   *)
(* any value that may be there; the bridge reads each field by the format  *)
(* of its decoder, and what it does at the marks decides whether the       *)
(* packet is applied, dropped by its handler, or ends the session.  The    *)
(* connection may also deliver less or more than the format, or bytes that *)
(* are not a value.                                                        *)
(***************************************************************************)
EXTENDS PacketHandlers

(***************************************************************************)
(* The packets: their decoder, the errors on which the handler drops them, *)
(* and what it does with what was read, if no other module does.           *)
(***************************************************************************)
LoginPackets ==
    [SetCompression |-> DecodeSetCompression, LongPayload |-> DecodeLongPayload,
     RegistryData |-> DecodeRegistryData, FeatureFlags |-> DecodeFeatureFlags, Tags |-> DecodeTags,
     JoinGame |-> DecodeJoinGame \o GameData]

\* Those of translateJavaPacket, in its order.
TerrainPackets ==
    [BlockChange |-> DecodeBlockChange \o translateBlockChange,
     MultiBlockChange |-> DecodeMultiBlockChange \o translateBlockChange,
     Animation |-> DecodeAnimation \o translateAnimation,
     BlockEntityUpdate |-> DecodeBlockEntityUpdate \o translateBlockEntity,
     MapChunk |-> DecodeMapChunk,
     Difficulty |-> DecodeJavaDifficulty \o translateJavaDifficulty,
     BlockDestruction |-> DecodeJavaBlockDestruction \o translateJavaBlockDestruction,
     BlockEvent |-> DecodeJavaBlockEvent \o translateJavaBlockEvent]
WorldPackets ==
    [BossBar |-> DecodeJavaBossBar \o translateJavaBossBar, ResetScore |-> DecodeJavaResetScore,
     DisplayObjective |-> DecodeJavaScoreboardDisplayObjective,
     Objective |-> DecodeJavaScoreboardObjective, Team |-> DecodeJavaScoreboardTeam,
     Score |-> DecodeJavaScoreboardScore, SetPassengers |-> DecodeJavaSetPassengers,
     SoundEffect |-> DecodeJavaSoundEffect \o translateJavaSoundEffect,
     EntitySoundEffect |-> DecodeJavaEntitySoundEffect \o translateJavaEntitySoundEffect,
     EntityEvent |-> DecodeJavaEntityEvent \o translateJavaEntityEvent,
     TakeItem |-> DecodeJavaTakeItem \o translateJavaTakeItem,
     Cooldown |-> DecodeJavaCooldown \o translateJavaCooldown,
     StopSound |-> DecodeJavaStopSound \o translateJavaStopSound,
     ClearTitles |-> DecodeJavaClearTitles \o translateText,
     GameStateChange |-> DecodeJavaGameStateChange \o translateJavaGameStateChange,
     WorldEvent |-> DecodeJavaWorldEvent \o translateJavaWorldEvent,
     Explode |-> DecodeJavaExplode \o translateJavaExplode,
     LevelParticles |->
         DecodeJavaLevelParticles \o Skip({"particle", "item"}) \o translateJavaLevelParticles]
PlayerPackets ==
    [PositionUpdate |-> DecodePositionUpdate \o translatePosition,
     PlayerRotation |-> DecodePlayerRotation \o translateRotation,
     HealthUpdate |-> DecodeHealthUpdate \o translateHealth,
     Experience |-> DecodeExperience \o translateExperience,
     Abilities |-> DecodePlayerAbilities \o translatePlayerAbilities,
     TimeUpdate |-> DecodeTimeUpdate \o translateTime, UnloadChunk |-> DecodeUnloadChunk,
     OpenWindow |-> DecodeJavaOpenWindow, CloseWindow |-> DecodeJavaContainerClose,
     WindowItems |-> DecodeJavaWindowItems \o Skip({"item"}),
     SetSlot |-> DecodeJavaSetSlot \o Skip({"item"}),
     CursorItem |-> DecodeJavaCursorItem \o Skip({"item"}),
     DeclareRecipes |-> DecodeJavaDeclareRecipes, RecipeBookAdd |-> DecodeJavaRecipeBookAdd,
     RecipeBookRemove |-> DecodeJavaRecipeBookRemove, Commands |-> DecodeJavaCommands,
     ResourcePackPush |-> DecodeJavaResourcePackPush, ResourcePackPop |-> DecodeJavaResourcePackPop,
     SetPlayerInventory |-> DecodeSetPlayerInventory \o Skip({"item"})]
EntityPackets ==
    [Respawn |-> DecodeJavaRespawn \o translateJavaRespawn,
     SpawnPosition |-> DecodeJavaSpawnPosition \o translateJavaSpawnPosition,
     TitleText |-> DecodeJavaTitleText \o translateText,
     TitleTimes |-> DecodeJavaTitleTimes \o translateJavaTitleTimes,
     PlayerInfo |-> DecodePlayerInfoUpdate, PlayerRemove |-> DecodePlayerInfoRemove,
     HeldItemSlot |-> DecodeHeldItemSlot,
     EntityVelocity |-> DecodeEntityVelocity \o translateEntityMove,
     EntityEquipment |-> DecodeEntityEquipment \o Skip({"item"}),
     EntityAttributes |-> DecodeEntityAttributes \o translateEntityAttributes,
     EntityEffect |-> DecodeEntityEffect \o translateEntityEffect,
     RemoveEntityEffect |-> DecodeRemoveEntityEffect \o translateRemoveEntityEffect,
     EntityMetadata |-> DecodeEntityMetadata \o Skip({"metadata", "item"}),
     SystemChat |-> DecodeSystemChat \o translateText, PlayerChat |-> DecodePlayerChat \o translateText,
     ProfilelessChat |-> DecodeProfilelessChat \o translateText,
     SpawnEntity |-> DecodeSpawnEntity \o translateSpawnEntity,
     SpawnExperienceOrb |-> DecodeSpawnExperienceOrb \o translateSpawnExperienceOrb,
     EntityTeleport |-> DecodeEntityTeleport \o translateEntityTeleport,
     RelativeMove |-> DecodeEntityRelativeMove(FALSE) \o translateEntityMove,
     MoveLook |-> DecodeEntityRelativeMove(TRUE) \o translateEntityMove,
     EntityLook |-> DecodeEntityLook \o translateEntityMove,
     VehicleMove |-> DecodeJavaVehicleMove \o translateJavaVehicleMove,
     HeadRotation |-> DecodeEntityHeadRotation \o translateEntityMove,
     EntityDestroy |-> DecodeEntityDestroy]
PacketFormat == LoginPackets @@ TerrainPackets @@ WorldPackets @@ PlayerPackets @@ EntityPackets

Named(name, depth) ==
    CASE name = "item" -> decodeJavaItemSlot(depth)
      [] name = "component" -> decodeJavaItemComponents(depth)
      [] name = "metadata" -> decodeJavaEntityMetadataValue
      [] name = "slot display" -> decodeJavaSlotDisplay(depth)
      [] name = "recipe display" -> decodeJavaRecipeDisplay

VARIABLES
    packet,    \* the packet that is read
    reading    \* how far it is read, see Start

packetVars == <<packet, reading>>

(***************************************************************************)
(* The reader                                                              *)
(*   rest      what is left of the format                                  *)
(*   verdict   "reading", "applied", "skipped", "ended" (the session), or  *)
(*             "garbled": bytes of one field are about to be taken for     *)
(*             those of another                                            *)
(*   outside   the enumerations and ranges a value was outside of, and     *)
(*             "huge" for a number too large for a float32                 *)
(*   sent      those of what was written to the client                     *)
(*   damaged   something was written that is no packet of this kind        *)
(*   lost      an error was handled with fields left that it leads past    *)
(***************************************************************************)
Start(name) ==
    [rest |-> PacketFormat[name], verdict |-> "reading", outside |-> {}, sent |-> {},
     damaged |-> FALSE, lost |-> FALSE]

Finish(r, verdict) == [r EXCEPT !.rest = <<>>, !.verdict = verdict]
Past(r, i) == SubSeq(r.rest, i + 1, Len(r.rest))
Marked(r, i, kinds) == r.rest[i].k \in kinds

\* An error goes to the first place that handles it, past all that is in between.
Raise(r, error) ==
    LET handled == {i \in DOMAIN r.rest : Marked(r, i, {"catch", "skip"}) /\ error \in r.rest[i].of}
        i == Min(handled)
    IN  CASE handled = {} -> Finish(r, "ended")
          [] handled # {} /\ Marked(r, i, {"skip"}) -> Finish(r, "skipped")
          [] handled # {} /\ Marked(r, i, {"catch"}) ->
                 [r EXCEPT !.rest = Past(r, i),
                           !.lost = @ \/ \E j \in 1..i : ~Marked(r, j, Marks)]

\* The innermost item that is read becomes one Bedrock cannot be given.
Spoil(rest) ==
    LET i == Min({j \in DOMAIN rest : rest[j].k = "item"}) IN [rest EXCEPT ![i].bad = TRUE]

\* The marks up to the next field.  more: bytes are left at the end.
RECURSIVE Settle(_, _)
Settle(r, more) ==
    IF r.verdict # "reading" THEN r
    ELSE IF r.rest = <<>> THEN Finish([r EXCEPT !.damaged = @ \/ more], "applied")
    ELSE LET head == Head(r.rest)
             On == [r EXCEPT !.rest = Tail(@)]
         IN  CASE head.k \notin Marks -> IF r.lost THEN Finish(r, "garbled") ELSE r
               [] head.k = "refuse" -> Finish(r, "ended")
               [] head.k = "too many" -> Finish([r EXCEPT !.damaged = TRUE], "ended")
               [] head.k = "unsupported" -> Settle(Raise(On, head.of), more)
               [] head.k \in {"catch", "skip", "removed"} -> Settle(On, more)
               [] head.k = "drop" ->
                     IF r.outside \cap head.of # {} THEN Finish(r, "skipped") ELSE Settle(On, more)
               [] head.k = "replace" -> Settle([On EXCEPT !.outside = @ \ head.of], more)
               [] head.k = "send" -> Settle([On EXCEPT !.sent = @ \cup (r.outside \ head.of)], more)
               [] head.k = "component" -> Settle([On EXCEPT !.rest = Spoil(@)], more)
               [] head.k = "foreign" ->
                     LET end == Min({i \in DOMAIN r.rest : Marked(r, i, {"removed"})})
                     IN  Settle([r EXCEPT !.rest = Spoil(Past(r, end)), !.lost = TRUE], more)
               [] head.k = "item" -> Settle(IF head.bad THEN Raise(On, "item") ELSE On, more)
               [] head.k = "end" ->
                     IF r.lost THEN Finish(r, "garbled")
                     ELSE IF more THEN Finish([r EXCEPT !.damaged = TRUE], "ended")
                     ELSE Settle(On, more)

\* The format with what its first name stands for.
Opened(rest) ==
    IF Head(rest).k = "ref" THEN Named(Head(rest).of, Head(rest).depth) \o Tail(rest) ELSE rest

PacketInit ==
    /\ packet \in DOMAIN PacketFormat
    /\ reading = Start(packet)

\* The next field is written and read.
ReadField ==
    /\ reading.verdict = "reading"
    /\ LET rest == Opened(reading.rest)
           field == Head(rest)
       IN  \E v \in DOMAIN field.arms, more \in BOOLEAN :
              LET strange == CASE field.k \in Enumerations /\ v = Outside -> {field.k}
                               [] field.k = "double" /\ v = Huge -> {"huge"}
                               [] OTHER -> {}
              IN  reading' = Settle([reading EXCEPT
                                       !.rest = field.arms[v] \o Tail(rest),
                                       !.outside = @ \cup strange,
                                       !.damaged = @ \/ Invalid(field.k, v)], more)
    /\ UNCHANGED packet

\* The payload ends within or before the next field.
ReadBeyond ==
    /\ reading.verdict = "reading"
    /\ reading' = Finish([reading EXCEPT !.damaged = TRUE], "ended")
    /\ UNCHANGED packet

PacketNext == ReadField \/ ReadBeyond
PacketSpec == PacketInit /\ [][PacketNext]_packetVars

(***************************************************************************)
(* Properties                                                              *)
(***************************************************************************)
\* Enumerations whose decoders end the session on a value outside of them.
Closed == {"animation", "consume effect", "shape", "held slot", "inventory slot",
           "slot display", "recipe display", "block entity"}

(***************************************************************************)
(* PLAN.md, "Non-negotiable contracts", 1 and 2.  Damage never goes        *)
(* unnoticed: a packet that is applied is whole, with every count within   *)
(* its limit.  And only damage ends the session, for the values outside    *)
(* the enumerations the code does not take to be closed: every error about *)
(* what Bedrock has no form for is handled wherever it can occur, and then *)
(* the packet is dropped or read on at the right place, unless what could  *)
(* not be read was not read.  What is written to the client has no value   *)
(* Bedrock has no form for, but for the health and the position of the     *)
(* player: no handler looks whether the one is a number and the other one  *)
(* as a float32.                                                           *)
(***************************************************************************)
PacketsAgree ==
    /\ reading.verdict = "applied" => ~reading.damaged
    /\ reading.verdict = "ended" => reading.damaged \/ reading.outside \cap Closed # {}
    /\ reading.verdict = "skipped" => ~reading.damaged
    /\ reading.sent \subseteq (CASE packet = "HealthUpdate" -> {"health"}
                                 [] packet = "PositionUpdate" -> {"huge"}
                                 [] OTHER -> {})

\* The reader never takes the bytes of one field for those of another.  That is what
\* explode.go:27 says of a particle nobody knows, and it is so of those without data;
\* the data of others, and the payload of a component nobody knows, stay unread while
\* the code goes on.
NeverGarbled == reading.verdict # "garbled"
=============================================================================

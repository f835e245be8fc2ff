--------------------------- MODULE PacketFormats ---------------------------
(***************************************************************************)
(* The formats of the packets the bridge reads of the Java server.         *)
(***************************************************************************)
EXTENDS ItemFormats

\* Doubles that become float32 as they are read, and those kept.
Position == Fields(<<"number", "number", "number">>)
Doubles == Fields(<<"double", "double", "double">>)
Angles == Fields(<<"int8", "int8">>)

(***************************************************************************)
(* Login, configuration                                                    *)
(***************************************************************************)
DecodeSetCompression == Fields(<<"varint">>) \o End
DecodeLongPayload == Fields(<<"int64">>) \o End
DecodeRegistryData ==
    Fields(<<"string">>) \o Counted(Fields(<<"string">>) \o decodeJavaOptional(Fields(<<"nbt">>))) \o End
DecodeFeatureFlags == Counted(Fields(<<"string">>)) \o End
DecodeTags ==
    Counted(Fields(<<"string">>) \o Counted(Fields(<<"string">>) \o Counted(Fields(<<"varint">>)))) \o End

(***************************************************************************)
(* The player and the world                                                *)
(***************************************************************************)
DeathLocation == decodeJavaOptional(Fields(<<"string", "int64">>))
SpawnInfo == Fields(<<"varint", "string", "int64", "mode", "uint8", "bool", "bool">>)
             \o DeathLocation \o Fields(<<"varint", "varint">>)
DecodeJoinGame ==
    Fields(<<"int32", "bool">>) \o Counted(Fields(<<"string">>))
    \o Fields(<<"varint", "varint", "varint", "bool", "bool", "bool">>) \o SpawnInfo
    \o Fields(<<"bool">>) \o End
DecodeJavaRespawn == SpawnInfo \o Fields(<<"byte">>) \o End

DecodePlayerRotation == Fields(<<"number", "number">>) \o End
DecodePositionUpdate ==
    Fields(<<"varint">>) \o Doubles \o Doubles \o Fields(<<"number", "number", "int32">>) \o End
DecodeHealthUpdate == Fields(<<"health", "varint", "float32">>) \o End
DecodeExperience == Fields(<<"progress", "level", "varint">>) \o End
DecodePlayerAbilities == Fields(<<"int8", "speed", "speed">>) \o End
DecodeHeldItemSlot == Enumeration("held slot", ReadVarInt, Refused) \o End
DecodeJavaCooldown == Fields(<<"group", "ticks">>) \o End
DecodeJavaSpawnPosition == Fields(<<"int64", "number">>) \o End
DecodeTimeUpdate == Fields(<<"int64", "time", "bool">>) \o End
DecodeJavaDifficulty == Fields(<<"difficulty", "bool">>) \o End
DecodeJavaGameStateChange ==
    Enumeration("reason", 0 :> Fields(<<"number">>) @@ 3 :> Fields(<<"number", "mode">>), Fields(<<"number">>))
    \o End
DecodeJavaClearTitles == Fields(<<"bool">>) \o End
DecodeJavaTitleText == Fields(<<"nbt">>) \o End
DecodeJavaTitleTimes == Fields(<<"duration", "duration", "duration">>) \o End
DecodeJavaWorldEvent == Fields(<<"event", "int64", "data", "bool">>) \o End
DecodeJavaBlockDestruction == Fields(<<"varint", "int64", "stage">>) \o End
DecodeJavaOpenWindow == Fields(<<"varint", "varint", "nbt">>) \o End
DecodeJavaContainerClose == Fields(<<"varint">>) \o End

(***************************************************************************)
(* Entities                                                                *)
(***************************************************************************)
DecodeSpawnEntity ==
    LET Rest(object) ==
            Position \o Fields(<<"int8", "int8", "int8", object, "int16", "int16", "int16">>) \o End
    IN  Fields(<<"varint", "uuid">>)
        \o Enumeration("entity type",
               0 :> Rest("object") @@ 1 :> Rest("block state") @@ Malformed :> Refused, Rest("varint"))
DecodeSpawnExperienceOrb == Fields(<<"varint">>) \o Position \o Fields(<<"amount">>) \o End
DecodeEntityTeleport == Fields(<<"entity">>) \o Position \o Angles \o Fields(<<"bool">>) \o End
DecodeEntityRelativeMove(hasRotation) ==
    Fields(<<"entity", "int16", "int16", "int16">>) \o (IF hasRotation THEN Angles ELSE <<>>)
    \o Fields(<<"bool">>) \o End
DecodeEntityLook == Fields(<<"entity">>) \o Angles \o Fields(<<"bool">>) \o End
DecodeEntityHeadRotation == Fields(<<"entity", "int8">>) \o End
DecodeEntityVelocity == Fields(<<"entity", "int16", "int16", "int16">>) \o End
DecodeEntityDestroy == Counted(Fields(<<"varint">>)) \o End
DecodeJavaVehicleMove == Position \o Fields(<<"number", "number">>) \o End
DecodeJavaSetPassengers == Fields(<<"varint">>) \o Counted(Fields(<<"varint">>)) \o End
DecodeEntityEffect == Fields(<<"entity", "effect", "varint", "varint", "byte">>) \o End
DecodeRemoveEntityEffect == Fields(<<"entity", "effect">>) \o End
DecodeEntityAttributes ==
    Fields(<<"entity">>)
    \o Counted(Fields(<<"attribute", "value">>) \o Counted(Fields(<<"string", "modifier", "modifier">>))) \o End
DecodeJavaEntityEvent == Fields(<<"actor", "event">>) \o End
DecodeJavaTakeItem == Fields(<<"entity", "entity", "varint">>) \o End
DecodeAnimation == Fields(<<"entity", "action">>) \o End

(***************************************************************************)
(* Chunks and blocks                                                       *)
(***************************************************************************)
DecodeUnloadChunk == Fields(<<"int32", "int32">>) \o End
DecodeBlockChange == Fields(<<"int64", "block state">>) \o End
DecodeMultiBlockChange == Fields(<<"int64">>) \o Counted(Fields(<<"block state">>)) \o End
DecodeJavaBlockEvent == Fields(<<"int64", "byte", "byte", "block">>) \o End

\* A compound or none: for the other roots an error nobody handles.
decodeOptionalNBT == Enumeration("block entity", DecodeAnonymousNBT, Refused)
DecodeBlockEntityUpdate == Fields(<<"int64", "block entity type">>) \o decodeOptionalNBT \o End

skipLongArray == Counted(Fields(<<"int64">>))
skipByteArrays == Counted(ByteArray)
\* The sections are read by Chunks; here they are as many bytes as their length says.
DecodeMapChunk ==
    Fields(<<"int32", "int32", "nbt">>) \o ByteArray
    \o Counted(Fields(<<"byte", "int16", "varint">>) \o decodeOptionalNBT)
    \o Times(4, skipLongArray) \o Times(2, skipByteArrays) \o End

(***************************************************************************)
(* Sounds, explosions                                                      *)
(***************************************************************************)
decodeJavaSoundHolder ==
    Choice("sound", 0 :> Fields(<<"string">>) \o decodeJavaOptional(Fields(<<"float32">>))
                    @@ 1 :> <<>> @@ Malformed :> Refused @@ Outside :> <<>>)
DecodeJavaSoundEffect ==
    decodeJavaSoundHolder
    \o Fields(<<"sound category", "int32", "int32", "int32", "number", "number", "int64">>) \o End
DecodeJavaEntitySoundEffect ==
    decodeJavaSoundHolder \o Fields(<<"sound category", "entity", "number", "number", "int64">>) \o End
DecodeJavaStopSound ==
    LET Category == Fields(<<"sound category">>)
        Sound == Fields(<<"string">>)
    IN  Choice("byte", 0 :> <<>> @@ 1 :> Category @@ 2 :> Sound @@ 3 :> Category \o Sound) \o End

\* The particle is left out when Bedrock has none for it, and the sound read after it.
DecodeJavaExplode ==
    Position \o decodeJavaOptional(Fields(<<"knockback", "knockback", "knockback">>))
    \o decodeJavaParticle \o Catch({"particle", "item"}) \o decodeJavaSoundHolder \o End

(***************************************************************************)
(* Text, resource packs, boss bars                                         *)
(***************************************************************************)
readOptionalNBT == decodeJavaOptional(Fields(<<"nbt">>))
readChatTypeHolder == Holder(Fields(<<"string">>) \o Counted(Fields(<<"varint">>)) \o Fields(<<"nbt">>))
DecodeSystemChat == Fields(<<"nbt", "bool">>) \o End
DecodePlayerChat ==
    Fields(<<"uuid", "varint">>) \o decodeJavaOptional(Fields(<<"bytes">>))
    \o Fields(<<"string", "int64", "int64">>)
    \o Counted(Holder(Fields(<<"bytes">>))) \o readOptionalNBT
    \o Choice("varint", ReadVarInt @@ 2 :> Counted(Fields(<<"int64">>)))
    \o readChatTypeHolder \o Fields(<<"nbt">>) \o readOptionalNBT \o End
DecodeProfilelessChat ==
    Fields(<<"nbt">>) \o readChatTypeHolder \o Fields(<<"nbt">>) \o readOptionalNBT \o End

DecodeJavaResourcePackPush ==
    Fields(<<"uuid", "string", "string", "bool">>) \o readOptionalNBT \o End
DecodeJavaResourcePackPop == decodeJavaOptional(Fields(<<"uuid">>)) \o End

DecodeJavaBossBar ==
    Fields(<<"uuid">>)
    \o Enumeration("bar action",
           0 :> Fields(<<"nbt", "progress", "style", "style", "byte">>) @@ 1 :> <<>>
           @@ 2 :> Fields(<<"progress">>) @@ 3 :> Fields(<<"nbt">>)
           @@ 4 :> Fields(<<"style", "style">>) @@ 5 :> Fields(<<"byte">>), <<>>)
    \o End

(***************************************************************************)
(* Scoreboard, players, commands                                           *)
(***************************************************************************)
decodeJavaNumberFormat ==
    decodeJavaOptional(Choice("varint", ReadVarInt @@ 1 :> Fields(<<"nbt">>)))
DecodeJavaScoreboardObjective ==
    LET Shown == Fields(<<"nbt", "varint">>) \o decodeJavaNumberFormat
    IN  Fields(<<"string">>)
        \o Enumeration("objective action", 0 :> Shown @@ 1 :> <<>> @@ 2 :> Shown, <<>>) \o End
DecodeJavaScoreboardDisplayObjective == Fields(<<"varint", "string">>) \o End
DecodeJavaScoreboardScore ==
    Fields(<<"string", "string", "varint">>) \o readOptionalNBT \o decodeJavaNumberFormat \o End
DecodeJavaResetScore == Fields(<<"string">>) \o decodeJavaOptional(Fields(<<"string">>)) \o End
DecodeJavaScoreboardTeam ==
    LET Look == Fields(<<"nbt", "int8", "string", "string", "varint", "nbt", "nbt">>)
        Players == Counted(Fields(<<"string">>))
    IN  Fields(<<"string">>)
        \o Enumeration("team mode", 0 :> Look \o Players @@ 1 :> <<>> @@ 2 :> Look
                       @@ 3 :> Players @@ 4 :> Players, <<>>) \o End

skipOptionalChatSession == decodeJavaOptional(Fields(<<"uuid", "int64">>) \o Times(2, ByteArray))
\* The parts of an entry, in the order they are read; the eighth flag is that of the hat.
PlayerInfoParts ==
    <<Fields(<<"string">>)
      \o Counted(Fields(<<"string", "string">>) \o decodeJavaOptional(Fields(<<"string">>))),
      skipOptionalChatSession, Fields(<<"varint">>), Fields(<<"bool">>), Fields(<<"varint">>),
      readOptionalNBT, Fields(<<"varint">>), Fields(<<"bool">>)>>
DecodePlayerInfoUpdate ==
    LET Entry(actions) == Fields(<<"uuid">>)
                          \o FlattenSeq([i \in DOMAIN PlayerInfoParts |->
                                            IF i \in actions THEN PlayerInfoParts[i] ELSE <<>>])
    IN  Choice("actions", [actions \in {{}, 1..8} \cup {{i} : i \in 1..8} |-> Counted(Entry(actions))])
        \o End
DecodePlayerInfoRemove == Counted(Fields(<<"uuid">>)) \o End

skipJavaCommandNumberProperties(kind) ==
    Choice("byte", [flags \in 0..3 |-> Times((flags % 2) + (flags \div 2), Fields(<<kind>>))])
skipJavaCommandProperties ==
    Choice("parser",
        "float" :> skipJavaCommandNumberProperties("int32")
        @@ "double" :> skipJavaCommandNumberProperties("int64")
        @@ "string" :> Fields(<<"varint">>) @@ "entity" :> Fields(<<"byte">>)
        @@ "time" :> Fields(<<"int32">>) @@ "resource" :> Fields(<<"string">>)
        @@ "other" :> <<>>)
CommandNode(redirects, kind, suggests) ==
    Counted(Fields(<<"varint">>)) \o (IF redirects THEN Fields(<<"varint">>) ELSE <<>>)
    \o (IF kind # "root" THEN Fields(<<"string">>) ELSE <<>>)
    \o (IF kind = "argument" THEN skipJavaCommandProperties ELSE <<>>)
    \o (IF suggests THEN Fields(<<"string">>) ELSE <<>>)
DecodeJavaCommands ==
    Counted(Choice("node", [flags \in BOOLEAN \X {"root", "literal", "argument"} \X BOOLEAN |->
                               CommandNode(flags[1], flags[2], flags[3])]))
    \o Fields(<<"varint">>) \o End
=============================================================================

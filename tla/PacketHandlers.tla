--------------------------- MODULE PacketHandlers ---------------------------
(***************************************************************************)
(* What the handlers of the Java packets do with values that are whole on  *)
(* the wire and that Bedrock has no form for: the order in which they drop *)
(* the packet, replace the value, and write to the client.  What they keep *)
(* is in the modules of the parts that keep it.                            *)
(***************************************************************************)
EXTENDS PacketFormats

(***************************************************************************)
(* The player and the world                                                *)
(***************************************************************************)
GameData == Replace({"mode"}) \o Send
translateJavaRespawn == DropOn({"mode"}) \o Send
\* The doubles are finite, and are made float32 as they are sent.
translatePosition == DropOn({"double", "number"}) \o Send
translateRotation == DropOn({"number"}) \o Send
translateHealth == Send
translateExperience == DropOn({"progress", "level"}) \o Send
translatePlayerAbilities == DropOn({"speed"}) \o Send
translateJavaCooldown == DropOn({"group"}) \o DropOn({"ticks"}) \o Send
translateJavaSpawnPosition == DropOn({"number"}) \o Send
translateTime == Replace({"time"}) \o Send
translateJavaDifficulty == DropOn({"difficulty"}) \o Send
translateJavaGameStateChange == DropOn({"number"}) \o DropOn({"reason", "mode"}) \o Send
translateJavaTitleTimes == DropOn({"duration"}) \o Send
translateJavaWorldEvent == DropOn({"event"}) \o Replace({"data"}) \o Send
translateJavaBlockDestruction == DropOn({"stage"}) \o Send

(***************************************************************************)
(* Entities                                                                *)
(***************************************************************************)
\* A falling block of a state that is not known falls as air.
translateSpawnEntity ==
    DropOn({"number"}) \o DropOn({"entity type"}) \o DropOn({"object"}) \o Replace({"block state"}) \o Send
translateSpawnExperienceOrb == DropOn({"number"}) \o Replace({"amount"}) \o Send
translateEntityTeleport == DropOn({"number"}) \o DropOn({"entity"}) \o Send
translateEntityMove == DropOn({"entity"}) \o Send
translateJavaVehicleMove == DropOn({"number"}) \o Send
translateEntityEffect == DropOn({"effect"}) \o DropOn({"entity"}) \o Send
translateRemoveEntityEffect == DropOn({"effect"}) \o DropOn({"entity"}) \o Send
\* Attributes and modifiers one by one.
translateEntityAttributes == DropOn({"entity"}) \o Replace({"attribute", "value", "modifier"}) \o Send
translateJavaEntityEvent == DropOn({"actor"}) \o DropOn({"event"}) \o Send
translateJavaTakeItem == DropOn({"entity"}) \o Send
translateAnimation == DropOn({"entity"}) \o DropOn({"action"}) \o Send

(***************************************************************************)
(* Blocks, sounds, particles, text                                         *)
(***************************************************************************)
translateBlockChange == Replace({"block state"}) \o Send
translateBlockEntity == DropOn({"block entity type"}) \o Send
translateJavaBlockEvent == DropOn({"block"}) \o Send

validateJavaSound == DropOn({"sound"}) \o DropOn({"sound category", "number"})
translateJavaSoundEffect == validateJavaSound \o Send
translateJavaEntitySoundEffect == validateJavaSound \o DropOn({"entity"}) \o Send
\* The category is not used.
translateJavaStopSound == Replace({"sound category"}) \o Send

\* What makes translateJavaParticle write nothing.
ParticleData == {"block state", "scale", "entity", "target"}
translateJavaLevelParticles == DropOn({"number", "amount"}) \o DropOn(ParticleData) \o Send
translateJavaExplode ==
    DropOn({"number"}) \o Replace(ParticleData \cup {"particle", "position source"})
    \o Replace({"sound"}) \o SendWithout({"knockback"})
    \o DropOn({"knockback"}) \o Send

translateJavaBossBar == DropOn({"bar action"}) \o Replace({"progress", "style"}) \o Send
translateText == Send
=============================================================================

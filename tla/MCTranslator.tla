---------------------------- MODULE MCTranslator ----------------------------
(***************************************************************************)
(* The parts of the translator that share no state with another: player    *)
(* actions, scoreboard, boss bars, block states, entity flags.  A          *)
(* behaviour of one of them at a time, chosen in the initial state, shows  *)
(* what a behaviour of all of them would.                                  *)
(***************************************************************************)
EXTENDS MCPlayerActions, Scoreboard, BossBars, Blocks, EntityFlags

VARIABLE component

MCChunkOf == [c \in {"a", "b", "c"} |-> IF c = "c" THEN 2 ELSE 1]
MCStyles == {<<0, 4>>, <<9, 1>>}
\* One type for each set of rows of the projections.
MCTypes == {"allay", "armadillo", "axolotl", "bat", "bee", "blaze", "camel", "cat", "creeper",
            "drowned", "egg", "end_crystal", "enderman", "fox", "frog", "horse", "lingering_potion",
            "mule", "ocelot", "parrot", "pig", "polar_bear", "potion", "rabbit", "sheep", "sniffer",
            "spectral_arrow", "spider", "strider", "tnt", "trident", "turtle", "warden", "wolf",
            "zombie_villager"}
MCHealths == {-1, 4, 12, NaN}

\* The generated registry has every state of a block with a block entity.
ASSUME RegistryAssumption == EntityStates \subseteq Registered

\* The one type whose flags are not Java's has a run of its own.
ASSUME FlagTypesAssumption == "armor_stand" \notin Types

\* What the other components keep.
Rest(c) ==
    /\ UNCHANGED component
    /\ c # "actions" => UNCHANGED actionVars
    /\ c # "scoreboard" => UNCHANGED scoreVars
    /\ c # "boss bars" => UNCHANGED barVars
    /\ c # "blocks" => UNCHANGED blockVars
    /\ c # "flags" => UNCHANGED flagVars

Resting == CHOOSE t \in Types : TRUE

\* What is not run rests in one of its initial states.
ViewsInit ==
    /\ component \in {"actions", "scoreboard", "boss bars", "blocks", "flags"}
    /\ ActionsInit /\ ScoreboardInit /\ BossBarsInit
    /\ BlocksInit /\ (component # "blocks" => world = [c \in Cells |-> [state |-> Air, mob |-> NoMob]])
    /\ FlagsInit
    /\ component # "flags" => type = Resting /\ indexes = {CHOOSE i \in OwnedIndexes(Resting) : TRUE}

PlayerSteps == component = "actions" /\ ActionsNext /\ Rest("actions")
ScoreboardSteps == component = "scoreboard" /\ ScoreboardNext /\ Rest("scoreboard")
BossBarSteps == component = "boss bars" /\ BossBarsNext /\ Rest("boss bars")
BlockSteps == component = "blocks" /\ BlocksNext /\ Rest("blocks")
FlagSteps == component = "flags" /\ FlagsNext /\ Rest("flags")

ViewsNext == PlayerSteps \/ ScoreboardSteps \/ BossBarSteps \/ BlockSteps \/ FlagSteps
ViewsSpec == ViewsInit /\ [][ViewsNext]_<<component, actionVars, scoreVars, barVars, blockVars, flagVars>>
=============================================================================

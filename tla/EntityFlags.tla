----------------------------- MODULE EntityFlags -----------------------------
(***************************************************************************)
(* The flag words of an actor (src/translate/metadata.go,                  *)
(* special_entities.go, entity_metadata_matrix.go and the merge in         *)
(* translateEntityMetadata of basic.go).                                   *)
(*                                                                         *)
(* Java sends single metadata entries; Bedrock wants both 64-bit words of  *)
(* an actor each time.  The bridge projects a packet's entries on flags,   *)
(* finds in separate tables, the masks, which flags these entries own, and *)
(* replaces those in the words it keeps.  A row <<types, index, flag, test,*)
(* argument>> says when an entry's value sets a flag: a bit of it is set   *)
(* (or not), it is equal (or not) to a number, greater than it, or any.    *)
(***************************************************************************)
EXTENDS Integers, FiniteSets

CONSTANTS
    Types            \* the Java entity types looked at, without "minecraft:"

VARIABLES
    type,            \* entityType of the actor
    indexes,         \* the entries the server sends of it in this behaviour
    flags,           \* FlagsKey and FlagsTwoKey of its metadata: the flags that are set
    java,            \* what Java said last: index -> value
    hidden           \* projectileHidden

flagVars == <<type, indexes, flags, java, hidden>>

Ageable == {"armadillo", "axolotl", "bee", "camel", "cat", "chicken", "cow", "donkey", "fox",
            "frog", "goat", "hoglin", "horse", "llama", "mooshroom", "mule", "ocelot", "panda",
            "pig", "polar_bear", "rabbit", "sheep", "sniffer", "strider", "turtle", "wolf",
            "parrot"}
Throwable == {"egg", "ender_pearl", "experience_bottle", "lingering_potion", "snowball",
              "splash_potion", "xp_bottle", "potion"}
Potions == {"potion", "splash_potion", "lingering_potion"}
Zombies == {"zombie", "zombie_villager", "zombified_piglin", "drowned", "husk"}
Pets == {"cat", "wolf", "parrot"}
Arrows == {"arrow", "spectral_arrow", "trident"}
Crystals == {"end_crystal", "ender_crystal"}
Chested == {"donkey", "mule", "llama", "trader_llama"}
Spiders == {"spider", "cave_spider"}
Objects == Throwable \cup Arrows \cup Crystals \cup {"tnt"}

\* The flags of the second word: 64 and above.
FlagsTwo == {"Trusting", "Rolling", "Scared", "Roaring", "Admiring", "PlayingDead",
             "Croaking", "DigestMob", "JumpGoal", "Emerging", "Sniffing", "Digging",
             "HasDashTimeout", "Scenting", "Rising", "FeelingHappy", "Searching", "Sleeping"}

Bit(value, b) == (value \div b) % 2 = 1

Holds(row, value) ==
    \/ row[4] = "bit" /\ Bit(value, row[5])
    \/ row[4] = "clear" /\ ~Bit(value, row[5])
    \/ row[4] = "both" /\ Bit(value, 1) /\ Bit(value, row[5])
    \/ row[4] = "eq" /\ value = row[5]
    \/ row[4] = "ne" /\ value # row[5]
    \/ row[4] = "gt" /\ value > row[5]
    \/ row[4] = "always"

(***************************************************************************)
(* The projections                                                         *)
(***************************************************************************)
\* translateGenericEntityMetadata: entries every entity or living entity has.  The
\* code reads any byte at 8 as the hand states of a living entity.
GenericRows == {
    <<Types, 0, "OnFire", "bit", 1>>, <<Types, 0, "Sneaking", "bit", 2>>,
    <<Types, 0, "Sprinting", "bit", 8>>, <<Types, 0, "Swimming", "bit", 16>>,
    <<Types, 0, "Invisible", "bit", 32>>, <<Types, 0, "Gliding", "bit", 128>>,
    <<Types, 4, "Silent", "eq", 1>>, <<Types, 5, "HasGravity", "eq", 0>>,
    <<Types, 6, "Sleeping", "eq", 2>>, <<Types, 6, "Swimming", "eq", 3>>,
    <<Types, 6, "DamageNearbyMobs", "eq", 4>>,
    <<Types \ (Potions \cup {"tnt"}), 8, "UsingItem", "bit", 1>>,
    <<Types \ (Potions \cup {"tnt"}), 8, "DamageNearbyMobs", "bit", 4>>,
    <<Types \ (Potions \cup {"tnt"}), 8, "Emerging", "both", 2>>}

\* translateSpecialEntityMetadataWithVariants
SpecialRows == {
    <<Types, 15, "NoAI", "bit", 1>>, <<Ageable \cup Zombies, 16, "Baby", "eq", 1>>,
    <<{"creeper"}, 16, "Ignited", "eq", 1>>, <<{"creeper"}, 17, "Powered", "eq", 1>>,
    <<{"creeper"}, 18, "Ignited", "eq", 1>>, <<{"sheep"}, 17, "Sheared", "bit", 16>>,
    <<{"armor_stand"}, 15, "Baby", "bit", 1>>, <<{"armor_stand"}, 15, "Angry", "clear", 4>>,
    <<{"armor_stand"}, 15, "Admiring", "bit", 8>>,
    <<Pets, 17, "Sitting", "bit", 1>>, <<Pets, 17, "Angry", "bit", 2>>,
    <<Pets, 17, "Tamed", "bit", 4>>, <<{"cat"}, 20, "Resting", "eq", 1>>,
    <<{"wolf"}, 19, "Interested", "eq", 1>>, <<{"wolf"}, 21, "Angry", "gt", 0>>,
    <<{"fox"}, 18, "Sitting", "bit", 1>>, <<{"fox"}, 18, "Sneaking", "bit", 4>>,
    <<{"fox"}, 18, "Interested", "bit", 8>>, <<{"fox"}, 18, "Sleeping", "bit", 32>>,
    <<{"rabbit"}, 17, "Bribed", "eq", 99>>, <<{"bee"}, 18, "Angry", "gt", 0>>,
    <<Zombies, 18, "Shaking", "eq", 1>>,
    <<{"zombie_villager"}, 19, "Transforming", "eq", 1>>,
    <<{"zombie_villager"}, 19, "Shaking", "eq", 1>>,
    <<Crystals, 9, "ShowBottom", "eq", 1>>, <<{"tnt"}, 8, "Ignited", "always", 0>>,
    <<Arrows, 8, "Critical", "bit", 1>>, <<{"trident"}, 12, "Enchanted", "eq", 1>>}

\* translateEntityMetadataMatrix
MatrixRows == {
    <<{"allay"}, 16, "Dancing", "eq", 1>>, <<{"armadillo"}, 17, "Rolling", "eq", 1>>,
    <<{"armadillo"}, 17, "Scared", "eq", 2>>, <<{"axolotl"}, 18, "PlayingDead", "eq", 1>>,
    <<{"bat"}, 16, "Resting", "bit", 1>>, <<{"blaze"}, 16, "OnFire", "bit", 1>>,
    <<{"camel"}, 18, "HasDashTimeout", "eq", 1>>, <<{"enderman"}, 18, "Angry", "eq", 1>>,
    <<Chested, 18, "Chested", "eq", 1>>, <<{"ocelot"}, 17, "Trusting", "eq", 1>>,
    <<{"polar_bear"}, 17, "Standing", "eq", 1>>, <<Spiders, 16, "WallClimbing", "bit", 1>>,
    <<{"strider"}, 18, "Breathing", "eq", 0>>, <<{"strider"}, 18, "Shaking", "eq", 1>>,
    <<{"strider"}, 19, "Saddled", "eq", 1>>, <<{"turtle"}, 18, "Pregnant", "eq", 1>>,
    <<{"turtle"}, 19, "LayingEgg", "eq", 1>>}

\* translateJavaPoseMetadata
PoseRows == {
    <<{"camel"}, 6, "Sitting", "eq", 10>>, <<{"frog"}, 6, "JumpGoal", "eq", 6>>,
    <<{"frog"}, 6, "Croaking", "eq", 8>>, <<{"frog"}, 6, "DigestMob", "eq", 9>>,
    <<{"warden"}, 6, "Digging", "eq", 14>>, <<{"warden"}, 6, "Emerging", "eq", 13>>,
    <<{"warden"}, 6, "Roaring", "eq", 11>>, <<{"warden"}, 6, "Sniffing", "eq", 12>>}

\* translateHorseFlags
HorseRows == {<<Chested \cup {"horse"}, 17, "Tamed", "bit", 2>>,
              <<Chested \cup {"horse"}, 17, "Eating", "bit", 16>>,
              <<Chested \cup {"horse"}, 17, "Standing", "bit", 32>>}

\* translateCamelHorseFlags: a camel is always tame.
CamelRows == {<<{"camel"}, 17, "Tamed", "always", 0>>, <<{"camel"}, 17, "Eating", "bit", 16>>,
              <<{"camel"}, 17, "Standing", "bit", 32>>}

\* translateSnifferState
SnifferRows == {<<{"sniffer"}, 17, "FeelingHappy", "eq", 1>>,
                <<{"sniffer"}, 17, "Scenting", "eq", 3>>,
                <<{"sniffer"}, 17, "Searching", "eq", 4>>,
                <<{"sniffer"}, 17, "Digging", "eq", 5>>, <<{"sniffer"}, 17, "Rising", "eq", 6>>}

\* translateJavaPotionEntityMetadata: the item shows a potion effect or it does not.
PotionRows == {<<Potions, 8, "Enchanted", "eq", 1>>,
               <<{"lingering_potion"}, 8, "Lingering", "always", 0>>}

SpecificRows == SpecialRows \cup MatrixRows \cup PoseRows \cup HorseRows \cup CamelRows
                \cup SnifferRows \cup PotionRows

RowsOf(rows, t, index) == {row \in rows : t \in row[1] /\ index = row[2]}

\* The values that tell the rows of an entry apart; an object only ever stands.
JavaValues(t, i) ==
    IF t \in Objects /\ i = 6 THEN {0} ELSE
    LET rows == RowsOf(GenericRows \cup SpecificRows, t, i)
        bits == {row[5] : row \in {r \in rows : r[4] \in {"bit", "clear"}}}
    IN  {0} \cup (IF bits = {} THEN {1} ELSE {})
        \cup {row[5] : row \in rows} \cup {1 + b : b \in bits \ {1}}

\* The rows by type and index: the flags an entry writes, and by its value those it sets.
Written(rows) == [t \in Types |-> [i \in 0..21 |-> {row[3] : row \in RowsOf(rows, t, i)}]]
Set(rows) ==
    [t \in Types |-> [i \in 0..21 |-> [v \in JavaValues(t, i) |->
        {row[3] : row \in {r \in RowsOf(rows, t, i) : Holds(r, v)}}]]]

GenericWritten == Written(GenericRows)
GenericSet == Set(GenericRows)
SpecificWritten == Written(SpecificRows)
SpecificSet == Set(SpecificRows)

(***************************************************************************)
(* The masks                                                               *)
(***************************************************************************)
\* javaGenericEntityFlagMasks
GenericMask(index) ==
    CASE index = 0 -> {"OnFire", "Sneaking", "Sprinting", "Swimming", "Invisible", "Gliding"}
      [] index = 4 -> {"Silent"}
      [] index = 5 -> {"HasGravity"}
      [] index = 6 -> {"Sleeping", "Swimming", "DamageNearbyMobs"}
      [] index = 8 -> {"UsingItem", "DamageNearbyMobs", "Emerging"}
      [] OTHER -> {}

\* The cases of specialEntityFlagMasks after the one for index 15.
SpecificMasks == {
    <<{"camel"}, 6, {"Sitting"}>>, <<{"frog"}, 6, {"JumpGoal", "Croaking", "DigestMob"}>>,
    <<{"warden"}, 6, {"Digging", "Emerging", "Roaring", "Sniffing"}>>,
    <<{"allay"}, 16, {"Dancing"}>>, <<{"armadillo"}, 17, {"Rolling", "Scared"}>>,
    <<{"axolotl"}, 18, {"PlayingDead"}>>, <<{"bat"}, 16, {"Resting"}>>,
    <<{"blaze"}, 16, {"OnFire"}>>, <<{"camel"}, 18, {"HasDashTimeout"}>>,
    <<{"enderman"}, 18, {"Angry"}>>,
    <<Chested \cup {"camel", "horse"}, 17, {"Tamed", "Eating", "Standing"}>>,
    <<Chested, 18, {"Chested"}>>, <<{"ocelot"}, 17, {"Trusting"}>>,
    <<{"polar_bear"}, 17, {"Standing"}>>,
    <<{"sniffer"}, 17, {"FeelingHappy", "Scenting", "Searching", "Digging", "Rising"}>>,
    <<Spiders, 16, {"WallClimbing"}>>, <<{"strider"}, 18, {"Breathing", "Shaking"}>>,
    <<{"strider"}, 19, {"Saddled"}>>, <<{"turtle"}, 18, {"Pregnant"}>>,
    <<{"turtle"}, 19, {"LayingEgg"}>>, <<Ageable, 16, {"Baby"}>>,
    <<Crystals, 9, {"ShowBottom"}>>, <<{"tnt"}, 8, {"Ignited"}>>, <<Arrows, 8, {"Critical"}>>,
    <<Potions, 8, {"Enchanted", "Lingering"}>>, <<{"trident"}, 12, {"Enchanted"}>>,
    <<{"creeper"}, 16, {"Ignited"}>>, <<{"creeper"}, 17, {"Powered"}>>,
    <<{"creeper"}, 18, {"Ignited"}>>, <<{"sheep"}, 17, {"Sheared"}>>,
    <<{"armor_stand"}, 15, {"Baby", "Angry", "Admiring"}>>,
    <<Pets, 17, {"Sitting", "Angry", "Tamed"}>>, <<{"cat"}, 20, {"Resting"}>>,
    <<{"wolf"}, 19, {"Interested"}>>, <<{"wolf"}, 21, {"Angry"}>>,
    <<{"fox"}, 18, {"Sitting", "Sneaking", "Interested", "Sleeping"}>>,
    <<{"rabbit"}, 17, {"Bribed"}>>, <<Zombies, 16, {"Baby"}>>, <<Zombies, 18, {"Shaking"}>>,
    <<{"zombie_villager"}, 19, {"Transforming", "Shaking"}>>, <<{"bee"}, 18, {"Angry"}>>}

\* specialEntityFlagMasks: its first case takes every entry 15.
SpecialMask ==
    [t \in Types |-> [index \in 0..21 |->
        IF index = 15 THEN {"NoAI"}
        ELSE UNION {row[3] : row \in {r \in SpecificMasks : t \in r[1] /\ index = r[2]}}]]

(***************************************************************************)
(* The merge of translateEntityMetadata                                    *)
(***************************************************************************)
\* The flags the entries of a packet set: where two of them write a flag, the last
\* says.  setProjectedFlag does this one entry at a time.
Projection(written, set, packet) ==
    UNION {set[i][packet[i]] \ UNION {written[j] : j \in {k \in DOMAIN packet : k > i}} :
               i \in DOMAIN packet}

\* One word: the flags the mask owns are replaced.  Without a mask the code adds,
\* which is where a missing mask keeps a flag that Java has cleared.
Merge(kept, projected, mask, word) ==
    IF mask \cap word # {} THEN ((kept \ mask) \cup (projected \cap mask)) \cap word
    ELSE (kept \cup projected) \cap word

\* The flags of the first word: those of the rows, and what a crystal starts with.
FlagsOne == ({row[3] : row \in GenericRows \cup SpecificRows} \cup {"FireImmune"}) \ FlagsTwo

\* Mutant: Java's flag byte shows a projectile that has not moved.
OwnedMaskRevealing(t, hides, packet) == UNION {GenericMask(i) : i \in DOMAIN packet}

\* The generic mask of a packet; Invisible is the bridge's while a projectile hides.
OwnedMask(t, hides, packet) ==
    (UNION {GenericMask(i) : i \in DOMAIN packet})
    \ (IF t \in Throwable /\ hides THEN {"Invisible"} ELSE {})

\* Both merges are made only if an entry of the packet wrote a flag.
AfterGeneric(packet) ==
    LET mask == OwnedMask(type, hidden, packet)
        projected == Projection(GenericWritten[type], GenericSet[type], packet)
    IN  IF \E i \in DOMAIN packet : GenericWritten[type][i] # {}
        THEN (flags \ mask) \cup (projected \cap mask)
        ELSE flags

AfterSpecial(kept, packet) ==
    LET mask == UNION {SpecialMask[type][i] : i \in DOMAIN packet}
        projected == Projection(SpecificWritten[type], SpecificSet[type], packet)
    IN  IF \E i \in DOMAIN packet : SpecificWritten[type][i] # {}
        THEN UNION {Merge(kept, projected, mask, word) : word \in {FlagsOne, FlagsTwo}}
        ELSE kept

(***************************************************************************)
(* Steps of the one actor                                                  *)
(***************************************************************************)
\* The entries of a type that say something of its flags.
OwnedIndexes(t) == {i \in 0..21 : GenericWritten[t][i] \cup SpecificWritten[t][i] # {}}

\* javaSpawnEntityProjection: a throwable starts hidden, a spectral arrow is marked.
FlagsInit ==
    /\ type \in Types
    /\ indexes \in {{i, j} : i, j \in OwnedIndexes(type)}
    /\ hidden = (type \in Throwable)
    /\ flags = CASE type \in Throwable -> {"Invisible"}
                 [] type = "spectral_arrow" -> {"Bribed"}
                 [] type \in Crystals -> {"FireImmune"}
                 [] OTHER -> {}
    /\ java = <<>>

\* translateEntityMetadata
Metadata(packet) ==
    /\ flags' = AfterSpecial(AfterGeneric(packet), packet)
    /\ java' = [i \in DOMAIN java \cup DOMAIN packet |->
                   IF i \in DOMAIN packet THEN packet[i] ELSE java[i]]
    /\ UNCHANGED <<type, indexes, hidden>>

\* revealJavaProjectileLocked, on the first move or teleport the server sends.
Reveal ==
    /\ type \in Throwable /\ hidden
    /\ flags' = flags \ {"Invisible"}
    /\ hidden' = FALSE
    /\ UNCHANGED <<type, indexes, java>>

Packets(is) ==
    LET values == [i \in is |-> DOMAIN GenericSet[type][i]]
    IN  {p \in UNION {[s -> UNION {values[i] : i \in is}] : s \in (SUBSET is) \ {{}}} :
            \A i \in DOMAIN p : p[i] \in values[i]}

FlagsNext ==
    \/ \E p \in Packets(indexes) : Metadata(p)
    \/ Reveal

FlagsSpec == FlagsInit /\ [][FlagsNext]_flagVars

(***************************************************************************)
(* Properties                                                              *)
(***************************************************************************)
\* The received entries of Java that own a flag, and what their values say of it.
OwningEntries(f) == {i \in DOMAIN java : f \in GenericWritten[type][i] \cup SpecificWritten[type][i]}
Says(i, f) == f \in GenericSet[type][i][java[i]] \cup SpecificSet[type][i][java[i]]

\* A flag is what Java's entries say of it last, set or clear, whichever packets
\* they came in; where two entries own it and differ, it is what one of them says.
\* Only a projectile's invisibility is not Java's until it has moved.
FlagsFollowJava ==
    \A f \in FlagsOne \cup FlagsTwo :
        (OwningEntries(f) # {} /\ ~(type \in Throwable /\ f = "Invisible")) =>
            \E i \in OwningEntries(f) : (f \in flags) = Says(i, f)

\* A thrown item stays out of sight until the server moves it, and is not hidden
\* again afterwards but by an entry of Java.
HiddenUntilMoved ==
    type \in Throwable =>
        /\ hidden => "Invisible" \in flags
        /\ (~hidden /\ 0 \notin DOMAIN java) => "Invisible" \notin flags

\* The flags of an actor are Java's, and until it moves the bridge's.
FlagsAgree == FlagsFollowJava /\ HiddenUntilMoved

\* "The bridge must replace these bits rather than OR-ing them with the previous
\* actor state, otherwise a Java false update leaves a stale Bedrock flag set"
\* (the comment of specialEntityFlagMasks): no flag is set that every received
\* entry about it says is clear.
StaleFlagsReplaced ==
    \A f \in flags : OwningEntries(f) # {} => \E i \in OwningEntries(f) : Says(i, f)
=============================================================================

---------------------------- MODULE ItemFormats ----------------------------
(***************************************************************************)
(* The formats of Java 1.21.4 item stacks, of their components, and of the *)
(* values that hold items: particles, entity metadata, recipe displays.  A *)
(* component carries no length: whoever does not read it as it was written *)
(* reads all that follows at the wrong place.  Marks of an item:           *)
(*   component  what was read is a component Bedrock cannot be given       *)
(*   foreign    a component type the code does not know                    *)
(*   removed    the components added end here                              *)
(*   item       the item ends here: unsupported if a component was         *)
(***************************************************************************)
EXTENDS WireFormats

CONSTANT MaxDisplayDepth    \* maxJavaRecipeDisplayDepth

Component == Mark("component")

(***************************************************************************)
(* Parts of components                                                     *)
(***************************************************************************)
decodeJavaEnchantments == Counted(Fields(<<"varint", "varint">>)) \o Fields(<<"bool">>)

BlockProperty ==
    Fields(<<"string">>) \o Choice("bool", 0 :> Fields(<<"string", "string">>) @@ 1 :> Fields(<<"string">>))
decodeJavaBlockPredicates ==
    Counted(decodeJavaOptional(decodeJavaIDSet) \o decodeJavaOptional(Counted(BlockProperty))
            \o Fields(<<"nbt">>)) \o Fields(<<"bool">>)

decodeJavaAttributeModifiers ==
    Counted(Fields(<<"varint", "string", "float64", "varint", "varint">>)) \o Fields(<<"bool">>)

decodeJavaCustomModelData ==
    Counted(Fields(<<"float32">>)) \o Counted(Fields(<<"bool">>))
    \o Counted(Fields(<<"string">>)) \o Counted(Fields(<<"int32">>))

decodeJavaFood == Fields(<<"varint", "float32", "bool">>)

decodeJavaItemSoundHolder ==
    decodeJavaRegistryHolder(Fields(<<"string">>) \o decodeJavaOptional(Fields(<<"float32">>)))

\* An effect may hide another.  The code follows 32 of them, the formats one.
decodeJavaEffectDetail ==
    LET Detail == Fields(<<"varint", "varint", "bool", "bool", "bool">>)
    IN  Detail \o decodeJavaOptional(Detail \o Fields(<<"bool">>))
decodeJavaPotionEffect == Fields(<<"varint">>) \o decodeJavaEffectDetail

decodeJavaConsumeEffect ==
    Enumeration("consume effect",
        0 :> Counted(decodeJavaPotionEffect) \o Fields(<<"float32">>)
        @@ 1 :> decodeJavaIDSet @@ 2 :> <<>> @@ 3 :> Fields(<<"float32">>)
        @@ 4 :> decodeJavaItemSoundHolder, Refused)
decodeJavaConsumeEffects == Counted(decodeJavaConsumeEffect)

decodeJavaConsumable ==
    Fields(<<"float32">>) \o Enumeration("animation", 0 :> <<>>, Refused)
    \o decodeJavaItemSoundHolder \o Fields(<<"bool">>) \o decodeJavaConsumeEffects

decodeJavaUseCooldown == Fields(<<"float32">>) \o decodeJavaOptional(Fields(<<"string">>))

decodeJavaTool ==
    Counted(decodeJavaIDSet \o decodeJavaOptional(Fields(<<"float32">>))
            \o decodeJavaOptional(Fields(<<"bool">>)))
    \o Fields(<<"float32", "varint">>)

decodeJavaEquippable ==
    Fields(<<"varint">>) \o decodeJavaItemSoundHolder
    \o Times(2, decodeJavaOptional(Fields(<<"string">>)))
    \o decodeJavaOptional(decodeJavaIDSet) \o Fields(<<"bool", "bool", "bool">>)

decodeJavaPotionContents ==
    decodeJavaOptional(Fields(<<"varint">>)) \o decodeJavaOptional(Fields(<<"int32">>))
    \o Counted(decodeJavaPotionEffect) \o decodeJavaOptional(Fields(<<"string">>))

decodeJavaWritableBook == Counted(Fields(<<"string">>) \o decodeJavaOptional(Fields(<<"string">>)))
decodeJavaWrittenBook ==
    Fields(<<"string">>) \o decodeJavaOptional(Fields(<<"string">>)) \o Fields(<<"string", "varint">>)
    \o Counted(Fields(<<"nbt", "nbt">>)) \o Fields(<<"bool">>)

decodeJavaTrimMaterial ==
    Fields(<<"string", "varint">>) \o Counted(Fields(<<"string", "string">>)) \o Fields(<<"nbt">>)
decodeJavaTrimPattern == Fields(<<"string", "varint", "nbt", "bool">>)
decodeJavaTrim ==
    decodeJavaRegistryHolder(decodeJavaTrimMaterial)
    \o decodeJavaRegistryHolder(decodeJavaTrimPattern) \o Fields(<<"bool">>)

decodeJavaInstrumentData == decodeJavaItemSoundHolder \o Fields(<<"float32", "float32", "nbt">>)

decodeJavaJukeboxSongData == decodeJavaItemSoundHolder \o Fields(<<"nbt", "float32", "varint">>)
decodeJavaJukeboxPlayable ==
    Choice("bool", 1 :> decodeJavaRegistryHolder(decodeJavaJukeboxSongData) @@ 0 :> Fields(<<"string">>))
    \o Fields(<<"bool">>)

decodeJavaLodestoneTracker ==
    decodeJavaOptional(Fields(<<"string", "int64">>)) \o Fields(<<"bool">>)

decodeJavaFireworkExplosion ==
    Enumeration("shape", 0 :> <<>>, Refused)
    \o Times(2, Counted(Fields(<<"int32">>))) \o Fields(<<"bool", "bool">>)
decodeJavaFireworks == Fields(<<"varint">>) \o Counted(decodeJavaFireworkExplosion)

decodeJavaProfile ==
    decodeJavaOptional(Fields(<<"string">>)) \o decodeJavaOptional(Fields(<<"uuid">>))
    \o Counted(Fields(<<"string", "string">>) \o decodeJavaOptional(Fields(<<"string">>)))

decodeJavaBannerPattern == Fields(<<"string", "string">>)
decodeJavaBannerPatterns ==
    Counted(decodeJavaRegistryHolder(decodeJavaBannerPattern) \o Fields(<<"varint">>))

decodeJavaItemSlotArray(depth) == Counted(Ref("item", depth + 1))

(***************************************************************************)
(* Components by their numbers                                             *)
(***************************************************************************)
javaItemComponentCount == 67

EmptyPayloads == {15, 16, 18, 30}                            \* nothing follows
TagPayloads == {20, 37, 46, 47, 48, 49, 53, 65, 66}
NamePayloads == {7, 25, 31, 58}
NumberPayloads == {1, 2, 9, 27, 38, 51, 60}
SupportedComponents ==
    EmptyPayloads \cup TagPayloads \cup {0, 3, 4, 5, 6, 8, 10, 17, 19, 33, 34, 36, 41, 55, 56}

Payload(type, depth) ==
    CASE type \in EmptyPayloads -> <<>>
      [] type \in TagPayloads \cup {5, 6} -> Fields(<<"nbt">>)
      [] type \in NamePayloads -> Fields(<<"string">>)
      [] type \in NumberPayloads \cup {17, 36} -> Fields(<<"varint">>)
      [] type = 0 -> Choice("nbt", DecodeAnonymousNBT @@ 1 :> Component)    \* custom data, a compound
      [] type = 3 -> Choice("varint", ReadVarInt @@ 1 :> Component)         \* damage, within its range
      [] type \in {4, 19} -> Fields(<<"bool">>)
      [] type = 8 -> Counted(Fields(<<"nbt">>))
      [] type \in {10, 33} -> decodeJavaEnchantments
      [] type \in {11, 12} -> decodeJavaBlockPredicates
      [] type = 13 -> decodeJavaAttributeModifiers
      [] type = 14 -> decodeJavaCustomModelData
      [] type = 21 -> decodeJavaFood
      [] type = 22 -> decodeJavaConsumable
      [] type = 23 -> Ref("item", depth + 1)                                \* what is left of it
      [] type = 24 -> decodeJavaUseCooldown
      [] type = 26 -> decodeJavaTool
      [] type = 28 -> decodeJavaEquippable
      [] type = 29 -> decodeJavaIDSet
      [] type = 32 -> decodeJavaConsumeEffects
      [] type = 34 -> Fields(<<"int32", "bool">>)
      [] type = 35 -> Fields(<<"int32">>)
      [] type \in {39, 40, 62} -> decodeJavaItemSlotArray(depth)
      [] type = 41 -> decodeJavaPotionContents
      [] type = 42 -> Counted(Fields(<<"varint", "varint">>))
      [] type = 43 -> decodeJavaWritableBook
      [] type = 44 -> decodeJavaWrittenBook
      [] type = 45 -> decodeJavaTrim
      [] type = 50 -> decodeJavaRegistryHolder(decodeJavaInstrumentData)
      [] type = 52 -> decodeJavaJukeboxPlayable
      [] type = 54 -> decodeJavaLodestoneTracker
      [] type = 55 -> decodeJavaFireworkExplosion
      [] type = 56 -> decodeJavaFireworks
      [] type = 57 -> decodeJavaProfile
      [] type = 59 -> decodeJavaBannerPatterns
      [] type = 61 -> Counted(Fields(<<"string">>))
      [] type = 63 -> Counted(Fields(<<"string", "string">>))
      [] type = 64 -> Counted(Fields(<<"nbt", "varint", "varint">>))

decodeJavaItemComponent(type, depth) ==
    Payload(type, depth) \o (IF type \in SupportedComponents THEN <<>> ELSE Component)

\* What is written: at depth zero every component, within other values one of each
\* outcome, and items within items of these no further.
Written(depth) ==
    CASE depth = 0 -> 0..javaItemComponentCount - 1
      [] depth = 1 -> {4, 35, 40}
      [] OTHER -> {4, 35}

\* The loop of decodeJavaItemComponents: of an unknown component no payload is read.
decodeJavaItemComponents(depth) ==
    Enumeration("component", [type \in Written(depth) |-> decodeJavaItemComponent(type, depth)],
                Mark("foreign") \o Fields(<<"unknown">>))

(***************************************************************************)
(* Items                                                                   *)
(***************************************************************************)
\* Both counts precede the components.
decodeJavaItemSlot(depth) ==
    LET Rest(added, removed) ==
            Times(added, Ref("component", depth)) \o Mark("removed")
            \o Times(removed, Fields(<<"varint">>)) \o <<[k |-> "item", bad |-> FALSE]>>
        Limited(Following(_)) ==
            [n \in -1..MaxElements + 1 |-> IF n \in 0..MaxElements THEN Following(n) ELSE Refused]
    IN  Choice("item count", -1 :> Refused @@ 0 :> <<>> @@ 1 :>
            Fields(<<"varint">>)
            \o Choice("count", Limited(LAMBDA added :
                   Choice("count", Limited(LAMBDA removed : Rest(added, removed))))))

DecodeJavaSetSlot == Fields(<<"varint", "varint", "int16">>) \o Ref("item", 0) \o End
DecodeJavaWindowItems ==
    Fields(<<"varint", "varint">>) \o Counted(Ref("item", 1)) \o Ref("item", 1) \o End
DecodeJavaCursorItem == Ref("item", 1) \o End

(***************************************************************************)
(* Particles                                                               *)
(***************************************************************************)
decodeJavaVibration ==
    Enumeration("position source", 0 :> Fields(<<"int64">>) @@ 1 :> Fields(<<"entity", "target">>),
                NoForm("particle") \o Fields(<<"unknown">>))
    \o Choice("varint", ReadVarInt @@ -1 :> NoForm("particle"))
decodeJavaTrail ==
    Fields(<<"target", "target", "target", "int32">>)
    \o Choice("varint", ReadVarInt @@ -1 :> NoForm("particle"))

\* One number for the kinds read alike: 0 has no data.
decodeJavaParticle ==
    Enumeration("particle",
        0 :> <<>> @@ 1 :> Fields(<<"block state">>) @@ 13 :> Fields(<<"int32", "scale">>)
        @@ 14 :> Fields(<<"int32", "int32", "scale">>) @@ 20 :> Fields(<<"int32">>)
        @@ 36 :> Fields(<<"float32">>) @@ 45 :> Ref("item", 1) @@ 46 :> decodeJavaVibration
        @@ 47 :> decodeJavaTrail @@ 101 :> Fields(<<"varint">>)
        @@ 200 :> NoForm("particle"),                   \* unknown, without data
        NoForm("particle") \o Fields(<<"unknown">>))

DecodeJavaLevelParticles ==
    Fields(<<"bool", "bool", "number", "number", "number", "number", "number", "number",
             "number", "amount">>)
    \o decodeJavaParticle \o End

(***************************************************************************)
(* Entity metadata: entries until the index 255                            *)
(***************************************************************************)
WolfVariant == decodeJavaRegistryHolder(Fields(<<"string", "string", "string">>) \o decodeJavaIDSet)
PaintingVariant ==
    Holder(Fields(<<"varint", "varint", "string">>) \o Times(2, decodeJavaOptional(Fields(<<"nbt">>))))

decodeJavaEntityMetadataValue ==
    Enumeration("metadata type",
        [type \in 0..30 |->
            CASE type \in {1, 12, 14, 15, 20, 21, 22, 24, 27, 28} -> Fields(<<"varint">>)
              [] type = 0 -> Fields(<<"int8">>)
              [] type = 2 -> Fields(<<"varlong">>)
              [] type = 3 -> Fields(<<"float32">>)
              [] type = 4 -> Fields(<<"string">>)
              [] type \in {5, 16} -> Fields(<<"nbt">>)
              [] type = 6 -> decodeJavaOptional(Fields(<<"nbt">>))
              [] type = 7 -> Ref("item", 1)
              [] type = 8 -> Fields(<<"bool">>)
              [] type \in {9, 29} -> Fields(<<"float32", "float32", "float32">>)
              [] type = 10 -> Fields(<<"int64">>)
              [] type = 11 -> decodeJavaOptional(Fields(<<"int64">>))
              [] type = 13 -> decodeJavaOptional(Fields(<<"uuid">>))
              [] type \in {17, 18} -> NoForm("metadata") \o Fields(<<"unknown">>)
              [] type = 19 -> Fields(<<"varint", "varint", "varint">>)
              [] type = 23 -> WolfVariant
              [] type = 25 -> decodeJavaOptional(Fields(<<"string", "int64">>))
              [] type = 26 -> PaintingVariant
              [] type = 30 -> Fields(<<"float32", "float32", "float32", "float32">>)],
        NoForm("metadata") \o Fields(<<"unknown">>))

\* The loop reads at most MaxElements indices, that of the end included.
MetadataEntries[n \in 0..MaxElements] ==
    IF n = 0 THEN TooMany
    ELSE Choice("uint8", 255 :> End @@ 0 :> Ref("metadata", 0) \o MetadataEntries[n - 1])
DecodeEntityMetadata == Fields(<<"varint">>) \o MetadataEntries[MaxElements]

(***************************************************************************)
(* Equipment: items while the highest bit of the slot is set               *)
(***************************************************************************)
EquipmentItems[n \in 0..MaxElements] ==
    IF n = 0 THEN TooMany
    ELSE Choice("uint8", 0 :> Ref("item", 1) \o End @@ 128 :> Ref("item", 1) \o EquipmentItems[n - 1])
DecodeEntityEquipment == Fields(<<"varint">>) \o EquipmentItems[MaxElements]

DecodeSetPlayerInventory ==
    Enumeration("inventory slot", ReadVarInt, Refused) \o Ref("item", 1) \o End

(***************************************************************************)
(* Recipes.  A display that holds an item of unknown components is read to *)
(* its end as one without an item.                                         *)
(***************************************************************************)
Children(n, depth) ==
    IF depth = MaxDisplayDepth THEN TooMany ELSE Times(n, Ref("slot display", depth + 1))
decodeJavaSlotDisplay(depth) ==
    Enumeration("slot display",
        0 :> <<>>                                            \* empty, any fuel
        @@ 2 :> Fields(<<"varint">>)                         \* an item
        @@ 3 :> Ref("item", 1) \o Catch({"item"})            \* an item stack
        @@ 4 :> Fields(<<"string">>)                         \* a tag
        @@ 5 :> Children(3, depth) @@ 6 :> Children(2, depth)
        @@ 7 :> Counted(Children(1, depth)), Refused)

SlotDisplays(n) == Times(n, Ref("slot display", 0))
decodeJavaSlotDisplays == Counted(SlotDisplays(1))
decodeJavaRecipeDisplay ==
    Enumeration("recipe display",
        0 :> decodeJavaSlotDisplays \o SlotDisplays(2)
        @@ 1 :> Fields(<<"varint", "varint">>) \o decodeJavaSlotDisplays \o SlotDisplays(2)
        @@ 2 :> SlotDisplays(4) \o Fields(<<"varint", "float32">>)
        @@ 3 :> SlotDisplays(3) @@ 4 :> SlotDisplays(5), Refused)

DecodeJavaDeclareRecipes ==
    Counted(Fields(<<"string">>) \o Counted(Fields(<<"varint">>)))
    \o Counted(decodeJavaIDSet \o SlotDisplays(1)) \o End
DecodeJavaRecipeBookAdd ==
    Counted(Fields(<<"varint">>) \o Ref("recipe display", 0)
            \o Choice("optional number", ReadVarInt @@ -1 :> Refused) \o Fields(<<"varint">>)
            \o decodeJavaOptional(Counted(decodeJavaIDSet)) \o Fields(<<"byte">>))
    \o Fields(<<"bool">>) \o End
DecodeJavaRecipeBookRemove == Counted(Fields(<<"varint">>)) \o End
=============================================================================

------------------------------ MODULE Recipes ------------------------------
(***************************************************************************)
(* The recipe book and the stonecutter (src/translate/recipes.go).  The    *)
(* server names a recipe by a number and sends how to display it; the      *)
(* client has recipes, numbered by the bridge, and of them those that are  *)
(* unlocked.  recipeIDs remembers what was unlocked, so that it is sent    *)
(* once and can be taken back.  Only pumpJava works on it, so that a       *)
(* packet and its handler are one action.                                  *)
(***************************************************************************)
EXTENDS Integers, Sequences, FiniteSets, SequencesExt

CONSTANTS
    RecipeNumbers,   \* the server's numbers of recipes
    RecipeDisplays,  \* how it may display one: see ToBedrock
    Cuttings,        \* sequences of stonecutter recipes: [tag, ids, result]
    KnownItems,      \* items with a Bedrock counterpart
    MaxSlotDepth,    \* how deep slots nest at most (maxJavaRecipeDisplayDepth)
    MaxNetworkID,    \* largest number of a recipe, after which they start again (2^32 - 1)
    MaxBookPackets   \* bound on a behaviour

NoTag == ""
ASSUME RecipesAssumption ==
    /\ IsFiniteSet(RecipeNumbers)
    /\ \A declared \in Cuttings :
          /\ declared \in Seq(ToSet(declared))
          /\ \A cut \in ToSet(declared) : cut.ids \in Seq(ToSet(cut.ids))
    /\ MaxSlotDepth \in Nat /\ MaxNetworkID \in Nat \ {0} /\ MaxBookPackets \in Nat

VARIABLES
    displays,        \* how the server displays each of its recipes
    book,            \* the recipes in the player's book at the server
    cuttings,        \* the server's stonecutter recipes
    recipeIDs,       \* Basic.recipeIDs: the recipes unlocked
    recipeNetworkID, \* Basic.recipeNetworkID
    recipes,         \* the client's recipes: set of [net, name, recipe]
    unlocked,        \* names of those the client shows as unlocked
    bookPackets
recipeVars == <<displays, book, cuttings, recipeIDs, recipeNetworkID, recipes, unlocked, bookPackets>>

(***************************************************************************)
(* Projection of displays                                                  *)
(***************************************************************************)
None == [item |-> "none"]
NothingHere == [item |-> "empty"]    \* InvalidItemDescriptor

\* A slot is [kind, of, parts]: of is the item or the tag, parts the slots it is made of.
\* Of a slot with remainder the first counts, and so on inward.
WithoutRemainder(slot) ==
    LET within[depth \in 0..MaxSlotDepth] ==
            IF depth = 0 THEN slot
            ELSE IF within[depth - 1].kind = "remainder" THEN within[depth - 1].parts[1]
            ELSE within[depth - 1]
    IN  within[MaxSlotDepth]
\* javaRecipeDescriptor
Descriptor(display, allowEmpty) ==
    LET slot == WithoutRemainder(display)
    IN  CASE slot.kind = "empty" /\ allowEmpty -> NothingHere
          [] slot.kind \in {"item", "stack"} /\ slot.of \in KnownItems -> [item |-> slot.of]
          [] slot.kind = "tag" /\ slot.of # NoTag -> [tag |-> slot.of]
          [] OTHER -> None
\* javaRecipeOutput
Output(slot) == IF slot.kind \in {"item", "stack"} /\ slot.of \in KnownItems THEN [item |-> slot.of] ELSE None

Descriptors(slots, allowEmpty) == [i \in DOMAIN slots |-> Descriptor(slots[i], allowEmpty)]

\* javaRecipeDisplayToBedrock: the station, the inputs and the output, or Unsupported.
\* A display is [kind, category, width, height, slots, result].
Unsupported == [station |-> "none", input |-> <<>>, output |-> None]
Station(category, kind) ==
    CASE kind = "furnace" -> (CASE category \in {7, 8} -> "blast_furnace" [] category = 9 -> "smoker"
                                [] category = 12 -> "campfire" [] OTHER -> "furnace")
      [] kind = "stonecutter" -> "stonecutter"
      [] kind = "smithing" -> "smithing_table"
      [] OTHER -> "crafting_table"
ToBedrock(d) ==
    LET input == Descriptors(d.slots, d.kind = "shaped")
        fits == d.kind = "shaped" =>
                   d.width > 0 /\ d.height > 0 /\ d.width * d.height = Len(d.slots)
    IN  IF ~fits \/ Output(d.result) = None \/ None \in ToSet(input) THEN Unsupported
        ELSE [station |-> Station(d.category, d.kind), input |-> input, output |-> Output(d.result)]

IsSmithing(d) == d.kind = "smithing"
Supported(n) == ToBedrock(displays[n]) # Unsupported

(***************************************************************************)
(* Numbers                                                                 *)
(***************************************************************************)
\* nextRecipeNetworkID after k calls: 0 is no number.
NetworkID(k) == ((recipeNetworkID - 1 + k) % MaxNetworkID) + 1

\* Places in a packet, and in the sets of inputs of its recipes, are in order.
Precedes(p, q) == p[1] < q[1] \/ (p[1] = q[1] /\ p[2] < q[2])
\* CraftingData adds to the client's recipes new, which has a [name, recipe] for places
\* in the packet.
SendsRecipes(new) ==
    /\ recipes' = recipes \cup
          {[net |-> NetworkID(Cardinality({q \in DOMAIN new : Precedes(q, p)})),
            name |-> new[p].name, recipe |-> new[p].recipe] : p \in DOMAIN new}
    /\ recipeNetworkID' = NetworkID(Cardinality(DOMAIN new))

(***************************************************************************)
(* Handlers                                                                *)
(***************************************************************************)
RecipesInit ==
    /\ displays \in [RecipeNumbers -> RecipeDisplays] /\ cuttings \in Cuttings
    /\ book = {} /\ recipeIDs = {} /\ recipeNetworkID = 1
    /\ recipes = {} /\ unlocked = {} /\ bookPackets = 0

\* translateJavaRecipeBookAdd: an entry that is unlocked already is skipped, and so is
\* one without a projection.  A smithing recipe is sent and neither unlocked nor
\* remembered.  The client replaces what it has unlocked by a packet of the first kind;
\* none is sent when nothing is left to send.
RecipeBookAdd(entries, replace) ==
    /\ book' = (IF replace THEN {} ELSE book) \cup ToSet(entries)
    /\ LET places == {i \in DOMAIN entries : entries[i] \notin recipeIDs /\ Supported(entries[i])}
           named == {n \in {entries[i] : i \in places} : ~IsSmithing(displays[n])}
       IN  /\ SendsRecipes([p \in {0} \X places |->
                  [name |-> <<0, entries[p[2]]>>, recipe |-> ToBedrock(displays[entries[p[2]]])]])
           /\ recipeIDs' = recipeIDs \cup named
           /\ unlocked' = IF named = {} THEN unlocked
                          ELSE (IF replace THEN {} ELSE unlocked) \cup named
    /\ UNCHANGED <<displays, cuttings>>

\* Mutant: what was taken back stays known, and is not sent again.
RecipeBookRemoveKeepsKnown(entries) ==
    /\ book' = book \ ToSet(entries)
    /\ unlocked' = unlocked \ (recipeIDs \cap ToSet(entries))
    /\ UNCHANGED <<displays, cuttings, recipes, recipeNetworkID, recipeIDs>>

\* translateJavaRecipeBookRemove: the client keeps the recipe and loses the unlock.
RecipeBookRemove(entries) ==
    /\ book' = book \ ToSet(entries)
    /\ unlocked' = unlocked \ (recipeIDs \cap ToSet(entries))
    /\ recipeIDs' = recipeIDs \ ToSet(entries)
    /\ UNCHANGED <<displays, cuttings, recipes, recipeNetworkID>>

\* javaRecipeIDSetDescriptors, by place: one for a tag, else one for each known item.
Inputs(cut) ==
    IF cut.tag # NoTag THEN [i \in {1} |-> [tag |-> cut.tag]]
    ELSE [i \in {i \in DOMAIN cut.ids : cut.ids[i] \in KnownItems} |-> [item |-> cut.ids[i]]]
\* translateJavaDeclareRecipes: a recipe for every input of a stonecutter recipe, named
\* for how many inputs come before it.
Cuts(declared) ==
    LET shown == {c \in DOMAIN declared : Output(declared[c].result) # None}
        places == UNION {{c} \X DOMAIN Inputs(declared[c]) : c \in shown}
    IN  [p \in places |->
            LET inputs == Inputs(declared[p[1]])
            IN  [name |-> <<p[1], Cardinality({i \in DOMAIN inputs : i < p[2]})>>,
                 recipe |-> [station |-> "stonecutter", input |-> <<inputs[p[2]]>>,
                             output |-> Output(declared[p[1]].result)]]]
DeclareRecipes ==
    /\ SendsRecipes(Cuts(cuttings))
    /\ UNCHANGED <<displays, book, cuttings, recipeIDs, unlocked>>

\* The server fills a book once, with the first packet, and then adds and removes.
BookEntries == UNION {SetToSeqs(s) : s \in SUBSET RecipeNumbers \ {{}}}
BookStep ==
    /\ bookPackets < MaxBookPackets
    /\ bookPackets' = bookPackets + 1
    /\ \/ \E e \in BookEntries : RecipeBookAdd(e, bookPackets = 0)
       \/ \E e \in BookEntries : ToSet(e) \subseteq book /\ RecipeBookRemove(e)
       \/ bookPackets # 0 /\ (\A r \in recipes : r.name[1] = 0) /\ DeclareRecipes
RecipesNext == BookStep
\* A behaviour gives out fewer numbers than there are.
NumbersSuffice ==
    \A declared \in Cuttings :
        MaxBookPackets * Cardinality(RecipeNumbers) + Cardinality(DOMAIN Cuts(declared)) < MaxNetworkID
RecipesSpec == RecipesInit /\ [][RecipesNext]_recipeVars

(***************************************************************************)
(* Properties                                                              *)
(***************************************************************************)
\* After any adding, removing and adding again, what the client shows as unlocked is
\* what the server has in the book, apart from smithing and what cannot be shown; each
\* of them is a recipe the client has, made at the same place of the same things, and
\* no two different recipes share a number.
BookAgrees ==
    /\ unlocked = {n \in book : Supported(n) /\ ~IsSmithing(displays[n])}
    /\ \A n \in {n \in book : Supported(n)} :
          \E r \in recipes : r.name = <<0, n>> /\ r.recipe = ToBedrock(displays[n])
    /\ \A r, s \in recipes : r.net = s.net => r = s
=============================================================================

------------------------------ MODULE MCWorld ------------------------------
(***************************************************************************)
(* The parts of the translator that keep the client's world, none of which *)
(* reads what another keeps: entities, the player, chunks, commands,       *)
(* recipes, and the decoders of the packets that reach them.  A behaviour  *)
(* of one of them at a time, chosen in the initial state, shows what a     *)
(* behaviour of all of them would.                                         *)
(***************************************************************************)
EXTENDS MCEntities, MCPlayer, MCChunks, MCCommands, MCRecipes, PacketReader

VARIABLE part

\* What the other parts keep.
Others(p) ==
    /\ UNCHANGED part
    /\ p # "entities" => UNCHANGED entityVars
    /\ p # "player" => UNCHANGED playerVars
    /\ p # "chunks" => UNCHANGED chunkVars
    /\ p # "commands" => UNCHANGED commandVars
    /\ p # "recipes" => UNCHANGED recipeVars
    /\ p # "packets" => UNCHANGED packetVars

RestingHere ==
    [position |-> CHOOSE h \in Heights : TRUE, yaw |-> CHOOSE y \in Yaws : TRUE,
     dimension |-> DimensionID(Home)]

\* What is not run rests in one of its initial states, the commands without a tree.
WorldInit ==
    /\ part \in {"entities", "player", "chunks", "commands", "recipes", "packets"}
    /\ (part # "entities" => nature = CHOOSE n \in Natures : TRUE) /\ EntitiesInit
    /\ (part # "player" => here = RestingHere) /\ PlayerInit
    /\ ChunksInit
    /\ IF part = "commands" THEN CommandsInit ELSE tree = <<>> /\ commands = <<>>
    /\ part # "recipes" =>
         /\ displays = [n \in RecipeNumbers |-> CHOOSE d \in RecipeDisplays : TRUE]
         /\ cuttings = CHOOSE c \in Cuttings : TRUE
    /\ RecipesInit
    /\ (part # "packets" => packet = "HealthUpdate") /\ PacketInit

EntitySteps == part = "entities" /\ EntitiesNext /\ Others("entities")
MovementSteps == part = "player" /\ PlayerNext /\ Others("player")
ChunkSteps == part = "chunks" /\ ChunksNext /\ Others("chunks")
CommandSteps == part = "commands" /\ CommandsNext /\ Others("commands")
RecipeSteps == part = "recipes" /\ RecipesNext /\ Others("recipes")
PacketSteps == part = "packets" /\ PacketNext /\ Others("packets")

WorldNext ==
    EntitySteps \/ MovementSteps \/ ChunkSteps \/ CommandSteps \/ RecipeSteps \/ PacketSteps
WorldVars == <<part, entityVars, playerVars, chunkVars, commandVars, recipeVars, packetVars>>
WorldSpec == WorldInit /\ [][WorldNext]_WorldVars
=============================================================================

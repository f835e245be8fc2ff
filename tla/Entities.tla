------------------------------- MODULE Entities -------------------------------
(***************************************************************************)
(* Actors, riders and the player list (src/translate: the entity handlers  *)
(* of basic.go, players.go, passengers.go, vehicles.go, item_frames.go,    *)
(* projectiles.go, projectile_item_metadata.go, experience_orbs.go).       *)
(*                                                                         *)
(* Two goroutines write to the client.  pumpJava runs one handler after    *)
(* the other: it changes the tables under the mutex and writes what         *)
(* follows from it after the unlock.  pumpProjectiles moves the projectiles*)
(* under the mutex twenty times a second and writes their positions after  *)
(* it.  So a step here is a change of the tables with the packets it will  *)
(* write, or one write; writes of the two goroutines interleave.           *)
(*                                                                         *)
(* The server is external and coherent: it names entities it has spawned,  *)
(* and tells the passengers of a vehicle after it spawned one of them.     *)
(***************************************************************************)
EXTENDS Integers, Sequences, FiniteSets, SequencesExt

CONSTANTS
    Ids,             \* entity IDs the server uses
    Me,              \* the ID of the local player
    Natures,         \* what the IDs stand for in a behaviour: ID -> kind of entity
    Uuids,           \* other players
    Cells,           \* block positions of item frames
    Items,           \* what an item or frame can hold: <<kind, count>>
    Positions,       \* where the server puts entities: numbers
    MaxServerPackets,\* bound on the packets of a behaviour
    MaxTicks         \* bound on the ticks of the simulation

NoItem == <<"air", 0>>
NoVehicle == -1
NoOne == -2

ASSUME EntitiesAssumption ==
    /\ Ids \subseteq Nat \ {0} /\ IsFiniteSet(Ids)
    /\ \A n \in Natures : DOMAIN n = Ids
    /\ Uuids \cup Cells \subseteq Nat
    /\ Me \in (Nat \ {0}) \ Ids
    /\ NoItem \notin Items /\ \A i \in Items : i = <<i[1], i[2]>>
    /\ Positions \subseteq Int
    /\ MaxServerPackets \in Nat /\ MaxTicks \in Nat

VARIABLES
    nature,          \* the kind of the entity an ID names: an ID is not used again
    world,           \* the server: what it has spawned and not removed, and whether its
                     \* last move is newer than the bridge's
    riders,          \* the server: vehicle -> its passengers, in order
    owed,            \* the server: vehicles whose passengers it will tell next
    gone,            \* the server: entities of the dimension the player has left
    entities,        \* Basic.entities
    players,         \* Basic.players: UUID -> whether its name is known
    passengers,      \* Basic.passengers
    vehicle,         \* vehicleID, or NoVehicle without hasVehicle
    attachments,     \* Basic.fireworkAttachments
    javaWrites,      \* what the handler of pumpJava has still to write
    tickWrites,      \* what tickProjectiles has still to write
    actors,          \* the client: ID -> position and content
    frames,          \* the client: cell -> content of the frame block
    links,           \* the client: who rides whom, and who is in front
    boosted,         \* the client: the glide boost effect
    listed,          \* the client: UUIDs of the player list
    overtaken,       \* IDs whose position was written out of order (history)
    counts           \* packets and ticks so far, for the bounds

server == <<world, riders, owed, gone>>
tables == <<entities, players, passengers, vehicle, attachments>>
client == <<actors, frames, links, boosted, listed>>
entityVars == <<nature, server, tables, javaWrites, tickWrites, client, overtaken, counts>>

\* Kinds: a mob stands for every entity sent with AddActor and moved by the server
\* alone; of those the bridge moves there are an arrow, a hook, a rocket and an item.
Simulated == {"arrow", "hook", "rocket", "item"}
Rideable == {"mob", "player"}

Drop(table, keys) == [k \in DOMAIN table \ keys |-> table[k]]
Put(table, key, value) ==
    [k \in DOMAIN table \cup {key} |-> IF k = key THEN value ELSE table[k]]

(***************************************************************************)
(* The client                                                              *)
(***************************************************************************)
AddActor(id, at, item) == [op |-> "add", id |-> id, at |-> at, item |-> item]
RemoveActor(id) == [op |-> "remove", id |-> id]
MoveActor(id, at) == [op |-> "move", id |-> id, at |-> at]
StackSize(id, count) == [op |-> "size", id |-> id, count |-> count]
Frame(cell, item) == [op |-> "frame", cell |-> cell, item |-> item]
ClearFrame(cell) == [op |-> "noframe", cell |-> cell]
Link(v, r, front) == [op |-> "link", vehicle |-> v, rider |-> r, front |-> front]
Unlink(v, r) == [op |-> "unlink", vehicle |-> v, rider |-> r]
Boost(on) == [op |-> "boost", on |-> on]
ListPlayer(u) == [op |-> "list", uuid |-> u]
UnlistPlayer(u) == [op |-> "unlist", uuid |-> u]
ChangeDimension == [op |-> "dimension"]
NoWrite == [op |-> "skip"]

Has(id) == id \in DOMAIN actors \cup {Me}

\* The client ignores a packet about an actor it does not have.  An actor that goes
\* takes its links along.
Receive(w) ==
    /\ actors' = CASE w.op = "add" -> Put(actors, w.id, [at |-> w.at, item |-> w.item])
                   [] w.op = "remove" -> Drop(actors, {w.id})
                   [] w.op = "move" /\ w.id \in DOMAIN actors -> [actors EXCEPT ![w.id].at = w.at]
                   [] w.op = "size" /\ w.id \in DOMAIN actors ->
                         [actors EXCEPT ![w.id].item[2] = w.count]
                   [] w.op = "dimension" -> <<>>
                   [] OTHER -> actors
    /\ links' = CASE w.op = "link" /\ Has(w.vehicle) /\ Has(w.rider) ->
                         {l \in links : l.rider # w.rider}
                         \cup {[vehicle |-> w.vehicle, rider |-> w.rider, front |-> w.front]}
                  [] w.op = "unlink" ->
                         {l \in links : ~(l.vehicle = w.vehicle /\ l.rider = w.rider)}
                  [] w.op = "remove" -> {l \in links : w.id \notin {l.vehicle, l.rider}}
                  [] w.op = "dimension" -> {}
                  [] OTHER -> links
    /\ frames' = CASE w.op = "frame" -> Put(frames, w.cell, w.item)
                   [] w.op = "noframe" -> Drop(frames, {w.cell})
                   [] w.op = "dimension" -> <<>>
                   [] OTHER -> frames
    /\ boosted' = IF w.op = "boost" THEN w.on ELSE boosted
    /\ listed' = CASE w.op = "list" -> listed \cup {w.uuid}
                   [] w.op = "unlist" -> listed \ {w.uuid}
                   [] OTHER -> listed

(***************************************************************************)
(* The writes of the two goroutines                                        *)
(***************************************************************************)
WriteJava ==
    /\ javaWrites # <<>>
    /\ Receive(Head(javaWrites))
    /\ javaWrites' = Tail(javaWrites)
    /\ UNCHANGED <<nature, server, tables, tickWrites, overtaken, counts>>

WriteTick ==
    /\ tickWrites # <<>>
    /\ Receive(Head(tickWrites))
    /\ tickWrites' = Tail(tickWrites)
    /\ UNCHANGED <<nature, server, tables, javaWrites, overtaken, counts>>

About(writes, id) == \E w \in ToSet(writes) : w.op \in {"add", "move"} /\ w.id = id

\* A handler starts when the one before has written everything.
Handles ==
    /\ javaWrites = <<>>
    /\ counts.packets < MaxServerPackets
    /\ counts' = [counts EXCEPT !.packets = @ + 1]

\* What it writes; a position it sets may still be overtaken by a tick's.
Writes(writes) ==
    /\ javaWrites' = writes
    /\ overtaken' = (overtaken \ {id \in Ids : About(writes, id)})
                    \cup {id \in Ids : About(writes, id) /\ About(tickWrites, id)}
    /\ UNCHANGED <<tickWrites, client, nature>>

(***************************************************************************)
(* Spawning                                                                *)
(***************************************************************************)
NewEntity(kind, at, uuid, cell) ==
    [kind |-> kind, at |-> at, uuid |-> uuid, cell |-> cell, item |-> NoItem,
     shown |-> kind \notin {"item", "painting", "orb"}, still |-> FALSE, mine |-> FALSE,
     corrected |-> FALSE]

\* The server spawns an entity: somewhere, or again when it comes into view.  It
\* owes the passengers of the vehicles the entity is or sits in.
ServerSpawns(id, e) ==
    /\ id \notin DOMAIN world
    /\ e.kind = nature[id]
    /\ \A v \in Ids : (id \in ToSet(riders[v]) \/ (v = id /\ riders[v] # <<>>)) => e.kind \in Rideable
    /\ world' = Put(world, id, e)
    /\ owed' = owed \cup {v \in DOMAIN world' \ gone :
                             riders[v] # <<>> /\ (v = id \/ id \in ToSet(riders[v]))}
    /\ UNCHANGED <<riders, gone>>

Enters(id, e) == entities' = Put(entities, id, e)

\* translateSpawnEntity for an entity that is an actor at once.
SpawnActor(id, kind, at) ==
    LET e == NewEntity(kind, at, NoOne, NoOne) IN
    /\ kind \in {"mob", "arrow", "rocket"}
    /\ Handles /\ ServerSpawns(id, e)
    /\ Enters(id, e)
    /\ Writes(<<AddActor(id, at, NoItem)>>)
    /\ UNCHANGED <<players, passengers, vehicle, attachments>>

\* A fishing hook whose owner the bridge does not know is skipped; the local player
\* is no entity of the table.
SpawnHook(id, at, owner) ==
    LET e == NewEntity("hook", at, NoOne, NoOne) IN
    /\ Handles /\ ServerSpawns(id, e)
    /\ IF owner \in DOMAIN entities
       THEN Enters(id, e) /\ Writes(<<AddActor(id, at, NoItem)>>)
       ELSE UNCHANGED entities /\ Writes(<<>>)
    /\ UNCHANGED <<players, passengers, vehicle, attachments>>

\* An item or a painting waits for the metadata that says which.
SpawnUnseen(id, kind, at) ==
    LET e == NewEntity(kind, at, NoOne, NoOne) IN
    /\ kind \in {"item", "painting"}
    /\ Handles /\ ServerSpawns(id, e)
    /\ Enters(id, e)
    /\ Writes(<<>>)
    /\ UNCHANGED <<players, passengers, vehicle, attachments>>

\* translateSpawnExperienceOrb: SpawnExperienceOrb names no actor.
SpawnOrb(id, at) ==
    LET e == NewEntity("orb", at, NoOne, NoOne) IN
    /\ Handles /\ ServerSpawns(id, e)
    /\ Enters(id, e)
    /\ Writes(<<>>)
    /\ UNCHANGED <<players, passengers, vehicle, attachments>>

\* An item frame is a block of the client.  The server is taken to hang one frame
\* into a block: the client has room for no more.
SpawnFrame(id, cell) ==
    LET e == NewEntity("frame", 0, NoOne, cell) IN
    /\ \A j \in DOMAIN world : world[j].kind = "frame" => world[j].cell # cell
    /\ Handles /\ ServerSpawns(id, e)
    /\ Enters(id, e)
    /\ Writes(<<Frame(cell, NoItem)>>)
    /\ UNCHANGED <<players, passengers, vehicle, attachments>>

\* translatePlayerSpawn: a player without player info is skipped.
SpawnPlayer(id, uuid, at) ==
    LET e == NewEntity("player", at, uuid, NoOne) IN
    /\ \A j \in DOMAIN world : world[j].uuid # uuid
    /\ Handles /\ ServerSpawns(id, e)
    /\ IF uuid \in DOMAIN players
       THEN /\ Enters(id, e)
            /\ Writes(<<ListPlayer(uuid), AddActor(id, at, NoItem)>>)
       ELSE UNCHANGED entities /\ Writes(<<>>)
    /\ UNCHANGED <<players, passengers, vehicle, attachments>>

(***************************************************************************)
(* Metadata with a state of its own (translateEntityMetadata)              *)
(***************************************************************************)
Told(id, kind) == id \in DOMAIN world \ gone /\ world[id].kind = kind

\* Mutant: any change of the stack is sent as a change of its size.
ItemWritesSize(id, e, item) ==
    IF ~e.shown THEN <<AddActor(id, e.at, item)>>
    ELSE IF item # e.item THEN <<StackSize(id, item[2])>> ELSE <<>>

\* The first item makes the actor; then a change of the count alone is an event,
\* and any other change a new actor.
ItemWrites(id, e, item) ==
    IF ~e.shown THEN <<AddActor(id, e.at, item)>>
    ELSE IF item = e.item THEN <<>>
    ELSE IF item[1] = e.item[1] THEN <<StackSize(id, item[2])>>
    ELSE <<RemoveActor(id), AddActor(id, e.at, item)>>

\* An empty or unknown item is skipped.
ItemMetadata(id, item) ==
    /\ Told(id, "item")
    /\ Handles
    /\ world' = [world EXCEPT ![id].item = IF item = NoItem THEN @ ELSE item]
    /\ IF item = NoItem THEN UNCHANGED entities /\ Writes(<<>>)
       ELSE /\ entities' = [entities EXCEPT ![id].item = item, ![id].shown = TRUE]
            /\ Writes(ItemWrites(id, entities[id], item))
    /\ UNCHANGED <<riders, owed, gone, players, passengers, vehicle, attachments>>

\* A painting is made and made again, unless the bridge knows no motive for it
\* (NoItem): then the one shown stays.
PaintingMetadata(id, motive) ==
    /\ Told(id, "painting")
    /\ Handles
    /\ world' = [world EXCEPT ![id].item = IF motive = NoItem THEN @ ELSE motive]
    /\ LET e == entities[id] IN
       IF motive = NoItem \/ (e.item = motive /\ e.shown)
       THEN /\ entities' = [entities EXCEPT ![id].item = motive]
            /\ Writes(<<>>)
       ELSE /\ entities' = [entities EXCEPT ![id].item = motive, ![id].shown = TRUE]
            /\ Writes((IF e.shown THEN <<RemoveActor(id)>> ELSE <<>>)
                      \o <<AddActor(id, e.at, motive)>>)
    /\ UNCHANGED <<riders, owed, gone, players, passengers, vehicle, attachments>>

\* A frame is written again when its item (or its rotation) changes.
FrameMetadata(id, item) ==
    /\ Told(id, "frame")
    /\ Handles
    /\ world' = [world EXCEPT ![id].item = item]
    /\ entities' = [entities EXCEPT ![id].item = item]
    /\ Writes(IF item = entities[id].item THEN <<>> ELSE <<Frame(entities[id].cell, item)>>)
    /\ UNCHANGED <<riders, owed, gone, players, passengers, vehicle, attachments>>

\* updateJavaProjectileMetadataLocked: an arrow in the ground is not moved.
ArrowMetadata(id, still) ==
    /\ Told(id, "arrow")
    /\ Handles
    /\ entities' = [entities EXCEPT ![id].still = still]
    /\ Writes(<<>>)
    /\ UNCHANGED <<server, players, passengers, vehicle, attachments>>

\* The boost starts with each rocket and ends with the last.
RocketWrites(wasMine, mine, left) ==
    IF mine = wasMine THEN <<>>
    ELSE IF mine THEN <<Boost(TRUE)>>
    ELSE IF left = {} THEN <<Boost(FALSE)>> ELSE <<>>

\* updateJavaFireworkAttachmentLocked: a rocket carried by someone is not moved.
RocketMetadata(id, owner) ==
    /\ Told(id, "rocket")
    /\ Handles
    /\ LET mine == owner = Me
           left == IF mine THEN attachments \cup {id} ELSE attachments \ {id}
       IN  /\ entities' = [entities EXCEPT ![id].still = (owner # NoOne), ![id].mine = mine]
           /\ attachments' = IF mine = entities[id].mine THEN attachments ELSE left
           /\ Writes(RocketWrites(entities[id].mine, mine, left))
    /\ UNCHANGED <<server, players, passengers, vehicle>>

(***************************************************************************)
(* Movement                                                                *)
(***************************************************************************)
\* translateEntityTeleport, and translateEntityRelativeMove: that one adds what the
\* server moved the entity by to where the bridge has it.
MoveEntity(id, at, relative) ==
    /\ id \in DOMAIN world \ gone /\ world[id].kind # "frame"
    /\ relative => at # world[id].at
    /\ Handles
    /\ world' = [world EXCEPT ![id].at = at, ![id].corrected = TRUE]
    /\ IF id \in DOMAIN entities
       THEN LET to == IF relative THEN entities[id].at + (at - world[id].at) ELSE at
            IN  /\ entities' = [entities EXCEPT ![id].at = to]
                /\ Writes(<<MoveActor(id, to)>>)
       ELSE UNCHANGED entities /\ Writes(<<>>)
    /\ UNCHANGED <<riders, owed, gone, players, passengers, vehicle, attachments>>

Moves(id) == entities[id].kind \in Simulated /\ ~entities[id].still

\* tickProjectiles: javaProjectileStep for every projectile, then the writes, in the
\* order the map was iterated in.  A step adds one here.
TickProjectiles ==
    /\ tickWrites = <<>>
    /\ counts.ticks < MaxTicks
    /\ counts' = [counts EXCEPT !.ticks = @ + 1]
    /\ LET moved == {id \in DOMAIN entities : Moves(id)} IN
       /\ moved # {}
       /\ entities' = [id \in DOMAIN entities |->
                          IF id \in moved THEN [entities[id] EXCEPT !.at = @ + 1] ELSE entities[id]]
       /\ \E order \in SetToSeqs(moved) :
             tickWrites' = [i \in DOMAIN order |-> MoveActor(order[i], entities[order[i]].at + 1)]
       /\ overtaken' = (overtaken \ moved) \cup {id \in moved : About(javaWrites, id)}
       /\ world' = [id \in DOMAIN world |->
                       IF id \in moved THEN [world[id] EXCEPT !.corrected = FALSE] ELSE world[id]]
    /\ UNCHANGED <<nature, riders, owed, gone, players, passengers, vehicle, attachments, javaWrites, client>>

(***************************************************************************)
(* Removal                                                                 *)
(***************************************************************************)
\* What destroying an entity writes: its frame block, or its actor unless there
\* never was one of an item; and the end of the boost with the last rocket.
DestroyWrites(id, e, stops) ==
    (IF stops THEN <<Boost(FALSE)>> ELSE <<>>)
    \o (IF e.kind = "frame" THEN <<ClearFrame(e.cell)>>
        ELSE IF e.kind = "item" /\ ~e.shown THEN <<>> ELSE <<RemoveActor(id)>>)

\* Mutant: the rocket is not taken out of the attachments.
DestroyKeepsAttachment(id) ==
    /\ entities' = Drop(entities, {id})
    /\ passengers' = Drop(passengers, {id})
    /\ vehicle' = IF vehicle = id THEN NoVehicle ELSE vehicle
    /\ UNCHANGED attachments
    /\ Writes(IF id \in DOMAIN entities THEN DestroyWrites(id, entities[id], FALSE) ELSE <<>>)

\* translateEntityDestroy, one ID of it.
Destroy(id) ==
    /\ entities' = Drop(entities, {id})
    /\ passengers' = Drop(passengers, {id})
    /\ vehicle' = IF vehicle = id THEN NoVehicle ELSE vehicle
    /\ LET mine == id \in DOMAIN entities /\ entities[id].mine
       IN  /\ attachments' = IF mine THEN attachments \ {id} ELSE attachments
           /\ Writes(IF id \in DOMAIN entities
                     THEN DestroyWrites(id, entities[id], mine /\ attachments = {id}) ELSE <<>>)

\* Passengers among whom r, who is there once if at all, is no more.
Leaves(seats, r) ==
    IF r \in ToSet(seats) THEN RemoveAt(seats, CHOOSE i \in DOMAIN seats : seats[i] = r) ELSE seats

\* The entity is no more: its riders stand, and its vehicle has one less.
Dies(id) ==
    /\ riders' = [v \in Ids |-> IF v = id THEN <<>> ELSE Leaves(riders[v], id)]
    /\ owed' = (owed \cup {v \in DOMAIN world : id \in ToSet(riders[v])}) \ (gone \cup {id})

\* It is out of view, and keeps its riders and its seat; the player's vehicle cannot.
LeavesView(id) ==
    /\ Me \notin ToSet(riders[id])
    /\ owed' = owed \ {id}
    /\ UNCHANGED riders

RemoveEntity(id) ==
    /\ id \in DOMAIN world
    /\ Handles
    /\ world' = Drop(world, {id})
    /\ gone' = gone \ {id}
    /\ Dies(id) \/ LeavesView(id)
    /\ Destroy(id)
    /\ UNCHANGED players

(***************************************************************************)
(* The player list                                                         *)
(***************************************************************************)
\* translatePlayerInfo: an update without a name is kept and not listed.
PlayerInfo(uuid, named) ==
    /\ Handles
    /\ players' = Put(players, uuid, named \/ (uuid \in DOMAIN players /\ players[uuid]))
    /\ Writes(IF players'[uuid] THEN <<ListPlayer(uuid)>> ELSE <<>>)
    /\ UNCHANGED <<server, entities, passengers, vehicle, attachments>>

\* Mutant: the player's actors stay.
PlayerRemoveListOnly(uuid) ==
    /\ Handles
    /\ players' = Drop(players, {uuid})
    /\ entities' = Drop(entities, {id \in DOMAIN entities : entities[id].uuid = uuid})
    /\ Writes(<<UnlistPlayer(uuid)>>)
    /\ UNCHANGED <<server, passengers, vehicle, attachments>>

\* translatePlayerRemove takes the player's actors along, whether or not the server
\* removes its entity; who rides it is kept.
PlayerRemove(uuid) ==
    /\ Handles
    /\ players' = Drop(players, {uuid})
    /\ LET ids == {id \in DOMAIN entities : entities[id].uuid = uuid} IN
       /\ entities' = Drop(entities, ids)
       /\ \E order \in SetToSeqs(ids) :
             Writes(<<UnlistPlayer(uuid)>> \o [i \in DOMAIN order |-> RemoveActor(order[i])])
    /\ UNCHANGED <<server, passengers, vehicle, attachments>>

(***************************************************************************)
(* Riding                                                                  *)
(***************************************************************************)
\* The server seats somebody, or makes it stand: it will tell the vehicles' riders.
Without(r) == [v \in Ids |-> Leaves(riders[v], r)]
Carries(r) == {v \in Ids : r \in ToSet(riders[v])}

Seat(r, v) ==
    /\ v \in DOMAIN world \ gone /\ world[v].kind \in Rideable
    /\ r # v
    /\ r # Me => (r \in DOMAIN world \ gone /\ world[r].kind \in Rideable /\ riders[r] = <<>>)
    /\ Carries(v) = {}
    /\ r \notin ToSet(riders[v])
    /\ owed = {}
    /\ riders' = [Without(r) EXCEPT ![v] = Append(@, r)]
    /\ owed' = ({v} \cup Carries(r)) \cap (DOMAIN world \ gone)
    /\ UNCHANGED <<nature, world, gone, tables, javaWrites, tickWrites, client, overtaken, counts>>

Stand(r) ==
    /\ Carries(r) # {}
    /\ riders' = Without(r)
    /\ owed' = (owed \cup Carries(r)) \cap (DOMAIN world \ gone)
    /\ UNCHANGED <<nature, world, gone, tables, javaWrites, tickWrites, client, overtaken, counts>>

Known(id) == id = Me \/ id \in DOMAIN entities

\* Mutant: only the riders the list did not have are linked.
NewLinks(v, old, new) ==
    {i \in DOMAIN new : Known(new[i]) /\ new[i] \notin ToSet(old)}

\* Every known rider is linked each time: one may have been unknown the last time.
LinkedSeats(v, old, new) == {i \in DOMAIN new : Known(new[i])}

\* translateJavaSetPassengers: links of those who left, then of those who sit, a step
\* of either loop at a time.
LinkWrites(v, old, new) ==
    [i \in DOMAIN old |-> IF old[i] \in ToSet(new) THEN NoWrite ELSE Unlink(v, old[i])]
    \o [i \in DOMAIN new |-> IF i \in LinkedSeats(v, old, new) THEN Link(v, new[i], i = 1) ELSE NoWrite]

VehicleAfter(v, new) ==
    IF Me \in ToSet(new) THEN v ELSE IF vehicle = v THEN NoVehicle ELSE vehicle

SetPassengers(v) ==
    /\ v \in owed
    /\ Handles
    /\ owed' = owed \ {v}
    /\ LET new == riders[v]
           old == IF v \in DOMAIN passengers THEN passengers[v] ELSE <<>>
       IN  /\ passengers' = Put(passengers, v, new)
           /\ vehicle' = VehicleAfter(v, new)
           /\ Writes(IF Known(v) THEN LinkWrites(v, old, new) ELSE <<>>)
    /\ UNCHANGED <<world, riders, gone, entities, players, attachments>>

\* javaCurrentVehicleLocked: the vehicle remembered, or any whose list has the player.
CurrentVehicles ==
    LET carrying == {v \in DOMAIN passengers : Me \in ToSet(passengers[v])}
    IN  IF vehicle \in carrying THEN {vehicle} ELSE carrying

\* Mutant: the table keeps the position the vehicle had.
DriveActor(v, at) ==
    /\ UNCHANGED entities
    /\ Writes(IF v \in DOMAIN entities THEN <<MoveActor(v, at)>> ELSE <<>>)

Drive(v, at) ==
    IF v \in DOMAIN entities
    THEN /\ entities' = [entities EXCEPT ![v].at = at]
         /\ Writes(<<MoveActor(v, at)>>)
    ELSE UNCHANGED entities /\ Writes(<<>>)

\* translateJavaVehicleMove: the packet names no vehicle.
MoveVehicle(at) ==
    /\ Carries(Me) # {} /\ owed = {}
    /\ Handles
    /\ world' = [v \in DOMAIN world |->
                    IF v \in Carries(Me) THEN [world[v] EXCEPT !.at = at] ELSE world[v]]
    /\ IF CurrentVehicles = {}
       THEN /\ vehicle' = NoVehicle
            /\ UNCHANGED entities /\ Writes(<<>>)
       ELSE \E v \in CurrentVehicles : vehicle' = v /\ Drive(v, at)
    /\ UNCHANGED <<riders, owed, gone, players, passengers, attachments>>

\* translateJavaRespawn into another dimension: the client drops its world, the
\* tables stay, and the server removes what it had spawned, entity by entity.
LeaveDimension ==
    /\ Carries(Me) = {} /\ owed = {} /\ DOMAIN world # {}
    /\ Handles
    /\ gone' = DOMAIN world
    /\ Writes(<<ChangeDimension>>)
    /\ UNCHANGED <<world, riders, owed, tables>>

(***************************************************************************)
Players == \E id \in Ids : nature[id] = "player"

EntitiesInit ==
    /\ nature \in Natures
    /\ world = <<>> /\ riders = [v \in Ids |-> <<>>] /\ owed = {} /\ gone = {}
    /\ entities = <<>> /\ players = <<>> /\ passengers = <<>>
    /\ vehicle = NoVehicle /\ attachments = {}
    /\ javaWrites = <<>> /\ tickWrites = <<>>
    /\ actors = <<>> /\ frames = <<>> /\ links = {} /\ boosted = FALSE /\ listed = {}
    /\ overtaken = {} /\ counts = [packets |-> 0, ticks |-> 0]

\* The server spawns nothing new while it still removes the entities left behind.
Spawns ==
    /\ gone = {}
    /\ \E id \in Ids, at \in Positions :
          \/ SpawnActor(id, nature[id], at)
          \/ SpawnUnseen(id, nature[id], at)
          \/ \E owner \in Ids \cup {Me} : SpawnHook(id, at, owner)
          \/ SpawnOrb(id, at)
          \/ \E c \in Cells : SpawnFrame(id, c)
          \/ \E u \in Uuids : SpawnPlayer(id, u, at)

EntitiesNext ==
    \/ WriteJava
    \/ WriteTick
    \/ Spawns
    \/ \E id \in Ids, i \in Items \cup {NoItem} : ItemMetadata(id, i)
    \/ \E id \in Ids, i \in Items \cup {NoItem} : PaintingMetadata(id, i)
    \/ \E id \in Ids, i \in Items \cup {NoItem} : FrameMetadata(id, i)
    \/ \E id \in Ids, b \in BOOLEAN : ArrowMetadata(id, b)
    \/ \E id \in Ids, o \in {NoOne, Me} \cup Ids : RocketMetadata(id, o)
    \/ \E id \in Ids, at \in Positions, relative \in BOOLEAN : MoveEntity(id, at, relative)
    \/ TickProjectiles
    \/ \E id \in Ids : RemoveEntity(id)
    \/ \E u \in Uuids, b \in BOOLEAN : Players /\ PlayerInfo(u, b)
    \/ \E u \in Uuids : Players /\ PlayerRemove(u)
    \/ \E r \in Ids \cup {Me}, v \in Ids : Seat(r, v)
    \/ \E r \in Ids \cup {Me} : Stand(r)
    \/ \E v \in Ids : SetPassengers(v)
    \/ \E at \in Positions : MoveVehicle(at)
    \/ LeaveDimension

EntitiesSpec == EntitiesInit /\ [][EntitiesNext]_entityVars

(***************************************************************************)
(* Properties                                                              *)
(***************************************************************************)
\* The handlers have written all they had to.
Settled == javaWrites = <<>>

\* What the server tells of is what the client shows: an actor for each entity of the
\* table that has one, none for anything else, and each with the item or the motive
\* the server gave it last.  Every mob, arrow and rocket of the server is among them,
\* and every frame is a block, of which none is left when its entity is gone.
ActorsAgree ==
    Settled =>
        /\ DOMAIN entities \subseteq DOMAIN world
        /\ DOMAIN actors = {id \in DOMAIN entities \ gone :
                               entities[id].shown /\ entities[id].kind # "frame"}
        /\ \A id \in DOMAIN actors :
              /\ entities[id].kind = world[id].kind
              /\ actors[id].item = world[id].item
        /\ \A id \in DOMAIN world \ gone :
              world[id].kind \in {"mob", "arrow", "rocket"} => id \in DOMAIN actors
        /\ LET hung == {id \in DOMAIN world \ gone : world[id].kind = "frame"}
           IN  frames = [c \in {world[id].cell : id \in hung} |->
                           world[CHOOSE id \in hung : world[id].cell = c].item]

\* An actor is where the server put it; one the bridge moves is where the bridge has
\* it, unless a tick's write and a handler's passed each other (overtaken): the next
\* write heals that, and there is none for an arrow that sticks in the ground.
PositionsAgree ==
    (Settled /\ tickWrites = <<>>) =>
        \A id \in DOMAIN actors :
            /\ world[id].kind \notin Simulated =>
                  actors[id].at = world[id].at /\ entities[id].at = world[id].at
            /\ id \notin overtaken => actors[id].at = entities[id].at

\* "The server's authoritative movement packets still correct the simulated state"
\* (the comment of javaProjectileStep): an entity the server moved, and the bridge not
\* since (corrected), is where the server has it.
ServerCorrects ==
    (Settled /\ tickWrites = <<>>) =>
        \A id \in DOMAIN actors : world[id].corrected => actors[id].at = world[id].at

\* Once the server has told its passengers, the client has exactly their links, with
\* the one who steers in front, as far as it has the actors; entities that came into
\* view after their vehicle included.  And a vehicle movement, which names no vehicle,
\* moves the one the player is in.
RidersAgree ==
    (Settled /\ owed = {}) =>
        /\ links = UNION {{[vehicle |-> v, rider |-> riders[v][i], front |-> i = 1] :
                              i \in {j \in DOMAIN riders[v] : Has(riders[v][j])}} :
                          v \in DOMAIN actors}
        /\ CurrentVehicles = Carries(Me)
        /\ vehicle \in Carries(Me) \cup {NoVehicle}

\* The player glides faster as long as a rocket is attached to it, and the bridge
\* counts the rockets that are.
BoostAgrees ==
    Settled =>
        /\ attachments = {id \in DOMAIN entities : entities[id].mine}
        /\ boosted = (attachments # {})

\* The client has the skin of every player it sees, and lists nobody who has left.
PlayersListed ==
    Settled =>
        /\ \A id \in DOMAIN actors : world[id].kind = "player" => world[id].uuid \in listed
        /\ {u \in DOMAIN players : players[u]} \subseteq listed
        /\ listed \subseteq DOMAIN players
=============================================================================

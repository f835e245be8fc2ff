-------------------------- MODULE Entities_proofs --------------------------
(***************************************************************************)
(* Proofs that the client shows the entities the server tells of: actors   *)
(* and what they hold, frames, positions, riders, the boost and the player *)
(* list, for any number of entities, players, blocks, packets and ticks.   *)
(*                                                                         *)
(* The properties speak of a client that has read all the handlers wrote,  *)
(* so each part of the invariant follows the packets on their way: a       *)
(* difference between the client and the tables is what a packet makes up, *)
(* and what a packet says is still so when it is read.  First every action *)
(* is brought to one of a few kinds of steps (Step), each of which keeps   *)
(* the tables right (Tab); then every part of the invariant is kept by     *)
(* every kind of step.                                                     *)
(***************************************************************************)
EXTENDS Entities, DataLemmas, FiniteSetTheorems, TLAPS

Item == Items \cup {NoItem}
People == Ids \cup {Me}
Entity(kind) ==
    [kind : {kind}, at : Int, uuid : Uuids \cup {NoOne}, cell : Cells \cup {NoOne}, item : Item,
     shown : BOOLEAN, still : BOOLEAN, mine : BOOLEAN, corrected : BOOLEAN]
Packet ==
    [op : {"add"}, id : Ids, at : Int, item : Item]
    \cup [op : {"move"}, id : Ids, at : Int]
    \cup [op : {"remove"}, id : Ids]
    \cup [op : {"size"}, id : Ids, count : {i[2] : i \in Item}]
    \cup [op : {"frame"}, cell : Cells, item : Item]
    \cup [op : {"noframe"}, cell : Cells]
    \cup [op : {"link"}, vehicle : Ids, rider : People, front : BOOLEAN]
    \cup [op : {"unlink"}, vehicle : Ids, rider : People]
    \cup [op : {"boost"}, on : BOOLEAN]
    \cup [op : {"list", "unlist"}, uuid : Uuids]
    \cup [op : {"dimension", "skip"}]

\* What the server has, and what the bridge has of it: no entity the server does not have, and
\* what it remembers of one is what the server said.
ServerEntities ==
    /\ DOMAIN nature = Ids /\ DOMAIN world \subseteq Ids
    /\ \A id \in DOMAIN world :
          /\ world[id] \in Entity(nature[id])
          /\ world[id].uuid \in Uuids <=> nature[id] = "player"
          /\ nature[id] = "frame" => world[id].cell \in Cells
    /\ \A i, j \in DOMAIN world :
          nature[i] = "frame" /\ nature[j] = "frame" /\ world[i].cell = world[j].cell => i = j
    /\ gone \subseteq DOMAIN world
    /\ gone # {} => gone = DOMAIN world /\ owed = {}
BridgeEntities ==
    /\ DOMAIN entities \subseteq DOMAIN world
    /\ \A id \in DOMAIN entities :
          /\ entities[id] \in Entity(nature[id])
          /\ entities[id].uuid = world[id].uuid /\ entities[id].cell = world[id].cell
          /\ entities[id].item \in {NoItem, world[id].item}
          /\ nature[id] # "painting" => entities[id].item = world[id].item
          /\ nature[id] \notin {"item", "painting", "orb"} => entities[id].shown
          /\ nature[id] = "orb" => ~entities[id].shown
          /\ entities[id].shown /\ nature[id] \notin {"item", "painting"} /\ nature[id] # "frame" => entities[id].item = NoItem
          /\ entities[id].mine => nature[id] = "rocket"
    /\ \A id \in DOMAIN world \ gone : nature[id] \notin {"hook", "player"} => id \in DOMAIN entities
    /\ \A id \in DOMAIN entities : nature[id] = "player" => entities[id].uuid \in DOMAIN players

\* The packets still to be written: a tick only moves what is simulated.
WritesTyped ==
    /\ javaWrites \in Seq(Packet)
    /\ tickWrites \in Seq([op : {"move"}, id : {id \in Ids : nature[id] \in Simulated}, at : Int])


\* An actor is at the client if the bridge has one shown, unless a packet on its way will bring
\* it or take it; what a packet brings is what the server has, and nothing behind it takes it.
Want(id) == id \in DOMAIN entities \ gone /\ entities[id].shown /\ nature[id] # "frame"
Op(i, op, id) == javaWrites[i].op = op /\ javaWrites[i].id = id
Touches(id) == \E i \in DOMAIN javaWrites :
    \/ javaWrites[i].op = "dimension"
    \/ javaWrites[i].op \in {"add", "remove"} /\ javaWrites[i].id = id
ActorInv ==
    /\ \A i \in DOMAIN javaWrites :
        /\ javaWrites[i].op = "add" =>
              LET id == javaWrites[i].id IN
              /\ Want(id) /\ javaWrites[i].item = world[id].item
              /\ \A j \in DOMAIN javaWrites : j > i =>
                    javaWrites[j].op \notin {"add", "remove", "size", "dimension"}
        /\ javaWrites[i].op = "remove" =>
              \/ ~Want(javaWrites[i].id)
              \/ \E j \in DOMAIN javaWrites : j > i /\ Op(j, "add", javaWrites[i].id)
        /\ javaWrites[i].op = "size" =>
              LET id == javaWrites[i].id IN
              /\ Len(javaWrites) = 1 /\ id \in DOMAIN actors /\ Want(id)
              /\ world[id].item = <<actors[id].item[1], javaWrites[i].count>>
        /\ javaWrites[i].op = "dimension" => Len(javaWrites) = 1 /\ gone = DOMAIN world
    /\ \A id \in Ids : ~Touches(id) =>
          /\ id \in DOMAIN actors <=> Want(id)
          /\ id \in DOMAIN actors => \/ actors[id].item = world[id].item
                                     \/ \E i \in DOMAIN javaWrites : Op(i, "size", id)
    /\ DOMAIN actors \subseteq Ids
    /\ \A id \in DOMAIN actors : actors[id] \in [at : Int, item : Item]

\* A frame block is where a frame hangs, with its item, unless a packet on its way puts it
\* there or clears it.
Hung(id) == id \in DOMAIN world \ gone /\ nature[id] = "frame"
Framing(c) == \E i \in DOMAIN javaWrites :
    \/ javaWrites[i].op = "dimension"
    \/ javaWrites[i].op \in {"frame", "noframe"} /\ javaWrites[i].cell = c
FrameInv ==
    /\ frames = [c \in DOMAIN frames |-> frames[c]] /\ DOMAIN frames \subseteq Cells
    /\ \A i, j \in DOMAIN javaWrites :
         javaWrites[i].op \in {"frame", "noframe"} /\ javaWrites[j].op \in {"frame", "noframe"} => i = j
    /\ \A i \in DOMAIN javaWrites :
        /\ javaWrites[i].op = "frame" =>
             \E id \in Ids : Hung(id) /\ world[id].cell = javaWrites[i].cell
                               /\ world[id].item = javaWrites[i].item
        /\ javaWrites[i].op = "noframe" => \A id \in Ids : Hung(id) => world[id].cell # javaWrites[i].cell
    /\ \A c \in Cells : ~Framing(c) =>
         /\ c \in DOMAIN frames => \E id \in Ids : Hung(id) /\ world[id].cell = c
    /\ \A id \in Ids : Hung(id) /\ ~Framing(world[id].cell) =>
            world[id].cell \in DOMAIN frames /\ frames[world[id].cell] = world[id].item

\* The boost is as the attached rockets have it, or a packet on its way makes it so.
BoostInv ==
    /\ attachments = {id \in DOMAIN entities : entities[id].mine}
    /\ \A i \in DOMAIN javaWrites : javaWrites[i].op = "boost" => javaWrites[i].on = (attachments # {})
    /\ (\A i \in DOMAIN javaWrites : javaWrites[i].op # "boost") => boosted = (attachments # {})

\* Who is known is listed or about to be, who is listed is known or about to be struck off,
\* and a player with an actor is listed before it.
Lists(i, op, u) == javaWrites[i].op = op /\ javaWrites[i].uuid = u
ListInv ==
    /\ \A i \in DOMAIN javaWrites :
         /\ javaWrites[i].op = "list" => javaWrites[i].uuid \in DOMAIN players
         /\ javaWrites[i].op = "unlist" => javaWrites[i].uuid \notin DOMAIN players
    /\ \A u \in DOMAIN players : players[u] =>
         u \in listed \/ \E i \in DOMAIN javaWrites : Lists(i, "list", u)
    /\ \A u \in listed : u \in DOMAIN players \/ \E i \in DOMAIN javaWrites : Lists(i, "unlist", u)
    /\ \A id \in DOMAIN entities : nature[id] = "player" =>
         \/ entities[id].uuid \in listed
         \/ \E i \in DOMAIN javaWrites : Lists(i, "list", entities[id].uuid)

\* The last packet that places an actor places it where the bridge has it, unless packets of
\* the handler and of the tick overtook each other.
Moved(q, id) == \E i \in DOMAIN q : q[i].op \in {"add", "move"} /\ q[i].id = id
PositionInv ==
    /\ overtaken \subseteq {id \in Ids : nature[id] \in Simulated}
    /\ \A id \in Ids : Moved(javaWrites, id) /\ Moved(tickWrites, id) => id \in overtaken
    /\ \A id \in DOMAIN entities \ overtaken :
         /\ \A i \in DOMAIN javaWrites :
              javaWrites[i].op \in {"add", "move"} /\ javaWrites[i].id = id => javaWrites[i].at = entities[id].at
         /\ id \in DOMAIN actors => \A i \in DOMAIN tickWrites :
              tickWrites[i].op = "move" /\ tickWrites[i].id = id => tickWrites[i].at = entities[id].at
         /\ id \in DOMAIN actors /\ ~Moved(javaWrites, id) /\ ~Moved(tickWrites, id) =>
              actors[id].at = entities[id].at
    /\ \A id \in DOMAIN entities : nature[id] \notin Simulated => entities[id].at = world[id].at

\* Riders at the server: nobody sits twice.
Distinct(s) == \A i, j \in DOMAIN s : s[i] = s[j] => i = j
RiderInv ==
    /\ riders \in [Ids -> Seq(People)]
    /\ \A v \in Ids : Distinct(riders[v])
    /\ \A v \in Ids : \A r \in ToSet(riders[v]) :
          /\ nature[v] \in Rideable
          /\ r = Me \/ nature[r] \in Rideable
          /\ r = Me => v \in DOMAIN world \ gone
    /\ \A v, w \in Ids : \A r : r \in ToSet(riders[v]) /\ r \in ToSet(riders[w]) => v = w
    /\ owed \subseteq DOMAIN world \ gone

\* The bridge has the riders of every vehicle the server owes nothing about.
ToldOf(v) == IF v \in DOMAIN passengers THEN passengers[v] ELSE <<>>
TableInv ==
    /\ DOMAIN passengers \subseteq DOMAIN world
    /\ \A v \in DOMAIN passengers : passengers[v] \in Seq(People)
    /\ \A v \in DOMAIN world \ (gone \cup owed) : ToldOf(v) = riders[v]
    /\ \A v \in gone : Me \notin ToSet(ToldOf(v))
    /\ vehicle # NoVehicle => vehicle \in DOMAIN passengers /\ Me \in ToSet(passengers[vehicle])

\* A link at the client is of a rider the bridge has, in its seat, or a packet on its way undoes
\* it or an end of it; and each rider the client can show is linked, or about to be.
Links(i, op, v, r) == javaWrites[i].op = op /\ javaWrites[i].vehicle = v /\ javaWrites[i].rider = r
Removing(id) == \E i \in DOMAIN javaWrites :
    \/ javaWrites[i].op = "dimension"
    \/ javaWrites[i].op = "remove" /\ javaWrites[i].id = id
LinkInv ==
    /\ \A l \in links :
         /\ l \in [vehicle : Ids, rider : People, front : BOOLEAN]
         /\ l.vehicle \in DOMAIN actors /\ (l.rider \in DOMAIN actors \cup {Me})
         /\ \/ Removing(l.vehicle) \/ Removing(l.rider)
            \/ l.vehicle \in DOMAIN passengers /\ l.rider \in ToSet(passengers[l.vehicle])
            \/ \E i \in DOMAIN javaWrites : Links(i, "unlink", l.vehicle, l.rider)
         /\ \/ Removing(l.vehicle) \/ Removing(l.rider)
            \/ l.vehicle \in owed
            \/ \E i \in DOMAIN riders[l.vehicle] : riders[l.vehicle][i] = l.rider /\ l.front = (i = 1)
            \/ \E i \in DOMAIN javaWrites : javaWrites[i].op \in {"link", "unlink"}
                   /\ javaWrites[i].vehicle = l.vehicle /\ javaWrites[i].rider = l.rider
         /\ \A m \in links : l.rider = m.rider => l = m
    /\ \A i \in DOMAIN javaWrites : javaWrites[i].op = "link" =>
         LET w == javaWrites[i] IN
         /\ w.vehicle \in DOMAIN actors /\ w.rider \in DOMAIN actors \cup {Me}
         /\ w.vehicle \in DOMAIN passengers /\ w.rider \in ToSet(passengers[w.vehicle])
         /\ \A v \in Ids : v # w.vehicle /\ w.rider \in ToSet(riders[v]) => v \in owed
         /\ w.vehicle \in owed \/ \E k \in DOMAIN riders[w.vehicle] : riders[w.vehicle][k] = w.rider /\ w.front = (k = 1)
         /\ \A j \in DOMAIN javaWrites : javaWrites[j].op \in {"link", "unlink", "skip"}
         /\ \A j \in DOMAIN javaWrites : j # i /\ javaWrites[j].op \in {"link", "unlink"} => javaWrites[j].rider # w.rider
    /\ \A i \in DOMAIN javaWrites : javaWrites[i].op = "unlink" =>
          javaWrites[i].vehicle \in owed \/ javaWrites[i].rider \notin ToSet(riders[javaWrites[i].vehicle])
    /\ \A v \in DOMAIN actors \ owed : \A i \in DOMAIN riders[v] :
         Has(riders[v][i]) =>
           \/ [vehicle |-> v, rider |-> riders[v][i], front |-> (i = 1)] \in links
           \/ \E j \in DOMAIN javaWrites : Links(j, "link", v, riders[v][i])
           \/ Removing(v) \/ Removing(riders[v][i])

\* What the client makes of each packet.
LEMMA ReceiveAdd ==
    ASSUME NEW w, w.op = "add", Receive(w)
    PROVE  actors' = Put(actors, w.id, [at |-> w.at, item |-> w.item])
           /\ UNCHANGED <<links, frames, boosted, listed>>
  BY DEF Receive

\* It takes an actor, and the links it is in.
LEMMA ReceiveRemove ==
    ASSUME NEW w, w.op = "remove", Receive(w)
    PROVE  /\ actors' = Drop(actors, {w.id})
           /\ links' = {l \in links : w.id \notin {l.vehicle, l.rider}}
           /\ UNCHANGED <<frames, boosted, listed>>
  BY DEF Receive

\* It moves an actor it has.
LEMMA ReceiveMove ==
    ASSUME NEW w, w.op = "move", Receive(w)
    PROVE  /\ actors' = IF w.id \in DOMAIN actors THEN [actors EXCEPT ![w.id].at = w.at] ELSE actors
           /\ UNCHANGED <<links, frames, boosted, listed>>
  BY DEF Receive

\* It changes the count of a stack it has.
LEMMA ReceiveSize ==
    ASSUME NEW w, w.op = "size", Receive(w), w.id \in DOMAIN actors
    PROVE  /\ actors' = [actors EXCEPT ![w.id].item[2] = w.count]
           /\ UNCHANGED <<links, frames, boosted, listed>>
  BY DEF Receive

\* It has nothing left in another dimension.
LEMMA ReceiveDimension ==
    ASSUME NEW w, w.op = "dimension", Receive(w)
    PROVE  actors' = <<>> /\ links' = {} /\ frames' = <<>> /\ UNCHANGED <<boosted, listed>>
  BY DEF Receive

\* It seats a rider it has in a vehicle it has, and out of any other.
LEMMA ReceiveLink ==
    ASSUME NEW w, w.op = "link", Receive(w)
    PROVE  /\ links' = IF Has(w.vehicle) /\ Has(w.rider)
                       THEN {l \in links : l.rider # w.rider}
                            \cup {[vehicle |-> w.vehicle, rider |-> w.rider, front |-> w.front]}
                       ELSE links
           /\ UNCHANGED <<actors, frames, boosted, listed>>
  BY DEF Receive

\* It takes a link away.
LEMMA ReceiveUnlink ==
    ASSUME NEW w, w.op = "unlink", Receive(w)
    PROVE  /\ links' = {l \in links : ~(l.vehicle = w.vehicle /\ l.rider = w.rider)}
           /\ UNCHANGED <<actors, frames, boosted, listed>>
  BY DEF Receive

\* It shows a frame, or shows it no more.
LEMMA ReceiveFrame ==
    ASSUME NEW w, w.op \in {"frame", "noframe"}, Receive(w)
    PROVE  /\ frames' = IF w.op = "frame" THEN Put(frames, w.cell, w.item) ELSE Drop(frames, {w.cell})
           /\ UNCHANGED <<actors, links, boosted, listed>>
  BY DEF Receive

\* It boosts or stops.
LEMMA ReceiveBoost ==
    ASSUME NEW w, w.op = "boost", Receive(w)
    PROVE  boosted' = w.on /\ UNCHANGED <<actors, links, frames, listed>>
  BY DEF Receive

\* What packets are made of.
LEMMA Packets ==
    ASSUME NEW w \in Packet
    PROVE  /\ w.op \in {"add", "move", "remove", "size", "frame", "noframe", "link", "unlink", "boost",
                        "list", "unlist", "dimension", "skip"}
           /\ w.op \in {"add", "move", "remove", "size"} => w.id \in Ids
           /\ w.op = "add" => w.item \in Item
           /\ w.op \in {"add", "move"} => w.at \in Int
           /\ w.op = "size" => \E i \in Item : w.count = i[2]
           /\ w.op \in {"frame", "noframe"} => w.cell \in Cells
           /\ w.op \in {"list", "unlist"} => w.uuid \in Uuids
           /\ w.op \in {"link", "unlink"} => w.vehicle \in Ids /\ w.rider \in People
           /\ w.op = "link" => w.front \in BOOLEAN
  <1>1. CASE w \in [op : {"add"}, id : Ids, at : Int, item : Item]
    BY <1>1
  <1>2. CASE w \in [op : {"move"}, id : Ids, at : Int]
    BY <1>2
  <1>3. CASE w \in [op : {"remove"}, id : Ids]
    BY <1>3
  <1>4. CASE w \in [op : {"size"}, id : Ids, count : {i[2] : i \in Item}]
    BY <1>4
  <1>5. CASE w \in [op : {"frame"}, cell : Cells, item : Item] \cup [op : {"noframe"}, cell : Cells]
    BY <1>5
  <1>6. CASE w \in [op : {"link"}, vehicle : Ids, rider : People, front : BOOLEAN]
    BY <1>6
  <1>7. CASE w \in [op : {"unlink"}, vehicle : Ids, rider : People]
    BY <1>7
  <1>8. CASE w \in [op : {"boost"}, on : BOOLEAN]
    BY <1>8
  <1>9. CASE w \in [op : {"list", "unlist"}, uuid : Uuids]
    BY <1>9
  <1>10. CASE w \in [op : {"dimension", "skip"}]
    BY <1>10
  <1> QED BY <1>1, <1>2, <1>3, <1>4, <1>5, <1>6, <1>7, <1>8, <1>9, <1>10 DEF Packet

(***************************************************************************)
(* Steps of the server and their handlers, by what they do                 *)
(***************************************************************************)
OthersKept(id) ==
    \A j \in Ids \ {id} :
        /\ j \in DOMAIN world' <=> j \in DOMAIN world
        /\ j \in DOMAIN entities' <=> j \in DOMAIN entities
        /\ j \in DOMAIN world => world'[j] = world[j]
        /\ j \in DOMAIN entities => entities'[j] = entities[j]

\* the entity id spawns as e
Spawning(id, e) ==
    /\ id \in Ids /\ id \notin DOMAIN world /\ gone = {} /\ javaWrites = <<>>
    /\ e \in Entity(nature[id])
    /\ e.item = NoItem /\ ~e.mine /\ (e.shown <=> nature[id] \notin {"item", "painting", "orb"})
    /\ e.uuid \in Uuids <=> nature[id] = "player"
    /\ nature[id] = "frame" =>
          e.cell \in Cells /\ \A j \in DOMAIN world : nature[j] = "frame" => world[j].cell # e.cell
    /\ OthersKept(id)
    /\ DOMAIN world' = DOMAIN world \cup {id} /\ world'[id] = e
    /\ \A v \in Ids : (id \in ToSet(riders[v]) \/ (v = id /\ riders[v] # <<>>)) => nature[id] \in Rideable
    /\ owed' = owed \cup {v \in DOMAIN world' \ gone :
                             riders[v] # <<>> /\ (v = id \/ id \in ToSet(riders[v]))}
    /\ UNCHANGED <<nature, riders, gone, players, passengers, vehicle, attachments, tickWrites, client>>
    /\ \/ /\ nature[id] \in {"hook", "player"}
          /\ entities' = entities /\ Writes(<<>>)
       \/ /\ DOMAIN entities' = DOMAIN entities \cup {id} /\ entities'[id] = e
          /\ \/ nature[id] \in {"mob", "arrow", "rocket", "hook"} /\ Writes(<<AddActor(id, e.at, NoItem)>>)
             \/ nature[id] \in {"item", "painting", "orb"} /\ Writes(<<>>)
             \/ nature[id] = "frame" /\ Writes(<<Frame(e.cell, NoItem)>>)
             \/ /\ nature[id] = "player" /\ e.uuid \in DOMAIN players
                /\ Writes(<<ListPlayer(e.uuid), AddActor(id, e.at, NoItem)>>)

\* A new entity is an entity of its kind.
LEMMA NewTyped ==
    ASSUME NEW id \in Ids, NEW at \in Positions, NEW uuid \in Uuids \cup {NoOne}, NEW cell \in Cells \cup {NoOne},
           NEW kind
    PROVE  LET e == NewEntity(kind, at, uuid, cell) IN
           /\ e \in Entity(kind) /\ e.kind = kind /\ e.at = at /\ e.uuid = uuid /\ e.cell = cell
           /\ e.item = NoItem /\ ~e.mine /\ (e.shown <=> kind \notin {"item", "painting", "orb"})
  BY EntitiesAssumption DEF NewEntity, Entity, Item

\* No player and no block is the one there is none of.
LEMMA NoOneElse == NoOne \notin Uuids /\ NoOne \notin Cells /\ 0 \in Int /\ Positions \subseteq Int
  BY EntitiesAssumption DEF NoOne

\* Every kind of spawning is a Spawning.
LEMMA SpawnSteps ==
    ASSUME ServerEntities, BridgeEntities, Spawns
    PROVE  \E id, e : Spawning(id, e)
  <1>0. gone = {} /\ javaWrites = <<>> /\ DOMAIN entities \subseteq DOMAIN world
    BY DEF Spawns, SpawnActor, SpawnHook, SpawnUnseen, SpawnOrb, SpawnFrame, SpawnPlayer, Handles, BridgeEntities
  <1>1. ASSUME NEW id \in Ids, NEW e, e \in Entity(nature[id]), ServerSpawns(id, e),
               e.item = NoItem, ~e.mine, e.shown <=> nature[id] \notin {"item", "painting", "orb"},
               e.uuid \in Uuids <=> nature[id] = "player",
               nature[id] = "frame" =>
                  e.cell \in Cells /\ \A j \in DOMAIN world : nature[j] = "frame" => world[j].cell # e.cell,
               UNCHANGED <<players, passengers, vehicle, attachments>>,
               UNCHANGED <<nature, tickWrites, client>>,
               \/ /\ nature[id] \in {"hook", "player"}
                  /\ entities' = entities /\ Writes(<<>>)
               \/ /\ Enters(id, e)
                  /\ \/ nature[id] \in {"mob", "arrow", "rocket", "hook"} /\ Writes(<<AddActor(id, e.at, NoItem)>>)
                     \/ nature[id] \in {"item", "painting", "orb"} /\ Writes(<<>>)
                     \/ nature[id] = "frame" /\ Writes(<<Frame(e.cell, NoItem)>>)
                     \/ /\ nature[id] = "player" /\ e.uuid \in DOMAIN players
                        /\ Writes(<<ListPlayer(e.uuid), AddActor(id, e.at, NoItem)>>)
        PROVE  Spawning(id, e)
    <2>1. world' = Put(world, id, e) /\ id \notin DOMAIN world /\ e.kind = nature[id]
      BY <1>1 DEF ServerSpawns
    <2>2. /\ DOMAIN world' = DOMAIN world \cup {id} /\ world'[id] = e
          /\ \A j \in DOMAIN world : world'[j] = world[j]
      BY <2>1 DEF Put
    <2>3. Enters(id, e) => /\ DOMAIN entities' = DOMAIN entities \cup {id} /\ entities'[id] = e
                           /\ \A j \in DOMAIN entities : entities'[j] = entities[j]
      <3> SUFFICES ASSUME Enters(id, e)
                   PROVE  /\ DOMAIN entities' = DOMAIN entities \cup {id} /\ entities'[id] = e
                          /\ \A j \in DOMAIN entities : entities'[j] = entities[j]
        OBVIOUS
      <3>1. entities' = Put(entities, id, e) /\ id \notin DOMAIN entities
        BY <1>0, <2>1 DEF Enters
      <3> QED BY <3>1 DEF Put
    <2>4. OthersKept(id)
      <3>1. (DOMAIN entities' = DOMAIN entities \/ DOMAIN entities' = DOMAIN entities \cup {id})
            /\ \A j \in DOMAIN entities : entities'[j] = entities[j]
        BY <1>1, <2>3
      <3> QED BY <2>2, <3>1 DEF OthersKept
    <2>5. /\ \A v \in Ids : (id \in ToSet(riders[v]) \/ (v = id /\ riders[v] # <<>>)) => nature[id] \in Rideable
          /\ owed' = owed \cup {v \in DOMAIN world' \ gone :
                             riders[v] # <<>> /\ (v = id \/ id \in ToSet(riders[v]))}
          /\ UNCHANGED <<riders, gone>>
      BY <1>1, <2>1 DEF ServerSpawns
    <2> QED BY <1>0, <1>1, <2>1, <2>2, <2>3, <2>4, <2>5 DEF Spawning
  <1>2. \A ws : Writes(ws) => UNCHANGED <<nature, tickWrites, client>>
    BY DEF Writes
  <1> DEFINE Fits(id, e) ==
               /\ e \in Entity(nature[id]) /\ e.item = NoItem /\ ~e.mine
               /\ e.shown <=> nature[id] \notin {"item", "painting", "orb"}
  <1>3. ASSUME NEW id \in Ids, NEW at \in Positions, SpawnActor(id, nature[id], at)
        PROVE  \E e : Spawning(id, e)
    <2> DEFINE e == NewEntity(nature[id], at, NoOne, NoOne)
    <2>1. Fits(id, e) /\ e.uuid = NoOne /\ e.at = at /\ e.kind = nature[id]
      BY NewTyped
    <2>2. /\ ServerSpawns(id, e) /\ Enters(id, e) /\ Writes(<<AddActor(id, e.at, NoItem)>>)
          /\ nature[id] \in {"mob", "arrow", "rocket"}
          /\ UNCHANGED <<players, passengers, vehicle, attachments>>
      BY <1>3, <2>1 DEF SpawnActor
    <2> HIDE DEF e
    <2>3. Spawning(id, e)
      BY <1>1, <1>2, <2>1, <2>2, NoOneElse
    <2> QED BY <2>3
  <1>4. ASSUME NEW id \in Ids, NEW at \in Positions, SpawnUnseen(id, nature[id], at) \/ SpawnOrb(id, at)
        PROVE  \E e : Spawning(id, e)
    <2> DEFINE e == NewEntity(nature[id], at, NoOne, NoOne)
    <2>1. Fits(id, e) /\ e.uuid = NoOne /\ e.at = at /\ e.kind = nature[id]
      BY NewTyped
    <2>2. /\ ServerSpawns(id, e) /\ Enters(id, e) /\ Writes(<<>>)
          /\ nature[id] \in {"item", "painting", "orb"}
          /\ UNCHANGED <<players, passengers, vehicle, attachments>>
      <3>1. CASE SpawnUnseen(id, nature[id], at)
        BY <3>1, <2>1 DEF SpawnUnseen
      <3>2. CASE SpawnOrb(id, at)
        <4>1. NewEntity("orb", at, NoOne, NoOne).kind = "orb"
          BY DEF NewEntity
        <4>2. nature[id] = "orb"
          BY <3>2, <4>1 DEF SpawnOrb, ServerSpawns
        <4> QED BY <3>2, <4>2 DEF SpawnOrb
      <3> QED BY <1>4, <3>1, <3>2
    <2> HIDE DEF e
    <2>3. Spawning(id, e)
      BY <1>1, <1>2, <2>1, <2>2, NoOneElse
    <2> QED BY <2>3
  <1>5. ASSUME NEW id \in Ids, NEW at \in Positions, NEW owner \in Ids \cup {Me}, SpawnHook(id, at, owner)
        PROVE  \E e : Spawning(id, e)
    <2> DEFINE e == NewEntity("hook", at, NoOne, NoOne)
    <2>1. e.kind = "hook"
      BY DEF NewEntity
    <2>2. nature[id] = "hook" /\ ServerSpawns(id, e)
      BY <1>5, <2>1 DEF SpawnHook, ServerSpawns
    <2>3. Fits(id, e) /\ e.uuid = NoOne /\ e.at = at
      <3>1. /\ e \in Entity("hook") /\ e.uuid = NoOne /\ e.at = at /\ e.item = NoItem /\ ~e.mine
            /\ e.shown <=> "hook" \notin {"item", "painting", "orb"}
        BY NewTyped
      <3> QED BY <2>2, <3>1
    <2>4. /\ \/ entities' = entities /\ Writes(<<>>)
             \/ Enters(id, e) /\ Writes(<<AddActor(id, e.at, NoItem)>>)
          /\ UNCHANGED <<players, passengers, vehicle, attachments>>
      BY <1>5, <2>3 DEF SpawnHook
    <2> HIDE DEF e
    <2>5. Spawning(id, e)
      BY <1>1, <1>2, <2>2, <2>3, <2>4, NoOneElse
    <2> QED BY <2>5
  <1>6. ASSUME NEW id \in Ids, NEW c \in Cells, SpawnFrame(id, c)
        PROVE  \E e : Spawning(id, e)
    <2> DEFINE e == NewEntity("frame", 0, NoOne, c)
    <2>1. /\ e \in Entity("frame") /\ e.kind = "frame" /\ e.uuid = NoOne /\ e.cell = c
          /\ e.item = NoItem /\ ~e.mine /\ e.shown
      BY NoOneElse DEF NewEntity, Entity, Item
    <2>2. nature[id] = "frame" /\ ServerSpawns(id, e)
      BY <1>6, <2>1 DEF SpawnFrame, ServerSpawns
    <2>3. \A j \in DOMAIN world : nature[j] = "frame" => world[j].cell # c
      <3>1. \A j \in DOMAIN world : world[j].kind = nature[j]
        BY DEF ServerEntities, Entity
      <3> QED BY <1>6, <3>1 DEF SpawnFrame
    <2>4. /\ Enters(id, e) /\ Writes(<<Frame(e.cell, NoItem)>>)
          /\ UNCHANGED <<players, passengers, vehicle, attachments>>
      BY <1>6, <2>1 DEF SpawnFrame
    <2> HIDE DEF e
    <2>5. Spawning(id, e)
      BY <1>1, <1>2, <2>1, <2>2, <2>3, <2>4, NoOneElse
    <2> QED BY <2>5
  <1>7. ASSUME NEW id \in Ids, NEW at \in Positions, NEW u \in Uuids, SpawnPlayer(id, u, at)
        PROVE  \E e : Spawning(id, e)
    <2> DEFINE e == NewEntity("player", at, u, NoOne)
    <2>1. e.kind = "player"
      BY DEF NewEntity
    <2>2. nature[id] = "player" /\ ServerSpawns(id, e)
      BY <1>7, <2>1 DEF SpawnPlayer, ServerSpawns
    <2>3. Fits(id, e) /\ e.uuid = u /\ e.at = at
      <3>1. /\ e \in Entity("player") /\ e.uuid = u /\ e.at = at /\ e.item = NoItem /\ ~e.mine
            /\ e.shown <=> "player" \notin {"item", "painting", "orb"}
        BY NewTyped
      <3> QED BY <2>2, <3>1
    <2>4. /\ \/ entities' = entities /\ Writes(<<>>)
             \/ Enters(id, e) /\ Writes(<<ListPlayer(e.uuid), AddActor(id, e.at, NoItem)>>) /\ e.uuid \in DOMAIN players
          /\ UNCHANGED <<players, passengers, vehicle, attachments>>
      BY <1>7, <2>3 DEF SpawnPlayer
    <2> HIDE DEF e
    <2>5. Spawning(id, e)
      BY <1>1, <1>2, <2>2, <2>3, <2>4, NoOneElse
    <2> QED BY <2>5
  <1> QED BY <1>3, <1>4, <1>5, <1>6, <1>7 DEF Spawns

\* The metadata of id: what it holds, whether it is shown, still, mine.
Describing(id) ==
    /\ id \in DOMAIN entities /\ id \in DOMAIN world \ gone /\ javaWrites = <<>>
    /\ OthersKept(id)
    /\ DOMAIN world' = DOMAIN world /\ DOMAIN entities' = DOMAIN entities
    /\ world'[id] \in Entity(nature[id]) /\ entities'[id] \in Entity(nature[id])
    /\ world'[id].at = world[id].at /\ world'[id].uuid = world[id].uuid /\ world'[id].cell = world[id].cell
    /\ entities'[id].at = entities[id].at /\ entities'[id].uuid = entities[id].uuid
    /\ entities'[id].cell = entities[id].cell
    /\ UNCHANGED <<nature, riders, owed, gone, players, passengers, vehicle, tickWrites, client>>
    /\ \/ \* nothing to see
          /\ entities'[id].shown = entities[id].shown /\ entities'[id].mine = entities[id].mine
          /\ world'[id].item = world[id].item
          /\ \/ entities'[id].item = entities[id].item
             \/ nature[id] = "painting" /\ entities'[id].item \in {NoItem, world[id].item}
          /\ attachments' = attachments /\ Writes(<<>>)
       \/ \* a new actor
          /\ nature[id] \in {"item", "painting"}
          /\ world'[id].item \in Items /\ entities'[id].item = world'[id].item
          /\ entities'[id].shown /\ entities'[id].mine = entities[id].mine
          /\ attachments' = attachments
          /\ \/ Writes(<<AddActor(id, entities[id].at, world'[id].item)>>)
             \/ Writes(<<RemoveActor(id), AddActor(id, entities[id].at, world'[id].item)>>)
       \/ \* another count
          /\ nature[id] = "item" /\ entities[id].shown
          /\ world'[id].item \in Items /\ entities'[id].item = world'[id].item
          /\ world'[id].item[1] = entities[id].item[1]
          /\ entities'[id].shown /\ entities'[id].mine = entities[id].mine
          /\ attachments' = attachments
          /\ Writes(<<StackSize(id, world'[id].item[2])>>)
       \/ \* what a frame holds
          /\ nature[id] = "frame"
          /\ entities'[id].item = world'[id].item
          /\ entities'[id].shown = entities[id].shown /\ entities'[id].mine = entities[id].mine
          /\ attachments' = attachments
          /\ \/ world'[id].item = entities[id].item /\ Writes(<<>>)
             \/ Writes(<<Frame(entities[id].cell, world'[id].item)>>)
       \/ \* who a rocket boosts
          /\ nature[id] = "rocket"
          /\ entities'[id].shown = entities[id].shown /\ world'[id].item = world[id].item
          /\ entities'[id].item = entities[id].item
          /\ LET mine == entities'[id].mine
                 left == IF mine THEN attachments \cup {id} ELSE attachments \ {id}
             IN  /\ attachments' = IF mine = entities[id].mine THEN attachments ELSE left
                 /\ Writes(RocketWrites(entities[id].mine, mine, left))

\* Concatenations of single packets.
LEMMA Pair ==
    ASSUME NEW a, NEW b
    PROVE  <<a>> \o <<b>> = <<a, b>> /\ <<>> \o <<a>> = <<a>>
  <1>1. <<a>> \in Seq({a, b}) /\ <<b>> \in Seq({a, b}) /\ <<a, b>> \in Seq({a, b})
    OBVIOUS
  <1>2. <<a>> \o <<b>> \in Seq({a, b}) /\ Len(<<a>> \o <<b>>) = 2
        /\ (<<a>> \o <<b>>)[1] = a /\ (<<a>> \o <<b>>)[2] = b
    BY <1>1, ConcatProperties
  <1>3. \A i \in 1..2 : (<<a>> \o <<b>>)[i] = <<a, b>>[i]
    <2> SUFFICES ASSUME NEW i \in 1..2 PROVE (<<a>> \o <<b>>)[i] = <<a, b>>[i]
      OBVIOUS
    <2>1. i = 1 \/ i = 2
      OBVIOUS
    <2> QED BY <1>2, <2>1
  <1>4. <<a>> \o <<b>> = <<a, b>>
    BY <1>1, <1>2, <1>3, SeqEqual
  <1> QED BY <1>1, <1>4, ConcatEmptySeq

\* The fields of an entity.
LEMMA EntityFields ==
    ASSUME NEW kind, NEW e \in Entity(kind)
    PROVE  /\ e.kind = kind /\ e.at \in Int /\ e.item \in Item /\ e.shown \in BOOLEAN
           /\ e.still \in BOOLEAN /\ e.mine \in BOOLEAN /\ e.corrected \in BOOLEAN
           /\ e.uuid \in Uuids \cup {NoOne} /\ e.cell \in Cells \cup {NoOne}
           /\ e = [e EXCEPT !.item = e.item, !.shown = e.shown, !.still = e.still, !.mine = e.mine]
  BY DEF Entity

\* what the tables of an entity the server tells of are
LEMMA ToldKnown ==
    ASSUME ServerEntities, BridgeEntities, NEW id, NEW kind, Told(id, kind), kind \notin {"hook", "player"}
    PROVE  /\ id \in Ids /\ id \in DOMAIN entities /\ id \in DOMAIN world \ gone /\ nature[id] = kind
           /\ world[id] \in Entity(kind) /\ entities[id] \in Entity(kind)
           /\ entities[id].item \in {NoItem, world[id].item}
           /\ kind # "painting" => entities[id].item = world[id].item
           /\ world[id].item \in Item
  <1>1. id \in DOMAIN world \ gone /\ world[id].kind = kind /\ world[id] \in Entity(nature[id])
    BY DEF Told, ServerEntities
  <1>2. nature[id] = kind
    BY <1>1 DEF Entity
  <1>3. id \in DOMAIN entities
    BY <1>1, <1>2 DEF BridgeEntities
  <1>4. world[id].item \in Item
    BY <1>1, EntityFields
  <1> QED BY <1>1, <1>2, <1>3, <1>4 DEF BridgeEntities, ServerEntities

\* Every kind of metadata is a Describing.
LEMMA DescribeSteps ==
    ASSUME ServerEntities, BridgeEntities, NEW id \in Ids, NEW i \in Item,
           \/ ItemMetadata(id, i) \/ PaintingMetadata(id, i) \/ FrameMetadata(id, i)
           \/ \E b \in BOOLEAN : ArrowMetadata(id, b)
           \/ \E o : RocketMetadata(id, o)
    PROVE  Describing(id)
  <1>0. javaWrites = <<>> /\ DOMAIN entities \subseteq DOMAIN world /\ DOMAIN world \subseteq Ids
    BY DEF ItemMetadata, PaintingMetadata, FrameMetadata, ArrowMetadata, RocketMetadata, Handles,
           BridgeEntities, ServerEntities
  <1>1. \A ws : Writes(ws) => UNCHANGED <<nature, tickWrites, client>>
    BY DEF Writes
  <1>2. i # NoItem => i \in Items
    BY DEF Item
  <1>3. CASE ItemMetadata(id, i)
    <2>1. Told(id, "item") /\ UNCHANGED <<riders, owed, gone, players, passengers, vehicle, attachments>>
          /\ world' = [world EXCEPT ![id].item = IF i = NoItem THEN @ ELSE i]
          /\ IF i = NoItem THEN UNCHANGED entities /\ Writes(<<>>)
             ELSE /\ entities' = [entities EXCEPT ![id].item = i, ![id].shown = TRUE]
                  /\ Writes(ItemWrites(id, entities[id], i))
      BY <1>3 DEF ItemMetadata
    <2>2. /\ id \in DOMAIN entities /\ id \in DOMAIN world \ gone /\ nature[id] = "item"
          /\ world[id] \in Entity("item") /\ entities[id] \in Entity("item")
          /\ entities[id].item = world[id].item
      BY <2>1, ToldKnown
    <2>3. CASE i = NoItem
      <3>1. world' = [world EXCEPT ![id].item = world[id].item] /\ entities' = entities /\ Writes(<<>>)
        BY <2>1, <2>3
      <3>2. world' = [world EXCEPT ![id] = [world[id] EXCEPT !.item = world[id].item]]
        BY <3>1
      <3>3. world'[id] = [world[id] EXCEPT !.item = world[id].item] /\ DOMAIN world' = DOMAIN world
            /\ \A j \in DOMAIN world : j # id => world'[j] = world[j]
        BY <3>2, <2>2
      <3>4. world'[id] = world[id]
        BY <3>3, <2>2 DEF Entity
      <3>5. OthersKept(id)
        BY <3>1, <3>3 DEF OthersKept
      <3> QED BY <1>0, <1>1, <2>1, <2>2, <3>1, <3>3, <3>4, <3>5 DEF Describing
    <2>4. CASE i # NoItem
      <3>1. /\ world' = [world EXCEPT ![id].item = i]
            /\ entities' = [entities EXCEPT ![id].item = i, ![id].shown = TRUE]
            /\ Writes(ItemWrites(id, entities[id], i))
        BY <2>1, <2>4
      <3>2. /\ DOMAIN world' = DOMAIN world /\ \A j \in DOMAIN world : j # id => world'[j] = world[j]
            /\ world'[id] = [world[id] EXCEPT !.item = i]
            /\ DOMAIN entities' = DOMAIN entities /\ \A j \in DOMAIN entities : j # id => entities'[j] = entities[j]
            /\ entities'[id] = [entities[id] EXCEPT !.item = i, !.shown = TRUE]
        BY <2>2, <3>1
      <3>3. /\ world'[id] \in Entity("item") /\ world'[id].item = i /\ world'[id].at = world[id].at
            /\ world'[id].uuid = world[id].uuid /\ world'[id].cell = world[id].cell
        BY <2>2, <3>2 DEF Entity
      <3>4. /\ entities'[id] \in Entity("item") /\ entities'[id].item = i /\ entities'[id].shown
            /\ entities'[id].at = entities[id].at /\ entities'[id].mine = entities[id].mine
            /\ entities'[id].uuid = entities[id].uuid /\ entities'[id].cell = entities[id].cell
        BY <2>2, <3>2 DEF Entity
      <3>5. OthersKept(id)
        BY <3>2 DEF OthersKept
      <3>6. /\ entities[id].shown \in BOOLEAN
            /\ \/ ~entities[id].shown /\ Writes(<<AddActor(id, entities[id].at, i)>>)
               \/ entities[id].shown /\ i = entities[id].item /\ Writes(<<>>)
               \/ entities[id].shown /\ i[1] = entities[id].item[1] /\ Writes(<<StackSize(id, i[2])>>)
               \/ Writes(<<RemoveActor(id), AddActor(id, entities[id].at, i)>>)
        BY <2>2, <3>1, EntityFields DEF ItemWrites
      <3> HIDE <2>4
      <3> QED BY <1>0, <1>1, <1>2, <2>1, <2>2, <2>4, <3>2, <3>3, <3>4, <3>5, <3>6 DEF Describing
    <2> QED BY <2>3, <2>4
  <1>4. CASE PaintingMetadata(id, i)
    <2>1. Told(id, "painting") /\ UNCHANGED <<riders, owed, gone, players, passengers, vehicle, attachments>>
          /\ world' = [world EXCEPT ![id].item = IF i = NoItem THEN world[id].item ELSE i]
          /\ \/ /\ i = NoItem \/ (entities[id].item = i /\ entities[id].shown)
                /\ entities' = [entities EXCEPT ![id].item = i]
                /\ Writes(<<>>)
             \/ /\ i # NoItem
                /\ entities' = [entities EXCEPT ![id].item = i, ![id].shown = TRUE]
                /\ Writes((IF entities[id].shown THEN <<RemoveActor(id)>> ELSE <<>>)
                      \o <<AddActor(id, entities[id].at, i)>>)
      BY <1>4 DEF PaintingMetadata
    <2>2. /\ id \in DOMAIN entities /\ id \in DOMAIN world \ gone /\ nature[id] = "painting"
          /\ world[id] \in Entity("painting") /\ entities[id] \in Entity("painting")
          /\ entities[id].item \in {NoItem, world[id].item} /\ world[id].item \in Item
      BY <2>1, ToldKnown
    <2>3. CASE /\ i = NoItem \/ (entities[id].item = i /\ entities[id].shown)
               /\ entities' = [entities EXCEPT ![id].item = i]
               /\ Writes(<<>>)
      <3>1. /\ DOMAIN world' = DOMAIN world /\ \A j \in DOMAIN world : j # id => world'[j] = world[j]
            /\ world'[id] = [world[id] EXCEPT !.item = IF i = NoItem THEN world[id].item ELSE i]
            /\ DOMAIN entities' = DOMAIN entities /\ \A j \in DOMAIN entities : j # id => entities'[j] = entities[j]
            /\ entities'[id] = [entities[id] EXCEPT !.item = i]
        BY <2>1, <2>2, <2>3
      <3>2. (IF i = NoItem THEN world[id].item ELSE i) = world[id].item
        BY <2>2, <2>3
      <3>3. world'[id] = world[id]
        BY <2>2, <3>1, <3>2 DEF Entity
      <3>4. /\ entities'[id] \in Entity("painting") /\ entities'[id].item = i
            /\ entities'[id].shown = entities[id].shown
            /\ entities'[id].at = entities[id].at /\ entities'[id].mine = entities[id].mine
            /\ entities'[id].uuid = entities[id].uuid /\ entities'[id].cell = entities[id].cell
        BY <2>2, <3>1 DEF Entity
      <3>5. OthersKept(id)
        BY <3>1 DEF OthersKept
      <3>6. i \in {NoItem, world[id].item}
        BY <2>2, <2>3
      <3> QED BY <1>0, <1>1, <2>1, <2>2, <2>3, <3>1, <3>3, <3>4, <3>5, <3>6 DEF Describing
    <2>4. CASE /\ i # NoItem
               /\ entities' = [entities EXCEPT ![id].item = i, ![id].shown = TRUE]
               /\ Writes((IF entities[id].shown THEN <<RemoveActor(id)>> ELSE <<>>)
                      \o <<AddActor(id, entities[id].at, i)>>)
      <3>1. world' = [world EXCEPT ![id].item = i]
        BY <2>1, <2>4
      <3>2. /\ DOMAIN world' = DOMAIN world /\ \A j \in DOMAIN world : j # id => world'[j] = world[j]
            /\ world'[id] = [world[id] EXCEPT !.item = i]
            /\ DOMAIN entities' = DOMAIN entities /\ \A j \in DOMAIN entities : j # id => entities'[j] = entities[j]
            /\ entities'[id] = [entities[id] EXCEPT !.item = i, !.shown = TRUE]
        BY <2>2, <2>4, <3>1
      <3>3. /\ world'[id] \in Entity("painting") /\ world'[id].item = i /\ world'[id].at = world[id].at
            /\ world'[id].uuid = world[id].uuid /\ world'[id].cell = world[id].cell
        BY <2>2, <3>2 DEF Entity
      <3>4. /\ entities'[id] \in Entity("painting") /\ entities'[id].item = i /\ entities'[id].shown
            /\ entities'[id].at = entities[id].at /\ entities'[id].mine = entities[id].mine
            /\ entities'[id].uuid = entities[id].uuid /\ entities'[id].cell = entities[id].cell
        BY <2>2, <3>2 DEF Entity
      <3>5. OthersKept(id)
        BY <3>2 DEF OthersKept
      <3>6. \/ Writes(<<AddActor(id, entities[id].at, i)>>)
            \/ Writes(<<RemoveActor(id), AddActor(id, entities[id].at, i)>>)
        BY <2>4, Pair
      <3> QED BY <1>0, <1>1, <1>2, <2>1, <2>2, <2>4, <3>2, <3>3, <3>4, <3>5, <3>6 DEF Describing
    <2> QED BY <2>1, <2>3, <2>4
  <1>5. CASE FrameMetadata(id, i)
    <2>1. /\ Told(id, "frame") /\ UNCHANGED <<riders, owed, gone, players, passengers, vehicle, attachments>>
          /\ world' = [world EXCEPT ![id].item = i]
          /\ entities' = [entities EXCEPT ![id].item = i]
          /\ Writes(IF i = entities[id].item THEN <<>> ELSE <<Frame(entities[id].cell, i)>>)
      BY <1>5 DEF FrameMetadata
    <2>2. /\ id \in DOMAIN entities /\ id \in DOMAIN world \ gone /\ nature[id] = "frame"
          /\ world[id] \in Entity("frame") /\ entities[id] \in Entity("frame")
      BY <2>1, ToldKnown
    <2>3. /\ DOMAIN world' = DOMAIN world /\ \A j \in DOMAIN world : j # id => world'[j] = world[j]
          /\ world'[id] = [world[id] EXCEPT !.item = i]
          /\ DOMAIN entities' = DOMAIN entities /\ \A j \in DOMAIN entities : j # id => entities'[j] = entities[j]
          /\ entities'[id] = [entities[id] EXCEPT !.item = i]
      BY <2>1, <2>2
    <2>4. /\ world'[id] \in Entity("frame") /\ world'[id].item = i /\ world'[id].at = world[id].at
          /\ world'[id].uuid = world[id].uuid /\ world'[id].cell = world[id].cell
      BY <2>2, <2>3 DEF Entity
    <2>5. /\ entities'[id] \in Entity("frame") /\ entities'[id].item = i /\ entities'[id].shown = entities[id].shown
          /\ entities'[id].at = entities[id].at /\ entities'[id].mine = entities[id].mine
          /\ entities'[id].uuid = entities[id].uuid /\ entities'[id].cell = entities[id].cell
      BY <2>2, <2>3 DEF Entity
    <2>6. OthersKept(id)
      BY <2>3 DEF OthersKept
    <2>7. \/ i = entities[id].item /\ Writes(<<>>)
          \/ Writes(<<Frame(entities[id].cell, i)>>)
      BY <2>1
    <2> QED BY <1>0, <1>1, <2>1, <2>2, <2>3, <2>4, <2>5, <2>6, <2>7 DEF Describing
  <1>6. ASSUME NEW b \in BOOLEAN, ArrowMetadata(id, b)
        PROVE  Describing(id)
    <2>1. /\ Told(id, "arrow") /\ UNCHANGED <<world, riders, owed, gone, players, passengers, vehicle, attachments>>
          /\ entities' = [entities EXCEPT ![id].still = b]
          /\ Writes(<<>>)
      BY <1>6 DEF ArrowMetadata, server
    <2>2. /\ id \in DOMAIN entities /\ id \in DOMAIN world \ gone /\ nature[id] = "arrow"
          /\ world[id] \in Entity("arrow") /\ entities[id] \in Entity("arrow")
      BY <2>1, ToldKnown
    <2>3. /\ DOMAIN entities' = DOMAIN entities /\ \A j \in DOMAIN entities : j # id => entities'[j] = entities[j]
          /\ entities'[id] = [entities[id] EXCEPT !.still = b]
      BY <2>1, <2>2
    <2>4. /\ entities'[id] \in Entity("arrow") /\ entities'[id].item = entities[id].item
          /\ entities'[id].shown = entities[id].shown
          /\ entities'[id].at = entities[id].at /\ entities'[id].mine = entities[id].mine
          /\ entities'[id].uuid = entities[id].uuid /\ entities'[id].cell = entities[id].cell
      BY <2>2, <2>3 DEF Entity
    <2>5. OthersKept(id)
      BY <2>1, <2>3 DEF OthersKept
    <2> QED BY <1>0, <1>1, <2>1, <2>2, <2>3, <2>4, <2>5 DEF Describing
  <1>7. ASSUME NEW o, RocketMetadata(id, o)
        PROVE  Describing(id)
    <2> DEFINE mine == o = Me
               left == IF mine THEN attachments \cup {id} ELSE attachments \ {id}
    <2>1. /\ Told(id, "rocket") /\ UNCHANGED <<world, riders, owed, gone, players, passengers, vehicle>>
          /\ entities' = [entities EXCEPT ![id].still = (o # NoOne), ![id].mine = mine]
          /\ attachments' = IF mine = entities[id].mine THEN attachments ELSE left
          /\ Writes(RocketWrites(entities[id].mine, mine, left))
      BY <1>7 DEF RocketMetadata, server
    <2>2. /\ id \in DOMAIN entities /\ id \in DOMAIN world \ gone /\ nature[id] = "rocket"
          /\ world[id] \in Entity("rocket") /\ entities[id] \in Entity("rocket")
      BY <2>1, ToldKnown
    <2>3. /\ DOMAIN entities' = DOMAIN entities /\ \A j \in DOMAIN entities : j # id => entities'[j] = entities[j]
          /\ entities'[id] = [entities[id] EXCEPT !.still = (o # NoOne), !.mine = mine]
      BY <2>1, <2>2
    <2>4. /\ entities'[id] \in Entity("rocket") /\ entities'[id].item = entities[id].item
          /\ entities'[id].shown = entities[id].shown
          /\ entities'[id].at = entities[id].at /\ entities'[id].mine = mine
          /\ entities'[id].uuid = entities[id].uuid /\ entities'[id].cell = entities[id].cell
      BY <2>2, <2>3 DEF Entity
    <2>5. OthersKept(id)
      BY <2>1, <2>3 DEF OthersKept
    <2>6. \A m : m = mine => LET l == IF m THEN attachments \cup {id} ELSE attachments \ {id}
                   IN  /\ attachments' = IF m = entities[id].mine THEN attachments ELSE l
                       /\ Writes(RocketWrites(entities[id].mine, m, l))
      BY <2>1
    <2>7. LET l == IF entities'[id].mine THEN attachments \cup {id} ELSE attachments \ {id}
          IN  /\ attachments' = IF entities'[id].mine = entities[id].mine THEN attachments ELSE l
              /\ Writes(RocketWrites(entities[id].mine, entities'[id].mine, l))
      BY <2>4, <2>6
    <2>8. UNCHANGED <<nature, tickWrites, client>> /\ UNCHANGED <<world, riders, owed, gone, players, passengers, vehicle>>
      BY <1>1, <2>1
    <2> HIDE DEF mine, left
    <2> QED BY <1>0, <2>2, <2>3, <2>4, <2>5, <2>7, <2>8 DEF Describing
  <1> QED BY <1>3, <1>4, <1>5, <1>6, <1>7

\* Who leaves its seat is no passenger; the others are.
LEMMA LeavesSeats ==
    ASSUME NEW S, NEW s \in Seq(S), Distinct(s), NEW r
    PROVE  /\ Leaves(s, r) \in Seq(S) /\ Distinct(Leaves(s, r))
           /\ \A x : x \in ToSet(Leaves(s, r)) <=> x \in ToSet(s) /\ x # r
           /\ r \notin ToSet(s) => Leaves(s, r) = s
  <1>1. CASE r \notin ToSet(s)
    BY <1>1 DEF Leaves, ToSet
  <1>2. CASE r \in ToSet(s)
    <2> DEFINE k == CHOOSE i \in DOMAIN s : s[i] = r
               front == SubSeq(s, 1, k - 1)
               back == SubSeq(s, k + 1, Len(s))
               t == front \o back
    <2>1. k \in DOMAIN s /\ s[k] = r
      BY <1>2 DEF ToSet
    <2>2. DOMAIN s = 1..Len(s) /\ Len(s) \in Nat /\ k \in Int /\ 1 <= k /\ k <= Len(s)
      BY <2>1, LenProperties
    <2>3. \A i \in DOMAIN s : s[i] \in S
      BY ElementOfSeq, <2>2
    <2> HIDE DEF k
    <2>4. /\ front \in Seq(S) /\ Len(front) = k - 1 /\ \A i \in 1..(k - 1) : front[i] = s[i]
      <3>1. /\ SubSeq(s, 1, k - 1) \in Seq(S)
            /\ Len(SubSeq(s, 1, k - 1)) = IF 1 <= k - 1 THEN (k - 1) - 1 + 1 ELSE 0
            /\ \A i \in 1..((k - 1) - 1 + 1) : SubSeq(s, 1, k - 1)[i] = s[1 + i - 1]
        BY <2>2, <2>3, SubSeqProperties, k - 1 \in Int, \A i \in 1..(k - 1) : s[i] \in S
      <3> QED BY <2>2, <3>1
    <2>5. /\ back \in Seq(S) /\ Len(back) = Len(s) - k /\ \A i \in 1..(Len(s) - k) : back[i] = s[i + k]
      <3>1. /\ SubSeq(s, k + 1, Len(s)) \in Seq(S)
            /\ Len(SubSeq(s, k + 1, Len(s))) = IF k + 1 <= Len(s) THEN Len(s) - (k + 1) + 1 ELSE 0
            /\ \A i \in 1..(Len(s) - (k + 1) + 1) : SubSeq(s, k + 1, Len(s))[i] = s[(k + 1) + i - 1]
        BY <2>2, <2>3, SubSeqProperties, k + 1 \in Int, Len(s) \in Int, \A i \in (k + 1)..Len(s) : s[i] \in S
      <3> QED BY <2>2, <3>1
    <2> HIDE DEF front, back
    <2>6. /\ t \in Seq(S) /\ Len(t) = Len(s) - 1
          /\ \A i \in 1..(Len(s) - 1) : t[i] = IF i < k THEN s[i] ELSE s[i + 1]
      <3>1. /\ t \in Seq(S) /\ Len(t) = Len(front) + Len(back)
            /\ \A i \in 1..(Len(front) + Len(back)) :
                  t[i] = IF i <= Len(front) THEN front[i] ELSE back[i - Len(front)]
        BY <2>4, <2>5, ConcatProperties
      <3> HIDE DEF t
      <3>2. ASSUME NEW i \in 1..(Len(s) - 1) PROVE t[i] = IF i < k THEN s[i] ELSE s[i + 1]
        <4>1. i \in 1..(Len(front) + Len(back))
          BY <2>2, <2>4, <2>5
        <4>2. CASE i < k
          BY <2>2, <2>4, <3>1, <4>1, <4>2
        <4>3. CASE ~(i < k)
          <5>1. t[i] = back[i - (k - 1)]
            BY <2>2, <2>4, <3>1, <4>1, <4>3
          <5>2. i - (k - 1) \in 1..(Len(s) - k) /\ (i - (k - 1)) + k = i + 1
            BY <2>2, <4>3
          <5>3. back[i - (k - 1)] = s[(i - (k - 1)) + k]
            BY <2>5, <5>2
          <5> QED BY <4>3, <5>1, <5>2, <5>3
        <4> QED BY <4>2, <4>3
      <3> QED BY <2>2, <2>4, <2>5, <3>1, <3>2
    <2>7. Leaves(s, r) = t
      BY <1>2 DEF Leaves, RemoveAt, t, front, back, k
    <2> HIDE DEF t
    <2>8. DOMAIN t = 1..(Len(s) - 1)
      BY <2>6, LenProperties
    <2>9. Distinct(t)
      <3> SUFFICES ASSUME NEW i \in DOMAIN t, NEW j \in DOMAIN t, t[i] = t[j] PROVE i = j
        BY DEF Distinct
      <3>1. i \in 1..(Len(s) - 1) /\ j \in 1..(Len(s) - 1)
        BY <2>8
      <3>2. t[i] = s[IF i < k THEN i ELSE i + 1] /\ t[j] = s[IF j < k THEN j ELSE j + 1]
        BY <2>6, <3>1
      <3>3. (IF i < k THEN i ELSE i + 1) = (IF j < k THEN j ELSE j + 1)
        <4>1. (IF i < k THEN i ELSE i + 1) \in DOMAIN s /\ (IF j < k THEN j ELSE j + 1) \in DOMAIN s
          BY <2>2, <3>1
        <4> QED BY <3>2, <4>1 DEF Distinct
      <3> QED BY <2>2, <3>1, <3>3
    <2>10. ASSUME NEW x PROVE x \in ToSet(t) <=> x \in ToSet(s) /\ x # r
      <3>1. ASSUME NEW i \in DOMAIN t, t[i] = x PROVE x \in ToSet(s) /\ x # r
        <4> DEFINE j == IF i < k THEN i ELSE i + 1
        <4>1. j \in DOMAIN s /\ j # k /\ s[j] = x
          BY <2>2, <2>6, <2>8, <3>1
        <4> HIDE DEF j
        <4> QED BY <2>1, <4>1 DEF ToSet, Distinct
      <3>2. ASSUME NEW i \in DOMAIN s, s[i] = x, x # r PROVE x \in ToSet(t)
        <4> DEFINE j == IF i < k THEN i ELSE i - 1
        <4>1. j \in 1..(Len(s) - 1) /\ t[j] = x
          BY <2>1, <2>2, <2>6, <3>2
        <4> HIDE DEF j
        <4> QED BY <2>8, <4>1 DEF ToSet
      <3> QED BY <3>1, <3>2 DEF ToSet
    <2> QED BY <1>2, <2>6, <2>7, <2>9, <2>10
  <1> QED BY <1>1, <1>2

\* An entity is moved, by the server or with the player in it.
Moving(id) ==
    /\ id \in DOMAIN world \ gone /\ nature[id] # "frame" /\ javaWrites = <<>>
    /\ OthersKept(id)
    /\ DOMAIN world' = DOMAIN world /\ DOMAIN entities' = DOMAIN entities
    /\ world'[id] \in Entity(nature[id]) /\ world'[id].item = world[id].item
    /\ world'[id].uuid = world[id].uuid /\ world'[id].cell = world[id].cell
    /\ UNCHANGED <<nature, riders, owed, gone, players, passengers, attachments, tickWrites, client>>
    /\ \/ id \notin DOMAIN entities /\ entities' = entities /\ Writes(<<>>)
       \/ /\ id \in DOMAIN entities
          /\ entities'[id] \in Entity(nature[id]) /\ entities'[id].item = entities[id].item
          /\ entities'[id].uuid = entities[id].uuid /\ entities'[id].cell = entities[id].cell
          /\ entities'[id].shown = entities[id].shown /\ entities'[id].mine = entities[id].mine
          /\ entities[id].at = world[id].at => entities'[id].at = world'[id].at
          /\ Writes(<<MoveActor(id, entities'[id].at)>>)

\* A movement by the server is a Moving that leaves the vehicle of the player.
LEMMA MoveSteps ==
    ASSUME ServerEntities, BridgeEntities, NEW id \in Ids, NEW at \in Positions, NEW relative \in BOOLEAN,
           MoveEntity(id, at, relative)
    PROVE  Moving(id) /\ vehicle' = vehicle
  <1>1. /\ id \in DOMAIN world \ gone /\ world[id].kind # "frame" /\ javaWrites = <<>>
        /\ world' = [world EXCEPT ![id].at = at, ![id].corrected = TRUE]
        /\ UNCHANGED <<riders, owed, gone, players, passengers, vehicle, attachments>>
    BY DEF MoveEntity, Handles
  <1>2. \A ws : Writes(ws) => UNCHANGED <<nature, tickWrites, client>>
    BY DEF Writes
  <1>3. at \in Int
    BY NoOneElse
  <1>4. world[id] \in Entity(nature[id]) /\ world[id].kind = nature[id] /\ world[id].at \in Int
    BY <1>1, EntityFields DEF ServerEntities
  <1>5. /\ DOMAIN world' = DOMAIN world /\ \A j \in DOMAIN world : j # id => world'[j] = world[j]
        /\ world'[id] = [world[id] EXCEPT !.at = at, !.corrected = TRUE]
    BY <1>1
  <1>6. /\ world'[id] \in Entity(nature[id]) /\ world'[id].item = world[id].item /\ world'[id].at = at
        /\ world'[id].uuid = world[id].uuid /\ world'[id].cell = world[id].cell
    BY <1>3, <1>4, <1>5 DEF Entity
  <1>7. CASE id \notin DOMAIN entities
    <2>1. entities' = entities /\ Writes(<<>>)
      BY <1>7 DEF MoveEntity
    <2>2. OthersKept(id)
      BY <1>5, <2>1 DEF OthersKept
    <2> QED BY <1>1, <1>2, <1>4, <1>5, <1>6, <1>7, <2>1, <2>2 DEF Moving
  <1>8. CASE id \in DOMAIN entities
    <2> DEFINE to == IF relative THEN entities[id].at + (at - world[id].at) ELSE at
    <2>1. entities' = [entities EXCEPT ![id].at = to] /\ Writes(<<MoveActor(id, to)>>)
      BY <1>8 DEF MoveEntity
    <2>2. entities[id] \in Entity(nature[id]) /\ entities[id].at \in Int
      BY <1>8, EntityFields DEF BridgeEntities
    <2>3. to \in Int /\ (entities[id].at = world[id].at => to = at)
      BY <1>3, <1>4, <2>2
    <2> HIDE DEF to
    <2>4. /\ DOMAIN entities' = DOMAIN entities /\ \A j \in DOMAIN entities : j # id => entities'[j] = entities[j]
          /\ entities'[id] = [entities[id] EXCEPT !.at = to]
      BY <1>8, <2>1
    <2>5. /\ entities'[id] \in Entity(nature[id]) /\ entities'[id].item = entities[id].item /\ entities'[id].at = to
          /\ entities'[id].uuid = entities[id].uuid /\ entities'[id].cell = entities[id].cell
          /\ entities'[id].shown = entities[id].shown /\ entities'[id].mine = entities[id].mine
      BY <2>2, <2>3, <2>4 DEF Entity
    <2>6. OthersKept(id)
      BY <1>5, <2>4 DEF OthersKept
    <2>7. Writes(<<MoveActor(id, entities'[id].at)>>)
      BY <2>1, <2>5
    <2> QED BY <1>1, <1>2, <1>4, <1>5, <1>6, <1>8, <2>3, <2>4, <2>5, <2>6, <2>7 DEF Moving
  <1> QED BY <1>1, <1>7, <1>8

\* Who the player sits in
LEMMA PlayersVehicle ==
    ASSUME RiderInv, TableInv, ServerEntities, owed = {}
    PROVE  /\ CurrentVehicles = Carries(Me)
           /\ vehicle \in Carries(Me) \cup {NoVehicle}
           /\ \A v, w \in Carries(Me) : v = w
           /\ Carries(Me) \subseteq DOMAIN world \ gone
  <1>1. Carries(Me) \subseteq DOMAIN world \ gone
    BY DEF RiderInv, Carries
  <1>2. \A v, w \in Carries(Me) : v = w
    BY DEF RiderInv, Carries
  <1>3. \A v \in DOMAIN passengers : Me \in ToSet(passengers[v]) <=> v \in Carries(Me)
    <2> SUFFICES ASSUME NEW v \in DOMAIN passengers
                 PROVE  Me \in ToSet(passengers[v]) <=> v \in Carries(Me)
      OBVIOUS
    <2>1. v \in DOMAIN world /\ v \in Ids /\ ToldOf(v) = passengers[v]
      BY DEF TableInv, ServerEntities, ToldOf
    <2>2. CASE v \in gone
      BY <1>1, <2>1, <2>2 DEF TableInv
    <2>3. CASE v \notin gone
      <3>1. passengers[v] = riders[v]
        BY <2>1, <2>3 DEF TableInv
      <3> QED BY <2>1, <3>1 DEF Carries
    <2> QED BY <2>2, <2>3
  <1>4. Carries(Me) \subseteq DOMAIN passengers
    <2> SUFFICES ASSUME NEW v \in Carries(Me) PROVE v \in DOMAIN passengers
      OBVIOUS
    <2>1. ToldOf(v) = riders[v] /\ Me \in ToSet(riders[v])
      BY <1>1 DEF TableInv, Carries
    <2>2. Me \notin ToSet(<<>>)
      BY DEF ToSet
    <2> QED BY <2>1, <2>2 DEF ToldOf
  <1>5. {v \in DOMAIN passengers : Me \in ToSet(passengers[v])} = Carries(Me)
    BY <1>3, <1>4
  <1>6. vehicle \in Carries(Me) \cup {NoVehicle}
    BY <1>3 DEF TableInv
  <1>7. CurrentVehicles = Carries(Me)
    <2>1. CASE vehicle \in Carries(Me)
      <3>1. Carries(Me) = {vehicle}
        BY <1>2, <2>1
      <3> QED BY <1>5, <2>1, <3>1 DEF CurrentVehicles
    <2>2. CASE vehicle \notin Carries(Me)
      BY <1>5, <2>2 DEF CurrentVehicles
    <2> QED BY <2>1, <2>2
  <1> QED BY <1>1, <1>2, <1>6, <1>7

\* A movement of the vehicle of the player is a Moving of that vehicle.
LEMMA DriveSteps ==
    ASSUME ServerEntities, BridgeEntities, RiderInv, TableInv, NEW at \in Positions, MoveVehicle(at)
    PROVE  \E id \in Ids : Moving(id) /\ vehicle' = id /\ Me \in ToSet(riders[id])
                           /\ id \in DOMAIN passengers /\ Me \in ToSet(passengers[id])
  <1>1. /\ Carries(Me) # {} /\ owed = {} /\ javaWrites = <<>>
        /\ world' = [v \in DOMAIN world |->
                      IF v \in Carries(Me) THEN [world[v] EXCEPT !.at = at] ELSE world[v]]
        /\ UNCHANGED <<riders, owed, gone, players, passengers, attachments>>
    BY DEF MoveVehicle, Handles
  <1>2. PICK id \in Ids : Carries(Me) = {id} /\ CurrentVehicles = {id}
    <2>1. Carries(Me) \subseteq Ids
      BY DEF Carries
    <2> QED BY <1>1, <2>1, PlayersVehicle
  <1>3. vehicle' = id /\ Drive(id, at)
    BY <1>2 DEF MoveVehicle
  <1>4. id \in DOMAIN world \ gone /\ Me \in ToSet(riders[id])
    BY <1>1, <1>2, PlayersVehicle DEF Carries
  <1>5. nature[id] \in Rideable
    BY <1>4 DEF RiderInv
  <1>6. at \in Int
    BY NoOneElse
  <1>7. world[id] \in Entity(nature[id])
    BY <1>4 DEF ServerEntities
  <1>8. /\ DOMAIN world' = DOMAIN world /\ \A j \in DOMAIN world : j # id => world'[j] = world[j]
        /\ world'[id] = [world[id] EXCEPT !.at = at]
    BY <1>1, <1>2, <1>4
  <1>9. /\ world'[id] \in Entity(nature[id]) /\ world'[id].item = world[id].item /\ world'[id].at = at
        /\ world'[id].uuid = world[id].uuid /\ world'[id].cell = world[id].cell
    BY <1>6, <1>7, <1>8 DEF Entity
  <1>10. \A ws : Writes(ws) => UNCHANGED <<nature, tickWrites, client>>
    BY DEF Writes
  <1>11. nature[id] # "frame"
    BY <1>5 DEF Rideable
  <1>12. id \in DOMAIN passengers /\ Me \in ToSet(passengers[id])
    <2>1. id \in CurrentVehicles
      BY <1>2
    <2> QED BY <2>1 DEF CurrentVehicles
  <1>13. Moving(id)
    <2>1. CASE id \notin DOMAIN entities
      <3>1. entities' = entities /\ Writes(<<>>)
        BY <1>3, <2>1 DEF Drive
      <3>2. OthersKept(id)
        BY <1>8, <3>1 DEF OthersKept
      <3> QED BY <1>1, <1>4, <1>8, <1>9, <1>10, <1>11, <2>1, <3>1, <3>2 DEF Moving
    <2>2. CASE id \in DOMAIN entities
      <3>1. entities' = [entities EXCEPT ![id].at = at] /\ Writes(<<MoveActor(id, at)>>)
        BY <1>3, <2>2 DEF Drive
      <3>2. entities[id] \in Entity(nature[id])
        BY <2>2 DEF BridgeEntities
      <3>3. /\ DOMAIN entities' = DOMAIN entities /\ \A j \in DOMAIN entities : j # id => entities'[j] = entities[j]
            /\ entities'[id] = [entities[id] EXCEPT !.at = at]
        BY <2>2, <3>1
      <3>4. /\ entities'[id] \in Entity(nature[id]) /\ entities'[id].item = entities[id].item /\ entities'[id].at = at
            /\ entities'[id].uuid = entities[id].uuid /\ entities'[id].cell = entities[id].cell
            /\ entities'[id].shown = entities[id].shown /\ entities'[id].mine = entities[id].mine
        BY <1>6, <3>2, <3>3 DEF Entity
      <3>5. OthersKept(id)
        BY <1>8, <3>3 DEF OthersKept
      <3>6. Writes(<<MoveActor(id, entities'[id].at)>>)
        BY <3>1, <3>4
      <3> QED BY <1>1, <1>4, <1>8, <1>9, <1>10, <1>11, <2>2, <3>3, <3>4, <3>5, <3>6 DEF Moving
    <2> QED BY <2>1, <2>2
  <1> QED BY <1>3, <1>4, <1>12, <1>13

(***************************************************************************)
(* The tables                                                              *)
(***************************************************************************)
Tab == ServerEntities /\ BridgeEntities /\ RiderInv /\ TableInv

\* The seats are as they were, and so are the vehicles.
LEMMA SeatsKept ==
    ASSUME RiderInv, TableInv, UNCHANGED <<nature, riders, owed, gone, passengers, vehicle>>,
           DOMAIN world' = DOMAIN world
    PROVE  RiderInv' /\ TableInv'
  <1>1. RiderInv'
    BY DEF RiderInv, People
  <1>2. \A v : ToldOf(v)' = ToldOf(v)
    BY DEF ToldOf
  <1>3. TableInv'
    BY <1>2 DEF TableInv
  <1> QED BY <1>1, <1>3

\* Spawning keeps the tables right.
LEMMA SpawnTables ==
    ASSUME Tab, NEW id, NEW e, Spawning(id, e)
    PROVE  Tab'
  <1>1. /\ DOMAIN nature = Ids /\ DOMAIN world \subseteq Ids /\ gone = {} /\ id \in Ids /\ id \notin DOMAIN world
        /\ DOMAIN entities \subseteq DOMAIN world
    BY DEF Tab, ServerEntities, BridgeEntities, Spawning
  <1>2. /\ DOMAIN world' = DOMAIN world \cup {id} /\ world'[id] = e
        /\ \A j \in DOMAIN world : world'[j] = world[j] /\ j # id
    BY <1>1 DEF Spawning, OthersKept
  <1>3. nature' = nature /\ gone' = gone /\ players' = players /\ riders' = riders /\ passengers' = passengers
        /\ vehicle' = vehicle
    BY DEF Spawning
  <1>4. ServerEntities'
    <2>1. \A j \in DOMAIN world' :
            /\ world'[j] \in Entity(nature[j])
            /\ world'[j].uuid \in Uuids <=> nature[j] = "player"
            /\ nature[j] = "frame" => world'[j].cell \in Cells
      BY <1>1, <1>2 DEF Spawning, Tab, ServerEntities
    <2>2. \A i, j \in DOMAIN world' :
            nature[i] = "frame" /\ nature[j] = "frame" /\ world'[i].cell = world'[j].cell => i = j
      BY <1>1, <1>2 DEF Spawning, Tab, ServerEntities
    <2> QED BY <1>1, <1>2, <1>3, <2>1, <2>2 DEF ServerEntities
  <1>5. /\ \A j \in DOMAIN entities : j \in DOMAIN entities' /\ entities'[j] = entities[j] /\ j # id
        /\ \A j \in DOMAIN entities' : j \in DOMAIN entities \/ (j = id /\ entities'[j] = e)
        /\ nature[id] \notin {"hook", "player"} => id \in DOMAIN entities'
        /\ id \in DOMAIN entities' /\ nature[id] = "player" => e.uuid \in DOMAIN players
    BY <1>1 DEF Spawning, OthersKept
  <1>6. BridgeEntities'
    <2>1. DOMAIN entities' \subseteq DOMAIN world'
      BY <1>1, <1>2, <1>5
    <2>2. ASSUME NEW j \in DOMAIN entities'
          PROVE  /\ entities'[j] \in Entity(nature[j])
                 /\ entities'[j].uuid = world'[j].uuid /\ entities'[j].cell = world'[j].cell
                 /\ entities'[j].item \in {NoItem, world'[j].item}
                 /\ nature[j] # "painting" => entities'[j].item = world'[j].item
                 /\ nature[j] \notin {"item", "painting", "orb"} => entities'[j].shown
                 /\ nature[j] = "orb" => ~entities'[j].shown
                 /\ entities'[j].shown /\ nature[j] \notin {"item", "painting"} /\ nature[j] # "frame" =>
                       entities'[j].item = NoItem
                 /\ entities'[j].mine => nature[j] = "rocket"
                 /\ nature[j] = "player" => entities'[j].uuid \in DOMAIN players
      <3>1. CASE j \in DOMAIN entities
        <4>1. entities'[j] = entities[j] /\ world'[j] = world[j]
          BY <1>1, <1>2, <1>5, <3>1
        <4> QED BY <3>1, <4>1 DEF Tab, BridgeEntities
      <3>2. CASE j = id /\ entities'[j] = e
        <4>1. /\ e \in Entity(nature[id]) /\ e.item = NoItem /\ ~e.mine
              /\ e.shown <=> nature[id] \notin {"item", "painting", "orb"}
          BY DEF Spawning
        <4>2. world'[j] = e
          BY <1>2, <3>2
        <4> QED BY <1>5, <3>2, <4>1, <4>2
      <3> QED BY <1>5, <3>1, <3>2
    <2>3. \A j \in DOMAIN world' \ gone' : nature[j] \notin {"hook", "player"} => j \in DOMAIN entities'
      BY <1>1, <1>2, <1>3, <1>5 DEF Tab, BridgeEntities
    <2> QED BY <1>3, <2>1, <2>2, <2>3 DEF BridgeEntities
  <1>7. /\ owed \subseteq owed' /\ owed' \subseteq DOMAIN world' \ gone
        /\ \A v \in DOMAIN world' : v \notin owed' /\ v = id => riders[v] = <<>>
    BY <1>1, <1>2, <1>3 DEF Spawning, Tab, RiderInv
  <1>8. RiderInv'
    BY <1>1, <1>2, <1>3, <1>7 DEF Tab, RiderInv, People
  <1>9. TableInv'
    <2>1. \A v : ToldOf(v)' = ToldOf(v)
      BY <1>3 DEF ToldOf
    <2>2. id \notin DOMAIN passengers /\ ToldOf(id) = <<>>
      BY <1>1 DEF ToldOf, Tab, TableInv
    <2>3. \A v \in DOMAIN world' \ (gone' \cup owed') : ToldOf(v)' = riders'[v]
      BY <1>1, <1>2, <1>3, <1>7, <2>1, <2>2 DEF Tab, TableInv
    <2>4. DOMAIN passengers' \subseteq DOMAIN world'
      BY <1>2, <1>3 DEF Tab, TableInv
    <2> QED BY <1>1, <1>3, <2>1, <2>3, <2>4 DEF Tab, TableInv, People
  <1> QED BY <1>4, <1>6, <1>8, <1>9 DEF Tab

\* Metadata keeps the tables right.
LEMMA DescribeTables ==
    ASSUME Tab, NEW id, Describing(id)
    PROVE  Tab'
  <1>1. /\ DOMAIN nature = Ids /\ DOMAIN world \subseteq Ids /\ DOMAIN entities \subseteq DOMAIN world
        /\ DOMAIN world' = DOMAIN world /\ DOMAIN entities' = DOMAIN entities
        /\ id \in DOMAIN entities /\ id \in DOMAIN world
        /\ UNCHANGED <<nature, riders, owed, gone, players, passengers, vehicle>>
    <2>1. DOMAIN nature = Ids /\ DOMAIN world \subseteq Ids /\ DOMAIN entities \subseteq DOMAIN world
      BY DEF Tab, ServerEntities, BridgeEntities
    <2>2. /\ DOMAIN world' = DOMAIN world /\ DOMAIN entities' = DOMAIN entities
          /\ id \in DOMAIN entities /\ id \in DOMAIN world
          /\ UNCHANGED <<nature, riders, owed, gone, players, passengers, vehicle>>
      BY DEF Describing
    <2> QED BY <2>1, <2>2
  <1>2. \A j \in DOMAIN world : j # id => world'[j] = world[j]
    BY <1>1 DEF Describing, OthersKept
  <1>3. \A j \in DOMAIN entities : j # id => entities'[j] = entities[j]
    BY <1>1 DEF Describing, OthersKept
  <1>4. /\ world'[id] \in Entity(nature[id]) /\ entities'[id] \in Entity(nature[id])
        /\ world'[id].uuid = world[id].uuid /\ world'[id].cell = world[id].cell
        /\ entities'[id].uuid = entities[id].uuid /\ entities'[id].cell = entities[id].cell
    BY DEF Describing
  <1>5. ServerEntities'
    <2>1. \A j \in DOMAIN world : /\ world'[j].uuid = world[j].uuid /\ world'[j].cell = world[j].cell
                                  /\ world'[j] \in Entity(nature[j])
      BY <1>2, <1>4 DEF Tab, ServerEntities
    <2> QED BY <1>1, <2>1 DEF Tab, ServerEntities
  <1>6. BridgeEntities'
    <2>1. ASSUME NEW j \in DOMAIN entities
          PROVE  /\ entities'[j] \in Entity(nature[j])
                 /\ entities'[j].uuid = world'[j].uuid /\ entities'[j].cell = world'[j].cell
                 /\ entities'[j].item \in {NoItem, world'[j].item}
                 /\ nature[j] # "painting" => entities'[j].item = world'[j].item
                 /\ nature[j] \notin {"item", "painting", "orb"} => entities'[j].shown
                 /\ nature[j] = "orb" => ~entities'[j].shown
                 /\ entities'[j].shown /\ nature[j] \notin {"item", "painting"} /\ nature[j] # "frame" =>
                       entities'[j].item = NoItem
                 /\ entities'[j].mine => nature[j] = "rocket"
                 /\ nature[j] = "player" => entities'[j].uuid \in DOMAIN players
      <3> DEFINE Fit(e, w) ==
                 /\ e.uuid = w.uuid /\ e.cell = w.cell
                 /\ e.item \in {NoItem, w.item}
                 /\ nature[j] # "painting" => e.item = w.item
                 /\ nature[j] \notin {"item", "painting", "orb"} => e.shown
                 /\ nature[j] = "orb" => ~e.shown
                 /\ e.shown /\ nature[j] \notin {"item", "painting"} /\ nature[j] # "frame" => e.item = NoItem
                 /\ e.mine => nature[j] = "rocket"
                 /\ nature[j] = "player" => e.uuid \in DOMAIN players
      <3>0. Fit(entities[j], world[j]) /\ entities[j] \in Entity(nature[j])
        BY DEF Tab, BridgeEntities
      <3>1. CASE j # id
        BY <1>1, <1>2, <1>3, <3>0, <3>1
      <3>2. CASE j = id
        <4> DEFINE e == entities'[id]
                   w == world'[id]
                   e0 == entities[id]
                   w0 == world[id]
                   n == nature[id]
        <4>1. \/ /\ e.shown = e0.shown /\ e.mine = e0.mine /\ w.item = w0.item
                 /\ e.item = e0.item \/ (n = "painting" /\ e.item \in {NoItem, w0.item})
              \/ n \in {"item", "painting"} /\ e.item = w.item /\ e.shown /\ e.mine = e0.mine
              \/ n = "frame" /\ e.item = w.item /\ e.shown = e0.shown /\ e.mine = e0.mine
              \/ n = "rocket" /\ e.shown = e0.shown /\ w.item = w0.item /\ e.item = e0.item
          BY DEF Describing
        <4>2. Fit(e0, w0)
          BY <3>0, <3>2
        <4>3. e.uuid = e0.uuid /\ e.cell = e0.cell /\ w.uuid = w0.uuid /\ w.cell = w0.cell
          BY <1>4
        <4>4. Fit(e, w)
          <5> HIDE DEF e, w, e0, w0
          <5> QED BY <3>2, <4>1, <4>2, <4>3
        <4> QED BY <1>4, <3>2, <4>4
      <3> QED BY <3>1, <3>2
    <2> QED BY <1>1, <2>1 DEF Tab, BridgeEntities
  <1> QED BY <1>1, <1>5, <1>6, SeatsKept DEF Tab

\* Movement keeps the tables right.
LEMMA MoveTables ==
    ASSUME Tab, NEW id, Moving(id),
           \/ vehicle' = vehicle
           \/ vehicle' = id /\ id \in DOMAIN passengers /\ Me \in ToSet(passengers[id])
    PROVE  Tab'
  <1>1. /\ DOMAIN nature = Ids /\ DOMAIN world \subseteq Ids /\ DOMAIN entities \subseteq DOMAIN world
        /\ DOMAIN world' = DOMAIN world /\ DOMAIN entities' = DOMAIN entities
        /\ id \in DOMAIN world
        /\ UNCHANGED <<nature, riders, owed, gone, players, passengers>>
    BY DEF Tab, ServerEntities, BridgeEntities, Moving
  <1>2. \A j \in DOMAIN world : j # id => world'[j] = world[j]
    BY <1>1 DEF Moving, OthersKept
  <1>3. \A j \in DOMAIN world : /\ world'[j].uuid = world[j].uuid /\ world'[j].cell = world[j].cell
                                /\ world'[j].item = world[j].item /\ world'[j] \in Entity(nature[j])
    BY <1>2 DEF Moving, Tab, ServerEntities
  <1>4. ServerEntities'
    BY <1>1, <1>3 DEF Tab, ServerEntities
  <1>5. \A j \in DOMAIN entities :
          /\ entities'[j].uuid = entities[j].uuid /\ entities'[j].cell = entities[j].cell
          /\ entities'[j].item = entities[j].item /\ entities'[j] \in Entity(nature[j])
          /\ entities'[j].shown = entities[j].shown /\ entities'[j].mine = entities[j].mine
    <2> SUFFICES ASSUME NEW j \in DOMAIN entities
                 PROVE  /\ entities'[j].uuid = entities[j].uuid /\ entities'[j].cell = entities[j].cell
                        /\ entities'[j].item = entities[j].item /\ entities'[j] \in Entity(nature[j])
                        /\ entities'[j].shown = entities[j].shown /\ entities'[j].mine = entities[j].mine
      OBVIOUS
    <2>0. entities[j] \in Entity(nature[j])
      BY DEF Tab, BridgeEntities
    <2>1. CASE j = id
      BY <2>0, <2>1 DEF Moving
    <2>2. CASE j # id
      <3>1. entities'[j] = entities[j]
        BY <1>1, <2>2 DEF Moving, OthersKept
      <3> QED BY <2>0, <3>1
    <2> QED BY <2>1, <2>2
  <1>6. BridgeEntities'
    BY <1>1, <1>3, <1>5 DEF Tab, BridgeEntities
  <1>7. RiderInv'
    BY <1>1 DEF Tab, RiderInv, People
  <1>8. TableInv'
    <2>1. \A v : ToldOf(v)' = ToldOf(v)
      BY <1>1 DEF ToldOf
    <2> QED BY <1>1, <2>1 DEF Tab, TableInv
  <1> QED BY <1>4, <1>6, <1>7, <1>8 DEF Tab

\* The server seats somebody, or has it stand.
Seating ==
    /\ UNCHANGED <<nature, world, gone, entities, players, passengers, vehicle, attachments,
                   javaWrites, tickWrites, actors, frames, links, boosted, listed, overtaken>>
    /\ owed \subseteq owed' /\ owed' \subseteq DOMAIN world \ gone
    /\ gone # {} => owed' = {}
    /\ \A v \in DOMAIN world \ (gone \cup owed') : riders'[v] = riders[v]
    /\ \A v \in Ids \ owed' : ToSet(riders'[v]) \subseteq ToSet(riders[v])

\* Who takes a seat is a passenger, once.
LEMMA Appended ==
    ASSUME NEW S, NEW s \in Seq(S), NEW r \in S, Distinct(s), r \notin ToSet(s)
    PROVE  /\ Append(s, r) \in Seq(S) /\ Distinct(Append(s, r))
           /\ ToSet(Append(s, r)) = ToSet(s) \cup {r}
  <1>1. /\ Append(s, r) \in Seq(S) /\ DOMAIN s = 1..Len(s) /\ Len(s) \in Nat
        /\ DOMAIN Append(s, r) = 1..(Len(s) + 1) /\ Append(s, r)[Len(s) + 1] = r
        /\ \A i \in DOMAIN s : i \in DOMAIN Append(s, r) /\ i < Len(s) + 1 /\ Append(s, r)[i] = s[i]
        /\ \A i \in DOMAIN Append(s, r) : i \in Nat /\ (i \in DOMAIN s \/ i = Len(s) + 1)
    BY Pushed
  <1> DEFINE t == Append(s, r)
  <1> HIDE DEF t
  <1>2. Distinct(t)
    <2> SUFFICES ASSUME NEW i \in DOMAIN t, NEW j \in DOMAIN t, t[i] = t[j] PROVE i = j
      BY DEF Distinct
    <2>1. CASE i \in DOMAIN s /\ j \in DOMAIN s
      BY <1>1, <2>1 DEF Distinct, t
    <2>2. CASE i = Len(s) + 1 /\ j = Len(s) + 1
      BY <2>2
    <2>3. CASE i \in DOMAIN s /\ j = Len(s) + 1
      BY <1>1, <2>3 DEF t, ToSet
    <2>4. CASE j \in DOMAIN s /\ i = Len(s) + 1
      BY <1>1, <2>4 DEF t, ToSet
    <2> QED BY <1>1, <2>1, <2>2, <2>3, <2>4 DEF t
  <1>3. ToSet(t) = ToSet(s) \cup {r}
    <2>1. ASSUME NEW x \in ToSet(t) PROVE x \in ToSet(s) \cup {r}
      BY <1>1, <2>1 DEF t, ToSet
    <2>2. ASSUME NEW x \in ToSet(s) PROVE x \in ToSet(t)
      BY <1>1, <2>2 DEF t, ToSet
    <2>3. r \in ToSet(t)
      BY <1>1 DEF t, ToSet
    <2> QED BY <2>1, <2>2, <2>3
  <1> QED BY <1>1, <1>2, <1>3 DEF t

\* Without somebody the passengers are the others, in order.
LEMMA WithoutOne ==
    ASSUME RiderInv, NEW r
    PROVE  /\ Without(r) \in [Ids -> Seq(People)]
           /\ \A v \in Ids :
                /\ Distinct(Without(r)[v])
                /\ ToSet(Without(r)[v]) = ToSet(riders[v]) \ {r}
                /\ v \notin Carries(r) => Without(r)[v] = riders[v]
                /\ Without(r)[v] = Leaves(riders[v], r)
  <1>1. ASSUME NEW v \in Ids
        PROVE  /\ Leaves(riders[v], r) \in Seq(People)
               /\ Distinct(Leaves(riders[v], r))
               /\ ToSet(Leaves(riders[v], r)) = ToSet(riders[v]) \ {r}
               /\ r \notin ToSet(riders[v]) => Leaves(riders[v], r) = riders[v]
    <2>1. riders[v] \in Seq(People) /\ Distinct(riders[v])
      BY DEF RiderInv
    <2> QED BY <2>1, LeavesSeats
  <1> QED BY <1>1 DEF Without, Carries

\* To seat somebody and to have somebody stand is a Seating.
LEMMA SeatSteps ==
    ASSUME Tab, NEW r \in People, (\E v \in Ids : Seat(r, v)) \/ Stand(r)
    PROVE  Seating /\ RiderInv'
  <1>0. /\ riders \in [Ids -> Seq(People)] /\ owed \subseteq DOMAIN world \ gone
        /\ DOMAIN world \subseteq Ids /\ gone \subseteq DOMAIN world /\ (gone # {} => gone = DOMAIN world /\ owed = {})
        /\ \A v \in DOMAIN world : world[v].kind = nature[v]
    BY EntityFields DEF Tab, RiderInv, ServerEntities
  <1> DEFINE W == Without(r)
  <1>1. /\ W \in [Ids -> Seq(People)]
        /\ \A v \in Ids : /\ Distinct(W[v]) /\ ToSet(W[v]) = ToSet(riders[v]) \ {r}
                          /\ v \notin Carries(r) => W[v] = riders[v]
    BY WithoutOne DEF Tab
  <1>2. CASE Stand(r)
    <2>1. /\ riders' = W /\ owed' = (owed \cup Carries(r)) \cap (DOMAIN world \ gone)
          /\ UNCHANGED <<nature, world, gone, tables, javaWrites, tickWrites, client, overtaken>>
      BY <1>2 DEF Stand
    <2> HIDE DEF W
    <2>2. Seating
      BY <1>0, <1>1, <2>1 DEF Seating, tables, client
    <2>3. RiderInv'
      BY <1>1, <2>1, <1>0 DEF Tab, RiderInv, People
    <2> QED BY <2>2, <2>3
  <1>3. ASSUME NEW v \in Ids, Seat(r, v)
        PROVE  Seating /\ RiderInv'
    <2>1. /\ v \in DOMAIN world \ gone /\ world[v].kind \in Rideable
          /\ r # Me => (r \in DOMAIN world \ gone /\ world[r].kind \in Rideable)
          /\ r \notin ToSet(riders[v]) /\ owed = {}
          /\ riders' = [W EXCEPT ![v] = Append(@, r)]
          /\ owed' = ({v} \cup Carries(r)) \cap (DOMAIN world \ gone)
          /\ UNCHANGED <<nature, world, gone, tables, javaWrites, tickWrites, client, overtaken>>
      BY <1>3 DEF Seat
    <2> HIDE DEF W
    <2>2. /\ Append(W[v], r) \in Seq(People) /\ Distinct(Append(W[v], r))
          /\ ToSet(Append(W[v], r)) = ToSet(W[v]) \cup {r}
      BY <1>1, <2>1, Appended
    <2>3. /\ riders' \in [Ids -> Seq(People)] /\ riders'[v] = Append(W[v], r)
          /\ \A u \in Ids : u # v => riders'[u] = W[u]
      BY <1>1, <2>1, <2>2
    <2>4. gone = {}
      BY <1>0, <2>1
    <2>5. Seating
      BY <1>0, <1>1, <2>1, <2>3, <2>4 DEF Seating, tables, client
    <2>6. \A u \in Ids : /\ Distinct(riders'[u])
                         /\ ToSet(riders'[u]) = (ToSet(riders[u]) \ {r}) \cup (IF u = v THEN {r} ELSE {})
      BY <1>1, <2>2, <2>3
    <2>7. nature[v] \in Rideable /\ (r = Me \/ nature[r] \in Rideable)
      BY <1>0, <2>1
    <2>8. /\ \A u \in Ids : \A x \in ToSet(riders'[u]) :
                nature[u] \in Rideable /\ (x = Me \/ nature[x] \in Rideable) /\ (x = Me => u \in DOMAIN world \ gone)
      <3> SUFFICES ASSUME NEW u \in Ids, NEW x \in ToSet(riders'[u])
                   PROVE  nature[u] \in Rideable /\ (x = Me \/ nature[x] \in Rideable) /\ (x = Me => u \in DOMAIN world \ gone)
        OBVIOUS
      <3>1. x \in ToSet(riders[u]) \/ (x = r /\ u = v)
        BY <2>6
      <3>2. CASE x \in ToSet(riders[u])
        BY <3>2 DEF Tab, RiderInv
      <3>3. CASE x = r /\ u = v
        BY <2>1, <2>7, <3>3
      <3> QED BY <3>1, <3>2, <3>3
    <2>9. \A u, w \in Ids : \A x : x \in ToSet(riders'[u]) /\ x \in ToSet(riders'[w]) => u = w
      BY <2>6, ZenonT(60) DEF Tab, RiderInv
    <2>10. RiderInv'
      BY <1>0, <2>1, <2>3, <2>6, <2>8, <2>9 DEF RiderInv, People
    <2> QED BY <2>5, <2>10
  <1> QED BY <1>2, <1>3

\* Seating keeps the tables right.
LEMMA SeatTables ==
    ASSUME Tab, Seating, RiderInv'
    PROVE  Tab'
  <1>1. ServerEntities'
    BY DEF Tab, ServerEntities, Seating
  <1>2. BridgeEntities'
    BY DEF Tab, BridgeEntities, Seating
  <1>3. \A v : ToldOf(v)' = ToldOf(v)
    BY DEF ToldOf, Seating
  <1>4. TableInv'
    BY <1>3 DEF Tab, TableInv, Seating
  <1> QED BY <1>1, <1>2, <1>4 DEF Tab

\* The writes of the two goroutines, and a tick
LEMMA WriteTables ==
    ASSUME Tab, UNCHANGED entityVars \/ WriteJava \/ WriteTick
    PROVE  Tab' /\ UNCHANGED <<nature, world, riders, owed, gone, entities, players, passengers, vehicle, attachments>>
  <1>1. UNCHANGED <<nature, world, riders, owed, gone, entities, players, passengers, vehicle, attachments>>
    BY DEF WriteJava, WriteTick, entityVars, server, tables
  <1>2. ServerEntities' /\ BridgeEntities'
    BY <1>1 DEF Tab, ServerEntities, BridgeEntities
  <1> QED BY <1>1, <1>2, SeatsKept DEF Tab

\* The set of the simulated moves one forward.
LEMMA TickSteps ==
    ASSUME Tab, TickProjectiles
    PROVE  /\ Tab'
           /\ UNCHANGED <<nature, riders, owed, gone, players, passengers, vehicle, attachments, javaWrites,
                          actors, frames, links, boosted, listed>>
           /\ DOMAIN world' = DOMAIN world /\ DOMAIN entities' = DOMAIN entities
           /\ \A j \in DOMAIN world : /\ world'[j].at = world[j].at /\ world'[j].item = world[j].item
                                      /\ world'[j].uuid = world[j].uuid /\ world'[j].cell = world[j].cell
           /\ \A j \in DOMAIN entities :
                 /\ entities'[j].uuid = entities[j].uuid /\ entities'[j].cell = entities[j].cell
                 /\ entities'[j].item = entities[j].item /\ entities'[j].shown = entities[j].shown
                 /\ entities'[j].mine = entities[j].mine
                 /\ entities'[j].at = IF Moves(j) THEN entities[j].at + 1 ELSE entities[j].at
  <1>1. UNCHANGED <<nature, riders, owed, gone, players, passengers, vehicle, attachments, javaWrites,
                    actors, frames, links, boosted, listed>>
    BY DEF TickProjectiles, client
  <1> DEFINE moved == {id \in DOMAIN entities : Moves(id)}
  <1>2. /\ entities' = [id \in DOMAIN entities |->
                          IF id \in moved THEN [entities[id] EXCEPT !.at = @ + 1] ELSE entities[id]]
        /\ world' = [id \in DOMAIN world |->
                       IF id \in moved THEN [world[id] EXCEPT !.corrected = FALSE] ELSE world[id]]
    BY DEF TickProjectiles
  <1>3. ASSUME NEW j \in DOMAIN entities
        PROVE  /\ entities'[j].uuid = entities[j].uuid /\ entities'[j].cell = entities[j].cell
               /\ entities'[j].item = entities[j].item /\ entities'[j].shown = entities[j].shown
               /\ entities'[j].mine = entities[j].mine
               /\ entities'[j].at = IF Moves(j) THEN entities[j].at + 1 ELSE entities[j].at
               /\ entities'[j] \in Entity(nature[j])
    <2>1. entities[j] \in Entity(nature[j])
      BY DEF Tab, BridgeEntities
    <2>2. CASE Moves(j)
      <3>1. entities'[j] = [entities[j] EXCEPT !.at = entities[j].at + 1]
        BY <1>2, <2>2
      <3> HIDE DEF moved
      <3>2. entities[j].at + 1 \in Int
        <4>1. entities[j].at \in Int
          BY <2>1 DEF Entity
        <4> QED BY <4>1
      <3> QED BY <2>1, <2>2, <3>1, <3>2 DEF Entity
    <2>3. CASE ~Moves(j)
      <3>1. entities'[j] = entities[j]
        BY <1>2, <2>3
      <3> QED BY <2>1, <2>3, <3>1
    <2> QED BY <2>2, <2>3
  <1>4. ASSUME NEW j \in DOMAIN world
        PROVE  /\ world'[j].at = world[j].at /\ world'[j].item = world[j].item
               /\ world'[j].uuid = world[j].uuid /\ world'[j].cell = world[j].cell
               /\ world'[j] \in Entity(nature[j])
    <2>1. world[j] \in Entity(nature[j])
      BY DEF Tab, ServerEntities
    <2>2. world'[j] = [world[j] EXCEPT !.corrected = FALSE] \/ world'[j] = world[j]
      BY <1>2
    <2> HIDE DEF moved
    <2> QED BY <2>1, <2>2 DEF Entity
  <1>5. DOMAIN world' = DOMAIN world /\ DOMAIN entities' = DOMAIN entities
    BY <1>2
  <1> HIDE DEF moved
  <1>6. ServerEntities'
    BY <1>1, <1>4, <1>5 DEF Tab, ServerEntities
  <1>7. BridgeEntities'
    BY <1>1, <1>3, <1>4, <1>5 DEF Tab, BridgeEntities
  <1> QED BY <1>1, <1>3, <1>4, <1>5, <1>6, <1>7, SeatsKept DEF Tab

\* The entity id is removed.
Taking(id) ==
    /\ id \in DOMAIN world /\ javaWrites = <<>>
    /\ DOMAIN world' = DOMAIN world \ {id} /\ DOMAIN entities' = DOMAIN entities \ {id}
    /\ OthersKept(id)
    /\ gone' = gone \ {id}
    /\ passengers' = Drop(passengers, {id})
    /\ vehicle' = IF vehicle = id THEN NoVehicle ELSE vehicle
    /\ UNCHANGED <<nature, players, tickWrites, client>>
    /\ owed \ {id} \subseteq owed' /\ owed' \subseteq DOMAIN world' \ gone'
    /\ \A v \in DOMAIN world' \ (gone' \cup owed') : riders'[v] = riders[v]
    /\ \A v \in Ids : ToSet(riders'[v]) \subseteq ToSet(riders[v])
    /\ LET mine == id \in DOMAIN entities /\ entities[id].mine
       IN  /\ attachments' = IF mine THEN attachments \ {id} ELSE attachments
           /\ Writes(IF id \in DOMAIN entities
                     THEN DestroyWrites(id, entities[id], mine /\ attachments = {id}) ELSE <<>>)

\* Nobody is nobody, and nobody twice.
LEMMA NoRiders == ToSet(<<>>) = {} /\ Distinct(<<>>) /\ \A S : <<>> \in Seq(S)
  BY EmptySeq DEF ToSet, Distinct

\* A removal by the server is a Taking.
LEMMA RemoveSteps ==
    ASSUME Tab, NEW id \in Ids, RemoveEntity(id)
    PROVE  Taking(id) /\ RiderInv'
  <1>0. /\ riders \in [Ids -> Seq(People)] /\ owed \subseteq DOMAIN world \ gone
        /\ DOMAIN world \subseteq Ids /\ gone \subseteq DOMAIN world /\ DOMAIN entities \subseteq DOMAIN world
        /\ (gone # {} => gone = DOMAIN world /\ owed = {})
    BY DEF Tab, RiderInv, ServerEntities, BridgeEntities
  <1>1. /\ id \in DOMAIN world /\ javaWrites = <<>> /\ world' = Drop(world, {id}) /\ gone' = gone \ {id}
        /\ Destroy(id) /\ players' = players
    BY DEF RemoveEntity, Handles
  <1>2. /\ DOMAIN world' = DOMAIN world \ {id} /\ \A j \in DOMAIN world : j # id => world'[j] = world[j]
    BY <1>1 DEF Drop
  <1>3. /\ DOMAIN entities' = DOMAIN entities \ {id}
        /\ \A j \in DOMAIN entities : j # id => entities'[j] = entities[j]
    BY <1>1 DEF Drop, Destroy
  <1>4. OthersKept(id)
    BY <1>2, <1>3 DEF OthersKept
  <1>5. UNCHANGED <<nature, tickWrites, client>>
    BY <1>1 DEF Destroy, Writes
  <1>6. /\ riders' \in [Ids -> Seq(People)]
        /\ owed \ {id} \subseteq owed' /\ owed' \subseteq DOMAIN world' \ gone'
        /\ \A v \in DOMAIN world' \ (gone' \cup owed') : riders'[v] = riders[v]
        /\ \A v \in Ids : ToSet(riders'[v]) \subseteq ToSet(riders[v]) /\ Distinct(riders'[v])
        /\ Me \notin ToSet(riders'[id])
    <2>1. CASE Dies(id)
      <3>1. \A v \in Ids : riders'[v] = IF v = id THEN <<>> ELSE Leaves(riders[v], id)
        BY <2>1 DEF Dies
      <3>2. owed' = (owed \cup {v \in DOMAIN world : id \in ToSet(riders[v])}) \ (gone \cup {id})
        BY <2>1 DEF Dies
      <3>3. \A v \in Ids : /\ Leaves(riders[v], id) \in Seq(People)
                           /\ Distinct(Leaves(riders[v], id))
                           /\ ToSet(Leaves(riders[v], id)) = ToSet(riders[v]) \ {id}
                           /\ id \notin ToSet(riders[v]) => Leaves(riders[v], id) = riders[v]
        <4> SUFFICES ASSUME NEW v \in Ids
                     PROVE /\ Leaves(riders[v], id) \in Seq(People)
                           /\ Distinct(Leaves(riders[v], id))
                           /\ ToSet(Leaves(riders[v], id)) = ToSet(riders[v]) \ {id}
                           /\ id \notin ToSet(riders[v]) => Leaves(riders[v], id) = riders[v]
          OBVIOUS
        <4>1. riders[v] \in Seq(People) /\ Distinct(riders[v])
          BY DEF Tab, RiderInv
        <4> QED BY <4>1, LeavesSeats
      <3>4. riders' = [v \in Ids |-> IF v = id THEN <<>> ELSE Leaves(riders[v], id)]
        BY <2>1 DEF Dies
      <3>5. riders' \in [Ids -> Seq(People)]
        BY <3>3, <3>4, NoRiders
      <3> QED BY <1>0, <1>1, <1>2, <3>1, <3>2, <3>3, <3>5, NoRiders
    <2>2. CASE LeavesView(id)
      <3>1. Me \notin ToSet(riders[id]) /\ owed' = owed \ {id} /\ riders' = riders
        BY <2>2 DEF LeavesView
      <3> QED BY <1>0, <1>1, <1>2, <3>1 DEF Tab, RiderInv
    <2> QED BY <2>1, <2>2 DEF RemoveEntity
  <1>7. Taking(id)
    BY <1>1, <1>2, <1>3, <1>4, <1>5, <1>6 DEF Taking, Destroy
  <1>8. RiderInv'
    <2>1. nature' = nature
      BY <1>5
    <2>2. \A v \in Ids : \A r \in ToSet(riders'[v]) :
              /\ nature[v] \in Rideable
              /\ r = Me \/ nature[r] \in Rideable
              /\ r = Me => v \in DOMAIN world' \ gone'
      BY <1>1, <1>2, <1>6 DEF Tab, RiderInv
    <2>3. \A v, w \in Ids : \A r : r \in ToSet(riders'[v]) /\ r \in ToSet(riders'[w]) => v = w
      BY <1>6 DEF Tab, RiderInv
    <2> QED BY <1>6, <2>1, <2>2, <2>3 DEF RiderInv, People
  <1> QED BY <1>7, <1>8

\* Removal keeps the tables right.
LEMMA TakeTables ==
    ASSUME Tab, NEW id, Taking(id), RiderInv'
    PROVE  Tab'
  <1>1. /\ DOMAIN nature = Ids /\ DOMAIN world \subseteq Ids /\ DOMAIN entities \subseteq DOMAIN world
        /\ gone \subseteq DOMAIN world /\ (gone # {} => gone = DOMAIN world /\ owed = {})
    BY DEF Tab, ServerEntities, BridgeEntities
  <1>2. /\ DOMAIN world' = DOMAIN world \ {id} /\ DOMAIN entities' = DOMAIN entities \ {id} /\ id \in Ids
        /\ gone' = gone \ {id} /\ nature' = nature /\ players' = players
        /\ \A j \in DOMAIN world' : world'[j] = world[j]
        /\ \A j \in DOMAIN entities' : entities'[j] = entities[j]
        /\ owed \ {id} \subseteq owed' /\ owed' \subseteq DOMAIN world' \ gone'
    BY <1>1 DEF Taking, OthersKept
  <1>3. ServerEntities'
    BY <1>1, <1>2 DEF Tab, ServerEntities
  <1>4. BridgeEntities'
    <2>1. \A j \in DOMAIN entities' : j \in DOMAIN world' /\ j \in DOMAIN entities
      BY <1>1, <1>2
    <2>2. \A j \in DOMAIN world' \ gone' : nature[j] \notin {"hook", "player"} => j \in DOMAIN entities'
      BY <1>1, <1>2 DEF Tab, BridgeEntities
    <2> QED BY <1>2, <2>1, <2>2 DEF Tab, BridgeEntities
  <1>5. TableInv'
    <2>1. /\ DOMAIN passengers' = DOMAIN passengers \ {id}
          /\ \A v \in DOMAIN passengers' : passengers'[v] = passengers[v]
      BY DEF Taking, Drop
    <2>2. \A v : v # id => ToldOf(v)' = ToldOf(v)
      BY <2>1 DEF ToldOf
    <2>3. \A v \in DOMAIN world' \ (gone' \cup owed') : ToldOf(v)' = riders'[v]
      <3> SUFFICES ASSUME NEW v \in DOMAIN world' \ (gone' \cup owed') PROVE ToldOf(v)' = riders'[v]
        OBVIOUS
      <3>1. v # id /\ v \in DOMAIN world \ (gone \cup owed)
        BY <1>2
      <3>2. ToldOf(v) = riders[v]
        BY <3>1 DEF Tab, TableInv
      <3>3. riders'[v] = riders[v]
        BY DEF Taking
      <3> QED BY <2>2, <3>1, <3>2, <3>3
    <2>4. \A v \in gone' : Me \notin ToSet(ToldOf(v)')
      BY <1>2, <2>2 DEF Tab, TableInv
    <2>5. DOMAIN passengers' \subseteq DOMAIN world'
      BY <1>2, <2>1 DEF Tab, TableInv
    <2>6. vehicle' # NoVehicle => vehicle' \in DOMAIN passengers' /\ Me \in ToSet(passengers'[vehicle'])
      BY <2>1 DEF Taking, Tab, TableInv
    <2>7. \A v \in DOMAIN passengers' : passengers'[v] \in Seq(People)
      BY <2>1 DEF Tab, TableInv
    <2> QED BY <2>3, <2>4, <2>5, <2>6, <2>7 DEF TableInv, People
  <1> QED BY <1>3, <1>4, <1>5 DEF Tab

\* The name of a player changes the player list alone.
LEMMA InfoTables ==
    ASSUME Tab, NEW u \in Uuids, NEW named, PlayerInfo(u, named)
    PROVE  Tab' /\ UNCHANGED <<nature, world, riders, owed, gone, entities, passengers, vehicle, attachments>>
  <1>1. UNCHANGED <<nature, world, riders, owed, gone, entities, passengers, vehicle, attachments>>
    BY DEF PlayerInfo, Writes, server
  <1>2. DOMAIN players' = DOMAIN players \cup {u}
    BY DEF PlayerInfo, Put
  <1>3. ServerEntities' /\ BridgeEntities'
    BY <1>1, <1>2 DEF Tab, ServerEntities, BridgeEntities
  <1> QED BY <1>1, <1>3, SeatsKept DEF Tab

\* A player who leaves takes his actors along.
LEMMA GoneTables ==
    ASSUME Tab, NEW u \in Uuids, PlayerRemove(u)
    PROVE  /\ Tab'
           /\ UNCHANGED <<nature, world, riders, owed, gone, passengers, vehicle, attachments>>
           /\ DOMAIN players' = DOMAIN players \ {u}
           /\ \A v \in DOMAIN players' : players'[v] = players[v]
           /\ \A j : j \in DOMAIN entities' <=> j \in DOMAIN entities /\ entities[j].uuid # u
           /\ \A j \in DOMAIN entities' : entities'[j] = entities[j]
           /\ \A j \in DOMAIN entities : entities[j].uuid = u => nature[j] = "player"
  <1>1. UNCHANGED <<nature, world, riders, owed, gone, passengers, vehicle, attachments>>
    BY DEF PlayerRemove, Writes, server
  <1>2. /\ DOMAIN players' = DOMAIN players \ {u} /\ \A v \in DOMAIN players' : players'[v] = players[v]
    BY DEF PlayerRemove, Drop
  <1>3. /\ \A j : j \in DOMAIN entities' <=> j \in DOMAIN entities /\ entities[j].uuid # u
        /\ \A j \in DOMAIN entities' : entities'[j] = entities[j]
    BY DEF PlayerRemove, Drop
  <1>4. \A j \in DOMAIN entities : entities[j].uuid = u => nature[j] = "player"
    BY DEF Tab, ServerEntities, BridgeEntities
  <1>5. ServerEntities'
    BY <1>1 DEF Tab, ServerEntities
  <1>6. BridgeEntities'
    BY <1>1, <1>2, <1>3, <1>4 DEF Tab, BridgeEntities
  <1> QED BY <1>1, <1>2, <1>3, <1>4, <1>5, <1>6, SeatsKept DEF Tab

\* The passengers told are those the table has then.
LEMMA PassengerTables ==
    ASSUME Tab, NEW v \in Ids, SetPassengers(v)
    PROVE  /\ Tab' /\ v \in owed /\ owed' = owed \ {v} /\ gone = {}
           /\ passengers' = Put(passengers, v, riders[v])
           /\ UNCHANGED <<nature, world, riders, gone, entities, players, attachments>>
  <1>1. /\ UNCHANGED <<nature, world, riders, gone, entities, players, attachments>>
        /\ v \in owed /\ owed' = owed \ {v}
        /\ passengers' = Put(passengers, v, riders[v]) /\ vehicle' = VehicleAfter(v, riders[v])
    BY DEF SetPassengers, Writes
  <1>2. /\ DOMAIN passengers' = DOMAIN passengers \cup {v} /\ passengers'[v] = riders[v]
        /\ \A w \in DOMAIN passengers : w # v => passengers'[w] = passengers[w]
    BY <1>1 DEF Put
  <1>3. gone = {} /\ v \in DOMAIN world /\ v \notin gone
    BY <1>1 DEF Tab, ServerEntities, RiderInv
  <1>4. ServerEntities'
    BY <1>1, <1>3 DEF Tab, ServerEntities
  <1>5. BridgeEntities'
    BY <1>1 DEF Tab, BridgeEntities
  <1>6. RiderInv'
    BY <1>1 DEF Tab, RiderInv, People
  <1>7. TableInv'
    <2>1. ToldOf(v)' = riders[v] /\ \A w : w # v => ToldOf(w)' = ToldOf(w)
      BY <1>2 DEF ToldOf
    <2>2. \A w \in DOMAIN world' \ (gone' \cup owed') : ToldOf(w)' = riders'[w]
      BY <1>1, <2>1 DEF Tab, TableInv
    <2>3. \A w \in DOMAIN passengers' : passengers'[w] \in Seq(People)
      BY <1>2 DEF Tab, TableInv, RiderInv
    <2>4. DOMAIN passengers' \subseteq DOMAIN world'
      BY <1>1, <1>2, <1>3 DEF Tab, TableInv
    <2>5. vehicle' # NoVehicle => vehicle' \in DOMAIN passengers' /\ Me \in ToSet(passengers'[vehicle'])
      BY <1>1, <1>2 DEF Tab, TableInv, VehicleAfter
    <2> QED BY <1>1, <1>3, <2>2, <2>3, <2>4, <2>5 DEF TableInv, People
  <1> QED BY <1>1, <1>3, <1>4, <1>5, <1>6, <1>7 DEF Tab

\* With another dimension the tables stay, and everything in them is of the one left.
LEMMA LeaveTables ==
    ASSUME Tab, LeaveDimension
    PROVE  /\ Tab' /\ owed = {} /\ gone' = DOMAIN world
           /\ UNCHANGED <<nature, world, riders, owed, entities, players, passengers, vehicle, attachments>>
  <1>1. /\ UNCHANGED <<nature, world, riders, owed, entities, players, passengers, vehicle, attachments>>
        /\ owed = {} /\ gone' = DOMAIN world /\ Carries(Me) = {}
    BY DEF LeaveDimension, Writes, tables
  <1>2. ServerEntities'
    BY <1>1 DEF Tab, ServerEntities
  <1>3. BridgeEntities'
    BY <1>1 DEF Tab, BridgeEntities
  <1>4. \A v \in Ids : Me \notin ToSet(riders[v])
    BY <1>1 DEF Carries
  <1>5. RiderInv'
    BY <1>1, <1>4 DEF Tab, RiderInv, People
  <1>6. TableInv'
    <2>1. \A v : ToldOf(v)' = ToldOf(v)
      BY <1>1 DEF ToldOf
    <2>2. \A v \in DOMAIN world : Me \notin ToSet(ToldOf(v))
      BY <1>1, <1>4 DEF Tab, TableInv, ServerEntities
    <2> QED BY <1>1, <2>1, <2>2 DEF Tab, TableInv, People
  <1> QED BY <1>1, <1>2, <1>3, <1>5, <1>6 DEF Tab

\* The kinds of steps.
Step ==
    \/ UNCHANGED entityVars
    \/ WriteJava \/ WriteTick \/ TickProjectiles
    \/ \E id, e : Spawning(id, e)
    \/ \E id : Describing(id)
    \/ \E id : Moving(id)
    \/ \E id : Taking(id)
    \/ \E u \in Uuids, b \in BOOLEAN : PlayerInfo(u, b)
    \/ \E u \in Uuids : PlayerRemove(u)
    \/ Seating
    \/ \E v \in Ids : SetPassengers(v)
    \/ LeaveDimension

\* Every step is one of these, and keeps the tables right.
LEMMA Steps ==
    ASSUME Tab, [EntitiesNext]_entityVars
    PROVE  Tab' /\ Step
  <1>1. CASE UNCHANGED entityVars \/ WriteJava \/ WriteTick
    BY <1>1, WriteTables DEF Step
  <1>2. CASE TickProjectiles
    BY <1>2, TickSteps DEF Step
  <1>3. CASE Spawns
    <2>1. PICK id, e : Spawning(id, e)
      BY <1>3, SpawnSteps DEF Tab
    <2> QED BY <2>1, SpawnTables DEF Step
  <1>4. CASE \/ \E id \in Ids, i \in Items \cup {NoItem} : ItemMetadata(id, i)
             \/ \E id \in Ids, i \in Items \cup {NoItem} : PaintingMetadata(id, i)
             \/ \E id \in Ids, i \in Items \cup {NoItem} : FrameMetadata(id, i)
             \/ \E id \in Ids, b \in BOOLEAN : ArrowMetadata(id, b)
             \/ \E id \in Ids, o \in {NoOne, Me} \cup Ids : RocketMetadata(id, o)
    <2>1. NoItem \in Item
      BY DEF Item
    <2>2. PICK id \in Ids : Describing(id)
      BY <1>4, <2>1, DescribeSteps DEF Tab, Item
    <2> QED BY <2>2, DescribeTables DEF Step
  <1>5. CASE \E id \in Ids, at \in Positions, relative \in BOOLEAN : MoveEntity(id, at, relative)
    <2>1. PICK id \in Ids : Moving(id) /\ vehicle' = vehicle
      BY <1>5, MoveSteps DEF Tab
    <2> QED BY <2>1, MoveTables DEF Step
  <1>6. CASE \E at \in Positions : MoveVehicle(at)
    <2>1. PICK id \in Ids : Moving(id) /\ vehicle' = id /\ Me \in ToSet(riders[id])
                            /\ id \in DOMAIN passengers /\ Me \in ToSet(passengers[id])
      BY <1>6, DriveSteps DEF Tab
    <2> QED BY <2>1, MoveTables DEF Step
  <1>7. CASE \E id \in Ids : RemoveEntity(id)
    <2>1. PICK id \in Ids : Taking(id) /\ RiderInv'
      BY <1>7, RemoveSteps
    <2> QED BY <2>1, TakeTables DEF Step
  <1>8. CASE \E u \in Uuids, b \in BOOLEAN : Players /\ PlayerInfo(u, b)
    BY <1>8, InfoTables DEF Step
  <1>9. CASE \E u \in Uuids : Players /\ PlayerRemove(u)
    BY <1>9, GoneTables DEF Step
  <1>10. CASE \/ \E r \in Ids \cup {Me}, v \in Ids : Seat(r, v)
              \/ \E r \in Ids \cup {Me} : Stand(r)
    BY <1>10, SeatSteps, SeatTables DEF Step, People
  <1>11. CASE \E v \in Ids : SetPassengers(v)
    BY <1>11, PassengerTables DEF Step
  <1>12. CASE LeaveDimension
    BY <1>12, LeaveTables DEF Step
  <1> QED BY <1>1, <1>2, <1>3, <1>4, <1>5, <1>6, <1>7, <1>8, <1>9, <1>10, <1>11, <1>12 DEF EntitiesNext

\* The tables are right at first.
LEMMA FirstTables ==
    ASSUME EntitiesInit
    PROVE  Tab
  <1>1. DOMAIN <<>> = {} /\ ToSet(<<>>) = {} /\ <<>> \in Seq(People)
    BY NoRiders
  <1>2. DOMAIN nature = Ids
    BY EntitiesAssumption DEF EntitiesInit
  <1>3. ServerEntities
    BY <1>1, <1>2 DEF EntitiesInit, ServerEntities
  <1>4. BridgeEntities
    BY <1>1 DEF EntitiesInit, BridgeEntities
  <1>5. RiderInv
    BY <1>1, NoRiders DEF EntitiesInit, RiderInv
  <1>6. TableInv
    BY <1>1 DEF EntitiesInit, TableInv
  <1> QED BY <1>3, <1>4, <1>5, <1>6 DEF Tab

(***************************************************************************)
(* The packets handlers write                                              *)
(***************************************************************************)

\* The packets handlers write are packets.
LEMMA PacketsMade ==
    /\ \A id \in Ids, at \in Int, item \in Item : AddActor(id, at, item) \in Packet
    /\ \A id \in Ids, at \in Int : MoveActor(id, at) \in Packet
    /\ \A id \in Ids : RemoveActor(id) \in Packet
    /\ \A id \in Ids, item \in Item : StackSize(id, item[2]) \in Packet
    /\ \A c \in Cells, item \in Item : Frame(c, item) \in Packet
    /\ \A c \in Cells : ClearFrame(c) \in Packet
    /\ \A v \in Ids, r \in People, front \in BOOLEAN : Link(v, r, front) \in Packet
    /\ \A v \in Ids, r \in People : Unlink(v, r) \in Packet
    /\ \A on \in BOOLEAN : Boost(on) \in Packet
    /\ \A u \in Uuids : ListPlayer(u) \in Packet /\ UnlistPlayer(u) \in Packet
    /\ ChangeDimension \in Packet /\ NoWrite \in Packet
  <1>1. \A id \in Ids, at \in Int, item \in Item : AddActor(id, at, item) \in Packet
    BY DEF AddActor, Packet
  <1>2. \A id \in Ids, at \in Int : MoveActor(id, at) \in Packet
    BY DEF MoveActor, Packet
  <1>3. \A id \in Ids : RemoveActor(id) \in Packet
    BY DEF RemoveActor, Packet
  <1>4. \A id \in Ids, item \in Item : StackSize(id, item[2]) \in Packet
    BY DEF StackSize, Packet
  <1>5. \A c \in Cells, item \in Item : Frame(c, item) \in Packet
    BY DEF Frame, Packet
  <1>6. \A c \in Cells : ClearFrame(c) \in Packet
    BY DEF ClearFrame, Packet
  <1>7. \A v \in Ids, r \in People, front \in BOOLEAN : Link(v, r, front) \in Packet
    BY DEF Link, Packet
  <1>8. \A v \in Ids, r \in People : Unlink(v, r) \in Packet
    BY DEF Unlink, Packet
  <1>9. \A on \in BOOLEAN : Boost(on) \in Packet
    BY DEF Boost, Packet
  <1>10. \A u \in Uuids : ListPlayer(u) \in Packet /\ UnlistPlayer(u) \in Packet
    BY DEF ListPlayer, UnlistPlayer, Packet
  <1>11. ChangeDimension \in Packet /\ NoWrite \in Packet
    BY DEF ChangeDimension, NoWrite, Packet
  <1> QED BY <1>1, <1>2, <1>3, <1>4, <1>5, <1>6, <1>7, <1>8, <1>9, <1>10, <1>11

\* Short queues.
LEMMA ShortQueues ==
    ASSUME NEW S
    PROVE  /\ <<>> \in Seq(S)
           /\ \A a \in S : <<a>> \in Seq(S)
           /\ \A a, b \in S : <<a, b>> \in Seq(S)
           /\ \A s, t \in Seq(S) : s \o t \in Seq(S)
  OBVIOUS

\* Orders of a finite set.
LEMMA Orders ==
    ASSUME NEW S, IsFiniteSet(S), NEW order \in SetToSeqs(S)
    PROVE  /\ order \in Seq(S) /\ Len(order) \in Nat /\ DOMAIN order = 1..Len(order)
           /\ \A i \in DOMAIN order : order[i] \in S
           /\ \A x \in S : \E i \in DOMAIN order : order[i] = x
           /\ \A i, j \in DOMAIN order : order[i] = order[j] => i = j
  <1>1. /\ order \in [1..Cardinality(S) -> S]
        /\ \A i, j \in 1..Cardinality(S) : i # j => order[i] # order[j]
    BY DEF SetToSeqs
  <1>2. Cardinality(S) \in Nat
    BY FS_CardinalityType
  <1>3. IsFiniteSet(1..Cardinality(S)) /\ Cardinality(1..Cardinality(S)) = Cardinality(S)
    BY <1>2, FS_Interval
  <1>4. ASSUME NEW x \in S, \A i \in 1..Cardinality(S) : order[i] # x
        PROVE  FALSE
    <2>1. IsFiniteSet(S \ {x}) /\ Cardinality(S \ {x}) = Cardinality(S) - 1
      BY FS_RemoveElement
    <2>2. order \in [1..Cardinality(S) -> S \ {x}]
      BY <1>1, <1>4
    <2> QED BY <1>1, <1>2, <1>3, <2>1, <2>2, FS_PigeonHole
  <1> QED BY <1>1, <1>2, <1>4

\* What a tick writes: one position for each entity it moved.
LEMMA TickWritten ==
    ASSUME Tab, TickProjectiles
    PROVE  /\ tickWrites = <<>>
           /\ tickWrites' \in Seq([op : {"move"}, id : {id \in Ids : nature[id] \in Simulated}, at : Int])
           /\ \A i \in DOMAIN tickWrites' :
                 /\ tickWrites'[i].id \in DOMAIN entities /\ Moves(tickWrites'[i].id)
                 /\ tickWrites'[i] = MoveActor(tickWrites'[i].id, entities[tickWrites'[i].id].at + 1)
           /\ \A id \in DOMAIN entities : Moves(id) => \E i \in DOMAIN tickWrites' : tickWrites'[i].id = id
  <1> DEFINE moved == {id \in DOMAIN entities : Moves(id)}
  <1>1. tickWrites = <<>>
        /\ \E order \in SetToSeqs(moved) :
             tickWrites' = [i \in DOMAIN order |-> MoveActor(order[i], entities[order[i]].at + 1)]
    BY DEF TickProjectiles
  <1>2. PICK order \in SetToSeqs(moved) :
             tickWrites' = [i \in DOMAIN order |-> MoveActor(order[i], entities[order[i]].at + 1)]
    BY <1>1
  <1>3. DOMAIN entities \subseteq Ids
    BY DEF Tab, BridgeEntities, ServerEntities
  <1>4. \A id \in DOMAIN entities : entities[id] \in Entity(nature[id])
    BY DEF Tab, BridgeEntities
  <1>5. \A id \in moved : entities[id].at + 1 \in Int /\ nature[id] \in Simulated
    <2> TAKE id \in moved
    <2>1. id \in DOMAIN entities /\ entities[id].kind \in Simulated
      BY DEF Moves
    <2>2. entities[id] \in Entity(nature[id])
      BY <1>4, <2>1
    <2>3. entities[id].kind = nature[id] /\ entities[id].at \in Int
      BY <2>2, EntityFields
    <2> QED BY <2>1, <2>3
  <1>6. IsFiniteSet(moved)
    BY <1>3, FS_Subset, EntitiesAssumption
  <1> HIDE DEF moved
  <1>7. /\ Len(order) \in Nat /\ DOMAIN order = 1..Len(order)
        /\ \A i \in DOMAIN order : order[i] \in moved
        /\ \A x \in moved : \E i \in DOMAIN order : order[i] = x
    BY <1>6, Orders
  <1>8. \A i \in DOMAIN order : /\ tickWrites'[i] = MoveActor(order[i], entities[order[i]].at + 1)
                                /\ tickWrites'[i].id = order[i]
    BY <1>2 DEF MoveActor
  <1>9. DOMAIN tickWrites' = DOMAIN order
    BY <1>2
  <1> DEFINE Bodies == {id \in Ids : nature[id] \in Simulated}
             Sent == [op : {"move"}, id : Bodies, at : Int]
  <1>10. \A i \in DOMAIN order : tickWrites'[i] \in Sent
    <2> TAKE i \in DOMAIN order
    <2>1. order[i] \in Bodies /\ entities[order[i]].at + 1 \in Int
      BY <1>3, <1>5, <1>7 DEF moved
    <2> HIDE DEF Bodies
    <2>2. \A b \in Bodies, at \in Int : MoveActor(b, at) \in Sent
      BY DEF MoveActor
    <2> HIDE DEF Sent
    <2> QED BY <1>8, <2>1, <2>2
  <1> HIDE DEF Sent
  <1>11. tickWrites' \in Seq(Sent)
    <2>1. tickWrites' = [i \in 1..Len(order) |-> tickWrites'[i]]
      BY <1>2, <1>7
    <2> QED BY <1>7, <1>10, <2>1
  <1> QED BY <1>1, <1>7, <1>8, <1>9, <1>11 DEF moved, Sent

\* What the removal of a player writes.
LEMMA GoneWritten ==
    ASSUME Tab, NEW u \in Uuids, PlayerRemove(u)
    PROVE  /\ javaWrites = <<>> /\ tickWrites' = tickWrites /\ UNCHANGED client
           /\ javaWrites' \in Seq(Packet)
           /\ 1 \in DOMAIN javaWrites' /\ javaWrites'[1] = UnlistPlayer(u)
           /\ \A i \in DOMAIN javaWrites' : i # 1 =>
                 /\ javaWrites'[i].id \in DOMAIN entities /\ entities[javaWrites'[i].id].uuid = u
                 /\ javaWrites'[i] = RemoveActor(javaWrites'[i].id)
           /\ \A id \in DOMAIN entities : entities[id].uuid = u =>
                 \E i \in DOMAIN javaWrites' : i # 1 /\ javaWrites'[i].id = id
           /\ Writes(javaWrites')
  <1> DEFINE ids == {id \in DOMAIN entities : entities[id].uuid = u}
  <1>1. javaWrites = <<>> /\ \E order \in SetToSeqs(ids) :
             Writes(<<UnlistPlayer(u)>> \o [i \in DOMAIN order |-> RemoveActor(order[i])])
    BY DEF PlayerRemove, Handles
  <1>2. PICK order \in SetToSeqs(ids) :
             Writes(<<UnlistPlayer(u)>> \o [i \in DOMAIN order |-> RemoveActor(order[i])])
    BY <1>1
  <1>3. ids \subseteq Ids
    BY DEF Tab, BridgeEntities, ServerEntities
  <1>4. IsFiniteSet(ids)
    BY <1>3, FS_Subset, EntitiesAssumption
  <1> HIDE DEF ids
  <1>5. /\ Len(order) \in Nat /\ DOMAIN order = 1..Len(order)
        /\ \A i \in DOMAIN order : order[i] \in ids
        /\ \A x \in ids : \E i \in DOMAIN order : order[i] = x
    BY <1>4, Orders
  <1> DEFINE removes == [i \in DOMAIN order |-> RemoveActor(order[i])]
  <1>6. removes \in Seq(Packet) /\ DOMAIN removes = 1..Len(order) /\ Len(removes) = Len(order)
    <2>1. \A i \in 1..Len(order) : RemoveActor(order[i]) \in Packet
      BY <1>3, <1>5, PacketsMade
    <2>2. removes = [i \in 1..Len(order) |-> RemoveActor(order[i])]
      BY <1>5
    <2> QED BY <1>5, <2>1, <2>2
  <1>7. \A i \in DOMAIN removes : removes[i] = RemoveActor(order[i])
    OBVIOUS
  <1> HIDE DEF removes
  <1>8. javaWrites' = <<UnlistPlayer(u)>> \o removes /\ UNCHANGED <<tickWrites, client>>
    BY <1>2 DEF Writes, removes
  <1>9. UnlistPlayer(u) \in Packet
    BY PacketsMade
  <1>10. /\ javaWrites' \in Seq(Packet) /\ DOMAIN javaWrites' = 1..Len(order) + 1
         /\ javaWrites'[1] = UnlistPlayer(u)
         /\ \A i \in 2..Len(order) + 1 : javaWrites'[i] = removes[i - 1]
    BY <1>5, <1>6, <1>8, <1>9
  <1>11. \A i \in DOMAIN javaWrites' : i # 1 =>
           /\ i - 1 \in DOMAIN order
           /\ javaWrites'[i] = RemoveActor(order[i - 1]) /\ javaWrites'[i].id = order[i - 1]
    BY <1>5, <1>6, <1>7, <1>10 DEF RemoveActor
  <1>12. \A x \in ids : \E i \in DOMAIN javaWrites' : i # 1 /\ javaWrites'[i].id = x
    <2> TAKE x \in ids
    <2>1. PICK k \in DOMAIN order : order[k] = x
      BY <1>5
    <2>2. k + 1 \in DOMAIN javaWrites' /\ k + 1 # 1 /\ (k + 1) - 1 = k
      BY <1>5, <1>10
    <2> QED BY <1>11, <2>1, <2>2
  <1>13. Writes(javaWrites')
    BY <1>2 DEF Writes
  <1>14. 1 \in DOMAIN javaWrites'
    BY <1>5, <1>10
  <1> QED BY <1>1, <1>5, <1>8, <1>10, <1>11, <1>12, <1>13, <1>14 DEF ids

\* What is written when a vehicle's passengers are told: a link goes for each who left,
\* and one comes for each who sits in it and is known.
LEMMA LinksWritten ==
    ASSUME Tab, NEW v \in Ids, SetPassengers(v)
    PROVE  /\ javaWrites = <<>> /\ tickWrites' = tickWrites /\ UNCHANGED client
           /\ javaWrites' \in Seq(Packet) /\ Writes(javaWrites')
           /\ ~Known(v) => javaWrites' = <<>>
           /\ \A i \in DOMAIN javaWrites' :
                 \/ javaWrites'[i] = NoWrite
                 \/ \E r \in ToSet(ToldOf(v)) \ ToSet(riders[v]) : javaWrites'[i] = Unlink(v, r)
                 \/ \E k \in DOMAIN riders[v] : /\ Known(riders[v][k])
                                                /\ javaWrites'[i] = Link(v, riders[v][k], k = 1)
           /\ Known(v) =>
                 /\ \A r \in ToSet(ToldOf(v)) \ ToSet(riders[v]) :
                       \E i \in DOMAIN javaWrites' : javaWrites'[i] = Unlink(v, r)
                 /\ \A k \in DOMAIN riders[v] : Known(riders[v][k]) =>
                       \E i \in DOMAIN javaWrites' : javaWrites'[i] = Link(v, riders[v][k], k = 1)
           /\ \A i, j \in DOMAIN javaWrites' :
                 i # j /\ javaWrites'[i].op = "link" /\ javaWrites'[j].op \in {"link", "unlink"} =>
                    javaWrites'[i].rider # javaWrites'[j].rider
  <1> DEFINE new == riders[v]
             old == ToldOf(v)
             first == [i \in DOMAIN old |-> IF old[i] \in ToSet(new) THEN NoWrite ELSE Unlink(v, old[i])]
             second == [i \in DOMAIN new |->
                          IF i \in LinkedSeats(v, old, new) THEN Link(v, new[i], i = 1) ELSE NoWrite]
  <1>1. /\ javaWrites = <<>>
        /\ Writes(IF Known(v) THEN first \o second ELSE <<>>)
    BY DEF SetPassengers, Handles, LinkWrites, ToldOf
  <1>2. /\ new \in Seq(People) /\ Distinct(new) /\ old \in Seq(People)
    <2>1. new \in Seq(People) /\ Distinct(new)
      BY DEF Tab, RiderInv
    <2>2. old \in Seq(People)
      BY NoRiders DEF Tab, TableInv, ToldOf
    <2> QED BY <2>1, <2>2
  <1>3. ToSet(new) = {new[i] : i \in DOMAIN new} /\ ToSet(old) = {old[i] : i \in DOMAIN old}
    BY DEF ToSet
  <1>4. LinkedSeats(v, old, new) = {i \in DOMAIN new : Known(new[i])}
    BY DEF LinkedSeats
  <1> HIDE DEF new, old
  <1>5. /\ Len(new) \in Nat /\ DOMAIN new = 1..Len(new) /\ \A i \in DOMAIN new : new[i] \in People
        /\ Len(old) \in Nat /\ DOMAIN old = 1..Len(old) /\ \A i \in DOMAIN old : old[i] \in People
    BY <1>2
  <1>6. /\ DOMAIN first = 1..Len(old) /\ first \in Seq(Packet) /\ Len(first) = Len(old)
        /\ \A i \in 1..Len(old) : first[i] = IF old[i] \in ToSet(new) THEN NoWrite ELSE Unlink(v, old[i])
    <2>1. \A i \in 1..Len(old) : (IF old[i] \in ToSet(new) THEN NoWrite ELSE Unlink(v, old[i])) \in Packet
      BY <1>5, PacketsMade
    <2>2. first = [i \in 1..Len(old) |-> IF old[i] \in ToSet(new) THEN NoWrite ELSE Unlink(v, old[i])]
      BY <1>5
    <2> QED BY <1>5, <2>1, <2>2
  <1>7. /\ DOMAIN second = 1..Len(new) /\ second \in Seq(Packet) /\ Len(second) = Len(new)
        /\ \A i \in 1..Len(new) : second[i] = IF Known(new[i]) THEN Link(v, new[i], i = 1) ELSE NoWrite
    <2>1. \A i \in 1..Len(new) : (IF Known(new[i]) THEN Link(v, new[i], i = 1) ELSE NoWrite) \in Packet
      BY <1>5, PacketsMade
    <2>2. second = [i \in 1..Len(new) |-> IF Known(new[i]) THEN Link(v, new[i], i = 1) ELSE NoWrite]
      BY <1>4, <1>5
    <2> QED BY <1>5, <2>1, <2>2
  <1> HIDE DEF first, second
  <1>8. javaWrites' = (IF Known(v) THEN first \o second ELSE <<>>) /\ UNCHANGED <<tickWrites, client>>
    BY <1>1 DEF Writes
  <1>9. Writes(javaWrites')
    BY <1>1, <1>8
  <1>10. CASE ~Known(v)
    <2>1. javaWrites' = <<>> /\ DOMAIN <<>> = {} /\ <<>> \in Seq(Packet)
      BY <1>8, <1>10
    <2> QED BY <1>1, <1>8, <1>9, <1>10, <2>1
  <1>11. CASE Known(v)
    <2> DEFINE both == first \o second
    <2>0. javaWrites' = both
      BY <1>8, <1>11
    <2>1. /\ both \in Seq(Packet) /\ DOMAIN both = 1..Len(old) + Len(new)
          /\ \A i \in 1..Len(old) : both[i] = first[i]
          /\ \A i \in 1..Len(new) : Len(old) + i \in DOMAIN both /\ both[Len(old) + i] = second[i]
      <3>0. first \in Seq(Packet) /\ second \in Seq(Packet)
        BY <1>6, <1>7
      <3>1. /\ both \in Seq(Packet) /\ Len(both) = Len(first) + Len(second)
            /\ \A i \in DOMAIN first : both[i] = first[i]
            /\ \A i \in DOMAIN second : Len(first) + i \in DOMAIN both /\ both[Len(first) + i] = second[i]
        BY <3>0, Joined
      <3> HIDE DEF both
      <3>2. DOMAIN both = 1..Len(both) /\ Len(first) = Len(old) /\ Len(second) = Len(new)
        BY <1>6, <1>7, <3>1, LenProperties
      <3> QED BY <1>6, <1>7, <3>1, <3>2
    <2>2. \A i \in DOMAIN both : \/ i \in 1..Len(old) /\ both[i] = first[i]
                                 \/ i - Len(old) \in 1..Len(new) /\ both[i] = second[i - Len(old)]
      BY <1>5, <1>6, <1>7, <2>1
    <2> HIDE DEF both
    <2>3. /\ NoWrite.op = "skip"
          /\ \A r : Unlink(v, r).op = "unlink" /\ Unlink(v, r).rider = r
          /\ \A r, f : Link(v, r, f).op = "link" /\ Link(v, r, f).rider = r
      BY DEF NoWrite, Unlink, Link
    <2>4. \A i \in DOMAIN both :
                 \/ both[i] = NoWrite
                 \/ \E r \in ToSet(old) \ ToSet(new) : both[i] = Unlink(v, r)
                 \/ \E k \in DOMAIN new : Known(new[k]) /\ both[i] = Link(v, new[k], k = 1)
      <3> TAKE i \in DOMAIN both
      <3>1. CASE i \in 1..Len(old) /\ both[i] = first[i]
        BY <1>3, <1>5, <1>6, <3>1
      <3>2. CASE i - Len(old) \in 1..Len(new) /\ both[i] = second[i - Len(old)]
        BY <1>5, <1>7, <3>2
      <3> QED BY <2>2, <3>1, <3>2
    <2>5. \A r \in ToSet(old) \ ToSet(new) : \E i \in DOMAIN both : both[i] = Unlink(v, r)
      <3> TAKE r \in ToSet(old) \ ToSet(new)
      <3>1. PICK i \in 1..Len(old) : old[i] = r
        BY <1>3, <1>5
      <3>2. both[i] = Unlink(v, r)
        BY <1>6, <2>1, <3>1
      <3>3. i \in DOMAIN both
        BY <1>5, <2>1
      <3> QED BY <3>2, <3>3
    <2>6. \A k \in DOMAIN new : Known(new[k]) => \E i \in DOMAIN both : both[i] = Link(v, new[k], k = 1)
      BY <1>5, <1>7, <2>1
    <2>7. ASSUME NEW i \in DOMAIN both, NEW j \in DOMAIN both, i # j,
                 both[i].op = "link", both[j].op \in {"link", "unlink"}
          PROVE  both[i].rider # both[j].rider
      <3>1. i - Len(old) \in 1..Len(new) /\ both[i].rider = new[i - Len(old)]
        BY <1>5, <1>6, <1>7, <2>2, <2>3, <2>7, SMTT(60)
      <3>2. CASE both[j].op = "link"
        <4>1. j - Len(old) \in 1..Len(new) /\ both[j].rider = new[j - Len(old)]
          BY <1>5, <1>6, <1>7, <2>2, <2>3, <3>2
        <4>2. i - Len(old) # j - Len(old)
          BY <1>5, <2>1, <2>7
        <4> QED BY <1>2, <1>5, <3>1, <4>1, <4>2 DEF Distinct
      <3>3. CASE both[j].op = "unlink"
        <4>1. PICK r \in ToSet(old) \ ToSet(new) : both[j] = Unlink(v, r)
          BY <2>3, <2>4, <3>3
        <4> QED BY <1>3, <1>5, <2>3, <3>1, <4>1
      <3> QED BY <2>7, <3>2, <3>3
    <2>8. \A i, j \in DOMAIN javaWrites' :
             i # j /\ javaWrites'[i].op = "link" /\ javaWrites'[j].op \in {"link", "unlink"} =>
                javaWrites'[i].rider # javaWrites'[j].rider
      BY <2>0, <2>7
    <2>9. \A i \in DOMAIN javaWrites' :
                 \/ javaWrites'[i] = NoWrite
                 \/ \E r \in ToSet(old) \ ToSet(new) : javaWrites'[i] = Unlink(v, r)
                 \/ \E k \in DOMAIN new : Known(new[k]) /\ javaWrites'[i] = Link(v, new[k], k = 1)
      BY <2>0, <2>4
    <2>10. /\ \A r \in ToSet(old) \ ToSet(new) : \E i \in DOMAIN javaWrites' : javaWrites'[i] = Unlink(v, r)
           /\ \A k \in DOMAIN new : Known(new[k]) =>
                 \E i \in DOMAIN javaWrites' : javaWrites'[i] = Link(v, new[k], k = 1)
      BY <2>0, <2>5, <2>6
    <2>11. javaWrites' \in Seq(Packet) /\ UNCHANGED <<tickWrites, client>>
      BY <1>8, <2>0, <2>1
    <2> QED BY <1>1, <1>9, <1>11, <2>8, <2>9, <2>10, <2>11 DEF new, old
  <1> QED BY <1>10, <1>11

\* What is written is a packet.
LEMMA TypesKept ==
    ASSUME Tab, WritesTyped, Step
    PROVE  WritesTyped'
  <1>0. /\ \A a \in Packet : <<a>> \in Seq(Packet)
        /\ \A a, b \in Packet : <<a, b>> \in Seq(Packet)
        /\ \A s, t \in Seq(Packet) : s \o t \in Seq(Packet)
        /\ <<>> \in Seq(Packet)
    BY ShortQueues
  <1>n. \A ws : Writes(ws) => javaWrites' = ws /\ tickWrites' = tickWrites /\ nature' = nature
    BY DEF Writes
  <1>k. \A id \in DOMAIN entities : id \in Ids /\ entities[id] \in Entity(nature[id])
    BY DEF Tab, ServerEntities, BridgeEntities
  <1>1. CASE javaWrites' \in Seq(Packet) /\ tickWrites' = tickWrites /\ nature' = nature
    BY <1>1 DEF WritesTyped
  <1>w. \A ws \in Seq(Packet) : Writes(ws) => WritesTyped'
    BY <1>n, <1>1
  <1>p. /\ \A id \in Ids, at \in Int, item \in Item :
              /\ <<AddActor(id, at, item)>> \in Seq(Packet)
              /\ <<RemoveActor(id), AddActor(id, at, item)>> \in Seq(Packet)
              /\ \A u \in Uuids : <<ListPlayer(u), AddActor(id, at, item)>> \in Seq(Packet)
        /\ \A id \in Ids, at \in Int : <<MoveActor(id, at)>> \in Seq(Packet)
        /\ \A id \in Ids, item \in Item : <<StackSize(id, item[2])>> \in Seq(Packet)
        /\ \A c \in Cells, item \in Item : <<Frame(c, item)>> \in Seq(Packet)
        /\ \A on \in BOOLEAN : <<Boost(on)>> \in Seq(Packet)
        /\ \A u \in Uuids : <<ListPlayer(u)>> \in Seq(Packet)
        /\ <<ChangeDimension>> \in Seq(Packet)
    BY <1>0, PacketsMade
  <1>2. CASE UNCHANGED entityVars
    BY <1>1, <1>2 DEF entityVars, WritesTyped
  <1>3. CASE WriteJava
    <2>1. javaWrites # <<>> /\ javaWrites' = Tail(javaWrites) /\ tickWrites' = tickWrites /\ nature' = nature
      BY <1>3 DEF WriteJava
    <2> QED BY <1>1, <2>1, Popped DEF WritesTyped
  <1>4. CASE WriteTick
    <2>1. tickWrites # <<>> /\ tickWrites' = Tail(tickWrites) /\ javaWrites' = javaWrites /\ nature' = nature
      BY <1>4 DEF WriteTick
    <2> DEFINE Sent == [op : {"move"}, id : {id \in Ids : nature[id] \in Simulated}, at : Int]
    <2>2. tickWrites \in Seq(Sent)
      BY DEF WritesTyped
    <2> HIDE DEF Sent
    <2>3. Tail(tickWrites) \in Seq(Sent)
      BY <2>1, <2>2, Popped
    <2> QED BY <2>1, <2>3 DEF WritesTyped, Sent
  <1>5. CASE TickProjectiles
    <2>1. javaWrites' = javaWrites /\ nature' = nature
      BY <1>5 DEF TickProjectiles
    <2> QED BY <1>5, <2>1, TickWritten DEF WritesTyped
  <1>6. CASE \E id, e : Spawning(id, e)
    <2>1. PICK id, e : Spawning(id, e)
      BY <1>6
    <2>2. id \in Ids /\ e \in Entity(nature[id])
      BY <2>1 DEF Spawning
    <2>3. e.at \in Int /\ (nature[id] = "frame" => e.cell \in Cells) /\ (nature[id] = "player" => e.uuid \in Uuids)
      BY <2>1, <2>2, EntityFields DEF Spawning
    <2>4. NoItem \in Item
      BY DEF Item
    <2>5. \/ Writes(<<>>)
          \/ Writes(<<AddActor(id, e.at, NoItem)>>)
          \/ nature[id] = "frame" /\ Writes(<<Frame(e.cell, NoItem)>>)
          \/ nature[id] = "player" /\ Writes(<<ListPlayer(e.uuid), AddActor(id, e.at, NoItem)>>)
      BY <2>1 DEF Spawning
    <2> QED BY <1>0, <1>w, <1>p, <2>2, <2>3, <2>4, <2>5
  <1>7. CASE \E id : Describing(id)
    <2>1. PICK id : Describing(id)
      BY <1>7
    <2>2. id \in DOMAIN entities /\ id \in DOMAIN world /\ id \in Ids /\ nature' = nature
      BY <1>k, <2>1 DEF Describing
    <2>3. world'[id] \in Entity(nature[id]) /\ entities[id] \in Entity(nature[id])
      BY <1>k, <2>1, <2>2 DEF Describing
    <2>4. entities[id].at \in Int /\ world'[id].item \in Item
      BY <2>3, EntityFields
    <2>5. nature[id] = "frame" => entities[id].cell \in Cells
      BY <2>2 DEF Tab, ServerEntities, BridgeEntities
    <2>6. \/ Writes(<<>>)
          \/ Writes(<<AddActor(id, entities[id].at, world'[id].item)>>)
          \/ Writes(<<RemoveActor(id), AddActor(id, entities[id].at, world'[id].item)>>)
          \/ Writes(<<StackSize(id, world'[id].item[2])>>)
          \/ nature[id] = "frame" /\ Writes(<<Frame(entities[id].cell, world'[id].item)>>)
          \/ \E on \in BOOLEAN : Writes(<<Boost(on)>>)
      BY <2>1 DEF Describing, RocketWrites
    <2>7. CASE Writes(<<>>) \/ \E on \in BOOLEAN : Writes(<<Boost(on)>>)
      BY <1>0, <1>w, <1>p, <2>7
    <2>8. CASE \/ Writes(<<AddActor(id, entities[id].at, world'[id].item)>>)
               \/ Writes(<<RemoveActor(id), AddActor(id, entities[id].at, world'[id].item)>>)
      BY <1>w, <1>p, <2>2, <2>4, <2>8
    <2>9. CASE Writes(<<StackSize(id, world'[id].item[2])>>)
      BY <1>w, <1>p, <2>2, <2>4, <2>9
    <2>10. CASE nature[id] = "frame" /\ Writes(<<Frame(entities[id].cell, world'[id].item)>>)
      BY <1>w, <1>p, <2>4, <2>5, <2>10
    <2> QED BY <2>6, <2>7, <2>8, <2>9, <2>10
  <1>8. CASE \E id : Moving(id)
    <2>1. PICK id : Moving(id)
      BY <1>8
    <2>2. \/ Writes(<<>>)
          \/ id \in DOMAIN entities /\ entities'[id] \in Entity(nature[id]) /\ Writes(<<MoveActor(id, entities'[id].at)>>)
      BY <2>1 DEF Moving
    <2>3. CASE id \in DOMAIN entities /\ entities'[id] \in Entity(nature[id])
               /\ Writes(<<MoveActor(id, entities'[id].at)>>)
      <3>1. id \in Ids /\ entities'[id].at \in Int
        BY <1>k, <2>3, EntityFields
      <3> QED BY <1>w, <1>p, <2>3, <3>1
    <2> QED BY <1>0, <1>w, <2>2, <2>3
  <1>9. CASE \E id : Taking(id)
    <2>1. PICK id : Taking(id)
      BY <1>9
    <2>2. PICK stops : Writes(IF id \in DOMAIN entities THEN DestroyWrites(id, entities[id], stops) ELSE <<>>)
      BY <2>1 DEF Taking
    <2>3. CASE id \in DOMAIN entities
      <3>1. entities[id].kind = nature[id]
        BY <1>k, <2>3, EntityFields
      <3>2. nature[id] = "frame" => entities[id].cell \in Cells
        BY <2>3 DEF Tab, ServerEntities, BridgeEntities
      <3>3. DestroyWrites(id, entities[id], stops) \in Seq(Packet)
        BY <1>0, <1>k, <2>3, <3>1, <3>2, PacketsMade DEF DestroyWrites
      <3> QED BY <1>n, <1>1, <2>2, <2>3, <3>3
    <2> QED BY <1>0, <1>n, <1>1, <2>2, <2>3
  <1>10. CASE \E u \in Uuids, b \in BOOLEAN : PlayerInfo(u, b)
    <2>1. PICK u \in Uuids : Writes(<<ListPlayer(u)>>) \/ Writes(<<>>)
      BY <1>10 DEF PlayerInfo
    <2> QED BY <1>0, <1>w, <1>p, <2>1
  <1>11. CASE \E u \in Uuids : PlayerRemove(u)
    BY <1>1, <1>11, GoneWritten DEF Writes
  <1>12. CASE Seating
    BY <1>1, <1>12 DEF Seating, WritesTyped
  <1>13. CASE \E v \in Ids : SetPassengers(v)
    BY <1>1, <1>13, LinksWritten DEF Writes
  <1>14. CASE LeaveDimension
    BY <1>w, <1>p, <1>14 DEF LeaveDimension
  <1> QED BY <1>2, <1>3, <1>4, <1>5, <1>6, <1>7, <1>8, <1>9, <1>10, <1>11, <1>12, <1>13, <1>14 DEF Step

\* Popping either queue.
LEMMA Pops ==
    ASSUME WritesTyped
    PROVE  /\ WriteJava => LET w == javaWrites[1] IN
                /\ w \in Packet /\ Receive(w) /\ 1 \in DOMAIN javaWrites
                /\ UNCHANGED <<nature, server, tables, tickWrites, overtaken>>
                /\ \A i \in DOMAIN javaWrites' :
                      i \in Nat /\ i > 0 /\ i + 1 \in DOMAIN javaWrites /\ javaWrites'[i] = javaWrites[i + 1]
                /\ \A i \in DOMAIN javaWrites :
                      i \in Nat /\ (i = 1 \/ (i - 1 \in DOMAIN javaWrites' /\ javaWrites'[i - 1] = javaWrites[i]))
           /\ WriteTick => LET w == tickWrites[1] IN
                /\ w.op = "move" /\ w.id \in Ids /\ nature[w.id] \in Simulated /\ Receive(w)
                /\ 1 \in DOMAIN tickWrites
                /\ UNCHANGED <<nature, server, tables, javaWrites, overtaken>>
                /\ \A i \in DOMAIN tickWrites' :
                      i \in Nat /\ i > 0 /\ i + 1 \in DOMAIN tickWrites /\ tickWrites'[i] = tickWrites[i + 1]
                /\ \A i \in DOMAIN tickWrites :
                      i \in Nat /\ (i = 1 \/ (i - 1 \in DOMAIN tickWrites' /\ tickWrites'[i - 1] = tickWrites[i]))
  <1>1. ASSUME WriteJava
        PROVE  LET w == javaWrites[1] IN
                /\ w \in Packet /\ Receive(w) /\ 1 \in DOMAIN javaWrites
                /\ UNCHANGED <<nature, server, tables, tickWrites, overtaken>>
                /\ \A i \in DOMAIN javaWrites' :
                      i \in Nat /\ i > 0 /\ i + 1 \in DOMAIN javaWrites /\ javaWrites'[i] = javaWrites[i + 1]
                /\ \A i \in DOMAIN javaWrites :
                      i \in Nat /\ (i = 1 \/ (i - 1 \in DOMAIN javaWrites' /\ javaWrites'[i - 1] = javaWrites[i]))
    <2>1. /\ javaWrites # <<>> /\ javaWrites' = Tail(javaWrites) /\ Receive(Head(javaWrites))
          /\ UNCHANGED <<nature, server, tables, tickWrites, overtaken>>
      BY <1>1 DEF WriteJava
    <2>2. javaWrites \in Seq(Packet)
      BY DEF WritesTyped
    <2>3. Head(javaWrites) = javaWrites[1] /\ Head(javaWrites) \in Packet
      BY <2>1, <2>2, Popped
    <2>4. /\ 1 \in DOMAIN javaWrites
          /\ \A i \in DOMAIN Tail(javaWrites) :
                i \in Nat /\ i > 0 /\ i + 1 \in DOMAIN javaWrites /\ Tail(javaWrites)[i] = javaWrites[i + 1]
          /\ \A i \in DOMAIN javaWrites :
                i \in Nat /\ (i = 1 \/ (i - 1 \in DOMAIN Tail(javaWrites) /\ Tail(javaWrites)[i - 1] = javaWrites[i]))
      BY <2>1, <2>2, Popped
    <2> QED BY <2>1, <2>3, <2>4
  <1>2. ASSUME WriteTick
        PROVE  LET w == tickWrites[1] IN
                /\ w.op = "move" /\ w.id \in Ids /\ nature[w.id] \in Simulated /\ Receive(w)
                /\ 1 \in DOMAIN tickWrites
                /\ UNCHANGED <<nature, server, tables, javaWrites, overtaken>>
                /\ \A i \in DOMAIN tickWrites' :
                      i \in Nat /\ i > 0 /\ i + 1 \in DOMAIN tickWrites /\ tickWrites'[i] = tickWrites[i + 1]
                /\ \A i \in DOMAIN tickWrites :
                      i \in Nat /\ (i = 1 \/ (i - 1 \in DOMAIN tickWrites' /\ tickWrites'[i - 1] = tickWrites[i]))
    <2>1. /\ tickWrites # <<>> /\ tickWrites' = Tail(tickWrites) /\ Receive(Head(tickWrites))
          /\ UNCHANGED <<nature, server, tables, javaWrites, overtaken>>
      BY <1>2 DEF WriteTick
    <2> DEFINE Bodies == {id \in Ids : nature[id] \in Simulated}
               Sent == [op : {"move"}, id : Bodies, at : Int]
    <2>2. tickWrites \in Seq(Sent)
      BY DEF WritesTyped
    <2>5. \A w \in Sent : w.op = "move" /\ w.id \in Bodies
      OBVIOUS
    <2> HIDE DEF Sent
    <2>3. Head(tickWrites) = tickWrites[1] /\ Head(tickWrites) \in Sent
      BY <2>1, <2>2, Popped
    <2>4. /\ 1 \in DOMAIN tickWrites
          /\ \A i \in DOMAIN Tail(tickWrites) :
                i \in Nat /\ i > 0 /\ i + 1 \in DOMAIN tickWrites /\ Tail(tickWrites)[i] = tickWrites[i + 1]
          /\ \A i \in DOMAIN tickWrites :
                i \in Nat /\ (i = 1 \/ (i - 1 \in DOMAIN Tail(tickWrites) /\ Tail(tickWrites)[i - 1] = tickWrites[i]))
      BY <2>1, <2>2, Popped
    <2> QED BY <2>1, <2>3, <2>4, <2>5
  <1> QED BY <1>1, <1>2

\* What the packets are.
LEMMA Ops ==
    /\ \A id, at, item : LET w == AddActor(id, at, item) IN w.op = "add" /\ w.id = id /\ w.at = at /\ w.item = item
    /\ \A id : LET w == RemoveActor(id) IN w.op = "remove" /\ w.id = id
    /\ \A id, at : LET w == MoveActor(id, at) IN w.op = "move" /\ w.id = id /\ w.at = at
    /\ \A id, n : LET w == StackSize(id, n) IN w.op = "size" /\ w.id = id /\ w.count = n
    /\ \A c, item : LET w == Frame(c, item) IN w.op = "frame" /\ w.cell = c /\ w.item = item
    /\ \A c : LET w == ClearFrame(c) IN w.op = "noframe" /\ w.cell = c
    /\ \A v, r, f : LET w == Link(v, r, f) IN w.op = "link" /\ w.vehicle = v /\ w.rider = r /\ w.front = f
    /\ \A v, r : LET w == Unlink(v, r) IN w.op = "unlink" /\ w.vehicle = v /\ w.rider = r
    /\ \A on : LET w == Boost(on) IN w.op = "boost" /\ w.on = on
    /\ \A u : LET w == ListPlayer(u) IN w.op = "list" /\ w.uuid = u
    /\ \A u : LET w == UnlistPlayer(u) IN w.op = "unlist" /\ w.uuid = u
    /\ ChangeDimension.op = "dimension" /\ NoWrite.op = "skip"
  BY DEF AddActor, RemoveActor, MoveActor, StackSize, Frame, ClearFrame, Link, Unlink, Boost, ListPlayer,
         UnlistPlayer, ChangeDimension, NoWrite

\* Queues of up to two packets.
LEMMA Listed ==
    /\ DOMAIN <<>> = {}
    /\ \A a : DOMAIN <<a>> = {1} /\ <<a>>[1] = a /\ Len(<<a>>) = 1
    /\ \A a, b : DOMAIN <<a, b>> = {1, 2} /\ <<a, b>>[1] = a /\ <<a, b>>[2] = b /\ Len(<<a, b>>) = 2
  OBVIOUS

\* What a handler has to write is what its queue is.
LEMMA Written ==
    ASSUME NEW ws, Writes(ws)
    PROVE  javaWrites' = ws /\ tickWrites' = tickWrites /\ nature' = nature
           /\ actors' = actors /\ frames' = frames /\ links' = links /\ boosted' = boosted /\ listed' = listed
  BY DEF Writes, client

\* What destroying an entity comes to.
LEMMA Destroyed ==
    ASSUME Tab, NEW id \in DOMAIN entities, NEW stops \in BOOLEAN
    PROVE  LET ws == DestroyWrites(id, entities[id], stops) IN
           /\ stops /\ entities[id].mine => ws = <<Boost(FALSE), RemoveActor(id)>>
           /\ ~stops => ws = IF nature[id] = "frame" THEN <<ClearFrame(entities[id].cell)>>
                             ELSE IF nature[id] = "item" /\ ~entities[id].shown THEN <<>> ELSE <<RemoveActor(id)>>
  <1>1. entities[id].kind = nature[id] /\ (entities[id].mine => nature[id] = "rocket")
    BY EntityFields DEF Tab, BridgeEntities
  <1>2. \A a, b : <<a>> \o <<b>> = <<a, b>> /\ <<>> \o <<b>> = <<b>>
    BY Pair
  <1>3. <<>> \o <<>> = <<>>
    OBVIOUS
  <1> QED BY <1>1, <1>2, <1>3 DEF DestroyWrites

\* The removal of an entity, with what it writes.
LEMMA Takes ==
    ASSUME Tab, NEW id, Taking(id)
    PROVE  /\ attachments' = attachments \ {id} \/ ~(id \in DOMAIN entities /\ entities[id].mine)
           /\ \/ id \notin DOMAIN entities /\ Writes(<<>>) /\ attachments' = attachments
              \/ id \in DOMAIN entities /\ entities[id].mine /\ attachments = {id} /\ attachments' = {}
                    /\ Writes(<<Boost(FALSE), RemoveActor(id)>>)
              \/ /\ id \in DOMAIN entities
                 /\ entities[id].mine => attachments # {id}
                 /\ attachments' = IF entities[id].mine THEN attachments \ {id} ELSE attachments
                 /\ \/ nature[id] = "frame" /\ Writes(<<ClearFrame(entities[id].cell)>>)
                    \/ nature[id] = "item" /\ ~entities[id].shown /\ Writes(<<>>)
                    \/ nature[id] # "frame" /\ (nature[id] = "item" => entities[id].shown) /\ Writes(<<RemoveActor(id)>>)
  <1>1. \A j \in DOMAIN entities : entities[j].mine \in BOOLEAN
    BY EntityFields DEF Tab, BridgeEntities
  <1> DEFINE mine == id \in DOMAIN entities /\ entities[id].mine
  <1>2. /\ attachments' = IF mine THEN attachments \ {id} ELSE attachments
        /\ Writes(IF id \in DOMAIN entities
                     THEN DestroyWrites(id, entities[id], mine /\ attachments = {id}) ELSE <<>>)
    BY DEF Taking
  <1>3. CASE id \notin DOMAIN entities
    BY <1>2, <1>3
  <1>4. CASE id \in DOMAIN entities /\ mine /\ attachments = {id}
    <2>1. DestroyWrites(id, entities[id], TRUE) = <<Boost(FALSE), RemoveActor(id)>>
      BY <1>4, Destroyed
    <2>2. (mine /\ attachments = {id}) = TRUE
      BY <1>4
    <2> QED BY <1>2, <1>4, <2>1, <2>2
  <1>5. CASE id \in DOMAIN entities /\ ~(mine /\ attachments = {id})
    <2>1. DestroyWrites(id, entities[id], FALSE) =
            IF nature[id] = "frame" THEN <<ClearFrame(entities[id].cell)>>
                             ELSE IF nature[id] = "item" /\ ~entities[id].shown THEN <<>> ELSE <<RemoveActor(id)>>
      BY <1>5, Destroyed
    <2>2. (mine /\ attachments = {id}) = FALSE
      BY <1>5
    <2>3. Writes(DestroyWrites(id, entities[id], FALSE))
      BY <1>2, <1>5, <2>2
    <2> HIDE DEF mine
    <2>4. \/ nature[id] = "frame" /\ Writes(<<ClearFrame(entities[id].cell)>>)
          \/ nature[id] = "item" /\ ~entities[id].shown /\ Writes(<<>>)
          \/ nature[id] # "frame" /\ (nature[id] = "item" => entities[id].shown) /\ Writes(<<RemoveActor(id)>>)
      BY <2>1, <2>3
    <2> QED BY <1>2, <1>5, <2>4 DEF mine
  <1> QED BY <1>1, <1>3, <1>4, <1>5

(***************************************************************************)
(* The boost                                                               *)
(***************************************************************************)

\* The bridge counts its rockets, and the effect follows.
LEMMA Boosts ==
    /\ Boost(TRUE).op = "boost" /\ Boost(TRUE).on = TRUE
    /\ Boost(FALSE).op = "boost" /\ Boost(FALSE).on = FALSE
  BY DEF Boost

\* Every step keeps the boost right.
LEMMA BoostKept ==
    ASSUME Tab, WritesTyped, BoostInv, Step
    PROVE  BoostInv'
  <1>0. \A id \in DOMAIN entities : id \in Ids /\ id \in DOMAIN world
    BY DEF Tab, ServerEntities, BridgeEntities
  <1> DEFINE Rockets == {id \in DOMAIN entities : entities[id].mine}
             Quiet == \A i \in DOMAIN javaWrites : javaWrites[i].op # "boost"
  <1>1. attachments = Rockets
    BY DEF BoostInv
  <1>2. CASE /\ Rockets' = Rockets /\ attachments' = attachments
             /\ boosted' = boosted /\ Quiet /\ Quiet'
    BY <1>1, <1>2 DEF BoostInv
  <1>3. javaWrites = <<>> => Quiet
    BY Listed
  <1>4. CASE UNCHANGED entityVars
    BY <1>4 DEF entityVars, BoostInv, tables, client
  <1>5. CASE WriteJava
    <2>1. /\ UNCHANGED <<entities, attachments>>
          /\ 1 \in DOMAIN javaWrites /\ Receive(javaWrites[1])
          /\ \A i \in DOMAIN javaWrites' :
                i \in Nat /\ i > 0 /\ i + 1 \in DOMAIN javaWrites /\ javaWrites'[i] = javaWrites[i + 1]
          /\ \A i \in DOMAIN javaWrites :
                i \in Nat /\ (i = 1 \/ (i - 1 \in DOMAIN javaWrites' /\ javaWrites'[i - 1] = javaWrites[i]))
      BY <1>5, Pops DEF tables
    <2>2. CASE javaWrites[1].op = "boost"
      <3>1. boosted' = javaWrites[1].on
        BY <2>1, <2>2, ReceiveBoost
      <3> QED BY <2>1, <2>2, <3>1 DEF BoostInv
    <2>3. CASE javaWrites[1].op # "boost"
      <3>1. boosted' = boosted
        BY <2>1, <2>3 DEF Receive
      <3>2. Quiet' => Quiet
        BY <2>1, <2>3
      <3> QED BY <2>1, <3>1, <3>2 DEF BoostInv
    <2> QED BY <2>2, <2>3
  <1>6. CASE WriteTick
    <2>1. /\ UNCHANGED <<entities, attachments, javaWrites>>
          /\ tickWrites[1].op = "move" /\ Receive(tickWrites[1])
      BY <1>6, Pops DEF tables
    <2>2. boosted' = boosted
      BY <2>1, ReceiveMove
    <2> QED BY <2>1, <2>2 DEF BoostInv
  <1>7. CASE TickProjectiles
    <2>1. /\ UNCHANGED <<attachments, javaWrites, boosted>> /\ DOMAIN entities' = DOMAIN entities
          /\ \A j \in DOMAIN entities : entities'[j].mine = entities[j].mine
      BY <1>7, TickSteps
    <2> QED BY <2>1 DEF BoostInv
  <1>8. CASE \E id, e : Spawning(id, e)
    <2>1. PICK id, e : Spawning(id, e)
      BY <1>8
    <2>2. /\ id \in Ids /\ id \notin DOMAIN entities /\ ~e.mine /\ OthersKept(id) /\ javaWrites = <<>>
          /\ attachments' = attachments
      BY <1>0, <2>1 DEF Spawning
    <2>3. \/ entities' = entities
          \/ DOMAIN entities' = DOMAIN entities \cup {id} /\ entities'[id] = e
      BY <2>1 DEF Spawning
    <2>4. Rockets' = Rockets
      BY <1>0, <2>2, <2>3 DEF OthersKept
    <2>5. \/ Writes(<<>>)
          \/ Writes(<<AddActor(id, e.at, NoItem)>>)
          \/ Writes(<<Frame(e.cell, NoItem)>>)
          \/ Writes(<<ListPlayer(e.uuid), AddActor(id, e.at, NoItem)>>)
      BY <2>1 DEF Spawning
    <2>6. Quiet' /\ boosted' = boosted
      BY <2>5, Written, Ops, Listed
    <2> QED BY <1>2, <1>3, <2>2, <2>4, <2>6
  <1>9. CASE \E id : Describing(id)
    <2>1. PICK id : Describing(id)
      BY <1>9
    <2>2. /\ id \in DOMAIN entities /\ OthersKept(id) /\ javaWrites = <<>> /\ DOMAIN entities' = DOMAIN entities
          /\ boosted' = boosted
      BY <2>1 DEF Describing, client
    <2>3. CASE /\ entities'[id].mine = entities[id].mine /\ attachments' = attachments
               /\ \/ Writes(<<>>)
                  \/ Writes(<<AddActor(id, entities[id].at, world'[id].item)>>)
                  \/ Writes(<<RemoveActor(id), AddActor(id, entities[id].at, world'[id].item)>>)
                  \/ Writes(<<StackSize(id, world'[id].item[2])>>)
                  \/ Writes(<<Frame(entities[id].cell, world'[id].item)>>)
      <3>1. Rockets' = Rockets
        BY <1>0, <2>2, <2>3 DEF OthersKept
      <3>2. Quiet'
        BY <2>3, Written, Ops, Listed
      <3> QED BY <1>2, <1>3, <2>2, <2>3, <3>1, <3>2
    <2>4. CASE LET mine == entities'[id].mine
                   left == IF mine THEN attachments \cup {id} ELSE attachments \ {id}
               IN  /\ attachments' = IF mine = entities[id].mine THEN attachments ELSE left
                   /\ Writes(RocketWrites(entities[id].mine, mine, left))
      <3>1. entities[id].mine \in BOOLEAN /\ entities'[id].mine \in BOOLEAN
        BY <2>1, <2>2, EntityFields DEF Tab, BridgeEntities, Describing
      <3>2. Rockets' = IF entities'[id].mine THEN attachments \cup {id} ELSE attachments \ {id}
        BY <1>0, <1>1, <2>2 DEF OthersKept
      <3>3. CASE entities'[id].mine = entities[id].mine
        <4>1. Writes(<<>>) /\ attachments' = attachments
          BY <2>4, <3>3 DEF RocketWrites
        <4>2. Rockets' = Rockets
          BY <1>0, <2>2, <3>3 DEF OthersKept
        <4> QED BY <1>2, <1>3, <2>2, <4>1, <4>2, Written, Listed
      <3>4. CASE entities'[id].mine /\ ~entities[id].mine
        <4>1. Writes(<<Boost(TRUE)>>) /\ attachments' = attachments \cup {id}
          BY <2>4, <3>4 DEF RocketWrites
        <4> DEFINE w == Boost(TRUE)
        <4>4. Writes(<<w>>) /\ w.op = "boost" /\ w.on = TRUE
          BY <4>1, Boosts
        <4> HIDE DEF w
        <4>2. DOMAIN javaWrites' = {1} /\ javaWrites'[1].op = "boost" /\ javaWrites'[1].on = TRUE
          BY <4>4, Written, Listed
        <4>3. attachments' = Rockets' /\ (attachments' # {}) = TRUE
          BY <3>2, <3>4, <4>1
        <4> QED BY <4>2, <4>3 DEF BoostInv
      <3>5. CASE ~entities'[id].mine /\ entities[id].mine
        <4>1. /\ attachments' = attachments \ {id}
              /\ IF attachments \ {id} = {} THEN Writes(<<Boost(FALSE)>>) ELSE Writes(<<>>)
          BY <2>4, <3>5 DEF RocketWrites
        <4>2. boosted = (attachments # {}) /\ id \in attachments
          BY <1>1, <1>3, <2>2, <3>5 DEF BoostInv
        <4>3. CASE attachments \ {id} = {}
          <5>1. Writes(<<Boost(FALSE)>>)
            BY <4>1, <4>3
          <5>2. DOMAIN javaWrites' = {1} /\ javaWrites'[1].op = "boost" /\ javaWrites'[1].on = FALSE
            <6> DEFINE w == Boost(FALSE)
            <6>1. Writes(<<w>>) /\ w.op = "boost" /\ w.on = FALSE
              BY <5>1, Boosts
            <6> HIDE DEF w
            <6> QED BY <6>1, Written, Listed
          <5>3. attachments' = Rockets' /\ (attachments' # {}) = FALSE
            BY <3>2, <3>5, <4>1, <4>3
          <5> QED BY <5>2, <5>3 DEF BoostInv
        <4>4. CASE attachments \ {id} # {}
          <5>1. javaWrites' = <<>>
            BY <4>1, <4>4, Written
          <5>2. boosted' = (attachments' # {})
            BY <2>2, <4>1, <4>2, <4>4
          <5>3. attachments' = Rockets'
            BY <3>2, <3>5, <4>1
          <5> QED BY <5>1, <5>2, <5>3, Listed DEF BoostInv
        <4> QED BY <4>3, <4>4
      <3> QED BY <3>1, <3>3, <3>4, <3>5
    <2> QED BY <2>1, <2>3, <2>4 DEF Describing
  <1>10. CASE \E id : Moving(id)
    <2>1. PICK id : Moving(id)
      BY <1>10
    <2>2. /\ OthersKept(id) /\ javaWrites = <<>> /\ DOMAIN entities' = DOMAIN entities
          /\ boosted' = boosted /\ attachments' = attachments
          /\ id \in DOMAIN entities => entities'[id].mine = entities[id].mine
          /\ Writes(<<>>) \/ Writes(<<MoveActor(id, entities'[id].at)>>)
      BY <2>1 DEF Moving, client
    <2>3. Rockets' = Rockets
      BY <1>0, <2>2 DEF OthersKept
    <2>4. Quiet'
      BY <2>2, Written, Ops, Listed
    <2> QED BY <1>2, <1>3, <2>2, <2>3, <2>4
  <1>11. CASE \E id : Taking(id)
    <2>1. PICK id : Taking(id)
      BY <1>11
    <2>2. /\ OthersKept(id) /\ javaWrites = <<>> /\ DOMAIN entities' = DOMAIN entities \ {id}
          /\ boosted' = boosted
      BY <2>1 DEF Taking, client
    <2>3. Rockets' = Rockets \ {id}
      BY <1>0, <2>2 DEF OthersKept
    <2>4. boosted = (attachments # {})
      BY <1>3, <2>2 DEF BoostInv
    <2>5. CASE id \notin DOMAIN entities /\ Writes(<<>>) /\ attachments' = attachments
      BY <1>1, <1>2, <1>3, <2>2, <2>3, <2>5, Written, Listed
    <2>6. CASE attachments = {id} /\ attachments' = {} /\ Writes(<<Boost(FALSE), RemoveActor(id)>>)
      <3>1. /\ DOMAIN javaWrites' = {1, 2} /\ javaWrites'[1].op = "boost" /\ javaWrites'[1].on = FALSE
            /\ javaWrites'[2].op = "remove"
        <4> DEFINE w == Boost(FALSE)
        <4>1. Writes(<<w, RemoveActor(id)>>) /\ w.op = "boost" /\ w.on = FALSE
          BY <2>6, Boosts
        <4> HIDE DEF w
        <4> QED BY <4>1, Written, Listed, Ops
      <3>2. attachments' = Rockets' /\ (attachments' # {}) = FALSE
        BY <1>1, <2>3, <2>6
      <3> QED BY <3>1, <3>2 DEF BoostInv
    <2>7. CASE /\ id \in DOMAIN entities
               /\ entities[id].mine => attachments # {id}
               /\ attachments' = IF entities[id].mine THEN attachments \ {id} ELSE attachments
               /\ \/ Writes(<<ClearFrame(entities[id].cell)>>)
                  \/ Writes(<<>>)
                  \/ Writes(<<RemoveActor(id)>>)
      <3>1. Quiet'
        BY <2>7, Written, Listed, Ops
      <3>2. attachments' = Rockets'
        BY <1>1, <2>3, <2>7
      <3>3. (attachments' # {}) = (attachments # {})
        BY <1>1, <2>7
      <3> QED BY <2>2, <2>4, <3>1, <3>2, <3>3 DEF BoostInv
    <2> QED BY <2>1, <2>5, <2>6, <2>7, Takes
  <1>12. CASE \E u \in Uuids, b \in BOOLEAN : PlayerInfo(u, b)
    <2>1. PICK u \in Uuids, b \in BOOLEAN : PlayerInfo(u, b)
      BY <1>12
    <2>2. javaWrites = <<>> /\ (Writes(<<ListPlayer(u)>>) \/ Writes(<<>>)) /\ UNCHANGED <<entities, attachments>>
      BY <2>1 DEF PlayerInfo, Handles
    <2> QED BY <1>2, <1>3, <2>2, Written, Listed, Ops
  <1>13. CASE \E u \in Uuids : PlayerRemove(u)
    <2>1. PICK u \in Uuids : PlayerRemove(u)
      BY <1>13
    <2>2. /\ attachments' = attachments
          /\ \A j : j \in DOMAIN entities' <=> j \in DOMAIN entities /\ entities[j].uuid # u
          /\ \A j \in DOMAIN entities' : entities'[j] = entities[j]
          /\ \A j \in DOMAIN entities : entities[j].uuid = u => nature[j] = "player"
      BY <2>1, GoneTables
    <2>3. \A j \in DOMAIN entities : entities[j].mine => nature[j] = "rocket"
      BY DEF Tab, BridgeEntities
    <2>4. Rockets' = Rockets
      BY <2>2, <2>3
    <2>5. javaWrites = <<>> /\ boosted' = boosted
      BY <2>1, GoneWritten DEF client
    <2>6. Quiet'
      <3> SUFFICES ASSUME NEW i \in DOMAIN javaWrites' PROVE javaWrites'[i].op # "boost"
        OBVIOUS
      <3>1. CASE i = 1
        BY <2>1, <3>1, GoneWritten, Ops
      <3>2. CASE i # 1
        <4>1. javaWrites'[i] = RemoveActor(javaWrites'[i].id)
          BY <2>1, <3>2, GoneWritten
        <4> QED BY <4>1, Ops
      <3> QED BY <3>1, <3>2
    <2> QED BY <1>2, <1>3, <2>2, <2>4, <2>5, <2>6
  <1>14. CASE Seating
    BY <1>14 DEF Seating, BoostInv
  <1>15. CASE \E v \in Ids : SetPassengers(v)
    <2>1. PICK v \in Ids : SetPassengers(v)
      BY <1>15
    <2>2. /\ UNCHANGED <<entities, attachments, boosted>> /\ javaWrites = <<>>
      BY <2>1, LinksWritten DEF SetPassengers, client
    <2>3. Quiet'
      <3> SUFFICES ASSUME NEW i \in DOMAIN javaWrites' PROVE javaWrites'[i].op # "boost"
        OBVIOUS
      <3>1. \/ javaWrites'[i] = NoWrite
            \/ \E r : javaWrites'[i] = Unlink(v, r)
            \/ \E r, f : javaWrites'[i] = Link(v, r, f)
        BY <2>1, LinksWritten
      <3> QED BY <3>1, Ops
    <2> QED BY <1>2, <1>3, <2>2, <2>3
  <1>16. CASE LeaveDimension
    <2>1. javaWrites = <<>> /\ Writes(<<ChangeDimension>>) /\ UNCHANGED <<entities, attachments>>
      BY <1>16 DEF LeaveDimension, Handles, tables
    <2> QED BY <1>2, <1>3, <2>1, Written, Listed, Ops
  <1> QED BY <1>4, <1>5, <1>6, <1>7, <1>8, <1>9, <1>10, <1>11, <1>12, <1>13, <1>14, <1>15, <1>16 DEF Step

(***************************************************************************)
(* The player list                                                         *)
(***************************************************************************)

\* One or two packets of certain kinds.
LEMMA OneOrTwo ==
    ASSUME NEW Kinds, NEW a, NEW b, a.op \in Kinds, b.op \in Kinds,
           Writes(<<>>) \/ Writes(<<a>>) \/ Writes(<<a, b>>)
    PROVE  \A i \in DOMAIN javaWrites' : javaWrites'[i].op \in Kinds
  BY Written, Listed

\* The kinds of packets that metadata and a removal lead to.
LEMMA DescribedOps ==
    ASSUME NEW id, Describing(id)
    PROVE  \A i \in DOMAIN javaWrites' : javaWrites'[i].op \in {"add", "remove", "size", "frame", "boost"}
  <1> DEFINE Kinds == {"add", "remove", "size", "frame", "boost"}
  <1>1. /\ \A at, item : AddActor(id, at, item).op \in Kinds
        /\ RemoveActor(id).op \in Kinds
        /\ \A n : StackSize(id, n).op \in Kinds
        /\ \A c, item : Frame(c, item).op \in Kinds
        /\ Boost(TRUE).op \in Kinds /\ Boost(FALSE).op \in Kinds
    BY Ops, Boosts
  <1>2. \/ Writes(<<>>)
        \/ Writes(<<AddActor(id, entities[id].at, world'[id].item)>>)
        \/ Writes(<<RemoveActor(id), AddActor(id, entities[id].at, world'[id].item)>>)
        \/ Writes(<<StackSize(id, world'[id].item[2])>>)
        \/ Writes(<<Frame(entities[id].cell, world'[id].item)>>)
        \/ Writes(<<Boost(TRUE)>>)
        \/ Writes(<<Boost(FALSE)>>)
    BY DEF Describing, RocketWrites
  <1> HIDE DEF Kinds
  <1>3. \A i \in DOMAIN javaWrites' : javaWrites'[i].op \in Kinds
    BY <1>1, <1>2, OneOrTwo
  <1> QED BY <1>3 DEF Kinds

\* The kinds of packets a removal leads to.
LEMMA TakenOps ==
    ASSUME Tab, NEW id, Taking(id)
    PROVE  \A i \in DOMAIN javaWrites' : javaWrites'[i].op \in {"remove", "noframe", "boost"}
  <1> DEFINE Kinds == {"remove", "noframe", "boost"}
  <1>1. /\ RemoveActor(id).op \in Kinds
        /\ \A c : ClearFrame(c).op \in Kinds
        /\ Boost(FALSE).op \in Kinds
    BY Ops, Boosts
  <1>2. \/ Writes(<<>>)
        \/ Writes(<<ClearFrame(entities[id].cell)>>)
        \/ Writes(<<RemoveActor(id)>>)
        \/ Writes(<<Boost(FALSE), RemoveActor(id)>>)
    BY Takes
  <1> HIDE DEF Kinds
  <1>3. \A i \in DOMAIN javaWrites' : javaWrites'[i].op \in Kinds
    BY <1>1, <1>2, OneOrTwo
  <1> QED BY <1>3 DEF Kinds

\* Who is listed, or will be, is known.
LEMMA ListKept ==
    ASSUME Tab, WritesTyped, ListInv, Step
    PROVE  ListInv'
  <1>0. \A id \in DOMAIN entities : id \in Ids /\ id \in DOMAIN world /\ entities[id].uuid = world[id].uuid
    BY DEF Tab, ServerEntities, BridgeEntities
  <1> DEFINE Quiet == \A i \in DOMAIN javaWrites : javaWrites[i].op \notin {"list", "unlist"}
             Fewer == \A id \in DOMAIN entities' : nature'[id] = "player" =>
                         id \in DOMAIN entities /\ nature[id] = "player" /\ entities'[id].uuid = entities[id].uuid
  <1>2. CASE Fewer /\ players' = players /\ listed' = listed /\ Quiet /\ Quiet'
    BY <1>2 DEF ListInv, Lists
  <1>3. javaWrites = <<>> => Quiet
    BY Listed
  <1>4. CASE UNCHANGED entityVars
    BY <1>4 DEF entityVars, ListInv, Lists, tables, client
  <1>5. CASE WriteJava
    <2> DEFINE w == javaWrites[1]
    <2>1. /\ UNCHANGED <<entities, players, nature>>
          /\ 1 \in DOMAIN javaWrites /\ Receive(w) /\ w \in Packet
          /\ \A i \in DOMAIN javaWrites' :
                i \in Nat /\ i > 0 /\ i + 1 \in DOMAIN javaWrites /\ javaWrites'[i] = javaWrites[i + 1]
          /\ \A i \in DOMAIN javaWrites :
                i \in Nat /\ (i = 1 \/ (i - 1 \in DOMAIN javaWrites' /\ javaWrites'[i - 1] = javaWrites[i]))
      BY <1>5, Pops DEF tables
    <2>2. listed' = IF w.op = "list" THEN listed \cup {w.uuid}
                    ELSE IF w.op = "unlist" THEN listed \ {w.uuid} ELSE listed
      BY <2>1 DEF Receive
    <2>3. /\ w.op = "list" => w.uuid \in DOMAIN players
          /\ w.op = "unlist" => w.uuid \notin DOMAIN players
      BY <2>1 DEF ListInv
    <2>4. \A u, op : (\E i \in DOMAIN javaWrites : Lists(i, op, u)) =>
             Lists(1, op, u) \/ \E i \in DOMAIN javaWrites' : Lists(i, op, u)'
      BY <2>1 DEF Lists
    <2>5. \A i \in DOMAIN javaWrites' : \E j \in DOMAIN javaWrites : javaWrites'[i] = javaWrites[j]
      BY <2>1
    <2>6. \A id \in DOMAIN entities : nature[id] = "player" => entities[id].uuid \in DOMAIN players
      BY DEF Tab, BridgeEntities
    <2> HIDE DEF w
    <2>7. /\ \A u : Lists(1, "list", u) <=> w.op = "list" /\ u = w.uuid
          /\ \A u : Lists(1, "unlist", u) <=> w.op = "unlist" /\ u = w.uuid
      BY DEF Lists, w
    <2>8. \A u : /\ u \in listed => u \in listed' \/ Lists(1, "unlist", u)
                 /\ u \in listed' => u \in listed \/ Lists(1, "list", u)
                 /\ Lists(1, "list", u) => u \in listed'
                 /\ Lists(1, "unlist", u) => u \notin listed' /\ u \notin DOMAIN players
                 /\ Lists(1, "list", u) => u \in DOMAIN players
      BY <2>2, <2>3, <2>7
    <2>9. /\ \A u \in DOMAIN players : players[u] =>
               u \in listed \/ \E i \in DOMAIN javaWrites : Lists(i, "list", u)
          /\ \A u \in listed : u \in DOMAIN players \/ \E i \in DOMAIN javaWrites : Lists(i, "unlist", u)
          /\ \A id \in DOMAIN entities : nature[id] = "player" =>
               \/ entities[id].uuid \in listed
               \/ \E i \in DOMAIN javaWrites : Lists(i, "list", entities[id].uuid)
      BY DEF ListInv
    <2>10. \A i \in DOMAIN javaWrites' :
             /\ javaWrites'[i].op = "list" => javaWrites'[i].uuid \in DOMAIN players
             /\ javaWrites'[i].op = "unlist" => javaWrites'[i].uuid \notin DOMAIN players
      BY <2>5 DEF ListInv
    <2>11. \A u \in DOMAIN players : players[u] =>
               u \in listed' \/ \E i \in DOMAIN javaWrites' : Lists(i, "list", u)'
      BY <2>4, <2>8, <2>9
    <2>12. \A u \in listed' : u \in DOMAIN players \/ \E i \in DOMAIN javaWrites' : Lists(i, "unlist", u)'
      BY <2>4, <2>8, <2>9
    <2>13. \A id \in DOMAIN entities : nature[id] = "player" =>
               \/ entities[id].uuid \in listed'
               \/ \E i \in DOMAIN javaWrites' : Lists(i, "list", entities[id].uuid)'
      <3> TAKE id \in DOMAIN entities
      <3> HAVE nature[id] = "player"
      <3>1. \A u : u \in DOMAIN players /\ (u \in listed \/ \E i \in DOMAIN javaWrites : Lists(i, "list", u)) =>
                      u \in listed' \/ \E i \in DOMAIN javaWrites' : Lists(i, "list", u)'
        BY <2>4, <2>8
      <3>2. /\ entities[id].uuid \in DOMAIN players
            /\ \/ entities[id].uuid \in listed
               \/ \E i \in DOMAIN javaWrites : Lists(i, "list", entities[id].uuid)
        BY <2>6, <2>9
      <3> QED BY <2>1, <3>1, <3>2 DEF Lists
    <2> QED BY <2>1, <2>10, <2>11, <2>12, <2>13 DEF ListInv, Lists
  <1>6. CASE WriteTick
    <2>1. /\ UNCHANGED <<entities, players, nature, javaWrites>>
          /\ tickWrites[1].op = "move" /\ Receive(tickWrites[1])
      BY <1>6, Pops DEF tables
    <2>2. listed' = listed
      BY <2>1, ReceiveMove
    <2> QED BY <2>1, <2>2 DEF ListInv, Lists
  <1>7. CASE TickProjectiles
    <2>1. /\ UNCHANGED <<players, nature, javaWrites, listed>> /\ DOMAIN entities' = DOMAIN entities
          /\ \A j \in DOMAIN entities : entities'[j].uuid = entities[j].uuid
      BY <1>7, TickSteps
    <2> QED BY <2>1 DEF ListInv, Lists
  <1>8. CASE \E id, e : Spawning(id, e)
    <2>1. PICK id, e : Spawning(id, e)
      BY <1>8
    <2>2. /\ id \in Ids /\ id \notin DOMAIN entities /\ OthersKept(id) /\ javaWrites = <<>>
          /\ UNCHANGED <<nature, players, listed>>
      BY <1>0, <2>1 DEF Spawning, client
    <2>3. \A j \in DOMAIN entities' : j # id => j \in DOMAIN entities /\ entities'[j] = entities[j]
      <3>1. CASE entities' = entities
        BY <3>1
      <3>2. CASE DOMAIN entities' = DOMAIN entities \cup {id}
        BY <1>0, <2>2, <3>2 DEF OthersKept
      <3> QED BY <2>1, <3>1, <3>2 DEF Spawning
    <2>4. CASE /\ id \notin DOMAIN entities' \/ nature[id] # "player"
               /\ \/ Writes(<<>>)
                  \/ Writes(<<AddActor(id, e.at, NoItem)>>)
                  \/ Writes(<<Frame(e.cell, NoItem)>>)
      <3>1. Quiet'
        BY <2>4, Written, Ops, Listed
      <3>2. Fewer
        BY <2>2, <2>3, <2>4
      <3> QED BY <1>2, <1>3, <2>2, <3>1, <3>2
    <2>5. CASE /\ e.uuid \in DOMAIN players /\ entities'[id] = e
               /\ Writes(<<ListPlayer(e.uuid), AddActor(id, e.at, NoItem)>>)
      <3>1. /\ DOMAIN javaWrites' = {1, 2} /\ javaWrites'[1].op = "list" /\ javaWrites'[1].uuid = e.uuid
            /\ javaWrites'[2].op = "add"
        BY <2>5, Written, Ops, Listed
      <3>2. \A j \in DOMAIN entities : nature[j] = "player" => entities[j].uuid \in listed
        BY <1>3, <2>2 DEF ListInv, Lists
      <3>3. \A u \in DOMAIN players : players[u] => u \in listed
        BY <1>3, <2>2 DEF ListInv, Lists
      <3>4. \A u \in listed : u \in DOMAIN players
        BY <1>3, <2>2 DEF ListInv, Lists
      <3> QED BY <2>2, <2>3, <2>5, <3>1, <3>2, <3>3, <3>4 DEF ListInv, Lists
    <2>6. \/ nature[id] # "player"
          \/ id \notin DOMAIN entities' /\ Writes(<<>>)
          \/ /\ e.uuid \in DOMAIN players /\ entities'[id] = e
             /\ Writes(<<ListPlayer(e.uuid), AddActor(id, e.at, NoItem)>>)
      BY <2>1, <2>2 DEF Spawning
    <2>7. nature[id] # "player" => \/ Writes(<<>>)
                                   \/ Writes(<<AddActor(id, e.at, NoItem)>>)
                                   \/ Writes(<<Frame(e.cell, NoItem)>>)
      BY <2>1 DEF Spawning
    <2> QED BY <2>4, <2>5, <2>6, <2>7
  <1>9. CASE \E id : Describing(id)
    <2>1. PICK id : Describing(id)
      BY <1>9
    <2>2. /\ id \in DOMAIN entities /\ OthersKept(id) /\ javaWrites = <<>> /\ DOMAIN entities' = DOMAIN entities
          /\ UNCHANGED <<nature, players, listed>> /\ entities'[id].uuid = entities[id].uuid
      BY <2>1 DEF Describing, client
    <2>3. Fewer
      BY <1>0, <2>2 DEF OthersKept
    <2>5. Quiet'
      BY <2>1, DescribedOps
    <2> QED BY <1>2, <1>3, <2>2, <2>3, <2>5
  <1>10. CASE \E id : Moving(id)
    <2>1. PICK id : Moving(id)
      BY <1>10
    <2>2. /\ OthersKept(id) /\ javaWrites = <<>> /\ DOMAIN entities' = DOMAIN entities
          /\ UNCHANGED <<nature, players, listed>>
          /\ id \in DOMAIN entities => entities'[id].uuid = entities[id].uuid
          /\ Writes(<<>>) \/ Writes(<<MoveActor(id, entities'[id].at)>>)
      BY <2>1 DEF Moving, client
    <2>3. Fewer
      BY <1>0, <2>2 DEF OthersKept
    <2>4. Quiet'
      BY <2>2, Written, Ops, Listed
    <2> QED BY <1>2, <1>3, <2>2, <2>3, <2>4
  <1>11. CASE \E id : Taking(id)
    <2>1. PICK id : Taking(id)
      BY <1>11
    <2>2. /\ OthersKept(id) /\ javaWrites = <<>> /\ DOMAIN entities' = DOMAIN entities \ {id}
          /\ UNCHANGED <<nature, players, listed>>
      BY <2>1 DEF Taking, client
    <2>3. Fewer
      BY <1>0, <2>2 DEF OthersKept
    <2>5. Quiet'
      BY <2>1, TakenOps
    <2> QED BY <1>2, <1>3, <2>2, <2>3, <2>5
  <1>12. CASE \E u \in Uuids, b \in BOOLEAN : PlayerInfo(u, b)
    <2>1. PICK u \in Uuids, b \in BOOLEAN : PlayerInfo(u, b)
      BY <1>12
    <2>2. /\ javaWrites = <<>> /\ UNCHANGED <<entities, nature, listed>>
          /\ Writes(IF players'[u] THEN <<ListPlayer(u)>> ELSE <<>>)
          /\ DOMAIN players' = DOMAIN players \cup {u}
          /\ \A p \in DOMAIN players : p # u => players'[p] = players[p]
      <3>1. /\ javaWrites = <<>> /\ UNCHANGED <<entities, nature, listed>>
            /\ Writes(IF players'[u] THEN <<ListPlayer(u)>> ELSE <<>>)
        BY <2>1 DEF PlayerInfo, Handles, Writes, client
      <3> DEFINE known == b \/ (u \in DOMAIN players /\ players[u])
      <3>2. players' = Put(players, u, known)
        BY <2>1 DEF PlayerInfo
      <3> HIDE DEF known
      <3>3. /\ DOMAIN players' = DOMAIN players \cup {u}
            /\ \A p \in DOMAIN players : p # u => players'[p] = players[p]
        BY <3>2 DEF Put
      <3> QED BY <3>1, <3>3
    <2>3. /\ \A p \in DOMAIN players : players[p] => p \in listed
          /\ \A p \in listed : p \in DOMAIN players
          /\ \A id \in DOMAIN entities : nature[id] = "player" => entities[id].uuid \in listed
      BY <1>3, <2>2 DEF ListInv, Lists
    <2>4. CASE players'[u]
      <3>1. DOMAIN javaWrites' = {1} /\ javaWrites'[1].op = "list" /\ javaWrites'[1].uuid = u
        BY <2>2, <2>4, Written, Ops, Listed
      <3> QED BY <2>2, <2>3, <2>4, <3>1 DEF ListInv, Lists
    <2>5. CASE ~players'[u]
      <3>1. DOMAIN javaWrites' = {}
        BY <2>2, <2>5, Written, Listed
      <3> QED BY <2>2, <2>3, <2>5, <3>1 DEF ListInv, Lists
    <2> QED BY <2>4, <2>5
  <1>13. CASE \E u \in Uuids : PlayerRemove(u)
    <2>1. PICK u \in Uuids : PlayerRemove(u)
      BY <1>13
    <2>2. /\ nature' = nature /\ DOMAIN players' = DOMAIN players \ {u}
          /\ \A v \in DOMAIN players' : players'[v] = players[v]
          /\ \A j : j \in DOMAIN entities' <=> j \in DOMAIN entities /\ entities[j].uuid # u
          /\ \A j \in DOMAIN entities' : entities'[j] = entities[j]
      BY <2>1, GoneTables
    <2>3. javaWrites = <<>> /\ listed' = listed
      BY <2>1, GoneWritten DEF client
    <2>4. /\ \A p \in DOMAIN players : players[p] => p \in listed
          /\ \A p \in listed : p \in DOMAIN players
          /\ \A id \in DOMAIN entities : nature[id] = "player" => entities[id].uuid \in listed
      BY <1>3, <2>3 DEF ListInv, Lists
    <2>5. 1 \in DOMAIN javaWrites' /\ javaWrites'[1].op = "unlist" /\ javaWrites'[1].uuid = u
      BY <2>1, GoneWritten, Ops
    <2>6. \A i \in DOMAIN javaWrites' : i # 1 => javaWrites'[i].op = "remove"
      <3> TAKE i \in DOMAIN javaWrites'
      <3> HAVE i # 1
      <3>1. javaWrites'[i] = RemoveActor(javaWrites'[i].id)
        BY <2>1, GoneWritten
      <3> QED BY <3>1, Ops
    <2> QED BY <2>2, <2>3, <2>4, <2>5, <2>6 DEF ListInv, Lists
  <1>14. CASE Seating
    BY <1>14 DEF Seating, ListInv, Lists
  <1>15. CASE \E v \in Ids : SetPassengers(v)
    <2>1. PICK v \in Ids : SetPassengers(v)
      BY <1>15
    <2>2. /\ UNCHANGED <<entities, players, nature, listed>> /\ javaWrites = <<>>
      BY <2>1, LinksWritten DEF SetPassengers, client, Writes
    <2>3. Quiet'
      <3> SUFFICES ASSUME NEW i \in DOMAIN javaWrites' PROVE javaWrites'[i].op \notin {"list", "unlist"}
        OBVIOUS
      <3>1. \/ javaWrites'[i] = NoWrite
            \/ \E r : javaWrites'[i] = Unlink(v, r)
            \/ \E r, f : javaWrites'[i] = Link(v, r, f)
        BY <2>1, LinksWritten
      <3> QED BY <3>1, Ops
    <2> QED BY <1>2, <1>3, <2>2, <2>3
  <1>16. CASE LeaveDimension
    <2>1. javaWrites = <<>> /\ Writes(<<ChangeDimension>>) /\ UNCHANGED <<entities, players>>
      BY <1>16 DEF LeaveDimension, Handles, tables
    <2> QED BY <1>2, <1>3, <2>1, Written, Listed, Ops
  <1> QED BY <1>4, <1>5, <1>6, <1>7, <1>8, <1>9, <1>10, <1>11, <1>12, <1>13, <1>14, <1>15, <1>16 DEF Step

(***************************************************************************)
(* Actors                                                                  *)
(***************************************************************************)

\* An actor the bridge wants is one of an entity the server has.
LEMMA Wanted ==
    ASSUME Tab, NEW id, Want(id)
    PROVE  id \in Ids /\ id \in DOMAIN entities /\ id \in DOMAIN world /\ world[id].item \in Item
  <1>1. id \in DOMAIN entities /\ id \in DOMAIN world /\ id \in Ids /\ world[id] \in Entity(nature[id])
    BY DEF Want, Tab, ServerEntities, BridgeEntities
  <1> QED BY <1>1, EntityFields

\* With nothing left to write the client has the actors it should have.
LEMMA ActorsSettled ==
    ASSUME ActorInv, javaWrites = <<>>
    PROVE  \A id \in Ids : /\ id \in DOMAIN actors <=> Want(id)
                           /\ id \in DOMAIN actors => actors[id].item = world[id].item
  BY Listed DEF ActorInv, Touches, Op

\* Packets that neither make an actor nor change one: those that are no more wanted go.
LEMMA ActorsLess ==
    ASSUME ActorInv, javaWrites = <<>>, actors' = actors,
           \A i \in DOMAIN javaWrites' :
              /\ javaWrites'[i].op \notin {"add", "size", "dimension"}
              /\ javaWrites'[i].op = "remove" => ~Want(javaWrites[i].id)',
           \A j \in Ids :
              \/ (Want(j)' <=> Want(j)) /\ (Want(j) => world'[j].item = world[j].item)
              \/ \E i \in DOMAIN javaWrites' : javaWrites'[i].op = "remove" /\ javaWrites'[i].id = j
    PROVE  ActorInv'
  <1>1. \A id \in Ids : /\ id \in DOMAIN actors <=> Want(id)
                        /\ id \in DOMAIN actors => actors[id].item = world[id].item
    BY ActorsSettled
  <1>2. DOMAIN actors \subseteq Ids /\ \A id \in DOMAIN actors : actors[id] \in [at : Int, item : Item]
    BY DEF ActorInv
  <1>3. \A j \in Ids : ~Touches(j)' =>
          (j \in DOMAIN actors <=> Want(j)') /\ (j \in DOMAIN actors => actors[j].item = world'[j].item)
    BY <1>1 DEF Touches
  <1> HIDE DEF Want, Touches
  <1> QED BY <1>2, <1>3 DEF ActorInv

\* The actor of id is made, perhaps again.
LEMMA ActorsMore ==
    ASSUME ActorInv, javaWrites = <<>>, actors' = actors, NEW id \in Ids, NEW w, NEW b,
           Want(id)', w.op = "add", w.id = id, w.item = world'[id].item,
           b.op = "list" \/ (b.op = "remove" /\ b.id = id),
           javaWrites' = <<w>> \/ javaWrites' = <<b, w>>,
           \A j \in Ids : j # id => (Want(j)' <=> Want(j)) /\ (Want(j) => world'[j].item = world[j].item)
    PROVE  ActorInv'
  <1>1. \A j \in Ids : /\ j \in DOMAIN actors <=> Want(j)
                       /\ j \in DOMAIN actors => actors[j].item = world[j].item
    BY ActorsSettled
  <1>2. DOMAIN actors \subseteq Ids /\ \A j \in DOMAIN actors : actors[j] \in [at : Int, item : Item]
    BY DEF ActorInv
  <1>3. PICK k \in {1, 2} : /\ k \in DOMAIN javaWrites' /\ javaWrites'[k] = w /\ Len(javaWrites') = k
                            /\ \A i \in DOMAIN javaWrites' : i = k \/ (i < k /\ javaWrites'[i] = b)
    BY Listed
  <1>4. \A j \in Ids : ~Touches(j)' =>
          (j \in DOMAIN actors <=> Want(j)') /\ (j \in DOMAIN actors => actors[j].item = world'[j].item)
    BY <1>1, <1>3 DEF Touches
  <1>5. \A i \in DOMAIN javaWrites' :
          /\ javaWrites'[i].op = "add" => i = k
          /\ javaWrites'[i].op = "remove" => i < k /\ javaWrites'[i].id = id
          /\ javaWrites'[i].op \notin {"size", "dimension"}
    BY <1>3
  <1>6. \A i \in DOMAIN javaWrites' : i <= k /\ ~(i > k)
    BY <1>3
  <1>7. \A j \in Ids : ~Touches(j)' =>
          (j \in DOMAIN actors' <=> Want(j)') /\ (j \in DOMAIN actors' => actors'[j].item = world'[j].item)
    BY <1>4
  <1> HIDE DEF Want, Touches
  <1>8. \A i \in DOMAIN javaWrites' :
        /\ javaWrites'[i].op = "add" =>
              /\ Want(javaWrites[i].id)' /\ javaWrites'[i].item = world'[javaWrites'[i].id].item
              /\ \A j \in DOMAIN javaWrites' : j > i =>
                    javaWrites'[j].op \notin {"add", "remove", "size", "dimension"}
        /\ javaWrites'[i].op = "remove" =>
              \E j \in DOMAIN javaWrites' : j > i /\ Op(j, "add", javaWrites[i].id)'
        /\ javaWrites'[i].op \notin {"size", "dimension"}
    BY <1>3, <1>5, <1>6 DEF Op
  <1> QED BY <1>2, <1>7, <1>8 DEF ActorInv

\* What the client shows changes neither in which actors there are nor in what they hold.
LEMMA ActorsSame ==
    ASSUME Tab, ActorInv, UNCHANGED <<nature, gone>>, DOMAIN actors' = DOMAIN actors,
           DOMAIN entities' = DOMAIN entities,
           \A id \in DOMAIN entities : entities'[id].shown = entities[id].shown,
           \A id \in DOMAIN world : world'[id].item = world[id].item,
           \A id \in DOMAIN actors : actors'[id].item = actors[id].item /\ actors'[id] \in [at : Int, item : Item],
           DOMAIN world' = DOMAIN world,
           javaWrites' = javaWrites
    PROVE  ActorInv'
  <1>1. \A id : (Want(id)' <=> Want(id)) /\ (Touches(id)' <=> Touches(id))
    BY DEF Want, Touches
  <1>2. \A id \in DOMAIN entities : id \in DOMAIN world
    BY DEF Tab, BridgeEntities
  <1>3. \A id : Want(id) => world'[id].item = world[id].item
    BY <1>2 DEF Want
  <1>4. \A id : \A i \in DOMAIN javaWrites : \A op : Op(i, op, id)' <=> Op(i, op, id)
    BY DEF Op
  <1>5. \A id \in Ids : ~Touches(id) =>
          /\ id \in DOMAIN actors <=> Want(id)
          /\ id \in DOMAIN actors => \/ actors[id].item = world[id].item
                                     \/ \E i \in DOMAIN javaWrites : Op(i, "size", id)
    BY DEF ActorInv
  <1>6. \A id \in Ids : ~Touches(id)' =>
          /\ id \in DOMAIN actors' <=> Want(id)'
          /\ id \in DOMAIN actors' => \/ actors'[id].item = world'[id].item
                                      \/ \E i \in DOMAIN javaWrites' : Op(i, "size", id)'
    BY <1>1, <1>3, <1>4, <1>5
  <1> HIDE DEF Want, Touches, Op
  <1>7. \A i \in DOMAIN javaWrites' :
        /\ javaWrites'[i].op = "add" =>
              /\ Want(javaWrites[i].id)' /\ javaWrites'[i].item = world'[javaWrites'[i].id].item
              /\ \A j \in DOMAIN javaWrites' : j > i =>
                    javaWrites'[j].op \notin {"add", "remove", "size", "dimension"}
        /\ javaWrites'[i].op = "remove" =>
              \/ ~Want(javaWrites[i].id)'
              \/ \E j \in DOMAIN javaWrites' : j > i /\ Op(j, "add", javaWrites[i].id)'
        /\ javaWrites'[i].op = "size" =>
              /\ Len(javaWrites') = 1 /\ javaWrites'[i].id \in DOMAIN actors' /\ Want(javaWrites[i].id)'
              /\ world'[javaWrites'[i].id].item = <<actors'[javaWrites'[i].id].item[1], javaWrites'[i].count>>
        /\ javaWrites'[i].op = "dimension" => Len(javaWrites') = 1 /\ gone' = DOMAIN world'
    BY <1>1, <1>3, <1>4, ZenonT(60) DEF ActorInv
  <1> QED BY <1>6, <1>7 DEF ActorInv

\* The next packet to write does to the actors what the ones behind it expect.
LEMMA ActorWritten ==
    ASSUME Tab, WritesTyped, ActorInv, WriteJava
    PROVE  ActorInv'
  <1> DEFINE w == javaWrites[1]
  <1>1. /\ UNCHANGED <<entities, world, gone, nature>>
        /\ 1 \in DOMAIN javaWrites /\ Receive(w) /\ w \in Packet
        /\ \A i \in DOMAIN javaWrites' :
              i \in Nat /\ i > 0 /\ i + 1 \in DOMAIN javaWrites /\ javaWrites'[i] = javaWrites[i + 1]
        /\ \A i \in DOMAIN javaWrites :
              i \in Nat /\ (i = 1 \/ (i - 1 \in DOMAIN javaWrites' /\ javaWrites'[i - 1] = javaWrites[i]))
    BY Pops DEF tables, server
  <1>2. /\ javaWrites \in Seq(Packet) /\ Len(javaWrites) \in Nat /\ DOMAIN javaWrites = 1..Len(javaWrites)
        /\ javaWrites # <<>> /\ javaWrites' = Tail(javaWrites)
    BY DEF WritesTyped, WriteJava
  <1>3. Len(javaWrites') = Len(javaWrites) - 1
    BY <1>2, Popped
  <1>4. Len(javaWrites) = 1 => DOMAIN javaWrites' = {}
    BY <1>1, <1>2
  <1>5. \A id : (Want(id)' <=> Want(id))
    BY <1>1 DEF Want
  <1>6. \A id, op : (\E i \in DOMAIN javaWrites' : Op(i, op, id)') <=> (\E i \in DOMAIN javaWrites : i # 1 /\ Op(i, op, id))
    <2> TAKE id, op
    <2>1. ASSUME NEW i \in DOMAIN javaWrites', Op(i, op, id)'
          PROVE  \E j \in DOMAIN javaWrites : j # 1 /\ Op(j, op, id)
      <3>1. i + 1 \in DOMAIN javaWrites /\ javaWrites'[i] = javaWrites[i + 1] /\ i + 1 # 1
        BY <1>1
      <3> QED BY <2>1, <3>1 DEF Op
    <2>2. ASSUME NEW j \in DOMAIN javaWrites, j # 1, Op(j, op, id)
          PROVE  \E i \in DOMAIN javaWrites' : Op(i, op, id)'
      <3>1. j - 1 \in DOMAIN javaWrites' /\ javaWrites'[j - 1] = javaWrites[j]
        BY <1>1, <2>2
      <3> QED BY <2>2, <3>1 DEF Op
    <2> QED BY <2>1, <2>2
  <1>7. \A i, j \in DOMAIN javaWrites' : j > i => j + 1 > i + 1
    BY <1>1
  \* what remains is in order
  <1>8. \A i \in DOMAIN javaWrites' :
          /\ javaWrites'[i].op = "add" =>
                /\ Want(javaWrites'[i].id) /\ javaWrites'[i].item = world[javaWrites'[i].id].item
                /\ \A j \in DOMAIN javaWrites' : j > i =>
                      javaWrites'[j].op \notin {"add", "remove", "size", "dimension"}
          /\ javaWrites'[i].op \notin {"size", "dimension"}
    <2> TAKE i \in DOMAIN javaWrites'
    <2>1. /\ i + 1 \in DOMAIN javaWrites /\ javaWrites'[i] = javaWrites[i + 1] /\ i \in Nat /\ i > 0
          /\ \A j \in DOMAIN javaWrites' : j \in Nat /\ j + 1 \in DOMAIN javaWrites /\ javaWrites'[j] = javaWrites[j + 1]
      BY <1>1
    <2>2. Len(javaWrites) # 1
      BY <1>2, <2>1
    <2>3. javaWrites[i + 1].op \notin {"size", "dimension"}
      BY <2>1, <2>2 DEF ActorInv
    <2>4. javaWrites[i + 1].op = "add" =>
                /\ Want(javaWrites[i + 1].id) /\ javaWrites[i + 1].item = world[javaWrites[i + 1].id].item
                /\ \A j \in DOMAIN javaWrites : j > i + 1 =>
                      javaWrites[j].op \notin {"add", "remove", "size", "dimension"}
      BY <2>1 DEF ActorInv
    <2> QED BY <1>7, <2>1, <2>3, <2>4
  <1>9. \A i \in DOMAIN javaWrites' : javaWrites'[i].op = "remove" =>
          \/ ~Want(javaWrites'[i].id)
          \/ \E j \in DOMAIN javaWrites' : j > i /\ Op(j, "add", javaWrites[i].id)'
    <2> TAKE i \in DOMAIN javaWrites'
    <2> HAVE javaWrites'[i].op = "remove"
    <2>1. /\ i + 1 \in DOMAIN javaWrites /\ javaWrites'[i] = javaWrites[i + 1] /\ i \in Nat /\ i > 0
      BY <1>1
    <2>2. \/ ~Want(javaWrites[i + 1].id)
          \/ \E j \in DOMAIN javaWrites : j > i + 1 /\ Op(j, "add", javaWrites[i + 1].id)
      BY <2>1 DEF ActorInv
    <2>3. CASE \E j \in DOMAIN javaWrites : j > i + 1 /\ Op(j, "add", javaWrites[i + 1].id)
      <3>1. PICK j \in DOMAIN javaWrites : j > i + 1 /\ Op(j, "add", javaWrites[i + 1].id)
        BY <2>3
      <3>2. j - 1 \in DOMAIN javaWrites' /\ javaWrites'[j - 1] = javaWrites[j] /\ j - 1 > i
        BY <1>1, <2>1, <3>1
      <3> QED BY <2>1, <3>1, <3>2 DEF Op
    <2> QED BY <2>1, <2>2, <2>3
  \* what the client then has
  <1>10. \A id \in Ids : ~Touches(id) =>
          /\ id \in DOMAIN actors <=> Want(id)
          /\ id \in DOMAIN actors => \/ actors[id].item = world[id].item
                                     \/ \E i \in DOMAIN javaWrites : Op(i, "size", id)
    BY DEF ActorInv
  <1>11. DOMAIN actors \subseteq Ids /\ \A id \in DOMAIN actors : actors[id] \in [at : Int, item : Item]
    BY DEF ActorInv
  <1>12. \A id \in Ids : ~Touches(id)' /\ ~(w.op \in {"add", "remove"} /\ w.id = id) /\ w.op # "dimension"
             => ~Touches(id)
    <2> SUFFICES ASSUME NEW id \in Ids, ~(w.op \in {"add", "remove"} /\ w.id = id), w.op # "dimension", Touches(id)
                 PROVE  Touches(id)'
      OBVIOUS
    <2>1. PICK i \in DOMAIN javaWrites :
              \/ javaWrites[i].op = "dimension"
              \/ (javaWrites[i].op \in {"add", "remove"} /\ javaWrites[i].id = id)
      BY DEF Touches
    <2>2. i # 1
      BY <2>1
    <2>3. i - 1 \in DOMAIN javaWrites' /\ javaWrites'[i - 1] = javaWrites[i]
      BY <1>1, <2>2
    <2> QED BY <2>1, <2>3 DEF Touches
  <1> DEFINE Shown == /\ \A id \in Ids : ~Touches(id)' =>
                            /\ id \in DOMAIN actors' <=> Want(id)
                            /\ id \in DOMAIN actors' => actors'[id].item = world[id].item
                      /\ DOMAIN actors' \subseteq Ids
                      /\ \A id \in DOMAIN actors' : actors'[id] \in [at : Int, item : Item]
  <1>13. ASSUME Shown PROVE ActorInv'
    <2>1. \A id \in Ids : ~Touches(id)' =>
                            /\ id \in DOMAIN actors' <=> Want(id)'
                            /\ id \in DOMAIN actors' => actors'[id].item = world'[id].item
      BY <1>1, <1>5, <1>13
    <2>2. \A i \in DOMAIN javaWrites' :
          /\ javaWrites'[i].op = "add" =>
                /\ Want(javaWrites[i].id)' /\ javaWrites'[i].item = world'[javaWrites'[i].id].item
                /\ \A j \in DOMAIN javaWrites' : j > i =>
                      javaWrites'[j].op \notin {"add", "remove", "size", "dimension"}
          /\ javaWrites'[i].op = "remove" =>
                \/ ~Want(javaWrites[i].id)'
                \/ \E j \in DOMAIN javaWrites' : j > i /\ Op(j, "add", javaWrites[i].id)'
          /\ javaWrites'[i].op \notin {"size", "dimension"}
      BY <1>1, <1>5, <1>8, <1>9
    <2> HIDE DEF Want, Touches, Op
    <2> QED BY <1>13, <2>1, <2>2 DEF ActorInv
  <1>14. CASE w.op = "add"
    <2>1. actors' = Put(actors, w.id, [at |-> w.at, item |-> w.item])
      BY <1>1, <1>14, ReceiveAdd
    <2>2. /\ Want(w.id) /\ w.item = world[w.id].item /\ w.id \in Ids /\ w.item \in Item /\ w.at \in Int
          /\ \A j \in DOMAIN javaWrites : j > 1 =>
                    javaWrites[j].op \notin {"add", "remove", "size", "dimension"}
      <3>1. w.id \in Ids /\ w.item \in Item /\ w.at \in Int
        BY <1>1, <1>14, Packets
      <3> QED BY <1>1, <1>14, <3>1 DEF ActorInv
    <2>3. \A j \in DOMAIN javaWrites : j # 1 => j > 1
      BY <1>2
    <2>4. \A id : ~\E i \in DOMAIN javaWrites : Op(i, "size", id)
      BY <1>14, <2>2, <2>3 DEF Op
    <2>5. \A id \in Ids : id # w.id => ~Touches(id)
      BY <1>14, <2>2, <2>3 DEF Touches
    <2> HIDE DEF w
    <2>6. /\ DOMAIN actors' = DOMAIN actors \cup {w.id} /\ actors'[w.id] = [at |-> w.at, item |-> w.item]
          /\ \A id \in DOMAIN actors : id # w.id => actors'[id] = actors[id]
      BY <2>1 DEF Put
    <2>7. actors'[w.id] \in [at : Int, item : Item] /\ actors'[w.id].item = w.item
      BY <2>2, <2>6
    <2>8. \A id \in Ids : /\ id \in DOMAIN actors' <=> Want(id)
                          /\ id \in DOMAIN actors' => actors'[id].item = world[id].item
      BY <1>10, <2>2, <2>4, <2>5, <2>6, <2>7
    <2>9. \A id \in DOMAIN actors' : id \in Ids /\ actors'[id] \in [at : Int, item : Item]
      BY <1>11, <2>2, <2>6, <2>7
    <2> QED BY <1>13, <2>8, <2>9
  <1>15. CASE w.op = "remove"
    <2>1. actors' = Drop(actors, {w.id})
      BY <1>1, <1>15, ReceiveRemove
    <2>2. \A id : ~\E i \in DOMAIN javaWrites : Op(i, "size", id)
      <3> SUFFICES ASSUME NEW i \in DOMAIN javaWrites, javaWrites[i].op = "size" PROVE FALSE
        BY DEF Op
      <3>1. Len(javaWrites) = 1
        BY DEF ActorInv
      <3> QED BY <1>2, <1>15, <3>1
    <2>3. \/ ~Want(w.id)
          \/ \E j \in DOMAIN javaWrites : j > 1 /\ Op(j, "add", w.id)
      BY <1>1, <1>15 DEF ActorInv
    <2>4. \A id : (\E i \in DOMAIN javaWrites' : Op(i, "add", id)') => Touches(id)'
      BY DEF Touches, Op
    <2>5. \A id : id = w.id /\ Want(id) => Touches(id)'
      <3> SUFFICES ASSUME NEW id, id = w.id, Want(id) PROVE Touches(id)'
        OBVIOUS
      <3>1. PICK j \in DOMAIN javaWrites : j > 1 /\ Op(j, "add", id)
        BY <2>3
      <3>2. j # 1
        BY <3>1
      <3> QED BY <1>6, <2>4, <3>1, <3>2
    <2>6. \A id \in Ids : id # w.id /\ ~Touches(id)' => ~Touches(id)
      BY <1>12, <1>15
    <2> HIDE DEF w
    <2>7. DOMAIN actors' = DOMAIN actors \ {w.id} /\ \A id \in DOMAIN actors' : actors'[id] = actors[id]
      BY <2>1 DEF Drop
    <2>8. \A id \in Ids : ~Touches(id)' =>
             /\ id \in DOMAIN actors' <=> Want(id)
             /\ id \in DOMAIN actors' => actors'[id].item = world[id].item
      BY <1>10, <2>2, <2>5, <2>6, <2>7
    <2>9. \A id \in DOMAIN actors' : id \in Ids /\ actors'[id] \in [at : Int, item : Item]
      BY <1>11, <2>7
    <2> QED BY <1>13, <2>8, <2>9
  <1>16. CASE w.op = "size"
    <2>1. /\ Len(javaWrites) = 1 /\ w.id \in DOMAIN actors /\ Want(w.id)
          /\ world[w.id].item = <<actors[w.id].item[1], w.count>>
      BY <1>1, <1>16 DEF ActorInv
    <2>2. actors' = [actors EXCEPT ![w.id].item[2] = w.count]
      BY <1>1, <1>16, <2>1, ReceiveSize
    <2>3. \A i \in DOMAIN javaWrites : i = 1
      BY <1>2, <2>1
    <2>4. \A id \in Ids : ~Touches(id)
      BY <1>16, <2>3 DEF Touches
    <2>5. \A id : id # w.id => ~\E i \in DOMAIN javaWrites : Op(i, "size", id)
      BY <2>3 DEF Op
    <2>6. world[w.id].item \in Item
      BY <2>1, Wanted
    <2> HIDE DEF w
    <2> DEFINE a == actors[w.id]
    <2>7. a \in [at : Int, item : Item] /\ a.item = <<a.item[1], a.item[2]>>
      <3>1. a \in [at : Int, item : Item] /\ a.item \in Item
        BY <1>11, <2>1
      <3>2. \A i \in Item : i = <<i[1], i[2]>>
        BY EntitiesAssumption DEF Item, NoItem
      <3> QED BY <3>1, <3>2
    <2>8. /\ DOMAIN actors' = DOMAIN actors
          /\ actors'[w.id] = [a EXCEPT !.item[2] = w.count]
          /\ \A id \in DOMAIN actors : id # w.id => actors'[id] = actors[id]
      BY <2>1, <2>2
    <2> DEFINE item == a.item
    <2>9. [a EXCEPT !.item[2] = w.count] = [a EXCEPT !.item = [item EXCEPT ![2] = w.count]]
      BY <2>7
    <2>10. [item EXCEPT ![2] = w.count] = <<item[1], w.count>>
      <3> HIDE DEF a, item
      <3>1. item = <<item[1], item[2]>>
        BY <2>7 DEF item
      <3> QED BY <3>1
    <2>11. <<item[1], w.count>> = world[w.id].item
      BY <2>1
    <2>12. actors'[w.id] \in [at : Int, item : Item] /\ actors'[w.id].item = world[w.id].item
      <3> HIDE DEF a, item
      <3>1. actors'[w.id] = [a EXCEPT !.item = world[w.id].item]
        BY <2>8, <2>9, <2>10, <2>11
      <3> QED BY <2>6, <2>7, <3>1
    <2>13. \A id \in Ids : /\ id \in DOMAIN actors' <=> Want(id)
                           /\ id \in DOMAIN actors' => actors'[id].item = world[id].item
      BY <1>10, <2>4, <2>5, <2>8, <2>12
    <2>14. \A id \in DOMAIN actors' : id \in Ids /\ actors'[id] \in [at : Int, item : Item]
      BY <1>11, <2>8, <2>12
    <2> QED BY <1>13, <2>13, <2>14
  <1>17. CASE w.op = "dimension"
    <2>1. gone = DOMAIN world
      BY <1>1, <1>17 DEF ActorInv
    <2>2. \A id : ~Want(id)
      BY <2>1 DEF Want, Tab, BridgeEntities
    <2>3. actors' = <<>>
      BY <1>1, <1>17, ReceiveDimension
    <2>4. DOMAIN actors' = {}
      BY <2>3
    <2> QED BY <1>13, <2>2, <2>4
  <1>18. CASE w.op \notin {"add", "remove", "size", "dimension"}
    <2>1. \A id : ~\E i \in DOMAIN javaWrites : Op(i, "size", id)
      <3> SUFFICES ASSUME NEW i \in DOMAIN javaWrites, javaWrites[i].op = "size" PROVE FALSE
        BY DEF Op
      <3>1. Len(javaWrites) = 1
        BY DEF ActorInv
      <3> QED BY <1>2, <1>18, <3>1
    <2>2. \A id \in Ids : ~Touches(id)' => ~Touches(id)
      BY <1>12, <1>18
    <2>3. DOMAIN actors' = DOMAIN actors
          /\ \A id \in DOMAIN actors : /\ actors'[id].item = actors[id].item
                                        /\ actors'[id] \in [at : Int, item : Item]
      <3>1. CASE w.op = "move" /\ w.id \in DOMAIN actors
        <4>1. actors' = [actors EXCEPT ![w.id].at = w.at] /\ w.at \in Int
          BY <1>1, <3>1, ReceiveMove, Packets
        <4> HIDE DEF w
        <4> QED BY <1>11, <3>1, <4>1
      <3>2. CASE ~(w.op = "move" /\ w.id \in DOMAIN actors)
        <4>1. actors' = actors
          BY <1>1, <1>18, <3>2 DEF Receive
        <4> QED BY <1>11, <4>1
      <3> QED BY <3>1, <3>2
    <2>4. \A id \in Ids : ~Touches(id)' =>
             /\ id \in DOMAIN actors' <=> Want(id)
             /\ id \in DOMAIN actors' => actors'[id].item = world[id].item
      BY <1>10, <2>1, <2>2, <2>3
    <2> QED BY <1>11, <1>13, <2>3, <2>4
  <1> QED BY <1>14, <1>15, <1>16, <1>17, <1>18

\* Every step keeps the actors right.
LEMMA ActorKept ==
    ASSUME Tab, WritesTyped, ActorInv, Step
    PROVE  ActorInv'
  <1>0. \A id \in DOMAIN entities : /\ id \in Ids /\ id \in DOMAIN world /\ entities[id] \in Entity(nature[id])
                                    /\ nature[id] \notin {"item", "painting", "orb"} => entities[id].shown
                                    /\ nature[id] = "orb" => ~entities[id].shown
    BY DEF Tab, ServerEntities, BridgeEntities
  <1>s. javaWrites = <<>> =>
          \A id \in Ids : /\ id \in DOMAIN actors <=> Want(id)
                          /\ id \in DOMAIN actors => actors[id].item = world[id].item
    BY ActorsSettled
  <1>t. DOMAIN actors \subseteq Ids /\ \A id \in DOMAIN actors : actors[id] \in [at : Int, item : Item]
    BY DEF ActorInv
  \* another entity is as it was
  <1>o. \A id : OthersKept(id) /\ nature' = nature /\ gone' \ {id} = gone \ {id} =>
          \A j \in Ids : j # id => (Want(j)' <=> Want(j)) /\ (Want(j) => world'[j].item = world[j].item)
    BY DEF OthersKept, Want, Tab, BridgeEntities
  <1>4. CASE UNCHANGED entityVars
    <2>1. UNCHANGED <<nature, gone, actors, entities, world, javaWrites>>
      BY <1>4 DEF entityVars, tables, client, server
    <2> QED BY <1>t, <2>1, ActorsSame
  <1>5. CASE WriteJava
    BY <1>5, ActorWritten
  <1>6. CASE WriteTick
    <2> DEFINE w == tickWrites[1]
    <2>1. /\ UNCHANGED <<entities, nature, javaWrites, world, gone>>
          /\ w.op = "move" /\ Receive(w) /\ tickWrites # <<>>
      BY <1>6, Pops DEF tables, server, WriteTick
    <2>2. w.at \in Int
      <3>1. tickWrites \in Seq([op : {"move"}, id : {id \in Ids : nature[id] \in Simulated}, at : Int])
        BY DEF WritesTyped
      <3> DEFINE Bodies == {id \in Ids : nature[id] \in Simulated}
      <3>2. tickWrites \in Seq([op : {"move"}, id : Bodies, at : Int])
        BY <3>1
      <3>4. \A m \in [op : {"move"}, id : Bodies, at : Int] : m.at \in Int
        OBVIOUS
      <3> HIDE DEF Bodies
      <3> DEFINE Sent == [op : {"move"}, id : Bodies, at : Int]
      <3>5. tickWrites \in Seq(Sent) /\ \A m \in Sent : m.at \in Int
        BY <3>2, <3>4
      <3> HIDE DEF Sent
      <3>3. tickWrites[1] \in Sent
        BY <2>1, <3>5, Popped
      <3> QED BY <3>3, <3>5
    <2>3. actors' = IF w.id \in DOMAIN actors THEN [actors EXCEPT ![w.id].at = w.at] ELSE actors
      BY <2>1, ReceiveMove
    <2> HIDE DEF w
    <2>4. DOMAIN actors' = DOMAIN actors
          /\ \A id \in DOMAIN actors : /\ actors'[id].item = actors[id].item
                                        /\ actors'[id] \in [at : Int, item : Item]
      BY <1>t, <2>2, <2>3
    <2> QED BY <2>1, <2>4, ActorsSame
  <1>7. CASE TickProjectiles
    <2>1. /\ UNCHANGED <<nature, gone, javaWrites, actors>> /\ DOMAIN entities' = DOMAIN entities
          /\ DOMAIN world' = DOMAIN world
          /\ \A j \in DOMAIN entities : entities'[j].shown = entities[j].shown
          /\ \A j \in DOMAIN world : world'[j].item = world[j].item
      BY <1>7, TickSteps
    <2> QED BY <1>t, <2>1, ActorsSame
  <1>8. CASE \E id, e : Spawning(id, e)
    <2>1. PICK id, e : Spawning(id, e)
      BY <1>8
    <2>2. /\ id \in Ids /\ id \notin DOMAIN entities /\ OthersKept(id) /\ javaWrites = <<>> /\ gone = {} /\ gone' = gone
          /\ UNCHANGED <<nature, actors>> /\ e.item = NoItem /\ world'[id] = e
          /\ e.shown <=> nature[id] \notin {"item", "painting", "orb"}
      BY <1>0, <2>1 DEF Spawning, client
    <2>3. \A j \in Ids : j # id => (Want(j)' <=> Want(j)) /\ (Want(j) => world'[j].item = world[j].item)
      BY <1>o, <2>2
    <2>4. CASE Writes(<<>>) /\ (id \notin DOMAIN entities' \/ (entities'[id] = e /\ nature[id] \in {"item", "painting", "orb"}))
      <3>1. ~Want(id) /\ ~Want(id)'
        BY <2>2, <2>4 DEF Want
      <3>2. javaWrites' = <<>>
        BY <2>4, Written
      <3>3. \A j \in Ids : (Want(j)' <=> Want(j)) /\ (Want(j) => world'[j].item = world[j].item)
        BY <2>3, <3>1
      <3> QED BY <2>2, <3>2, <3>3, ActorsLess, Listed
    <2>5. CASE nature[id] = "frame" /\ Writes(<<Frame(e.cell, NoItem)>>)
      <3>1. ~Want(id) /\ ~Want(id)'
        BY <2>2, <2>5 DEF Want
      <3>2. DOMAIN javaWrites' = {1} /\ javaWrites'[1].op = "frame"
        BY <2>5, Written, Listed, Ops
      <3>3. \A j \in Ids : (Want(j)' <=> Want(j)) /\ (Want(j) => world'[j].item = world[j].item)
        BY <2>3, <3>1
      <3> QED BY <2>2, <3>2, <3>3, ActorsLess
    <2>6. CASE /\ nature[id] \in {"mob", "arrow", "rocket", "hook", "player"}
               /\ id \in DOMAIN entities' /\ entities'[id] = e
               /\ Writes(<<AddActor(id, e.at, NoItem)>>) \/ Writes(<<ListPlayer(e.uuid), AddActor(id, e.at, NoItem)>>)
      <3> DEFINE w == AddActor(id, e.at, NoItem)
                 b == ListPlayer(e.uuid)
      <3>1. Want(id)'
        BY <2>2, <2>6 DEF Want
      <3>2. w.op = "add" /\ w.id = id /\ w.item = NoItem /\ b.op = "list"
        BY Ops
      <3>3. javaWrites' = <<w>> \/ javaWrites' = <<b, w>>
        BY <2>6, Written
      <3> HIDE DEF w, b
      <3> QED BY <2>2, <2>3, <3>1, <3>2, <3>3, ActorsMore
    <2> QED BY <2>1, <2>2, <2>4, <2>5, <2>6 DEF Spawning
  <1>9. CASE \E id : Describing(id)
    <2>1. PICK id : Describing(id)
      BY <1>9
    <2>2. /\ id \in DOMAIN entities /\ id \in Ids /\ id \in DOMAIN world /\ id \notin gone
          /\ OthersKept(id) /\ javaWrites = <<>> /\ DOMAIN entities' = DOMAIN entities
          /\ UNCHANGED <<nature, gone, actors>>
      BY <1>0, <2>1 DEF Describing, client
    <2>3. \A j \in Ids : j # id => (Want(j)' <=> Want(j)) /\ (Want(j) => world'[j].item = world[j].item)
      BY <1>o, <2>2
    <2>4. CASE /\ entities'[id].shown = entities[id].shown /\ (nature[id] = "frame" \/ world'[id].item = world[id].item)
               /\ \A i \in DOMAIN javaWrites' : javaWrites'[i].op \in {"frame", "boost"}
      <3>1. (Want(id)' <=> Want(id)) /\ (Want(id) => world'[id].item = world[id].item)
        BY <2>2, <2>4 DEF Want
      <3>2. \A j \in Ids : (Want(j)' <=> Want(j)) /\ (Want(j) => world'[j].item = world[j].item)
        BY <2>3, <3>1
      <3> QED BY <2>2, <2>4, <3>2, ActorsLess
    <2>5. CASE /\ nature[id] \in {"item", "painting"} /\ entities'[id].shown
               /\ \/ Writes(<<AddActor(id, entities[id].at, world'[id].item)>>)
                  \/ Writes(<<RemoveActor(id), AddActor(id, entities[id].at, world'[id].item)>>)
      <3> DEFINE w == AddActor(id, entities[id].at, world'[id].item)
                 b == RemoveActor(id)
      <3>1. Want(id)'
        BY <2>2, <2>5 DEF Want
      <3>2. w.op = "add" /\ w.id = id /\ w.item = world'[id].item /\ b.op = "remove" /\ b.id = id
        BY Ops
      <3>3. javaWrites' = <<w>> \/ javaWrites' = <<b, w>>
        BY <2>5, Written
      <3> HIDE DEF w, b
      <3> QED BY <2>2, <2>3, <3>1, <3>2, <3>3, ActorsMore
    <2>6. CASE /\ nature[id] = "item" /\ entities[id].shown /\ entities'[id].shown
               /\ world'[id].item \in Items
               /\ world'[id].item[1] = entities[id].item[1]
               /\ Writes(<<StackSize(id, world'[id].item[2])>>)
      <3>1. Want(id) /\ Want(id)'
        BY <2>2, <2>6 DEF Want
      <3>2. id \in DOMAIN actors /\ actors[id].item = world[id].item
        BY <1>s, <2>2, <3>1
      <3>3. entities[id].item = world[id].item
        BY <2>2, <2>6 DEF Tab, BridgeEntities
      <3>4. world'[id].item = <<world'[id].item[1], world'[id].item[2]>>
        BY <2>6, EntitiesAssumption
      <3>5. /\ DOMAIN javaWrites' = {1} /\ Len(javaWrites') = 1 /\ javaWrites'[1].op = "size" /\ javaWrites'[1].id = id
            /\ javaWrites'[1].count = world'[id].item[2]
        BY <2>6, Written, Listed, Ops
      <3>7. world'[id].item = <<actors'[id].item[1], javaWrites'[1].count>>
        BY <2>2, <2>6, <3>2, <3>3, <3>4, <3>5
      <3>8. \A j \in Ids : /\ j \in DOMAIN actors' <=> Want(j)'
                           /\ j \in DOMAIN actors' => actors'[j].item = world'[j].item \/ Op(1, "size", j)'
        BY <1>s, <2>2, <2>3, <3>1, <3>2, <3>5 DEF Op
      <3> HIDE DEF Want
      <3> QED BY <1>t, <2>2, <3>1, <3>2, <3>5, <3>7, <3>8 DEF ActorInv
    <2>7. \/ /\ entities'[id].shown = entities[id].shown /\ (nature[id] = "frame" \/ world'[id].item = world[id].item)
             /\ \/ Writes(<<>>) \/ Writes(<<Frame(entities[id].cell, world'[id].item)>>)
                \/ Writes(<<Boost(TRUE)>>) \/ Writes(<<Boost(FALSE)>>)
          \/ /\ nature[id] \in {"item", "painting"} /\ entities'[id].shown
             /\ \/ Writes(<<AddActor(id, entities[id].at, world'[id].item)>>)
                \/ Writes(<<RemoveActor(id), AddActor(id, entities[id].at, world'[id].item)>>)
          \/ /\ nature[id] = "item" /\ entities[id].shown /\ entities'[id].shown
             /\ world'[id].item \in Items
             /\ world'[id].item[1] = entities[id].item[1]
             /\ Writes(<<StackSize(id, world'[id].item[2])>>)
      BY <2>1 DEF Describing, RocketWrites
    <2>8. ASSUME \/ Writes(<<>>) \/ Writes(<<Frame(entities[id].cell, world'[id].item)>>)
                 \/ Writes(<<Boost(TRUE)>>) \/ Writes(<<Boost(FALSE)>>)
          PROVE  \A i \in DOMAIN javaWrites' : javaWrites'[i].op \in {"frame", "boost"}
      <3> DEFINE Kinds == {"frame", "boost"}
      <3>1. /\ \A c, item : Frame(c, item).op \in Kinds
            /\ Boost(TRUE).op \in Kinds /\ Boost(FALSE).op \in Kinds
        <4>1. \A c, item : Frame(c, item).op \in Kinds
          BY Ops
        <4>2. Boost(TRUE).op \in Kinds /\ Boost(FALSE).op \in Kinds
          BY Boosts
        <4> QED BY <4>1, <4>2
      <3> HIDE DEF Kinds
      <3>2. \A i \in DOMAIN javaWrites' : javaWrites'[i].op \in Kinds
        BY <2>8, <3>1, OneOrTwo
      <3> QED BY <3>2 DEF Kinds
    <2> QED BY <2>4, <2>5, <2>6, <2>7, <2>8
  <1>10. CASE \E id : Moving(id)
    <2>1. PICK id : Moving(id)
      BY <1>10
    <2>2. /\ OthersKept(id) /\ javaWrites = <<>> /\ DOMAIN entities' = DOMAIN entities
          /\ UNCHANGED <<nature, actors, gone>>
          /\ id \in DOMAIN entities => entities'[id].shown = entities[id].shown
          /\ world'[id].item = world[id].item
          /\ Writes(<<>>) \/ Writes(<<MoveActor(id, entities'[id].at)>>)
      BY <2>1 DEF Moving, client
    <2>3. \A j \in Ids : j # id => (Want(j)' <=> Want(j)) /\ (Want(j) => world'[j].item = world[j].item)
      BY <1>o, <2>2
    <2>4. (Want(id)' <=> Want(id)) /\ (Want(id) => world'[id].item = world[id].item)
      BY <2>2 DEF Want
    <2>5. \A i \in DOMAIN javaWrites' : javaWrites'[i].op = "move"
      BY <2>2, Written, Listed, Ops
    <2>6. \A j \in Ids : (Want(j)' <=> Want(j)) /\ (Want(j) => world'[j].item = world[j].item)
      BY <2>3, <2>4
    <2> QED BY <2>2, <2>5, <2>6, ActorsLess
  <1>11. CASE \E id : Taking(id)
    <2>1. PICK id : Taking(id)
      BY <1>11
    <2>2. /\ OthersKept(id) /\ javaWrites = <<>> /\ DOMAIN entities' = DOMAIN entities \ {id}
          /\ UNCHANGED <<nature, actors>> /\ gone' = gone \ {id}
      BY <2>1 DEF Taking, client
    <2>3. \A j \in Ids : j # id => (Want(j)' <=> Want(j)) /\ (Want(j) => world'[j].item = world[j].item)
      BY <1>o, <2>2
    <2>4. ~Want(id)'
      BY <2>2 DEF Want
    <2>5. CASE Writes(<<Boost(FALSE), RemoveActor(id)>>) \/ Writes(<<RemoveActor(id)>>)
      <3> DEFINE b == Boost(FALSE)
      <3>1. b.op = "boost" /\ (Writes(<<b, RemoveActor(id)>>) \/ Writes(<<RemoveActor(id)>>))
        BY <2>5, Boosts
      <3> HIDE DEF b
      <3>2. /\ \A i \in DOMAIN javaWrites' : \/ javaWrites'[i].op = "boost"
                                             \/ javaWrites'[i].op = "remove" /\ javaWrites'[i].id = id
            /\ \E i \in DOMAIN javaWrites' : javaWrites'[i].op = "remove" /\ javaWrites'[i].id = id
        BY <3>1, Written, Listed, Ops
      <3>3. \A i \in DOMAIN javaWrites' : javaWrites'[i].op = "remove" => ~Want(javaWrites[i].id)'
        BY <2>4, <3>2 DEF Want
      <3> QED BY <2>2, <2>3, <3>2, <3>3, ActorsLess
    <2>6. CASE ~Want(id) /\ (Writes(<<>>) \/ Writes(<<ClearFrame(entities[id].cell)>>))
      <3>1. \A i \in DOMAIN javaWrites' : javaWrites'[i].op = "noframe"
        BY <2>6, Written, Listed, Ops
      <3>2. \A j \in Ids : (Want(j)' <=> Want(j)) /\ (Want(j) => world'[j].item = world[j].item)
        BY <2>3, <2>4, <2>6
      <3> QED BY <2>2, <3>1, <3>2, ActorsLess
    <2>7. \/ Writes(<<Boost(FALSE), RemoveActor(id)>>) \/ Writes(<<RemoveActor(id)>>)
          \/ ~Want(id) /\ (Writes(<<>>) \/ Writes(<<ClearFrame(entities[id].cell)>>))
      BY <2>1, Takes DEF Want
    <2> QED BY <2>5, <2>6, <2>7
  <1>12. CASE \E u \in Uuids, b \in BOOLEAN : PlayerInfo(u, b)
    <2>1. PICK u \in Uuids, b \in BOOLEAN : PlayerInfo(u, b)
      BY <1>12
    <2>2. javaWrites = <<>> /\ (Writes(<<ListPlayer(u)>>) \/ Writes(<<>>)) /\ UNCHANGED <<entities, world, gone, nature, actors>>
      BY <2>1 DEF PlayerInfo, Handles, server, Writes, client
    <2>3. \A i \in DOMAIN javaWrites' : javaWrites'[i].op = "list"
      BY <2>2, Written, Listed, Ops
    <2>4. \A j \in Ids : (Want(j)' <=> Want(j)) /\ (Want(j) => world'[j].item = world[j].item)
      BY <2>2 DEF Want
    <2> QED BY <2>2, <2>3, <2>4, ActorsLess
  <1>13. CASE \E u \in Uuids : PlayerRemove(u)
    <2>1. PICK u \in Uuids : PlayerRemove(u)
      BY <1>13
    <2>2. /\ UNCHANGED <<nature, world, gone>>
          /\ \A j : j \in DOMAIN entities' <=> j \in DOMAIN entities /\ entities[j].uuid # u
          /\ \A j \in DOMAIN entities' : entities'[j] = entities[j]
      BY <2>1, GoneTables
    <2>3. javaWrites = <<>> /\ actors' = actors
      BY <2>1, GoneWritten DEF client
    <2>4. 1 \in DOMAIN javaWrites' /\ javaWrites'[1].op = "unlist"
      BY <2>1, GoneWritten, Ops
    <2>5. \A i \in DOMAIN javaWrites' : i # 1 =>
             /\ javaWrites'[i].op = "remove"
             /\ javaWrites'[i].id \in DOMAIN entities /\ entities[javaWrites'[i].id].uuid = u
      <3> TAKE i \in DOMAIN javaWrites'
      <3> HAVE i # 1
      <3>1. /\ javaWrites'[i].id \in DOMAIN entities /\ entities[javaWrites'[i].id].uuid = u
            /\ javaWrites'[i] = RemoveActor(javaWrites'[i].id)
        BY <2>1, GoneWritten
      <3> QED BY <3>1, Ops
    <2>6. \A i \in DOMAIN javaWrites' : javaWrites'[i].op = "remove" => ~Want(javaWrites[i].id)'
      BY <2>2, <2>4, <2>5 DEF Want
    <2>7. \A i \in DOMAIN javaWrites' : javaWrites'[i].op \notin {"add", "size", "dimension"}
      BY <2>4, <2>5
    <2>8. \A j \in Ids :
              \/ (Want(j)' <=> Want(j)) /\ (Want(j) => world'[j].item = world[j].item)
              \/ \E i \in DOMAIN javaWrites' : javaWrites'[i].op = "remove" /\ javaWrites'[i].id = j
      <3> TAKE j \in Ids
      <3>1. CASE j \in DOMAIN entities /\ entities[j].uuid = u
        <4>1. PICK i \in DOMAIN javaWrites' : i # 1 /\ javaWrites'[i].id = j
          BY <2>1, <3>1, GoneWritten
        <4> QED BY <2>5, <4>1
      <3>2. CASE ~(j \in DOMAIN entities /\ entities[j].uuid = u)
        BY <2>2, <3>2 DEF Want
      <3> QED BY <3>1, <3>2
    <2> QED BY <2>3, <2>6, <2>7, <2>8, ActorsLess
  <1>14. CASE Seating
    <2>1. UNCHANGED <<nature, gone, actors, entities, world, javaWrites>>
      BY <1>14 DEF Seating
    <2> QED BY <1>t, <2>1, ActorsSame
  <1>15. CASE \E v \in Ids : SetPassengers(v)
    <2>1. PICK v \in Ids : SetPassengers(v)
      BY <1>15
    <2>2. /\ UNCHANGED <<entities, world, gone, nature, actors>> /\ javaWrites = <<>>
      BY <2>1, LinksWritten DEF SetPassengers, client, Writes
    <2>3. \A i \in DOMAIN javaWrites' : javaWrites'[i].op \in {"skip", "link", "unlink"}
      <3> TAKE i \in DOMAIN javaWrites'
      <3>1. \/ javaWrites'[i] = NoWrite
            \/ \E r : javaWrites'[i] = Unlink(v, r)
            \/ \E r, f : javaWrites'[i] = Link(v, r, f)
        BY <2>1, LinksWritten
      <3> QED BY <3>1, Ops
    <2>4. \A j \in Ids : (Want(j)' <=> Want(j)) /\ (Want(j) => world'[j].item = world[j].item)
      BY <2>2 DEF Want
    <2> QED BY <2>2, <2>3, <2>4, ActorsLess
  <1>16. CASE LeaveDimension
    <2>1. javaWrites = <<>> /\ javaWrites' = <<ChangeDimension>> /\ actors' = actors
      BY <1>16, Written DEF LeaveDimension, Handles
    <2>2. UNCHANGED <<entities, world>> /\ gone' = DOMAIN world
      BY <1>16, LeaveTables
    <2>3. DOMAIN javaWrites' = {1} /\ javaWrites'[1].op = "dimension" /\ Len(javaWrites') = 1
      BY <2>1, Listed, Ops
    <2>4. \A j : Touches(j)'
      BY <2>3 DEF Touches
    <2> HIDE DEF Touches
    <2> QED BY <1>t, <2>1, <2>2, <2>3, <2>4 DEF ActorInv
  <1> QED BY <1>4, <1>5, <1>6, <1>7, <1>8, <1>9, <1>10, <1>11, <1>12, <1>13, <1>14, <1>15, <1>16 DEF Step

(***************************************************************************)
(* Frames                                                                  *)
(***************************************************************************)

\* A hung frame has a cell, and no two have the same.
LEMMA Hanging ==
    ASSUME Tab
    PROVE  /\ \A id : Hung(id) => id \in Ids /\ id \in DOMAIN world /\ world[id].cell \in Cells /\ id \in DOMAIN entities
                                  /\ entities[id].cell = world[id].cell /\ entities[id].item = world[id].item
           /\ \A i, j : Hung(i) /\ Hung(j) /\ world[i].cell = world[j].cell => i = j
  BY DEF Tab, ServerEntities, BridgeEntities, Hung

\* With nothing left to write the client has the frames that hang.
LEMMA FramesSettled ==
    ASSUME FrameInv, javaWrites = <<>>
    PROVE  /\ \A c \in DOMAIN frames : c \in Cells /\ \E id \in Ids : Hung(id) /\ world[id].cell = c
           /\ \A id \in Ids : Hung(id) => world[id].cell \in DOMAIN frames /\ frames[world[id].cell] = world[id].item
  <1>1. \A c : ~Framing(c)
    BY Listed DEF Framing
  <1> QED BY <1>1 DEF FrameInv

\* What hangs is as it was, and so are the frames on their way.
LEMMA FramesSame ==
    ASSUME FrameInv, frames' = frames,
           \A id \in Ids : (Hung(id)' <=> Hung(id))
                           /\ (Hung(id) => world'[id].cell = world[id].cell /\ world'[id].item = world[id].item),
           \/ javaWrites' = javaWrites
           \/ /\ javaWrites = <<>>
              /\ \A i \in DOMAIN javaWrites' : javaWrites'[i].op \notin {"frame", "noframe", "dimension"}
    PROVE  FrameInv'
  <1>1. CASE javaWrites' = javaWrites
    <2>1. \A c : Framing(c)' <=> Framing(c)
      BY <1>1 DEF Framing
    <2> HIDE DEF Hung, Framing
    <2>2. /\ \A i \in DOMAIN javaWrites :
            /\ javaWrites[i].op = "frame" =>
                 \E id \in Ids : Hung(id)' /\ world'[id].cell = javaWrites[i].cell
                                   /\ world'[id].item = javaWrites[i].item
            /\ javaWrites[i].op = "noframe" => \A id \in Ids : Hung(id)' => world'[id].cell # javaWrites[i].cell
      BY DEF FrameInv
    <2>3. \A c \in Cells : ~Framing(c) =>
             (c \in DOMAIN frames => \E id \in Ids : Hung(id)' /\ world'[id].cell = c)
      BY DEF FrameInv
    <2>4. \A id \in Ids : Hung(id)' /\ ~Framing(world'[id].cell) =>
            world'[id].cell \in DOMAIN frames /\ frames[world'[id].cell] = world'[id].item
      BY DEF FrameInv
    <2>5. \A id \in Ids : Hung(id)' /\ ~Framing(world[id].cell)' =>
            world'[id].cell \in DOMAIN frames /\ frames[world'[id].cell] = world'[id].item
      BY <1>1, <2>4 DEF Framing
    <2>6. /\ frames = [c \in DOMAIN frames |-> frames[c]] /\ DOMAIN frames \subseteq Cells
          /\ \A i, j \in DOMAIN javaWrites :
               javaWrites[i].op \in {"frame", "noframe"} /\ javaWrites[j].op \in {"frame", "noframe"} => i = j
      BY DEF FrameInv
    <2> QED BY <1>1, <2>1, <2>2, <2>3, <2>5, <2>6 DEF FrameInv
  <1>2. CASE /\ javaWrites = <<>>
             /\ \A i \in DOMAIN javaWrites' : javaWrites'[i].op \notin {"frame", "noframe", "dimension"}
    <2>1. frames = [c \in DOMAIN frames |-> frames[c]] /\ DOMAIN frames \subseteq Cells
      BY DEF FrameInv
    <2>2. /\ \A c \in DOMAIN frames : c \in Cells /\ \E id \in Ids : Hung(id)' /\ world'[id].cell = c
          /\ \A id \in Ids : Hung(id)' => world'[id].cell \in DOMAIN frames /\ frames[world'[id].cell] = world'[id].item
      BY <1>2, FramesSettled
    <2> HIDE DEF Hung, Framing
    <2> QED BY <1>2, <2>1, <2>2 DEF FrameInv
  <1> QED BY <1>1, <1>2

\* One frame changes: it hangs and its block is on its way, or it is taken down.
LEMMA FramesChange ==
    ASSUME FrameInv, javaWrites = <<>>, frames' = frames, NEW id \in Ids, NEW w, NEW c, javaWrites' = <<w>>,
           w.op \in {"frame", "noframe"}, w.cell = c,
           \A j \in Ids : j # id => (Hung(j)' <=> Hung(j))
                           /\ (Hung(j) => world'[j].cell = world[j].cell /\ world'[j].item = world[j].item
                                          /\ world[j].cell # c),
           Hung(id) => world[id].cell = c,
           w.op = "frame" => Hung(id)' /\ world'[id].cell = c /\ world'[id].item = w.item,
           w.op = "noframe" => ~Hung(id)'
    PROVE  FrameInv'
  <1>1. frames = [k \in DOMAIN frames |-> frames[k]] /\ DOMAIN frames \subseteq Cells
    BY DEF FrameInv
  <1>2. /\ \A k \in DOMAIN frames : k \in Cells /\ \E j \in Ids : Hung(j) /\ world[j].cell = k
        /\ \A j \in Ids : Hung(j) => world[j].cell \in DOMAIN frames /\ frames[world[j].cell] = world[j].item
    BY FramesSettled
  <1>3. DOMAIN javaWrites' = {1} /\ javaWrites'[1] = w
    BY Listed
  <1>4. \A k : Framing(k)' <=> k = c
    BY <1>3 DEF Framing
  <1>5. \A j \in Ids : Hung(j)' /\ ~Framing(world[j].cell)' => j # id \/ world'[j].cell # c
    BY <1>3 DEF Framing
  <1> HIDE DEF Hung
  <1>6. \A k \in Cells : k # c => (k \in DOMAIN frames => \E j \in Ids : Hung(j)' /\ world'[j].cell = k)
    BY <1>2
  <1>7. \A j \in Ids : Hung(j)' /\ ~Framing(world[j].cell)' =>
            world'[j].cell \in DOMAIN frames /\ frames[world'[j].cell] = world'[j].item
    <2> TAKE j \in Ids
    <2> HAVE Hung(j)' /\ ~Framing(world[j].cell)'
    <2>1. world'[j].cell # c
      BY <1>3 DEF Framing
    <2>2. j # id
      BY <2>1
    <2> QED BY <1>2, <2>2
  <1>8. \A i \in DOMAIN javaWrites' :
            /\ javaWrites'[i].op = "frame" =>
                 \E j \in Ids : Hung(j)' /\ world'[j].cell = javaWrites'[i].cell
                                   /\ world'[j].item = javaWrites'[i].item
            /\ javaWrites'[i].op = "noframe" => \A j \in Ids : Hung(j)' => world'[j].cell # javaWrites'[i].cell
    BY <1>3
  <1> HIDE DEF Framing
  <1> QED BY <1>1, <1>3, <1>4, <1>6, <1>7, <1>8 DEF FrameInv

\* The next packet does to the frames what the ones behind it expect.
LEMMA FrameWritten ==
    ASSUME Tab, WritesTyped, ActorInv, FrameInv, WriteJava
    PROVE  FrameInv'
  <1> DEFINE w == javaWrites[1]
  <1>1. /\ UNCHANGED <<entities, world, gone, nature>>
        /\ 1 \in DOMAIN javaWrites /\ Receive(w) /\ w \in Packet
        /\ \A i \in DOMAIN javaWrites' :
              i \in Nat /\ i > 0 /\ i + 1 \in DOMAIN javaWrites /\ javaWrites'[i] = javaWrites[i + 1]
        /\ \A i \in DOMAIN javaWrites :
              i \in Nat /\ (i = 1 \/ (i - 1 \in DOMAIN javaWrites' /\ javaWrites'[i - 1] = javaWrites[i]))
    BY Pops DEF tables, server
  <1>2. \A id : (Hung(id)' <=> Hung(id))
    BY <1>1 DEF Hung
  <1>3. frames = [k \in DOMAIN frames |-> frames[k]] /\ DOMAIN frames \subseteq Cells
    BY DEF FrameInv
  <1>4. \A i \in DOMAIN javaWrites' :
            /\ javaWrites'[i].op = "frame" =>
                 \E j \in Ids : Hung(j) /\ world[j].cell = javaWrites'[i].cell
                                   /\ world[j].item = javaWrites'[i].item
            /\ javaWrites'[i].op = "noframe" => \A j \in Ids : Hung(j) => world[j].cell # javaWrites'[i].cell
    BY <1>1 DEF FrameInv
  <1>5. \A i, j \in DOMAIN javaWrites' :
           javaWrites'[i].op \in {"frame", "noframe"} /\ javaWrites'[j].op \in {"frame", "noframe"} => i = j
    <2> TAKE i, j \in DOMAIN javaWrites'
    <2> HAVE javaWrites'[i].op \in {"frame", "noframe"} /\ javaWrites'[j].op \in {"frame", "noframe"}
    <2>1. i + 1 \in DOMAIN javaWrites /\ j + 1 \in DOMAIN javaWrites /\ i + 1 = j + 1
      BY <1>1 DEF FrameInv
    <2> QED BY <1>1, <2>1
  <1>6. \A c : ~Framing(c)' /\ ~(w.op \in {"frame", "noframe"} /\ w.cell = c) /\ w.op # "dimension" => ~Framing(c)
    <2> SUFFICES ASSUME NEW c, ~(w.op \in {"frame", "noframe"} /\ w.cell = c), w.op # "dimension", Framing(c)
                 PROVE  Framing(c)'
      OBVIOUS
    <2>1. PICK i \in DOMAIN javaWrites :
              \/ javaWrites[i].op = "dimension"
              \/ (javaWrites[i].op \in {"frame", "noframe"} /\ javaWrites[i].cell = c)
      BY DEF Framing
    <2>2. i # 1
      BY <2>1
    <2>3. i - 1 \in DOMAIN javaWrites' /\ javaWrites'[i - 1] = javaWrites[i]
      BY <1>1, <2>2
    <2> QED BY <2>1, <2>3 DEF Framing
  <1>7. /\ \A c \in DOMAIN frames : ~Framing(c) => \E id \in Ids : Hung(id) /\ world[id].cell = c
        /\ \A id \in Ids : Hung(id) /\ ~Framing(world[id].cell) =>
            world[id].cell \in DOMAIN frames /\ frames[world[id].cell] = world[id].item
    BY <1>3 DEF FrameInv
  <1> DEFINE Shown == /\ frames' = [k \in DOMAIN frames' |-> frames'[k]] /\ DOMAIN frames' \subseteq Cells
                      /\ \A c \in DOMAIN frames' : ~Framing(c)' => \E id \in Ids : Hung(id) /\ world[id].cell = c
                      /\ \A id \in Ids : \A c : c = world[id].cell /\ Hung(id) /\ ~Framing(c)' =>
                            c \in DOMAIN frames' /\ frames'[c] = world[id].item
  <1>8. ASSUME Shown PROVE FrameInv'
    <2>1. \A id \in Ids : Hung(id)' /\ ~Framing(world[id].cell)' =>
            world'[id].cell \in DOMAIN frames' /\ frames'[world'[id].cell] = world'[id].item
      <3> TAKE id \in Ids
      <3> HAVE Hung(id)' /\ ~Framing(world[id].cell)'
      <3>1. \A c : c = world[id].cell => ~Framing(c)'
        BY <1>1 DEF Framing
      <3> HIDE DEF Framing
      <3> QED BY <1>1, <1>2, <1>8, <3>1
    <2> HIDE DEF Hung, Framing
    <2> QED BY <1>1, <1>2, <1>4, <1>5, <1>8, <2>1 DEF FrameInv
  <1>9. \A id : Hung(id) => world[id].cell \in Cells /\ id \in Ids
    BY Hanging
  <1>10. CASE w.op = "frame"
    <2>0. w.op \in {"frame", "noframe"} /\ Receive(w) /\ w \in Packet
      BY <1>1, <1>10
    <2>6. w.cell \in Cells
      BY <2>0, Packets
    <2>7. frames' = Put(frames, w.cell, w.item)
      <3> HIDE DEF w
      <3> QED BY <1>10, <2>0 DEF Receive
    <2>1. frames' = Put(frames, w.cell, w.item) /\ w.cell \in Cells
      BY <2>6, <2>7
    <2>2. PICK id \in Ids : Hung(id) /\ world[id].cell = w.cell /\ world[id].item = w.item
      BY <1>1, <1>10 DEF FrameInv
    <2>3. \A j : Hung(j) /\ world[j].cell = w.cell => j = id
      BY <2>2, Hanging
    <2>4. \A c : ~Framing(c)' /\ c # w.cell => ~Framing(c)
      BY <1>6, <1>10
    <2> HIDE DEF w, Hung, Framing
    <2>5. /\ DOMAIN frames' = DOMAIN frames \cup {w.cell} /\ frames'[w.cell] = w.item
          /\ \A c \in DOMAIN frames : c # w.cell => frames'[c] = frames[c]
          /\ frames' = [k \in DOMAIN frames' |-> frames'[k]]
      BY <2>1 DEF Put
    <2> QED BY <1>3, <1>7, <1>8, <2>1, <2>2, <2>3, <2>4, <2>5
  <1>11. CASE w.op = "noframe"
    <2>1. frames' = Drop(frames, {w.cell}) /\ w.cell \in Cells
      BY <1>1, <1>11, ReceiveFrame, Packets
    <2>2. \A id \in Ids : Hung(id) => world[id].cell # w.cell
      BY <1>1, <1>11 DEF FrameInv
    <2>3. \A c : ~Framing(c)' /\ c # w.cell => ~Framing(c)
      BY <1>6, <1>11
    <2> HIDE DEF w, Hung, Framing
    <2>4. /\ DOMAIN frames' = DOMAIN frames \ {w.cell}
          /\ \A c \in DOMAIN frames' : frames'[c] = frames[c]
          /\ frames' = [k \in DOMAIN frames' |-> frames'[k]]
      BY <2>1 DEF Drop
    <2> QED BY <1>3, <1>7, <1>8, <2>1, <2>2, <2>3, <2>4
  <1>12. CASE w.op = "dimension"
    <2>1. gone = DOMAIN world
      BY <1>1, <1>12 DEF ActorInv
    <2>2. frames' = <<>>
      BY <1>1, <1>12, ReceiveDimension
    <2>3. \A id : ~Hung(id)
      BY <2>1 DEF Hung
    <2>4. DOMAIN frames' = {} /\ frames' = [k \in DOMAIN frames' |-> frames'[k]]
      BY <2>2
    <2> QED BY <1>8, <2>3, <2>4
  <1>13. CASE w.op \notin {"frame", "noframe", "dimension"}
    <2>1. frames' = frames
      BY <1>1, <1>13 DEF Receive
    <2>2. \A c : ~Framing(c)' => ~Framing(c)
      BY <1>6, <1>13
    <2> HIDE DEF Hung, Framing
    <2> QED BY <1>3, <1>7, <1>8, <2>1, <2>2
  <1> QED BY <1>10, <1>11, <1>12, <1>13

\* Every step keeps the frames right.
LEMMA FrameKept ==
    ASSUME Tab, WritesTyped, ActorInv, FrameInv, Step
    PROVE  FrameInv'
  \* another entity hangs as it did
  <1>o. \A id : OthersKept(id) /\ nature' = nature /\ gone' \ {id} = gone \ {id} =>
          \A j \in Ids : j # id => (Hung(j)' <=> Hung(j))
                                   /\ (Hung(j) => world'[j].item = world[j].item /\ world'[j].cell = world[j].cell)
    BY DEF OthersKept, Hung
  <1>4. CASE UNCHANGED entityVars
    <2>1. UNCHANGED <<nature, gone, frames, world, javaWrites>>
      BY <1>4 DEF entityVars, tables, client, server
    <2>2. \A id \in Ids : (Hung(id)' <=> Hung(id))
                           /\ (Hung(id) => world'[id].cell = world[id].cell /\ world'[id].item = world[id].item)
      BY <2>1 DEF Hung
    <2> QED BY <2>1, <2>2, FramesSame
  <1>5. CASE WriteJava
    BY <1>5, FrameWritten
  <1>6. CASE WriteTick
    <2> DEFINE w == tickWrites[1]
    <2>1. UNCHANGED <<nature, javaWrites, world, gone>> /\ w.op = "move" /\ Receive(w)
      BY <1>6, Pops DEF tables, server
    <2>2. frames' = frames
      BY <2>1, ReceiveMove
    <2>3. \A id \in Ids : (Hung(id)' <=> Hung(id))
                           /\ (Hung(id) => world'[id].cell = world[id].cell /\ world'[id].item = world[id].item)
      BY <2>1 DEF Hung
    <2> QED BY <2>1, <2>2, <2>3, FramesSame
  <1>7. CASE TickProjectiles
    <2>1. /\ UNCHANGED <<nature, gone, javaWrites, frames>> /\ DOMAIN world' = DOMAIN world
          /\ \A j \in DOMAIN world : world'[j].item = world[j].item /\ world'[j].cell = world[j].cell
      BY <1>7, TickSteps
    <2>2. \A id \in Ids : (Hung(id)' <=> Hung(id))
                           /\ (Hung(id) => world'[id].cell = world[id].cell /\ world'[id].item = world[id].item)
      BY <2>1 DEF Hung
    <2> QED BY <2>1, <2>2, FramesSame
  <1>8. CASE \E id, e : Spawning(id, e)
    <2>1. PICK id, e : Spawning(id, e)
      BY <1>8
    <2>2. /\ id \in Ids /\ id \notin DOMAIN world /\ OthersKept(id) /\ javaWrites = <<>> /\ gone = {} /\ gone' = gone
          /\ UNCHANGED <<nature, frames>> /\ e.item = NoItem /\ world'[id] = e /\ id \in DOMAIN world'
      BY <2>1 DEF Spawning, client
    <2>3. \A j \in Ids : j # id => (Hung(j)' <=> Hung(j))
                             /\ (Hung(j) => world'[j].item = world[j].item /\ world'[j].cell = world[j].cell)
      BY <1>o, <2>2
    <2>4. CASE nature[id] # "frame"
      <3> DEFINE w == AddActor(id, e.at, NoItem)
                 b == ListPlayer(e.uuid)
                 Kinds == {"add", "list"}
      <3>1. w.op \in Kinds /\ b.op \in Kinds
        BY Ops
      <3>2. Writes(<<>>) \/ Writes(<<w>>) \/ Writes(<<b, w>>)
        BY <2>1, <2>4 DEF Spawning
      <3> HIDE DEF w, b, Kinds
      <3>3. \A i \in DOMAIN javaWrites' : javaWrites'[i].op \in Kinds
        BY <3>1, <3>2, OneOrTwo
      <3>4. \A i \in DOMAIN javaWrites' : javaWrites'[i].op \notin {"frame", "noframe", "dimension"}
        BY <3>3 DEF Kinds
      <3>5. \A j \in Ids : (Hung(j)' <=> Hung(j))
                             /\ (Hung(j) => world'[j].cell = world[j].cell /\ world'[j].item = world[j].item)
        BY <2>2, <2>3, <2>4 DEF Hung
      <3> QED BY <2>2, <3>4, <3>5, FramesSame
    <2>5. CASE nature[id] = "frame"
      <3> DEFINE w == Frame(e.cell, NoItem)
      <3>1. w.op = "frame" /\ w.cell = e.cell /\ w.item = NoItem
        BY Ops
      <3>2. Writes(<<w>>) /\ \A j \in DOMAIN world : nature[j] = "frame" => world[j].cell # e.cell
        BY <2>1, <2>5 DEF Spawning
      <3>3. javaWrites' = <<w>>
        BY <3>2, Written
      <3>4. ~Hung(id) /\ Hung(id)'
        BY <2>2, <2>5 DEF Hung
      <3>5. \A j \in Ids : j # id => (Hung(j)' <=> Hung(j))
                           /\ (Hung(j) => world'[j].cell = world[j].cell /\ world'[j].item = world[j].item
                                          /\ world[j].cell # e.cell)
        BY <2>3, <3>2 DEF Hung
      <3> HIDE DEF w, Hung
      <3> QED BY <2>2, <3>1, <3>3, <3>4, <3>5, FramesChange
    <2> QED BY <2>4, <2>5
  <1>9. CASE \E id : Describing(id)
    <2>1. PICK id : Describing(id)
      BY <1>9
    <2>2. /\ id \in DOMAIN entities /\ id \in DOMAIN world /\ id \notin gone
          /\ OthersKept(id) /\ javaWrites = <<>>
          /\ UNCHANGED <<nature, gone, frames>> /\ DOMAIN world' = DOMAIN world
          /\ world'[id].cell = world[id].cell
      BY <2>1 DEF Describing, client
    <2>0. id \in Ids /\ entities[id].cell = world[id].cell
      BY <2>2 DEF Tab, ServerEntities, BridgeEntities
    <2>3. \A j \in Ids : j # id => (Hung(j)' <=> Hung(j))
                             /\ (Hung(j) => world'[j].item = world[j].item /\ world'[j].cell = world[j].cell)
      BY <1>o, <2>2
    <2>4. CASE nature[id] # "frame"
      <3>1. \A j \in Ids : (Hung(j)' <=> Hung(j))
                             /\ (Hung(j) => world'[j].cell = world[j].cell /\ world'[j].item = world[j].item)
        BY <2>2, <2>3, <2>4 DEF Hung
      <3> DEFINE wa == AddActor(id, entities[id].at, world'[id].item)
                 wr == RemoveActor(id)
                 ws == StackSize(id, world'[id].item[2])
                 bt == Boost(TRUE)
                 bf == Boost(FALSE)
                 Kinds == {"add", "remove", "size", "boost"}
      <3>2. wa.op \in Kinds /\ wr.op \in Kinds /\ ws.op \in Kinds
        BY Ops
      <3>3. bt.op \in Kinds /\ bf.op \in Kinds
        BY Boosts
      <3>4. \/ Writes(<<>>) \/ Writes(<<wa>>) \/ Writes(<<wr, wa>>) \/ Writes(<<ws>>)
            \/ Writes(<<bt>>) \/ Writes(<<bf>>)
        BY <2>1, <2>4 DEF Describing, RocketWrites
      <3> HIDE DEF wa, wr, ws, bt, bf, Kinds
      <3>5. \A i \in DOMAIN javaWrites' : javaWrites'[i].op \in Kinds
        BY <3>2, <3>3, <3>4, OneOrTwo
      <3>6. \A i \in DOMAIN javaWrites' : javaWrites'[i].op \notin {"frame", "noframe", "dimension"}
        BY <3>5 DEF Kinds
      <3> QED BY <2>2, <3>1, <3>6, FramesSame
    <2>5. CASE nature[id] = "frame" /\ Writes(<<>>) /\ world'[id].item = entities[id].item
      <3>1. javaWrites' = <<>> /\ DOMAIN javaWrites' = {}
        BY <2>5, Written, Listed
      <3>2. \A j \in Ids : (Hung(j)' <=> Hung(j))
                             /\ (Hung(j) => world'[j].cell = world[j].cell /\ world'[j].item = world[j].item)
        BY <2>2, <2>3, <2>5, Hanging DEF Hung
      <3> QED BY <2>2, <3>1, <3>2, FramesSame
    <2>6. CASE nature[id] = "frame" /\ Writes(<<Frame(entities[id].cell, world'[id].item)>>)
      <3> DEFINE w == Frame(entities[id].cell, world'[id].item)
      <3>1. w.op = "frame" /\ w.cell = world[id].cell /\ w.item = world'[id].item
        BY <2>0, Ops
      <3>3. javaWrites' = <<w>>
        BY <2>6, Written
      <3>4. Hung(id) /\ Hung(id)'
        BY <2>2, <2>6 DEF Hung
      <3>5. \A j \in Ids : j # id => (Hung(j)' <=> Hung(j))
                           /\ (Hung(j) => world'[j].cell = world[j].cell /\ world'[j].item = world[j].item
                                          /\ world[j].cell # world[id].cell)
        BY <2>3, <3>4, Hanging
      <3> HIDE DEF w, Hung
      <3> QED BY <2>0, <2>2, <3>1, <3>3, <3>4, <3>5, FramesChange
    <2>7. nature[id] = "frame" =>
             \/ Writes(<<>>) /\ world'[id].item = entities[id].item
             \/ Writes(<<Frame(entities[id].cell, world'[id].item)>>)
      <3> SUFFICES ASSUME nature[id] = "frame"
                   PROVE  \/ (Writes(<<>>) /\ world'[id].item = entities[id].item)
                          \/ Writes(<<Frame(entities[id].cell, world'[id].item)>>)
        OBVIOUS
      <3>1. entities[id].item = world[id].item
        BY <2>2 DEF Tab, BridgeEntities
      <3> QED BY <2>1, <3>1 DEF Describing
    <2> QED BY <2>4, <2>5, <2>6, <2>7
  <1>10. CASE \E id : Moving(id)
    <2>1. PICK id : Moving(id)
      BY <1>10
    <2>2. /\ OthersKept(id) /\ javaWrites = <<>>
          /\ UNCHANGED <<nature, frames, gone>> /\ nature[id] # "frame" /\ DOMAIN world' = DOMAIN world
          /\ Writes(<<>>) \/ Writes(<<MoveActor(id, entities'[id].at)>>)
      BY <2>1 DEF Moving, client
    <2>3. \A j \in Ids : j # id => (Hung(j)' <=> Hung(j))
                             /\ (Hung(j) => world'[j].item = world[j].item /\ world'[j].cell = world[j].cell)
      BY <1>o, <2>2
    <2>4. \A i \in DOMAIN javaWrites' : javaWrites'[i].op = "move"
      BY <2>2, Written, Listed, Ops
    <2>5. \A j \in Ids : (Hung(j)' <=> Hung(j))
                             /\ (Hung(j) => world'[j].cell = world[j].cell /\ world'[j].item = world[j].item)
      BY <2>2, <2>3 DEF Hung
    <2> QED BY <2>2, <2>4, <2>5, FramesSame
  <1>11. CASE \E id : Taking(id)
    <2>1. PICK id : Taking(id)
      BY <1>11
    <2>2. /\ OthersKept(id) /\ javaWrites = <<>> /\ id \in DOMAIN world
          /\ UNCHANGED <<nature, frames>> /\ gone' = gone \ {id} /\ DOMAIN world' = DOMAIN world \ {id}
      BY <2>1 DEF Taking, client
    <2>0. id \in Ids /\ DOMAIN entities \subseteq DOMAIN world
          /\ (id \in DOMAIN entities => entities[id].cell = world[id].cell)
          /\ (nature[id] = "frame" /\ id \notin gone => id \in DOMAIN entities)
          /\ (gone # {} => gone = DOMAIN world)
      BY <2>2 DEF Tab, ServerEntities, BridgeEntities
    <2>3. \A j \in Ids : j # id => (Hung(j)' <=> Hung(j))
                             /\ (Hung(j) => world'[j].item = world[j].item /\ world'[j].cell = world[j].cell)
      BY <1>o, <2>2
    <2>6. ~Hung(id)'
      BY <2>2 DEF Hung
    <2>4. CASE nature[id] = "frame" /\ Writes(<<ClearFrame(entities[id].cell)>>) /\ id \in DOMAIN entities
      <3> DEFINE w == ClearFrame(entities[id].cell)
      <3>1. w.op = "noframe" /\ w.cell = world[id].cell
        BY <2>0, <2>4, Ops
      <3>2. javaWrites' = <<w>>
        BY <2>4, Written
      <3>3. \A j \in Ids : j # id => (Hung(j)' <=> Hung(j))
                           /\ (Hung(j) => world'[j].cell = world[j].cell /\ world'[j].item = world[j].item
                                          /\ world[j].cell # world[id].cell)
        <4>1. \A j : Hung(j) => Hung(id)
          BY <2>0, <2>2, <2>4 DEF Hung
        <4> QED BY <2>3, <4>1, Hanging
      <3> HIDE DEF w, Hung
      <3> QED BY <2>0, <2>2, <2>6, <3>1, <3>2, <3>3, FramesChange
    <2>5. CASE ~(nature[id] = "frame" /\ id \in DOMAIN entities)
      <3>1. ~Hung(id)
        BY <2>0, <2>5 DEF Hung
      <3>2. \A j \in Ids : (Hung(j)' <=> Hung(j))
                             /\ (Hung(j) => world'[j].cell = world[j].cell /\ world'[j].item = world[j].item)
        BY <2>3, <2>6, <3>1
      <3> DEFINE wr == RemoveActor(id)
                 bf == Boost(FALSE)
                 Kinds == {"remove", "boost"}
      <3>3. wr.op \in Kinds /\ bf.op \in Kinds
        BY Ops, Boosts
      <3>4. Writes(<<>>) \/ Writes(<<wr>>) \/ Writes(<<bf, wr>>)
        BY <2>1, <2>5, Takes
      <3> HIDE DEF wr, bf, Kinds
      <3>5. \A i \in DOMAIN javaWrites' : javaWrites'[i].op \in Kinds
        BY <3>3, <3>4, OneOrTwo
      <3>6. \A i \in DOMAIN javaWrites' : javaWrites'[i].op \notin {"frame", "noframe", "dimension"}
        BY <3>5 DEF Kinds
      <3> QED BY <2>2, <3>2, <3>6, FramesSame
    <2>7. nature[id] = "frame" /\ id \in DOMAIN entities => Writes(<<ClearFrame(entities[id].cell)>>)
      <3> SUFFICES ASSUME nature[id] = "frame", id \in DOMAIN entities
                   PROVE  Writes(<<ClearFrame(entities[id].cell)>>)
        OBVIOUS
      <3>1. ~entities[id].mine
        BY DEF Tab, BridgeEntities
      <3> QED BY <2>1, <3>1, Takes
    <2> QED BY <2>4, <2>5, <2>7
  <1>12. CASE \E u \in Uuids, b \in BOOLEAN : PlayerInfo(u, b)
    <2>1. PICK u \in Uuids, b \in BOOLEAN : PlayerInfo(u, b)
      BY <1>12
    <2>2. javaWrites = <<>> /\ (Writes(<<ListPlayer(u)>>) \/ Writes(<<>>)) /\ UNCHANGED <<world, gone, nature, frames>>
      BY <2>1 DEF PlayerInfo, Handles, server, Writes, client
    <2>3. \A i \in DOMAIN javaWrites' : javaWrites'[i].op = "list"
      BY <2>2, Written, Listed, Ops
    <2>4. \A j \in Ids : (Hung(j)' <=> Hung(j))
                             /\ (Hung(j) => world'[j].cell = world[j].cell /\ world'[j].item = world[j].item)
      BY <2>2 DEF Hung
    <2> QED BY <2>2, <2>3, <2>4, FramesSame
  <1>13. CASE \E u \in Uuids : PlayerRemove(u)
    <2>1. PICK u \in Uuids : PlayerRemove(u)
      BY <1>13
    <2>2. UNCHANGED <<nature, world, gone>>
      BY <2>1, GoneTables
    <2>3. javaWrites = <<>> /\ frames' = frames
      BY <2>1, GoneWritten DEF client
    <2>5. \A i \in DOMAIN javaWrites' : javaWrites'[i].op \in {"unlist", "remove"}
      <3> TAKE i \in DOMAIN javaWrites'
      <3>1. \/ javaWrites'[i] = UnlistPlayer(u)
            \/ javaWrites'[i] = RemoveActor(javaWrites'[i].id)
        BY <2>1, GoneWritten
      <3> QED BY <3>1, Ops
    <2>4. \A j \in Ids : (Hung(j)' <=> Hung(j))
                             /\ (Hung(j) => world'[j].cell = world[j].cell /\ world'[j].item = world[j].item)
      BY <2>2 DEF Hung
    <2> QED BY <2>3, <2>4, <2>5, FramesSame
  <1>14. CASE Seating
    <2>1. UNCHANGED <<nature, gone, frames, world, javaWrites>>
      BY <1>14 DEF Seating
    <2>2. \A id \in Ids : (Hung(id)' <=> Hung(id))
                           /\ (Hung(id) => world'[id].cell = world[id].cell /\ world'[id].item = world[id].item)
      BY <2>1 DEF Hung
    <2> QED BY <2>1, <2>2, FramesSame
  <1>15. CASE \E v \in Ids : SetPassengers(v)
    <2>1. PICK v \in Ids : SetPassengers(v)
      BY <1>15
    <2>2. UNCHANGED <<world, gone, nature, frames>> /\ javaWrites = <<>>
      BY <2>1, LinksWritten DEF SetPassengers, client, Writes
    <2>3. \A i \in DOMAIN javaWrites' : javaWrites'[i].op \in {"skip", "link", "unlink"}
      <3> TAKE i \in DOMAIN javaWrites'
      <3>1. \/ javaWrites'[i] = NoWrite
            \/ \E r : javaWrites'[i] = Unlink(v, r)
            \/ \E r, f : javaWrites'[i] = Link(v, r, f)
        BY <2>1, LinksWritten
      <3> QED BY <3>1, Ops
    <2>4. \A j \in Ids : (Hung(j)' <=> Hung(j))
                             /\ (Hung(j) => world'[j].cell = world[j].cell /\ world'[j].item = world[j].item)
      BY <2>2 DEF Hung
    <2> QED BY <2>2, <2>3, <2>4, FramesSame
  <1>16. CASE LeaveDimension
    <2>1. javaWrites = <<>> /\ javaWrites' = <<ChangeDimension>> /\ frames' = frames
      BY <1>16, Written DEF LeaveDimension, Handles
    <2>2. world' = world /\ gone' = DOMAIN world
      BY <1>16, LeaveTables
    <2>3. DOMAIN javaWrites' = {1} /\ javaWrites'[1].op = "dimension"
      BY <2>1, Listed, Ops
    <2>4. \A c : Framing(c)'
      BY <2>3 DEF Framing
    <2>5. \A j : ~Hung(j)'
      BY <2>2 DEF Hung
    <2>6. \A id \in Ids : ~(Hung(id)' /\ ~Framing(world[id].cell)')
      BY <2>5
    <2>7. frames = [c \in DOMAIN frames |-> frames[c]] /\ DOMAIN frames \subseteq Cells
      BY DEF FrameInv
    <2> HIDE DEF Framing, Hung
    <2> QED BY <2>1, <2>3, <2>4, <2>5, <2>7 DEF FrameInv
  <1> QED BY <1>4, <1>5, <1>6, <1>7, <1>8, <1>9, <1>10, <1>11, <1>12, <1>13, <1>14, <1>15, <1>16 DEF Step

(***************************************************************************)
(* Positions                                                               *)
(***************************************************************************)

\* A queue about an entity, as the model says it and as the invariant does.
LEMMA Abouts ==
    ASSUME NEW q, NEW id
    PROVE  About(q, id) <=> Moved(q, id)
  BY DEF About, Moved, ToSet

\* A position in the tick's queue is one of an entity the bridge moves.
LEMMA TickTyped ==
    ASSUME WritesTyped, NEW id, Moved(tickWrites, id)
    PROVE  id \in Ids /\ nature[id] \in Simulated
  <1> DEFINE Bodies == {j \in Ids : nature[j] \in Simulated}
             Sent == [op : {"move"}, id : Bodies, at : Int]
  <1>1. tickWrites \in Seq(Sent)
    BY DEF WritesTyped
  <1>2. \A m \in Sent : m.id \in Bodies
    OBVIOUS
  <1> HIDE DEF Sent
  <1>3. \A i \in DOMAIN tickWrites : tickWrites[i] \in Sent
    BY <1>1
  <1> QED BY <1>2, <1>3 DEF Moved

\* Positions that stay as they are.
LEMMA PositionsSame ==
    ASSUME PositionInv, UNCHANGED <<nature, javaWrites, tickWrites, actors, overtaken, entities, world>>
    PROVE  PositionInv'
  BY DEF PositionInv, Moved

\* A handler that sets the position of nothing.
LEMMA PositionsLeft ==
    ASSUME WritesTyped, PositionInv, javaWrites = <<>>, NEW ws, Writes(ws), nature' = nature, world' = world,
           \A i \in DOMAIN ws : ws[i].op \notin {"add", "move"},
           \A j \in DOMAIN entities' : j \in DOMAIN entities /\ entities'[j] = entities[j]
    PROVE  PositionInv'
  <1>1. javaWrites' = ws /\ tickWrites' = tickWrites /\ actors' = actors
    BY Written
  <1>2. \A id : ~Moved(javaWrites, id) /\ ~Moved(ws, id)
    BY Listed DEF Moved
  <1>3. overtaken' = overtaken
    <2>1. overtaken' = (overtaken \ {id \in Ids : About(ws, id)})
                    \cup {id \in Ids : About(ws, id) /\ About(tickWrites, id)}
      BY DEF Writes
    <2> QED BY <1>2, <2>1, Abouts
  <1>4. \A id : ~Moved(javaWrites, id)'
    BY <1>1, <1>2
  <1>5. \A id : Moved(tickWrites, id)' <=> Moved(tickWrites, id)
    BY <1>1 DEF Moved
  <1>6. overtaken \subseteq {id \in Ids : nature[id] \in Simulated}
    BY DEF PositionInv
  <1>7. \A id \in DOMAIN entities \ overtaken :
         /\ id \in DOMAIN actors => \A i \in DOMAIN tickWrites :
              tickWrites[i].op = "move" /\ tickWrites[i].id = id => tickWrites[i].at = entities[id].at
         /\ id \in DOMAIN actors /\ ~Moved(tickWrites, id) => actors[id].at = entities[id].at
    BY <1>2 DEF PositionInv
  <1>8. \A id \in DOMAIN entities' : nature'[id] \notin Simulated => entities'[id].at = world'[id].at
    BY DEF PositionInv
  <1>9. \A i \in DOMAIN javaWrites' : javaWrites'[i].op \notin {"add", "move"}
    BY <1>1
  <1> HIDE DEF Moved
  <1> QED BY <1>1, <1>3, <1>4, <1>5, <1>6, <1>7, <1>8, <1>9 DEF PositionInv

\* A handler that sets the position of one entity, or none.
LEMMA PositionsHandled ==
    ASSUME Tab, WritesTyped, PositionInv, javaWrites = <<>>, NEW id \in Ids, OthersKept(id), nature' = nature,
           DOMAIN entities' \subseteq Ids, NEW ws, Writes(ws),
           \A i \in DOMAIN ws : ws[i].op \in {"add", "move"} =>
                ws[i].id = id /\ ws[i].at = entities'[id].at,
           (id \in DOMAIN entities' /\ nature[id] \notin Simulated) => entities'[id].at = world'[id].at,
           \/ Moved(ws, id)
           \/ (id \in DOMAIN entities' /\ id \in DOMAIN actors => id \in DOMAIN entities /\ entities'[id].at = entities[id].at)
    PROVE  PositionInv'
  <1>1. javaWrites' = ws /\ tickWrites' = tickWrites /\ actors' = actors
    BY Written
  <1>2. \A j : ~Moved(javaWrites, j) /\ (Moved(ws, j) => j = id)
    BY Listed DEF Moved
  <1>3. \A j : j \in overtaken' <=> \/ (j \in overtaken /\ ~(j \in Ids /\ Moved(ws, j)))
                                    \/ (j \in Ids /\ Moved(ws, j) /\ Moved(tickWrites, j))
    <2>1. overtaken' = (overtaken \ {j \in Ids : About(ws, j)})
                    \cup {j \in Ids : About(ws, j) /\ About(tickWrites, j)}
      BY DEF Writes
    <2> HIDE DEF Moved
    <2> QED BY <2>1, Abouts
  <1>4. \A j : Moved(javaWrites, j)' <=> Moved(ws, j)
    BY <1>1 DEF Moved
  <1>5. \A j : Moved(tickWrites, j)' <=> Moved(tickWrites, j)
    BY <1>1 DEF Moved
  <1>k. \A j \in DOMAIN entities' : j \in Ids
    OBVIOUS
  <1>6. overtaken' \subseteq {j \in Ids : nature'[j] \in Simulated}
    <2>1. overtaken \subseteq {j \in Ids : nature[j] \in Simulated}
      BY DEF PositionInv
    <2> HIDE DEF Moved
    <2> QED BY <1>3, <2>1, TickTyped
  <1>7. \A j \in DOMAIN entities \ overtaken :
         /\ j \in DOMAIN actors => \A i \in DOMAIN tickWrites :
              tickWrites[i].op = "move" /\ tickWrites[i].id = j => tickWrites[i].at = entities[j].at
         /\ j \in DOMAIN actors /\ ~Moved(tickWrites, j) => actors[j].at = entities[j].at
    BY <1>2 DEF PositionInv
  <1>8. \A j \in DOMAIN entities' : nature'[j] \notin Simulated => entities'[j].at = world'[j].at
    BY <1>k DEF PositionInv, OthersKept, Tab, BridgeEntities
  <1>9. \A j \in Ids : Moved(javaWrites, j)' /\ Moved(tickWrites, j)' => j \in overtaken'
    <2> HIDE DEF Moved
    <2> QED BY <1>3, <1>4, <1>5
  <1>10. \A j \in DOMAIN entities' \ overtaken' : \A i \in DOMAIN javaWrites' :
              javaWrites'[i].op \in {"add", "move"} /\ javaWrites'[i].id = j => javaWrites'[i].at = entities'[j].at
    BY <1>1
  <1>11. \A j \in DOMAIN entities' \ overtaken' :
         /\ j \in DOMAIN actors => \A i \in DOMAIN tickWrites :
              tickWrites[i].op = "move" /\ tickWrites[i].id = j => tickWrites[i].at = entities'[j].at
         /\ j \in DOMAIN actors /\ ~Moved(tickWrites, j) /\ ~Moved(ws, j) => actors[j].at = entities'[j].at
    <2> TAKE j \in DOMAIN entities' \ overtaken'
    <2>1. CASE j # id
      <3>1. j \notin overtaken /\ j \in DOMAIN entities /\ entities'[j] = entities[j]
        BY <1>2, <1>3, <1>k, <2>1 DEF OthersKept
      <3> HIDE DEF Moved
      <3> QED BY <1>7, <3>1
    <2>2. CASE j = id /\ Moved(ws, id)
      <3>1. ~Moved(tickWrites, j)
        BY <1>3, <2>2
      <3> QED BY <2>2, <3>1 DEF Moved
    <2>3. CASE j = id /\ ~Moved(ws, id)
      <3>1. j \notin overtaken
        BY <1>3, <2>3
      <3>2. j \in DOMAIN actors => j \in DOMAIN entities /\ entities'[j].at = entities[j].at
        BY <2>3
      <3> HIDE DEF Moved
      <3> QED BY <1>7, <3>1, <3>2
    <2> QED BY <2>1, <2>2, <2>3
  <1> HIDE DEF Moved
  <1>12. \A j \in DOMAIN entities' \ overtaken' :
         /\ j \in DOMAIN actors' => \A i \in DOMAIN tickWrites' :
              tickWrites'[i].op = "move" /\ tickWrites'[i].id = j => tickWrites'[i].at = entities'[j].at
         /\ j \in DOMAIN actors' /\ ~Moved(javaWrites, j)' /\ ~Moved(tickWrites, j)' => actors'[j].at = entities'[j].at
    BY <1>1, <1>4, <1>5, <1>11
  <1> QED BY <1>6, <1>8, <1>9, <1>10, <1>12 DEF PositionInv

\* The next packet of a handler, or of a tick, sets the position the bridge has.
LEMMA PositionWritten ==
    ASSUME Tab, WritesTyped, ActorInv, PositionInv, WriteJava
    PROVE  PositionInv'
  <1> DEFINE w == javaWrites[1]
  <1>t. \A id \in DOMAIN actors : actors[id] \in [at : Int, item : Item]
    BY DEF ActorInv
  <1>1. /\ UNCHANGED <<entities, world, nature, tickWrites, overtaken>>
        /\ 1 \in DOMAIN javaWrites /\ Receive(w) /\ w \in Packet
        /\ \A i \in DOMAIN javaWrites' :
              i \in Nat /\ i > 0 /\ i + 1 \in DOMAIN javaWrites /\ javaWrites'[i] = javaWrites[i + 1]
        /\ \A i \in DOMAIN javaWrites :
              i \in Nat /\ (i = 1 \/ (i - 1 \in DOMAIN javaWrites' /\ javaWrites'[i - 1] = javaWrites[i]))
    BY Pops DEF tables, server
  <1>2. \A id : Moved(javaWrites, id)' => Moved(javaWrites, id)
    BY <1>1 DEF Moved
  <1>3. \A id : Moved(tickWrites, id)' <=> Moved(tickWrites, id)
    BY <1>1 DEF Moved
  <1>4. \A id : Moved(javaWrites, id) => Moved(javaWrites, id)' \/ (w.op \in {"add", "move"} /\ w.id = id)
    <2> SUFFICES ASSUME NEW id, Moved(javaWrites, id), ~(w.op \in {"add", "move"} /\ w.id = id)
                 PROVE  Moved(javaWrites, id)'
      OBVIOUS
    <2>1. PICK i \in DOMAIN javaWrites : javaWrites[i].op \in {"add", "move"} /\ javaWrites[i].id = id
      BY DEF Moved
    <2>2. i # 1
      BY <2>1
    <2>3. i - 1 \in DOMAIN javaWrites' /\ javaWrites'[i - 1] = javaWrites[i]
      BY <1>1, <2>2
    <2> QED BY <2>1, <2>3 DEF Moved
  <1>5. \A id \in DOMAIN entities \ overtaken : \A i \in DOMAIN javaWrites' :
              javaWrites'[i].op \in {"add", "move"} /\ javaWrites'[i].id = id => javaWrites'[i].at = entities[id].at
    BY <1>1 DEF PositionInv
  <1>6. /\ overtaken \subseteq {id \in Ids : nature[id] \in Simulated}
        /\ \A id \in Ids : Moved(javaWrites, id) /\ Moved(tickWrites, id) => id \in overtaken
        /\ \A id \in DOMAIN entities : nature[id] \notin Simulated => entities[id].at = world[id].at
    BY DEF PositionInv
  <1>7. \A id \in DOMAIN entities \ overtaken :
         /\ id \in DOMAIN actors => \A i \in DOMAIN tickWrites :
              tickWrites[i].op = "move" /\ tickWrites[i].id = id => tickWrites[i].at = entities[id].at
         /\ id \in DOMAIN actors /\ ~Moved(javaWrites, id) /\ ~Moved(tickWrites, id) =>
              actors[id].at = entities[id].at
    BY DEF PositionInv
  <1>k. \A id \in DOMAIN entities : id \in Ids
    BY DEF Tab, ServerEntities, BridgeEntities
  \* what is left to show: the actors the packet leaves
  <1> DEFINE Shown == \A id \in DOMAIN entities \ overtaken : id \in DOMAIN actors' =>
                         \/ id \in DOMAIN actors /\ actors'[id].at = actors[id].at
                            /\ ~(w.op \in {"add", "move"} /\ w.id = id)
                         \/ w.op \in {"add", "move"} /\ w.id = id /\ actors'[id].at = entities[id].at
  <1>8. ASSUME Shown PROVE PositionInv'
    <2>0. w.op \in {"add", "move"} => Moved(javaWrites, w.id)
      BY <1>1 DEF Moved
    <2> HIDE DEF w
    <2>1. \A id \in DOMAIN entities \ overtaken : id \in DOMAIN actors' => \A i \in DOMAIN tickWrites :
              tickWrites[i].op = "move" /\ tickWrites[i].id = id => tickWrites[i].at = entities[id].at
      <3> TAKE id \in DOMAIN entities \ overtaken
      <3>1. CASE id \in DOMAIN actors
        BY <1>7, <3>1
      <3>2. CASE id \in DOMAIN actors' /\ id \notin DOMAIN actors
        <4>1. Moved(javaWrites, id)
          BY <1>8, <2>0, <3>2
        <4>2. ~Moved(tickWrites, id)
          BY <1>6, <1>k, <4>1
        <4> QED BY <4>2 DEF Moved
      <3> QED BY <3>1, <3>2
    <2> HIDE DEF Moved
    <2>2. \A id \in DOMAIN entities \ overtaken :
            id \in DOMAIN actors' /\ ~Moved(javaWrites, id)' /\ ~Moved(tickWrites, id) => actors'[id].at = entities[id].at
      BY <1>4, <1>7, <1>8
    <2>3. \A id \in Ids : Moved(javaWrites, id)' /\ Moved(tickWrites, id)' => id \in overtaken
      BY <1>2, <1>3, <1>6
    <2>4. \A id \in DOMAIN entities' \ overtaken' :
            /\ id \in DOMAIN actors' => \A i \in DOMAIN tickWrites' :
                 tickWrites'[i].op = "move" /\ tickWrites'[i].id = id => tickWrites'[i].at = entities'[id].at
            /\ id \in DOMAIN actors' /\ ~Moved(javaWrites, id)' /\ ~Moved(tickWrites, id)' => actors'[id].at = entities'[id].at
      BY <1>1, <1>3, <2>1, <2>2
    <2>5. \A id \in DOMAIN entities' \ overtaken' : \A i \in DOMAIN javaWrites' :
              javaWrites'[i].op \in {"add", "move"} /\ javaWrites'[i].id = id => javaWrites'[i].at = entities'[id].at
      BY <1>1, <1>5
    <2>6. \A id \in DOMAIN entities' : nature'[id] \notin Simulated => entities'[id].at = world'[id].at
      BY <1>1, <1>6
    <2>7. overtaken' \subseteq {id \in Ids : nature'[id] \in Simulated}
      BY <1>1, <1>6
    <2> QED BY <1>1, <2>3, <2>4, <2>5, <2>6, <2>7 DEF PositionInv
  <1>9. \A id \in DOMAIN entities \ overtaken : w.op \in {"add", "move"} /\ w.id = id => w.at = entities[id].at
    BY <1>1 DEF PositionInv
  <1>10. CASE w.op = "add"
    <2>1. actors' = Put(actors, w.id, [at |-> w.at, item |-> w.item])
      <3> HIDE DEF w
      <3> QED BY <1>1, <1>10, ReceiveAdd
    <2> QED BY <1>8, <1>9, <1>10, <2>1 DEF Put
  <1>11. CASE w.op = "move"
    <2>1. actors' = IF w.id \in DOMAIN actors THEN [actors EXCEPT ![w.id].at = w.at] ELSE actors
      <3> HIDE DEF w
      <3> QED BY <1>1, <1>11, ReceiveMove
    <2> QED BY <1>8, <1>9, <1>11, <1>t, <2>1
  <1>12. CASE w.op = "size"
    <2>0. w.id \in DOMAIN actors
      BY <1>1, <1>12 DEF ActorInv
    <2>1. actors' = [actors EXCEPT ![w.id].item[2] = w.count]
      <3> HIDE DEF w
      <3> QED BY <1>1, <1>12, <2>0, ReceiveSize
    <2>2. DOMAIN actors' = DOMAIN actors /\ \A id \in DOMAIN actors : actors'[id].at = actors[id].at
      <3> HIDE DEF w
      <3> QED BY <1>t, <2>1
    <2> QED BY <1>8, <1>12, <2>2
  <1>13. CASE w.op = "remove"
    <2>1. actors' = Drop(actors, {w.id})
      <3> HIDE DEF w
      <3> QED BY <1>1, <1>13, ReceiveRemove
    <2> QED BY <1>8, <1>13, <2>1 DEF Drop
  <1>14. CASE w.op = "dimension"
    <2>1. actors' = <<>>
      <3> HIDE DEF w
      <3> QED BY <1>1, <1>14, ReceiveDimension
    <2> QED BY <1>8, <2>1, Listed
  <1>15. CASE w.op \notin {"add", "move", "size", "remove", "dimension"}
    <2>1. actors' = actors
      <3> HIDE DEF w
      <3> QED BY <1>1, <1>15 DEF Receive
    <2> QED BY <1>8, <1>15, <2>1
  <1> QED BY <1>10, <1>11, <1>12, <1>13, <1>14, <1>15

\* The next packet of a tick sets the position the bridge has.
LEMMA PositionTicked ==
    ASSUME Tab, WritesTyped, ActorInv, PositionInv, WriteTick
    PROVE  PositionInv'
  <1> DEFINE w == tickWrites[1]
  <1>1. /\ UNCHANGED <<entities, world, nature, javaWrites, overtaken>>
        /\ 1 \in DOMAIN tickWrites /\ Receive(w) /\ w.op = "move"
        /\ \A i \in DOMAIN tickWrites' :
              i \in Nat /\ i > 0 /\ i + 1 \in DOMAIN tickWrites /\ tickWrites'[i] = tickWrites[i + 1]
        /\ \A i \in DOMAIN tickWrites :
              i \in Nat /\ (i = 1 \/ (i - 1 \in DOMAIN tickWrites' /\ tickWrites'[i - 1] = tickWrites[i]))
    BY Pops DEF tables, server
  <1>2. \A id : Moved(javaWrites, id)' <=> Moved(javaWrites, id)
    BY <1>1 DEF Moved
  <1>3. \A id : Moved(tickWrites, id)' => Moved(tickWrites, id)
    BY <1>1 DEF Moved
  <1>4. \A id : Moved(tickWrites, id) => Moved(tickWrites, id)' \/ w.id = id
    <2> SUFFICES ASSUME NEW id, Moved(tickWrites, id), w.id # id
                 PROVE  Moved(tickWrites, id)'
      OBVIOUS
    <2>1. PICK i \in DOMAIN tickWrites : tickWrites[i].op \in {"add", "move"} /\ tickWrites[i].id = id
      BY DEF Moved
    <2>2. i # 1
      BY <2>1
    <2>3. i - 1 \in DOMAIN tickWrites' /\ tickWrites'[i - 1] = tickWrites[i]
      BY <1>1, <2>2
    <2> QED BY <2>1, <2>3 DEF Moved
  <1>6. /\ overtaken \subseteq {id \in Ids : nature[id] \in Simulated}
        /\ \A id \in Ids : Moved(javaWrites, id) /\ Moved(tickWrites, id) => id \in overtaken
        /\ \A id \in DOMAIN entities : nature[id] \notin Simulated => entities[id].at = world[id].at
    BY DEF PositionInv
  <1>7. \A id \in DOMAIN entities \ overtaken :
         /\ \A i \in DOMAIN javaWrites :
              javaWrites[i].op \in {"add", "move"} /\ javaWrites[i].id = id => javaWrites[i].at = entities[id].at
         /\ id \in DOMAIN actors => \A i \in DOMAIN tickWrites :
              tickWrites[i].op = "move" /\ tickWrites[i].id = id => tickWrites[i].at = entities[id].at
         /\ id \in DOMAIN actors /\ ~Moved(javaWrites, id) /\ ~Moved(tickWrites, id) =>
              actors[id].at = entities[id].at
    BY DEF PositionInv
  <1>8. actors' = IF w.id \in DOMAIN actors THEN [actors EXCEPT ![w.id].at = w.at] ELSE actors
    <2> HIDE DEF w
    <2> QED BY <1>1, ReceiveMove
  <1>9. \A id \in DOMAIN entities \ overtaken : id \in DOMAIN actors /\ w.id = id => w.at = entities[id].at
    BY <1>1, <1>7
  <1>t. \A id \in DOMAIN actors : actors[id] \in [at : Int, item : Item]
    BY DEF ActorInv
  <1>10. DOMAIN actors' = DOMAIN actors
         /\ \A id \in DOMAIN actors : actors'[id].at = IF id = w.id THEN w.at ELSE actors[id].at
    <2> HIDE DEF w
    <2> QED BY <1>8, <1>t
  <1>11. \A id \in DOMAIN entities' \ overtaken' : id \in DOMAIN actors' => \A i \in DOMAIN tickWrites' :
              tickWrites'[i].op = "move" /\ tickWrites'[i].id = id => tickWrites'[i].at = entities'[id].at
    BY <1>1, <1>7, <1>10
  <1> HIDE DEF w, Moved
  <1>12. \A id \in DOMAIN entities' \ overtaken' :
            id \in DOMAIN actors' /\ ~Moved(javaWrites, id)' /\ ~Moved(tickWrites, id)' => actors'[id].at = entities'[id].at
    BY <1>1, <1>2, <1>4, <1>7, <1>9, <1>10
  <1>13. \A id \in DOMAIN entities' \ overtaken' : \A i \in DOMAIN javaWrites' :
              javaWrites'[i].op \in {"add", "move"} /\ javaWrites'[i].id = id => javaWrites'[i].at = entities'[id].at
    BY <1>1, <1>7
  <1>14. \A id \in Ids : Moved(javaWrites, id)' /\ Moved(tickWrites, id)' => id \in overtaken'
    BY <1>1, <1>2, <1>3, <1>6
  <1>15. /\ overtaken' \subseteq {id \in Ids : nature'[id] \in Simulated}
         /\ \A id \in DOMAIN entities' : nature'[id] \notin Simulated => entities'[id].at = world'[id].at
    BY <1>1, <1>6
  <1> QED BY <1>11, <1>12, <1>13, <1>14, <1>15 DEF PositionInv

\* A tick writes where it has moved what it moves.
LEMMA PositionSimulated ==
    ASSUME Tab, WritesTyped, PositionInv, TickProjectiles
    PROVE  PositionInv'
  <1> DEFINE moved == {id \in DOMAIN entities : Moves(id)}
  <1>1. /\ UNCHANGED <<nature, javaWrites, actors>> /\ DOMAIN entities' = DOMAIN entities /\ DOMAIN world' = DOMAIN world
        /\ \A j \in DOMAIN world : world'[j].at = world[j].at
        /\ \A j \in DOMAIN entities :
              entities'[j].at = IF Moves(j) THEN entities[j].at + 1 ELSE entities[j].at
    BY TickSteps
  <1>2. /\ tickWrites = <<>>
        /\ \A i \in DOMAIN tickWrites' :
                 /\ tickWrites'[i].id \in DOMAIN entities /\ Moves(tickWrites'[i].id)
                 /\ tickWrites'[i] = MoveActor(tickWrites'[i].id, entities[tickWrites'[i].id].at + 1)
        /\ \A id \in DOMAIN entities : Moves(id) => \E i \in DOMAIN tickWrites' : tickWrites'[i].id = id
    BY TickWritten
  <1>3. overtaken' = (overtaken \ moved) \cup {id \in moved : About(javaWrites, id)}
    BY DEF TickProjectiles
  <1>4. \A id \in moved : id \in Ids /\ nature[id] \in Simulated
    BY DEF Moves, Entity, Tab, ServerEntities, BridgeEntities
  <1>5. \A i \in DOMAIN tickWrites' : LET m == tickWrites'[i] IN
           m.op = "move" /\ m.id \in moved /\ m.at = entities[m.id].at + 1
    <2> TAKE i \in DOMAIN tickWrites'
    <2>1. /\ tickWrites'[i].id \in moved
          /\ tickWrites'[i] = MoveActor(tickWrites'[i].id, entities[tickWrites'[i].id].at + 1)
      BY <1>2
    <2> HIDE DEF moved
    <2> QED BY <2>1, Ops
  <1>6. \A id : Moved(tickWrites, id)' <=> id \in moved
    BY <1>2, <1>5 DEF Moved
  <1>7. \A id : Moved(javaWrites, id)' <=> Moved(javaWrites, id)
    BY <1>1 DEF Moved
  <1>8. \A id : ~Moved(tickWrites, id)
    BY <1>2, Listed DEF Moved
  <1>9. \A id \in DOMAIN entities \ overtaken :
         /\ \A i \in DOMAIN javaWrites :
              javaWrites[i].op \in {"add", "move"} /\ javaWrites[i].id = id => javaWrites[i].at = entities[id].at
         /\ id \in DOMAIN actors /\ ~Moved(javaWrites, id) => actors[id].at = entities[id].at
    BY <1>8 DEF PositionInv
  <1>10. /\ overtaken \subseteq {id \in Ids : nature[id] \in Simulated}
         /\ \A id \in DOMAIN entities : nature[id] \notin Simulated => entities[id].at = world[id].at
         /\ \A id \in DOMAIN entities : id \in DOMAIN world
    BY DEF PositionInv, Tab, BridgeEntities
  <1>11. \A id : id \in overtaken' <=> \/ (id \in overtaken /\ id \notin moved)
                                       \/ (id \in moved /\ Moved(javaWrites, id))
    <2> HIDE DEF moved, Moved
    <2> QED BY <1>3, Abouts
  <1>12. \A id \in DOMAIN entities : entities'[id].at = IF id \in moved THEN entities[id].at + 1 ELSE entities[id].at
    BY <1>1
  <1>m. moved \subseteq DOMAIN entities
    OBVIOUS
  <1>13. \A id \in DOMAIN entities' \ overtaken' : \A i \in DOMAIN javaWrites' :
              javaWrites'[i].op \in {"add", "move"} /\ javaWrites'[i].id = id => javaWrites'[i].at = entities'[id].at
    <2> HIDE DEF moved
    <2>1. \A id \in DOMAIN entities : \A i \in DOMAIN javaWrites :
             javaWrites[i].op \in {"add", "move"} /\ javaWrites[i].id = id => Moved(javaWrites, id)
      BY DEF Moved
    <2> HIDE DEF Moved
    <2> QED BY <1>1, <1>9, <1>11, <1>12, <2>1
  <1> HIDE DEF moved, Moved
  <1>14. \A id \in DOMAIN entities' \ overtaken' :
            /\ \A i \in DOMAIN tickWrites' :
                 tickWrites'[i].op = "move" /\ tickWrites'[i].id = id => tickWrites'[i].at = entities'[id].at
            /\ id \in DOMAIN actors' /\ ~Moved(javaWrites, id)' /\ ~Moved(tickWrites, id)' => actors'[id].at = entities'[id].at
    BY <1>1, <1>5, <1>6, <1>7, <1>9, <1>11, <1>12
  <1>15. \A id \in Ids : Moved(javaWrites, id)' /\ Moved(tickWrites, id)' => id \in overtaken'
    BY <1>6, <1>7, <1>11
  <1>16. overtaken' \subseteq {id \in Ids : nature'[id] \in Simulated}
    BY <1>1, <1>4, <1>10, <1>11
  <1>17. \A id \in DOMAIN entities' : nature'[id] \notin Simulated => entities'[id].at = world'[id].at
    BY <1>1, <1>4, <1>10, <1>12
  <1> QED BY <1>13, <1>14, <1>15, <1>16, <1>17 DEF PositionInv

\* Every step keeps the positions right.
LEMMA PositionKept ==
    ASSUME Tab, WritesTyped, ActorInv, PositionInv, Step, Tab'
    PROVE  PositionInv'
  <1>k. /\ DOMAIN entities' \subseteq Ids /\ DOMAIN entities \subseteq Ids
        /\ DOMAIN entities \subseteq DOMAIN world
        /\ DOMAIN entities' \subseteq DOMAIN world'
    BY DEF Tab, ServerEntities, BridgeEntities
  <1>0. \A id \in DOMAIN entities : nature[id] \notin Simulated => entities[id].at = world[id].at
    BY DEF PositionInv
  <1>4. CASE UNCHANGED entityVars \/ Seating
    <2>1. UNCHANGED <<nature, javaWrites, tickWrites, actors, overtaken, entities, world>>
      BY <1>4 DEF entityVars, tables, client, server, Seating
    <2> QED BY <2>1, PositionsSame
  <1>5. CASE WriteJava
    BY <1>5, PositionWritten
  <1>6. CASE WriteTick
    BY <1>6, PositionTicked
  <1>7. CASE TickProjectiles
    BY <1>7, PositionSimulated
  <1>8. CASE \E id, e : Spawning(id, e)
    <2>1. PICK id, e : Spawning(id, e)
      BY <1>8
    <2>2. /\ id \in Ids /\ id \notin DOMAIN world /\ OthersKept(id) /\ javaWrites = <<>>
          /\ nature' = nature /\ world'[id] = e
      BY <2>1 DEF Spawning
    <2>3. CASE /\ Writes(<<>>) \/ Writes(<<Frame(e.cell, NoItem)>>)
               /\ entities' = entities \/ (entities'[id] = e /\ nature[id] \in {"item", "painting", "orb", "frame"})
      <3>1. PICK ws : Writes(ws) /\ (ws = <<>> \/ ws = <<Frame(e.cell, NoItem)>>)
        BY <2>3
      <3>2. \A i \in DOMAIN ws : ws[i].op \notin {"add", "move"}
        BY <3>1, Listed, Ops
      <3>3. id \in DOMAIN entities' => entities'[id].at = world'[id].at
        BY <1>k, <2>2, <2>3
      <3>4. id \in DOMAIN actors => FALSE
        <4>1. ~Want(id)
          BY <1>k, <2>2 DEF Want
        <4> QED BY <2>2, <4>1, ActorsSettled
      <3> QED BY <1>k, <2>2, <3>1, <3>2, <3>3, <3>4, PositionsHandled
    <2>4. CASE /\ Writes(<<AddActor(id, e.at, NoItem)>>) \/ Writes(<<ListPlayer(e.uuid), AddActor(id, e.at, NoItem)>>)
               /\ entities'[id] = e
      <3> DEFINE w == AddActor(id, e.at, NoItem)
                 b == ListPlayer(e.uuid)
      <3>1. w.op = "add" /\ w.id = id /\ w.at = e.at /\ b.op = "list"
        BY Ops
      <3>2. PICK ws : Writes(ws) /\ (ws = <<w>> \/ ws = <<b, w>>)
        BY <2>4
      <3> HIDE DEF w, b
      <3>3. /\ \A i \in DOMAIN ws : ws[i] = w \/ ws[i] = b
            /\ \E i \in DOMAIN ws : ws[i] = w
        BY <3>2, Listed
      <3>4. Moved(ws, id)
        BY <3>1, <3>3 DEF Moved
      <3>5. \A i \in DOMAIN ws : ws[i].op \in {"add", "move"} => ws[i].id = id /\ ws[i].at = entities'[id].at
        BY <2>4, <3>1, <3>3
      <3>6. entities'[id].at = world'[id].at
        BY <2>2, <2>4
      <3> QED BY <1>k, <2>2, <3>2, <3>4, <3>5, <3>6, PositionsHandled
    <2> QED BY <2>1, <2>3, <2>4 DEF Spawning
  <1>9. CASE \E id : Describing(id)
    <2>1. PICK id : Describing(id)
      BY <1>9
    <2>2. /\ id \in DOMAIN entities /\ OthersKept(id) /\ javaWrites = <<>> /\ nature' = nature
          /\ DOMAIN entities' = DOMAIN entities
          /\ entities'[id].at = entities[id].at /\ world'[id].at = world[id].at
      BY <2>1 DEF Describing
    <2> DEFINE wa == AddActor(id, entities[id].at, world'[id].item)
               wr == RemoveActor(id)
               ws == StackSize(id, world'[id].item[2])
               wf == Frame(entities[id].cell, world'[id].item)
               bt == Boost(TRUE)
               bf == Boost(FALSE)
    <2>3. /\ wa.op = "add" /\ wa.id = id /\ wa.at = entities[id].at
          /\ wr.op = "remove" /\ ws.op = "size" /\ wf.op = "frame"
      BY Ops
    <2>4. bt.op = "boost" /\ bf.op = "boost"
      BY Boosts
    <2>5. \/ Writes(<<>>) \/ Writes(<<wa>>) \/ Writes(<<wr, wa>>) \/ Writes(<<ws>>) \/ Writes(<<wf>>)
          \/ Writes(<<bt>>) \/ Writes(<<bf>>)
      BY <2>1 DEF Describing, RocketWrites
    <2> HIDE DEF wa, wr, ws, wf, bt, bf
    <2>6. PICK q : Writes(q) /\ (\/ q = <<>> \/ q = <<wa>> \/ q = <<wr, wa>> \/ q = <<ws>> \/ q = <<wf>>
                                 \/ q = <<bt>> \/ q = <<bf>>)
      BY <2>5
    <2>7. \A i \in DOMAIN q : q[i] \in {wa, wr, ws, wf, bt, bf}
      BY <2>6, Listed
    <2>8. \A i \in DOMAIN q : q[i].op \in {"add", "move"} => q[i].id = id /\ q[i].at = entities'[id].at
      <3> TAKE i \in DOMAIN q
      <3>1. \/ q[i] = wa \/ q[i].op = "remove" \/ q[i].op = "size" \/ q[i].op = "frame" \/ q[i].op = "boost"
        BY <2>3, <2>4, <2>7
      <3> QED BY <2>2, <2>3, <3>1
    <2>9. nature[id] \notin Simulated => entities'[id].at = world'[id].at
      BY <1>0, <2>2
    <2> QED BY <1>k, <2>2, <2>6, <2>8, <2>9, PositionsHandled
  <1>10. CASE \E id : Moving(id)
    <2>1. PICK id : Moving(id)
      BY <1>10
    <2>2. /\ id \in DOMAIN world /\ OthersKept(id) /\ javaWrites = <<>> /\ nature' = nature
      BY <2>1 DEF Moving
    <2>0. id \in Ids
      BY <2>2 DEF Tab, ServerEntities
    <2>3. CASE id \notin DOMAIN entities /\ entities' = entities /\ Writes(<<>>)
      <3>1. \A i \in DOMAIN <<>> : <<>>[i].op \notin {"add", "move"}
        BY Listed
      <3>2. PICK ws : ws = <<>>
        OBVIOUS
      <3>3. Writes(ws) /\ \A i \in DOMAIN ws : ws[i].op \notin {"add", "move"}
        BY <2>3, <3>1, <3>2
      <3> QED BY <1>k, <2>0, <2>2, <2>3, <3>3, PositionsHandled
    <2>4. CASE /\ id \in DOMAIN entities /\ (entities[id].at = world[id].at => entities'[id].at = world'[id].at)
               /\ Writes(<<MoveActor(id, entities'[id].at)>>)
      <3>1. PICK ws : Writes(ws) /\ ws = <<MoveActor(id, entities'[id].at)>>
        BY <2>4
      <3>2. /\ \A i \in DOMAIN ws : ws[i].op \in {"add", "move"} => ws[i].id = id /\ ws[i].at = entities'[id].at
            /\ Moved(ws, id)
        BY <3>1, Listed, Ops DEF Moved
      <3>3. nature[id] \notin Simulated => entities'[id].at = world'[id].at
        BY <1>0, <2>4
      <3> QED BY <1>k, <2>0, <2>2, <3>1, <3>2, <3>3, PositionsHandled
    <2> QED BY <2>1, <2>3, <2>4 DEF Moving
  <1>11. CASE \E id : Taking(id)
    <2>1. PICK id : Taking(id)
      BY <1>11
    <2>2. /\ OthersKept(id) /\ javaWrites = <<>> /\ id \in DOMAIN world
          /\ nature' = nature /\ id \notin DOMAIN entities'
      BY <2>1 DEF Taking
    <2>0. id \in Ids
      BY <2>2 DEF Tab, ServerEntities
    <2>3. PICK ws : Writes(ws)
      BY <2>1 DEF Taking
    <2>4. \A i \in DOMAIN ws : ws[i].op \notin {"add", "move"}
      <3>1. \A i \in DOMAIN javaWrites' : javaWrites'[i].op \in {"remove", "noframe", "boost"}
        BY <2>1, TakenOps
      <3>2. javaWrites' = ws
        BY <2>3, Written
      <3> QED BY <3>1, <3>2
    <2> QED BY <1>k, <2>0, <2>2, <2>3, <2>4, PositionsHandled
  <1>12. CASE \E u \in Uuids, b \in BOOLEAN : PlayerInfo(u, b)
    <2>1. PICK u \in Uuids, b \in BOOLEAN : PlayerInfo(u, b)
      BY <1>12
    <2>2. javaWrites = <<>> /\ (Writes(<<ListPlayer(u)>>) \/ Writes(<<>>)) /\ UNCHANGED <<world, nature, entities>>
      BY <2>1 DEF PlayerInfo, Handles, server, Writes
    <2>3. PICK ws : Writes(ws) /\ (ws = <<ListPlayer(u)>> \/ ws = <<>>)
      BY <2>2
    <2>4. \A i \in DOMAIN ws : ws[i].op \notin {"add", "move"}
      BY <2>3, Listed, Ops
    <2> QED BY <2>2, <2>3, <2>4, PositionsLeft
  <1>13. CASE \E u \in Uuids : PlayerRemove(u)
    <2>1. PICK u \in Uuids : PlayerRemove(u)
      BY <1>13
    <2>2. /\ UNCHANGED <<nature, world>>
          /\ \A j \in DOMAIN entities' : j \in DOMAIN entities /\ entities'[j] = entities[j]
      BY <2>1, GoneTables
    <2>3. PICK ws : Writes(ws) /\ ws = javaWrites' /\ javaWrites = <<>>
      BY <2>1, GoneWritten
    <2>4. \A i \in DOMAIN ws : ws[i].op \notin {"add", "move"}
      <3> TAKE i \in DOMAIN ws
      <3>1. ws[i] = UnlistPlayer(u) \/ ws[i] = RemoveActor(ws[i].id)
        BY <2>1, <2>3, GoneWritten
      <3> QED BY <3>1, Ops
    <2> QED BY <2>2, <2>3, <2>4, PositionsLeft
  <1>15. CASE \E v \in Ids : SetPassengers(v)
    <2>1. PICK v \in Ids : SetPassengers(v)
      BY <1>15
    <2>2. UNCHANGED <<world, entities, nature>>
      BY <2>1, PassengerTables
    <2>3. PICK ws : Writes(ws) /\ ws = javaWrites' /\ javaWrites = <<>>
      BY <2>1, LinksWritten
    <2>4. \A i \in DOMAIN ws : ws[i].op \notin {"add", "move"}
      <3> TAKE i \in DOMAIN ws
      <3>1. \/ ws[i] = NoWrite
            \/ \E r : ws[i] = Unlink(v, r)
            \/ \E r, f : ws[i] = Link(v, r, f)
        BY <2>1, <2>3, LinksWritten
      <3> QED BY <3>1, Ops
    <2> QED BY <2>2, <2>3, <2>4, PositionsLeft
  <1>16. CASE LeaveDimension
    <2>1. PICK ws : Writes(ws) /\ ws = <<ChangeDimension>> /\ javaWrites = <<>>
      BY <1>16 DEF LeaveDimension, Handles
    <2>2. UNCHANGED <<world, entities, nature>>
      BY <1>16, LeaveTables
    <2>3. \A i \in DOMAIN ws : ws[i].op \notin {"add", "move"}
      BY <2>1, Listed, Ops
    <2> QED BY <2>1, <2>2, <2>3, PositionsLeft
  <1> QED BY <1>4, <1>5, <1>6, <1>7, <1>8, <1>9, <1>10, <1>11, <1>12, <1>13, <1>15, <1>16 DEF Step

(***************************************************************************)
(* Riders                                                                  *)
(***************************************************************************)
\* A new actor's passengers and vehicle are told of next.
NewInv ==
    \A i \in DOMAIN javaWrites : javaWrites[i].op = "add" =>
        LET id == javaWrites[i].id IN
        \A v \in DOMAIN world : id \in ToSet(riders[v]) \/ (v = id /\ riders[v] # <<>>) => v \in owed

\* An actor is one the bridge wants, or on its way out.
LEMMA ActorsWanted ==
    ASSUME Tab, ActorInv, NEW id \in DOMAIN actors
    PROVE  Removing(id) \/ (Want(id) /\ id \in Ids /\ id \in DOMAIN entities /\ id \in DOMAIN world \ gone)
  <1>1. id \in Ids
    BY DEF ActorInv
  <1>2. CASE ~Touches(id)
    <2>1. Want(id)
      BY <1>1, <1>2 DEF ActorInv
    <2> QED BY <1>1, <2>1 DEF Want, Tab, BridgeEntities
  <1>3. CASE Touches(id)
    <2>1. PICK i \in DOMAIN javaWrites : \/ javaWrites[i].op = "dimension"
                                         \/ (javaWrites[i].op \in {"add", "remove"} /\ javaWrites[i].id = id)
      BY <1>3 DEF Touches
    <2>2. CASE javaWrites[i].op = "add"
      <3>1. Want(id)
        BY <2>1, <2>2 DEF ActorInv
      <3> QED BY <1>1, <3>1 DEF Want, Tab, BridgeEntities
    <2> QED BY <2>1, <2>2 DEF Removing
  <1> QED BY <1>2, <1>3

\* Who rides, and what is ridden, is an actor if the bridge knows it.
LEMMA RidersShown ==
    ASSUME Tab, ActorInv, javaWrites = <<>>, gone = {}, NEW v \in Ids, riders[v] # <<>>
    PROVE  /\ v \in DOMAIN entities <=> v \in DOMAIN actors
           /\ \A r \in ToSet(riders[v]) : Known(r) <=> Has(r)
  <1>1. \A id \in Ids : id \in DOMAIN actors <=> Want(id)
    BY ActorsSettled
  <1>2. \A id \in Ids : nature[id] \in Rideable => (Want(id) <=> id \in DOMAIN entities)
    BY DEF Want, Rideable, Tab, BridgeEntities
  <1>3. \E r : r \in ToSet(riders[v])
    <2>1. riders[v] \in Seq(People)
      BY DEF Tab, RiderInv
    <2>2. 1 \in DOMAIN riders[v]
      BY <2>1
    <2> QED BY <2>2 DEF ToSet
  <1>4. /\ nature[v] \in Rideable
        /\ \A r \in ToSet(riders[v]) : r = Me \/ (r \in Ids /\ nature[r] \in Rideable)
    <2>1. riders[v] \in Seq(People)
      BY DEF Tab, RiderInv
    <2>2. \A r \in ToSet(riders[v]) : r \in People
      BY <2>1 DEF ToSet
    <2> QED BY <1>3, <2>2 DEF Tab, RiderInv, People
  <1>5. Me \notin Ids
    BY EntitiesAssumption
  <1>6. DOMAIN entities \subseteq Ids /\ DOMAIN actors \subseteq Ids
    BY DEF Tab, BridgeEntities, ServerEntities, ActorInv
  <1> HIDE DEF Want
  <1> QED BY <1>1, <1>2, <1>4, <1>5, <1>6 DEF Known, Has

\* Every step leaves the passengers of a new actor to be told.
LEMMA NewKept ==
    ASSUME Tab, WritesTyped, ActorInv, NewInv, Step
    PROVE  NewInv'
  <1>0. DOMAIN nature = Ids /\ DOMAIN world \subseteq Ids
    BY DEF Tab, ServerEntities
  <1>1. ASSUME \A i \in DOMAIN javaWrites' : javaWrites'[i].op # "add"
        PROVE  NewInv'
    BY <1>1 DEF NewInv
  <1>4. CASE UNCHANGED entityVars \/ TickProjectiles \/ WriteTick
    <2>1. javaWrites' = javaWrites /\ riders' = riders /\ owed' = owed /\ DOMAIN world' = DOMAIN world
      <3>1. WriteTick => UNCHANGED <<javaWrites, server>>
        BY Pops
      <3>2. TickProjectiles => UNCHANGED <<javaWrites, riders, owed>> /\ DOMAIN world' = DOMAIN world
        BY TickSteps
      <3> QED BY <1>4, <3>1, <3>2 DEF entityVars, server
    <2> QED BY <2>1 DEF NewInv
  <1>5. CASE WriteJava
    <2>1. /\ UNCHANGED <<riders, owed, world>>
          /\ \A i \in DOMAIN javaWrites' : i + 1 \in DOMAIN javaWrites /\ javaWrites'[i] = javaWrites[i + 1]
      BY <1>5, Pops DEF server
    <2> QED BY <2>1 DEF NewInv
  <1>8. CASE \E id, e : Spawning(id, e)
    <2>1. PICK id, e : Spawning(id, e)
      BY <1>8
    <2>2. /\ gone = {} /\ gone' = gone /\ riders' = riders
          /\ owed' = owed \cup {v \in DOMAIN world' \ gone :
                                 riders[v] # <<>> /\ (v = id \/ id \in ToSet(riders[v]))}
      BY <2>1 DEF Spawning
    <2>3. \A i \in DOMAIN javaWrites' : javaWrites'[i].op = "add" => javaWrites'[i].id = id
      <3> DEFINE w == AddActor(id, e.at, NoItem)
                 b == ListPlayer(e.uuid)
                 f == Frame(e.cell, NoItem)
      <3>1. w.id = id /\ b.op # "add" /\ f.op # "add"
        BY Ops
      <3>2. Writes(<<>>) \/ Writes(<<w>>) \/ Writes(<<b, w>>) \/ Writes(<<f>>)
        BY <2>1 DEF Spawning
      <3> HIDE DEF w, b, f
      <3>3. javaWrites' = <<>> \/ javaWrites' = <<w>> \/ javaWrites' = <<b, w>> \/ javaWrites' = <<f>>
        BY <3>2, Written
      <3>4. \A i \in DOMAIN javaWrites' : javaWrites'[i] \in {w, b, f}
        BY <3>3, Listed
      <3> QED BY <3>1, <3>4
    <2>4. \A v \in DOMAIN world' : id \in ToSet(riders[v]) \/ (v = id /\ riders[v] # <<>>) => v \in owed'
      <3>1. \A v : id \in ToSet(riders[v]) => riders[v] # <<>>
        BY NoRiders
      <3> QED BY <2>2, <3>1
    <2> QED BY <2>2, <2>3, <2>4 DEF NewInv
  <1>9. CASE \E id : Describing(id)
    <2>1. PICK id : Describing(id)
      BY <1>9
    <2>2. /\ id \in DOMAIN world /\ javaWrites = <<>> /\ riders' = riders /\ DOMAIN world' = DOMAIN world
      BY <2>1 DEF Describing
    <2>3. CASE nature[id] \in {"item", "painting"}
      <3>1. \A i \in DOMAIN javaWrites' : javaWrites'[i].op = "add" => javaWrites'[i].id = id
        <4> DEFINE wa == AddActor(id, entities[id].at, world'[id].item)
                   wr == RemoveActor(id)
                   ws == StackSize(id, world'[id].item[2])
        <4>1. wa.id = id /\ wr.op # "add" /\ ws.op # "add"
          BY Ops
        <4>2. Writes(<<>>) \/ Writes(<<wa>>) \/ Writes(<<wr, wa>>) \/ Writes(<<ws>>)
          BY <2>1, <2>3 DEF Describing
        <4> HIDE DEF wa, wr, ws
        <4>3. javaWrites' = <<>> \/ javaWrites' = <<wa>> \/ javaWrites' = <<wr, wa>> \/ javaWrites' = <<ws>>
          BY <4>2, Written
        <4>4. \A i \in DOMAIN javaWrites' : javaWrites'[i] \in {wa, wr, ws}
          BY <4>3, Listed
        <4> QED BY <4>1, <4>4
      <3>2. id \in Ids /\ nature[id] \notin Rideable /\ id # Me
        BY <1>0, <2>2, <2>3, EntitiesAssumption DEF Rideable
      <3>3. \A v \in Ids : id \notin ToSet(riders[v])
        BY <3>2 DEF Tab, RiderInv
      <3>4. riders[id] = <<>>
        <4>1. riders[id] \in Seq(People)
          BY <3>2 DEF Tab, RiderInv
        <4>2. ToSet(riders[id]) = {}
          BY <3>2 DEF Tab, RiderInv
        <4>3. riders[id] # <<>> => 1 \in DOMAIN riders[id]
          BY <4>1
        <4>4. \A k \in DOMAIN riders[id] : riders[id][k] \in ToSet(riders[id])
          BY DEF ToSet
        <4> QED BY <4>2, <4>3, <4>4
      <3> QED BY <1>0, <2>2, <3>1, <3>3, <3>4 DEF NewInv
    <2>4. CASE nature[id] \notin {"item", "painting"}
      <3> DEFINE f == Frame(entities[id].cell, world'[id].item)
                 bt == Boost(TRUE)
                 bf == Boost(FALSE)
                 Kinds == {"frame", "boost"}
      <3>1. f.op \in Kinds
        BY Ops
      <3>2. bt.op \in Kinds /\ bf.op \in Kinds
        BY Boosts
      <3>3. Writes(<<>>) \/ Writes(<<f>>) \/ Writes(<<bt>>) \/ Writes(<<bf>>)
        BY <2>1, <2>4 DEF Describing, RocketWrites
      <3> HIDE DEF f, bt, bf, Kinds
      <3>4. \A i \in DOMAIN javaWrites' : javaWrites'[i].op \in Kinds
        BY <3>1, <3>2, <3>3, OneOrTwo
      <3> QED BY <1>1, <3>4 DEF Kinds
    <2> QED BY <2>3, <2>4
  <1>10. CASE \E id : Moving(id)
    <2>1. PICK id : Moving(id)
      BY <1>10
    <2>2. Writes(<<>>) \/ Writes(<<MoveActor(id, entities'[id].at)>>)
      BY <2>1 DEF Moving
    <2>3. \A i \in DOMAIN javaWrites' : javaWrites'[i].op = "move"
      BY <2>2, Written, Listed, Ops
    <2> QED BY <1>1, <2>3
  <1>11. CASE \E id : Taking(id)
    <2>1. \A i \in DOMAIN javaWrites' : javaWrites'[i].op \in {"remove", "noframe", "boost"}
      BY <1>11, TakenOps
    <2> QED BY <1>1, <2>1
  <1>12. CASE \E u \in Uuids, b \in BOOLEAN : PlayerInfo(u, b)
    <2>1. PICK u \in Uuids, b \in BOOLEAN : PlayerInfo(u, b)
      BY <1>12
    <2>2. Writes(<<ListPlayer(u)>>) \/ Writes(<<>>)
      BY <2>1 DEF PlayerInfo
    <2>3. \A i \in DOMAIN javaWrites' : javaWrites'[i].op = "list"
      BY <2>2, Written, Listed, Ops
    <2> QED BY <1>1, <2>3
  <1>13. CASE \E u \in Uuids : PlayerRemove(u)
    <2>1. PICK u \in Uuids : PlayerRemove(u)
      BY <1>13
    <2>2. \A i \in DOMAIN javaWrites' : javaWrites'[i].op # "add"
      <3> TAKE i \in DOMAIN javaWrites'
      <3>1. javaWrites'[i] = UnlistPlayer(u) \/ javaWrites'[i] = RemoveActor(javaWrites'[i].id)
        BY <2>1, GoneWritten
      <3> QED BY <3>1, Ops
    <2> QED BY <1>1, <2>2
  <1>14. CASE Seating
    <2>1. /\ UNCHANGED <<javaWrites, world>> /\ owed \subseteq owed'
          /\ \A v \in DOMAIN world \ (gone \cup owed') : riders'[v] = riders[v]
      BY <1>14 DEF Seating
    <2>2. \A i \in DOMAIN javaWrites : javaWrites[i].op = "add" => gone = {}
      BY DEF ActorInv, Want, Tab, BridgeEntities, ServerEntities
    <2> QED BY <2>1, <2>2 DEF NewInv
  <1>15. CASE \E v \in Ids : SetPassengers(v)
    <2>1. PICK v \in Ids : SetPassengers(v)
      BY <1>15
    <2>2. \A i \in DOMAIN javaWrites' : javaWrites'[i].op # "add"
      <3> TAKE i \in DOMAIN javaWrites'
      <3>1. \/ javaWrites'[i] = NoWrite
            \/ \E r : javaWrites'[i] = Unlink(v, r)
            \/ \E r, f : javaWrites'[i] = Link(v, r, f)
        BY <2>1, LinksWritten
      <3> QED BY <3>1, Ops
    <2> QED BY <1>1, <2>2
  <1>16. CASE LeaveDimension
    <2>1. javaWrites' = <<ChangeDimension>>
      BY <1>16, Written DEF LeaveDimension
    <2> QED BY <1>1, <2>1, Listed, Ops
  <1> QED BY <1>4, <1>5, <1>8, <1>9, <1>10, <1>11, <1>12, <1>13, <1>14, <1>15, <1>16 DEF Step

\* Nothing of who rides whom changes.
LEMMA LinksSame ==
    ASSUME LinkInv, UNCHANGED <<links, passengers, riders, owed, javaWrites>>, DOMAIN actors' = DOMAIN actors
    PROVE  LinkInv'
  BY DEF LinkInv, Removing, Links, Has

\* With nothing left to write, the links are those of the passengers the bridge was told of.
LEMMA LinksSettled ==
    ASSUME LinkInv, javaWrites = <<>>
    PROVE  /\ \A l \in links :
                /\ l \in [vehicle : Ids, rider : People, front : BOOLEAN]
                /\ l.vehicle \in DOMAIN actors /\ (l.rider \in DOMAIN actors \cup {Me})
                /\ l.vehicle \in DOMAIN passengers /\ l.rider \in ToSet(passengers[l.vehicle])
                /\ \/ l.vehicle \in owed
                   \/ \E i \in DOMAIN riders[l.vehicle] : riders[l.vehicle][i] = l.rider /\ l.front = (i = 1)
                /\ \A m \in links : l.rider = m.rider => l = m
           /\ \A v \in DOMAIN actors \ owed : \A i \in DOMAIN riders[v] :
                Has(riders[v][i]) => [vehicle |-> v, rider |-> riders[v][i], front |-> (i = 1)] \in links
  <1>1. /\ \A v : ~Removing(v)
        /\ \A i, op, v, r : ~(i \in DOMAIN javaWrites /\ Links(i, op, v, r))
    BY Listed DEF Removing, Links
  <1>2. DOMAIN javaWrites = {}
    BY Listed
  <1>3. \A l \in links :
                /\ l \in [vehicle : Ids, rider : People, front : BOOLEAN]
                /\ l.vehicle \in DOMAIN actors /\ (l.rider \in DOMAIN actors \cup {Me})
                /\ l.vehicle \in DOMAIN passengers /\ l.rider \in ToSet(passengers[l.vehicle])
                /\ \/ l.vehicle \in owed
                   \/ \E i \in DOMAIN riders[l.vehicle] : riders[l.vehicle][i] = l.rider /\ l.front = (i = 1)
                /\ \A m \in links : l.rider = m.rider => l = m
    <2> HIDE DEF Removing, Links, Has
    <2> TAKE l \in links
    <2>1. l \in [vehicle : Ids, rider : People, front : BOOLEAN]
      BY DEF LinkInv
    <2>2. l.vehicle \in DOMAIN actors /\ (l.rider \in DOMAIN actors \cup {Me})
      BY DEF LinkInv
    <2>3. l.vehicle \in DOMAIN passengers /\ l.rider \in ToSet(passengers[l.vehicle])
      BY <1>1 DEF LinkInv
    <2>4. \/ l.vehicle \in owed
          \/ \E i \in DOMAIN riders[l.vehicle] : riders[l.vehicle][i] = l.rider /\ l.front = (i = 1)
      BY <1>1, <1>2 DEF LinkInv
    <2>5. \A m \in links : l.rider = m.rider => l = m
      BY DEF LinkInv
    <2> QED BY <2>1, <2>2, <2>3, <2>4, <2>5
  <1>4. \A v \in DOMAIN actors \ owed : \A i \in DOMAIN riders[v] :
                Has(riders[v][i]) => [vehicle |-> v, rider |-> riders[v][i], front |-> (i = 1)] \in links
    <2> HIDE DEF Removing, Links, Has
    <2> QED BY <1>1 DEF LinkInv
  <1> QED BY <1>3, <1>4

\* A handler that tells of no passengers.
LEMMA LinksLeft ==
    ASSUME LinkInv, javaWrites = <<>>, UNCHANGED <<links, actors, riders, passengers>>, owed \subseteq owed',
           \A i \in DOMAIN javaWrites' : javaWrites'[i].op \notin {"link", "unlink"}
    PROVE  LinkInv'
  <1>1. \A l \in links' :
                /\ l \in [vehicle : Ids, rider : People, front : BOOLEAN]
                /\ l.vehicle \in DOMAIN actors' /\ (l.rider \in DOMAIN actors' \cup {Me})
                /\ l.vehicle \in DOMAIN passengers' /\ l.rider \in ToSet(passengers'[l.vehicle])
                /\ \/ l.vehicle \in owed'
                   \/ \E i \in DOMAIN riders'[l.vehicle] : riders'[l.vehicle][i] = l.rider /\ l.front = (i = 1)
                /\ \A m \in links' : l.rider = m.rider => l = m
    BY LinksSettled
  <1>2. \A v \in DOMAIN actors' \ owed' : \A i \in DOMAIN riders'[v] :
                Has(riders[v][i])' => [vehicle |-> v, rider |-> riders'[v][i], front |-> (i = 1)] \in links'
    BY LinksSettled DEF Has
  <1> HIDE DEF Removing, Links, Has
  <1> QED BY <1>1, <1>2 DEF LinkInv

\* The next packet does to the links what the ones behind it expect.
LEMMA LinkWritten ==
    ASSUME Tab, WritesTyped, ActorInv, NewInv, LinkInv, WriteJava
    PROVE  LinkInv'
  <1> DEFINE w == javaWrites[1]
  <1>1. /\ UNCHANGED <<world, riders, owed, passengers>>
        /\ 1 \in DOMAIN javaWrites /\ Receive(w) /\ w \in Packet
        /\ \A i \in DOMAIN javaWrites' :
              i \in Nat /\ i > 0 /\ i + 1 \in DOMAIN javaWrites /\ javaWrites'[i] = javaWrites[i + 1]
        /\ \A i \in DOMAIN javaWrites :
              i \in Nat /\ (i = 1 \/ (i - 1 \in DOMAIN javaWrites' /\ javaWrites'[i - 1] = javaWrites[i]))
    BY Pops DEF tables, server
  \* what is behind it is still to come
  <1>2. \A id : Removing(id) => Removing(id)' \/ w.op = "dimension" \/ (w.op = "remove" /\ w.id = id)
    <2> SUFFICES ASSUME NEW id, Removing(id), w.op # "dimension", ~(w.op = "remove" /\ w.id = id)
                 PROVE  Removing(id)'
      OBVIOUS
    <2>1. PICK i \in DOMAIN javaWrites : \/ javaWrites[i].op = "dimension"
                                         \/ (javaWrites[i].op = "remove" /\ javaWrites[i].id = id)
      BY DEF Removing
    <2>2. i # 1
      BY <2>1
    <2>3. i - 1 \in DOMAIN javaWrites' /\ javaWrites'[i - 1] = javaWrites[i]
      BY <1>1, <2>2
    <2> QED BY <2>1, <2>3 DEF Removing
  <1>3. \A i \in DOMAIN javaWrites : w # javaWrites[i] =>
            i - 1 \in DOMAIN javaWrites' /\ javaWrites'[i - 1] = javaWrites[i]
    BY <1>1
  <1>4. \A op, v, r : (\E i \in DOMAIN javaWrites : Links(i, op, v, r)) =>
            (\E i \in DOMAIN javaWrites' : Links(i, op, v, r)') \/ (w.op = op /\ w.vehicle = v /\ w.rider = r)
    <2> SUFFICES ASSUME NEW op, NEW v, NEW r, NEW i \in DOMAIN javaWrites, Links(i, op, v, r)
                 PROVE  (\E k \in DOMAIN javaWrites' : Links(k, op, v, r)') \/ (w.op = op /\ w.vehicle = v /\ w.rider = r)
      OBVIOUS
    <2>1. CASE w = javaWrites[i]
      BY <2>1 DEF Links
    <2>2. CASE w # javaWrites[i]
      <3>1. i - 1 \in DOMAIN javaWrites' /\ javaWrites'[i - 1] = javaWrites[i]
        BY <1>3, <2>2
      <3>2. Links(i - 1, op, v, r)'
        BY <3>1 DEF Links
      <3> QED BY <3>1, <3>2
    <2> QED BY <2>1, <2>2
  <1>5. \A i \in DOMAIN javaWrites' : javaWrites'[i].op = "unlink" =>
          javaWrites'[i].vehicle \in owed \/ javaWrites'[i].rider \notin ToSet(riders[javaWrites'[i].vehicle])
    BY <1>1 DEF LinkInv
  \* the links still to write
  <1>6. \A i \in DOMAIN javaWrites' : javaWrites'[i].op = "link" =>
         LET m == javaWrites'[i] IN
         /\ m.vehicle \in DOMAIN actors /\ m.rider \in DOMAIN actors \cup {Me}
         /\ m.vehicle \in DOMAIN passengers /\ m.rider \in ToSet(passengers[m.vehicle])
         /\ \A v \in Ids : v # m.vehicle /\ m.rider \in ToSet(riders[v]) => v \in owed
         /\ m.vehicle \in owed \/ \E k \in DOMAIN riders[m.vehicle] : riders[m.vehicle][k] = m.rider /\ m.front = (k = 1)
         /\ w.op \in {"link", "unlink", "skip"}
         /\ \A j \in DOMAIN javaWrites' : javaWrites'[j].op \in {"link", "unlink", "skip"}
         /\ \A j \in DOMAIN javaWrites' : j # i /\ javaWrites'[j].op \in {"link", "unlink"} => javaWrites'[j].rider # m.rider
    <2> TAKE i \in DOMAIN javaWrites'
    <2> HAVE javaWrites'[i].op = "link"
    <2> DEFINE k == i + 1
    <2>1. k \in DOMAIN javaWrites /\ javaWrites'[i] = javaWrites[k] /\ javaWrites[k].op = "link"
      BY <1>1
    <2>2. \A j \in DOMAIN javaWrites' : j + 1 \in DOMAIN javaWrites /\ javaWrites'[j] = javaWrites[j + 1]
                                        /\ (j # i => j + 1 # k)
      BY <1>1
    <2> HIDE DEF k, w
    <2>3. LET m == javaWrites[k] IN
         /\ m.vehicle \in DOMAIN actors /\ m.rider \in DOMAIN actors \cup {Me}
         /\ m.vehicle \in DOMAIN passengers /\ m.rider \in ToSet(passengers[m.vehicle])
         /\ \A v \in Ids : v # m.vehicle /\ m.rider \in ToSet(riders[v]) => v \in owed
         /\ m.vehicle \in owed \/ \E n \in DOMAIN riders[m.vehicle] : riders[m.vehicle][n] = m.rider /\ m.front = (n = 1)
         /\ \A j \in DOMAIN javaWrites : javaWrites[j].op \in {"link", "unlink", "skip"}
         /\ \A j \in DOMAIN javaWrites : j # k /\ javaWrites[j].op \in {"link", "unlink"} => javaWrites[j].rider # m.rider
      BY <2>1 DEF LinkInv
    <2>4. w.op \in {"link", "unlink", "skip"}
      BY <1>1, <2>3 DEF w
    <2> QED BY <2>1, <2>2, <2>3, <2>4
  \* what is left to show: what the client makes of the packet
  <1> DEFINE Shown ==
        /\ DOMAIN actors' = DOMAIN actors \/ w.op \in {"add", "remove", "dimension"}
        /\ \A l \in links' :
             /\ l \in [vehicle : Ids, rider : People, front : BOOLEAN]
             /\ l.vehicle \in DOMAIN actors' /\ (l.rider \in DOMAIN actors' \cup {Me})
             /\ \/ Removing(l.vehicle)' \/ Removing(l.rider)'
                \/ l.vehicle \in DOMAIN passengers /\ l.rider \in ToSet(passengers[l.vehicle])
                \/ \E i \in DOMAIN javaWrites' : Links(i, "unlink", l.vehicle, l.rider)'
             /\ \/ Removing(l.vehicle)' \/ Removing(l.rider)'
                \/ l.vehicle \in owed
                \/ \E i \in DOMAIN riders[l.vehicle] : riders[l.vehicle][i] = l.rider /\ l.front = (i = 1)
                \/ \E i \in DOMAIN javaWrites' : javaWrites'[i].op \in {"link", "unlink"}
                       /\ javaWrites'[i].vehicle = l.vehicle /\ javaWrites'[i].rider = l.rider
             /\ \A m \in links' : l.rider = m.rider => l = m
        /\ \A v \in DOMAIN actors' \ owed : \A i \in DOMAIN riders[v] : \A r :
             r = riders[v][i] /\ r \in DOMAIN actors' \cup {Me} =>
               \/ [vehicle |-> v, rider |-> r, front |-> (i = 1)] \in links'
               \/ \E j \in DOMAIN javaWrites' : Links(j, "link", v, r)'
               \/ Removing(v)' \/ Removing(r)'
  <1>7. ASSUME Shown PROVE LinkInv'
    <2>1. \A i \in DOMAIN javaWrites' : javaWrites'[i].op = "link" => DOMAIN actors' = DOMAIN actors
      BY <1>6, <1>7
    <2>2. \A v \in DOMAIN actors' \ owed' : \A i \in DOMAIN riders'[v] :
             Has(riders[v][i])' =>
               \/ [vehicle |-> v, rider |-> riders'[v][i], front |-> (i = 1)] \in links'
               \/ \E j \in DOMAIN javaWrites' : Links(j, "link", v, riders[v][i])'
               \/ Removing(v)' \/ Removing(riders[v][i])'
      <3> TAKE v \in DOMAIN actors' \ owed'
      <3> TAKE i \in DOMAIN riders'[v]
      <3> HAVE Has(riders[v][i])'
      <3> DEFINE r == riders[v][i]
      <3>1. riders' = riders /\ owed' = owed
        BY <1>1
      <3>2. r \in DOMAIN actors' \cup {Me}
        BY <3>1 DEF Has
      <3>3. \/ [vehicle |-> v, rider |-> r, front |-> (i = 1)] \in links'
            \/ \E j \in DOMAIN javaWrites' : javaWrites'[j].op = "link" /\ javaWrites'[j].vehicle = v /\ javaWrites'[j].rider = r
            \/ Removing(v)'
            \/ \E j \in DOMAIN javaWrites' : \/ javaWrites'[j].op = "dimension"
                                             \/ (javaWrites'[j].op = "remove" /\ javaWrites'[j].id = r)
        BY <1>7, <3>1, <3>2 DEF Links, Removing
      <3> QED BY <3>1, <3>3 DEF Links, Removing
    <2> HIDE DEF Removing, Links, Has
    <2>3. \A i \in DOMAIN javaWrites' : javaWrites'[i].op = "link" =>
         LET m == javaWrites'[i] IN
         /\ m.vehicle \in DOMAIN actors' /\ m.rider \in DOMAIN actors' \cup {Me}
         /\ m.vehicle \in DOMAIN passengers' /\ m.rider \in ToSet(passengers'[m.vehicle])
         /\ \A v \in Ids : v # m.vehicle /\ m.rider \in ToSet(riders'[v]) => v \in owed'
         /\ m.vehicle \in owed' \/ \E k \in DOMAIN riders'[m.vehicle] : riders'[m.vehicle][k] = m.rider /\ m.front = (k = 1)
         /\ \A j \in DOMAIN javaWrites' : javaWrites'[j].op \in {"link", "unlink", "skip"}
         /\ \A j \in DOMAIN javaWrites' : j # i /\ javaWrites'[j].op \in {"link", "unlink"} => javaWrites'[j].rider # m.rider
      BY <1>1, <1>6, <2>1
    <2>4. \A l \in links' :
             /\ l \in [vehicle : Ids, rider : People, front : BOOLEAN]
             /\ l.vehicle \in DOMAIN actors' /\ (l.rider \in DOMAIN actors' \cup {Me})
             /\ \/ Removing(l.vehicle)' \/ Removing(l.rider)'
                \/ l.vehicle \in DOMAIN passengers' /\ l.rider \in ToSet(passengers'[l.vehicle])
                \/ \E i \in DOMAIN javaWrites' : Links(i, "unlink", l.vehicle, l.rider)'
             /\ \/ Removing(l.vehicle)' \/ Removing(l.rider)'
                \/ l.vehicle \in owed'
                \/ \E i \in DOMAIN riders'[l.vehicle] : riders'[l.vehicle][i] = l.rider /\ l.front = (i = 1)
                \/ \E i \in DOMAIN javaWrites' : javaWrites'[i].op \in {"link", "unlink"}
                       /\ javaWrites'[i].vehicle = l.vehicle /\ javaWrites'[i].rider = l.rider
             /\ \A m \in links' : l.rider = m.rider => l = m
      BY <1>1, <1>7
    <2>5. \A i \in DOMAIN javaWrites' : javaWrites'[i].op = "unlink" =>
          javaWrites'[i].vehicle \in owed' \/ javaWrites'[i].rider \notin ToSet(riders'[javaWrites'[i].vehicle])
      BY <1>1, <1>5
    <2> HIDE DEF Shown
    <2> QED BY <2>2, <2>3, <2>4, <2>5 DEF LinkInv
  <1>8. \A l \in links :
             /\ l \in [vehicle : Ids, rider : People, front : BOOLEAN]
             /\ l.vehicle \in DOMAIN actors /\ (l.rider \in DOMAIN actors \cup {Me})
             /\ \/ Removing(l.vehicle) \/ Removing(l.rider)
                \/ l.vehicle \in DOMAIN passengers /\ l.rider \in ToSet(passengers[l.vehicle])
                \/ \E i \in DOMAIN javaWrites : Links(i, "unlink", l.vehicle, l.rider)
             /\ \/ Removing(l.vehicle) \/ Removing(l.rider)
                \/ l.vehicle \in owed
                \/ \E i \in DOMAIN riders[l.vehicle] : riders[l.vehicle][i] = l.rider /\ l.front = (i = 1)
                \/ \E i \in DOMAIN javaWrites : javaWrites[i].op \in {"link", "unlink"}
                       /\ javaWrites[i].vehicle = l.vehicle /\ javaWrites[i].rider = l.rider
             /\ \A m \in links : l.rider = m.rider => l = m
    BY DEF LinkInv
  <1>9. \A v \in DOMAIN actors \ owed : \A i \in DOMAIN riders[v] :
             riders[v][i] \in DOMAIN actors \cup {Me} =>
               \/ [vehicle |-> v, rider |-> riders[v][i], front |-> (i = 1)] \in links
               \/ \E j \in DOMAIN javaWrites : Links(j, "link", v, riders[v][i])
               \/ Removing(v) \/ Removing(riders[v][i])
    BY DEF LinkInv, Has
  \* a link the packet is not about is as it was
  <1>10. \A l \in links :
            (/\ ~(w.op \in {"link", "unlink"} /\ w.vehicle = l.vehicle /\ w.rider = l.rider)
             /\ ~(w.op = "remove" /\ w.id \in {l.vehicle, l.rider}) /\ w.op # "dimension") =>
             /\ \/ Removing(l.vehicle)' \/ Removing(l.rider)'
                \/ l.vehicle \in DOMAIN passengers /\ l.rider \in ToSet(passengers[l.vehicle])
                \/ \E i \in DOMAIN javaWrites' : Links(i, "unlink", l.vehicle, l.rider)'
             /\ \/ Removing(l.vehicle)' \/ Removing(l.rider)'
                \/ l.vehicle \in owed
                \/ \E i \in DOMAIN riders[l.vehicle] : riders[l.vehicle][i] = l.rider /\ l.front = (i = 1)
                \/ \E i \in DOMAIN javaWrites' : javaWrites'[i].op \in {"link", "unlink"}
                       /\ javaWrites'[i].vehicle = l.vehicle /\ javaWrites'[i].rider = l.rider
    <2> TAKE l \in links
    <2> HAVE /\ ~(w.op \in {"link", "unlink"} /\ w.vehicle = l.vehicle /\ w.rider = l.rider)
             /\ ~(w.op = "remove" /\ w.id \in {l.vehicle, l.rider}) /\ w.op # "dimension"
    <2>1. (Removing(l.vehicle) => Removing(l.vehicle)') /\ (Removing(l.rider) => Removing(l.rider)')
      BY <1>2
    <2>2. (\E i \in DOMAIN javaWrites : Links(i, "unlink", l.vehicle, l.rider)) =>
             \E i \in DOMAIN javaWrites' : Links(i, "unlink", l.vehicle, l.rider)'
      BY <1>4
    <2>3. (\E i \in DOMAIN javaWrites : javaWrites[i].op \in {"link", "unlink"}
                       /\ javaWrites[i].vehicle = l.vehicle /\ javaWrites[i].rider = l.rider) =>
             \E i \in DOMAIN javaWrites' : javaWrites'[i].op \in {"link", "unlink"}
                       /\ javaWrites'[i].vehicle = l.vehicle /\ javaWrites'[i].rider = l.rider
      BY <1>3
    <2> HIDE DEF w, Removing, Links
    <2> QED BY <1>8, <2>1, <2>2, <2>3
  \* a passenger the packet is not about is linked, or will be
  <1>11. \A v \in DOMAIN actors \ owed : \A i \in DOMAIN riders[v] : \A r :
             (/\ r = riders[v][i] /\ r \in DOMAIN actors \cup {Me}
              /\ ~(w.op = "link" /\ w.vehicle = v /\ w.rider = r)
              /\ ~(w.op = "remove" /\ w.id \in {v, r}) /\ w.op # "dimension") =>
               \/ [vehicle |-> v, rider |-> r, front |-> (i = 1)] \in links
               \/ \E j \in DOMAIN javaWrites' : Links(j, "link", v, r)'
               \/ Removing(v)' \/ Removing(r)'
    <2> TAKE v \in DOMAIN actors \ owed
    <2> TAKE i \in DOMAIN riders[v]
    <2> TAKE r
    <2> HAVE /\ r = riders[v][i] /\ r \in DOMAIN actors \cup {Me}
             /\ ~(w.op = "link" /\ w.vehicle = v /\ w.rider = r)
             /\ ~(w.op = "remove" /\ w.id \in {v, r}) /\ w.op # "dimension"
    <2>1. (Removing(v) => Removing(v)') /\ (Removing(r) => Removing(r)')
      BY <1>2
    <2>2. (\E j \in DOMAIN javaWrites : Links(j, "link", v, r)) => \E j \in DOMAIN javaWrites' : Links(j, "link", v, r)'
      BY <1>4
    <2> HIDE DEF w, Removing, Links
    <2> QED BY <1>9, <2>1, <2>2
  <1>12. CASE w.op = "dimension"
    <2>1. actors' = <<>> /\ links' = {}
      <3> HIDE DEF w
      <3> QED BY <1>1, <1>12, ReceiveDimension
    <2>2. DOMAIN actors' = {}
      BY <2>1, Listed
    <2>3. Shown
      <3> HIDE DEF w, Removing, Links
      <3> QED BY <1>12, <2>1, <2>2
    <2> QED BY <1>7, <2>3
  <1>13. CASE w.op = "remove"
    <2>1. actors' = Drop(actors, {w.id}) /\ links' = {l \in links : w.id \notin {l.vehicle, l.rider}}
      <3> HIDE DEF w
      <3> QED BY <1>1, <1>13, ReceiveRemove
    <2>0. w.id \in Ids /\ w.id # Me
      <3>1. w.id \in Ids
        <4>1. w \in Packet
          BY <1>1
        <4> HIDE DEF w
        <4> QED BY <1>13, <4>1, Packets
      <3> QED BY <3>1, EntitiesAssumption
    <2> HIDE DEF w, Removing, Links
    <2>2. DOMAIN actors' = DOMAIN actors \ {w.id}
      BY <2>1 DEF Drop
    <2>3. \A l \in links' : /\ l \in links /\ w.id # l.vehicle /\ w.id # l.rider
      BY <2>1
    <2>4. \A v \in DOMAIN actors' \ owed : \A i \in DOMAIN riders[v] : \A r :
             r = riders[v][i] /\ r \in DOMAIN actors' \cup {Me} =>
               \/ [vehicle |-> v, rider |-> r, front |-> (i = 1)] \in links'
               \/ \E j \in DOMAIN javaWrites' : Links(j, "link", v, r)'
               \/ Removing(v)' \/ Removing(r)'
      <3> TAKE v \in DOMAIN actors' \ owed
      <3> TAKE i \in DOMAIN riders[v]
      <3> TAKE r
      <3> HAVE r = riders[v][i] /\ r \in DOMAIN actors' \cup {Me}
      <3>1. v # w.id /\ r # w.id /\ v \in DOMAIN actors /\ r \in DOMAIN actors \cup {Me}
        BY <2>0, <2>2
      <3> DEFINE l == [vehicle |-> v, rider |-> r, front |-> (i = 1)]
      <3>2. l \in links => l \in links'
        BY <2>1, <3>1
      <3> HIDE DEF l
      <3>3. \/ l \in links
            \/ \E j \in DOMAIN javaWrites' : Links(j, "link", v, r)'
            \/ Removing(v)' \/ Removing(r)'
        BY <1>11, <1>13, <3>1 DEF l
      <3> QED BY <3>2, <3>3 DEF l
    <2>5. \A l \in links' :
             /\ l \in [vehicle : Ids, rider : People, front : BOOLEAN]
             /\ l.vehicle \in DOMAIN actors' /\ (l.rider \in DOMAIN actors' \cup {Me})
             /\ \A m \in links' : l.rider = m.rider => l = m
      BY <1>8, <2>2, <2>3
    <2>6. Shown
      BY <1>10, <1>13, <2>3, <2>4, <2>5
    <2> QED BY <1>7, <2>6
  <1>14. CASE w.op = "add"
    <2>1. DOMAIN actors' = DOMAIN actors \cup {w.id} /\ links' = links
      <3> HIDE DEF w
      <3> QED BY <1>1, <1>14, ReceiveAdd DEF Put
    <2>2. \A v \in DOMAIN world : w.id \in ToSet(riders[v]) \/ (v = w.id /\ riders[v] # <<>>) => v \in owed
      BY <1>1, <1>14 DEF NewInv
    <2>3. w.id \in DOMAIN world /\ (\A j \in DOMAIN javaWrites : j > 1 =>
                    javaWrites[j].op \notin {"add", "remove", "size", "dimension"})
      BY <1>1, <1>14 DEF ActorInv, Want, Tab, BridgeEntities
    <2>4. \A v \in DOMAIN actors : v \in DOMAIN world
      <3>1. \A v : ~Removing(v)
        BY <1>1, <1>14, <2>3 DEF Removing
      <3> QED BY <3>1, ActorsWanted
    <2> HIDE DEF w, Removing, Links
    <2>5. \A v \in DOMAIN actors' \ owed : \A i \in DOMAIN riders[v] : \A r :
             r = riders[v][i] /\ r \in DOMAIN actors' \cup {Me} =>
               \/ [vehicle |-> v, rider |-> r, front |-> (i = 1)] \in links'
               \/ \E j \in DOMAIN javaWrites' : Links(j, "link", v, r)'
               \/ Removing(v)' \/ Removing(r)'
      <3> TAKE v \in DOMAIN actors' \ owed
      <3> TAKE i \in DOMAIN riders[v]
      <3> TAKE r
      <3> HAVE r = riders[v][i] /\ r \in DOMAIN actors' \cup {Me}
      <3>1. r \in ToSet(riders[v]) /\ riders[v] # <<>>
        BY Listed DEF ToSet
      <3>2. v \in DOMAIN world
        BY <2>1, <2>3, <2>4
      <3>3. v # w.id /\ r # w.id
        BY <2>2, <3>1, <3>2
      <3>4. v \in DOMAIN actors /\ r \in DOMAIN actors \cup {Me}
        BY <2>1, <3>3
      <3> QED BY <1>11, <1>14, <2>1, <3>4
    <2>6. \A l \in links' :
             /\ l \in [vehicle : Ids, rider : People, front : BOOLEAN]
             /\ l.vehicle \in DOMAIN actors' /\ (l.rider \in DOMAIN actors' \cup {Me})
             /\ \A m \in links' : l.rider = m.rider => l = m
      BY <1>8, <2>1
    <2>7. Shown
      BY <1>10, <1>14, <2>1, <2>5, <2>6
    <2> QED BY <1>7, <2>7
  <1>15. CASE w.op = "unlink"
    <2>1. actors' = actors /\ links' = {l \in links : ~(l.vehicle = w.vehicle /\ l.rider = w.rider)}
      <3> HIDE DEF w
      <3> QED BY <1>1, <1>15, ReceiveUnlink
    <2>2. w.vehicle \in owed \/ w.rider \notin ToSet(riders[w.vehicle])
      BY <1>1, <1>15 DEF LinkInv
    <2> HIDE DEF w, Removing, Links
    <2>3. \A v \in DOMAIN actors' \ owed : \A i \in DOMAIN riders[v] : \A r :
             r = riders[v][i] /\ r \in DOMAIN actors' \cup {Me} =>
               \/ [vehicle |-> v, rider |-> r, front |-> (i = 1)] \in links'
               \/ \E j \in DOMAIN javaWrites' : Links(j, "link", v, r)'
               \/ Removing(v)' \/ Removing(r)'
      <3> TAKE v \in DOMAIN actors' \ owed
      <3> TAKE i \in DOMAIN riders[v]
      <3> TAKE r
      <3> HAVE r = riders[v][i] /\ r \in DOMAIN actors' \cup {Me}
      <3>1. r \in ToSet(riders[v])
        BY DEF ToSet
      <3>2. ~(v = w.vehicle /\ r = w.rider)
        BY <2>2, <3>1
      <3> DEFINE l == [vehicle |-> v, rider |-> r, front |-> (i = 1)]
      <3>3. l \in links => l \in links'
        BY <2>1, <3>2
      <3> HIDE DEF l
      <3>4. \/ l \in links
            \/ \E j \in DOMAIN javaWrites' : Links(j, "link", v, r)'
            \/ Removing(v)' \/ Removing(r)'
        BY <1>11, <1>15, <2>1 DEF l
      <3> QED BY <3>3, <3>4 DEF l
    <2>4. \A l \in links' :
             /\ l \in links /\ ~(l.vehicle = w.vehicle /\ l.rider = w.rider)
             /\ l \in [vehicle : Ids, rider : People, front : BOOLEAN]
             /\ l.vehicle \in DOMAIN actors' /\ (l.rider \in DOMAIN actors' \cup {Me})
             /\ \A m \in links' : l.rider = m.rider => l = m
      BY <1>8, <2>1
    <2>5. Shown
      BY <1>10, <1>15, <2>1, <2>3, <2>4
    <2> QED BY <1>7, <2>5
  <1>16. CASE w.op = "link"
    <2> DEFINE new == [vehicle |-> w.vehicle, rider |-> w.rider, front |-> w.front]
    <2>1. /\ w.vehicle \in DOMAIN actors /\ w.rider \in DOMAIN actors \cup {Me}
          /\ w.vehicle \in DOMAIN passengers /\ w.rider \in ToSet(passengers[w.vehicle])
          /\ \A v \in Ids : v # w.vehicle /\ w.rider \in ToSet(riders[v]) => v \in owed
          /\ w.vehicle \in owed \/ \E k \in DOMAIN riders[w.vehicle] : riders[w.vehicle][k] = w.rider /\ w.front = (k = 1)
      BY <1>1, <1>16 DEF LinkInv
    <2>2. w.vehicle \in Ids /\ w.rider \in People /\ w.front \in BOOLEAN
      <3>1. w \in Packet
        BY <1>1
      <3> HIDE DEF w
      <3> QED BY <1>16, <3>1, Packets
    <2>3. actors' = actors /\ links' = {l \in links : l.rider # w.rider} \cup {new}
      <3> HIDE DEF w
      <3> QED BY <1>1, <1>16, <2>1, ReceiveLink DEF Has
    <2>4. \A v \in Ids : Distinct(riders[v])
      BY DEF Tab, RiderInv
    <2>k. DOMAIN actors \subseteq Ids
      BY DEF ActorInv
    <2>5. /\ new.vehicle = w.vehicle /\ new.rider = w.rider /\ new.front = w.front
          /\ new \in [vehicle : Ids, rider : People, front : BOOLEAN]
      BY <2>2
    <2> HIDE DEF w, Removing, Links
    <2>6. \A v \in DOMAIN actors' \ owed : \A i \in DOMAIN riders[v] : \A r :
             r = riders[v][i] /\ r \in DOMAIN actors' \cup {Me} =>
               \/ [vehicle |-> v, rider |-> r, front |-> (i = 1)] \in links'
               \/ \E j \in DOMAIN javaWrites' : Links(j, "link", v, r)'
               \/ Removing(v)' \/ Removing(r)'
      <3> TAKE v \in DOMAIN actors' \ owed
      <3> TAKE i \in DOMAIN riders[v]
      <3> TAKE r
      <3> HAVE r = riders[v][i] /\ r \in DOMAIN actors' \cup {Me}
      <3>0. v \in Ids /\ v \in DOMAIN actors \ owed /\ r \in DOMAIN actors \cup {Me}
        BY <2>3, <2>k
      <3>1. CASE r = w.rider
        <4>1. r \in ToSet(riders[v])
          BY DEF ToSet
        <4>2. v = w.vehicle
          BY <2>1, <3>0, <3>1, <4>1
        <4>3. PICK k \in DOMAIN riders[v] : riders[v][k] = r /\ w.front = (k = 1)
          BY <2>1, <3>0, <3>1, <4>2
        <4>4. k = i
          BY <2>4, <3>0, <4>3 DEF Distinct
        <4>5. new = [vehicle |-> v, rider |-> r, front |-> (i = 1)]
          BY <3>1, <4>2, <4>3, <4>4
        <4> QED BY <2>3, <4>5
      <3>2. CASE r # w.rider
        <4> DEFINE l == [vehicle |-> v, rider |-> r, front |-> (i = 1)]
        <4>1. l \in links => l \in links'
          BY <2>3, <3>2
        <4> HIDE DEF l
        <4>2. \/ l \in links
              \/ \E j \in DOMAIN javaWrites' : Links(j, "link", v, r)'
              \/ Removing(v)' \/ Removing(r)'
          BY <1>11, <1>16, <3>0, <3>2 DEF l
        <4> QED BY <4>1, <4>2 DEF l
      <3> QED BY <3>1, <3>2
    <2> HIDE DEF new
    <2>7. \A l \in links' :
             /\ l = new \/ (l \in links /\ l.rider # w.rider)
             /\ l \in [vehicle : Ids, rider : People, front : BOOLEAN]
             /\ l.vehicle \in DOMAIN actors' /\ (l.rider \in DOMAIN actors' \cup {Me})
             /\ \A m \in links' : l.rider = m.rider => l = m
      BY <1>8, <2>1, <2>3, <2>5
    <2>8. /\ new.vehicle \in DOMAIN passengers /\ new.rider \in ToSet(passengers[new.vehicle])
          /\ \/ new.vehicle \in owed
             \/ \E i \in DOMAIN riders[new.vehicle] : riders[new.vehicle][i] = new.rider /\ new.front = (i = 1)
      BY <2>1, <2>5
    <2>9. Shown
      BY <1>10, <1>16, <2>3, <2>6, <2>7, <2>8
    <2> QED BY <1>7, <2>9
  <1>17. CASE w.op \notin {"add", "remove", "dimension", "link", "unlink"}
    <2>1. DOMAIN actors' = DOMAIN actors /\ links' = links
      <3>0. w.op = "move" \/ w.op = "size" \/ (w.op \notin {"add", "remove", "dimension", "link", "unlink", "move", "size"})
        BY <1>17
      <3>1. \A id \in DOMAIN actors : actors[id] \in [at : Int, item : Item]
        BY DEF ActorInv
      <3>2. w.op = "size" => w.id \in DOMAIN actors
        BY <1>1 DEF ActorInv
      <3>3. Receive(w)
        BY <1>1
      <3> HIDE DEF w
      <3>4. CASE w.op = "move"
        BY <3>3, <3>4, ReceiveMove
      <3>5. CASE w.op = "size"
        BY <3>2, <3>3, <3>5, ReceiveSize
      <3>6. CASE w.op \notin {"add", "remove", "dimension", "link", "unlink", "move", "size"}
        BY <3>3, <3>6 DEF Receive
      <3> QED BY <3>0, <3>4, <3>5, <3>6
    <2> HIDE DEF w, Removing, Links
    <2>2. \A l \in links' :
             /\ l \in [vehicle : Ids, rider : People, front : BOOLEAN]
             /\ l.vehicle \in DOMAIN actors' /\ (l.rider \in DOMAIN actors' \cup {Me})
             /\ \A m \in links' : l.rider = m.rider => l = m
      BY <1>8, <2>1
    <2>3. Shown
      BY <1>10, <1>11, <1>17, <2>1, <2>2
    <2> QED BY <1>7, <2>3
  <1> QED BY <1>12, <1>13, <1>14, <1>15, <1>16, <1>17

\* The server seats somebody: what is on its way is still right, or will be told.
LEMMA LinkSeating ==
    ASSUME Tab, WritesTyped, ActorInv, LinkInv, Seating
    PROVE  LinkInv'
  <1>1. /\ UNCHANGED <<world, gone, passengers, javaWrites, actors, links>>
        /\ owed \subseteq owed'
        /\ \A v \in DOMAIN world \ (gone \cup owed') : riders'[v] = riders[v]
        /\ \A v \in Ids \ owed' : ToSet(riders'[v]) \subseteq ToSet(riders[v])
    BY DEF Seating
  <1>2. \A v \in DOMAIN actors \ owed' : Removing(v) \/ riders'[v] = riders[v]
    BY <1>1, ActorsWanted
  <1>3. \A v : Removing(v)' <=> Removing(v)
    BY <1>1 DEF Removing
  <1>4. \A i, op, v, r : Links(i, op, v, r)' <=> Links(i, op, v, r)
    BY <1>1 DEF Links
  <1>5. \A l \in links :
             /\ l \in [vehicle : Ids, rider : People, front : BOOLEAN]
             /\ l.vehicle \in DOMAIN actors /\ (l.rider \in DOMAIN actors \cup {Me})
             /\ \/ Removing(l.vehicle) \/ Removing(l.rider)
                \/ l.vehicle \in DOMAIN passengers /\ l.rider \in ToSet(passengers[l.vehicle])
                \/ \E i \in DOMAIN javaWrites : Links(i, "unlink", l.vehicle, l.rider)
             /\ \/ Removing(l.vehicle) \/ Removing(l.rider)
                \/ l.vehicle \in owed
                \/ \E i \in DOMAIN riders[l.vehicle] : riders[l.vehicle][i] = l.rider /\ l.front = (i = 1)
                \/ \E i \in DOMAIN javaWrites : javaWrites[i].op \in {"link", "unlink"}
                       /\ javaWrites[i].vehicle = l.vehicle /\ javaWrites[i].rider = l.rider
             /\ \A m \in links : l.rider = m.rider => l = m
    BY DEF LinkInv
  <1>6. \A v \in DOMAIN actors \ owed' : \A i \in DOMAIN riders'[v] : \A r :
             r = riders'[v][i] /\ r \in DOMAIN actors \cup {Me} =>
               \/ [vehicle |-> v, rider |-> r, front |-> (i = 1)] \in links
               \/ \E j \in DOMAIN javaWrites : Links(j, "link", v, r)
               \/ Removing(v) \/ Removing(r)
    <2> HIDE DEF Removing, Links
    <2>1. \A v \in DOMAIN actors \ owed : \A i \in DOMAIN riders[v] : \A r :
             r = riders[v][i] /\ r \in DOMAIN actors \cup {Me} =>
               \/ [vehicle |-> v, rider |-> r, front |-> (i = 1)] \in links
               \/ \E j \in DOMAIN javaWrites : Links(j, "link", v, r)
               \/ Removing(v) \/ Removing(r)
      BY DEF LinkInv, Has
    <2> QED BY <1>1, <1>2, <2>1
  <1>7. \A i \in DOMAIN javaWrites : javaWrites[i].op \in {"link", "unlink"} => javaWrites[i].vehicle \in Ids
    <2>1. \A i \in DOMAIN javaWrites : javaWrites[i] \in Packet
      BY DEF WritesTyped
    <2> QED BY <2>1, Packets
  <1>8. \A i \in DOMAIN javaWrites : javaWrites[i].op = "unlink" =>
          javaWrites[i].vehicle \in owed' \/ javaWrites[i].rider \notin ToSet(riders'[javaWrites[i].vehicle])
    <2>1. \A i \in DOMAIN javaWrites : javaWrites[i].op = "unlink" =>
          javaWrites[i].vehicle \in owed \/ javaWrites[i].rider \notin ToSet(riders[javaWrites[i].vehicle])
      BY DEF LinkInv
    <2> QED BY <1>1, <1>7, <2>1
  <1>9. \A i \in DOMAIN javaWrites : javaWrites[i].op = "link" =>
         LET m == javaWrites[i] IN
         /\ m.vehicle \in DOMAIN actors /\ m.rider \in DOMAIN actors \cup {Me}
         /\ m.vehicle \in DOMAIN passengers /\ m.rider \in ToSet(passengers[m.vehicle])
         /\ \A v \in Ids : v # m.vehicle /\ m.rider \in ToSet(riders'[v]) => v \in owed'
         /\ m.vehicle \in owed' \/ \E k \in DOMAIN riders'[m.vehicle] : riders'[m.vehicle][k] = m.rider /\ m.front = (k = 1)
         /\ \A j \in DOMAIN javaWrites : javaWrites[j].op \in {"link", "unlink", "skip"}
         /\ \A j \in DOMAIN javaWrites : j # i /\ javaWrites[j].op \in {"link", "unlink"} => javaWrites[j].rider # m.rider
    <2> TAKE i \in DOMAIN javaWrites
    <2> HAVE javaWrites[i].op = "link"
    <2> DEFINE m == javaWrites[i]
    <2>1. /\ m.vehicle \in DOMAIN actors /\ m.rider \in DOMAIN actors \cup {Me}
          /\ m.vehicle \in DOMAIN passengers /\ m.rider \in ToSet(passengers[m.vehicle])
          /\ \A v \in Ids : v # m.vehicle /\ m.rider \in ToSet(riders[v]) => v \in owed
          /\ m.vehicle \in owed \/ \E k \in DOMAIN riders[m.vehicle] : riders[m.vehicle][k] = m.rider /\ m.front = (k = 1)
          /\ \A j \in DOMAIN javaWrites : javaWrites[j].op \in {"link", "unlink", "skip"}
          /\ \A j \in DOMAIN javaWrites : j # i /\ javaWrites[j].op \in {"link", "unlink"} => javaWrites[j].rider # m.rider
      BY DEF LinkInv
    <2>2. ~Removing(m.vehicle)
      BY <2>1 DEF Removing
    <2> HIDE DEF m, Removing
    <2>3. m.vehicle \in owed' \/ riders'[m.vehicle] = riders[m.vehicle]
      BY <1>2, <2>1, <2>2
    <2>4. m.vehicle \in owed' \/ \E k \in DOMAIN riders'[m.vehicle] : riders'[m.vehicle][k] = m.rider /\ m.front = (k = 1)
      BY <1>1, <2>1, <2>3
    <2>5. \A v \in Ids : v # m.vehicle /\ m.rider \in ToSet(riders'[v]) => v \in owed'
      BY <1>1, <2>1
    <2> QED BY <2>1, <2>4, <2>5 DEF m
  <1>10. \A l \in links :
             \/ Removing(l.vehicle) \/ Removing(l.rider)
             \/ l.vehicle \in owed'
             \/ \E i \in DOMAIN riders'[l.vehicle] : riders'[l.vehicle][i] = l.rider /\ l.front = (i = 1)
             \/ \E i \in DOMAIN javaWrites : javaWrites[i].op \in {"link", "unlink"}
                    /\ javaWrites[i].vehicle = l.vehicle /\ javaWrites[i].rider = l.rider
    <2> HIDE DEF Removing, Links
    <2> QED BY <1>1, <1>2, <1>5
  <1>11. \A v \in DOMAIN actors' \ owed' : \A i \in DOMAIN riders'[v] :
             Has(riders[v][i])' =>
               \/ [vehicle |-> v, rider |-> riders'[v][i], front |-> (i = 1)] \in links'
               \/ \E j \in DOMAIN javaWrites' : Links(j, "link", v, riders[v][i])'
               \/ Removing(v)' \/ Removing(riders[v][i])'
    BY <1>1, <1>6 DEF Removing, Links, Has
  <1>12. \A l \in links' :
             /\ l \in [vehicle : Ids, rider : People, front : BOOLEAN]
             /\ l.vehicle \in DOMAIN actors' /\ (l.rider \in DOMAIN actors' \cup {Me})
             /\ \/ Removing(l.vehicle)' \/ Removing(l.rider)'
                \/ l.vehicle \in DOMAIN passengers' /\ l.rider \in ToSet(passengers'[l.vehicle])
                \/ \E i \in DOMAIN javaWrites' : Links(i, "unlink", l.vehicle, l.rider)'
             /\ \/ Removing(l.vehicle)' \/ Removing(l.rider)'
                \/ l.vehicle \in owed'
                \/ \E i \in DOMAIN riders'[l.vehicle] : riders'[l.vehicle][i] = l.rider /\ l.front = (i = 1)
                \/ \E i \in DOMAIN javaWrites' : javaWrites'[i].op \in {"link", "unlink"}
                       /\ javaWrites'[i].vehicle = l.vehicle /\ javaWrites'[i].rider = l.rider
             /\ \A m \in links' : l.rider = m.rider => l = m
    <2> HIDE DEF Removing, Links
    <2> QED BY <1>1, <1>3, <1>4, <1>5, <1>10
  <1> HIDE DEF Removing, Links, Has
  <1> QED BY <1>1, <1>8, <1>9, <1>11, <1>12 DEF LinkInv

\* An entity is removed: its links go with its actor.
LEMMA LinkTaken ==
    ASSUME Tab, WritesTyped, ActorInv, LinkInv, NEW id, Taking(id)
    PROVE  LinkInv'
  <1>1. /\ javaWrites = <<>> /\ UNCHANGED <<actors, links, nature>> /\ id \in DOMAIN world
        /\ DOMAIN world' = DOMAIN world \ {id} /\ gone' = gone \ {id}
        /\ passengers' = Drop(passengers, {id})
        /\ owed \ {id} \subseteq owed'
        /\ \A v \in DOMAIN world' \ (gone' \cup owed') : riders'[v] = riders[v]
    BY DEF Taking, client
  <1>2. /\ \A v : ~Removing(v)
        /\ \A i \in DOMAIN javaWrites' : javaWrites'[i].op \in {"remove", "noframe", "boost"}
    BY <1>1, TakenOps, Listed DEF Removing
  <1>3. \A v \in DOMAIN actors : v \in DOMAIN world \ gone /\ Want(v)
    BY <1>2, ActorsWanted
  <1>4. ASSUME id \in DOMAIN actors PROVE Removing(id)'
    <2>1. /\ id \in DOMAIN entities /\ entities[id].shown /\ nature[id] # "frame"
      BY <1>3, <1>4 DEF Want
    <2>2. Writes(<<Boost(FALSE), RemoveActor(id)>>) \/ Writes(<<RemoveActor(id)>>)
      BY <2>1, Takes
    <2> DEFINE b == Boost(FALSE)
               w == RemoveActor(id)
    <2>3. javaWrites' = <<b, w>> \/ javaWrites' = <<w>>
      BY <2>2, Written
    <2>4. w.op = "remove" /\ w.id = id
      BY Ops
    <2> HIDE DEF b, w
    <2>5. \E i \in DOMAIN javaWrites' : javaWrites'[i] = w
      BY <2>3, Listed
    <2> QED BY <2>4, <2>5 DEF Removing
  <1>5. \A v \in DOMAIN actors \ owed' : v = id \/ (riders'[v] = riders[v] /\ v \notin owed)
    BY <1>1, <1>3
  <1>6. \A v : v # id => (v \in DOMAIN passengers => v \in DOMAIN passengers' /\ passengers'[v] = passengers[v])
    BY <1>1 DEF Drop
  <1>7. \A l \in links :
                /\ l \in [vehicle : Ids, rider : People, front : BOOLEAN]
                /\ l.vehicle \in DOMAIN actors /\ (l.rider \in DOMAIN actors \cup {Me})
                /\ l.vehicle \in DOMAIN passengers /\ l.rider \in ToSet(passengers[l.vehicle])
                /\ \/ l.vehicle \in owed
                   \/ \E i \in DOMAIN riders[l.vehicle] : riders[l.vehicle][i] = l.rider /\ l.front = (i = 1)
                /\ \A m \in links : l.rider = m.rider => l = m
    BY <1>1, LinksSettled
  <1>8. \A v \in DOMAIN actors \ owed : \A i \in DOMAIN riders[v] : \A r :
                r = riders[v][i] /\ r \in DOMAIN actors \cup {Me} => [vehicle |-> v, rider |-> r, front |-> (i = 1)] \in links
    BY <1>1, LinksSettled DEF Has
  <1> HIDE DEF Removing, Links
  <1>9. \A l \in links' :
             /\ l \in [vehicle : Ids, rider : People, front : BOOLEAN]
             /\ l.vehicle \in DOMAIN actors' /\ (l.rider \in DOMAIN actors' \cup {Me})
             /\ \/ Removing(l.vehicle)' \/ Removing(l.rider)'
                \/ l.vehicle \in DOMAIN passengers' /\ l.rider \in ToSet(passengers'[l.vehicle])
             /\ \/ Removing(l.vehicle)' \/ Removing(l.rider)'
                \/ l.vehicle \in owed'
                \/ \E i \in DOMAIN riders'[l.vehicle] : riders'[l.vehicle][i] = l.rider /\ l.front = (i = 1)
             /\ \A m \in links' : l.rider = m.rider => l = m
    <2> TAKE l \in links'
    <2>1. l \in links
      BY <1>1
    <2>2. CASE l.vehicle = id
      <3>1. Removing(id)'
        BY <1>4, <1>7, <2>1, <2>2
      <3> QED BY <1>1, <1>7, <2>1, <2>2, <3>1
    <2>3. CASE l.vehicle # id
      <3>1. l.vehicle \in DOMAIN passengers' /\ l.rider \in ToSet(passengers'[l.vehicle])
        BY <1>6, <1>7, <2>1, <2>3
      <3>2. \/ l.vehicle \in owed'
            \/ \E i \in DOMAIN riders'[l.vehicle] : riders'[l.vehicle][i] = l.rider /\ l.front = (i = 1)
        <4>1. CASE l.vehicle \in owed'
          BY <4>1
        <4>2. CASE l.vehicle \notin owed'
          <5>1. riders'[l.vehicle] = riders[l.vehicle] /\ l.vehicle \notin owed
            BY <1>5, <1>7, <2>1, <2>3, <4>2
          <5> QED BY <1>7, <2>1, <5>1
        <4> QED BY <4>1, <4>2
      <3> QED BY <1>1, <1>7, <2>1, <3>1, <3>2
    <2> QED BY <2>2, <2>3
  <1>10. \A v \in DOMAIN actors' \ owed' : \A i \in DOMAIN riders'[v] :
             Has(riders[v][i])' =>
               \/ [vehicle |-> v, rider |-> riders'[v][i], front |-> (i = 1)] \in links'
               \/ Removing(v)'
    <2> TAKE v \in DOMAIN actors' \ owed'
    <2> TAKE i \in DOMAIN riders'[v]
    <2> HAVE Has(riders[v][i])'
    <2>1. CASE v = id
      BY <1>1, <1>4, <2>1
    <2>2. CASE v # id
      <3>1. v \in DOMAIN actors \ owed /\ riders'[v] = riders[v] /\ riders'[v][i] \in DOMAIN actors \cup {Me}
        BY <1>1, <1>5, <2>2 DEF Has
      <3> QED BY <1>1, <1>8, <3>1
    <2> QED BY <2>1, <2>2
  <1> HIDE DEF Has
  <1> QED BY <1>2, <1>9, <1>10 DEF LinkInv

\* The passengers of a vehicle are told: the links of those who left go, and there is
\* one for each of those who sit in it and are known.
LEMMA LinkTold ==
    ASSUME Tab, WritesTyped, ActorInv, LinkInv, NEW v \in Ids, SetPassengers(v)
    PROVE  LinkInv'
  <1>1. /\ v \in owed /\ owed' = owed \ {v} /\ gone = {}
        /\ passengers' = Put(passengers, v, riders[v])
        /\ UNCHANGED <<riders, entities>>
    BY PassengerTables
  <1>2. /\ javaWrites = <<>> /\ UNCHANGED <<actors, links>>
        /\ ~Known(v) => javaWrites' = <<>>
        /\ \A i \in DOMAIN javaWrites' :
                 \/ javaWrites'[i] = NoWrite
                 \/ \E r \in ToSet(ToldOf(v)) \ ToSet(riders[v]) : javaWrites'[i] = Unlink(v, r)
                 \/ \E k \in DOMAIN riders[v] : /\ Known(riders[v][k])
                                                /\ javaWrites'[i] = Link(v, riders[v][k], k = 1)
        /\ Known(v) =>
                 /\ \A r \in ToSet(ToldOf(v)) \ ToSet(riders[v]) :
                       \E i \in DOMAIN javaWrites' : javaWrites'[i] = Unlink(v, r)
                 /\ \A k \in DOMAIN riders[v] : Known(riders[v][k]) =>
                       \E i \in DOMAIN javaWrites' : javaWrites'[i] = Link(v, riders[v][k], k = 1)
        /\ \A i, j \in DOMAIN javaWrites' :
                 i # j /\ javaWrites'[i].op = "link" /\ javaWrites'[j].op \in {"link", "unlink"} =>
                    javaWrites'[i].rider # javaWrites'[j].rider
    BY LinksWritten DEF client
  <1>3. \A i \in DOMAIN javaWrites' :
           \/ javaWrites'[i].op = "skip"
           \/ /\ javaWrites'[i].op = "unlink" /\ javaWrites'[i].vehicle = v
              /\ javaWrites'[i].rider \notin ToSet(riders[v])
           \/ /\ javaWrites'[i].op = "link" /\ javaWrites'[i].vehicle = v
              /\ \E k \in DOMAIN riders[v] : /\ Known(riders[v][k]) /\ javaWrites'[i].rider = riders[v][k]
                                             /\ javaWrites'[i].front = (k = 1)
    <2> TAKE i \in DOMAIN javaWrites'
    <2>1. CASE javaWrites'[i] = NoWrite
      BY <2>1, Ops
    <2>2. CASE \E r \in ToSet(ToldOf(v)) \ ToSet(riders[v]) : javaWrites'[i] = Unlink(v, r)
      BY <2>2, Ops
    <2>3. ASSUME NEW k \in DOMAIN riders[v], Known(riders[v][k]), javaWrites'[i] = Link(v, riders[v][k], k = 1)
          PROVE  /\ javaWrites'[i].op = "link" /\ javaWrites'[i].vehicle = v
                 /\ javaWrites'[i].rider = riders[v][k] /\ javaWrites'[i].front = (k = 1)
      BY <2>3 DEF Link
    <2> QED BY <1>2, <2>1, <2>2, <2>3
  <1>4. Known(v) =>
           /\ \A r \in ToSet(ToldOf(v)) \ ToSet(riders[v]) :
                 \E i \in DOMAIN javaWrites' : Links(i, "unlink", v, r)'
           /\ \A k \in DOMAIN riders[v] : \A r : r = riders[v][k] /\ Known(r) =>
                 \E i \in DOMAIN javaWrites' : Links(i, "link", v, r)'
    <2>1. \A i \in DOMAIN javaWrites' : \A r : javaWrites'[i] = Unlink(v, r) => Links(i, "unlink", v, r)'
      BY Ops DEF Links
    <2>2. \A i \in DOMAIN javaWrites' : \A r, f : javaWrites'[i] = Link(v, r, f) => Links(i, "link", v, r)'
      BY DEF Links, Link
    <2> HIDE DEF Links
    <2> QED BY <1>2, <2>1, <2>2
  <1>5. /\ \A l \in links :
                /\ l \in [vehicle : Ids, rider : People, front : BOOLEAN]
                /\ l.vehicle \in DOMAIN actors /\ (l.rider \in DOMAIN actors \cup {Me})
                /\ l.vehicle \in DOMAIN passengers /\ l.rider \in ToSet(passengers[l.vehicle])
                /\ \/ l.vehicle \in owed
                   \/ \E i \in DOMAIN riders[l.vehicle] : riders[l.vehicle][i] = l.rider /\ l.front = (i = 1)
                /\ \A m \in links : l.rider = m.rider => l = m
        /\ \A u \in DOMAIN actors \ owed : \A i \in DOMAIN riders[u] :
                Has(riders[u][i]) => [vehicle |-> u, rider |-> riders[u][i], front |-> (i = 1)] \in links
    BY <1>2, LinksSettled
  <1>6. \A id \in Ids : id \in DOMAIN actors <=> Want(id)
    BY <1>2, ActorsSettled
  <1>k. DOMAIN actors \subseteq Ids /\ Me \notin Ids /\ DOMAIN entities \subseteq Ids /\ v # Me
    BY EntitiesAssumption DEF ActorInv, Tab, BridgeEntities, ServerEntities
  <1>7. \A id : Has(id) => Known(id)
    BY <1>6, <1>k DEF Has, Known, Want
  <1>8. \A k \in DOMAIN riders[v] : /\ Known(v) => v \in DOMAIN actors
                                    /\ Known(riders[v][k]) => Has(riders[v][k])
    <2>1. \A k \in DOMAIN riders[v] : riders[v][k] \in ToSet(riders[v]) /\ riders[v] # <<>>
      BY Listed DEF ToSet
    <2>2. riders[v] # <<>> => /\ v \in DOMAIN entities <=> v \in DOMAIN actors
                              /\ \A r \in ToSet(riders[v]) : Known(r) <=> Has(r)
      BY <1>1, <1>2, RidersShown
    <2> QED BY <1>k, <2>1, <2>2 DEF Known
  <1>9. /\ v \in DOMAIN passengers' /\ passengers'[v] = riders[v]
        /\ \A u \in DOMAIN passengers : u # v => u \in DOMAIN passengers' /\ passengers'[u] = passengers[u]
    BY <1>1 DEF Put
  <1> HIDE DEF Links, Want
  <1>10. \A l \in links' :
             /\ l \in [vehicle : Ids, rider : People, front : BOOLEAN]
             /\ l.vehicle \in DOMAIN actors' /\ (l.rider \in DOMAIN actors' \cup {Me})
             /\ \/ l.vehicle \in DOMAIN passengers' /\ l.rider \in ToSet(passengers'[l.vehicle])
                \/ \E i \in DOMAIN javaWrites' : Links(i, "unlink", l.vehicle, l.rider)'
             /\ \/ l.vehicle \in owed'
                \/ \E i \in DOMAIN riders'[l.vehicle] : riders'[l.vehicle][i] = l.rider /\ l.front = (i = 1)
                \/ \E i \in DOMAIN javaWrites' : javaWrites'[i].op \in {"link", "unlink"}
                       /\ javaWrites'[i].vehicle = l.vehicle /\ javaWrites'[i].rider = l.rider
             /\ \A m \in links' : l.rider = m.rider => l = m
    <2> TAKE l \in links'
    <2>1. l \in links
      BY <1>2
    <2>2. CASE l.vehicle # v
      BY <1>1, <1>2, <1>5, <1>9, <2>1, <2>2
    <2>3. CASE l.vehicle = v
      <3>1. Known(v) /\ Known(l.rider) /\ l.rider \in ToSet(ToldOf(v))
        BY <1>5, <1>7, <2>1, <2>3 DEF Has, ToldOf
      <3>2. CASE l.rider \in ToSet(riders[v])
        <4>1. PICK k \in DOMAIN riders[v] : riders[v][k] = l.rider
          BY <3>2 DEF ToSet
        <4>2. PICK i \in DOMAIN javaWrites' : Links(i, "link", v, l.rider)'
          BY <1>4, <3>1, <4>1
        <4> QED BY <1>2, <1>5, <1>9, <2>1, <2>3, <3>2, <4>2 DEF Links
      <3>3. CASE l.rider \notin ToSet(riders[v])
        <4>1. PICK i \in DOMAIN javaWrites' : Links(i, "unlink", v, l.rider)'
          BY <1>4, <3>1, <3>3
        <4> QED BY <1>2, <1>5, <2>1, <2>3, <4>1 DEF Links
      <3> QED BY <3>2, <3>3
    <2> QED BY <2>2, <2>3
  <1>11. \A i \in DOMAIN javaWrites' : javaWrites'[i].op = "link" =>
         LET m == javaWrites'[i] IN
         /\ m.vehicle \in DOMAIN actors' /\ m.rider \in DOMAIN actors' \cup {Me}
         /\ m.vehicle \in DOMAIN passengers' /\ m.rider \in ToSet(passengers'[m.vehicle])
         /\ \A u \in Ids : u # m.vehicle /\ m.rider \in ToSet(riders'[u]) => u \in owed'
         /\ m.vehicle \in owed' \/ \E k \in DOMAIN riders'[m.vehicle] : riders'[m.vehicle][k] = m.rider /\ m.front = (k = 1)
         /\ \A j \in DOMAIN javaWrites' : javaWrites'[j].op \in {"link", "unlink", "skip"}
         /\ \A j \in DOMAIN javaWrites' : j # i /\ javaWrites'[j].op \in {"link", "unlink"} => javaWrites'[j].rider # m.rider
    <2> TAKE i \in DOMAIN javaWrites'
    <2> HAVE javaWrites'[i].op = "link"
    <2> DEFINE m == javaWrites'[i]
    <2>1. m.vehicle = v /\ \E k \in DOMAIN riders[v] : /\ Known(riders[v][k]) /\ m.rider = riders[v][k]
                                                        /\ m.front = (k = 1)
      BY <1>3
    <2>2. /\ \A j \in DOMAIN javaWrites' : javaWrites'[j].op \in {"link", "unlink", "skip"}
          /\ \A j \in DOMAIN javaWrites' : j # i /\ javaWrites'[j].op \in {"link", "unlink"} => javaWrites'[j].rider # m.rider
      BY <1>2, <1>3
    <2>3. Known(v)
      <3>1. DOMAIN <<>> = {}
        BY Listed
      <3> QED BY <1>2, <3>1
    <2> HIDE DEF m
    <2>4. PICK k \in DOMAIN riders[v] : Known(riders[v][k]) /\ m.rider = riders[v][k] /\ m.front = (k = 1)
      BY <2>1
    <2>5. m.rider \in ToSet(riders[v])
      BY <2>4 DEF ToSet
    <2>6. \A u \in Ids : m.rider \in ToSet(riders[u]) => u = v
      BY <2>5 DEF Tab, RiderInv
    <2>7. m.vehicle \in DOMAIN actors' /\ m.rider \in DOMAIN actors' \cup {Me}
      BY <1>2, <1>8, <2>1, <2>3, <2>4 DEF Has
    <2>8. m.vehicle \in DOMAIN passengers' /\ m.rider \in ToSet(passengers'[m.vehicle])
      BY <1>9, <2>1, <2>5
    <2>9. \E n \in DOMAIN riders'[m.vehicle] : riders'[m.vehicle][n] = m.rider /\ m.front = (n = 1)
      BY <1>1, <2>1, <2>4
    <2> QED BY <1>1, <2>1, <2>2, <2>6, <2>7, <2>8, <2>9 DEF m
  <1>12. \A i \in DOMAIN javaWrites' : javaWrites'[i].op = "unlink" =>
          javaWrites'[i].vehicle \in owed' \/ javaWrites'[i].rider \notin ToSet(riders'[javaWrites'[i].vehicle])
    BY <1>1, <1>3
  <1>13. \A u \in DOMAIN actors' \ owed' : \A i \in DOMAIN riders'[u] :
             Has(riders[u][i])' =>
               \/ [vehicle |-> u, rider |-> riders'[u][i], front |-> (i = 1)] \in links'
               \/ \E j \in DOMAIN javaWrites' : Links(j, "link", u, riders[u][i])'
    <2> TAKE u \in DOMAIN actors' \ owed'
    <2> TAKE i \in DOMAIN riders'[u]
    <2> HAVE Has(riders[u][i])'
    <2>1. riders' = riders /\ Has(riders[u][i])
      BY <1>1, <1>2 DEF Has
    <2>2. CASE u # v
      BY <1>1, <1>2, <1>5, <2>1, <2>2
    <2>3. CASE u = v
      <3>1. Known(v) /\ Known(riders[v][i])
        BY <1>2, <1>7, <1>k, <2>1, <2>3 DEF Has
      <3>2. PICK j \in DOMAIN javaWrites' : \A r : r = riders[v][i] => Links(j, "link", v, r)'
        BY <1>4, <2>1, <2>3, <3>1
      <3>3. Links(j, "link", u, riders[u][i])'
        BY <2>1, <2>3, <3>2 DEF Links
      <3> QED BY <3>3
    <2> QED BY <2>2, <2>3
  <1> HIDE DEF Has, Removing
  <1> QED BY <1>10, <1>11, <1>12, <1>13 DEF LinkInv

\* Every step keeps the links right.
LEMMA LinkKept ==
    ASSUME Tab, WritesTyped, ActorInv, NewInv, LinkInv, Step
    PROVE  LinkInv'
  <1>4. CASE UNCHANGED entityVars
    <2>1. UNCHANGED <<links, passengers, riders, owed, javaWrites>> /\ DOMAIN actors' = DOMAIN actors
      BY <1>4 DEF entityVars, tables, client, server
    <2> QED BY <2>1, LinksSame
  <1>5. CASE WriteJava
    BY <1>5, LinkWritten
  <1>6. CASE WriteTick
    <2> DEFINE w == tickWrites[1]
    <2>1. UNCHANGED <<passengers, riders, owed, javaWrites>> /\ w.op = "move" /\ Receive(w)
      BY <1>6, Pops DEF tables, server
    <2>2. links' = links /\ DOMAIN actors' = DOMAIN actors
      <3> HIDE DEF w
      <3> QED BY <2>1, ReceiveMove
    <2> QED BY <2>1, <2>2, LinksSame
  <1>7. CASE TickProjectiles
    <2>1. UNCHANGED <<links, passengers, riders, owed, javaWrites>> /\ DOMAIN actors' = DOMAIN actors
      BY <1>7, TickSteps
    <2> QED BY <2>1, LinksSame
  <1>8. CASE \E id, e : Spawning(id, e)
    <2>1. PICK id, e : Spawning(id, e)
      BY <1>8
    <2>2. UNCHANGED <<links, actors, riders, passengers>> /\ owed \subseteq owed' /\ javaWrites = <<>>
      BY <2>1 DEF Spawning, client
    <2>3. \A i \in DOMAIN javaWrites' : javaWrites'[i].op \notin {"link", "unlink"}
      <3> DEFINE w == AddActor(id, e.at, NoItem)
                 b == ListPlayer(e.uuid)
                 f == Frame(e.cell, NoItem)
                 Kinds == {"add", "list", "frame"}
      <3>1. w.op \in Kinds /\ b.op \in Kinds /\ f.op \in Kinds
        BY Ops
      <3>2. Writes(<<>>) \/ Writes(<<w>>) \/ Writes(<<b, w>>) \/ Writes(<<f>>)
        BY <2>1 DEF Spawning
      <3> HIDE DEF w, b, f, Kinds
      <3>3. \A i \in DOMAIN javaWrites' : javaWrites'[i].op \in Kinds
        BY <3>1, <3>2, OneOrTwo
      <3> QED BY <3>3 DEF Kinds
    <2> QED BY <2>2, <2>3, LinksLeft
  <1>9. CASE \E id : Describing(id)
    <2>1. PICK id : Describing(id)
      BY <1>9
    <2>2. UNCHANGED <<links, actors, riders, passengers>> /\ owed \subseteq owed' /\ javaWrites = <<>>
      BY <2>1 DEF Describing, client
    <2>3. \A i \in DOMAIN javaWrites' : javaWrites'[i].op \notin {"link", "unlink"}
      BY <2>1, DescribedOps
    <2> QED BY <2>2, <2>3, LinksLeft
  <1>10. CASE \E id : Moving(id)
    <2>1. PICK id : Moving(id)
      BY <1>10
    <2>2. /\ UNCHANGED <<links, actors, riders, passengers>> /\ owed \subseteq owed' /\ javaWrites = <<>>
          /\ Writes(<<>>) \/ Writes(<<MoveActor(id, entities'[id].at)>>)
      BY <2>1 DEF Moving, client
    <2>3. \A i \in DOMAIN javaWrites' : javaWrites'[i].op \notin {"link", "unlink"}
      BY <2>2, Written, Listed, Ops
    <2> QED BY <2>2, <2>3, LinksLeft
  <1>11. CASE \E id : Taking(id)
    BY <1>11, LinkTaken
  <1>12. CASE \E u \in Uuids, b \in BOOLEAN : PlayerInfo(u, b)
    <2>1. PICK u \in Uuids, b \in BOOLEAN : PlayerInfo(u, b)
      BY <1>12
    <2>2. /\ UNCHANGED <<links, actors, riders, passengers, owed>> /\ javaWrites = <<>>
          /\ Writes(<<ListPlayer(u)>>) \/ Writes(<<>>)
      BY <2>1 DEF PlayerInfo, Handles, server, Writes, client
    <2>3. \A i \in DOMAIN javaWrites' : javaWrites'[i].op \notin {"link", "unlink"}
      BY <2>2, Written, Listed, Ops
    <2> QED BY <2>2, <2>3, LinksLeft
  <1>13. CASE \E u \in Uuids : PlayerRemove(u)
    <2>1. PICK u \in Uuids : PlayerRemove(u)
      BY <1>13
    <2>2. UNCHANGED <<links, actors, riders, passengers, owed>> /\ javaWrites = <<>>
      BY <2>1, GoneTables, GoneWritten DEF client
    <2>3. \A i \in DOMAIN javaWrites' : javaWrites'[i].op \notin {"link", "unlink"}
      <3> TAKE i \in DOMAIN javaWrites'
      <3>1. javaWrites'[i] = UnlistPlayer(u) \/ javaWrites'[i] = RemoveActor(javaWrites'[i].id)
        BY <2>1, GoneWritten
      <3> QED BY <3>1, Ops
    <2> QED BY <2>2, <2>3, LinksLeft
  <1>14. CASE Seating
    BY <1>14, LinkSeating
  <1>15. CASE \E v \in Ids : SetPassengers(v)
    BY <1>15, LinkTold
  <1>16. CASE LeaveDimension
    <2>1. javaWrites = <<>> /\ UNCHANGED <<links, actors, riders, passengers, owed>> /\ javaWrites' = <<ChangeDimension>>
      BY <1>16, LeaveTables, Written DEF LeaveDimension, Handles
    <2>2. \A i \in DOMAIN javaWrites' : javaWrites'[i].op \notin {"link", "unlink"}
      BY <2>1, Listed, Ops
    <2> QED BY <2>1, <2>2, LinksLeft
  <1> QED BY <1>4, <1>5, <1>6, <1>7, <1>8, <1>9, <1>10, <1>11, <1>12, <1>13, <1>14, <1>15, <1>16 DEF Step

\* The inductive invariant of the behaviours.
Inv == /\ Tab /\ WritesTyped /\ ActorInv /\ FrameInv /\ PositionInv /\ BoostInv /\ ListInv
       /\ NewInv /\ LinkInv

\* The invariant holds at first.
LEMMA FirstInv ==
    ASSUME EntitiesInit
    PROVE  Inv
  <1>1. Tab
    BY FirstTables
  <1>2. DOMAIN <<>> = {}
    BY Listed
  <1>3. /\ javaWrites = <<>> /\ tickWrites = <<>> /\ world = <<>> /\ entities = <<>> /\ gone = {} /\ owed = {}
        /\ riders = [v \in Ids |-> <<>>]
        /\ players = <<>> /\ attachments = {} /\ actors = <<>> /\ frames = <<>> /\ links = {} /\ boosted = FALSE
        /\ listed = {} /\ overtaken = {}
    BY DEF EntitiesInit
  <1>4. WritesTyped
    BY <1>3, ShortQueues DEF WritesTyped
  <1>5. ActorInv
    BY <1>2, <1>3 DEF ActorInv, Want
  <1>6. FrameInv
    BY <1>2, <1>3 DEF FrameInv, Hung
  <1>7. PositionInv
    BY <1>2, <1>3 DEF PositionInv, Moved
  <1>8. BoostInv
    BY <1>2, <1>3 DEF BoostInv
  <1>9. ListInv
    BY <1>2, <1>3 DEF ListInv
  <1>10. NewInv
    BY <1>2, <1>3 DEF NewInv
  <1>11. LinkInv
    BY <1>2, <1>3 DEF LinkInv
  <1> QED BY <1>1, <1>4, <1>5, <1>6, <1>7, <1>8, <1>9, <1>10, <1>11 DEF Inv

\* Every step keeps it.
LEMMA InvKept ==
    ASSUME Inv, [EntitiesNext]_entityVars
    PROVE  Inv'
  <1>1. Tab' /\ Step
    BY Steps DEF Inv
  <1> QED BY <1>1, TypesKept, ActorKept, FrameKept, PositionKept, BoostKept, ListKept, NewKept, LinkKept DEF Inv

\* So it holds always.
LEMMA Invariance == EntitiesSpec => []Inv
  <1> QED BY FirstInv, InvKept, PTL DEF EntitiesSpec

\* It says of actors and frames what ActorsAgree does.
LEMMA ActorsFit == ASSUME Inv PROVE ActorsAgree
  <1> SUFFICES ASSUME Settled PROVE
        /\ DOMAIN entities \subseteq DOMAIN world
        /\ DOMAIN actors = {id \in DOMAIN entities \ gone :
                               entities[id].shown /\ entities[id].kind # "frame"}
        /\ \A id \in DOMAIN actors :
              /\ entities[id].kind = world[id].kind
              /\ actors[id].item = world[id].item
        /\ \A id \in DOMAIN world \ gone :
              world[id].kind \in {"mob", "arrow", "rocket"} => id \in DOMAIN actors
        /\ LET hung == {id \in DOMAIN world \ gone : world[id].kind = "frame"}
           IN  frames = [c \in {world[id].cell : id \in hung} |->
                           world[CHOOSE id \in hung : world[id].cell = c].item]
    BY DEF ActorsAgree
  <1>0. Tab /\ ActorInv /\ FrameInv /\ javaWrites = <<>>
    BY DEF Inv, Settled
  <1>1. /\ DOMAIN entities \subseteq DOMAIN world /\ DOMAIN world \subseteq Ids
        /\ \A id \in DOMAIN entities : entities[id].kind = nature[id]
        /\ \A id \in DOMAIN world : world[id].kind = nature[id]
    BY <1>0 DEF Tab, ServerEntities, BridgeEntities, Entity
  <1>2. \A id \in Ids : /\ id \in DOMAIN actors <=> Want(id)
                        /\ id \in DOMAIN actors => actors[id].item = world[id].item
    BY <1>0, ActorsSettled
  <1>3. DOMAIN actors \subseteq Ids
    BY <1>0 DEF ActorInv
  <1>4. DOMAIN actors = {id \in DOMAIN entities \ gone : entities[id].shown /\ entities[id].kind # "frame"}
    BY <1>1, <1>2, <1>3 DEF Want
  <1>5. \A id \in DOMAIN world \ gone : world[id].kind \in {"mob", "arrow", "rocket"} => id \in DOMAIN actors
    BY <1>0, <1>1, <1>4 DEF Tab, BridgeEntities
  <1>6. \A id \in DOMAIN actors : entities[id].kind = world[id].kind /\ actors[id].item = world[id].item
    BY <1>1, <1>2, <1>3, <1>4
  <1> DEFINE hung == {id \in DOMAIN world \ gone : world[id].kind = "frame"}
             F(c) == world[CHOOSE id \in hung : world[id].cell = c].item
             cells == {world[id].cell : id \in hung}
  <1>7. frames = [c \in cells |-> F(c)]
    <2>1. /\ \A c \in DOMAIN frames : \E id \in Ids : Hung(id) /\ world[id].cell = c
          /\ \A id \in Ids : Hung(id) => world[id].cell \in DOMAIN frames /\ frames[world[id].cell] = world[id].item
      BY <1>0, FramesSettled
    <2>2. \A id : id \in hung <=> Hung(id)
      BY <1>1 DEF Hung
    <2>3. \A i, j : Hung(i) /\ Hung(j) /\ world[i].cell = world[j].cell => i = j
      BY <1>0, Hanging
    <2>4. \A id : Hung(id) => id \in Ids
      BY <1>0, Hanging
    <2>5. frames = [c \in DOMAIN frames |-> frames[c]]
      BY <1>0 DEF FrameInv
    <2> HIDE DEF Hung
    <2>6. DOMAIN frames = cells
      BY <2>1, <2>2, <2>4
    <2>7. \A c \in DOMAIN frames : frames[c] = F(c)
      <3> TAKE c \in DOMAIN frames
      <3>1. PICK id \in hung : world[id].cell = c
        BY <2>1, <2>2
      <3> DEFINE k == CHOOSE j \in hung : world[j].cell = c
      <3>2. k \in hung /\ world[k].cell = c
        BY <3>1
      <3> HIDE DEF k, hung
      <3>3. k = id
        BY <2>2, <2>3, <3>1, <3>2
      <3>4. frames[c] = world[k].item
        BY <2>1, <2>2, <2>4, <3>1, <3>3
      <3> QED BY <3>4 DEF k
    <2> HIDE DEF cells, F
    <2> QED BY <2>5, <2>6, <2>7
  <1> QED BY <1>1, <1>4, <1>5, <1>6, <1>7

\* It says of positions what PositionsAgree does.
LEMMA PositionsFit == ASSUME Inv PROVE PositionsAgree
  <1> SUFFICES ASSUME Settled, tickWrites = <<>>, NEW id \in DOMAIN actors
               PROVE  /\ world[id].kind \notin Simulated =>
                            actors[id].at = world[id].at /\ entities[id].at = world[id].at
                      /\ id \notin overtaken => actors[id].at = entities[id].at
    BY DEF PositionsAgree
  <1>0. Tab /\ ActorInv /\ PositionInv /\ javaWrites = <<>>
    BY DEF Inv, Settled
  <1>1. id \in Ids /\ Want(id)
    BY <1>0, ActorsSettled DEF ActorInv
  <1>2. id \in DOMAIN entities /\ id \in DOMAIN world /\ world[id].kind = nature[id]
    BY <1>0, <1>1 DEF Tab, ServerEntities, BridgeEntities, Entity, Want
  <1>3. ~Moved(javaWrites, id) /\ ~Moved(tickWrites, id)
    BY <1>0, Listed DEF Moved
  <1>4. id \notin overtaken => actors[id].at = entities[id].at
    BY <1>0, <1>2, <1>3 DEF PositionInv
  <1>5. nature[id] \notin Simulated => id \notin overtaken /\ entities[id].at = world[id].at
    BY <1>0, <1>2 DEF PositionInv
  <1> QED BY <1>2, <1>4, <1>5

\* It says of riders what RidersAgree does.
LEMMA RidersFit == ASSUME Inv PROVE RidersAgree
  <1> DEFINE Seats(v) == {[vehicle |-> v, rider |-> riders[v][i], front |-> i = 1] :
                              i \in {j \in DOMAIN riders[v] : Has(riders[v][j])}}
  <1> SUFFICES ASSUME Settled, owed = {}
               PROVE  /\ links = UNION {Seats(v) : v \in DOMAIN actors}
                      /\ CurrentVehicles = Carries(Me)
                      /\ vehicle \in Carries(Me) \cup {NoVehicle}
    BY DEF RidersAgree
  <1>0. Tab /\ LinkInv /\ javaWrites = <<>>
    BY DEF Inv, Settled
  <1>1. /\ CurrentVehicles = Carries(Me)
        /\ vehicle \in Carries(Me) \cup {NoVehicle}
    BY <1>0, PlayersVehicle DEF Tab
  <1>2. /\ \A l \in links :
             /\ l \in [vehicle : Ids, rider : People, front : BOOLEAN]
             /\ l.vehicle \in DOMAIN actors /\ (l.rider \in DOMAIN actors \cup {Me})
             /\ \E i \in DOMAIN riders[l.vehicle] : riders[l.vehicle][i] = l.rider /\ l.front = (i = 1)
        /\ \A v \in DOMAIN actors : \A i \in DOMAIN riders[v] :
                Has(riders[v][i]) => [vehicle |-> v, rider |-> riders[v][i], front |-> (i = 1)] \in links
    BY <1>0, LinksSettled
  <1>3. ASSUME NEW l \in links PROVE l \in UNION {Seats(v) : v \in DOMAIN actors}
    <2>1. PICK i \in DOMAIN riders[l.vehicle] : riders[l.vehicle][i] = l.rider /\ l.front = (i = 1)
      BY <1>2
    <2>2. l = [vehicle |-> l.vehicle, rider |-> riders[l.vehicle][i], front |-> i = 1]
      BY <1>2, <2>1
    <2>3. Has(riders[l.vehicle][i])
      BY <1>2, <2>1 DEF Has
    <2>4. l \in Seats(l.vehicle)
      BY <2>2, <2>3
    <2> HIDE DEF Seats
    <2> QED BY <1>2, <2>4
  <1>4. ASSUME NEW v \in DOMAIN actors, NEW l \in Seats(v) PROVE l \in links
    BY <1>2, <1>4
  <1> HIDE DEF Seats
  <1>5. links = UNION {Seats(v) : v \in DOMAIN actors}
    BY <1>3, <1>4
  <1> QED BY <1>1, <1>5

\* It says of rockets what BoostAgrees does.
LEMMA BoostsFit == ASSUME Inv PROVE BoostAgrees
  <1>1. Settled => DOMAIN javaWrites = {}
    BY Listed DEF Settled
  <1> QED BY <1>1 DEF Inv, BoostInv, BoostAgrees

\* It says of players what PlayersListed does.
LEMMA PlayersFit == ASSUME Inv PROVE PlayersListed
  <1> SUFFICES ASSUME Settled
               PROVE  /\ \A id \in DOMAIN actors : world[id].kind = "player" => world[id].uuid \in listed
                      /\ {u \in DOMAIN players : players[u]} \subseteq listed
                      /\ listed \subseteq DOMAIN players
    BY DEF PlayersListed
  <1>0. Tab /\ ActorInv /\ ListInv /\ javaWrites = <<>> /\ DOMAIN javaWrites = {}
    BY Listed DEF Inv, Settled
  <1>1. \A id \in DOMAIN actors : /\ id \in DOMAIN entities /\ world[id].kind = nature[id]
                                  /\ entities[id].uuid = world[id].uuid
    <2>1. \A id \in DOMAIN actors : id \in Ids /\ Want(id)
      BY <1>0, ActorsSettled DEF ActorInv
    <2> QED BY <1>0, <2>1 DEF Tab, ServerEntities, BridgeEntities, Entity, Want
  <1>2. /\ \A u \in DOMAIN players : players[u] => u \in listed
        /\ listed \subseteq DOMAIN players
        /\ \A id \in DOMAIN entities : nature[id] = "player" => entities[id].uuid \in listed
    BY <1>0 DEF ListInv
  <1> QED BY <1>1, <1>2

\* With nothing left to write the client has an actor for each entity that has one, with
\* its item, and a block for each frame, and nothing else.
THEOREM ActorsCorrect == EntitiesSpec => []ActorsAgree
  <1> QED BY Invariance, ActorsFit, PTL

\* An actor the bridge does not move is where the server has it, and one it moves where
\* the bridge has it, unless a tick's write and a handler's passed each other.
THEOREM PositionsCorrect == EntitiesSpec => []PositionsAgree
  <1> QED BY Invariance, PositionsFit, PTL

\* Once the passengers are told, the client has exactly their links, the one who steers in
\* front, and a movement without a vehicle moves the vehicle of the player.
THEOREM RidersCorrect == EntitiesSpec => []RidersAgree
  <1> QED BY Invariance, RidersFit, PTL

\* The glide boost is on exactly while rockets are attached to the player.
THEOREM BoostCorrect == EntitiesSpec => []BoostAgrees
  <1> QED BY Invariance, BoostsFit, PTL

\* The client lists every player it shows, and nobody who has left.
THEOREM ListCorrect == EntitiesSpec => []PlayersListed
  <1> QED BY Invariance, PlayersFit, PTL
=============================================================================

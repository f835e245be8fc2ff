------------------------------- MODULE Blocks -------------------------------
(***************************************************************************)
(* Blocks and block entities (src/translate/block_state_context.go,        *)
(* mob_spawner.go and the block cases of translateJavaPacket).             *)
(*                                                                         *)
(* A Java block-entity update carries no block state, but the Bedrock tag  *)
(* needs it (the rotation of a skull, the colour of a banner).  The bridge *)
(* keeps no world; it remembers the states of the positions that have a    *)
(* block entity, and of the last positions that changed, in an LRU cache.  *)
(*                                                                         *)
(* The server is external and coherent: its packets tell what its world    *)
(* does, in order.  Only pumpJava runs these handlers and the packets come *)
(* and go in order, so that the server's change, the handler and what the  *)
(* client makes of its packets are one action.                             *)
(***************************************************************************)
EXTENDS Integers, Sequences, FiniteSets, SequencesExt, FiniteSetsExt

CONSTANTS
    Cells,           \* block positions
    Chunks,
    ChunkOf,         \* the chunk of a position, chunkForBlockPosition
    States,          \* Java block states, Air and Spawner among them
    EntityStates,    \* those of blocks with a block entity
    Registered,      \* those inside the generated registry
    Air, Spawner,
    Mobs,            \* what a spawner can hold
    CacheSize,       \* maxCachedJavaBlockStates, 32768 in the code
    MaxBlockPackets  \* bound on the packets of a behaviour

Unknown == -1
NoMob == "no mob"

ASSUME BlocksAssumption ==
    /\ IsFiniteSet(Cells)
    /\ ChunkOf \in [Cells -> Chunks]
    /\ States \subseteq Nat
    /\ Air \in Registered \ EntityStates
    /\ Spawner \in EntityStates \cap Registered
    /\ EntityStates \subseteq States /\ Registered \subseteq States
    /\ CacheSize \in Nat \ {0} /\ MaxBlockPackets \in Nat

VARIABLES
    world,           \* the server's world: block state and spawner content of every cell
    sentChunks,      \* chunks the server has sent and not unloaded
    blockStates,     \* Basic.blockStates: the LRU cache, oldest entry first
    blockEntityStates, \* Basic.blockEntityStates: cell -> state or Unknown
    blockEntityChunks, \* Basic.blockEntityChunks: chunk -> its cells
    clientCells,     \* blocks the client has
    clientMobs,      \* the content of the spawners the client has
    blockPackets     \* packets handled so far, for the bound

context == <<blockStates, blockEntityStates, blockEntityChunks>>
clientWorld == <<clientCells, clientMobs>>
blockVars == <<world, sentChunks, context, clientWorld, blockPackets>>

HasEntity(w, cell) == w[cell].state \in EntityStates
CellsOf(chunk) == {c \in Cells : ChunkOf[c] = chunk}
Extend(table, more) ==
    [k \in DOMAIN table \cup DOMAIN more |-> IF k \in DOMAIN more THEN more[k] ELSE table[k]]
Drop(table, keys) == [k \in DOMAIN table \ keys |-> table[k]]

(***************************************************************************)
(* javaBlockStateCache                                                     *)
(***************************************************************************)
Cached(cache, cell) == {e \in ToSet(cache) : e.cell = cell}

\* The list of some of the entries, those at given places, in their order.
EntriesAt(cache, places) ==
    [n \in 1..Cardinality(places) |->
        cache[CHOOSE i \in places : Cardinality({j \in places : j < i}) = n - 1]]

PlacesOf(cache, cells) == {i \in DOMAIN cache : cache[i].cell \in cells}
OtherEntries(cache, cells) == EntriesAt(cache, DOMAIN cache \ PlacesOf(cache, cells))

\* put: the entry of the position moves to the back; the oldest entry is evicted.
Put(cache, cell, state) ==
    LET longer == Append(OtherEntries(cache, {cell}), [cell |-> cell, state |-> state])
    IN  IF Len(longer) > CacheSize THEN Tail(longer) ELSE longer

\* get: the entry found moves to the back.
Touch(cache, cell) ==
    OtherEntries(cache, {cell}) \o EntriesAt(cache, PlacesOf(cache, {cell}))

StateIn(cache, cell) ==
    IF Cached(cache, cell) = {} THEN Unknown
    ELSE (CHOOSE e \in Cached(cache, cell) : TRUE).state

\* removeChunk
RemoveChunk(cache, chunk) == OtherEntries(cache, CellsOf(chunk))

(***************************************************************************)
(* The context of block entities                                           *)
(***************************************************************************)
\* Mutant: a change of a block is kept in the cache alone.
RememberChangeInCache(ctx, cell, state) ==
    [ctx EXCEPT !.cache = Put(@, cell, state)]

\* rememberBlockStateChange
RememberChange(ctx, cell, state) ==
    [ctx EXCEPT
        !.cache = Put(@, cell, state),
        !.states = IF cell \in DOMAIN ctx.states
                   THEN [ctx.states EXCEPT ![cell] =
                            IF state \in Registered THEN state ELSE Unknown]
                   ELSE ctx.states]

\* rememberChunkBlockEntityStates: what was kept of the chunk's block entities is
\* replaced.  What the cache holds of its other positions stays.
RememberChunk(ctx, chunk, w) ==
    LET cells == {c \in CellsOf(chunk) : HasEntity(w, c)}
        known == {c \in cells : w[c].state \in Registered}
        old == IF chunk \in DOMAIN ctx.chunks THEN ctx.chunks[chunk] ELSE {}
    IN  [cache |-> FoldSet(LAMBDA c, acc : Put(acc, c, w[c].state), ctx.cache, known),
         states |-> Extend(Drop(ctx.states, old),
                           [c \in cells |-> IF c \in known THEN w[c].state ELSE Unknown]),
         chunks |-> Extend(ctx.chunks, [x \in {chunk} |-> cells])]

\* rememberBlockEntityPosition: the cache, when it has the position, decides.
RememberPosition(ctx, cell) ==
    LET state == StateIn(ctx.cache, cell)
        chunk == ChunkOf[cell]
        old == IF chunk \in DOMAIN ctx.chunks THEN ctx.chunks[chunk] ELSE {}
    IN  [cache |-> Touch(ctx.cache, cell),
         states |-> IF cell \in DOMAIN ctx.states /\ state = Unknown THEN ctx.states
                    ELSE Extend(ctx.states, [c \in {cell} |-> state]),
         chunks |-> Extend(ctx.chunks, [x \in {chunk} |-> old \cup {cell}])]

\* cachedBlockEntityState, the state an update's tag is made with.
StateUsed(ctx, cell) ==
    IF cell \in DOMAIN ctx.states /\ ctx.states[cell] # Unknown THEN ctx.states[cell]
    ELSE StateIn(ctx.cache, cell)

\* forgetBlockEntityChunk: the chunk's set is emptied, not deleted.
ForgetChunk(ctx, chunk) ==
    [cache |-> RemoveChunk(ctx.cache, chunk),
     states |-> Drop(ctx.states, IF chunk \in DOMAIN ctx.chunks
                                 THEN ctx.chunks[chunk] ELSE {}),
     chunks |-> [x \in DOMAIN ctx.chunks |-> IF x = chunk THEN {} ELSE ctx.chunks[x]]]

Context == [cache |-> blockStates, states |-> blockEntityStates, chunks |-> blockEntityChunks]

Keeps(ctx) ==
    /\ blockStates' = ctx.cache
    /\ blockEntityStates' = ctx.states
    /\ blockEntityChunks' = ctx.chunks

(***************************************************************************)
(* The client.  It drops a spawner's content with the block, and ignores a *)
(* block actor without one while it has another (the workaround's reason). *)
(***************************************************************************)
Bedrock(state) == IF state \in Registered THEN state ELSE Air

Shows(seen, cell, state) ==
    [cells |-> Extend(seen.cells, [c \in {cell} |-> Bedrock(state)]),
     mobs |-> IF Bedrock(state) = Spawner THEN seen.mobs ELSE Drop(seen.mobs, {cell})]

ShowsMob(seen, cell, mob) ==
    IF mob = NoMob THEN seen
    ELSE [seen EXCEPT !.mobs = Extend(@, [c \in {cell} |-> mob])]

\* Mutant: an emptied spawner is not put again.
ResetNothing(seen, w, cells) == seen

\* resetJavaMobSpawnerBlock for the cells whose spawner is empty
\* (javaMobSpawnerPayloadNeedsReset): air, then a spawner.
ResetEmptySpawners(seen, w, cells) ==
    FoldSet(LAMBDA c, acc : Shows(Shows(acc, c, Air), c, Spawner), seen,
            {c \in cells : w[c].state = Spawner /\ w[c].mob = NoMob})

Client == [cells |-> clientCells, mobs |-> clientMobs]

Seen(seen) ==
    /\ clientCells' = seen.cells
    /\ clientMobs' = seen.mobs

Sent ==
    /\ blockPackets < MaxBlockPackets
    /\ blockPackets' = blockPackets + 1

(***************************************************************************)
(* The server's steps, with the handler of the packet each one sends       *)
(***************************************************************************)
Content == {b \in [state : States, mob : Mobs \cup {NoMob}] :
              b.state # Spawner => b.mob = NoMob}

BlocksInit ==
    /\ world \in [Cells -> {[state |-> s, mob |-> NoMob] : s \in {Air, Spawner}}]
    /\ sentChunks = {}
    /\ blockStates = <<>>
    /\ blockEntityStates = <<>>
    /\ blockEntityChunks = <<>>
    /\ clientCells = <<>>
    /\ clientMobs = <<>>
    /\ blockPackets = 0

\* The world changes where the server sends nothing of it.
ChangeUnseen(cell, block) ==
    /\ ChunkOf[cell] \notin sentChunks
    /\ Sent
    /\ world' = [world EXCEPT ![cell] = block]
    /\ UNCHANGED <<sentChunks, context, clientWorld>>

\* PlayClientboundBlockChangeID and PlayClientboundMultiBlockChangeID: the states
\* are remembered one by one, the client gets them in one packet.  A spawner is
\* placed empty.
ChangeBlocks(cells, state) ==
    /\ cells # {}
    /\ \A c \in cells : ChunkOf[c] \in sentChunks /\ world[c].state # state
    /\ \A c, d \in cells : ChunkOf[c] = ChunkOf[d]
    /\ Sent
    /\ world' = [c \in Cells |-> IF c \in cells THEN [state |-> state, mob |-> NoMob]
                                 ELSE world[c]]
    /\ Keeps(FoldSet(LAMBDA c, acc : RememberChange(acc, c, state), Context, cells))
    /\ Seen(FoldSet(LAMBDA c, acc : Shows(acc, c, state), Client, cells))
    /\ UNCHANGED sentChunks

\* PlayClientboundBlockEntityDataID, of which a spawner's content is a part.
SendBlockEntity(cell, mob) ==
    /\ ChunkOf[cell] \in sentChunks
    /\ HasEntity(world, cell)
    /\ world[cell].state # Spawner => mob = NoMob
    /\ Sent
    /\ world' = [world EXCEPT ![cell].mob = mob]
    /\ Keeps(RememberPosition(Context, cell))
    /\ Seen(ShowsMob(ResetEmptySpawners(Client, world', {cell}), cell, mob))
    /\ UNCHANGED sentChunks

\* PlayClientboundMapChunkPacketID: a chunk is sent first, or again.
SendChunk(chunk) ==
    /\ Sent
    /\ sentChunks' = sentChunks \cup {chunk}
    /\ Keeps(RememberChunk(Context, chunk, world))
    /\ LET reset == ResetEmptySpawners(Client, world, CellsOf(chunk))
           blocks == FoldSet(LAMBDA c, acc : Shows(acc, c, world[c].state), reset, CellsOf(chunk))
       IN  Seen(FoldSet(LAMBDA c, acc : ShowsMob(acc, c, world[c].mob), blocks, CellsOf(chunk)))
    /\ UNCHANGED world

\* PlayClientboundUnloadChunkID: the client gets an empty chunk.
UnloadChunk(chunk) ==
    /\ chunk \in sentChunks
    /\ Sent
    /\ sentChunks' = sentChunks \ {chunk}
    /\ Keeps(ForgetChunk(Context, chunk))
    /\ clientCells' = Drop(clientCells, CellsOf(chunk))
    /\ clientMobs' = Drop(clientMobs, CellsOf(chunk))
    /\ UNCHANGED world

\* translateJavaRespawn: the caches stay.  A new dimension is told to the client,
\* which drops its world; the server unloads nothing and sends its chunks anew.
RespawnPlayer(w, newDimension) ==
    /\ Sent
    /\ newDimension \/ w = world
    /\ world' = w
    /\ sentChunks' = {}
    /\ clientCells' = IF newDimension THEN <<>> ELSE clientCells
    /\ clientMobs' = IF newDimension THEN <<>> ELSE clientMobs
    /\ UNCHANGED context

BlocksNext ==
    \/ \E c \in Cells, b \in Content : ChangeUnseen(c, b)
    \/ \E cs \in SUBSET Cells, s \in States : ChangeBlocks(cs, s)
    \/ \E c \in Cells, m \in Mobs \cup {NoMob} : SendBlockEntity(c, m)
    \/ \E x \in Chunks : SendChunk(x)
    \/ \E x \in Chunks : UnloadChunk(x)
    \/ \E b \in Content, newDimension \in BOOLEAN :
          RespawnPlayer(IF newDimension THEN [c \in Cells |-> b] ELSE world, newDimension)

BlocksSpec == BlocksInit /\ [][BlocksNext]_blockVars

(***************************************************************************)
(* Properties                                                              *)
(***************************************************************************)
\* Whenever the server can send a block-entity update, the state the bridge would
\* make its tag with is the block's, or none: no change, eviction, reload of a chunk,
\* unload or respawn leaves it the state of a block that is gone.
StateCurrent ==
    \A c \in Cells :
        /\ ChunkOf[c] \in sentChunks
        /\ HasEntity(world, c)
        => StateUsed(RememberPosition(Context, c), c) \in {world[c].state, Unknown}

\* An unload can forget all of a chunk: each remembered position is in its chunk's
\* set and no set has others; the cache has one entry for a position and is bounded.
ContextIndexed ==
    /\ DOMAIN blockEntityStates = UNION {blockEntityChunks[x] : x \in DOMAIN blockEntityChunks}
    /\ \A x \in DOMAIN blockEntityChunks : blockEntityChunks[x] \subseteq CellsOf(x)
    /\ Len(blockStates) <= CacheSize
    /\ \A i, j \in DOMAIN blockStates : blockStates[i].cell = blockStates[j].cell => i = j

\* The client has the server's blocks wherever the server has sent them, and its
\* spawners hold what the server's hold, emptied ones nothing.
ClientWorldAgrees ==
    \A c \in Cells : ChunkOf[c] \in sentChunks =>
        /\ c \in DOMAIN clientCells
        /\ clientCells[c] = Bedrock(world[c].state)
        /\ world[c].state = Spawner =>
              IF world[c].mob = NoMob THEN c \notin DOMAIN clientMobs
              ELSE c \in DOMAIN clientMobs /\ clientMobs[c] = world[c].mob

\* The context of block entities is current, and can be forgotten chunk by chunk.
ContextAgrees == StateCurrent /\ ContextIndexed
=============================================================================

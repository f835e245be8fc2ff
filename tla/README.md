# Geyser-Go: models, checks and proofs

Geyser-Go is a bridge: Bedrock players connect to it, and it logs in at a
Java 1.21.4 server on behalf of each and translates packets in both directions.
This directory holds TLA+ modules of the parts that keep state, TLC
configurations that check them on small instances, and TLAPS proofs for all
instances. Every definition that models code is tied to its lines in
`PROJECT.json` (`map`); source paths below are relative to the repository.

## The system

### Threads and shared state

`bridge.Server.ListenAndServe` accepts players and runs `Session.Run` for each
in a goroutine. A session dials and logs in at the Java server, lets the
translator bootstrap the player, and then runs three **pumps**: `pumpJava`
(Java packets to Bedrock), `pumpBedrock` (Bedrock packets to Java) and the
projectile ticker. The pumps share one `translate.Basic`, whose fields are
under one mutex, `Basic.mu`. The rule of the code is to change fields inside a
critical section and write packets after releasing it. So what matters is:

* **interleaving**: a handler consists of several critical sections and writes,
  and the other pump runs between any two of them;
* **crossing**: the two peers act independently, so a close, a slot change or a
  request of one crosses a packet of the other;
* **partial failure and end**: any write can fail, any peer hang up, the context
  be cancelled, and everything must then end;
* **agreement**: Java server, bridge and Bedrock client each hold a copy of the
  open window, the inventory, the held slot and the movement state.

Nothing is persisted and the transport is TCP or an ordered RakNet stream:
there is no recovery after a crash, no loss, duplication or reordering to model.

### Components

| component | state | operations | what makes it correct |
|---|---|---|---|
| server and sessions (`bridge/`) | listener, one goroutine per player, two connections each, `errorsCh` | accept, dial, login, bootstrap, run, disconnect, cancel | a session ends when either peer or the context does; no goroutine or connection is left behind; sessions do not share state |
| Java connection (`java/protocol/conn.go`) | protocol state, compression threshold | read, write, set compression, set state | both ends frame and read each packet the same way |
| Java login (`java/protocol/client.go`) | state, configuration data, socket deadline | negotiate; one case per login and configuration packet | phases advance together, requests are answered, it ends with its context |
| packets and items (`translate/packets.go`, `item_components.go`, the `Decode...` functions) | none between packets | one decoder per Java packet, the dispatch and the errors that lead out of it | damage is noticed, what Bedrock has no form for is not damage, nothing odd is written on |
| windows (`translate/windows.go`) | two window tables, active window, next ID | open, close from Java, close from Bedrock, content | tables agree with each other and with what both peers show; no virtual block remains |
| item stack requests (`translate/inventory_actions.go`) | player items, window items, cursor, stack IDs | take, place, swap, drop, mine, each to clicks | items are conserved, accepted requests do what they ask, IDs name one stack |
| player actions (`translate/actions.go`, `legacy_transactions.go`) | held slot, movement flags, interaction sequence | input, equipment, interact, transactions, held slot from Java | the hand is the right one; movement and slot agree |
| player and dimension (player cases of `basic.go`, `dimensions.go`, `input.go`) | position, game mode, dimension registry | teleport, rotation, move, respawn, chunk, unload | teleports are confirmed; dimension, mode and chunks of client and server agree |
| entity tracker, projectiles, item frames, passengers, players | entities by Java and runtime ID, simulated projectiles, riders, listed players | spawn, metadata, move, remove, tick, set passengers, list and unlist | the client has the server's entities, where they are, in what they ride, with their skin |
| scoreboard, teams, boss bars | objectives, scores, teams, bars | create, update, display, remove | what is displayed is what the server last said |
| blocks and block entities | LRU cache of states, positions with block entities | chunk, update, unload, block entity | the context of a block entity is the block that is there |
| chunks | none between packets | palettes, sections, biomes, empty chunks | the client reads the block the server wrote, at every place |
| commands, recipes | recipe IDs | tree to overloads; book, stonecutter | the client offers what the server runs; an ID names one recipe |
| text, skins, block-entity NBT, generated registries; generators and probes | none, or a cache | conversion by table | — |

`PROJECT.json` lists every component with its status and what is left out of it.
The last row is not modelled: tables, and conversions of one value, which tests
with recorded packets reach well.

## Modules

    BridgeSessions          server, sessions, goroutines         <- BridgeSessions_proofs
    LoginPhases             what a login promises (abstract)
    JavaLogin               the login over one connection        <- JavaLogin_proofs
       implements LoginPhases
    Windows                 window tables, virtual blocks        <- Windows_proofs
    InventoryClicks         clicks and click plans (operators)
    StackRequests           requests against a live inventory    <- StackRequests_proofs
       extends InventoryClicks
    PlayerActions           held slot, movement, interactions    <- Player_proofs
    Player                  position, dimension, game mode       <- Player_proofs
    Entities                actors, riders, projectiles, players <- Entities_proofs
    EntityFlags             the flag words of an actor           <- Views_proofs
    Scoreboard              objectives, scores, teams            <- Views_proofs
    BossBars                boss bars and their actors           <- Views_proofs
    Blocks                  block states, block entities         <- Views_proofs
    Chunks                  palettes of a chunk, both ways       <- Views_proofs
    Commands                the command list
    Recipes                 the recipe book                      <- Views_proofs
    WireFormats, ItemFormats, PacketFormats, PacketHandlers
                            the formats of the Java packets (operators)
    PacketReader            reads a packet field by field
       extends the four
    DataLemmas              queues, sums over a set and numbers, for the proofs
    MC...                   instances for TLC
    MCTranslator            PlayerActions, Scoreboard, BossBars, Blocks, EntityFlags together
    MCWorld                 Entities, Player, Chunks, Commands, Recipes, PacketReader together

Common to all: a handler that releases the mutex is split into one action per
critical section (plus the writes that follow when nothing can tell them apart)
and a program counter or list of pending steps says where it stands. Where only
one goroutine runs a handler and nothing it reads is written by another, the
handler is one action. The peers are external: modelled by what the code in
`src/` needs of them, with the freedom the protocol gives them. Operators
commented `Mutant:` are plausible faults of a definition; no behaviour of the
specifications uses them.

### BridgeSessions

`main[s]` follows `Server.handleConnection` and `Session.Run`; `pump[s][p]`
follows the loops of the three pumps (check the context, read, handle, send the
error); `closer[s]` is the goroutine of `Basic.Run` that closes both
connections when the context is done; `errorsCh` the buffered channel of three.
`RunDone` is the derived context. Packets are reduced to whether they were
read and handled; `remembered` is the set of sessions whose packets have left
something in the shared translator.

### JavaLogin and LoginPhases

`pc` follows `DialAndLogin` and the loop of `negotiate`, one action per case of
`loginPacket` and `configurationPacket`. A frame carries the operation, the
number of the request, a length, the protocol state it was written in and its
framing (`encodeFrame`: uncompressed, stored below the threshold, or deflated);
`Readable` is what `decodeFrame` makes of it. `applyContextDeadline` is modelled
with both of its shapes: a context with a deadline sets one on the socket, a
context without starts the watcher goroutine, whose `select` may go either way.
The server follows the protocol but is not bound to speak: it may compress, ask,
offer, refuse, send a malformed or oversized packet, fall silent or hang up.

`LoginPhases` says the same without packets: the client commits to the next
state, the server follows, nobody is more than one state ahead, and the outcome
is decided once. `PassesPhases` (`Phases!Spec`) is the refinement; the mapping
takes the client to be in the state its last packet committed it to, which
`SetState` reaches one step later or earlier (`Committed`).

### Windows

`windows` and `bedrockWindows` are the maps of the same names, with the Java ID,
Bedrock ID and virtual position of each window. `OpenMapped`, `OpenUnmapped`,
`JavaClose` and `BedrockClose` are the table changes of `translateOpenWindow`,
`translateCloseWindow` and `translateBedrockContainerClose`; the packets they
leave (`Place`, `Open`, `Close`, `Restore`, `CloseJava`) are written one at a
time by `JavaPumpWrites` and `BedrockPumpWrites`. `Allocates` is
`allocateWindowIDLocked`, whose ID wraps at `MaxWindowID` (255 in the code).
The table of menu types is one type that can be shown and one that cannot.

### InventoryClicks and StackRequests

`InventoryClicks` has the pure part: what a left or right click does to slot and
cursor (`applyLeftClickLocked`, `applyRightClickLocked`), and the list of
clicks the bridge plans for a move, an exchange or a drop. `StackRequests` runs
a request through its critical sections: resolve each reference, validate it,
plan, one step per click, respond. `pumpJava` may open or close the window or
replace contents between any two. `Resolve` and `SimItems` keep the slot
arithmetic of the code, in which the player's storage follows the container's
slots. `before` and `disturbed` are history: the inventory when the action
began, and whether something else changed it since.

### PlayerActions and Player

In `PlayerActions` a Bedrock packet becomes a list of steps (`Steps`); each step
is one critical section of `Basic.mu` or one write. `EnsureJavaHeldSlot`
compares, writes and stores in three steps as `ensureJavaHeldSlot` does. The
client may use a slot before it announces it with MobEquipment (that is why the
function exists), and the server may select a slot itself. `crossed` records
that a selection of the server crossed one of the client: then the two protocols
leave open who wins.

`Player` has the four queues between server, bridge and client. The server
teleports (by absolute or relative position), turns, respawns into another
dimension, changes the game mode, sends and unloads chunks; the client moves.
The bridge's position is in eyes at the client and in feet at the server, on one
axis. `DimensionID` gives custom dimensions the number of their place in the
sorted registry.

### Entities and EntityFlags

`Entities` follows a Java entity by kind: at once an actor (mob, arrow, player,
rocket), after its metadata (item, painting), a block (item frame), or not shown
yet (an orb). `entities` is `Basic.entities`; `actors`, `frames` and `links` are
what the client has. `javaWrites` and `tickWrites` are what the two goroutines still have to write;
each removes one packet at a time, so a tick's moves land between the writes of
a handler. A pass of the two loops of `translateJavaSetPassengers` that writes
nothing is a packet `NoWrite`. `passengers`, `attachments` and `players` are
the tables of `passengers.go`, `projectile_item_metadata.go` and `players.go`.

`EntityFlags` has the two 64-bit words of flags as sets of flag names, the rows
of `specialEntityFlagMasks` and the projections of 35 types, over any order of
metadata entries of one type.

### Scoreboard, BossBars, Blocks

Each keeps the tables of its source file next to what the server means and what
the client makes of the packets; a handler with the packets it writes is one
action. In `Blocks` the cache of states is a sequence, oldest first, and
`CacheSize` is the 32768 of the code.

### Chunks, Commands, Recipes

`Chunks` reads a chunk's containers (one value, a palette, direct) as the server
packed them in longs, and writes Bedrock's storages in 32-bit words, in
Bedrock's order of blocks; `ClientBlock` reads back what the client would at a place.
`Commands` collects the overloads of a tree depth first as the code does, and is
compared with the set of all lines through the tree. `Recipes` numbers recipes
as they are added and remembers those that are unlocked.

### WireFormats, ItemFormats, PacketFormats, PacketHandlers, PacketReader

A **format** is a sequence of fields and marks. A field has the values that
matter for what follows it: all values nothing depends on are one, and beside it
are a malformed value, one outside an enumeration or a range, a finite number
beyond float32, and the counts from -1 to one above the limit. A mark says where
the code checks, refuses, handles an error, drops the packet or writes to the
client. `WireFormats` has the primitives of `java/protocol/codec.go`,
`ItemFormats` item stacks, all component types, particles, metadata and recipe
displays, `PacketFormats` the decoders of the packets of login, configuration
and play, and `PacketHandlers` what handlers do with the values if no other
module has it. `PacketReader` lets a server write and the bridge read any packet
field by field. The formats are those of the decoders; whether they are the ones
of Java 1.21.4 cannot be seen from the source.

## Runs

| run | instance | shows |
|---|---|---|
| `windows_tables` | 2 Java and 2 Bedrock IDs, so that the allocator wraps and collides; a server that reuses IDs and opens without closing | tables stay inverse, the active window is a registered one |
| `windows_orderly` | 3 IDs, 2 positions, 2 packets in flight each way; an orderly server; a client that confirms closes | client, bridge and server agree at rest; no virtual block remains; menus that cannot be shown are released |
| `session_lifecycle` | 1 session, all its goroutines | a session ends with either connection or the context, with every goroutine, and the Java connection closed |
| `sessions_shared_translator` | 2 sessions | **violated**: state of one session in another's translator |
| `requests_exact` | 1 request, every action, stacks of 1 to 4 of two kinds, no interference | accepted requests move, swap and drop exactly what they say, to the stacks that were named, and report every slot they changed |
| `requests_interleaved` | fewer actions, 2 updates of `pumpJava` between any steps | stack IDs stay unique and clicks conserve items, whatever comes between |
| `requests_panic` | a window of two slots, 1 update | **violated**: a window closed between resolving and planning makes the plan index out of range |
| `java_login` | lengths below, at and above the limit; thresholds none, 0, 3 and beyond the limit; 2 optional packets, 2 frames in flight | framing and phases (`EndsAgree`), answers, retained configuration, end and clean return; refinement of `LoginPhases` |
| `translator` | PlayerActions, Scoreboard, BossBars, Blocks or EntityFlags | hand, slot and movement agreement; teams; the displayed scoreboard and bars; the context of block entities and the client's blocks; the flags of 35 types |
| `world` | Entities, Player, Chunks, Commands, Recipes or PacketReader | actors, their positions, riders, boost and skins; teleports, dimension and chunks; palettes; commands; the recipe book; the decoders |
| `entities_correction` | 2 arrows | **violated**: a relative move of the server does not correct the simulated position |
| `entity_flags_armor_stand` | armor stands | **violated**: a flag Java has cleared stays set |

`translator` and `world` run one of their parts at a time, chosen in the initial
state; the others rest. No variable of one part is read or written by an action
of another: they are different fields of `Basic`, and the parts of the code
that do touch several (a respawn clears entities, windows and the vehicle) are
actions of the part whose property needs them. A behaviour of all parts is
therefore an interleaving of behaviours of the parts, and each invariant, which
is about one part, holds of it if it holds of each part alone.

### Why the bounds are enough

*Windows.* A collision of the allocator needs as many live windows as IDs
minus one, which two IDs give; disagreements need a close of each side in
flight and one open after them, which three IDs and queues of two give.
Positions differ so that place and restore at different blocks are told apart.
*Sessions.* Sessions only share the translator and the listener, so one session
shows everything about its goroutines and two show the sharing.
*Requests.* The plans depend on whether source and destination are empty, equal
or different in kind, and on the count relative to one, half and all of a stack;
stacks up to 4 reach every branch with even and odd halves. In `requests_exact`
the player has one slot that never appears in a window and two storage slots,
and the window one slot. In the runs with interference a window has more slots
than the player's inventory, so that a resolved slot can be out of range later,
and two updates can close a window and bring other contents.
*Login.* The only counters are compression (once), state (four values) and the
queues; two optional packets give a request interleaved with data or with the
compression switch, and a repeated registry.
*Player actions.* Three packets give an interaction, an announcement and a
third action around one selection of the server. `MaxSequence` of 2 makes the
interaction sequence wrap.
*Player.* Three packets of the server and one input: a change of dimension with
a chunk on each side of it, or two teleports around a move.
*Entities.* Two entities, of one kind or of two that look for each other, and
seven packets: spawn both, put one on the other, move, remove and spawn again;
one tick, whose writes fall anywhere between those of the handlers.
*Scoreboard.* Two owners and a sidebar of one line, so that a line falls out;
two teams, two objectives, and display positions that share a Bedrock slot.
*Boss bars, blocks.* Three actors, so that a bar is added after one was removed;
a cache of one state for three cells, so that what a block entity needs has been
evicted; five packets.
*Chunks.* Four blocks a side, longs of 16 and words of 8 bits: palettes of 1, 2,
3 and 9 values cross every branch of the widths, with padding in the last word.
The code has sixteen blocks, 64 and 32 bits, palettes of blocks up to 8 bits and
of biomes up to 3, and widths of 1 to 6, 8 and 16, within `ChunksAssumption`.
*Commands.* All trees over a root, two commands, an argument and a literal, with
redirects between any; three overloads and a depth of two are the limits.
*Recipes.* Two numbers, eight displays and five packets: add, remove, add again.
*Packets.* `MaxElements` of two for every array, one more to exceed it. An item
in a set slot has every component, items elsewhere a component of each outcome
and other items down to two; hidden effects follow one deep where the code
takes 32, displays nest as deep as `MaxDisplayDepth` of one. The decoders treat
each level and element alike, so what errors pass on their way out is the same.

### Fairness

`Windows`: the two pumps and the Java server's reading of closes are weakly
fair: goroutines are scheduled and TCP delivers. The client and the server's
choice to open or close are not fair. `BridgeSessions`: the connection handler,
the pumps and the closer are weakly fair; a login must end when its connection
is closed or its context done (`LoginMustFail`), which is what `JavaLogin`
shows of it; peers owe nothing. `JavaLogin`: the bridge's goroutine, the watcher
and the clock (`DeadlineReached`) are weakly fair; the server owes nothing, so
`LoginEnds` is about a silent one too. The properties of the other modules are
invariants, stated at rest where they are about agreement.

Deadlock is checked for `Windows`, where some packet is always possible. In the
others the bounded environment, or the end of the session, stops the system.

## Proofs

| theorem | for | argument |
|---|---|---|
| `Windows_proofs!TypeCorrect` | all finite `JavaIDs` and `MaxWindowID >= Cardinality(JavaIDs)` | `TypeOK` is inductive |
| `Windows_proofs!TablesCorrect` | the same | `TypeOK`, `TablesInverse` and `ActiveRegistered` together are inductive; adding and removing an entry under both IDs keeps two tables inverse; inverse tables have equally many entries, so while a Java ID is free so is a Bedrock ID, and the allocator never reaches its fallback |
| `Windows_proofs!ClientCorrect`, `ServerCorrect` | the same, `OrderlyServer` | `Menus`: each open and close on its way to the bridge is of the menu the server had then (`MenusInOrder`), and the Bedrock IDs still to be given out are in no table, no packet and not on the client's screen (`Spent`). `Client`: what the client shows follows from what it was last written, packet by packet (`ShownKnown`, `KnownShown`, `QueuedClosed`, and `BlocksHeld` of the virtual blocks). `Server`: the bridge has the menu the server holds, or a packet on its way says otherwise, unless `misdirected` |
| `BridgeSessions_proofs!TypeCorrect` | any sessions, `ErrorsCap >= 3` | inductive |
| `BridgeSessions_proofs!NoSenderBlocked` | the same | `ChannelInv`: the channel holds at most as many errors as pumps that have exited; one that still has to send is not among the three, so at most two errors are there. `TypeOK` alone says nothing of the length |
| `BridgeSessions_proofs!NoJavaLeak` | the same | strengthened with where in the handler the Java connection can be open |
| `StackRequests_proofs!LeftClickConserves`, `RightClickConserves` | all stack limits, kinds, counts | case analysis of the click; integer halves add up |
| `StackRequests_proofs!StacksNamed` | all inventories, windows, requests and packets of the server | `IDsDistinct`: IDs of the player's slots, of the container's part of the window and of the cursor are distinct and below `nextStackID`. A click draws new IDs or keeps those of the stacks it touches |
| `StackRequests_proofs!ResponsesComplete` | the same | `Reported`: a slot that differs from what it held when the action began is among those to report; before the first click none does (`Untouched`) |
| `StackRequests_proofs!ClicksNamed`, `UndisturbedClicksNamed` | the same, while the window's copy of the storage agrees with the player's; or `MaxUpdates = 0` | `Resolved`: the slots of an action are those its references name, as long as nothing came between; `Named`: what they held when it began carries the IDs the client gave. Without `CopiesAgree` it is false: `SetPlayerSlot` and `WindowOpens` leave the window's copy as it was |
| `StackRequests_proofs!RequestsCorrect` | the same, `SupplyFits` | `UnderWay`: at each click of a plan, what source, destination and cursor hold is what the stage of the plan says (`TransferStage`, `SwapStage`, `DropStage`); `Small`: no stack is above `MaxStack`, so no click of the simulation is cut short where the plan does not expect it |
| `StackRequests_proofs!ClicksConserve` | the same, without `SupplyFits` | the sum of a kind over all places (`Whole`, which is `Held`: `HeldIs`) changes with the two places a click changes and by as much (`PlacePut`), or by an exchange not at all; what the two clicks make of a slot and the cursor is in `LeftClickConserves` and `RightClickConserves`. That a sum over a finite set does not depend on the order it is taken in is `SumsAdditive` of `DataLemmas` |
| `JavaLogin_proofs!CleanReturn` | all limits, thresholds, servers | `OpenWhileRunning` (the connection is open from the dial to the return) and `DeadlineOwned` (with a context deadline only the bridge touches that of the socket, otherwise only the watcher, after cancellation) |
| `JavaLogin_proofs!Agreement`, `OrderedAnswers`, `CompleteConfiguration` | the same | `QueueInv`: every frame on its way is in the state and the framing its reader will have when it gets there (`InPhase`, `Switched`); numbers of questions grow along the queues, and each one asked is on its way down, on its way up, or answered (`Answered`); what is kept, with what is on its way, is what was offered (`Kept`) |
| `JavaLogin_proofs!ImplementsPhases` | the same | the refinement of `LoginPhases`: each step maps to a step or a stutter, under `QueueInv` |
| `Player_proofs!WorldCorrect`, `PositionsCorrect` | all dimensions, chunks, positions | `PlayerInv` follows what each packet in the four queues will do: the last that sets mode or dimension carries the server's; content of a chunk that nothing behind it removes is content the server has the client have (`ChunkInv`); a teleport that is not confirmed has its confirmation on its way (`ConfirmationComes`), and when nothing will move the client its last input is the last the server hears (`Told`) |
| `Player_proofs!HandsCorrect`, `RestCorrect` | all slots and held items, `Offered \subseteq LegacyPackets` | `SlotInv`: while nothing has crossed, either a slot of the server is alone on its way to the client, or none is and the server comes to the bridge's slot and the bridge to the client's. Every list of steps selects first (`WorkInOrder`), so what follows in it names the slot selected by then. `MovingInv` does the same for sneaking and sprinting |
| `Entities_proofs!ActorsCorrect`, `PositionsCorrect`, `RidersCorrect`, `BoostCorrect`, `ListCorrect` | all entities, kinds, players, frames, items and positions, any number of packets and ticks | the properties speak of a client that has read everything, so `Inv` says of each packet on its way what it makes up for. Every action is one of a few kinds of step (`Step`). All keep the tables (`Tab`): what the bridge has of an entity is what the server said, and the riders it has are the server's unless the server owes them. Then each part: an actor or frame the client lacks or has too many is on its way in or out (`ActorInv`, `FrameInv`); the last packet that places an actor places it where the bridge has it unless overtaken (`PositionInv`); a link is of a rider in its seat, or an unlink, a removal or the server's next word is to come (`LinkInv`); an actor about to be added has its passengers and its vehicle told of afterwards (`NewInv`), without which it would never be linked; likewise boost and list (`BoostInv`, `ListInv`) |
| `Views_proofs!BarsCorrect` | all bars, titles, healths and styles, any number of actors | `BarsAgree` says nothing of IDs still to come; with `BarsTyped` (every ID in use is below the next) it is inductive, one lemma per handler |
| `Views_proofs!TeamsCorrect`, `ScreenCorrect` | all objectives, owners, scores, teams and display positions, any size of the sidebar | `BoardInv` speaks of a translation under way (`Now` is the one between packets): the displays have Bedrock objectives of their own and there is no other (`BoardObjectives`), every remembered line is on the screen under an ID of its own and no other is (`BoardLines`), and each display is `Titled` and `Drawn`. One draw establishes `Drawn` of its display and disturbs no other (`RenderRedraws`, `RefreshRedraws`), so going through any set of displays in any order does for all of them (`FoldRedraws`). The owners a draw picks by their place are the ones a full sidebar should list (`FirstAreListed`: places are numbers from 0, one each), and lines are counted display by display (`LinesCounted`) |
| `Views_proofs!ClientWorldCorrect` | all cells, chunks, states and spawner contents | `ClientInv`: a content the client remembers is that of a spawner it has, so a spawner put where another block was starts empty. What the packet of each fold leaves at every cell is `Painted`, `Emptied` and `Filled` |
| `Views_proofs!IndexCorrect`, `ContextCorrect` | the same, any size of the cache; the second, `EntityStates \subseteq Registered` | `ContextKept`: positions and sets of chunks match, the cache has an entry for a position at most once. `Current`: of a block with a block entity in a sent chunk, no entry of the cache has another state, nor has the table of states. Evicting and moving entries leave entries that were there (`From`), so neither revives a state |
| `Views_proofs!FlagsCorrect` | all types but `armor_stand`, any number of entries in a packet | rows and masks match entry by entry (`GenericTables`, `SpecificTables`): what an entry writes is in its mask, no entry is written by both merges, and a mask owns a flag the type's entries do not write in two cases only. The last entry of a packet that writes a flag decides it (`LastSays`). `FlagInv` adds that potions and TNT never have `DamageNearbyMobs`, a flag of their pose that the mask of the byte 8 would clear |
| `Views_proofs!BookCorrect` | all recipes, displays and stonecutter recipes, `NumbersSuffice` | `BookInv`: what is remembered is what is unlocked. `NumbersApart`: numbers given out are below the next; the places of a packet are in a strict order, so how many come before one numbers each differently (`NumbersOfPlaces`). `NumbersCounted`: a packet of the book adds at most one recipe for each the server has, and the stonecutter's come once, so the numbers never start again |
| `Views_proofs!ChunksCorrect` | all sizes of sections, words and palettes, all chunks and dimensions, `FewBiomes` | `ColumnInv`: the containers on their way are those of the server's chunk, and what the client was sent is the encoding of it or that of none. Shift and mask read the digit that was written (`WordDigits`, `IndexRead`), a palette has the values once each (`PaletteMade`), and the width chosen holds its indices (`WidthSuffices`), so what Java packs the bridge decodes (`ContainerDecoded`) and what the bridge packs the client reads (`StorageReads`); the two orders of a section's places are undone by the same divisions (`Axes`) |

Each rests on the named ASSUME of its module, which TLC evaluates in the runs.
The hypotheses beyond those:

* `WindowsAssumption` asks that the server uses no more window IDs than there
  are Bedrock IDs: Java servers count 1 to 100, and there are 255.
* `OrderlyServer` (`Windows`) is a server that closes a menu before it opens the
  next, as vanilla does; it is TRUE in `Windows_orderly.cfg`, where the two
  properties are checked. For another server both fail.
* `Offered \subseteq LegacyPackets` (`PlayerActions`) is a client that interacts by
  inventory transactions and reports its states with its inputs, for the
  reasons given below for player actions; `LegacyAssumption` of
  `MCPlayerActions` has TLC evaluate it on the instance that is run.
* `SupplyFits` (`StackRequests`) asks that the server sends no stack above the
  stack size the clicks are simulated with. A server since 1.20.5 may send up to
  99 where the bridge simulates 64; what a plan does then is outside the theorem.
  `SupplyAssumption` of `MCStackRequests` evaluates it.
* `EntityStates \subseteq Registered` (`Blocks`) asks that the generated registry
  has every state of a block with a block entity, as that of 1.21.4 does for a
  1.21.4 server. A state outside it is not put in the cache when its chunk comes,
  and an older entry of the position would stay. `RegistryAssumption` of
  `MCTranslator` evaluates it.
* `"armor_stand" \notin Types` (`EntityFlags`): for an armor stand `FlagsAgree` is
  false (`entity_flags_armor_stand`). `FlagTypesAssumption` of `MCTranslator`
  evaluates it.
* `NumbersSuffice` (`Recipes`) asks that the packets of a behaviour carry fewer
  recipes than there are numbers, 2^32 - 1 in the code: after that many, numbers
  start again and are given to a second recipe. `NumbersAssumption` of
  `MCRecipes` evaluates it.
* `FewBiomes` (`Chunks`) asks that no section has more biomes than the server
  sends with a palette, 2^`BiomeBits`: of more, it sends registry numbers, which
  the bridge takes for a palette as long as they fit in `PaletteBits`, and the
  session ends. `BiomesAssumption` of `MCChunks` evaluates it.
* `Items` (`Entities`) are pairs of a kind and a count, which lets a packet change
  the count alone.
* `MaxUpdates = 0` is `StackRequests_exact.cfg`: nobody but the player touches
  the inventory.

`DataLemmas` holds what several of them need: queues, induction over the subsets
of a finite set (`SetInduction`), and from it sums over a finite set, counting up
to a number (`CountingUp`), and what a recursive function over the numbers
becomes step by step (`StepByStep`), which is how a word and a palette are
reasoned about.

Only model-checked: `Commands` and `PacketReader`, which recurse over trees and
nested formats with RECURSIVE operators; and liveness
(`UnmappedReleased`, `GoroutinesEnd`, `SessionEnds`, `LoginEnds`), which fairness
and ENABLED put outside the proof system.

## What the checks found

Runs that end in a violation:

* `Config.setDefaults` makes one translator for all sessions, although the
  field is documented as session-scoped (`sessions_shared_translator`).
* `translateStackTransfer` indexes the inventory with a slot number of a window
  that may have been closed since (`requests_panic`).
* A relative move of the server is added to the simulated position of a
  projectile and does not correct it (`entities_correction`).
* The mask of an armor stand's flags is unreachable, so a flag Java has cleared
  stays (`entity_flags_armor_stand`).

Seen while modelling. The models have the behaviour, and the properties are
stated around it (the comment or the hazard's note says where):

* *Sessions:* `ListenAndServe` does not return when the listener fails.
* *Windows:* a second menu under a new ID leaves the first window registered; a
  close of an unknown window is forwarded under its Bedrock ID (`misdirected`);
  a slot update of the player's inventory while a menu is open does not reach
  the window's copy.
* *Requests:* a take onto the same kind in the cursor moves items the other way;
  a drop of the whole cursor drops one item; what a failing action of a request
  has already clicked is not taken back.
* *Player actions:* a held-slot packet of the server between write and store in
  `ensureJavaHeldSlot` is overwritten; a PlayerAction sneak is not tracked; an
  item interaction inside an input packet is sent without its slot.
* *Player:* a rotation is sent with the position of the last teleport; a player
  who joins as a spectator is sent as mode 3.
* *Entities:* a fishing hook whose owner is not there yet has none for good.
* *Boss bars, scoreboard:* a second add of a bar leaves the first actor; a
  second objective at a place that was not cleared leaves the first shown.
* *Chunks, commands, recipes:* biomes of more than eight kinds in one section
  are read with a palette they do not have; overloads beyond the limit are left
  out; a second replacing recipe book keeps the first one's recipes.

Of the decoders:

* Contract 2 of `PLAN.md` keeps a session alive when Bedrock has no form for a
  value. These values end it: a held slot outside 0..8, a player inventory slot
  beyond the last, the item consume animations, consume effects and firework
  shapes beyond the known, unknown kinds of recipe and slot displays, a block
  entity whose root is no compound (`Closed` in `PacketReader`).
* `explode.go:27` says that after an unknown particle the sound "remains
  aligned". It does for a particle without data. The data of one that has some,
  and in items the payload of an unknown component, are left unread, and what
  follows is read from them: an explosion's sound, a recipe's next slot, the
  removed components of an item (`NeverGarbled`, which does not hold).
* A health that is not a number is written to Bedrock, and a position too large
  for the float32 it is sent as; `attributes.go:187` keeps such values from the
  client elsewhere.

## Not modelled

* `data/`: generated tables of states, items, sounds and biomes, a third of the
  code by lines, and the lookups in them. The models take a table as a constant
  or as "known or not".
* The contents of block entities and of item NBT, text components, titles of
  windows, skins, paintings, sounds and particles as Bedrock names them: each a
  conversion of one value by cases, with no state and no order to get wrong.
* The encoders of packets to Java beyond the fields the models tell apart, the
  bits of variable-length integers, deflate, and encryption, which the bridge
  refuses to enable.
* Floating-point motion of projectiles, seat offsets, the input rules of each
  vehicle, and the cadence of block cracking, which depends on time.
* Chat from Bedrock, resource-pack replies, the client tick and the start-game
  packet; parsing of flags and configuration; generators and probes, which never
  run in the bridge.

## Plan

1. Proofs that are left, in this order: an abstract session (one connection
   open, then ended, then nothing left) that `BridgeSessions` implements, with
   the two peers and the context as the only causes of an end; action properties
   of the tables proved above (a window ID, a runtime ID or a stack ID is never
   given out twice while it is in use).
2. The server's and the client's copy of the inventory in `StackRequests`:
   order of response and update, partial failure, state IDs.
3. Two windows at one position in `Windows`; smithing recipes; the entity
   metadata tables as rows, as `EntityFlags` has those of the flags.

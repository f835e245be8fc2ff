------------------------------- MODULE Chunks -------------------------------
(***************************************************************************)
(* A chunk on its way from the Java server to the Bedrock client           *)
(* (src/translate/chunks.go, with the state lookup of                      *)
(* block_state_context.go).  Both sides pack a section's values into words *)
(* of a fixed width behind a palette; they differ in the order of the      *)
(* blocks, in the widths, in the palette of a single value, and in the     *)
(* cells of the biomes.  The sizes are constants: sixteen blocks a side,   *)
(* biome cells of four, longs and 32-bit words in the code.                *)
(***************************************************************************)
EXTENDS Integers, Sequences, FiniteSets, SequencesExt, FiniteSetsExt

CONSTANTS
    Side, CellSide,     \* blocks along a section, and along a biome cell
    LongBits, WordBits, \* widths of a word of Java and of Bedrock
    PaletteBits,        \* widest Java index read with a palette (8)
    BiomeBits,          \* widest index of biomes the server writes with one (3)
    StorageBits,        \* index widths of Bedrock, ascending (1..6, 8, 16)
    BlockRegistry,      \* Java1214ToBedrock: state + 1 -> runtime ID
    BiomeRegistry,      \* biomeRuntimeIDs: biome + 1 -> runtime ID
    MaxSections,        \* maxChunkSections
    Columns,            \* what the server's chunks are: see ServerSends
    Layouts             \* dimension -> [count, min] of its sections at the client

\* Any index fits a word, and the widest of Bedrock numbers every block of a section.
ASSUME ChunksAssumption ==
    /\ {Side, CellSide, LongBits, WordBits, PaletteBits, BiomeBits, MaxSections} \subseteq Nat \ {0}
    /\ Side % CellSide = 0
    /\ LongBits >= 16 /\ PaletteBits <= 16 /\ BiomeBits <= PaletteBits
    /\ StorageBits \in Seq(1..WordBits) /\ StorageBits # <<>>
    /\ Side * Side * Side <= 2^StorageBits[Len(StorageBits)] /\ Side * Side * Side <= 2^16
    /\ BlockRegistry \in Seq(Int) /\ BiomeRegistry \in Seq(Int)
    /\ Len(BlockRegistry) \in 1..2^16 /\ Len(BiomeRegistry) \in 1..2^16
    /\ \A d \in DOMAIN Layouts : Layouts[d].count \in 1..MaxSections /\ Layouts[d].min \in Int

VARIABLES
    column,          \* the server's chunk, <<>> while there is none
    mapChunk,        \* the packet with it
    levelChunk       \* what the client was sent last for this position
chunkVars == <<column, mapChunk, levelChunk>>

Failed == <<>>       \* no values: a decoding error, which ends the session
BiomeCells == Side \div CellSide
Volume(side) == side * side * side
CeilDiv(a, b) == (a + b - 1) \div b

\* Java's order of the blocks and of the biome cells, and Bedrock's of the blocks.
YZX(side, x, y, z) == (y * side + z) * side + x
XZY(x, y, z) == (x * Side + z) * Side + y
Along(side) == 0..side - 1

\* The server knows the states and the biomes it sends, by their registry numbers.
ASSUME ColumnsAssumption ==
    \A sent \in Columns :
        /\ sent \in [dimension : DOMAIN Layouts,
                     sections : Seq([blocks : [Along(Volume(Side)) -> 0..Len(BlockRegistry) - 1],
                                     biomes : [Along(Volume(BiomeCells)) -> 0..Len(BiomeRegistry) - 1]]),
                     entities : SUBSET [x : Along(Side), y : Int, z : Along(Side)]]
        /\ Len(sent.sections) \in 1..MaxSections

\* No section has more biomes than the server sends with a palette.
FewBiomes ==
    \A sent \in Columns : \A s \in DOMAIN sent.sections :
        Cardinality({sent.sections[s].biomes[i] : i \in Along(Volume(BiomeCells))}) <= 2^BiomeBits

(***************************************************************************)
(* Words of indices                                                        *)
(***************************************************************************)
\* The lowest digit is the first index; no index spans two words.
Word(digits, bits) ==
    LET from[k \in 1..Len(digits) + 1] ==
            IF k > Len(digits) THEN 0 ELSE digits[k] + 2^bits * from[k + 1]
    IN  from[1]
Words(indices, bits, width) ==
    LET perWord == width \div bits
        n == Cardinality(DOMAIN indices)
    IN  [w \in 1..CeilDiv(n, perWord) |->
            Word([k \in 1..Min({perWord, n - (w - 1) * perWord}) |->
                    indices[(w - 1) * perWord + k - 1]], bits)]
IndexAt(words, i, bits, width) ==
    LET perWord == width \div bits
    IN  (words[i \div perWord + 1] \div 2^(bits * (i % perWord))) % 2^bits

BitsFor(n) == Min({b \in 0..16 : n <= 2^b})
\* The values in the order in which they first occur.
PaletteOf(values) ==
    LET size == Cardinality(DOMAIN values)
        palette[n \in 0..size] ==
            IF n = 0 THEN <<>>
            ELSE LET before == palette[n - 1]
                 IN  IF Contains(before, values[n - 1]) THEN before ELSE Append(before, values[n - 1])
    IN  palette[size]
Indices(values, palette) ==
    LET at == [v \in ToSet(palette) |-> CHOOSE k \in DOMAIN palette : palette[k] = v]
    IN  [i \in DOMAIN values |-> at[values[i]] - 1]

(***************************************************************************)
(* The Java server (external)                                              *)
(***************************************************************************)
\* One value alone; up to 2^widest values by a palette, of at least narrowest bits; more
\* by their registry numbers.
JavaContainer(values, narrowest, widest, registry) ==
    LET palette == PaletteOf(values)
        bits == Max({BitsFor(Len(palette)), narrowest})
    IN  CASE Len(palette) = 1 -> [bits |-> 0, palette |-> palette, words |-> <<>>]
          [] Len(palette) > 1 /\ BitsFor(Len(palette)) <= widest ->
                [bits |-> bits, palette |-> palette,
                 words |-> Words(Indices(values, palette), bits, LongBits)]
          [] OTHER ->
                [bits |-> BitsFor(registry), palette |-> <<>>,
                 words |-> Words(values, BitsFor(registry), LongBits)]

(***************************************************************************)
(* DecodeMapChunk                                                          *)
(***************************************************************************)
\* decodeJavaPalettedContainer.  Up to PaletteBits a palette is read; where the server
\* sent none, its place holds what follows, which is no palette.
DecodePaletted(c, size) ==
    LET perWord == LongBits \div c.bits
        index == [i \in Along(size) |-> IndexAt(c.words, i, c.bits, LongBits)]
    IN  IF c.bits = 0
        THEN IF c.words # <<>> THEN Failed ELSE [i \in Along(size) |-> c.palette[1]]
        ELSE IF c.bits > 32 \/ (c.bits <= PaletteBits /\ c.palette = <<>>)
                \/ Len(c.words) # CeilDiv(size, perWord)
        THEN Failed
        ELSE IF c.bits > PaletteBits THEN index
        ELSE IF \E i \in Along(size) : index[i] >= Len(c.palette) THEN Failed
        ELSE [i \in Along(size) |-> c.palette[index[i] + 1]]

\* decodeJavaChunkSections, in DecodeMapChunk.
DecodeSections(wire) ==
    LET sections == [s \in DOMAIN wire |->
                        [blocks |-> DecodePaletted(wire[s].blocks, Volume(Side)),
                         biomes |-> DecodePaletted(wire[s].biomes, Volume(BiomeCells))]]
    IN  IF wire = <<>> \/ Len(wire) > MaxSections
           \/ \E s \in DOMAIN wire : sections[s].blocks = Failed \/ sections[s].biomes = Failed
        THEN Failed ELSE sections

(***************************************************************************)
(* encodeBedrockChunkWithResolver                                          *)
(***************************************************************************)
AirRuntime == BlockRegistry[1]
RuntimeID(state) == IF state + 1 \in DOMAIN BlockRegistry THEN BlockRegistry[state + 1] ELSE AirRuntime
BiomeRuntime(biome) == IF biome + 1 \in DOMAIN BiomeRegistry THEN BiomeRegistry[biome + 1] ELSE 0

\* The blocks of a section from Java's order to Bedrock's, and each biome cell over its
\* cube (expandJavaBiomes).
ProjectBlocks(blocks) ==
    [i \in Along(Volume(Side)) |->
        LET x == i \div (Side * Side) z == (i \div Side) % Side y == i % Side
        IN  RuntimeID(blocks[YZX(Side, x, y, z)])]
ExpandBiomes(biomes) ==
    [i \in Along(Volume(Side)) |->
        LET x == i \div (Side * Side) z == (i \div Side) % Side y == i % Side
        IN  BiomeRuntime(biomes[YZX(BiomeCells, x \div CellSide, y \div CellSide, z \div CellSide)])]

\* bedrockBitsForPalette
StorageWidth(n) ==
    IF n <= 1 THEN 0
    ELSE LET wide == {k \in DOMAIN StorageBits : n <= 2^StorageBits[k]}
         IN  StorageBits[IF wide = {} THEN Len(StorageBits) ELSE Min(wide)]

\* Mutant: the palette of a single value carries its length, too.
WriteStorageCounted(values) ==
    LET palette == PaletteOf(values) bits == StorageWidth(Len(palette))
    IN  [bits |-> bits, counted |-> TRUE, palette |-> palette,
         words |-> IF bits = 0 THEN <<>> ELSE Words(Indices(values, palette), bits, WordBits)]

\* writeBedrockStorage: a palette of one value has neither words nor a length.
WriteStorage(values) ==
    LET palette == PaletteOf(values) bits == StorageWidth(Len(palette))
    IN  [bits |-> bits, counted |-> bits # 0, palette |-> palette,
         words |-> IF bits = 0 THEN <<>> ELSE Words(Indices(values, palette), bits, WordBits)]

\* writeBedrockSection: nothing but its number for a section of air.
WriteSection(values, number) ==
    [number |-> number,
     layers |-> IF \A i \in DOMAIN values : values[i] = AirRuntime THEN <<>> ELSE <<WriteStorage(values)>>]

\* JavaChunkBlockStateAt, at a height of the chunk; \div and % round down, as
\* floorDiv16 and floorMod16 do.
BlockStateAt(sections, at, min) ==
    LET s == at.y \div Side - min + 1
        state == sections[s].blocks[YZX(Side, at.x, at.y % Side, at.z)]
    IN  IF s \notin DOMAIN sections \/ state + 1 \notin DOMAIN BlockRegistry THEN -1 ELSE state

\* Sections of the dimension the server did not send are air and biome 0; block
\* entities are translated with the state of the block they are in.
EncodeChunk(sections, entities, layout) ==
    [ok |-> TRUE, sections |-> [s \in 1..layout.count |->
        WriteSection(IF s \in DOMAIN sections THEN ProjectBlocks(sections[s].blocks)
                     ELSE [i \in Along(Volume(Side)) |-> AirRuntime], layout.min + s - 1)],
     biomes |-> [s \in 1..layout.count |->
        WriteStorage(IF s \in DOMAIN sections THEN ExpandBiomes(sections[s].biomes)
                     ELSE [i \in {0} |-> 0])],
     entities |-> {[at |-> e, state |-> BlockStateAt(sections, e, layout.min)] : e \in entities}]

\* Nothing was sent.
NoChunk == [ok |-> FALSE, sections |-> <<>>, biomes |-> <<>>, entities |-> {}]

\* emptyBedrockChunkPayload: no sections, one biome, and marks that repeat it.
Carry == [bits |-> 127, counted |-> FALSE, palette |-> <<>>, words |-> <<>>]
EmptyChunk(layout) ==
    [ok |-> TRUE, sections |-> <<>>, entities |-> {},
     biomes |-> [s \in 1..layout.count |-> IF s = 1 THEN WriteStorage([i \in {0} |-> 0]) ELSE Carry]]

(***************************************************************************)
(* The client (external)                                                   *)
(***************************************************************************)
\* It expects the length of a palette of several values, and only of that; -1 stands for
\* a chunk it cannot read.
ReadStorage(storage, i) ==
    IF storage.counted # (storage.bits # 0) THEN -1
    ELSE IF storage.bits = 0 THEN storage.palette[1]
    ELSE storage.palette[IndexAt(storage.words, i, storage.bits, WordBits) + 1]

ClientBlock(chunk, x, y, z) ==
    LET holds == {s \in DOMAIN chunk.sections : chunk.sections[s].number = y \div Side}
    IN  IF holds = {} \/ \E s \in holds : chunk.sections[s].layers = <<>> THEN AirRuntime
        ELSE ReadStorage(chunk.sections[Max(holds)].layers[1], XZY(x, y % Side, z))
ClientBiome(chunk, layout, x, y, z) ==
    LET s == y \div Side - layout.min + 1
        own == Max({k \in 1..s : chunk.biomes[k] # Carry})
    IN  IF Len(chunk.biomes) # layout.count THEN -1
        ELSE ReadStorage(chunk.biomes[own], XZY(x, y % Side, z))

(***************************************************************************)
(* Behaviours                                                              *)
(***************************************************************************)
ChunksInit == column = <<>> /\ mapChunk = <<>> /\ levelChunk = NoChunk

\* The server's chunk: its sections from the bottom, where block entities are, and the
\* dimension.  A section holds blocks by state and biome cells by biome.
ServerSends(sent) ==
    /\ column = <<>>
    /\ column' = sent
    /\ mapChunk' = [s \in DOMAIN sent.sections |->
          [blocks |-> JavaContainer(sent.sections[s].blocks, PaletteBits \div 2, PaletteBits,
                                    Len(BlockRegistry)),
           biomes |-> JavaContainer(sent.sections[s].biomes, 1, BiomeBits,
                                    Len(BiomeRegistry))]]
    /\ UNCHANGED levelChunk

\* The chunk case of translateJavaPacket.
HandleMapChunk ==
    /\ mapChunk # <<>>
    /\ LET sections == DecodeSections(mapChunk)
       IN  levelChunk' = IF sections = Failed THEN NoChunk
                         ELSE EncodeChunk(sections, column.entities, Layouts[column.dimension])
    /\ mapChunk' = <<>>
    /\ UNCHANGED column

\* The unload case.
HandleUnloadChunk ==
    /\ mapChunk = <<>> /\ column # <<>> /\ column.sections # <<>> /\ levelChunk.ok
    /\ levelChunk' = EmptyChunk(Layouts[column.dimension])
    /\ column' = [column EXCEPT !.sections = <<>>, !.entities = {}]
    /\ UNCHANGED mapChunk

ChunksNext ==
    \/ \E sent \in Columns : ServerSends(sent)
    \/ HandleMapChunk
    \/ HandleUnloadChunk
ChunksSpec == ChunksInit /\ [][ChunksNext]_chunkVars

(***************************************************************************)
(* Properties                                                              *)
(***************************************************************************)
\* What the server has at a block of the dimension: nothing above its last section.
ServerSection(y) == y \div Side - Layouts[column.dimension].min + 1
ServerBlock(x, y, z) ==
    IF ServerSection(y) \in DOMAIN column.sections
    THEN RuntimeID(column.sections[ServerSection(y)].blocks[YZX(Side, x, y % Side, z)]) ELSE AirRuntime
ServerBiome(x, y, z) ==
    IF ServerSection(y) \in DOMAIN column.sections
    THEN BiomeRuntime(column.sections[ServerSection(y)].biomes
            [YZX(BiomeCells, x \div CellSide, (y % Side) \div CellSide, z \div CellSide)])
    ELSE 0

\* Whatever the palettes and the height of a chunk, the client reads at every place of
\* its dimension the block and the biome the server has there, air and biome 0 where
\* the server has none; a block entity is translated for the block it is in.
ChunkAgrees ==
    column # <<>> /\ mapChunk = <<>> =>
        LET layout == Layouts[column.dimension]
        IN  /\ levelChunk.ok
            /\ \A x, z \in Along(Side), y \in layout.min * Side..(layout.min + layout.count) * Side - 1 :
                  /\ ClientBlock(levelChunk, x, y, z) = ServerBlock(x, y, z)
                  /\ ClientBiome(levelChunk, layout, x, y, z) = ServerBiome(x, y, z)
            /\ \A e \in levelChunk.entities : RuntimeID(e.state) = ServerBlock(e.at.x, e.at.y, e.at.z)
            /\ {e.at : e \in levelChunk.entities} = column.entities
=============================================================================

------------------------------ MODULE MCChunks ------------------------------
(* Small chunks for TLC: palettes of every width, padded words, short and tall chunks. *)
EXTENDS Chunks

MCStorageBits == <<1, 2, 3, 6>>
MCBlockRegistry == [s \in 1..9 |-> 100 - s]
MCBiomeRegistry == <<7, 0, 5, 3>>
MCLayouts == <<[count |-> 2, min |-> -1], [count |-> 1, min |-> 0]>>

\* n values spread over size places; shift tells sections apart.
Spread(size, n, shift) == [i \in Along(size) |-> (i * i + i \div 3 + shift) % n]
MCSection(n, m, shift) ==
    [blocks |-> Spread(Volume(Side), n, shift), biomes |-> Spread(Volume(BiomeCells), m, shift)]
MCEntities == {{}, {[x |-> 1, y |-> 2, z |-> 3]}, {[x |-> 0, y |-> -1, z |-> 2]}}

\* Palettes of n states and m biomes, in chunks as tall as the client's dimension,
\* shorter and taller.
MCPaletted(biomes) ==
    {[dimension |-> d, sections |-> [s \in 1..height |-> MCSection(n, m, s)], entities |-> e] :
        d \in DOMAIN MCLayouts, height \in 1..3, n \in {1, 2, 3, 9}, m \in biomes, e \in MCEntities}
InRange(sent) ==
    \A e \in sent.entities :
        e.y \div Side - MCLayouts[sent.dimension].min + 1 \in DOMAIN sent.sections
MCColumns == {sent \in MCPaletted({1, 2}) : InRange(sent)}

ASSUME BiomesAssumption == FewBiomes
=============================================================================

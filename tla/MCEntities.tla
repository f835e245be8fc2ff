------------------------------ MODULE MCEntities ------------------------------
(* Two entities of a server, and what they are in a behaviour. *)
EXTENDS Entities

MCIds == {1, 2}
MCItems == {<<"dirt", 1>>, <<"dirt", 2>>, <<"stone", 1>>}

\* Entities of different kinds meet where a handler of one looks for another: the hook
\* for its owner, everything for the orb that is no actor.
MCNatures ==
    {[i \in MCIds |-> kind] :
        kind \in {"mob", "item", "painting", "frame", "arrow", "rocket", "player"}}
    \cup {[i \in MCIds |-> IF i = 1 THEN "mob" ELSE kind] : kind \in {"hook", "orb", "player"}}

\* Arrows alone.
MCArrows == {[i \in MCIds |-> "arrow"]}
=============================================================================

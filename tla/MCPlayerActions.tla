-------------------------- MODULE MCPlayerActions --------------------------
(* The packets a client sends, for model checking. *)
EXTENDS PlayerActions

MCSlots == {0, 1}
AnySlot == MCSlots \cup {Outside}

Edges == SUBSET {"start", "stop"} \ {{}}
Still0 == [type |-> "input", sprint |-> {}, sneak |-> {}, glide |-> {}, dig |-> FALSE,
           use |-> FALSE, valid |-> TRUE, slot |-> Outside]

\* Inputs with edges of one state, of two states at once, and with a dig.
Inputs ==
    {[Still0 EXCEPT !.sneak = e] : e \in Edges}
    \cup {[Still0 EXCEPT !.sprint = e, !.sneak = {"start"}] : e \in {{"start"}, {"stop"}}}
    \cup {[Still0 EXCEPT !.glide = e, !.dig = TRUE] : e \in {{"start"}, {"start", "stop"}}}

Equipment == [type : {"equipment"}, slot : AnySlot]
Transactions ==
    [type : {"useItem"}, valid : {TRUE}, slot : AnySlot]
    \cup [type : {"useItem"}, valid : {FALSE}, slot : {1}]
    \cup [type : {"useEntity"}, valid : {TRUE}, attack : {FALSE}, slot : {1}]
Others ==
    {[type |-> "interact", valid |-> TRUE, slot |-> Outside],
     [type |-> "animate", valid |-> TRUE, slot |-> Outside],
     [type |-> "action", action |-> "dig", on |-> TRUE, slot |-> Outside]}

\* The packets of a client that interacts by inventory transactions.
MCLegacy == Inputs \cup Equipment \cup Transactions \cup Others

ASSUME LegacyAssumption == MCLegacy \subseteq LegacyPackets
=============================================================================

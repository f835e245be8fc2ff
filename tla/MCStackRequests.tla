-------------------------- MODULE MCStackRequests --------------------------
(* Small inventories, and the actions a client asks for, for model checking. *)
EXTENDS StackRequests

\* What RequestsCorrect assumes of the server holds of each Supply below.
ASSUME SupplyAssumption == SupplyFits

MCSupply == {[kind |-> "stone", count |-> 1], [kind |-> "stone", count |-> 3],
             [kind |-> "dirt", count |-> 2]}
MCFewItems == {[kind |-> "stone", count |-> 2]}
MCRefIDs == {-1, 2}

\* Every action with references that need no ID, and moves of one item, swaps
\* and drops that name a stack.
MCEveryAction ==
    {a \in Actions :
        /\ a.type \in {"transfer", "swap", "drop"} =>
              (a.source.id # -1 => a.type = "transfer" /\ a.count = 1)
        /\ a.type \in {"transfer", "swap"} => (a.destination.id # -1 => a.type = "swap")}

\* Moves, swaps and drops of one item between the hotbar, the cursor and a
\* container's first slot.
Places ==
    {r \in Refs : r.id = -1 /\ r.container # "player" /\ (r.container = "window" => r.slot = 0)}
MCFewActions ==
    {a \in Actions :
        /\ a.type \in {"transfer", "drop"} => a.count = 1
        /\ a.type = "mine" => a.source.id = 2
        /\ a.type \in {"transfer", "swap", "drop"} => a.source \in Places
        /\ a.type \in {"transfer", "swap"} => a.destination \in Places}
=============================================================================

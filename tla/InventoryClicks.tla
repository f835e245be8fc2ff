-------------------------- MODULE InventoryClicks --------------------------
(***************************************************************************)
(* What one Java container click does to a slot and the cursor             *)
(* (applyInventoryClickLocked of src/translate/inventory_actions.go), and  *)
(* the clicks that stand for a Bedrock take, place, swap or drop.          *)
(*                                                                         *)
(* An item is its kind (the network ID, metadata and NBT that sameItem     *)
(* compares), its count and its stack network ID.  Items unknown to the    *)
(* registries are decoded as empty, and every known one has a Java ID, so  *)
(* a click can always be encoded.                                          *)
(***************************************************************************)
EXTENDS Integers, Sequences

CONSTANTS
    Kinds,    \* what sameItem tells apart
    Air,      \* the kind of an empty slot, network ID 0
    MaxStack  \* javaMaxStackSize, 64 in the code for every kind

ASSUME ClicksAssumption ==
    /\ Air \notin Kinds
    /\ MaxStack \in Nat \ {0}

Empty == [kind |-> Air, count |-> 0, id |-> 0]
Stack == [kind : Kinds, count : Nat \ {0}, id : Nat \ {0}]
Item == Stack \cup {Empty}

IsEmpty(item) == item.count = 0 \/ item.kind = Air
SameItem(a, b) == ~IsEmpty(a) /\ ~IsEmpty(b) /\ a.kind = b.kind
CountOf(item, kind) == IF item.kind = kind THEN item.count ELSE 0
Least(a, b) == IF a < b THEN a ELSE b

\* subtractItem of a count n >= 0.
Subtract(item, n) ==
    IF n >= item.count THEN Empty ELSE [item EXCEPT !.count = @ - n]

(***************************************************************************)
(* Clicks on a slot.  Each operator gives what the slot and the cursor     *)
(* hold after it; id is the stack network ID a split-off stack receives.   *)
(***************************************************************************)
\* Left: merge the cursor into a stack of the same kind, otherwise exchange
\* the two, which picks up or puts down when one of them is empty.
LeftClick(slot, cursor) ==
    LET space == MaxStack - Least(slot.count, MaxStack)
        move == Least(space, cursor.count)
    IN  IF SameItem(slot, cursor)
        THEN [slot |-> [slot EXCEPT !.count = @ + move], cursor |-> Subtract(cursor, move)]
        ELSE [slot |-> cursor, cursor |-> slot]

\* Mutant: the split-off stack keeps the ID of the whole.
RightClickSameID(slot, cursor, id) ==
    IF IsEmpty(cursor) /\ ~IsEmpty(slot)
    THEN LET half == slot.count - slot.count \div 2
         IN  [slot |-> Subtract(slot, half), cursor |-> [slot EXCEPT !.count = half]]
    ELSE LeftClick(slot, cursor)

SplitHalf(slot, id) ==
    LET half == slot.count - slot.count \div 2
    IN  [slot |-> Subtract(slot, half), cursor |-> [slot EXCEPT !.count = half, !.id = id]]
SplitOne(cursor, id) ==
    [slot |-> [cursor EXCEPT !.count = 1, !.id = id], cursor |-> Subtract(cursor, 1)]
AddOne(slot, cursor) ==
    [slot |-> [slot EXCEPT !.count = @ + 1], cursor |-> Subtract(cursor, 1)]

\* Right: with an empty cursor take the larger half, with a full one put one
\* item down, or exchange with a stack of another kind.
RightClick(slot, cursor, id) ==
    IF IsEmpty(cursor) /\ ~IsEmpty(slot) THEN SplitHalf(slot, id)
    ELSE IF ~IsEmpty(cursor) /\ IsEmpty(slot) THEN SplitOne(cursor, id)
    ELSE IF ~SameItem(slot, cursor) THEN [slot |-> cursor, cursor |-> slot]
    ELSE IF slot.count < MaxStack THEN AddOne(slot, cursor)
    ELSE [slot |-> slot, cursor |-> cursor]

\* Whether a right click splits a stack off and so draws a stack network ID.
Splits(slot, cursor) == IsEmpty(slot) # IsEmpty(cursor)

(***************************************************************************)
(* The clicks of one stack request action                                  *)
(***************************************************************************)
Cursor == -1    \* the slot number that stands for the cursor
Outside == -999

Click(op, slot) == [op |-> op, slot |-> slot, target |-> slot]
Times(n, click) == [i \in 1..n |-> click]
EqualsHalf(n, count) == n = count - count \div 2

\* Take a count n of the stack in slot into an empty cursor.
TakeClicks(n, slot, count) ==
    IF n = count THEN <<Click("left", slot)>>
    ELSE IF EqualsHalf(n, count) THEN <<Click("right", slot)>>
    ELSE <<Click("left", slot)>> \o Times(count - n, Click("right", slot))

\* Put n items of the cursor down in slot.
PlaceClicks(n, slot, count) ==
    IF n = count THEN <<Click("left", slot)>> ELSE Times(n, Click("right", slot))

\* Mutant: the rest of the stack is not put back.
MoveClicksKeepingRest(n, from, to, count) ==
    IF n = count THEN <<Click("left", from), Click("left", to)>>
    ELSE IF EqualsHalf(n, count) THEN <<Click("right", from), Click("left", to)>>
    ELSE <<Click("left", from)>> \o Times(n, Click("right", to))

\* Move n items from one slot to another through the empty cursor.
MoveClicks(n, from, to, count) ==
    IF n = count THEN <<Click("left", from), Click("left", to)>>
    ELSE IF EqualsHalf(n, count) THEN <<Click("right", from), Click("left", to)>>
    ELSE <<Click("left", from)>> \o Times(n, Click("right", to)) \o <<Click("left", from)>>

\* Exchange two slots through the cursor.
ExchangeClicks(from, to) ==
    <<Click("left", from), Click("left", to), Click("left", from)>>

\* Drop n items of the cursor: one click outside for all of them, or one each.
\* The clicks differ in a parameter that applyInventoryClickLocked does not
\* look at: a drop outside takes one item.
CursorDropClicks(n, count) ==
    IF n = count THEN <<Click("dropOne", Outside)>> ELSE Times(n, Click("dropOne", Outside))

\* Drop n items of a slot.
SlotDropClicks(n, slot, count) ==
    IF n = count /\ count > 1 THEN <<Click("dropAll", slot)>>
    ELSE Times(n, Click("dropOne", slot))
=============================================================================

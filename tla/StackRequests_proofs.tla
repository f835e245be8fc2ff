------------------------ MODULE StackRequests_proofs ------------------------
(***************************************************************************)
(* The item stack requests, proved for every inventory, window size,       *)
(* request and interleaving with the server's packets.                     *)
(*                                                                         *)
(* First what a click does to the slot and the cursor it acts on; then the *)
(* types, and the stack network IDs, which every click and every packet    *)
(* keeps distinct (StacksNamed); what the response reports                 *)
(* (ResponsesComplete); which stacks the clicks are for (ClicksNamed);     *)
(* that the clicks planned for a transfer, a swap or a drop do exactly     *)
(* that (RequestsCorrect), by the stage their plan is at after each click; *)
(* and that no click makes or loses an item (ClicksConserve).              *)
(***************************************************************************)
EXTENDS StackRequests, FiniteSetTheorems, WellFoundedInduction, DataLemmas, TLAPS

(***************************************************************************)
(* What one click makes of the slot and the cursor, for all items, counts  *)
(* and stack limits                                                        *)
(***************************************************************************)
\* Taking up to a whole stack off an item leaves an item, with that much less.
LEMMA SubtractCounts ==
    ASSUME NEW item \in Item, NEW n \in Nat, n <= item.count, NEW kind \in Kinds
    PROVE  /\ Subtract(item, n) \in Item
           /\ CountOf(Subtract(item, n), kind) = IF item.kind = kind THEN item.count - n ELSE 0
  <1>1. CASE item = Empty
    BY <1>1, ClicksAssumption DEF Subtract, Item, Empty, CountOf
  <1>2. CASE item \in Stack
    <2>1. CASE n = item.count
      BY <1>2, <2>1, ClicksAssumption DEF Subtract, Item, Empty, Stack, CountOf
    <2>2. CASE n < item.count
      <3>1. Subtract(item, n) = [item EXCEPT !.count = @ - n]
        BY <1>2, <2>2 DEF Subtract, Stack
      <3>2. item.count - n \in Nat \ {0}
        BY <1>2, <2>2 DEF Stack
      <3> QED BY <1>2, <3>1, <3>2 DEF Item, Stack, CountOf
    <2> QED BY <1>2, <2>1, <2>2 DEF Stack
  <1> QED BY <1>1, <1>2 DEF Item

\* An item is empty only as Empty: a click never meets an empty stack.
LEMMA EmptyOrStack ==
    ASSUME NEW item \in Item
    PROVE  IF IsEmpty(item) THEN item = Empty ELSE item \in Stack
  BY ClicksAssumption DEF Item, Stack, Empty, IsEmpty

\* A left click moves items between slot and cursor and conserves every kind
\* (applyLeftClickLocked).
THEOREM LeftClickConserves ==
    ASSUME NEW slot \in Item, NEW cursor \in Item, NEW kind \in Kinds
    PROVE  LET after == LeftClick(slot, cursor)
           IN  /\ after.slot \in Item /\ after.cursor \in Item
               /\ CountOf(after.slot, kind) + CountOf(after.cursor, kind)
                    = CountOf(slot, kind) + CountOf(cursor, kind)
  <1>1. CASE ~SameItem(slot, cursor)
    <2>1. CountOf(slot, kind) \in Nat /\ CountOf(cursor, kind) \in Nat
      BY DEF CountOf, Item, Stack, Empty
    <2> QED BY <1>1, <2>1 DEF LeftClick
  <1>2. CASE SameItem(slot, cursor)
    <2> DEFINE move == Least(MaxStack - Least(slot.count, MaxStack), cursor.count)
               merged == [slot EXCEPT !.count = @ + move]
    <2>1. slot \in Stack /\ cursor \in Stack /\ slot.kind = cursor.kind
      BY <1>2, EmptyOrStack DEF SameItem
    <2>2. move \in Nat /\ move <= cursor.count
      BY <2>1, ClicksAssumption DEF Least, Stack
    <2>3. LeftClick(slot, cursor) = [slot |-> merged, cursor |-> Subtract(cursor, move)]
      BY <1>2 DEF LeftClick
    <2> HIDE DEF move
    <2>4. slot.count + move \in Nat \ {0}
      BY <2>1, <2>2 DEF Stack
    <2>5. merged \in Item
      BY <2>1, <2>4 DEF Item, Stack
    <2>6. CountOf(merged, kind) = IF slot.kind = kind THEN slot.count + move ELSE 0
      BY <2>1 DEF CountOf, Stack
    <2>7. /\ Subtract(cursor, move) \in Item
          /\ CountOf(Subtract(cursor, move), kind)
               = IF cursor.kind = kind THEN cursor.count - move ELSE 0
      BY <2>2, SubtractCounts
    <2>8. slot.count \in Nat /\ cursor.count \in Nat
      BY <2>1 DEF Stack
    <2> HIDE DEF merged
    <2>9. CountOf(merged, kind) + CountOf(Subtract(cursor, move), kind)
            = CountOf(slot, kind) + CountOf(cursor, kind)
      BY <2>1, <2>2, <2>6, <2>7, <2>8 DEF CountOf
    <2> QED BY <2>3, <2>5, <2>7, <2>9
  <1> QED BY <1>1, <1>2

\* A right click, which splits a stack, puts one item down or exchanges,
\* conserves every kind as well (applyRightClickLocked).
THEOREM RightClickConserves ==
    ASSUME NEW slot \in Item, NEW cursor \in Item, NEW id \in Nat \ {0}, NEW kind \in Kinds
    PROVE  LET after == RightClick(slot, cursor, id)
           IN  /\ after.slot \in Item /\ after.cursor \in Item
               /\ CountOf(after.slot, kind) + CountOf(after.cursor, kind)
                    = CountOf(slot, kind) + CountOf(cursor, kind)
  <1>0. CountOf(slot, kind) \in Nat /\ CountOf(cursor, kind) \in Nat
    BY DEF CountOf, Item, Stack, Empty
  <1>1. CASE IsEmpty(cursor) /\ ~IsEmpty(slot)
    <2> DEFINE half == slot.count - slot.count \div 2
               taken == [slot EXCEPT !.count = half, !.id = id]
    <2>1. slot \in Stack /\ cursor = Empty
      BY <1>1, EmptyOrStack
    <2>2. half \in Nat \ {0} /\ half <= slot.count
      BY <2>1 DEF Stack
    <2>3. RightClick(slot, cursor, id) = [slot |-> Subtract(slot, half), cursor |-> taken]
      BY <1>1 DEF RightClick, SplitHalf
    <2> HIDE DEF half
    <2>4. taken \in Item
      BY <2>1, <2>2 DEF Item, Stack
    <2>5. CountOf(taken, kind) = IF slot.kind = kind THEN half ELSE 0
      BY <2>1 DEF CountOf, Stack
    <2>6. /\ Subtract(slot, half) \in Item
          /\ CountOf(Subtract(slot, half), kind) = IF slot.kind = kind THEN slot.count - half ELSE 0
      BY <2>2, SubtractCounts
    <2>7. CountOf(cursor, kind) = 0 /\ slot.count \in Nat
      BY <2>1, ClicksAssumption DEF Empty, CountOf, Stack
    <2> HIDE DEF taken
    <2>8. CountOf(Subtract(slot, half), kind) + CountOf(taken, kind)
            = CountOf(slot, kind) + CountOf(cursor, kind)
      BY <2>2, <2>5, <2>6, <2>7 DEF CountOf
    <2> QED BY <2>3, <2>4, <2>6, <2>8
  <1>2. CASE ~IsEmpty(cursor) /\ IsEmpty(slot)
    <2> DEFINE placed == [cursor EXCEPT !.count = 1, !.id = id]
    <2>1. cursor \in Stack /\ slot = Empty
      BY <1>2, EmptyOrStack
    <2>2. RightClick(slot, cursor, id) = [slot |-> placed, cursor |-> Subtract(cursor, 1)]
      BY <1>2 DEF RightClick, SplitOne
    <2>3. placed \in Item /\ CountOf(placed, kind) = IF cursor.kind = kind THEN 1 ELSE 0
      <3>1. 1 \in Nat \ {0}
        OBVIOUS
      <3>2. placed \in Item
        BY <2>1, <3>1 DEF Item, Stack
      <3>3. CountOf(placed, kind) = IF cursor.kind = kind THEN 1 ELSE 0
        BY <2>1 DEF CountOf, Stack
      <3> QED BY <3>2, <3>3
    <2>4. cursor.count \in Nat /\ 1 <= cursor.count
      BY <2>1 DEF Stack
    <2>5. /\ Subtract(cursor, 1) \in Item
          /\ CountOf(Subtract(cursor, 1), kind) = IF cursor.kind = kind THEN cursor.count - 1 ELSE 0
      BY <2>4, SubtractCounts
    <2>6. CountOf(slot, kind) = 0
      BY <2>1, ClicksAssumption DEF Empty, CountOf
    <2> HIDE DEF placed
    <2>7. CountOf(placed, kind) + CountOf(Subtract(cursor, 1), kind)
            = CountOf(slot, kind) + CountOf(cursor, kind)
      BY <2>3, <2>4, <2>5, <2>6 DEF CountOf
    <2> QED BY <2>2, <2>3, <2>5, <2>7
  <1>3. CASE SameItem(slot, cursor) /\ slot.count < MaxStack
    <2> DEFINE grown == [slot EXCEPT !.count = @ + 1]
    <2>1. slot \in Stack /\ cursor \in Stack /\ slot.kind = cursor.kind
      BY <1>3, EmptyOrStack DEF SameItem
    <2>2. RightClick(slot, cursor, id) = [slot |-> grown, cursor |-> Subtract(cursor, 1)]
      BY <1>3 DEF RightClick, SameItem, AddOne
    <2>3. slot.count \in Nat /\ cursor.count \in Nat /\ 1 <= cursor.count
      BY <2>1 DEF Stack
    <2>4. grown \in Item /\ CountOf(grown, kind) = IF slot.kind = kind THEN slot.count + 1 ELSE 0
      BY <2>1, <2>3 DEF Item, Stack, CountOf
    <2>5. /\ Subtract(cursor, 1) \in Item
          /\ CountOf(Subtract(cursor, 1), kind) = IF cursor.kind = kind THEN cursor.count - 1 ELSE 0
      BY <2>3, SubtractCounts
    <2> HIDE DEF grown
    <2>6. CountOf(grown, kind) + CountOf(Subtract(cursor, 1), kind)
            = CountOf(slot, kind) + CountOf(cursor, kind)
      BY <2>1, <2>3, <2>4, <2>5 DEF CountOf
    <2> QED BY <2>2, <2>4, <2>5, <2>6
  <1>4. CASE SameItem(slot, cursor) /\ slot.count >= MaxStack
    <2>1. slot \in Stack
      BY <1>4, EmptyOrStack DEF SameItem
    <2>2. ~(slot.count < MaxStack)
      BY <1>4, <2>1, ClicksAssumption DEF Stack
    <2>3. RightClick(slot, cursor, id) = [slot |-> slot, cursor |-> cursor]
      BY <1>4, <2>2 DEF RightClick, SameItem
    <2> QED BY <2>3
  <1>5. CASE /\ ~SameItem(slot, cursor)
             /\ IsEmpty(slot) <=> IsEmpty(cursor)
    <2>1. RightClick(slot, cursor, id) = [slot |-> cursor, cursor |-> slot]
      BY <1>5 DEF RightClick
    <2> QED BY <1>0, <2>1
  <1>6. slot.count < MaxStack \/ slot.count >= MaxStack
    BY ClicksAssumption DEF Item, Stack, Empty
  <1> QED BY <1>1, <1>2, <1>3, <1>4, <1>5, <1>6

(***************************************************************************)
(* Slots                                                                   *)
(***************************************************************************)
\* Max of a finite set of numbers bounds it.
LEMMA MaxBounds ==
    ASSUME NEW S \in SUBSET Nat, IsFiniteSet(S)
    PROVE  Max(S \cup {0}) \in Nat /\ \A x \in S : x <= Max(S \cup {0})
  <1> DEFINE Max0(T, m) == m \in T \cup {0} /\ \A x \in T \cup {0} : m >= x
             Without == {T \in SUBSET S : ~\E m \in Nat : Max0(T, m)}
             R == StrictSubsetOrdering(S)
  <1>1. Without = {}
    <2> SUFFICES ASSUME Without # {} PROVE FALSE
      OBVIOUS
    <2>1. IsWellFoundedOn(R, FiniteSubsetsOf(S)) /\ FiniteSubsetsOf(S) = SUBSET S
      BY FS_StrictSubsetOrderingWellFounded, FS_FiniteSubsetsOfFinite
    <2>2. Without \subseteq FiniteSubsetsOf(S)
      BY <2>1
    <2>3. PICK T \in Without : \A U \in Without : ~(<<U, T>> \in R)
      <3> HIDE DEF Without, R
      <3> QED BY <2>1, <2>2, WFMin
    <2>4. Max0({}, 0)
      OBVIOUS
    <2>5. T # {} /\ T \in SUBSET S
      BY <2>4
    <2>6. PICK x \in T : TRUE
      BY <2>5
    <2>7. T \ {x} \in SUBSET S /\ T \ {x} # T /\ T \ {x} \subseteq T /\ x \in Nat
      BY <2>5, <2>6
    <2>8. <<T \ {x}, T>> \in R
      BY <2>5, <2>7 DEF StrictSubsetOrdering
    <2>9. PICK m \in Nat : Max0(T \ {x}, m)
      BY <2>3, <2>7, <2>8
    <2>10. Max0(T, IF x >= m THEN x ELSE m)
      BY <2>5, <2>6, <2>7, <2>9
    <2> QED BY <2>3, <2>7, <2>10
  <1>2. PICK m \in Nat : Max0(S, m)
    BY <1>1
  <1>3. Max(S \cup {0}) \in S \cup {0} /\ \A x \in S \cup {0} : Max(S \cup {0}) >= x
    BY <1>2 DEF Max
  <1>4. S \cup {0} \subseteq Nat
    OBVIOUS
  <1>5. Max(S \cup {0}) \in Nat
    BY <1>3, <1>4
  <1> QED BY <1>3, <1>4, <1>5

\* The slots of a menu: those of the container, then the player's storage.
LEMMA MenuLayout ==
    ASSUME NEW n \in Nat
    PROVE  /\ Hotbar \subseteq Storage /\ Storage \subseteq PlayerSlots
           /\ MenuSlots(n) = 0..n + LastStorage - FirstStorage
           /\ 0..n - 1 \subseteq MenuSlots(n) /\ MenuSlots(n) # {}
           /\ \A s \in MenuSlots(n) : s \in Nat
           /\ \A s \in MenuSlots(n) :
                 s >= n => PlayerSlot(s, n) \in Storage /\ MenuSlot(PlayerSlot(s, n), n) = s
           /\ \A p \in Storage :
                 MenuSlot(p, n) \in MenuSlots(n) /\ MenuSlot(p, n) >= n
                 /\ PlayerSlot(MenuSlot(p, n), n) = p
  <1>1. /\ FirstStorage \in Nat /\ LastStorage \in Nat /\ FirstHotbar \in Nat /\ PlayerSize \in Nat
        /\ FirstStorage < FirstHotbar /\ FirstHotbar <= LastStorage /\ LastStorage < PlayerSize
    BY StackRequestsAssumption
  <1>2. Cardinality(Storage) = LastStorage - FirstStorage + 1
    BY <1>1, FS_Interval DEF Storage
  <1>3. MenuSlots(n) = 0..n + LastStorage - FirstStorage
    <2>1. n + Cardinality(Storage) - 1 = n + LastStorage - FirstStorage
      BY <1>1, <1>2
    <2> QED BY <2>1 DEF MenuSlots
  <1> QED BY <1>1, <1>3 DEF Hotbar, Storage, PlayerSlots, PlayerSlot, MenuSlot

(***************************************************************************)
(* The types                                                               *)
(***************************************************************************)
\* The player's items and the cursor; no window, or a window of the server's.
InventoryTyped ==
    /\ playerItems \in [PlayerSlots -> Item]
    /\ cursorItem \in Item
    /\ window = [id |-> window.id, size |-> window.size, items |-> window.items]
    /\ window = NoWindow \/ (window.id \in WindowIDs /\ window.size \in WindowSizes)
    /\ window.items = <<>> \/ window.items \in [MenuSlots(window.size) -> Item]
    /\ nextStackID \in Nat \ {0}

\* A hotbar click names a hotbar slot; the target of the others is not looked at.  A click
\* outside the window drops one item.
PlannedClick ==
    {click \in [op : {"left", "right", "dropOne", "dropAll"}, slot : Int, target : Int]
                \cup [op : {"hotbar"}, slot : Int, target : Hotbar] :
        click.slot = Outside => click.op = "dropOne"}

\* The request being handled.
RequestTyped ==
    /\ pc \in {"idle", "action", "resolveSource", "resolveDestination", "validateSource",
               "validateDestination", "plan", "click", "next", "panic"}
    /\ request \in Seq(Offered) /\ (Idle <=> request = <<>>)
    /\ clicks \in Seq(PlannedClick)
    /\ clicks # <<>> => pc = "click"
    /\ source \in Int /\ destination \in Int
    /\ source # Outside /\ destination # Outside
    /\ disturbed \in BOOLEAN

\* What the checks that need no lock let through.
ActionStarted ==
    /\ pc \notin {"idle", "action"} => Action.type # "unsupported"
    /\ pc \notin {"idle", "action"} /\ Action.type \in {"transfer", "drop"} => Action.count # 0
    /\ pc \in {"resolveDestination", "validateDestination"} => TwoSlots
    /\ pc \in {"resolveSource", "resolveDestination", "validateDestination", "plan", "click"} =>
          Action.type # "mine"
    /\ pc \in {"validateSource", "validateDestination", "plan", "click"} /\ TwoSlots =>
          ~(source = Cursor /\ destination = Cursor)

Typed == InventoryTyped /\ RequestTyped /\ ActionStarted

\* The domain the simulated inventory has.
SimSlots == IF window = NoWindow THEN PlayerSlots ELSE MenuSlots(window.size)

\* A window's size and slots: none has no items, and one whose content is here has an
\* item in every slot of its menu.
LEMMA WindowFacts ==
    ASSUME InventoryTyped
    PROVE  /\ window.size \in Nat
           /\ window = NoWindow => window.size = 0 /\ window.items = <<>>
           /\ window # NoWindow => window.id # 0
           /\ window.items = <<>> => DOMAIN window.items = {}
           /\ window.items # <<>> => DOMAIN window.items = MenuSlots(window.size)
           /\ \A s \in DOMAIN window.items : window.items[s] \in Item
  <1>1. WindowSizes \subseteq Nat /\ 0 \notin WindowIDs
    BY StackRequestsAssumption
  <1>2. NoWindow.size = 0 /\ NoWindow.items = <<>>
    BY DEF NoWindow
  <1>3. window # NoWindow => window.id # 0 /\ window.size \in Nat
    BY <1>1 DEF InventoryTyped
  <1> QED BY <1>1, <1>2, <1>3 DEF InventoryTyped

\* The simulated inventory has an item in every slot (inventorySimulationLocked).
LEMMA SimTyped ==
    ASSUME InventoryTyped
    PROVE  /\ SimItems \in [SimSlots -> Item]
           /\ DOMAIN SimItems = SimSlots
           /\ \A s \in SimSlots : s \in Nat
           /\ Cursor \notin SimSlots /\ Outside \notin SimSlots
           /\ window # NoWindow => \A s \in SimSlots : SimItems[s] =
                 IF s >= window.size THEN playerItems[PlayerSlot(s, window.size)]
                 ELSE IF s \in DOMAIN window.items THEN window.items[s] ELSE Empty
  <1>1. CASE window = NoWindow
    BY <1>1 DEF SimSlots, SimItems, InventoryTyped, PlayerSlots, Cursor, Outside
  <1>2. CASE window # NoWindow
    <2>1. window.size \in Nat
      BY WindowFacts
    <2>2. SimItems = [s \in SimSlots |->
              IF s >= window.size THEN playerItems[PlayerSlot(s, window.size)]
              ELSE IF s \in DOMAIN window.items THEN window.items[s] ELSE Empty]
      BY <1>2 DEF SimItems, SimSlots
    <2>3. SimSlots = MenuSlots(window.size)
      BY <1>2 DEF SimSlots
    <2>4. ASSUME NEW s \in SimSlots
          PROVE  SimItems[s] \in Item
      <3>1. CASE s >= window.size
        <4>1. PlayerSlot(s, window.size) \in PlayerSlots
          BY <2>1, <2>3, <3>1, MenuLayout
        <4> QED BY <2>2, <3>1, <4>1 DEF InventoryTyped
      <3>2. CASE ~(s >= window.size)
        BY <2>2, <3>2, WindowFacts DEF Item
      <3> QED BY <3>1, <3>2
    <2>5. \A s \in SimSlots : s \in Nat
      BY <2>1, <2>3, MenuLayout
    <2>6. Cursor \notin SimSlots /\ Outside \notin SimSlots
      BY <2>5 DEF Cursor, Outside
    <2> QED BY <2>2, <2>4, <2>5, <2>6
  <1> QED BY <1>1, <1>2

\* Store makes the simulated inventory the inventory: what is read next is what
\* was stored (updatePlayerInventoryFromWindowLocked).
LEMMA Stored ==
    ASSUME InventoryTyped, nextStackID' \in Nat \ {0},
           NEW items \in [SimSlots -> Item], NEW cursor \in Item, Store(items, cursor)
    PROVE  /\ InventoryTyped'
           /\ SimItems' = items
           /\ SimSlots' = SimSlots
           /\ cursorItem' = cursor
           /\ window = NoWindow <=> window' = NoWindow
           /\ window'.size = window.size
           /\ window = NoWindow => playerItems' = items /\ window' = window
           /\ window # NoWindow =>
                 /\ window'.items = items
                 /\ \A p \in PlayerSlots : playerItems'[p] =
                       IF p \in Storage THEN items[MenuSlot(p, window.size)] ELSE playerItems[p]
  <1>1. CASE window = NoWindow
    <2>1. playerItems' = items /\ window' = window /\ cursorItem' = cursor
      BY <1>1 DEF Store
    <2> QED BY <1>1, <2>1 DEF InventoryTyped, SimItems, SimSlots
  <1>2. CASE window # NoWindow
    <2>1. window.size \in Nat /\ window.id # 0
      BY <1>2, WindowFacts
    <2>2. window' = [id |-> window.id, size |-> window.size, items |-> items]
      BY <1>2 DEF Store, InventoryTyped
    <2>3. window'.size = window.size /\ window'.id = window.id /\ window'.items = items
      BY <2>2
    <2>4. window' # NoWindow
      BY <2>1, <2>3 DEF NoWindow
    <2>5. SimSlots = MenuSlots(window.size) /\ SimSlots' = MenuSlots(window.size)
      BY <1>2, <2>3, <2>4 DEF SimSlots
    <2>6. playerItems' = [p \in PlayerSlots |->
              IF p \in Storage THEN items[MenuSlot(p, window.size)] ELSE playerItems[p]]
          /\ cursorItem' = cursor
      BY <1>2 DEF Store
    <2>7. \A p \in Storage : MenuSlot(p, window.size) \in SimSlots
      BY <2>1, <2>5, MenuLayout
    <2>8. playerItems' \in [PlayerSlots -> Item]
      BY <2>6, <2>7 DEF InventoryTyped
    <2>9. InventoryTyped'
      BY <1>2, <2>2, <2>3, <2>5, <2>6, <2>8 DEF InventoryTyped
    <2>10. ASSUME NEW s \in SimSlots
           PROVE  SimItems'[s] = items[s]
      <3>1. SimItems'[s] = IF s >= window.size THEN playerItems'[PlayerSlot(s, window.size)]
                           ELSE IF s \in DOMAIN items THEN items[s] ELSE Empty
        BY <2>3, <2>4, <2>5 DEF SimItems
      <3>2. s >= window.size => /\ PlayerSlot(s, window.size) \in Storage
                                /\ PlayerSlot(s, window.size) \in PlayerSlots
                                /\ MenuSlot(PlayerSlot(s, window.size), window.size) = s
        BY <2>1, <2>5, MenuLayout
      <3>3. s >= window.size => playerItems'[PlayerSlot(s, window.size)] = items[s]
        BY <2>6, <3>2
      <3> QED BY <3>1, <3>3
    <2>11. SimItems' = items
      <3>1. SimItems' = [s \in SimSlots |-> SimItems'[s]]
        BY <2>3, <2>4, <2>5 DEF SimItems
      <3> QED BY <2>10, <3>1
    <2> QED BY <1>2, <2>3, <2>4, <2>5, <2>6, <2>9, <2>11
  <1> QED BY <1>1, <1>2

(***************************************************************************)
(* Stack network IDs of a click                                            *)
(***************************************************************************)
\* Two IDs that do not name the same stack; 0 names none.
Apart(a, b) == a # 0 => a # b

\* An item is empty by its count, by its kind and by its ID, all at once.
LEMMA ItemFacts ==
    ASSUME NEW item \in Item
    PROVE  /\ item.id \in Nat /\ item.count \in Nat
           /\ item.id = 0 <=> item = Empty
           /\ item.count = 0 <=> item = Empty
           /\ IsEmpty(item) <=> item = Empty
           /\ item = [kind |-> item.kind, count |-> item.count, id |-> item.id]
           /\ Empty \in Item /\ Empty.id = 0 /\ Empty.count = 0
  BY ClicksAssumption DEF Item, Stack, Empty, IsEmpty

\* A stack put together of a kind, a count and an ID is an item.
LEMMA StackMade ==
    ASSUME NEW kind \in Kinds, NEW count \in Nat \ {0}, NEW id \in Nat \ {0}
    PROVE  [kind |-> kind, count |-> count, id |-> id] \in Item
  BY DEF Item, Stack

\* What is left of an item that gives n away (subtractItem).
LEMMA SubtractItem ==
    ASSUME NEW item \in Item, NEW n \in Nat
    PROVE  /\ Subtract(item, n) \in Item
           /\ n >= item.count => Subtract(item, n) = Empty
           /\ n < item.count =>
                 Subtract(item, n) = [kind |-> item.kind, count |-> item.count - n, id |-> item.id]
           /\ Subtract(item, n).id \in {0, item.id}
  <1>1. CASE n >= item.count
    BY <1>1, ItemFacts DEF Subtract
  <1>2. CASE n < item.count
    <2>1. item \in Stack /\ item.count - n \in Nat \ {0}
      BY <1>2, ItemFacts DEF Item
    <2>2. Subtract(item, n) = [kind |-> item.kind, count |-> item.count - n, id |-> item.id]
      BY <1>2, <2>1, ItemFacts DEF Subtract, Stack
    <2>3. Subtract(item, n) \in Item
      BY <2>1, <2>2, StackMade DEF Stack
    <2>4. item.count \in Nat
      BY ItemFacts
    <2> QED BY <1>2, <2>2, <2>3, <2>4
  <1> QED BY <1>1, <1>2, ItemFacts

\* A left click makes items of items, and gives no stack a new ID or two stacks the
\* same one.
LEMMA LeftClickIDs ==
    ASSUME NEW slot \in Item, NEW cursor \in Item, Apart(slot.id, cursor.id)
    PROVE  LET after == LeftClick(slot, cursor)
           IN  /\ after.slot \in Item /\ after.cursor \in Item
               /\ after.slot.id \in {0, slot.id, cursor.id}
               /\ after.cursor.id \in {0, slot.id, cursor.id}
               /\ Apart(after.slot.id, after.cursor.id)
  <1>1. CASE ~SameItem(slot, cursor)
    BY <1>1, ItemFacts DEF LeftClick, Apart
  <1>2. CASE SameItem(slot, cursor)
    <2> DEFINE move == Least(MaxStack - Least(slot.count, MaxStack), cursor.count)
               merged == [slot EXCEPT !.count = @ + move]
    <2>1. slot \in Stack /\ cursor \in Stack
      BY <1>2, EmptyOrStack DEF SameItem
    <2>2. move \in Nat
      BY <2>1, ClicksAssumption DEF Least, Stack
    <2>3. LeftClick(slot, cursor) = [slot |-> merged, cursor |-> Subtract(cursor, move)]
      BY <1>2 DEF LeftClick
    <2> HIDE DEF move
    <2>4. slot.count + move \in Nat \ {0}
      BY <2>1, <2>2 DEF Stack
    <2>5. merged \in Item /\ merged.id = slot.id
      BY <2>1, <2>4 DEF Item, Stack
    <2>6. Subtract(cursor, move) \in Item /\ Subtract(cursor, move).id \in {0, cursor.id}
      BY <2>2, SubtractItem
    <2>7. slot.id # 0 /\ slot.id # cursor.id
      BY <2>1 DEF Stack, Apart
    <2> HIDE DEF merged
    <2> QED BY <2>3, <2>5, <2>6, <2>7 DEF Apart
  <1> QED BY <1>1, <1>2

\* A right click gives an ID only to the stack it splits off.
LEMMA RightClickIDs ==
    ASSUME NEW slot \in Item, NEW cursor \in Item, Apart(slot.id, cursor.id),
           NEW id \in Nat \ {0}, id # slot.id, id # cursor.id
    PROVE  LET after == RightClick(slot, cursor, id)
               names == {0, slot.id, cursor.id} \cup (IF Splits(slot, cursor) THEN {id} ELSE {})
           IN  /\ after.slot \in Item /\ after.cursor \in Item
               /\ after.slot.id \in names
               /\ after.cursor.id \in names
               /\ Apart(after.slot.id, after.cursor.id)
  <1>1. CASE IsEmpty(cursor) /\ ~IsEmpty(slot)
    <2> DEFINE half == slot.count - slot.count \div 2
               taken == [slot EXCEPT !.count = half, !.id = id]
    <2>1. slot \in Stack /\ cursor = Empty
      BY <1>1, EmptyOrStack
    <2>2. half \in Nat \ {0}
      BY <2>1 DEF Stack
    <2>3. RightClick(slot, cursor, id) = [slot |-> Subtract(slot, half), cursor |-> taken]
      BY <1>1 DEF RightClick, SplitHalf
    <2> HIDE DEF half
    <2>4. taken \in Item /\ taken.id = id
      BY <2>1, <2>2 DEF Item, Stack
    <2>5. Subtract(slot, half) \in Item /\ Subtract(slot, half).id \in {0, slot.id}
      BY <2>2, SubtractItem
    <2> HIDE DEF taken
    <2>6. Splits(slot, cursor)
      BY <1>1 DEF Splits, IsEmpty
    <2> QED BY <2>3, <2>4, <2>5, <2>6 DEF Apart
  <1>2. CASE ~IsEmpty(cursor) /\ IsEmpty(slot)
    <2> DEFINE placed == [cursor EXCEPT !.count = 1, !.id = id]
    <2>1. cursor \in Stack /\ slot = Empty
      BY <1>2, EmptyOrStack
    <2>2. RightClick(slot, cursor, id) = [slot |-> placed, cursor |-> Subtract(cursor, 1)]
      BY <1>2 DEF RightClick, SplitOne
    <2>3. placed \in Item /\ placed.id = id
      <3>1. 1 \in Nat \ {0}
        OBVIOUS
      <3> QED BY <2>1, <3>1 DEF Item, Stack
    <2>4. Subtract(cursor, 1) \in Item /\ Subtract(cursor, 1).id \in {0, cursor.id}
      BY SubtractItem
    <2> HIDE DEF placed
    <2>5. Splits(slot, cursor)
      BY <1>2 DEF Splits, IsEmpty
    <2> QED BY <2>2, <2>3, <2>4, <2>5 DEF Apart
  <1>3. CASE SameItem(slot, cursor) /\ slot.count < MaxStack
    <2> DEFINE grown == [slot EXCEPT !.count = @ + 1]
    <2>1. slot \in Stack /\ cursor \in Stack
      BY <1>3, EmptyOrStack DEF SameItem
    <2>2. RightClick(slot, cursor, id) = [slot |-> grown, cursor |-> Subtract(cursor, 1)]
      BY <1>3 DEF RightClick, SameItem, AddOne
    <2>3. grown \in Item /\ grown.id = slot.id
      BY <2>1 DEF Item, Stack
    <2>4. Subtract(cursor, 1) \in Item /\ Subtract(cursor, 1).id \in {0, cursor.id}
      BY SubtractItem
    <2>5. slot.id # 0 /\ slot.id # cursor.id
      BY <2>1 DEF Stack, Apart
    <2> HIDE DEF grown
    <2> QED BY <2>2, <2>3, <2>4, <2>5 DEF Apart
  <1>4. CASE SameItem(slot, cursor) /\ ~(slot.count < MaxStack)
    BY <1>4 DEF RightClick, SameItem
  <1>5. CASE ~SameItem(slot, cursor) /\ (IsEmpty(slot) <=> IsEmpty(cursor))
    <2>1. RightClick(slot, cursor, id) = [slot |-> cursor, cursor |-> slot]
      BY <1>5 DEF RightClick
    <2> QED BY <2>1, ItemFacts DEF Apart
  <1> QED BY <1>1, <1>2, <1>3, <1>4, <1>5

(***************************************************************************)
(* The plans                                                               *)
(***************************************************************************)
\* Every plan is a sequence of clicks.
LEMMA PlansTyped ==
    ASSUME NEW n \in Nat, NEW count \in Nat, n <= count, NEW from \in Int, NEW to \in Int,
           from # Outside, to # Outside
    PROVE  /\ TakeClicks(n, from, count) \in Seq(PlannedClick)
           /\ PlaceClicks(n, to, count) \in Seq(PlannedClick)
           /\ MoveClicks(n, from, to, count) \in Seq(PlannedClick)
           /\ ExchangeClicks(from, to) \in Seq(PlannedClick)
           /\ CursorDropClicks(n, count) \in Seq(PlannedClick)
           /\ SlotDropClicks(n, from, count) \in Seq(PlannedClick)
  <1>1. ASSUME NEW op \in {"left", "right", "dropOne", "dropAll"}, NEW slot \in Int,
               slot = Outside => op = "dropOne"
        PROVE  /\ Click(op, slot) \in PlannedClick
               /\ <<Click(op, slot)>> \in Seq(PlannedClick)
    BY <1>1 DEF Click, PlannedClick
  <1>2. ASSUME NEW op \in {"left", "right", "dropOne", "dropAll"}, NEW slot \in Int,
               slot = Outside => op = "dropOne", NEW k \in Nat
        PROVE  Times(k, Click(op, slot)) \in Seq(PlannedClick)
    <2>1. \A i \in 1..k : Click(op, slot) \in PlannedClick
      BY <1>1, <1>2
    <2> HIDE DEF PlannedClick
    <2> QED BY <2>1, IsASeq DEF Times
  <1>3. Outside \in Int /\ count - n \in Nat
    BY DEF Outside
  <1>4. TakeClicks(n, from, count) \in Seq(PlannedClick)
    BY <1>1, <1>2, <1>3, Joined DEF TakeClicks
  <1>5. PlaceClicks(n, to, count) \in Seq(PlannedClick)
    BY <1>1, <1>2 DEF PlaceClicks
  <1>6. MoveClicks(n, from, to, count) \in Seq(PlannedClick)
    <2>1. <<Click("left", from)>> \o Times(n, Click("right", to)) \in Seq(PlannedClick)
      BY <1>1, <1>2, Joined
    <2>2. <<Click("left", from)>> \o Times(n, Click("right", to)) \o <<Click("left", from)>>
            \in Seq(PlannedClick)
      BY <1>1, <2>1, Joined
    <2>3. /\ <<Click("left", from), Click("left", to)>> \in Seq(PlannedClick)
          /\ <<Click("right", from), Click("left", to)>> \in Seq(PlannedClick)
      BY <1>1
    <2> QED BY <2>2, <2>3 DEF MoveClicks
  <1>7. ExchangeClicks(from, to) \in Seq(PlannedClick)
    BY <1>1 DEF ExchangeClicks
  <1>8. CursorDropClicks(n, count) \in Seq(PlannedClick)
    BY <1>1, <1>2, <1>3 DEF CursorDropClicks
  <1>9. SlotDropClicks(n, from, count) \in Seq(PlannedClick)
    BY <1>1, <1>2 DEF SlotDropClicks
  <1> QED BY <1>4, <1>5, <1>6, <1>7, <1>8, <1>9

(***************************************************************************)
(* The action at hand                                                      *)
(***************************************************************************)
LEMMA RefFacts ==
    ASSUME NEW ref \in Refs
    PROVE  /\ ref.container \in {"cursor", "player", "hotbar", "window"}
           /\ ref.slot \in Nat
           /\ ref.container \in {"player", "hotbar"} => ref.slot \in PlayerSlots
           /\ ref.container = "hotbar" => ref.slot \in Hotbar
           /\ ref.container = "cursor" => ref.slot = 0
  <1>1. Hotbar \subseteq PlayerSlots /\ PlayerSlots \subseteq Nat
    BY MenuLayout DEF PlayerSlots
  <1>2. WindowSizes \subseteq Nat
    BY StackRequestsAssumption
  <1>3. UNION {0..n - 1 : n \in WindowSizes} \subseteq Nat
    BY <1>2
  <1> DEFINE W == UNION {0..n - 1 : n \in WindowSizes}
  <1> HIDE DEF W
  <1>4. ref \in [container : {"cursor"}, slot : {0}, id : RefIDs]
               \cup [container : {"player"}, slot : PlayerSlots, id : RefIDs]
               \cup [container : {"hotbar"}, slot : Hotbar, id : RefIDs]
               \cup [container : {"window"}, slot : W, id : RefIDs]
    BY DEF Refs, W
  <1>5. W \subseteq Nat
    BY <1>3 DEF W
  <1>6. ref.slot \in Nat
    <2>1. ref.slot \in {0} \cup PlayerSlots \cup Hotbar \cup W
      BY <1>4
    <2>2. {0} \cup PlayerSlots \cup Hotbar \cup W \subseteq Nat
      <3>1. \A x \in {0} \cup PlayerSlots \cup Hotbar \cup W : x = 0 \/ x \in PlayerSlots \/ x \in Hotbar \/ x \in W
        BY Zenon
      <3>2. 0 \in Nat
        OBVIOUS
      <3> QED BY <1>1, <1>5, <3>1, <3>2, Zenon
    <2> QED BY <2>1, <2>2, Zenon
  <1> QED BY <1>1, <1>4, <1>6

\* While a request is handled its first action is the one at hand.
LEMMA ActionFacts ==
    ASSUME RequestTyped, pc # "idle"
    PROVE  /\ request # <<>> /\ Action \in Offered /\ Action \in Actions
           /\ Tail(request) \in Seq(Offered) /\ Len(Tail(request)) = Len(request) - 1
           /\ Len(request) \in Nat
           /\ Action.type \in {"transfer", "swap", "drop", "mine", "unsupported"}
           /\ Action.type # "unsupported" => Action.source \in Refs
           /\ Action.type = "mine" => Action.source.slot \in Hotbar
           /\ Action.type \in {"transfer", "swap"} => Action.destination \in Refs
           /\ Action.type \in {"transfer", "drop"} => Action.count \in 0..MaxStack
  <1>1. request # <<>> /\ request \in Seq(Offered)
    BY DEF RequestTyped, Idle
  <1>2. /\ Head(request) \in Offered
        /\ Tail(request) \in Seq(Offered) /\ Len(Tail(request)) = Len(request) - 1
        /\ Len(request) \in Nat
    BY <1>1, Popped
  <1>3. Action \in Actions
    BY <1>2, OfferedAssumption DEF Action
  <1>4. [container : {"hotbar"}, slot : Hotbar, id : RefIDs] \subseteq Refs
    BY DEF Refs
  <1>5. /\ Action.type \in {"transfer", "swap", "drop", "mine", "unsupported"}
        /\ Action.type # "unsupported" => Action.source \in Refs
        /\ Action.type = "mine" => Action.source.slot \in Hotbar
        /\ Action.type \in {"transfer", "swap"} => Action.destination \in Refs
        /\ Action.type \in {"transfer", "drop"} => Action.count \in 0..MaxStack
    <2> HIDE DEF Action
    <2> QED BY <1>3, <1>4 DEF Actions
  <1> QED BY <1>1, <1>2, <1>3, <1>5 DEF Action

\* A reference resolves to a slot of the inventory that is shown, or to none.
LEMMA ResolveTyped ==
    ASSUME InventoryTyped, NEW ref \in Refs
    PROVE  /\ Resolve(ref) \in Int /\ Resolve(ref) # Outside
           /\ Resolve(ref) # Unsupported => Resolve(ref) \in SimSlots \cup {Cursor}
  <1>0. window.size \in Nat /\ (window = NoWindow => window.size = 0)
    BY WindowFacts
  <1>1. CASE ref.container = "cursor"
    BY <1>1 DEF Resolve, Cursor, Outside
  <1>2. CASE ref.container \in {"player", "hotbar"} /\ window = NoWindow
    <2>1. Resolve(ref) = ref.slot
      BY <1>2 DEF Resolve
    <2>2. ref.slot \in Nat
      BY RefFacts
    <2> QED BY <1>2, <2>1, <2>2, RefFacts DEF SimSlots, Outside
  <1>3. CASE ref.container \in {"player", "hotbar"} /\ window # NoWindow /\ ref.slot \in Storage
    <2>1. Resolve(ref) = MenuSlot(ref.slot, window.size)
      BY <1>3 DEF Resolve
    <2>2. MenuSlot(ref.slot, window.size) \in MenuSlots(window.size)
          /\ \A s \in MenuSlots(window.size) : s \in Nat
      BY <1>0, <1>3, MenuLayout
    <2> QED BY <1>3, <2>1, <2>2 DEF SimSlots, Outside
  <1>4. CASE ref.container = "window" /\ ref.slot < window.size
    <2>1. Resolve(ref) = ref.slot
      BY <1>4 DEF Resolve
    <2>2. ref.slot \in Nat
      BY RefFacts
    <2>3. window # NoWindow
      BY <1>0, <1>4, <2>2
    <2>4. 0..window.size - 1 \subseteq MenuSlots(window.size)
      BY <1>0, MenuLayout
    <2>5. ref.slot \in 0..window.size - 1
      BY <1>0, <1>4, <2>2
    <2> QED BY <2>1, <2>2, <2>3, <2>4, <2>5 DEF SimSlots, Outside
  <1>5. CASE /\ ref.container # "cursor"
             /\ ~(ref.container \in {"player", "hotbar"} /\ window = NoWindow)
             /\ ~(ref.container \in {"player", "hotbar"} /\ window # NoWindow /\ ref.slot \in Storage)
             /\ ~(ref.container = "window" /\ ref.slot < window.size)
    <2>1. Resolve(ref) = Unsupported
      BY <1>5 DEF Resolve
    <2> QED BY <2>1 DEF Unsupported, Outside
  <1> QED BY <1>1, <1>2, <1>3, <1>4, <1>5

\* What a slot of the simulated inventory or the cursor holds.
LEMMA ItemAtTyped ==
    ASSUME InventoryTyped, NEW slot \in Int, ~OutOfRange(slot)
    PROVE  ItemAt(Now, slot) \in Item /\ slot \in SimSlots \cup {Cursor}
  <1>1. Now.items = SimItems /\ Now.cursor = cursorItem
    BY DEF Now
  <1> HIDE DEF Now
  <1> QED BY <1>1, SimTyped DEF ItemAt, OutOfRange, InventoryTyped

(***************************************************************************)
(* The types are kept                                                      *)
(***************************************************************************)
\* The inventory a session begins with numbers its stacks by their places.
LEMMA ContentsFacts ==
    ASSUME NEW top \in Nat, NEW all \in Contents(0..top)
    PROVE  /\ all \in [0..top -> Item]
           /\ \A s \in 0..top : all[s].id = 0 \/ all[s].id = s + 1
  <1>1. PICK f \in [0..top -> {Empty} \cup {[kind |-> c.kind, count |-> c.count, id |-> 1] : c \in Supply}] :
           all = [s \in 0..top |-> IF f[s] = Empty THEN Empty ELSE [f[s] EXCEPT !.id = s + 1]]
    BY DEF Contents
  <1>2. ASSUME NEW s \in 0..top, f[s] # Empty
        PROVE  [f[s] EXCEPT !.id = s + 1] \in Item /\ [f[s] EXCEPT !.id = s + 1].id = s + 1
    <2>1. PICK c \in Supply : f[s] = [kind |-> c.kind, count |-> c.count, id |-> 1]
      BY <1>2
    <2>2. c.kind \in Kinds /\ c.count \in Nat \ {0}
      BY StackRequestsAssumption
    <2>3. [f[s] EXCEPT !.id = s + 1] = [kind |-> c.kind, count |-> c.count, id |-> s + 1]
      BY <2>1
    <2>4. s + 1 \in Nat \ {0}
      OBVIOUS
    <2> QED BY <2>2, <2>3, <2>4, StackMade
  <1>3. Empty \in Item /\ Empty.id = 0
    BY DEF Item, Empty
  <1> QED BY <1>1, <1>2, <1>3

\* A session begins with its inventory and its request in shape.
LEMMA TypedInit ==
    ASSUME Init
    PROVE  Typed
  <1> DEFINE top == PlayerSize + Max(WindowSizes \cup {0})
  <1>0. /\ WindowSizes \in SUBSET Nat /\ IsFiniteSet(WindowSizes)
        /\ PlayerSize \in Nat /\ WindowIDs \subseteq Nat \ {0} /\ WindowSizes \subseteq Nat \ {0}
        /\ Max(WindowSizes \cup {0}) \in Nat
        /\ \A n \in WindowSizes : n <= Max(WindowSizes \cup {0})
    <2>1. /\ WindowSizes \in SUBSET Nat /\ IsFiniteSet(WindowSizes)
          /\ PlayerSize \in Nat /\ WindowIDs \subseteq Nat \ {0} /\ WindowSizes \subseteq Nat \ {0}
      BY StackRequestsAssumption
    <2> QED BY <2>1, MaxBounds
  <1>1. PICK all \in Contents(0..top) : \E w \in WindowIDs \cup {0}, n \in WindowSizes :
             LET player == [p \in PlayerSlots |-> all[p]]
                 extra == [s \in 0..n - 1 |-> all[PlayerSize + 1 + s]]
             IN /\ playerItems = player
                /\ cursorItem = all[PlayerSize]
                /\ IF w = 0 THEN window = NoWindow /\ \A s \in 0..n - 1 : extra[s] = Empty
                   ELSE window = [id |-> w, size |-> n, items |->
                          [s \in MenuSlots(n) |-> IF s < n THEN extra[s] ELSE player[PlayerSlot(s, n)]]]
    BY DEF Init
  <1>t. top \in Nat
    BY <1>0
  <1> HIDE DEF top
  <1>2. all \in [0..top -> Item]
    BY <1>t, ContentsFacts
  <1>3. PlayerSlots \subseteq 0..top /\ PlayerSize \in 0..top
    BY <1>0 DEF PlayerSlots, top
  <1>4. playerItems \in [PlayerSlots -> Item] /\ cursorItem \in Item
    BY <1>1, <1>2, <1>3
  <1>5. /\ window = [id |-> window.id, size |-> window.size, items |-> window.items]
        /\ window = NoWindow \/ (window.id \in WindowIDs /\ window.size \in WindowSizes)
        /\ window.items = <<>> \/ window.items \in [MenuSlots(window.size) -> Item]
    <2>1. CASE window = NoWindow
      BY <2>1 DEF NoWindow
    <2>2. CASE window # NoWindow
      <3>1. PICK w \in WindowIDs \cup {0}, n \in WindowSizes :
               /\ playerItems = [p \in PlayerSlots |-> all[p]]
               /\ w # 0
               /\ window = [id |-> w, size |-> n, items |->
                          [s \in MenuSlots(n) |-> IF s < n THEN [t \in 0..n - 1 |-> all[PlayerSize + 1 + t]][s]
                                                  ELSE [p \in PlayerSlots |-> all[p]][PlayerSlot(s, n)]]]
        BY <1>1, <2>2
      <3>2. ASSUME NEW s \in MenuSlots(n)
            PROVE  (IF s < n THEN [t \in 0..n - 1 |-> all[PlayerSize + 1 + t]][s]
                    ELSE [p \in PlayerSlots |-> all[p]][PlayerSlot(s, n)]) \in Item
        <4>1. s \in Nat /\ n \in Nat /\ n <= Max(WindowSizes \cup {0})
          BY <1>0, MenuLayout
        <4>2. CASE s < n
          <5>1. PlayerSize + 1 + s \in 0..top /\ s \in 0..n - 1
            BY <1>0, <4>1, <4>2 DEF top
          <5> QED BY <1>2, <4>2, <5>1
        <4>3. CASE ~(s < n)
          <5>1. PlayerSlot(s, n) \in PlayerSlots
            BY <4>1, <4>3, MenuLayout
          <5> QED BY <1>2, <1>3, <4>3, <5>1
        <4> QED BY <4>2, <4>3
      <3>3. window.id = w /\ window.size = n /\ window.items \in [MenuSlots(n) -> Item]
        BY <3>1, <3>2
      <3> QED BY <3>1, <3>3
    <2> QED BY <2>1, <2>2
  <1>6. nextStackID \in Nat \ {0}
    BY <1>0 DEF Init
  <1>7. RequestTyped
    <2>1. /\ pc = "idle" /\ request = <<>> /\ source = 0 /\ destination = 0 /\ clicks = <<>>
          /\ disturbed = FALSE
      BY DEF Init
    <2>2. request \in Seq(Offered) /\ clicks \in Seq(PlannedClick)
      BY <2>1, EmptySeq
    <2>3. source \in Int /\ destination \in Int /\ source # Outside /\ destination # Outside
      BY <2>1 DEF Outside
    <2>7. disturbed \in BOOLEAN
      BY <2>1, Zenon
    <2>4. Idle <=> request = <<>>
      BY <2>1 DEF Idle
    <2>5. pc \in {"idle", "action", "resolveSource", "resolveDestination", "validateSource",
               "validateDestination", "plan", "click", "next", "panic"}
      BY <2>1
    <2>6. clicks = <<>>
      BY <2>1
    <2> QED BY <2>2, <2>3, <2>4, <2>5, <2>6, <2>7 DEF RequestTyped
  <1>8. ActionStarted
    BY DEF Init, ActionStarted
  <1> QED BY <1>4, <1>5, <1>6, <1>7, <1>8 DEF Typed, InventoryTyped

\* A step that leaves the inventory alone leaves the simulated one as it is.
LEMMA InventoryUnchanged ==
    ASSUME InventoryTyped, UNCHANGED inventory
    PROVE  /\ InventoryTyped' /\ SimItems' = SimItems /\ SimSlots' = SimSlots
           /\ Now' = Now
  BY DEF inventory, InventoryTyped, SimItems, SimSlots, Now

\* Rejecting a request, going on with the action, and planning keep the types.
LEMMA RejectTyped ==
    ASSUME Typed, Reject
    PROVE  Typed'
  <1>1. /\ pc' = "idle" /\ request' = <<>> /\ clicks' = <<>> /\ UNCHANGED inventory
        /\ source' = source /\ destination' = destination /\ disturbed' = disturbed
    BY DEF Reject
  <1>2. request' \in Seq(Offered) /\ clicks' \in Seq(PlannedClick)
    BY <1>1, EmptySeq
  <1>3. pc' \in {"idle", "action", "resolveSource", "resolveDestination", "validateSource",
               "validateDestination", "plan", "click", "next", "panic"}
    BY <1>1
  <1>4. Idle' <=> request' = <<>>
    BY <1>1 DEF Idle
  <1>5. RequestTyped'
    BY <1>1, <1>2, <1>3, <1>4 DEF RequestTyped, Typed
  <1>6. ActionStarted'
    BY <1>1 DEF ActionStarted
  <1> QED BY <1>1, <1>5, <1>6, InventoryUnchanged DEF Typed

\* Going on with an action at another place of the handler.
LEMMA ContinueTyped ==
    ASSUME Typed, NEW where, Continue(where), pc # "idle", clicks = <<>>,
           where \in {"action", "resolveSource", "resolveDestination", "validateSource",
               "validateDestination", "plan", "click", "next", "panic"},
           source' \in Int, destination' \in Int, source' # Outside, destination' # Outside,
           where # "action", pc # "action",
           where \in {"resolveDestination", "validateDestination"} => TwoSlots,
           where \in {"validateSource", "validateDestination", "plan", "click"} /\ TwoSlots =>
               ~(source' = Cursor /\ destination' = Cursor),
           where \in {"resolveSource", "resolveDestination", "validateDestination", "plan", "click"} =>
               Action.type # "mine"
    PROVE  Typed'
  <1>1. /\ pc' = where /\ request' = request /\ clicks' = clicks /\ disturbed' = disturbed
        /\ UNCHANGED inventory
    BY DEF Continue
  <1>2. pc' \in {"idle", "action", "resolveSource", "resolveDestination", "validateSource",
               "validateDestination", "plan", "click", "next", "panic"}
    BY <1>1
  <1>4. Idle' <=> request' = <<>>
    BY <1>1 DEF Idle, Typed, RequestTyped
  <1>5. RequestTyped'
    BY <1>1, <1>2, <1>4 DEF RequestTyped, Typed
  <1>6. ActionStarted'
    <2>1. Action' = Action /\ (TwoSlots' <=> TwoSlots)
      BY <1>1 DEF Action, TwoSlots
    <2> QED BY <1>1, <2>1 DEF ActionStarted, Typed
  <1> QED BY <1>1, <1>5, <1>6, InventoryUnchanged DEF Typed

\* Planning clicks.
LEMMA PlanTyped ==
    ASSUME Typed, pc = "plan", NEW planned \in Seq(PlannedClick), Plan(planned)
    PROVE  Typed'
  <1>1. /\ pc' = "click" /\ request' = request /\ clicks' = planned /\ disturbed' = disturbed
        /\ source' = source /\ destination' = destination
        /\ UNCHANGED inventory
    BY DEF Plan
  <1>2. pc' \in {"idle", "action", "resolveSource", "resolveDestination", "validateSource",
               "validateDestination", "plan", "click", "next", "panic"}
    BY <1>1
  <1>4. Idle' <=> request' = <<>>
    BY <1>1 DEF Idle, Typed, RequestTyped
  <1>5. RequestTyped'
    BY <1>1, <1>2, <1>4 DEF RequestTyped, Typed
  <1>6. ActionStarted'
    <2>1. Action' = Action /\ (TwoSlots' <=> TwoSlots)
      BY <1>1 DEF Action, TwoSlots
    <2> QED BY <1>1, <2>1 DEF ActionStarted, Typed
  <1> QED BY <1>1, <1>5, <1>6, InventoryUnchanged DEF Typed

\* Clicks are only there while they are sent.
LEMMA NoClicks ==
    ASSUME Typed, pc # "click"
    PROVE  clicks = <<>>
  BY DEF Typed, RequestTyped

\* The steps before the first click.
LEMMA StartTyped ==
    ASSUME Typed, \/ \E n \in 0..MaxActions : \E actions \in [1..n -> Offered] : ReadRequest(actions)
                  \/ StartAction
    PROVE  Typed'
  <1>1. ASSUME NEW n \in 0..MaxActions, NEW actions \in [1..n -> Offered], ReadRequest(actions)
        PROVE  Typed'
    <2>1. /\ request' = actions /\ clicks' = clicks /\ source' = source
          /\ destination' = destination /\ disturbed' = disturbed /\ UNCHANGED inventory
          /\ pc' = IF actions = <<>> THEN "idle" ELSE "action"
      BY <1>1 DEF ReadRequest
    <2>2. actions \in Seq(Offered)
      <3>1. n \in Nat
        BY StackRequestsAssumption
      <3> QED BY <3>1, SeqDef
    <2>3. clicks = <<>>
      BY <1>1, NoClicks DEF ReadRequest, Idle
    <2>4. pc' \in {"idle", "action", "resolveSource", "resolveDestination", "validateSource",
               "validateDestination", "plan", "click", "next", "panic"}
      BY <2>1
    <2>5. Idle' <=> request' = <<>>
      BY <2>1 DEF Idle
    <2>6. RequestTyped'
      BY <2>1, <2>2, <2>3, <2>4, <2>5 DEF RequestTyped, Typed
    <2>7. ActionStarted'
      BY <2>1 DEF ActionStarted
    <2> QED BY <2>1, <2>6, <2>7, InventoryUnchanged DEF Typed
  <1>2. CASE StartAction
    <2>1. /\ UNCHANGED inventory /\ destination' = destination /\ disturbed' = FALSE
          /\ pc = "action"
      BY <1>2 DEF StartAction
    <2>2. disturbed' \in BOOLEAN /\ destination' \in Int /\ destination' # Outside /\ clicks = <<>>
      BY <2>1, NoClicks DEF Typed, RequestTyped
    <2>3. CASE pc' = "idle" /\ request' = <<>> /\ clicks' = <<>> /\ UNCHANGED source
      <3>1. request' \in Seq(Offered) /\ clicks' \in Seq(PlannedClick)
        BY <2>3, EmptySeq
      <3>2. pc' \in {"idle", "action", "resolveSource", "resolveDestination", "validateSource",
               "validateDestination", "plan", "click", "next", "panic"}
        BY <2>3
      <3>3. Idle' <=> request' = <<>>
        BY <2>3 DEF Idle
      <3>4. RequestTyped'
        BY <2>2, <2>3, <3>1, <3>2, <3>3 DEF RequestTyped, Typed
      <3>5. ActionStarted'
        BY <2>3 DEF ActionStarted
      <3> QED BY <2>1, <3>4, <3>5, InventoryUnchanged DEF Typed
    <2>4. CASE /\ Action.type # "unsupported"
               /\ ~(Action.type \in {"transfer", "drop"} /\ Action.count = 0)
               /\ pc' = IF Action.type = "mine" THEN "validateSource" ELSE "resolveSource"
               /\ source' = IF Action.type = "mine" THEN Action.source.slot ELSE source
               /\ UNCHANGED <<request, clicks>>
      <3>1. Action.type = "mine" => Action.source.slot \in Int /\ Action.source.slot # Outside
        <4>1. Action.type = "mine" => Action.source.slot \in Nat
          BY <2>1, ActionFacts, RefFacts DEF Typed
        <4> QED BY <4>1 DEF Outside
      <3>2. pc' \in {"idle", "action", "resolveSource", "resolveDestination", "validateSource",
               "validateDestination", "plan", "click", "next", "panic"}
        BY <2>4
      <3>3. source' \in Int /\ source' # Outside
        BY <2>4, <3>1 DEF Typed, RequestTyped
      <3>4. Idle' <=> request' = <<>>
        BY <2>1, <2>4 DEF Idle, Typed, RequestTyped
      <3>5. RequestTyped'
        BY <2>2, <2>4, <3>2, <3>3, <3>4 DEF RequestTyped, Typed
      <3>6. ActionStarted'
        <4>1. Action' = Action
          BY <2>4 DEF Action
        <4> QED BY <2>4, <4>1 DEF ActionStarted, TwoSlots
      <3> QED BY <2>1, <3>5, <3>6, InventoryUnchanged DEF Typed
    <2> QED BY <1>2, <2>3, <2>4 DEF StartAction
  <1> QED BY <1>1, <1>2

\* The steps that resolve and validate the slots of an action.
LEMMA ResolvingTyped ==
    ASSUME Typed, \/ ResolveSource \/ ResolveDestination \/ ValidateSource \/ ValidateDestination
    PROVE  Typed'
  <1>0. InventoryTyped /\ RequestTyped /\ ActionStarted /\ source \in Int /\ destination \in Int
        /\ source # Outside /\ destination # Outside
    BY DEF Typed, RequestTyped
  <1>1. ASSUME ~Reject, ResolveSource
        PROVE  Typed'
    <2>1. /\ Continue(IF TwoSlots THEN "resolveDestination" ELSE "validateSource")
          /\ source' = Resolve(Action.source) /\ destination' = destination
          /\ pc = "resolveSource" /\ clicks = <<>>
      BY <1>1, NoClicks DEF ResolveSource
    <2>2. Action.source \in Refs /\ Action.type # "mine"
      BY <1>0, <2>1, ActionFacts DEF ActionStarted
    <2>3. source' \in Int /\ source' # Outside
      BY <1>0, <2>1, <2>2, ResolveTyped
    <2>4. \/ TwoSlots /\ Continue("resolveDestination")
          \/ ~TwoSlots /\ Continue("validateSource")
      BY <2>1
    <2> QED BY <1>0, <2>1, <2>2, <2>3, <2>4, ContinueTyped
  <1>2. ASSUME ~Reject, ResolveDestination
        PROVE  Typed'
    <2>1. /\ Continue("validateSource")
          /\ destination' = Resolve(Action.destination) /\ source' = source
          /\ pc = "resolveDestination" /\ clicks = <<>>
          /\ ~(source' = Cursor /\ destination' = Cursor)
      BY <1>2, NoClicks DEF ResolveDestination
    <2>2. Action.destination \in Refs
      BY <1>0, <2>1, ActionFacts DEF ActionStarted, TwoSlots
    <2>3. destination' \in Int /\ destination' # Outside
      BY <1>0, <2>1, <2>2, ResolveTyped
    <2> QED BY <1>0, <2>1, <2>3, ContinueTyped
  <1>3. ASSUME ~Reject, ValidateSource
        PROVE  Typed'
    <2>1. /\ Continue(CASE TwoSlots -> "validateDestination"
                        [] Action.type = "drop" -> "plan"
                        [] Action.type = "mine" -> "next")
          /\ destination' = destination /\ source' = source
          /\ pc = "validateSource" /\ clicks = <<>>
          /\ TwoSlots => ~(source = Cursor /\ destination = Cursor)
      BY <1>0, <1>3, NoClicks DEF ValidateSource, ActionStarted
    <2>2. TwoSlots \/ Action.type = "drop" \/ Action.type = "mine"
      BY <1>0, <2>1, ActionFacts DEF ActionStarted, TwoSlots
    <2>3. \/ TwoSlots /\ Action.type # "mine" /\ Continue("validateDestination")
          \/ ~TwoSlots /\ Action.type = "drop" /\ Continue("plan")
          \/ ~TwoSlots /\ Action.type = "mine" /\ Continue("next")
      BY <2>1, <2>2 DEF TwoSlots
    <2> QED BY <1>0, <2>1, <2>3, ContinueTyped
  <1>4. ASSUME ~Reject, ValidateDestination
        PROVE  Typed'
    <2>1. /\ Continue("plan")
          /\ destination' = destination /\ source' = source
          /\ pc = "validateDestination" /\ clicks = <<>>
          /\ ~(source = Cursor /\ destination = Cursor)
      BY <1>0, <1>4, NoClicks DEF ValidateDestination, ActionStarted
    <2>2. Action.type # "mine"
      BY <1>0, <2>1 DEF ActionStarted
    <2> QED BY <1>0, <2>1, <2>2, ContinueTyped
  <1> QED BY <1>1, <1>2, <1>3, <1>4, RejectTyped

(***************************************************************************)
(* Planning                                                                *)
(***************************************************************************)
From == ItemAt(Now, source)
To == ItemAt(Now, destination)

\* When translateStackTransfer plans, and what.
LEMMA TransferPlanned ==
    ASSUME Typed, PlanTransfer, ~Reject, ~Panic
    PROVE  /\ pc = "plan" /\ Action.type = "transfer"
           /\ Action.count \in Nat \ {0} /\ Action.count <= MaxStack
           /\ ~OutOfRange(source) /\ ~OutOfRange(destination)
           /\ From \in Item /\ To \in Item
           /\ ~IsEmpty(From) /\ Action.count <= From.count
           /\ \/ /\ destination = Cursor /\ IsEmpty(cursorItem)
                 /\ Plan(TakeClicks(Action.count, source, From.count))
              \/ /\ destination = Cursor /\ ~IsEmpty(cursorItem)
                 /\ Plan(<<Click("left", source)>>)
              \/ /\ destination # Cursor /\ source = Cursor
                 /\ Plan(PlaceClicks(Action.count, destination, From.count))
              \/ /\ destination # Cursor /\ source # Cursor
                 /\ IsEmpty(cursorItem) /\ ~Incompatible(From, To)
                 /\ Plan(MoveClicks(Action.count, source, destination, From.count))
  <1>0. InventoryTyped /\ RequestTyped /\ ActionStarted /\ source \in Int /\ destination \in Int
    BY DEF Typed, RequestTyped
  <1>1. pc = "plan" /\ Action.type = "transfer"
    BY DEF PlanTransfer
  <1>2. Action.count \in Nat \ {0} /\ Action.count <= MaxStack
    <2>1. Action.count \in 0..MaxStack /\ Action.count # 0
      BY <1>0, <1>1, ActionFacts DEF ActionStarted
    <2> QED BY <2>1, ClicksAssumption
  <1>3. ~OutOfRange(source) /\ ~IsEmpty(From) /\ ~(From.count < Action.count)
        /\ ~OutOfRange(destination)
    BY DEF PlanTransfer, From
  <1>10. ~(source = Cursor /\ destination = Cursor)
    BY <1>0, <1>1 DEF ActionStarted, TwoSlots
  <1>4. From \in Item /\ To \in Item
    BY <1>0, <1>3, ItemAtTyped DEF From, To
  <1>5. Action.count <= From.count
    BY <1>2, <1>3, <1>4, ItemFacts
  <1>6. CASE destination = Cursor /\ IsEmpty(cursorItem)
    <2>1. Plan(TakeClicks(Action.count, source, From.count))
      BY <1>3, <1>6, <1>10 DEF PlanTransfer, From
    <2> QED BY <1>1, <1>2, <1>3, <1>4, <1>5, <1>6, <2>1
  <1>7. CASE destination = Cursor /\ ~IsEmpty(cursorItem)
    <2>1. Plan(<<Click("left", source)>>)
      BY <1>3, <1>7, <1>10 DEF PlanTransfer, From
    <2> QED BY <1>1, <1>2, <1>3, <1>4, <1>5, <1>7, <2>1
  <1>8. CASE destination # Cursor /\ source = Cursor
    BY <1>1, <1>2, <1>3, <1>4, <1>5, <1>8 DEF PlanTransfer, From
  <1>9. CASE destination # Cursor /\ source # Cursor
    BY <1>1, <1>2, <1>3, <1>4, <1>5, <1>9 DEF PlanTransfer, From, To
  <1> QED BY <1>6, <1>7, <1>8, <1>9

\* When translateStackSwap plans, and what.
LEMMA SwapPlanned ==
    ASSUME Typed, PlanSwap, ~Reject
    PROVE  /\ pc = "plan" /\ Action.type = "swap"
           /\ source # destination
           /\ \/ /\ source # Cursor /\ destination # Cursor
                 /\ Action.destination.container = "hotbar"
                 /\ Action.destination.slot \in Hotbar
                 /\ Plan(<<[op |-> "hotbar", slot |-> source, target |-> Action.destination.slot]>>)
              \/ source = Cursor /\ destination # Cursor /\ Plan(<<Click("left", destination)>>)
              \/ source # Cursor /\ destination = Cursor /\ Plan(<<Click("left", source)>>)
              \/ /\ source # Cursor /\ destination # Cursor
                 /\ Plan(ExchangeClicks(source, destination))
  <1>0. InventoryTyped /\ RequestTyped /\ ActionStarted /\ source \in Int /\ destination \in Int
    BY DEF Typed, RequestTyped
  <1>1. pc = "plan" /\ Action.type = "swap" /\ source # destination
    BY DEF PlanSwap
  <1>2. Action.destination \in Refs
    BY <1>0, <1>1, ActionFacts
  <1>3. Action.destination.container = "hotbar" => Action.destination.slot \in Hotbar
    BY <1>2, RefFacts
  <1>4. CASE Cursor \notin {source, destination} /\ Action.destination.container = "hotbar"
    BY <1>1, <1>3, <1>4 DEF PlanSwap
  <1>5. CASE source = Cursor
    BY <1>1, <1>5 DEF PlanSwap
  <1>6. CASE source # Cursor /\ destination = Cursor
    BY <1>1, <1>6 DEF PlanSwap
  <1>7. CASE Cursor \notin {source, destination} /\ Action.destination.container # "hotbar"
    BY <1>1, <1>7 DEF PlanSwap
  <1> QED BY <1>4, <1>5, <1>6, <1>7

\* When translateStackDrop plans, and what.
LEMMA DropPlanned ==
    ASSUME Typed, PlanDrop, ~Reject
    PROVE  /\ pc = "plan" /\ Action.type = "drop"
           /\ Action.count \in Nat \ {0}
           /\ ~OutOfRange(source) /\ From \in Item /\ ~IsEmpty(From) /\ Action.count <= From.count
           /\ \/ source = Cursor /\ Plan(CursorDropClicks(Action.count, From.count))
              \/ source # Cursor /\ Plan(SlotDropClicks(Action.count, source, From.count))
  <1>0. InventoryTyped /\ RequestTyped /\ ActionStarted /\ source \in Int /\ destination \in Int
    BY DEF Typed, RequestTyped
  <1>1. pc = "plan" /\ Action.type = "drop"
    BY DEF PlanDrop
  <1>2. Action.count \in Nat \ {0}
    <2>1. Action.count \in 0..MaxStack /\ Action.count # 0
      BY <1>0, <1>1, ActionFacts DEF ActionStarted
    <2> QED BY <2>1, ClicksAssumption
  <1>3. ~OutOfRange(source) /\ ~IsEmpty(From) /\ ~(From.count < Action.count)
    BY DEF PlanDrop, From
  <1>4. From \in Item
    BY <1>0, <1>3, ItemAtTyped DEF From
  <1>5. Action.count <= From.count
    BY <1>2, <1>3, <1>4, ItemFacts
  <1>6. CASE source = Cursor
    BY <1>1, <1>2, <1>3, <1>4, <1>5, <1>6 DEF PlanDrop, From
  <1>7. CASE source # Cursor
    BY <1>1, <1>2, <1>3, <1>4, <1>5, <1>7 DEF PlanDrop, From
  <1> QED BY <1>6, <1>7

\* A plan is rejected, cannot be made or is a sequence of clicks.
LEMMA Planning ==
    ASSUME Typed, \/ PlanTransfer \/ PlanSwap \/ PlanDrop
    PROVE  /\ pc = "plan"
           /\ \/ Reject
              \/ Panic
              \/ \E planned \in Seq(PlannedClick) : Plan(planned)
  <1>0. source \in Int /\ destination \in Int /\ source # Outside /\ destination # Outside
    BY DEF Typed, RequestTyped
  <1>1. ASSUME NEW slot \in Int, slot # Outside PROVE <<Click("left", slot)>> \in Seq(PlannedClick)
    BY <1>1 DEF Click, PlannedClick
  <1>2. CASE PlanTransfer /\ ~Reject /\ ~Panic
    <2>1. From.count \in Nat /\ Action.count \in Nat /\ Action.count <= From.count
      BY <1>2, TransferPlanned, ItemFacts
    <2> QED BY <1>0, <1>1, <1>2, <2>1, TransferPlanned, PlansTyped
  <1>3. CASE PlanSwap /\ ~Reject
    <2>1. ASSUME NEW slot \in Hotbar
          PROVE  <<[op |-> "hotbar", slot |-> source, target |-> slot]>> \in Seq(PlannedClick)
      BY <1>0, <2>1 DEF PlannedClick
    <2>2. ExchangeClicks(source, destination) \in Seq(PlannedClick)
      <3>1. 0 \in Nat /\ 0 <= 0
        OBVIOUS
      <3> QED BY <1>0, <3>1, PlansTyped
    <2> QED BY <1>0, <1>1, <1>3, <2>1, <2>2, SwapPlanned
  <1>4. CASE PlanDrop /\ ~Reject
    <2>1. From.count \in Nat /\ Action.count \in Nat /\ Action.count <= From.count
      BY <1>4, DropPlanned, ItemFacts
    <2> QED BY <1>0, <1>4, <2>1, DropPlanned, PlansTyped
  <1>5. pc = "plan"
    BY DEF PlanTransfer, PlanSwap, PlanDrop
  <1> QED BY <1>2, <1>3, <1>4, <1>5

\* The steps that plan its clicks.
LEMMA PlanningTyped ==
    ASSUME Typed, \/ PlanTransfer \/ PlanSwap \/ PlanDrop
    PROVE  Typed'
  <1>1. pc = "plan" /\ clicks = <<>> /\ source \in Int /\ destination \in Int
        /\ source # Outside /\ destination # Outside
        /\ Action.type # "mine"
        /\ (TwoSlots => ~(source = Cursor /\ destination = Cursor))
    BY Planning, NoClicks DEF Typed, RequestTyped, ActionStarted
  <1>2. CASE Reject
    BY <1>2, RejectTyped
  <1>3. CASE Panic
    <2>1. Continue("panic") /\ source' = source /\ destination' = destination
      BY <1>3 DEF Panic
    <2> QED BY <1>1, <2>1, ContinueTyped
  <1>4. CASE \E planned \in Seq(PlannedClick) : Plan(planned)
    BY <1>1, <1>4, PlanTyped
  <1> QED BY <1>2, <1>3, <1>4, Planning

(***************************************************************************)
(* Where a stack can be                                                    *)
(***************************************************************************)
\* The container's part of the window: empty slots until its content has arrived.
Box == [s \in 0..window.size - 1 |-> IF s \in DOMAIN window.items THEN window.items[s] ELSE Empty]

\* What the simulated slots stand for.
LEMMA SimPlaces ==
    ASSUME InventoryTyped
    PROVE  /\ Box \in [0..window.size - 1 -> Item]
           /\ window = NoWindow => 0..window.size - 1 = {} /\ SimItems = playerItems
           /\ window # NoWindow =>
                 /\ \A s \in 0..window.size - 1 : s \in SimSlots /\ SimItems[s] = Box[s]
                 /\ \A p \in Storage : /\ MenuSlot(p, window.size) \in SimSlots
                                       /\ MenuSlot(p, window.size) \notin 0..window.size - 1
                                       /\ SimItems[MenuSlot(p, window.size)] = playerItems[p]
                 /\ \A s \in SimSlots : s \notin 0..window.size - 1 =>
                       /\ PlayerSlot(s, window.size) \in Storage
                       /\ MenuSlot(PlayerSlot(s, window.size), window.size) = s
  <1>1. window.size \in Nat /\ \A s \in DOMAIN window.items : window.items[s] \in Item
    BY WindowFacts
  <1>2. Box \in [0..window.size - 1 -> Item]
    BY <1>1 DEF Box, Item
  <1>3. CASE window = NoWindow
    <2>1. window.size = 0
      BY <1>3, WindowFacts
    <2>2. SimItems = playerItems
      BY <1>3 DEF SimItems
    <2> QED BY <1>2, <1>3, <2>1, <2>2
  <1>4. CASE window # NoWindow
    <2>1. SimSlots = MenuSlots(window.size)
      BY <1>4 DEF SimSlots
    <2>2. \A s \in 0..window.size - 1 : s \in SimSlots /\ SimItems[s] = Box[s]
      <3>1. 0..window.size - 1 \subseteq SimSlots
        BY <1>1, <2>1, MenuLayout
      <3>2. \A s \in 0..window.size - 1 : ~(s >= window.size)
        BY <1>1
      <3> QED BY <1>4, <3>1, <3>2, SimTyped DEF Box
    <2>3. ASSUME NEW p \in Storage
          PROVE  /\ MenuSlot(p, window.size) \in SimSlots
                 /\ MenuSlot(p, window.size) \notin 0..window.size - 1
                 /\ SimItems[MenuSlot(p, window.size)] = playerItems[p]
      <3>1. /\ MenuSlot(p, window.size) \in SimSlots
            /\ MenuSlot(p, window.size) >= window.size
            /\ PlayerSlot(MenuSlot(p, window.size), window.size) = p
            /\ MenuSlot(p, window.size) \in Nat
        BY <1>1, <2>1, MenuLayout
      <3>2. SimItems[MenuSlot(p, window.size)] = playerItems[p]
        BY <1>4, <3>1, SimTyped
      <3> QED BY <1>1, <3>1, <3>2
    <2>4. ASSUME NEW s \in SimSlots, s \notin 0..window.size - 1
          PROVE  /\ PlayerSlot(s, window.size) \in Storage
                 /\ MenuSlot(PlayerSlot(s, window.size), window.size) = s
      <3>1. s \in Nat
        BY <1>1, <2>1, MenuLayout
      <3>2. s >= window.size
        BY <1>1, <2>4, <3>1
      <3> QED BY <1>1, <2>1, <3>2, MenuLayout
    <2> QED BY <1>2, <1>4, <2>2, <2>3, <2>4
  <1> QED BY <1>3, <1>4

\* Store on the player's slots and the container's.
LEMMA StoredPlaces ==
    ASSUME InventoryTyped, nextStackID' \in Nat \ {0},
           NEW items \in [SimSlots -> Item], NEW cursor \in Item, Store(items, cursor)
    PROVE  /\ DOMAIN playerItems' = PlayerSlots /\ DOMAIN playerItems = PlayerSlots
           /\ DOMAIN Box' = DOMAIN Box /\ DOMAIN Box = 0..window.size - 1
           /\ Box' = [s \in 0..window.size - 1 |-> Box'[s]]
           /\ window = NoWindow => playerItems' = items /\ Box' = Box
           /\ window # NoWindow =>
                 /\ \A p \in PlayerSlots : playerItems'[p] =
                       IF p \in Storage THEN items[MenuSlot(p, window.size)] ELSE playerItems[p]
                 /\ \A s \in 0..window.size - 1 : Box'[s] = items[s]
  <1>1. InventoryTyped' /\ window'.size = window.size
    BY Stored
  <1>2. Box' = [s \in 0..window.size - 1 |-> IF s \in DOMAIN window'.items THEN window'.items[s] ELSE Empty]
    BY <1>1 DEF Box
  <1>3. /\ DOMAIN Box' = DOMAIN Box /\ DOMAIN Box = 0..window.size - 1
        /\ Box' = [s \in 0..window.size - 1 |-> Box'[s]]
    BY <1>2 DEF Box
  <1>4. DOMAIN playerItems' = PlayerSlots /\ DOMAIN playerItems = PlayerSlots
    BY <1>1 DEF InventoryTyped
  <1>5. CASE window = NoWindow
    BY <1>3, <1>4, <1>5, Stored DEF Box
  <1>6. CASE window # NoWindow
    <2>1. window'.items = items
      BY <1>6, Stored
    <2>2. 0..window.size - 1 \subseteq SimSlots
      BY <1>6, SimPlaces
    <2>3. \A s \in 0..window.size - 1 : Box'[s] = items[s]
      BY <1>2, <2>1, <2>2
    <2> QED BY <1>3, <1>4, <1>6, <2>3, Stored
  <1> QED BY <1>5, <1>6

\* One slot changes: a slot of the player or one of the container.
LEMMA StoredOne ==
    ASSUME InventoryTyped, nextStackID' \in Nat \ {0},
           NEW slot \in SimSlots, NEW item \in Item, NEW cursor \in Item,
           Store([SimItems EXCEPT ![slot] = item], cursor)
    PROVE  \/ \E p \in PlayerSlots :
                 /\ SimItems[slot] = playerItems[p]
                 /\ playerItems' = [playerItems EXCEPT ![p] = item]
                 /\ Box' = Box
           \/ \E s \in DOMAIN Box :
                 /\ SimItems[slot] = Box[s]
                 /\ Box' = [Box EXCEPT ![s] = item]
                 /\ playerItems' = playerItems
  <1> DEFINE items == [SimItems EXCEPT ![slot] = item]
  <1>1. items \in [SimSlots -> Item] /\ \A s \in SimSlots : items[s] = IF s = slot THEN item ELSE SimItems[s]
    BY SimTyped
  <1> HIDE DEF items
  <1>2. /\ DOMAIN playerItems' = PlayerSlots /\ DOMAIN playerItems = PlayerSlots
        /\ DOMAIN Box' = DOMAIN Box /\ DOMAIN Box = 0..window.size - 1
        /\ window = NoWindow => playerItems' = items /\ Box' = Box
        /\ window # NoWindow =>
              /\ \A p \in PlayerSlots : playerItems'[p] =
                    IF p \in Storage THEN items[MenuSlot(p, window.size)] ELSE playerItems[p]
              /\ \A s \in 0..window.size - 1 : Box'[s] = items[s]
    BY <1>1, StoredPlaces DEF items
  <1>3. CASE window = NoWindow
    <2>1. slot \in PlayerSlots /\ SimItems = playerItems
      BY <1>3, SimPlaces DEF SimSlots
    <2>2. playerItems' = [playerItems EXCEPT ![slot] = item]
      BY <1>2, <1>3, <2>1 DEF items
    <2> QED BY <1>2, <1>3, <2>1, <2>2
  <1>7. playerItems = [p \in PlayerSlots |-> playerItems[p]] /\ playerItems' = [p \in PlayerSlots |-> playerItems'[p]]
    BY <1>1, Stored DEF InventoryTyped, items
  <1>8. /\ Box = [s \in 0..window.size - 1 |-> Box[s]]
        /\ Box' = [s \in 0..window.size - 1 |-> Box'[s]]
    <2>1. Box \in [0..window.size - 1 -> Item]
      BY SimPlaces
    <2>2. Box' = [s \in 0..window.size - 1 |-> Box'[s]]
      BY <1>1, StoredPlaces DEF items
    <2> QED BY <2>1, <2>2
  <1>4. CASE window # NoWindow /\ slot \in 0..window.size - 1
    <2>1. SimItems[slot] = Box[slot] /\ slot \in DOMAIN Box
      BY <1>2, <1>4, SimPlaces
    <2>2. \A s \in 0..window.size - 1 : Box'[s] = IF s = slot THEN item ELSE Box[s]
      BY <1>1, <1>2, <1>4, SimPlaces
    <2>3. \A p \in PlayerSlots : playerItems'[p] = playerItems[p]
      BY <1>1, <1>2, <1>4, SimPlaces
    <2>4. Box' = [Box EXCEPT ![slot] = item]
      BY <1>8, <2>2
    <2>5. playerItems' = playerItems
      BY <1>7, <2>3
    <2> QED BY <2>1, <2>4, <2>5
  <1>5. CASE window # NoWindow /\ slot \notin 0..window.size - 1
    <2> DEFINE q == PlayerSlot(slot, window.size)
    <2>1. q \in Storage /\ q \in PlayerSlots /\ MenuSlot(q, window.size) = slot
          /\ SimItems[slot] = playerItems[q]
      BY <1>5, SimPlaces, WindowFacts, MenuLayout
    <2>2. \A p \in Storage : MenuSlot(p, window.size) = slot => p = q
      <3>1. window.size \in Nat /\ FirstStorage \in Nat /\ slot \in Nat
        BY WindowFacts, StackRequestsAssumption, SimTyped
      <3>2. \A p \in Storage : p \in Int
        BY DEF Storage
      <3> QED BY <3>1, <3>2 DEF MenuSlot, PlayerSlot
    <2> HIDE DEF q
    <2>3. \A p \in PlayerSlots : playerItems'[p] = IF p = q THEN item ELSE playerItems[p]
      BY <1>1, <1>2, <1>5, <2>1, <2>2, SimPlaces
    <2>4. \A s \in 0..window.size - 1 : Box'[s] = Box[s]
      BY <1>1, <1>2, <1>5, SimPlaces
    <2>5. playerItems' = [playerItems EXCEPT ![q] = item]
      BY <1>7, <2>3
    <2>6. Box' = Box
      BY <1>8, <2>4
    <2> QED BY <2>1, <2>5, <2>6
  <1> QED BY <1>3, <1>4, <1>5

(***************************************************************************)
(* Stack network IDs over the whole inventory                              *)
(***************************************************************************)
Distinct(player, box, cursor) ==
    /\ \A p, q \in DOMAIN player : p # q => Apart(player[p].id, player[q].id)
    /\ \A s, t \in DOMAIN box : s # t => Apart(box[s].id, box[t].id)
    /\ \A p \in DOMAIN player : \A s \in DOMAIN box : Apart(player[p].id, box[s].id)
    /\ \A p \in DOMAIN player : Apart(player[p].id, cursor.id)
    /\ \A s \in DOMAIN box : Apart(box[s].id, cursor.id)

\* No ID has been drawn that is still to come.
Drawn(player, box, cursor, next) ==
    /\ \A p \in DOMAIN player : player[p].id < next
    /\ \A s \in DOMAIN box : box[s].id < next
    /\ cursor.id < next

IDsDistinct ==
    Distinct(playerItems, Box, cursorItem) /\ Drawn(playerItems, Box, cursorItem, nextStackID)

\* An ID that a click may give to a stack, of those it touched or a new one.
Given(id, old, cursor, next, after) == id \in {0, old, cursor} \/ (next <= id /\ id < after)

\* A stack elsewhere keeps an ID of its own from one that is given.
LEMMA GivenApart ==
    ASSUME NEW u \in Nat, NEW id \in Nat, NEW old \in Nat, NEW cursor \in Nat,
           NEW next \in Nat, NEW after \in Nat, Given(id, old, cursor, next, after),
           u < next, Apart(u, old), Apart(u, cursor)
    PROVE  Apart(u, id) /\ Apart(id, u)
  BY DEF Given, Apart

\* One slot of the two inventories held old and now holds x.
Puts(player, box, old, x, player2, box2) ==
    \/ \E p \in DOMAIN player :
          old = player[p] /\ player2 = [player EXCEPT ![p] = x] /\ box2 = box
    \/ \E s \in DOMAIN box :
          old = box[s] /\ box2 = [box EXCEPT ![s] = x] /\ player2 = player

\* A click on one slot and the cursor keeps the IDs apart.
LEMMA OneReplaced ==
    ASSUME NEW S, NEW T, NEW player \in [S -> Item], NEW box \in [T -> Item], NEW cursor \in Item,
           NEW next \in Nat, NEW after \in Nat, next <= after,
           Distinct(player, box, cursor), Drawn(player, box, cursor, next),
           NEW old \in Item, NEW x \in Item, NEW y \in Item, NEW player2, NEW box2,
           Puts(player, box, old, x, player2, box2),
           Given(x.id, old.id, cursor.id, next, after),
           Given(y.id, old.id, cursor.id, next, after),
           Apart(x.id, y.id)
    PROVE  Distinct(player2, box2, y) /\ Drawn(player2, box2, y, after)
  <1>1. /\ x.id \in Nat /\ y.id \in Nat /\ old.id \in Nat /\ cursor.id \in Nat
        /\ \A p \in S : player[p].id \in Nat
        /\ \A s \in T : box[s].id \in Nat
    BY ItemFacts
  <1>2. DOMAIN player = S /\ DOMAIN box = T
    OBVIOUS
  <1>3. ASSUME NEW u \in Nat, u < next, Apart(u, old.id), Apart(u, cursor.id)
        PROVE  Apart(u, x.id) /\ Apart(x.id, u) /\ Apart(u, y.id) /\ Apart(y.id, u) /\ u < after
    <2>1. Apart(u, x.id) /\ Apart(x.id, u) /\ Apart(u, y.id) /\ Apart(y.id, u)
      BY <1>1, <1>3, GivenApart
    <2>2. u < after
      BY <1>3
    <2> QED BY <2>1, <2>2
  <1>4. old.id < next /\ cursor.id < next => x.id < after /\ y.id < after
    BY <1>1 DEF Given
  <1>5. CASE \E p \in S : old = player[p] /\ player2 = [player EXCEPT ![p] = x] /\ box2 = box
    <2>1. PICK p \in S : old = player[p] /\ player2 = [player EXCEPT ![p] = x] /\ box2 = box
      BY <1>5
    <2>2. DOMAIN player2 = S /\ player2[p] = x /\ \A q \in S : q # p => player2[q] = player[q]
      BY <2>1
    <2>3. \A q \in S : q # p =>
             /\ player[q].id < next /\ Apart(player[q].id, old.id) /\ Apart(player[q].id, cursor.id)
      BY <1>2, <2>1 DEF Distinct, Drawn
    <2>4. \A s \in T : box[s].id < next /\ Apart(box[s].id, old.id) /\ Apart(box[s].id, cursor.id)
      BY <1>1, <1>2, <2>1 DEF Distinct, Drawn, Apart
    <2>5. \A q \in S : q # p =>
             /\ Apart(player[q].id, x.id) /\ Apart(x.id, player[q].id)
             /\ Apart(player[q].id, y.id) /\ player[q].id < after
      BY <1>1, <1>3, <2>3
    <2>6. \A s \in T : Apart(x.id, box[s].id) /\ Apart(box[s].id, y.id) /\ box[s].id < after
      BY <1>1, <1>3, <2>4
    <2>7. x.id < after /\ y.id < after
      BY <1>2, <1>4, <2>1 DEF Drawn
    <2>8. Drawn(player2, box2, y, after)
      BY <1>2, <2>1, <2>2, <2>5, <2>6, <2>7 DEF Drawn
    <2>9. Distinct(player2, box2, y)
      <3>1. \A q, r \in S : q # r => Apart(player2[q].id, player2[r].id)
        <4>1. \A q, r \in S : q # r /\ q # p /\ r # p => Apart(player[q].id, player[r].id)
          BY <1>2 DEF Distinct
        <4> QED BY <2>2, <2>5, <4>1
      <3>2. \A s, t \in T : s # t => Apart(box2[s].id, box2[t].id)
        BY <1>2, <2>1 DEF Distinct
      <3>3. \A q \in S : \A s \in T : Apart(player2[q].id, box2[s].id)
        <4>1. \A q \in S : \A s \in T : Apart(player[q].id, box[s].id)
          BY <1>2 DEF Distinct
        <4> QED BY <2>1, <2>2, <2>6, <4>1
      <3>4. \A q \in S : Apart(player2[q].id, y.id)
        BY <2>2, <2>5
      <3>5. \A s \in T : Apart(box2[s].id, y.id)
        BY <2>1, <2>6
      <3> QED BY <1>2, <2>1, <2>2, <3>1, <3>2, <3>3, <3>4, <3>5 DEF Distinct
    <2> QED BY <2>8, <2>9
  <1>6. CASE \E s \in T : old = box[s] /\ box2 = [box EXCEPT ![s] = x] /\ player2 = player
    <2>1. PICK p \in T : old = box[p] /\ box2 = [box EXCEPT ![p] = x] /\ player2 = player
      BY <1>6
    <2>2. DOMAIN box2 = T /\ box2[p] = x /\ \A q \in T : q # p => box2[q] = box[q]
      BY <2>1
    <2>3. \A q \in T : q # p =>
             /\ box[q].id < next /\ Apart(box[q].id, old.id) /\ Apart(box[q].id, cursor.id)
      BY <1>2, <2>1 DEF Distinct, Drawn
    <2>4. \A s \in S : player[s].id < next /\ Apart(player[s].id, old.id) /\ Apart(player[s].id, cursor.id)
      BY <1>2, <2>1 DEF Distinct, Drawn
    <2>5. \A q \in T : q # p =>
             /\ Apart(box[q].id, x.id) /\ Apart(x.id, box[q].id)
             /\ Apart(box[q].id, y.id) /\ box[q].id < after
      BY <1>1, <1>3, <2>3
    <2>6. \A s \in S : Apart(player[s].id, x.id) /\ Apart(player[s].id, y.id) /\ player[s].id < after
      BY <1>1, <1>3, <2>4
    <2>7. x.id < after /\ y.id < after
      BY <1>2, <1>4, <2>1 DEF Drawn
    <2>8. Drawn(player2, box2, y, after)
      BY <1>2, <2>1, <2>2, <2>5, <2>6, <2>7 DEF Drawn
    <2>9. Distinct(player2, box2, y)
      <3>1. \A q, r \in T : q # r => Apart(box2[q].id, box2[r].id)
        <4>1. \A q, r \in T : q # r /\ q # p /\ r # p => Apart(box[q].id, box[r].id)
          BY <1>2 DEF Distinct
        <4> QED BY <2>2, <2>5, <4>1
      <3>2. \A s, t \in S : s # t => Apart(player2[s].id, player2[t].id)
        BY <1>2, <2>1 DEF Distinct
      <3>3. \A q \in S : \A s \in T : Apart(player2[q].id, box2[s].id)
        <4>1. \A q \in S : \A s \in T : Apart(player[q].id, box[s].id)
          BY <1>2 DEF Distinct
        <4> QED BY <2>1, <2>2, <2>6, <4>1
      <3>4. \A q \in T : Apart(box2[q].id, y.id)
        BY <2>2, <2>5
      <3>5. \A s \in S : Apart(player2[s].id, y.id)
        BY <2>1, <2>6
      <3> QED BY <1>2, <2>1, <2>2, <3>1, <3>2, <3>3, <3>4, <3>5 DEF Distinct
    <2> QED BY <2>8, <2>9
  <1> QED BY <1>2, <1>5, <1>6 DEF Puts

\* The click itself: the simulated inventory with one slot changed is stored.
LEMMA OneStored ==
    ASSUME InventoryTyped, IDsDistinct, nextStackID' \in Nat \ {0}, nextStackID <= nextStackID',
           NEW slot \in SimSlots, NEW item \in Item, NEW cursor \in Item,
           Store([SimItems EXCEPT ![slot] = item], cursor),
           Given(item.id, SimItems[slot].id, cursorItem.id, nextStackID, nextStackID'),
           Given(cursor.id, SimItems[slot].id, cursorItem.id, nextStackID, nextStackID'),
           Apart(item.id, cursor.id)
    PROVE  InventoryTyped' /\ IDsDistinct'
  <1>1. /\ playerItems \in [PlayerSlots -> Item] /\ cursorItem \in Item /\ nextStackID \in Nat
        /\ nextStackID' \in Nat
        /\ Box \in [0..window.size - 1 -> Item]
        /\ SimItems[slot] \in Item
        /\ Distinct(playerItems, Box, cursorItem) /\ Drawn(playerItems, Box, cursorItem, nextStackID)
    BY SimPlaces, SimTyped DEF InventoryTyped, IDsDistinct
  <1>2. Puts(playerItems, Box, SimItems[slot], item, playerItems', Box')
    <2>1. DOMAIN playerItems = PlayerSlots
      BY <1>1
    <2> QED BY <2>1, StoredOne DEF Puts
  <1>3. Distinct(playerItems', Box', cursor) /\ Drawn(playerItems', Box', cursor, nextStackID')
    BY <1>1, <1>2, OneReplaced
  <1>4. [SimItems EXCEPT ![slot] = item] \in [SimSlots -> Item]
    BY SimTyped
  <1>5. InventoryTyped' /\ cursorItem' = cursor
    BY <1>4, Stored
  <1> QED BY <1>3, <1>5 DEF IDsDistinct

\* After a click the rest of the request stands as before.
LEMMA ClickedTyped ==
    ASSUME Typed, pc = "click", clicks # <<>>, InventoryTyped',
           NEW items, NEW cursor, Clicked(items, cursor)
    PROVE  Typed'
  <1>1. /\ clicks' = Tail(clicks) /\ pc' = pc /\ request' = request /\ source' = source
        /\ destination' = destination /\ disturbed' = disturbed
    BY DEF Clicked
  <1>2. clicks' \in Seq(PlannedClick)
    BY <1>1, Popped DEF Typed, RequestTyped
  <1>3. Idle' <=> request' = <<>>
    BY <1>1 DEF Idle, Typed, RequestTyped
  <1>4. RequestTyped'
    BY <1>1, <1>2, <1>3 DEF RequestTyped, Typed
  <1>5. ActionStarted'
    <2>1. Action' = Action /\ (TwoSlots' <=> TwoSlots)
      BY <1>1 DEF Action, TwoSlots
    <2> QED BY <1>1, <2>1 DEF ActionStarted, Typed
  <1> QED BY <1>4, <1>5 DEF Typed

\* The head of the clicks still to send.
LEMMA ClickFacts ==
    ASSUME Typed, clicks # <<>>
    PROVE  /\ Head(clicks) \in PlannedClick
           /\ Head(clicks).slot \in Int
           /\ Head(clicks).op = "hotbar" => Head(clicks).target \in Hotbar
           /\ DOMAIN SimItems = SimSlots
  <1>1. Head(clicks) \in PlannedClick
    BY Popped DEF Typed, RequestTyped
  <1> QED BY <1>1, SimTyped DEF PlannedClick, Typed

\* The next stack network ID is one that was not drawn (nextStackNetworkIDLocked).
LEMMA FreshFacts ==
    ASSUME InventoryTyped
    PROVE  FreshID \in Nat \ {0} /\ nextStackID <= FreshID
  BY DEF FreshID, InventoryTyped

\* Nothing changes but the cursor.
LEMMA OutsideKeeps ==
    ASSUME Typed, IDsDistinct, ClickOutside
    PROVE  /\ Typed' /\ IDsDistinct'
           /\ playerItems' = playerItems /\ Box' = Box
  <1>0. InventoryTyped /\ cursorItem \in Item /\ nextStackID \in Nat \ {0}
    BY DEF Typed, InventoryTyped
  <1> DEFINE left == Subtract(cursorItem, 1)
  <1>1. /\ Clicked(SimItems, left) /\ Store(SimItems, left)
        /\ nextStackID' = nextStackID /\ pc = "click" /\ clicks # <<>>
    BY DEF ClickOutside, Clicked
  <1>2. left \in Item /\ left.id \in {0, cursorItem.id}
    BY <1>0, SubtractItem
  <1> HIDE DEF left
  <1>3. SimItems \in [SimSlots -> Item]
    BY <1>0, SimTyped
  <1>4. InventoryTyped' /\ cursorItem' = left
    BY <1>0, <1>1, <1>2, <1>3, Stored
  <1>5. Typed'
    BY <1>1, <1>4, ClickedTyped
  <1>6. playerItems' = playerItems /\ Box' = Box
    <2>1. /\ DOMAIN playerItems' = PlayerSlots /\ DOMAIN playerItems = PlayerSlots
          /\ DOMAIN Box' = DOMAIN Box /\ DOMAIN Box = 0..window.size - 1
          /\ Box' = [s \in 0..window.size - 1 |-> Box'[s]]
          /\ window = NoWindow => playerItems' = SimItems /\ Box' = Box
          /\ window # NoWindow =>
                 /\ \A p \in PlayerSlots : playerItems'[p] =
                       IF p \in Storage THEN SimItems[MenuSlot(p, window.size)] ELSE playerItems[p]
                 /\ \A s \in 0..window.size - 1 : Box'[s] = SimItems[s]
      BY <1>0, <1>1, <1>2, <1>3, StoredPlaces
    <2>2. Box = [s \in 0..window.size - 1 |-> Box[s]]
      BY DEF Box
    <2>3. /\ playerItems = [p \in PlayerSlots |-> playerItems[p]]
          /\ playerItems' = [p \in PlayerSlots |-> playerItems'[p]]
      BY <1>0, <1>4 DEF InventoryTyped
    <2>4. CASE window = NoWindow
      BY <1>0, <2>1, <2>4, SimPlaces
    <2>5. CASE window # NoWindow
      <3>1. \A s \in 0..window.size - 1 : Box'[s] = Box[s]
        BY <1>0, <2>1, <2>5, SimPlaces
      <3>2. \A p \in PlayerSlots : playerItems'[p] = playerItems[p]
        BY <1>0, <2>1, <2>5, SimPlaces
      <3> QED BY <2>1, <2>2, <2>3, <3>1, <3>2
    <2> QED BY <2>4, <2>5
  <1>7. /\ \A p \in DOMAIN playerItems : playerItems[p].id \in Nat
        /\ \A s \in DOMAIN Box : Box[s].id \in Nat
        /\ cursorItem.id \in Nat
    BY <1>0, SimPlaces, ItemFacts DEF InventoryTyped
  <1>8. Distinct(playerItems, Box, left) /\ Drawn(playerItems, Box, left, nextStackID)
    <2>1. Distinct(playerItems, Box, cursorItem) /\ Drawn(playerItems, Box, cursorItem, nextStackID)
      BY DEF IDsDistinct
    <2>2. \A p \in DOMAIN playerItems : Apart(playerItems[p].id, left.id)
      BY <1>2, <2>1 DEF Distinct, Apart
    <2>3. \A s \in DOMAIN Box : Apart(Box[s].id, left.id)
      BY <1>2, <2>1 DEF Distinct, Apart
    <2>4. left.id < nextStackID
      BY <1>0, <1>2, <2>1 DEF Drawn
    <2>5. Distinct(playerItems, Box, left)
      BY <2>1, <2>2, <2>3 DEF Distinct
    <2>6. Drawn(playerItems, Box, left, nextStackID)
      BY <2>1, <2>4 DEF Drawn
    <2> QED BY <2>5, <2>6
  <1> QED BY <1>1, <1>4, <1>5, <1>6, <1>8 DEF IDsDistinct

\* Every simulated slot is a place of the inventory: its ID is drawn, and not the cursor's.
LEMMA SimIDs ==
    ASSUME InventoryTyped, IDsDistinct, NEW slot \in SimSlots
    PROVE  /\ SimItems[slot] \in Item /\ SimItems[slot].id \in Nat /\ cursorItem.id \in Nat
           /\ SimItems[slot].id < nextStackID /\ cursorItem.id < nextStackID
           /\ Apart(SimItems[slot].id, cursorItem.id)
  <1>1. Distinct(playerItems, Box, cursorItem) /\ Drawn(playerItems, Box, cursorItem, nextStackID)
    BY DEF IDsDistinct
  <1>2. \/ \E p \in DOMAIN playerItems : SimItems[slot] = playerItems[p]
        \/ \E s \in DOMAIN Box : SimItems[slot] = Box[s]
    <2>1. DOMAIN playerItems = PlayerSlots /\ DOMAIN Box = 0..window.size - 1
      BY DEF InventoryTyped, Box
    <2>2. CASE window = NoWindow
      BY <2>1, <2>2, SimPlaces DEF SimSlots
    <2>3. CASE window # NoWindow /\ slot \in 0..window.size - 1
      BY <2>1, <2>3, SimPlaces
    <2>4. CASE window # NoWindow /\ slot \notin 0..window.size - 1
      <3>1. /\ PlayerSlot(slot, window.size) \in Storage
            /\ SimItems[slot] = playerItems[PlayerSlot(slot, window.size)]
        BY <2>4, SimPlaces
      <3>2. Storage \subseteq PlayerSlots
        BY WindowFacts, MenuLayout
      <3> QED BY <2>1, <3>1, <3>2
    <2> QED BY <2>2, <2>3, <2>4
  <1>3. /\ SimItems[slot].id < nextStackID /\ cursorItem.id < nextStackID
        /\ Apart(SimItems[slot].id, cursorItem.id)
    BY <1>1, <1>2 DEF Distinct, Drawn
  <1>4. SimItems[slot] \in Item /\ cursorItem \in Item
    BY SimTyped DEF InventoryTyped
  <1> QED BY <1>3, <1>4, ItemFacts

\* A left or right click on a slot.
LEMMA ItemKeeps ==
    ASSUME Typed, IDsDistinct, ClickItem
    PROVE  Typed' /\ IDsDistinct'
  <1>0. InventoryTyped /\ cursorItem \in Item /\ nextStackID \in Nat \ {0}
    BY DEF Typed, InventoryTyped
  <1> DEFINE slot == Head(clicks).slot
             right == Head(clicks).op = "right"
             result == IF right THEN RightClick(SimItems[slot], cursorItem, FreshID)
                       ELSE LeftClick(SimItems[slot], cursorItem)
             items == [SimItems EXCEPT ![slot] = result.slot]
  <1>1. /\ pc = "click" /\ clicks # <<>> /\ slot \in DOMAIN SimItems
        /\ Clicked(items, result.cursor) /\ Store(items, result.cursor)
        /\ nextStackID' = IF right /\ Splits(SimItems[slot], cursorItem) THEN FreshID + 1 ELSE nextStackID
    BY DEF ClickItem, Clicked
  <1>2. slot \in SimSlots /\ SimItems[slot] \in Item
    BY <1>0, <1>1, SimTyped
  <1>3. /\ FreshID \in Nat \ {0} /\ nextStackID <= FreshID
        /\ SimItems[slot].id \in Nat /\ cursorItem.id \in Nat
        /\ SimItems[slot].id < nextStackID /\ cursorItem.id < nextStackID
        /\ Apart(SimItems[slot].id, cursorItem.id)
    BY <1>0, <1>2, SimIDs, FreshFacts
  <1> HIDE DEF slot
  <1>4. /\ result.slot \in Item /\ result.cursor \in Item
        /\ Apart(result.slot.id, result.cursor.id)
        /\ nextStackID' \in Nat \ {0} /\ nextStackID <= nextStackID'
        /\ Given(result.slot.id, SimItems[slot].id, cursorItem.id, nextStackID, nextStackID')
        /\ Given(result.cursor.id, SimItems[slot].id, cursorItem.id, nextStackID, nextStackID')
    <2>1. CASE ~right
      <3>1. result = LeftClick(SimItems[slot], cursorItem)
        BY <2>1
      <3> HIDE DEF result
      <3>2. /\ result.slot \in Item /\ result.cursor \in Item
            /\ Apart(result.slot.id, result.cursor.id)
            /\ result.slot.id \in {0, SimItems[slot].id, cursorItem.id}
            /\ result.cursor.id \in {0, SimItems[slot].id, cursorItem.id}
        BY <1>0, <1>2, <1>3, <3>1, LeftClickIDs
      <3>3. nextStackID' = nextStackID
        BY <1>1, <2>1
      <3> QED BY <1>0, <3>2, <3>3 DEF Given
    <2>2. CASE right
      <3>1. result = RightClick(SimItems[slot], cursorItem, FreshID)
        BY <2>2
      <3>4. nextStackID' = IF Splits(SimItems[slot], cursorItem) THEN FreshID + 1 ELSE nextStackID
        BY <1>1, <2>2
      <3> HIDE DEF result
      <3> DEFINE names == {0, SimItems[slot].id, cursorItem.id}
                          \cup (IF Splits(SimItems[slot], cursorItem) THEN {FreshID} ELSE {})
      <3>5. FreshID # SimItems[slot].id /\ FreshID # cursorItem.id
        BY <1>0, <1>3
      <3>2. /\ result.slot \in Item /\ result.cursor \in Item
            /\ Apart(result.slot.id, result.cursor.id)
            /\ result.slot.id \in names /\ result.cursor.id \in names
        BY <1>0, <1>2, <1>3, <3>1, <3>5, RightClickIDs
      <3>6. CASE Splits(SimItems[slot], cursorItem)
        <4>1. nextStackID' = FreshID + 1
          BY <3>4, <3>6
        <4>2. result.slot.id \in {0, SimItems[slot].id, cursorItem.id, FreshID}
              /\ result.cursor.id \in {0, SimItems[slot].id, cursorItem.id, FreshID}
          BY <3>2, <3>6
        <4>3. nextStackID' \in Nat \ {0} /\ nextStackID <= nextStackID' /\ FreshID < nextStackID'
          BY <1>0, <1>3, <4>1
        <4> QED BY <1>3, <3>2, <4>2, <4>3 DEF Given
      <3>7. CASE ~Splits(SimItems[slot], cursorItem)
        <4>1. nextStackID' = nextStackID
          BY <3>4, <3>7
        <4>2. result.slot.id \in {0, SimItems[slot].id, cursorItem.id}
              /\ result.cursor.id \in {0, SimItems[slot].id, cursorItem.id}
          BY <3>2, <3>7
        <4> QED BY <1>0, <3>2, <4>1, <4>2 DEF Given
      <3> QED BY <3>6, <3>7
    <2> QED BY <2>1, <2>2
  <1>5. Store([SimItems EXCEPT ![slot] = result.slot], result.cursor) /\ Clicked(items, result.cursor)
    BY <1>1
  <1> HIDE DEF result, items
  <1>6. InventoryTyped' /\ IDsDistinct'
    BY <1>0, <1>2, <1>4, <1>5, OneStored
  <1> QED BY <1>1, <1>5, <1>6, ClickedTyped

\* A drop from a slot.
LEMMA DropsKeeps ==
    ASSUME Typed, IDsDistinct, ClickDrops
    PROVE  Typed' /\ IDsDistinct'
  <1>0. InventoryTyped /\ cursorItem \in Item /\ nextStackID \in Nat \ {0}
    BY DEF Typed, InventoryTyped
  <1> DEFINE slot == Head(clicks).slot
             left == IF Head(clicks).op = "dropAll" THEN Empty ELSE Subtract(SimItems[slot], 1)
             items == [SimItems EXCEPT ![slot] = left]
  <1>1. /\ pc = "click" /\ clicks # <<>> /\ slot \in DOMAIN SimItems
        /\ Clicked(items, cursorItem) /\ Store([SimItems EXCEPT ![slot] = left], cursorItem)
        /\ nextStackID' = nextStackID
    BY DEF ClickDrops, Clicked
  <1>2. slot \in SimSlots /\ SimItems[slot] \in Item
    BY <1>0, <1>1, SimTyped
  <1>3. left \in Item /\ left.id \in {0, SimItems[slot].id}
    BY <1>2, SubtractItem, ItemFacts
  <1>4. Apart(SimItems[slot].id, cursorItem.id) /\ SimItems[slot].id \in Nat
    BY <1>0, <1>2, SimIDs
  <1> HIDE DEF slot, left
  <1>5. /\ Apart(left.id, cursorItem.id)
        /\ Given(left.id, SimItems[slot].id, cursorItem.id, nextStackID, nextStackID')
        /\ Given(cursorItem.id, SimItems[slot].id, cursorItem.id, nextStackID, nextStackID')
    BY <1>3, <1>4 DEF Given, Apart
  <1>6. nextStackID' \in Nat \ {0} /\ nextStackID <= nextStackID'
    BY <1>0, <1>1
  <1>7. InventoryTyped' /\ IDsDistinct'
    BY <1>0, <1>1, <1>2, <1>3, <1>5, <1>6, OneStored
  <1>8. Clicked(items, cursorItem)
    BY <1>1
  <1> QED BY <1>1, <1>7, <1>8, ClickedTyped

(***************************************************************************)
(* Two slots exchanged                                                     *)
(***************************************************************************)
\* Two slots of the player, or one of the player and one of the container, hold
\* each other's stacks.
Exchanges(player, box, player2, box2) ==
    \/ \E p, q \in DOMAIN player :
          /\ player2 = [r \in DOMAIN player |->
                          IF r = q THEN player[p] ELSE IF r = p THEN player[q] ELSE player[r]]
          /\ box2 = box
    \/ \E p \in DOMAIN player : \E s \in DOMAIN box :
          /\ player2 = [r \in DOMAIN player |-> IF r = p THEN box[s] ELSE player[r]]
          /\ box2 = [r \in DOMAIN box |-> IF r = s THEN player[p] ELSE box[r]]

\* Two places that exchange their stacks keep the IDs distinct.
LEMMA Exchanged ==
    ASSUME NEW S, NEW T, NEW player \in [S -> Item], NEW box \in [T -> Item], NEW cursor \in Item,
           NEW next \in Nat,
           Distinct(player, box, cursor), Drawn(player, box, cursor, next),
           NEW player2, NEW box2, Exchanges(player, box, player2, box2)
    PROVE  Distinct(player2, box2, cursor) /\ Drawn(player2, box2, cursor, next)
  <1>0. DOMAIN player = S /\ DOMAIN box = T
    OBVIOUS
  <1>1. /\ \A p \in S : \A s \in T : Apart(player[p].id, box[s].id) /\ Apart(box[s].id, player[p].id)
        /\ \A p, q \in S : p # q => Apart(player[p].id, player[q].id)
        /\ \A s, t \in T : s # t => Apart(box[s].id, box[t].id)
        /\ \A p \in S : Apart(player[p].id, cursor.id) /\ player[p].id < next
        /\ \A s \in T : Apart(box[s].id, cursor.id) /\ box[s].id < next
        /\ cursor.id < next
    BY <1>0 DEF Distinct, Drawn, Apart
  <1>2. ASSUME NEW p \in S, NEW q \in S, box2 = box,
               player2 = [r \in S |->
                            IF r = q THEN player[p] ELSE IF r = p THEN player[q] ELSE player[r]]
        PROVE  Distinct(player2, box2, cursor) /\ Drawn(player2, box2, cursor, next)
    <2>1. DOMAIN player2 = S
      BY <1>2
    <2>2. \A a, b \in S : a # b => Apart(player2[a].id, player2[b].id)
      BY <1>1, <1>2
    <2>3. \A a \in S : /\ Apart(player2[a].id, cursor.id) /\ player2[a].id < next
                      /\ \A s \in T : Apart(player2[a].id, box[s].id)
      BY <1>1, <1>2
    <2> QED BY <1>0, <1>1, <1>2, <2>1, <2>2, <2>3 DEF Distinct, Drawn
  <1>3. ASSUME NEW p \in S, NEW s \in T,
               player2 = [r \in S |-> IF r = p THEN box[s] ELSE player[r]],
               box2 = [r \in T |-> IF r = s THEN player[p] ELSE box[r]]
        PROVE  Distinct(player2, box2, cursor) /\ Drawn(player2, box2, cursor, next)
    <2>1. DOMAIN player2 = S /\ DOMAIN box2 = T
      BY <1>3
    <2>2. \A a, b \in S : a # b => Apart(player2[a].id, player2[b].id)
      BY <1>1, <1>3
    <2>3. \A a, b \in T : a # b => Apart(box2[a].id, box2[b].id)
      BY <1>1, <1>3
    <2>4. \A a \in S : \A b \in T : Apart(player2[a].id, box2[b].id)
      BY <1>1, <1>3
    <2>5. /\ \A a \in S : Apart(player2[a].id, cursor.id) /\ player2[a].id < next
          /\ \A b \in T : Apart(box2[b].id, cursor.id) /\ box2[b].id < next
      BY <1>1, <1>3
    <2> QED BY <1>1, <2>1, <2>2, <2>3, <2>4, <2>5 DEF Distinct, Drawn
  <1> QED BY <1>0, <1>2, <1>3 DEF Exchanges

\* A hotbar click, in the player inventory and in a window.
LEMMA HotbarKeeps ==
    ASSUME Typed, IDsDistinct, MoveToHotbar
    PROVE  /\ Typed' /\ IDsDistinct'
           /\ Exchanges(playerItems, Box, playerItems', Box')
  <1>0. InventoryTyped /\ cursorItem \in Item /\ nextStackID \in Nat \ {0}
    BY DEF Typed, InventoryTyped
  <1> DEFINE slot == Head(clicks).slot
             hotbar == Head(clicks).target
             target == IF window = NoWindow THEN hotbar ELSE MenuSlot(hotbar, window.size)
             items == [SimItems EXCEPT ![slot] = SimItems[target], ![target] = SimItems[slot]]
  <1>1. /\ pc = "click" /\ clicks # <<>> /\ slot \in DOMAIN SimItems
        /\ Clicked(items, cursorItem) /\ Store(items, cursorItem)
        /\ nextStackID' = nextStackID /\ Head(clicks).op = "hotbar"
    BY DEF MoveToHotbar, Clicked
  <1>2. slot \in SimSlots /\ hotbar \in Hotbar /\ hotbar \in Storage /\ hotbar \in PlayerSlots
    BY <1>0, <1>1, SimTyped, ClickFacts, WindowFacts, MenuLayout
  <1> HIDE DEF slot, hotbar
  <1>3. target \in SimSlots /\ SimItems[target] = playerItems[hotbar]
    <2>1. CASE window = NoWindow
      BY <1>0, <1>2, <2>1, SimPlaces DEF SimSlots
    <2>2. CASE window # NoWindow
      BY <1>0, <1>2, <2>2, SimPlaces
    <2> QED BY <2>1, <2>2
  <1>4. /\ items \in [SimSlots -> Item]
        /\ \A r \in SimSlots : items[r] = IF r = target THEN SimItems[slot]
                                          ELSE IF r = slot THEN SimItems[target] ELSE SimItems[r]
    <2> HIDE DEF target
    <2>1. SimItems \in [SimSlots -> Item]
      BY <1>0, SimTyped
    <2> QED BY <1>2, <1>3, <2>1
  <1>5. Clicked(items, cursorItem) /\ Store(items, cursorItem)
    BY <1>1
  <1> HIDE DEF items
  <1>6. /\ DOMAIN playerItems' = PlayerSlots /\ DOMAIN playerItems = PlayerSlots
        /\ DOMAIN Box' = DOMAIN Box /\ DOMAIN Box = 0..window.size - 1
        /\ Box' = [s \in 0..window.size - 1 |-> Box'[s]]
        /\ window = NoWindow => playerItems' = items /\ Box' = Box
        /\ window # NoWindow =>
               /\ \A p \in PlayerSlots : playerItems'[p] =
                     IF p \in Storage THEN items[MenuSlot(p, window.size)] ELSE playerItems[p]
               /\ \A s \in 0..window.size - 1 : Box'[s] = items[s]
    BY <1>0, <1>1, <1>4, <1>5, StoredPlaces
  <1>7. InventoryTyped' /\ cursorItem' = cursorItem
    BY <1>0, <1>1, <1>4, <1>5, Stored
  <1>8. playerItems' = [p \in PlayerSlots |-> playerItems'[p]]
    BY <1>7 DEF InventoryTyped
  <1>9. Exchanges(playerItems, Box, playerItems', Box')
    <2>1. CASE window = NoWindow
      <3>1. slot \in PlayerSlots /\ target = hotbar /\ SimItems = playerItems /\ SimSlots = PlayerSlots
        BY <1>0, <1>2, <2>1, SimPlaces DEF SimSlots
      <3>2. playerItems' = [r \in PlayerSlots |->
                  IF r = hotbar THEN playerItems[slot] ELSE IF r = slot THEN playerItems[hotbar] ELSE playerItems[r]]
        BY <1>4, <1>6, <1>8, <2>1, <3>1
      <3> QED BY <1>2, <1>6, <2>1, <3>1, <3>2 DEF Exchanges
    <2>2. CASE window # NoWindow
      <3>0. target = MenuSlot(hotbar, window.size)
        BY <2>2
      <3>1. \A p \in Storage : MenuSlot(p, window.size) = target <=> p = hotbar
        <4>1. window.size \in Nat /\ FirstStorage \in Nat
          BY <1>0, WindowFacts, StackRequestsAssumption
        <4>2. \A p \in Storage : p \in Int
          BY DEF Storage
        <4> QED BY <1>2, <3>0, <4>1, <4>2 DEF MenuSlot
      <3>2. target \notin 0..window.size - 1
        BY <1>0, <1>2, <2>2, <3>0, SimPlaces
      <3> HIDE DEF target
      <3>3. CASE slot \in 0..window.size - 1
        <4>1. SimItems[slot] = Box[slot]
          BY <1>0, <2>2, <3>3, SimPlaces
        <4>2. \A s \in 0..window.size - 1 : Box'[s] = IF s = slot THEN playerItems[hotbar] ELSE Box[s]
          BY <1>0, <1>3, <1>4, <1>6, <2>2, <3>2, SimPlaces
        <4>3. \A p \in PlayerSlots : playerItems'[p] = IF p = hotbar THEN Box[slot] ELSE playerItems[p]
          <5>1. \A p \in Storage : MenuSlot(p, window.size) # slot
            BY <1>0, <2>2, <3>3, SimPlaces
          <5> QED BY <1>0, <1>2, <1>4, <1>6, <2>2, <3>1, <4>1, <5>1, SimPlaces
        <4>4. Box' = [s \in 0..window.size - 1 |-> IF s = slot THEN playerItems[hotbar] ELSE Box[s]]
          BY <1>6, <4>2
        <4>5. playerItems' = [p \in PlayerSlots |-> IF p = hotbar THEN Box[slot] ELSE playerItems[p]]
          BY <1>8, <4>3
        <4> QED BY <1>2, <1>6, <3>3, <4>4, <4>5, ZenonT(60) DEF Exchanges
      <3>4. CASE slot \notin 0..window.size - 1
        <4> DEFINE q == PlayerSlot(slot, window.size)
        <4>1. q \in Storage /\ q \in PlayerSlots /\ MenuSlot(q, window.size) = slot
              /\ SimItems[slot] = playerItems[q]
          BY <1>0, <1>2, <2>2, <3>4, SimPlaces, WindowFacts, MenuLayout
        <4>2. \A p \in Storage : MenuSlot(p, window.size) = slot <=> p = q
          <5>1. window.size \in Nat /\ FirstStorage \in Nat /\ slot \in Nat
            BY <1>0, <1>2, WindowFacts, StackRequestsAssumption, SimTyped
          <5>2. \A p \in Storage : p \in Int
            BY DEF Storage
          <5> QED BY <5>1, <5>2 DEF MenuSlot, PlayerSlot
        <4> HIDE DEF q
        <4>3. \A p \in PlayerSlots : playerItems'[p] =
                 IF p = hotbar THEN playerItems[q] ELSE IF p = q THEN playerItems[hotbar] ELSE playerItems[p]
          BY <1>0, <1>2, <1>3, <1>4, <1>6, <2>2, <3>1, <4>1, <4>2, SimPlaces
        <4>4. \A s \in 0..window.size - 1 : Box'[s] = Box[s]
          BY <1>0, <1>4, <1>6, <2>2, <3>2, <3>4, SimPlaces
        <4>5. playerItems' = [p \in PlayerSlots |->
                 IF p = hotbar THEN playerItems[q] ELSE IF p = q THEN playerItems[hotbar] ELSE playerItems[p]]
          BY <1>8, <4>3
        <4>6. Box' = Box
          <5>1. Box = [s \in 0..window.size - 1 |-> Box[s]]
            BY DEF Box
          <5> QED BY <1>6, <4>4, <5>1
        <4> QED BY <1>2, <1>6, <4>1, <4>5, <4>6 DEF Exchanges
      <3> QED BY <3>3, <3>4
    <2> QED BY <2>1, <2>2
  <1>10. IDsDistinct'
    <2>1. /\ playerItems \in [PlayerSlots -> Item] /\ nextStackID \in Nat
          /\ Box \in [0..window.size - 1 -> Item]
          /\ Distinct(playerItems, Box, cursorItem) /\ Drawn(playerItems, Box, cursorItem, nextStackID)
      BY <1>0, SimPlaces DEF InventoryTyped, IDsDistinct
    <2>2. Distinct(playerItems', Box', cursorItem) /\ Drawn(playerItems', Box', cursorItem, nextStackID)
      BY <1>0, <1>9, <2>1, Exchanged
    <2> QED BY <1>1, <1>7, <2>2 DEF IDsDistinct
  <1> QED BY <1>1, <1>5, <1>7, <1>9, <1>10, ClickedTyped

(***************************************************************************)
(* Packets of the server                                                   *)
(***************************************************************************)
\* Of the slots after a packet, one holds a stack with the ID drawn for it; the
\* others are empty or hold what they held.
Drew(id, drawn, after) == id = 0 \/ (id = drawn /\ drawn < after)
Refills(player, box, player2, box2, drawn, after) ==
    /\ \A p \in DOMAIN player2 : /\ player2[p].id \in Nat
                                 /\ \/ Drew(player2[p].id, drawn, after)
                                    \/ p \in DOMAIN player /\ player2[p].id = player[p].id
    /\ \A s \in DOMAIN box2 : /\ box2[s].id \in Nat
                              /\ \/ Drew(box2[s].id, drawn, after)
                                 \/ s \in DOMAIN box /\ box2[s].id = box[s].id
    /\ \A p, q \in DOMAIN player2 : p # q => ~(player2[p].id = drawn /\ player2[q].id = drawn)
    /\ \A s, t \in DOMAIN box2 : s # t => ~(box2[s].id = drawn /\ box2[t].id = drawn)
    /\ \A p \in DOMAIN player2 : \A s \in DOMAIN box2 :
          ~(player2[p].id = drawn /\ box2[s].id = drawn)

\* Places that got the next IDs, or keep theirs, hold distinct IDs again.
LEMMA Refilled ==
    ASSUME NEW player, NEW box, NEW cursor, NEW player2, NEW box2, NEW cursor2,
           NEW next \in Nat \ {0}, NEW after \in Nat, next <= after, NEW drawn \in Nat, next <= drawn,
           NEW second \in Nat, next <= second, drawn # second,
           Distinct(player, box, cursor), Drawn(player, box, cursor, next),
           Refills(player, box, player2, box2, drawn, after),
           cursor2.id = cursor.id \/ (cursor2.id = second /\ second < after),
           cursor.id \in Nat
    PROVE  Distinct(player2, box2, cursor2) /\ Drawn(player2, box2, cursor2, after)
  <1>1. /\ \A p \in DOMAIN player : player[p].id < next /\ Apart(player[p].id, cursor.id)
        /\ \A s \in DOMAIN box : box[s].id < next /\ Apart(box[s].id, cursor.id)
        /\ cursor.id < next
        /\ \A p, q \in DOMAIN player : p # q => Apart(player[p].id, player[q].id)
        /\ \A s, t \in DOMAIN box : s # t => Apart(box[s].id, box[t].id)
        /\ \A p \in DOMAIN player : \A s \in DOMAIN box : Apart(player[p].id, box[s].id)
    BY DEF Distinct, Drawn
  <1>2. \A p \in DOMAIN player2 :
           \/ player2[p].id = 0
           \/ player2[p].id = drawn /\ drawn < after
           \/ p \in DOMAIN player /\ player2[p].id = player[p].id
    BY DEF Refills, Drew
  <1>3. \A s \in DOMAIN box2 :
           \/ box2[s].id = 0
           \/ box2[s].id = drawn /\ drawn < after
           \/ s \in DOMAIN box /\ box2[s].id = box[s].id
    BY DEF Refills, Drew
  <1>4. Drawn(player2, box2, cursor2, after)
    <2>1. \A p \in DOMAIN player2 : player2[p].id < after
      <3> SUFFICES ASSUME NEW p \in DOMAIN player2 PROVE player2[p].id < after
        OBVIOUS
      <3>1. player2[p].id \in Nat
        BY DEF Refills
      <3> QED BY <1>1, <1>2, <3>1
    <2>2. \A s \in DOMAIN box2 : box2[s].id < after
      <3> SUFFICES ASSUME NEW s \in DOMAIN box2 PROVE box2[s].id < after
        OBVIOUS
      <3>1. box2[s].id \in Nat
        BY DEF Refills
      <3> QED BY <1>1, <1>3, <3>1
    <2>3. cursor2.id < after
      BY <1>1
    <2> QED BY <2>1, <2>2, <2>3 DEF Drawn
  <1>5. \A p, q \in DOMAIN player2 : p # q => Apart(player2[p].id, player2[q].id)
    <2> SUFFICES ASSUME NEW p \in DOMAIN player2, NEW q \in DOMAIN player2, p # q
                 PROVE  Apart(player2[p].id, player2[q].id)
      OBVIOUS
    <2>1. ~(player2[p].id = drawn /\ player2[q].id = drawn)
      BY DEF Refills
    <2>2. player2[p].id \in Nat /\ player2[q].id \in Nat
      BY DEF Refills
    <2> QED BY <1>1, <1>2, <2>1, <2>2 DEF Apart
  <1>6. \A s, t \in DOMAIN box2 : s # t => Apart(box2[s].id, box2[t].id)
    <2> SUFFICES ASSUME NEW s \in DOMAIN box2, NEW t \in DOMAIN box2, s # t
                 PROVE  Apart(box2[s].id, box2[t].id)
      OBVIOUS
    <2>1. ~(box2[s].id = drawn /\ box2[t].id = drawn)
      BY DEF Refills
    <2>2. box2[s].id \in Nat /\ box2[t].id \in Nat
      BY DEF Refills
    <2> QED BY <1>1, <1>3, <2>1, <2>2 DEF Apart
  <1>7. \A p \in DOMAIN player2 : \A s \in DOMAIN box2 : Apart(player2[p].id, box2[s].id)
    <2> SUFFICES ASSUME NEW p \in DOMAIN player2, NEW s \in DOMAIN box2
                 PROVE  Apart(player2[p].id, box2[s].id)
      OBVIOUS
    <2>1. ~(player2[p].id = drawn /\ box2[s].id = drawn)
      BY DEF Refills
    <2>2. player2[p].id \in Nat /\ box2[s].id \in Nat
      BY DEF Refills
    <2> QED BY <1>1, <1>2, <1>3, <2>1, <2>2 DEF Apart
  <1>8. \A p \in DOMAIN player2 : Apart(player2[p].id, cursor2.id)
    <2> SUFFICES ASSUME NEW p \in DOMAIN player2
                 PROVE  Apart(player2[p].id, cursor2.id)
      OBVIOUS
    <2>1. player2[p].id \in Nat
      BY DEF Refills
    <2> QED BY <1>1, <1>2, <2>1 DEF Apart
  <1>9. \A s \in DOMAIN box2 : Apart(box2[s].id, cursor2.id)
    <2> SUFFICES ASSUME NEW s \in DOMAIN box2
                 PROVE  Apart(box2[s].id, cursor2.id)
      OBVIOUS
    <2>1. box2[s].id \in Nat
      BY DEF Refills
    <2> QED BY <1>1, <1>3, <2>1 DEF Apart
  <1> QED BY <1>4, <1>5, <1>6, <1>7, <1>8, <1>9 DEF Distinct

\* pumpJava leaves the request where it is.
LEMMA UpdateTyped ==
    ASSUME Typed, InventoryTyped', UNCHANGED <<pc, locals>>, disturbed' = TRUE
    PROVE  Typed'
  <1>1. /\ clicks' = clicks /\ pc' = pc /\ request' = request /\ source' = source
        /\ destination' = destination
    BY DEF locals
  <1>2. disturbed' \in BOOLEAN
    BY Zenon
  <1>3. Idle' <=> request' = <<>>
    BY <1>1 DEF Idle, Typed, RequestTyped
  <1>4. RequestTyped'
    BY <1>1, <1>2, <1>3 DEF RequestTyped, Typed
  <1>5. ActionStarted'
    <2>1. Action' = Action /\ (TwoSlots' <=> TwoSlots)
      BY <1>1 DEF Action, TwoSlots
    <2> QED BY <1>1, <2>1 DEF ActionStarted, Typed
  <1> QED BY <1>4, <1>5 DEF Typed

\* An item of a packet is an item with a new ID (decodeJavaItemSlot).
LEMMA NumberedTyped ==
    ASSUME InventoryTyped, NEW stack \in Supply, NEW n \in Nat
    PROVE  Numbered(stack, n) \in Item /\ Numbered(stack, n).id = nextStackID + n
  <1>1. stack.kind \in Kinds /\ stack.count \in Nat \ {0}
    BY StackRequestsAssumption
  <1>2. nextStackID + n \in Nat \ {0}
    BY DEF InventoryTyped
  <1> QED BY <1>1, <1>2, StackMade DEF Numbered

\* What Refilled needs of the inventory before a packet.
LEMMA BeforeUpdate ==
    ASSUME InventoryTyped, IDsDistinct
    PROVE  /\ nextStackID \in Nat \ {0} /\ nextStackID + 1 \in Nat /\ nextStackID + 2 \in Nat
           /\ Distinct(playerItems, Box, cursorItem) /\ Drawn(playerItems, Box, cursorItem, nextStackID)
           /\ cursorItem.id \in Nat /\ cursorItem \in Item
           /\ \A p \in PlayerSlots : playerItems[p].id \in Nat
           /\ \A s \in 0..window.size - 1 : Box[s].id \in Nat
           /\ DOMAIN playerItems = PlayerSlots /\ DOMAIN Box = 0..window.size - 1
           /\ \A p \in PlayerSlots : playerItems[p].id < nextStackID
           /\ \A s \in 0..window.size - 1 : Box[s].id < nextStackID
  <1>1. /\ playerItems \in [PlayerSlots -> Item] /\ Box \in [0..window.size - 1 -> Item]
        /\ cursorItem \in Item /\ nextStackID \in Nat \ {0}
    BY SimPlaces DEF InventoryTyped
  <1>2. Distinct(playerItems, Box, cursorItem) /\ Drawn(playerItems, Box, cursorItem, nextStackID)
    BY DEF IDsDistinct
  <1>3. DOMAIN playerItems = PlayerSlots /\ DOMAIN Box = 0..window.size - 1
    BY <1>1
  <1>4. /\ cursorItem.id \in Nat
        /\ \A p \in PlayerSlots : playerItems[p].id \in Nat
        /\ \A s \in 0..window.size - 1 : Box[s].id \in Nat
    BY <1>1, ItemFacts
  <1> QED BY <1>1, <1>2, <1>3, <1>4 DEF Drawn

\* The window gives way to none or to one whose content has not arrived.
LEMMA OpenCloseKeeps ==
    ASSUME Typed, IDsDistinct,
           \/ WindowCloses
           \/ ClientClosesWindow
           \/ \E id \in WindowIDs, size \in WindowSizes : WindowOpens(id, size)
    PROVE  Typed' /\ IDsDistinct'
  <1>0. InventoryTyped
    BY DEF Typed
  <1>1. /\ playerItems' = playerItems /\ cursorItem' = cursorItem /\ nextStackID' = nextStackID
        /\ disturbed' = TRUE /\ UNCHANGED <<pc, locals>>
        /\ \/ window' = NoWindow
           \/ \E id \in WindowIDs, size \in WindowSizes :
                 window' = [id |-> id, size |-> size, items |-> <<>>]
    BY DEF WindowCloses, ClientClosesWindow, WindowOpens, JavaUpdate, Opened
  <1>2. /\ window' = [id |-> window'.id, size |-> window'.size, items |-> window'.items]
        /\ window' = NoWindow \/ (window'.id \in WindowIDs /\ window'.size \in WindowSizes)
        /\ window'.items = <<>>
    BY <1>1 DEF NoWindow
  <1>3. InventoryTyped'
    BY <1>0, <1>1, <1>2 DEF InventoryTyped
  <1>4. Typed'
    BY <1>1, <1>3, UpdateTyped
  <1>5. \A s \in DOMAIN Box' : Box'[s] = Empty
    BY <1>2 DEF Box
  <1>6. Refills(playerItems, Box, playerItems, Box', nextStackID, nextStackID)
    <2>1. \A p \in PlayerSlots : playerItems[p].id # nextStackID
      BY <1>0, BeforeUpdate
    <2>2. Empty.id = 0 /\ 0 # nextStackID
      BY <1>0, BeforeUpdate DEF Empty
    <2> QED BY <1>0, <1>5, <2>1, <2>2, BeforeUpdate DEF Refills, Drew
  <1>7. Distinct(playerItems, Box', cursorItem) /\ Drawn(playerItems, Box', cursorItem, nextStackID)
    <2>1. nextStackID + 1 \in Nat /\ nextStackID <= nextStackID + 1 /\ nextStackID <= nextStackID
          /\ nextStackID \in Nat \ {0} /\ nextStackID \in Nat /\ nextStackID # nextStackID + 1
      BY <1>0, BeforeUpdate
    <2> QED BY <1>0, <1>6, <2>1, BeforeUpdate, Refilled
  <1> QED BY <1>1, <1>4, <1>7 DEF IDsDistinct

\* The cursor-item packet.
LEMMA SetCursorKeeps ==
    ASSUME Typed, IDsDistinct, NEW stack \in Supply, SetCursor(stack)
    PROVE  Typed' /\ IDsDistinct'
  <1>0. InventoryTyped
    BY DEF Typed
  <1>1. /\ cursorItem' = Numbered(stack, 0) /\ nextStackID' = nextStackID + 1
        /\ playerItems' = playerItems /\ window' = window
        /\ disturbed' = TRUE /\ UNCHANGED <<pc, locals>>
    BY DEF SetCursor, JavaUpdate
  <1>2. Numbered(stack, 0) \in Item /\ Numbered(stack, 0).id = nextStackID
    BY <1>0, NumberedTyped, BeforeUpdate, SMTT(60)
  <1>3. InventoryTyped'
    BY <1>0, <1>1, <1>2 DEF InventoryTyped
  <1>4. Box' = Box
    BY <1>1 DEF Box
  <1>5. /\ nextStackID' \in Nat \ {0} /\ nextStackID < nextStackID' /\ nextStackID \in Nat \ {0}
        /\ nextStackID <= nextStackID'
    BY <1>0, <1>1 DEF InventoryTyped
  <1>6. Refills(playerItems, Box, playerItems, Box, nextStackID + 1, nextStackID + 1)
    <2>1. \A p \in PlayerSlots : playerItems[p].id # nextStackID + 1
      BY <1>0, BeforeUpdate
    <2>2. \A s \in 0..window.size - 1 : Box[s].id # nextStackID + 1
      BY <1>0, BeforeUpdate
    <2> QED BY <1>0, <2>1, <2>2, BeforeUpdate DEF Refills
  <1>7. Distinct(playerItems, Box, Numbered(stack, 0)) /\ Drawn(playerItems, Box, Numbered(stack, 0), nextStackID + 1)
    <2>1. /\ nextStackID + 1 \in Nat /\ nextStackID <= nextStackID + 1 /\ nextStackID <= nextStackID
          /\ nextStackID \in Nat \ {0} /\ nextStackID \in Nat /\ nextStackID + 1 # nextStackID
          /\ nextStackID < nextStackID + 1
      BY <1>0, BeforeUpdate
    <2> QED BY <1>0, <1>2, <1>6, <2>1, BeforeUpdate, Refilled
  <1>8. Typed'
    BY <1>1, <1>3, UpdateTyped
  <1> QED BY <1>1, <1>4, <1>7, <1>8 DEF IDsDistinct

\* A packet that draws one ID for the slots and at most one more for the cursor.
LEMMA DrewKeeps ==
    ASSUME InventoryTyped, IDsDistinct, InventoryTyped', nextStackID <= nextStackID',
           Refills(playerItems, Box, playerItems', Box', nextStackID, nextStackID'),
           \/ cursorItem' = cursorItem
           \/ cursorItem'.id = nextStackID + 1 /\ nextStackID + 1 < nextStackID'
    PROVE  IDsDistinct'
  <1>1. /\ nextStackID + 1 \in Nat /\ nextStackID <= nextStackID + 1 /\ nextStackID <= nextStackID
        /\ nextStackID \in Nat \ {0} /\ nextStackID \in Nat /\ nextStackID # nextStackID + 1
    BY BeforeUpdate
  <1>2. nextStackID' \in Nat
    BY DEF InventoryTyped
  <1>3. cursorItem'.id = cursorItem.id \/ (cursorItem'.id = nextStackID + 1 /\ nextStackID + 1 < nextStackID')
    OBVIOUS
  <1>4. Distinct(playerItems, Box, cursorItem) /\ Drawn(playerItems, Box, cursorItem, nextStackID)
        /\ cursorItem.id \in Nat
    BY BeforeUpdate
  <1>5. Distinct(playerItems', Box', cursorItem') /\ Drawn(playerItems', Box', cursorItem', nextStackID')
    BY <1>1, <1>2, <1>3, <1>4, Refilled
  <1> QED BY <1>5 DEF IDsDistinct

\* translateSetSlot of a player slot.
LEMMA SetPlayerSlotKeeps ==
    ASSUME Typed, IDsDistinct, NEW stack \in Supply, NEW slot \in PlayerSlots,
           SetPlayerSlot(slot, stack)
    PROVE  Typed' /\ IDsDistinct'
  <1>0. InventoryTyped
    BY DEF Typed
  <1>1. /\ playerItems' = [playerItems EXCEPT ![slot] = Numbered(stack, 0)]
        /\ nextStackID' = nextStackID + 1
        /\ cursorItem' = cursorItem /\ window' = window
        /\ disturbed' = TRUE /\ UNCHANGED <<pc, locals>>
    BY DEF SetPlayerSlot, JavaUpdate
  <1>2. Numbered(stack, 0) \in Item /\ Numbered(stack, 0).id = nextStackID
    BY <1>0, NumberedTyped, BeforeUpdate, SMTT(60)
  <1>3. InventoryTyped'
    BY <1>0, <1>1, <1>2 DEF InventoryTyped
  <1>4. Box' = Box
    BY <1>1 DEF Box
  <1>5. nextStackID < nextStackID' /\ nextStackID <= nextStackID' /\ nextStackID \in Nat
    BY <1>0, <1>1 DEF InventoryTyped
  <1>6. Refills(playerItems, Box, playerItems', Box', nextStackID, nextStackID')
    <2>1. /\ DOMAIN playerItems' = PlayerSlots /\ playerItems'[slot].id = nextStackID
          /\ \A p \in PlayerSlots : p # slot => playerItems'[p] = playerItems[p]
      BY <1>0, <1>1, <1>2, BeforeUpdate
    <2>2. /\ \A p \in PlayerSlots : playerItems[p].id # nextStackID
          /\ \A s \in 0..window.size - 1 : Box[s].id # nextStackID
      BY <1>0, BeforeUpdate
    <2> QED BY <1>0, <1>4, <1>5, <2>1, <2>2, BeforeUpdate DEF Refills, Drew
  <1>7. IDsDistinct'
    BY <1>0, <1>1, <1>3, <1>5, <1>6, DrewKeeps
  <1> QED BY <1>1, <1>3, <1>7, UpdateTyped

\* translateWindowSlot, in both copies of the storage.
LEMMA WindowSlotKeeps ==
    ASSUME Typed, IDsDistinct, NEW stack \in Supply, NEW slot, WindowSlot(slot, stack)
    PROVE  Typed' /\ IDsDistinct'
  <1>0. InventoryTyped
    BY DEF Typed
  <1> DEFINE item == Numbered(stack, 0)
  <1>1. /\ window # NoWindow /\ slot \in MenuSlots(window.size)
        /\ window' = IF slot \in DOMAIN window.items
                     THEN [window EXCEPT !.items[slot] = item] ELSE window
        /\ playerItems' = IF slot >= window.size
                          THEN [playerItems EXCEPT ![PlayerSlot(slot, window.size)] = item]
                          ELSE playerItems
        /\ nextStackID' = nextStackID + 1
        /\ cursorItem' = cursorItem
        /\ disturbed' = TRUE /\ UNCHANGED <<pc, locals>>
    BY DEF WindowSlot, JavaUpdate
  <1>2. item \in Item /\ item.id = nextStackID
    BY <1>0, NumberedTyped, BeforeUpdate, SMTT(60)
  <1> HIDE DEF item
  <1>3. /\ window.size \in Nat /\ slot \in Nat
        /\ \A s \in MenuSlots(window.size) : s \in Nat
        /\ slot >= window.size => /\ PlayerSlot(slot, window.size) \in Storage
                                  /\ PlayerSlot(slot, window.size) \in PlayerSlots
    BY <1>0, <1>1, WindowFacts, MenuLayout
  <1>4. /\ window'.id = window.id /\ window'.size = window.size
        /\ window' = [id |-> window'.id, size |-> window'.size, items |-> window'.items]
        /\ window'.items = IF slot \in DOMAIN window.items
                           THEN [window.items EXCEPT ![slot] = item] ELSE window.items
        /\ window' # NoWindow
    <2>1. window = [id |-> window.id, size |-> window.size, items |-> window.items]
          /\ window.id # 0
      BY <1>0, <1>1, WindowFacts DEF InventoryTyped
    <2>2. window' = [id |-> window.id, size |-> window.size,
                     items |-> IF slot \in DOMAIN window.items
                               THEN [window.items EXCEPT ![slot] = item] ELSE window.items]
      BY <1>1, <2>1
    <2>3. window'.id = window.id
      BY <2>2
    <2> QED BY <2>1, <2>2, <2>3 DEF NoWindow
  <1>5. InventoryTyped'
    <2>1. playerItems' \in [PlayerSlots -> Item]
      BY <1>0, <1>1, <1>2 DEF InventoryTyped
    <2>2. window'.items = <<>> \/ window'.items \in [MenuSlots(window'.size) -> Item]
      <3>1. CASE window.items = <<>>
        BY <1>0, <1>4, <3>1, WindowFacts
      <3>2. CASE window.items # <<>>
        BY <1>0, <1>2, <1>4, <3>2 DEF InventoryTyped
      <3> QED BY <3>1, <3>2
    <2>3. window'.id \in WindowIDs /\ window'.size \in WindowSizes
      BY <1>0, <1>1, <1>4 DEF InventoryTyped
    <2>4. nextStackID' \in Nat \ {0}
      BY <1>0, <1>1 DEF InventoryTyped
    <2> QED BY <1>0, <1>1, <1>4, <2>1, <2>2, <2>3, <2>4 DEF InventoryTyped
  <1>6. nextStackID < nextStackID' /\ nextStackID <= nextStackID' /\ nextStackID \in Nat
    BY <1>0, <1>1 DEF InventoryTyped
  <1>7. Refills(playerItems, Box, playerItems', Box', nextStackID, nextStackID')
    <2>1. DOMAIN playerItems' = PlayerSlots /\ DOMAIN Box' = 0..window.size - 1
      BY <1>4, <1>5 DEF InventoryTyped, Box
    <2>2. /\ \A p \in PlayerSlots : playerItems[p].id # nextStackID
          /\ \A s \in 0..window.size - 1 : Box[s].id # nextStackID
      BY <1>0, BeforeUpdate
    <2>3. CASE slot >= window.size
      <3>1. Box' = Box
        <4>1. \A s \in 0..window.size - 1 : s # slot
          BY <1>3, <2>3
        <4>2. \A s \in 0..window.size - 1 : Box'[s] = Box[s]
          BY <1>4, <4>1 DEF Box
        <4> QED BY <1>4, <4>2 DEF Box
      <3>2. /\ playerItems'[PlayerSlot(slot, window.size)].id = nextStackID
            /\ \A p \in PlayerSlots : p # PlayerSlot(slot, window.size) => playerItems'[p] = playerItems[p]
        BY <1>0, <1>1, <1>2, <1>3, <2>3, BeforeUpdate
      <3> QED BY <1>0, <1>6, <2>1, <2>2, <3>1, <3>2, BeforeUpdate DEF Refills, Drew
    <2>4. CASE ~(slot >= window.size)
      <3>1. playerItems' = playerItems
        BY <1>1, <2>4
      <3>2. \A s \in 0..window.size - 1 : s # slot => Box'[s] = Box[s]
        BY <1>4 DEF Box
      <3>3. slot \in 0..window.size - 1
        BY <1>3, <2>4
      <3>4. Box'[slot] = Box[slot] \/ Box'[slot] = item
        BY <1>4, <3>3 DEF Box
      <3> QED BY <1>0, <1>2, <1>6, <2>1, <2>2, <3>1, <3>2, <3>3, <3>4, BeforeUpdate DEF Refills, Drew
    <2> QED BY <2>3, <2>4
  <1>8. IDsDistinct'
    BY <1>0, <1>1, <1>5, <1>6, <1>7, DrewKeeps
  <1> QED BY <1>1, <1>5, <1>8, UpdateTyped

\* A full content packet has an item in every slot.
LEMMA FilledFacts ==
    ASSUME NEW slots, NEW filled, NEW stack \in Item
    PROVE  /\ Filled(slots, filled, stack) \in [slots -> Item]
           /\ \A s \in slots : Filled(slots, filled, stack)[s] = IF s = filled THEN stack ELSE Empty
  BY DEF Filled, Item

\* translateWindowItems of the player inventory.
LEMMA PlayerContentKeeps ==
    ASSUME Typed, IDsDistinct, NEW stack \in Supply, NEW carried \in Supply, NEW filled,
           PlayerContent(filled, stack, carried)
    PROVE  Typed' /\ IDsDistinct'
  <1>0. InventoryTyped
    BY DEF Typed
  <1> DEFINE item == Numbered(stack, 0)
             held == Numbered(carried, 1)
  <1>1. /\ playerItems' = Filled(PlayerSlots, filled, item)
        /\ nextStackID' = nextStackID + 2
        /\ cursorItem' = held /\ window' = window
        /\ disturbed' = TRUE /\ UNCHANGED <<pc, locals>>
    BY DEF PlayerContent, JavaUpdate
  <1>2. item \in Item /\ item.id = nextStackID /\ held \in Item /\ held.id = nextStackID + 1
    BY <1>0, NumberedTyped, BeforeUpdate, SMTT(60)
  <1> HIDE DEF item, held
  <1>3. /\ playerItems' \in [PlayerSlots -> Item]
        /\ \A p \in PlayerSlots : playerItems'[p] = IF p = filled THEN item ELSE Empty
    BY <1>1, <1>2, FilledFacts
  <1>4. nextStackID \in Nat \ {0} /\ nextStackID' \in Nat \ {0} /\ nextStackID < nextStackID'
        /\ nextStackID <= nextStackID' /\ nextStackID + 1 < nextStackID'
    BY <1>0, <1>1 DEF InventoryTyped
  <1>5. InventoryTyped'
    BY <1>0, <1>1, <1>2, <1>3, <1>4 DEF InventoryTyped
  <1>6. Box' = Box
    BY <1>1 DEF Box
  <1>7. Refills(playerItems, Box, playerItems', Box', nextStackID, nextStackID')
    <2>1. DOMAIN playerItems' = PlayerSlots
      BY <1>3
    <2>2. \A s \in 0..window.size - 1 : Box[s].id # nextStackID
      BY <1>0, BeforeUpdate
    <2>3. Empty.id = 0 /\ 0 # nextStackID /\ nextStackID \in Nat
      BY <1>4 DEF Empty
    <2>4. \A p \in PlayerSlots : playerItems'[p].id = IF p = filled THEN nextStackID ELSE 0
      BY <1>2, <1>3, <2>3
    <2> QED BY <1>0, <1>4, <1>6, <2>1, <2>2, <2>3, <2>4, BeforeUpdate DEF Refills, Drew
  <1>8. IDsDistinct'
    BY <1>0, <1>1, <1>2, <1>4, <1>5, <1>7, DrewKeeps
  <1> QED BY <1>1, <1>5, <1>8, UpdateTyped

\* translateWindowContent, which fills the window and the player's storage.
LEMMA WindowContentKeeps ==
    ASSUME Typed, IDsDistinct, NEW stack \in Supply, NEW carried \in Supply, NEW filled,
           WindowContent(filled, stack, carried)
    PROVE  Typed' /\ IDsDistinct'
  <1>0. InventoryTyped
    BY DEF Typed
  <1> DEFINE item == Numbered(stack, 0)
             held == Numbered(carried, 1)
             items == Filled(MenuSlots(window.size), filled, item)
  <1>1. /\ window # NoWindow /\ Store(items, held)
        /\ nextStackID' = nextStackID + 2
        /\ disturbed' = TRUE /\ UNCHANGED <<pc, locals>>
    BY DEF WindowContent, JavaUpdate
  <1>2. item \in Item /\ item.id = nextStackID /\ held \in Item /\ held.id = nextStackID + 1
    BY <1>0, NumberedTyped, BeforeUpdate, SMTT(60)
  <1> HIDE DEF item, held
  <1>3. /\ items \in [SimSlots -> Item]
        /\ \A s \in SimSlots : items[s] = IF s = filled THEN item ELSE Empty
    <2>1. SimSlots = MenuSlots(window.size)
      BY <1>1 DEF SimSlots
    <2> QED BY <1>2, <2>1, FilledFacts
  <1>4. nextStackID \in Nat \ {0} /\ nextStackID' \in Nat \ {0} /\ nextStackID < nextStackID'
        /\ nextStackID <= nextStackID' /\ nextStackID + 1 < nextStackID'
    BY <1>0, <1>1 DEF InventoryTyped
  <1>9. Store(items, held)
    BY <1>1
  <1> HIDE DEF items
  <1>5. InventoryTyped' /\ cursorItem' = held
    BY <1>0, <1>2, <1>3, <1>4, <1>9, Stored
  <1>6. /\ DOMAIN playerItems' = PlayerSlots /\ DOMAIN Box' = 0..window.size - 1
        /\ \A p \in PlayerSlots : playerItems'[p] =
              IF p \in Storage THEN items[MenuSlot(p, window.size)] ELSE playerItems[p]
        /\ \A s \in 0..window.size - 1 : Box'[s] = items[s]
    BY <1>0, <1>1, <1>2, <1>3, <1>4, <1>9, StoredPlaces
  <1>7. Refills(playerItems, Box, playerItems', Box', nextStackID, nextStackID')
    <2>1. /\ \A p \in PlayerSlots : playerItems[p].id # nextStackID
          /\ \A s \in 0..window.size - 1 : Box[s].id # nextStackID
      BY <1>0, BeforeUpdate
    <2>2. Empty.id = 0 /\ 0 # nextStackID /\ nextStackID \in Nat
      BY <1>4 DEF Empty
    <2>3. \A s \in SimSlots : items[s].id = IF s = filled THEN nextStackID ELSE 0
      BY <1>2, <1>3, <2>2
    <2>4. \A p, q \in Storage : MenuSlot(p, window.size) = MenuSlot(q, window.size) => p = q
      <3>1. window.size \in Nat /\ FirstStorage \in Nat
        BY <1>0, WindowFacts, StackRequestsAssumption
      <3>2. \A p \in Storage : p \in Int
        BY DEF Storage
      <3> QED BY <3>1, <3>2 DEF MenuSlot
    <2>5. /\ \A s \in 0..window.size - 1 : s \in SimSlots
          /\ \A p \in Storage : /\ MenuSlot(p, window.size) \in SimSlots
                                /\ MenuSlot(p, window.size) \notin 0..window.size - 1
      BY <1>0, <1>1, SimPlaces
    <2>6. \A p \in PlayerSlots :
             \/ p \in Storage /\ playerItems'[p].id = IF MenuSlot(p, window.size) = filled THEN nextStackID ELSE 0
             \/ p \notin Storage /\ playerItems'[p].id = playerItems[p].id
      BY <1>6, <2>3, <2>5
    <2>7. \A s \in 0..window.size - 1 : Box'[s].id = IF s = filled THEN nextStackID ELSE 0
      BY <1>6, <2>3, <2>5
    <2>8. \A p \in PlayerSlots : playerItems'[p].id = nextStackID => p \in Storage /\ MenuSlot(p, window.size) = filled
      BY <2>1, <2>2, <2>6
    <2>9. \A s \in 0..window.size - 1 : Box'[s].id = nextStackID => s = filled
      BY <2>2, <2>7
    <2>10. \A p \in PlayerSlots : /\ playerItems'[p].id \in Nat
                                  /\ \/ Drew(playerItems'[p].id, nextStackID, nextStackID')
                                     \/ playerItems'[p].id = playerItems[p].id
      BY <1>0, <1>4, <2>2, <2>6, BeforeUpdate DEF Drew
    <2>11. \A s \in 0..window.size - 1 : /\ Box'[s].id \in Nat
                                         /\ Drew(Box'[s].id, nextStackID, nextStackID')
      BY <1>4, <2>2, <2>7 DEF Drew
    <2>12. DOMAIN playerItems = PlayerSlots
      BY <1>0, BeforeUpdate
    <2> QED BY <1>6, <2>4, <2>5, <2>8, <2>9, <2>10, <2>11, <2>12 DEF Refills
  <1>8. IDsDistinct'
    BY <1>0, <1>2, <1>4, <1>5, <1>7, DrewKeeps
  <1> QED BY <1>1, <1>5, <1>8, UpdateTyped

\* A session begins with a stack network ID of its own for every stack.
LEMMA IDsInit ==
    ASSUME Init
    PROVE  IDsDistinct
  <1> DEFINE top == PlayerSize + Max(WindowSizes \cup {0})
  <1>0. /\ WindowSizes \in SUBSET Nat /\ IsFiniteSet(WindowSizes)
        /\ PlayerSize \in Nat
        /\ Max(WindowSizes \cup {0}) \in Nat
        /\ \A n \in WindowSizes : n <= Max(WindowSizes \cup {0})
    <2>1. WindowSizes \in SUBSET Nat /\ IsFiniteSet(WindowSizes) /\ PlayerSize \in Nat
      BY StackRequestsAssumption
    <2> QED BY <2>1, MaxBounds
  <1>1. PICK all \in Contents(0..top) : \E w \in WindowIDs \cup {0}, n \in WindowSizes :
             LET player == [p \in PlayerSlots |-> all[p]]
                 extra == [s \in 0..n - 1 |-> all[PlayerSize + 1 + s]]
             IN /\ playerItems = player
                /\ cursorItem = all[PlayerSize]
                /\ IF w = 0 THEN window = NoWindow /\ \A s \in 0..n - 1 : extra[s] = Empty
                   ELSE window = [id |-> w, size |-> n, items |->
                          [s \in MenuSlots(n) |-> IF s < n THEN extra[s] ELSE player[PlayerSlot(s, n)]]]
    BY DEF Init
  <1>2. top \in Nat /\ nextStackID = top + 2
    BY <1>0 DEF Init
  <1>3. /\ \A s \in 0..top : all[s].id = 0 \/ all[s].id = s + 1
        /\ \A s \in 0..top : all[s].id \in Nat
    BY <1>2, ContentsFacts, ItemFacts
  <1>4. PlayerSlots \subseteq 0..top /\ PlayerSize \in 0..top /\ \A p \in PlayerSlots : p < PlayerSize /\ p \in Nat
    BY <1>0 DEF PlayerSlots
  <1>5. /\ DOMAIN playerItems = PlayerSlots /\ cursorItem = all[PlayerSize]
        /\ \A p \in PlayerSlots : playerItems[p] = all[p]
    BY <1>1
  <1>6. /\ DOMAIN Box = 0..window.size - 1 /\ window.size \in Nat
        /\ \A s \in 0..window.size - 1 : PlayerSize + 1 + s \in 0..top /\ Box[s] = all[PlayerSize + 1 + s]
    <2>1. CASE window = NoWindow
      <3>1. window.size = 0
        BY <2>1 DEF NoWindow
      <3> QED BY <3>1 DEF Box
    <2>2. CASE window # NoWindow
      <3>1. PICK w \in WindowIDs \cup {0}, n \in WindowSizes :
               window = [id |-> w, size |-> n, items |->
                          [s \in MenuSlots(n) |-> IF s < n THEN [t \in 0..n - 1 |-> all[PlayerSize + 1 + t]][s]
                                                  ELSE [p \in PlayerSlots |-> all[p]][PlayerSlot(s, n)]]]
        BY <1>1, <2>2
      <3>2. window.size = n /\ n \in Nat /\ n <= Max(WindowSizes \cup {0})
        BY <1>0, <3>1
      <3>3. 0..n - 1 \subseteq MenuSlots(n) /\ \A s \in 0..n - 1 : s < n /\ s \in Nat
        BY <3>2, MenuLayout
      <3>4. DOMAIN window.items = MenuSlots(n) /\ \A s \in 0..n - 1 : window.items[s] = all[PlayerSize + 1 + s]
        BY <3>1, <3>3
      <3>5. \A s \in 0..n - 1 : PlayerSize + 1 + s \in 0..top
        BY <1>0, <3>2
      <3> QED BY <3>2, <3>3, <3>4, <3>5 DEF Box
    <2> QED BY <2>1, <2>2
  <1> HIDE DEF top
  <1>7. Drawn(playerItems, Box, cursorItem, nextStackID)
    <2>1. \A s \in 0..top : all[s].id < nextStackID
      BY <1>2, <1>3
    <2> QED BY <1>4, <1>5, <1>6, <2>1 DEF Drawn
  <1>8. Distinct(playerItems, Box, cursorItem)
    <2>1. \A s, t \in 0..top : s # t => Apart(all[s].id, all[t].id)
      BY <1>2, <1>3 DEF Apart
    <2>2. \A s \in 0..window.size - 1 : PlayerSize + 1 + s # PlayerSize
      BY <1>0, <1>6
    <2>3. \A s, t \in 0..window.size - 1 : s # t => PlayerSize + 1 + s # PlayerSize + 1 + t
      BY <1>0, <1>6
    <2>4. \A p \in PlayerSlots : \A s \in 0..window.size - 1 : p # PlayerSize + 1 + s
      BY <1>0, <1>4, <1>6
    <2>5. \A p \in PlayerSlots : p # PlayerSize
      BY <1>0, <1>4
    <2>6. \A p, q \in PlayerSlots : p # q => Apart(playerItems[p].id, playerItems[q].id)
      BY <1>4, <1>5, <2>1
    <2>7. \A s, t \in 0..window.size - 1 : s # t => Apart(Box[s].id, Box[t].id)
      BY <1>6, <2>1, <2>3
    <2>8. \A p \in PlayerSlots : \A s \in 0..window.size - 1 : Apart(playerItems[p].id, Box[s].id)
      BY <1>4, <1>5, <1>6, <2>1, <2>4
    <2>9. \A p \in PlayerSlots : Apart(playerItems[p].id, cursorItem.id)
      BY <1>4, <1>5, <2>1, <2>5
    <2>10. \A s \in 0..window.size - 1 : Apart(Box[s].id, cursorItem.id)
      BY <1>4, <1>5, <1>6, <2>1, <2>2
    <2> QED BY <1>5, <1>6, <2>6, <2>7, <2>8, <2>9, <2>10 DEF Distinct
  <1> QED BY <1>7, <1>8 DEF IDsDistinct

\* A step of a request that sends no click.
LEMMA QuietIDs ==
    ASSUME IDsDistinct, UNCHANGED inventory
    PROVE  IDsDistinct'
  <1>1. /\ playerItems' = playerItems /\ cursorItem' = cursorItem /\ window' = window
        /\ nextStackID' = nextStackID
    BY DEF inventory
  <1>2. Box' = Box
    BY <1>1 DEF Box
  <1> QED BY <1>1, <1>2 DEF IDsDistinct, Distinct, Drawn

\* A click that misses the inventory, and the end of an action.
LEMMA MissTyped ==
    ASSUME Typed, ClickMissesInventory \/ NextAction
    PROVE  Typed' /\ UNCHANGED inventory
  <1>1. CASE ClickMissesInventory
    BY <1>1, RejectTyped DEF ClickMissesInventory, Reject
  <1>2. CASE NextAction
    <2>1. /\ request' = Tail(request) /\ UNCHANGED inventory /\ source' = source
          /\ destination' = destination /\ clicks' = clicks /\ disturbed' = disturbed
          /\ pc' = IF Len(request) = 1 THEN "idle" ELSE "action"
          /\ pc # "idle" /\ clicks = <<>>
      BY <1>2, NoClicks DEF NextAction
    <2>2. /\ request # <<>> /\ Tail(request) \in Seq(Offered)
          /\ Len(Tail(request)) = Len(request) - 1 /\ Len(request) \in Nat
      BY <2>1, ActionFacts DEF Typed
    <2>3. Len(request) = 1 <=> Tail(request) = <<>>
      BY <2>2, EmptySeq
    <2>4. pc' \in {"idle", "action", "resolveSource", "resolveDestination", "validateSource",
               "validateDestination", "plan", "click", "next", "panic"}
      BY <2>1
    <2>5. Idle' <=> request' = <<>>
      BY <2>1, <2>3 DEF Idle
    <2>6. RequestTyped'
      BY <2>1, <2>2, <2>4, <2>5 DEF RequestTyped, Typed
    <2>7. ActionStarted'
      BY <2>1 DEF ActionStarted
    <2> QED BY <2>1, <2>6, <2>7, InventoryUnchanged DEF Typed
  <1> QED BY <1>1, <1>2

\* Every step keeps the types and the IDs distinct.
LEMMA InventoryStep ==
    ASSUME Typed, IDsDistinct, [Next]_vars
    PROVE  Typed' /\ IDsDistinct'
  <1>1. CASE UNCHANGED vars
    <2>1. UNCHANGED inventory /\ pc' = pc /\ disturbed' = disturbed /\ UNCHANGED locals
      BY <1>1 DEF vars
    <2>2. InventoryTyped'
      BY <2>1, InventoryUnchanged DEF Typed
    <2>3. RequestTyped'
      BY <2>1 DEF locals, RequestTyped, Typed, Idle
    <2>4. ActionStarted'
      BY <2>1 DEF locals, ActionStarted, Typed, Action, TwoSlots
    <2> QED BY <2>1, <2>2, <2>3, <2>4, QuietIDs DEF Typed
  <1>2. CASE \E n \in 0..MaxActions : \E actions \in [1..n -> Offered] : ReadRequest(actions)
    <2>1. UNCHANGED inventory
      BY <1>2 DEF ReadRequest
    <2> QED BY <1>2, <2>1, StartTyped, QuietIDs
  <1>3. CASE StartAction
    <2>1. UNCHANGED inventory
      BY <1>3 DEF StartAction
    <2> QED BY <1>3, <2>1, StartTyped, QuietIDs
  <1>4. CASE ResolveSource \/ ResolveDestination \/ ValidateSource \/ ValidateDestination
    <2>1. UNCHANGED inventory
      BY <1>4 DEF ResolveSource, ResolveDestination, ValidateSource, ValidateDestination, Reject, Continue
    <2> QED BY <1>4, <2>1, ResolvingTyped, QuietIDs
  <1>5. CASE PlanTransfer \/ PlanSwap \/ PlanDrop
    <2>1. UNCHANGED inventory
      <3>1. Reject \/ Panic \/ \E planned \in Seq(PlannedClick) : Plan(planned)
        BY <1>5, Planning
      <3> QED BY <3>1 DEF Reject, Panic, Continue, Plan
    <2> QED BY <1>5, <2>1, PlanningTyped, QuietIDs
  <1>6. CASE ClickOutside \/ ClickItem \/ ClickDrops \/ MoveToHotbar
    BY <1>6, OutsideKeeps, ItemKeeps, DropsKeeps, HotbarKeeps
  <1>7. CASE ClickMissesInventory \/ NextAction
    BY <1>7, MissTyped, QuietIDs
  <1>8. CASE ClientClosesWindow \/ PumpJava
    BY <1>8, OpenCloseKeeps, SetCursorKeeps, SetPlayerSlotKeeps, WindowSlotKeeps,
       PlayerContentKeeps, WindowContentKeeps DEF PumpJava
  <1> QED BY <1>1, <1>2, <1>3, <1>4, <1>5, <1>6, <1>7, <1>8 DEF Next, PumpBedrock

\* Distinct IDs over the copies that count are distinct over what the client can name.
LEMMA DistinctIsUnique ==
    ASSUME Typed, IDsDistinct
    PROVE  UniqueIDs
  <1>0. InventoryTyped
    BY DEF Typed
  <1>1. /\ DOMAIN playerItems = PlayerSlots /\ DOMAIN Box = 0..window.size - 1
        /\ Distinct(playerItems, Box, cursorItem)
        /\ \A p \in PlayerSlots : playerItems[p] \in Item
        /\ \A s \in 0..window.size - 1 : Box[s] \in Item
        /\ cursorItem \in Item
    BY <1>0, SimPlaces DEF InventoryTyped, IDsDistinct
  <1>2. \A s \in DOMAIN window.items : s < window.size => s \in 0..window.size - 1 /\ window.items[s] = Box[s]
    <2>1. window.size \in Nat /\ \A s \in DOMAIN window.items : s \in Nat
      BY <1>0, WindowFacts, MenuLayout
    <2> QED BY <2>1 DEF Box
  <1>3. ASSUME NEW p \in Locations
        PROVE  \/ /\ p.at = "player" /\ p = [at |-> "player", slot |-> p.slot]
                  /\ p.slot \in PlayerSlots /\ Located(p) = playerItems[p.slot]
               \/ /\ p.at = "window" /\ p = [at |-> "window", slot |-> p.slot]
                  /\ p.slot \in 0..window.size - 1 /\ Located(p) = Box[p.slot]
               \/ /\ p.at = "cursor" /\ p = [at |-> "cursor", slot |-> 0]
                  /\ Located(p) = cursorItem
    BY <1>2 DEF Locations, Located
  <1>4. SUFFICES ASSUME NEW p \in Locations, NEW q \in Locations, p # q, ~IsEmpty(Located(p))
                 PROVE  Located(p).id # Located(q).id
    BY DEF UniqueIDs
  <1>5. Located(p) \in Item /\ Located(q) \in Item
    BY <1>1, <1>3
  <1>6. Located(p).id # 0
    BY <1>4, <1>5, ItemFacts
  <1>7. Apart(Located(p).id, Located(q).id) \/ Apart(Located(q).id, Located(p).id)
    BY <1>1, <1>3, <1>4 DEF Distinct
  <1> QED BY <1>6, <1>7 DEF Apart

\* Whatever the client requests and the server sends meanwhile, no two stacks that the
\* client can name carry the same stack network ID.
THEOREM StacksNamed == Spec => []UniqueIDs
  <1>1. Init => Typed /\ IDsDistinct
    BY TypedInit, IDsInit
  <1>2. (Typed /\ IDsDistinct) /\ [Next]_vars => (Typed /\ IDsDistinct)'
    BY InventoryStep
  <1>3. Typed /\ IDsDistinct => UniqueIDs
    BY DistinctIsUnique
  <1> QED BY <1>1, <1>2, <1>3, PTL DEF Spec

(***************************************************************************)
(* What a step of a request does to it                                     *)
(***************************************************************************)
\* The two copies of the storage that an open window makes agree.
CopiesAgree ==
    window # NoWindow =>
        /\ DOMAIN window.items = MenuSlots(window.size)
        /\ \A p \in Storage : window.items[MenuSlot(p, window.size)] = playerItems[p]

\* The inventory the clicks are simulated on is this now, in both copies, and one
\* click less is to be sent.
Stands(items, cursor) ==
    /\ SimItems' = items /\ SimSlots' = SimSlots /\ cursorItem' = cursor
    /\ window = NoWindow <=> window' = NoWindow
    /\ window'.size = window.size
    /\ CopiesAgree'
    /\ clicks' = Tail(clicks)
    /\ UNCHANGED <<pc, request, source, destination, before, disturbed, updates>>

\* What Store leaves when a click is sent.
LEMMA Sent ==
    ASSUME Typed, nextStackID' \in Nat \ {0},
           NEW items \in [SimSlots -> Item], NEW cursor \in Item, Clicked(items, cursor)
    PROVE  Stands(items, cursor)
  <1>1. InventoryTyped /\ Store(items, cursor)
    BY DEF Typed, Clicked
  <1>2. /\ SimItems' = items /\ SimSlots' = SimSlots /\ cursorItem' = cursor
        /\ window = NoWindow <=> window' = NoWindow
        /\ window'.size = window.size
    BY <1>1, Stored
  <1>3. /\ window # NoWindow =>
                 /\ window'.items = items
                 /\ \A p \in PlayerSlots : playerItems'[p] =
                       IF p \in Storage THEN items[MenuSlot(p, window.size)] ELSE playerItems[p]
        /\ InventoryTyped' /\ window.size \in Nat
    BY <1>1, Stored, WindowFacts
  <1>4. CopiesAgree'
    <2> SUFFICES ASSUME window' # NoWindow
                 PROVE  /\ DOMAIN window'.items = MenuSlots(window'.size)
                        /\ \A p \in Storage : window'.items[MenuSlot(p, window'.size)] = playerItems'[p]
      BY DEF CopiesAgree, NoWindow, MenuSlots, Storage, MenuSlot
    <2>1. window # NoWindow /\ window'.items = items /\ window'.size = window.size
      BY <1>2, <1>3
    <2>2. DOMAIN items = MenuSlots(window.size)
      BY <2>1 DEF SimSlots
    <2>3. Storage \subseteq PlayerSlots
      BY <1>3, MenuLayout
    <2> QED BY <1>3, <2>1, <2>2, <2>3
  <1> QED BY <1>2, <1>4 DEF Stands, Clicked

\* A click on a slot: what slot and cursor hold then, which slots it reports.
SlotResult(slot) ==
    IF Head(clicks).op = "right" THEN RightClick(SimItems[slot], cursorItem, FreshID)
    ELSE LeftClick(SimItems[slot], cursorItem)

\* What a left or right click sends, stores and reports.
LEMMA ItemSent ==
    ASSUME Typed, IDsDistinct, ClickItem, NEW slot, slot = Head(clicks).slot
    PROVE  /\ slot \in SimSlots /\ Head(clicks).op \in {"left", "right"}
           /\ SlotResult(slot).slot \in Item /\ SlotResult(slot).cursor \in Item
           /\ Stands([SimItems EXCEPT ![slot] = SlotResult(slot).slot], SlotResult(slot).cursor)
           /\ affected' = affected \cup Changed([SimItems EXCEPT ![slot] = SlotResult(slot).slot])
  <1>0. InventoryTyped /\ cursorItem \in Item /\ nextStackID' \in Nat \ {0}
    BY ItemKeeps DEF Typed, InventoryTyped
  <1> DEFINE result == SlotResult(slot)
             items == [SimItems EXCEPT ![slot] = result.slot]
  <1>1. /\ slot \in DOMAIN SimItems /\ Head(clicks).op \in {"left", "right"}
        /\ Clicked(items, result.cursor)
        /\ affected' = affected \cup Changed(items)
    BY DEF ClickItem, SlotResult
  <1>2. slot \in SimSlots /\ SimItems[slot] \in Item /\ SimItems \in [SimSlots -> Item]
    BY <1>0, <1>1, SimTyped
  <1>3. /\ FreshID \in Nat \ {0} /\ FreshID # SimItems[slot].id /\ FreshID # cursorItem.id
        /\ Apart(SimItems[slot].id, cursorItem.id)
    <2>1. /\ FreshID \in Nat \ {0} /\ nextStackID <= FreshID /\ nextStackID \in Nat
          /\ SimItems[slot].id \in Nat /\ cursorItem.id \in Nat
          /\ SimItems[slot].id < nextStackID /\ cursorItem.id < nextStackID
          /\ Apart(SimItems[slot].id, cursorItem.id)
      BY <1>0, <1>2, SimIDs, FreshFacts DEF InventoryTyped
    <2> QED BY <2>1
  <1>4. result.slot \in Item /\ result.cursor \in Item
    <2>1. CASE Head(clicks).op = "right"
      <3>1. result = RightClick(SimItems[slot], cursorItem, FreshID)
        BY <2>1 DEF SlotResult
      <3> HIDE DEF result
      <3> QED BY <1>0, <1>2, <1>3, <3>1, RightClickIDs
    <2>2. CASE Head(clicks).op # "right"
      <3>1. result = LeftClick(SimItems[slot], cursorItem)
        BY <2>2 DEF SlotResult
      <3> HIDE DEF result
      <3> QED BY <1>0, <1>2, <1>3, <3>1, LeftClickIDs
    <2> QED BY <2>1, <2>2
  <1>5. items \in [SimSlots -> Item]
    BY <1>2, <1>4
  <1>6. Stands(items, result.cursor)
    <2> HIDE DEF items, result
    <2> QED BY <1>0, <1>1, <1>4, <1>5, Sent
  <1> QED BY <1>1, <1>2, <1>4, <1>6

\* A drop from a slot.
Dropped(slot) == IF Head(clicks).op = "dropAll" THEN Empty ELSE Subtract(SimItems[slot], 1)

\* What a drop from a slot sends, stores and reports.
LEMMA DropSent ==
    ASSUME Typed, IDsDistinct, ClickDrops, NEW slot, slot = Head(clicks).slot
    PROVE  /\ slot \in SimSlots /\ Head(clicks).op \in {"dropOne", "dropAll"}
           /\ Dropped(slot) \in Item
           /\ Stands([SimItems EXCEPT ![slot] = Dropped(slot)], cursorItem)
           /\ affected' = affected \cup Changed([SimItems EXCEPT ![slot] = Dropped(slot)])
  <1>0. InventoryTyped /\ cursorItem \in Item /\ nextStackID' \in Nat \ {0}
    BY DropsKeeps DEF Typed, InventoryTyped
  <1> DEFINE items == [SimItems EXCEPT ![slot] = Dropped(slot)]
  <1>1. /\ slot \in DOMAIN SimItems /\ Head(clicks).op \in {"dropOne", "dropAll"}
        /\ Clicked(items, cursorItem)
        /\ affected' = affected \cup Changed(items)
    BY DEF ClickDrops, Dropped
  <1>2. slot \in SimSlots /\ SimItems[slot] \in Item /\ SimItems \in [SimSlots -> Item]
    BY <1>0, <1>1, SimTyped
  <1>3. Dropped(slot) \in Item
    BY <1>2, SubtractItem, ItemFacts DEF Dropped
  <1>5. items \in [SimSlots -> Item]
    BY <1>2, <1>3
  <1>6. Stands(items, cursorItem)
    <2> HIDE DEF items
    <2> QED BY <1>0, <1>1, <1>5, Sent
  <1> QED BY <1>1, <1>2, <1>3, <1>6

\* A drop outside.
LEMMA OutsideSent ==
    ASSUME Typed, IDsDistinct, ClickOutside
    PROVE  /\ Head(clicks).slot = Outside
           /\ Stands(SimItems, Subtract(cursorItem, 1))
           /\ affected' = affected
  <1>0. InventoryTyped /\ cursorItem \in Item /\ nextStackID' \in Nat \ {0}
    BY OutsideKeeps DEF Typed, InventoryTyped
  <1>1. Clicked(SimItems, Subtract(cursorItem, 1)) /\ Head(clicks).slot = Outside /\ affected' = affected
    BY DEF ClickOutside
  <1>2. Subtract(cursorItem, 1) \in Item /\ SimItems \in [SimSlots -> Item]
    BY <1>0, SubtractItem, SimTyped
  <1> QED BY <1>0, <1>1, <1>2, Sent

\* A hotbar click: the slot that stands for the hotbar slot, and the exchange.
HotbarSlot(hotbar) == IF window = NoWindow THEN hotbar ELSE MenuSlot(hotbar, window.size)
SlotsSwapped(slot, target) ==
    [SimItems EXCEPT ![slot] = SimItems[target], ![target] = SimItems[slot]]

\* What a hotbar click sends, stores and reports.
LEMMA HotbarSent ==
    ASSUME Typed, IDsDistinct, MoveToHotbar, NEW slot, slot = Head(clicks).slot,
           NEW target, target = HotbarSlot(Head(clicks).target)
    PROVE  /\ slot \in SimSlots /\ target \in SimSlots /\ Head(clicks).op = "hotbar"
           /\ Stands(SlotsSwapped(slot, target), cursorItem)
           /\ affected' = affected \cup {target} \cup ({slot} \cap Changed(SlotsSwapped(slot, target)))
  <1>0. InventoryTyped /\ cursorItem \in Item /\ nextStackID' \in Nat \ {0}
    BY HotbarKeeps DEF Typed, InventoryTyped
  <1> DEFINE items == SlotsSwapped(slot, target)
  <1>1. /\ slot \in DOMAIN SimItems /\ Head(clicks).op = "hotbar" /\ clicks # <<>>
        /\ Clicked(items, cursorItem)
        /\ affected' = affected \cup {target} \cup ({slot} \cap Changed(items))
    BY DEF MoveToHotbar, SlotsSwapped, HotbarSlot, SwapAffected
  <1>2. slot \in SimSlots /\ SimItems \in [SimSlots -> Item]
    BY <1>0, <1>1, SimTyped
  <1>3. target \in SimSlots
    <2>1. Head(clicks).target \in Hotbar
      BY <1>1, ClickFacts
    <2>2. Head(clicks).target \in Storage /\ Head(clicks).target \in PlayerSlots
      BY <1>0, <2>1, WindowFacts, MenuLayout
    <2> QED BY <1>0, <2>2, SimPlaces DEF HotbarSlot, SimSlots
  <1>5. items \in [SimSlots -> Item]
    BY <1>2, <1>3 DEF SlotsSwapped
  <1>6. Stands(items, cursorItem)
    <2> HIDE DEF items
    <2> QED BY <1>0, <1>1, <1>5, Sent
  <1> QED BY <1>1, <1>2, <1>3, <1>6

(***************************************************************************)
(* What the response reports                                               *)
(***************************************************************************)
\* No action is under way, or something came between.
Away == pc \in {"idle", "action", "next", "panic"} \/ disturbed

\* The slots that have changed since the action began are among those to report, and
\* before its first click nothing has.
Reported ==
    ~Away => /\ DOMAIN before.items = SimSlots
             /\ \A s \in SimSlots : SimItems[s] # before.items[s] => s \in affected
Untouched == ~Away /\ pc # "click" => before = Now

\* A step that sends no click leaves the inventory, and the slots to report, alone.
\* It begins an action, goes on with it before its first click, or ends it.
LEMMA NoClickSteps ==
    ASSUME Typed, \/ UNCHANGED vars
                  \/ \E n \in 0..MaxActions : \E actions \in [1..n -> Offered] : ReadRequest(actions)
                  \/ StartAction
                  \/ ResolveSource \/ ResolveDestination \/ ValidateSource \/ ValidateDestination
                  \/ PlanTransfer \/ PlanSwap \/ PlanDrop
                  \/ ClickMissesInventory \/ NextAction \/ ClientClosesWindow \/ PumpJava
    PROVE  \/ Away'
           \/ UNCHANGED vars
           \/ /\ StartAction
              /\ pc' \in {"resolveSource", "validateSource"} /\ before' = Now
              /\ UNCHANGED <<inventory, affected, request>>
           \/ /\ \/ ResolveSource \/ ResolveDestination \/ ValidateSource \/ ValidateDestination
                 \/ PlanTransfer \/ PlanSwap \/ PlanDrop
              /\ ~Reject /\ ~Panic /\ ~Away /\ pc # "click"
              /\ UNCHANGED <<inventory, affected, request, before, disturbed>>
  <1>1. CASE UNCHANGED vars
    BY <1>1
  <1>2. CASE \E n \in 0..MaxActions : \E actions \in [1..n -> Offered] : ReadRequest(actions)
    BY <1>2 DEF ReadRequest, Away
  <1>3. CASE StartAction
    BY <1>3 DEF StartAction, Away
  <1>9. Reject \/ Panic => Away'
    BY DEF Reject, Panic, Continue, Away
  <1>10. CASE disturbed
    <2>1. ASSUME ResolveSource \/ ResolveDestination \/ ValidateSource \/ ValidateDestination
                 \/ PlanTransfer \/ PlanSwap \/ PlanDrop, ~Reject, ~Panic
          PROVE  disturbed' = disturbed
      <3>1. CASE ResolveSource \/ ResolveDestination \/ ValidateSource \/ ValidateDestination
        BY <2>1, <3>1 DEF ResolveSource, ResolveDestination, ValidateSource, ValidateDestination, Continue
      <3>2. CASE PlanTransfer \/ PlanSwap \/ PlanDrop
        <4>1. \E planned \in Seq(PlannedClick) : Plan(planned)
          BY <2>1, <3>2, Planning
        <4> QED BY <4>1 DEF Plan
      <3> QED BY <2>1, <3>1, <3>2
    <2>2. ASSUME ResolveSource \/ ResolveDestination \/ ValidateSource \/ ValidateDestination
                 \/ PlanTransfer \/ PlanSwap \/ PlanDrop
          PROVE  Away'
      BY <1>9, <1>10, <2>1, <2>2 DEF Away
    <2>3. ASSUME ClickMissesInventory \/ NextAction
          PROVE  Away'
      BY <2>3 DEF ClickMissesInventory, NextAction, Reject, Away
    <2>4. ASSUME ClientClosesWindow \/ PumpJava
          PROVE  Away'
      BY <2>4 DEF ClientClosesWindow, PumpJava, JavaUpdate, WindowOpens, WindowCloses, PlayerContent,
         WindowContent, WindowSlot, SetPlayerSlot, SetCursor, Away
    <2> QED BY <1>1, <1>2, <1>3, <2>2, <2>3, <2>4
  <1>11. CASE ~disturbed
    <2>1. ASSUME ResolveSource \/ ResolveDestination \/ ValidateSource \/ ValidateDestination, ~Reject, ~Panic
          PROVE  /\ ~Away /\ pc # "click"
                 /\ UNCHANGED <<inventory, affected, request, before, disturbed>>
      BY <1>11, <2>1 DEF ResolveSource, ResolveDestination, ValidateSource, ValidateDestination, Continue, Away
    <2>2. ASSUME PlanTransfer \/ PlanSwap \/ PlanDrop, ~Reject, ~Panic
          PROVE  /\ ~Away /\ pc # "click"
                 /\ UNCHANGED <<inventory, affected, request, before, disturbed>>
      <3>1. pc = "plan" /\ \E planned \in Seq(PlannedClick) : Plan(planned)
        BY <2>2, Planning
      <3> QED BY <1>11, <3>1 DEF Plan, Away
    <2>3. ASSUME ClickMissesInventory \/ NextAction
          PROVE  Away'
      BY <2>3 DEF ClickMissesInventory, NextAction, Reject, Away
    <2>4. ASSUME ClientClosesWindow \/ PumpJava
          PROVE  Away'
      BY <2>4 DEF ClientClosesWindow, PumpJava, JavaUpdate, WindowOpens, WindowCloses, PlayerContent,
         WindowContent, WindowSlot, SetPlayerSlot, SetCursor, Away
    <2> QED BY <1>1, <1>2, <1>3, <1>9, <2>1, <2>2, <2>3, <2>4
  <1> QED BY <1>10, <1>11

\* Every step sends no click or one.
LEMMA TwoKinds ==
    ASSUME [Next]_vars
    PROVE  \/ ClickOutside \/ ClickItem \/ ClickDrops \/ MoveToHotbar
           \/ \/ UNCHANGED vars
              \/ \E n \in 0..MaxActions : \E actions \in [1..n -> Offered] : ReadRequest(actions)
              \/ StartAction
              \/ ResolveSource \/ ResolveDestination \/ ValidateSource \/ ValidateDestination
              \/ PlanTransfer \/ PlanSwap \/ PlanDrop
              \/ ClickMissesInventory \/ NextAction \/ ClientClosesWindow \/ PumpJava
  BY DEF Next, PumpBedrock

\* What a click that stores these items reports.
LEMMA ReportedStep ==
    ASSUME Reported, pc = "click", InventoryTyped, NEW items \in [SimSlots -> Item], NEW cursor,
           Stands(items, cursor), affected \subseteq affected',
           \A s \in SimSlots : items[s] # SimItems[s] => s \in affected'
    PROVE  Reported'
  <1>1. /\ SimItems' = items /\ SimSlots' = SimSlots /\ pc' = pc /\ before' = before
        /\ disturbed' = disturbed
    BY DEF Stands
  <1>2. Away' <=> Away
    BY <1>1 DEF Away
  <1> QED BY <1>1, <1>2 DEF Reported

\* Every step keeps what is changed among what is reported.
LEMMA ReportedKept ==
    ASSUME Typed, IDsDistinct, Reported, Untouched, [Next]_vars
    PROVE  Reported' /\ Untouched'
  <1>0. InventoryTyped /\ SimItems \in [SimSlots -> Item] /\ DOMAIN SimItems = SimSlots
    BY SimTyped DEF Typed
  <1>1. CASE ClickOutside \/ ClickItem \/ ClickDrops \/ MoveToHotbar
    <2>0. pc = "click"
      BY <1>1 DEF ClickOutside, ClickItem, ClickDrops, MoveToHotbar
    <2> DEFINE slot == Head(clicks).slot
    <2>1. ASSUME ClickOutside
          PROVE  Reported' /\ pc' = "click"
      <3>1. Stands(SimItems, Subtract(cursorItem, 1)) /\ affected' = affected
        BY <2>1, OutsideSent
      <3>2. pc' = "click"
        BY <2>0, <3>1 DEF Stands
      <3> QED BY <1>0, <2>0, <3>1, <3>2, ReportedStep
    <2>2. ASSUME ClickItem
          PROVE  Reported' /\ pc' = "click"
      <3> DEFINE items == [SimItems EXCEPT ![slot] = SlotResult(slot).slot]
      <3>1. /\ SlotResult(slot).slot \in Item
            /\ Stands(items, SlotResult(slot).cursor) /\ affected' = affected \cup Changed(items)
        BY <2>2, ItemSent
      <3>2. pc' = "click"
        BY <2>0, <3>1 DEF Stands
      <3>3. items \in [SimSlots -> Item]
        BY <1>0, <3>1
      <3> HIDE DEF items, slot
      <3>4. \A s \in SimSlots : items[s] # SimItems[s] => s \in affected'
        BY <3>1, <3>3 DEF Changed
      <3> QED BY <1>0, <2>0, <3>1, <3>2, <3>3, <3>4, ReportedStep
    <2>3. ASSUME ClickDrops
          PROVE  Reported' /\ pc' = "click"
      <3> DEFINE items == [SimItems EXCEPT ![slot] = Dropped(slot)]
      <3>1. /\ Dropped(slot) \in Item
            /\ Stands(items, cursorItem) /\ affected' = affected \cup Changed(items)
        BY <2>3, DropSent
      <3>2. pc' = "click"
        BY <2>0, <3>1 DEF Stands
      <3>3. items \in [SimSlots -> Item]
        BY <1>0, <3>1
      <3> HIDE DEF items, slot
      <3>4. \A s \in SimSlots : items[s] # SimItems[s] => s \in affected'
        BY <3>1, <3>3 DEF Changed
      <3> QED BY <1>0, <2>0, <3>1, <3>2, <3>3, <3>4, ReportedStep
    <2>4. ASSUME MoveToHotbar
          PROVE  Reported' /\ pc' = "click"
      <3> DEFINE target == HotbarSlot(Head(clicks).target)
                 items == SlotsSwapped(slot, target)
      <3>1. /\ slot \in SimSlots /\ target \in SimSlots
            /\ Stands(items, cursorItem)
            /\ affected' = affected \cup {target} \cup ({slot} \cap Changed(items))
        BY <2>4, HotbarSent
      <3>2. pc' = "click"
        BY <2>0, <3>1 DEF Stands
      <3>3. /\ items \in [SimSlots -> Item]
            /\ \A s \in SimSlots : s # slot /\ s # target => items[s] = SimItems[s]
        BY <1>0, <3>1 DEF SlotsSwapped
      <3> HIDE DEF items, slot, target
      <3>4. \A s \in SimSlots : items[s] # SimItems[s] => s \in affected'
        BY <3>1, <3>3 DEF Changed
      <3> QED BY <1>0, <2>0, <3>1, <3>2, <3>3, <3>4, ReportedStep
    <2>5. Reported' /\ pc' = "click"
      BY <1>1, <2>1, <2>2, <2>3, <2>4
    <2> QED BY <2>5 DEF Untouched
  <1>2. CASE Away'
    BY <1>2 DEF Reported, Untouched
  <1>3. CASE UNCHANGED vars
    <2>1. UNCHANGED inventory /\ before' = before /\ pc' = pc /\ disturbed' = disturbed /\ affected' = affected
      BY <1>3 DEF vars, locals
    <2>2. SimItems' = SimItems /\ SimSlots' = SimSlots /\ Now' = Now /\ (Away' <=> Away)
      BY <1>0, <2>1, InventoryUnchanged DEF Away
    <2> QED BY <2>1, <2>2 DEF Reported, Untouched
  <1>4. CASE before' = Now /\ UNCHANGED inventory
    <2>1. Now' = Now /\ SimItems' = SimItems /\ SimSlots' = SimSlots
      BY <1>0, <1>4, InventoryUnchanged
    <2>2. before'.items = SimItems'
      BY <1>4, <2>1 DEF Now
    <2> QED BY <1>0, <1>4, <2>1, <2>2 DEF Reported, Untouched
  <1>5. CASE /\ ~Away /\ pc # "click"
             /\ UNCHANGED <<inventory, affected, request, before, disturbed>>
    <2>1. before = Now
      BY <1>5 DEF Untouched
    <2> QED BY <1>4, <1>5, <2>1
  <1> QED BY <1>1, <1>2, <1>3, <1>4, <1>5, TwoKinds, NoClickSteps

\* An accepted request reports every slot its clicks changed.
THEOREM ResponsesComplete == Spec => []ResponseComplete
  <1> DEFINE IInv == Typed /\ IDsDistinct /\ Reported /\ Untouched
  <1>1. Init => IInv
    <2> SUFFICES ASSUME Init PROVE IInv
      OBVIOUS
    <2>1. Away
      BY DEF Init, Away
    <2> QED BY <2>1, TypedInit, IDsInit DEF Reported, Untouched
  <1>2. IInv /\ [Next]_vars => IInv'
    BY InventoryStep, ReportedKept
  <1>3. IInv => ResponseComplete
    <2> SUFFICES ASSUME IInv, pc = "click", ~disturbed
                 PROVE  \A s \in SimSlots : SimItems[s] # before.items[s] => s \in affected
      <3>1. Typed => DOMAIN SimItems = SimSlots
        BY SimTyped DEF Typed
      <3> QED BY <3>1 DEF ResponseComplete
    <2> QED BY DEF Reported, Away
  <1> QED BY <1>1, <1>2, <1>3, PTL DEF Spec

(***************************************************************************)
(* Which stacks the clicks are for                                         *)
(***************************************************************************)
\* What the source and the destination were resolved to is what they resolve to now,
\* in the inventory or to the cursor.
SourceResolved ==
    pc \in {"resolveDestination", "validateSource", "validateDestination", "plan", "click"}
    /\ Action.type # "mine" => source = Resolve(Action.source)
DestinationResolved ==
    pc \in {"validateSource", "validateDestination", "plan", "click"} /\ TwoSlots =>
        /\ destination = Resolve(Action.destination)
        /\ destination # Unsupported
SourceSupported ==
    pc \in {"validateSource", "validateDestination", "plan", "click"}
    /\ Action.type # "mine" => source # Unsupported
Resolved == ~Away => SourceResolved /\ DestinationResolved /\ SourceSupported

\* A reference resolves as before while the window is the same.
LEMMA ResolveKept ==
    ASSUME UNCHANGED request, window = NoWindow <=> window' = NoWindow, window'.size = window.size
    PROVE  /\ Action' = Action /\ (TwoSlots' <=> TwoSlots)
           /\ Resolve(Action.source)' = Resolve(Action.source)
           /\ Resolve(Action.destination)' = Resolve(Action.destination)
  BY DEF Action, TwoSlots, Resolve

\* Clicks leave the request and its slots alone.
LEMMA ClicksStand ==
    ASSUME Typed, IDsDistinct, ClickOutside \/ ClickItem \/ ClickDrops \/ MoveToHotbar
    PROVE  /\ pc = "click" /\ pc' = "click" /\ disturbed' = disturbed
           /\ UNCHANGED <<request, source, destination, before>>
           /\ window = NoWindow <=> window' = NoWindow
           /\ window'.size = window.size
           /\ SimSlots' = SimSlots /\ CopiesAgree' /\ updates' = updates
  <1>1. \E items, cursor : Stands(items, cursor)
    BY OutsideSent, ItemSent, DropSent, HotbarSent
  <1>2. pc = "click"
    BY DEF ClickOutside, ClickItem, ClickDrops, MoveToHotbar
  <1> QED BY <1>1, <1>2 DEF Stands

\* Each step of an action that goes on, before its first click.
LEMMA ResolvingSteps ==
    ASSUME Typed, \/ ResolveSource \/ ResolveDestination \/ ValidateSource \/ ValidateDestination
                  \/ PlanTransfer \/ PlanSwap \/ PlanDrop,
           ~Reject, ~Panic
    PROVE  \/ /\ pc = "resolveSource" /\ Action.type # "mine"
              /\ source' = Resolve(Action.source) /\ destination' = destination
              /\ \/ TwoSlots /\ pc' = "resolveDestination"
                 \/ ~TwoSlots /\ source' # Unsupported /\ pc' = "validateSource"
           \/ /\ pc = "resolveDestination" /\ TwoSlots
              /\ source' = source /\ destination' = Resolve(Action.destination)
              /\ source' # Unsupported /\ destination' # Unsupported
              /\ pc' = "validateSource"
           \/ /\ pc = "validateSource" /\ Valid(Action.source, source)
              /\ source' = source /\ destination' = destination
              /\ \/ TwoSlots /\ pc' = "validateDestination"
                 \/ ~TwoSlots /\ pc' \in {"plan", "next"}
           \/ /\ pc = "validateDestination" /\ TwoSlots /\ Valid(Action.destination, destination)
              /\ source' = source /\ destination' = destination /\ pc' = "plan"
           \/ /\ pc = "plan"
              /\ source' = source /\ destination' = destination /\ pc' = "click"
  <1>0. RequestTyped /\ ActionStarted
    BY DEF Typed
  <1>1. CASE ResolveSource
    BY <1>0, <1>1 DEF ResolveSource, Continue, ActionStarted
  <1>2. CASE ResolveDestination
    BY <1>0, <1>2 DEF ResolveDestination, Continue, ActionStarted
  <1>3. CASE ValidateSource
    <2>1. /\ pc = "validateSource" /\ Valid(Action.source, source)
          /\ source' = source /\ destination' = destination
          /\ pc' = CASE TwoSlots -> "validateDestination"
                     [] Action.type = "drop" -> "plan"
                     [] Action.type = "mine" -> "next"
      BY <1>3 DEF ValidateSource, Continue
    <2>2. TwoSlots \/ Action.type = "drop" \/ Action.type = "mine"
      BY <1>0, <2>1, ActionFacts DEF ActionStarted, TwoSlots
    <2>3. CASE TwoSlots
      <3>1. Action.type # "drop" /\ Action.type # "mine"
        BY <2>3 DEF TwoSlots
      <3> QED BY <2>1, <2>3, <3>1
    <2>4. CASE ~TwoSlots
      BY <2>1, <2>2, <2>4
    <2> QED BY <2>3, <2>4
  <1>4. CASE ValidateDestination
    BY <1>0, <1>4 DEF ValidateDestination, Continue, ActionStarted
  <1>5. CASE PlanTransfer \/ PlanSwap \/ PlanDrop
    <2>1. pc = "plan" /\ \E planned \in Seq(PlannedClick) : Plan(planned)
      BY <1>5, Planning
    <2> QED BY <2>1 DEF Plan
  <1> QED BY <1>1, <1>2, <1>3, <1>4, <1>5

\* Every step keeps the slots of the action as they resolve.
LEMMA ResolvedKept ==
    ASSUME Typed, IDsDistinct, Resolved, [Next]_vars
    PROVE  Resolved'
  <1>1. CASE ClickOutside \/ ClickItem \/ ClickDrops \/ MoveToHotbar
    <2>1. /\ pc = "click" /\ pc' = "click" /\ disturbed' = disturbed
          /\ source' = source /\ destination' = destination /\ UNCHANGED request
          /\ window = NoWindow <=> window' = NoWindow
          /\ window'.size = window.size
      BY <1>1, ClicksStand
    <2>2. /\ Action' = Action /\ (TwoSlots' <=> TwoSlots)
          /\ Resolve(Action.source)' = Resolve(Action.source)
          /\ Resolve(Action.destination)' = Resolve(Action.destination)
      BY <2>1, ResolveKept
    <2>3. Away' <=> Away
      BY <2>1 DEF Away
    <2> QED BY <2>1, <2>2, <2>3 DEF Resolved, SourceResolved, DestinationResolved, SourceSupported, Unsupported
  <1>2. CASE Away'
    BY <1>2 DEF Resolved
  <1>3. CASE UNCHANGED vars
    <2>1. /\ pc' = pc /\ disturbed' = disturbed
          /\ source' = source /\ destination' = destination /\ UNCHANGED request
          /\ window' = window
      BY <1>3 DEF vars, inventory, locals
    <2>2. /\ Action' = Action /\ (TwoSlots' <=> TwoSlots)
          /\ Resolve(Action.source)' = Resolve(Action.source)
          /\ Resolve(Action.destination)' = Resolve(Action.destination)
      BY <2>1, ResolveKept
    <2>3. Away' <=> Away
      BY <2>1 DEF Away
    <2> QED BY <2>1, <2>2, <2>3 DEF Resolved, SourceResolved, DestinationResolved, SourceSupported, Unsupported
  <1>4. CASE StartAction /\ pc' \in {"resolveSource", "validateSource"} /\ UNCHANGED request
    <2>1. Action' = Action /\ (TwoSlots' <=> TwoSlots)
      BY <1>4 DEF Action, TwoSlots
    <2>2. pc' = "validateSource" => Action.type = "mine"
      BY <1>4 DEF StartAction
    <2>3. pc' = "validateSource" => ~TwoSlots
      BY <2>2 DEF TwoSlots
    <2> QED BY <1>4, <2>1, <2>2, <2>3 DEF Resolved, SourceResolved, DestinationResolved, SourceSupported
  <1>5. CASE /\ \/ ResolveSource \/ ResolveDestination \/ ValidateSource \/ ValidateDestination
                \/ PlanTransfer \/ PlanSwap \/ PlanDrop
             /\ ~Reject /\ ~Panic /\ ~Away /\ pc # "click"
             /\ UNCHANGED <<inventory, affected, request, before, disturbed>>
    <2>1. window' = window /\ UNCHANGED request /\ disturbed' = disturbed
      BY <1>5 DEF inventory
    <2>2. /\ Action' = Action /\ (TwoSlots' <=> TwoSlots)
          /\ Resolve(Action.source)' = Resolve(Action.source)
          /\ Resolve(Action.destination)' = Resolve(Action.destination)
      BY <2>1, ResolveKept
    <2>3. SourceResolved /\ DestinationResolved /\ SourceSupported
      BY <1>5 DEF Resolved
    <2> DEFINE rs == Resolve(Action.source)
               rd == Resolve(Action.destination)
    <2>4. /\ rs' = rs /\ rd' = rd
      BY <2>2
    <2>5. /\ SourceResolved' <=>
                (pc' \in {"resolveDestination", "validateSource", "validateDestination", "plan", "click"}
                 /\ Action.type # "mine" => source' = rs)
          /\ DestinationResolved' <=>
                (pc' \in {"validateSource", "validateDestination", "plan", "click"} /\ TwoSlots =>
                    destination' = rd /\ destination' # Unsupported)
          /\ SourceSupported' <=>
                (pc' \in {"validateSource", "validateDestination", "plan", "click"}
                 /\ Action.type # "mine" => source' # Unsupported)
      BY <2>2, <2>4 DEF SourceResolved, DestinationResolved, SourceSupported, Unsupported
    <2>6. /\ (pc \in {"resolveDestination", "validateSource", "validateDestination", "plan", "click"}
                 /\ Action.type # "mine" => source = rs)
          /\ (pc \in {"validateSource", "validateDestination", "plan", "click"} /\ TwoSlots =>
                    destination = rd /\ destination # Unsupported)
          /\ (pc \in {"validateSource", "validateDestination", "plan", "click"}
                 /\ Action.type # "mine" => source # Unsupported)
      BY <2>3 DEF SourceResolved, DestinationResolved, SourceSupported
    <2>7. TwoSlots => Action.type # "mine"
      BY DEF TwoSlots
    <2>8. \/ /\ pc = "resolveSource" /\ Action.type # "mine"
             /\ source' = rs /\ destination' = destination
             /\ \/ TwoSlots /\ pc' = "resolveDestination"
                \/ ~TwoSlots /\ source' # Unsupported /\ pc' = "validateSource"
          \/ /\ pc = "resolveDestination" /\ TwoSlots
             /\ source' = source /\ destination' = rd
             /\ source' # Unsupported /\ destination' # Unsupported
             /\ pc' = "validateSource"
          \/ /\ pc = "validateSource"
             /\ source' = source /\ destination' = destination
             /\ \/ TwoSlots /\ pc' = "validateDestination"
                \/ ~TwoSlots /\ pc' \in {"plan", "next"}
          \/ /\ pc = "validateDestination" /\ TwoSlots
             /\ source' = source /\ destination' = destination /\ pc' = "plan"
          \/ /\ pc = "plan"
             /\ source' = source /\ destination' = destination /\ pc' = "click"
      BY <1>5, ResolvingSteps
    <2> HIDE DEF rs, rd
    <2>9. SourceResolved' /\ DestinationResolved' /\ SourceSupported'
      BY <2>5, <2>6, <2>7, <2>8
    <2> QED BY <2>9 DEF Resolved
  <1> QED BY <1>1, <1>2, <1>3, <1>4, <1>5, TwoKinds, NoClickSteps

\* While the copies agree, what is validated is what the clicks will take.
LEMMA ValidatedIsSimulated ==
    ASSUME InventoryTyped, CopiesAgree, NEW slot \in SimSlots \cup {Cursor}
    PROVE  ValidatedItem(slot) = ItemAt(Now, slot)
  <1>1. CASE slot = Cursor
    BY <1>1 DEF ValidatedItem, ItemAt, Now
  <1>2. CASE slot # Cursor /\ window = NoWindow
    <2>1. slot \in PlayerSlots /\ SimItems = playerItems /\ DOMAIN playerItems = PlayerSlots
      BY <1>2, SimPlaces DEF SimSlots, InventoryTyped
    <2> QED BY <1>2, <2>1 DEF ValidatedItem, ItemAt, Now
  <1>3. CASE slot # Cursor /\ window # NoWindow
    <2>1. slot \in MenuSlots(window.size) /\ slot \in SimSlots /\ DOMAIN window.items = MenuSlots(window.size)
      BY <1>3 DEF SimSlots, CopiesAgree
    <2>2. SimItems[slot] = IF slot >= window.size THEN playerItems[PlayerSlot(slot, window.size)]
                           ELSE window.items[slot]
      BY <1>3, <2>1, SimTyped
    <2>3. slot >= window.size => playerItems[PlayerSlot(slot, window.size)] = window.items[slot]
      <3>1. window.size \in Nat
        BY WindowFacts
      <3>2. slot >= window.size => PlayerSlot(slot, window.size) \in Storage
              /\ MenuSlot(PlayerSlot(slot, window.size), window.size) = slot
        BY <2>1, <3>1, MenuLayout
      <3> QED BY <1>3, <3>2 DEF CopiesAgree
    <2>4. ValidatedItem(slot) = window.items[slot]
      BY <1>3, <2>1 DEF ValidatedItem
    <2>5. ItemAt(Now, slot) = SimItems[slot]
      BY <1>3 DEF ItemAt, Now
    <2> QED BY <2>2, <2>3, <2>4, <2>5
  <1> QED BY <1>1, <1>2, <1>3

\* The stacks of the inventory the action began with are those the client named.
SourceNamed ==
    pc \in {"validateDestination", "plan", "click"} => Names(Action.source, ItemAt(before, source))
DestinationNamed ==
    pc \in {"plan", "click"} /\ TwoSlots => Names(Action.destination, ItemAt(before, destination))
Named == ~Away => SourceNamed /\ DestinationNamed

\* Every step keeps the stacks of the action the named ones.
LEMMA NamedKept ==
    ASSUME Typed, IDsDistinct, Untouched, Resolved, CopiesAgree, Named, [Next]_vars
    PROVE  Named'
  <1>0. InventoryTyped /\ RequestTyped /\ ActionStarted
    BY DEF Typed
  <1>1. CASE \/ ClickOutside \/ ClickItem \/ ClickDrops \/ MoveToHotbar \/ UNCHANGED vars
    <2>1. /\ pc' = pc /\ disturbed' = disturbed
          /\ source' = source /\ destination' = destination /\ request' = request /\ before' = before
      BY <1>1, ClicksStand DEF vars, locals
    <2>2. Action' = Action /\ (TwoSlots' <=> TwoSlots) /\ (Away' <=> Away)
      BY <2>1 DEF Action, TwoSlots, Away
    <2>3. ItemAt(before, source)' = ItemAt(before, source)
          /\ ItemAt(before, destination)' = ItemAt(before, destination)
      BY <2>1 DEF ItemAt, Cursor
    <2> QED BY <2>1, <2>2, <2>3 DEF Named, SourceNamed, DestinationNamed, Names
  <1>2. CASE Away'
    BY <1>2 DEF Named
  <1>4. CASE pc' \in {"resolveSource", "validateSource"}
    BY <1>4 DEF Named, SourceNamed, DestinationNamed
  <1>5. CASE /\ \/ ResolveSource \/ ResolveDestination \/ ValidateSource \/ ValidateDestination
                \/ PlanTransfer \/ PlanSwap \/ PlanDrop
             /\ ~Reject /\ ~Panic /\ ~Away /\ pc # "click"
             /\ UNCHANGED <<inventory, affected, request, before, disturbed>>
    <2>1. request' = request /\ before' = before /\ before = Now
      BY <1>5 DEF Untouched
    <2>2. Action' = Action /\ (TwoSlots' <=> TwoSlots)
      BY <2>1 DEF Action, TwoSlots
    <2>3. /\ SourceResolved /\ DestinationResolved /\ SourceSupported
          /\ SourceNamed /\ DestinationNamed
      BY <1>5 DEF Resolved, Named
    <2>4. \/ pc' = "resolveDestination"
          \/ pc' = "validateSource"
          \/ /\ pc = "validateSource" /\ Valid(Action.source, source)
             /\ source' = source /\ destination' = destination
             /\ \/ TwoSlots /\ pc' = "validateDestination"
                \/ ~TwoSlots /\ pc' \in {"plan", "next"}
          \/ /\ pc = "validateDestination" /\ TwoSlots /\ Valid(Action.destination, destination)
             /\ source' = source /\ destination' = destination /\ pc' = "plan"
          \/ /\ pc = "plan"
             /\ source' = source /\ destination' = destination /\ pc' = "click"
      BY <1>5, ResolvingSteps
    <2>5. CASE pc' = "resolveDestination" \/ pc' = "validateSource"
      BY <2>5 DEF Named, SourceNamed, DestinationNamed
    <2>6. CASE source' = source /\ destination' = destination
      <3>1. ItemAt(before, source)' = ItemAt(before, source)
            /\ ItemAt(before, destination)' = ItemAt(before, destination)
        BY <2>1, <2>6 DEF ItemAt, Cursor
      <3>2. CASE pc = "validateSource" /\ Valid(Action.source, source)
                 /\ (\/ TwoSlots /\ pc' = "validateDestination"
                     \/ ~TwoSlots /\ pc' \in {"plan", "next"})
        <4>1. CASE pc' # "next" /\ Action.type # "mine"
          <5>1. source \in SimSlots \cup {Cursor}
            <6>1. Action.source \in Refs
              BY <1>0, <3>2, ActionFacts DEF ActionStarted
            <6>2. source = Resolve(Action.source) /\ source # Unsupported
              BY <2>3, <3>2, <4>1 DEF SourceResolved, SourceSupported
            <6> QED BY <1>0, <6>1, <6>2, ResolveTyped
          <5>2. ValidatedItem(source) = ItemAt(before, source)
            BY <1>0, <2>1, <5>1, ValidatedIsSimulated
          <5>3. Names(Action.source, ItemAt(before, source))
            BY <3>2, <5>2 DEF Valid, Names
          <5>4. SourceNamed'
            BY <2>2, <3>1, <5>3 DEF SourceNamed, Names
          <5>5. DestinationNamed'
            BY <2>2, <3>2 DEF DestinationNamed
          <5> QED BY <5>4, <5>5 DEF Named
        <4>2. CASE pc' = "next"
          BY <4>2 DEF Named, SourceNamed, DestinationNamed
        <4>3. CASE Action.type = "mine" /\ pc' # "next"
          <5>1. pc' = "plan"
            BY <3>2, <4>3 DEF TwoSlots
          <5>2. ActionStarted'
            BY InventoryStep DEF Typed
          <5> QED BY <2>2, <4>3, <5>1, <5>2 DEF ActionStarted
        <4> QED BY <4>1, <4>2, <4>3
      <3>3. CASE pc = "validateDestination" /\ TwoSlots /\ Valid(Action.destination, destination)
                 /\ pc' = "plan"
        <4>1. destination \in SimSlots \cup {Cursor}
          <5>1. Action.destination \in Refs
            BY <1>0, <3>3, ActionFacts DEF TwoSlots
          <5>2. destination = Resolve(Action.destination) /\ destination # Unsupported
            BY <2>3, <3>3 DEF DestinationResolved
          <5> QED BY <1>0, <5>1, <5>2, ResolveTyped
        <4>2. ValidatedItem(destination) = ItemAt(before, destination)
          BY <1>0, <2>1, <4>1, ValidatedIsSimulated
        <4>3. Names(Action.destination, ItemAt(before, destination))
          BY <3>3, <4>2 DEF Valid, Names
        <4>4. SourceNamed'
          BY <2>2, <2>3, <3>1, <3>3 DEF SourceNamed, Names
        <4>5. DestinationNamed'
          BY <2>2, <3>1, <4>3 DEF DestinationNamed, Names
        <4> QED BY <4>4, <4>5 DEF Named
      <3>4. CASE pc = "plan" /\ pc' = "click"
        BY <2>2, <2>3, <3>1, <3>4 DEF Named, SourceNamed, DestinationNamed, Names
      <3> QED BY <2>4, <2>5, <3>2, <3>3, <3>4
    <2> QED BY <2>4, <2>5, <2>6
  <1> QED BY <1>1, <1>2, <1>4, <1>5, TwoKinds, NoClickSteps

\* Clicks are sent only for the stacks the client named, as long as the two copies of
\* the storage that an open window makes agree.
THEOREM ClicksNamed == Spec /\ []CopiesAgree => []ClicksNamedStacks
  <1> DEFINE IInv == Typed /\ IDsDistinct /\ Reported /\ Untouched /\ Resolved /\ Named
  <1>1. Init => IInv
    <2> SUFFICES ASSUME Init PROVE IInv
      OBVIOUS
    <2>1. Away
      BY DEF Init, Away
    <2> QED BY <2>1, TypedInit, IDsInit DEF Reported, Untouched, Resolved, Named
  <1>2. IInv /\ CopiesAgree /\ [Next]_vars => IInv'
    BY InventoryStep, ReportedKept, ResolvedKept, NamedKept
  <1>3. IInv => ClicksNamedStacks
    BY DEF Named, SourceNamed, DestinationNamed, Away, ClicksNamedStacks
  <1> QED BY <1>1, <1>2, <1>3, PTL DEF Spec

\* Without packets of the server the copies agree.
LEMMA CopiesKept ==
    ASSUME Typed, IDsDistinct, CopiesAgree, MaxUpdates = 0, updates = 0, [Next]_vars
    PROVE  CopiesAgree' /\ updates' = 0
  <1>0. InventoryTyped
    BY DEF Typed
  <1>1. CASE ClickOutside \/ ClickItem \/ ClickDrops \/ MoveToHotbar
    BY <1>1, ClicksStand
  <1>2. ASSUME UNCHANGED inventory
        PROVE  CopiesAgree'
    BY <1>2 DEF inventory, CopiesAgree, NoWindow, MenuSlots, Storage, MenuSlot
  <1>3. CASE UNCHANGED vars \/ StartAction \/ NextAction \/ ClickMissesInventory
             \/ \E n \in 0..MaxActions : \E actions \in [1..n -> Offered] : ReadRequest(actions)
    <2>1. UNCHANGED inventory /\ updates' = updates
      BY <1>3 DEF vars, StartAction, NextAction, ClickMissesInventory, Reject, ReadRequest
    <2> QED BY <1>2, <2>1
  <1>4. CASE ResolveSource \/ ResolveDestination \/ ValidateSource \/ ValidateDestination
    <2>1. UNCHANGED inventory /\ updates' = updates
      BY <1>4 DEF ResolveSource, ResolveDestination, ValidateSource, ValidateDestination, Reject, Continue
    <2> QED BY <1>2, <2>1
  <1>5. CASE PlanTransfer \/ PlanSwap \/ PlanDrop
    <2>1. Reject \/ Panic \/ \E planned \in Seq(PlannedClick) : Plan(planned)
      BY <1>5, Planning
    <2>2. UNCHANGED inventory /\ updates' = updates
      BY <2>1 DEF Reject, Panic, Continue, Plan
    <2> QED BY <1>2, <2>2
  <1>6. CASE ClientClosesWindow
    BY <1>6 DEF ClientClosesWindow, CopiesAgree
  <1>7. CASE PumpJava
    <2>1. updates < MaxUpdates
      BY <1>7 DEF PumpJava, JavaUpdate, WindowOpens, WindowCloses, PlayerContent,
         WindowContent, WindowSlot, SetPlayerSlot, SetCursor
    <2> QED BY <2>1
  <1> QED BY <1>1, <1>3, <1>4, <1>5, <1>6, <1>7, TwoKinds

\* A session begins with both copies of the storage the same.
LEMMA CopiesInit ==
    ASSUME Init
    PROVE  CopiesAgree
  <1> DEFINE top == PlayerSize + Max(WindowSizes \cup {0})
  <1>1. PICK all \in Contents(0..top) : \E w \in WindowIDs \cup {0}, n \in WindowSizes :
             LET player == [p \in PlayerSlots |-> all[p]]
                 extra == [s \in 0..n - 1 |-> all[PlayerSize + 1 + s]]
             IN /\ playerItems = player
                /\ cursorItem = all[PlayerSize]
                /\ IF w = 0 THEN window = NoWindow /\ \A s \in 0..n - 1 : extra[s] = Empty
                   ELSE window = [id |-> w, size |-> n, items |->
                          [s \in MenuSlots(n) |-> IF s < n THEN extra[s] ELSE player[PlayerSlot(s, n)]]]
    BY DEF Init
  <1>2. SUFFICES ASSUME window # NoWindow
                 PROVE  /\ DOMAIN window.items = MenuSlots(window.size)
                        /\ \A p \in Storage : window.items[MenuSlot(p, window.size)] = playerItems[p]
    BY DEF CopiesAgree
  <1>3. PICK w \in WindowIDs \cup {0}, n \in WindowSizes :
               /\ playerItems = [p \in PlayerSlots |-> all[p]]
               /\ window = [id |-> w, size |-> n, items |->
                          [s \in MenuSlots(n) |-> IF s < n THEN [t \in 0..n - 1 |-> all[PlayerSize + 1 + t]][s]
                                                  ELSE [p \in PlayerSlots |-> all[p]][PlayerSlot(s, n)]]]
    BY <1>1, <1>2
  <1>4. n \in Nat
    BY StackRequestsAssumption
  <1>5. /\ window.size = n /\ DOMAIN window.items = MenuSlots(n)
        /\ \A s \in MenuSlots(n) : s >= n => window.items[s] = playerItems[PlayerSlot(s, n)]
    <2>1. \A s \in MenuSlots(n) : s \in Nat
      BY <1>4, MenuLayout
    <2> QED BY <1>3, <1>4, <2>1
  <1> QED BY <1>4, <1>5, MenuLayout

\* As long as the server sends nothing about the inventory, clicks are sent only for
\* the stacks the client named.
THEOREM UndisturbedClicksNamed == MaxUpdates = 0 => (Spec => []ClicksNamedStacks)
  <1> SUFFICES ASSUME MaxUpdates = 0 PROVE Spec => []ClicksNamedStacks
    OBVIOUS
  <1> DEFINE Copies == CopiesAgree /\ updates = 0 /\ Typed /\ IDsDistinct
  <1>1. Init => Copies
    <2>1. Init => updates = 0
      BY DEF Init
    <2> QED BY <2>1, TypedInit, IDsInit, CopiesInit
  <1>2. Copies /\ [Next]_vars => Copies'
    BY CopiesKept, InventoryStep
  <1>3. Spec => []CopiesAgree
    <2>1. Copies => CopiesAgree
      OBVIOUS
    <2> HIDE DEF Copies
    <2> QED BY <1>1, <1>2, <2>1, PTL DEF Spec
  <1> QED BY <1>3, ClicksNamed, PTL

(***************************************************************************)
(* Repeated clicks                                                         *)
(***************************************************************************)
LEMMA TimesFacts ==
    ASSUME NEW n \in Nat, NEW click
    PROVE  /\ n = 0 => Times(n, click) = <<>>
           /\ n # 0 => /\ Times(n, click) # <<>> /\ Head(Times(n, click)) = click
                       /\ Tail(Times(n, click)) = Times(n - 1, click)
  <1>1. Times(n, click) \in Seq({click}) /\ Len(Times(n, click)) = n
    BY DEF Times
  <1>2. n = 0 => Times(n, click) = <<>>
    BY <1>1, EmptySeq
  <1>3. ASSUME n # 0
        PROVE  /\ Times(n, click) # <<>> /\ Head(Times(n, click)) = click
               /\ Tail(Times(n, click)) = Times(n - 1, click)
    <2>1. Times(n, click) # <<>>
      BY <1>1, <1>3, EmptySeq
    <2>2. /\ Tail(Times(n, click)) \in Seq({click})
          /\ Head(Times(n, click)) \in {click}
          /\ Len(Tail(Times(n, click))) = n - 1
      BY <1>1, <2>1, Popped
    <2>3. Times(n - 1, click) \in Seq({click}) /\ Len(Times(n - 1, click)) = n - 1
      BY <1>3 DEF Times
    <2>4. ASSUME NEW i \in 1..n - 1
          PROVE  Tail(Times(n, click))[i] = Times(n - 1, click)[i]
      BY <2>2, <2>3, ElementOfSeq
    <2>5. Tail(Times(n, click)) = Times(n - 1, click)
      BY <2>2, <2>3, <2>4, SeqEqual
    <2> QED BY <2>1, <2>2, <2>5
  <1> QED BY <1>2, <1>3

\* One click, then others.
LEMMA FirstOf ==
    ASSUME NEW S, NEW first \in S, NEW rest \in Seq(S)
    PROVE  /\ <<first>> \o rest # <<>>
           /\ Head(<<first>> \o rest) = first /\ Tail(<<first>> \o rest) = rest
  <1>1. <<first>> \in Seq(S) /\ Len(<<first>>) = 1 /\ <<first>>[1] = first
    OBVIOUS
  <1>2. /\ <<first>> \o rest \in Seq(S) /\ Len(<<first>> \o rest) = 1 + Len(rest)
        /\ DOMAIN rest = 1..Len(rest) /\ Len(rest) \in Nat
        /\ (<<first>> \o rest)[1] = first
        /\ \A i \in 1..Len(rest) : (<<first>> \o rest)[1 + i] = rest[i]
    BY <1>1, Joined
  <1>3. <<first>> \o rest # <<>>
    BY <1>2, EmptySeq
  <1>4. /\ Tail(<<first>> \o rest) \in Seq(S) /\ Len(Tail(<<first>> \o rest)) = Len(rest)
        /\ Head(<<first>> \o rest) = first
        /\ \A i \in 1..Len(rest) : Tail(<<first>> \o rest)[i] = (<<first>> \o rest)[i + 1]
    <2>1. /\ Tail(<<first>> \o rest) \in Seq(S)
          /\ Head(<<first>> \o rest) = (<<first>> \o rest)[1]
          /\ Len(Tail(<<first>> \o rest)) = Len(<<first>> \o rest) - 1
          /\ \A i \in DOMAIN Tail(<<first>> \o rest) :
                Tail(<<first>> \o rest)[i] = (<<first>> \o rest)[i + 1]
      BY <1>2, <1>3, Popped
    <2>2. DOMAIN Tail(<<first>> \o rest) = 1..Len(Tail(<<first>> \o rest))
      BY <2>1
    <2> QED BY <1>2, <2>1, <2>2
  <1>5. Tail(<<first>> \o rest) = rest
    <2>1. \A i \in 1..Len(rest) : Tail(<<first>> \o rest)[i] = rest[i]
      BY <1>2, <1>4
    <2> QED BY <1>4, <2>1, SeqEqual
  <1> QED BY <1>3, <1>4, <1>5

\* Repeated clicks, then one more.
LEMMA TimesThenOne ==
    ASSUME NEW S, NEW n \in Nat, NEW click \in S, NEW last \in S
    PROVE  /\ n = 0 => Times(n, click) \o <<last>> = <<last>>
           /\ Times(n, click) \o <<last>> # <<>>
           /\ n # 0 => /\ Head(Times(n, click) \o <<last>>) = click
                       /\ Tail(Times(n, click) \o <<last>>) = Times(n - 1, click) \o <<last>>
  <1>1. Times(n, click) \in Seq(S) /\ Len(Times(n, click)) = n
    BY DEF Times
  <1>2. ASSUME n = 0
        PROVE  Times(n, click) \o <<last>> = <<last>>
    <2>1. Times(n, click) = <<>>
      BY <1>2, TimesFacts
    <2>2. <<last>> \in Seq(S)
      OBVIOUS
    <2>3. <<>> \o <<last>> = <<last>>
      BY <2>2, ConcatEmptySeq
    <2> QED BY <2>1, <2>3
  <1>3. ASSUME n # 0
        PROVE  /\ Times(n, click) \o <<last>> = <<click>> \o (Times(n - 1, click) \o <<last>>)
               /\ Times(n - 1, click) \o <<last>> \in Seq(S)
    <2>1. Times(n - 1, click) \in Seq(S) /\ Len(Times(n - 1, click)) = n - 1
          /\ \A i \in 1..n - 1 : Times(n - 1, click)[i] = click
      BY <1>3 DEF Times
    <2>2. \A i \in 1..n : Times(n, click)[i] = click
      BY DEF Times
    <2>3. Times(n - 1, click) \o <<last>> \in Seq(S) /\ <<last>> \in Seq(S)
      BY <2>1
    <2>4. Times(n, click) \o <<last>> = <<click>> \o (Times(n - 1, click) \o <<last>>)
      <3> DEFINE l == Times(n, click) \o <<last>>
                 r == <<click>> \o (Times(n - 1, click) \o <<last>>)
      <3>1. /\ l \in Seq(S) /\ Len(l) = n + 1
            /\ \A i \in 1..n + 1 : l[i] = IF i <= n THEN click ELSE last
        BY <1>1, <2>2
      <3>2. /\ r \in Seq(S) /\ Len(r) = n + 1
            /\ \A i \in 1..n + 1 : r[i] = IF i <= n THEN click ELSE last
        BY <1>3, <2>1
      <3> HIDE DEF l, r
      <3>3. l = r
        BY <3>1, <3>2, SeqEqual
      <3> QED BY <3>3 DEF l, r
    <2> QED BY <2>3, <2>4
  <1>4. <<last>> # <<>>
    OBVIOUS
  <1>5. ASSUME n # 0
        PROVE  /\ Times(n, click) \o <<last>> # <<>>
               /\ Head(Times(n, click) \o <<last>>) = click
               /\ Tail(Times(n, click) \o <<last>>) = Times(n - 1, click) \o <<last>>
    <2> DEFINE rest == Times(n - 1, click) \o <<last>>
    <2>1. Times(n, click) \o <<last>> = <<click>> \o rest /\ rest \in Seq(S)
      BY <1>3, <1>5
    <2> HIDE DEF rest
    <2>2. /\ <<click>> \o rest # <<>>
          /\ Head(<<click>> \o rest) = click /\ Tail(<<click>> \o rest) = rest
      BY <2>1, FirstOf
    <2>3. /\ Times(n, click) \o <<last>> # <<>>
          /\ Head(Times(n, click) \o <<last>>) = click
          /\ Tail(Times(n, click) \o <<last>>) = rest
      BY <2>1, <2>2
    <2> QED BY <2>3 DEF rest
  <1> QED BY <1>2, <1>4, <1>5

(***************************************************************************)
(* What one click moves, IDs aside                                         *)
(***************************************************************************)
\* The item is a stack of m of this kind, or none if m is 0.
Holds(item, kind, m) == item.count = m /\ (m # 0 => item.kind = kind)

\* An item has a kind exactly if it has a count.
LEMMA KindOfItem ==
    ASSUME NEW item \in Item
    PROVE  /\ IsEmpty(item) <=> item.count = 0
           /\ item.count \in Nat
           /\ item.count = 0 => item.kind = Air
           /\ item.count # 0 => item.kind # Air /\ item.id \in Nat \ {0} /\ item.kind \in Kinds
  <1>1. CASE item \in Stack
    BY <1>1, ClicksAssumption DEF Stack, IsEmpty
  <1>2. CASE item = Empty
    BY <1>2 DEF Empty, IsEmpty
  <1> QED BY <1>1, <1>2 DEF Item

\* The cursor and the slot change places.
LEMMA LeftExchanges ==
    ASSUME NEW slot \in Item, NEW cursor \in Item, ~SameItem(slot, cursor)
    PROVE  LeftClick(slot, cursor) = [slot |-> cursor, cursor |-> slot]
  BY DEF LeftClick

\* All of the cursor goes to a slot that has room for it.
LEMMA LeftPutsAll ==
    ASSUME NEW slot \in Item, NEW cursor \in Item, NEW kind, NEW m \in Nat \ {0}, NEW d \in Nat,
           Holds(cursor, kind, m), Holds(slot, kind, d), d = 0 \/ d + m <= MaxStack
    PROVE  LET after == LeftClick(slot, cursor)
           IN  /\ Holds(after.slot, kind, d + m)
               /\ Holds(after.cursor, kind, 0)
  <1>1. CASE d = 0
    <2>1. ~SameItem(slot, cursor)
      BY <1>1, KindOfItem DEF Holds, SameItem
    <2>2. LeftClick(slot, cursor) = [slot |-> cursor, cursor |-> slot]
      BY <2>1, LeftExchanges
    <2> QED BY <1>1, <2>2 DEF Holds
  <1>2. CASE d # 0
    <2>1. SameItem(slot, cursor)
      BY <1>2, KindOfItem DEF Holds, SameItem
    <2> DEFINE space == MaxStack - Least(slot.count, MaxStack)
               move == Least(space, cursor.count)
    <2>2. MaxStack \in Nat /\ slot.count = d /\ cursor.count = m
      BY ClicksAssumption DEF Holds
    <2>3. move = m
      BY <1>2, <2>2 DEF Least
    <2> HIDE DEF space
    <2>4. LeftClick(slot, cursor) =
             [slot |-> [slot EXCEPT !.count = slot.count + move], cursor |-> Subtract(cursor, move)]
      BY <2>1 DEF LeftClick, space
    <2> HIDE DEF move
    <2>5. Subtract(cursor, move) = Empty
      BY <2>2, <2>3, SubtractItem
    <2>6. slot = [kind |-> slot.kind, count |-> slot.count, id |-> slot.id]
      BY ItemFacts
    <2>7. [slot EXCEPT !.count = slot.count + move].count = d + m
          /\ [slot EXCEPT !.count = slot.count + move].kind = slot.kind
      BY <2>2, <2>3, <2>6
    <2>8. Empty.count = 0
      BY DEF Empty
    <2>9. slot.kind = kind
      BY <1>2 DEF Holds
    <2>10. /\ Holds([slot EXCEPT !.count = slot.count + move], kind, d + m)
           /\ Holds(Subtract(cursor, move), kind, 0)
      BY <2>5, <2>7, <2>8, <2>9 DEF Holds
    <2> QED BY <2>4, <2>10
  <1> QED BY <1>1, <1>2

\* The larger half of a stack goes to the empty cursor.
LEMMA RightTakesHalf ==
    ASSUME NEW slot \in Item, NEW cursor \in Item, NEW kind, NEW c \in Nat \ {0}, NEW n \in Nat,
           NEW id, cursor.count = 0, Holds(slot, kind, c), EqualsHalf(n, c), n # c
    PROVE  LET after == RightClick(slot, cursor, id)
           IN  /\ Holds(after.slot, kind, c - n)
               /\ Holds(after.cursor, kind, n)
  <1>1. IsEmpty(cursor) /\ ~IsEmpty(slot) /\ slot.count = c /\ slot.kind = kind
    BY KindOfItem DEF Holds
  <1>2. slot = [kind |-> slot.kind, count |-> slot.count, id |-> slot.id]
    BY ItemFacts
  <1>3. n = c - c \div 2
    BY DEF EqualsHalf
  <1>4. RightClick(slot, cursor, id) =
           [slot |-> Subtract(slot, n), cursor |-> [slot EXCEPT !.count = n, !.id = id]]
    BY <1>1, <1>3 DEF RightClick, SplitHalf
  <1>5. n < c
    <2>1. c \div 2 \in Nat
      OBVIOUS
    <2> QED BY <1>3, <2>1
  <1>6. Subtract(slot, n) = [kind |-> slot.kind, count |-> slot.count - n, id |-> slot.id]
    BY <1>1, <1>5, SubtractItem
  <1>7. [slot EXCEPT !.count = n, !.id = id].count = n /\ [slot EXCEPT !.count = n, !.id = id].kind = slot.kind
    BY <1>2
  <1>8. Holds([slot EXCEPT !.count = n, !.id = id], kind, n)
    BY <1>1, <1>7 DEF Holds
  <1>9. Holds(Subtract(slot, n), kind, c - n)
    BY <1>1, <1>6 DEF Holds
  <1> QED BY <1>4, <1>8, <1>9

\* One item of the cursor goes to a slot that has room for it.
LEMMA RightPutsOne ==
    ASSUME NEW slot \in Item, NEW cursor \in Item, NEW kind, NEW m \in Nat \ {0}, NEW d \in Nat,
           NEW id, Holds(cursor, kind, m), Holds(slot, kind, d), d < MaxStack
    PROVE  LET after == RightClick(slot, cursor, id)
           IN  /\ Holds(after.slot, kind, d + 1)
               /\ Holds(after.cursor, kind, m - 1)
  <1>1. ~IsEmpty(cursor) /\ cursor.count = m /\ cursor.kind = kind /\ slot.count = d
    BY KindOfItem DEF Holds
  <1>2. /\ slot = [kind |-> slot.kind, count |-> slot.count, id |-> slot.id]
        /\ cursor = [kind |-> cursor.kind, count |-> cursor.count, id |-> cursor.id]
    BY ItemFacts
  <1>3. Holds(Subtract(cursor, 1), kind, m - 1)
    <2>1. CASE m = 1
      <3>1. Subtract(cursor, 1) = Empty
        BY <1>1, <2>1, SubtractItem
      <3> QED BY <2>1, <3>1 DEF Holds, Empty
    <2>2. CASE m # 1
      <3>1. Subtract(cursor, 1) = [kind |-> cursor.kind, count |-> cursor.count - 1, id |-> cursor.id]
        <4>1. cursor.count = m /\ m \in Nat /\ 1 < m
          BY <1>1, <2>2
        <4>2. 1 \in Nat /\ 1 < cursor.count
          BY <4>1
        <4> QED BY <4>2, SubtractItem, Zenon
      <3> QED BY <1>1, <3>1 DEF Holds
    <2> QED BY <2>1, <2>2
  <1>4. CASE d = 0
    <2>1. IsEmpty(slot)
      BY <1>1, <1>4, KindOfItem
    <2>2. RightClick(slot, cursor, id) =
             [slot |-> [cursor EXCEPT !.count = 1, !.id = id], cursor |-> Subtract(cursor, 1)]
      BY <1>1, <2>1 DEF RightClick, SplitOne
    <2>3. /\ [cursor EXCEPT !.count = 1, !.id = id].count = 1
          /\ [cursor EXCEPT !.count = 1, !.id = id].kind = kind
      BY <1>1, <1>2
    <2>4. Holds([cursor EXCEPT !.count = 1, !.id = id], kind, d + 1)
      BY <1>4, <2>3 DEF Holds
    <2> QED BY <1>3, <2>2, <2>4
  <1>5. CASE d # 0
    <2>1. ~IsEmpty(slot) /\ SameItem(slot, cursor) /\ slot.kind = kind
      BY <1>1, <1>5, KindOfItem DEF SameItem, Holds
    <2>2. RightClick(slot, cursor, id) =
             [slot |-> [slot EXCEPT !.count = slot.count + 1], cursor |-> Subtract(cursor, 1)]
      BY <1>1, <2>1 DEF RightClick, AddOne
    <2>3. /\ [slot EXCEPT !.count = slot.count + 1].count = d + 1
          /\ [slot EXCEPT !.count = slot.count + 1].kind = kind
      BY <1>1, <1>2, <2>1
    <2>4. Holds([slot EXCEPT !.count = slot.count + 1], kind, d + 1)
      BY <2>3 DEF Holds
    <2> QED BY <1>3, <2>2, <2>4
  <1> QED BY <1>4, <1>5

(***************************************************************************)
(* An inventory and a cursor, and one click on them                        *)
(***************************************************************************)
Inventory(slots) == [items : [slots -> Item], cursor : Item]

\* What the click makes of an inventory: the slot and the cursor hold the result.
Becomes(inv, slot, result, after) ==
    /\ after.items = [inv.items EXCEPT ![slot] = result.slot]
    /\ after.cursor = result.cursor

\* A click leaves every place but the slot and the cursor.
LEMMA BecomesFacts ==
    ASSUME NEW D, Cursor \notin D, NEW inv \in Inventory(D), NEW slot \in D, NEW result, NEW after,
           Becomes(inv, slot, result, after)
    PROVE  /\ ItemAt(after, slot) = result.slot
           /\ ItemAt(after, Cursor) = result.cursor
           /\ \A s \in D : s # slot => ItemAt(after, s) = ItemAt(inv, s)
  BY DEF Becomes, ItemAt, Inventory

\* Every place holds an item.
LEMMA PlacesTyped ==
    ASSUME NEW D, Cursor \notin D, NEW inv \in Inventory(D), NEW s \in D \cup {Cursor}
    PROVE  ItemAt(inv, s) \in Item
  BY DEF Inventory, ItemAt

\* The places that hold what they held, IDs aside.
Rest(inv, b, D, slots) == \A s \in (D \cup {Cursor}) \ slots : Same(ItemAt(inv, s), ItemAt(b, s))

\* A click of a request on a slot.
ClicksSlot(inv, click, after) ==
    \/ /\ click.op = "left"
       /\ Becomes(inv, click.slot, LeftClick(inv.items[click.slot], inv.cursor), after)
    \/ /\ click.op = "right"
       /\ \E id : Becomes(inv, click.slot, RightClick(inv.items[click.slot], inv.cursor, id), after)

\* A left or right click on slot changes slot and cursor only.
LEMMA LeftAt ==
    ASSUME NEW D, Cursor \notin D, NEW inv \in Inventory(D), NEW slot \in D, NEW after,
           ClicksSlot(inv, Click("left", slot), after)
    PROVE  LET result == LeftClick(ItemAt(inv, slot), ItemAt(inv, Cursor))
           IN  /\ ItemAt(after, slot) = result.slot
               /\ ItemAt(after, Cursor) = result.cursor
               /\ \A s \in D : s # slot => ItemAt(after, s) = ItemAt(inv, s)
  <1>1. Becomes(inv, slot, LeftClick(inv.items[slot], inv.cursor), after)
    BY DEF ClicksSlot, Click
  <1>2. ItemAt(inv, slot) = inv.items[slot] /\ ItemAt(inv, Cursor) = inv.cursor
    BY DEF ItemAt
  <1> QED BY <1>1, <1>2, BecomesFacts

\* A right click on a slot, whatever ID the stack it splits off receives.
LEMMA RightAt ==
    ASSUME NEW D, Cursor \notin D, NEW inv \in Inventory(D), NEW slot \in D, NEW after,
           ClicksSlot(inv, Click("right", slot), after)
    PROVE  \E id :
           LET result == RightClick(ItemAt(inv, slot), ItemAt(inv, Cursor), id)
           IN  /\ ItemAt(after, slot) = result.slot
               /\ ItemAt(after, Cursor) = result.cursor
               /\ \A s \in D : s # slot => ItemAt(after, s) = ItemAt(inv, s)
  <1>1. PICK id : Becomes(inv, slot, RightClick(inv.items[slot], inv.cursor, id), after)
    BY DEF ClicksSlot, Click
  <1>2. ItemAt(inv, slot) = inv.items[slot] /\ ItemAt(inv, Cursor) = inv.cursor
    BY DEF ItemAt
  <1> QED BY <1>1, <1>2, BecomesFacts

(***************************************************************************)
(* The stages of a transfer                                                *)
(***************************************************************************)
\* Source and destination hold so many of the kind that moves; the rest holds what it
\* held.
Split(inv, b, src, dst, left, put, D) ==
    /\ Holds(ItemAt(inv, src), ItemAt(b, src).kind, left)
    /\ Holds(ItemAt(inv, dst), ItemAt(b, src).kind, put)
    /\ Rest(inv, b, D, {src, dst})

\* The same with so many in the cursor on their way from one slot to the other.
Carried(inv, b, src, dst, left, carried, put, D) ==
    /\ Holds(ItemAt(inv, src), ItemAt(b, src).kind, left)
    /\ Holds(ItemAt(inv, Cursor), ItemAt(b, src).kind, carried)
    /\ Holds(ItemAt(inv, dst), ItemAt(b, src).kind, put)
    /\ Rest(inv, b, D, {src, dst, Cursor})

\* A transfer of n that the inventory b allows.
TransferFits(b, src, dst, n, D) ==
    /\ src \in D \cup {Cursor} /\ dst \in D \cup {Cursor} /\ src # dst
    /\ n \in Nat \ {0} /\ n <= ItemAt(b, src).count /\ ItemAt(b, src).count <= MaxStack
    /\ \/ ItemAt(b, dst).count = 0
       \/ ItemAt(b, dst).kind = ItemAt(b, src).kind /\ ItemAt(b, dst).count + n <= MaxStack
    /\ src # Cursor => ItemAt(b, Cursor).count = 0

PlannedTransfer(b, src, dst, n) ==
    IF dst = Cursor THEN TakeClicks(n, src, ItemAt(b, src).count)
    ELSE IF src = Cursor THEN PlaceClicks(n, dst, ItemAt(b, src).count)
    ELSE MoveClicks(n, src, dst, ItemAt(b, src).count)

\* A take puts back what is too much, a place puts down one by one, a move carries
\* the items over at once or puts them down one by one.
Taking(inv, cl, b, src, dst, n, D) ==
    /\ dst = Cursor
    /\ \E k \in Nat :
          /\ k <= ItemAt(b, src).count - n /\ cl = Times(k, Click("right", src))
          /\ Split(inv, b, src, dst, ItemAt(b, src).count - n - k, n + k, D)
Placing(inv, cl, b, src, dst, n, D) ==
    /\ src = Cursor
    /\ \E k \in Nat :
          /\ k <= n /\ cl = Times(k, Click("right", dst))
          /\ Split(inv, b, src, dst, ItemAt(b, src).count - n + k, ItemAt(b, dst).count + n - k, D)
Carrying(inv, cl, b, src, dst, n, D) ==
    /\ src # Cursor /\ dst # Cursor /\ cl = <<Click("left", dst)>>
    /\ Carried(inv, b, src, dst, ItemAt(b, src).count - n, n, ItemAt(b, dst).count, D)
Spreading(inv, cl, b, src, dst, n, D) ==
    /\ src # Cursor /\ dst # Cursor /\ n # ItemAt(b, src).count
    /\ \E k \in Nat :
          /\ k <= n /\ cl = Times(k, Click("right", dst)) \o <<Click("left", src)>>
          /\ Carried(inv, b, src, dst, 0, ItemAt(b, src).count - n + k, ItemAt(b, dst).count + n - k, D)
Transferred(inv, cl, b, src, dst, n, D) ==
    cl = <<>> /\ Split(inv, b, src, dst, ItemAt(b, src).count - n, ItemAt(b, dst).count + n, D)

TransferStage(inv, cl, b, src, dst, n, D) ==
    \/ inv = b /\ cl = PlannedTransfer(b, src, dst, n)
    \/ Taking(inv, cl, b, src, dst, n, D)
    \/ Placing(inv, cl, b, src, dst, n, D)
    \/ Carrying(inv, cl, b, src, dst, n, D)
    \/ Spreading(inv, cl, b, src, dst, n, D)
    \/ Transferred(inv, cl, b, src, dst, n, D)

\* The next click is on a slot, and the stage after it follows.
TransferGoes(inv, cl, b, src, dst, n, D) ==
    \E slot \in D :
       /\ Head(cl) = Click("left", slot) \/ Head(cl) = Click("right", slot)
       /\ \A after \in Inventory(D) :
             ClicksSlot(inv, Head(cl), after) => TransferStage(after, Tail(cl), b, src, dst, n, D)

\* The numbers of a transfer.
LEMMA TransferNumbers ==
    ASSUME NEW D, Cursor \notin D, NEW b \in Inventory(D), NEW src, NEW dst, NEW n,
           TransferFits(b, src, dst, n, D)
    PROVE  /\ n \in Nat \ {0} /\ n <= ItemAt(b, src).count /\ ItemAt(b, src).count <= MaxStack
           /\ ItemAt(b, src).count \in Nat \ {0} /\ ItemAt(b, dst).count \in Nat /\ MaxStack \in Nat \ {0}
           /\ ItemAt(b, dst).count = 0 \/ ItemAt(b, dst).count + n <= MaxStack
           /\ Holds(ItemAt(b, src), ItemAt(b, src).kind, ItemAt(b, src).count)
           /\ Holds(ItemAt(b, dst), ItemAt(b, src).kind, ItemAt(b, dst).count)
           /\ src # Cursor => src \in D /\ Holds(ItemAt(b, Cursor), ItemAt(b, src).kind, 0)
           /\ dst # Cursor => dst \in D
           /\ dst = Cursor => ItemAt(b, dst).count = 0
           /\ ItemAt(b, src) \in Item /\ ItemAt(b, dst) \in Item /\ ItemAt(b, Cursor) \in Item
  <1>1. ItemAt(b, src) \in Item /\ ItemAt(b, dst) \in Item /\ ItemAt(b, Cursor) \in Item
    BY PlacesTyped DEF TransferFits
  <1>2. ItemAt(b, src).count \in Nat /\ ItemAt(b, dst).count \in Nat /\ MaxStack \in Nat \ {0}
    BY <1>1, ItemFacts, ClicksAssumption
  <1> QED BY <1>1, <1>2 DEF TransferFits, Holds

\* The three places a click of a transfer can change.
LEMMA RestFacts ==
    ASSUME NEW D, NEW inv, NEW b, NEW after, NEW slot, NEW slots, NEW more,
           Rest(inv, b, D, slots), slots \subseteq more, slot \in more, Cursor \in more,
           \A s \in D : s # slot => ItemAt(after, s) = ItemAt(inv, s)
    PROVE  Rest(after, b, D, more)
  BY DEF Rest, Same

\* The first click of a take.
LEMMA TakeBegins ==
    ASSUME NEW D, Cursor \notin D, NEW b \in Inventory(D), NEW src, NEW dst, NEW n,
           TransferFits(b, src, dst, n, D), dst = Cursor
    PROVE  TransferGoes(b, PlannedTransfer(b, src, dst, n), b, src, dst, n, D)
  <1> DEFINE c == ItemAt(b, src).count
             kind == ItemAt(b, src).kind
             cl == PlannedTransfer(b, src, dst, n)
  <1>1. /\ n \in Nat \ {0} /\ n <= c /\ c \in Nat \ {0} /\ ItemAt(b, dst).count = 0
        /\ Holds(ItemAt(b, src), kind, c) /\ Holds(ItemAt(b, Cursor), kind, 0)
        /\ src \in D /\ ItemAt(b, src) \in Item /\ ItemAt(b, Cursor) \in Item
    <2>1. src # Cursor
      BY DEF TransferFits
    <2> QED BY <2>1, TransferNumbers
  <1>2. Rest(b, b, D, {src, dst})
    BY DEF Rest, Same
  \* After the first click k right clicks remain.
  <1>3. ASSUME NEW after \in Inventory(D), NEW k \in Nat, k <= c - n,
               Tail(cl) = Times(k, Click("right", src)),
               Holds(ItemAt(after, src), kind, c - n - k), Holds(ItemAt(after, Cursor), kind, n + k),
               \A s \in D : s # src => ItemAt(after, s) = ItemAt(b, s)
        PROVE  TransferStage(after, Tail(cl), b, src, dst, n, D)
    <2>1. Rest(after, b, D, {src, dst})
      BY <1>2, <1>3, RestFacts
    <2>2. Split(after, b, src, dst, c - n - k, n + k, D)
      BY <1>3, <2>1 DEF Split
    <2>3. Taking(after, Tail(cl), b, src, dst, n, D)
      BY <1>3, <2>2 DEF Taking
    <2> QED BY <2>3 DEF TransferStage
  <1>4. cl = TakeClicks(n, src, c)
    BY DEF PlannedTransfer
  <1>5. CASE n # c /\ EqualsHalf(n, c)
    <2>1. cl = <<Click("right", src)>>
      BY <1>4, <1>5 DEF TakeClicks
    <2>2. Head(cl) = Click("right", src) /\ Tail(cl) = Times(0, Click("right", src))
      BY <2>1, TimesFacts
    <2>3. ASSUME NEW after \in Inventory(D), ClicksSlot(b, Click("right", src), after)
          PROVE  TransferStage(after, Tail(cl), b, src, dst, n, D)
      <3>1. PICK id :
               LET result == RightClick(ItemAt(b, src), ItemAt(b, Cursor), id)
               IN  /\ ItemAt(after, src) = result.slot
                   /\ ItemAt(after, Cursor) = result.cursor
                   /\ \A s \in D : s # src => ItemAt(after, s) = ItemAt(b, s)
        BY <1>1, <2>3, RightAt
      <3>2. Holds(ItemAt(after, src), kind, c - n) /\ Holds(ItemAt(after, Cursor), kind, n)
        <4>1. ItemAt(b, Cursor).count = 0
          BY <1>1 DEF Holds
        <4> HIDE DEF c, kind
        <4> QED BY <1>1, <1>5, <3>1, <4>1, RightTakesHalf
      <3>3. c - n - 0 = c - n /\ n + 0 = n /\ 0 <= c - n
        BY <1>1
      <3> HIDE DEF c, kind, cl
      <3> QED BY <1>1, <1>3, <2>2, <3>1, <3>2, <3>3
    <2> QED BY <1>1, <2>2, <2>3 DEF TransferGoes
  <1>6. CASE n = c \/ ~EqualsHalf(n, c)
    <2>1. Head(cl) = Click("left", src) /\ Tail(cl) = Times(c - n, Click("right", src))
      <3>1. CASE n = c
        <4>1. cl = <<Click("left", src)>>
          BY <1>4, <3>1 DEF TakeClicks
        <4> QED BY <1>1, <3>1, <4>1, TimesFacts
      <3>2. CASE n # c
        <4>1. cl = <<Click("left", src)>> \o Times(c - n, Click("right", src))
          BY <1>4, <1>6, <3>2 DEF TakeClicks
        <4>2. c - n \in Nat
          BY <1>1
        <4> DEFINE S == {Click("left", src), Click("right", src)}
        <4>3. Times(c - n, Click("right", src)) \in Seq(S)
          BY <4>2 DEF Times
        <4> HIDE DEF c, cl
        <4> QED BY <4>1, <4>3, FirstOf
      <3> QED BY <3>1, <3>2
    <2>3. ASSUME NEW after \in Inventory(D), ClicksSlot(b, Click("left", src), after)
          PROVE  TransferStage(after, Tail(cl), b, src, dst, n, D)
      <3>1. LET result == LeftClick(ItemAt(b, src), ItemAt(b, Cursor))
            IN  /\ ItemAt(after, src) = result.slot
                /\ ItemAt(after, Cursor) = result.cursor
                /\ \A s \in D : s # src => ItemAt(after, s) = ItemAt(b, s)
        BY <1>1, <2>3, LeftAt
      <3>2. ItemAt(after, src) = ItemAt(b, Cursor) /\ ItemAt(after, Cursor) = ItemAt(b, src)
        <4>1. ~SameItem(ItemAt(b, src), ItemAt(b, Cursor))
          BY <1>1, KindOfItem DEF Holds, SameItem
        <4> QED BY <1>1, <3>1, <4>1, LeftExchanges
      <3>3. c - n \in Nat /\ c - n - (c - n) = 0 /\ n + (c - n) = c /\ c - n <= c - n
        BY <1>1
      <3>4. Holds(ItemAt(after, src), kind, c - n - (c - n)) /\ Holds(ItemAt(after, Cursor), kind, n + (c - n))
        BY <1>1, <3>2, <3>3
      <3> DEFINE k == c - n
      <3>5. /\ k \in Nat /\ k <= c - n /\ Tail(cl) = Times(k, Click("right", src))
            /\ Holds(ItemAt(after, src), kind, c - n - k) /\ Holds(ItemAt(after, Cursor), kind, n + k)
        BY <2>1, <3>3, <3>4
      <3> HIDE DEF c, kind, cl, k
      <3> QED BY <1>3, <3>1, <3>5
    <2> QED BY <1>1, <2>1, <2>3 DEF TransferGoes
  <1> QED BY <1>5, <1>6

\* One of the right clicks that put back what a take has too much.
LEMMA TakeGoes ==
    ASSUME NEW D, Cursor \notin D, NEW b \in Inventory(D), NEW src, NEW dst, NEW n,
           TransferFits(b, src, dst, n, D), NEW inv \in Inventory(D), NEW cl, cl # <<>>,
           Taking(inv, cl, b, src, dst, n, D)
    PROVE  TransferGoes(inv, cl, b, src, dst, n, D)
  <1> DEFINE c == ItemAt(b, src).count
             kind == ItemAt(b, src).kind
  <1>1. /\ n \in Nat \ {0} /\ n <= c /\ c \in Nat \ {0} /\ c <= MaxStack /\ MaxStack \in Nat
        /\ dst = Cursor /\ src \in D
    <2>1. dst = Cursor /\ src # Cursor
      BY DEF TransferFits, Taking
    <2> QED BY <2>1, TransferNumbers
  <1>2. PICK k \in Nat :
          /\ k <= c - n /\ cl = Times(k, Click("right", src))
          /\ Split(inv, b, src, dst, c - n - k, n + k, D)
    BY DEF Taking
  <1>3. k # 0
    BY <1>2, TimesFacts
  <1>4. Head(cl) = Click("right", src) /\ Tail(cl) = Times(k - 1, Click("right", src))
    BY <1>2, <1>3, TimesFacts
  <1>5. /\ Holds(ItemAt(inv, src), kind, c - n - k) /\ Holds(ItemAt(inv, Cursor), kind, n + k)
        /\ Rest(inv, b, D, {src, dst})
    BY <1>1, <1>2 DEF Split
  <1>6. ItemAt(inv, src) \in Item /\ ItemAt(inv, Cursor) \in Item
    BY <1>1, PlacesTyped
  <1>7. ASSUME NEW after \in Inventory(D), ClicksSlot(inv, Click("right", src), after)
        PROVE  TransferStage(after, Tail(cl), b, src, dst, n, D)
    <2>1. PICK id :
             LET result == RightClick(ItemAt(inv, src), ItemAt(inv, Cursor), id)
             IN  /\ ItemAt(after, src) = result.slot
                 /\ ItemAt(after, Cursor) = result.cursor
                 /\ \A s \in D : s # src => ItemAt(after, s) = ItemAt(inv, s)
      BY <1>1, <1>7, RightAt
    <2>2. /\ n + k \in Nat \ {0} /\ c - n - k \in Nat /\ c - n - k < MaxStack
          /\ k - 1 \in Nat /\ k - 1 <= c - n
      BY <1>1, <1>2, <1>3
    <2> HIDE DEF c, kind
    <2>3. /\ Holds(ItemAt(after, src), kind, c - n - (k - 1))
          /\ Holds(ItemAt(after, Cursor), kind, n + (k - 1))
      <3> DEFINE m == n + k
                 e == c - n - k
      <3>1. /\ m \in Nat \ {0} /\ e \in Nat /\ e < MaxStack
            /\ Holds(ItemAt(inv, src), kind, e) /\ Holds(ItemAt(inv, Cursor), kind, m)
            /\ e + 1 = c - n - (k - 1) /\ m - 1 = n + (k - 1)
        BY <1>1, <1>2, <1>5, <2>2 DEF c
      <3> HIDE DEF m, e
      <3>2. Holds(ItemAt(after, src), kind, e + 1) /\ Holds(ItemAt(after, Cursor), kind, m - 1)
        BY <1>6, <2>1, <3>1, RightPutsOne
      <3> QED BY <3>1, <3>2
    <2>4. Rest(after, b, D, {src, dst})
      BY <1>1, <1>5, <2>1, RestFacts
    <2>5. Split(after, b, src, dst, c - n - (k - 1), n + (k - 1), D)
      BY <1>1, <2>2, <2>3, <2>4 DEF Split, kind
    <2>6. Taking(after, Tail(cl), b, src, dst, n, D)
      BY <1>1, <1>4, <2>2, <2>5 DEF Taking, c
    <2> QED BY <2>6 DEF TransferStage
  <1> QED BY <1>1, <1>4, <1>7 DEF TransferGoes

\* One of the right clicks that put down what is placed.
LEMMA PlaceGoes ==
    ASSUME NEW D, Cursor \notin D, NEW b \in Inventory(D), NEW src, NEW dst, NEW n,
           TransferFits(b, src, dst, n, D), NEW inv \in Inventory(D), NEW cl, cl # <<>>,
           Placing(inv, cl, b, src, dst, n, D)
    PROVE  TransferGoes(inv, cl, b, src, dst, n, D)
  <1> DEFINE c == ItemAt(b, src).count
             d == ItemAt(b, dst).count
             kind == ItemAt(b, src).kind
  <1>1. /\ n \in Nat \ {0} /\ n <= c /\ c \in Nat \ {0} /\ c <= MaxStack /\ MaxStack \in Nat
        /\ d \in Nat /\ (d = 0 \/ d + n <= MaxStack)
        /\ src = Cursor /\ dst \in D
    <2>1. src = Cursor /\ dst # Cursor
      BY DEF TransferFits, Placing
    <2> QED BY <2>1, TransferNumbers
  <1>2. PICK k \in Nat :
          /\ k <= n /\ cl = Times(k, Click("right", dst))
          /\ Split(inv, b, src, dst, c - n + k, d + n - k, D)
    BY DEF Placing
  <1>3. k # 0
    BY <1>2, TimesFacts
  <1>4. Head(cl) = Click("right", dst) /\ Tail(cl) = Times(k - 1, Click("right", dst))
    BY <1>2, <1>3, TimesFacts
  <1>5. /\ Holds(ItemAt(inv, Cursor), kind, c - n + k) /\ Holds(ItemAt(inv, dst), kind, d + n - k)
        /\ Rest(inv, b, D, {src, dst})
    BY <1>1, <1>2 DEF Split
  <1>6. ItemAt(inv, dst) \in Item /\ ItemAt(inv, Cursor) \in Item
    BY <1>1, PlacesTyped
  <1>7. ASSUME NEW after \in Inventory(D), ClicksSlot(inv, Click("right", dst), after)
        PROVE  TransferStage(after, Tail(cl), b, src, dst, n, D)
    <2>1. PICK id :
             LET result == RightClick(ItemAt(inv, dst), ItemAt(inv, Cursor), id)
             IN  /\ ItemAt(after, dst) = result.slot
                 /\ ItemAt(after, Cursor) = result.cursor
                 /\ \A s \in D : s # dst => ItemAt(after, s) = ItemAt(inv, s)
      BY <1>1, <1>7, RightAt
    <2>2. /\ c - n + k \in Nat \ {0} /\ d + n - k \in Nat /\ d + n - k < MaxStack
          /\ k - 1 \in Nat /\ k - 1 <= n
      BY <1>1, <1>2, <1>3
    <2> HIDE DEF c, d, kind
    <2>3. /\ Holds(ItemAt(after, dst), kind, d + n - (k - 1))
          /\ Holds(ItemAt(after, Cursor), kind, c - n + (k - 1))
      <3> DEFINE m == c - n + k
                 e == d + n - k
      <3>1. /\ m \in Nat \ {0} /\ e \in Nat /\ e < MaxStack
            /\ Holds(ItemAt(inv, dst), kind, e) /\ Holds(ItemAt(inv, Cursor), kind, m)
        BY <1>5, <2>2
      <3>3. e + 1 = d + n - (k - 1) /\ m - 1 = c - n + (k - 1)
        <4>1. c \in Nat /\ n \in Nat /\ d \in Nat /\ k \in Nat
          BY <1>1 DEF c, d
        <4> QED BY <4>1
      <3> HIDE DEF m, e
      <3>2. Holds(ItemAt(after, dst), kind, e + 1) /\ Holds(ItemAt(after, Cursor), kind, m - 1)
        BY <1>6, <2>1, <3>1, RightPutsOne
      <3> QED BY <3>2, <3>3
    <2>4. Rest(after, b, D, {src, dst})
      BY <1>1, <1>5, <2>1, RestFacts
    <2>5. Split(after, b, src, dst, c - n + (k - 1), d + n - (k - 1), D)
      BY <1>1, <2>2, <2>3, <2>4 DEF Split, kind
    <2>6. Placing(after, Tail(cl), b, src, dst, n, D)
      BY <1>1, <1>4, <2>2, <2>5 DEF Placing, c, d
    <2> QED BY <2>6 DEF TransferStage
  <1> QED BY <1>1, <1>4, <1>7 DEF TransferGoes

\* The first click of a place: all at once, or the first of several.
LEMMA PlaceBegins ==
    ASSUME NEW D, Cursor \notin D, NEW b \in Inventory(D), NEW src, NEW dst, NEW n,
           TransferFits(b, src, dst, n, D), src = Cursor
    PROVE  TransferGoes(b, PlannedTransfer(b, src, dst, n), b, src, dst, n, D)
  <1> DEFINE c == ItemAt(b, src).count
             d == ItemAt(b, dst).count
             kind == ItemAt(b, src).kind
             cl == PlannedTransfer(b, src, dst, n)
  <1>1. /\ n \in Nat \ {0} /\ n <= c /\ c \in Nat \ {0}
        /\ d \in Nat /\ (d = 0 \/ d + n <= MaxStack) /\ dst \in D /\ dst # Cursor
        /\ Holds(ItemAt(b, Cursor), kind, c) /\ Holds(ItemAt(b, dst), kind, d)
        /\ ItemAt(b, dst) \in Item /\ ItemAt(b, Cursor) \in Item
    <2>1. dst # Cursor
      BY DEF TransferFits
    <2> QED BY <2>1, TransferNumbers
  <1>2. Rest(b, b, D, {src, dst})
    BY DEF Rest, Same
  <1>3. cl = PlaceClicks(n, dst, c)
    BY <1>1 DEF PlannedTransfer
  <1>4. CASE n = c
    <2>1. cl = <<Click("left", dst)>>
      BY <1>3, <1>4 DEF PlaceClicks
    <2>2. Head(cl) = Click("left", dst) /\ Tail(cl) = <<>>
      BY <2>1
    <2>3. ASSUME NEW after \in Inventory(D), ClicksSlot(b, Click("left", dst), after)
          PROVE  TransferStage(after, Tail(cl), b, src, dst, n, D)
      <3>1. LET result == LeftClick(ItemAt(b, dst), ItemAt(b, Cursor))
            IN  /\ ItemAt(after, dst) = result.slot
                /\ ItemAt(after, Cursor) = result.cursor
                /\ \A s \in D : s # dst => ItemAt(after, s) = ItemAt(b, s)
        BY <1>1, <2>3, LeftAt
      <3> HIDE DEF c, d, kind
      <3>2. Holds(ItemAt(after, dst), kind, d + n) /\ Holds(ItemAt(after, Cursor), kind, 0)
        BY <1>1, <1>4, <3>1, LeftPutsAll
      <3>3. Rest(after, b, D, {src, dst})
        BY <1>2, <3>1, RestFacts
      <3>4. c - n = 0
        BY <1>1, <1>4
      <3>5. Split(after, b, src, dst, c - n, d + n, D)
        BY <3>2, <3>3, <3>4 DEF Split, kind
      <3>6. Transferred(after, Tail(cl), b, src, dst, n, D)
        BY <2>2, <3>5 DEF Transferred, c, d
      <3> QED BY <3>6 DEF TransferStage
    <2> QED BY <1>1, <2>2, <2>3 DEF TransferGoes
  <1>5. CASE n # c
    <2>1. cl = Times(n, Click("right", dst)) /\ n <= n
      BY <1>1, <1>3, <1>5 DEF PlaceClicks
    <2>2. c - n + n = c /\ d + n - n = d
      BY <1>1
    <2>3. Split(b, b, src, dst, c - n + n, d + n - n, D)
      BY <1>1, <1>2, <2>2 DEF Split
    <2>4. Placing(b, cl, b, src, dst, n, D)
      BY <1>1, <2>1, <2>3 DEF Placing
    <2>5. cl # <<>>
      BY <1>1, <2>1, TimesFacts
    <2> QED BY <2>4, <2>5, PlaceGoes
  <1> QED BY <1>4, <1>5

\* The last click of a move that carries the items over at once.
LEMMA CarryGoes ==
    ASSUME NEW D, Cursor \notin D, NEW b \in Inventory(D), NEW src, NEW dst, NEW n,
           TransferFits(b, src, dst, n, D), NEW inv \in Inventory(D), NEW cl,
           Carrying(inv, cl, b, src, dst, n, D)
    PROVE  TransferGoes(inv, cl, b, src, dst, n, D)
  <1> DEFINE c == ItemAt(b, src).count
             d == ItemAt(b, dst).count
             kind == ItemAt(b, src).kind
  <1>1. /\ n \in Nat \ {0} /\ n <= c /\ c \in Nat \ {0}
        /\ d \in Nat /\ (d = 0 \/ d + n <= MaxStack)
        /\ src \in D /\ dst \in D /\ Holds(ItemAt(b, Cursor), kind, 0)
        /\ ItemAt(b, Cursor) \in Item /\ src # dst
    <2>1. src # Cursor /\ dst # Cursor /\ src # dst
      BY DEF TransferFits, Carrying
    <2> QED BY <2>1, TransferNumbers
  <1>2. /\ cl = <<Click("left", dst)>>
        /\ Carried(inv, b, src, dst, c - n, n, d, D)
    BY DEF Carrying
  <1>3. Head(cl) = Click("left", dst) /\ Tail(cl) = <<>>
    BY <1>2
  <1>4. /\ Holds(ItemAt(inv, src), kind, c - n) /\ Holds(ItemAt(inv, Cursor), kind, n)
        /\ Holds(ItemAt(inv, dst), kind, d) /\ Rest(inv, b, D, {src, dst, Cursor})
    BY <1>2 DEF Carried
  <1>5. ItemAt(inv, dst) \in Item /\ ItemAt(inv, Cursor) \in Item
    BY <1>1, PlacesTyped
  <1>6. ASSUME NEW after \in Inventory(D), ClicksSlot(inv, Click("left", dst), after)
        PROVE  TransferStage(after, Tail(cl), b, src, dst, n, D)
    <2>1. LET result == LeftClick(ItemAt(inv, dst), ItemAt(inv, Cursor))
          IN  /\ ItemAt(after, dst) = result.slot
              /\ ItemAt(after, Cursor) = result.cursor
              /\ \A s \in D : s # dst => ItemAt(after, s) = ItemAt(inv, s)
      BY <1>1, <1>6, LeftAt
    <2> HIDE DEF c, d, kind
    <2>2. Holds(ItemAt(after, dst), kind, d + n) /\ Holds(ItemAt(after, Cursor), kind, 0)
      BY <1>1, <1>4, <1>5, <2>1, LeftPutsAll
    <2>3. ItemAt(after, src) = ItemAt(inv, src)
      BY <1>1, <2>1
    <2>4. Rest(after, b, D, {src, dst})
      <3>1. Rest(after, b, D, {src, dst, Cursor})
        BY <1>4, <2>1, RestFacts
      <3>2. ItemAt(after, Cursor) \in Item
        BY PlacesTyped
      <3>3. Same(ItemAt(after, Cursor), ItemAt(b, Cursor))
        BY <1>1, <2>2, <3>2, KindOfItem DEF Holds, Same
      <3> QED BY <3>1, <3>3 DEF Rest
    <2>5. Split(after, b, src, dst, c - n, d + n, D)
      BY <1>4, <2>2, <2>3, <2>4 DEF Split, kind
    <2>6. Transferred(after, Tail(cl), b, src, dst, n, D)
      BY <1>3, <2>5 DEF Transferred, c, d
    <2> QED BY <2>6 DEF TransferStage
  <1> QED BY <1>1, <1>3, <1>6 DEF TransferGoes

\* A click of a move that puts the items down one by one, the last one puts back
\* the others.
LEMMA SpreadGoes ==
    ASSUME NEW D, Cursor \notin D, NEW b \in Inventory(D), NEW src, NEW dst, NEW n,
           TransferFits(b, src, dst, n, D), NEW inv \in Inventory(D), NEW cl,
           Spreading(inv, cl, b, src, dst, n, D)
    PROVE  TransferGoes(inv, cl, b, src, dst, n, D)
  <1> DEFINE c == ItemAt(b, src).count
             d == ItemAt(b, dst).count
             kind == ItemAt(b, src).kind
             right == Click("right", dst)
             left == Click("left", src)
  <1>1. /\ n \in Nat \ {0} /\ n <= c /\ n # c /\ c \in Nat \ {0} /\ c <= MaxStack /\ MaxStack \in Nat
        /\ d \in Nat /\ (d = 0 \/ d + n <= MaxStack)
        /\ src \in D /\ dst \in D /\ Holds(ItemAt(b, Cursor), kind, 0)
        /\ ItemAt(b, Cursor) \in Item /\ src # dst /\ src # Cursor /\ dst # Cursor
    <2>1. src # Cursor /\ dst # Cursor /\ src # dst /\ n # c
      BY DEF TransferFits, Spreading
    <2> QED BY <2>1, TransferNumbers
  <1>2. PICK k \in Nat :
          /\ k <= n /\ cl = Times(k, right) \o <<left>>
          /\ Carried(inv, b, src, dst, 0, c - n + k, d + n - k, D)
    BY DEF Spreading
  <1>3. /\ Holds(ItemAt(inv, src), kind, 0) /\ Holds(ItemAt(inv, Cursor), kind, c - n + k)
        /\ Holds(ItemAt(inv, dst), kind, d + n - k) /\ Rest(inv, b, D, {src, dst, Cursor})
    BY <1>2 DEF Carried
  <1>4. ItemAt(inv, src) \in Item /\ ItemAt(inv, dst) \in Item /\ ItemAt(inv, Cursor) \in Item
    BY <1>1, PlacesTyped
  <1> DEFINE S == {left, right}
  <1>5. CASE k = 0
    <2>1. cl = <<left>>
      <3>1. left \in S /\ right \in S
        OBVIOUS
      <3>2. k = 0 => Times(k, right) \o <<left>> = <<left>>
        <4> HIDE DEF S, left, right
        <4> QED BY <3>1, TimesThenOne, ZenonT(60)
      <3> HIDE DEF left, right
      <3> QED BY <1>2, <1>5, <3>2
    <2>2. Head(cl) = left /\ Tail(cl) = <<>>
      BY <2>1
    <2>3. ASSUME NEW after \in Inventory(D), ClicksSlot(inv, Click("left", src), after)
          PROVE  TransferStage(after, Tail(cl), b, src, dst, n, D)
      <3>1. LET result == LeftClick(ItemAt(inv, src), ItemAt(inv, Cursor))
            IN  /\ ItemAt(after, src) = result.slot
                /\ ItemAt(after, Cursor) = result.cursor
                /\ \A s \in D : s # src => ItemAt(after, s) = ItemAt(inv, s)
        BY <1>1, <2>3, LeftAt
      <3>2. ItemAt(after, src) = ItemAt(inv, Cursor) /\ ItemAt(after, Cursor) = ItemAt(inv, src)
        <4>1. ~SameItem(ItemAt(inv, src), ItemAt(inv, Cursor))
          BY <1>3, <1>4, KindOfItem DEF Holds, SameItem
        <4> QED BY <1>4, <3>1, <4>1, LeftExchanges
      <3>3. ItemAt(after, dst) = ItemAt(inv, dst)
        BY <1>1, <3>1
      <3>4. c - n + k = c - n /\ d + n - k = d + n
        BY <1>1, <1>5
      <3> HIDE DEF c, d, kind
      <3>5. Rest(after, b, D, {src, dst})
        <4>1. Rest(after, b, D, {src, dst, Cursor})
          BY <1>3, <3>1, RestFacts
        <4>2. Same(ItemAt(after, Cursor), ItemAt(b, Cursor))
          BY <1>1, <1>3, <1>4, <3>2, KindOfItem DEF Holds, Same
        <4> QED BY <4>1, <4>2 DEF Rest
      <3>6. Split(after, b, src, dst, c - n, d + n, D)
        BY <1>3, <3>2, <3>3, <3>4, <3>5 DEF Split, kind
      <3>7. Transferred(after, Tail(cl), b, src, dst, n, D)
        BY <2>2, <3>6 DEF Transferred, c, d
      <3> QED BY <3>7 DEF TransferStage
    <2> QED BY <1>1, <2>2, <2>3 DEF TransferGoes
  <1>6. CASE k # 0
    <2>1. Head(cl) = right /\ Tail(cl) = Times(k - 1, right) \o <<left>>
      <3>1. left \in S /\ right \in S
        OBVIOUS
      <3>2. k # 0 => /\ Head(Times(k, right) \o <<left>>) = right
                     /\ Tail(Times(k, right) \o <<left>>) = Times(k - 1, right) \o <<left>>
        <4> HIDE DEF S, left, right
        <4> QED BY <3>1, TimesThenOne, ZenonT(60)
      <3> HIDE DEF left, right
      <3> QED BY <1>2, <1>6, <3>2
    <2>3. ASSUME NEW after \in Inventory(D), ClicksSlot(inv, Click("right", dst), after)
          PROVE  TransferStage(after, Tail(cl), b, src, dst, n, D)
      <3>1. PICK id :
               LET result == RightClick(ItemAt(inv, dst), ItemAt(inv, Cursor), id)
               IN  /\ ItemAt(after, dst) = result.slot
                   /\ ItemAt(after, Cursor) = result.cursor
                   /\ \A s \in D : s # dst => ItemAt(after, s) = ItemAt(inv, s)
        BY <1>1, <2>3, RightAt
      <3>2. /\ c - n + k \in Nat \ {0} /\ d + n - k \in Nat /\ d + n - k < MaxStack
            /\ k - 1 \in Nat /\ k - 1 <= n
        BY <1>1, <1>2, <1>6, SMTT(60)
      <3> HIDE DEF c, d, kind
      <3>3. /\ Holds(ItemAt(after, dst), kind, d + n - (k - 1))
            /\ Holds(ItemAt(after, Cursor), kind, c - n + (k - 1))
        <4> DEFINE m == c - n + k
                   e == d + n - k
        <4>1. /\ m \in Nat \ {0} /\ e \in Nat /\ e < MaxStack
              /\ Holds(ItemAt(inv, dst), kind, e) /\ Holds(ItemAt(inv, Cursor), kind, m)
              /\ e + 1 = d + n - (k - 1) /\ m - 1 = c - n + (k - 1)
          BY <1>1, <1>2, <1>3, <3>2, SMTT(60) DEF c, d
        <4> HIDE DEF m, e
        <4>2. Holds(ItemAt(after, dst), kind, e + 1) /\ Holds(ItemAt(after, Cursor), kind, m - 1)
          BY <1>4, <3>1, <4>1, RightPutsOne
        <4> QED BY <4>1, <4>2
      <3>4. ItemAt(after, src) = ItemAt(inv, src)
        BY <1>1, <3>1
      <3>5. Rest(after, b, D, {src, dst, Cursor})
        BY <1>3, <3>1, RestFacts
      <3>6. Carried(after, b, src, dst, 0, c - n + (k - 1), d + n - (k - 1), D)
        BY <1>3, <3>3, <3>4, <3>5 DEF Carried, kind
      <3> DEFINE j == k - 1
      <3>7. /\ j \in Nat /\ j <= n /\ Tail(cl) = Times(j, Click("right", dst)) \o <<Click("left", src)>>
            /\ Carried(after, b, src, dst, 0, ItemAt(b, src).count - n + j, ItemAt(b, dst).count + n - j, D)
        BY <2>1, <3>2, <3>6 DEF c, d
      <3> HIDE DEF j
      <3>8. Spreading(after, Tail(cl), b, src, dst, n, D)
        BY <1>1, <3>7 DEF Spreading, c
      <3> QED BY <3>8 DEF TransferStage
    <2> QED BY <1>1, <2>1, <2>3 DEF TransferGoes
  <1> QED BY <1>5, <1>6

\* The first click of a move.
LEMMA MoveBegins ==
    ASSUME NEW D, Cursor \notin D, NEW b \in Inventory(D), NEW src, NEW dst, NEW n,
           TransferFits(b, src, dst, n, D), src # Cursor, dst # Cursor
    PROVE  TransferGoes(b, PlannedTransfer(b, src, dst, n), b, src, dst, n, D)
  <1> DEFINE c == ItemAt(b, src).count
             d == ItemAt(b, dst).count
             kind == ItemAt(b, src).kind
             cl == PlannedTransfer(b, src, dst, n)
  <1>1. /\ n \in Nat \ {0} /\ n <= c /\ c \in Nat \ {0} /\ d \in Nat
        /\ src \in D /\ dst \in D /\ src # dst
        /\ Holds(ItemAt(b, src), kind, c) /\ Holds(ItemAt(b, dst), kind, d)
        /\ Holds(ItemAt(b, Cursor), kind, 0)
        /\ ItemAt(b, src) \in Item /\ ItemAt(b, Cursor) \in Item
    <2>1. src # dst
      BY DEF TransferFits
    <2> QED BY <2>1, TransferNumbers
  <1>2. Rest(b, b, D, {src, dst, Cursor})
    BY DEF Rest, Same
  <1>3. cl = MoveClicks(n, src, dst, c)
    BY DEF PlannedTransfer
  <1>4. ASSUME NEW after \in Inventory(D), ClicksSlot(b, Click("left", src), after)
        PROVE  /\ Holds(ItemAt(after, src), kind, 0) /\ Holds(ItemAt(after, Cursor), kind, c)
               /\ Holds(ItemAt(after, dst), kind, d) /\ Rest(after, b, D, {src, dst, Cursor})
    <2>1. LET result == LeftClick(ItemAt(b, src), ItemAt(b, Cursor))
          IN  /\ ItemAt(after, src) = result.slot
              /\ ItemAt(after, Cursor) = result.cursor
              /\ \A s \in D : s # src => ItemAt(after, s) = ItemAt(b, s)
      BY <1>1, <1>4, LeftAt
    <2>2. ItemAt(after, src) = ItemAt(b, Cursor) /\ ItemAt(after, Cursor) = ItemAt(b, src)
      <3>1. ~SameItem(ItemAt(b, src), ItemAt(b, Cursor))
        BY <1>1, KindOfItem DEF Holds, SameItem
      <3> QED BY <1>1, <2>1, <3>1, LeftExchanges
    <2>3. ItemAt(after, dst) = ItemAt(b, dst)
      BY <1>1, <2>1
    <2>4. Rest(after, b, D, {src, dst, Cursor})
      BY <1>2, <2>1, RestFacts
    <2> QED BY <1>1, <2>2, <2>3, <2>4
  <1>5. CASE n = c
    <2>1. cl = <<Click("left", src), Click("left", dst)>>
      BY <1>3, <1>5 DEF MoveClicks
    <2>2. Head(cl) = Click("left", src) /\ Tail(cl) = <<Click("left", dst)>>
      BY <2>1
    <2>3. ASSUME NEW after \in Inventory(D), ClicksSlot(b, Click("left", src), after)
          PROVE  TransferStage(after, Tail(cl), b, src, dst, n, D)
      <3>1. c - n = 0
        BY <1>1, <1>5
      <3>2. Carried(after, b, src, dst, c - n, n, d, D)
        BY <1>4, <1>5, <2>3, <3>1 DEF Carried
      <3>3. Carrying(after, Tail(cl), b, src, dst, n, D)
        BY <2>2, <3>2 DEF Carrying
      <3> QED BY <3>3 DEF TransferStage
    <2> QED BY <1>1, <2>2, <2>3 DEF TransferGoes
  <1>6. CASE n # c /\ EqualsHalf(n, c)
    <2>1. cl = <<Click("right", src), Click("left", dst)>>
      BY <1>3, <1>6 DEF MoveClicks
    <2>2. Head(cl) = Click("right", src) /\ Tail(cl) = <<Click("left", dst)>>
      BY <2>1
    <2>3. ASSUME NEW after \in Inventory(D), ClicksSlot(b, Click("right", src), after)
          PROVE  TransferStage(after, Tail(cl), b, src, dst, n, D)
      <3>1. PICK id :
               LET result == RightClick(ItemAt(b, src), ItemAt(b, Cursor), id)
               IN  /\ ItemAt(after, src) = result.slot
                   /\ ItemAt(after, Cursor) = result.cursor
                   /\ \A s \in D : s # src => ItemAt(after, s) = ItemAt(b, s)
        BY <1>1, <2>3, RightAt
      <3>2. Holds(ItemAt(after, src), kind, c - n) /\ Holds(ItemAt(after, Cursor), kind, n)
        <4>1. ItemAt(b, Cursor).count = 0
          BY <1>1 DEF Holds
        <4> HIDE DEF c, kind
        <4> QED BY <1>1, <1>6, <3>1, <4>1, RightTakesHalf
      <3>3. ItemAt(after, dst) = ItemAt(b, dst)
        BY <1>1, <3>1
      <3>4. Rest(after, b, D, {src, dst, Cursor})
        BY <1>2, <3>1, RestFacts
      <3>5. Carried(after, b, src, dst, c - n, n, d, D)
        BY <1>1, <3>2, <3>3, <3>4 DEF Carried
      <3>6. Carrying(after, Tail(cl), b, src, dst, n, D)
        BY <2>2, <3>5 DEF Carrying
      <3> QED BY <3>6 DEF TransferStage
    <2> QED BY <1>1, <2>2, <2>3 DEF TransferGoes
  <1>7. CASE n # c /\ ~EqualsHalf(n, c)
    <2> DEFINE rest == Times(n, Click("right", dst)) \o <<Click("left", src)>>
               S == {Click("left", src), Click("right", dst)}
    <2>1. Times(n, Click("right", dst)) \in Seq(S) /\ <<Click("left", src)>> \in Seq(S)
      BY <1>1 DEF Times
    <2>2. rest \in Seq(S)
      BY <2>1
    <2>3. cl = <<Click("left", src)>> \o rest
      <3>1. cl = <<Click("left", src)>> \o Times(n, Click("right", dst)) \o <<Click("left", src)>>
        BY <1>3, <1>7 DEF MoveClicks
      <3>2. \A p, q, r \in Seq(S) : (p \o q) \o r = p \o (q \o r)
        BY ConcatAssociative
      <3> QED BY <2>1, <3>1, <3>2
    <2>4. Head(cl) = Click("left", src) /\ Tail(cl) = rest
      <3>1. Click("left", src) \in S
        OBVIOUS
      <3> HIDE DEF rest, S, cl
      <3> QED BY <2>2, <2>3, <3>1, FirstOf
    <2>5. ASSUME NEW after \in Inventory(D), ClicksSlot(b, Click("left", src), after)
          PROVE  TransferStage(after, Tail(cl), b, src, dst, n, D)
      <3>1. c - n + n = c /\ d + n - n = d /\ n <= n /\ n \in Nat
        BY <1>1
      <3>2. Carried(after, b, src, dst, 0, c - n + n, d + n - n, D)
        BY <1>4, <2>5, <3>1 DEF Carried
      <3> HIDE DEF cl
      <3>3. Spreading(after, Tail(cl), b, src, dst, n, D)
        BY <1>7, <2>4, <3>1, <3>2 DEF Spreading
      <3> QED BY <3>3 DEF TransferStage
    <2> QED BY <1>1, <2>4, <2>5 DEF TransferGoes
  <1> QED BY <1>5, <1>6, <1>7

\* A transfer goes on, click by click.
LEMMA TransferStep ==
    ASSUME NEW D, Cursor \notin D, NEW b \in Inventory(D), NEW src, NEW dst, NEW n,
           TransferFits(b, src, dst, n, D), NEW inv \in Inventory(D), NEW cl, cl # <<>>,
           TransferStage(inv, cl, b, src, dst, n, D)
    PROVE  TransferGoes(inv, cl, b, src, dst, n, D)
  <1>1. CASE inv = b /\ cl = PlannedTransfer(b, src, dst, n)
    BY <1>1, TakeBegins, PlaceBegins, MoveBegins
  <1>2. CASE Taking(inv, cl, b, src, dst, n, D)
    BY <1>2, TakeGoes
  <1>3. CASE Placing(inv, cl, b, src, dst, n, D)
    BY <1>3, PlaceGoes
  <1>4. CASE Carrying(inv, cl, b, src, dst, n, D)
    BY <1>4, CarryGoes
  <1>5. CASE Spreading(inv, cl, b, src, dst, n, D)
    BY <1>5, SpreadGoes
  <1>6. CASE Transferred(inv, cl, b, src, dst, n, D)
    BY <1>6 DEF Transferred
  <1> QED BY <1>1, <1>2, <1>3, <1>4, <1>5, <1>6 DEF TransferStage

\* Once its clicks are sent, a transfer has moved n.
LEMMA TransferEnds ==
    ASSUME NEW D, Cursor \notin D, NEW b \in Inventory(D), NEW src, NEW dst, NEW n,
           TransferFits(b, src, dst, n, D), NEW inv \in Inventory(D),
           TransferStage(inv, <<>>, b, src, dst, n, D)
    PROVE  Split(inv, b, src, dst, ItemAt(b, src).count - n, ItemAt(b, dst).count + n, D)
  <1> DEFINE c == ItemAt(b, src).count
             d == ItemAt(b, dst).count
  <1>1. /\ n \in Nat \ {0} /\ n <= c /\ c \in Nat \ {0} /\ d \in Nat
        /\ dst = Cursor => d = 0
    BY TransferNumbers
  <1>2. PlannedTransfer(b, src, dst, n) # <<>>
    <2> DEFINE S == {Click("left", src), Click("right", src), Click("left", dst), Click("right", dst)}
    <2>1. \A k \in Nat, x \in S : Times(k, x) \in Seq(S)
      BY DEF Times
    <2>2. CASE dst = Cursor
      <3>1. c - n \in Nat
        BY <1>1
      <3>2. <<Click("left", src)>> \o Times(c - n, Click("right", src)) # <<>>
        BY <2>1, <3>1, FirstOf
      <3> QED BY <2>2, <3>2 DEF PlannedTransfer, TakeClicks
    <2>3. CASE dst # Cursor /\ src = Cursor
      <3>1. Times(n, Click("right", dst)) # <<>>
        BY <1>1, TimesFacts
      <3> QED BY <2>3, <3>1 DEF PlannedTransfer, PlaceClicks
    <2>4. CASE dst # Cursor /\ src # Cursor
      <3> DEFINE first == <<Click("left", src)>>
                 most == Times(n, Click("right", dst))
      <3>1. first \in Seq(S) /\ most \in Seq(S) /\ Len(first) = 1
        BY <1>1, <2>1
      <3> HIDE DEF first, most, S
      <3>2. /\ first \o most \in Seq(S) /\ Len(first \o most) = 1 + Len(most) /\ Len(most) \in Nat
        BY <3>1, Joined, SMTT(60)
      <3>3. /\ (first \o most) \o first \in Seq(S)
            /\ Len((first \o most) \o first) = 1 + Len(most) + 1
        BY <3>1, <3>2, Joined
      <3>4. (first \o most) \o first # <<>>
        BY <3>2, <3>3, EmptySeq
      <3>5. <<Click("left", src)>> \o Times(n, Click("right", dst)) \o <<Click("left", src)>> # <<>>
        BY <3>4 DEF first, most
      <3> QED BY <2>4, <3>5 DEF PlannedTransfer, MoveClicks
    <2> QED BY <2>2, <2>3, <2>4
  <1>3. CASE Taking(inv, <<>>, b, src, dst, n, D)
    <2>1. PICK k \in Nat :
          /\ k <= c - n /\ <<>> = Times(k, Click("right", src))
          /\ Split(inv, b, src, dst, c - n - k, n + k, D)
      BY <1>3 DEF Taking
    <2>2. k = 0
      BY <2>1, TimesFacts
    <2>3. c - n - k = c - n /\ n + k = d + n
      BY <1>1, <1>3, <2>2 DEF Taking
    <2> QED BY <2>1, <2>3
  <1>4. CASE Placing(inv, <<>>, b, src, dst, n, D)
    <2>1. PICK k \in Nat :
          /\ k <= n /\ <<>> = Times(k, Click("right", dst))
          /\ Split(inv, b, src, dst, c - n + k, d + n - k, D)
      BY <1>4 DEF Placing
    <2>2. k = 0
      BY <2>1, TimesFacts
    <2>3. c - n + k = c - n /\ d + n - k = d + n
      BY <1>1, <2>2
    <2> QED BY <2>1, <2>3
  <1>5. ~Carrying(inv, <<>>, b, src, dst, n, D)
    BY DEF Carrying
  <1>6. ~Spreading(inv, <<>>, b, src, dst, n, D)
    <2> DEFINE S == {Click("left", src), Click("right", dst)}
    <2>1. \A k \in Nat : Times(k, Click("right", dst)) \o <<Click("left", src)>> # <<>>
      <3>1. Click("left", src) \in S /\ Click("right", dst) \in S
        OBVIOUS
      <3> HIDE DEF S
      <3> QED BY <3>1, TimesThenOne
    <2> QED BY <2>1 DEF Spreading
  <1>7. CASE Transferred(inv, <<>>, b, src, dst, n, D)
    BY <1>7 DEF Transferred
  <1> QED BY <1>2, <1>3, <1>4, <1>5, <1>6, <1>7 DEF TransferStage

(***************************************************************************)
(* The stages of a swap                                                    *)
(***************************************************************************)
\* A swap of two different stacks that the inventory b allows.
SwapFits(b, src, dst, D) ==
    /\ src \in D \cup {Cursor} /\ dst \in D \cup {Cursor} /\ src # dst
    /\ ~SameItem(ItemAt(b, src), ItemAt(b, dst))
    /\ Cursor \in {src, dst} \/ ItemAt(b, Cursor).count = 0

Swapped(inv, b, src, dst, D) ==
    /\ Same(ItemAt(inv, src), ItemAt(b, dst))
    /\ Same(ItemAt(inv, dst), ItemAt(b, src))
    /\ Rest(inv, b, D, {src, dst})

\* By a hotbar click, of the slot that home gives for the hotbar slot, or by one or
\* three left clicks.
SwapBegins(inv, cl, b, src, dst, home, D) ==
    /\ inv = b
    /\ \/ /\ src \in D /\ dst \in D /\ Len(cl) = 1
          /\ Head(cl).op = "hotbar" /\ Head(cl).slot = src /\ home[Head(cl).target] = dst
          /\ Tail(cl) = <<>>
       \/ src = Cursor /\ cl = <<Click("left", dst)>>
       \/ dst = Cursor /\ cl = <<Click("left", src)>>
       \/ src \in D /\ dst \in D /\ cl = ExchangeClicks(src, dst)
PickedUp(inv, cl, b, src, dst, D) ==
    /\ src \in D /\ dst \in D /\ cl = <<Click("left", dst), Click("left", src)>>
    /\ ItemAt(inv, src).count = 0
    /\ Same(ItemAt(inv, Cursor), ItemAt(b, src)) /\ Same(ItemAt(inv, dst), ItemAt(b, dst))
    /\ Rest(inv, b, D, {src, dst, Cursor})
PutDown(inv, cl, b, src, dst, D) ==
    /\ src \in D /\ dst \in D /\ cl = <<Click("left", src)>>
    /\ ItemAt(inv, src).count = 0
    /\ Same(ItemAt(inv, dst), ItemAt(b, src)) /\ Same(ItemAt(inv, Cursor), ItemAt(b, dst))
    /\ Rest(inv, b, D, {src, dst, Cursor})

SwapStage(inv, cl, b, src, dst, home, D) ==
    \/ SwapBegins(inv, cl, b, src, dst, home, D)
    \/ PickedUp(inv, cl, b, src, dst, D)
    \/ PutDown(inv, cl, b, src, dst, D)
    \/ cl = <<>> /\ Swapped(inv, b, src, dst, D)

HotbarClick(inv, slot, target, after) ==
    /\ after.items = [inv.items EXCEPT ![slot] = inv.items[target], ![target] = inv.items[slot]]
    /\ after.cursor = inv.cursor

SwapGoes(inv, cl, b, src, dst, home, D) ==
    \E slot \in D :
       \/ /\ Head(cl) = Click("left", slot)
          /\ \A after \in Inventory(D) :
                ClicksSlot(inv, Head(cl), after) => SwapStage(after, Tail(cl), b, src, dst, home, D)
       \/ /\ Head(cl).op = "hotbar" /\ Head(cl).slot = slot /\ home[Head(cl).target] \in D
          /\ \A after \in Inventory(D) :
                HotbarClick(inv, slot, home[Head(cl).target], after) =>
                   SwapStage(after, Tail(cl), b, src, dst, home, D)

\* An empty place is the same as any other.
LEMMA EmptySame ==
    ASSUME NEW x \in Item, NEW y \in Item, x.count = 0, y.count = 0
    PROVE  Same(x, y)
  BY KindOfItem DEF Same

\* A swap goes on, click by click.
LEMMA SwapStep ==
    ASSUME NEW D, Cursor \notin D, NEW b \in Inventory(D), NEW src, NEW dst, NEW home,
           SwapFits(b, src, dst, D), NEW inv \in Inventory(D), NEW cl, cl # <<>>,
           SwapStage(inv, cl, b, src, dst, home, D)
    PROVE  SwapGoes(inv, cl, b, src, dst, home, D)
  <1>0. /\ src # dst /\ src \in D \cup {Cursor} /\ dst \in D \cup {Cursor}
        /\ ~SameItem(ItemAt(b, src), ItemAt(b, dst))
        /\ src # Cursor /\ dst # Cursor => src \in D /\ dst \in D /\ ItemAt(b, Cursor).count = 0
    BY DEF SwapFits
  <1>t. /\ \A s \in D \cup {Cursor} : ItemAt(b, s) \in Item /\ ItemAt(inv, s) \in Item
    BY PlacesTyped
  <1>1. CASE /\ inv = b /\ src \in D /\ dst \in D /\ Len(cl) = 1
             /\ Head(cl).op = "hotbar" /\ Head(cl).slot = src /\ home[Head(cl).target] = dst
             /\ Tail(cl) = <<>>
    <2>1. ASSUME NEW after \in Inventory(D), HotbarClick(inv, src, dst, after)
          PROVE  SwapStage(after, Tail(cl), b, src, dst, home, D)
      <3>1. /\ ItemAt(after, src) = ItemAt(b, dst) /\ ItemAt(after, dst) = ItemAt(b, src)
            /\ ItemAt(after, Cursor) = ItemAt(b, Cursor)
            /\ \A s \in D : s # src /\ s # dst => ItemAt(after, s) = ItemAt(b, s)
        BY <1>0, <1>1, <2>1 DEF HotbarClick, ItemAt, Inventory
      <3>2. Swapped(after, b, src, dst, D)
        BY <3>1 DEF Swapped, Rest, Same
      <3> QED BY <1>1, <3>2 DEF SwapStage
    <2> QED BY <1>1, <2>1 DEF SwapGoes
  <1>2. CASE inv = b /\ Cursor \in {src, dst} /\ \E slot \in {src, dst} \ {Cursor} : cl = <<Click("left", slot)>>
    <2>1. PICK slot \in {src, dst} \ {Cursor} : cl = <<Click("left", slot)>>
      BY <1>2
    <2>2. slot \in D /\ {src, dst} = {slot, Cursor} /\ Head(cl) = Click("left", slot) /\ Tail(cl) = <<>>
      BY <1>0, <1>2, <2>1
    <2>3. ASSUME NEW after \in Inventory(D), ClicksSlot(inv, Click("left", slot), after)
          PROVE  SwapStage(after, Tail(cl), b, src, dst, home, D)
      <3>1. LET result == LeftClick(ItemAt(b, slot), ItemAt(b, Cursor))
            IN  /\ ItemAt(after, slot) = result.slot
                /\ ItemAt(after, Cursor) = result.cursor
                /\ \A s \in D : s # slot => ItemAt(after, s) = ItemAt(b, s)
        BY <1>2, <2>2, <2>3, LeftAt
      <3>2. ~SameItem(ItemAt(b, slot), ItemAt(b, Cursor))
        BY <1>0, <1>2, <2>2 DEF SameItem
      <3>3. ItemAt(after, slot) = ItemAt(b, Cursor) /\ ItemAt(after, Cursor) = ItemAt(b, slot)
        BY <1>t, <2>2, <3>1, <3>2, LeftExchanges
      <3>4. ItemAt(after, src) = ItemAt(b, dst) /\ ItemAt(after, dst) = ItemAt(b, src)
        BY <1>0, <2>2, <3>3
      <3>5. Rest(after, b, D, {src, dst})
        BY <2>2, <3>1 DEF Rest, Same
      <3>6. Swapped(after, b, src, dst, D)
        BY <3>4, <3>5 DEF Swapped, Same
      <3> QED BY <2>2, <3>6 DEF SwapStage
    <2> QED BY <2>2, <2>3 DEF SwapGoes
  <1>3. CASE inv = b /\ src \in D /\ dst \in D /\ cl = ExchangeClicks(src, dst)
    <2>1. Head(cl) = Click("left", src) /\ Tail(cl) = <<Click("left", dst), Click("left", src)>>
      BY <1>3 DEF ExchangeClicks
    <2>2. ItemAt(b, Cursor).count = 0
      BY <1>0, <1>3
    <2>3. ASSUME NEW after \in Inventory(D), ClicksSlot(inv, Click("left", src), after)
          PROVE  SwapStage(after, Tail(cl), b, src, dst, home, D)
      <3>1. LET result == LeftClick(ItemAt(b, src), ItemAt(b, Cursor))
            IN  /\ ItemAt(after, src) = result.slot
                /\ ItemAt(after, Cursor) = result.cursor
                /\ \A s \in D : s # src => ItemAt(after, s) = ItemAt(b, s)
        BY <1>3, <2>3, LeftAt
      <3>2. ~SameItem(ItemAt(b, src), ItemAt(b, Cursor))
        BY <2>2 DEF SameItem, IsEmpty
      <3>3. ItemAt(after, src) = ItemAt(b, Cursor) /\ ItemAt(after, Cursor) = ItemAt(b, src)
        BY <1>3, <1>t, <3>1, <3>2, LeftExchanges
      <3>4. ItemAt(after, dst) = ItemAt(b, dst)
        BY <1>0, <1>3, <3>1
      <3>5. Rest(after, b, D, {src, dst, Cursor})
        BY <3>1 DEF Rest, Same
      <3>6. PickedUp(after, Tail(cl), b, src, dst, D)
        BY <1>3, <2>1, <2>2, <3>3, <3>4, <3>5 DEF PickedUp, Same
      <3> QED BY <3>6 DEF SwapStage
    <2> QED BY <1>3, <2>1, <2>3 DEF SwapGoes
  <1>4. CASE PickedUp(inv, cl, b, src, dst, D)
    <2>1. /\ src \in D /\ dst \in D /\ cl = <<Click("left", dst), Click("left", src)>>
          /\ ItemAt(inv, src).count = 0
          /\ Same(ItemAt(inv, Cursor), ItemAt(b, src)) /\ Same(ItemAt(inv, dst), ItemAt(b, dst))
          /\ Rest(inv, b, D, {src, dst, Cursor})
      BY <1>4 DEF PickedUp
    <2>2. Head(cl) = Click("left", dst) /\ Tail(cl) = <<Click("left", src)>>
      BY <2>1
    <2>3. ASSUME NEW after \in Inventory(D), ClicksSlot(inv, Click("left", dst), after)
          PROVE  SwapStage(after, Tail(cl), b, src, dst, home, D)
      <3>1. LET result == LeftClick(ItemAt(inv, dst), ItemAt(inv, Cursor))
            IN  /\ ItemAt(after, dst) = result.slot
                /\ ItemAt(after, Cursor) = result.cursor
                /\ \A s \in D : s # dst => ItemAt(after, s) = ItemAt(inv, s)
        BY <2>1, <2>3, LeftAt
      <3>2. ~SameItem(ItemAt(inv, dst), ItemAt(inv, Cursor))
        BY <1>0, <2>1 DEF SameItem, IsEmpty, Same
      <3>3. ItemAt(after, dst) = ItemAt(inv, Cursor) /\ ItemAt(after, Cursor) = ItemAt(inv, dst)
        BY <1>t, <2>1, <3>1, <3>2, LeftExchanges
      <3>4. ItemAt(after, src) = ItemAt(inv, src)
        BY <1>0, <2>1, <3>1
      <3>5. Rest(after, b, D, {src, dst, Cursor})
        BY <2>1, <3>1, RestFacts
      <3>6. PutDown(after, Tail(cl), b, src, dst, D)
        BY <2>1, <2>2, <3>3, <3>4, <3>5 DEF PutDown
      <3> QED BY <3>6 DEF SwapStage
    <2> QED BY <2>1, <2>2, <2>3 DEF SwapGoes
  <1>5. CASE PutDown(inv, cl, b, src, dst, D)
    <2>1. /\ src \in D /\ dst \in D /\ cl = <<Click("left", src)>>
          /\ ItemAt(inv, src).count = 0
          /\ Same(ItemAt(inv, dst), ItemAt(b, src)) /\ Same(ItemAt(inv, Cursor), ItemAt(b, dst))
          /\ Rest(inv, b, D, {src, dst, Cursor})
      BY <1>5 DEF PutDown
    <2>2. Head(cl) = Click("left", src) /\ Tail(cl) = <<>>
      BY <2>1
    <2>3. ASSUME NEW after \in Inventory(D), ClicksSlot(inv, Click("left", src), after)
          PROVE  SwapStage(after, Tail(cl), b, src, dst, home, D)
      <3>1. LET result == LeftClick(ItemAt(inv, src), ItemAt(inv, Cursor))
            IN  /\ ItemAt(after, src) = result.slot
                /\ ItemAt(after, Cursor) = result.cursor
                /\ \A s \in D : s # src => ItemAt(after, s) = ItemAt(inv, s)
        BY <2>1, <2>3, LeftAt
      <3>2. ~SameItem(ItemAt(inv, src), ItemAt(inv, Cursor))
        BY <2>1 DEF SameItem, IsEmpty
      <3>3. ItemAt(after, src) = ItemAt(inv, Cursor) /\ ItemAt(after, Cursor) = ItemAt(inv, src)
        BY <1>t, <2>1, <3>1, <3>2, LeftExchanges
      <3>4. ItemAt(after, dst) = ItemAt(inv, dst)
        BY <1>0, <2>1, <3>1
      <3>5. Rest(after, b, D, {src, dst})
        <4>1. Rest(after, b, D, {src, dst, Cursor})
          BY <2>1, <3>1, RestFacts
        <4>2. src # Cursor /\ dst # Cursor
          BY <2>1
        <4>3. Same(ItemAt(after, Cursor), ItemAt(b, Cursor))
          BY <1>0, <1>t, <2>1, <3>3, <4>2, EmptySame
        <4> QED BY <4>1, <4>3 DEF Rest
      <3>6. Swapped(after, b, src, dst, D)
        BY <2>1, <3>3, <3>4, <3>5 DEF Swapped
      <3> QED BY <2>2, <3>6 DEF SwapStage
    <2> QED BY <2>1, <2>2, <2>3 DEF SwapGoes
  <1>6. CASE SwapBegins(inv, cl, b, src, dst, home, D)
    BY <1>0, <1>1, <1>2, <1>3, <1>6 DEF SwapBegins
  <1> QED BY <1>4, <1>5, <1>6 DEF SwapStage

\* Once its clicks are sent, a swap has exchanged the two stacks.
LEMMA SwapEnds ==
    ASSUME NEW D, NEW b, NEW src, NEW dst, NEW home, NEW inv,
           SwapStage(inv, <<>>, b, src, dst, home, D)
    PROVE  Swapped(inv, b, src, dst, D)
  <1>1. Len(<<>>) # 1
    OBVIOUS
  <1> QED BY <1>1 DEF SwapStage, SwapBegins, PickedUp, PutDown, ExchangeClicks

(***************************************************************************)
(* The stages of a drop                                                    *)
(***************************************************************************)
DropFits(b, src, n, D) == src \in D /\ n \in Nat \ {0} /\ n <= ItemAt(b, src).count

Left(inv, b, src, left, D) ==
    /\ Holds(ItemAt(inv, src), ItemAt(b, src).kind, left)
    /\ Rest(inv, b, D, {src})

\* The whole stack at once, or one by one.
DropStage(inv, cl, b, src, n, D) ==
    \/ inv = b /\ n = ItemAt(b, src).count /\ cl = <<Click("dropAll", src)>>
    \/ \E k \in Nat : /\ k <= n /\ cl = Times(k, Click("dropOne", src))
                      /\ Left(inv, b, src, ItemAt(b, src).count - n + k, D)

SlotDrops(inv, click, after) ==
    /\ after.items = [inv.items EXCEPT ![click.slot] =
                         IF click.op = "dropAll" THEN Empty ELSE Subtract(inv.items[click.slot], 1)]
    /\ after.cursor = inv.cursor

DropGoes(inv, cl, b, src, n, D) ==
    /\ Head(cl) = Click("dropAll", src) \/ Head(cl) = Click("dropOne", src)
    /\ \A after \in Inventory(D) :
          SlotDrops(inv, Head(cl), after) => DropStage(after, Tail(cl), b, src, n, D)

\* A drop goes on, click by click.
LEMMA DropStep ==
    ASSUME NEW D, Cursor \notin D, NEW b \in Inventory(D), NEW src, NEW n,
           DropFits(b, src, n, D), NEW inv \in Inventory(D), NEW cl, cl # <<>>,
           DropStage(inv, cl, b, src, n, D)
    PROVE  DropGoes(inv, cl, b, src, n, D)
  <1> DEFINE c == ItemAt(b, src).count
             kind == ItemAt(b, src).kind
  <1>0. /\ src \in D /\ n \in Nat \ {0} /\ n <= c /\ c \in Nat
        /\ ItemAt(b, src) \in Item /\ ItemAt(inv, src) \in Item
    BY PlacesTyped, ItemFacts DEF DropFits
  <1>1. CASE inv = b /\ n = c /\ cl = <<Click("dropAll", src)>>
    <2>1. Head(cl) = Click("dropAll", src) /\ Tail(cl) = Times(0, Click("dropOne", src))
      BY <1>1, TimesFacts
    <2>2. ASSUME NEW after \in Inventory(D), SlotDrops(inv, Click("dropAll", src), after)
          PROVE  DropStage(after, Tail(cl), b, src, n, D)
      <3>1. /\ ItemAt(after, src) = Empty
            /\ \A s \in D \cup {Cursor} : s # src => ItemAt(after, s) = ItemAt(b, s)
        BY <1>0, <1>1, <2>2 DEF SlotDrops, Click, ItemAt, Inventory
      <3>2. c - n + 0 = 0 /\ 0 <= n
        BY <1>0, <1>1
      <3>3. Left(after, b, src, c - n + 0, D)
        BY <3>1, <3>2 DEF Left, Rest, Same, Holds, Empty
      <3> QED BY <2>1, <3>2, <3>3 DEF DropStage
    <2> QED BY <2>1, <2>2 DEF DropGoes
  <1>2. CASE \E k \in Nat : /\ k <= n /\ cl = Times(k, Click("dropOne", src))
                            /\ Left(inv, b, src, c - n + k, D)
    <2>1. PICK k \in Nat : /\ k <= n /\ cl = Times(k, Click("dropOne", src))
                           /\ Left(inv, b, src, c - n + k, D)
      BY <1>2
    <2>2. k # 0
      BY <2>1, TimesFacts
    <2>3. Head(cl) = Click("dropOne", src) /\ Tail(cl) = Times(k - 1, Click("dropOne", src))
      BY <2>1, <2>2, TimesFacts
    <2>4. Holds(ItemAt(inv, src), kind, c - n + k) /\ Rest(inv, b, D, {src})
      BY <2>1 DEF Left
    <2>5. ASSUME NEW after \in Inventory(D), SlotDrops(inv, Click("dropOne", src), after)
          PROVE  DropStage(after, Tail(cl), b, src, n, D)
      <3>1. /\ ItemAt(after, src) = Subtract(ItemAt(inv, src), 1)
            /\ \A s \in D \cup {Cursor} : s # src => ItemAt(after, s) = ItemAt(inv, s)
        BY <1>0, <2>5 DEF SlotDrops, Click, ItemAt, Inventory
      <3>2. k - 1 \in Nat /\ k - 1 <= n
        BY <1>0, <2>1, <2>2
      <3>3. Holds(ItemAt(after, src), kind, c - n + (k - 1))
        <4> DEFINE m == c - n + k
        <4>1. m \in Nat \ {0} /\ m - 1 = c - n + (k - 1) /\ Holds(ItemAt(inv, src), kind, m)
          <5>1. m \in Nat \ {0}
            BY <1>0, <2>1, <2>2
          <5>2. m - 1 = c - n + (k - 1)
            BY <1>0, <2>1
          <5> QED BY <2>4, <5>1, <5>2
        <4> HIDE DEF m, c, kind
        <4>2. CASE m = 1
          <5>1. Subtract(ItemAt(inv, src), 1) = Empty
            BY <1>0, <4>1, <4>2, SubtractItem DEF Holds
          <5>2. Holds(Empty, kind, 0)
            BY DEF Holds, Empty
          <5>3. m - 1 = 0
            BY <4>2
          <5> QED BY <3>1, <4>1, <5>1, <5>2, <5>3
        <4>3. CASE m # 1
          <5>0. ItemAt(inv, src).count = m /\ ItemAt(inv, src).kind = kind /\ 1 < m
            BY <4>1, <4>3 DEF Holds
          <5>1. Subtract(ItemAt(inv, src), 1) =
                   [kind |-> ItemAt(inv, src).kind, count |-> ItemAt(inv, src).count - 1, id |-> ItemAt(inv, src).id]
            BY <1>0, <5>0, SubtractItem
          <5>2. Holds(Subtract(ItemAt(inv, src), 1), kind, m - 1)
            BY <5>0, <5>1 DEF Holds
          <5> QED BY <3>1, <4>1, <5>2
        <4> QED BY <4>2, <4>3
      <3>4. Rest(after, b, D, {src})
        BY <2>4, <3>1 DEF Rest, Same
      <3>5. Left(after, b, src, c - n + (k - 1), D)
        BY <3>3, <3>4 DEF Left
      <3> DEFINE j == k - 1
      <3>6. /\ j \in Nat /\ j <= n /\ Tail(cl) = Times(j, Click("dropOne", src))
            /\ Left(after, b, src, ItemAt(b, src).count - n + j, D)
        BY <2>3, <3>2, <3>5
      <3> HIDE DEF j
      <3> QED BY <3>6 DEF DropStage
    <2> QED BY <2>3, <2>5 DEF DropGoes
  <1> QED BY <1>1, <1>2 DEF DropStage

\* Once its clicks are sent, a drop has removed n.
LEMMA DropEnds ==
    ASSUME NEW D, Cursor \notin D, NEW b \in Inventory(D), NEW src, NEW n,
           DropFits(b, src, n, D), NEW inv, DropStage(inv, <<>>, b, src, n, D)
    PROVE  Left(inv, b, src, ItemAt(b, src).count - n, D)
  <1> DEFINE c == ItemAt(b, src).count
  <1>0. n \in Nat /\ c \in Nat
    BY PlacesTyped, ItemFacts DEF DropFits
  <1>1. PICK k \in Nat : /\ k <= n /\ <<>> = Times(k, Click("dropOne", src))
                         /\ Left(inv, b, src, c - n + k, D)
    BY DEF DropStage
  <1>2. k = 0
    BY <1>1, TimesFacts
  <1>3. c - n + k = c - n
    BY <1>0, <1>2
  <1> QED BY <1>1, <1>3

(***************************************************************************)
(* Stacks within the stack size                                            *)
(***************************************************************************)
\* No place of the inventory holds more than a stack may.
Small ==
    /\ \A p \in PlayerSlots : playerItems[p].count <= MaxStack
    /\ cursorItem.count <= MaxStack
    /\ \A s \in DOMAIN window.items : window.items[s].count <= MaxStack

\* A click makes no stack above the stack size.
LEMMA LeftClickSmall ==
    ASSUME NEW slot \in Item, NEW cursor \in Item, slot.count <= MaxStack, cursor.count <= MaxStack
    PROVE  LET after == LeftClick(slot, cursor)
           IN  after.slot.count <= MaxStack /\ after.cursor.count <= MaxStack
  <1> DEFINE space == MaxStack - Least(slot.count, MaxStack)
             move == Least(space, cursor.count)
  <1>1. /\ MaxStack \in Nat /\ slot.count \in Nat /\ cursor.count \in Nat
    BY ClicksAssumption, ItemFacts
  <1>2. move \in Nat /\ move <= cursor.count /\ slot.count + move <= MaxStack
    BY <1>1 DEF Least
  <1>3. CASE SameItem(slot, cursor)
    <2>1. LeftClick(slot, cursor) = [slot |-> [slot EXCEPT !.count = @ + move], cursor |-> Subtract(cursor, move)]
      BY <1>3 DEF LeftClick
    <2>2. slot = [kind |-> slot.kind, count |-> slot.count, id |-> slot.id]
      BY ItemFacts
    <2>3. [slot EXCEPT !.count = @ + move].count = slot.count + move
      BY <2>2
    <2>4. Subtract(cursor, move).count <= MaxStack
      <3> HIDE DEF move
      <3>1. CASE move >= cursor.count
        BY <1>1, <1>2, <3>1, SubtractItem, ItemFacts
      <3>2. CASE move < cursor.count
        <4>1. Subtract(cursor, move).count = cursor.count - move
          BY <1>2, <3>2, SubtractItem
        <4> QED BY <1>1, <1>2, <4>1
      <3> QED BY <1>1, <1>2, <3>1, <3>2
    <2> DEFINE put == [slot EXCEPT !.count = @ + move]
    <2>5. put.count <= MaxStack
      BY <1>2, <2>3
    <2> HIDE DEF put, move
    <2>6. LeftClick(slot, cursor).slot = put /\ LeftClick(slot, cursor).cursor = Subtract(cursor, move)
      BY <2>1 DEF put
    <2> QED BY <2>4, <2>5, <2>6
  <1>4. CASE ~SameItem(slot, cursor)
    BY <1>4 DEF LeftClick
  <1> QED BY <1>3, <1>4

\* Neither does taking some off a stack.
LEMMA SubtractSmall ==
    ASSUME NEW item \in Item, NEW n \in Nat, item.count <= MaxStack
    PROVE  Subtract(item, n).count <= MaxStack
  <1>1. MaxStack \in Nat /\ item.count \in Nat
    BY ClicksAssumption, ItemFacts
  <1>2. CASE n >= item.count
    BY <1>1, <1>2, SubtractItem, ItemFacts
  <1>3. CASE n < item.count
    <2>1. Subtract(item, n).count = item.count - n
      BY <1>3, SubtractItem
    <2> QED BY <1>1, <2>1
  <1> QED BY <1>1, <1>2, <1>3

\* A right click makes no stack above the stack size either.
LEMMA RightClickSmall ==
    ASSUME NEW slot \in Item, NEW cursor \in Item, slot.count <= MaxStack, cursor.count <= MaxStack,
           NEW id
    PROVE  LET after == RightClick(slot, cursor, id)
           IN  after.slot.count <= MaxStack /\ after.cursor.count <= MaxStack
  <1>1. /\ MaxStack \in Nat /\ 1 <= MaxStack /\ slot.count \in Nat /\ cursor.count \in Nat
        /\ slot = [kind |-> slot.kind, count |-> slot.count, id |-> slot.id]
        /\ cursor = [kind |-> cursor.kind, count |-> cursor.count, id |-> cursor.id]
    BY ClicksAssumption, ItemFacts
  <1>2. CASE IsEmpty(cursor) /\ ~IsEmpty(slot)
    <2> DEFINE half == slot.count - slot.count \div 2
    <2>1. half \in Nat /\ half <= MaxStack
      BY <1>1
    <2>2. RightClick(slot, cursor, id) =
             [slot |-> Subtract(slot, half), cursor |-> [slot EXCEPT !.count = half, !.id = id]]
      BY <1>2 DEF RightClick, SplitHalf
    <2> DEFINE taken == [slot EXCEPT !.count = half, !.id = id]
    <2>3. taken.count = half
      BY <1>1
    <2> HIDE DEF half, taken
    <2>4. RightClick(slot, cursor, id).slot = Subtract(slot, half) /\ RightClick(slot, cursor, id).cursor = taken
      BY <2>2 DEF taken
    <2>5. Subtract(slot, half).count <= MaxStack
      BY <2>1, SubtractSmall
    <2> QED BY <2>1, <2>3, <2>4, <2>5
  <1>3. CASE ~IsEmpty(cursor) /\ IsEmpty(slot)
    <2>1. RightClick(slot, cursor, id) =
             [slot |-> [cursor EXCEPT !.count = 1, !.id = id], cursor |-> Subtract(cursor, 1)]
      BY <1>3 DEF RightClick, SplitOne
    <2> DEFINE put == [cursor EXCEPT !.count = 1, !.id = id]
    <2>2. put.count = 1
      BY <1>1
    <2> HIDE DEF put
    <2>3. RightClick(slot, cursor, id).slot = put /\ RightClick(slot, cursor, id).cursor = Subtract(cursor, 1)
      BY <2>1 DEF put
    <2>4. Subtract(cursor, 1).count <= MaxStack
      BY SubtractSmall
    <2> QED BY <1>1, <2>2, <2>3, <2>4
  <1>4. CASE ~(IsEmpty(cursor) /\ ~IsEmpty(slot)) /\ ~(~IsEmpty(cursor) /\ IsEmpty(slot))
    <2>1. \/ RightClick(slot, cursor, id) = [slot |-> cursor, cursor |-> slot]
          \/ slot.count < MaxStack /\ RightClick(slot, cursor, id) = AddOne(slot, cursor)
          \/ RightClick(slot, cursor, id) = [slot |-> slot, cursor |-> cursor]
      BY <1>4 DEF RightClick
    <2>2. ASSUME slot.count < MaxStack
          PROVE  AddOne(slot, cursor).slot.count <= MaxStack /\ AddOne(slot, cursor).cursor.count <= MaxStack
      <3>1. [slot EXCEPT !.count = @ + 1].count = slot.count + 1
        BY <1>1
      <3>2. slot.count + 1 <= MaxStack
        BY <1>1, <2>2
      <3> QED BY <3>1, <3>2, SubtractSmall DEF AddOne
    <2> QED BY <2>1, <2>2
  <1> QED BY <1>2, <1>3, <1>4

\* The inventory the clicks are simulated on is as small.
LEMMA SimSmall ==
    ASSUME InventoryTyped, Small
    PROVE  \A s \in SimSlots : SimItems[s].count <= MaxStack
  <1> SUFFICES ASSUME NEW s \in SimSlots PROVE SimItems[s].count <= MaxStack
    OBVIOUS
  <1>1. CASE window = NoWindow
    BY <1>1 DEF SimSlots, SimItems, Small
  <1>2. CASE window # NoWindow
    <2>1. s \in MenuSlots(window.size) /\ window.size \in Nat
      BY <1>2, WindowFacts DEF SimSlots
    <2>2. s >= window.size => PlayerSlot(s, window.size) \in PlayerSlots
      BY <2>1, MenuLayout
    <2>3. Empty.count <= MaxStack
      BY ClicksAssumption DEF Empty
    <2> QED BY <1>2, <2>2, <2>3, SimTyped DEF Small
  <1> QED BY <1>1, <1>2

\* And so is what a click stores.
LEMMA SmallStored ==
    ASSUME InventoryTyped, Small, nextStackID' \in Nat \ {0},
           NEW items \in [SimSlots -> Item], NEW cursor \in Item, Store(items, cursor),
           \A s \in SimSlots : items[s].count <= MaxStack, cursor.count <= MaxStack
    PROVE  Small'
  <1>1. /\ cursorItem' = cursor
        /\ window = NoWindow => playerItems' = items /\ window' = window
        /\ window # NoWindow =>
              /\ window'.items = items
              /\ \A p \in PlayerSlots : playerItems'[p] =
                    IF p \in Storage THEN items[MenuSlot(p, window.size)] ELSE playerItems[p]
    BY Stored
  <1>2. CASE window = NoWindow
    <2>1. SimSlots = PlayerSlots
      BY <1>2 DEF SimSlots
    <2>2. \A s \in DOMAIN window'.items : window'.items[s].count <= MaxStack
      BY <1>1, <1>2 DEF Small
    <2> QED BY <1>1, <1>2, <2>1, <2>2 DEF Small
  <1>3. CASE window # NoWindow
    <2>1. SimSlots = MenuSlots(window.size) /\ window.size \in Nat
      BY <1>3, WindowFacts DEF SimSlots
    <2>2. \A p \in Storage : MenuSlot(p, window.size) \in SimSlots
      BY <2>1, MenuLayout
    <2>3. \A p \in PlayerSlots : playerItems'[p].count <= MaxStack
      BY <1>1, <1>3, <2>2 DEF Small
    <2>4. \A s \in DOMAIN window'.items : window'.items[s].count <= MaxStack
      BY <1>1, <1>3
    <2> QED BY <1>1, <2>3, <2>4 DEF Small
  <1> QED BY <1>2, <1>3

\* What the server sends is as small, so the inventory is whatever happens.
LEMMA SmallInit ==
    ASSUME SupplyFits, Init
    PROVE  Small
  <1> DEFINE top == PlayerSize + Max(WindowSizes \cup {0})
             stacks == {Empty} \cup {[kind |-> c.kind, count |-> c.count, id |-> 1] : c \in Supply}
  <1>1. PICK all \in Contents(0..top), w \in WindowIDs \cup {0}, n \in WindowSizes :
           /\ playerItems = [p \in PlayerSlots |-> all[p]]
           /\ cursorItem = all[PlayerSize]
           /\ IF w = 0 THEN window = NoWindow
              ELSE window = [id |-> w, size |-> n, items |->
                    [s \in MenuSlots(n) |-> IF s < n THEN [x \in 0..n - 1 |-> all[PlayerSize + 1 + x]][s]
                                            ELSE [p \in PlayerSlots |-> all[p]][PlayerSlot(s, n)]]]
    BY DEF Init
  <1>2. /\ PlayerSize \in Nat /\ Max(WindowSizes \cup {0}) \in Nat
        /\ n \in Nat /\ n <= Max(WindowSizes \cup {0})
    BY StackRequestsAssumption, MaxBounds
  <1>3. \A s \in 0..top : all[s].count <= MaxStack
    <2>1. PICK f \in [0..top -> stacks] :
             all = [s \in 0..top |-> IF f[s] = Empty THEN Empty ELSE [f[s] EXCEPT !.id = s + 1]]
      BY <1>1 DEF Contents
    <2> SUFFICES ASSUME NEW s \in 0..top PROVE all[s].count <= MaxStack
      OBVIOUS
    <2>2. CASE f[s] = Empty
      BY <2>1, <2>2, ClicksAssumption DEF Empty
    <2>3. CASE f[s] # Empty
      <3>1. PICK c \in Supply : f[s] = [kind |-> c.kind, count |-> c.count, id |-> 1]
        BY <2>3
      <3>2. all[s] = [f[s] EXCEPT !.id = s + 1]
        BY <2>1, <2>3
      <3>3. all[s].count = c.count
        BY <3>1, <3>2
      <3> QED BY <3>3 DEF SupplyFits
    <2> QED BY <2>2, <2>3
  <1>4. /\ PlayerSlots \subseteq 0..top /\ PlayerSize \in 0..top
        /\ \A s \in 0..n - 1 : PlayerSize + 1 + s \in 0..top
    <2> DEFINE most == Max(WindowSizes \cup {0})
    <2>1. PlayerSize \in Nat /\ most \in Nat /\ n \in Nat /\ n <= most
      BY <1>2
    <2> HIDE DEF most
    <2>2. 0..PlayerSize - 1 \subseteq 0..PlayerSize + most /\ PlayerSize \in 0..PlayerSize + most
      BY <2>1
    <2>3. \A s \in 0..n - 1 : PlayerSize + 1 + s \in 0..PlayerSize + most
      BY <2>1
    <2> QED BY <2>2, <2>3 DEF PlayerSlots, most
  <1>5. \A p \in PlayerSlots : playerItems[p].count <= MaxStack
    BY <1>1, <1>3, <1>4
  <1>6. cursorItem.count <= MaxStack
    BY <1>1, <1>3, <1>4
  <1>7. \A s \in DOMAIN window.items : window.items[s].count <= MaxStack
    <2>1. CASE w = 0
      BY <1>1, <2>1 DEF NoWindow
    <2>2. CASE w # 0
      <3> SUFFICES ASSUME NEW s \in DOMAIN window.items PROVE window.items[s].count <= MaxStack
        OBVIOUS
      <3> DEFINE its == [x \in MenuSlots(n) |-> IF x < n THEN [y \in 0..n - 1 |-> all[PlayerSize + 1 + y]][x]
                                                 ELSE [p \in PlayerSlots |-> all[p]][PlayerSlot(x, n)]]
      <3>made. window = [id |-> w, size |-> n, items |-> its]
        BY <1>1, <2>2, Zenon
      <3>0. window.items = its
        <4> HIDE DEF its
        <4> QED BY <3>made
      <3>1. s \in MenuSlots(n)
        BY <3>0
      <3>2. s \in Nat /\ (s >= n => PlayerSlot(s, n) \in PlayerSlots)
        BY <1>2, <3>1, MenuLayout
      <3>3. CASE s < n
        <4>1. s \in 0..n - 1
          BY <1>2, <3>2, <3>3
        <4>2. window.items[s] = all[PlayerSize + 1 + s]
          BY <3>0, <3>1, <3>3, <4>1
        <4> QED BY <1>3, <1>4, <4>1, <4>2
      <3>4. CASE ~(s < n)
        <4>1. PlayerSlot(s, n) \in PlayerSlots
          BY <1>2, <3>2, <3>4
        <4>2. window.items[s] = all[PlayerSlot(s, n)]
          BY <3>0, <3>1, <3>4, <4>1
        <4> QED BY <1>3, <1>4, <4>1, <4>2
      <3> QED BY <3>3, <3>4
    <2> QED BY <2>1, <2>2
  <1> QED BY <1>5, <1>6, <1>7 DEF Small

\* The items of a content packet are as small as the server's stacks.
LEMMA FilledSmall ==
    ASSUME SupplyFits, NEW slots, NEW filled, NEW stack \in Supply, NEW n
    PROVE  /\ Numbered(stack, n).count <= MaxStack
           /\ \A s \in slots : Filled(slots, filled, Numbered(stack, n))[s].count <= MaxStack
  <1>1. Numbered(stack, n).count <= MaxStack
    BY DEF Numbered, SupplyFits
  <1>2. Empty.count <= MaxStack
    BY ClicksAssumption DEF Empty
  <1> QED BY <1>1, <1>2 DEF Filled

\* What packets, closes and openings leave.
LEMMA SmallUpdated ==
    ASSUME SupplyFits, Typed, Small, ClientClosesWindow \/ PumpJava
    PROVE  Small'
  <1>0. InventoryTyped
    BY DEF Typed
  <1>1. CASE WindowCloses \/ ClientClosesWindow
    BY <1>1 DEF WindowCloses, ClientClosesWindow, NoWindow, Small
  <1>2. ASSUME NEW id, NEW size, WindowOpens(id, size)
        PROVE  Small'
    BY <1>2 DEF WindowOpens, Opened, Small
  <1>3. ASSUME NEW stack \in Supply, SetCursor(stack)
        PROVE  Small'
    BY <1>3, FilledSmall DEF SetCursor, Small
  <1>4. ASSUME NEW stack \in Supply, NEW slot \in PlayerSlots, SetPlayerSlot(slot, stack)
        PROVE  Small'
    <2>1. /\ playerItems' = [playerItems EXCEPT ![slot] = Numbered(stack, 0)]
          /\ cursorItem' = cursorItem /\ window' = window
      BY <1>4 DEF SetPlayerSlot
    <2>2. \A p \in PlayerSlots : playerItems'[p] = IF p = slot THEN Numbered(stack, 0) ELSE playerItems[p]
      BY <1>0, <2>1 DEF InventoryTyped
    <2>3. Numbered(stack, 0).count <= MaxStack
      BY FilledSmall
    <2> QED BY <2>1, <2>2, <2>3 DEF Small
  <1>5. ASSUME NEW stack \in Supply, NEW slot \in MenuSlots(window.size), WindowSlot(slot, stack)
        PROVE  Small'
    <2> DEFINE item == Numbered(stack, 0)
    <2>1. /\ window' = IF slot \in DOMAIN window.items
                       THEN [window EXCEPT !.items[slot] = item] ELSE window
          /\ playerItems' = IF slot >= window.size
                            THEN [playerItems EXCEPT ![PlayerSlot(slot, window.size)] = item]
                            ELSE playerItems
          /\ cursorItem' = cursorItem
      BY <1>5 DEF WindowSlot
    <2>2. item.count <= MaxStack
      BY FilledSmall
    <2> HIDE DEF item
    <2>3. \A p \in PlayerSlots : playerItems'[p] = item \/ playerItems'[p] = playerItems[p]
      BY <1>0, <2>1 DEF InventoryTyped
    <2>4. \A s \in DOMAIN window'.items :
             window'.items[s] = item \/ (s \in DOMAIN window.items /\ window'.items[s] = window.items[s])
      <3>1. CASE slot \in DOMAIN window.items
        <4>1. window'.items = [window.items EXCEPT ![slot] = item]
          <5>1. window = [id |-> window.id, size |-> window.size, items |-> window.items]
            BY <1>0 DEF InventoryTyped
          <5>2. window' = [window EXCEPT !.items = [window.items EXCEPT ![slot] = item]]
            BY <2>1, <3>1
          <5> QED BY <5>1, <5>2
        <4> QED BY <4>1
      <3>2. CASE slot \notin DOMAIN window.items
        BY <2>1, <3>2
      <3> QED BY <3>1, <3>2
    <2> QED BY <2>1, <2>2, <2>3, <2>4 DEF Small
  <1>6. ASSUME NEW stack \in Supply, NEW carried \in Supply, NEW filled, PlayerContent(filled, stack, carried)
        PROVE  Small'
    <2>1. /\ playerItems' = Filled(PlayerSlots, filled, Numbered(stack, 0))
          /\ cursorItem' = Numbered(carried, 1) /\ window' = window
      BY <1>6 DEF PlayerContent
    <2> QED BY <2>1, FilledSmall DEF Small
  <1>7. ASSUME NEW stack \in Supply, NEW carried \in Supply, NEW filled, WindowContent(filled, stack, carried)
        PROVE  Small'
    <2> DEFINE items == Filled(MenuSlots(window.size), filled, Numbered(stack, 0))
    <2>1. /\ window # NoWindow /\ Store(items, Numbered(carried, 1))
          /\ nextStackID' = nextStackID + 2
      BY <1>7 DEF WindowContent
    <2>2. nextStackID' \in Nat \ {0}
      BY <1>0, <2>1 DEF InventoryTyped
    <2>3. Numbered(stack, 0) \in Item /\ Numbered(carried, 1) \in Item
      BY <1>0, NumberedTyped
    <2>4. SimSlots = MenuSlots(window.size)
      BY <2>1 DEF SimSlots
    <2>5. items \in [SimSlots -> Item]
      BY <2>3, <2>4, FilledFacts
    <2>6. \A s \in SimSlots : items[s].count <= MaxStack
      BY <2>4, FilledSmall
    <2>7. Numbered(carried, 1).count <= MaxStack
      BY FilledSmall
    <2> HIDE DEF items
    <2> QED BY <1>0, <2>1, <2>2, <2>3, <2>5, <2>6, <2>7, SmallStored
  <1> QED BY <1>1, <1>2, <1>3, <1>4, <1>5, <1>6, <1>7 DEF PumpJava

\* What clicks leave.
LEMMA SmallClicked ==
    ASSUME Typed, IDsDistinct, Small, ClickOutside \/ ClickItem \/ ClickDrops \/ MoveToHotbar
    PROVE  Small'
  <1>0. /\ InventoryTyped /\ cursorItem \in Item /\ cursorItem.count <= MaxStack
        /\ nextStackID' \in Nat \ {0} /\ DOMAIN SimItems = SimSlots
        /\ SimItems \in [SimSlots -> Item]
        /\ \A s \in SimSlots : SimItems[s] \in Item /\ SimItems[s].count <= MaxStack
    <2>1. InventoryTyped /\ InventoryTyped'
      BY OutsideKeeps, ItemKeeps, DropsKeeps, HotbarKeeps DEF Typed
    <2>2. nextStackID' \in Nat \ {0}
      BY <2>1 DEF InventoryTyped
    <2> QED BY <2>1, <2>2, SimTyped, SimSmall DEF InventoryTyped, Small
  <1>1. CASE ClickOutside
    <2>1. Store(SimItems, Subtract(cursorItem, 1))
      BY <1>1 DEF ClickOutside, Clicked
    <2>2. Subtract(cursorItem, 1) \in Item /\ Subtract(cursorItem, 1).count <= MaxStack
      BY <1>0, SubtractItem, SubtractSmall
    <2> QED BY <1>0, <2>1, <2>2, SmallStored
  <1>2. CASE ClickItem
    <2> DEFINE slot == Head(clicks).slot
               result == SlotResult(slot)
               items == [SimItems EXCEPT ![slot] = result.slot]
    <2>1. slot \in SimSlots /\ result.slot \in Item /\ result.cursor \in Item
      BY <1>2, ItemSent
    <2>2. Store(items, result.cursor)
      BY <1>2 DEF ClickItem, Clicked, SlotResult
    <2>3. result.slot.count <= MaxStack /\ result.cursor.count <= MaxStack
      <3>1. SimItems[slot] \in Item /\ SimItems[slot].count <= MaxStack
        BY <1>0, <2>1
      <3> HIDE DEF slot
      <3> QED BY <1>0, <3>1, LeftClickSmall, RightClickSmall DEF SlotResult
    <2> HIDE DEF slot, result
    <2>4. items \in [SimSlots -> Item] /\ \A s \in SimSlots : items[s].count <= MaxStack
      BY <1>0, <2>1, <2>3
    <2> HIDE DEF items
    <2> QED BY <1>0, <2>1, <2>2, <2>3, <2>4, SmallStored
  <1>3. CASE ClickDrops
    <2> DEFINE slot == Head(clicks).slot
               left == Dropped(slot)
               items == [SimItems EXCEPT ![slot] = left]
    <2>1. slot \in SimSlots /\ left \in Item
      BY <1>3, DropSent
    <2>2. Store(items, cursorItem)
      BY <1>3 DEF ClickDrops, Clicked, Dropped
    <2>3. left.count <= MaxStack
      <3>1. SimItems[slot] \in Item /\ SimItems[slot].count <= MaxStack
        BY <1>0, <2>1
      <3>2. Empty.count <= MaxStack
        BY ClicksAssumption DEF Empty
      <3> HIDE DEF slot
      <3> QED BY <3>1, <3>2, SubtractSmall DEF Dropped
    <2> HIDE DEF slot, left
    <2>4. items \in [SimSlots -> Item] /\ \A s \in SimSlots : items[s].count <= MaxStack
      BY <1>0, <2>1, <2>3
    <2> HIDE DEF items
    <2> QED BY <1>0, <2>2, <2>4, SmallStored
  <1>4. CASE MoveToHotbar
    <2> DEFINE slot == Head(clicks).slot
               target == HotbarSlot(Head(clicks).target)
               items == SlotsSwapped(slot, target)
    <2>1. slot \in SimSlots /\ target \in SimSlots
      BY <1>4, HotbarSent
    <2>2. Store(items, cursorItem)
      BY <1>4 DEF MoveToHotbar, Clicked, SlotsSwapped, HotbarSlot
    <2> HIDE DEF slot, target
    <2>3. items \in [SimSlots -> Item] /\ \A s \in SimSlots : items[s].count <= MaxStack
      BY <1>0, <2>1 DEF SlotsSwapped
    <2> HIDE DEF items
    <2> QED BY <1>0, <2>2, <2>3, SmallStored
  <1> QED BY <1>1, <1>2, <1>3, <1>4

\* Every step keeps the stacks within the stack size.
LEMMA SmallKept ==
    ASSUME SupplyFits, Typed, IDsDistinct, Small, [Next]_vars
    PROVE  Small'
  <1>1. UNCHANGED inventory => Small'
    BY DEF inventory, Small
  <1>2. CASE ClickOutside \/ ClickItem \/ ClickDrops \/ MoveToHotbar
    BY <1>2, SmallClicked
  <1>3. CASE ClientClosesWindow \/ PumpJava
    BY <1>3, SmallUpdated
  <1>4. CASE UNCHANGED vars
    BY <1>1, <1>4 DEF vars
  <1>5. CASE \E n \in 0..MaxActions : \E actions \in [1..n -> Offered] : ReadRequest(actions)
    BY <1>1, <1>5 DEF ReadRequest
  <1>6. CASE StartAction \/ ResolveSource \/ ResolveDestination \/ ValidateSource \/ ValidateDestination
             \/ ClickMissesInventory \/ NextAction
    BY <1>1, <1>6 DEF StartAction, ResolveSource, ResolveDestination, ValidateSource,
       ValidateDestination, ClickMissesInventory, NextAction, Reject, Continue
  <1>7. CASE PlanTransfer \/ PlanSwap \/ PlanDrop
    <2>1. Reject \/ Panic \/ \E planned \in Seq(PlannedClick) : Plan(planned)
      BY <1>7, Planning
    <2> QED BY <1>1, <2>1 DEF Reject, Panic, Continue, Plan
  <1> QED BY <1>2, <1>3, <1>4, <1>5, <1>6, <1>7, TwoKinds

(***************************************************************************)
(* A request does what it says                                             *)
(***************************************************************************)
Home == [hotbar \in Hotbar |-> HotbarSlot(hotbar)]

\* What the next click does to the inventory, by its operation.
Clicking ==
    \/ Head(clicks).slot = Outside
    \/ /\ Head(clicks).slot \in SimSlots /\ Head(clicks).op \in {"left", "right"}
       /\ ClicksSlot(Now, Head(clicks), Now')
    \/ /\ Head(clicks).slot \in SimSlots /\ Head(clicks).op = "hotbar"
       /\ HotbarClick(Now, Head(clicks).slot, Home[Head(clicks).target], Now')
    \/ /\ Head(clicks).slot \in SimSlots /\ Head(clicks).op \in {"dropOne", "dropAll"}
       /\ SlotDrops(Now, Head(clicks), Now')

\* The simulated inventory and the cursor hold items.
LEMMA NowTyped ==
    ASSUME InventoryTyped
    PROVE  Now \in Inventory(SimSlots)
  BY SimTyped DEF Inventory, Now, InventoryTyped

\* A click takes the simulated inventory to what its operation makes of it.
LEMMA ClickActs ==
    ASSUME Typed, IDsDistinct, ClickOutside \/ ClickItem \/ ClickDrops \/ MoveToHotbar
    PROVE  /\ pc = "click" /\ pc' = "click" /\ clicks # <<>> /\ clicks' = Tail(clicks)
           /\ disturbed' = disturbed
           /\ UNCHANGED <<request, source, destination, before>>
           /\ SimSlots' = SimSlots /\ Home' = Home
           /\ Now \in Inventory(SimSlots) /\ Now' \in Inventory(SimSlots)
           /\ Clicking
  <1>1. /\ pc = "click" /\ pc' = "click" /\ disturbed' = disturbed
        /\ UNCHANGED <<request, source, destination, before>>
        /\ window = NoWindow <=> window' = NoWindow
        /\ window'.size = window.size
        /\ SimSlots' = SimSlots
    BY ClicksStand
  <1>2. clicks # <<>> /\ clicks' = Tail(clicks)
    BY DEF ClickOutside, ClickItem, ClickDrops, MoveToHotbar, Clicked
  <1>3. Home' = Home
    BY <1>1 DEF Home, HotbarSlot, MenuSlot
  <1>4. InventoryTyped /\ InventoryTyped'
    BY OutsideKeeps, ItemKeeps, DropsKeeps, HotbarKeeps DEF Typed
  <1>5. Now \in Inventory(SimSlots) /\ Now' \in Inventory(SimSlots)
    <2>1. /\ SimItems \in [SimSlots -> Item] /\ \A s \in SimSlots : SimItems[s] \in Item
          /\ cursorItem' \in Item
      BY <1>4, SimTyped DEF InventoryTyped
    <2>2. SimItems' \in [SimSlots -> Item]
      <3>1. CASE ClickOutside
        BY <2>1, <3>1, OutsideSent DEF Stands
      <3>2. CASE ClickItem
        BY <2>1, <3>2, ItemSent DEF Stands
      <3>3. CASE ClickDrops
        BY <2>1, <3>3, DropSent DEF Stands
      <3>4. CASE MoveToHotbar
        BY <2>1, <3>4, HotbarSent DEF Stands, SlotsSwapped
      <3> QED BY <3>1, <3>2, <3>3, <3>4
    <2> QED BY <1>4, <2>1, <2>2, NowTyped DEF Inventory, Now
  <1>6. Clicking
    <2>1. CASE ClickOutside
      BY <2>1, OutsideSent DEF Clicking
    <2>2. CASE ClickItem
      <3> DEFINE slot == Head(clicks).slot
      <3>1. /\ slot \in SimSlots /\ Head(clicks).op \in {"left", "right"}
            /\ SimItems' = [SimItems EXCEPT ![slot] = SlotResult(slot).slot]
            /\ cursorItem' = SlotResult(slot).cursor
        BY <2>2, ItemSent DEF Stands
      <3>2. ClicksSlot(Now, Head(clicks), Now')
        BY <3>1 DEF ClicksSlot, Becomes, SlotResult, Now
      <3> QED BY <3>1, <3>2 DEF Clicking
    <2>3. CASE ClickDrops
      <3> DEFINE slot == Head(clicks).slot
      <3>1. /\ slot \in SimSlots /\ Head(clicks).op \in {"dropOne", "dropAll"}
            /\ SimItems' = [SimItems EXCEPT ![slot] = Dropped(slot)]
            /\ cursorItem' = cursorItem
        BY <2>3, DropSent DEF Stands
      <3>2. SlotDrops(Now, Head(clicks), Now')
        BY <3>1 DEF SlotDrops, Dropped, Now
      <3> QED BY <3>1, <3>2 DEF Clicking
    <2>4. CASE MoveToHotbar
      <3> DEFINE slot == Head(clicks).slot
                 target == HotbarSlot(Head(clicks).target)
      <3>1. /\ slot \in SimSlots /\ target \in SimSlots /\ Head(clicks).op = "hotbar"
            /\ SimItems' = SlotsSwapped(slot, target)
            /\ cursorItem' = cursorItem
        BY <2>4, HotbarSent DEF Stands
      <3>2. Home[Head(clicks).target] = target
        <4>1. Head(clicks).target \in Hotbar
          BY <1>2, <3>1, ClickFacts
        <4> QED BY <4>1 DEF Home
      <3>3. HotbarClick(Now, slot, target, Now')
        <4> HIDE DEF slot, target
        <4> QED BY <3>1 DEF HotbarClick, SlotsSwapped, Now
      <3> QED BY <3>1, <3>2, <3>3 DEF Clicking
    <2> QED BY <2>1, <2>2, <2>3, <2>4
  <1> QED BY <1>1, <1>2, <1>3, <1>5, <1>6

\* What the conditions of RequestsExact let through.
TransferMeant == Action.type = "transfer" /\ Room /\ (destination = Cursor => IsEmpty(before.cursor))
SwapMeant ==
    /\ Action.type = "swap"
    /\ ~SameItem(ItemAt(before, source), ItemAt(before, destination))
    /\ Cursor \in {source, destination} \/ IsEmpty(before.cursor)
DropMeant == Action.type = "drop" /\ source # Cursor

\* The clicks sent so far and those still to send are those of the plan.
TransferUnderWay ==
    TransferMeant =>
       /\ TransferFits(before, source, destination, Action.count, SimSlots)
       /\ TransferStage(Now, clicks, before, source, destination, Action.count, SimSlots)
SwapUnderWay ==
    SwapMeant =>
       /\ SwapFits(before, source, destination, SimSlots)
       /\ SwapStage(Now, clicks, before, source, destination, Home, SimSlots)
DropUnderWay ==
    DropMeant =>
       /\ DropFits(before, source, Action.count, SimSlots)
       /\ DropStage(Now, clicks, before, source, Action.count, SimSlots)
UnderWay ==
    pc = "click" /\ ~disturbed =>
       before \in Inventory(SimSlots) /\ TransferUnderWay /\ SwapUnderWay /\ DropUnderWay

\* A click takes the action one stage further.
LEMMA ClickGoesOn ==
    ASSUME Typed, IDsDistinct, UnderWay, ClickOutside \/ ClickItem \/ ClickDrops \/ MoveToHotbar
    PROVE  UnderWay'
  <1> DEFINE D == SimSlots
  <1>1. /\ pc = "click" /\ pc' = "click" /\ clicks # <<>> /\ clicks' = Tail(clicks)
        /\ disturbed' = disturbed
        /\ request' = request /\ source' = source /\ destination' = destination /\ before' = before
        /\ D' = D /\ Home' = Home
        /\ Now \in Inventory(D) /\ Now' \in Inventory(D)
        /\ Clicking
    BY ClickActs
  <1>2. Cursor \notin D /\ Outside \notin D
    BY SimTyped DEF Typed
  <1>3. Action' = Action /\ (Room' <=> Room)
    BY <1>1 DEF Action, Room
  <1>4. SUFFICES ASSUME ~disturbed
                 PROVE  before \in Inventory(D) /\ TransferUnderWay' /\ SwapUnderWay' /\ DropUnderWay'
    BY <1>1 DEF UnderWay
  <1>5. before \in Inventory(D) /\ TransferUnderWay /\ SwapUnderWay /\ DropUnderWay
    BY <1>1, <1>4 DEF UnderWay
  <1> HIDE DEF D
  <1>6. TransferUnderWay'
    <2>1. TransferMeant' <=> TransferMeant
      BY <1>1, <1>3 DEF TransferMeant
    <2> SUFFICES ASSUME TransferMeant
                 PROVE  /\ TransferFits(before, source, destination, Action.count, D)
                        /\ TransferStage(Now', Tail(clicks), before, source, destination, Action.count, D)
      BY <1>1, <1>3, <2>1 DEF TransferUnderWay, D
    <2>2. /\ TransferFits(before, source, destination, Action.count, D)
          /\ TransferStage(Now, clicks, before, source, destination, Action.count, D)
      BY <1>5 DEF TransferUnderWay, D
    <2>3. TransferGoes(Now, clicks, before, source, destination, Action.count, D)
      BY <1>1, <1>2, <1>5, <2>2, TransferStep
    <2>4. PICK slot \in D :
             /\ Head(clicks) = Click("left", slot) \/ Head(clicks) = Click("right", slot)
             /\ \A after \in Inventory(D) :
                   ClicksSlot(Now, Head(clicks), after) =>
                      TransferStage(after, Tail(clicks), before, source, destination, Action.count, D)
      BY <2>3 DEF TransferGoes
    <2>5. Head(clicks).slot = slot /\ Head(clicks).op \in {"left", "right"} /\ slot # Outside
      BY <1>2, <2>4 DEF Click
    <2>6. ClicksSlot(Now, Head(clicks), Now')
      BY <1>1, <2>5 DEF Clicking
    <2> QED BY <1>1, <2>2, <2>4, <2>6
  <1>7. SwapUnderWay'
    <2>1. SwapMeant' <=> SwapMeant
      BY <1>1, <1>3 DEF SwapMeant
    <2> SUFFICES ASSUME SwapMeant
                 PROVE  /\ SwapFits(before, source, destination, D)
                        /\ SwapStage(Now', Tail(clicks), before, source, destination, Home, D)
      BY <1>1, <1>3, <2>1 DEF SwapUnderWay, D
    <2>2. /\ SwapFits(before, source, destination, D)
          /\ SwapStage(Now, clicks, before, source, destination, Home, D)
      BY <1>5 DEF SwapUnderWay, D
    <2>3. SwapGoes(Now, clicks, before, source, destination, Home, D)
      BY <1>1, <1>2, <1>5, <2>2, SwapStep
    <2>4. PICK slot \in D :
             \/ /\ Head(clicks) = Click("left", slot)
                /\ \A after \in Inventory(D) :
                      ClicksSlot(Now, Head(clicks), after) =>
                         SwapStage(after, Tail(clicks), before, source, destination, Home, D)
             \/ /\ Head(clicks).op = "hotbar" /\ Head(clicks).slot = slot
                /\ Home[Head(clicks).target] \in D
                /\ \A after \in Inventory(D) :
                      HotbarClick(Now, slot, Home[Head(clicks).target], after) =>
                         SwapStage(after, Tail(clicks), before, source, destination, Home, D)
      BY <2>3 DEF SwapGoes
    <2>5. slot # Outside
      BY <1>2
    <2>6. CASE Head(clicks) = Click("left", slot)
      <3>1. Head(clicks).slot = slot /\ Head(clicks).op = "left"
        BY <2>6 DEF Click
      <3>2. ClicksSlot(Now, Head(clicks), Now')
        BY <1>1, <2>5, <3>1 DEF Clicking
      <3> QED BY <1>1, <2>2, <2>4, <3>1, <3>2
    <2>7. CASE Head(clicks) # Click("left", slot)
      <3>1. HotbarClick(Now, slot, Home[Head(clicks).target], Now')
        BY <1>1, <2>4, <2>5, <2>7 DEF Clicking
      <3> QED BY <1>1, <2>2, <2>4, <2>7, <3>1
    <2> QED BY <2>6, <2>7
  <1>8. DropUnderWay'
    <2>1. DropMeant' <=> DropMeant
      BY <1>1, <1>3 DEF DropMeant
    <2> SUFFICES ASSUME DropMeant
                 PROVE  /\ DropFits(before, source, Action.count, D)
                        /\ DropStage(Now', Tail(clicks), before, source, Action.count, D)
      BY <1>1, <1>3, <2>1 DEF DropUnderWay, D
    <2>2. /\ DropFits(before, source, Action.count, D)
          /\ DropStage(Now, clicks, before, source, Action.count, D)
      BY <1>5 DEF DropUnderWay, D
    <2>3. DropGoes(Now, clicks, before, source, Action.count, D)
      BY <1>1, <1>2, <1>5, <2>2, DropStep
    <2>4. Head(clicks).slot = source /\ Head(clicks).op \in {"dropOne", "dropAll"} /\ source # Outside
      BY <1>2, <2>2, <2>3 DEF DropGoes, Click, DropFits
    <2>5. SlotDrops(Now, Head(clicks), Now')
      BY <1>1, <2>4 DEF Clicking
    <2> QED BY <1>1, <2>2, <2>3, <2>5 DEF DropGoes
  <1> QED BY <1>5, <1>6, <1>7, <1>8

\* A transfer is planned for what it fits.
LEMMA TransferBegins ==
    ASSUME Typed, Small, before = Now, PlanTransfer, ~Reject, ~Panic, TransferMeant
    PROVE  /\ TransferFits(before, source, destination, Action.count, SimSlots)
           /\ clicks' = PlannedTransfer(before, source, destination, Action.count)
  <1> DEFINE n == Action.count
             src == source
             dst == destination
  <1>1. /\ pc = "plan" /\ Action.type = "transfer"
        /\ n \in Nat \ {0}
        /\ ~OutOfRange(src) /\ ~OutOfRange(dst)
        /\ From \in Item /\ To \in Item
        /\ ~IsEmpty(From) /\ n <= From.count
        /\ \/ /\ dst = Cursor /\ IsEmpty(cursorItem)
              /\ Plan(TakeClicks(n, src, From.count))
           \/ /\ dst = Cursor /\ ~IsEmpty(cursorItem)
              /\ Plan(<<Click("left", src)>>)
           \/ /\ dst # Cursor /\ src = Cursor
              /\ Plan(PlaceClicks(n, dst, From.count))
           \/ /\ dst # Cursor /\ src # Cursor
              /\ IsEmpty(cursorItem) /\ ~Incompatible(From, To)
              /\ Plan(MoveClicks(n, src, dst, From.count))
    BY TransferPlanned
  <1>2. /\ InventoryTyped /\ src \in Int /\ dst \in Int
        /\ ~(src = Cursor /\ dst = Cursor)
    BY <1>1 DEF Typed, RequestTyped, ActionStarted, TwoSlots
  <1>3. src \in SimSlots \cup {Cursor} /\ dst \in SimSlots \cup {Cursor}
    BY <1>1, <1>2, ItemAtTyped
  <1>4. /\ ItemAt(before, src) = From /\ ItemAt(before, dst) = To
        /\ before.cursor = cursorItem /\ ItemAt(before, Cursor) = cursorItem
    BY DEF From, To, ItemAt, Now
  <1>5. dst = Cursor => IsEmpty(cursorItem)
    BY <1>4 DEF TransferMeant
  <1>6. src # dst
    BY <1>1, <1>2 DEF Incompatible
  <1>7. From.count <= MaxStack
    <2>1. CASE src = Cursor
      BY <1>4, <2>1 DEF Small
    <2>2. CASE src # Cursor
      <3>1. From = SimItems[src] /\ src \in SimSlots
        BY <1>3, <2>2 DEF From, ItemAt, Now
      <3> QED BY <1>2, <3>1, SimSmall
    <2> QED BY <2>1, <2>2
  <1>8. To.count = 0 \/ (To.kind = From.kind /\ To.count + n <= MaxStack)
    <2>1. IsEmpty(To) \/ (SameItem(From, To) /\ To.count + n <= MaxStack)
      BY <1>4 DEF TransferMeant, Room
    <2> QED BY <1>1, <2>1, KindOfItem DEF SameItem
  <1>9. src # Cursor => cursorItem.count = 0
    <2>1. src # Cursor => IsEmpty(cursorItem)
      BY <1>1, <1>5
    <2>2. cursorItem \in Item
      BY <1>2 DEF InventoryTyped
    <2> QED BY <2>1, <2>2, KindOfItem
  <1>10. TransferFits(before, src, dst, n, SimSlots)
    <2> HIDE DEF n
    <2> QED BY <1>1, <1>3, <1>4, <1>6, <1>7, <1>8, <1>9 DEF TransferFits
  <1>11. clicks' = PlannedTransfer(before, src, dst, n)
    BY <1>1, <1>4, <1>5 DEF PlannedTransfer, Plan
  <1> QED BY <1>10, <1>11

\* A swap begins with the clicks of its plan.
LEMMA SwapPlansFit ==
    ASSUME Typed, before = Now, Resolved, ~Away, PlanSwap, ~Reject, SwapMeant
    PROVE  /\ SwapFits(before, source, destination, SimSlots)
           /\ SwapBegins(before, clicks', before, source, destination, Home, SimSlots)
  <1> DEFINE src == source
             dst == destination
  <1>1. /\ pc = "plan" /\ Action.type = "swap"
        /\ src # dst
        /\ \/ /\ src # Cursor /\ dst # Cursor
              /\ Action.destination.container = "hotbar"
              /\ Action.destination.slot \in Hotbar
              /\ Plan(<<[op |-> "hotbar", slot |-> src, target |-> Action.destination.slot]>>)
           \/ src = Cursor /\ dst # Cursor /\ Plan(<<Click("left", dst)>>)
           \/ src # Cursor /\ dst = Cursor /\ Plan(<<Click("left", src)>>)
           \/ /\ src # Cursor /\ dst # Cursor
              /\ Plan(ExchangeClicks(src, dst))
    BY SwapPlanned
  <1>2. /\ src = Resolve(Action.source) /\ src # Unsupported
        /\ dst = Resolve(Action.destination) /\ dst # Unsupported
    BY <1>1 DEF Resolved, SourceResolved, DestinationResolved, SourceSupported, TwoSlots
  <1>3. /\ InventoryTyped /\ RequestTyped /\ Action.source \in Refs /\ Action.destination \in Refs
    BY <1>1, ActionFacts DEF Typed
  <1>4. src \in SimSlots \cup {Cursor} /\ dst \in SimSlots \cup {Cursor}
    BY <1>2, <1>3, ResolveTyped
  <1>5. SwapFits(before, src, dst, SimSlots)
    <2>1. Cursor \in {src, dst} \/ ItemAt(before, Cursor).count = 0
      <3>1. before.cursor = ItemAt(before, Cursor) /\ ItemAt(before, Cursor) \in Item
        BY <1>3 DEF ItemAt, Now, InventoryTyped
      <3> QED BY <3>1, KindOfItem DEF SwapMeant
    <2> QED BY <1>1, <1>4, <2>1 DEF SwapFits, SwapMeant
  <1>6. SwapBegins(before, clicks', before, src, dst, Home, SimSlots)
    <2>1. CASE /\ src # Cursor /\ dst # Cursor
               /\ Action.destination.container = "hotbar"
               /\ Action.destination.slot \in Hotbar
               /\ clicks' = <<[op |-> "hotbar", slot |-> src, target |-> Action.destination.slot]>>
      <3> DEFINE hotbar == Action.destination.slot
      <3>1. Home[hotbar] = HotbarSlot(hotbar)
        BY <2>1 DEF Home
      <3>2. hotbar \in Storage
        BY <2>1, <1>3, WindowFacts, MenuLayout
      <3>3. Resolve(Action.destination) = HotbarSlot(hotbar)
        BY <2>1, <3>2 DEF Resolve, HotbarSlot
      <3>4. /\ Len(clicks') = 1 /\ Tail(clicks') = <<>>
            /\ Head(clicks').op = "hotbar" /\ Head(clicks').slot = src
            /\ Head(clicks').target = hotbar
        BY <2>1
      <3> HIDE DEF hotbar
      <3> QED BY <1>2, <1>4, <2>1, <3>1, <3>3, <3>4 DEF SwapBegins
    <2>2. CASE src = Cursor /\ clicks' = <<Click("left", dst)>>
      BY <2>2 DEF SwapBegins
    <2>3. CASE dst = Cursor /\ clicks' = <<Click("left", src)>>
      BY <2>3 DEF SwapBegins
    <2>4. CASE src # Cursor /\ dst # Cursor /\ clicks' = ExchangeClicks(src, dst)
      BY <1>4, <2>4 DEF SwapBegins
    <2> QED BY <1>1, <2>1, <2>2, <2>3, <2>4 DEF Plan
  <1> QED BY <1>5, <1>6

\* And a drop.
LEMMA DropBegins ==
    ASSUME Typed, before = Now, PlanDrop, ~Reject, DropMeant
    PROVE  /\ DropFits(before, source, Action.count, SimSlots)
           /\ DropStage(before, clicks', before, source, Action.count, SimSlots)
  <1> DEFINE n == Action.count
  <1>1. /\ pc = "plan" /\ n \in Nat \ {0}
        /\ ~OutOfRange(source) /\ From \in Item /\ ~IsEmpty(From) /\ n <= From.count
        /\ Plan(SlotDropClicks(n, source, From.count))
    BY DropPlanned DEF DropMeant
  <1>2. InventoryTyped /\ source \in Int
    BY DEF Typed, RequestTyped
  <1>3. source \in SimSlots
    BY <1>1, <1>2, ItemAtTyped DEF DropMeant
  <1>4. ItemAt(before, source) = From /\ From.count \in Nat
    BY <1>1, KindOfItem DEF From
  <1>5. DropFits(before, source, n, SimSlots)
    BY <1>1, <1>3, <1>4 DEF DropFits
  <1>6. DropStage(before, clicks', before, source, n, SimSlots)
    <2> HIDE DEF n
    <2>1. CASE n = From.count /\ From.count > 1
      BY <1>1, <1>4, <2>1 DEF DropStage, SlotDropClicks, Plan
    <2>2. CASE ~(n = From.count /\ From.count > 1)
      <3>1. clicks' = Times(n, Click("dropOne", source))
        BY <1>1, <2>2 DEF SlotDropClicks, Plan
      <3>2. Left(before, before, source, From.count - n + n, SimSlots)
        <4>1. From.count - n + n = From.count
          BY <1>1, <1>4
        <4>2. Holds(From, From.kind, From.count)
          BY DEF Holds
        <4>3. Rest(before, before, SimSlots, {source})
          BY DEF Rest, Same
        <4> QED BY <1>4, <4>1, <4>2, <4>3 DEF Left
      <3>3. n \in Nat /\ n <= n
        BY <1>1
      <3> QED BY <1>4, <3>1, <3>2, <3>3 DEF DropStage
    <2> QED BY <2>1, <2>2
  <1> QED BY <1>5, <1>6

\* A plan begins what it is for.
LEMMA PlanBegins ==
    ASSUME Typed, Small, Untouched, Resolved, ~Away,
           PlanTransfer \/ PlanSwap \/ PlanDrop, ~Reject, ~Panic
    PROVE  UnderWay'
  <1>1. pc = "plan" /\ \E planned \in Seq(PlannedClick) : Plan(planned)
    BY Planning
  <1>2. /\ UNCHANGED inventory
        /\ request' = request /\ source' = source /\ destination' = destination /\ before' = before
        /\ disturbed' = disturbed
    BY <1>1 DEF Plan
  <1>3. before = Now
    BY <1>1 DEF Untouched
  <1>4. InventoryTyped /\ Now' = Now /\ SimSlots' = SimSlots /\ Home' = Home
    BY <1>2, InventoryUnchanged DEF Typed, inventory, Home, HotbarSlot
  <1>5. Action' = Action /\ (Room' <=> Room)
    BY <1>2 DEF Action, Room
  <1>6. before \in Inventory(SimSlots)
    BY <1>3, <1>4, NowTyped
  <1>7. TransferUnderWay'
    <2>1. TransferMeant' <=> TransferMeant
      BY <1>2, <1>5 DEF TransferMeant
    <2>2. ASSUME TransferMeant
          PROVE  /\ TransferFits(before, source, destination, Action.count, SimSlots)
                 /\ TransferStage(Now, clicks', before, source, destination, Action.count, SimSlots)
      <3>1. PlanTransfer
        BY <2>2 DEF TransferMeant, PlanSwap, PlanDrop
      <3> QED BY <1>3, <2>2, <3>1, TransferBegins DEF TransferStage
    <2> QED BY <1>2, <1>4, <1>5, <2>1, <2>2 DEF TransferUnderWay
  <1>8. SwapUnderWay'
    <2>1. SwapMeant' <=> SwapMeant
      BY <1>2, <1>5 DEF SwapMeant
    <2>2. ASSUME SwapMeant
          PROVE  /\ SwapFits(before, source, destination, SimSlots)
                 /\ SwapStage(Now, clicks', before, source, destination, Home, SimSlots)
      <3>1. PlanSwap
        BY <2>2 DEF SwapMeant, PlanTransfer, PlanDrop
      <3> QED BY <1>3, <2>2, <3>1, SwapPlansFit DEF SwapStage
    <2> QED BY <1>2, <1>4, <1>5, <2>1, <2>2 DEF SwapUnderWay
  <1>9. DropUnderWay'
    <2>1. DropMeant' <=> DropMeant
      BY <1>2, <1>5 DEF DropMeant
    <2>2. ASSUME DropMeant
          PROVE  /\ DropFits(before, source, Action.count, SimSlots)
                 /\ DropStage(Now, clicks', before, source, Action.count, SimSlots)
      <3>1. PlanDrop
        BY <2>2 DEF DropMeant, PlanTransfer, PlanSwap
      <3> QED BY <1>3, <2>2, <3>1, DropBegins
    <2> QED BY <1>2, <1>4, <1>5, <2>1, <2>2 DEF DropUnderWay
  <1> QED BY <1>2, <1>4, <1>6, <1>7, <1>8, <1>9 DEF UnderWay

\* Every step keeps the action within the stages of its plan.
LEMMA UnderWayKept ==
    ASSUME Typed, IDsDistinct, Small, Untouched, Resolved, UnderWay, [Next]_vars
    PROVE  UnderWay'
  <1>1. CASE ClickOutside \/ ClickItem \/ ClickDrops \/ MoveToHotbar
    BY <1>1, ClickGoesOn
  <1>2. CASE Away'
    BY <1>2 DEF Away, UnderWay
  <1>3. CASE UNCHANGED vars
    <2>1. /\ UNCHANGED inventory
          /\ request' = request /\ source' = source /\ destination' = destination /\ before' = before
          /\ disturbed' = disturbed /\ clicks' = clicks /\ pc' = pc
      BY <1>3 DEF vars, locals
    <2>2. Now' = Now /\ SimSlots' = SimSlots /\ Home' = Home
      BY <2>1, InventoryUnchanged DEF Typed, inventory, Home, HotbarSlot
    <2>3. /\ Action' = Action /\ (TransferMeant' <=> TransferMeant)
          /\ (SwapMeant' <=> SwapMeant) /\ (DropMeant' <=> DropMeant)
      BY <2>1 DEF Action, Room, TransferMeant, SwapMeant, DropMeant
    <2> QED BY <2>1, <2>2, <2>3 DEF UnderWay, TransferUnderWay, SwapUnderWay, DropUnderWay
  <1>4. CASE pc' \in {"resolveSource", "validateSource"}
    BY <1>4 DEF UnderWay
  <1>5. CASE /\ \/ ResolveSource \/ ResolveDestination \/ ValidateSource \/ ValidateDestination
                \/ PlanTransfer \/ PlanSwap \/ PlanDrop
             /\ ~Reject /\ ~Panic /\ ~Away
    <2>1. CASE PlanTransfer \/ PlanSwap \/ PlanDrop
      BY <1>5, <2>1, PlanBegins
    <2>2. CASE ResolveSource \/ ResolveDestination \/ ValidateSource \/ ValidateDestination
      <3>1. pc # "plan"
        BY <2>2 DEF ResolveSource, ResolveDestination, ValidateSource, ValidateDestination
      <3>2. pc' # "click"
        BY <1>5, <2>2, <3>1, ResolvingSteps
      <3> QED BY <3>2 DEF UnderWay
    <2> QED BY <1>5, <2>1, <2>2
  <1> QED BY <1>1, <1>2, <1>3, <1>4, <1>5, TwoKinds, NoClickSteps

\* What the stages come to once the clicks are sent.
LEMMA DoneExactly ==
    ASSUME Typed, UnderWay
    PROVE  RequestsExact
  <1> DEFINE D == SimSlots
  <1>1. /\ InventoryTyped /\ Now \in Inventory(D) /\ Cursor \notin D /\ DOMAIN SimItems = D
        /\ \A s \in D : ItemAt(Now, s) = SimItems[s] /\ ItemAt(before, s) = before.items[s]
        /\ ItemAt(Now, Cursor) = cursorItem /\ ItemAt(before, Cursor) = before.cursor
    BY NowTyped, SimTyped DEF Typed, ItemAt, Now
  <1>2. ASSUME NEW slots, Rest(Now, before, D, slots)
        PROVE  RestKept(slots)
    <2> HIDE DEF D
    <2>1. \A s \in (D \cup {Cursor}) \ slots : Same(ItemAt(Now, s), ItemAt(before, s))
      BY <1>2 DEF Rest
    <2>2. Cursor \notin slots => Same(cursorItem, before.cursor)
      <3> SUFFICES ASSUME Cursor \notin slots PROVE Same(cursorItem, before.cursor)
        OBVIOUS
      <3>1. Same(ItemAt(Now, Cursor), ItemAt(before, Cursor))
        BY <2>1
      <3> QED BY <1>1, <3>1
    <2>3. \A s \in DOMAIN SimItems \ slots : Same(SimItems[s], before.items[s])
      <3> SUFFICES ASSUME NEW s \in D \ slots PROVE Same(SimItems[s], before.items[s])
        BY <1>1
      <3>1. Same(ItemAt(Now, s), ItemAt(before, s))
        BY <2>1
      <3> QED BY <1>1, <3>1
    <2> QED BY <2>2, <2>3 DEF RestKept
  <1>3. TransferExact
    <2> SUFFICES ASSUME Accepted("transfer"), Room, destination = Cursor => IsEmpty(before.cursor)
                 PROVE  MovesCount
      BY DEF TransferExact
    <2> DEFINE n == Action.count
    <2>1. /\ before \in Inventory(D)
          /\ TransferFits(before, source, destination, n, D)
          /\ TransferStage(Now, <<>>, before, source, destination, n, D)
      BY DEF Accepted, UnderWay, TransferUnderWay, TransferMeant
    <2> HIDE DEF n
    <2>2. Split(Now, before, source, destination, ItemAt(before, source).count - n,
                ItemAt(before, destination).count + n, D)
      <3> HIDE DEF D
      <3> QED BY <1>1, <2>1, TransferEnds
    <2>3. ItemAt(before, destination).count + n # 0
      <3>1. n \in Nat \ {0} /\ ItemAt(before, destination).count \in Nat
        <4> HIDE DEF D
        <4> QED BY <1>1, <2>1, TransferNumbers
      <3> QED BY <3>1
    <2> QED BY <1>2, <2>2, <2>3 DEF Split, Holds, MovesCount, n
  <1>4. SwapExact
    <2> SUFFICES ASSUME Accepted("swap"), ~SameItem(ItemAt(before, source), ItemAt(before, destination)),
                        Cursor \in {source, destination} \/ IsEmpty(before.cursor)
                 PROVE  /\ Same(ItemAt(Now, source), ItemAt(before, destination))
                        /\ Same(ItemAt(Now, destination), ItemAt(before, source))
                        /\ RestKept({source, destination})
      BY DEF SwapExact
    <2>1. SwapStage(Now, <<>>, before, source, destination, Home, D)
      BY DEF Accepted, UnderWay, SwapUnderWay, SwapMeant
    <2>2. Swapped(Now, before, source, destination, D)
      BY <2>1, SwapEnds
    <2> QED BY <1>2, <2>2 DEF Swapped
  <1>5. DropExact
    <2> SUFFICES ASSUME Accepted("drop"), source # Cursor
                 PROVE  /\ ItemAt(Now, source).count = ItemAt(before, source).count - Action.count
                        /\ RestKept({source})
      BY DEF DropExact
    <2>1. /\ before \in Inventory(D) /\ DropFits(before, source, Action.count, D)
          /\ DropStage(Now, <<>>, before, source, Action.count, D)
      BY DEF Accepted, UnderWay, DropUnderWay, DropMeant
    <2>2. Left(Now, before, source, ItemAt(before, source).count - Action.count, D)
      <3> HIDE DEF D
      <3> QED BY <1>1, <2>1, DropEnds
    <2> QED BY <1>2, <2>2 DEF Left, Holds
  <1> QED BY <1>3, <1>4, <1>5 DEF RequestsExact

\* An accepted request has done what it asked for to the item, whatever the stacks,
\* their counts and the slots, as long as the server sends no stack above the stack
\* size that the clicks are simulated with.
THEOREM RequestsCorrect == SupplyFits => (Spec => []RequestsExact)
  <1> SUFFICES ASSUME SupplyFits PROVE Spec => []RequestsExact
    OBVIOUS
  <1> DEFINE IInv == Typed /\ IDsDistinct /\ Small /\ Reported /\ Untouched /\ Resolved /\ UnderWay
  <1>1. Init => IInv
    <2> SUFFICES ASSUME Init PROVE IInv
      OBVIOUS
    <2>1. Away
      BY DEF Init, Away
    <2>2. Reported /\ Untouched /\ Resolved
      BY <2>1 DEF Reported, Untouched, Resolved
    <2>3. UnderWay
      BY <2>1 DEF UnderWay, Away
    <2> QED BY <2>2, <2>3, TypedInit, IDsInit, SmallInit
  <1>2. IInv /\ [Next]_vars => IInv'
    BY InventoryStep, SmallKept, ReportedKept, ResolvedKept, UnderWayKept
  <1>3. IInv => RequestsExact
    BY DoneExactly
  <1> QED BY <1>1, <1>2, <1>3, PTL DEF Spec

(***************************************************************************)
(* What all the places hold together                                       *)
(***************************************************************************)
\* The places of the player's inventory, of the container and the cursor.
CursorPlace == [at |-> "cursor", slot |-> 0]
PlayerPlace(p) == [at |-> "player", slot |-> p]
WindowPlace(s) == [at |-> "window", slot |-> s]
Places(S, T) == {PlayerPlace(p) : p \in S} \cup {WindowPlace(s) : s \in T} \cup {CursorPlace}

\* How much of a kind each of them holds.
At(player, box, cursor, place) ==
    IF place.at = "player" THEN player[place.slot]
    ELSE IF place.at = "window" THEN box[place.slot] ELSE cursor
Tally(player, box, cursor, kind) ==
    [place \in Places(DOMAIN player, DOMAIN box) |-> CountOf(At(player, box, cursor, place), kind)]

LEMMA PlacesFinite ==
    ASSUME NEW S, NEW T, IsFiniteSet(S), IsFiniteSet(T)
    PROVE  IsFiniteSet(Places(S, T))
  <1>1. IsFiniteSet({PlayerPlace(p) : p \in S})
    <2> DEFINE f == [p \in S |-> PlayerPlace(p)]
               U == {PlayerPlace(p) : p \in S}
    <2>1. f \in Surjection(S, U)
      BY DEF Surjection
    <2> HIDE DEF f, U
    <2>2. IsFiniteSet(U)
      BY <2>1, FS_Surjection
    <2> QED BY <2>2 DEF U
  <1>2. IsFiniteSet({WindowPlace(s) : s \in T})
    <2> DEFINE f == [p \in T |-> WindowPlace(p)]
               U == {WindowPlace(p) : p \in T}
    <2>1. f \in Surjection(T, U)
      BY DEF Surjection
    <2> HIDE DEF f, U
    <2>2. IsFiniteSet(U)
      BY <2>1, FS_Surjection
    <2> QED BY <2>2 DEF U
  <1>3. IsFiniteSet({CursorPlace})
    BY FS_Singleton
  <1> QED BY <1>1, <1>2, <1>3, FS_Union DEF Places

LEMMA CountsAreNumbers ==
    ASSUME NEW item \in Item, NEW kind \in Kinds
    PROVE  CountOf(item, kind) \in Nat
  BY DEF CountOf, Item, Stack, Empty

\* What is counted where.
Counts(cnt, S, T, player, box, cursor, kind) ==
    /\ cnt \in [Places(S, T) -> Nat]
    /\ CursorPlace \in Places(S, T) /\ cnt[CursorPlace] = CountOf(cursor, kind)
    /\ \A p \in S : /\ PlayerPlace(p) \in Places(S, T) /\ PlayerPlace(p) # CursorPlace
                    /\ cnt[PlayerPlace(p)] = CountOf(player[p], kind)
    /\ \A s \in T : /\ WindowPlace(s) \in Places(S, T) /\ WindowPlace(s) # CursorPlace
                    /\ cnt[WindowPlace(s)] = CountOf(box[s], kind)

LEMMA TallyTyped ==
    ASSUME NEW S, NEW T, NEW player \in [S -> Item], NEW box \in [T -> Item], NEW cursor \in Item,
           NEW kind \in Kinds
    PROVE  Counts(Tally(player, box, cursor, kind), S, T, player, box, cursor, kind)
  <1> DEFINE cnt == Tally(player, box, cursor, kind)
  <1>1. DOMAIN player = S /\ DOMAIN box = T
    OBVIOUS
  <1>2. cnt = [place \in Places(S, T) |-> CountOf(At(player, box, cursor, place), kind)]
    BY <1>1 DEF Tally
  <1>3. ASSUME NEW place \in Places(S, T)
        PROVE  At(player, box, cursor, place) \in Item
    BY DEF Places, At, CursorPlace, PlayerPlace, WindowPlace
  <1>4. cnt \in [Places(S, T) -> Nat]
    BY <1>2, <1>3, CountsAreNumbers
  <1>5. CursorPlace \in Places(S, T) /\ At(player, box, cursor, CursorPlace) = cursor
    BY DEF Places, At, CursorPlace
  <1>6. ASSUME NEW p \in S
        PROVE  /\ PlayerPlace(p) \in Places(S, T) /\ PlayerPlace(p) # CursorPlace
               /\ At(player, box, cursor, PlayerPlace(p)) = player[p]
    BY DEF Places, At, CursorPlace, PlayerPlace
  <1>7. ASSUME NEW s \in T
        PROVE  /\ WindowPlace(s) \in Places(S, T) /\ WindowPlace(s) # CursorPlace
               /\ At(player, box, cursor, WindowPlace(s)) = box[s]
    BY DEF Places, At, CursorPlace, WindowPlace
  <1> HIDE DEF cnt
  <1>8. Counts(cnt, S, T, player, box, cursor, kind)
    BY <1>2, <1>4, <1>5, <1>6, <1>7 DEF Counts
  <1> QED BY <1>8 DEF cnt

\* Every place is one of these, and none is two.
LEMMA PlaceForms ==
    ASSUME NEW S, NEW T
    PROVE  /\ \A z \in Places(S, T) : \/ z = CursorPlace
                                      \/ \E p \in S : z = PlayerPlace(p)
                                      \/ \E s \in T : z = WindowPlace(s)
           /\ \A p, q : PlayerPlace(p) = PlayerPlace(q) => p = q
           /\ \A p, q : WindowPlace(p) = WindowPlace(q) => p = q
           /\ \A p, q : PlayerPlace(p) # WindowPlace(q)
  <1>1. \A z \in Places(S, T) : \/ z = CursorPlace
                                \/ \E p \in S : z = PlayerPlace(p)
                                \/ \E s \in T : z = WindowPlace(s)
    BY DEF Places
  <1>2. \A p : PlayerPlace(p).at = "player" /\ PlayerPlace(p).slot = p
    BY DEF PlayerPlace
  <1>3. \A p : WindowPlace(p).at = "window" /\ WindowPlace(p).slot = p
    BY DEF WindowPlace
  <1>4. ASSUME NEW p, NEW q, PlayerPlace(p) = PlayerPlace(q) PROVE p = q
    <2>1. PlayerPlace(p).slot = PlayerPlace(q).slot
      BY <1>4
    <2> QED BY <1>2, <2>1
  <1>5. ASSUME NEW p, NEW q, WindowPlace(p) = WindowPlace(q) PROVE p = q
    <2>1. WindowPlace(p).slot = WindowPlace(q).slot
      BY <1>5
    <2> QED BY <1>3, <2>1
  <1>6. ASSUME NEW p, NEW q, PlayerPlace(p) = WindowPlace(q) PROVE FALSE
    <2>1. PlayerPlace(p).at = "player" /\ WindowPlace(q).at = "window"
      BY <1>2, <1>3
    <2>2. PlayerPlace(p).at = "window"
      BY <1>6, <2>1
    <2> QED BY <2>1, <2>2
  <1> QED BY <1>1, <1>4, <1>5, <1>6

\* A place and the cursor change: so does the whole, by as much.
LEMMA PutsTotal ==
    ASSUME NEW S, NEW T, IsFiniteSet(S), IsFiniteSet(T),
           NEW player \in [S -> Item], NEW box \in [T -> Item], NEW cursor \in Item,
           NEW old \in Item, NEW x \in Item, NEW y \in Item, NEW player2, NEW box2,
           Puts(player, box, old, x, player2, box2), NEW kind \in Kinds
    PROVE  LET one == Total(Tally(player, box, cursor, kind))
               two == Total(Tally(player2, box2, y, kind))
           IN  /\ one \in Nat /\ two \in Nat
               /\ two - one = (CountOf(x, kind) + CountOf(y, kind))
                               - (CountOf(old, kind) + CountOf(cursor, kind))
  <1> DEFINE cnt == Tally(player, box, cursor, kind)
             cnt2 == Tally(player2, box2, y, kind)
  <1>0. DOMAIN player = S /\ DOMAIN box = T /\ IsFiniteSet(Places(S, T))
    BY PlacesFinite
  <1>a. Counts(cnt, S, T, player, box, cursor, kind)
    BY TallyTyped
  <1>1. /\ cnt \in [Places(S, T) -> Nat]
        /\ CursorPlace \in Places(S, T) /\ cnt[CursorPlace] = CountOf(cursor, kind)
        /\ \A p \in S : /\ PlayerPlace(p) \in Places(S, T) /\ PlayerPlace(p) # CursorPlace
                        /\ cnt[PlayerPlace(p)] = CountOf(player[p], kind)
        /\ \A s \in T : /\ WindowPlace(s) \in Places(S, T) /\ WindowPlace(s) # CursorPlace
                        /\ cnt[WindowPlace(s)] = CountOf(box[s], kind)
    BY <1>a DEF Counts
  <1>2. player2 \in [S -> Item] /\ box2 \in [T -> Item]
    BY <1>0 DEF Puts
  <1>b. Counts(cnt2, S, T, player2, box2, y, kind)
    BY <1>2, TallyTyped
  <1>3. /\ cnt2 \in [Places(S, T) -> Nat]
        /\ cnt2[CursorPlace] = CountOf(y, kind)
        /\ \A p \in S : cnt2[PlayerPlace(p)] = CountOf(player2[p], kind)
        /\ \A s \in T : cnt2[WindowPlace(s)] = CountOf(box2[s], kind)
    BY <1>b DEF Counts
  <1>4. \A z \in Places(S, T) : \/ z = CursorPlace
                                \/ \E p \in S : z = PlayerPlace(p)
                                \/ \E s \in T : z = WindowPlace(s)
    BY PlaceForms
  <1> HIDE DEF cnt, cnt2
  <1>5. \E z \in Places(S, T) :
          /\ z # CursorPlace /\ cnt[z] = CountOf(old, kind) /\ cnt2[z] = CountOf(x, kind)
          /\ \A w \in Places(S, T) : w # z /\ w # CursorPlace => cnt2[w] = cnt[w]
    <2>1. ASSUME NEW p \in S, old = player[p], player2 = [player EXCEPT ![p] = x], box2 = box
          PROVE  /\ PlayerPlace(p) \in Places(S, T)
                 /\ PlayerPlace(p) # CursorPlace /\ cnt[PlayerPlace(p)] = CountOf(old, kind)
                 /\ cnt2[PlayerPlace(p)] = CountOf(x, kind)
                 /\ \A w \in Places(S, T) : w # PlayerPlace(p) /\ w # CursorPlace => cnt2[w] = cnt[w]
      <3>1. \A q \in S : q # p => player2[q] = player[q]
        BY <2>1
      <3>2. player2[p] = x
        BY <2>1
      <3> QED BY <1>1, <1>3, <1>4, <2>1, <3>1, <3>2
    <2>2. ASSUME NEW s \in T, old = box[s], box2 = [box EXCEPT ![s] = x], player2 = player
          PROVE  /\ WindowPlace(s) \in Places(S, T)
                 /\ WindowPlace(s) # CursorPlace /\ cnt[WindowPlace(s)] = CountOf(old, kind)
                 /\ cnt2[WindowPlace(s)] = CountOf(x, kind)
                 /\ \A w \in Places(S, T) : w # WindowPlace(s) /\ w # CursorPlace => cnt2[w] = cnt[w]
      <3>1. \A t \in T : t # s => box2[t] = box[t]
        BY <2>2
      <3>2. box2[s] = x
        BY <2>2
      <3> QED BY <1>1, <1>3, <1>4, <2>2, <3>1, <3>2
    <2> QED BY <1>0, <2>1, <2>2 DEF Puts
  <1>6. PICK z \in Places(S, T) :
          /\ z # CursorPlace /\ cnt[z] = CountOf(old, kind) /\ cnt2[z] = CountOf(x, kind)
          /\ \A w \in Places(S, T) : w # z /\ w # CursorPlace => cnt2[w] = cnt[w]
    BY <1>5
  <1>7. /\ Total(cnt) \in Nat /\ Total(cnt2) \in Nat
        /\ Total(cnt2) - Total(cnt) = (cnt2[z] + cnt2[CursorPlace]) - (cnt[z] + cnt[CursorPlace])
    BY <1>0, <1>1, <1>3, <1>6, TotalChanges
  <1> QED BY <1>1, <1>3, <1>6, <1>7 DEF cnt, cnt2

\* Two places exchanged: the whole stays.
LEMMA ExchangeTotal ==
    ASSUME NEW S, NEW T, IsFiniteSet(S), IsFiniteSet(T),
           NEW player \in [S -> Item], NEW box \in [T -> Item], NEW cursor \in Item,
           NEW player2, NEW box2, Exchanges(player, box, player2, box2), NEW kind \in Kinds
    PROVE  Total(Tally(player2, box2, cursor, kind)) = Total(Tally(player, box, cursor, kind))
  <1> DEFINE cnt == Tally(player, box, cursor, kind)
             cnt2 == Tally(player2, box2, cursor, kind)
  <1>0. DOMAIN player = S /\ DOMAIN box = T /\ IsFiniteSet(Places(S, T))
    BY PlacesFinite
  <1>a. Counts(cnt, S, T, player, box, cursor, kind)
    BY TallyTyped
  <1>1. /\ cnt \in [Places(S, T) -> Nat]
        /\ CursorPlace \in Places(S, T) /\ cnt[CursorPlace] = CountOf(cursor, kind)
        /\ \A p \in S : /\ PlayerPlace(p) \in Places(S, T) /\ PlayerPlace(p) # CursorPlace
                        /\ cnt[PlayerPlace(p)] = CountOf(player[p], kind)
        /\ \A s \in T : /\ WindowPlace(s) \in Places(S, T) /\ WindowPlace(s) # CursorPlace
                        /\ cnt[WindowPlace(s)] = CountOf(box[s], kind)
    BY <1>a DEF Counts
  <1>2. player2 \in [S -> Item] /\ box2 \in [T -> Item]
    BY <1>0 DEF Exchanges
  <1>b. Counts(cnt2, S, T, player2, box2, cursor, kind)
    BY <1>2, TallyTyped
  <1>3. /\ cnt2 \in [Places(S, T) -> Nat]
        /\ cnt2[CursorPlace] = CountOf(cursor, kind)
        /\ \A p \in S : cnt2[PlayerPlace(p)] = CountOf(player2[p], kind)
        /\ \A s \in T : cnt2[WindowPlace(s)] = CountOf(box2[s], kind)
    BY <1>b DEF Counts
  <1>4. /\ \A z \in Places(S, T) : \/ z = CursorPlace
                                   \/ \E p \in S : z = PlayerPlace(p)
                                   \/ \E s \in T : z = WindowPlace(s)
        /\ \A p, q : PlayerPlace(p) = PlayerPlace(q) => p = q
        /\ \A p, q : PlayerPlace(p) # WindowPlace(q)
    BY PlaceForms
  <1> HIDE DEF cnt, cnt2
  <1>5. ASSUME NEW u \in Places(S, T), NEW v \in Places(S, T), u # v,
               cnt2[u] = cnt[v], cnt2[v] = cnt[u],
               \A w \in Places(S, T) : w # u /\ w # v => cnt2[w] = cnt[w]
        PROVE  Total(cnt2) = Total(cnt)
    <2>1. /\ Total(cnt) \in Nat /\ Total(cnt2) \in Nat
          /\ Total(cnt2) - Total(cnt) = (cnt2[u] + cnt2[v]) - (cnt[u] + cnt[v])
      BY <1>0, <1>1, <1>3, <1>5, TotalChanges
    <2>2. cnt[u] \in Nat /\ cnt[v] \in Nat
      BY <1>1
    <2>3. cnt2[u] + cnt2[v] = cnt[u] + cnt[v]
      BY <1>5, <2>2
    <2> DEFINE a == cnt[u] + cnt[v]
               b == cnt2[u] + cnt2[v]
               one == Total(cnt)
               two == Total(cnt2)
    <2>4. a \in Nat /\ b = a /\ two - one = b - a /\ one \in Nat /\ two \in Nat
      BY <2>1, <2>2, <2>3
    <2> HIDE DEF a, b, one, two
    <2>5. two = one
      BY <2>4
    <2> QED BY <2>5 DEF one, two
  <1>6. ASSUME NEW p \in S, NEW q \in S, box2 = box,
               player2 = [r \in S |->
                            IF r = q THEN player[p] ELSE IF r = p THEN player[q] ELSE player[r]]
        PROVE  Total(cnt2) = Total(cnt)
    <2>1. CASE p = q
      <3>1. player2 = player
        BY <1>6, <2>1
      <3> QED BY <1>6, <3>1 DEF cnt, cnt2
    <2>2. CASE p # q
      <3>1. player2[p] = player[q] /\ player2[q] = player[p] /\ \A r \in S : r # p /\ r # q => player2[r] = player[r]
        BY <1>6, <2>2
      <3>2. PlayerPlace(p) \in Places(S, T) /\ PlayerPlace(q) \in Places(S, T) /\ PlayerPlace(p) # PlayerPlace(q)
        BY <1>1, <1>4, <2>2
      <3>3. cnt2[PlayerPlace(p)] = cnt[PlayerPlace(q)] /\ cnt2[PlayerPlace(q)] = cnt[PlayerPlace(p)]
        BY <1>1, <1>3, <3>1
      <3>4. \A w \in Places(S, T) : w # PlayerPlace(p) /\ w # PlayerPlace(q) => cnt2[w] = cnt[w]
        BY <1>1, <1>3, <1>4, <1>6, <3>1
      <3> QED BY <1>5, <3>2, <3>3, <3>4
    <2> QED BY <2>1, <2>2
  <1>7. ASSUME NEW p \in S, NEW s \in T,
               player2 = [r \in S |-> IF r = p THEN box[s] ELSE player[r]],
               box2 = [r \in T |-> IF r = s THEN player[p] ELSE box[r]]
        PROVE  Total(cnt2) = Total(cnt)
    <2>1. /\ player2[p] = box[s] /\ box2[s] = player[p]
          /\ \A r \in S : r # p => player2[r] = player[r]
          /\ \A r \in T : r # s => box2[r] = box[r]
      BY <1>7
    <2>2. PlayerPlace(p) \in Places(S, T) /\ WindowPlace(s) \in Places(S, T) /\ PlayerPlace(p) # WindowPlace(s)
      BY <1>1, <1>4
    <2>3. cnt2[PlayerPlace(p)] = cnt[WindowPlace(s)] /\ cnt2[WindowPlace(s)] = cnt[PlayerPlace(p)]
      BY <1>1, <1>3, <2>1
    <2>4. \A w \in Places(S, T) : w # PlayerPlace(p) /\ w # WindowPlace(s) => cnt2[w] = cnt[w]
      BY <1>1, <1>3, <1>4, <2>1
    <2> QED BY <1>5, <2>2, <2>3, <2>4
  <1>8. Total(cnt2) = Total(cnt)
    BY <1>0, <1>6, <1>7 DEF Exchanges
  <1> QED BY <1>8 DEF cnt, cnt2

\* What is held is what all the places hold together; a place of the window that has no
\* item yet holds nothing.
LEMMA HeldIs ==
    InventoryTyped => \A kind \in Kinds :
        Held(kind) = Total(Tally(playerItems, Box, cursorItem, kind))
  <1> SUFFICES ASSUME InventoryTyped, NEW kind \in Kinds
               PROVE  Held(kind) = Total(Tally(playerItems, Box, cursorItem, kind))
    OBVIOUS
  <1> DEFINE T == 0..window.size - 1
             S == Places(PlayerSlots, T)
             cnt == Tally(playerItems, Box, cursorItem, kind)
             K == Locations
             held == [place \in K |-> CountOf(Located(place), kind)]
             g == CHOOSE f : Sums(f, held, K)
  <1>1. /\ playerItems \in [PlayerSlots -> Item] /\ Box \in [T -> Item] /\ cursorItem \in Item
        /\ window.size \in Nat
    BY SimPlaces, WindowFacts DEF InventoryTyped
  <1>2. IsFiniteSet(S)
    <2>1. PlayerSize \in Int /\ window.size \in Int
      BY <1>1, StackRequestsAssumption
    <2>2. IsFiniteSet(PlayerSlots) /\ IsFiniteSet(T)
      BY <2>1, FS_Interval DEF PlayerSlots
    <2> HIDE DEF T
    <2> QED BY <2>2, PlacesFinite
  <1>3. Counts(cnt, PlayerSlots, T, playerItems, Box, cursorItem, kind)
    BY <1>1, TallyTyped
  <1>4. \A s \in DOMAIN window.items : s < window.size => s \in T /\ window.items[s] = Box[s]
    <2>1. window.size \in Nat /\ \A s \in DOMAIN window.items : s \in Nat
      BY WindowFacts, MenuLayout
    <2> QED BY <2>1 DEF Box
  <1>5. ASSUME NEW p \in K
        PROVE  p \in S /\ CountOf(Located(p), kind) = cnt[p]
    <2>1. CASE p \in [at : {"player"}, slot : PlayerSlots]
      <3>1. p = PlayerPlace(p.slot) /\ p.slot \in PlayerSlots /\ Located(p) = playerItems[p.slot]
        BY <2>1 DEF PlayerPlace, Located
      <3> HIDE DEF S, cnt
      <3> QED BY <1>3, <3>1 DEF Counts, S
    <2>2. CASE p \in [at : {"window"}, slot : {s \in DOMAIN window.items : s < window.size}]
      <3>1. p = WindowPlace(p.slot) /\ p.slot \in T /\ Located(p) = Box[p.slot]
        BY <1>4, <2>2 DEF WindowPlace, Located
      <3> HIDE DEF S, cnt, T
      <3> QED BY <1>3, <3>1 DEF Counts, S
    <2>3. CASE p \in [at : {"cursor"}, slot : {0}]
      <3>1. p = CursorPlace /\ Located(p) = cursorItem
        BY <2>3 DEF CursorPlace, Located
      <3> HIDE DEF S, cnt
      <3> QED BY <1>3, <3>1 DEF Counts, S
    <2> QED BY <2>1, <2>2, <2>3 DEF Locations
  <1>6. \A p \in S \ K : cnt[p] = 0
    <2> SUFFICES ASSUME NEW p \in S, p \notin K PROVE cnt[p] = 0
      OBVIOUS
    <2>1. CASE p = CursorPlace
      BY <2>1 DEF Locations, CursorPlace
    <2>2. CASE \E s \in PlayerSlots : p = PlayerPlace(s)
      BY <2>2 DEF Locations, PlayerPlace
    <2>3. CASE \E s \in T : p = WindowPlace(s)
      <3>1. PICK s \in T : p = WindowPlace(s)
        BY <2>3
      <3>2. s < window.size
        BY <1>1
      <3>3. s \notin DOMAIN window.items
        BY <3>1, <3>2 DEF Locations, WindowPlace
      <3>4. Box[s] = Empty
        BY <3>3 DEF Box
      <3>5. CountOf(Empty, kind) = 0
        BY ClicksAssumption DEF CountOf, Empty
      <3> HIDE DEF S, cnt, T
      <3>6. cnt[WindowPlace(s)] = CountOf(Box[s], kind)
        BY <1>3, <3>1 DEF Counts
      <3> QED BY <3>1, <3>4, <3>5, <3>6
    <2>4. p = CursorPlace \/ (\E s \in PlayerSlots : p = PlayerPlace(s)) \/ (\E s \in T : p = WindowPlace(s))
      <3> HIDE DEF T
      <3>1. p \in Places(PlayerSlots, T)
        OBVIOUS
      <3> QED BY <3>1, PlaceForms
    <2> QED BY <2>1, <2>2, <2>3, <2>4
  <1>7. Held(kind) = g[K]
    <2>1. Held(kind) =
             (CHOOSE f : f = [s \in SUBSET Locations |->
                 IF s = {} THEN 0 ELSE CountOf(Located(Picked(s)), kind) + f[s \ {Picked(s)}]])[Locations]
      BY DEF Held, MapThenSumSet, MapThenFoldSet, Picked
    <2>2. ASSUME NEW f
          PROVE  Sums(f, held, K) <=>
                   f = [s \in SUBSET Locations |->
                       IF s = {} THEN 0 ELSE CountOf(Located(Picked(s)), kind) + f[s \ {Picked(s)}]]
      <3>1. \A s \in SUBSET K : s # {} => Picked(s) \in K
        BY DEF Picked
      <3>2. \A s \in SUBSET K : s # {} => held[Picked(s)] = CountOf(Located(Picked(s)), kind)
        BY <3>1
      <3> HIDE DEF held
      <3>3. [s \in SUBSET K |-> IF s = {} THEN 0 ELSE held[Picked(s)] + f[s \ {Picked(s)}]]
              = [s \in SUBSET K |-> IF s = {} THEN 0 ELSE CountOf(Located(Picked(s)), kind) + f[s \ {Picked(s)}]]
        BY <3>2
      <3> QED BY <3>3 DEF Sums
    <2>3. g = CHOOSE f : f = [s \in SUBSET Locations |->
                 IF s = {} THEN 0 ELSE CountOf(Located(Picked(s)), kind) + f[s \ {Picked(s)}]]
      <3> HIDE DEF held
      <3> QED BY <2>2, Zenon
    <2> HIDE DEF g
    <2> QED BY <2>1, <2>3
  <1>8. K \in SUBSET S /\ IsFiniteSet(K)
    BY <1>2, <1>5, FS_Subset
  <1>9. Sums(g, held, K)
    <2>1. \A p \in K : held[p] = cnt[p]
      BY <1>5
    <2>2. \A p \in K : cnt[p] \in Nat
      <3> HIDE DEF S, cnt
      <3> QED BY <1>3, <1>8 DEF Counts, S
    <2>3. Numbers(held, K)
      BY <2>1, <2>2 DEF Numbers
    <2> HIDE DEF K, held
    <2>4. \E f \in [SUBSET K -> Nat] : Sums(f, held, K)
      BY <1>8, <2>3, SumsExist
    <2> QED BY <2>4
  <1>10. Sums(g, cnt, K)
    <2>1. \A s \in SUBSET K : s # {} => held[Picked(s)] = cnt[Picked(s)]
      BY <1>5 DEF Picked
    <2> HIDE DEF g, K, held, cnt
    <2>2. [s \in SUBSET K |-> IF s = {} THEN 0 ELSE held[Picked(s)] + g[s \ {Picked(s)}]]
            = [s \in SUBSET K |-> IF s = {} THEN 0 ELSE cnt[Picked(s)] + g[s \ {Picked(s)}]]
      BY <2>1
    <2> QED BY <1>9, <2>2 DEF Sums
  <1>11. cnt \in [S -> Nat]
    BY <1>3 DEF Counts
  <1> HIDE DEF g, held, S, cnt, K, T
  <1>12. Total(cnt) = g[K]
    BY <1>2, <1>6, <1>8, <1>10, <1>11, TotalWithin
  <1> QED BY <1>7, <1>12 DEF cnt

\* What is held, in numbers, before and after a step.
Whole(kind) == Total(Tally(playerItems, Box, cursorItem, kind))

LEMMA HeldAfter ==
    (InventoryTyped => \A kind \in Kinds : Held(kind) = Whole(kind))'
  <1>1. InventoryTyped => \A kind \in Kinds : Held(kind) = Whole(kind)
    BY HeldIs DEF Whole
  <1> QED BY <1>1, PTL

\* A click on a place and the cursor.
LEMMA PlacePut ==
    ASSUME InventoryTyped, NEW old \in Item, NEW x \in Item, cursorItem' \in Item,
           Puts(playerItems, Box, old, x, playerItems', Box'), NEW kind \in Kinds
    PROVE  /\ Whole(kind) \in Nat /\ Whole(kind)' \in Nat
           /\ Whole(kind)' - Whole(kind) = (CountOf(x, kind) + CountOf(cursorItem', kind))
                                           - (CountOf(old, kind) + CountOf(cursorItem, kind))
  <1> DEFINE T == 0..window.size - 1
  <1>1. /\ playerItems \in [PlayerSlots -> Item] /\ Box \in [T -> Item] /\ cursorItem \in Item
        /\ window.size \in Nat
    BY SimPlaces, WindowFacts DEF InventoryTyped
  <1>2. IsFiniteSet(PlayerSlots) /\ IsFiniteSet(T)
    <2>1. PlayerSize \in Int /\ window.size \in Int
      BY <1>1, StackRequestsAssumption
    <2> QED BY <2>1, FS_Interval DEF PlayerSlots
  <1> HIDE DEF T
  <1> DEFINE one == Total(Tally(playerItems, Box, cursorItem, kind))
             two == Total(Tally(playerItems', Box', cursorItem', kind))
  <1>3. /\ one \in Nat /\ two \in Nat
        /\ two - one = (CountOf(x, kind) + CountOf(cursorItem', kind))
                       - (CountOf(old, kind) + CountOf(cursorItem, kind))
    BY <1>1, <1>2, PutsTotal
  <1> QED BY <1>3 DEF Whole

\* A left or right click.
LEMMA ItemWhole ==
    ASSUME Typed, IDsDistinct, ClickItem, NEW kind \in Kinds
    PROVE  /\ InventoryTyped' /\ Head(clicks).op \in {"left", "right"}
           /\ Whole(kind)' = Whole(kind)
  <1>0. InventoryTyped /\ InventoryTyped' /\ cursorItem \in Item /\ nextStackID' \in Nat \ {0}
    BY ItemKeeps DEF Typed, InventoryTyped
  <1> DEFINE slot == Head(clicks).slot
             old == SimItems[slot]
             x == SlotResult(slot).slot
             y == SlotResult(slot).cursor
  <1>1. /\ slot \in SimSlots /\ Head(clicks).op \in {"left", "right"}
        /\ x \in Item /\ y \in Item
        /\ cursorItem' = y
    BY ItemSent DEF Stands
  <1>2. Store([SimItems EXCEPT ![slot] = x], y)
    BY DEF ClickItem, Clicked, SlotResult
  <1>3. old \in Item
    BY <1>0, <1>1, SimTyped
  <1>4. CountOf(x, kind) + CountOf(y, kind) = CountOf(old, kind) + CountOf(cursorItem, kind)
    <2>1. CASE Head(clicks).op = "right"
      <3>1. SlotResult(slot) = RightClick(old, cursorItem, FreshID)
        BY <2>1 DEF SlotResult
      <3>2. FreshID \in Nat \ {0}
        BY <1>0, FreshFacts
      <3> HIDE DEF old, slot
      <3> QED BY <1>0, <1>3, <3>1, <3>2, RightClickConserves
    <2>2. CASE Head(clicks).op # "right"
      <3>1. SlotResult(slot) = LeftClick(old, cursorItem)
        BY <2>2 DEF SlotResult
      <3> HIDE DEF old, slot
      <3> QED BY <1>0, <1>3, <3>1, LeftClickConserves
    <2> QED BY <2>1, <2>2
  <1> HIDE DEF slot, x, y
  <1>5. Puts(playerItems, Box, old, x, playerItems', Box')
    <2>1. DOMAIN playerItems = PlayerSlots
      BY <1>0 DEF InventoryTyped
    <2> QED BY <1>0, <1>1, <1>2, <2>1, StoredOne DEF Puts
  <1> HIDE DEF old
  <1>6. /\ Whole(kind) \in Nat /\ Whole(kind)' \in Nat
        /\ Whole(kind)' - Whole(kind) = (CountOf(x, kind) + CountOf(cursorItem', kind))
                                        - (CountOf(old, kind) + CountOf(cursorItem, kind))
    BY <1>0, <1>1, <1>3, <1>5, PlacePut
  <1>7. CountOf(old, kind) \in Nat /\ CountOf(cursorItem, kind) \in Nat
    BY <1>0, <1>3, CountsAreNumbers
  <1> DEFINE a == CountOf(old, kind) + CountOf(cursorItem, kind)
             b == CountOf(x, kind) + CountOf(cursorItem', kind)
             one == Whole(kind)
             two == Whole(kind)'
  <1>8. a \in Nat /\ b = a /\ one \in Nat /\ two \in Nat /\ two - one = b - a
    BY <1>1, <1>4, <1>6, <1>7
  <1> HIDE DEF a, b, one, two
  <1>9. two = one
    BY <1>8
  <1> QED BY <1>0, <1>1, <1>9 DEF one, two

\* Taking one off, or all, leaves no more.
LEMMA DropsLess ==
    ASSUME NEW item \in Item, NEW kind \in Kinds
    PROVE  /\ CountOf(Empty, kind) = 0
           /\ CountOf(Subtract(item, 1), kind) \in Nat
           /\ CountOf(Subtract(item, 1), kind) <= CountOf(item, kind)
  <1>1. CountOf(Empty, kind) = 0
    BY ClicksAssumption DEF CountOf, Empty
  <1>2. CASE item.count >= 1
    BY <1>2, SubtractCounts DEF CountOf, Item, Stack, Empty
  <1>3. CASE ~(item.count >= 1)
    BY <1>1, <1>3, CountsAreNumbers DEF Subtract, Item, Stack, Empty
  <1> QED BY <1>1, <1>2, <1>3

\* A drop from a slot.
LEMMA DropWhole ==
    ASSUME Typed, IDsDistinct, ClickDrops, NEW kind \in Kinds
    PROVE  /\ InventoryTyped' /\ Head(clicks).op \in {"dropOne", "dropAll"}
           /\ Whole(kind)' <= Whole(kind)
  <1>0. InventoryTyped /\ InventoryTyped' /\ cursorItem \in Item /\ nextStackID' \in Nat \ {0}
    BY DropsKeeps DEF Typed, InventoryTyped
  <1> DEFINE slot == Head(clicks).slot
             old == SimItems[slot]
             x == Dropped(slot)
  <1>1. /\ slot \in SimSlots /\ Head(clicks).op \in {"dropOne", "dropAll"}
        /\ x \in Item /\ cursorItem' = cursorItem
    BY DropSent DEF Stands
  <1>2. Store([SimItems EXCEPT ![slot] = x], cursorItem)
    BY DEF ClickDrops, Clicked, Dropped
  <1>3. old \in Item
    BY <1>0, <1>1, SimTyped
  <1>4. CountOf(x, kind) \in Nat /\ CountOf(x, kind) <= CountOf(old, kind) /\ CountOf(old, kind) \in Nat
    <2>1. x = IF Head(clicks).op = "dropAll" THEN Empty ELSE Subtract(old, 1)
      BY DEF Dropped
    <2> HIDE DEF x, old
    <2> QED BY <1>3, <2>1, DropsLess, CountsAreNumbers
  <1> HIDE DEF slot, x
  <1>5. Puts(playerItems, Box, old, x, playerItems', Box')
    <2>1. DOMAIN playerItems = PlayerSlots
      BY <1>0 DEF InventoryTyped
    <2> QED BY <1>0, <1>1, <1>2, <2>1, StoredOne DEF Puts
  <1> HIDE DEF old
  <1>6. /\ Whole(kind) \in Nat /\ Whole(kind)' \in Nat
        /\ Whole(kind)' - Whole(kind) = (CountOf(x, kind) + CountOf(cursorItem', kind))
                                        - (CountOf(old, kind) + CountOf(cursorItem, kind))
    BY <1>0, <1>1, <1>3, <1>5, PlacePut
  <1>7. CountOf(cursorItem, kind) \in Nat
    BY <1>0, CountsAreNumbers
  <1> DEFINE a == CountOf(old, kind)
             b == CountOf(x, kind)
             c == CountOf(cursorItem, kind)
             one == Whole(kind)
             two == Whole(kind)'
  <1>8. /\ a \in Nat /\ b \in Nat /\ b <= a /\ c \in Nat /\ one \in Nat /\ two \in Nat
        /\ two - one = (b + c) - (a + c)
    BY <1>1, <1>4, <1>6, <1>7
  <1> HIDE DEF a, b, c, one, two
  <1>9. two <= one
    BY <1>8
  <1> QED BY <1>0, <1>1, <1>9 DEF one, two

\* A drop outside.
LEMMA OutsideWhole ==
    ASSUME Typed, IDsDistinct, ClickOutside, NEW kind \in Kinds
    PROVE  /\ InventoryTyped' /\ Head(clicks).op = "dropOne"
           /\ Whole(kind)' <= Whole(kind)
  <1>0. InventoryTyped /\ InventoryTyped' /\ cursorItem \in Item
        /\ playerItems' = playerItems /\ Box' = Box
    BY OutsideKeeps DEF Typed, InventoryTyped
  <1>1. Head(clicks).op = "dropOne"
    <2>1. clicks # <<>> /\ Head(clicks).slot = Outside
      BY DEF ClickOutside
    <2> QED BY <2>1, ClickFacts DEF PlannedClick
  <1>2. cursorItem' = Subtract(cursorItem, 1) /\ cursorItem' \in Item
    BY <1>0, OutsideSent DEF Stands, InventoryTyped
  <1> DEFINE old == playerItems[0]
  <1>3. /\ old \in Item
        /\ Puts(playerItems, Box, old, old, playerItems', Box')
    <2>1. 0 \in PlayerSlots
      BY StackRequestsAssumption DEF PlayerSlots
    <2>2. playerItems' = [playerItems EXCEPT ![0] = old] /\ DOMAIN playerItems = PlayerSlots
      BY <1>0 DEF InventoryTyped
    <2> QED BY <1>0, <2>1, <2>2 DEF Puts, InventoryTyped
  <1> HIDE DEF old
  <1>4. /\ Whole(kind) \in Nat /\ Whole(kind)' \in Nat
        /\ Whole(kind)' - Whole(kind) = (CountOf(old, kind) + CountOf(cursorItem', kind))
                                        - (CountOf(old, kind) + CountOf(cursorItem, kind))
    BY <1>0, <1>2, <1>3, PlacePut
  <1>5. /\ CountOf(old, kind) \in Nat /\ CountOf(cursorItem, kind) \in Nat
        /\ CountOf(cursorItem', kind) \in Nat /\ CountOf(cursorItem', kind) <= CountOf(cursorItem, kind)
    BY <1>0, <1>2, <1>3, CountsAreNumbers, DropsLess
  <1> DEFINE a == CountOf(cursorItem, kind)
             b == CountOf(cursorItem', kind)
             c == CountOf(old, kind)
             one == Whole(kind)
             two == Whole(kind)'
  <1>6. /\ a \in Nat /\ b \in Nat /\ b <= a /\ c \in Nat /\ one \in Nat /\ two \in Nat
        /\ two - one = (c + b) - (c + a)
    BY <1>4, <1>5
  <1> HIDE DEF a, b, c, one, two
  <1>7. two <= one
    BY <1>6
  <1> QED BY <1>0, <1>1, <1>7 DEF one, two

\* A hotbar click.
LEMMA HotbarWhole ==
    ASSUME Typed, IDsDistinct, MoveToHotbar, NEW kind \in Kinds
    PROVE  /\ InventoryTyped' /\ Head(clicks).op = "hotbar"
           /\ Whole(kind)' = Whole(kind)
  <1>0. /\ InventoryTyped /\ InventoryTyped' /\ cursorItem \in Item
        /\ Exchanges(playerItems, Box, playerItems', Box')
    BY HotbarKeeps DEF Typed, InventoryTyped
  <1>1. Head(clicks).op = "hotbar" /\ cursorItem' = cursorItem
    BY DEF MoveToHotbar, Clicked, Store
  <1> DEFINE T == 0..window.size - 1
  <1>2. /\ playerItems \in [PlayerSlots -> Item] /\ Box \in [T -> Item]
        /\ window.size \in Nat
    BY <1>0, SimPlaces, WindowFacts DEF InventoryTyped
  <1>3. IsFiniteSet(PlayerSlots) /\ IsFiniteSet(T)
    <2>1. PlayerSize \in Int /\ window.size \in Int
      BY <1>2, StackRequestsAssumption
    <2> QED BY <2>1, FS_Interval DEF PlayerSlots
  <1> HIDE DEF T
  <1>4. Total(Tally(playerItems', Box', cursorItem, kind)) = Total(Tally(playerItems, Box, cursorItem, kind))
    BY <1>0, <1>2, <1>3, ExchangeTotal
  <1> QED BY <1>0, <1>1, <1>4 DEF Whole

\* Only a click has one click less to send and leaves the request as it is.
LEMMA OnlyClicksSend ==
    ASSUME Typed, [Next]_vars, clicks # <<>>, clicks' = Tail(clicks), request' = request
    PROVE  ClickOutside \/ ClickItem \/ ClickDrops \/ MoveToHotbar
  <1> SUFFICES ASSUME ~(ClickOutside \/ ClickItem \/ ClickDrops \/ MoveToHotbar)
               PROVE  FALSE
    OBVIOUS
  <1>1. /\ pc = "click" /\ clicks \in Seq(PlannedClick) /\ request # <<>> /\ request \in Seq(Offered)
    BY DEF Typed, RequestTyped, Idle
  <1>2. clicks' # clicks /\ request' # Tail(request)
    <2>1. Tail(clicks) # clicks /\ Tail(request) # request
      BY <1>1, Popped
    <2> QED BY <2>1
  <1>3. ClickMissesInventory \/ NextAction \/ UNCHANGED clicks
    BY <1>1, TwoKinds DEF vars, locals, ReadRequest, Idle, StartAction, ResolveSource, ResolveDestination,
       ValidateSource, ValidateDestination, PlanTransfer, PlanSwap, PlanDrop, ClientClosesWindow, PumpJava,
       JavaUpdate, WindowOpens, WindowCloses, PlayerContent, WindowContent, WindowSlot, SetPlayerSlot, SetCursor
  <1> QED BY <1>1, <1>2, <1>3 DEF ClickMissesInventory, Reject, NextAction

\* Whatever the server has sent since it was planned, a click moves items between the
\* player, the container and the cursor, and makes or loses none; only a drop lets go of
\* items, and gains none (sendInventoryClick, applyInventoryClickLocked).
THEOREM ClicksConserve == Spec => ItemsConserved
  <1> DEFINE Conserves ==
        clicks # <<>> /\ clicks' = Tail(clicks) /\ request' = request =>
          \A kind \in Kinds :
             IF Head(clicks).op \in {"dropOne", "dropAll"}
             THEN Held(kind)' <= Held(kind) ELSE Held(kind)' = Held(kind)
  <1>1. Init => Typed /\ IDsDistinct
    BY TypedInit, IDsInit
  <1>2. (Typed /\ IDsDistinct) /\ [Next]_vars => (Typed /\ IDsDistinct)'
    BY InventoryStep
  <1>3. (Typed /\ IDsDistinct) /\ [Next]_vars => Conserves
    <2> SUFFICES ASSUME Typed, IDsDistinct, [Next]_vars,
                        clicks # <<>>, clicks' = Tail(clicks), request' = request, NEW kind \in Kinds
                 PROVE  IF Head(clicks).op \in {"dropOne", "dropAll"}
                        THEN Held(kind)' <= Held(kind) ELSE Held(kind)' = Held(kind)
      OBVIOUS
    <2>1. /\ InventoryTyped'
          /\ IF Head(clicks).op \in {"dropOne", "dropAll"}
             THEN Whole(kind)' <= Whole(kind) ELSE Whole(kind)' = Whole(kind)
      BY OnlyClicksSend, ItemWhole, DropWhole, OutsideWhole, HotbarWhole
    <2>2. Held(kind) = Whole(kind)
      BY HeldIs DEF Typed, Whole
    <2>3. Held(kind)' = Whole(kind)'
      BY <2>1, HeldAfter
    <2> QED BY <2>1, <2>2, <2>3
  <1> QED BY <1>1, <1>2, <1>3, PTL DEF Spec, ItemsConserved
=============================================================================

--------------------------- MODULE StackRequests ---------------------------
(***************************************************************************)
(* The item stack requests of a Bedrock client against the inventory that  *)
(* the Java server keeps changing (src/translate/inventory_actions.go and  *)
(* the content handlers of basic.go and windows.go).                       *)
(*                                                                         *)
(* pumpBedrock handles a request in many short critical sections under     *)
(* Basic.mu: each slot reference is resolved, then validated, the plan is  *)
(* made from a snapshot, and every click reads the state again.  pumpJava  *)
(* can run between any two of them, so each is a step of its own.  The     *)
(* packets a step writes after its critical section belong to the step;    *)
(* a lost connection, which ends the session, is left out.                 *)
(*                                                                         *)
(* Of the windows only the active one counts here; Windows has the tables. *)
(* Slots keep the layout of the code: 0..PlayerSize-1 in the player        *)
(* inventory, of which FirstStorage..LastStorage follow the Size slots of  *)
(* a container in its window.                                              *)
(***************************************************************************)
EXTENDS InventoryClicks, FiniteSets, FiniteSetsExt

CONSTANTS
    PlayerSize,    \* slots of the player inventory (46 in the code)
    FirstStorage,  \* first storage slot (9)
    FirstHotbar,   \* first hotbar slot (36)
    LastStorage,   \* last storage slot, of the hotbar (44)
    WindowIDs,     \* Java window IDs
    WindowSizes,   \* container sizes (1..54)
    Supply,        \* kinds and counts of the items that come from the server
    RefIDs,        \* stack network IDs that requests carry
    Offered,       \* the actions the client asks for
    MaxActions,    \* bound of the actions of a request
    MaxUpdates,    \* bound of the inventory packets of the server
    MaxRequests    \* bound of the requests of the client

ASSUME StackRequestsAssumption ==
    /\ PlayerSize \in Nat /\ FirstStorage \in Nat /\ FirstHotbar \in Nat /\ LastStorage \in Nat
    /\ FirstStorage < FirstHotbar /\ FirstHotbar <= LastStorage
    /\ LastStorage < PlayerSize
    /\ WindowIDs \subseteq Nat \ {0}
    /\ WindowSizes \subseteq Nat \ {0}
    /\ IsFiniteSet(WindowSizes)
    /\ Supply \subseteq [kind : Kinds, count : Nat \ {0}]
    /\ RefIDs \subseteq Int
    /\ MaxActions \in Nat /\ MaxUpdates \in Nat /\ MaxRequests \in Nat

\* The server sends no stack above javaMaxStackSize: what an action comes to is asked
\* of such a server (RequestsExact).
SupplyFits == \A stack \in Supply : stack.count <= MaxStack

VARIABLES
    playerItems,   \* Basic.playerItems
    cursorItem,    \* Basic.cursorItem
    window,        \* the active window, NoWindow for the player inventory
    nextStackID,   \* Basic.nextStackID
    pc,            \* where pumpBedrock is
    request,       \* the actions of the request still to do, the current one first
    source,        \* sourceSlot of the current action, as resolved
    destination,   \* destinationSlot of the current action, as resolved
    clicks,        \* clicks of the current action still to send
    affected,      \* slots the response will report
    before,        \* history: the inventory when the current action began
    disturbed,     \* history: pumpJava or a close changed something since
    updates,       \* inventory packets handled so far
    requests       \* requests read so far

inventory == <<playerItems, cursorItem, window, nextStackID>>
locals == <<request, source, destination, clicks, affected>>
vars == <<inventory, pc, locals, before, disturbed, updates, requests>>

PlayerSlots == 0..PlayerSize - 1
Storage == FirstStorage..LastStorage
Hotbar == FirstHotbar..LastStorage
Unsupported == -2

\* A window before its content has arrived has no items.
NoWindow == [id |-> 0, size |-> 0, items |-> <<>>]
Opened(id, size) == [id |-> id, size |-> size, items |-> <<>>]
MenuSlots(size) == 0..size + Cardinality(Storage) - 1

\* javaWindowMenuSlot and its inverse javaWindowPlayerSlot.
MenuSlot(p, size) == size + p - FirstStorage
PlayerSlot(s, size) == s - size + FirstStorage

(***************************************************************************)
(* Slot references                                                         *)
(***************************************************************************)
Refs == [container : {"cursor"}, slot : {0}, id : RefIDs]
        \cup [container : {"player"}, slot : PlayerSlots, id : RefIDs]
        \cup [container : {"hotbar"}, slot : Hotbar, id : RefIDs]
        \cup [container : {"window"}, slot : UNION {0..n - 1 : n \in WindowSizes}, id : RefIDs]

\* resolveBedrockStackSlot: the slot number in the inventory that is active now.
Resolve(ref) ==
    CASE ref.container = "cursor" -> Cursor
      [] ref.container \in {"player", "hotbar"} /\ window = NoWindow -> ref.slot
      [] ref.container \in {"player", "hotbar"} /\ window # NoWindow /\ ref.slot \in Storage ->
            MenuSlot(ref.slot, window.size)
      [] ref.container = "window" /\ ref.slot < window.size -> ref.slot
      [] OTHER -> Unsupported

\* The item that validateStackReferenceForSlot compares with: in a window the
\* window's own copy, not the one the clicks are simulated on.
ValidatedItem(slot) ==
    LET items == IF window = NoWindow THEN playerItems ELSE window.items
    IN  IF slot = Cursor THEN cursorItem
        ELSE IF slot \in DOMAIN items THEN items[slot] ELSE Empty

\* Mutant: any reference will do.
ValidWithoutID(ref, slot) == ValidatedItem(slot).count >= 0

\* Negative IDs and the ID 1 stand for stacks the client predicts.
Valid(ref, slot) == ref.id < 0 \/ ref.id = 1 \/ ref.id = ValidatedItem(slot).id

(***************************************************************************)
(* The simulated inventory                                                 *)
(***************************************************************************)
\* inventorySimulationLocked: the container's items, with the player's own
\* storage laid over the window's copy of it.
SimItems ==
    IF window = NoWindow THEN playerItems
    ELSE [s \in MenuSlots(window.size) |->
            IF s >= window.size THEN playerItems[PlayerSlot(s, window.size)]
            ELSE IF s \in DOMAIN window.items THEN window.items[s] ELSE Empty]

ItemAt(inv, slot) == IF slot = Cursor THEN inv.cursor ELSE inv.items[slot]
Now == [items |-> SimItems, cursor |-> cursorItem]

\* nextStackNetworkIDLocked leaves the ID 1 out.
FreshID == IF nextStackID <= 1 THEN 2 ELSE nextStackID

\* Mutant: the storage part of a window is not copied back to the player.
StoreWindowOnly(items, cursor) ==
    /\ window' = IF window = NoWindow THEN window ELSE [window EXCEPT !.items = items]
    /\ playerItems' = IF window = NoWindow THEN items ELSE playerItems
    /\ cursorItem' = cursor

\* The simulated inventory becomes the inventory: in a window both copies of
\* the storage (updatePlayerInventoryFromWindowLocked).
Store(items, cursor) ==
    /\ cursorItem' = cursor
    /\ IF window = NoWindow
       THEN playerItems' = items /\ UNCHANGED window
       ELSE /\ window' = [window EXCEPT !.items = items]
            /\ playerItems' = [p \in PlayerSlots |->
                   IF p \in Storage THEN items[MenuSlot(p, window.size)] ELSE playerItems[p]]

(***************************************************************************)
(* pumpBedrock                                                             *)
(***************************************************************************)
Actions ==
    [type : {"transfer"}, source : Refs, destination : Refs, count : 0..MaxStack]
    \cup [type : {"swap"}, source : Refs, destination : Refs]
    \cup [type : {"drop"}, source : Refs, count : 0..MaxStack]
    \cup [type : {"mine"}, source : [container : {"hotbar"}, slot : Hotbar, id : RefIDs]]
    \cup [type : {"unsupported"}]

ASSUME OfferedAssumption == Offered \subseteq Actions

Action == Head(request)
TwoSlots == Action.type \in {"transfer", "swap"}
Idle == pc = "idle"

\* The next request of the client; an empty one is rejected at once.
ReadRequest(actions) ==
    /\ Idle
    /\ requests < MaxRequests
    /\ requests' = requests + 1
    /\ pc' = IF actions = <<>> THEN "idle" ELSE "action"
    /\ request' = actions
    /\ affected' = {}
    /\ UNCHANGED <<inventory, source, destination, clicks, before, disturbed, updates>>

Reject ==
    /\ pc' = "idle"
    /\ request' = <<>>
    /\ clicks' = <<>>
    /\ UNCHANGED <<inventory, source, destination, affected, before, disturbed,
                   updates, requests>>

Continue(where) ==
    /\ pc' = where
    /\ UNCHANGED <<inventory, request, clicks, affected, before, disturbed, updates, requests>>

\* The checks that need no lock.
StartAction ==
    /\ pc = "action"
    /\ before' = Now
    /\ disturbed' = FALSE
    /\ UNCHANGED <<inventory, destination, affected, updates, requests>>
    /\ IF \/ Action.type = "unsupported"
          \/ Action.type \in {"transfer", "drop"} /\ Action.count = 0
       THEN /\ pc' = "idle"
            /\ request' = <<>>
            /\ clicks' = <<>>
            /\ UNCHANGED source
       ELSE /\ pc' = IF Action.type = "mine" THEN "validateSource" ELSE "resolveSource"
            /\ source' = IF Action.type = "mine" THEN Action.source.slot ELSE source
            /\ UNCHANGED <<request, clicks>>

ResolveSource ==
    /\ pc = "resolveSource"
    /\ IF ~TwoSlots /\ Resolve(Action.source) = Unsupported
       THEN Reject
       ELSE /\ Continue(IF TwoSlots THEN "resolveDestination" ELSE "validateSource")
            /\ source' = Resolve(Action.source)
            /\ UNCHANGED destination

ResolveDestination ==
    /\ pc = "resolveDestination"
    /\ LET slot == Resolve(Action.destination)
       IN  IF Unsupported \in {source, slot} \/ {source, slot} = {Cursor}
           THEN Reject
           ELSE /\ Continue("validateSource")
                /\ destination' = slot
                /\ UNCHANGED source

ValidateSource ==
    /\ pc = "validateSource"
    /\ IF ~Valid(Action.source, source) THEN Reject
       ELSE /\ Continue(CASE TwoSlots -> "validateDestination"
                          [] Action.type = "drop" -> "plan"
                          [] Action.type = "mine" -> "next")
            /\ UNCHANGED <<source, destination>>

ValidateDestination ==
    /\ pc = "validateDestination"
    /\ IF ~Valid(Action.destination, destination) THEN Reject
       ELSE Continue("plan") /\ UNCHANGED <<source, destination>>

\* The clicks are planned on the inventory of this moment.
Plan(planned) ==
    /\ pc' = "click"
    /\ clicks' = planned
    /\ UNCHANGED <<inventory, request, source, destination, affected, before, disturbed,
                   updates, requests>>

\* Only translateStackDrop checks the bounds of the slot it reads again.
OutOfRange(slot) == slot # Cursor /\ slot \notin DOMAIN SimItems
Panic == Continue("panic") /\ UNCHANGED <<source, destination>>

\* A slot transfer needs another slot that is empty or of the same kind.
Incompatible(from, to) == source = destination \/ (~IsEmpty(to) /\ ~SameItem(from, to))

PlanTransfer ==
    LET n == Action.count
        from == ItemAt(Now, source)
        to == ItemAt(Now, destination)
    IN
    /\ pc = "plan"
    /\ Action.type = "transfer"
    /\ IF OutOfRange(source) THEN Panic
       ELSE IF IsEmpty(from) \/ from.count < n THEN Reject
       ELSE IF OutOfRange(destination) THEN Panic
       ELSE CASE destination = Cursor /\ IsEmpty(cursorItem) ->
                   Plan(TakeClicks(n, source, from.count))
              [] destination = Cursor /\ ~IsEmpty(cursorItem) ->
                   IF SameItem(cursorItem, from) /\ n = from.count
                   THEN Plan(<<Click("left", source)>>) ELSE Reject
              [] source = Cursor -> Plan(PlaceClicks(n, destination, from.count))
              [] OTHER ->
                   IF ~IsEmpty(cursorItem) \/ Incompatible(from, to) THEN Reject
                   ELSE Plan(MoveClicks(n, source, destination, from.count))

PlanSwap ==
    /\ pc = "plan"
    /\ Action.type = "swap"
    /\ IF source = destination THEN Reject
       ELSE CASE Cursor \notin {source, destination} /\ Action.destination.container = "hotbar" ->
                   Plan(<<[op |-> "hotbar", slot |-> source, target |-> Action.destination.slot]>>)
              [] source = Cursor -> Plan(<<Click("left", destination)>>)
              [] destination = Cursor -> Plan(<<Click("left", source)>>)
              [] OTHER -> Plan(ExchangeClicks(source, destination))

PlanDrop ==
    /\ pc = "plan"
    /\ Action.type = "drop"
    /\ IF OutOfRange(source) THEN Reject
       ELSE LET item == ItemAt(Now, source)
            IN  IF IsEmpty(item) \/ item.count < Action.count THEN Reject
                ELSE Plan(IF source = Cursor THEN CursorDropClicks(Action.count, item.count)
                          ELSE SlotDropClicks(Action.count, source, item.count))

(***************************************************************************)
(* One click: read, simulate, encode and store in one critical section.    *)
(***************************************************************************)
Changed(items) == {s \in DOMAIN items : items[s] # SimItems[s]}

Clicked(items, cursor) ==
    /\ Store(items, cursor)
    /\ clicks' = Tail(clicks)
    /\ UNCHANGED <<pc, request, source, destination, before, disturbed, updates, requests>>

ClickOutside ==
    /\ pc = "click"
    /\ clicks # <<>>
    /\ Head(clicks).slot = Outside
    /\ Clicked(SimItems, Subtract(cursorItem, 1))
    /\ UNCHANGED <<nextStackID, affected>>

\* The slot was resolved in an inventory that may have given way to another.
ClickMissesInventory ==
    /\ pc = "click"
    /\ clicks # <<>>
    /\ Head(clicks).slot \notin DOMAIN SimItems \cup {Outside}
    /\ Reject

ClickItem ==
    /\ pc = "click"
    /\ clicks # <<>>
    /\ Head(clicks).slot \in DOMAIN SimItems
    /\ Head(clicks).op \in {"left", "right"}
    /\ LET slot == Head(clicks).slot
           right == Head(clicks).op = "right"
           result == IF right THEN RightClick(SimItems[slot], cursorItem, FreshID)
                     ELSE LeftClick(SimItems[slot], cursorItem)
           items == [SimItems EXCEPT ![slot] = result.slot]
       IN  /\ Clicked(items, result.cursor)
           /\ affected' = affected \cup Changed(items)
           /\ nextStackID' = IF right /\ Splits(SimItems[slot], cursorItem)
                             THEN FreshID + 1 ELSE nextStackID

\* Mutant: only the clicked slot is reported.
HotbarAffected(slot, target, items) == affected \cup ({slot} \cap Changed(items))

\* The hotbar slot is always reported, the clicked one if it changed.
SwapAffected(slot, target, items) == affected \cup {target} \cup ({slot} \cap Changed(items))

MoveToHotbar ==
    /\ pc = "click"
    /\ clicks # <<>>
    /\ Head(clicks).slot \in DOMAIN SimItems
    /\ Head(clicks).op = "hotbar"
    /\ LET slot == Head(clicks).slot
           hotbar == Head(clicks).target
           target == IF window = NoWindow THEN hotbar ELSE MenuSlot(hotbar, window.size)
           items == [SimItems EXCEPT ![slot] = SimItems[target], ![target] = SimItems[slot]]
       IN  /\ Clicked(items, cursorItem)
           /\ affected' = SwapAffected(slot, target, items)
           /\ UNCHANGED nextStackID

ClickDrops ==
    /\ pc = "click"
    /\ clicks # <<>>
    /\ Head(clicks).slot \in DOMAIN SimItems
    /\ Head(clicks).op \in {"dropOne", "dropAll"}
    /\ LET slot == Head(clicks).slot
           left == IF Head(clicks).op = "dropAll" THEN Empty ELSE Subtract(SimItems[slot], 1)
           items == [SimItems EXCEPT ![slot] = left]
       IN  /\ Clicked(items, cursorItem)
           /\ affected' = affected \cup Changed(items)
           /\ UNCHANGED nextStackID

\* The action is done: the next one, or acceptedItemStackRequest.
NextAction ==
    /\ pc = "next" \/ (pc = "click" /\ clicks = <<>>)
    /\ pc' = IF Len(request) = 1 THEN "idle" ELSE "action"
    /\ request' = Tail(request)
    /\ UNCHANGED <<inventory, source, destination, clicks, affected, before, disturbed,
                   updates, requests>>

\* translateBedrockContainerClose, between two requests.
ClientClosesWindow ==
    /\ Idle
    /\ window # NoWindow
    /\ window' = NoWindow
    /\ disturbed' = TRUE
    /\ UNCHANGED <<playerItems, cursorItem, nextStackID, pc, locals, before, updates, requests>>

PumpBedrock ==
    \/ StartAction
    \/ ResolveSource
    \/ ResolveDestination
    \/ ValidateSource
    \/ ValidateDestination
    \/ PlanTransfer
    \/ PlanSwap
    \/ PlanDrop
    \/ ClickOutside
    \/ ClickMissesInventory
    \/ ClickItem
    \/ MoveToHotbar
    \/ ClickDrops
    \/ NextAction

(***************************************************************************)
(* pumpJava: the packets of the server that touch the inventory            *)
(***************************************************************************)
JavaUpdate ==
    /\ pc # "panic"
    /\ updates < MaxUpdates
    /\ updates' = updates + 1
    /\ disturbed' = TRUE
    /\ UNCHANGED <<pc, locals, before, requests>>

\* decodeJavaItemSlot draws an ID for every item of a packet, in order.
Numbered(content, n) == [kind |-> content.kind, count |-> content.count, id |-> nextStackID + n]

\* Of a full content packet only one slot and the cursor are not empty.
Filled(slots, filled, stack) == [s \in slots |-> IF s = filled THEN stack ELSE Empty]

WindowOpens(id, size) ==
    /\ JavaUpdate
    /\ window' = Opened(id, size)
    /\ UNCHANGED <<playerItems, cursorItem, nextStackID>>

WindowCloses ==
    /\ JavaUpdate
    /\ window # NoWindow
    /\ window' = NoWindow
    /\ UNCHANGED <<playerItems, cursorItem, nextStackID>>

\* translateWindowItems of window 0.
PlayerContent(filled, stack, carried) ==
    /\ JavaUpdate
    /\ playerItems' = Filled(PlayerSlots, filled, Numbered(stack, 0))
    /\ cursorItem' = Numbered(carried, 1)
    /\ nextStackID' = nextStackID + 2
    /\ UNCHANGED window

\* translateWindowContent of the active window.
WindowContent(filled, stack, carried) ==
    /\ JavaUpdate
    /\ window # NoWindow
    /\ LET items == Filled(MenuSlots(window.size), filled, Numbered(stack, 0))
       IN  Store(items, Numbered(carried, 1))
    /\ nextStackID' = nextStackID + 2

\* translateWindowSlot: before the content has arrived there is no slot in the
\* window to update, but the player's storage is updated all the same.
WindowSlot(slot, stack) ==
    /\ JavaUpdate
    /\ window # NoWindow
    /\ slot \in MenuSlots(window.size)
    /\ window' = IF slot \in DOMAIN window.items
                 THEN [window EXCEPT !.items[slot] = Numbered(stack, 0)] ELSE window
    /\ playerItems' = IF slot >= window.size
                      THEN [playerItems EXCEPT ![PlayerSlot(slot, window.size)] = Numbered(stack, 0)]
                      ELSE playerItems
    /\ nextStackID' = nextStackID + 1
    /\ UNCHANGED cursorItem

\* translateSetSlot of window 0 or -2: the window's copy is not updated.
SetPlayerSlot(slot, stack) ==
    /\ JavaUpdate
    /\ playerItems' = [playerItems EXCEPT ![slot] = Numbered(stack, 0)]
    /\ nextStackID' = nextStackID + 1
    /\ UNCHANGED <<cursorItem, window>>

\* The cursor-item packet, and translateSetSlot of window -1.
SetCursor(stack) ==
    /\ JavaUpdate
    /\ cursorItem' = Numbered(stack, 0)
    /\ nextStackID' = nextStackID + 1
    /\ UNCHANGED <<playerItems, window>>

PumpJava ==
    \/ WindowCloses
    \/ \E id \in WindowIDs, size \in WindowSizes : WindowOpens(id, size)
    \/ \E stack \in Supply :
          \/ SetCursor(stack)
          \/ \E slot \in PlayerSlots : SetPlayerSlot(slot, stack)
          \/ \E slot \in MenuSlots(window.size) : WindowSlot(slot, stack)
          \/ \E carried \in Supply, filled \in PlayerSlots : PlayerContent(filled, stack, carried)
          \/ \E carried \in Supply, filled \in MenuSlots(window.size) :
                WindowContent(filled, stack, carried)

(***************************************************************************)
(* The specification                                                       *)
(***************************************************************************)
\* A session whose player inventory has arrived, with no window or with one
\* whose content has arrived.
Contents(slots) == {[s \in slots |-> IF f[s] = Empty THEN Empty
                                    ELSE [f[s] EXCEPT !.id = s + 1]] :
                       f \in [slots -> {Empty} \cup {[kind |-> c.kind, count |-> c.count, id |-> 1] : c \in Supply}]}

Init ==
    /\ \E all \in Contents(0..PlayerSize + Max(WindowSizes \cup {0})) :
          \E w \in WindowIDs \cup {0}, n \in WindowSizes :
             LET player == [p \in PlayerSlots |-> all[p]]
                 extra == [s \in 0..n - 1 |-> all[PlayerSize + 1 + s]]
             IN /\ playerItems = player
                /\ cursorItem = all[PlayerSize]
                /\ IF w = 0 THEN window = NoWindow /\ \A s \in 0..n - 1 : extra[s] = Empty
                   ELSE window = [id |-> w, size |-> n, items |->
                          [s \in MenuSlots(n) |-> IF s < n THEN extra[s] ELSE player[PlayerSlot(s, n)]]]
    /\ nextStackID = PlayerSize + Max(WindowSizes \cup {0}) + 2
    /\ pc = "idle"
    /\ request = <<>> /\ source = 0 /\ destination = 0 /\ clicks = <<>> /\ affected = {}
    /\ before = Now
    /\ disturbed = FALSE
    /\ updates = 0 /\ requests = 0

Next ==
    \/ \E n \in 0..MaxActions : \E actions \in [1..n -> Offered] : ReadRequest(actions)
    \/ PumpBedrock
    \/ ClientClosesWindow
    \/ PumpJava

Spec == Init /\ [][Next]_vars

(***************************************************************************)
(* Properties                                                              *)
(***************************************************************************)
\* The shape of the inventory and of the request being handled.
TypeOK ==
    /\ playerItems \in [PlayerSlots -> Item]
    /\ cursorItem \in Item
    /\ window.id \in WindowIDs \cup {0} /\ window.size \in WindowSizes \cup {0}
    /\ window.items = <<>> \/ window.items \in [MenuSlots(window.size) -> Item]
    /\ nextStackID \in Nat \ {0}
    /\ pc \in {"idle", "action", "resolveSource", "resolveDestination", "validateSource",
               "validateDestination", "plan", "click", "next", "panic"}
    /\ request \in Seq(Offered) /\ (Idle <=> request = <<>>)
    /\ clicks # <<>> => pc = "click"
    /\ disturbed \in BOOLEAN

Locations == [at : {"player"}, slot : PlayerSlots]
             \cup [at : {"window"}, slot : {s \in DOMAIN window.items : s < window.size}]
             \cup [at : {"cursor"}, slot : {0}]
Located(place) == CASE place.at = "player" -> playerItems[place.slot]
                    [] place.at = "window" -> window.items[place.slot]
                    [] place.at = "cursor" -> cursorItem

\* No two stacks the client can name carry the same network ID, so an ID that
\* validates names one stack.  Splits, merges, swaps and server packets in any
\* order keep it (applyInventoryClickLocked, nextStackNetworkIDLocked).
UniqueIDs ==
    \A p, q \in Locations : p # q /\ ~IsEmpty(Located(p)) => Located(p).id # Located(q).id

Held(kind) == MapThenSumSet(LAMBDA place : CountOf(Located(place), kind), Locations)

\* A click moves items and never makes or loses one, whatever pumpJava did
\* since it was planned and whether it acts on the player's copy of the storage
\* or on a window's; only a drop lets go of items (sendInventoryClick).
ItemsConserved ==
    [][clicks # <<>> /\ clicks' = Tail(clicks) /\ request' = request =>
          \A kind \in Kinds :
             IF Head(clicks).op \in {"dropOne", "dropAll"}
             THEN Held(kind)' <= Held(kind) ELSE Held(kind)' = Held(kind)]_vars

\* The current action has sent all its clicks, and nothing came between.
Accepted(type) ==
    pc = "click" /\ clicks = <<>> /\ ~disturbed /\ Action.type = type

\* The client asks only for what the destination can hold.
Room == LET from == ItemAt(before, source)
            to == ItemAt(before, destination)
        IN  IsEmpty(to) \/ (SameItem(from, to) /\ to.count + Action.count <= MaxStack)

Same(now, then) == now.kind = then.kind /\ now.count = then.count
RestKept(slots) ==
    /\ Cursor \notin slots => Same(cursorItem, before.cursor)
    /\ \A s \in DOMAIN SimItems \ slots : Same(SimItems[s], before.items[s])

MovesCount ==
    /\ ItemAt(Now, source).count = ItemAt(before, source).count - Action.count
    /\ ItemAt(Now, destination).count = ItemAt(before, destination).count + Action.count
    /\ ItemAt(Now, destination).kind = ItemAt(before, source).kind
    /\ RestKept({source, destination})

\* A take or place moves exactly the count that was asked for, of the source's kind,
\* and leaves the cursor and every other slot as they were, whichever of its click
\* plans translateStackTransfer chose.
TransferExact ==
    Accepted("transfer") /\ Room /\ (destination = Cursor => IsEmpty(before.cursor)) => MovesCount

\* A swap exchanges two different stacks and nothing else, by a hotbar click, by one
\* click of the cursor or by three (translateStackSwap).
SwapExact ==
    /\ Accepted("swap")
    /\ ~SameItem(ItemAt(before, source), ItemAt(before, destination))
    /\ Cursor \in {source, destination} \/ IsEmpty(before.cursor)
    => /\ Same(ItemAt(Now, source), ItemAt(before, destination))
       /\ Same(ItemAt(Now, destination), ItemAt(before, source))
       /\ RestKept({source, destination})

\* A drop from a slot removes the count that was asked for (translateStackDrop).
DropExact ==
    Accepted("drop") /\ source # Cursor =>
        /\ ItemAt(Now, source).count = ItemAt(before, source).count - Action.count
        /\ RestKept({source})

\* An accepted request has done what the client asked for, to the item: which clicks
\* say so depends on the cursor, on the two stacks and on the count, and every plan of
\* them comes to the same.
RequestsExact == TransferExact /\ SwapExact /\ DropExact

\* The response of an accepted request reports every slot its clicks changed:
\* one left out would keep the client's prediction (acceptedItemStackRequest).
ResponseComplete ==
    pc = "click" /\ clicks = <<>> /\ ~disturbed =>
       {s \in DOMAIN SimItems : SimItems[s] # before.items[s]} \subseteq affected

Names(ref, item) == ref.id < 0 \/ ref.id = 1 \/ ref.id = item.id

\* Clicks are sent only for the stacks the client named: what validates in the
\* window's copy is what the simulation takes from the player's
\* (validateStackReferenceForSlot, inventorySimulationLocked).
ClicksNamedStacks ==
    pc = "click" /\ ~disturbed =>
       /\ Names(Action.source, ItemAt(before, source))
       /\ TwoSlots => Names(Action.destination, ItemAt(before, destination))

\* A request, whatever the server does meanwhile, is answered and does not tear
\* the session down.
SessionSurvives == pc # "panic"
=============================================================================

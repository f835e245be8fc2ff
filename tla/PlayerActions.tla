--------------------------- MODULE PlayerActions ---------------------------
(***************************************************************************)
(* What the player does, from Bedrock to Java: held slot, movement states, *)
(* digging and interactions (src/translate/actions.go,                     *)
(* legacy_transactions.go, and translateHeldItemSlot of basic.go).         *)
(*                                                                         *)
(* pumpBedrock turns one packet of the client into a list of steps; a step *)
(* is a critical section of Basic.mu, a write to the Java server, or both  *)
(* where no other goroutine touches what the section reads.  pumpJava      *)
(* stores the slot the server selects, and runs between any two steps.     *)
(*                                                                         *)
(* Client and server are external.  The client may send an interaction     *)
(* with a new slot before the MobEquipment packet that announces the slot. *)
(* Wire encodings, positions and the target of an interaction are left     *)
(* out, and so are failing writes, which end the session (BridgeSessions). *)
(***************************************************************************)
EXTENDS Integers, Sequences

CONSTANTS
    Slots,        \* hotbar slots in use, of 0..8
    Outside,      \* a slot number outside the hotbar
    Offered,      \* packets the client may send; Outside where there is no slot
    MaxSequence,  \* largest interaction sequence (2^31 - 1 in the code)
    MaxPackets,   \* bound: packets of the client
    MaxForced     \* bound: slots the server selects by itself

ASSUME ActionsAssumption ==
    /\ Slots \subseteq 0..8
    /\ Outside \in Int \ 0..8
    /\ 0 \in Slots
    /\ MaxSequence \in Nat \ {0}
    /\ MaxPackets \in Nat
    /\ MaxForced \in Nat

VARIABLES
    selectedSlot,   \* Basic.selectedSlot
    moving,         \* Basic.sprinting and Basic.sneaking, by name
    gliding,        \* Basic.gliding
    nextSequence,   \* Basic.nextSequence
    work,           \* steps the handler running in pumpBedrock has still to take
    fromBedrock,    \* client packets not yet read by pumpBedrock
    toBedrock,      \* MobEquipment packets not yet read by the client
    fromJava,       \* held-slot packets not yet read by pumpJava
    toJava,         \* packets not yet read by the server
    srvSlot,        \* the slot the server uses the player's hand with
    srvMoving,      \* the movement states at the server
    cliSlot,        \* the slot the player has selected
    cliMoving,      \* the movement states of the player
    unannounced,    \* the client has still to send MobEquipment for cliSlot
    packets,        \* client packets sent
    forced,         \* slots selected by the server
    crossed         \* history: a slot of the server crossed a slot of the client

bridge == <<selectedSlot, moving, gliding, nextSequence>>
server == <<srvSlot, srvMoving>>
player == <<cliSlot, cliMoving, unannounced>>
counters == <<packets, forced, crossed>>
actionVars == <<bridge, work, fromBedrock, toBedrock, fromJava, toJava, server, player, counters>>

PlayerStates == {"sprinting", "sneaking"}
Hands == {"use", "useEntity"}

(***************************************************************************)
(* Steps of the handlers                                                   *)
(***************************************************************************)
Ensure(slot) == [do |-> "ensure", slot |-> slot]
Store(slot) == [do |-> "store", slot |-> slot]
Track(name, on) == [do |-> "track", name |-> name, on |-> on]
Glide(on) == [do |-> "glide", on |-> on]
Numbered(op, valid, slot) == [do |-> "number", op |-> op, valid |-> valid, slot |-> slot]
UseEntity(slot) == [do |-> "useEntity", slot |-> slot]
Write(packet) == [do |-> "write", packet |-> packet]

If(condition, steps) == IF condition THEN steps ELSE <<>>

\* translateAuthBooleanState: the state the edges of an input ask for.
Wanted(edges) == "start" \in edges /\ "stop" \notin edges

TrackEdges(name, edges) == If(edges # {}, <<Track(name, Wanted(edges))>>)

\* translatePlayerAuthInputActions and the movement packet that follows it.
InputSteps(p) ==
    TrackEdges("sprinting", p.sprint)
    \o TrackEdges("sneaking", p.sneak)
    \o If("start" \in p.glide /\ "stop" \notin p.glide, <<Glide(TRUE)>>)
    \o If("stop" \in p.glide, <<Glide(FALSE)>>)
    \o If(p.dig, <<Numbered("dig", TRUE, p.slot)>>)
    \o If(p.use, <<Numbered("use", p.valid, p.slot)>>)
    \o <<Write([op |-> "move"])>>

\* Mutant: the slot of an interaction is not looked at.
HeldFirstNever(slot) == <<>>

\* The slot is selected at the server before it is used there.
HeldFirst(slot) == <<Ensure(slot)>>

\* translateLegacyUseItem and translateLegacyUseEntity: a slot outside the
\* hotbar is skipped; an invalid face, cursor or action only after the slot has
\* been sent, and for items after a sequence number has been spent.
UseItemSteps(p) ==
    If(p.slot # Outside, HeldFirst(p.slot) \o <<Numbered("use", p.valid, p.slot)>>)
UseEntitySteps(p) ==
    If(p.slot # Outside,
       HeldFirst(p.slot)
       \o If(p.valid, <<UseEntity(p.slot)>>)
       \o If(p.valid /\ p.attack, <<Write([op |-> "swing"])>>))

\* translateBedrockPlayerAction sends a movement state without tracking it.
ActionSteps(p) ==
    If(p.action = "dig", <<Numbered("dig", TRUE, p.slot)>>)
    \o If(p.action # "dig", <<Write([op |-> "edge", name |-> p.action, on |-> p.on])>>)

\* translateBedrockPacket; Interact has no slot.
Steps(p) ==
    IF p.type = "input" THEN InputSteps(p)
    ELSE IF p.type = "equipment" THEN <<Ensure(p.slot)>>
    ELSE IF p.type = "useItem" THEN UseItemSteps(p)
    ELSE IF p.type = "useEntity" THEN UseEntitySteps(p)
    ELSE IF p.type = "interact" THEN If(p.valid, <<UseEntity(Outside)>>)
    ELSE IF p.type = "animate" THEN If(p.valid, <<Write([op |-> "swing"])>>)
    ELSE ActionSteps(p)

(***************************************************************************)
(* pumpBedrock                                                             *)
(***************************************************************************)
ReadClient ==
    /\ work = <<>>
    /\ fromBedrock # <<>>
    /\ work' = Steps(Head(fromBedrock))
    /\ fromBedrock' = Tail(fromBedrock)
    /\ UNCHANGED <<bridge, toBedrock, fromJava, toJava, server, player, counters>>

Step(do) ==
    /\ work # <<>>
    /\ Head(work).do = do
    /\ UNCHANGED <<fromBedrock, toBedrock, fromJava, server, player, counters>>

Next1 == Head(work)
SendsAll(packet) == toJava' = Append(toJava, packet)

\* ensureJavaHeldSlot: the comparison under the lock; the write and the store
\* under the lock again are steps of their own.
EnsureJavaHeldSlot ==
    /\ Step("ensure")
    /\ LET known == Next1.slot = Outside \/ selectedSlot = Next1.slot
       IN  work' = If(~known, <<Write([op |-> "held", slot |-> Next1.slot]),
                                Store(Next1.slot)>>) \o Tail(work)
    /\ UNCHANGED <<bridge, toJava>>

StoreSlot ==
    /\ Step("store")
    /\ selectedSlot' = Next1.slot
    /\ work' = Tail(work)
    /\ UNCHANGED <<moving, gliding, nextSequence, toJava>>

\* translateTrackedState: only a change of state is sent.
TrackState ==
    /\ Step("track")
    /\ IF moving[Next1.name] = Next1.on
       THEN UNCHANGED <<moving, toJava>>
       ELSE /\ moving' = [moving EXCEPT ![Next1.name] = Next1.on]
            /\ SendsAll([op |-> "edge", name |-> Next1.name, on |-> Next1.on])
    /\ work' = Tail(work)
    /\ UNCHANGED <<selectedSlot, gliding, nextSequence>>

\* Java has a packet for the start of a glide only.
TrackGlide ==
    /\ Step("glide")
    /\ gliding' = Next1.on
    /\ IF Next1.on /\ ~gliding THEN SendsAll([op |-> "glide"]) ELSE UNCHANGED toJava
    /\ work' = Tail(work)
    /\ UNCHANGED <<selectedSlot, moving, nextSequence>>

\* nextInteractionSequence, and the packet it numbers if that is valid.
NumberInteraction ==
    /\ Step("number")
    /\ nextSequence' = IF nextSequence = MaxSequence THEN 1 ELSE nextSequence + 1
    /\ IF Next1.valid
       THEN SendsAll([op |-> Next1.op, slot |-> Next1.slot, sequence |-> nextSequence])
       ELSE UNCHANGED toJava
    /\ work' = Tail(work)
    /\ UNCHANGED <<selectedSlot, moving, gliding>>

\* encodeJavaUseEntityState with the sneaking state read under the lock.
InteractWithEntity ==
    /\ Step("useEntity")
    /\ SendsAll([op |-> "useEntity", slot |-> Next1.slot, sneaking |-> moving["sneaking"]])
    /\ work' = Tail(work)
    /\ UNCHANGED bridge

WriteToJava ==
    /\ Step("write")
    /\ SendsAll(Next1.packet)
    /\ work' = Tail(work)
    /\ UNCHANGED bridge

(***************************************************************************)
(* pumpJava                                                                *)
(***************************************************************************)
\* Mutant: the slot of the server is passed on and not stored.
HeldItemSlotPassedOn ==
    /\ fromJava # <<>>
    /\ toBedrock' = Append(toBedrock, Head(fromJava))
    /\ fromJava' = Tail(fromJava)
    /\ UNCHANGED <<bridge, work, fromBedrock, toJava, server, player, counters>>

\* translateHeldItemSlot: the store under the lock, then MobEquipment.
HeldItemSlot ==
    /\ fromJava # <<>>
    /\ selectedSlot' = Head(fromJava)
    /\ toBedrock' = Append(toBedrock, Head(fromJava))
    /\ fromJava' = Tail(fromJava)
    /\ UNCHANGED <<moving, gliding, nextSequence, work, fromBedrock, toJava, server, player,
                   counters>>

(***************************************************************************)
(* The peers                                                               *)
(***************************************************************************)
\* Nothing is being handled or in flight.
Quiescent ==
    /\ work = <<>> /\ fromBedrock = <<>> /\ toBedrock = <<>>
    /\ fromJava = <<>> /\ toJava = <<>>

\* A slot of the server is on its way to the client.
ForcedInFlight == fromJava # <<>> \/ toBedrock # <<>>

Edge == SUBSET {"start", "stop"}
AnySlots == Slots \cup {Outside}

\* The packets of a client that interacts by inventory transactions and reports its states
\* with its inputs.
LegacyPackets ==
    [type : {"input"}, sprint : Edge, sneak : Edge, glide : Edge, dig : BOOLEAN,
     use : {FALSE}, valid : BOOLEAN, slot : AnySlots]
    \cup [type : {"equipment"}, slot : AnySlots]
    \cup [type : {"useItem"}, valid : BOOLEAN, slot : AnySlots]
    \cup [type : {"useEntity"}, valid : BOOLEAN, attack : BOOLEAN, slot : AnySlots]
    \cup [type : {"interact", "animate"}, valid : BOOLEAN, slot : AnySlots]
    \cup [type : {"action"}, action : {"dig"}, on : BOOLEAN, slot : AnySlots]

PlayerSelects(slot) ==
    /\ packets < MaxPackets
    /\ slot # cliSlot
    /\ cliSlot' = slot
    /\ unannounced' = TRUE
    /\ crossed' = (crossed \/ ForcedInFlight)
    /\ UNCHANGED <<bridge, work, fromBedrock, toBedrock, fromJava, toJava, server, cliMoving,
                   packets, forced>>

\* The state of the player after the edges of a packet; of both edges in one
\* input the stop is the later one.
After(on, edges) == IF edges = {} THEN on ELSE "stop" \notin edges

ClientSends(p) ==
    /\ packets < MaxPackets
    /\ packets' = packets + 1
    /\ fromBedrock' = Append(fromBedrock, p)
    /\ p.slot \in {cliSlot, Outside}
    /\ crossed' = (crossed \/ ForcedInFlight)
    /\ unannounced' = (unannounced /\ ~(p.type = "equipment" /\ p.slot = cliSlot))
    /\ cliMoving' =
         IF p.type = "input"
         THEN [sprinting |-> After(cliMoving["sprinting"], p.sprint),
               sneaking |-> After(cliMoving["sneaking"], p.sneak)]
         ELSE IF p.type = "action" /\ p.action \in PlayerStates
         THEN [cliMoving EXCEPT ![p.action] = p.on]
         ELSE cliMoving
    /\ UNCHANGED <<bridge, work, toBedrock, fromJava, toJava, server, cliSlot, forced>>

ClientReads ==
    /\ toBedrock # <<>>
    /\ cliSlot' = Head(toBedrock)
    /\ unannounced' = FALSE
    /\ toBedrock' = Tail(toBedrock)
    /\ UNCHANGED <<bridge, work, fromBedrock, fromJava, toJava, server, cliMoving, counters>>

ServerSelects(slot) ==
    /\ forced < MaxForced
    /\ forced' = forced + 1
    /\ srvSlot' = slot
    /\ fromJava' = Append(fromJava, slot)
    /\ crossed' = (crossed \/ unannounced \/ ~Quiescent)
    /\ UNCHANGED <<bridge, work, fromBedrock, toBedrock, toJava, srvMoving, player, packets>>

ServerReads ==
    /\ toJava # <<>>
    /\ toJava' = Tail(toJava)
    /\ LET p == Head(toJava)
       IN  /\ srvSlot' = IF p.op = "held" THEN p.slot ELSE srvSlot
           /\ srvMoving' = IF p.op = "edge" THEN [srvMoving EXCEPT ![p.name] = p.on]
                           ELSE srvMoving
    /\ UNCHANGED <<bridge, work, fromBedrock, toBedrock, fromJava, player, counters>>

(***************************************************************************)
(* Specification                                                           *)
(***************************************************************************)
Still == [s \in PlayerStates |-> FALSE]

ActionsInit ==
    /\ selectedSlot = 0 /\ srvSlot = 0 /\ cliSlot = 0
    /\ moving = Still /\ srvMoving = Still /\ cliMoving = Still
    /\ gliding = FALSE
    /\ nextSequence = 1
    /\ work = <<>> /\ fromBedrock = <<>> /\ toBedrock = <<>> /\ fromJava = <<>> /\ toJava = <<>>
    /\ unannounced = FALSE
    /\ packets = 0 /\ forced = 0
    /\ crossed = FALSE

PumpBedrock ==
    \/ ReadClient \/ EnsureJavaHeldSlot \/ StoreSlot \/ TrackState \/ TrackGlide
    \/ NumberInteraction \/ InteractWithEntity \/ WriteToJava

Peers ==
    \/ \E slot \in Slots : PlayerSelects(slot)
    \/ \E p \in Offered : ClientSends(p)
    \/ ClientReads
    \/ \E slot \in Slots : ServerSelects(slot)
    \/ ServerReads

ActionsNext == PumpBedrock \/ HeldItemSlot \/ Peers

ActionsSpec == ActionsInit /\ [][ActionsNext]_actionVars

(***************************************************************************)
(* Properties                                                              *)
(***************************************************************************)
\* The server is about to carry out an interaction that names a slot.
Interacting == toJava # <<>> /\ Head(toJava).op \in Hands /\ Head(toJava).slot # Outside

\* The server carries out an interaction with the slot the client made it with,
\* even if the client has not announced the slot yet: "Java validates the hand
\* against the selected slot, so the slot must be sent first" (actions.go,
\* ensureJavaHeldSlot).
HandMatches == ~crossed /\ Interacting => Head(toJava).slot = srvSlot

\* At rest client, bridge and server agree on the held slot, whichever of the two
\* sides changed it last, and the server has the player sneak and sprint as it does.
AtRestAgree ==
    Quiescent =>
        /\ ~crossed => selectedSlot = srvSlot /\ (~unannounced => cliSlot = srvSlot)
        /\ srvMoving = cliMoving
=============================================================================

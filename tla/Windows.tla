------------------------------ MODULE Windows ------------------------------
(***************************************************************************)
(* The Java container windows of one session (src/translate/windows.go):   *)
(* the two tables that name a window by its Java and by its Bedrock ID,    *)
(* the allocator of Bedrock IDs, and the virtual block that holds the      *)
(* window in the Bedrock client's world.                                   *)
(*                                                                         *)
(* Two goroutines work on them.  pumpJava handles the server's packets,    *)
(* pumpBedrock the client's.  Each handler changes the tables in one       *)
(* critical section under Basic.mu, and then writes its packets, one       *)
(* after the other, with the lock released.  A handler is therefore one    *)
(* table action that leaves a list of packets to write, and one action     *)
(* per write; the other goroutine can run between any two of them.         *)
(*                                                                         *)
(* The Bedrock client and the Java server are external.  A packet written  *)
(* to Bedrock is seen at once: the delay that matters, a close of the      *)
(* client crossing a packet of the server, is in the queue fromBedrock.    *)
(***************************************************************************)
EXTENDS Integers, Sequences, FiniteSets

CONSTANTS
    JavaIDs,         \* window IDs the Java server uses, all positive
    MaxWindowID,     \* Bedrock IDs are the bytes 1..MaxWindowID (255 in the code)
    Positions,       \* floored block positions of the player, <<x, y, z>>
    OrderlyServer,   \* the server closes its menu before it opens the next, never reusing an ID
    ClientConfirms,  \* the client may answer the bridge's ContainerClose with its own
    MaxInFlight      \* bound of the queues between bridge and peers

ASSUME WindowsAssumption ==
    /\ JavaIDs \subseteq Nat \ {0}
    /\ IsFiniteSet(JavaIDs)
    /\ MaxWindowID \in Nat \ {0}
    /\ Cardinality(JavaIDs) <= MaxWindowID
    /\ Positions \subseteq Int \X Int \X Int
    /\ Positions # {}
    /\ OrderlyServer \in BOOLEAN
    /\ ClientConfirms \in BOOLEAN
    /\ MaxInFlight \in Nat

VARIABLES
    windows,         \* Basic.windows: Java ID -> window
    bedrockWindows,  \* Basic.bedrockWindows: Bedrock ID -> window
    activeWindowID,  \* Basic.activeWindowID, 0 for the player inventory
    nextWindowID,    \* Basic.nextWindowID
    position,        \* Basic.position, floored to a block
    javaWrites,      \* packets the handler running in pumpJava has still to write
    bedrockWrites,   \* packets the handler running in pumpBedrock has still to write
    fromJava,        \* server packets not yet read by pumpJava
    toJava,          \* container closes not yet read by the server
    fromBedrock,     \* ContainerClose packets not yet read by pumpBedrock
    serverMenu,      \* the menu open at the Java server
    lastMenuID,      \* the last ID the server gave to a menu
    clientShown,     \* Bedrock windows the client has been told to open and has not closed
    clientBlocks,    \* positions at which the client sees a virtual block
    misdirected      \* history: a close named a window by an ID that is not its Java ID

tables == <<windows, bedrockWindows, activeWindowID, nextWindowID>>
client == <<clientShown, clientBlocks>>
server == <<serverMenu, lastMenuID>>
vars == <<tables, position, javaWrites, bedrockWrites, fromJava, toJava,
          fromBedrock, server, client, misdirected>>

WindowIDs == 1..MaxWindowID
NoMenu == [id |-> 0, mapped |-> FALSE]
Window == [javaID : JavaIDs, bedrockID : WindowIDs, position : Int \X Int \X Int]
Packet == [op : {"Place", "Open", "Close", "Restore"}, id : WindowIDs,
           at : Int \X Int \X Int]
          \cup [op : {"CloseJava"}, id : JavaIDs \cup WindowIDs]
ServerPacket == [op : {"OpenScreen"}, id : JavaIDs, mapped : BOOLEAN]
                \cup [op : {"CloseScreen"}, id : JavaIDs]
                \cup [op : {"Position"}, at : Positions]

(***************************************************************************)
(* Operators of the handlers                                               *)
(***************************************************************************)
Without(table, key) == [k \in DOMAIN table \ {key} |-> table[k]]
With(table, key, window) ==
    [k \in DOMAIN table \cup {key} |-> IF k = key THEN window ELSE table[k]]

\* The i-th Bedrock ID after id in the cycle 1, ..., MaxWindowID.
After(id, i) == IF id + i <= MaxWindowID THEN id + i ELSE id + i - MaxWindowID

\* Mutant: the allocator does not look whether the ID is in use.
AllocatesInUse(id, next, used) == id = nextWindowID /\ next = After(id, 1)

\* allocateWindowIDLocked returns id and leaves next in nextWindowID: the first
\* free ID of the cycle or, when none is free, the ID 1 after a whole turn.
Allocates(id, next, used) ==
    \/ /\ WindowIDs \subseteq used
       /\ id = 1
       /\ next = nextWindowID
    \/ /\ id \in WindowIDs \ used
       /\ \E i \in 0..MaxWindowID - 1 :
             /\ id = After(nextWindowID, i)
             /\ \A k \in 0..i - 1 : After(nextWindowID, k) \in used
       /\ next = After(id, 1)

\* The holder block stands two blocks east of the player, one block up.
VirtualPosition(p) == <<p[1] + 2, p[2] + 1, p[3]>>

ToBedrock(op, window) == [op |-> op, id |-> window.bedrockID, at |-> window.position]

\* Mutant: the client is not told to close.
CloseVirtualSilently(window) == <<ToBedrock("Restore", window)>>

\* closeVirtualWindow: the close, and the air block that restores the position.
CloseVirtual(window) == <<ToBedrock("Close", window), ToBedrock("Restore", window)>>
OpenVirtual(window) == <<ToBedrock("Place", window), ToBedrock("Open", window)>>

CloseJava(id) == [op |-> "CloseJava", id |-> id]

\* Forget a window, and the active one with it.
Unregister(window) ==
    /\ windows' = Without(windows, window.javaID)
    /\ bedrockWindows' = Without(bedrockWindows, window.bedrockID)
    /\ activeWindowID' =
         IF activeWindowID = window.bedrockID THEN 0 ELSE activeWindowID
    /\ UNCHANGED nextWindowID

(***************************************************************************)
(* pumpJava                                                                *)
(***************************************************************************)
JavaReads(op) ==
    /\ javaWrites = <<>>
    /\ fromJava # <<>>
    /\ Head(fromJava).op = op
    /\ fromJava' = Tail(fromJava)

\* Mutant: an unmapped menu is skipped without a close to the server.
OpenUnmappedIgnored ==
    /\ JavaReads("OpenScreen")
    /\ ~Head(fromJava).mapped
    /\ UNCHANGED <<tables, position, javaWrites, bedrockWrites, toJava, fromBedrock,
                   server, client, misdirected>>

\* translateOpenWindow of a menu type with no Bedrock counterpart.
OpenUnmapped ==
    /\ JavaReads("OpenScreen")
    /\ ~Head(fromJava).mapped
    /\ javaWrites' = <<CloseJava(Head(fromJava).id)>>
    /\ UNCHANGED <<tables, position, bedrockWrites, toJava, fromBedrock, server,
                   client, misdirected>>

\* translateOpenWindow: the critical section that replaces the holder of the
\* same Java ID, allocates and registers; its packets follow in order.
OpenMapped ==
    /\ JavaReads("OpenScreen")
    /\ Head(fromJava).mapped
    /\ LET javaID == Head(fromJava).id
           replaced == javaID \in DOMAIN windows
           kept == IF replaced THEN Without(windows, javaID) ELSE windows
           keptBedrock == IF replaced
                          THEN Without(bedrockWindows, windows[javaID].bedrockID)
                          ELSE bedrockWindows
       IN  \E id \in WindowIDs, next \in WindowIDs :
             /\ Allocates(id, next, DOMAIN keptBedrock)
             /\ LET window == [javaID |-> javaID, bedrockID |-> id,
                               position |-> VirtualPosition(position)]
                IN  /\ windows' = With(kept, javaID, window)
                    /\ bedrockWindows' = With(keptBedrock, id, window)
                    /\ javaWrites' =
                         (IF replaced THEN CloseVirtual(windows[javaID]) ELSE <<>>)
                         \o OpenVirtual(window)
             /\ activeWindowID' = id
             /\ nextWindowID' = next
    /\ UNCHANGED <<position, bedrockWrites, toJava, fromBedrock, server, client,
                   misdirected>>

\* translateJavaWindowClose
JavaClose ==
    /\ JavaReads("CloseScreen")
    /\ LET javaID == Head(fromJava).id
       IN  \/ /\ javaID \notin DOMAIN windows
              /\ UNCHANGED <<tables, javaWrites>>
           \/ /\ javaID \in DOMAIN windows
              /\ Unregister(windows[javaID])
              /\ javaWrites' = CloseVirtual(windows[javaID])
    /\ UNCHANGED <<position, bedrockWrites, toJava, fromBedrock, server, client,
                   misdirected>>

\* applyPosition: only the server moves Basic.position.
JavaPosition ==
    /\ JavaReads("Position")
    /\ position' = Head(fromJava).at
    /\ UNCHANGED <<tables, javaWrites, bedrockWrites, toJava, fromBedrock, server,
                   client, misdirected>>

(***************************************************************************)
(* pumpBedrock                                                             *)
(***************************************************************************)
\* Mutants: a known window is closed under its Bedrock ID, and a close of the
\* player inventory is not left out.
ServerIDByBedrockID(window) == window.bedrockID
NoCloseIgnored(id) == FALSE

\* The ID under which translateBedrockContainerClose closes a known window.
ServerID(window) == window.javaID

\* The player inventory, window 0, has no holder and no server menu.
CloseIgnored(id) == id = 0

\* translateBedrockContainerClose.  A window the tables do not know is closed
\* at the server under the Bedrock ID itself.
BedrockClose ==
    /\ bedrockWrites = <<>>
    /\ fromBedrock # <<>>
    /\ fromBedrock' = Tail(fromBedrock)
    /\ LET id == Head(fromBedrock)
       IN  \/ /\ CloseIgnored(id)
              /\ UNCHANGED <<tables, bedrockWrites, misdirected>>
           \/ /\ ~CloseIgnored(id)
              /\ id \in DOMAIN bedrockWindows
              /\ Unregister(bedrockWindows[id])
              /\ bedrockWrites' = <<CloseJava(ServerID(bedrockWindows[id])),
                                    ToBedrock("Restore", bedrockWindows[id])>>
              /\ UNCHANGED misdirected
           \/ /\ ~CloseIgnored(id)
              /\ id \notin DOMAIN bedrockWindows
              /\ bedrockWrites' = <<CloseJava(id)>>
              /\ misdirected' = TRUE
              /\ UNCHANGED tables
    /\ UNCHANGED <<position, javaWrites, fromJava, toJava, server, client>>

(***************************************************************************)
(* Writes of both pumps                                                    *)
(***************************************************************************)
\* The client's answer to the bridge's ContainerClose, if it gives one.
Confirmations(id) ==
    IF ClientConfirms /\ id \in clientShown /\ Len(fromBedrock) < MaxInFlight
    THEN {<<>>, <<id>>}
    ELSE {<<>>}

Delivered(packet) ==
    \/ /\ packet.op = "CloseJava"
       /\ Len(toJava) < MaxInFlight   \* a full socket blocks the writer
       /\ toJava' = Append(toJava, packet.id)
       /\ UNCHANGED <<client, fromBedrock>>
    \/ /\ packet.op = "Place"
       /\ clientBlocks' = clientBlocks \cup {packet.at}
       /\ UNCHANGED <<clientShown, fromBedrock, toJava>>
    \/ /\ packet.op = "Restore"
       /\ clientBlocks' = clientBlocks \ {packet.at}
       /\ UNCHANGED <<clientShown, fromBedrock, toJava>>
    \/ /\ packet.op = "Open"
       /\ clientShown' = clientShown \cup {packet.id}
       /\ UNCHANGED <<clientBlocks, fromBedrock, toJava>>
    \/ /\ packet.op = "Close"
       /\ clientShown' = clientShown \ {packet.id}
       /\ \E answer \in Confirmations(packet.id) : fromBedrock' = fromBedrock \o answer
       /\ UNCHANGED <<clientBlocks, toJava>>

JavaPumpWrites ==
    /\ javaWrites # <<>>
    /\ Delivered(Head(javaWrites))
    /\ javaWrites' = Tail(javaWrites)
    /\ UNCHANGED <<tables, position, bedrockWrites, fromJava, server, misdirected>>

BedrockPumpWrites ==
    /\ bedrockWrites # <<>>
    /\ Delivered(Head(bedrockWrites))
    /\ bedrockWrites' = Tail(bedrockWrites)
    /\ UNCHANGED <<tables, position, javaWrites, fromJava, server, misdirected>>

(***************************************************************************)
(* The peers                                                               *)
(***************************************************************************)
\* The player closes a window the client shows, or the player inventory.
ClientCloses(id) ==
    /\ id \in clientShown \cup {0}
    /\ Len(fromBedrock) < MaxInFlight
    /\ clientShown' = clientShown \ {id}
    /\ fromBedrock' = Append(fromBedrock, id)
    /\ UNCHANGED <<tables, position, javaWrites, bedrockWrites, fromJava, toJava,
                   server, clientBlocks, misdirected>>

ServerOpens(id, mapped) ==
    /\ Len(fromJava) < MaxInFlight
    /\ OrderlyServer => id > lastMenuID
    /\ lastMenuID' = id
    /\ serverMenu' = [id |-> id, mapped |-> mapped]
    /\ fromJava' = fromJava
         \o (IF OrderlyServer /\ serverMenu # NoMenu
             THEN <<[op |-> "CloseScreen", id |-> serverMenu.id]>> ELSE <<>>)
         \o <<[op |-> "OpenScreen", id |-> id, mapped |-> mapped]>>
    /\ UNCHANGED <<tables, position, javaWrites, bedrockWrites, toJava, fromBedrock,
                   client, misdirected>>

ServerCloses ==
    /\ serverMenu # NoMenu
    /\ Len(fromJava) < MaxInFlight
    /\ serverMenu' = NoMenu
    /\ fromJava' = Append(fromJava, [op |-> "CloseScreen", id |-> serverMenu.id])
    /\ UNCHANGED <<tables, position, javaWrites, bedrockWrites, toJava, fromBedrock,
                   lastMenuID, client, misdirected>>

ServerMovesPlayer(p) ==
    /\ p # position
    /\ Len(fromJava) < MaxInFlight
    /\ fromJava' = Append(fromJava, [op |-> "Position", at |-> p])
    /\ UNCHANGED <<tables, position, javaWrites, bedrockWrites, toJava, fromBedrock,
                   server, client, misdirected>>

\* The server closes the menu a close names and ignores any other.
ServerReadsClose ==
    /\ toJava # <<>>
    /\ toJava' = Tail(toJava)
    /\ serverMenu' = IF Head(toJava) = serverMenu.id THEN NoMenu ELSE serverMenu
    /\ UNCHANGED <<tables, position, javaWrites, bedrockWrites, fromJava, fromBedrock,
                   lastMenuID, client, misdirected>>

(***************************************************************************)
(* Specification                                                           *)
(***************************************************************************)
EmptyTable == [k \in {} |-> k]

Init ==
    /\ windows = EmptyTable
    /\ bedrockWindows = EmptyTable
    /\ activeWindowID = 0
    /\ nextWindowID = 1
    /\ position \in Positions
    /\ javaWrites = <<>>
    /\ bedrockWrites = <<>>
    /\ fromJava = <<>>
    /\ toJava = <<>>
    /\ fromBedrock = <<>>
    /\ serverMenu = NoMenu
    /\ lastMenuID = 0
    /\ clientShown = {}
    /\ clientBlocks = {}
    /\ misdirected = FALSE

PumpJava == OpenUnmapped \/ OpenMapped \/ JavaClose \/ JavaPosition \/ JavaPumpWrites
PumpBedrock == BedrockClose \/ BedrockPumpWrites
Peers ==
    \/ \E id \in WindowIDs \cup {0} : ClientCloses(id)
    \/ \E id \in JavaIDs, mapped \in BOOLEAN : ServerOpens(id, mapped)
    \/ ServerCloses
    \/ \E p \in Positions : ServerMovesPlayer(p)
    \/ ServerReadsClose

Next == PumpJava \/ PumpBedrock \/ Peers

Spec == Init /\ [][Next]_vars

\* Both goroutines are scheduled and the server reads its socket.  Nothing
\* makes the player or the server open or close anything.
Fairness == WF_vars(PumpJava) /\ WF_vars(PumpBedrock) /\ WF_vars(ServerReadsClose)
FairSpec == Spec /\ Fairness

(***************************************************************************)
(* Properties                                                              *)
(***************************************************************************)
IsTable(table, keys) == DOMAIN table \subseteq keys /\ \A k \in DOMAIN table : table[k] \in Window

\* Every variable has its type; what a handler still writes and what is in
\* flight are well-formed packets.
TypeOK ==
    /\ IsTable(windows, JavaIDs)
    /\ IsTable(bedrockWindows, WindowIDs)
    /\ activeWindowID \in WindowIDs \cup {0}
    /\ nextWindowID \in WindowIDs
    /\ position \in Positions
    /\ javaWrites \in Seq(Packet)
    /\ bedrockWrites \in Seq(Packet)
    /\ fromJava \in Seq(ServerPacket)
    /\ toJava \in Seq(JavaIDs \cup WindowIDs)
    /\ fromBedrock \in Seq(WindowIDs \cup {0})
    /\ serverMenu \in [id : JavaIDs, mapped : BOOLEAN] \cup {NoMenu}
    /\ lastMenuID \in JavaIDs \cup {0}
    /\ clientShown \subseteq WindowIDs
    /\ clientBlocks \subseteq Int \X Int \X Int
    /\ misdirected \in BOOLEAN

\* Each entry is filed under its own ID and is found under its other ID in the other table.
TablesInverse ==
    /\ \A j \in DOMAIN windows :
          /\ windows[j].javaID = j
          /\ windows[j].bedrockID \in DOMAIN bedrockWindows
          /\ bedrockWindows[windows[j].bedrockID] = windows[j]
    /\ \A b \in DOMAIN bedrockWindows :
          /\ bedrockWindows[b].bedrockID = b
          /\ bedrockWindows[b].javaID \in DOMAIN windows
          /\ windows[bedrockWindows[b].javaID] = bedrockWindows[b]

ActiveRegistered == activeWindowID = 0 \/ activeWindowID \in DOMAIN bedrockWindows

\* windows and bedrockWindows are two indexes of one set of windows: an ID handed out
\* twice by the allocator, or a removal from one table only, leaves a window the session
\* can no longer close.  The active window is one of them: a click is never sent for a
\* window that either peer has closed (sendInventoryClick and resolveBedrockStackSlot
\* look the active ID up in bedrockWindows).
TablesAgree == TablesInverse /\ ActiveRegistered

\* Nothing is being handled or in flight.
Quiescent ==
    /\ javaWrites = <<>> /\ bedrockWrites = <<>>
    /\ fromJava = <<>> /\ toJava = <<>> /\ fromBedrock = <<>>

\* Once everything in flight has been handled, the client shows exactly the
\* windows the bridge has registered, however closes of the two sides crossed, and
\* no virtual block is left behind: every one the client sees stands at the position
\* of a registered window.
ClientAgrees ==
    Quiescent =>
        /\ clientShown = DOMAIN bedrockWindows
        /\ clientBlocks \subseteq {windows[j].position : j \in DOMAIN windows}

\* At rest the bridge and an orderly server agree on the open menu, unless a
\* close of an unknown window was forwarded under its Bedrock ID.
ServerAgrees ==
    Quiescent /\ ~misdirected => DOMAIN windows = {serverMenu.id} \ {0}

\* A menu the bridge cannot show does not stay open at the server: the bridge
\* closes it on the player's behalf.
UnmappedReleased ==
    \A j \in JavaIDs :
        serverMenu = [id |-> j, mapped |-> FALSE] ~> serverMenu # [id |-> j, mapped |-> FALSE]
=============================================================================

--------------------------- MODULE Windows_proofs ---------------------------
(***************************************************************************)
(* Proofs about Windows: its types; that its two tables stay inverse to    *)
(* each other with the active window among them, for every number of Java  *)
(* IDs that fits the Bedrock IDs; and that at rest the client and an       *)
(* orderly server have the windows of the tables open, however closes of   *)
(* the two sides crossed.                                                  *)
(***************************************************************************)
EXTENDS Windows, FiniteSetTheorems, DataLemmas, TLAPS

(***************************************************************************)
(* Types                                                                   *)
(***************************************************************************)
\* The virtual position of a block position is a block position.
LEMMA VirtualPositionType ==
    ASSUME NEW p \in Positions
    PROVE  VirtualPosition(p) \in Int \X Int \X Int
BY WindowsAssumption DEF VirtualPosition

\* The two lists of packets a window gives rise to are lists of packets.
LEMMA VirtualPacketsType ==
    ASSUME NEW window \in Window
    PROVE  /\ ToBedrock("Restore", window) \in Packet
           /\ CloseVirtual(window) \in Seq(Packet)
           /\ OpenVirtual(window) \in Seq(Packet)
<1>1. ASSUME NEW op \in {"Place", "Open", "Close", "Restore"}
      PROVE  ToBedrock(op, window) \in Packet
  BY DEF ToBedrock, Packet, Window
<1> QED
  BY <1>1 DEF CloseVirtual, OpenVirtual

\* Reading from a non-empty queue gives an element of it and shortens it.
LEMMA ReadType ==
    ASSUME NEW S, NEW q \in Seq(S), q # <<>>
    PROVE  Head(q) \in S /\ Tail(q) \in Seq(S)
BY HeadTailProperties

\* Removing or adding an entry keeps a table a table.
LEMMA TableUpdates ==
    ASSUME NEW K, NEW T, IsTable(T, K), NEW k
    PROVE  /\ IsTable(Without(T, k), K)
           /\ \A w \in Window : k \in K => IsTable(With(T, k, w), K)
BY DEF IsTable, Without, With

\* Forgetting a registered window keeps the tables typed.
LEMMA UnregisterType ==
    ASSUME TypeOK, NEW window \in Window, Unregister(window)
    PROVE  /\ IsTable(windows', JavaIDs)
           /\ IsTable(bedrockWindows', WindowIDs)
           /\ activeWindowID' \in WindowIDs \cup {0}
           /\ nextWindowID' \in WindowIDs
BY TableUpdates DEF TypeOK, Unregister

\* A write hands well-formed packets to the peers.
LEMMA DeliveredType ==
    ASSUME TypeOK, NEW packet \in Packet, Delivered(packet)
    PROVE  /\ toJava' \in Seq(JavaIDs \cup WindowIDs)
           /\ fromBedrock' \in Seq(WindowIDs \cup {0})
           /\ clientShown' \subseteq WindowIDs
           /\ clientBlocks' \subseteq Int \X Int \X Int
<1>1. CASE packet.op = "CloseJava"
  <2>1. packet.id \in JavaIDs \cup WindowIDs
    BY <1>1 DEF Packet
  <2>2. toJava' = Append(toJava, packet.id) /\ UNCHANGED <<client, fromBedrock>>
    BY <1>1 DEF Delivered
  <2>3. toJava' \in Seq(JavaIDs \cup WindowIDs)
    BY <2>1, <2>2 DEF TypeOK
  <2> QED
    BY <2>2, <2>3 DEF TypeOK, client
<1>2. CASE packet.op # "CloseJava"
  <2>1. packet.id \in WindowIDs /\ packet.at \in Int \X Int \X Int
    BY <1>2 DEF Packet
  <2>2. ASSUME NEW answer \in Confirmations(packet.id)
        PROVE  fromBedrock \o answer \in Seq(WindowIDs \cup {0})
    <3>1. fromBedrock \in Seq(WindowIDs \cup {0})
      BY DEF TypeOK
    <3>2. answer = <<>> \/ answer = <<packet.id>>
      BY DEF Confirmations
    <3>3. <<packet.id>> \in Seq(WindowIDs \cup {0}) /\ <<>> \in Seq(WindowIDs \cup {0})
      BY <2>1, EmptySeq
    <3>4. answer \in Seq(WindowIDs \cup {0})
      BY <3>2, <3>3
    <3> QED
      BY <3>1, <3>4, ConcatProperties
  <2>3. CASE packet.op = "Close"
    BY <2>1, <2>2, <2>3 DEF Delivered, TypeOK
  <2>4. CASE packet.op # "Close"
    BY <1>2, <2>1, <2>4 DEF Delivered, TypeOK
  <2> QED
    BY <2>3, <2>4
<1> QED
  BY <1>1, <1>2

\* Type correctness of the two tables, of what each handler still writes and of
\* every queue between the bridge and its peers.
THEOREM TypeCorrect == Spec => []TypeOK
<1>1. Init => TypeOK
  <2> SUFFICES ASSUME Init PROVE TypeOK
    OBVIOUS
  <2>1. 1 \in WindowIDs
    BY WindowsAssumption DEF WindowIDs
  <2>2. IsTable(EmptyTable, JavaIDs) /\ IsTable(EmptyTable, WindowIDs)
    BY DEF IsTable, EmptyTable
  <2>3. \A S : <<>> \in Seq(S)
    BY EmptySeq
  <2>4. /\ windows = EmptyTable /\ bedrockWindows = EmptyTable
        /\ activeWindowID = 0 /\ nextWindowID = 1 /\ position \in Positions
        /\ serverMenu = NoMenu /\ lastMenuID = 0
        /\ clientShown = {} /\ clientBlocks = {} /\ misdirected = FALSE
    BY DEF Init
  <2>5. /\ javaWrites \in Seq(Packet) /\ bedrockWrites \in Seq(Packet)
        /\ fromJava \in Seq(ServerPacket) /\ toJava \in Seq(JavaIDs \cup WindowIDs)
        /\ fromBedrock \in Seq(WindowIDs \cup {0})
    BY <2>3 DEF Init
  <2>6. IsTable(windows, JavaIDs) /\ IsTable(bedrockWindows, WindowIDs)
    BY <2>2, <2>4
  <2> QED
    BY <2>1, <2>4, <2>5, <2>6 DEF TypeOK
<1>2. TypeOK /\ [Next]_vars => TypeOK'
  <2> SUFFICES ASSUME TypeOK, [Next]_vars PROVE TypeOK'
    OBVIOUS
  <2> USE DEF tables, client, server
  <2>1. CASE OpenUnmapped
    <3>1. Head(fromJava) \in ServerPacket /\ fromJava' \in Seq(ServerPacket)
      BY <2>1, ReadType DEF OpenUnmapped, JavaReads, TypeOK
    <3>2. <<CloseJava(Head(fromJava).id)>> \in Seq(Packet)
      BY <2>1, <3>1 DEF OpenUnmapped, JavaReads, ServerPacket, CloseJava, Packet
    <3> QED
      BY <2>1, <3>1, <3>2 DEF OpenUnmapped, TypeOK
  <2>2. CASE OpenMapped
    <3>1. Head(fromJava) \in ServerPacket /\ fromJava' \in Seq(ServerPacket)
      BY <2>2, ReadType DEF OpenMapped, JavaReads, TypeOK
    <3> DEFINE javaID == Head(fromJava).id
               replaced == javaID \in DOMAIN windows
               kept == IF replaced THEN Without(windows, javaID) ELSE windows
               keptBedrock == IF replaced
                              THEN Without(bedrockWindows, windows[javaID].bedrockID)
                              ELSE bedrockWindows
               opened(id) == [javaID |-> javaID, bedrockID |-> id,
                              position |-> VirtualPosition(position)]
    <3>2. javaID \in JavaIDs
      BY <2>2, <3>1 DEF OpenMapped, JavaReads, ServerPacket
    <3>3. PICK id \in WindowIDs, next \in WindowIDs :
            /\ windows' = With(kept, javaID, opened(id))
            /\ bedrockWindows' = With(keptBedrock, id, opened(id))
            /\ javaWrites' = (IF replaced THEN CloseVirtual(windows[javaID]) ELSE <<>>)
                             \o OpenVirtual(opened(id))
            /\ activeWindowID' = id
            /\ nextWindowID' = next
      BY <2>2 DEF OpenMapped
    <3>4. opened(id) \in Window
      BY <3>2, VirtualPositionType DEF Window, TypeOK
    <3>5. IsTable(kept, JavaIDs) /\ IsTable(keptBedrock, WindowIDs)
      BY TableUpdates DEF TypeOK
    <3>6. IsTable(windows', JavaIDs) /\ IsTable(bedrockWindows', WindowIDs)
      <4> HIDE DEF kept, keptBedrock, opened
      <4> QED
        BY <3>2, <3>3, <3>4, <3>5, TableUpdates
    <3>7. javaWrites' \in Seq(Packet)
      <4>1. replaced => windows[javaID] \in Window
        BY DEF TypeOK, IsTable
      <4>2. (IF replaced THEN CloseVirtual(windows[javaID]) ELSE <<>>) \in Seq(Packet)
        BY <4>1, VirtualPacketsType
      <4>3. OpenVirtual(opened(id)) \in Seq(Packet)
        BY <3>4, VirtualPacketsType
      <4> HIDE DEF replaced, opened
      <4> QED
        BY <3>3, <4>2, <4>3
    <3> HIDE DEF replaced, kept, keptBedrock, opened
    <3> QED
      BY <2>2, <3>1, <3>3, <3>6, <3>7 DEF OpenMapped, TypeOK
  <2>3. CASE JavaClose
    <3>1. Head(fromJava) \in ServerPacket /\ fromJava' \in Seq(ServerPacket)
      BY <2>3, ReadType DEF JavaClose, JavaReads, TypeOK
    <3> DEFINE javaID == Head(fromJava).id
    <3>2. CASE javaID \in DOMAIN windows
      <4>1. windows[javaID] \in Window
        BY <3>2 DEF TypeOK, IsTable
      <4>2. Unregister(windows[javaID]) /\ javaWrites' = CloseVirtual(windows[javaID])
        BY <2>3, <3>2 DEF JavaClose
      <4>3. javaWrites' \in Seq(Packet)
        BY <4>1, <4>2, VirtualPacketsType
      <4> QED
        BY <2>3, <3>1, <4>1, <4>2, <4>3, UnregisterType DEF JavaClose, TypeOK
    <3>3. CASE javaID \notin DOMAIN windows
      BY <2>3, <3>1, <3>3 DEF JavaClose, TypeOK
    <3> QED
      BY <3>2, <3>3
  <2>4. CASE JavaPosition
    <3>1. Head(fromJava) \in ServerPacket /\ fromJava' \in Seq(ServerPacket)
      BY <2>4, ReadType DEF JavaPosition, JavaReads, TypeOK
    <3>2. Head(fromJava).at \in Positions
      BY <2>4, <3>1 DEF JavaPosition, JavaReads, ServerPacket
    <3> QED
      BY <2>4, <3>1, <3>2 DEF JavaPosition, TypeOK
  <2>5. CASE JavaPumpWrites
    <3>1. Head(javaWrites) \in Packet /\ javaWrites' \in Seq(Packet)
      BY <2>5, ReadType DEF JavaPumpWrites, TypeOK
    <3> QED
      BY <2>5, <3>1, DeliveredType DEF JavaPumpWrites, TypeOK
  <2>6. CASE BedrockClose
    <3>1. Head(fromBedrock) \in WindowIDs \cup {0} /\ fromBedrock' \in Seq(WindowIDs \cup {0})
      BY <2>6, ReadType DEF BedrockClose, TypeOK
    <3> DEFINE id == Head(fromBedrock)
    <3>2. CASE CloseIgnored(id)
      BY <2>6, <3>1, <3>2 DEF BedrockClose, TypeOK
    <3>3. CASE ~CloseIgnored(id) /\ id \in DOMAIN bedrockWindows
      <4>1. bedrockWindows[id] \in Window
        BY <3>3 DEF TypeOK, IsTable
      <4>2. /\ Unregister(bedrockWindows[id])
            /\ bedrockWrites' = <<CloseJava(ServerID(bedrockWindows[id])),
                                  ToBedrock("Restore", bedrockWindows[id])>>
            /\ UNCHANGED misdirected
        BY <2>6, <3>3 DEF BedrockClose
      <4>3. CloseJava(ServerID(bedrockWindows[id])) \in Packet
        BY <4>1 DEF CloseJava, ServerID, Packet, Window
      <4>4. bedrockWrites' \in Seq(Packet)
        BY <4>1, <4>2, <4>3, VirtualPacketsType
      <4> QED
        BY <2>6, <3>1, <4>1, <4>2, <4>4, UnregisterType DEF BedrockClose, TypeOK
    <3>4. CASE ~CloseIgnored(id) /\ id \notin DOMAIN bedrockWindows
      <4>1. id \in WindowIDs
        BY <3>1, <3>4 DEF CloseIgnored
      <4>2. <<CloseJava(id)>> \in Seq(Packet)
        BY <4>1 DEF CloseJava, Packet
      <4> QED
        BY <2>6, <3>1, <3>4, <4>2 DEF BedrockClose, TypeOK
    <3> QED
      BY <3>2, <3>3, <3>4
  <2>7. CASE BedrockPumpWrites
    <3>1. Head(bedrockWrites) \in Packet /\ bedrockWrites' \in Seq(Packet)
      BY <2>7, ReadType DEF BedrockPumpWrites, TypeOK
    <3> QED
      BY <2>7, <3>1, DeliveredType DEF BedrockPumpWrites, TypeOK
  <2>8. ASSUME NEW id \in WindowIDs \cup {0}, ClientCloses(id) PROVE TypeOK'
    BY <2>8 DEF ClientCloses, TypeOK
  <2>9. ASSUME NEW id \in JavaIDs, NEW mapped \in BOOLEAN, ServerOpens(id, mapped)
        PROVE  TypeOK'
    <3>1. /\ <<[op |-> "OpenScreen", id |-> id, mapped |-> mapped]>> \in Seq(ServerPacket)
          /\ serverMenu # NoMenu =>
               <<[op |-> "CloseScreen", id |-> serverMenu.id]>> \in Seq(ServerPacket)
      BY DEF ServerPacket, TypeOK
    <3>2. fromJava' \in Seq(ServerPacket)
      BY <2>9, <3>1 DEF ServerOpens, TypeOK
    <3> QED
      BY <2>9, <3>2 DEF ServerOpens, TypeOK
  <2>10. CASE ServerCloses
    <3>1. [op |-> "CloseScreen", id |-> serverMenu.id] \in ServerPacket
      BY <2>10 DEF ServerCloses, ServerPacket, TypeOK
    <3> QED
      BY <2>10, <3>1 DEF ServerCloses, TypeOK
  <2>11. ASSUME NEW p \in Positions, ServerMovesPlayer(p) PROVE TypeOK'
    <3>1. [op |-> "Position", at |-> p] \in ServerPacket
      BY DEF ServerPacket
    <3> QED
      BY <2>11, <3>1 DEF ServerMovesPlayer, TypeOK
  <2>12. CASE ServerReadsClose
    <3>1. toJava' \in Seq(JavaIDs \cup WindowIDs)
      BY <2>12, ReadType DEF ServerReadsClose, TypeOK
    <3> QED
      BY <2>12, <3>1 DEF ServerReadsClose, TypeOK
  <2>13. CASE UNCHANGED vars
    BY <2>13 DEF vars, TypeOK
  <2> QED
    BY <2>1, <2>2, <2>3, <2>4, <2>5, <2>6, <2>7, <2>8, <2>9, <2>10, <2>11, <2>12, <2>13
    DEF Next, PumpJava, PumpBedrock, Peers
<1> QED
  BY <1>1, <1>2, PTL DEF Spec

(***************************************************************************)
(* The tables                                                              *)
(***************************************************************************)
\* What TablesInverse says of two given tables, so that it can be stated of
\* the tables a handler is building.
Inverse2(T, U) ==
    /\ \A j \in DOMAIN T : /\ T[j].javaID = j
                           /\ T[j].bedrockID \in DOMAIN U
                           /\ U[T[j].bedrockID] = T[j]
    /\ \A b \in DOMAIN U : /\ U[b].bedrockID = b
                           /\ U[b].javaID \in DOMAIN T
                           /\ T[U[b].javaID] = U[b]

\* Removing one window from both of two inverse tables leaves them inverse.
LEMMA RemoveInverse ==
    ASSUME NEW T, NEW U, Inverse2(T, U), NEW j \in DOMAIN T
    PROVE  Inverse2(Without(T, j), Without(U, T[j].bedrockID))
BY DEF Inverse2, Without

\* Adding a window under two IDs neither table has leaves them inverse.
LEMMA AddInverse ==
    ASSUME NEW T, NEW U, Inverse2(T, U), NEW w \in Window,
           w.javaID \notin DOMAIN T, w.bedrockID \notin DOMAIN U
    PROVE  Inverse2(With(T, w.javaID, w), With(U, w.bedrockID, w))
BY DEF Inverse2, With

\* Inverse tables have as many Bedrock IDs as Java IDs, so as long as one Java
\* ID is free, some Bedrock ID is.
LEMMA SomeBedrockIDFree ==
    ASSUME NEW T, NEW U, IsTable(T, JavaIDs), IsTable(U, WindowIDs), Inverse2(T, U),
           NEW j \in JavaIDs, j \notin DOMAIN T
    PROVE  ~(WindowIDs \subseteq DOMAIN U)
<1>1. SUFFICES ASSUME WindowIDs \subseteq DOMAIN U PROVE FALSE
  OBVIOUS
<1>2. IsFiniteSet(JavaIDs \ {j}) /\ Cardinality(JavaIDs \ {j}) = Cardinality(JavaIDs) - 1
  BY WindowsAssumption, FS_RemoveElement
<1>3. IsFiniteSet(WindowIDs) /\ Cardinality(WindowIDs) = MaxWindowID
  BY WindowsAssumption, FS_Interval DEF WindowIDs
<1>4. Cardinality(JavaIDs) \in Nat
  BY WindowsAssumption, FS_CardinalityType
<1> DEFINE f == [b \in WindowIDs |-> U[b].javaID]
<1>5. f \in [WindowIDs -> JavaIDs \ {j}]
  BY <1>1 DEF Inverse2, IsTable, Window
<1>6. Cardinality(JavaIDs \ {j}) < Cardinality(WindowIDs)
  BY <1>2, <1>3, <1>4, WindowsAssumption
<1>7. PICK b, c \in WindowIDs : b # c /\ f[b] = f[c]
  <2> HIDE DEF f
  <2> QED
    BY <1>2, <1>3, <1>5, <1>6, FS_PigeonHole
<1>8. U[b] = U[c]
  BY <1>1, <1>7 DEF Inverse2
<1> QED
  BY <1>1, <1>7, <1>8 DEF Inverse2

\* Closing a registered window keeps the tables inverse and, because the active
\* window is reset with the one it names, the active window registered.
LEMMA UnregisterTables ==
    ASSUME TypeOK, TablesAgree, NEW j \in DOMAIN windows, Unregister(windows[j])
    PROVE  TablesAgree'
<1>1. Inverse2(windows, bedrockWindows)
  BY DEF TablesAgree, TablesInverse, Inverse2
<1>2. windows[j].javaID = j
  BY DEF TablesAgree, TablesInverse
<1>3. Inverse2(windows', bedrockWindows')
  BY <1>1, <1>2, RemoveInverse DEF Unregister
<1>4. ActiveRegistered'
  BY DEF TablesAgree, ActiveRegistered, Unregister, Without
<1> QED
  BY <1>3, <1>4 DEF TablesAgree, TablesInverse, Inverse2

\* One window is registered under one Java and one Bedrock ID, and the active
\* window is a registered one, in every reachable state.
THEOREM TablesCorrect == Spec => []TablesAgree
<1>1. Init => TablesAgree
  BY DEF Init, TablesAgree, TablesInverse, ActiveRegistered, EmptyTable
<1>2. TypeOK /\ TablesAgree /\ [Next]_vars => TablesAgree'
  <2> SUFFICES ASSUME TypeOK, TablesAgree, [Next]_vars PROVE TablesAgree'
    OBVIOUS
  <2>1. CASE OpenMapped
    <3> DEFINE javaID == Head(fromJava).id
               replaced == javaID \in DOMAIN windows
               kept == IF replaced THEN Without(windows, javaID) ELSE windows
               keptBedrock == IF replaced
                              THEN Without(bedrockWindows, windows[javaID].bedrockID)
                              ELSE bedrockWindows
               opened(id) == [javaID |-> javaID, bedrockID |-> id,
                              position |-> VirtualPosition(position)]
    <3>1. javaID \in JavaIDs
      BY <2>1, ReadType DEF OpenMapped, JavaReads, TypeOK, ServerPacket
    <3>2. PICK id \in WindowIDs, next \in WindowIDs :
            /\ Allocates(id, next, DOMAIN keptBedrock)
            /\ windows' = With(kept, javaID, opened(id))
            /\ bedrockWindows' = With(keptBedrock, id, opened(id))
            /\ activeWindowID' = id
      BY <2>1 DEF OpenMapped
    <3>3. Inverse2(windows, bedrockWindows)
      BY DEF TablesAgree, TablesInverse, Inverse2
    <3>4. Inverse2(kept, keptBedrock)
      BY <3>3, RemoveInverse
    <3>5. IsTable(kept, JavaIDs) /\ IsTable(keptBedrock, WindowIDs)
      BY TableUpdates DEF TypeOK
    <3>6. javaID \notin DOMAIN kept
      BY DEF Without
    <3>7. opened(id) \in Window
      BY <3>1, VirtualPositionType DEF Window, TypeOK
    <3>8. opened(id).javaID = javaID /\ opened(id).bedrockID = id
      OBVIOUS
    <3> HIDE DEF javaID, replaced, kept, keptBedrock, opened
    <3>9. id \notin DOMAIN keptBedrock
      BY <3>1, <3>2, <3>4, <3>5, <3>6, SomeBedrockIDFree DEF Allocates
    <3>10. Inverse2(windows', bedrockWindows')
      BY <3>2, <3>4, <3>6, <3>7, <3>8, <3>9, AddInverse
    <3>11. ActiveRegistered'
      BY <3>2 DEF ActiveRegistered, With
    <3> QED
      BY <3>10, <3>11 DEF TablesAgree, TablesInverse, Inverse2
  <2>2. CASE JavaClose
    BY <2>2, UnregisterTables
    DEF JavaClose, tables, TablesAgree, TablesInverse, ActiveRegistered
  <2>3. CASE BedrockClose
    <3> DEFINE id == Head(fromBedrock)
    <3>1. CASE id \in DOMAIN bedrockWindows /\ Unregister(bedrockWindows[id])
      <4>1. /\ bedrockWindows[id].javaID \in DOMAIN windows
            /\ windows[bedrockWindows[id].javaID] = bedrockWindows[id]
        BY <3>1 DEF TablesAgree, TablesInverse
      <4> QED
        BY <3>1, <4>1, UnregisterTables
    <3>2. CASE UNCHANGED tables
      BY <3>2 DEF tables, TablesAgree, TablesInverse, ActiveRegistered
    <3> QED
      BY <2>3, <3>1, <3>2 DEF BedrockClose
  <2>4. CASE UNCHANGED tables
    BY <2>4 DEF tables, TablesAgree, TablesInverse, ActiveRegistered
  <2>5. ASSUME NEW id \in WindowIDs \cup {0}, ClientCloses(id) PROVE UNCHANGED tables
    BY <2>5 DEF ClientCloses
  <2>6. ASSUME NEW id \in JavaIDs, NEW mapped \in BOOLEAN, ServerOpens(id, mapped)
        PROVE  UNCHANGED tables
    BY <2>6 DEF ServerOpens
  <2>7. ASSUME NEW p \in Positions, ServerMovesPlayer(p) PROVE UNCHANGED tables
    BY <2>7 DEF ServerMovesPlayer
  <2>8. CASE OpenUnmapped \/ JavaPosition \/ JavaPumpWrites \/ BedrockPumpWrites
             \/ ServerCloses \/ ServerReadsClose \/ UNCHANGED vars
    BY <2>4, <2>8 DEF OpenUnmapped, JavaPosition, JavaPumpWrites, BedrockPumpWrites,
                      ServerCloses, ServerReadsClose, vars
  <2> QED
    BY <2>1, <2>2, <2>3, <2>4, <2>5, <2>6, <2>7, <2>8
    DEF Next, PumpJava, PumpBedrock, Peers
<1> QED
  BY <1>1, <1>2, TypeCorrect, PTL DEF Spec


(***************************************************************************)
(* What the client shows, and what the server has open                     *)
(***************************************************************************)
\* Both hold of a server that closes its menu before it opens the next and does not reuse an
\* ID.  There is then at most one entry for an ID of either kind in a session, so what is
\* still to be written, or on its way, can be told from what has been.
Queued(b) == \E i \in DOMAIN fromBedrock : fromBedrock[i] = b
IsOpen(i) == fromJava[i].op = "OpenScreen"
Coming(j) == \E i \in DOMAIN fromJava : IsOpen(i) /\ fromJava[i].id = j
Used == {j \in JavaIDs : j <= lastMenuID /\ ~Coming(j)}

\* What the server sends is in the order of its menus.
MenusInOrder ==
    /\ \A i \in DOMAIN fromJava :
          fromJava[i].op \in {"OpenScreen", "CloseScreen"} => fromJava[i].id <= lastMenuID
    /\ \A i, k \in DOMAIN fromJava :
          IsOpen(i) /\ IsOpen(k) /\ i < k => fromJava[i].id < fromJava[k].id
    /\ serverMenu.id <= lastMenuID
\* A registered window is of a menu that has been read.
RegisteredUsed == \A j \in DOMAIN windows : j \in Used

\* The Bedrock IDs after n have not been given out.
Unspent(n) == \A b \in WindowIDs : b > n =>
                 b \notin DOMAIN bedrockWindows /\ b \notin clientShown /\ ~Queued(b)
Spent == \E n \in 0..MaxWindowID :
            /\ n <= Cardinality(Used)
            /\ nextWindowID = (IF n < MaxWindowID THEN n + 1 ELSE 1)
            /\ Unspent(n)

\* What a pump has left to write: the opening of w, its closing, its end.
Opens(q, w) == q = OpenVirtual(w) \/ q = <<ToBedrock("Open", w)>>
Closes(q, w) == q = CloseVirtual(w)
Restores(q, w) == Closes(q, w) \/ q = <<ToBedrock("Restore", w)>>
Ends(q, w) ==
    \/ q = <<CloseJava(w.javaID), ToBedrock("Restore", w)>>
    \/ q = <<ToBedrock("Restore", w)>>
Releases(q) == \E j \in JavaIDs \cup WindowIDs : q = <<CloseJava(j)>>
WritesInOrder ==
    /\ \/ javaWrites = <<>>
       \/ Releases(javaWrites)
       \/ \E w \in Window : Opens(javaWrites, w) \/ Restores(javaWrites, w)
    /\ \/ bedrockWrites = <<>>
       \/ Releases(bedrockWrites)
       \/ \E w \in Window : Ends(bedrockWrites, w)

\* A window whose Open is still to be written is registered, and the client has not seen it.
OpeningUnseen ==
    \A w \in Window : Opens(javaWrites, w) =>
       /\ w.bedrockID \in DOMAIN bedrockWindows
       /\ bedrockWindows[w.bedrockID].position = w.position
       /\ w.bedrockID \notin clientShown /\ ~Queued(w.bedrockID)
\* A window whose Close is still to be written is not registered.
ClosingForgotten ==
    \A w \in Window : Closes(javaWrites, w) => w.bedrockID \notin DOMAIN bedrockWindows
ShownKnown ==
    \A b \in clientShown :
       b \in DOMAIN bedrockWindows \/ \E w \in Window : w.bedrockID = b /\ Closes(javaWrites, w)
KnownShown ==
    \A b \in DOMAIN bedrockWindows :
       b \in clientShown \/ Queued(b) \/ \E w \in Window : w.bedrockID = b /\ Opens(javaWrites, w)
QueuedClosed == \A b \in clientShown : ~Queued(b)
BlocksHeld ==
    \A p \in clientBlocks :
       \/ \E j \in DOMAIN windows : windows[j].position = p
       \/ \E w \in Window : w.position = p /\ (Restores(javaWrites, w) \/ Ends(bedrockWrites, w))

Menus == MenusInOrder /\ RegisteredUsed /\ Spent
Client ==
    /\ WritesInOrder /\ OpeningUnseen /\ ClosingForgotten /\ ShownKnown /\ KnownShown
    /\ QueuedClosed /\ BlocksHeld

\* A close of menu j is on its way to the server, or back from it behind packet k.
Sending(q, j) == \E i \in DOMAIN q : q[i].op = "CloseJava" /\ q[i].id = j
ClosePending(j) ==
    \/ \E i \in DOMAIN toJava : toJava[i] = j
    \/ Sending(javaWrites, j)
    \/ Sending(bedrockWrites, j)
CloseComing(j, k) ==
    \E i \in DOMAIN fromJava : i > k /\ fromJava[i].op = "CloseScreen" /\ fromJava[i].id = j

\* A window is registered of the menu the server has open, or of one it has closed; the
\* menu it has open is on its way, registered, or about to be closed.
MenuHeld(j) ==
    /\ j \in DOMAIN windows => j = serverMenu.id \/ CloseComing(j, 0)
    /\ j = serverMenu.id => /\ Coming(j) \/ j \in DOMAIN windows \/ ClosePending(j)
                            /\ ~CloseComing(j, 0)
    /\ \A k \in DOMAIN fromJava : IsOpen(k) /\ fromJava[k].id = j =>
          j = serverMenu.id \/ CloseComing(j, k)
    /\ ClosePending(j) => j \in Used /\ j \notin DOMAIN windows
Server == ~misdirected => \A j \in JavaIDs : MenuHeld(j)

\* The menus of the server's packets have IDs, and these are numbers.
LEMMA MenuIDs ==
    /\ JavaIDs \subseteq Int /\ JavaIDs \subseteq Nat \ {0}
    /\ \A p \in ServerPacket : p.op \in {"OpenScreen", "CloseScreen"} => p.id \in JavaIDs
    /\ TypeOK => /\ lastMenuID \in Int /\ serverMenu.id \in Int
                 /\ fromJava \in Seq(ServerPacket)
                 /\ \A i \in DOMAIN fromJava : fromJava[i] \in ServerPacket
  <1>1. JavaIDs \subseteq Int /\ JavaIDs \subseteq Nat \ {0}
    BY WindowsAssumption
  <1>2. \A p \in ServerPacket : p.op \in {"OpenScreen", "CloseScreen"} => p.id \in JavaIDs
    BY DEF ServerPacket
  <1>3. ASSUME TypeOK
        PROVE  /\ lastMenuID \in Int /\ serverMenu.id \in Int
               /\ fromJava \in Seq(ServerPacket)
               /\ \A i \in DOMAIN fromJava : fromJava[i] \in ServerPacket
    <2>1. /\ lastMenuID \in JavaIDs \cup {0} /\ serverMenu \in [id : JavaIDs, mapped : BOOLEAN] \cup {NoMenu}
          /\ fromJava \in Seq(ServerPacket)
      BY <1>3 DEF TypeOK
    <2>2. \A i \in DOMAIN fromJava : fromJava[i] \in ServerPacket
      BY <2>1
    <2>3. serverMenu.id \in JavaIDs \cup {0}
      BY <2>1 DEF NoMenu
    <2>4. \A id \in JavaIDs \cup {0} : id \in Int
      BY <1>1
    <2>5. lastMenuID \in Int /\ serverMenu.id \in Int
      BY <2>1, <2>3, <2>4
    <2> QED
      BY <2>1, <2>2, <2>5
  <1> QED
    BY <1>1, <1>2, <1>3

\* The bridge reads the packets of the server in the order of its menus.
LEMMA MenuRead ==
    ASSUME TypeOK, MenusInOrder, fromJava # <<>>, fromJava' = Tail(fromJava),
           lastMenuID' = lastMenuID, serverMenu' = serverMenu
    PROVE  /\ MenusInOrder' /\ Used \subseteq Used'
           /\ Head(fromJava).op = "OpenScreen" =>
                 Head(fromJava).id \in JavaIDs /\ Head(fromJava).id \in Used' \ Used
  <1>1. /\ fromJava \in Seq(ServerPacket)
        /\ Head(fromJava) = fromJava[1] /\ Head(fromJava) \in ServerPacket
        /\ 1 \in DOMAIN fromJava
        /\ \A i \in DOMAIN fromJava' :
              i \in Nat /\ i > 0 /\ i + 1 \in DOMAIN fromJava /\ fromJava'[i] = fromJava[i + 1]
        /\ \A i \in DOMAIN fromJava :
              /\ i \in Nat
              /\ i = 1 \/ (i - 1 \in DOMAIN fromJava' /\ fromJava'[i - 1] = fromJava[i])
    BY Popped DEF TypeOK
  <1>2. \A i \in DOMAIN fromJava' : IsOpen(i)' <=> IsOpen(i + 1)
    BY <1>1 DEF IsOpen
  <1>3. MenusInOrder'
    <2>1. \A i \in DOMAIN fromJava' :
             fromJava'[i].op \in {"OpenScreen", "CloseScreen"} => fromJava'[i].id <= lastMenuID'
      BY <1>1 DEF MenusInOrder
    <2>2. ASSUME NEW i \in DOMAIN fromJava', NEW k \in DOMAIN fromJava', IsOpen(i)', IsOpen(k)', i < k
          PROVE  fromJava'[i].id < fromJava'[k].id
      <3>1. /\ i + 1 \in DOMAIN fromJava /\ k + 1 \in DOMAIN fromJava /\ i + 1 < k + 1
            /\ IsOpen(i + 1) /\ IsOpen(k + 1)
            /\ fromJava'[i] = fromJava[i + 1] /\ fromJava'[k] = fromJava[k + 1]
        BY <1>1, <1>2, <2>2
      <3> QED
        BY <3>1 DEF MenusInOrder
    <2> QED
      BY <2>1, <2>2 DEF MenusInOrder
  <1>4. \A j : Coming(j)' => Coming(j)
    BY <1>1, <1>2 DEF Coming
  <1>5. Used \subseteq Used'
    BY <1>4 DEF Used
  <1>6. ASSUME Head(fromJava).op = "OpenScreen"
        PROVE  Head(fromJava).id \in JavaIDs /\ Head(fromJava).id \in Used' \ Used
    <2> SUFFICES ASSUME NEW j, j = Head(fromJava).id PROVE j \in JavaIDs /\ j \in Used' \ Used
      OBVIOUS
    <2>1. j \in JavaIDs /\ j \in Int
      BY <1>1, <1>6, MenuIDs
    <2>2. IsOpen(1) /\ fromJava[1].id = j /\ 1 \in DOMAIN fromJava /\ Coming(j) /\ j <= lastMenuID
      BY <1>1, <1>6 DEF IsOpen, Coming, MenusInOrder
    <2>3. ASSUME NEW i \in DOMAIN fromJava', IsOpen(i)', fromJava'[i].id = j PROVE FALSE
      <3>1. i \in Nat /\ i + 1 \in DOMAIN fromJava /\ IsOpen(i + 1) /\ fromJava[i + 1].id = j /\ 1 < i + 1
        BY <1>1, <1>2, <2>3
      <3>2. j < j
        BY <1>1, <2>2, <3>1 DEF MenusInOrder
      <3> QED
        BY <2>1, <3>2
    <2>4. ~Coming(j)'
      BY <2>3 DEF Coming
    <2>5. j \in Used' /\ j \notin Used
      BY <2>1, <2>2, <2>4 DEF Used
    <2> QED
      BY <2>1, <2>5
  <1> QED
    BY <1>3, <1>5, <1>6

\* What the server sends in one step: the close of its menu, at most one new one, or
\* packets of no menu.
Sends(r) ==
    /\ fromJava' = fromJava \o r
    /\ lastMenuID <= lastMenuID' /\ serverMenu'.id <= lastMenuID'
    /\ \A i \in DOMAIN r : r[i].op = "CloseScreen" =>
          r[i].id = serverMenu.id /\ r[i].id <= lastMenuID
    /\ \A i \in DOMAIN r : r[i].op = "OpenScreen" =>
          i = Len(r) /\ r[i].id = lastMenuID' /\ lastMenuID < r[i].id /\ serverMenu'.id = r[i].id
    /\ \/ serverMenu' = serverMenu /\ \A i \in DOMAIN r : r[i].op = "Position"
       \/ /\ serverMenu # NoMenu =>
                \E i \in DOMAIN r : r[i].op = "CloseScreen" /\ r[i].id = serverMenu.id
          /\ serverMenu' # NoMenu =>
                \E i \in DOMAIN r : r[i].op = "OpenScreen" /\ r[i].id = serverMenu'.id

\* Such packets keep the menus in order.
LEMMA MenuSent ==
    ASSUME TypeOK, TypeOK', MenusInOrder, NEW r \in Seq(ServerPacket), Sends(r)
    PROVE  MenusInOrder' /\ Used \subseteq Used'
  <1>0. /\ fromJava' = fromJava \o r /\ lastMenuID <= lastMenuID' /\ serverMenu'.id <= lastMenuID'
        /\ \A i \in DOMAIN r : r[i].op = "CloseScreen" => r[i].id <= lastMenuID
        /\ \A i \in DOMAIN r : r[i].op = "OpenScreen" =>
              i = Len(r) /\ r[i].id = lastMenuID' /\ lastMenuID < r[i].id
    BY DEF Sends
  <1> USE <1>0
  <1>1. /\ \A i \in DOMAIN fromJava : i \in DOMAIN fromJava' /\ fromJava'[i] = fromJava[i]
        /\ DOMAIN fromJava = 1..Len(fromJava) /\ Len(fromJava) \in Nat
        /\ DOMAIN r = 1..Len(r) /\ Len(r) \in Nat
    BY Joined DEF TypeOK
  <1>2. ASSUME NEW i \in DOMAIN r
        PROVE  Len(fromJava) + i \in DOMAIN fromJava' /\ fromJava'[Len(fromJava) + i] = r[i]
    <2>1. fromJava \in Seq(ServerPacket)
      BY DEF TypeOK
    <2>2. Len(fromJava) + i \in DOMAIN (fromJava \o r) /\ (fromJava \o r)[Len(fromJava) + i] = r[i]
      BY <2>1, Joined
    <2> QED
      BY <2>2
  <1>3. \A i \in DOMAIN fromJava' :
           i \in Int /\ (i \in DOMAIN fromJava \/ (i > Len(fromJava) /\ i - Len(fromJava) \in DOMAIN r))
    BY Joined DEF TypeOK
  <1>4. \A i \in DOMAIN fromJava' :
           \/ i \in DOMAIN fromJava /\ fromJava'[i] = fromJava[i]
           \/ /\ i > Len(fromJava) /\ i - Len(fromJava) \in DOMAIN r
              /\ fromJava'[i] = r[i - Len(fromJava)]
    <2> SUFFICES ASSUME NEW i \in DOMAIN fromJava', i \notin DOMAIN fromJava
                 PROVE  /\ i > Len(fromJava) /\ i - Len(fromJava) \in DOMAIN r
                        /\ fromJava'[i] = r[i - Len(fromJava)]
      BY <1>1
    <2>1. i \in Int /\ i > Len(fromJava) /\ i - Len(fromJava) \in DOMAIN r
          /\ Len(fromJava) + (i - Len(fromJava)) = i
      BY <1>1, <1>3
    <2>2. fromJava'[Len(fromJava) + (i - Len(fromJava))] = r[i - Len(fromJava)]
      BY <1>2, <2>1
    <2> QED
      BY <2>1, <2>2
  <1>5. lastMenuID \in Int /\ lastMenuID' \in Int
    BY MenuIDs, WindowsAssumption DEF TypeOK
  <1>6. \A i \in DOMAIN fromJava' : IsOpen(i)' =>
           \/ i \in DOMAIN fromJava /\ IsOpen(i)
           \/ i = Len(fromJava) + Len(r) /\ fromJava'[i].id = lastMenuID' /\ lastMenuID < lastMenuID'
    BY <1>1, <1>3, <1>4 DEF IsOpen
  <1>7. \A i \in DOMAIN fromJava : IsOpen(i) => fromJava[i].id <= lastMenuID /\ fromJava[i].id \in Int
    BY MenuIDs, <1>1 DEF MenusInOrder, IsOpen
  <1>8. MenusInOrder'
    <2>1. ASSUME NEW i \in DOMAIN fromJava',
                 fromJava'[i].op \in {"OpenScreen", "CloseScreen"}
          PROVE  fromJava'[i].id <= lastMenuID'
      <3>1. CASE i \in DOMAIN fromJava /\ fromJava'[i] = fromJava[i]
        <4>1. fromJava[i].id <= lastMenuID /\ fromJava[i].id \in Int
          BY <2>1, <3>1, MenuIDs, <1>1 DEF MenusInOrder
        <4> QED
          BY <1>5, <3>1, <4>1
      <3>2. CASE i - Len(fromJava) \in DOMAIN r /\ fromJava'[i] = r[i - Len(fromJava)]
        <4>1. r[i - Len(fromJava)] \in ServerPacket
          BY <3>2
        <4>2. r[i - Len(fromJava)].id \in Int
          BY <2>1, <3>2, <4>1, MenuIDs
        <4> QED
          BY <1>5, <2>1, <3>2, <4>2
      <3> QED
        BY <1>4, <3>1, <3>2
    <2>2. ASSUME NEW i \in DOMAIN fromJava', NEW k \in DOMAIN fromJava', IsOpen(i)', IsOpen(k)', i < k
          PROVE  fromJava'[i].id < fromJava'[k].id
      <3>1. k \in Int /\ k <= Len(fromJava) + Len(r) /\ i \in Int
        BY <1>1, <1>3
      <3>2. i \in DOMAIN fromJava /\ IsOpen(i)
        BY <1>1, <1>6, <2>2, <3>1
      <3>3. CASE k \in DOMAIN fromJava /\ IsOpen(k)
        BY <1>1, <2>2, <3>2, <3>3 DEF MenusInOrder
      <3>4. CASE fromJava'[k].id = lastMenuID' /\ lastMenuID < lastMenuID'
        BY <1>1, <1>5, <1>7, <3>2, <3>4
      <3> QED
        BY <1>6, <2>2, <3>3, <3>4
    <2> QED
      BY <2>1, <2>2 DEF MenusInOrder
  <1>9. ASSUME NEW j \in Used
        PROVE  j \in Used'
    <2>1. j \in JavaIDs /\ j \in Int /\ j <= lastMenuID /\ ~Coming(j)
      BY WindowsAssumption DEF Used
    <2>2. ~Coming(j)'
      <3> SUFFICES ASSUME NEW i \in DOMAIN fromJava', IsOpen(i)', fromJava'[i].id = j PROVE FALSE
        BY DEF Coming
      <3> QED
        BY <1>1, <1>5, <1>6, <2>1 DEF Coming
    <2> QED
      BY <1>5, <2>1, <2>2 DEF Used
  <1> QED
    BY <1>8, <1>9

\* The IDs that have been used are finitely many, and one more is counted.
LEMMA UsedCounted ==
    /\ IsFiniteSet(Used) /\ Cardinality(Used) \in Nat /\ Cardinality(Used) <= Cardinality(JavaIDs)
    /\ Cardinality(JavaIDs) \in Nat
    /\ \A j \in JavaIDs \ Used : Cardinality(Used) < Cardinality(JavaIDs)
  <1>1. Used \subseteq JavaIDs /\ IsFiniteSet(JavaIDs)
    BY WindowsAssumption DEF Used
  <1>2. IsFiniteSet(Used) /\ Cardinality(Used) <= Cardinality(JavaIDs)
    BY <1>1, FS_Subset
  <1>3. Cardinality(Used) \in Nat /\ Cardinality(JavaIDs) \in Nat
    BY <1>1, <1>2, FS_CardinalityType
  <1>4. ASSUME NEW j \in JavaIDs \ Used
        PROVE  Cardinality(Used) < Cardinality(JavaIDs)
    <2>1. Used \subseteq JavaIDs \ {j}
      BY <1>1
    <2>2. IsFiniteSet(JavaIDs \ {j}) /\ Cardinality(JavaIDs \ {j}) = Cardinality(JavaIDs) - 1
      BY <1>1, FS_RemoveElement
    <2>3. Cardinality(Used) <= Cardinality(JavaIDs \ {j})
      BY <2>1, <2>2, FS_Subset
    <2> QED
      BY <1>3, <2>2, <2>3
  <1> QED
    BY <1>2, <1>3, <1>4

\* An ID that was not used before counts one more.
LEMMA UsedGrows ==
    ASSUME Used \subseteq Used'
    PROVE  /\ Cardinality(Used) <= Cardinality(Used') /\ Cardinality(Used') \in Nat
           /\ \A j \in Used' : j \notin Used => Cardinality(Used) + 1 <= Cardinality(Used')
  <1>1. IsFiniteSet(Used') /\ Cardinality(Used') \in Nat
    <2>1. Used' \subseteq JavaIDs /\ IsFiniteSet(JavaIDs)
      BY WindowsAssumption DEF Used
    <2>2. IsFiniteSet(Used')
      BY <2>1, FS_Subset
    <2> QED
      BY <2>2, FS_CardinalityType
  <1>2. IsFiniteSet(Used) /\ Cardinality(Used) \in Nat
    BY UsedCounted
  <1>3. Cardinality(Used) <= Cardinality(Used')
    BY <1>1, FS_Subset
  <1>4. ASSUME NEW j \in Used', j \notin Used
        PROVE  Cardinality(Used) + 1 <= Cardinality(Used')
    <2>1. IsFiniteSet(Used' \ {j}) /\ Cardinality(Used' \ {j}) = Cardinality(Used') - 1
      BY <1>1, FS_RemoveElement
    <2>2. Used \subseteq Used' \ {j}
      BY <1>4
    <2>3. Cardinality(Used) <= Cardinality(Used' \ {j})
      BY <2>1, <2>2, FS_Subset
    <2> QED
      BY <1>1, <1>2, <2>1, <2>3
  <1> QED
    BY <1>1, <1>3, <1>4

\* The packets of a window name it, and tell the lists they are in from each other.
LEMMA OpeningWrites ==
    ASSUME NEW q, NEW w \in Window, Opens(q, w)
    PROVE  /\ q # <<>> /\ ~Releases(q)
           /\ \A v \in Window : ~Restores(q, v) /\ ~Closes(q, v)
           /\ \A v \in Window : Opens(q, v) =>
                 v.bedrockID = w.bedrockID /\ v.position = w.position
  <1>1. \A v \in Window : ~Restores(q, v) /\ ~Closes(q, v)
    BY DEF Opens, Restores, Closes, OpenVirtual, CloseVirtual, ToBedrock
  <1>2. \A v \in Window : Opens(q, v) => v.bedrockID = w.bedrockID /\ v.position = w.position
    BY DEF Opens, OpenVirtual, ToBedrock
  <1>3. q # <<>> /\ ~Releases(q)
    BY DEF Opens, OpenVirtual, ToBedrock, Releases, CloseJava
  <1> QED
    BY <1>1, <1>2, <1>3

\* The same of the closing of a window by the server ...
LEMMA RestoringWrites ==
    ASSUME NEW q, NEW w \in Window, Restores(q, w)
    PROVE  /\ q # <<>> /\ ~Releases(q)
           /\ \A v \in Window : ~Opens(q, v)
           /\ \A v \in Window : Restores(q, v) => v.bedrockID = w.bedrockID /\ v.position = w.position
  <1>1. \A v \in Window : Restores(q, v) => v.bedrockID = w.bedrockID /\ v.position = w.position
    BY DEF Restores, Closes, CloseVirtual, ToBedrock
  <1>2. q # <<>> /\ ~Releases(q)
    BY DEF Restores, Closes, CloseVirtual, ToBedrock, Releases, CloseJava
  <1> QED
    BY OpeningWrites, <1>1, <1>2

\* ... and by the player.
LEMMA EndingWrites ==
    ASSUME NEW q, NEW w \in Window, Ends(q, w)
    PROVE  /\ q # <<>> /\ ~Releases(q)
           /\ \A v \in Window : Ends(q, v) => v.position = w.position
  <1>1. \A v \in Window : Ends(q, v) => v.position = w.position
    BY DEF Ends, ToBedrock, CloseJava
  <1>2. q # <<>> /\ ~Releases(q)
    BY DEF Ends, ToBedrock, Releases, CloseJava
  <1> QED
    BY <1>1, <1>2

\* Nothing, and the closing of a menu, speak of no window.
LEMMA NoWrites ==
    ASSUME NEW q, q = <<>> \/ Releases(q)
    PROVE  \A v \in Window : ~Opens(q, v) /\ ~Restores(q, v) /\ ~Closes(q, v) /\ ~Ends(q, v)
  BY OpeningWrites, RestoringWrites, EndingWrites DEF Restores

\* The first packet of what a pump has left to write, and what it leaves.
LEMMA OneWritten ==
    ASSUME NEW q, NEW w \in Window
    PROVE  /\ q = OpenVirtual(w) => /\ Head(q).op = "Place" /\ Head(q).at = w.position
                                    /\ Tail(q) = <<ToBedrock("Open", w)>>
           /\ q = <<ToBedrock("Open", w)>> => /\ Head(q).op = "Open" /\ Head(q).id = w.bedrockID
                                              /\ Tail(q) = <<>>
           /\ q = CloseVirtual(w) => /\ Head(q).op = "Close" /\ Head(q).id = w.bedrockID
                                     /\ Tail(q) = <<ToBedrock("Restore", w)>>
           /\ q = <<ToBedrock("Restore", w)>> => /\ Head(q).op = "Restore" /\ Head(q).at = w.position
                                                 /\ Tail(q) = <<>>
           /\ q = <<CloseJava(w.javaID), ToBedrock("Restore", w)>> =>
                 /\ Head(q).op = "CloseJava" /\ Head(q).id = w.javaID
                 /\ Tail(q) = <<ToBedrock("Restore", w)>>
  <1>1. \A a, b : Head(<<a>>) = a /\ Tail(<<a>>) = <<>> /\ Head(<<a, b>>) = a /\ Tail(<<a, b>>) = <<b>>
    OBVIOUS
  <1> QED
    <2>1. /\ ToBedrock("Place", w).op = "Place" /\ ToBedrock("Place", w).at = w.position
          /\ ToBedrock("Open", w).op = "Open" /\ ToBedrock("Open", w).id = w.bedrockID
          /\ ToBedrock("Close", w).op = "Close" /\ ToBedrock("Close", w).id = w.bedrockID
          /\ ToBedrock("Restore", w).op = "Restore" /\ ToBedrock("Restore", w).at = w.position
          /\ CloseJava(w.javaID).op = "CloseJava" /\ CloseJava(w.javaID).id = w.javaID
      BY DEF ToBedrock, CloseJava
    <2>2. /\ OpenVirtual(w) = <<ToBedrock("Place", w), ToBedrock("Open", w)>>
          /\ CloseVirtual(w) = <<ToBedrock("Close", w), ToBedrock("Restore", w)>>
      BY DEF OpenVirtual, CloseVirtual
    <2> QED
      BY <1>1, <2>1, <2>2, Zenon

\* The closing of an unknown menu is one packet.
LEMMA ReleaseWritten ==
    ASSUME NEW q, Releases(q)
    PROVE  q # <<>> /\ Head(q).op = "CloseJava" /\ Tail(q) = <<>>
  BY DEF Releases, CloseJava

\* What is in the queue of closes after a read and after a write.
LEMMA CloseRead ==
    ASSUME TypeOK, fromBedrock # <<>>, fromBedrock' = Tail(fromBedrock)
    PROVE  /\ Head(fromBedrock) \in WindowIDs \cup {0} /\ Queued(Head(fromBedrock))
           /\ \A b : Queued(b)' => Queued(b)
           /\ \A b : Queued(b) /\ b # Head(fromBedrock) => Queued(b)'
  <1>1. fromBedrock \in Seq(WindowIDs \cup {0})
    BY DEF TypeOK
  <1>2. /\ Head(fromBedrock) = fromBedrock[1] /\ Head(fromBedrock) \in WindowIDs \cup {0}
        /\ 1 \in DOMAIN fromBedrock
        /\ \A i \in DOMAIN fromBedrock' :
              i + 1 \in DOMAIN fromBedrock /\ fromBedrock'[i] = fromBedrock[i + 1]
        /\ \A i \in DOMAIN fromBedrock :
              i = 1 \/ (i - 1 \in DOMAIN fromBedrock' /\ fromBedrock'[i - 1] = fromBedrock[i])
    BY <1>1, Popped
  <1>3. \A b : Queued(b)' => Queued(b)
    BY <1>2 DEF Queued
  <1>4. \A b : Queued(b) /\ b # Head(fromBedrock) => Queued(b)'
    BY <1>2 DEF Queued
  <1>5. Queued(Head(fromBedrock))
    BY <1>2 DEF Queued
  <1> QED
    BY <1>2, <1>3, <1>4, <1>5

\* A close of the player is queued behind the others.
LEMMA CloseSent ==
    ASSUME TypeOK, NEW id \in WindowIDs \cup {0}, fromBedrock' = Append(fromBedrock, id)
    PROVE  \A b : Queued(b)' <=> Queued(b) \/ b = id
  <1>1. fromBedrock \in Seq(WindowIDs \cup {0})
    BY DEF TypeOK
  <1>2. \A i \in DOMAIN fromBedrock : i \in DOMAIN fromBedrock' /\ fromBedrock'[i] = fromBedrock[i]
    BY <1>1, Pushed
  <1>3. /\ Len(fromBedrock) + 1 \in DOMAIN fromBedrock' /\ fromBedrock'[Len(fromBedrock) + 1] = id
        /\ \A i \in DOMAIN fromBedrock' : i \in DOMAIN fromBedrock \/ i = Len(fromBedrock) + 1
    BY <1>1, Pushed
  <1> QED
    BY <1>2, <1>3 DEF Queued

\* So is the answer of the client to a close of the bridge, if it gives one.
LEMMA CloseConfirmed ==
    ASSUME TypeOK, NEW id \in WindowIDs, NEW answer \in Confirmations(id),
           fromBedrock' = fromBedrock \o answer
    PROVE  /\ \A b : Queued(b) => Queued(b)'
           /\ \A b : Queued(b)' => Queued(b) \/ (b = id /\ id \in clientShown)
  <1>1. fromBedrock \in Seq(WindowIDs \cup {0})
    BY DEF TypeOK
  <1>2. answer = <<>> \/ (answer = <<id>> /\ id \in clientShown)
    BY DEF Confirmations
  <1>3. CASE answer = <<>>
    BY <1>1, <1>3 DEF Queued
  <1>4. CASE answer = <<id>> /\ id \in clientShown
    <2>1. fromBedrock' = Append(fromBedrock, id)
      BY <1>1, <1>4
    <2> QED
      BY <1>4, <2>1, CloseSent
  <1> QED
    BY <1>2, <1>3, <1>4

\* What the client shows is not touched by a step that only reads or sends to the server.
LEMMA ClientIdle ==
    ASSUME Client, UNCHANGED <<windows, bedrockWindows, fromBedrock, clientShown, clientBlocks>>,
           bedrockWrites' = bedrockWrites,
           \/ javaWrites' = javaWrites
           \/ /\ javaWrites = <<>> \/ Releases(javaWrites)
              /\ javaWrites' = <<>> \/ Releases(javaWrites')
    PROVE  Client'
  <1>1. CASE javaWrites' = javaWrites
    BY <1>1 DEF Client, WritesInOrder, OpeningUnseen, ClosingForgotten, ShownKnown, KnownShown, QueuedClosed,
                BlocksHeld, Queued
  <1>2. CASE /\ javaWrites = <<>> \/ Releases(javaWrites)
             /\ javaWrites' = <<>> \/ Releases(javaWrites')
    <2>1. \A w \in Window : /\ ~Opens(javaWrites, w) /\ ~Closes(javaWrites, w)
                            /\ ~Restores(javaWrites, w)
                            /\ ~Opens(javaWrites', w) /\ ~Closes(javaWrites', w)
                            /\ ~Restores(javaWrites', w)
      BY <1>2, NoWrites
    <2>2. \A b : Queued(b)' <=> Queued(b)
      BY DEF Queued
    <2>3. WritesInOrder' /\ OpeningUnseen' /\ ClosingForgotten'
      BY <1>2, <2>1 DEF Client, WritesInOrder, OpeningUnseen, ClosingForgotten
    <2>4. ShownKnown' /\ KnownShown' /\ QueuedClosed'
      BY <2>1, <2>2 DEF Client, ShownKnown, KnownShown, QueuedClosed
    <2>5. BlocksHeld'
      BY <2>1 DEF Client, BlocksHeld
    <2> QED
      BY <2>3, <2>4, <2>5 DEF Client
  <1> QED
    BY <1>1, <1>2

\* A window is opened under an ID the client has not seen.
LEMMA ClientOpened ==
    ASSUME TypeOK, Client, UNCHANGED <<bedrockWrites, fromBedrock, clientShown, clientBlocks>>,
           NEW w \in Window,
           windows' = With(windows, w.javaID, w), w.javaID \notin DOMAIN windows,
           bedrockWindows' = With(bedrockWindows, w.bedrockID, w),
           javaWrites = <<>>, javaWrites' = OpenVirtual(w),
           w.bedrockID \notin clientShown, ~Queued(w.bedrockID)
    PROVE  Client'
  <1>1. Opens(javaWrites', w)
    BY DEF Opens
  <1>2. \A v \in Window : /\ ~Opens(javaWrites, v) /\ ~Closes(javaWrites, v)
                          /\ ~Restores(javaWrites, v)
    BY NoWrites
  <1>3. /\ DOMAIN windows' = DOMAIN windows \cup {w.javaID}
        /\ \A j \in DOMAIN windows : windows'[j] = windows[j]
        /\ DOMAIN bedrockWindows' = DOMAIN bedrockWindows \cup {w.bedrockID}
        /\ bedrockWindows'[w.bedrockID] = w
    BY DEF With
  <1>4. \A b : Queued(b)' <=> Queued(b)
    BY DEF Queued
  <1>5. WritesInOrder' /\ ClosingForgotten'
    BY <1>1, OpeningWrites DEF Client, WritesInOrder, ClosingForgotten
  <1>6. OpeningUnseen'
    <2>1. \A v \in Window : Opens(javaWrites', v) =>
             v.bedrockID = w.bedrockID /\ v.position = w.position
      BY <1>1, OpeningWrites
    <2> QED
      BY <2>1, <1>3, <1>4 DEF OpeningUnseen
  <1>7. ShownKnown'
    BY <1>2, <1>3 DEF Client, ShownKnown
  <1>8. KnownShown'
    BY <1>1, <1>2, <1>3, <1>4 DEF Client, KnownShown
  <1>9. QueuedClosed'
    BY <1>4 DEF Client, QueuedClosed
  <1>10. BlocksHeld'
    BY <1>2, <1>3 DEF Client, BlocksHeld
  <1> QED
    BY <1>5, <1>6, <1>7, <1>8, <1>9, <1>10 DEF Client

\* The server closes a window: the bridge still has to tell the client.
LEMMA ClientServerClosed ==
    ASSUME Client, TablesAgree, UNCHANGED <<bedrockWrites, fromBedrock, clientShown, clientBlocks>>,
           NEW w \in Window, w.javaID \in DOMAIN windows, windows[w.javaID] = w,
           windows' = Without(windows, w.javaID),
           bedrockWindows' = Without(bedrockWindows, w.bedrockID),
           javaWrites = <<>>, javaWrites' = CloseVirtual(w)
    PROVE  Client'
  <1>1. Closes(javaWrites', w) /\ Restores(javaWrites', w)
    BY DEF Restores, Closes
  <1>2. \A v \in Window : /\ ~Opens(javaWrites, v) /\ ~Closes(javaWrites, v)
                          /\ ~Restores(javaWrites, v) /\ ~Opens(javaWrites', v)
    BY NoWrites, RestoringWrites, <1>1
  <1>3. /\ DOMAIN windows' = DOMAIN windows \ {w.javaID}
        /\ \A j \in DOMAIN windows' : windows'[j] = windows[j]
        /\ DOMAIN bedrockWindows' = DOMAIN bedrockWindows \ {w.bedrockID}
    BY DEF Without
  <1>4. \A b : Queued(b)' <=> Queued(b)
    BY DEF Queued
  <1>5. WritesInOrder' /\ OpeningUnseen'
    BY <1>1, <1>2 DEF Client, WritesInOrder, OpeningUnseen
  <1>9. ClosingForgotten'
    <2>1. \A v \in Window : Closes(javaWrites', v) => v.bedrockID = w.bedrockID
      BY <1>1, RestoringWrites DEF Restores
    <2> QED
      BY <1>3, <2>1 DEF ClosingForgotten
  <1>6. ShownKnown'
    BY <1>1, <1>2, <1>3 DEF Client, ShownKnown
  <1>7. KnownShown' /\ QueuedClosed'
    BY <1>2, <1>3, <1>4 DEF Client, KnownShown, QueuedClosed
  <1>8. BlocksHeld'
    BY <1>1, <1>2, <1>3 DEF Client, BlocksHeld
  <1> QED
    BY <1>5, <1>6, <1>7, <1>8, <1>9 DEF Client

\* A packet of pumpJava for the client reaches it.
LEMMA ClientTold ==
    ASSUME TypeOK, TablesAgree, Client, JavaPumpWrites
    PROVE  Client'
  <1>0. /\ UNCHANGED <<windows, bedrockWindows, bedrockWrites>>
        /\ javaWrites' = Tail(javaWrites) /\ javaWrites # <<>> /\ Delivered(Head(javaWrites))
    BY DEF JavaPumpWrites, tables
  <1>1. CASE Releases(javaWrites)
    <2>1. Head(javaWrites).op = "CloseJava" /\ javaWrites' = <<>>
      BY <1>0, <1>1, ReleaseWritten
    <2>2. UNCHANGED <<fromBedrock, clientShown, clientBlocks>>
      BY <1>0, <2>1 DEF Delivered, client
    <2> QED
      BY <1>0, <1>1, <2>1, <2>2, ClientIdle
  <1>2. ASSUME NEW w \in Window, javaWrites = OpenVirtual(w)
        PROVE  Client'
    <2>1. /\ Head(javaWrites).op = "Place" /\ Head(javaWrites).at = w.position
          /\ javaWrites' = <<ToBedrock("Open", w)>>
      BY <1>0, <1>2, OneWritten
    <2>2. clientBlocks' = clientBlocks \cup {w.position} /\ UNCHANGED <<fromBedrock, clientShown>>
      BY <1>0, <2>1 DEF Delivered
    <2>3. Opens(javaWrites, w) /\ Opens(javaWrites', w)
      BY <1>2, <2>1 DEF Opens
    <2>4. \A v \in Window :
             /\ Opens(javaWrites', v) => v.bedrockID = w.bedrockID /\ v.position = w.position
             /\ ~Closes(javaWrites, v) /\ ~Restores(javaWrites, v)
             /\ Opens(javaWrites, v) => v.bedrockID = w.bedrockID
      BY <2>3, OpeningWrites
    <2>5. \A b : Queued(b)' <=> Queued(b)
      BY <2>2 DEF Queued
    <2>6. WritesInOrder' /\ ClosingForgotten'
      BY <1>0, <2>3, OpeningWrites DEF Client, WritesInOrder, ClosingForgotten
    <2>7. OpeningUnseen'
      BY <1>0, <2>2, <2>3, <2>4, <2>5 DEF Client, OpeningUnseen
    <2>8. ShownKnown'
      BY <1>0, <2>2, <2>4 DEF Client, ShownKnown
    <2>9. KnownShown'
      BY <1>0, <2>2, <2>3, <2>4, <2>5 DEF Client, KnownShown
    <2>10. QueuedClosed'
      BY <2>2, <2>5 DEF Client, QueuedClosed
    <2>11. \E j \in DOMAIN windows : windows[j].position = w.position
      BY <2>3 DEF Client, OpeningUnseen, TablesAgree, TablesInverse
    <2>12. BlocksHeld'
      BY <1>0, <2>2, <2>4, <2>11 DEF Client, BlocksHeld
    <2> QED
      BY <2>6, <2>7, <2>8, <2>9, <2>10, <2>12 DEF Client
  <1>3. ASSUME NEW w \in Window, javaWrites = <<ToBedrock("Open", w)>>
        PROVE  Client'
    <2>1. /\ Head(javaWrites).op = "Open" /\ Head(javaWrites).id = w.bedrockID
          /\ javaWrites' = <<>>
      BY <1>0, <1>3, OneWritten
    <2>2. clientShown' = clientShown \cup {w.bedrockID} /\ UNCHANGED <<fromBedrock, clientBlocks>>
      BY <1>0, <2>1 DEF Delivered
    <2>3. Opens(javaWrites, w)
      BY <1>3 DEF Opens
    <2>4. \A v \in Window :
             /\ Opens(javaWrites, v) => v.bedrockID = w.bedrockID
             /\ ~Closes(javaWrites, v) /\ ~Restores(javaWrites, v)
             /\ ~Opens(javaWrites', v) /\ ~Closes(javaWrites', v) /\ ~Restores(javaWrites', v)
      BY <2>1, <2>3, OpeningWrites, NoWrites
    <2>5. \A b : Queued(b)' <=> Queued(b)
      BY <2>2 DEF Queued
    <2>6. w.bedrockID \in DOMAIN bedrockWindows /\ ~Queued(w.bedrockID)
      BY <2>3 DEF Client, OpeningUnseen
    <2>7. WritesInOrder' /\ OpeningUnseen' /\ ClosingForgotten'
      BY <1>0, <2>1, <2>4 DEF Client, WritesInOrder, OpeningUnseen, ClosingForgotten
    <2>8. ShownKnown' /\ QueuedClosed'
      BY <1>0, <2>2, <2>4, <2>5, <2>6 DEF Client, ShownKnown, QueuedClosed
    <2>9. KnownShown'
      BY <1>0, <2>2, <2>4, <2>5 DEF Client, KnownShown
    <2>10. BlocksHeld'
      BY <1>0, <2>2, <2>4 DEF Client, BlocksHeld
    <2> QED
      BY <2>7, <2>8, <2>9, <2>10 DEF Client
  <1>4. ASSUME NEW w \in Window, Closes(javaWrites, w)
        PROVE  Client'
    <2>1. /\ Head(javaWrites).op = "Close" /\ Head(javaWrites).id = w.bedrockID
          /\ javaWrites' = <<ToBedrock("Restore", w)>>
      BY <1>0, <1>4, OneWritten DEF Closes
    <2>2. /\ clientShown' = clientShown \ {w.bedrockID} /\ clientBlocks' = clientBlocks
          /\ \E answer \in Confirmations(w.bedrockID) : fromBedrock' = fromBedrock \o answer
      BY <1>0, <2>1 DEF Delivered
    <2>3. Restores(javaWrites, w) /\ Restores(javaWrites', w)
      BY <1>4, <2>1 DEF Restores
    <2>4. \A v \in Window :
             /\ ~Opens(javaWrites, v) /\ ~Opens(javaWrites', v)
             /\ Restores(javaWrites, v) => v.bedrockID = w.bedrockID /\ v.position = w.position
             /\ Closes(javaWrites, v) => v.bedrockID = w.bedrockID
      BY <2>3, RestoringWrites DEF Restores
    <2>5. /\ \A b : Queued(b) => Queued(b)'
          /\ \A b : Queued(b)' => Queued(b) \/ (b = w.bedrockID /\ b \in clientShown)
      <3>1. w.bedrockID \in WindowIDs
        BY DEF Window
      <3> QED
        BY <2>2, <3>1, CloseConfirmed
    <2>12. \A v \in Window : ~Closes(javaWrites', v)
      BY <2>1 DEF Closes, CloseVirtual
    <2>6. WritesInOrder' /\ OpeningUnseen' /\ ClosingForgotten'
      BY <1>0, <2>3, <2>4, <2>12 DEF Client, WritesInOrder, OpeningUnseen, ClosingForgotten
    <2>7. ShownKnown'
      BY <1>0, <2>2, <2>4 DEF Client, ShownKnown
    <2>8. QueuedClosed'
      BY <2>2, <2>5 DEF Client, QueuedClosed
    <2>10. BlocksHeld'
      BY <1>0, <2>2, <2>3, <2>4 DEF Client, BlocksHeld
    <2>11. w.bedrockID \notin DOMAIN bedrockWindows
      BY <1>4 DEF Client, ClosingForgotten
    <2>9. KnownShown'
      BY <1>0, <2>2, <2>4, <2>5, <2>11 DEF Client, KnownShown
    <2> QED
      BY <2>6, <2>7, <2>8, <2>9, <2>10 DEF Client
  <1>5. ASSUME NEW w \in Window, javaWrites = <<ToBedrock("Restore", w)>>
        PROVE  Client'
    <2>1. /\ Head(javaWrites).op = "Restore" /\ Head(javaWrites).at = w.position
          /\ javaWrites' = <<>>
      BY <1>0, <1>5, OneWritten
    <2>2. clientBlocks' = clientBlocks \ {w.position} /\ UNCHANGED <<fromBedrock, clientShown>>
      BY <1>0, <2>1 DEF Delivered
    <2>3. Restores(javaWrites, w)
      BY <1>5 DEF Restores
    <2>4. \A v \in Window :
             /\ ~Opens(javaWrites, v)
             /\ Restores(javaWrites, v) => v.position = w.position
             /\ ~Opens(javaWrites', v) /\ ~Closes(javaWrites', v) /\ ~Restores(javaWrites', v)
             /\ ~Closes(javaWrites, v)
      <3>1. \A v \in Window : ~Closes(javaWrites, v)
        BY <1>5 DEF Closes, CloseVirtual
      <3> QED
        BY <2>1, <2>3, <3>1, RestoringWrites, NoWrites
    <2>5. \A b : Queued(b)' <=> Queued(b)
      BY <2>2 DEF Queued
    <2>6. WritesInOrder' /\ OpeningUnseen' /\ ClosingForgotten'
      BY <1>0, <2>1, <2>4 DEF Client, WritesInOrder, OpeningUnseen, ClosingForgotten
    <2>7. ShownKnown' /\ KnownShown' /\ QueuedClosed'
      BY <1>0, <2>2, <2>4, <2>5 DEF Client, ShownKnown, KnownShown, QueuedClosed
    <2>8. BlocksHeld'
      BY <1>0, <2>2, <2>4 DEF Client, BlocksHeld
    <2> QED
      BY <2>6, <2>7, <2>8 DEF Client
  <1> QED
    BY <1>0, <1>1, <1>2, <1>3, <1>4, <1>5 DEF Client, WritesInOrder, Opens, Restores, Closes

\* A packet of pumpBedrock reaches its peer.
LEMMA ClientRestored ==
    ASSUME Client, BedrockPumpWrites
    PROVE  Client'
  <1>0. /\ UNCHANGED <<windows, bedrockWindows, javaWrites>>
        /\ bedrockWrites' = Tail(bedrockWrites) /\ bedrockWrites # <<>>
        /\ Delivered(Head(bedrockWrites))
    BY DEF BedrockPumpWrites, tables
  <1>1. ASSUME UNCHANGED <<fromBedrock, clientShown>>, BlocksHeld',
               bedrockWrites' = <<>> \/ \E w \in Window : Ends(bedrockWrites', w)
        PROVE  Client'
    <2>1. \A b : Queued(b)' <=> Queued(b)
      BY <1>1 DEF Queued
    <2>2. WritesInOrder' /\ OpeningUnseen' /\ ClosingForgotten'
      BY <1>0, <1>1, <2>1 DEF Client, WritesInOrder, OpeningUnseen, ClosingForgotten
    <2>3. ShownKnown' /\ KnownShown' /\ QueuedClosed'
      BY <1>0, <1>1, <2>1 DEF Client, ShownKnown, KnownShown, QueuedClosed
    <2> QED
      BY <1>1, <2>2, <2>3 DEF Client
  <1>2. CASE Releases(bedrockWrites)
    <2>1. Head(bedrockWrites).op = "CloseJava" /\ bedrockWrites' = <<>>
      BY <1>0, <1>2, ReleaseWritten
    <2>2. UNCHANGED <<fromBedrock, clientShown, clientBlocks>>
      BY <1>0, <2>1 DEF Delivered, client
    <2>3. BlocksHeld'
      BY <1>0, <1>2, <2>2, NoWrites DEF Client, BlocksHeld
    <2> QED
      BY <1>1, <2>1, <2>2, <2>3
  <1>3. ASSUME NEW w \in Window, bedrockWrites = <<CloseJava(w.javaID), ToBedrock("Restore", w)>>
        PROVE  Client'
    <2>1. Head(bedrockWrites).op = "CloseJava" /\ bedrockWrites' = <<ToBedrock("Restore", w)>>
      BY <1>0, <1>3, OneWritten
    <2>2. UNCHANGED <<fromBedrock, clientShown, clientBlocks>>
      BY <1>0, <2>1 DEF Delivered, client
    <2>3. Ends(bedrockWrites, w) /\ Ends(bedrockWrites', w)
      BY <1>3, <2>1 DEF Ends
    <2>4. BlocksHeld'
      BY <1>0, <2>2, <2>3, EndingWrites DEF Client, BlocksHeld
    <2> QED
      BY <1>1, <2>2, <2>3, <2>4
  <1>4. ASSUME NEW w \in Window, bedrockWrites = <<ToBedrock("Restore", w)>>
        PROVE  Client'
    <2>1. /\ Head(bedrockWrites).op = "Restore" /\ Head(bedrockWrites).at = w.position
          /\ bedrockWrites' = <<>>
      BY <1>0, <1>4, OneWritten
    <2>2. clientBlocks' = clientBlocks \ {w.position} /\ UNCHANGED <<fromBedrock, clientShown>>
      BY <1>0, <2>1 DEF Delivered
    <2>3. \A v \in Window : Ends(bedrockWrites, v) => v.position = w.position
      BY <1>4, EndingWrites DEF Ends
    <2>4. BlocksHeld'
      BY <1>0, <2>2, <2>3 DEF Client, BlocksHeld
    <2> QED
      BY <1>1, <2>1, <2>2, <2>4
  <1> QED
    BY <1>0, <1>2, <1>3, <1>4 DEF Client, WritesInOrder, Ends

\* The bridge hears of a window the player has closed.
LEMMA ClientHeard ==
    ASSUME TypeOK, TablesAgree, Client, BedrockClose
    PROVE  Client'
  <1> DEFINE id == Head(fromBedrock)
  <1>0. /\ UNCHANGED <<javaWrites, clientShown, clientBlocks>>
        /\ bedrockWrites = <<>> /\ fromBedrock # <<>> /\ fromBedrock' = Tail(fromBedrock)
    BY DEF BedrockClose, client
  <1>1. /\ id \in WindowIDs \cup {0} /\ Queued(id)
        /\ \A b : Queued(b)' => Queued(b)
        /\ \A b : Queued(b) /\ b # id => Queued(b)'
    BY <1>0, CloseRead
  <1>2. id \notin clientShown
    BY <1>1 DEF Client, QueuedClosed
  <1>3. CASE UNCHANGED tables /\ (bedrockWrites' = <<>> \/ Releases(bedrockWrites'))
             /\ id \notin DOMAIN bedrockWindows
    <2>1. UNCHANGED <<windows, bedrockWindows>>
      BY <1>3 DEF tables
    <2>2. \A v \in Window : ~Ends(bedrockWrites, v) /\ ~Ends(bedrockWrites', v)
      BY <1>0, <1>3, NoWrites
    <2>3. WritesInOrder' /\ OpeningUnseen' /\ ClosingForgotten'
      BY <1>0, <1>1, <1>3, <2>1 DEF Client, WritesInOrder, OpeningUnseen, ClosingForgotten
    <2>4. ShownKnown' /\ KnownShown' /\ QueuedClosed'
      BY <1>0, <1>1, <1>3, <2>1 DEF Client, ShownKnown, KnownShown, QueuedClosed
    <2>5. BlocksHeld'
      BY <1>0, <2>1, <2>2 DEF Client, BlocksHeld
    <2> QED
      BY <2>3, <2>4, <2>5 DEF Client
  <1>4. ASSUME NEW w \in Window, w = bedrockWindows[id], id \in DOMAIN bedrockWindows,
               Unregister(w),
               bedrockWrites' = <<CloseJava(w.javaID), ToBedrock("Restore", w)>>
        PROVE  Client'
    <2>1. w.bedrockID = id /\ w.javaID \in DOMAIN windows /\ windows[w.javaID] = w
      BY <1>4 DEF TablesAgree, TablesInverse
    <2>2. /\ DOMAIN windows' = DOMAIN windows \ {w.javaID}
          /\ \A j \in DOMAIN windows' : windows'[j] = windows[j]
          /\ DOMAIN bedrockWindows' = DOMAIN bedrockWindows \ {id}
          /\ \A b \in DOMAIN bedrockWindows' : bedrockWindows'[b] = bedrockWindows[b]
      BY <1>4, <2>1 DEF Unregister, Without
    <2>3. Ends(bedrockWrites', w) /\ \A v \in Window : ~Ends(bedrockWrites, v)
      BY <1>0, <1>4, NoWrites DEF Ends
    <2>4. WritesInOrder' /\ OpeningUnseen' /\ ClosingForgotten'
      BY <1>0, <1>1, <2>2, <2>3 DEF Client, WritesInOrder, OpeningUnseen, ClosingForgotten
    <2>5. ShownKnown' /\ KnownShown' /\ QueuedClosed'
      BY <1>0, <1>1, <1>2, <2>2 DEF Client, ShownKnown, KnownShown, QueuedClosed
    <2>6. BlocksHeld'
      BY <1>0, <2>1, <2>2, <2>3 DEF Client, BlocksHeld
    <2> QED
      BY <2>4, <2>5, <2>6 DEF Client
  <1>5. /\ DOMAIN bedrockWindows \subseteq WindowIDs /\ 0 \notin WindowIDs
        /\ \A b \in DOMAIN bedrockWindows : bedrockWindows[b] \in Window
    BY DEF TypeOK, IsTable, WindowIDs
  <1>6. CASE CloseIgnored(id)
    <2>1. UNCHANGED <<tables, bedrockWrites>> /\ id = 0
      BY <1>6 DEF BedrockClose, CloseIgnored
    <2> QED
      BY <1>0, <1>3, <1>5, <2>1
  <1>7. CASE ~CloseIgnored(id) /\ id \notin DOMAIN bedrockWindows
    <2>1. UNCHANGED tables /\ bedrockWrites' = <<CloseJava(id)>> /\ id \in WindowIDs
      BY <1>1, <1>7 DEF BedrockClose, CloseIgnored
    <2>2. Releases(bedrockWrites')
      BY <2>1 DEF Releases
    <2> QED
      BY <1>3, <1>7, <2>1, <2>2
  <1>8. CASE ~CloseIgnored(id) /\ id \in DOMAIN bedrockWindows
    <2>1. /\ Unregister(bedrockWindows[id])
          /\ bedrockWrites' = <<CloseJava(bedrockWindows[id].javaID), ToBedrock("Restore", bedrockWindows[id])>>
      BY <1>8 DEF BedrockClose, ServerID
    <2>2. bedrockWindows[id] \in Window
      BY <1>5, <1>8
    <2> HIDE DEF id
    <2> QED
      BY <1>4, <1>8, <2>1, <2>2
  <1> QED
    BY <1>6, <1>7, <1>8

\* The player closes a window, or the inventory.
LEMMA ClientLeft ==
    ASSUME TypeOK, Client, NEW id \in WindowIDs \cup {0}, ClientCloses(id)
    PROVE  Client'
  <1>0. /\ UNCHANGED <<windows, bedrockWindows, javaWrites, bedrockWrites, clientBlocks>>
        /\ id \in clientShown \cup {0} /\ clientShown' = clientShown \ {id}
        /\ fromBedrock' = Append(fromBedrock, id)
    BY DEF ClientCloses, tables
  <1>1. \A b : Queued(b)' <=> Queued(b) \/ b = id
    BY <1>0, CloseSent
  <1>2. WritesInOrder' /\ ClosingForgotten'
    BY <1>0 DEF Client, WritesInOrder, ClosingForgotten
  <1>3. OpeningUnseen'
    <2>1. \A w \in Window : w.bedrockID # 0
      BY DEF Window, WindowIDs
    <2> QED
      BY <1>0, <1>1, <2>1 DEF Client, OpeningUnseen
  <1>4. ShownKnown' /\ KnownShown' /\ QueuedClosed'
    BY <1>0, <1>1 DEF Client, ShownKnown, KnownShown, QueuedClosed
  <1>5. BlocksHeld'
    BY <1>0 DEF Client, BlocksHeld
  <1> QED
    BY <1>2, <1>3, <1>4, <1>5 DEF Client

\* A step gives out no Bedrock ID: what it shows or queues was registered or shown.
NoNewIDs ==
    /\ nextWindowID' = nextWindowID
    /\ DOMAIN windows' \subseteq DOMAIN windows
    /\ DOMAIN bedrockWindows' \subseteq DOMAIN bedrockWindows
    /\ clientShown' \subseteq clientShown \cup DOMAIN bedrockWindows
    /\ \A b \in WindowIDs : Queued(b)' => Queued(b) \/ b \in clientShown

\* The order of the menus is kept by steps that give out no ID.
LEMMA MenusKept ==
    ASSUME Menus, NoNewIDs, MenusInOrder', Used \subseteq Used'
    PROVE  Menus'
  <1>1. RegisteredUsed'
    BY DEF Menus, RegisteredUsed, NoNewIDs
  <1>2. Spent'
    <2>1. PICK n \in 0..MaxWindowID :
             /\ n <= Cardinality(Used)
             /\ nextWindowID = (IF n < MaxWindowID THEN n + 1 ELSE 1)
             /\ Unspent(n)
      BY DEF Menus, Spent
    <2>2. n <= Cardinality(Used')
      <3>1. Cardinality(Used) \in Nat /\ Cardinality(Used) <= Cardinality(Used')
        BY UsedCounted, UsedGrows
      <3>2. Cardinality(Used') \in Nat
        BY UsedGrows
      <3> QED
        BY <2>1, <3>1, <3>2
    <2>3. Unspent(n)'
      BY <2>1 DEF Unspent, NoNewIDs
    <2>4. nextWindowID' = (IF n < MaxWindowID THEN n + 1 ELSE 1)
      BY <2>1 DEF NoNewIDs
    <2> QED
      BY <2>2, <2>3, <2>4 DEF Spent
  <1> QED
    BY <1>1, <1>2 DEF Menus

\* Steps that touch neither the server's packets nor its menus.
LEMMA MenusUntouched ==
    ASSUME TypeOK, Menus, NoNewIDs, UNCHANGED <<fromJava, lastMenuID>>,
           serverMenu' = serverMenu \/ serverMenu' = NoMenu
    PROVE  Menus'
  <1>1. serverMenu'.id <= lastMenuID'
    BY WindowsAssumption DEF Menus, MenusInOrder, TypeOK, NoMenu
  <1>2. MenusInOrder'
    BY <1>1 DEF Menus, MenusInOrder, IsOpen
  <1>3. Used \subseteq Used'
    BY DEF Used, Coming, IsOpen
  <1> QED
    BY <1>2, <1>3, MenusKept

\* The bridge registers a window under an ID that no one has heard of yet.
LEMMA OpenedFresh ==
    ASSUME TypeOK, TablesAgree, Menus, OpenMapped
    PROVE  \E w \in Window :
              /\ w.javaID = Head(fromJava).id /\ w.javaID \notin DOMAIN windows
              /\ windows' = With(windows, w.javaID, w)
              /\ bedrockWindows' = With(bedrockWindows, w.bedrockID, w)
              /\ javaWrites' = OpenVirtual(w)
              /\ w.bedrockID = nextWindowID /\ nextWindowID' = After(nextWindowID, 1)
              /\ w.bedrockID \notin clientShown /\ ~Queued(w.bedrockID)
              /\ w.bedrockID \notin DOMAIN bedrockWindows
  <1> DEFINE javaID == Head(fromJava).id
             replaced == javaID \in DOMAIN windows
             kept == IF replaced THEN Without(windows, javaID) ELSE windows
             keptBedrock == IF replaced
                            THEN Without(bedrockWindows, windows[javaID].bedrockID)
                            ELSE bedrockWindows
             opened(id) == [javaID |-> javaID, bedrockID |-> id,
                            position |-> VirtualPosition(position)]
  <1>1. PICK id \in WindowIDs, next \in WindowIDs :
          /\ Allocates(id, next, DOMAIN keptBedrock)
          /\ windows' = With(kept, javaID, opened(id))
          /\ bedrockWindows' = With(keptBedrock, id, opened(id))
          /\ javaWrites' = (IF replaced THEN CloseVirtual(windows[javaID]) ELSE <<>>)
                           \o OpenVirtual(opened(id))
          /\ nextWindowID' = next
    BY DEF OpenMapped
  <1>2. javaID \in JavaIDs /\ javaID \notin Used
    BY MenuRead DEF OpenMapped, JavaReads, Menus, server
  <1>3. ~replaced
    BY <1>2 DEF Menus, RegisteredUsed
  <1>4. opened(id) \in Window
    BY <1>2, VirtualPositionType DEF Window, TypeOK
  <1>5. kept = windows /\ keptBedrock = bedrockWindows
    BY <1>3
  <1>6. javaWrites' = OpenVirtual(opened(id))
    BY <1>1, <1>3 DEF OpenVirtual
  <1>7. PICK n \in 0..MaxWindowID :
           /\ n <= Cardinality(Used)
           /\ nextWindowID = (IF n < MaxWindowID THEN n + 1 ELSE 1)
           /\ Unspent(n)
    BY DEF Menus, Spent
  <1>8. n < MaxWindowID
    <2>1. Cardinality(Used) < Cardinality(JavaIDs)
      BY <1>2, UsedCounted
    <2>2. /\ Cardinality(Used) \in Nat /\ Cardinality(JavaIDs) \in Nat
          /\ Cardinality(JavaIDs) <= MaxWindowID /\ MaxWindowID \in Nat /\ n \in Nat
      BY UsedCounted, WindowsAssumption
    <2> QED
      BY <1>7, <2>1, <2>2
  <1>9. nextWindowID = n + 1 /\ nextWindowID \in WindowIDs /\ nextWindowID > n
    BY <1>7, <1>8, WindowsAssumption DEF WindowIDs
  <1>10. /\ nextWindowID \notin DOMAIN bedrockWindows /\ nextWindowID \notin clientShown
         /\ ~Queued(nextWindowID)
    BY <1>7, <1>9 DEF Unspent
  <1>11. id = nextWindowID /\ next = After(nextWindowID, 1)
    <2> HIDE DEF keptBedrock, opened, kept, replaced, javaID
    <2>1. Allocates(id, next, DOMAIN bedrockWindows)
      BY <1>1, <1>5
    <2>2. PICK i \in 0..MaxWindowID - 1 :
             /\ id = After(nextWindowID, i) /\ next = After(id, 1)
             /\ \A k \in 0..i - 1 : After(nextWindowID, k) \in DOMAIN bedrockWindows
      BY <2>1, <1>9, <1>10 DEF Allocates
    <2>3. After(nextWindowID, 0) = nextWindowID
      BY <1>9, WindowsAssumption DEF After, WindowIDs
    <2>4. i = 0
      BY <2>2, <2>3, <1>10, WindowsAssumption
    <2> QED
      BY <2>2, <2>3, <2>4
  <1> QED
    <2>1. opened(id).javaID = javaID /\ opened(id).bedrockID = id
      OBVIOUS
    <2> HIDE DEF opened, kept, keptBedrock, replaced
    <2>2. windows' = With(windows, javaID, opened(id)) /\ bedrockWindows' = With(bedrockWindows, id, opened(id))
      BY <1>1, <1>5
    <2>3. javaID \notin DOMAIN windows
      BY <1>3 DEF replaced
    <2> QED
      BY <1>1, <1>4, <1>6, <1>10, <1>11, <2>1, <2>2, <2>3

\* The one step that gives out an ID takes the one of a menu not counted before.
LEMMA MenusOpened ==
    ASSUME TypeOK, TablesAgree, Menus, OpenMapped
    PROVE  Menus'
  <1>1. PICK w \in Window :
           /\ w.javaID = Head(fromJava).id /\ w.javaID \notin DOMAIN windows
           /\ windows' = With(windows, w.javaID, w)
           /\ bedrockWindows' = With(bedrockWindows, w.bedrockID, w)
           /\ w.bedrockID = nextWindowID /\ nextWindowID' = After(nextWindowID, 1)
    BY OpenedFresh
  <1>2. /\ UNCHANGED <<fromBedrock, clientShown>>
        /\ DOMAIN windows' = DOMAIN windows \cup {w.javaID}
        /\ DOMAIN bedrockWindows' = DOMAIN bedrockWindows \cup {nextWindowID}
    BY <1>1 DEF OpenMapped, client, With
  <1>3. /\ MenusInOrder' /\ Used \subseteq Used'
        /\ w.javaID \in Used' /\ w.javaID \notin Used /\ w.javaID \in JavaIDs
    BY <1>1, MenuRead DEF OpenMapped, JavaReads, server, Menus
  <1>4. RegisteredUsed'
    BY <1>2, <1>3 DEF Menus, RegisteredUsed
  <1>5. Spent'
    <2>1. PICK n \in 0..MaxWindowID :
             /\ n <= Cardinality(Used)
             /\ nextWindowID = (IF n < MaxWindowID THEN n + 1 ELSE 1)
             /\ Unspent(n)
      BY DEF Menus, Spent
    <2>2. n < MaxWindowID
      <3>1. Cardinality(Used) < Cardinality(JavaIDs)
        BY <1>3, UsedCounted
      <3>2. /\ Cardinality(Used) \in Nat /\ Cardinality(JavaIDs) \in Nat
            /\ Cardinality(JavaIDs) <= MaxWindowID /\ MaxWindowID \in Nat /\ n \in Nat
        BY UsedCounted, WindowsAssumption
      <3> QED
        BY <2>1, <3>1, <3>2
    <2>3. n + 1 \in 0..MaxWindowID /\ nextWindowID = n + 1
      BY <2>1, <2>2, WindowsAssumption
    <2>4. n + 1 <= Cardinality(Used')
      <3>1. Cardinality(Used) \in Nat /\ Cardinality(Used') \in Nat
        BY UsedCounted, UsedGrows, <1>3
      <3>2. Cardinality(Used) + 1 <= Cardinality(Used')
        BY UsedGrows, <1>3
      <3> QED
        BY <2>1, <3>1, <3>2
    <2>5. nextWindowID' = (IF n + 1 < MaxWindowID THEN n + 2 ELSE 1)
      BY <1>1, <2>2, <2>3, WindowsAssumption DEF After
    <2>6. Unspent(n + 1)'
      <3>1. \A b \in WindowIDs : b > n + 1 => b > n /\ b # n + 1
        BY <2>1, WindowsAssumption DEF WindowIDs
      <3>2. \A b : Queued(b)' <=> Queued(b)
        BY <1>2 DEF Queued
      <3> QED
        BY <1>2, <2>1, <2>3, <3>1, <3>2 DEF Unspent
    <2> QED
      BY <2>3, <2>4, <2>5, <2>6 DEF Spent
  <1> QED
    BY <1>3, <1>4, <1>5 DEF Menus

\* An orderly server sends its menus one after the other.
LEMMA ServerSends ==
    ASSUME OrderlyServer, TypeOK, TypeOK', MenusInOrder
    PROVE  /\ \A id \in JavaIDs, mapped \in BOOLEAN :
                 ServerOpens(id, mapped) => \E r \in Seq(ServerPacket) : Sends(r)
           /\ ServerCloses => \E r \in Seq(ServerPacket) : Sends(r)
           /\ \A p \in Positions : ServerMovesPlayer(p) => \E r \in Seq(ServerPacket) : Sends(r)
  <1>1. /\ fromJava \in Seq(ServerPacket) /\ lastMenuID \in Int /\ serverMenu.id <= lastMenuID
        /\ JavaIDs \subseteq Int
    BY MenuIDs DEF MenusInOrder
  <1>2. serverMenu # NoMenu => serverMenu.id \in JavaIDs
    BY DEF TypeOK
  <1>3. serverMenu # NoMenu => [op |-> "CloseScreen", id |-> serverMenu.id] \in ServerPacket
    BY <1>2 DEF ServerPacket
  <1>4. ASSUME NEW id \in JavaIDs, NEW mapped \in BOOLEAN, ServerOpens(id, mapped)
        PROVE  \E r \in Seq(ServerPacket) : Sends(r)
    <2> DEFINE open == [op |-> "OpenScreen", id |-> id, mapped |-> mapped]
               close == [op |-> "CloseScreen", id |-> serverMenu.id]
    <2>1. /\ id > lastMenuID /\ lastMenuID' = id /\ serverMenu'.id = id
          /\ fromJava' = fromJava \o (IF serverMenu # NoMenu THEN <<close>> ELSE <<>>) \o <<open>>
      BY <1>4 DEF ServerOpens
    <2>2. open \in ServerPacket /\ open.op = "OpenScreen" /\ open.id = id
          /\ close.op = "CloseScreen" /\ close.id = serverMenu.id
      BY DEF ServerPacket
    <2>3. lastMenuID <= lastMenuID' /\ serverMenu'.id <= lastMenuID' /\ id \in Int
      BY <1>1, <2>1
    <2> HIDE DEF open, close
    <2>4. CASE serverMenu = NoMenu
      <3>1. <<open>> \in Seq(ServerPacket) /\ Len(<<open>>) = 1 /\ DOMAIN <<open>> = {1} /\ <<open>>[1] = open
        BY <2>2
      <3>2. fromJava' = fromJava \o <<open>>
        BY <1>1, <2>1, <2>4, ConcatEmptySeq
      <3> DEFINE r == <<open>>
      <3>3. r \in Seq(ServerPacket) /\ Len(r) = 1 /\ DOMAIN r = {1} /\ r[1] = open /\ fromJava' = fromJava \o r
        BY <3>1, <3>2
      <3> HIDE DEF r
      <3> QED
        BY <2>1, <2>2, <2>3, <2>4, <3>3 DEF Sends
    <2>5. CASE serverMenu # NoMenu
      <3>1. close \in ServerPacket
        BY <1>3, <2>5 DEF close
      <3> DEFINE r == <<close>> \o <<open>>
      <3>2. <<open>> \in Seq(ServerPacket) /\ <<close>> \in Seq(ServerPacket)
        BY <2>2, <3>1
      <3>3. /\ DOMAIN <<close>> = {1} /\ <<close>>[1] = close /\ Len(<<close>>) = 1
            /\ DOMAIN <<open>> = {1} /\ <<open>>[1] = open /\ Len(<<open>>) = 1
        OBVIOUS
      <3>4. fromJava' = (fromJava \o <<close>>) \o <<open>>
        BY <2>1, <2>5
      <3>5. fromJava' = fromJava \o r
        BY <1>1, <3>2, <3>4, ConcatAssociative
      <3>6. /\ r \in Seq(ServerPacket) /\ Len(r) = 2 /\ r[1] = close /\ r[2] = open
            /\ \A i \in DOMAIN r : i = 1 \/ i = 2
        <4>1. /\ r \in Seq(ServerPacket) /\ Len(r) = Len(<<close>>) + Len(<<open>>)
              /\ \A i \in DOMAIN <<close>> : r[i] = <<close>>[i]
              /\ \A i \in DOMAIN <<open>> : r[Len(<<close>>) + i] = <<open>>[i]
              /\ \A i \in DOMAIN r : /\ i \in Int
                                     /\ i \in DOMAIN <<close>> \/ i - Len(<<close>>) \in DOMAIN <<open>>
          BY <3>2, Joined
        <4> HIDE DEF r
        <4> QED
          BY <3>3, <4>1
      <3>7. /\ \A i \in DOMAIN r : r[i].op = "CloseScreen" => r[i].id <= lastMenuID
            /\ \A i \in DOMAIN r : r[i].op = "OpenScreen" => i = Len(r) /\ r[i].id = id
        BY <1>1, <2>2, <3>6
      <3>8. 1 \in DOMAIN r /\ 2 \in DOMAIN r
        BY <3>6, LenProperties
      <3> HIDE DEF r
      <3> QED
        BY <2>1, <2>2, <2>3, <3>5, <3>6, <3>7, <3>8 DEF Sends
    <2> QED
      BY <2>4, <2>5
  <1>5. ASSUME ServerCloses
        PROVE  \E r \in Seq(ServerPacket) : Sends(r)
    <2> DEFINE close == [op |-> "CloseScreen", id |-> serverMenu.id]
    <2>1. /\ lastMenuID' = lastMenuID /\ serverMenu' = NoMenu /\ serverMenu # NoMenu
          /\ fromJava' = Append(fromJava, close)
      BY <1>5 DEF ServerCloses
    <2>2. close \in ServerPacket /\ close.op = "CloseScreen" /\ close.id = serverMenu.id /\ close.id <= lastMenuID
      BY <1>1, <1>3, <2>1
    <2>3. serverMenu'.id <= lastMenuID' /\ lastMenuID <= lastMenuID'
      BY <1>1, <2>1, WindowsAssumption DEF TypeOK, NoMenu
    <2> HIDE DEF close
    <2>4. /\ <<close>> \in Seq(ServerPacket) /\ DOMAIN <<close>> = {1} /\ <<close>>[1] = close
          /\ fromJava' = fromJava \o <<close>>
      BY <1>1, <2>1, <2>2
    <2> DEFINE r == <<close>>
    <2>5. r \in Seq(ServerPacket) /\ DOMAIN r = {1} /\ r[1] = close /\ fromJava' = fromJava \o r
      BY <2>4
    <2> HIDE DEF r
    <2> QED
      BY <2>1, <2>2, <2>3, <2>5 DEF Sends
  <1>6. ASSUME NEW p \in Positions, ServerMovesPlayer(p)
        PROVE  \E r \in Seq(ServerPacket) : Sends(r)
    <2> DEFINE move == [op |-> "Position", at |-> p]
    <2>1. /\ lastMenuID' = lastMenuID /\ serverMenu' = serverMenu
          /\ fromJava' = Append(fromJava, move)
      BY <1>6 DEF ServerMovesPlayer, server
    <2>2. move \in ServerPacket /\ move.op = "Position"
      BY DEF ServerPacket
    <2>3. serverMenu'.id <= lastMenuID' /\ lastMenuID <= lastMenuID'
      BY <1>1, <2>1
    <2> HIDE DEF move
    <2>4. /\ <<move>> \in Seq(ServerPacket) /\ DOMAIN <<move>> = {1} /\ <<move>>[1] = move
          /\ fromJava' = fromJava \o <<move>>
      BY <1>1, <2>1, <2>2
    <2> DEFINE r == <<move>>
    <2>5. r \in Seq(ServerPacket) /\ DOMAIN r = {1} /\ r[1] = move /\ fromJava' = fromJava \o r
      BY <2>4
    <2> HIDE DEF r
    <2> QED
      BY <2>1, <2>2, <2>3, <2>5 DEF Sends
  <1> QED
    BY <1>4, <1>5, <1>6

\* The writes of the pumps give out no ID.
LEMMA WrittenIDs ==
    ASSUME TypeOK, Client, JavaPumpWrites \/ BedrockPumpWrites
    PROVE  NoNewIDs
  <1>1. UNCHANGED <<windows, bedrockWindows, nextWindowID>>
    BY DEF JavaPumpWrites, BedrockPumpWrites, tables
  <1>2. ASSUME NEW packet \in Packet, Delivered(packet),
               packet.op = "Open" => packet.id \in DOMAIN bedrockWindows
        PROVE  NoNewIDs
    <2>1. clientShown' \subseteq clientShown \cup DOMAIN bedrockWindows
      BY <1>2 DEF Delivered, client
    <2>2. \A b \in WindowIDs : Queued(b)' => Queued(b) \/ b \in clientShown
      <3>1. CASE packet.op = "Close"
        <4>1. packet.id \in WindowIDs
          BY <3>1 DEF Packet
        <4> QED
          BY <1>2, <3>1, <4>1, CloseConfirmed DEF Delivered
      <3>2. CASE packet.op # "Close"
        BY <1>2, <3>2 DEF Delivered, Queued
      <3> QED
        BY <3>1, <3>2
    <2> QED
      BY <1>1, <2>1, <2>2 DEF NoNewIDs
  <1>3. CASE JavaPumpWrites
    <2>1. Head(javaWrites) \in Packet /\ Delivered(Head(javaWrites)) /\ javaWrites # <<>>
      BY <1>3, ReadType DEF JavaPumpWrites, TypeOK
    <2>2. ASSUME Head(javaWrites).op = "Open"
          PROVE  Head(javaWrites).id \in DOMAIN bedrockWindows
      <3>1. \E w \in Window : Opens(javaWrites, w) \/ Restores(javaWrites, w)
        BY <2>1, <2>2, ReleaseWritten DEF Client, WritesInOrder
      <3>2. PICK w \in Window : javaWrites = <<ToBedrock("Open", w)>>
        BY <3>1, <2>2, OneWritten DEF Opens, Restores, Closes
      <3>3. Head(javaWrites).id = w.bedrockID /\ Opens(javaWrites, w)
        BY <3>2, OneWritten DEF Opens
      <3> QED
        BY <3>3 DEF Client, OpeningUnseen
    <2> QED
      BY <1>2, <2>1, <2>2
  <1>4. CASE BedrockPumpWrites
    <2>1. Head(bedrockWrites) \in Packet /\ Delivered(Head(bedrockWrites)) /\ bedrockWrites # <<>>
      BY <1>4, ReadType DEF BedrockPumpWrites, TypeOK
    <2>2. Head(bedrockWrites).op # "Open"
      BY <2>1, ReleaseWritten, OneWritten DEF Client, WritesInOrder, Ends
    <2> QED
      BY <1>2, <2>1, <2>2
  <1> QED
    BY <1>3, <1>4

\* Every step of the bridge and its peers keeps what the client shows accounted for.
LEMMA StepKeepsClient ==
    ASSUME OrderlyServer, TypeOK, TypeOK', TablesAgree, Menus, Client, [Next]_vars
    PROVE  Menus' /\ Client'
  <1> USE DEF tables, client, server
  <1>1. CASE OpenUnmapped
    <2>1. /\ fromJava # <<>> /\ fromJava' = Tail(fromJava) /\ Head(fromJava).op = "OpenScreen"
          /\ javaWrites = <<>> /\ javaWrites' = <<CloseJava(Head(fromJava).id)>>
          /\ UNCHANGED <<tables, bedrockWrites, fromBedrock, server, client>>
      BY <1>1 DEF OpenUnmapped, JavaReads
    <2>2. MenusInOrder' /\ Used \subseteq Used' /\ Head(fromJava).id \in JavaIDs
      BY <2>1, MenuRead DEF Menus
    <2>3. NoNewIDs
      BY <2>1 DEF NoNewIDs, Queued
    <2>4. Releases(javaWrites')
      BY <2>1, <2>2 DEF Releases
    <2> QED
      BY <2>1, <2>2, <2>3, <2>4, MenusKept, ClientIdle
  <1>2. CASE OpenMapped
    <2>1. PICK w \in Window :
              /\ w.javaID = Head(fromJava).id /\ w.javaID \notin DOMAIN windows
              /\ windows' = With(windows, w.javaID, w)
              /\ bedrockWindows' = With(bedrockWindows, w.bedrockID, w)
              /\ javaWrites' = OpenVirtual(w)
              /\ w.bedrockID \notin clientShown /\ ~Queued(w.bedrockID)
      BY <1>2, OpenedFresh
    <2>2. UNCHANGED <<bedrockWrites, fromBedrock, clientShown, clientBlocks>> /\ javaWrites = <<>>
      BY <1>2 DEF OpenMapped, JavaReads
    <2> QED
      BY <1>2, <2>1, <2>2, ClientOpened, MenusOpened
  <1>3. CASE JavaClose
    <2>1. /\ fromJava # <<>> /\ fromJava' = Tail(fromJava)
          /\ javaWrites = <<>>
          /\ UNCHANGED <<bedrockWrites, fromBedrock, serverMenu, lastMenuID, clientShown, clientBlocks>>
      BY <1>3 DEF JavaClose, JavaReads
    <2>2. MenusInOrder' /\ Used \subseteq Used'
      BY <2>1, MenuRead DEF Menus
    <2> DEFINE j == Head(fromJava).id
    <2>3. CASE UNCHANGED <<tables, javaWrites>>
      <3>1. NoNewIDs
        BY <2>1, <2>3 DEF NoNewIDs, Queued
      <3> QED
        BY <2>1, <2>2, <2>3, <3>1, MenusKept, ClientIdle
    <2>4. CASE j \in DOMAIN windows /\ Unregister(windows[j]) /\ javaWrites' = CloseVirtual(windows[j])
      <3>1. windows[j] \in Window /\ windows[j].javaID = j
        BY <2>4 DEF TypeOK, IsTable, TablesAgree, TablesInverse
      <3>2. /\ windows' = Without(windows, j) /\ bedrockWindows' = Without(bedrockWindows, windows[j].bedrockID)
            /\ nextWindowID' = nextWindowID
        BY <2>4, <3>1 DEF Unregister
      <3>3. NoNewIDs
        BY <2>1, <3>2 DEF NoNewIDs, Queued, Without
      <3>4. Client'
        <4>1. PICK w \in Window : w = windows[j]
          BY <3>1
        <4>2. /\ w.javaID = j /\ w.javaID \in DOMAIN windows /\ windows[w.javaID] = w
              /\ windows' = Without(windows, w.javaID)
              /\ bedrockWindows' = Without(bedrockWindows, w.bedrockID)
              /\ javaWrites' = CloseVirtual(w)
          BY <2>4, <3>1, <3>2, <4>1
        <4> QED
          BY <2>1, <4>2, ClientServerClosed
      <3> QED
        BY <2>2, <3>3, <3>4, MenusKept
    <2> QED
      BY <1>3, <2>3, <2>4 DEF JavaClose
  <1>4. CASE JavaPosition
    <2>1. /\ fromJava # <<>> /\ fromJava' = Tail(fromJava)
          /\ UNCHANGED <<tables, javaWrites, bedrockWrites, fromBedrock, server, client>>
      BY <1>4 DEF JavaPosition, JavaReads
    <2>2. MenusInOrder' /\ Used \subseteq Used'
      BY <2>1, MenuRead DEF Menus
    <2>3. NoNewIDs
      BY <2>1 DEF NoNewIDs, Queued
    <2> QED
      BY <2>1, <2>2, <2>3, MenusKept, ClientIdle
  <1>5. CASE JavaPumpWrites
    <2>1. UNCHANGED <<fromJava, lastMenuID, serverMenu>>
      BY <1>5 DEF JavaPumpWrites
    <2> QED
      BY <1>5, <2>1, WrittenIDs, MenusUntouched, ClientTold
  <1>6. CASE BedrockPumpWrites
    <2>1. UNCHANGED <<fromJava, lastMenuID, serverMenu>>
      BY <1>6 DEF BedrockPumpWrites
    <2> QED
      BY <1>6, <2>1, WrittenIDs, MenusUntouched, ClientRestored
  <1>7. CASE BedrockClose
    <2>1. /\ UNCHANGED <<fromJava, lastMenuID, serverMenu, clientShown>>
          /\ fromBedrock # <<>> /\ fromBedrock' = Tail(fromBedrock)
      BY <1>7 DEF BedrockClose
    <2>2. /\ nextWindowID' = nextWindowID
          /\ DOMAIN windows' \subseteq DOMAIN windows
          /\ DOMAIN bedrockWindows' \subseteq DOMAIN bedrockWindows
      BY <1>7 DEF BedrockClose, Unregister, Without
    <2>3. NoNewIDs
      BY <2>1, <2>2, CloseRead DEF NoNewIDs
    <2> QED
      BY <1>7, <2>1, <2>3, MenusUntouched, ClientHeard
  <1>8. ASSUME NEW id \in WindowIDs \cup {0}, ClientCloses(id)
        PROVE  Menus' /\ Client'
    <2>1. /\ UNCHANGED <<tables, fromJava, lastMenuID, serverMenu>>
          /\ id \in clientShown \cup {0} /\ clientShown' \subseteq clientShown
          /\ fromBedrock' = Append(fromBedrock, id)
      BY <1>8 DEF ClientCloses
    <2>2. \A b \in WindowIDs : Queued(b)' => Queued(b) \/ b \in clientShown
      BY <2>1, CloseSent DEF WindowIDs
    <2>3. NoNewIDs
      BY <2>1, <2>2 DEF NoNewIDs
    <2> QED
      BY <1>8, <2>1, <2>3, MenusUntouched, ClientLeft
  <1>9. ASSUME UNCHANGED <<tables, javaWrites, bedrockWrites, fromBedrock, client>>,
               MenusInOrder' /\ Used \subseteq Used'
        PROVE  Menus' /\ Client'
    <2>1. NoNewIDs
      BY <1>9 DEF NoNewIDs, Queued
    <2> QED
      BY <1>9, <2>1, MenusKept, ClientIdle
  <1>10. ASSUME NEW id \in JavaIDs, NEW mapped \in BOOLEAN, ServerOpens(id, mapped)
         PROVE  Menus' /\ Client'
    <2>1. UNCHANGED <<tables, javaWrites, bedrockWrites, fromBedrock, client>>
      BY <1>10 DEF ServerOpens
    <2> QED
      BY <1>9, <1>10, <2>1, ServerSends, MenuSent DEF Menus
  <1>11. CASE ServerCloses
    <2>1. UNCHANGED <<tables, javaWrites, bedrockWrites, fromBedrock, client>>
      BY <1>11 DEF ServerCloses
    <2> QED
      BY <1>9, <1>11, <2>1, ServerSends, MenuSent DEF Menus
  <1>12. ASSUME NEW p \in Positions, ServerMovesPlayer(p)
         PROVE  Menus' /\ Client'
    <2>1. UNCHANGED <<tables, javaWrites, bedrockWrites, fromBedrock, client>>
      BY <1>12 DEF ServerMovesPlayer
    <2> QED
      BY <1>9, <1>12, <2>1, ServerSends, MenuSent DEF Menus
  <1>13. CASE ServerReadsClose
    <2>1. /\ UNCHANGED <<tables, javaWrites, bedrockWrites, fromJava, fromBedrock, lastMenuID, client>>
          /\ serverMenu' = serverMenu \/ serverMenu' = NoMenu
      BY <1>13 DEF ServerReadsClose
    <2>2. NoNewIDs
      BY <2>1 DEF NoNewIDs, Queued
    <2> QED
      BY <2>1, <2>2, MenusUntouched, ClientIdle
  <1>14. CASE UNCHANGED vars
    <2>1. UNCHANGED <<tables, javaWrites, bedrockWrites, fromJava, fromBedrock, server, client>>
      BY <1>14 DEF vars
    <2>2. NoNewIDs
      BY <2>1 DEF NoNewIDs, Queued
    <2> QED
      BY <2>1, <2>2, MenusUntouched, ClientIdle
  <1> QED
    BY <1>1, <1>2, <1>3, <1>4, <1>5, <1>6, <1>7, <1>8, <1>10, <1>11, <1>12, <1>13, <1>14
    DEF Next, PumpJava, PumpBedrock, Peers

\* At the start there is nothing to account for.
LEMMA ClientStart ==
    ASSUME Init, TypeOK
    PROVE  Menus /\ Client
  <1>1. /\ windows = EmptyTable /\ bedrockWindows = EmptyTable /\ nextWindowID = 1
        /\ javaWrites = <<>> /\ bedrockWrites = <<>> /\ fromJava = <<>> /\ fromBedrock = <<>>
        /\ serverMenu.id = 0 /\ lastMenuID = 0 /\ clientShown = {} /\ clientBlocks = {}
    BY DEF Init, NoMenu
  <1>2. DOMAIN windows = {} /\ DOMAIN bedrockWindows = {} /\ \A b : ~Queued(b)
    BY <1>1 DEF EmptyTable, Queued
  <1>3. MenusInOrder /\ RegisteredUsed
    BY <1>1, <1>2 DEF MenusInOrder, RegisteredUsed
  <1>4. Spent
    <2>1. 0 \in 0..MaxWindowID /\ 0 < MaxWindowID /\ 0 <= Cardinality(Used)
      BY UsedCounted, WindowsAssumption
    <2>2. Unspent(0)
      BY <1>1, <1>2 DEF Unspent
    <2> QED
      BY <1>1, <2>1, <2>2 DEF Spent
  <1>5. Client
    BY <1>1, <1>2, NoWrites DEF Client, WritesInOrder, OpeningUnseen, ClosingForgotten, ShownKnown,
        KnownShown, QueuedClosed, BlocksHeld
  <1> QED
    BY <1>3, <1>4, <1>5 DEF Menus

\* With nothing left to write or to read, all that is accounted for is in the tables.
LEMMA ClientAtRest ==
    ASSUME Client
    PROVE  ClientAgrees
  <1> SUFFICES ASSUME Quiescent
               PROVE  /\ clientShown = DOMAIN bedrockWindows
                      /\ clientBlocks \subseteq {windows[j].position : j \in DOMAIN windows}
    BY DEF ClientAgrees
  <1>1. /\ \A w \in Window : /\ ~Opens(javaWrites, w) /\ ~Closes(javaWrites, w)
                             /\ ~Restores(javaWrites, w) /\ ~Ends(bedrockWrites, w)
        /\ \A b : ~Queued(b)
    BY NoWrites DEF Quiescent, Queued
  <1> QED
    BY <1>1 DEF Client, ShownKnown, KnownShown, BlocksHeld

\* At rest the client shows exactly the windows the bridge has registered, and no virtual
\* block but theirs, for every orderly server, number of IDs and order in which the two
\* pumps, the player and the server take their steps (windows.go).
THEOREM ClientCorrect ==
    ASSUME OrderlyServer
    PROVE  Spec => []ClientAgrees
  <1>1. Init /\ TypeOK => Menus /\ Client
    BY ClientStart
  <1>2. TypeOK /\ TypeOK' /\ TablesAgree /\ Menus /\ Client /\ [Next]_vars => Menus' /\ Client'
    BY StepKeepsClient
  <1>3. Client => ClientAgrees
    BY ClientAtRest
  <1> QED
    BY <1>1, <1>2, <1>3, TypeCorrect, TablesCorrect, PTL DEF Spec

(***************************************************************************)
(* What the server has open                                                *)
(***************************************************************************)
\* Which closes are among what a pump has left to write.
LEMMA SendingWrites ==
    ASSUME NEW j
    PROVE  /\ ~Sending(<<>>, j)
           /\ \A i : Sending(<<CloseJava(i)>>, j) <=> j = i
           /\ \A w \in Window : ~Sending(OpenVirtual(w), j) /\ ~Sending(CloseVirtual(w), j)
           /\ \A w \in Window : \A i :
                 Sending(<<CloseJava(i), ToBedrock("Restore", w)>>, j) <=> j = i
  <1>1. \A a : DOMAIN <<a>> = {1} /\ <<a>>[1] = a
    OBVIOUS
  <1>2. \A a, b : DOMAIN <<a, b>> = {1, 2} /\ <<a, b>>[1] = a /\ <<a, b>>[2] = b
    OBVIOUS
  <1>3. \A i : CloseJava(i).op = "CloseJava" /\ CloseJava(i).id = i
    BY DEF CloseJava
  <1>4. \A w \in Window : /\ ToBedrock("Place", w).op # "CloseJava"
                          /\ ToBedrock("Open", w).op # "CloseJava"
                          /\ ToBedrock("Close", w).op # "CloseJava"
                          /\ ToBedrock("Restore", w).op # "CloseJava"
    BY DEF ToBedrock
  <1>5. ~Sending(<<>>, j)
    BY DEF Sending
  <1>6. \A i : Sending(<<CloseJava(i)>>, j) <=> j = i
    BY <1>1, <1>3 DEF Sending
  <1>7. \A w \in Window : ~Sending(OpenVirtual(w), j) /\ ~Sending(CloseVirtual(w), j)
    BY <1>2, <1>4 DEF Sending, OpenVirtual, CloseVirtual
  <1>8. ASSUME NEW w \in Window, NEW i
        PROVE  Sending(<<CloseJava(i), ToBedrock("Restore", w)>>, j) <=> j = i
    BY <1>2, <1>3, <1>4 DEF Sending
  <1> QED
    BY <1>5, <1>6, <1>7, <1>8

\* A close stays on its way while a pump writes it.
LEMMA ClosesWritten ==
    ASSUME TypeOK, JavaPumpWrites \/ BedrockPumpWrites
    PROVE  \A j : ClosePending(j)' <=> ClosePending(j)
  <1>1. ASSUME NEW q \in Seq(Packet), q # <<>>, Delivered(Head(q)), NEW j
        PROVE  /\ Sending(q, j) <=> Sending(Tail(q), j)
                                    \/ (Head(q).op = "CloseJava" /\ Head(q).id = j)
               /\ (\E i \in DOMAIN toJava' : toJava'[i] = j)
                  <=> \/ \E i \in DOMAIN toJava : toJava[i] = j
                      \/ Head(q).op = "CloseJava" /\ Head(q).id = j
    <2>1. Sending(q, j) <=> Sending(Tail(q), j) \/ (Head(q).op = "CloseJava" /\ Head(q).id = j)
      <3>1. /\ Head(q) = q[1] /\ 1 \in DOMAIN q
            /\ \A i \in DOMAIN Tail(q) : i + 1 \in DOMAIN q /\ Tail(q)[i] = q[i + 1]
            /\ \A i \in DOMAIN q : i = 1 \/ (i - 1 \in DOMAIN Tail(q) /\ Tail(q)[i - 1] = q[i])
        BY <1>1, Popped
      <3> QED
        BY <3>1, ZenonT(60) DEF Sending
    <2>2. CASE Head(q).op = "CloseJava"
      <3>1. Head(q).id \in JavaIDs \cup WindowIDs
        <4>1. Head(q) \in Packet
          BY <1>1, Popped
        <4> QED
          BY <2>2, <4>1 DEF Packet
      <3>2. toJava \in Seq(JavaIDs \cup WindowIDs) /\ toJava' = Append(toJava, Head(q).id)
        BY <1>1, <2>2 DEF TypeOK, Delivered
      <3>3. /\ \A i \in DOMAIN toJava : i \in DOMAIN toJava' /\ toJava'[i] = toJava[i]
            /\ Len(toJava) + 1 \in DOMAIN toJava' /\ toJava'[Len(toJava) + 1] = Head(q).id
            /\ \A i \in DOMAIN toJava' : i \in DOMAIN toJava \/ i = Len(toJava) + 1
        BY <3>1, <3>2, Pushed
      <3> QED
        BY <2>1, <2>2, <3>3
    <2>3. CASE Head(q).op # "CloseJava"
      <3>1. toJava' = toJava
        BY <1>1, <2>3 DEF Delivered
      <3> QED
        BY <2>1, <2>3, <3>1
    <2> QED
      BY <2>2, <2>3
  <1>2. CASE JavaPumpWrites
    <2>1. /\ javaWrites \in Seq(Packet) /\ javaWrites # <<>> /\ Delivered(Head(javaWrites))
          /\ javaWrites' = Tail(javaWrites) /\ bedrockWrites' = bedrockWrites
      BY <1>2 DEF JavaPumpWrites, TypeOK
    <2>2. ASSUME NEW j
          PROVE  /\ Sending(javaWrites, j) <=> Sending(javaWrites', j)
                       \/ (Head(javaWrites).op = "CloseJava" /\ Head(javaWrites).id = j)
                 /\ (\E i \in DOMAIN toJava' : toJava'[i] = j)
                    <=> \/ \E i \in DOMAIN toJava : toJava[i] = j
                        \/ Head(javaWrites).op = "CloseJava" /\ Head(javaWrites).id = j
      BY <1>1, <2>1
    <2> QED
      BY <2>1, <2>2 DEF ClosePending
  <1>3. CASE BedrockPumpWrites
    <2>1. /\ bedrockWrites \in Seq(Packet) /\ bedrockWrites # <<>> /\ Delivered(Head(bedrockWrites))
          /\ bedrockWrites' = Tail(bedrockWrites) /\ javaWrites' = javaWrites
      BY <1>3 DEF BedrockPumpWrites, TypeOK
    <2>2. ASSUME NEW j
          PROVE  /\ Sending(bedrockWrites, j) <=> Sending(bedrockWrites', j)
                       \/ (Head(bedrockWrites).op = "CloseJava" /\ Head(bedrockWrites).id = j)
                 /\ (\E i \in DOMAIN toJava' : toJava'[i] = j)
                    <=> \/ \E i \in DOMAIN toJava : toJava[i] = j
                        \/ Head(bedrockWrites).op = "CloseJava" /\ Head(bedrockWrites).id = j
      BY <1>1, <2>1
    <2> QED
      BY <2>1, <2>2 DEF ClosePending
  <1> QED
    BY <1>2, <1>3

\* What is behind the first of the server's packets, once that is read.
LEMMA ServerRead ==
    ASSUME TypeOK, fromJava # <<>>, fromJava' = Tail(fromJava)
    PROVE  /\ \A j : Coming(j) <=> Coming(j)' \/ (Head(fromJava).op = "OpenScreen" /\ Head(fromJava).id = j)
           /\ \A j : CloseComing(j, 0)' => CloseComing(j, 0)
           /\ \A j : CloseComing(j, 1) => CloseComing(j, 0)'
           /\ \A j : CloseComing(j, 0) => \/ CloseComing(j, 0)'
                                          \/ Head(fromJava).op = "CloseScreen" /\ Head(fromJava).id = j
           /\ \A k \in DOMAIN fromJava' :
                 /\ k + 1 \in DOMAIN fromJava /\ fromJava'[k] = fromJava[k + 1]
                 /\ \A j : CloseComing(j, k + 1) => CloseComing(j, k)'
  <1>1. /\ Head(fromJava) = fromJava[1] /\ 1 \in DOMAIN fromJava
        /\ \A i \in DOMAIN fromJava' :
              i \in Nat /\ i > 0 /\ i + 1 \in DOMAIN fromJava /\ fromJava'[i] = fromJava[i + 1]
        /\ \A i \in DOMAIN fromJava :
              /\ i \in Nat
              /\ i = 1 \/ (i - 1 \in DOMAIN fromJava' /\ fromJava'[i - 1] = fromJava[i])
    BY Popped DEF TypeOK
  <1>2. \A j : Coming(j) <=> Coming(j)' \/ (Head(fromJava).op = "OpenScreen" /\ Head(fromJava).id = j)
    <2>1. ASSUME NEW j, Coming(j)'
          PROVE  Coming(j)
      <3>1. PICK i \in DOMAIN fromJava' : IsOpen(i)' /\ fromJava'[i].id = j
        BY <2>1, Zenon DEF Coming, IsOpen
      <3>2. i + 1 \in DOMAIN fromJava /\ fromJava'[i] = fromJava[i + 1]
        BY <1>1, <3>1, Zenon
      <3>3. IsOpen(i + 1) /\ fromJava[i + 1].id = j
        BY <3>1, <3>2, Zenon DEF IsOpen
      <3> QED BY <3>2, <3>3, Zenon DEF Coming
    <2>2. ASSUME NEW j, Coming(j), ~(Head(fromJava).op = "OpenScreen" /\ Head(fromJava).id = j)
          PROVE  Coming(j)'
      <3>1. PICK i \in DOMAIN fromJava : IsOpen(i) /\ fromJava[i].id = j
        BY <2>2, Zenon DEF Coming
      <3>2. i # 1
        BY <1>1, <2>2, <3>1, Zenon DEF IsOpen
      <3>3. i - 1 \in DOMAIN fromJava' /\ fromJava'[i - 1] = fromJava[i]
        BY <1>1, <3>1, <3>2, Zenon
      <3>4. fromJava'[i - 1].op = "OpenScreen" /\ fromJava'[i - 1].id = j
        BY <3>1, <3>3, Zenon DEF IsOpen
      <3> QED BY <3>3, <3>4, Zenon DEF Coming, IsOpen
    <2>3. ASSUME NEW j, Head(fromJava).op = "OpenScreen", Head(fromJava).id = j
          PROVE  Coming(j)
      BY <1>1, <2>3, Zenon DEF Coming, IsOpen
    <2> QED BY <2>1, <2>2, <2>3, Zenon
  <1>3. \A j : CloseComing(j, 0)' => CloseComing(j, 0)
    BY <1>1 DEF CloseComing
  <1>4. \A k \in Nat : \A j : CloseComing(j, k + 1) => CloseComing(j, k)'
    <2> SUFFICES ASSUME NEW j, NEW k \in Nat, NEW i \in DOMAIN fromJava, i > k + 1,
                        fromJava[i].op = "CloseScreen", fromJava[i].id = j
                 PROVE  CloseComing(j, k)'
      BY DEF CloseComing
    <2>1. i - 1 \in DOMAIN fromJava' /\ fromJava'[i - 1] = fromJava[i] /\ i - 1 > k
      BY <1>1
    <2> QED
      BY <2>1 DEF CloseComing
  <1>5. \A j : CloseComing(j, 1) => CloseComing(j, 0)'
    BY <1>1 DEF CloseComing
  <1>6. \A j : CloseComing(j, 0) => \/ CloseComing(j, 0)'
                                    \/ Head(fromJava).op = "CloseScreen" /\ Head(fromJava).id = j
    BY <1>1 DEF CloseComing
  <1> QED
    BY <1>1, <1>2, <1>3, <1>4, <1>5, <1>6

\* What the server adds is behind all it has sent before.
LEMMA ServerSent ==
    ASSUME TypeOK, NEW r \in Seq(ServerPacket), fromJava' = fromJava \o r
    PROVE  /\ \A j : Coming(j) => Coming(j)'
           /\ \A j, k : CloseComing(j, k) => CloseComing(j, k)'
           /\ \A i \in DOMAIN r : r[i].op = "OpenScreen" => Coming(r[i].id)'
           /\ \A i \in DOMAIN r : r[i].op = "CloseScreen" =>
                 CloseComing(r[i].id, 0)' /\ \A k \in DOMAIN fromJava : CloseComing(r[i].id, k)'
           /\ \A j : CloseComing(j, 0)' =>
                 CloseComing(j, 0) \/ \E i \in DOMAIN r : r[i].op = "CloseScreen" /\ r[i].id = j
           /\ \A k \in DOMAIN fromJava' :
                 \/ k \in DOMAIN fromJava /\ fromJava'[k] = fromJava[k]
                 \/ \E i \in DOMAIN r : fromJava'[k] = r[i]
  <1>1. fromJava \in Seq(ServerPacket)
    BY DEF TypeOK
  <1>2. /\ DOMAIN fromJava = 1..Len(fromJava) /\ Len(fromJava) \in Nat
        /\ DOMAIN r = 1..Len(r) /\ Len(r) \in Nat
        /\ \A i \in DOMAIN fromJava : i \in Int /\ i \in DOMAIN fromJava' /\ fromJava'[i] = fromJava[i]
    BY <1>1, Joined
  <1>3. \A i \in DOMAIN r :
           i > 0 /\ Len(fromJava) + i \in DOMAIN fromJava' /\ fromJava'[Len(fromJava) + i] = r[i]
    BY <1>1, Joined
  <1>4. \A i \in DOMAIN fromJava' :
           i \in Int /\ (i \in DOMAIN fromJava \/ (i > Len(fromJava) /\ i - Len(fromJava) \in DOMAIN r))
    BY <1>1, Joined
  <1>5. \A k \in DOMAIN fromJava' :
           \/ k \in DOMAIN fromJava /\ fromJava'[k] = fromJava[k]
           \/ \E i \in DOMAIN r : fromJava'[k] = r[i]
    <2> SUFFICES ASSUME NEW k \in DOMAIN fromJava', k \notin DOMAIN fromJava
                 PROVE  \E i \in DOMAIN r : fromJava'[k] = r[i]
      BY <1>2
    <2>1. k - Len(fromJava) \in DOMAIN r /\ Len(fromJava) + (k - Len(fromJava)) = k
      BY <1>2, <1>4
    <2> QED
      BY <1>3, <2>1
  <1>6. \A j : Coming(j) => Coming(j)'
    BY <1>2 DEF Coming, IsOpen
  <1>7. \A j, k : CloseComing(j, k) => CloseComing(j, k)'
    BY <1>2 DEF CloseComing
  <1>8. \A i \in DOMAIN r : r[i].op = "OpenScreen" => Coming(r[i].id)'
    BY <1>3 DEF Coming, IsOpen
  <1>9. ASSUME NEW i \in DOMAIN r, r[i].op = "CloseScreen", NEW k \in DOMAIN fromJava \cup {0}
        PROVE  CloseComing(r[i].id, k)'
    <2>1. Len(fromJava) + i > k
      BY <1>2, <1>3
    <2> QED
      BY <1>3, <1>9, <2>1 DEF CloseComing
  <1>10. \A j : CloseComing(j, 0)' =>
            CloseComing(j, 0) \/ \E i \in DOMAIN r : r[i].op = "CloseScreen" /\ r[i].id = j
    BY <1>5 DEF CloseComing
  <1> QED
    BY <1>5, <1>6, <1>7, <1>8, <1>9, <1>10

\* The bridge or the client does something that tells the server nothing new.
LEMMA ServerIdle ==
    ASSUME Server, UNCHANGED <<windows, fromJava, serverMenu, lastMenuID, misdirected>>,
           \A j : ClosePending(j)' <=> ClosePending(j)
    PROVE  Server'
  <1>1. \A j, k : CloseComing(j, k)' <=> CloseComing(j, k)
    BY DEF CloseComing
  <1>2. (\A j : Coming(j)' <=> Coming(j)) /\ Used' = Used
    BY DEF Coming, IsOpen, Used
  <1>3. \A k \in DOMAIN fromJava' : IsOpen(k)' => IsOpen(k)
    BY DEF IsOpen
  <1> QED
    BY <1>1, <1>2, <1>3 DEF Server, MenuHeld

\* The bridge reads a packet of the server: a menu that it opens, or that is closed on its
\* behalf; the close of a menu; or a packet of no menu.
LEMMA ServerHeard ==
    ASSUME TypeOK, Menus, Server,
           fromJava # <<>>, fromJava' = Tail(fromJava),
           UNCHANGED <<serverMenu, lastMenuID, misdirected>>,
           NEW opened, NEW closed, NEW removed,
           DOMAIN windows' = (DOMAIN windows \cup opened) \ removed,
           \A j : ClosePending(j)' <=> ClosePending(j) \/ j \in closed,
           opened \cup closed =
              (IF Head(fromJava).op = "OpenScreen" THEN {Head(fromJava).id} ELSE {}),
           opened \cap closed = {},
           removed = (IF Head(fromJava).op = "CloseScreen" THEN {Head(fromJava).id} ELSE {})
    PROVE  Server'
  <1> SUFFICES ASSUME ~misdirected, NEW j \in JavaIDs PROVE MenuHeld(j)'
    BY DEF Server
  <1> DEFINE head == Head(fromJava)
  <1>1. /\ Coming(j) <=> Coming(j)' \/ (head.op = "OpenScreen" /\ head.id = j)
        /\ CloseComing(j, 0)' => CloseComing(j, 0)
        /\ CloseComing(j, 1) => CloseComing(j, 0)'
        /\ CloseComing(j, 0) => CloseComing(j, 0)' \/ (head.op = "CloseScreen" /\ head.id = j)
        /\ \A k \in DOMAIN fromJava' :
              /\ k + 1 \in DOMAIN fromJava /\ fromJava'[k] = fromJava[k + 1]
              /\ CloseComing(j, k + 1) => CloseComing(j, k)'
    BY ServerRead
  <1>2. /\ MenusInOrder' /\ Used \subseteq Used'
        /\ head.op = "OpenScreen" => head.id \in JavaIDs /\ head.id \in Used' /\ head.id \notin Used
    BY MenuRead DEF Menus
  <1>3. head = fromJava[1] /\ 1 \in DOMAIN fromJava
    BY Popped DEF TypeOK
  <1>4. MenuHeld(j)
    BY DEF Server
  <1>5. j \in DOMAIN windows' => j = serverMenu'.id \/ CloseComing(j, 0)'
    <2>1. CASE j \in DOMAIN windows /\ j \notin removed
      BY <1>1, <1>4, <2>1 DEF MenuHeld
    <2>2. CASE j \in opened
      <3>1. IsOpen(1) /\ fromJava[1].id = j
        BY <1>3, <2>2 DEF IsOpen
      <3> QED
        BY <1>1, <1>3, <1>4, <3>1 DEF MenuHeld
    <2> QED
      BY <2>1, <2>2
  <1>6. j \in removed => CloseComing(j, 0)
    BY <1>3 DEF CloseComing
  <1>7. j = serverMenu'.id => Coming(j)' \/ j \in DOMAIN windows' \/ ClosePending(j)'
    BY <1>1, <1>4, <1>6 DEF MenuHeld
  <1>8. j = serverMenu'.id => ~CloseComing(j, 0)'
    BY <1>1, <1>4 DEF MenuHeld
  <1>9. ASSUME NEW k \in DOMAIN fromJava', IsOpen(k)', fromJava'[k].id = j
        PROVE  j = serverMenu'.id \/ CloseComing(j, k)'
    <2>1. k + 1 \in DOMAIN fromJava /\ IsOpen(k + 1) /\ fromJava'[k] = fromJava[k + 1]
      BY <1>1, <1>9 DEF IsOpen
    <2> QED
      BY <1>1, <1>4, <1>9, <2>1 DEF MenuHeld
  <1>10. ASSUME ClosePending(j)'
         PROVE  j \in Used' /\ j \notin DOMAIN windows'
    <2>1. CASE ClosePending(j)
      <3>1. j \in Used /\ j \notin DOMAIN windows
        BY <1>4, <2>1 DEF MenuHeld
      <3>2. j \notin opened
        BY <1>2, <3>1
      <3> QED
        BY <1>2, <3>1, <3>2
    <2>2. CASE j \in closed
      <3>1. j \in Used' /\ j \notin Used
        BY <1>2, <2>2
      <3> QED
        BY <2>2, <3>1 DEF Menus, RegisteredUsed
    <2> QED
      BY <1>10, <2>1, <2>2
  <1> QED
    BY <1>5, <1>7, <1>8, <1>9, <1>10 DEF MenuHeld

\* The server opens or closes its menu, or moves the player.
LEMMA ServerActs ==
    ASSUME TypeOK, TypeOK', MenusInOrder, Server, NEW r \in Seq(ServerPacket), Sends(r),
           UNCHANGED <<windows, misdirected>>, \A j : ClosePending(j)' <=> ClosePending(j)
    PROVE  Server'
  <1> SUFFICES ASSUME ~misdirected, NEW j \in JavaIDs PROVE MenuHeld(j)'
    BY DEF Server
  <1>1. /\ fromJava' = fromJava \o r
        /\ \A i \in DOMAIN r : r[i].op = "CloseScreen" =>
              r[i].id = serverMenu.id /\ r[i].id <= lastMenuID
        /\ \A i \in DOMAIN r : r[i].op = "OpenScreen" =>
              lastMenuID < r[i].id /\ serverMenu'.id = r[i].id
        /\ \/ serverMenu' = serverMenu /\ \A i \in DOMAIN r : r[i].op = "Position"
           \/ /\ serverMenu # NoMenu =>
                    \E i \in DOMAIN r : r[i].op = "CloseScreen" /\ r[i].id = serverMenu.id
              /\ serverMenu' # NoMenu =>
                    \E i \in DOMAIN r : r[i].op = "OpenScreen" /\ r[i].id = serverMenu'.id
    BY DEF Sends
  <1>2. /\ Coming(j) => Coming(j)'
        /\ \A k : CloseComing(j, k) => CloseComing(j, k)'
        /\ \A i \in DOMAIN r : r[i].op = "OpenScreen" /\ r[i].id = j => Coming(j)'
        /\ \A i \in DOMAIN r : r[i].op = "CloseScreen" /\ r[i].id = j =>
              CloseComing(j, 0)' /\ \A k \in DOMAIN fromJava : CloseComing(j, k)'
        /\ CloseComing(j, 0)' =>
              CloseComing(j, 0) \/ \E i \in DOMAIN r : r[i].op = "CloseScreen" /\ r[i].id = j
        /\ \A k \in DOMAIN fromJava' :
              \/ k \in DOMAIN fromJava /\ fromJava'[k] = fromJava[k]
              \/ \E i \in DOMAIN r : fromJava'[k] = r[i]
    BY <1>1, ServerSent
  <1>3. MenuHeld(j) /\ Used \subseteq Used'
    BY MenuSent DEF Server
  <1>4. j = serverMenu.id => serverMenu # NoMenu
    BY MenuIDs DEF NoMenu
  <1>5. j = serverMenu'.id => serverMenu' # NoMenu
    BY MenuIDs DEF NoMenu
  <1>6. CASE serverMenu' = serverMenu /\ \A i \in DOMAIN r : r[i].op = "Position"
    BY <1>2, <1>3, <1>6 DEF MenuHeld, IsOpen
  <1>7. ASSUME serverMenu # NoMenu =>
                  \E i \in DOMAIN r : r[i].op = "CloseScreen" /\ r[i].id = serverMenu.id,
               serverMenu' # NoMenu =>
                  \E i \in DOMAIN r : r[i].op = "OpenScreen" /\ r[i].id = serverMenu'.id
        PROVE  MenuHeld(j)'
    <2>1. j = serverMenu.id => CloseComing(j, 0)' /\ \A k \in DOMAIN fromJava : CloseComing(j, k)'
      BY <1>2, <1>4, <1>7
    <2>2. j = serverMenu'.id => Coming(j)'
      BY <1>2, <1>5, <1>7
    <2>3. ASSUME j = serverMenu'.id
          PROVE  ~CloseComing(j, 0)'
      <3>1. lastMenuID < j
        BY <1>1, <1>5, <1>7, <2>3
      <3>2. ~CloseComing(j, 0)
        BY <3>1, MenuIDs DEF CloseComing, MenusInOrder
      <3>3. \A i \in DOMAIN r : r[i].op = "CloseScreen" => r[i].id # j
        BY <1>1, <3>1, MenuIDs
      <3> QED
        BY <1>2, <3>2, <3>3
    <2>4. ASSUME NEW k \in DOMAIN fromJava', IsOpen(k)', fromJava'[k].id = j
          PROVE  j = serverMenu'.id \/ CloseComing(j, k)'
      <3>1. CASE k \in DOMAIN fromJava /\ fromJava'[k] = fromJava[k]
        <4>1. IsOpen(k)
          BY <2>4, <3>1 DEF IsOpen
        <4> QED
          BY <1>2, <1>3, <2>1, <2>4, <3>1, <4>1 DEF MenuHeld
      <3>2. CASE \E i \in DOMAIN r : fromJava'[k] = r[i]
        BY <1>1, <2>4, <3>2 DEF IsOpen
      <3> QED
        BY <1>2, <3>1, <3>2
    <2> QED
      BY <1>2, <1>3, <2>1, <2>2, <2>3, <2>4 DEF MenuHeld
  <1> QED
    BY <1>1, <1>6, <1>7

\* The player has closed the window of a menu.
LEMMA ServerTold ==
    ASSUME TypeOK, TablesAgree, Menus, Server, BedrockClose
    PROVE  Server'
  <1> DEFINE id == Head(fromBedrock)
  <1>1. /\ bedrockWrites = <<>>
        /\ UNCHANGED <<javaWrites, toJava, fromJava, serverMenu, lastMenuID>>
    BY DEF BedrockClose, server
  <1>2. \A j, k : CloseComing(j, k)' <=> CloseComing(j, k)
    BY <1>1 DEF CloseComing
  <1>3. (\A j : Coming(j)' <=> Coming(j)) /\ Used' = Used
    BY <1>1 DEF Coming, IsOpen, Used
  <1>4. \A k \in DOMAIN fromJava' : IsOpen(k)' => IsOpen(k)
    BY <1>1 DEF IsOpen
  <1>5. CASE CloseIgnored(id)
    <2>1. UNCHANGED <<windows, bedrockWrites, misdirected>>
      BY <1>5 DEF BedrockClose, tables, CloseIgnored
    <2>2. \A j : ClosePending(j)' <=> ClosePending(j)
      BY <1>1, <2>1 DEF ClosePending, Sending
    <2> QED
      BY <1>1, <2>1, <2>2, ServerIdle
  <1>6. CASE ~CloseIgnored(id) /\ id \notin DOMAIN bedrockWindows
    BY <1>6 DEF BedrockClose, Server
  <1>7. CASE ~CloseIgnored(id) /\ id \in DOMAIN bedrockWindows
    <2>1. PICK w : w = bedrockWindows[id]
      OBVIOUS
    <2>2. /\ w \in Window /\ w.javaID \in DOMAIN windows
          /\ Unregister(w) /\ misdirected' = misdirected
          /\ bedrockWrites' = <<CloseJava(w.javaID), ToBedrock("Restore", w)>>
      <3>1. w \in Window /\ w.javaID \in DOMAIN windows
        BY <1>7, <2>1 DEF TypeOK, IsTable, TablesAgree, TablesInverse
      <3>2. /\ Unregister(w) /\ misdirected' = misdirected
            /\ bedrockWrites' = <<CloseJava(w.javaID), ToBedrock("Restore", w)>>
        BY <1>7, <2>1 DEF BedrockClose, ServerID
      <3> QED
        BY <3>1, <3>2
    <2>3. DOMAIN windows' = DOMAIN windows \ {w.javaID}
      BY <2>2 DEF Unregister, Without
    <2>4. \A j : ClosePending(j)' <=> ClosePending(j) \/ j = w.javaID
      <3>1. \A j : Sending(bedrockWrites', j) <=> j = w.javaID
        BY <2>2, SendingWrites
      <3>2. \A j : ~Sending(bedrockWrites, j)
        BY <1>1, SendingWrites
      <3> QED
        BY <1>1, <3>1, <3>2 DEF ClosePending, Sending
    <2>5. w.javaID \in Used
      BY <2>2 DEF Menus, RegisteredUsed
    <2>6. ASSUME NEW j \in JavaIDs, MenuHeld(j)
          PROVE  MenuHeld(j)'
      BY <1>1, <1>2, <1>3, <1>4, <2>3, <2>4, <2>5, <2>6 DEF MenuHeld
    <2> QED
      BY <2>2, <2>6 DEF Server
  <1> QED
    BY <1>5, <1>6, <1>7

\* The server hears of a close: if it is of its menu, no window of that is registered.
LEMMA ServerHearsClose ==
    ASSUME TypeOK, Server, ServerReadsClose
    PROVE  Server'
  <1> SUFFICES ASSUME ~misdirected, NEW j \in JavaIDs PROVE MenuHeld(j)'
    BY DEF Server, ServerReadsClose
  <1> DEFINE head == Head(toJava)
  <1>1. /\ UNCHANGED <<windows, javaWrites, bedrockWrites, fromJava, lastMenuID, misdirected>>
        /\ toJava # <<>> /\ toJava' = Tail(toJava)
        /\ serverMenu' = IF head = serverMenu.id THEN NoMenu ELSE serverMenu
    BY DEF ServerReadsClose, tables
  <1>2. \A k : CloseComing(j, k)' <=> CloseComing(j, k)
    BY <1>1 DEF CloseComing
  <1>3. (Coming(j)' <=> Coming(j)) /\ Used' = Used
    BY <1>1 DEF Coming, IsOpen, Used
  <1>4. \A k \in DOMAIN fromJava' : IsOpen(k)' => IsOpen(k)
    BY <1>1 DEF IsOpen
  <1>5. /\ ClosePending(j)' => ClosePending(j)
        /\ ClosePending(j) => ClosePending(j)' \/ j = head
        /\ j = head => ClosePending(j)
    <2>1. toJava \in Seq(JavaIDs \cup WindowIDs)
      BY DEF TypeOK
    <2>2. /\ head = toJava[1] /\ 1 \in DOMAIN toJava
          /\ \A i \in DOMAIN toJava' : i + 1 \in DOMAIN toJava /\ toJava'[i] = toJava[i + 1]
          /\ \A i \in DOMAIN toJava :
                i = 1 \/ (i - 1 \in DOMAIN toJava' /\ toJava'[i - 1] = toJava[i])
      BY <1>1, <2>1, Popped
    <2>3. /\ Sending(javaWrites, j)' <=> Sending(javaWrites, j)
          /\ Sending(bedrockWrites, j)' <=> Sending(bedrockWrites, j)
      BY <1>1 DEF Sending
    <2> HIDE DEF head
    <2> QED
      BY <2>2, <2>3 DEF ClosePending
  <1>6. MenuHeld(j)
    BY DEF Server
  <1> HIDE DEF head
  <1>7. CASE head = serverMenu.id
    <2>1. j # serverMenu'.id
      BY <1>1, <1>7, MenuIDs DEF NoMenu
    <2>2. j = head => j \in Used /\ j \notin DOMAIN windows /\ ~Coming(j)
      BY <1>5, <1>6 DEF MenuHeld, Used
    <2>3. j = head => \A k \in DOMAIN fromJava : ~(IsOpen(k) /\ fromJava[k].id = j)
      BY <2>2 DEF Coming
    <2> QED
      BY <1>1, <1>2, <1>3, <1>4, <1>5, <1>6, <1>7, <2>1, <2>2, <2>3 DEF MenuHeld
  <1>8. CASE head # serverMenu.id
    BY <1>1, <1>2, <1>3, <1>4, <1>5, <1>6, <1>8 DEF MenuHeld
  <1> QED
    BY <1>7, <1>8

\* Every step keeps the menu of the server accounted for.
LEMMA StepKeepsServer ==
    ASSUME OrderlyServer, TypeOK, TypeOK', TablesAgree, Menus, Client, Server, [Next]_vars
    PROVE  Server'
  <1> USE DEF tables, client, server
  <1>1. CASE OpenUnmapped
    <2>1. PICK j : j = Head(fromJava).id
      OBVIOUS
    <2>2. /\ fromJava # <<>> /\ fromJava' = Tail(fromJava) /\ Head(fromJava).op = "OpenScreen"
          /\ javaWrites = <<>> /\ javaWrites' = <<CloseJava(j)>>
          /\ UNCHANGED <<windows, bedrockWrites, toJava, serverMenu, lastMenuID, misdirected>>
      BY <1>1, <2>1 DEF OpenUnmapped, JavaReads
    <2>3. \A i : ClosePending(i)' <=> ClosePending(i) \/ i \in {j}
      <3>1. \A i : ~Sending(javaWrites, i) /\ (Sending(javaWrites', i) <=> i = j)
        BY <2>2, SendingWrites
      <3> QED
        BY <2>2, <3>1 DEF ClosePending, Sending
    <2>4. /\ {} \cup {j} = (IF Head(fromJava).op = "OpenScreen" THEN {Head(fromJava).id} ELSE {})
          /\ {} = (IF Head(fromJava).op = "CloseScreen" THEN {Head(fromJava).id} ELSE {})
          /\ DOMAIN windows' = (DOMAIN windows \cup {}) \ {} /\ {} \cap {j} = {}
      BY <2>1, <2>2
    <2> QED
      BY <2>2, <2>3, <2>4, ServerHeard
  <1>2. CASE OpenMapped
    <2>1. PICK w \in Window :
              /\ w.javaID = Head(fromJava).id /\ windows' = With(windows, w.javaID, w)
              /\ javaWrites' = OpenVirtual(w)
      BY <1>2, OpenedFresh
    <2>2. PICK j : j = Head(fromJava).id
      OBVIOUS
    <2>3. /\ fromJava # <<>> /\ fromJava' = Tail(fromJava) /\ Head(fromJava).op = "OpenScreen"
          /\ javaWrites = <<>>
          /\ UNCHANGED <<bedrockWrites, toJava, serverMenu, lastMenuID, misdirected>>
      BY <1>2 DEF OpenMapped, JavaReads
    <2>4. \A i : ClosePending(i)' <=> ClosePending(i) \/ i \in {}
      <3>1. \A i : ~Sending(javaWrites, i) /\ ~Sending(javaWrites', i)
        BY <2>1, <2>3, SendingWrites
      <3> QED
        BY <2>3, <3>1 DEF ClosePending, Sending
    <2>5. /\ {j} \cup {} = (IF Head(fromJava).op = "OpenScreen" THEN {Head(fromJava).id} ELSE {})
          /\ {} = (IF Head(fromJava).op = "CloseScreen" THEN {Head(fromJava).id} ELSE {})
          /\ DOMAIN windows' = (DOMAIN windows \cup {j}) \ {} /\ {j} \cap {} = {}
      BY <2>1, <2>2, <2>3 DEF With
    <2> QED
      BY <2>3, <2>4, <2>5, ServerHeard
  <1>3. CASE JavaClose
    <2>1. PICK j : j = Head(fromJava).id
      OBVIOUS
    <2>2. /\ fromJava # <<>> /\ fromJava' = Tail(fromJava) /\ Head(fromJava).op = "CloseScreen"
          /\ javaWrites = <<>>
          /\ UNCHANGED <<bedrockWrites, toJava, serverMenu, lastMenuID, misdirected>>
      BY <1>3 DEF JavaClose, JavaReads
    <2>3. /\ DOMAIN windows' = DOMAIN windows \ {j}
          /\ javaWrites' = <<>> \/ \E w \in Window : javaWrites' = CloseVirtual(w)
      <3>1. CASE j \in DOMAIN windows
        <4>1. windows[j] \in Window /\ windows[j].javaID = j
          BY <3>1 DEF TypeOK, IsTable, TablesAgree, TablesInverse
        <4>2. Unregister(windows[j]) /\ javaWrites' = CloseVirtual(windows[j])
          BY <1>3, <2>1, <3>1 DEF JavaClose
        <4> QED
          BY <4>1, <4>2 DEF Unregister, Without
      <3>2. CASE j \notin DOMAIN windows
        BY <1>3, <2>1, <2>2, <3>2 DEF JavaClose
      <3> QED
        BY <3>1, <3>2
    <2>4. \A i : ClosePending(i)' <=> ClosePending(i) \/ i \in {}
      <3>1. \A i : ~Sending(javaWrites, i)
        BY <2>2, SendingWrites
      <3>2. \A i : ~Sending(javaWrites', i)
        <4>1. CASE javaWrites' = <<>>
          BY <4>1, SendingWrites
        <4>2. ASSUME NEW w \in Window, javaWrites' = CloseVirtual(w)
              PROVE  \A i : ~Sending(javaWrites', i)
          BY <4>2, SendingWrites
        <4> QED
          BY <2>3, <4>1, <4>2
      <3> QED
        BY <2>2, <3>1, <3>2 DEF ClosePending, Sending
    <2>5. /\ {} \cup {} = (IF Head(fromJava).op = "OpenScreen" THEN {Head(fromJava).id} ELSE {})
          /\ {j} = (IF Head(fromJava).op = "CloseScreen" THEN {Head(fromJava).id} ELSE {})
          /\ DOMAIN windows' = (DOMAIN windows \cup {}) \ {j} /\ {} \cap {} = {}
      BY <2>1, <2>2, <2>3
    <2> QED
      BY <2>2, <2>4, <2>5, ServerHeard
  <1>4. CASE JavaPosition
    <2>1. /\ fromJava # <<>> /\ fromJava' = Tail(fromJava) /\ Head(fromJava).op = "Position"
          /\ UNCHANGED <<windows, javaWrites, bedrockWrites, toJava, serverMenu, lastMenuID, misdirected>>
      BY <1>4 DEF JavaPosition, JavaReads
    <2>2. \A i : ClosePending(i)' <=> ClosePending(i) \/ i \in {}
      BY <2>1 DEF ClosePending, Sending
    <2>3. /\ {} \cup {} = (IF Head(fromJava).op = "OpenScreen" THEN {Head(fromJava).id} ELSE {})
          /\ {} = (IF Head(fromJava).op = "CloseScreen" THEN {Head(fromJava).id} ELSE {})
          /\ DOMAIN windows' = (DOMAIN windows \cup {}) \ {} /\ {} \cap {} = {}
      BY <2>1
    <2> QED
      BY <2>1, <2>2, <2>3, ServerHeard
  <1>5. CASE JavaPumpWrites \/ BedrockPumpWrites
    <2>1. UNCHANGED <<windows, fromJava, serverMenu, lastMenuID, misdirected>>
      BY <1>5 DEF JavaPumpWrites, BedrockPumpWrites
    <2> QED
      BY <1>5, <2>1, ClosesWritten, ServerIdle
  <1>6. CASE BedrockClose
    BY <1>6, ServerTold
  <1>7. ASSUME UNCHANGED <<javaWrites, bedrockWrites, toJava>>
        PROVE  \A j : ClosePending(j)' <=> ClosePending(j)
    BY <1>7 DEF ClosePending, Sending
  <1>8. ASSUME NEW id \in WindowIDs \cup {0}, ClientCloses(id)
        PROVE  Server'
    <2>1. UNCHANGED <<windows, javaWrites, bedrockWrites, toJava, fromJava, serverMenu, lastMenuID, misdirected>>
      BY <1>8 DEF ClientCloses
    <2> QED
      BY <1>7, <2>1, ServerIdle
  <1>9. ASSUME NEW id \in JavaIDs, NEW mapped \in BOOLEAN, ServerOpens(id, mapped)
        PROVE  Server'
    <2>1. UNCHANGED <<windows, javaWrites, bedrockWrites, toJava, misdirected>>
      BY <1>9 DEF ServerOpens
    <2> QED
      BY <1>7, <1>9, <2>1, ServerSends, ServerActs DEF Menus
  <1>10. CASE ServerCloses
    <2>1. UNCHANGED <<windows, javaWrites, bedrockWrites, toJava, misdirected>>
      BY <1>10 DEF ServerCloses
    <2> QED
      BY <1>7, <1>10, <2>1, ServerSends, ServerActs DEF Menus
  <1>11. ASSUME NEW p \in Positions, ServerMovesPlayer(p)
         PROVE  Server'
    <2>1. UNCHANGED <<windows, javaWrites, bedrockWrites, toJava, misdirected>>
      BY <1>11 DEF ServerMovesPlayer
    <2> QED
      BY <1>7, <1>11, <2>1, ServerSends, ServerActs DEF Menus
  <1>12. CASE ServerReadsClose
    BY <1>12, ServerHearsClose
  <1>13. CASE UNCHANGED vars
    <2>1. UNCHANGED <<windows, javaWrites, bedrockWrites, toJava, fromJava, serverMenu, lastMenuID, misdirected>>
      BY <1>13 DEF vars
    <2> QED
      BY <1>7, <2>1, ServerIdle
  <1> QED
    BY <1>1, <1>2, <1>3, <1>4, <1>5, <1>6, <1>8, <1>9, <1>10, <1>11, <1>12, <1>13
    DEF Next, PumpJava, PumpBedrock, Peers

\* At the start no menu is open.
LEMMA ServerStart ==
    ASSUME Init
    PROVE  Server
  <1>1. /\ DOMAIN windows = {} /\ fromJava = <<>> /\ toJava = <<>> /\ javaWrites = <<>>
        /\ bedrockWrites = <<>> /\ serverMenu.id = 0
    BY DEF Init, EmptyTable, NoMenu
  <1>2. \A j \in JavaIDs : j # serverMenu.id /\ ~ClosePending(j)
    BY <1>1, MenuIDs, SendingWrites DEF ClosePending
  <1> QED
    BY <1>1, <1>2 DEF Server, MenuHeld

\* With nothing in flight a window is registered of the menu the server has open.
LEMMA ServerAtRest ==
    ASSUME TypeOK, Server
    PROVE  ServerAgrees
  <1> SUFFICES ASSUME Quiescent, ~misdirected
               PROVE  DOMAIN windows = {serverMenu.id} \ {0}
    BY DEF ServerAgrees
  <1>1. \A j \in JavaIDs : ~ClosePending(j) /\ ~Coming(j) /\ ~CloseComing(j, 0) /\ MenuHeld(j)
    BY SendingWrites DEF Quiescent, ClosePending, Coming, CloseComing, Server
  <1>2. DOMAIN windows \subseteq JavaIDs /\ (serverMenu.id \in JavaIDs \/ serverMenu.id = 0)
        /\ 0 \notin JavaIDs
    BY MenuIDs DEF TypeOK, IsTable, NoMenu
  <1> QED
    BY <1>1, <1>2 DEF MenuHeld

\* At rest the bridge has registered the window of the menu the server has open and no
\* other, for every orderly server and every crossing of the closes of the two sides, as
\* long as no close named a window by an ID that is not its own (windows.go).
THEOREM ServerCorrect ==
    ASSUME OrderlyServer
    PROVE  Spec => []ServerAgrees
  <1>1. Init /\ TypeOK => Menus /\ Client /\ Server
    BY ClientStart, ServerStart
  <1>2. TypeOK /\ TypeOK' /\ TablesAgree /\ Menus /\ Client /\ Server /\ [Next]_vars
           => Menus' /\ Client' /\ Server'
    BY StepKeepsClient, StepKeepsServer
  <1>3. TypeOK /\ Server => ServerAgrees
    BY ServerAtRest
  <1> QED
    BY <1>1, <1>2, <1>3, TypeCorrect, TablesCorrect, PTL DEF Spec

=============================================================================

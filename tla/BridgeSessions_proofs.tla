----------------------- MODULE BridgeSessions_proofs -----------------------
(***************************************************************************)
(* Proofs about BridgeSessions, for every number of sessions and every     *)
(* capacity of errorsCh from three on: types, that no pump waits to report *)
(* its error, and that no finished session leaves its Java connection open.*)
(***************************************************************************)
EXTENDS BridgeSessions, FiniteSetTheorems, SequenceTheorems, TLAPS

\* A step of the specification, with the session and the pump it is a step of.
LEMMA StepCases ==
    ASSUME [Next]_vars
    PROVE  \/ \E s \in Sessions : Handler(s) \/ Closer(s) \/ Arrivals(s)
           \/ \E s \in Sessions, p \in Pumps : Pump(s, p)
           \/ Cancel \/ ListenerFails \/ ServeReturns
           \/ UNCHANGED vars
BY DEF Next

\* Type correctness of every variable.
THEOREM TypeCorrect == Spec => []TypeOK
<1>1. Init => TypeOK
  <2> SUFFICES ASSUME Init PROVE TypeOK
    OBVIOUS
  <2>1. errorsCh \in [Sessions -> Seq(Errors)]
    BY EmptySeq DEF Init
  <2> QED
    BY <2>1 DEF Init, TypeOK, Errors, PumpStates
<1>2. TypeOK /\ [Next]_vars => TypeOK'
  <2> SUFFICES ASSUME TypeOK, [Next]_vars PROVE TypeOK'
    OBVIOUS
  <2> USE DEF process, conns, goroutines
  <2>1. ASSUME NEW s \in Sessions, Handler(s) PROVE TypeOK'
    <3>1. CASE Dial(s)
      BY <3>1 DEF Dial, Fails, TypeOK, Errors
    <3>2. CASE BootstrapChecks(s)
      BY <3>2 DEF BootstrapChecks, TypeOK, Errors
    <3>3. CASE BootstrapFails(s)
      BY <3>3 DEF BootstrapFails, TypeOK, Errors
    <3>4. CASE RunStarts(s)
      BY <3>4 DEF RunStarts, TypeOK, PumpStates
    <3>5. CASE RunReturns(s)
      <4>1. errorsCh[s] \in Seq(Errors) /\ errorsCh[s] # <<>>
        BY <3>5 DEF RunReturns, TypeOK
      <4>2. Head(errorsCh[s]) \in Errors /\ Tail(errorsCh[s]) \in Seq(Errors)
        BY <4>1, HeadTailProperties
      <4> QED
        BY <3>5, <4>2 DEF RunReturns, TypeOK
    <3>6. CASE CloseJava(s)
      BY <3>6 DEF CloseJava, TypeOK
    <3>7. CASE Disconnect(s)
      BY <3>7 DEF Disconnect, TypeOK
    <3> QED
      BY <2>1, <3>1, <3>2, <3>3, <3>4, <3>5, <3>6, <3>7 DEF Handler
  <2>2. ASSUME NEW s \in Sessions, Closer(s) PROVE TypeOK'
    BY <2>2 DEF Closer, TypeOK
  <2>3. ASSUME NEW s \in Sessions, Arrivals(s) PROVE TypeOK'
    <3>1. CASE Accept(s)
      BY <3>1 DEF Accept, TypeOK
    <3>2. CASE LoginDone(s)
      BY <3>2 DEF LoginDone, TypeOK
    <3>3. CASE LoginFails(s)
      BY <3>3 DEF LoginFails, Fails, TypeOK, Errors
    <3>4. CASE BootstrapSkips(s)
      BY <3>4 DEF BootstrapSkips, TypeOK
    <3>5. CASE BootstrapLogin(s)
      BY <3>5 DEF BootstrapLogin, TypeOK, Errors
    <3>6. ASSUME NEW p \in Pumps, PumpReads(s, p) PROVE TypeOK'
      BY <3>6 DEF PumpReads, TypeOK, PumpStates
    <3>7. CASE JavaHangsUp(s)
      BY <3>7 DEF JavaHangsUp, TypeOK
    <3>8. CASE PlayerLeaves(s)
      BY <3>8 DEF PlayerLeaves, TypeOK
    <3> QED
      BY <2>3, <3>1, <3>2, <3>3, <3>4, <3>5, <3>6, <3>7, <3>8 DEF Arrivals
  <2>4. ASSUME NEW s \in Sessions, NEW p \in Pumps, Pump(s, p) PROVE TypeOK'
    <3>1. ASSUME NEW err \in Errors, Sends(s, p, err)
          PROVE  pump' \in [Sessions -> [Pumps -> PumpStates]]
                 /\ result' \in [Sessions -> [Pumps -> Errors]]
      BY <3>1 DEF Sends, TypeOK, PumpStates
    <3>2. "failed" \in Errors /\ "canceled" \in Errors /\ CtxErr(s) \in Errors
      BY DEF Errors, CtxErr
    <3>3. CASE PumpChecks(s, p)
      <4>1. pump' = [pump EXCEPT ![s][p] = "read"] /\ UNCHANGED result
            => /\ pump' \in [Sessions -> [Pumps -> PumpStates]]
               /\ result' \in [Sessions -> [Pumps -> Errors]]
        BY DEF TypeOK, PumpStates
      <4>2. /\ pump' \in [Sessions -> [Pumps -> PumpStates]]
            /\ result' \in [Sessions -> [Pumps -> Errors]]
        BY <3>1, <3>2, <3>3, <4>1 DEF PumpChecks
      <4> QED
        BY <3>3, <4>2 DEF PumpChecks, TypeOK
    <3>4. CASE PumpReadFails(s, p)
      BY <3>1, <3>2, <3>4 DEF PumpReadFails, TypeOK
    <3>5. CASE PumpHandles(s, p)
      <4>1. pump' = [pump EXCEPT ![s][p] = "check"] /\ UNCHANGED result
            => /\ pump' \in [Sessions -> [Pumps -> PumpStates]]
               /\ result' \in [Sessions -> [Pumps -> Errors]]
        BY DEF TypeOK, PumpStates
      <4>2. /\ pump' \in [Sessions -> [Pumps -> PumpStates]]
            /\ result' \in [Sessions -> [Pumps -> Errors]]
        BY <3>1, <3>2, <3>5, <4>1 DEF PumpHandles
      <4> QED
        BY <3>5, <4>2 DEF PumpHandles, TypeOK
    <3>6. CASE PumpSends(s, p)
      BY <3>6 DEF PumpSends, TypeOK, PumpStates
    <3> QED
      BY <2>4, <3>3, <3>4, <3>5, <3>6 DEF Pump
  <2>5. CASE Cancel \/ ListenerFails \/ ServeReturns
    BY <2>5 DEF Cancel, ListenerFails, ServeReturns, TypeOK
  <2>6. CASE UNCHANGED vars
    BY <2>6 DEF vars, TypeOK
  <2> QED
    BY <2>1, <2>2, <2>3, <2>4, <2>5, <2>6, StepCases
<1> QED
  BY <1>1, <1>2, PTL DEF Spec

(***************************************************************************)
(* errorsCh                                                                *)
(***************************************************************************)
Exited(s) == {p \in Pumps : pump[s][p] = "exit"}
NotStarted == {"none", "dial", "login", "bootstrap", "bootstrapRead", "run"}

\* The inductive invariant: the channel holds at most one error of each pump
\* that has ended, and no pump exists before Run has started them.
ChannelInv ==
    \A s \in Sessions :
        /\ Len(errorsCh[s]) <= Cardinality(Exited(s))
        /\ main[s] \in NotStarted => \A p \in Pumps : pump[s][p] = "unborn"

\* A session whose channel, pumps and phase do not change keeps its part.
LEMMA ChannelKept ==
    ASSUME ChannelInv,
           UNCHANGED <<pump, errorsCh>>,
           \A s \in Sessions : main'[s] \in NotStarted => main[s] \in NotStarted
    PROVE  ChannelInv'
BY DEF ChannelInv, Exited

\* Pumps is a set of three.
LEMMA PumpsFinite == IsFiniteSet(Pumps) /\ Cardinality(Pumps) = 3
<1>1. IsFiniteSet({"java"}) /\ Cardinality({"java"}) = 1
  BY FS_Singleton
<1>2. IsFiniteSet({"java"} \cup {"bedrock"}) /\ Cardinality({"java"} \cup {"bedrock"}) = 2
  BY <1>1, FS_AddElement
<1>3. /\ IsFiniteSet(({"java"} \cup {"bedrock"}) \cup {"projectiles"})
      /\ Cardinality(({"java"} \cup {"bedrock"}) \cup {"projectiles"}) = 3
  BY <1>2, FS_AddElement
<1>4. Pumps = ({"java"} \cup {"bedrock"}) \cup {"projectiles"}
  BY DEF Pumps
<1> QED
  BY <1>3, <1>4

LEMMA ExitedFinite ==
    ASSUME NEW s \in Sessions
    PROVE  /\ IsFiniteSet(Exited(s)) /\ IsFiniteSet(Exited(s)')
           /\ Cardinality(Exited(s)) \in Nat /\ Cardinality(Exited(s)') \in Nat
<1>1. Exited(s) \in SUBSET Pumps /\ Exited(s)' \in SUBSET Pumps
  BY DEF Exited
<1>2. IsFiniteSet(Exited(s)) /\ IsFiniteSet(Exited(s)')
  BY <1>1, PumpsFinite, FS_Subset
<1> QED
  BY <1>2, FS_CardinalityType

\* A pump that still has to report leaves room for its report.
LEMMA RoomToSend ==
    ASSUME TypeOK, ChannelInv, NEW s \in Sessions, NEW p \in Pumps, pump[s][p] # "exit"
    PROVE  Len(errorsCh[s]) <= 2
<1>1. Exited(s) \in SUBSET (Pumps \ {p})
  BY DEF Exited
<1>2. IsFiniteSet(Pumps \ {p}) /\ Cardinality(Pumps \ {p}) = 2
  BY PumpsFinite, FS_RemoveElement
<1>3. Cardinality(Exited(s)) <= 2
  BY <1>1, <1>2, FS_Subset
<1>4. Len(errorsCh[s]) \in Nat
  BY LenProperties DEF TypeOK
<1> QED
  BY <1>3, <1>4, ExitedFinite DEF ChannelInv

\* In no reachable state does a pump wait for a reader of errorsCh: its buffer
\* of three takes the error of every pump, so each of them can end after
\* Basic.Run has returned.
THEOREM NoSenderBlocked == Spec => []SenderNeverBlocks
<1>1. Init => ChannelInv
  <2> SUFFICES ASSUME Init, NEW s \in Sessions
               PROVE  /\ Len(errorsCh[s]) <= Cardinality(Exited(s))
                      /\ \A p \in Pumps : pump[s][p] = "unborn"
    BY DEF ChannelInv
  <2>1. errorsCh[s] = <<>> /\ \A p \in Pumps : pump[s][p] = "unborn"
    BY DEF Init
  <2>2. Len(errorsCh[s]) = 0
    BY <2>1, EmptySeq
  <2> QED
    BY <2>1, <2>2, ExitedFinite
<1>2. TypeOK /\ ChannelInv /\ [Next]_vars => ChannelInv'
  <2> SUFFICES ASSUME TypeOK, ChannelInv, [Next]_vars PROVE ChannelInv'
    OBVIOUS
  <2> USE DEF process, conns, goroutines
  <2>1. ASSUME NEW s \in Sessions, RunStarts(s) PROVE ChannelInv'
    <3> SUFFICES ASSUME NEW t \in Sessions
                 PROVE  /\ Len(errorsCh'[t]) <= Cardinality(Exited(t)')
                        /\ main'[t] \in NotStarted => \A p \in Pumps : pump'[t][p] = "unborn"
      BY DEF ChannelInv, Exited
    <3>1. CASE t = s
      <4>1. main'[s] = "await"
        BY <2>1 DEF RunStarts, TypeOK
      <4>2. main[s] = "run" /\ errorsCh' = errorsCh
        BY <2>1 DEF RunStarts
      <4>3. \A p \in Pumps : pump[s][p] = "unborn"
        BY <4>2 DEF ChannelInv, NotStarted
      <4>4. Exited(s) = {}
        BY <4>3 DEF Exited
      <4>5. Len(errorsCh[s]) <= 0
        BY <4>4, FS_EmptySet DEF ChannelInv
      <4>6. Len(errorsCh[s]) \in Nat
        BY LenProperties DEF TypeOK
      <4> QED
        BY <3>1, <4>1, <4>2, <4>5, <4>6, ExitedFinite DEF NotStarted
    <3>2. CASE t # s
      <4>1. pump'[t] = pump[t] /\ errorsCh'[t] = errorsCh[t] /\ main'[t] = main[t]
        BY <2>1, <3>2 DEF RunStarts, TypeOK
      <4> QED
        BY <4>1 DEF ChannelInv, Exited
    <3> QED
      BY <3>1, <3>2
  <2>2. ASSUME NEW s \in Sessions, RunReturns(s) PROVE ChannelInv'
    <3>1. errorsCh[s] \in Seq(Errors) /\ errorsCh[s] # <<>>
      BY <2>2 DEF RunReturns, TypeOK
    <3>2. Len(Tail(errorsCh[s])) = Len(errorsCh[s]) - 1 /\ Len(errorsCh[s]) \in Nat
      BY <3>1, HeadTailProperties, LenProperties
    <3> SUFFICES ASSUME NEW t \in Sessions
                 PROVE  /\ Len(errorsCh'[t]) <= Cardinality(Exited(t)')
                        /\ main'[t] \in NotStarted => \A p \in Pumps : pump'[t][p] = "unborn"
      BY DEF ChannelInv, Exited
    <3>3. Exited(t)' = Exited(t)
      BY <2>2 DEF RunReturns, Exited
    <3>4. Len(errorsCh'[t]) <= Len(errorsCh[t])
      <4>1. CASE t = s
        BY <2>2, <3>2, <4>1 DEF RunReturns, TypeOK
      <4>2. CASE t # s
        <5>1. Len(errorsCh[t]) \in Nat
          BY LenProperties DEF TypeOK
        <5> QED
          BY <2>2, <4>2, <5>1 DEF RunReturns, TypeOK
      <4> QED
        BY <4>1, <4>2
    <3>5. main'[t] \in NotStarted => main[t] \in NotStarted
      BY <2>2 DEF RunReturns, TypeOK, NotStarted
    <3>6. Len(errorsCh[t]) \in Nat /\ Len(errorsCh'[t]) \in Nat
      <4>1. CASE t = s
        BY <2>2, <3>2, <4>1, <3>1, HeadTailProperties, LenProperties DEF RunReturns, TypeOK
      <4>2. CASE t # s
        BY <2>2, <4>2, LenProperties DEF RunReturns, TypeOK
      <4> QED
        BY <4>1, <4>2
    <3> QED
      BY <2>2, <3>3, <3>4, <3>5, <3>6, ExitedFinite DEF ChannelInv, RunReturns
  <2>3. ASSUME NEW s \in Sessions, NEW p \in Pumps, PumpSends(s, p) PROVE ChannelInv'
    <3>1. pump[s][p] = "send" /\ pump' = [pump EXCEPT ![s][p] = "exit"]
      BY <2>3 DEF PumpSends
    <3>2. errorsCh' = [errorsCh EXCEPT ![s] = Append(@, result[s][p])]
          /\ main' = main
      BY <2>3 DEF PumpSends
    <3> SUFFICES ASSUME NEW t \in Sessions
                 PROVE  /\ Len(errorsCh'[t]) <= Cardinality(Exited(t)')
                        /\ main'[t] \in NotStarted => \A q \in Pumps : pump'[t][q] = "unborn"
      BY DEF ChannelInv, Exited
    <3>3. CASE t = s
      <4>1. Exited(s)' = Exited(s) \cup {p} /\ p \notin Exited(s)
        BY <3>1 DEF Exited, TypeOK
      <4>2. Cardinality(Exited(s)') = Cardinality(Exited(s)) + 1
        BY <4>1, ExitedFinite, FS_AddElement
      <4>3. errorsCh'[s] = Append(errorsCh[s], result[s][p])
            /\ errorsCh[s] \in Seq(Errors) /\ result[s][p] \in Errors
        BY <3>2 DEF TypeOK
      <4>4. Len(errorsCh'[s]) = Len(errorsCh[s]) + 1 /\ Len(errorsCh[s]) \in Nat
        BY <4>3, LenProperties
      <4>5. main[s] \notin NotStarted
        BY <3>1 DEF ChannelInv
      <4> QED
        BY <3>2, <3>3, <4>2, <4>4, <4>5, ExitedFinite DEF ChannelInv
    <3>4. CASE t # s
      <4>1. pump'[t] = pump[t] /\ errorsCh'[t] = errorsCh[t] /\ main'[t] = main[t]
        BY <3>1, <3>2, <3>4 DEF TypeOK
      <4> QED
        BY <4>1 DEF ChannelInv, Exited
    <3> QED
      BY <3>3, <3>4
  <2>4. ASSUME NEW s \in Sessions, NEW p \in Pumps,
               PumpChecks(s, p) \/ PumpReads(s, p) \/ PumpReadFails(s, p) \/ PumpHandles(s, p)
        PROVE  ChannelInv'
    <3>1. \E state \in {"read", "handle", "check", "send"} : pump' = [pump EXCEPT ![s][p] = state]
      BY <2>4 DEF PumpChecks, PumpReads, PumpReadFails, PumpHandles, Sends
    <3>2. pump[s][p] \notin {"unborn", "exit"}
      BY <2>4 DEF PumpChecks, PumpReads, PumpReadFails, PumpHandles
    <3>3. UNCHANGED <<errorsCh, main>>
      BY <2>4 DEF PumpChecks, PumpReads, PumpReadFails, PumpHandles
    <3> SUFFICES ASSUME NEW t \in Sessions
                 PROVE  /\ Len(errorsCh'[t]) <= Cardinality(Exited(t)')
                        /\ main'[t] \in NotStarted => \A q \in Pumps : pump'[t][q] = "unborn"
      BY DEF ChannelInv, Exited
    <3>4. Exited(t)' = Exited(t)
      BY <3>1, <3>2 DEF Exited, TypeOK
    <3>5. main[t] \in NotStarted => pump'[t] = pump[t]
      BY <3>1, <3>2 DEF ChannelInv, TypeOK
    <3> QED
      BY <3>3, <3>4, <3>5 DEF ChannelInv
  <2>5. ASSUME NEW s \in Sessions,
               \/ Dial(s) \/ BootstrapChecks(s) \/ BootstrapFails(s) \/ CloseJava(s)
               \/ Disconnect(s) \/ Accept(s) \/ LoginDone(s) \/ LoginFails(s)
               \/ BootstrapSkips(s) \/ BootstrapLogin(s)
        PROVE  ChannelInv'
    <3>1. UNCHANGED <<pump, errorsCh>>
      BY <2>5 DEF Dial, BootstrapChecks, BootstrapFails, CloseJava, Disconnect, Accept,
                  LoginDone, LoginFails, BootstrapSkips, BootstrapLogin
    <3>2. \A t \in Sessions : main'[t] \in NotStarted => main[t] \in NotStarted
      BY <2>5 DEF Dial, Fails, BootstrapChecks, BootstrapFails, CloseJava, Disconnect, Accept,
                  LoginDone, LoginFails, BootstrapSkips, BootstrapLogin, TypeOK, NotStarted
    <3> QED
      BY <3>1, <3>2, ChannelKept
  <2>6. ASSUME NEW s \in Sessions, Closer(s) \/ JavaHangsUp(s) \/ PlayerLeaves(s)
        PROVE  ChannelInv'
    BY <2>6, ChannelKept DEF Closer, JavaHangsUp, PlayerLeaves
  <2>7. CASE Cancel \/ ListenerFails \/ ServeReturns \/ UNCHANGED vars
    BY <2>7, ChannelKept DEF Cancel, ListenerFails, ServeReturns, vars
  <2> QED
    BY <2>1, <2>2, <2>3, <2>4, <2>5, <2>6, <2>7, StepCases DEF Handler, Arrivals, Pump
<1>3. TypeOK /\ ChannelInv => SenderNeverBlocks
  <2> SUFFICES ASSUME TypeOK, ChannelInv, NEW s \in Sessions, NEW p \in Pumps,
                      pump[s][p] = "send"
               PROVE  Len(errorsCh[s]) < ErrorsCap
    BY DEF SenderNeverBlocks
  <2>1. Len(errorsCh[s]) <= 2 /\ Len(errorsCh[s]) \in Nat
    BY RoomToSend, LenProperties DEF TypeOK
  <2> QED
    BY <2>1, SessionsAssumption
<1> QED
  BY <1>1, <1>2, <1>3, TypeCorrect, PTL DEF Spec

(***************************************************************************)
(* The Java connection                                                     *)
(***************************************************************************)
\* The inductive invariant: no Java connection is open before the session
\* dials, nor once it only has the player left to tell.
JavaOwned ==
    \A s \in Sessions :
        main[s] \in {"none", "dial", "disconnect", "done"} => javaConn[s] # "open"

\* A session that is over has closed its Java connection, on every path.
THEOREM NoJavaLeak == Spec => []JavaNotLeaked
<1>1. Init => JavaOwned
  BY DEF Init, JavaOwned
<1>2. TypeOK /\ JavaOwned /\ [Next]_vars => JavaOwned'
  <2> SUFFICES ASSUME TypeOK, JavaOwned, [Next]_vars PROVE JavaOwned'
    OBVIOUS
  <2> USE DEF process, conns, goroutines
  <2>1. ASSUME NEW s \in Sessions, Handler(s) PROVE JavaOwned'
    <3>1. CASE Dial(s)
      BY <3>1 DEF Dial, Fails, TypeOK, JavaOwned
    <3>2. CASE BootstrapChecks(s) \/ BootstrapFails(s) \/ RunStarts(s) \/ RunReturns(s)
      BY <3>2 DEF BootstrapChecks, BootstrapFails, RunStarts, RunReturns, TypeOK, JavaOwned
    <3>3. CASE CloseJava(s) \/ Disconnect(s)
      BY <3>3 DEF CloseJava, Disconnect, TypeOK, JavaOwned
    <3> QED
      BY <2>1, <3>1, <3>2, <3>3 DEF Handler
  <2>2. ASSUME NEW s \in Sessions, Closer(s) PROVE JavaOwned'
    BY <2>2 DEF Closer, TypeOK, JavaOwned
  <2>3. ASSUME NEW s \in Sessions, Arrivals(s) PROVE JavaOwned'
    <3>1. CASE Accept(s) \/ LoginDone(s) \/ LoginFails(s)
      BY <3>1 DEF Accept, LoginDone, LoginFails, Fails, TypeOK, JavaOwned
    <3>2. CASE BootstrapSkips(s) \/ BootstrapLogin(s)
      BY <3>2 DEF BootstrapSkips, BootstrapLogin, TypeOK, JavaOwned
    <3>3. CASE JavaHangsUp(s) \/ PlayerLeaves(s)
      BY <3>3 DEF JavaHangsUp, PlayerLeaves, TypeOK, JavaOwned
    <3>4. ASSUME NEW p \in Pumps, PumpReads(s, p) PROVE JavaOwned'
      BY <3>4 DEF PumpReads, JavaOwned
    <3> QED
      BY <2>3, <3>1, <3>2, <3>3, <3>4 DEF Arrivals
  <2>4. ASSUME NEW s \in Sessions, NEW p \in Pumps, Pump(s, p) PROVE JavaOwned'
    BY <2>4 DEF Pump, PumpChecks, PumpReadFails, PumpHandles, PumpSends, JavaOwned
  <2>5. CASE Cancel \/ ListenerFails \/ ServeReturns \/ UNCHANGED vars
    BY <2>5 DEF Cancel, ListenerFails, ServeReturns, vars, JavaOwned
  <2> QED
    BY <2>1, <2>2, <2>3, <2>4, <2>5, StepCases
<1>3. JavaOwned => JavaNotLeaked
  BY DEF JavaOwned, JavaNotLeaked
<1> QED
  BY <1>1, <1>2, <1>3, TypeCorrect, PTL DEF Spec
=============================================================================

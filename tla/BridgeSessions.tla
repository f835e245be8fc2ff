--------------------------- MODULE BridgeSessions ---------------------------
(***************************************************************************)
(* Sessions of the bridge, from an accepted Bedrock connection to the last *)
(* of its goroutines: Server.handleConnection and Session.Run in           *)
(* src/bridge, DialAndLogin in src/java/protocol, and Basic.Bootstrap and  *)
(* Basic.Run with its three pumps in src/translate.                        *)
(*                                                                         *)
(* Of a packet this module keeps that it was read, by which session, and   *)
(* whether handling it succeeds; what it means is in the other modules.    *)
(* One translator serves every session (Config.setDefaults), so its state  *)
(* is one variable: the sessions whose packets it remembers.               *)
(***************************************************************************)
EXTENDS Integers, Sequences, FiniteSets

CONSTANTS
    Sessions,   \* one per accepted Bedrock connection
    ErrorsCap   \* capacity of errorsCh in Basic.Run (3 in the code)

ASSUME SessionsAssumption == ErrorsCap \in Nat /\ ErrorsCap >= 3

VARIABLES
    cancelled,    \* the context of ListenAndServe is done
    listener,     \* the Gophertunnel listener
    serving,      \* whether ListenAndServe is running
    main,         \* per session: where the connection handler is
    javaConn,     \* per session: the TCP connection to the Java server
    bedrockConn,  \* per session: the connection to the player
    runCancelled, \* per session: cancel() of Basic.Run has been called
    pump,         \* per session and pump: where the goroutine is
    result,       \* per session and pump: the error the pump returns
    errorsCh,     \* per session: the buffered channel of Basic.Run
    closer,       \* per session: the goroutine that closes both connections
    outcome,      \* per session: the error of Session.Run
    remembered    \* sessions whose packets have left state in the translator

vars == <<cancelled, listener, serving, main, javaConn, bedrockConn, runCancelled,
          pump, result, errorsCh, closer, outcome, remembered>>
conns == <<javaConn, bedrockConn>>
process == <<cancelled, listener, serving>>
goroutines == <<pump, result, errorsCh, closer, runCancelled>>

Pumps == {"java", "bedrock", "projectiles"}
Errors == {"nil", "canceled", "failed"}
PumpStates == {"unborn", "check", "read", "handle", "send", "exit"}

RunDone(s) == cancelled \/ runCancelled[s]

\* Mutant: the error of a live context is not nil.
CtxErrUnset(s) == IF RunDone(s) THEN "canceled" ELSE "unset"

CtxErr(s) == IF RunDone(s) THEN "canceled" ELSE "nil"

(***************************************************************************)
(* The connection handler                                                  *)
(***************************************************************************)
\* Gophertunnel hands a fully logged-in player to handleConnection.
Accept(s) ==
    /\ main[s] = "none" /\ serving /\ listener = "open"
    /\ main' = [main EXCEPT ![s] = "dial"]
    /\ bedrockConn' = [bedrockConn EXCEPT ![s] = "open"]
    /\ UNCHANGED <<process, javaConn, goroutines, outcome, remembered>>

Fails(s) ==
    /\ main' = [main EXCEPT ![s] = "disconnect"]
    /\ outcome' = [outcome EXCEPT ![s] = "failed"]

Dial(s) ==
    /\ main[s] = "dial"
    /\ \/ ~cancelled /\ main' = [main EXCEPT ![s] = "login"]
          /\ javaConn' = [javaConn EXCEPT ![s] = "open"]
          /\ UNCHANGED outcome
       \/ Fails(s) /\ UNCHANGED javaConn
    /\ UNCHANGED <<process, bedrockConn, goroutines, remembered>>

\* negotiate reaches Play.
LoginDone(s) ==
    /\ main[s] = "login" /\ javaConn[s] = "open"
    /\ main' = [main EXCEPT ![s] = "bootstrap"]
    /\ UNCHANGED <<process, conns, goroutines, outcome, remembered>>

\* Mutant: the connection of a failed login stays open.
LoginFailsOpen(s) ==
    /\ main[s] = "login"
    /\ Fails(s)
    /\ UNCHANGED <<process, conns, goroutines, remembered>>

\* negotiate fails: a refusal, a lost connection, or the deadline that the
\* watcher of applyContextDeadline sets when the context is done.
LoginFails(s) ==
    /\ main[s] = "login"
    /\ Fails(s)
    /\ javaConn' = [javaConn EXCEPT ![s] = "closed"]
    /\ UNCHANGED <<process, bedrockConn, goroutines, remembered>>

\* Bootstrap looks at the context before it blocks in ReadPacket, and only then.
BootstrapChecks(s) ==
    /\ main[s] = "bootstrap"
    /\ \/ ~cancelled /\ main' = [main EXCEPT ![s] = "bootstrapRead"] /\ UNCHANGED outcome
       \/ cancelled /\ main' = [main EXCEPT ![s] = "closeJava"]
          /\ outcome' = [outcome EXCEPT ![s] = "canceled"]
    /\ UNCHANGED <<process, conns, goroutines, remembered>>

\* A packet other than Login: a keep-alive is answered, the rest is counted.
BootstrapSkips(s) ==
    /\ main[s] = "bootstrapRead" /\ javaConn[s] = "open"
    /\ main' = [main EXCEPT ![s] = "bootstrap"]
    /\ UNCHANGED <<process, conns, goroutines, outcome, remembered>>

\* Login: the game data, dimensions, variants and position of this player
\* replace those of the player before; the Bedrock game starts if the player is
\* still there.
BootstrapLogin(s) ==
    /\ main[s] = "bootstrapRead" /\ javaConn[s] = "open"
    /\ remembered' = remembered \cup {s}
    /\ \/ bedrockConn[s] = "open" /\ main' = [main EXCEPT ![s] = "run"] /\ UNCHANGED outcome
       \/ bedrockConn[s] = "closed" /\ main' = [main EXCEPT ![s] = "closeJava"]
          /\ outcome' = [outcome EXCEPT ![s] = "failed"]
    /\ UNCHANGED <<process, conns, goroutines>>

BootstrapFails(s) ==
    /\ main[s] = "bootstrapRead" /\ javaConn[s] = "closed"
    /\ main' = [main EXCEPT ![s] = "closeJava"]
    /\ outcome' = [outcome EXCEPT ![s] = "failed"]
    /\ UNCHANGED <<process, conns, goroutines, remembered>>

\* Basic.Run starts the three pumps and the closer.
RunStarts(s) ==
    /\ main[s] = "run"
    /\ main' = [main EXCEPT ![s] = "await"]
    /\ pump' = [pump EXCEPT ![s] = [p \in Pumps |-> "check"]]
    /\ closer' = [closer EXCEPT ![s] = "wait"]
    /\ UNCHANGED <<process, conns, result, errorsCh, runCancelled, outcome, remembered>>

\* Mutant: Run returns the first error without cancelling the other pumps.
RunReturnsOnly(s) ==
    /\ main[s] = "await" /\ errorsCh[s] # <<>>
    /\ errorsCh' = [errorsCh EXCEPT ![s] = Tail(@)]
    /\ outcome' = [outcome EXCEPT ![s] = Head(errorsCh[s])]
    /\ main' = [main EXCEPT ![s] = "closeJava"]
    /\ UNCHANGED <<process, conns, pump, result, closer, runCancelled, remembered>>

\* Run takes the first error, cancels the others and returns without waiting
\* for them.
RunReturns(s) ==
    /\ main[s] = "await" /\ errorsCh[s] # <<>>
    /\ errorsCh' = [errorsCh EXCEPT ![s] = Tail(@)]
    /\ outcome' = [outcome EXCEPT ![s] = Head(errorsCh[s])]
    /\ runCancelled' = [runCancelled EXCEPT ![s] = TRUE]
    /\ main' = [main EXCEPT ![s] = "closeJava"]
    /\ UNCHANGED <<process, conns, pump, result, closer, remembered>>

\* The deferred close of Session.Run.
CloseJava(s) ==
    /\ main[s] = "closeJava"
    /\ javaConn' = [javaConn EXCEPT ![s] = "closed"]
    /\ main' = [main EXCEPT ![s] = IF outcome[s] = "nil" THEN "done" ELSE "disconnect"]
    /\ UNCHANGED <<process, bedrockConn, goroutines, outcome, remembered>>

\* handleConnection tells the player of any error.
Disconnect(s) ==
    /\ main[s] = "disconnect"
    /\ bedrockConn' = [bedrockConn EXCEPT ![s] = "closed"]
    /\ main' = [main EXCEPT ![s] = "done"]
    /\ UNCHANGED <<process, javaConn, goroutines, outcome, remembered>>

(***************************************************************************)
(* The pumps                                                               *)
(***************************************************************************)
\* The connection a pump reads; the projectile pump waits for its ticker.
Source(s, p) == CASE p = "java" -> javaConn[s]
                  [] p = "bedrock" -> bedrockConn[s]
                  [] OTHER -> "open"

Sends(s, p, err) ==
    /\ pump' = [pump EXCEPT ![s][p] = "send"]
    /\ result' = [result EXCEPT ![s][p] = err]

PumpChecks(s, p) ==
    /\ pump[s][p] = "check"
    /\ \/ RunDone(s) /\ Sends(s, p, "canceled")
       \/ ~RunDone(s) /\ pump' = [pump EXCEPT ![s][p] = "read"] /\ UNCHANGED result
    /\ UNCHANGED <<process, conns, main, errorsCh, closer, runCancelled, outcome, remembered>>

\* A packet, a batch or a tick arrives and changes the shared translator.
PumpReads(s, p) ==
    /\ pump[s][p] = "read" /\ Source(s, p) = "open"
    /\ pump' = [pump EXCEPT ![s][p] = "handle"]
    /\ remembered' = remembered \cup {s}
    /\ UNCHANGED <<process, conns, main, result, errorsCh, closer, runCancelled, outcome>>

\* Mutant: pumpBedrock goes on reading after the Bedrock connection is closed.
PumpReadFailsRetrying(s, p) ==
    /\ pump[s][p] = "read"
    /\ \/ p = "java" /\ javaConn[s] = "closed" /\ Sends(s, p, "failed")
       \/ p = "projectiles" /\ RunDone(s) /\ Sends(s, p, "canceled")
    /\ UNCHANGED <<process, conns, main, errorsCh, closer, runCancelled, outcome, remembered>>

\* The read fails because the connection is closed.  pumpBedrock takes a closed
\* Bedrock connection for the regular end of the session: it returns ctx.Err(),
\* which is nil while the context lives.
PumpReadFails(s, p) ==
    /\ pump[s][p] = "read"
    /\ \/ p = "java" /\ javaConn[s] = "closed"
          /\ Sends(s, p, IF RunDone(s) THEN "canceled" ELSE "failed")
       \/ p = "bedrock" /\ bedrockConn[s] = "closed"
          /\ Sends(s, p, CtxErr(s))
       \/ p = "projectiles" /\ RunDone(s)
          /\ Sends(s, p, "canceled")
    /\ UNCHANGED <<process, conns, main, errorsCh, closer, runCancelled, outcome, remembered>>

\* Handling succeeds, or fails: a malformed packet, or a write to a connection
\* that is closed by now.
PumpHandles(s, p) ==
    /\ pump[s][p] = "handle"
    /\ \/ pump' = [pump EXCEPT ![s][p] = "check"] /\ UNCHANGED result
       \/ /\ p # "projectiles" \/ bedrockConn[s] = "closed"
          /\ Sends(s, p, "failed")
    /\ UNCHANGED <<process, conns, main, errorsCh, closer, runCancelled, outcome, remembered>>

\* Mutant: a pump reports an error and goes on.
PumpSendsAndGoesOn(s, p) ==
    /\ pump[s][p] = "send"
    /\ Len(errorsCh[s]) < ErrorsCap
    /\ errorsCh' = [errorsCh EXCEPT ![s] = Append(@, result[s][p])]
    /\ pump' = [pump EXCEPT ![s][p] = "check"]
    /\ UNCHANGED <<process, conns, main, result, closer, runCancelled, outcome, remembered>>

\* errorsCh <- err: blocks while the buffer is full.
PumpSends(s, p) ==
    /\ pump[s][p] = "send"
    /\ \/ Len(errorsCh[s]) < ErrorsCap
       \/ main[s] = "await" /\ errorsCh[s] = <<>>   \* a receiver is waiting
    /\ errorsCh' = [errorsCh EXCEPT ![s] = Append(@, result[s][p])]
    /\ pump' = [pump EXCEPT ![s][p] = "exit"]
    /\ UNCHANGED <<process, conns, main, result, closer, runCancelled, outcome, remembered>>

(***************************************************************************)
(* The closer                                                              *)
(***************************************************************************)
Closer(s) ==
    /\ \/ closer[s] = "wait" /\ RunDone(s)
          /\ closer' = [closer EXCEPT ![s] = "closeJava"] /\ UNCHANGED conns
       \/ closer[s] = "closeJava"
          /\ closer' = [closer EXCEPT ![s] = "closeBedrock"]
          /\ javaConn' = [javaConn EXCEPT ![s] = "closed"] /\ UNCHANGED bedrockConn
       \/ closer[s] = "closeBedrock"
          /\ closer' = [closer EXCEPT ![s] = "exit"]
          /\ bedrockConn' = [bedrockConn EXCEPT ![s] = "closed"] /\ UNCHANGED javaConn
    /\ UNCHANGED <<process, main, pump, result, errorsCh, runCancelled, outcome, remembered>>

(***************************************************************************)
(* The process and the peers                                               *)
(***************************************************************************)
Cancel ==
    /\ ~cancelled
    /\ cancelled' = TRUE
    /\ UNCHANGED <<listener, serving, main, conns, goroutines, outcome, remembered>>

ListenerFails ==
    /\ listener = "open"
    /\ listener' = "failed"
    /\ UNCHANGED <<cancelled, serving, main, conns, goroutines, outcome, remembered>>

\* ListenAndServe waits for the context alone, then closes the listener.
ServeReturns ==
    /\ serving /\ cancelled
    /\ serving' = FALSE
    /\ listener' = "closed"
    /\ UNCHANGED <<cancelled, main, conns, goroutines, outcome, remembered>>

JavaHangsUp(s) ==
    /\ javaConn[s] = "open"
    /\ javaConn' = [javaConn EXCEPT ![s] = "closed"]
    /\ UNCHANGED <<process, main, bedrockConn, goroutines, outcome, remembered>>

PlayerLeaves(s) ==
    /\ bedrockConn[s] = "open"
    /\ bedrockConn' = [bedrockConn EXCEPT ![s] = "closed"]
    /\ UNCHANGED <<process, main, javaConn, goroutines, outcome, remembered>>

(***************************************************************************)
(* Specification                                                           *)
(***************************************************************************)
Init ==
    /\ cancelled = FALSE
    /\ listener = "open"
    /\ serving = TRUE
    /\ main = [s \in Sessions |-> "none"]
    /\ javaConn = [s \in Sessions |-> "none"]
    /\ bedrockConn = [s \in Sessions |-> "none"]
    /\ runCancelled = [s \in Sessions |-> FALSE]
    /\ pump = [s \in Sessions |-> [p \in Pumps |-> "unborn"]]
    /\ result = [s \in Sessions |-> [p \in Pumps |-> "nil"]]
    /\ errorsCh = [s \in Sessions |-> <<>>]
    /\ closer = [s \in Sessions |-> "unborn"]
    /\ outcome = [s \in Sessions |-> "nil"]
    /\ remembered = {}

\* Steps of the connection handler that need nobody else.
Handler(s) ==
    \/ Dial(s) \/ BootstrapChecks(s) \/ BootstrapFails(s)
    \/ RunStarts(s) \/ RunReturns(s) \/ CloseJava(s) \/ Disconnect(s)

\* Steps of a pump that need nobody else.
Pump(s, p) ==
    PumpChecks(s, p) \/ PumpReadFails(s, p) \/ PumpHandles(s, p) \/ PumpSends(s, p)

\* What the Java server and the player decide.
Arrivals(s) ==
    \/ Accept(s) \/ LoginDone(s) \/ LoginFails(s) \/ BootstrapSkips(s) \/ BootstrapLogin(s)
    \/ \E p \in Pumps : PumpReads(s, p)
    \/ JavaHangsUp(s) \/ PlayerLeaves(s)

Next ==
    \/ \E s \in Sessions : \/ Handler(s) \/ Closer(s) \/ Arrivals(s)
                           \/ \E p \in Pumps : Pump(s, p)
    \/ Cancel \/ ListenerFails \/ ServeReturns

Spec == Init /\ [][Next]_vars

\* Every goroutine is scheduled.  A login whose context is done or whose
\* connection is gone fails (deadline, EOF); nothing else is owed by the peers.
LoginMustFail(s) == (cancelled \/ javaConn[s] = "closed") /\ LoginFails(s)
Fairness ==
    /\ \A s \in Sessions : /\ WF_vars(Handler(s)) /\ WF_vars(Closer(s))
                           /\ WF_vars(LoginMustFail(s))
                           /\ \A p \in Pumps : WF_vars(Pump(s, p))
    /\ WF_vars(ServeReturns)
FairSpec == Spec /\ Fairness

(***************************************************************************)
(* Properties                                                              *)
(***************************************************************************)
\* Every variable has its type.
TypeOK ==
    /\ cancelled \in BOOLEAN /\ serving \in BOOLEAN
    /\ listener \in {"open", "failed", "closed"}
    /\ main \in [Sessions -> {"none", "dial", "login", "bootstrap", "bootstrapRead", "run",
                              "await", "closeJava", "disconnect", "done"}]
    /\ javaConn \in [Sessions -> {"none", "open", "closed"}]
    /\ bedrockConn \in [Sessions -> {"none", "open", "closed"}]
    /\ runCancelled \in [Sessions -> BOOLEAN]
    /\ pump \in [Sessions -> [Pumps -> PumpStates]]
    /\ result \in [Sessions -> [Pumps -> Errors]]
    /\ errorsCh \in [Sessions -> Seq(Errors)]
    /\ closer \in [Sessions -> {"unborn", "wait", "closeJava", "closeBedrock", "exit"}]
    /\ outcome \in [Sessions -> Errors]
    /\ remembered \subseteq Sessions

\* However a session ended, its Java connection is not left open: each of the
\* login, bootstrap and run error paths closes it exactly where it owns it.
JavaNotLeaked == \A s \in Sessions : main[s] = "done" => javaConn[s] # "open"

\* No pump ever waits to report its error, whether or not anybody still reads
\* errorsCh: the buffer has room for every pump that has not reported yet.
SenderNeverBlocks ==
    \A s \in Sessions, p \in Pumps : pump[s][p] = "send" => Len(errorsCh[s]) < ErrorsCap

\* No goroutine of a session outlives it for ever: after Session.Run returned,
\* the pumps that were still running are unblocked by the closer, can all put
\* their error in errorsCh though nobody reads it any more, and exit.
AllStop(s) ==
    /\ \A p \in Pumps : pump[s][p] \in {"unborn", "exit"}
    /\ closer[s] \in {"unborn", "exit"}
    /\ bedrockConn[s] = "closed"
GoroutinesEnd == \A s \in Sessions : main[s] = "done" ~> AllStop(s)

\* "Run pumps both directions until either connection closes": once one of the two is
\* closed, the session ends (basic.go, Run).  A cancelled server ends every session that
\* is dialling, logging in or running; one that is cancelled while Bootstrap waits in
\* ReadPacket is left out, nobody watches the context there.
SessionEnds ==
    \A s \in Sessions :
        \/ main[s] = "await" /\ "closed" \in {javaConn[s], bedrockConn[s]}
        \/ cancelled /\ main[s] \in {"dial", "login", "bootstrap", "run", "await"}
        ~> main[s] = "done"

\* "Translator is ... session-scoped" (session.go): what a pump of one session
\* finds in the translator comes from that session.
SessionScoped ==
    \A s \in Sessions : (\E p \in Pumps : pump[s][p] = "handle") => remembered \subseteq {s}
=============================================================================

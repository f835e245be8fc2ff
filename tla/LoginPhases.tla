---------------------------- MODULE LoginPhases ----------------------------
(***************************************************************************)
(* What a Java login promises to both ends, whatever packets carry it:     *)
(* client and server pass the protocol states of src/java/protocol/conn.go *)
(* one after the other.  The client commits itself to the next state first *)
(* (handshake, login acknowledged, finish configuration), the server       *)
(* follows, and nobody is ever more than one state ahead.  The login is    *)
(* over when the client is in play, or it fails.                           *)
(***************************************************************************)
EXTENDS Naturals

VARIABLES
    client,    \* the state the client has committed itself to
    server,    \* the state of the server
    outcome    \* "running", "ok" or "error"

vars == <<client, server, outcome>>

Handshaking == 0
Login == 1
Configuration == 2
Play == 3

Init ==
    /\ client = Handshaking
    /\ server = Handshaking
    /\ outcome = "running"

ClientCommits ==
    /\ outcome = "running"
    /\ client = server
    /\ client < Play
    /\ client' = client + 1
    /\ UNCHANGED <<server, outcome>>

ServerFollows ==
    /\ server < client
    /\ server' = server + 1
    /\ UNCHANGED <<client, outcome>>

Succeed ==
    /\ outcome = "running"
    /\ client = Play
    /\ outcome' = "ok"
    /\ UNCHANGED <<client, server>>

Fail ==
    /\ outcome = "running"
    /\ outcome' = "error"
    /\ UNCHANGED <<client, server>>

Next == ClientCommits \/ ServerFollows \/ Succeed \/ Fail

Spec == Init /\ [][Next]_vars
=============================================================================

-------------------------- MODULE MCBridgeSessions --------------------------
(* Instances of BridgeSessions for TLC. *)
EXTENDS BridgeSessions, TLC
CONSTANTS s1, s2
OneSession == {s1}
TwoSessions == {s1, s2}
Symmetry == Permutations(TwoSessions)
=============================================================================

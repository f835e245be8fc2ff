----------------------------- MODULE MCWindows -----------------------------
(* Instances of Windows for TLC. *)
EXTENDS Windows

TwoIDs == {1, 2}
ThreeIDs == {1, 2, 3}
OnePosition == {<<0, 64, 0>>}
TwoPositions == {<<0, 64, 0>>, <<1, 64, 0>>}
=============================================================================

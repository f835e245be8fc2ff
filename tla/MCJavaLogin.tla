---------------------------- MODULE MCJavaLogin ----------------------------
(* A length limit, thresholds around it and a few packets, for TLC. *)
EXTENDS JavaLogin

\* None, everything compressed, short packets stored, one beyond the limit.
MCThresholds == {-1, 0, 3, 7}
=============================================================================

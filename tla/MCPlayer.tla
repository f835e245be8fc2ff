------------------------------ MODULE MCPlayer ------------------------------
(* A server with a custom dimension, for model checking. *)
EXTENDS Player

\* The Nether (1) and two dimensions of the server's own, 3 and 5; 4 has no value
\* and 6 too many sections.
MCRegistry ==
    {[name |-> 1, sections |-> 16, min |-> 0, kept |-> TRUE],
     [name |-> 3, sections |-> 16, min |-> -4, kept |-> TRUE],
     [name |-> 4, sections |-> 16, min |-> 0, kept |-> FALSE],
     [name |-> 5, sections |-> 8, min |-> 0, kept |-> TRUE],
     [name |-> 6, sections |-> 33, min |-> 0, kept |-> TRUE]}
=============================================================================

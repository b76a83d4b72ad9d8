---------------------------- MODULE MCGeneration ----------------------------
(* Small instances of the generation workflow for TLC. *)
EXTENDS Generation

CONSTANTS j1, j2, w1, w2, r1, o1

=============================================================================

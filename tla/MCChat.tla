------------------------------- MODULE MCChat -------------------------------
(* Small instances of durable chat for TLC. *)
EXTENDS Chat

CONSTANTS q1, q2, w1, w2, p1, p2

=============================================================================

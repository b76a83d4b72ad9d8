------------------------------ MODULE MCOutbox ------------------------------
(* Small instances of the outbox, the broker and the consumers for TLC. *)
EXTENDS Outbox

CONSTANTS e1, e2, p1, p2, c1, c2

=============================================================================

---------------------------- MODULE MCChatStream -----------------------------
(* A small instance of reading the event log for TLC. *)
EXTENDS ChatStream

CONSTANT q1

=============================================================================

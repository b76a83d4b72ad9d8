---------------------------- MODULE MCAdmission -----------------------------
(* One job, a base and a voice product, two provisioning runs, and three   *)
(* releases: rb raises the price of ra from the next day on, rc wrongly    *)
(* reuses the version of rb.                                               *)
EXTENDS Admission, TLC

CONSTANTS b, vd, ra, rb, rc, u1, u2, s1, x1, x2

MCPriceOf ==
  (ra :> [version |-> 1, from |-> 0, reservation |-> 2, minimum |-> 1, rate |-> 1]) @@
  (rb :> [version |-> 2, from |-> 1, reservation |-> 3, minimum |-> 2, rate |-> 1]) @@
  (rc :> [version |-> 2, from |-> 0, reservation |-> 2, minimum |-> 1, rate |-> 1])

MCSymmetry == Permutations(Runs) \cup Permutations(Voices)

=============================================================================

----------------------------- MODULE MCSessions -----------------------------
(* One account in two workspaces, two requests at a time. *)
EXTENDS Sessions, TLC

CONSTANTS t1, t2, r1, r2, s1, s2, s3

MCSymmetry == Permutations({r1, r2}) \cup Permutations({s1, s2, s3}) \cup Permutations({t1, t2})

=============================================================================

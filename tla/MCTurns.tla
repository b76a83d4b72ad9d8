------------------------------ MODULE MCTurns -------------------------------
\* One conversation, three database sessions, two requests.
EXTENDS Turns, TLC

CONSTANTS p1, p2, p3, r1, r2, kc, ks, kt, kr, a, b

MCSymmetry == Permutations(Procs) \cup Permutations(Requests)
              \cup Permutations(SendKeys) \cup Permutations(Contents)
=============================================================================

SPECIFICATION Spec
CONSTANTS
  p1 = p1  p2 = p2  p3 = p3
  r1 = r1  r2 = r2
  kc = kc  ks = ks  kt = kt  kr = kr
  a = a  b = b
  Procs = {p1, p2, p3}
  Requests = {r1, r2}
  NoRequest = NoRequest
  CreateKeys = {kc}
  SendKeys = {ks, kt}
  RegenerateKeys = {kr}
  Contents = {a, b}
SYMMETRY MCSymmetry
INVARIANTS
  KeyAcceptedOnce
  TurnsInOrder
  OnlyStopDeadlocks
PROPERTIES
  EndedStays

CONSTANTS
  b = b  vd = vd
  ra = ra  rb = rb  rc = rc
  u1 = u1  u2 = u2
  s1 = s1
  x1 = x1  x2 = x2
  BaseModels = {b}
  VoiceModels = {vd}
  Releases = {ra, rb, rc}
  NoRelease = NoRelease
  PriceOf <- MCPriceOf
  Runs = {u1, u2}
  NoRun = NoRun
  Voices = {x1, x2}
  NoVoice = NoVoice
  MaxTime = 1
  Sources = {s1}
  Amounts = {2, 3}
  Charges = {2, 3}
  Grants = {3}
  MaxCredit = 3
  UsageUnits = {1}
SPECIFICATION Spec
SYMMETRY MCSymmetry
INVARIANTS
  AcceptedTermsStand
  BoundVoiceWasHeard
  VoicesAreKept
PROPERTIES
  BaseRoutesEvidenced

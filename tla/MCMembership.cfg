\* Two seed peers, two handlers; the changes come one at a time.
CONSTANTS
  p = p
  q = q
  r = r
  self = self
  hb = hb
  h1 = h1
  h2 = h2
  Self = self
  HB = hb
  Seeds = {p, q}
  Strangers = {}
  Handlers = {h1, h2}
  SuspectAfter = 1
  DeadAfter = 2
  MaxFaults = 2
  Overlap = FALSE
SPECIFICATION FairSpec
  
PROPERTIES DeathIsDetected ReturnIsNoticed

SPECIFICATION CliSpec
CONSTANTS
  a = a
  b = b
  o = o
  home = home
  originals = originals
  x = x
  y = y
  Path = {a, b, o}
  Bytes = {x, y}
  Sampled <- MCSampled
  Place = {home, originals}
  Under <- MCUnder
  CommandLines <- MCCommandLines
  Nobody = Nobody
  RunBound = 2
  MeddleBound = 1
SYMMETRY Symmetry
INVARIANTS
  
  PartialsNeedConsent
  ReferencesStay
  PlanIsKept
CHECK_DEADLOCK FALSE

SPECIFICATION Spec
CONSTANTS
  d1 = d1
  d2 = d2
  Dupe <- MCDupe
  Ref = Ref
  Matches <- MCMatches
  Unloggable = {}
  Alien = Alien
  Nothing = Nothing
  Link = Link
  NoDupe = NoDupe
  Options <- MCOptions
  MaxOutside = 1
INVARIANTS
  RemovalIsRecorded
  BytesSurvive
  OutcomesAreTrue
PROPERTIES
  JobEnds

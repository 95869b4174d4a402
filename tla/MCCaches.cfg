SPECIFICATION Spec
CONSTANTS
  f1 = f1
  f2 = f2
  c1 = c1
  c2 = c2
  Gone = Gone
  NONE = NONE
  NOT_SET = NOT_SET
  NoRead = NoRead
  HashedFile = {f1, f2}
  Content = {c1, c2}
  xxh3 = xxh3
  blake2b = blake2b
  Algorithm = {xxh3, blake2b}
  BATCH_SIZE = 2
  HASH_BATCH = 2
  Tiers = {"tiny", "small"}
  WriteBound = 1
  ScanBound = 2
  upright = upright
  turned = turned
  Picture = {upright, turned}
  Turned = {turned}
  References = {{}, {turned}}
  Versions = 2
  Scans = 2
  PARALLEL_THRESHOLD = 2
  CACHE_WRITE_BATCH = 2
  None = None
  R = R
  H = H
  B = B
  J = J
  fR = fR
  fB = fB
  fJ = fJ
  dots = dots
  junk = junk
  Pattern = {dots, junk}
  Default = {dots}
  Forbidden = {}
  Broken = {}
  Folder = {R, H, B, J}
  File = {fR, fB, fJ}
  NoFolder = None
  Hidden = {H}
  Junction = {J}
  Resolution = 2
  SETTLE = 2
  Times = {0, 3}
  CommandBound = 2
  ChangeBound = 1
  Unstable = {fR, B}
  PartialOf <- MCPartialOf
  SamplesOf <- MCSamplesOf
  LookOf <- MCLookOf
  Parent <- MCParent
  HitsFolder <- MCHitsFolder
  HitsFile <- MCHitsFile
  Layouts <- MCLayouts
  SavedRoots <- MCSavedRoots
SYMMETRY Symmetry
INVARIANTS
  HashRowsAreTrue
  ClassesAreRight
  
  ChoicesAreRespected
  CachedWalkIsFresh
  AppliedIsShown
CHECK_DEADLOCK FALSE

SPECIFICATION Spec
CONSTANTS
  K = K
  Path = {1, 2, 3}
  Class = {K}
  ClassOf <- MCClassOf
  FilterText <- MCFilterText
  NoFilter = NoFilter
  PairBound = 2
  JobBound = 2
  R = R
  A = A
  B = B
  X = X
  Y = Y
  G = G
  H = H
  Image = {R, A, B, X, Y}
  Group = {G, H}
  OwnGroup <- MCGroupOf
  SizeOf <- MCSizeOf
  Readable = {R, A, B, X}
  NoFile = NoFile
  Blank = Blank
  MaxStep = 0
  MinStep = 0
  A1 = A1
  A2 = A2
  B1 = B1
  B2 = B2
  B3 = B3
  Top = Top
  Old = Old
  OldRef = OldRef
  New = New
  NewSub = NewSub
  File = {A1, A2, B1, B2, B3}
  Folder = {Top, Old, OldRef, New, NewSub}
  Root = Top
  Parent <- MCParent
  FolderOf <- MCFolderOf
  NameOf <- MCNameOf
  ReferenceFolders = {OldRef}
  Scanned = {Old, New}
  ScanResults <- MCScanResults
  RollupFiles = 2
  RollupShare = 70
  OverlapFiles = 2
  MaxChanges = 1
  None = None
INVARIANTS
  
  
  ZoomIsShared
  RowsPartition
  BulkMarksAreEarned
  PreviewIsKept
PROPERTIES
  IgnoreListKeepsPairs
CHECK_DEADLOCK FALSE

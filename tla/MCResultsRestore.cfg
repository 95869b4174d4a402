SPECIFICATION MCSpec
CONSTANTS
  a1 = a1
  a2 = a2
  a3 = a3
  b1 = b1
  b2 = b2
  A = A
  B = B
  File <- MCFile
  RefFile <- MCRefFile
  Group <- MCGroup
  GroupFor <- MCGroupFor
  Pattern <- MCPattern
  Selection <- MCSelection
  Scan <- MCScan
  NoFile = NoFile
  NoGroup = NoGroup
  MaxStray = 1
  MaxGhosts = 0
  s1 = s1
  s2 = s2
  s3 = s3
  x1 = x1
  x2 = x2
  DeletedPath = {1, 2}
  Mounted = {2}
  Bytes = {x1, x2}
  Slot = {s1, s2, s3}
  VolumeSlot = {s3}
  Platform = {"darwin", "linux", "win32", "other"}
  Absent = Absent
  DeletionBound = 2
  IntrusionBound = 2
  ProfileName = {"photos"}
  ScanFolder = {"pictures"}
  NoProfile = NoProfile
  EditBound = 3
  UnplugBound = 1
INVARIANT RestoredIsTheDeleted
CHECK_DEADLOCK FALSE

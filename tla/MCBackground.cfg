SPECIFICATION BackgroundSpec
CONSTANTS
  File <- MCFile
  RefFile <- MCRefFile
  Scan <- MCScan
  JobBound = 3
  PromptStart = TRUE
  window1 = window1
  command = command
  Process <- MCProcess
  MAX_RUNS = 1
  Ended = Ended
  Partial = Partial
  RunBound = 2
  RecordBound = 2
  FaultBound = 2
  Counts = {2, 150}
  Refresh = 50
  Paces = {0, 1, 4}
  Totals = {16, 40}
  Open = 0
  Phases = 2
  Changes = 3
  Horizon = 12
  WINDOW = 6
  MIN_ELAPSED_FOR_ESTIMATE = 3
  MIN_STABILITY_SPAN = 4
  MIN_UNITS_FOR_ESTIMATE = 5
INVARIANTS
  JobsAreOrderly
  LossIsBounded
  BarIsHonest
  CancelIsFinal
  EstimatesAreHonest
  GroupsAreTrue
  NothingIsMissed
PROPERTIES
  JobIsSettled
  ScanEnds
CHECK_DEADLOCK FALSE

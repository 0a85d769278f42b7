SPECIFICATION Spec
CONSTANTS
  MaxCNAMEDepth = 2
  BackupOrigin <- MCBackupOrigin
  RootOrigin <- MCRootOrigin
  NoFile = "none"
  Files <- MCFiles
  Contents <- MCContents
  Topologies <- MCTopologies
  QNames <- MCQNames
  MaxRuns = 2
  None = None
  Torn = Torn
  Old = Old
INVARIANTS
  EveryFileWhole
  BackupRestores
  AnswersKept
CHECK_DEADLOCK FALSE

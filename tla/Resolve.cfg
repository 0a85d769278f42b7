SPECIFICATION Spec
CONSTANTS
  MaxCNAMEDepth = 2
  RootOrigin <- MCRootOrigin
  BackupOrigin <- MCBackupOrigin
  SOA <- MCSOA
  SoaMinTTL = 2
  RootFile <- MCRootFile
  BackupFile <- MCBackupFile
  QNames <- MCQNames
  QTypes <- MCQTypes
  TxtNames <- MCTxtNames
  Token <- MCToken
  MaxRoot = 3
  MaxBackup = 1
  MaxStore = 1
INVARIANTS
  BackupMirrorsRoot
  NoRootLeak
  ChainConnected
  CollapseAgrees
  NxdomainIsTotal
  EphemeralVisible
  AxfrAgrees

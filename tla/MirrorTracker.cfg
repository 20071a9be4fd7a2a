\* One node at rest, and the tracker of this repository.
CONSTANTS
  Groups = {1}
  Targets = {1}
  Extends <- MCExtends
  MaxSlot = 2
  MaxItems = 3
  MaxSnapshotAge = 2
  RpcError = RpcError
  Ledgers <- MCLedgers
  HttpTargets <- NoHttpTargets
  MaxMoves = 0
  SyncCount = 1
  RowScheme = TRUE
  MaxFailures = 1
SPECIFICATION MirrorFairSpec
PROPERTIES BestIsMirrored

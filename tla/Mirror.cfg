\* Two nodes on different forks, the mirror ticking while they and the index change;
\* the tracker names bare hosts, as the worker expects.
CONSTANTS
  Groups = {1}
  Targets = {1, 2}
  Extends <- MCExtends
  MaxSlot = 2
  MaxItems = 3
  MaxSnapshotAge = 2
  RpcError = RpcError
  Ledgers <- MCLedgers
  HttpTargets <- NoHttpTargets
  MaxMoves = 2
  SyncCount = 1
  RowScheme = FALSE
  MaxFailures = 1
SPECIFICATION MirrorFairSpec
INVARIANTS MirrorTypeOK CopiedOnce
PROPERTIES  StopsWhenCancelled

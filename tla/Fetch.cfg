\* Two nodes, any command line, ledgers and index changing meanwhile.
CONSTANTS
  Groups = {1}
  Targets = {1, 2}
  Extends <- MCExtends
  MaxSlot = 5
  MaxItems = 3
  MaxSnapshotAge = 2
  RpcError = RpcError
  Ledgers <- MCLedgers
  Locals <- MCLocals
  FlagSets <- MCFlags
  MinAge = 1
  MaxAge = 2
  HttpTargets <- MCHttpTargets
  MaxMoves = 2
SPECIFICATION Spec
INVARIANTS TypeOK NoOrphans FullReached 
CHECK_DEADLOCK FALSE

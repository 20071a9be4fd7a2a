\* The default command line with two nodes.
CONSTANTS
  Groups = {1}
  Targets = {1, 2}
  Extends <- MCExtends
  MaxSlot = 5
  MaxItems = 3
  MaxSnapshotAge = 2
  RpcError = RpcError
  Ledgers <- MCLedgers
  Locals <- MCLocals
  FlagSets <- DefaultFlags
  MinAge = 1
  MaxAge = 2
  HttpTargets <- NoHttpTargets
  MaxMoves = 0
SPECIFICATION Spec
INVARIANTS AsksItsTarget
CHECK_DEADLOCK FALSE

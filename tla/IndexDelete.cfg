\* Deleting one target of two whose names share a prefix.
CONSTANTS
  Groups = {1, 2}
  Targets = {1, 2}
  Extends <- MCExtends
  MaxSlot = 3
  MaxTime = 0
  MaxBatch = 2
  Offered <- MCOffered
  MaxItems = 2
  MaxSnapshotAge = 1
  RpcError = RpcError
SPECIFICATION Spec
INVARIANTS DeletesOwnRowsOnly

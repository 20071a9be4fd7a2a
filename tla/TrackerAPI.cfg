\* Every mix of upserts, deletions and expiries, every report of the RPC node.
CONSTANTS
  Groups = {1, 2}
  Targets = {1, 2}
  Extends <- MCExtends
  MaxSlot = 3
  MaxTime = 1
  MaxBatch = 2
  Offered <- MCOffered
  MaxItems = 2
  MaxSnapshotAge = 1
  RpcError = RpcError
SPECIFICATION Spec
INVARIANTS TypeOK UniqueIds BestIsNewest ReadsByTarget HealthyIsFresh FreshIsHealthy

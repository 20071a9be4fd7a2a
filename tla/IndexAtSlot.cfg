\* Asking for the snapshots at a slot, of a group.
CONSTANTS
  Groups = {1, 2}
  Targets = {1, 2}
  Extends <- MCExtends
  MaxSlot = 3
  MaxTime = 0
  MaxBatch = 2
  Offered <- MCOffered
  MaxItems = 2
  MaxSnapshotAge = 1
  RpcError = RpcError
SPECIFICATION Spec
INVARIANTS AtSlotAnswers

-------------------------- MODULE TrackerHandlers --------------------------
(***************************************************************************)
(* The tracker's HTTP handlers (internal/tracker/tracker.go), as functions *)
(* of the table they read.  Each handler makes one query, so it answers    *)
(* from one version of the table.  A panic of the index is turned into a   *)
(* 500 by the recovery middleware of the server.                           *)
(***************************************************************************)
EXTENDS IndexQueries

CONSTANTS
  MaxItems,         \* 25 in the code
  MaxSnapshotAge,   \* the --max-snapshot-age of the tracker
  RpcError          \* GetSlot failed or timed out

ASSUME HandlersAssumption ==
  MaxItems \in Nat /\ MaxSnapshotAge \in Nat /\ RpcError \notin Nat

\* types.SnapshotSource
SourceOf(e) ==
  [info |-> e.info, target |-> e.key.target, group |-> e.key.group, updatedAt |-> e.updatedAt]

createJson(entries) ==
  [code |-> 200, sources |-> [i \in DOMAIN entries |-> SourceOf(entries[i])]]

InternalError == [code |-> 500, sources |-> << >>]

\* GET /v1/snapshots; slot 0 is no slot.
GetSnapshots(db, group, slot) ==
  LET atSlot == GetSnapshotsAtSlotByGroup(db, group, slot)
  IN  IF slot = 0 THEN createJson(GetAllSnapshotsByGroup(db, group))
      ELSE IF atSlot.panic THEN InternalError
      ELSE createJson(atSlot.entries)

\* GET /v1/best_snapshots
GetBestSnapshots(db, group, max) ==
  LET limit == IF max < 0 \/ max > MaxItems THEN MaxItems ELSE max
  IN  createJson(GetBestSnapshotsByGroup(db, group, limit))

\* Subtraction of unsigned integers of the width of MaxSlot.
Minus(a, b) == (a - b) % (MaxSlot + 1)

\* (mutants) The health of all groups; the limit itself is too old.
HealthOfAny(db, group, rpc) ==
  LET entries == GetBestSnapshotsByGroup(db, AnyGroup, 1)
  IN  IF entries = << >> THEN 500
      ELSE IF rpc = RpcError THEN 502
      ELSE IF Minus(rpc, entries[1].info.slot) > MaxSnapshotAge THEN 503
      ELSE 200

HealthStrict(db, group, rpc) ==
  LET entries == GetBestSnapshotsByGroup(db, group, 1)
  IN  IF entries = << >> THEN 500
      ELSE IF rpc = RpcError THEN 502
      ELSE IF Minus(rpc, entries[1].info.slot) >= MaxSnapshotAge THEN 503
      ELSE 200

\* GET /v1/health, rpc being the slot the RPC node reports.
Health(db, group, rpc) ==
  LET entries == GetBestSnapshotsByGroup(db, group, 1)
  IN  IF entries = << >> THEN 500
      ELSE IF rpc = RpcError THEN 502
      ELSE IF Minus(rpc, entries[1].info.slot) > MaxSnapshotAge THEN 503
      ELSE 200
=============================================================================

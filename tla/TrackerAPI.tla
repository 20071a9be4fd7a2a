----------------------------- MODULE TrackerAPI -----------------------------
(***************************************************************************)
(* What the tracker's HTTP handlers answer over any table the index can    *)
(* hold, and whatever slot its RPC node reports.                           *)
(***************************************************************************)
EXTENDS IndexAPI, TrackerHandlers

Reports == Slots \cup {RpcError}

\* "healthy" is said only of a group with a snapshot at most MaxSnapshotAge slots
\* behind the chain, by the newest of the group's own snapshots.
HealthyIsFresh ==
  \A g \in Groups \cup {AnyGroup}, rpc \in Reports :
    Health(db, g, rpc) = 200 =>
      \E e \in InGroup(db, g) : rpc - e.info.slot <= MaxSnapshotAge

\* A group that has a snapshot within the limit behind the chain, and none ahead of
\* it, is not reported unhealthy.
FreshIsHealthy ==
  \A g \in Groups \cup {AnyGroup}, rpc \in Slots :
    (/\ \A e \in InGroup(db, g) : e.info.slot <= rpc
     /\ \E e \in InGroup(db, g) : rpc - e.info.slot <= MaxSnapshotAge)
      => Health(db, g, rpc) = 200
=============================================================================

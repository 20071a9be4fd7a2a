------------------------------ MODULE IndexAPI ------------------------------
(***************************************************************************)
(* The table of internal/index driven through its exported operations in   *)
(* any order, with what its readers may rely on between any two calls.     *)
(***************************************************************************)
EXTENDS IndexQueries

CONSTANTS
  MaxTime,   \* bound on the timestamps
  MaxBatch,  \* bound on the entries of one UpsertSnapshots call
  Offered    \* the snapshots the sidecars considered may list

\* A ledger holds full snapshots, and incremental ones above their base.
ASSUME APIAssumption ==
  /\ MaxTime \in Nat
  /\ MaxBatch \in Nat
  /\ Offered \subseteq Infos
  /\ \A i \in Offered : i.baseSlot <= i.slot

VARIABLE db

Times == 0 .. MaxTime

Init == db = {}

\* All entries of a call come from one target, as the comment asks, with the
\* key the collector derives from the info.
Upsert(group, target, infos, time) ==
  db' = UpsertSnapshots(db, EntriesOf(group, target, infos, time))

DeleteTarget(group, target) == db' = DeleteSnapshotsByTarget(db, group, target)

DeleteOld(minTime) == db' = DeleteOldSnapshots(db, minTime)

Next ==
  \/ \E g \in Groups, t \in Targets, n \in 0 .. MaxBatch, time \in Times :
       \E infos \in [1 .. n -> Offered] : Upsert(g, t, infos, time)
  \/ \E g \in Groups, t \in Targets : DeleteTarget(g, t)
  \/ \E time \in Times : DeleteOld(time)

Spec == Init /\ [][Next]_db

TypeOK == db \subseteq EntriesAt(Times)

-----------------------------------------------------------------------------
\* No reader finds two rows for the same group, target and slot, however the
\* upserts and deletions were mixed: "Snapshots that have the same (target,
\* slot) combination get replaced" (index.go).
UniqueIds == UniqueIdsOf(db)

SeqRange(s) == { s[i] : i \in DOMAIN s }

\* GetBestSnapshotsByGroup under a limit never prefers an older snapshot: what
\* it leaves out of the group is at most as new as everything it returns, and
\* it is in newest-to-oldest order, each row once.  It returns max + 1 rows, not
\* max as its comment says (index.go:94), when there are as many.
BestIsNewest ==
  \A g \in Groups \cup {AnyGroup}, max \in 0 .. 2 :
    LET best == GetBestSnapshotsByGroup(db, g, max)
        left == InGroup(db, g) \ SeqRange(best)
    IN  /\ \A i, j \in DOMAIN best :
             i < j => best[i] # best[j] /\ best[i].info.slot >= best[j].info.slot
        /\ \A i \in DOMAIN best, e \in left : e.info.slot <= best[i].info.slot
        /\ Len(best) <= max + 1
        /\ left # {} => Len(best) = max + 1

\* GetSnapshotsByTarget "returns all snapshots served by a host ordered by newest
\* to oldest" (index.go:53): so it does, once each, and with them, as it looks a
\* prefix up, those of every target whose name begins with the host's, each
\* target's newest first.  The deletion by target takes exactly the rows this read
\* finds, and the read of the group finds those of all its targets, once each.
ReadsByTarget ==
  \A g \in Groups :
    LET all == GetAllSnapshotsByGroup(db, g)
    IN  /\ SeqRange(all) = UNION { RowsOf(db, g, t) : t \in Targets }
        /\ Len(all) = Cardinality(SeqRange(all))
        /\ \A t \in Targets :
             LET read == GetSnapshotsByTarget(db, g, t)
                 alike == { u \in Targets : <<t, u>> \in Extends }
             IN  /\ SeqRange(read) = UNION { RowsOf(db, g, u) : u \in alike }
                 /\ \A i, j \in DOMAIN read :
                      i < j => /\ read[i] # read[j]
                               /\ read[i].key.target = read[j].key.target =>
                                    read[i].info.slot > read[j].info.slot
                 /\ DeleteSnapshotsByTarget(db, g, t) = db \ SeqRange(read)

-----------------------------------------------------------------------------
\* index.go:170 "deletes all snapshots owned by a given target": nothing of
\* another target goes with them.
DeletesOwnRowsOnly ==
  \A g \in Groups, t \in Targets :
    \A e \in db \ DeleteSnapshotsByTarget(db, g, t) : e.key.target = t

\* index.go:115 "Fetches the snapshots that are at a given slot": asked for a row of
\* a group by its own base slot, the index answers.
AtSlotAnswers ==
  \A e \in db : ~GetSnapshotsAtSlotByGroup(db, e.key.group, e.key.baseSlot).panic
=============================================================================

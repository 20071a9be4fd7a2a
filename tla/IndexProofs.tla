----------------------------- MODULE IndexProofs -----------------------------
(***************************************************************************)
(* Proofs about TrackerAPI: for any groups, targets, slots and snapshots,  *)
(* any sequence of upserts, deletions and expiries, and whatever the RPC   *)
(* node reports.                                                           *)
(***************************************************************************)
EXTENDS TrackerAPI, Lists

\* A row is found under the key the collector derived from its snapshot.
Keyed == \A e \in db : e.key.inverseSlot = InverseSlot(e.info.slot)

IInv == TypeOK /\ UniqueIds /\ Keyed /\ IsFiniteSet(db)

-----------------------------------------------------------------------------
\* The rows one call of UpsertSnapshots inserts.
LEMMA Batch ==
  ASSUME NEW g \in Groups, NEW t \in Targets, NEW n \in Nat, NEW time \in Times,
         NEW infos \in [1 .. n -> Offered]
  PROVE  LET rows == LastWriters(EntriesOf(g, t, infos, time))
         IN  /\ rows \subseteq EntriesAt(Times)
             /\ \A e \in rows : e.key.inverseSlot = InverseSlot(e.info.slot)
             /\ UniqueIdsOf(rows)
             /\ IsFiniteSet(rows)
             /\ \A e \in rows : \E i \in DOMAIN infos : Id(EntriesOf(g, t, infos, time)[i]) = Id(e)
<1> DEFINE es == EntriesOf(g, t, infos, time)
           rows == LastWriters(es)
<1>1. /\ DOMAIN es = 1 .. n
      /\ IsFiniteSet(rows) /\ UniqueIdsOf(rows)
      /\ \A e \in rows : \E i \in 1 .. n : e = es[i]
  BY LastWritten
<1>2. ASSUME NEW i \in 1 .. n
      PROVE  es[i] \in EntriesAt(Times) /\ es[i].key.inverseSlot = InverseSlot(es[i].info.slot)
  <2>1. infos[i] \in Infos
    BY APIAssumption
  <2>2. NewSnapshotKey(g, t, infos[i].slot, infos[i].baseSlot) \in Keys
    BY <2>1, IndexAssumption DEF Infos, Slots, NewSnapshotKey, InverseSlot, Keys
  <2> QED
    BY <2>1, <2>2 DEF EntriesOf, EntriesAt, NewSnapshotKey
<1> HIDE DEF es, rows
<1> QED
  BY <1>1, <1>2 DEF es, rows

LEMMA UpsertStep ==
  ASSUME IInv, NEW g \in Groups, NEW t \in Targets, NEW n \in Nat, NEW time \in Times,
         NEW infos \in [1 .. n -> Offered], Upsert(g, t, infos, time)
  PROVE  IInv'
<1> DEFINE es == EntriesOf(g, t, infos, time)
           rows == LastWriters(es)
           kept == { e \in db : \A i \in DOMAIN es : Id(es[i]) # Id(e) }
<1>1. db' = kept \cup rows
  BY DEF Upsert, UpsertSnapshots
<1>2. /\ rows \subseteq EntriesAt(Times)
      /\ \A e \in rows : e.key.inverseSlot = InverseSlot(e.info.slot)
      /\ UniqueIdsOf(rows)
      /\ IsFiniteSet(rows)
      /\ \A e \in rows : \E i \in DOMAIN infos : Id(es[i]) = Id(e)
  BY Batch
<1>3. DOMAIN es = DOMAIN infos
  BY DEF EntriesOf
<1>4. kept \subseteq db
  OBVIOUS
<1>5. TypeOK'
  BY <1>1, <1>2, <1>4 DEF IInv, TypeOK
<1>6. Keyed'
  BY <1>1, <1>2, <1>4 DEF IInv, Keyed
<1>7. IsFiniteSet(db')
  <2>1. IsFiniteSet(kept)
    BY <1>4, FS_Subset DEF IInv
  <2> QED
    BY <1>1, <1>2, <2>1, FS_Union
<1>8. UniqueIds'
  <2>1. ASSUME NEW e \in kept, NEW f \in rows
        PROVE  Id(e) # Id(f)
    BY <1>2, <1>3
  <2>2. UniqueIdsOf(kept)
    BY <1>4 DEF IInv, UniqueIds, UniqueIdsOf
  <2>3. UniqueIdsOf(kept \cup rows)
    BY <1>2, <2>1, <2>2 DEF UniqueIdsOf
  <2> QED
    BY <1>1, <2>3 DEF UniqueIds
<1> QED
  BY <1>5, <1>6, <1>7, <1>8 DEF IInv

\* A call that only deletes keeps what is said of all rows.
LEMMA DeleteStep ==
  ASSUME IInv, db' \subseteq db
  PROVE  IInv'
<1>1. IsFiniteSet(db')
  BY FS_Subset DEF IInv
<1> QED
  BY <1>1 DEF IInv, TypeOK, UniqueIds, UniqueIdsOf, Keyed

LEMMA Invariance == Spec => []IInv
<1>1. Init => IInv
  BY FS_EmptySet DEF Init, IInv, TypeOK, UniqueIds, UniqueIdsOf, Keyed
<1>2. IInv /\ [Next]_db => IInv'
  <2> SUFFICES ASSUME IInv, [Next]_db
               PROVE  IInv'
    OBVIOUS
  <2>1. ASSUME NEW g \in Groups, NEW t \in Targets, NEW n \in 0 .. MaxBatch, NEW time \in Times,
               NEW infos \in [1 .. n -> Offered], Upsert(g, t, infos, time)
        PROVE  IInv'
    <3>1. n \in Nat
      BY APIAssumption
    <3> QED
      BY <2>1, <3>1, UpsertStep
  <2>2. ASSUME NEW g \in Groups, NEW t \in Targets, DeleteTarget(g, t)
        PROVE  IInv'
    BY <2>2, DeleteStep DEF DeleteTarget, DeleteSnapshotsByTarget
  <2>3. ASSUME NEW time \in Times, DeleteOld(time)
        PROVE  IInv'
    BY <2>3, DeleteStep DEF DeleteOld, DeleteOldSnapshots
  <2>4. CASE UNCHANGED db
    BY <2>4 DEF IInv, TypeOK, UniqueIds, Keyed
  <2> QED
    BY <2>1, <2>2, <2>3, <2>4 DEF Next
<1> QED
  BY <1>1, <1>2, PTL DEF Spec

\* The table holds well-formed rows.
THEOREM TypeCorrect == Spec => []TypeOK
<1>1. IInv => TypeOK
  BY DEF IInv
<1> QED
  BY <1>1, Invariance, PTL

\* No two rows of the table share group, target and slot.
THEOREM UniqueRows == Spec => []UniqueIds
<1>1. IInv => UniqueIds
  BY DEF IInv
<1> QED
  BY <1>1, Invariance, PTL

-----------------------------------------------------------------------------
(***************************************************************************)
(* The reads.                                                              *)
(***************************************************************************)
\* Each version of the table, and each part of it, has the reads of Lists.
LEMMA Table ==
  ASSUME IInv
  PROVE  IsTable(db)
<1>1. MaxSlot \in Nat /\ Groups \subseteq Int /\ Targets \subseteq Int /\ Slots \subseteq Int
  BY IndexAssumption DEF Slots
<1>2. ASSUME NEW e \in db
      PROVE  /\ e.key.group \in Int /\ e.key.target \in Int /\ e.key.baseSlot \in Int
             /\ e.info.slot \in Slots
  <2>1. e.key \in Keys /\ e.info \in Infos
    BY DEF IInv, TypeOK, EntriesAt
  <2> QED
    BY <1>1, <2>1 DEF Keys, Infos
<1> QED
  BY <1>2 DEF IInv, IsTable, UniqueIds, Keyed

LEMMA BestHolds ==
  ASSUME IInv
  PROVE  BestIsNewest
<1> SUFFICES ASSUME NEW g \in Groups \cup {AnyGroup}, NEW max \in 0 .. 2
             PROVE  LET best == GetBestSnapshotsByGroup(db, g, max)
                        left == InGroup(db, g) \ SeqRange(best)
                    IN  /\ \A i, j \in DOMAIN best :
                             i < j => best[i] # best[j] /\ best[i].info.slot >= best[j].info.slot
                        /\ \A i \in DOMAIN best, e \in left : e.info.slot <= best[i].info.slot
                        /\ Len(best) <= max + 1
                        /\ left # {} => Len(best) = max + 1
  BY DEF BestIsNewest
<1> DEFINE rows == InGroup(db, g)
           best == GetBestSnapshotsByGroup(db, g, max)
           n == Cardinality(rows)
           k == IF max < 0 \/ max + 1 > n THEN n ELSE max + 1
           left == rows \ SeqRange(best)
<1>0. max \in Int
  OBVIOUS
<1>1. /\ n \in Nat /\ Len(best) = k /\ DOMAIN best = 1 .. k
      /\ \A i, j \in 1 .. k : i < j => best[i] # best[j] /\ best[i].info.slot >= best[j].info.slot
      /\ \A e \in rows : \/ \E i \in 1 .. k : best[i] = e
                         \/ k < n /\ \A i \in 1 .. k : e.info.slot <= best[i].info.slot
  BY <1>0, BestRows, Table
<1>2. ASSUME NEW e \in left
      PROVE  k < n /\ \A i \in 1 .. k : e.info.slot <= best[i].info.slot
  <2>1. ~ \E i \in 1 .. k : best[i] = e
    BY <1>1 DEF SeqRange
  <2> QED
    BY <1>1, <2>1
<1>3. k <= max + 1 /\ (k < n => k = max + 1)
  BY <1>1
<1> HIDE DEF best, k, left, n
<1>4. \A i \in DOMAIN best, e \in left : e.info.slot <= best[i].info.slot
  BY <1>1, <1>2
<1>5. left # {} => Len(best) = max + 1
  BY <1>1, <1>2, <1>3
<1> QED
  BY <1>1, <1>3, <1>4, <1>5 DEF best, left

\* A limited read of any group has its rows once each, newest first, prefers no older
\* row, and returns max + 1 rows when there are as many.
THEOREM NewestFirst == Spec => []BestIsNewest
BY BestHolds, Invariance, PTL

-----------------------------------------------------------------------------
\* A walk by id is over the rows, once each.
LEMMA Walked ==
  ASSUME IInv, NEW rows \in SUBSET db
  PROVE  LET list == Walk(rows, ById(rows))
         IN  SeqRange(list) = rows /\ Len(list) = Cardinality(rows)
<1> DEFINE list == Walk(rows, ById(rows))
           n == Cardinality(rows)
<1>1. IsTable(rows)
  BY Table, SubTable
<1>2. /\ n \in Nat /\ list \in [1 .. n -> rows] /\ Len(list) = n
      /\ \A e \in rows : \E i \in 1 .. n : list[i] = e
  BY <1>1, IdWalk
<1> HIDE DEF list, n
<1>3. SeqRange(list) = rows
  BY <1>2 DEF SeqRange
<1> QED
  BY <1>2, <1>3 DEF list, n

\* The rows a lookup by prefix finds are those of the targets with such names.
LEMMA PrefixRows ==
  ASSUME IInv, NEW g \in Groups, NEW t \in Targets
  PROVE  { e \in db : MatchesPrefix(e, g, t) } =
           UNION { RowsOf(db, g, u) : u \in { v \in Targets : <<t, v>> \in Extends } }
<1>1. ASSUME NEW e \in db
      PROVE  e.key.target \in Targets
  <2>1. e.key \in Keys
    BY DEF IInv, TypeOK, EntriesAt
  <2> QED
    BY <2>1 DEF Keys
<1> DEFINE alike == { v \in Targets : <<t, v>> \in Extends }
<1>2. \A e : e \in { f \in db : MatchesPrefix(f, g, t) } <=>
              e \in db /\ e.key.group = g /\ e.key.target \in alike
  BY <1>1 DEF MatchesPrefix
<1>3. \A e : e \in UNION { RowsOf(db, g, u) : u \in alike } <=>
              \E u \in alike : e \in RowsOf(db, g, u)
  OBVIOUS
<1>4. \A e, u : e \in RowsOf(db, g, u) <=> e \in db /\ e.key.group = g /\ e.key.target = u
  BY DEF RowsOf
<1> HIDE DEF alike
<1>5. \A e : e \in { f \in db : MatchesPrefix(f, g, t) } <=>
              e \in UNION { RowsOf(db, g, u) : u \in alike }
  BY <1>2, <1>3, <1>4
<1> QED
  BY <1>5 DEF alike

LEMMA ReadsHold ==
  ASSUME IInv
  PROVE  ReadsByTarget
<1> SUFFICES ASSUME NEW g \in Groups
             PROVE  LET all == GetAllSnapshotsByGroup(db, g)
                    IN  /\ SeqRange(all) = UNION { RowsOf(db, g, t) : t \in Targets }
                        /\ Len(all) = Cardinality(SeqRange(all))
                        /\ \A t \in Targets :
                             LET read == GetSnapshotsByTarget(db, g, t)
                                 alike == { u \in Targets : <<t, u>> \in Extends }
                             IN  /\ SeqRange(read) = UNION { RowsOf(db, g, u) : u \in alike }
                                 /\ \A i, j \in DOMAIN read :
                                      i < j => /\ read[i] # read[j]
                                               /\ read[i].key.target = read[j].key.target =>
                                                    read[i].info.slot > read[j].info.slot
                                 /\ DeleteSnapshotsByTarget(db, g, t) = db \ SeqRange(read)
  BY DEF ReadsByTarget
<1>1. /\ SeqRange(GetAllSnapshotsByGroup(db, g)) = InGroup(db, g)
      /\ Len(GetAllSnapshotsByGroup(db, g)) = Cardinality(InGroup(db, g))
  <2>1. InGroup(db, g) \in SUBSET db
    BY DEF InGroup
  <2> QED
    BY <2>1, Walked DEF GetAllSnapshotsByGroup
<1>2. InGroup(db, g) = UNION { RowsOf(db, g, t) : t \in Targets }
  <2>1. ASSUME NEW e \in db
        PROVE  e.key.target \in Targets
    <3>1. e.key \in Keys
      BY DEF IInv, TypeOK, EntriesAt
    <3> QED
      BY <3>1 DEF Keys
  <2>2. g # AnyGroup
    BY IndexAssumption
  <2> QED
    BY <2>1, <2>2 DEF InGroup, RowsOf
<1>3. ASSUME NEW t \in Targets
      PROVE  LET read == GetSnapshotsByTarget(db, g, t)
                 alike == { u \in Targets : <<t, u>> \in Extends }
             IN  /\ SeqRange(read) = UNION { RowsOf(db, g, u) : u \in alike }
                 /\ \A i, j \in DOMAIN read :
                      i < j => /\ read[i] # read[j]
                               /\ read[i].key.target = read[j].key.target =>
                                    read[i].info.slot > read[j].info.slot
                 /\ DeleteSnapshotsByTarget(db, g, t) = db \ SeqRange(read)
  <2> DEFINE rows == { e \in db : MatchesPrefix(e, g, t) }
             read == GetSnapshotsByTarget(db, g, t)
             n == Cardinality(rows)
  <2>1. rows \in SUBSET db /\ \A e \in rows : e.key.group = g
    BY DEF MatchesPrefix
  <2>2. read = Walk(rows, ById(rows))
    BY DEF GetSnapshotsByTarget
  <2>3. DeleteSnapshotsByTarget(db, g, t) = db \ rows
    BY DEF DeleteSnapshotsByTarget
  <2>4. rows = UNION { RowsOf(db, g, u) : u \in { v \in Targets : <<t, v>> \in Extends } }
    BY PrefixRows
  <2> HIDE DEF rows, read
  <2>5. IsTable(rows)
    BY <2>1, Table, SubTable
  <2>6. SeqRange(read) = rows
    BY <2>1, <2>2, Walked
  <2>7. read \in [1 .. n -> rows]
    BY <2>2, <2>5, IdWalk
  <2>8. \A i, j \in 1 .. n :
          i < j => /\ read[i] # read[j]
                   /\ (read[i].key.group = read[j].key.group /\ read[i].key.target = read[j].key.target)
                        => read[i].info.slot > read[j].info.slot
    BY <2>2, <2>5, IdWalkNewestFirst
  <2> HIDE DEF n
  <2>9. DOMAIN read = 1 .. n
    BY <2>7
  <2>10. ASSUME NEW i \in DOMAIN read, NEW j \in DOMAIN read, i < j
         PROVE  /\ read[i] # read[j]
                /\ read[i].key.target = read[j].key.target =>
                     read[i].info.slot > read[j].info.slot
    <3>1. read[i] \in rows /\ read[j] \in rows
      BY <2>7, <2>9
    <3>2. read[i].key.group = read[j].key.group
      BY <2>1, <3>1
    <3> QED
      BY <2>8, <2>9, <2>10, <3>2
  <2> QED
    BY <2>3, <2>4, <2>6, <2>10 DEF read
<1> QED
  BY <1>1, <1>2, <1>3

\* The read by target returns the target's rows, newest first, and those of every target
\* whose name begins with its own; the read of a group those of all its targets; the
\* deletion by target takes what the read by target finds.
THEOREM TargetReads == Spec => []ReadsByTarget
BY ReadsHold, Invariance, PTL

-----------------------------------------------------------------------------
(***************************************************************************)
(* Health.                                                                 *)
(***************************************************************************)
LEMMA Newest ==
  ASSUME IInv, NEW g
  PROVE  LET best == GetBestSnapshotsByGroup(db, g, 1)
             rows == InGroup(db, g)
         IN  /\ best = << >> => rows = {}
             /\ best # << >> => /\ best[1] \in rows
                                /\ \A e \in rows : e.info.slot <= best[1].info.slot
             /\ \A e \in rows : e.info.slot \in Slots
<1>1. PICK max \in Int : max = 1
  OBVIOUS
<1> QED
  BY <1>1, Table, NewestRow

\* An age that is no age of the future is computed as it is.
LEMMA Age ==
  ASSUME NEW a \in Slots, NEW b \in Slots, b <= a
  PROVE  Minus(a, b) = a - b
<1>1. MaxSlot \in Nat /\ a - b \in 0 .. MaxSlot
  BY IndexAssumption DEF Slots
<1>2. \A x, m \in Nat : x <= m => x % (m + 1) = x
  OBVIOUS
<1> QED
  BY <1>1, <1>2 DEF Minus

LEMMA HealthHolds ==
  ASSUME IInv
  PROVE  HealthyIsFresh /\ FreshIsHealthy
<1>1. MaxSnapshotAge \in Nat /\ Slots \subseteq Nat /\ RpcError \notin Slots
  BY HandlersAssumption, IndexAssumption DEF Slots
<1>2. HealthyIsFresh
  <2> SUFFICES ASSUME NEW g \in Groups \cup {AnyGroup}, NEW rpc \in Reports,
                      Health(db, g, rpc) = 200
               PROVE  \E e \in InGroup(db, g) : rpc - e.info.slot <= MaxSnapshotAge
    BY DEF HealthyIsFresh
  <2> DEFINE best == GetBestSnapshotsByGroup(db, g, 1)
  <2>1. best # << >> /\ rpc # RpcError /\ ~(Minus(rpc, best[1].info.slot) > MaxSnapshotAge)
    BY DEF Health
  <2>2. best[1] \in InGroup(db, g) /\ best[1].info.slot \in Slots
    BY <2>1, Newest
  <2>3. rpc \in Slots
    BY <2>1 DEF Reports
  <2> HIDE DEF best
  <2>4. rpc - best[1].info.slot <= MaxSnapshotAge
    <3> DEFINE s == best[1].info.slot
    <3>1. s \in Slots /\ rpc \in Slots /\ s \in Nat /\ rpc \in Nat
      BY <1>1, <2>2, <2>3
    <3>2. ~(Minus(rpc, s) > MaxSnapshotAge)
      BY <2>1
    <3> HIDE DEF s
    <3>3. ASSUME s <= rpc PROVE rpc - s <= MaxSnapshotAge
      <4>1. Minus(rpc, s) = rpc - s
        BY <3>1, <3>3, Age
      <4>2. rpc - s \in Int
        BY <3>1
      <4> QED
        BY <1>1, <3>2, <4>1, <4>2
    <3>4. ASSUME ~(s <= rpc) PROVE rpc - s <= MaxSnapshotAge
      BY <1>1, <3>1, <3>4
    <3>5. rpc - s <= MaxSnapshotAge
      BY <3>3, <3>4
    <3> QED
      BY <3>5 DEF s
  <2> QED
    BY <2>2, <2>4
<1>3. FreshIsHealthy
  <2> SUFFICES ASSUME NEW g \in Groups \cup {AnyGroup}, NEW rpc \in Slots,
                      \A e \in InGroup(db, g) : e.info.slot <= rpc,
                      NEW f \in InGroup(db, g), rpc - f.info.slot <= MaxSnapshotAge
               PROVE  Health(db, g, rpc) = 200
    BY DEF FreshIsHealthy
  <2> DEFINE best == GetBestSnapshotsByGroup(db, g, 1)
  <2>1. best # << >> /\ best[1] \in InGroup(db, g) /\ f.info.slot <= best[1].info.slot
    BY Newest
  <2>2. best[1].info.slot \in Slots /\ f.info.slot \in Slots /\ best[1].info.slot <= rpc
    BY <2>1, Newest
  <2>3. rpc # RpcError
    BY <1>1
  <2> HIDE DEF best
  <2>4. Minus(rpc, best[1].info.slot) = rpc - best[1].info.slot
    BY <2>2, Age
  <2>5. ~(Minus(rpc, best[1].info.slot) > MaxSnapshotAge)
    <3> DEFINE s == best[1].info.slot
               t == f.info.slot
    <3>1. s \in Nat /\ t \in Nat /\ rpc \in Nat /\ t <= s
      BY <1>1, <2>1, <2>2
    <3>2. Minus(rpc, s) = rpc - s /\ rpc - t <= MaxSnapshotAge
      BY <2>4
    <3> HIDE DEF s, t
    <3>3. ~(rpc - s > MaxSnapshotAge)
      BY <1>1, <3>1, <3>2
    <3> QED
      BY <3>2, <3>3 DEF s
  <2> QED
    BY <2>1, <2>3, <2>5 DEF Health, best
<1> QED
  BY <1>2, <1>3

\* The tracker says "healthy" only of a group whose newest snapshot is within the limit.
THEOREM Healthy == Spec => []HealthyIsFresh
BY HealthHolds, Invariance, PTL

\* A group with a snapshot within the limit, and none ahead of the chain, is healthy.
THEOREM Fresh == Spec => []FreshIsHealthy
BY HealthHolds, Invariance, PTL
=============================================================================

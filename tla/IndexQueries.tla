---------------------------- MODULE IndexQueries ----------------------------
(***************************************************************************)
(* The reads of internal/index/index.go.  Each runs in a read transaction, *)
(* that is over one committed version of the table, and walks one radix    *)
(* tree in byte order.  A secondary index of memdb that is not unique      *)
(* appends the primary key to its own, which decides the order of equals.  *)
(***************************************************************************)
EXTENDS SnapshotIndex, FiniteSets

\* a comes before b, both tuples of numbers of one length.
LexLess(a, b) ==
  \E i \in DOMAIN a :
    /\ a[i] < b[i]
    /\ \A j \in DOMAIN a : j < i => a[j] = b[j]

\* The rows in the order of their keys in an index: a row's place is the number
\* of rows before it.
Walk(rows, key) ==
  [i \in 1 .. Cardinality(rows) |->
     CHOOSE e \in rows : Cardinality({ f \in rows : LexLess(key[f], key[e]) }) = i - 1]

\* The keys of the indexes.
ById(rows) == [e \in rows |-> Id(e)]
BySlot(rows) == [e \in rows |-> <<e.key.inverseSlot>> \o Id(e)]
ByBaseSlot(rows) == [e \in rows |-> <<e.key.baseSlot>> \o Id(e)]

InGroup(db, group) == { e \in db : group = AnyGroup \/ e.key.group = group }

GetSnapshotsByTarget(db, group, target) ==
  LET rows == { e \in db : MatchesPrefix(e, group, target) }
  IN  Walk(rows, ById(rows))

GetAllSnapshotsByGroup(db, group) == Walk(InGroup(db, group), ById(InGroup(db, group)))

\* The loop appends while len(entries) <= max, so it stops at max + 1 rows.
GetBestSnapshotsByGroup(db, group, max) ==
  LET newestFirst == Walk(InGroup(db, group), BySlot(InGroup(db, group)))
      limit == IF max < 0 THEN Len(newestFirst) ELSE max + 1
  IN  SubSeq(newestFirst, 1, IF limit < Len(newestFirst) THEN limit ELSE Len(newestFirst))

(***************************************************************************)
(* GetSnapshotsAtSlotByGroup.  A field index accepts an argument of its    *)
(* own type only, and the error of one that does not match is a panic.     *)
(***************************************************************************)
BaseSlotByGroupFields == <<"string", "uint">>   \* Group, BaseSlot
BaseSlotByGroupArgs   == <<"uint", "string">>   \* slot, group: as the call passes them

ArgsAccepted(fields, args) == args = fields

GetSnapshotsAtSlotByGroup(db, group, slot) ==
  LET rows == { e \in InGroup(db, group) : e.key.baseSlot = slot }
  IN  IF group # AnyGroup /\ ~ArgsAccepted(BaseSlotByGroupFields, BaseSlotByGroupArgs)
      THEN [panic |-> TRUE, entries |-> <<>>]
      ELSE [panic |-> FALSE, entries |-> Walk(rows, ByBaseSlot(rows))]
=============================================================================

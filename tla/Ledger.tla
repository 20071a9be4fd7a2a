------------------------------- MODULE Ledger -------------------------------
(***************************************************************************)
(* Snapshot files and the snapshots they make up: internal/ledger          *)
(* (snapshot.go) and the orderings of types/snapshot.go.                   *)
(*                                                                         *)
(* A file is what ParseSnapshotFileName makes of its name: a slot, a base  *)
(* slot (0 for a full snapshot), a hash and an extension, any at all, the  *)
(* last two represented by their ranks in byte order.  Names that do not   *)
(* parse are no files here; sizes and times are left out.                  *)
(***************************************************************************)
EXTENDS Integers, Sequences, FiniteSets

IsFull(f) == f.baseSlot = 0

\* What ParseSnapshotFileName accepts: an incremental snapshot lies above its base.
Parses(f) == IsFull(f) \/ f.baseSlot < f.slot

\* The sets of files a directory can hold: one snapshot may lie there in two
\* formats (.tar.bz2 and .tar.zst).
IsLedger(files) ==
  /\ IsFiniteSet(files)
  /\ files \subseteq [slot : Nat, baseSlot : Nat, hash : Nat, ext : Nat]
  /\ \A f \in files : Parses(f)

\* (mutant) Incremental before full.
BetterIncremental(f, o) ==
  \/ f.slot > o.slot
  \/ /\ f.slot = o.slot
     /\ f.baseSlot > o.baseSlot \/ (f.baseSlot = o.baseSlot /\ f.hash > o.hash)

\* SnapshotFile.Compare(f, o) > 0: by slot, then full before incremental, then
\* base slot, then hash.  Files that differ in extension only are equal to it.
Better(f, o) ==
  \/ f.slot > o.slot
  \/ /\ f.slot = o.slot
     /\ \/ IsFull(f) /\ ~IsFull(o)
        \/ /\ IsFull(f) <=> IsFull(o)
           /\ \/ f.baseSlot > o.baseSlot
              \/ f.baseSlot = o.baseSlot /\ f.hash > o.hash

\* The place of a file before another.  sort.Slice promises no order of equals: the
\* insertion sort it is for a few files leaves them as ReadDir gives them, by name.
Precedes(f, o) == Better(f, o) \/ (~Better(o, f) /\ f.ext < o.ext)

\* (mutant) Worst to best.
SortFilesUp(files) ==
  [i \in 1 .. Cardinality(files) |->
     CHOOSE f \in files : Cardinality({ o \in files : Precedes(f, o) }) = i - 1]

\* ListSnapshotFiles: the files, best to worst.
SortFiles(files) ==
  [i \in 1 .. Cardinality(files) |->
     CHOOSE f \in files : Cardinality({ o \in files : Precedes(o, f) }) = i - 1]

\* The file a chain is extended with: the first of the sorted files at the slot,
\* if there is one.
AtSlot(files, slot) == { f \in files : f.slot = slot }
BestAt(files, slot) ==
  CHOOSE f \in AtSlot(files, slot) : \A o \in AtSlot(files, slot) : o # f => Precedes(f, o)

\* (mutant) A chain with a missing base is taken for complete.
ChainAsFar(files, target) ==
  LET chain[f \in files] ==
        IF IsFull(f) \/ AtSlot(files, f.baseSlot) = {} THEN << f >>
        ELSE << f >> \o chain[BestAt(files, f.baseSlot)]
  IN  chain[target]

\* The chain from a file down to a full snapshot, << >> when it is incomplete.
\* A base slot is below the slot, so the recursion ends.
ChainOf(files, target) ==
  LET chain[f \in files] ==
        IF IsFull(f) THEN << f >>
        ELSE IF AtSlot(files, f.baseSlot) = {} THEN << >>
        ELSE LET rest == chain[BestAt(files, f.baseSlot)]
             IN  IF rest = << >> THEN << >> ELSE << f >> \o rest
  IN  chain[target]

\* The SnapshotInfo of a complete chain.
InfoOf(chain) ==
  [slot |-> chain[1].slot, baseSlot |-> chain[Len(chain)].slot,
   hash |-> chain[1].hash, files |-> chain]

\* ListSnapshots: the snapshots of the sorted files that have a complete chain.
ListSnapshots(files) ==
  LET complete == SortFiles({ f \in files : ChainOf(files, f) # << >> })
  IN  [i \in DOMAIN complete |-> InfoOf(ChainOf(files, complete[i]))]
=============================================================================

---------------------------- MODULE SnapshotIndex ----------------------------
(***************************************************************************)
(* The tracker's snapshot table: internal/index (index.go, schema.go,      *)
(* types.go) on top of go-memdb.  This module is the part of it that       *)
(* changes the table: keys, the unique primary index and the three write   *)
(* transactions.  A transaction of memdb is atomic, so each is one         *)
(* operator from the table before to the table after.  The ordered reads   *)
(* are in IndexQueries.                                                    *)
(*                                                                         *)
(* Group and target names are represented by their rank in byte order,     *)
(* which is all the indexes look at, except that a "_prefix" lookup also   *)
(* sees which name begins with which other name: Extends.                  *)
(***************************************************************************)
EXTENDS Integers, Sequences

CONSTANTS
  Groups,     \* ranks of the group names
  Targets,    \* ranks of the target names
  Extends,    \* <<t, u>>: the bytes of name u begin with the bytes of name t
  MaxSlot     \* 2^64 - 1 in the code: the all-ones slot

AnyGroup == 0   \* the rank of the empty string, "no group asked for"

ASSUME IndexAssumption ==
  /\ MaxSlot \in Nat
  /\ Groups \subseteq Nat \ {AnyGroup}
  /\ Targets \subseteq Nat
  /\ Extends \subseteq Targets \X Targets
  /\ \A t \in Targets : <<t, t>> \in Extends

Slots == 0 .. MaxSlot

\* What a sidecar reports about a snapshot, as far as the index tells two apart.
Infos == [slot : Slots, baseSlot : Slots]

\* (mutants) The complement taken as a signed number; the key not complemented.
InverseSlotSigned(slot) == - slot - 1
InverseSlotForgotten(slot) == slot

\* ^slot on an unsigned integer of the width of MaxSlot.
InverseSlot(slot) == MaxSlot - slot

Keys == [group : Groups, target : Targets, inverseSlot : Slots, baseSlot : Slots]

NewSnapshotKey(group, target, slot, baseSlot) ==
  [group |-> group, target |-> target,
   inverseSlot |-> InverseSlot(slot), baseSlot |-> baseSlot]

SlotOf(key) == InverseSlot(key.inverseSlot)

EntriesAt(Times) == [key : Keys, info : Infos, updatedAt : Times]

\* The unique "id" index: the base slot is no part of it.
Id(e) == <<e.key.group, e.key.target, e.key.inverseSlot>>

\* The rows a sequence of inserts leaves behind: the last one under each id.
LastWriters(entries) ==
  { entries[i] : i \in { j \in DOMAIN entries :
      \A k \in DOMAIN entries : k > j => Id(entries[k]) # Id(entries[j]) } }

\* (mutant) The id index is not unique.
UpsertAppends(db, entries) == db \cup { entries[i] : i \in DOMAIN entries }

UpsertSnapshots(db, entries) ==
  { e \in db : \A i \in DOMAIN entries : Id(entries[i]) # Id(e) }
    \cup LastWriters(entries)

\* The entries the collector makes of the infos of one probe result.
EntriesOf(group, target, infos, time) ==
  [i \in DOMAIN infos |->
     [key |-> NewSnapshotKey(group, target, infos[i].slot, infos[i].baseSlot),
      info |-> infos[i], updatedAt |-> time]]

\* The rows such a result leaves in an index that has none of the target.
Image(group, target, infos, time) == LastWriters(EntriesOf(group, target, infos, time))

\* (mutant) The lookup is by target alone.
MatchesInAnyGroup(e, group, target) == <<target, e.key.target>> \in Extends

\* "id_prefix" with (group, target): the group must be equal, the target
\* argument loses its terminator, so any target that begins with it matches.
MatchesPrefix(e, group, target) ==
  e.key.group = group /\ <<target, e.key.target>> \in Extends

DeleteSnapshotsByTarget(db, group, target) ==
  { e \in db : ~MatchesPrefix(e, group, target) }

DeleteOldSnapshots(db, minTime) == { e \in db : ~(e.updatedAt < minTime) }

\* The rows of one target, exactly.
RowsOf(db, group, target) ==
  { e \in db : e.key.group = group /\ e.key.target = target }

UniqueIdsOf(db) == \A e, f \in db : Id(e) = Id(f) => e = f
=============================================================================

---------------------------- MODULE TrackerView ----------------------------
(***************************************************************************)
(* What the tracker promises whoever reads its index (abstract).           *)
(*                                                                         *)
(* The rows of a target are withdrawn and published as a whole.  What is   *)
(* published is a listing the target served, no later than the time it is  *)
(* published under, and that time is not in the future.  At most one       *)
(* target is in its gap between the two, and the next change of the index  *)
(* is its publication: nothing is published over rows that are still       *)
(* there.  A withdrawal takes the rows of targets whose name begins with   *)
(* the target's with it; those come back by their own next result only.    *)
(***************************************************************************)
EXTENDS SnapshotIndex

CONSTANTS Listings, Down, MaxTime, Plans

VARIABLES
  plan,    \* plan[t][n]: what target t serves at time n
  clock,
  gap,     \* the target withdrawn and not yet published again, or NoGap
  db       \* the rows a reader finds

vars == <<plan, clock, gap, db>>

NoGap == [group |-> AnyGroup]

\* t served listing l at some time no later than n.
ServedBy(t, l, n) == l \in Listings /\ \E m \in 0 .. n : plan[t][m] = l

Init ==
  /\ plan \in Plans
  /\ clock = 0
  /\ gap = NoGap
  /\ db = {}

Advance ==
  /\ clock < MaxTime
  /\ clock' = clock + 1
  /\ UNCHANGED <<plan, gap, db>>

Withdraw(g, t) ==
  /\ gap = NoGap
  /\ gap' = [group |-> g, target |-> t]
  /\ db' = DeleteSnapshotsByTarget(db, g, t)
  /\ UNCHANGED <<plan, clock>>

Publish(g, t, l, n) ==
  /\ gap = [group |-> g, target |-> t]
  /\ gap' = NoGap
  /\ RowsOf(db, g, t) = {}
  /\ ServedBy(t, l, n)
  /\ db' = db \cup Image(g, t, l, n)
  /\ UNCHANGED <<plan, clock>>

Next ==
  \/ Advance
  \/ \E g \in Groups, t \in Targets :
       \/ Withdraw(g, t)
       \/ \E l \in Listings, n \in 0 .. clock : Publish(g, t, l, n)

Spec == Init /\ [][Next]_vars
=============================================================================

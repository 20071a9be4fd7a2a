---------------------------- MODULE MCTrackerAPI ----------------------------
(***************************************************************************)
(* Two groups and two targets, the name of the second beginning with the   *)
(* name of the first ("host1" and "host10").  The width of a slot is two   *)
(* bits.                                                                   *)
(***************************************************************************)
EXTENDS TrackerAPI

MCExtends == { <<1, 1>>, <<2, 2>>, <<1, 2>> }

Info(b, s) == [slot |-> s, baseSlot |-> b]

\* A full snapshot, a later incremental one on it, and a full one at the slot of
\* that: the highest a slot can be.
MCOffered == { Info(1, 1), Info(1, 3), Info(3, 3) }
=============================================================================

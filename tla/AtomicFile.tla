----------------------------- MODULE AtomicFile -----------------------------
(***************************************************************************)
(* What a download promises of its destination, the name a validator looks *)
(* for: the file appears there as a whole, and stays.  Once two downloads  *)
(* of it have been under way at a time all that is promised is that it     *)
(* does not disappear.                                                     *)
(***************************************************************************)
VARIABLES
  file,      \* absent, whole, torn
  overlap    \* two downloads have been writing at a time

vars == <<file, overlap>>

Init ==
  /\ file \in {"absent", "whole"}
  /\ overlap = FALSE

Appear ==
  /\ file' = "whole"
  /\ UNCHANGED overlap

Overlap ==
  /\ overlap' = TRUE
  /\ UNCHANGED file

Disturb ==
  /\ overlap
  /\ file' \in {"whole", "torn"}
  /\ UNCHANGED overlap

Next == Appear \/ Overlap \/ Disturb

Spec == Init /\ [][Next]_vars
=============================================================================

------------------------------ MODULE MCMirror ------------------------------
EXTENDS Mirror

Full(s, h)   == [slot |-> s, baseSlot |-> 0, hash |-> h, ext |-> 1]
Inc(b, s, h) == [slot |-> s, baseSlot |-> b, hash |-> h, ext |-> 1]

\* A validator on a fork, one on another with a later incremental snapshot, and one
\* with a full snapshot at its slot.
MCLedgers == << {Full(1, 1)}, {Full(1, 2), Inc(1, 2, 1)}, {Full(2, 1)} >>

\* Sidecars only: of an HTTP target the mirror gets nothing.
NoHttpTargets == { {} }

MCExtends == { <<t, t>> : t \in Targets }
=============================================================================

------------------------------ MODULE MCProber ------------------------------
EXTENDS Prober

File(b, s, h, e) == [slot |-> s, baseSlot |-> b, hash |-> h, ext |-> e]

\* A full snapshot in two formats and another of its slot (a fork), a later one at the
\* slot of an incremental one, and incrementals on either, one with an odd extension.
Validator == { File(0, 1, 1, 1), File(0, 1, 1, 2), File(0, 1, 2, 1), File(0, 3, 1, 1),
               File(1, 3, 1, 2), File(3, 4, 1, 3) }
=============================================================================

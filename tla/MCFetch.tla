------------------------------ MODULE MCFetch ------------------------------
EXTENDS Fetch

Full(s)   == [slot |-> s, baseSlot |-> 0, hash |-> 1, ext |-> 1]
Inc(b, s) == [slot |-> s, baseSlot |-> b, hash |-> 1, ext |-> 1]

\* A validator that makes an incremental snapshot, a later one, a full one.
MCLedgers == << {}, {Full(1), Inc(1, 2)}, {Full(1), Inc(1, 3)}, {Full(4), Inc(4, 5)} >>

\* Nothing, a full snapshot, chains, a full snapshot of another fork, and an incremental
\* one that has lost its full one.
MCLocals == { {}, {Full(1)}, {Full(1), Inc(1, 2)}, {Full(1), Inc(1, 4)},
              { [Full(1) EXCEPT !.hash = 2] }, {Inc(1, 3)} }

Flag(f, i, s, g) == [full |-> f, incremental |-> i, slot |-> s, group |-> g]
\* Every command line that run accepts, with and without --slot and --group.
MCFlags == { x \in { Flag(f, i, s, g) : f, i \in BOOLEAN, s \in {0, 1}, g \in {AnyGroup, Group} } :
               x.full \/ x.incremental }
DefaultFlags == { Flag(TRUE, TRUE, 0, AnyGroup) }

\* Sidecars only, or one of the nodes an HTTP target.
MCHttpTargets == { {}, {1} }
NoHttpTargets == { {} }

MCExtends == { <<t, t>> : t \in Targets }
=============================================================================

---------------------------- MODULE ScrapeProofs ----------------------------
(***************************************************************************)
(* Proofs about Scrape: for any number of scrapers, targets, overlapping   *)
(* rounds, listings and histories.                                         *)
(***************************************************************************)
EXTENDS Scrape, TLAPS

-----------------------------------------------------------------------------
(***************************************************************************)
(* The inductive invariant.  WholeListing alone is not inductive: that the *)
(* rows the collector inserts are a listing the target served needs the    *)
(* results on their way to be honest, and that they do not mix with older  *)
(* rows needs the target to have none between the two transactions.        *)
(***************************************************************************)
\* Replies and results hold what the target served, and when.
ProbesHonest ==
  \A s \in Scrapers, k \in Rounds, t \in Targets :
    /\ probe[s][k][t].pc = "answered" => View!ServedBy(t, probe[s][k][t].reply, clock)
    /\ (probe[s][k][t].pc = "sending" /\ probe[s][k][t].reply # Down)
         => /\ probe[s][k][t].time \in 0 .. clock
            /\ View!ServedBy(t, probe[s][k][t].reply, probe[s][k][t].time)

PendingHonest ==
  pending # NoResult =>
    /\ pending.time \in 0 .. clock
    /\ View!ServedBy(pending.target, pending.infos, pending.time)

\* Between the two transactions the target has no rows.
GapIsEmpty ==
  pending # NoResult => RowsOf(db, pending.group, pending.target) = {}

Honest == ProbesHonest /\ PendingHonest

IInv == TypeOK /\ Honest /\ GapIsEmpty /\ WholeListing /\ UniqueIds

-----------------------------------------------------------------------------
(***************************************************************************)
(* Lemmas on the table.                                                    *)
(***************************************************************************)
\* The rows of a result are well-formed rows of its group and target.
LEMMA ImageTyped ==
  ASSUME NEW g \in Groups, NEW t \in Targets, NEW l \in Seq(Infos), NEW n \in Times
  PROVE  Image(g, t, l, n) \subseteq
           { e \in EntriesAt(Times) : e.key.group = g /\ e.key.target = t }
<1> SUFFICES ASSUME NEW i \in DOMAIN l
             PROVE  LET e == EntriesOf(g, t, l, n)[i]
                    IN  e \in EntriesAt(Times) /\ e.key.group = g /\ e.key.target = t
  BY DEF Image, LastWriters, EntriesOf
<1>1. l[i] \in Infos
  OBVIOUS
<1>2. NewSnapshotKey(g, t, l[i].slot, l[i].baseSlot) \in Keys
  BY <1>1, IndexAssumption DEF Infos, Slots, NewSnapshotKey, InverseSlot, Keys
<1> QED
  BY <1>1, <1>2 DEF EntriesOf, EntriesAt, NewSnapshotKey

\* No two rows of a result have the same id: the last insert wins.
LEMMA ImageUnique ==
  ASSUME NEW g, NEW t, NEW l \in Seq(Infos), NEW n
  PROVE  UniqueIdsOf(Image(g, t, l, n))
<1> DEFINE es == EntriesOf(g, t, l, n)
<1>1. DOMAIN es \subseteq Int
  BY DEF EntriesOf
<1>2. SUFFICES ASSUME NEW i \in DOMAIN es, NEW j \in DOMAIN es,
                      \A k \in DOMAIN es : k > i => Id(es[k]) # Id(es[i]),
                      \A k \in DOMAIN es : k > j => Id(es[k]) # Id(es[j]),
                      Id(es[i]) = Id(es[j])
               PROVE  es[i] = es[j]
  BY DEF UniqueIdsOf, Image, LastWriters
<1>3. i = j
  BY <1>1, <1>2
<1> QED
  BY <1>3

\* A deletion by prefix leaves a target all of its rows or none, and the target
\* it is for none.
LEMMA DeleteRows ==
  ASSUME NEW rows, NEW g \in Groups, NEW t \in Targets
  PROVE  LET left == DeleteSnapshotsByTarget(rows, g, t)
         IN  /\ left \subseteq rows
             /\ RowsOf(left, g, t) = {}
             /\ \A h \in Groups, u \in Targets :
                  RowsOf(left, h, u) \in { {}, RowsOf(rows, h, u) }
<1>1. <<t, t>> \in Extends
  BY IndexAssumption
<1>2. ASSUME NEW h \in Groups, NEW u \in Targets
      PROVE  RowsOf(DeleteSnapshotsByTarget(rows, g, t), h, u)
               \in { {}, RowsOf(rows, h, u) }
  <2>1. CASE h = g /\ <<t, u>> \in Extends
    BY <2>1 DEF DeleteSnapshotsByTarget, MatchesPrefix, RowsOf
  <2>2. CASE ~(h = g /\ <<t, u>> \in Extends)
    BY <2>2 DEF DeleteSnapshotsByTarget, MatchesPrefix, RowsOf
  <2> QED
    BY <2>1, <2>2
<1> QED
  BY <1>1, <1>2 DEF DeleteSnapshotsByTarget, MatchesPrefix, RowsOf

\* An upsert of a result into a table without rows of its target adds the result's
\* image and disturbs nothing.
LEMMA UpsertRows ==
  ASSUME NEW rows \in SUBSET EntriesAt(Times), NEW g \in Groups, NEW t \in Targets,
         NEW l \in Seq(Infos), NEW n \in Times,
         RowsOf(rows, g, t) = {}
  PROVE  UpsertSnapshots(rows, EntriesOf(g, t, l, n)) = rows \cup Image(g, t, l, n)
<1>1. ASSUME NEW e \in rows, NEW i \in DOMAIN l
      PROVE  Id(EntriesOf(g, t, l, n)[i]) # Id(e)
  <2>1. ~(e.key.group = g /\ e.key.target = t)
    BY DEF RowsOf
  <2> QED
    BY <2>1 DEF Id, EntriesOf, NewSnapshotKey
<1>2. DOMAIN EntriesOf(g, t, l, n) = DOMAIN l
  BY DEF EntriesOf
<1> QED
  BY <1>1, <1>2 DEF UpsertSnapshots, Image

-----------------------------------------------------------------------------
(***************************************************************************)
(* Type correctness.                                                       *)
(***************************************************************************)
\* Setting one probe changes that probe only.
LEMMA SetProbeEffect ==
  ASSUME probe \in [Scrapers -> [Rounds -> [Targets -> Probes]]],
         NEW s \in Scrapers, NEW k \in Rounds, NEW t \in Targets, NEW p \in Probes,
         SetProbe(s, k, t, p)
  PROVE  /\ probe' \in [Scrapers -> [Rounds -> [Targets -> Probes]]]
         /\ probe'[s][k][t] = p
         /\ \A s1 \in Scrapers, k1 \in Rounds, t1 \in Targets :
              <<s1, k1, t1>> # <<s, k, t>> => probe'[s1][k1][t1] = probe[s1][k1][t1]
  BY DEF SetProbe

LEMMA IdleProbeTyped == IdleProbe \in Probes
  BY ScrapeAssumption DEF IdleProbe, Probes, Times

LEMMA RoundTyped ==
  ASSUME TypeOK, NEW s \in Scrapers, BeginRound(s)
  PROVE  cur' \in [Scrapers -> Rounds] /\ discovering' \in [Scrapers -> SUBSET Rounds]
<1> DEFINE k == CHOOSE k \in FreeRounds(s) : TRUE
<1>1. k \in Rounds
  BY DEF BeginRound, FreeRounds
<1>2. cur' = [cur EXCEPT ![s] = k] /\ discovering' = [discovering EXCEPT ![s] = @ \cup {k}]
  BY DEF BeginRound
<1> HIDE DEF k
<1> QED
  BY <1>1, <1>2 DEF TypeOK

\* What a target serves is a listing or nothing at all.
LEMMA ServedTyped ==
  ASSUME TypeOK, NEW t \in Targets, plan[t][clock] # Down
  PROVE  plan[t][clock] \in Listings
  BY ScrapeAssumption DEF TypeOK

\* The upsert stores the image of the pending result, of an allowed type.
LEMMA PendingTyped ==
  ASSUME TypeOK, pending # NoResult
  PROVE  /\ pending.group \in Groups
         /\ pending.target \in Targets
         /\ pending.infos \in Listings
         /\ pending.infos \in Seq(Infos)
         /\ pending.time \in Times
  BY ScrapeAssumption DEF TypeOK, Results

LEMMA UpsertSubset ==
  ASSUME NEW rows, NEW g, NEW t, NEW l, NEW n
  PROVE  UpsertSnapshots(rows, EntriesOf(g, t, l, n)) \subseteq rows \cup Image(g, t, l, n)
  BY DEF UpsertSnapshots, Image

LEMMA InitTyped == Init => TypeOK
<1> SUFFICES ASSUME Init PROVE TypeOK
  OBVIOUS
<1>1. (CHOOSE k \in Rounds : TRUE) \in Rounds
  BY ScrapeAssumption
<1>2. probe \in [Scrapers -> [Rounds -> [Targets -> Probes]]]
  BY IdleProbeTyped DEF Init
<1>3. cur \in [Scrapers -> Rounds]
  BY <1>1 DEF Init
<1>4. clock \in Times
  BY ScrapeAssumption DEF Init, Times
<1> QED
  BY <1>2, <1>3, <1>4 DEF Init, TypeOK

LEMMA StepTyped == TypeOK /\ [Next]_vars => TypeOK'
<1> SUFFICES ASSUME TypeOK, [Next]_vars PROVE TypeOK'
  OBVIOUS
<1>1. CASE UNCHANGED vars
  BY <1>1 DEF vars, TypeOK
<1>2. ASSUME NEW s \in Scrapers, Start(s) PROVE TypeOK'
  <2>1. cur' \in [Scrapers -> Rounds] /\ discovering' \in [Scrapers -> SUBSET Rounds]
    BY <1>2, RoundTyped DEF Start
  <2> QED
    BY <1>2, <2>1 DEF Start, TypeOK
<1>3. ASSUME NEW s \in Scrapers, Tick(s) PROVE TypeOK'
  <2>1. cur' \in [Scrapers -> Rounds] /\ discovering' \in [Scrapers -> SUBSET Rounds]
    BY <1>3, RoundTyped DEF Tick
  <2> QED
    BY <1>3, <2>1 DEF Tick, TypeOK
<1>4. ASSUME NEW s \in Scrapers, Close(s) \/ RunReturns(s) PROVE TypeOK'
  BY <1>4 DEF Close, RunReturns, TypeOK
<1>5. ASSUME NEW s \in Scrapers, NEW k \in Rounds, NEW T \in Discoveries[s], Discover(s, k, T)
      PROVE  TypeOK'
  <2>1. [IdleProbe EXCEPT !.pc = "probing"] \in Probes
    BY IdleProbeTyped DEF Probes, IdleProbe
  <2>2. probe' \in [Scrapers -> [Rounds -> [Targets -> Probes]]]
    BY <1>5, <2>1 DEF Discover, TypeOK
  <2>3. discovering' \in [Scrapers -> SUBSET Rounds]
    BY <1>5 DEF Discover, TypeOK
  <2> QED
    BY <1>5, <2>2, <2>3 DEF Discover, TypeOK
<1>6. ASSUME NEW s \in Scrapers, NEW k \in Rounds, NEW t \in Targets,
             Answer(s, k, t) \/ Return(s, k, t) \/ Fail(s, k, t)
      PROVE  TypeOK'
  <2> DEFINE a == [pc |-> "answered", reply |-> plan[t][clock], time |-> 0]
             r == [pc |-> "sending", reply |-> probe[s][k][t].reply, time |-> clock]
             f == [pc |-> "sending", reply |-> Down, time |-> clock]
  <2>1. CASE Answer(s, k, t)
    <3>1. a \in Probes /\ SetProbe(s, k, t, a)
      BY <2>1, ServedTyped, ScrapeAssumption DEF Answer, Probes, Times
    <3>2. probe' \in [Scrapers -> [Rounds -> [Targets -> Probes]]]
      BY <3>1, SetProbeEffect DEF TypeOK
    <3> QED
      BY <2>1, <3>2 DEF Answer, TypeOK
  <2>2. CASE Return(s, k, t)
    <3>1. r \in Probes /\ SetProbe(s, k, t, r)
      BY <2>2 DEF Return, TypeOK, Probes
    <3>2. probe' \in [Scrapers -> [Rounds -> [Targets -> Probes]]]
      BY <3>1, SetProbeEffect DEF TypeOK
    <3> QED
      BY <2>2, <3>2 DEF Return, TypeOK
  <2>3. CASE Fail(s, k, t)
    <3>1. f \in Probes /\ SetProbe(s, k, t, f)
      BY <2>3 DEF Fail, TypeOK, Probes
    <3>2. probe' \in [Scrapers -> [Rounds -> [Targets -> Probes]]]
      BY <3>1, SetProbeEffect DEF TypeOK
    <3> QED
      BY <2>3, <3>2 DEF Fail, TypeOK
  <2> QED
    BY <1>6, <2>1, <2>2, <2>3
<1>7. ASSUME NEW s \in Scrapers, NEW k \in Rounds, NEW t \in Targets, Collect(s, k, t)
      PROVE  TypeOK'
  <2>1. probe' \in [Scrapers -> [Rounds -> [Targets -> Probes]]]
    BY <1>7, IdleProbeTyped, SetProbeEffect DEF Collect, TypeOK
  <2>2. pending' \in Results \cup {NoResult}
    <3>1. probe[s][k][t] \in Probes /\ GroupOf[s] \in Groups
      BY ScrapeAssumption DEF TypeOK
    <3> QED
      BY <1>7, <3>1 DEF Collect, TypeOK, ResultOf, Results, Probes
  <2>3. db' \subseteq EntriesAt(Times)
    BY <1>7 DEF Collect, TypeOK, DeleteSnapshotsByTarget
  <2> QED
    BY <1>7, <2>1, <2>2, <2>3 DEF Collect, TypeOK
<1>8. CASE Upsert
  <2>1. db' \subseteq EntriesAt(Times)
    BY <1>8, PendingTyped, UpsertSubset, ImageTyped DEF Upsert, TypeOK
  <2> QED
    BY <1>8, <2>1 DEF Upsert, TypeOK
<1>9. ASSUME NEW s \in Scrapers, NEW k \in Rounds, NEW t \in Targets, SendOnClosed(s, k, t)
      PROVE  TypeOK'
  BY <1>9 DEF SendOnClosed, TypeOK
<1>10. CASE CloseCollector \/ Advance
  BY <1>10, ScrapeAssumption DEF CloseCollector, Advance, TypeOK, Times
<1> QED
  BY <1>1, <1>2, <1>3, <1>4, <1>5, <1>6, <1>7, <1>8, <1>9, <1>10
  DEF Next, ScraperStep, RoundStep

\* Every state the pipeline reaches is well formed.
THEOREM TypeCorrect == Spec => []TypeOK
  BY InitTyped, StepTyped, PTL DEF Spec

-----------------------------------------------------------------------------
(***************************************************************************)
(* Whole listings.                                                         *)
(***************************************************************************)
\* Honesty of results looks at these variables only, and time does not hurt it.
LEMMA HonestStutter ==
  ASSUME TypeOK, Honest, UNCHANGED <<plan, probe, pending>>, clock' \in Times, clock' >= clock
  PROVE  Honest'
<1>1. 0 .. clock \subseteq 0 .. clock'
  BY DEF TypeOK, Times
<1>2. ASSUME NEW t, NEW l, NEW n, View!ServedBy(t, l, n)
      PROVE  View!ServedBy(t, l, n)'
  BY <1>2 DEF View!ServedBy
<1>3. ASSUME NEW t, NEW l, View!ServedBy(t, l, clock)
      PROVE  View!ServedBy(t, l, clock)'
  BY <1>1, <1>3 DEF View!ServedBy
<1>4. ProbesHonest'
  BY <1>1, <1>2, <1>3 DEF Honest, ProbesHonest
<1>5. PendingHonest'
  BY <1>1, <1>2 DEF Honest, PendingHonest
<1> QED
  BY <1>4, <1>5 DEF Honest

\* A step that leaves the history, the clock and the pending result alone and sets
\* one probe honestly.
LEMMA HonestProbe ==
  ASSUME TypeOK, Honest, NEW s \in Scrapers, NEW k \in Rounds, NEW t \in Targets,
         NEW p \in Probes, SetProbe(s, k, t, p), UNCHANGED <<plan, clock>>,
         p.pc = "answered" => View!ServedBy(t, p.reply, clock),
         (p.pc = "sending" /\ p.reply # Down)
           => p.time \in 0 .. clock /\ View!ServedBy(t, p.reply, p.time)
  PROVE  ProbesHonest'
<1> SUFFICES ASSUME NEW s1 \in Scrapers, NEW k1 \in Rounds, NEW t1 \in Targets
             PROVE  LET q == probe'[s1][k1][t1]
                    IN  /\ q.pc = "answered" => View!ServedBy(t1, q.reply, clock)
                        /\ (q.pc = "sending" /\ q.reply # Down)
                             => /\ q.time \in 0 .. clock
                                /\ View!ServedBy(t1, q.reply, q.time)
  BY DEF ProbesHonest, View!ServedBy
<1>1. CASE <<s1, k1, t1>> = <<s, k, t>>
  <2>1. probe'[s1][k1][t1] = p
    BY <1>1, SetProbeEffect DEF TypeOK
  <2> QED
    BY <1>1, <2>1
<1>2. CASE <<s1, k1, t1>> # <<s, k, t>>
  <2>1. probe'[s1][k1][t1] = probe[s1][k1][t1]
    BY <1>2, SetProbeEffect DEF TypeOK
  <2> QED
    BY <2>1 DEF Honest, ProbesHonest
<1> QED
  BY <1>1, <1>2

\* Results stay honest.
LEMMA StepHonest == TypeOK /\ TypeOK' /\ Honest /\ [Next]_vars => Honest'
<1> SUFFICES ASSUME TypeOK, TypeOK', Honest, [Next]_vars PROVE Honest'
  OBVIOUS
<1>0. clock \in Int /\ clock' \in Times
  BY DEF TypeOK, Times
<1>1. CASE UNCHANGED vars
  BY <1>0, <1>1, HonestStutter DEF vars
<1>2. ASSUME NEW s \in Scrapers, ScraperStep(s) PROVE Honest'
  BY <1>0, <1>2, HonestStutter DEF ScraperStep, Start, Tick, Close, RunReturns
<1>3. ASSUME NEW s \in Scrapers, NEW k \in Rounds, NEW T \in Discoveries[s], Discover(s, k, T)
      PROVE  Honest'
  <2>1. \A s1 \in Scrapers, k1 \in Rounds, t1 \in Targets :
          probe'[s1][k1][t1] = probe[s1][k1][t1] \/ probe'[s1][k1][t1].pc = "probing"
    BY <1>3 DEF Discover, TypeOK, IdleProbe
  <2>2. ProbesHonest'
    <3>1. \A s1 \in Scrapers, k1 \in Rounds, t1 \in Targets :
            probe'[s1][k1][t1].pc \in {"answered", "sending"} =>
              probe'[s1][k1][t1] = probe[s1][k1][t1]
      BY <2>1
    <3>2. UNCHANGED <<plan, clock>>
      BY <1>3 DEF Discover
    <3>3. SUFFICES ASSUME NEW s1 \in Scrapers, NEW k1 \in Rounds, NEW t1 \in Targets
                   PROVE  LET q == probe'[s1][k1][t1]
                          IN  /\ q.pc = "answered" => View!ServedBy(t1, q.reply, clock)
                              /\ (q.pc = "sending" /\ q.reply # Down)
                                   => /\ q.time \in 0 .. clock
                                      /\ View!ServedBy(t1, q.reply, q.time)
      BY <3>2 DEF ProbesHonest, View!ServedBy
    <3> QED
      BY <3>1 DEF Honest, ProbesHonest
  <2>3. PendingHonest'
    BY <1>3 DEF Discover, Honest, PendingHonest, View!ServedBy
  <2> QED
    BY <2>2, <2>3 DEF Honest
<1>4. ASSUME NEW s \in Scrapers, NEW k \in Rounds, NEW t \in Targets,
             Answer(s, k, t) \/ Return(s, k, t) \/ Fail(s, k, t)
      PROVE  Honest'
  <2> DEFINE a == [pc |-> "answered", reply |-> plan[t][clock], time |-> 0]
             r == [pc |-> "sending", reply |-> probe[s][k][t].reply, time |-> clock]
             f == [pc |-> "sending", reply |-> Down, time |-> clock]
  <2>1. UNCHANGED <<plan, clock, pending>>
    BY <1>4 DEF Answer, Return, Fail
  <2>2. clock \in 0 .. clock
    BY DEF TypeOK, Times
  <2>3. ASSUME Answer(s, k, t) PROVE ProbesHonest'
    <3>1. a \in Probes /\ SetProbe(s, k, t, a)
      BY <2>3, ServedTyped, ScrapeAssumption DEF Answer, Probes, Times
    <3>2. View!ServedBy(t, a.reply, clock)
      BY <2>2, <2>3, ServedTyped DEF Answer, View!ServedBy
    <3> QED
      BY <2>1, <3>1, <3>2, HonestProbe
  <2>4. ASSUME Return(s, k, t) PROVE ProbesHonest'
    <3>1. r \in Probes /\ SetProbe(s, k, t, r)
      BY <2>4 DEF Return, TypeOK, Probes
    <3>2. View!ServedBy(t, r.reply, r.time)
      BY <2>4 DEF Return, Honest, ProbesHonest
    <3> QED
      BY <2>1, <2>2, <3>1, <3>2, HonestProbe
  <2>5. ASSUME Fail(s, k, t) PROVE ProbesHonest'
    <3>1. f \in Probes /\ SetProbe(s, k, t, f)
      BY <2>5 DEF Fail, TypeOK, Probes
    <3> QED
      BY <2>1, <3>1, HonestProbe
  <2>6. ProbesHonest'
    BY <1>4, <2>3, <2>4, <2>5
  <2>7. PendingHonest'
    BY <2>1 DEF Honest, PendingHonest, View!ServedBy
  <2> QED
    BY <2>6, <2>7 DEF Honest
<1>5. ASSUME NEW s \in Scrapers, NEW k \in Rounds, NEW t \in Targets, Collect(s, k, t)
      PROVE  Honest'
  <2>1. UNCHANGED <<plan, clock>> /\ SetProbe(s, k, t, IdleProbe)
    BY <1>5 DEF Collect
  <2>2. ProbesHonest'
    BY <2>1, IdleProbeTyped, HonestProbe DEF IdleProbe
  <2>3. PendingHonest'
    BY <1>5, <2>1 DEF Collect, ResultOf, Honest, ProbesHonest, PendingHonest, View!ServedBy
  <2> QED
    BY <2>2, <2>3 DEF Honest
<1>6. CASE Upsert
  <2>1. ProbesHonest'
    BY <1>6 DEF Upsert, Honest, ProbesHonest, View!ServedBy
  <2> QED
    BY <1>6, <2>1 DEF Upsert, Honest, PendingHonest
<1>7. ASSUME NEW s \in Scrapers, NEW k \in Rounds, NEW t \in Targets, SendOnClosed(s, k, t)
      PROVE  Honest'
  BY <1>0, <1>7, HonestStutter DEF SendOnClosed
<1>8. CASE CloseCollector \/ Advance
  BY <1>0, <1>8, HonestStutter DEF CloseCollector, Advance
<1> QED
  BY <1>1, <1>2, <1>3, <1>4, <1>5, <1>6, <1>7, <1>8 DEF Next, RoundStep

Sound == GapIsEmpty /\ WholeListing /\ UniqueIds

\* These look at the table, the pending result, the history and the clock only.
LEMMA SoundStutter ==
  ASSUME TypeOK, Sound, UNCHANGED <<plan, pending, db>>, clock' \in Times, clock' >= clock
  PROVE  Sound'
<1>1. 0 .. clock \subseteq 0 .. clock'
  BY DEF TypeOK, Times
<1>2. GapIsEmpty'
  BY DEF Sound, GapIsEmpty, RowsOf
<1>3. UniqueIds'
  BY DEF Sound, UniqueIds, UniqueIdsOf
<1>4. WholeListing'
  <2> SUFFICES ASSUME NEW g \in Groups, NEW t \in Targets, RowsOf(db, g, t) # {}
               PROVE  \E l \in Listings, n \in 0 .. clock' :
                        View!ServedBy(t, l, n) /\ RowsOf(db, g, t) = Image(g, t, l, n)
    BY DEF WholeListing, View!ServedBy
  <2>1. PICK l \in Listings, n \in 0 .. clock :
          View!ServedBy(t, l, n) /\ RowsOf(db, g, t) = Image(g, t, l, n)
    BY DEF Sound, WholeListing
  <2> QED
    BY <1>1, <2>1
<1> QED
  BY <1>2, <1>3, <1>4 DEF Sound

\* The first transaction of the collector opens a gap and takes whole targets out.
LEMMA CollectSound ==
  ASSUME TypeOK, Sound,
         NEW s \in Scrapers, NEW k \in Rounds, NEW t \in Targets, Collect(s, k, t)
  PROVE  Sound'
<1>1. CASE probe[s][k][t].reply = Down
  <2>1. UNCHANGED <<plan, pending, db, clock>>
    BY <1>1 DEF Collect
  <2> QED
    BY <2>1, SoundStutter DEF TypeOK, Times
<1>2. CASE probe[s][k][t].reply # Down
  <2> DEFINE g == GroupOf[s]
             left == DeleteSnapshotsByTarget(db, g, t)
  <2>1. db' = left /\ pending' = ResultOf(s, t, probe[s][k][t]) /\ UNCHANGED <<plan, clock>>
    BY <1>2 DEF Collect
  <2>2. g \in Groups
    BY ScrapeAssumption
  <2>3. /\ left \subseteq db
        /\ RowsOf(left, g, t) = {}
        /\ \A h \in Groups, u \in Targets : RowsOf(left, h, u) \in { {}, RowsOf(db, h, u) }
    BY <2>2, DeleteRows
  <2>4. GapIsEmpty'
    BY <2>1, <2>3 DEF GapIsEmpty, ResultOf
  <2>5. UniqueIds'
    BY <2>1, <2>3 DEF Sound, UniqueIds, UniqueIdsOf
  <2>6. WholeListing'
    <3> SUFFICES ASSUME NEW h \in Groups, NEW u \in Targets, RowsOf(left, h, u) # {}
                 PROVE  \E l \in Listings, n \in 0 .. clock :
                          View!ServedBy(u, l, n) /\ RowsOf(left, h, u) = Image(h, u, l, n)
      BY <2>1 DEF WholeListing, View!ServedBy
    <3>1. RowsOf(left, h, u) = RowsOf(db, h, u)
      BY <2>3
    <3> QED
      BY <3>1 DEF Sound, WholeListing
  <2> QED
    BY <2>4, <2>5, <2>6 DEF Sound
<1> QED
  BY <1>1, <1>2

\* The second transaction fills the gap with one whole listing.
LEMMA UpsertSound ==
  ASSUME TypeOK, Honest, Sound, Upsert
  PROVE  Sound'
<1> DEFINE g == pending.group
           t == pending.target
           image == Image(g, t, pending.infos, pending.time)
<1>1. /\ g \in Groups /\ t \in Targets
      /\ pending.infos \in Listings /\ pending.infos \in Seq(Infos)
      /\ pending.time \in Times
  BY PendingTyped DEF Upsert
<1>2. RowsOf(db, g, t) = {}
  BY DEF Sound, GapIsEmpty, Upsert
<1>3. db' = db \cup image /\ pending' = NoResult /\ UNCHANGED <<plan, clock>>
  BY <1>1, <1>2, UpsertRows DEF Upsert, TypeOK
<1>4. \A e \in image : e.key.group = g /\ e.key.target = t
  BY <1>1, ImageTyped
<1>5. pending.time \in 0 .. clock /\ View!ServedBy(t, pending.infos, pending.time)
  BY DEF Honest, PendingHonest, Upsert
<1>6. WholeListing'
  <2> SUFFICES ASSUME NEW h \in Groups, NEW u \in Targets, RowsOf(db', h, u) # {}
               PROVE  \E l \in Listings, n \in 0 .. clock :
                        View!ServedBy(u, l, n) /\ RowsOf(db', h, u) = Image(h, u, l, n)
    BY <1>3 DEF WholeListing, View!ServedBy
  <2>1. CASE h = g /\ u = t
    <3>1. RowsOf(db', h, u) = image
      BY <1>2, <1>3, <1>4, <2>1 DEF RowsOf
    <3> QED
      BY <1>1, <1>5, <2>1, <3>1
  <2>2. CASE ~(h = g /\ u = t)
    <3>1. RowsOf(db', h, u) = RowsOf(db, h, u)
      BY <1>3, <1>4, <2>2 DEF RowsOf
    <3> QED
      BY <3>1 DEF Sound, WholeListing
  <2> QED
    BY <2>1, <2>2
<1>7. UniqueIds'
  <2>1. UniqueIdsOf(image)
    BY <1>1, ImageUnique
  <2>2. ASSUME NEW e \in db, NEW f \in image PROVE Id(e) # Id(f)
    <3>1. ~(e.key.group = g /\ e.key.target = t)
      BY <1>2 DEF RowsOf
    <3> QED
      BY <1>4, <3>1 DEF Id
  <2> QED
    BY <1>3, <2>1, <2>2 DEF Sound, UniqueIds, UniqueIdsOf
<1> QED
  BY <1>3, <1>6, <1>7 DEF Sound, GapIsEmpty

LEMMA StepSound == TypeOK /\ TypeOK' /\ Honest /\ Sound /\ [Next]_vars => Sound'
<1> SUFFICES ASSUME TypeOK, TypeOK', Honest, Sound, [Next]_vars PROVE Sound'
  OBVIOUS
<1>0. clock \in Int /\ clock' \in Times
  BY DEF TypeOK, Times
<1>1. CASE UNCHANGED vars
  BY <1>0, <1>1, SoundStutter DEF vars
<1>2. ASSUME NEW s \in Scrapers, ScraperStep(s) PROVE Sound'
  BY <1>0, <1>2, SoundStutter DEF ScraperStep, Start, Tick, Close, RunReturns
<1>3. ASSUME NEW s \in Scrapers, NEW k \in Rounds, NEW T \in Discoveries[s], Discover(s, k, T)
      PROVE  Sound'
  BY <1>0, <1>3, SoundStutter DEF Discover
<1>4. ASSUME NEW s \in Scrapers, NEW k \in Rounds, NEW t \in Targets,
             Answer(s, k, t) \/ Return(s, k, t) \/ Fail(s, k, t) \/ SendOnClosed(s, k, t)
      PROVE  Sound'
  BY <1>0, <1>4, SoundStutter DEF Answer, Return, Fail, SendOnClosed
<1>5. ASSUME NEW s \in Scrapers, NEW k \in Rounds, NEW t \in Targets, Collect(s, k, t)
      PROVE  Sound'
  BY <1>5, CollectSound
<1>6. CASE Upsert
  BY <1>6, UpsertSound
<1>7. CASE CloseCollector \/ Advance
  BY <1>0, <1>7, SoundStutter DEF CloseCollector, Advance
<1> QED
  BY <1>1, <1>2, <1>3, <1>4, <1>5, <1>6, <1>7 DEF Next, RoundStep

LEMMA InitInv == Init => IInv
<1> SUFFICES ASSUME Init PROVE IInv
  OBVIOUS
<1>1. TypeOK
  BY InitTyped
<1>2. Honest
  BY DEF Init, Honest, ProbesHonest, PendingHonest, IdleProbe
<1>3. Sound
  BY DEF Init, Sound, GapIsEmpty, WholeListing, UniqueIds, UniqueIdsOf, RowsOf
<1> QED
  BY <1>1, <1>2, <1>3 DEF IInv, Sound

LEMMA StepInv == IInv /\ [Next]_vars => IInv'
  BY StepTyped, StepHonest, StepSound DEF IInv, Sound

THEOREM Invariance == Spec => []IInv
  BY InitInv, StepInv, PTL DEF Spec

\* A reader of the index finds of every target nothing or one whole listing that
\* the target served, no later than the time the rows carry.
THEOREM WholeListings == Spec => []WholeListing
<1>1. IInv => WholeListing
  BY DEF IInv
<1> QED
  BY <1>1, Invariance, PTL

\* No two rows of the index share group, target and slot.
THEOREM UniqueRows == Spec => []UniqueIds
<1>1. IInv => UniqueIds
  BY DEF IInv
<1> QED
  BY <1>1, Invariance, PTL

-----------------------------------------------------------------------------
(***************************************************************************)
(* The pipeline implements TrackerView.                                    *)
(***************************************************************************)
\* The instance has copies of the table's operators; they are the same operators.
LEMMA SameTable ==
  ASSUME NEW rows, NEW g, NEW t, NEW l, NEW n
  PROVE  /\ View!NoGap = NoResult
         /\ View!RowsOf(rows, g, t) = RowsOf(rows, g, t)
         /\ View!Image(g, t, l, n) = Image(g, t, l, n)
         /\ View!DeleteSnapshotsByTarget(rows, g, t) = DeleteSnapshotsByTarget(rows, g, t)
<1>1. View!NoGap = NoResult
  BY DEF View!NoGap, View!AnyGroup, NoResult, AnyGroup
<1>2. View!RowsOf(rows, g, t) = RowsOf(rows, g, t)
  BY DEF View!RowsOf, RowsOf
<1>3. View!EntriesOf(g, t, l, n) = EntriesOf(g, t, l, n)
  BY DEF View!EntriesOf, EntriesOf, View!NewSnapshotKey, NewSnapshotKey,
         View!InverseSlot, InverseSlot
<1>4. View!Image(g, t, l, n) = Image(g, t, l, n)
  BY <1>3 DEF View!Image, Image, View!LastWriters, LastWriters, View!Id, Id
<1>5. View!DeleteSnapshotsByTarget(rows, g, t) = DeleteSnapshotsByTarget(rows, g, t)
  BY DEF View!DeleteSnapshotsByTarget, DeleteSnapshotsByTarget,
         View!MatchesPrefix, MatchesPrefix
<1> QED
  BY <1>1, <1>2, <1>4, <1>5

LEMMA InitRefines == Init => View!Init
  BY SameTable DEF Init, View!Init

LEMMA StepRefines == IInv /\ IInv' /\ [Next]_vars => [View!Next]_View!vars
<1> SUFFICES ASSUME IInv, IInv', [Next]_vars PROVE [View!Next]_View!vars
  OBVIOUS
<1> USE DEF View!vars
<1>1. CASE UNCHANGED <<plan, clock, pending, db>>
  BY <1>1
<1>2. ASSUME NEW s \in Scrapers, NEW k \in Rounds, NEW t \in Targets, Collect(s, k, t),
             probe[s][k][t].reply # Down
      PROVE  View!Next
  <2>1. GroupOf[s] \in Groups
    BY ScrapeAssumption
  <2>2. pending = NoResult /\ pending' = ResultOf(s, t, probe[s][k][t])
    BY <1>2 DEF Collect
  <2>3. pending' # NoResult
    BY <2>1, <2>2, IndexAssumption DEF ResultOf, NoResult
  <2>4. View!Withdraw(GroupOf[s], t)
    BY <1>2, <2>2, <2>3, SameTable DEF Collect, View!Withdraw, ResultOf
  <2> QED
    BY <2>1, <2>4 DEF View!Next
<1>3. CASE Upsert
  <2>1. /\ pending # NoResult
        /\ pending.group \in Groups /\ pending.target \in Targets
        /\ pending.infos \in Listings /\ pending.infos \in Seq(Infos)
        /\ pending.time \in Times
    BY <1>3, PendingTyped DEF Upsert, IInv
  <2>2. pending.time \in 0 .. clock /\ View!ServedBy(pending.target, pending.infos, pending.time)
    BY <2>1 DEF IInv, Honest, PendingHonest
  <2>3. RowsOf(db, pending.group, pending.target) = {}
    BY <2>1 DEF IInv, GapIsEmpty
  <2>4. db' = db \cup Image(pending.group, pending.target, pending.infos, pending.time)
    BY <1>3, <2>1, <2>3, UpsertRows DEF Upsert, IInv, TypeOK
  <2>5. View!Publish(pending.group, pending.target, pending.infos, pending.time)
    BY <1>3, <2>1, <2>2, <2>3, <2>4, SameTable DEF Upsert, View!Publish
  <2> QED
    BY <2>1, <2>2, <2>5 DEF View!Next
<1>4. CASE Advance
  BY <1>4 DEF Advance, View!Next, View!Advance
<1>5. ASSUME NEW s \in Scrapers, ScraperStep(s) PROVE UNCHANGED <<plan, clock, pending, db>>
  BY <1>5 DEF ScraperStep, Start, Tick, Close, RunReturns
<1>6. ASSUME NEW s \in Scrapers, NEW k \in Rounds, RoundStep(s, k)
      PROVE  \/ UNCHANGED <<plan, clock, pending, db>>
             \/ \E t \in Targets : Collect(s, k, t) /\ probe[s][k][t].reply # Down
  BY <1>6 DEF RoundStep, Discover, Answer, Return, Fail, Collect, SendOnClosed
<1>7. CASE CloseCollector \/ UNCHANGED vars
  BY <1>1, <1>7 DEF CloseCollector, vars
<1> QED
  BY <1>1, <1>2, <1>3, <1>4, <1>5, <1>6, <1>7 DEF Next

\* Scraping, with all its overlapping rounds, late results and shutdowns, shows a
\* reader nothing that the abstract view does not allow.
THEOREM Refinement == Spec => ImplementsView
<1>1. Init => View!Init
  BY InitRefines
<1>2. IInv /\ IInv' /\ [Next]_vars => [View!Next]_View!vars
  BY StepRefines
<1> QED
  BY <1>1, <1>2, Invariance, PTL DEF Spec, ImplementsView, View!Spec
=============================================================================

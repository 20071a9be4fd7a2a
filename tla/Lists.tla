-------------------------------- MODULE Lists --------------------------------
(***************************************************************************)
(* Lemmas about the lists of the other modules, for every argument: the    *)
(* files of a directory in order (Ledger!SortFiles), the chain below a     *)
(* file (ChainOf), the listings of a sidecar (ListSnapshots) and of an     *)
(* HTTP target (UrlInfos), and the reads of the index (Walk).              *)
(*                                                                         *)
(* Sorted lists place an element by the number of elements before it, and  *)
(* chains are a recursive function; what is true of all of them follows    *)
(* from the rank that is taken by no element before, and from the least    *)
(* slot at which it would be false.                                        *)
(***************************************************************************)
EXTENDS IndexQueries, UrlListing, FiniteSetTheorems, SequenceTheorems, TLAPS

(***************************************************************************)
(* A finite set with a strict total order, here a set of pairs.            *)
(***************************************************************************)
StrictOrder(R, S) ==
  /\ \A x \in S : <<x, x>> \notin R
  /\ \A x, y, z \in S : <<x, y>> \in R /\ <<y, z>> \in R => <<x, z>> \in R
  /\ \A x, y \in S : x = y \/ <<x, y>> \in R \/ <<y, x>> \in R

Before(R, S, x) == { y \in S : <<y, x>> \in R }

\* The rank of an element: below the size of the set, and the smaller the earlier.
LEMMA RankOrder ==
  ASSUME NEW S, IsFiniteSet(S), NEW R, StrictOrder(R, S), NEW x \in S
  PROVE  /\ Cardinality(Before(R, S, x)) \in 0 .. Cardinality(S) - 1
         /\ \A y \in S : <<x, y>> \in R =>
              Cardinality(Before(R, S, x)) < Cardinality(Before(R, S, y))
<1>1. ASSUME NEW T, IsFiniteSet(T), Before(R, S, x) \subseteq T, x \in T
      PROVE  Cardinality(Before(R, S, x)) \in Nat /\ Cardinality(T) \in Nat
             /\ Cardinality(Before(R, S, x)) < Cardinality(T)
  <2>1. x \notin Before(R, S, x)
    BY DEF Before, StrictOrder
  <2>2. /\ IsFiniteSet(Before(R, S, x))
        /\ Cardinality(Before(R, S, x)) <= Cardinality(T)
        /\ Cardinality(T) = Cardinality(Before(R, S, x)) => T = Before(R, S, x)
    BY <1>1, FS_Subset
  <2>3. Cardinality(Before(R, S, x)) \in Nat /\ Cardinality(T) \in Nat
    BY <1>1, <2>2, FS_CardinalityType
  <2> QED
    BY <1>1, <2>1, <2>2, <2>3
<1>2. Before(R, S, x) \subseteq S
  BY DEF Before
<1>3. Cardinality(Before(R, S, x)) \in 0 .. Cardinality(S) - 1
  BY <1>1, <1>2
<1>4. ASSUME NEW y \in S, <<x, y>> \in R
      PROVE  Cardinality(Before(R, S, x)) < Cardinality(Before(R, S, y))
  <2>1. IsFiniteSet(Before(R, S, y))
    <3>1. Before(R, S, y) \in SUBSET S
      BY DEF Before
    <3> QED
      BY <3>1, FS_Subset
  <2>2. Before(R, S, x) \subseteq Before(R, S, y) /\ x \in Before(R, S, y)
    BY <1>4 DEF Before, StrictOrder
  <2> QED
    BY <1>1, <2>1, <2>2
<1> QED
  BY <1>3, <1>4

\* Every number below the size of the set is the rank of one element.
LEMMA RankTaken ==
  ASSUME NEW S, IsFiniteSet(S), NEW R, StrictOrder(R, S),
         NEW i \in 0 .. Cardinality(S) - 1
  PROVE  \E x \in S : Cardinality(Before(R, S, x)) = i
<1> DEFINE n == Cardinality(S)
           rank == [x \in S |-> Cardinality(Before(R, S, x))]
<1>1. n \in Nat
  BY FS_CardinalityType
<1>2. rank \in [S -> 0 .. n - 1]
  BY RankOrder
<1>3. \A x, y \in S : rank[x] = rank[y] => x = y
  <2> SUFFICES ASSUME NEW x \in S, NEW y \in S, x # y
               PROVE  rank[x] # rank[y]
    OBVIOUS
  <2>1. <<x, y>> \in R \/ <<y, x>> \in R
    BY DEF StrictOrder
  <2>2. rank[x] < rank[y] \/ rank[y] < rank[x]
    BY <2>1, RankOrder
  <2> QED
    BY <1>1, <1>2, <2>2
<1>4. rank \in Injection(S, 0 .. n - 1)
  BY <1>2, <1>3 DEF Injection, IsInjective
<1>5. IsFiniteSet(0 .. n - 1) /\ Cardinality(0 .. n - 1) = n
  BY <1>1, FS_Interval
<1>6. rank \in Surjection(S, 0 .. n - 1)
  BY <1>4, <1>5, FS_Injection
<1> QED
  BY <1>6 DEF Surjection

\* A list that has, at each place, the element of that rank if there is one has every
\* element of the set once, the earlier ones first.
THEOREM Enumeration ==
  ASSUME NEW S, IsFiniteSet(S), NEW R, StrictOrder(R, S),
         NEW list,
         \A i \in 1 .. Cardinality(S) :
           (\E x \in S : Cardinality(Before(R, S, x)) = i - 1)
             => list[i] \in S /\ Cardinality(Before(R, S, list[i])) = i - 1
  PROVE  /\ Cardinality(S) \in Nat
         /\ \A i \in 1 .. Cardinality(S) : list[i] \in S
         /\ \A i, j \in 1 .. Cardinality(S) : i < j => <<list[i], list[j]>> \in R
         /\ \A x \in S : \E i \in 1 .. Cardinality(S) : list[i] = x
<1> DEFINE n == Cardinality(S)
           rank(x) == Cardinality(Before(R, S, x))
<1>1. n \in Nat
  BY FS_CardinalityType
<1>2. ASSUME NEW i \in 1 .. n
      PROVE  list[i] \in S /\ rank(list[i]) = i - 1
  <2>1. i - 1 \in 0 .. n - 1
    BY <1>1
  <2>2. \E x \in S : rank(x) = i - 1
    BY <2>1, RankTaken
  <2> QED
    BY <2>2
<1>3. ASSUME NEW x \in S, NEW y \in S
      PROVE  rank(x) \in 0 .. n - 1 /\ (<<x, y>> \in R => rank(x) < rank(y))
  BY RankOrder
<1>4. ASSUME NEW x \in S, NEW y \in S, rank(x) <= rank(y), x # y
      PROVE  <<x, y>> \in R
  <2>1. rank(x) \in 0 .. n - 1 /\ rank(y) \in 0 .. n - 1
    BY RankOrder
  <2>2. <<y, x>> \in R => rank(y) < rank(x)
    BY <1>3
  <2>3. <<y, x>> \notin R
    BY <1>4, <2>1, <2>2
  <2> QED
    BY <1>4, <2>3 DEF StrictOrder
<1>5. ASSUME NEW i \in 1 .. n, NEW j \in 1 .. n, i < j
      PROVE  <<list[i], list[j]>> \in R
  <2>1. /\ list[i] \in S /\ rank(list[i]) = i - 1
        /\ list[j] \in S /\ rank(list[j]) = j - 1
    BY <1>2
  <2>2. rank(list[i]) <= rank(list[j]) /\ list[i] # list[j]
    BY <1>1, <1>5, <2>1
  <2> QED
    BY <1>4, <2>1, <2>2
<1>6. ASSUME NEW x \in S
      PROVE  \E i \in 1 .. n : list[i] = x
  <2>1. rank(x) \in 0 .. n - 1
    BY <1>3
  <2>2. PICK i \in 1 .. n : i = rank(x) + 1
    BY <1>1, <2>1
  <2>3. list[i] \in S /\ rank(list[i]) = rank(x)
    BY <1>2, <2>1, <2>2
  <2>4. <<list[i], x>> \in R => rank(list[i]) < rank(x)
    BY <1>3, <2>3
  <2>5. <<x, list[i]>> \in R => rank(x) < rank(list[i])
    BY <1>3, <2>3
  <2>6. list[i] = x
    BY <2>1, <2>3, <2>4, <2>5 DEF StrictOrder
  <2> QED
    BY <2>6
<1> QED
  BY <1>1, <1>2, <1>5, <1>6

\* A nonempty set of numbers has a least one.
LEMMA Least ==
  ASSUME NEW S, S \subseteq Nat, S # {}
  PROVE  \E m \in S : \A k \in S : m <= k
<1>1. PICK n \in S : n \in Nat
  OBVIOUS
<1> DEFINE T == { k \in S : k <= n }
           R == { p \in T \X T : p[1] < p[2] }
<1>2. IsFiniteSet(T)
  <2>1. T \in SUBSET Nat /\ \A k \in T : k <= n
    OBVIOUS
  <2> QED
    BY <1>1, <2>1, FS_BoundedSetOfNaturals
<1>3. StrictOrder(R, T)
  BY DEF StrictOrder
<1>4. 0 \in 0 .. Cardinality(T) - 1
  <2>1. T # {} /\ Cardinality(T) \in Nat
    BY <1>1, <1>2, FS_CardinalityType
  <2>2. Cardinality(T) # 0
    BY <1>2, <2>1, FS_EmptySet
  <2> QED
    BY <2>1, <2>2
<1>5. PICK m \in T : Cardinality(Before(R, T, m)) = 0
  <2> HIDE DEF T, R
  <2>1. PICK i \in 0 .. Cardinality(T) - 1 : i = 0
    BY <1>4
  <2> QED
    BY <1>2, <1>3, <2>1, RankTaken
<1>6. Before(R, T, m) = {}
  <2>1. Before(R, T, m) \in SUBSET T
    BY DEF Before
  <2>2. IsFiniteSet(Before(R, T, m))
    BY <1>2, <2>1, FS_Subset
  <2> QED
    BY <1>5, <2>2, FS_EmptySet
<1>7. ASSUME NEW k \in T
      PROVE  m <= k
  <2>1. <<k, m>> \notin R
    BY <1>6 DEF Before
  <2>2. ~(k < m)
    BY <2>1
  <2> QED
    BY <2>2
<1>8. ASSUME NEW k \in S
      PROVE  m <= k
  BY <1>1, <1>7
<1> QED
  BY <1>8

-----------------------------------------------------------------------------
(***************************************************************************)
(* The sorted files.                                                       *)
(***************************************************************************)
\* Part of what a directory can hold, it can hold too.
LEMMA SubLedger ==
  ASSUME NEW files, IsLedger(files), NEW part \in SUBSET files
  PROVE  IsLedger(part)
BY FS_Subset DEF IsLedger

\* Precedes is a strict total order of the files, and none precedes a better one.
LEMMA PrecedesOrder ==
  ASSUME NEW files, IsLedger(files)
  PROVE  /\ StrictOrder({ p \in files \X files : Precedes(p[1], p[2]) }, files)
         /\ \A f, o \in files : Precedes(f, o) => f # o /\ ~Better(o, f)
         /\ \A f \in files : ~Better(f, f)
<1> DEFINE R == { p \in files \X files : Precedes(p[1], p[2]) }
<1>1. ASSUME NEW f \in files
      PROVE  /\ f = [slot |-> f.slot, baseSlot |-> f.baseSlot, hash |-> f.hash, ext |-> f.ext]
             /\ f.slot \in Nat /\ f.baseSlot \in Nat /\ f.hash \in Nat /\ f.ext \in Nat
  BY DEF IsLedger
<1>2. ASSUME NEW f \in files, NEW g \in files
      PROVE  <<f, g>> \in R <=> Precedes(f, g)
  OBVIOUS
<1>3. ASSUME NEW f \in files, NEW g \in files, Better(f, g)
      PROVE  ~Better(g, f)
  BY <1>1, <1>3 DEF Better, IsFull
<1>4. \A f \in files : ~Precedes(f, f)
  BY <1>1 DEF Precedes, Better, IsFull
<1>5. ASSUME NEW f \in files, NEW g \in files, NEW h \in files, Precedes(f, g), Precedes(g, h)
      PROVE  Precedes(f, h)
  <2>1. ASSUME NEW x \in files, NEW y \in files, ~Better(x, y), ~Better(y, x)
        PROVE  x.slot = y.slot /\ x.baseSlot = y.baseSlot /\ x.hash = y.hash
    BY <1>1, <2>1 DEF Better, IsFull
  <2>2. CASE Better(f, g) /\ Better(g, h)
    <3>1. Better(f, h)
      BY <1>1, <2>2 DEF Better, IsFull
    <3> QED
      BY <3>1 DEF Precedes
  <2>3. CASE Better(f, g) /\ ~Better(g, h)
    <3>1. g.slot = h.slot /\ g.baseSlot = h.baseSlot /\ g.hash = h.hash
      BY <1>5, <2>1, <2>3 DEF Precedes
    <3>2. Better(f, h)
      BY <2>3, <3>1 DEF Better, IsFull
    <3> QED
      BY <3>2 DEF Precedes
  <2>4. CASE ~Better(f, g)
    <3>1. f.slot = g.slot /\ f.baseSlot = g.baseSlot /\ f.hash = g.hash /\ f.ext < g.ext
      BY <1>5, <2>1, <2>4 DEF Precedes
    <3>2. /\ Better(f, h) <=> Better(g, h)
          /\ Better(h, f) <=> Better(h, g)
      BY <3>1 DEF Better, IsFull
    <3> QED
      BY <1>1, <1>5, <3>1, <3>2 DEF Precedes
  <2> QED
    BY <2>2, <2>3, <2>4
<1>6. ASSUME NEW f \in files, NEW g \in files, ~Precedes(f, g), ~Precedes(g, f)
      PROVE  f = g
  <2>1. ~Better(f, g) /\ ~Better(g, f) /\ f.ext = g.ext
    BY <1>1, <1>6 DEF Precedes
  <2>2. f.slot = g.slot /\ f.baseSlot = g.baseSlot /\ f.hash = g.hash
    BY <1>1, <2>1 DEF Better, IsFull
  <2> QED
    BY <1>1, <2>1, <2>2
<1> HIDE DEF R
<1>7. StrictOrder(R, files)
  BY <1>2, <1>4, <1>5, <1>6 DEF StrictOrder
<1>8. \A f, o \in files : Precedes(f, o) => f # o /\ ~Better(o, f)
  BY <1>3, <1>4 DEF Precedes
<1>9. \A f \in files : ~Better(f, f)
  BY <1>3
<1> QED
  BY <1>7, <1>8, <1>9 DEF R

\* SortFiles lists the files of a directory once each, best to worst.
LEMMA Sorted ==
  ASSUME NEW files, IsLedger(files)
  PROVE  LET sorted == SortFiles(files)
             n == Cardinality(files)
         IN  /\ n \in Nat /\ IsFiniteSet(files)
             /\ sorted \in [1 .. n -> files]
             /\ \A i, j \in 1 .. n : i < j => /\ Precedes(sorted[i], sorted[j])
                                            /\ sorted[i] # sorted[j]
                                            /\ ~Better(sorted[j], sorted[i])
             /\ \A f \in files : \E i \in 1 .. n : sorted[i] = f
<1> DEFINE list == SortFiles(files)
           n == Cardinality(files)
           R == { p \in files \X files : Precedes(p[1], p[2]) }
<1>0. IsFiniteSet(files)
  BY DEF IsLedger
<1>1. ASSUME NEW f \in files
      PROVE  { o \in files : Precedes(o, f) } = Before(R, files, f)
  BY DEF Before
<1>2. list = [i \in 1 .. n |-> list[i]]
  <2> DEFINE place(i) == CHOOSE f \in files : Cardinality({ o \in files : Precedes(o, f) }) = i - 1
  <2>1. list = [i \in 1 .. n |-> place(i)]
    BY DEF SortFiles
  <2> HIDE DEF list, place
  <2> QED
    BY <2>1
<1>3. ASSUME NEW i \in 1 .. n, NEW x \in files, Cardinality(Before(R, files, x)) = i - 1
      PROVE  list[i] \in files /\ Cardinality(Before(R, files, list[i])) = i - 1
  <2>1. list[i] = CHOOSE f \in files : Cardinality({ o \in files : Precedes(o, f) }) = i - 1
    BY DEF SortFiles
  <2>2. Cardinality({ o \in files : Precedes(o, x) }) = i - 1
    BY <1>1, <1>3
  <2>3. list[i] \in files /\ Cardinality({ o \in files : Precedes(o, list[i]) }) = i - 1
    BY <2>1, <2>2
  <2> QED
    BY <1>1, <2>3
<1>4. \A i \in 1 .. n :
        (\E x \in files : Cardinality(Before(R, files, x)) = i - 1)
          => list[i] \in files /\ Cardinality(Before(R, files, list[i])) = i - 1
  BY <1>3
<1>5. /\ n \in Nat
      /\ \A i \in 1 .. n : list[i] \in files
      /\ \A i, j \in 1 .. n : i < j => <<list[i], list[j]>> \in R
      /\ \A x \in files : \E i \in 1 .. n : list[i] = x
  <2>1. StrictOrder(R, files)
    BY PrecedesOrder
  <2> HIDE DEF list, R
  <2> QED
    BY <1>0, <1>4, <2>1, Enumeration
<1>6. \A i, j \in 1 .. n : i < j => Precedes(list[i], list[j])
  BY <1>5
<1>7. \A i, j \in 1 .. n : i < j => list[i] # list[j] /\ ~Better(list[j], list[i])
  <2> HIDE DEF list
  <2> QED
    BY <1>5, <1>6, PrecedesOrder
<1> QED
  BY <1>0, <1>2, <1>5, <1>6, <1>7

-----------------------------------------------------------------------------
(***************************************************************************)
(* Chains.  ChainOf is a recursive function of the files; it exists as a   *)
(* base slot is below the slot.                                            *)
(***************************************************************************)
\* The file a chain is extended with is at the base slot, and full if a full one is.
LEMMA BestAtSlot ==
  ASSUME NEW files, IsLedger(files), NEW slot, AtSlot(files, slot) # {}
  PROVE  /\ BestAt(files, slot) \in files /\ BestAt(files, slot).slot = slot
         /\ (\E b \in files : IsFull(b) /\ b.slot = slot) => IsFull(BestAt(files, slot))
<1> DEFINE here == AtSlot(files, slot)
           n == Cardinality(here)
           sorted == SortFiles(here)
           best == BestAt(files, slot)
<1>1. here \in SUBSET files
  BY DEF AtSlot
<1>2. IsLedger(here)
  BY <1>1, SubLedger
<1>3. /\ n \in Nat /\ sorted \in [1 .. n -> here]
      /\ \A i, j \in 1 .. n : i < j => Precedes(sorted[i], sorted[j])
      /\ \A f \in here : \E i \in 1 .. n : sorted[i] = f
  BY <1>2, Sorted
<1> HIDE DEF sorted, n
<1>4. 1 \in 1 .. n
  BY <1>3
<1>5. \A o \in here : o # sorted[1] => Precedes(sorted[1], o)
  <2> SUFFICES ASSUME NEW o \in here, o # sorted[1]
               PROVE  Precedes(sorted[1], o)
    OBVIOUS
  <2>1. PICK j \in 1 .. n : sorted[j] = o
    BY <1>3
  <2>2. 1 < j
    BY <1>3, <2>1
  <2> QED
    BY <1>3, <1>4, <2>1, <2>2
<1>6. best = CHOOSE f \in here : \A o \in here : o # f => Precedes(f, o)
  BY DEF BestAt
<1>7. sorted[1] \in here
  BY <1>3, <1>4
<1> HIDE DEF best, here
<1>8. best \in here /\ \A o \in here : o # best => Precedes(best, o)
  BY <1>5, <1>6, <1>7
<1>9. \A b \in files : b.slot = slot => b \in here
  BY DEF here, AtSlot
<1>10. best \in files /\ best.slot = slot
  BY <1>8 DEF here, AtSlot
<1>11. ASSUME NEW b \in files, IsFull(b), b.slot = slot, ~IsFull(best)
       PROVE  FALSE
  <2>1. Precedes(best, b)
    BY <1>8, <1>9, <1>11
  <2>2. best.slot \in Nat
    BY <1>10 DEF IsLedger
  <2> QED
    BY <1>10, <1>11, <2>1, <2>2 DEF Precedes, Better
<1> QED
  BY <1>10, <1>11 DEF best

\* One step of the recursion, chain being the function below.
Step(files, chain, f) ==
  IF IsFull(f) THEN << f >>
  ELSE IF AtSlot(files, f.baseSlot) = {} THEN << >>
  ELSE LET rest == chain[BestAt(files, f.baseSlot)]
       IN  IF rest = << >> THEN << >> ELSE << f >> \o rest

\* The function for the files below a slot.
Below(files, n) == { f \in files : f.slot < n }

HasChains(files, n) == \E g : g = [f \in Below(files, n) |-> Step(files, g, f)]

LEMMA Extended ==
  ASSUME NEW files, IsLedger(files), NEW n \in Nat, HasChains(files, n)
  PROVE  HasChains(files, n + 1)
<1>1. PICK g : g = [f \in Below(files, n) |-> Step(files, g, f)]
  BY DEF HasChains
<1> DEFINE h == [f \in Below(files, n + 1) |-> IF f.slot < n THEN g[f] ELSE Step(files, g, f)]
<1>2. ASSUME NEW f \in Below(files, n + 1)
      PROVE  h[f] = Step(files, h, f)
  <2>1. f \in files /\ f.slot \in Nat /\ f.slot < n + 1 /\ Parses(f)
    BY DEF Below, IsLedger
  <2>2. h[f] = Step(files, g, f)
    <3>1. CASE f.slot < n
      <4>1. f \in Below(files, n)
        BY <2>1, <3>1 DEF Below
      <4>2. g[f] = Step(files, g, f)
        BY <1>1, <4>1
      <4> QED
        BY <3>1, <4>2
    <3>2. CASE ~(f.slot < n)
      BY <3>2
    <3> QED
      BY <3>1, <3>2
  <2>3. ASSUME ~IsFull(f), AtSlot(files, f.baseSlot) # {}
        PROVE  h[BestAt(files, f.baseSlot)] = g[BestAt(files, f.baseSlot)]
    <3> DEFINE b == BestAt(files, f.baseSlot)
    <3>1. b \in files /\ b.slot = f.baseSlot
      BY <2>3, BestAtSlot
    <3>2. f.baseSlot \in Nat /\ f.baseSlot < f.slot
      BY <2>1, <2>3 DEF Parses, IsLedger
    <3>3. b.slot < n /\ b.slot < n + 1
      BY <2>1, <3>1, <3>2
    <3> HIDE DEF b
    <3>4. b \in Below(files, n + 1)
      BY <3>1, <3>3 DEF Below
    <3>5. h[b] = g[b]
      BY <3>3, <3>4
    <3> QED
      BY <3>5 DEF b
  <2> HIDE DEF h
  <2> QED
    BY <2>2, <2>3 DEF Step
<1>3. h = [f \in Below(files, n + 1) |-> h[f]]
  OBVIOUS
<1> HIDE DEF h
<1>4. h = [f \in Below(files, n + 1) |-> Step(files, h, f)]
  BY <1>2, <1>3
<1> QED
  BY <1>4 DEF HasChains

LEMMA ChainsExist ==
  ASSUME NEW files, IsLedger(files)
  PROVE  \E g : g = [f \in files |-> Step(files, g, f)]
<1>1. HasChains(files, 0)
  <2>1. Below(files, 0) = {}
    BY DEF Below, IsLedger
  <2> DEFINE g == [f \in {} |-> << >>]
  <2>2. g = [f \in Below(files, 0) |-> Step(files, g, f)]
    BY <2>1
  <2> QED
    BY <2>2 DEF HasChains
<1>2. \A n \in Nat : HasChains(files, n)
  <2> DEFINE S == { n \in Nat : ~HasChains(files, n) }
  <2> SUFFICES ASSUME S # {}
               PROVE  FALSE
    OBVIOUS
  <2>1. S \subseteq Nat
    OBVIOUS
  <2>2. PICK m \in S : \A k \in S : m <= k
    BY <2>1, Least
  <2>3. m # 0 /\ m \in Nat
    BY <1>1
  <2>4. m - 1 \in Nat /\ m - 1 \notin S
    BY <2>2, <2>3
  <2>5. HasChains(files, m - 1)
    BY <2>4
  <2>6. HasChains(files, (m - 1) + 1)
    BY <2>4, <2>5, Extended
  <2>7. (m - 1) + 1 = m
    BY <2>3
  <2> QED
    BY <2>6, <2>7
<1>3. \E n \in Nat : \A f \in files : f.slot < n
  <2> DEFINE sorted == SortFiles(files)
             k == Cardinality(files)
  <2>1. /\ k \in Nat /\ sorted \in [1 .. k -> files]
        /\ \A i, j \in 1 .. k : i < j => Precedes(sorted[i], sorted[j])
        /\ \A f \in files : \E i \in 1 .. k : sorted[i] = f
    BY Sorted
  <2> HIDE DEF sorted, k
  <2>2. CASE files = {}
    BY <2>2
  <2>3. CASE files # {}
    <3>1. 1 \in 1 .. k
      BY <2>1, <2>3
    <3>2. sorted[1] \in files /\ sorted[1].slot \in Nat
      BY <2>1, <3>1 DEF IsLedger
    <3>3. ASSUME NEW f \in files
          PROVE  f.slot < sorted[1].slot + 1
      <4>1. PICK j \in 1 .. k : sorted[j] = f
        BY <2>1
      <4>2. j = 1 \/ 1 < j
        BY <2>1
      <4>3. f = sorted[1] \/ Precedes(sorted[1], f)
        BY <2>1, <3>1, <4>1, <4>2
      <4>4. f.slot \in Nat
        BY DEF IsLedger
      <4> QED
        BY <3>2, <4>3, <4>4 DEF Precedes, Better
    <3>4. sorted[1].slot + 1 \in Nat
      BY <3>2
    <3> QED
      BY <3>3, <3>4
  <2> QED
    BY <2>2, <2>3
<1>4. PICK n \in Nat : \A f \in files : f.slot < n
  BY <1>3
<1>5. Below(files, n) = files
  BY <1>4 DEF Below
<1> QED
  BY <1>2, <1>5 DEF HasChains

\* The recursion of ChainOf, as an equation.
LEMMA ChainStep ==
  ASSUME NEW files, IsLedger(files), NEW f \in files
  PROVE  ChainOf(files, f) =
           IF IsFull(f) THEN << f >>
           ELSE IF AtSlot(files, f.baseSlot) = {} THEN << >>
           ELSE IF ChainOf(files, BestAt(files, f.baseSlot)) = << >> THEN << >>
           ELSE << f >> \o ChainOf(files, BestAt(files, f.baseSlot))
<1> DEFINE c == CHOOSE g : g = [x \in files |-> Step(files, g, x)]
<1>1. c = [x \in files |-> Step(files, c, x)]
  BY ChainsExist
<1>2. ASSUME NEW x
      PROVE  ChainOf(files, x) = c[x]
  BY DEF ChainOf, Step
<1> HIDE DEF c
<1>3. c[f] = Step(files, c, f)
  BY <1>1
<1>4. ChainOf(files, f) = Step(files, c, f)
  BY <1>2, <1>3
<1>5. c[BestAt(files, f.baseSlot)] = ChainOf(files, BestAt(files, f.baseSlot))
  BY <1>2
<1> QED
  BY <1>4, <1>5 DEF Step

\* A chain from f down to a full file, each file at the base slot of the one before.
IsChain(files, chain, f) ==
  /\ chain \in Seq(files) /\ Len(chain) >= 1 /\ chain[1] = f
  /\ \A j \in 1 .. Len(chain) - 1 :
       ~IsFull(chain[j]) /\ chain[j].baseSlot = chain[j + 1].slot
  /\ IsFull(chain[Len(chain)])

LEMMA ChainGrows ==
  ASSUME NEW files, NEW f \in files, ~IsFull(f), NEW b \in files, b.slot = f.baseSlot,
         NEW rest, IsChain(files, rest, b)
  PROVE  IsChain(files, << f >> \o rest, f)
<1> DEFINE chain == << f >> \o rest
           n == Len(rest)
<1>1. rest \in Seq(files) /\ n \in Nat /\ n >= 1 /\ rest[1] = b
  BY DEF IsChain
<1>2. << f >> \in Seq(files) /\ Len(<< f >>) = 1 /\ << f >>[1] = f
  OBVIOUS
<1>3. /\ chain \in Seq(files) /\ Len(chain) = 1 + n
      /\ \A i \in 1 .. 1 + n : chain[i] = IF i <= 1 THEN << f >>[i] ELSE rest[i - 1]
  BY <1>1, <1>2, ConcatProperties
<1> HIDE DEF chain, n
<1>4. chain[1] = f
  BY <1>1, <1>2, <1>3
<1>5. ASSUME NEW i \in 1 .. n
      PROVE  chain[i + 1] = rest[i]
  <2>1. i + 1 \in 1 .. 1 + n /\ ~(i + 1 <= 1) /\ (i + 1) - 1 = i
    BY <1>1
  <2> QED
    BY <1>3, <2>1
<1>6. ASSUME NEW j \in 1 .. (1 + n) - 1
      PROVE  ~IsFull(chain[j]) /\ chain[j].baseSlot = chain[j + 1].slot
  <2>1. j \in 1 .. n /\ chain[j + 1] = rest[j]
    BY <1>1, <1>5
  <2>2. CASE j = 1
    BY <1>1, <1>4, <2>1, <2>2
  <2>3. CASE j # 1
    <3>1. j - 1 \in 1 .. n /\ j - 1 \in 1 .. n - 1 /\ (j - 1) + 1 = j
      BY <1>1, <2>1, <2>3
    <3>2. chain[j] = rest[j - 1]
      BY <1>5, <3>1
    <3>3. ~IsFull(rest[j - 1]) /\ rest[j - 1].baseSlot = rest[(j - 1) + 1].slot
      BY <3>1 DEF IsChain, n
    <3> QED
      BY <2>1, <3>1, <3>2, <3>3
  <2> QED
    BY <2>2, <2>3
<1>7. IsFull(chain[1 + n])
  <2>1. n \in 1 .. n /\ 1 + n = n + 1
    BY <1>1
  <2>2. chain[n + 1] = rest[n]
    BY <1>5, <2>1
  <2> QED
    BY <2>1, <2>2 DEF IsChain, n
<1>8. Len(chain) >= 1
  BY <1>1, <1>3
<1> QED
  BY <1>3, <1>4, <1>6, <1>7, <1>8 DEF IsChain, chain

\* Chains are complete or empty, and the chain of a file that has a full one at its
\* base is complete.
LEMMA Chains ==
  ASSUME NEW files, IsLedger(files), NEW f \in files
  PROVE  /\ ChainOf(files, f) = << >> \/ IsChain(files, ChainOf(files, f), f)
         /\ IsFull(f) => ChainOf(files, f) = << f >>
         /\ (\E b \in files : IsFull(b) /\ b.slot = f.baseSlot) => ChainOf(files, f) # << >>
<1> DEFINE Good(x) == ChainOf(files, x) = << >> \/ IsChain(files, ChainOf(files, x), x)
           bad == { x \in files : ~Good(x) }
           S == { x.slot : x \in bad }
<1>1. ASSUME NEW x \in files, IsFull(x)
      PROVE  ChainOf(files, x) = << x >> /\ IsChain(files, << x >>, x)
  <2>1. ChainOf(files, x) = << x >>
    BY <1>1, ChainStep
  <2>2. << x >> \in Seq(files) /\ Len(<< x >>) = 1 /\ << x >>[1] = x
    OBVIOUS
  <2>3. IsChain(files, << x >>, x)
    BY <1>1, <2>2 DEF IsChain
  <2> QED
    BY <2>1, <2>3
<1>2. ASSUME NEW x \in files, \A b \in files : b.slot < x.slot => Good(b)
      PROVE  Good(x)
  <2>1. CASE IsFull(x)
    BY <1>1, <2>1
  <2>2. CASE ~IsFull(x) /\ AtSlot(files, x.baseSlot) = {}
    BY <2>2, ChainStep
  <2>3. CASE ~IsFull(x) /\ AtSlot(files, x.baseSlot) # {}
    <3> DEFINE b == BestAt(files, x.baseSlot)
    <3>1. b \in files /\ b.slot = x.baseSlot
      BY <2>3, BestAtSlot
    <3>2. x.baseSlot < x.slot
      BY <2>3 DEF IsLedger, Parses
    <3>3. ChainOf(files, x) = IF ChainOf(files, b) = << >> THEN << >>
                              ELSE << x >> \o ChainOf(files, b)
      BY <2>3, ChainStep
    <3> HIDE DEF b
    <3>4. Good(b)
      BY <1>2, <3>1, <3>2
    <3>5. CASE ChainOf(files, b) = << >>
      BY <3>3, <3>5
    <3>6. CASE ChainOf(files, b) # << >>
      <4>1. IsChain(files, ChainOf(files, b), b)
        BY <3>4, <3>6
      <4>2. IsChain(files, << x >> \o ChainOf(files, b), x)
        BY <2>3, <3>1, <4>1, ChainGrows
      <4> QED
        BY <3>3, <3>6, <4>2
    <3> QED
      BY <3>5, <3>6
  <2> QED
    BY <2>1, <2>2, <2>3
<1> HIDE DEF Good
<1>3. bad = {}
  <2> SUFFICES ASSUME bad # {}
               PROVE  FALSE
    OBVIOUS
  <2>1. S \subseteq Nat /\ S # {}
    BY DEF IsLedger
  <2> HIDE DEF S
  <2>2. PICK m \in S : \A k \in S : m <= k
    BY <2>1, Least
  <2>3. PICK x \in bad : x.slot = m
    BY DEF S
  <2>4. ASSUME NEW b \in files, b.slot < x.slot
        PROVE  Good(b)
    <3> SUFFICES ASSUME ~Good(b)
                 PROVE  FALSE
      OBVIOUS
    <3>1. b.slot \in S
      BY DEF S
    <3>2. b.slot \in Nat /\ m \in Nat /\ m <= b.slot
      BY <2>1, <2>2, <3>1
    <3> QED
      BY <2>3, <2>4, <3>2
  <2> QED
    BY <1>2, <2>3, <2>4
<1>4. ASSUME NEW b \in files, IsFull(b), b.slot = f.baseSlot, ~IsFull(f)
      PROVE  ChainOf(files, f) # << >>
  <2> DEFINE best == BestAt(files, f.baseSlot)
  <2>1. AtSlot(files, f.baseSlot) # {}
    BY <1>4 DEF AtSlot
  <2>2. best \in files /\ IsFull(best)
    BY <1>4, <2>1, BestAtSlot
  <2>3. ChainOf(files, f) = IF ChainOf(files, best) = << >> THEN << >>
                            ELSE << f >> \o ChainOf(files, best)
    BY <1>4, <2>1, ChainStep
  <2> HIDE DEF best
  <2>4. ChainOf(files, best) = << best >>
    BY <1>1, <2>2
  <2>5. << best >> # << >>
    OBVIOUS
  <2>6. ChainOf(files, f) = << f >> \o << best >>
    BY <2>3, <2>4, <2>5
  <2>7. << f >> \o << best >> # << >>
    OBVIOUS
  <2> QED
    BY <2>6, <2>7
<1>5. IsFull(f) => ChainOf(files, f) # << >>
  <2>1. << f >> # << >>
    OBVIOUS
  <2> QED
    BY <1>1, <2>1
<1> QED
  BY <1>1, <1>3, <1>4, <1>5 DEF Good

-----------------------------------------------------------------------------
(***************************************************************************)
(* The listing of a sidecar.                                               *)
(***************************************************************************)
\* It has the snapshot of each file that has a complete chain, and no other, no worse
\* one before a better.
LEMMA Listings ==
  ASSUME NEW files, IsLedger(files)
  PROVE  LET infos == ListSnapshots(files)
             complete == { f \in files : ChainOf(files, f) # << >> }
             n == Cardinality(complete)
         IN  /\ n \in Nat /\ Len(infos) = n /\ DOMAIN infos = 1 .. n
             /\ \A i \in 1 .. n : \E f \in complete :
                  /\ IsChain(files, infos[i].files, f)
                  /\ infos[i] = InfoOf(infos[i].files)
             /\ \A i, j \in 1 .. n :
                  i < j => /\ infos[i].files[1] # infos[j].files[1]
                           /\ ~Better(infos[j].files[1], infos[i].files[1])
             /\ \A f \in complete : \E i \in 1 .. n : infos[i].files[1] = f
<1> DEFINE complete == { f \in files : ChainOf(files, f) # << >> }
           n == Cardinality(complete)
           sorted == SortFiles(complete)
           infos == ListSnapshots(files)
<1>1. complete \in SUBSET files
  OBVIOUS
<1>2. IsLedger(complete)
  BY <1>1, SubLedger
<1>3. /\ n \in Nat /\ sorted \in [1 .. n -> complete]
      /\ \A i, j \in 1 .. n : i < j => sorted[i] # sorted[j] /\ ~Better(sorted[j], sorted[i])
      /\ \A f \in complete : \E i \in 1 .. n : sorted[i] = f
  BY <1>2, Sorted
<1>4. infos = [i \in DOMAIN sorted |-> InfoOf(ChainOf(files, sorted[i]))]
  BY DEF ListSnapshots
<1> HIDE DEF sorted, n, infos
<1>5. /\ DOMAIN infos = 1 .. n /\ Len(infos) = n
      /\ \A i \in 1 .. n : infos[i] = InfoOf(ChainOf(files, sorted[i]))
  BY <1>3, <1>4
<1>6. ASSUME NEW i \in 1 .. n
      PROVE  /\ sorted[i] \in complete
             /\ IsChain(files, infos[i].files, sorted[i])
             /\ infos[i] = InfoOf(infos[i].files)
             /\ infos[i].files[1] = sorted[i]
  <2>1. sorted[i] \in complete
    BY <1>3
  <2>2. infos[i].files = ChainOf(files, sorted[i])
    BY <1>5 DEF InfoOf
  <2>3. IsChain(files, infos[i].files, sorted[i])
    BY <2>1, <2>2, Chains
  <2> QED
    BY <1>5, <2>1, <2>2, <2>3 DEF IsChain
<1> HIDE DEF complete
<1> QED
  BY <1>3, <1>5, <1>6 DEF complete, n, infos

-----------------------------------------------------------------------------
(***************************************************************************)
(* The listing of an HTTP target.                                          *)
(***************************************************************************)
\* A directory with a file of a kind redirects to the best of them, one without to none.
LEMMA Redirected ==
  ASSUME NEW files, IsLedger(files), NEW full \in BOOLEAN
  PROVE  /\ Redirect(files, full) \subseteq files
         /\ \A f \in Redirect(files, full) : IsFull(f) <=> full
         /\ \A f \in files : (IsFull(f) <=> full) =>
              \E b \in Redirect(files, full) : ~Better(f, b)
         /\ \A f, g \in Redirect(files, full) : f = g
<1> DEFINE ofKind == { f \in files : IsFull(f) <=> full }
           list == SortFiles(ofKind)
           n == Cardinality(ofKind)
<1>1. IsLedger(ofKind)
  <2>1. ofKind \in SUBSET files
    OBVIOUS
  <2> QED
    BY <2>1, SubLedger
<1>2. /\ n \in Nat
      /\ list \in [1 .. n -> ofKind]
      /\ \A i, j \in 1 .. n : i < j => Precedes(list[i], list[j])
      /\ \A f \in ofKind : \E i \in 1 .. n : list[i] = f
  BY <1>1, Sorted
<1>3. /\ StrictOrder({ p \in ofKind \X ofKind : Precedes(p[1], p[2]) }, ofKind)
      /\ \A f, o \in ofKind : Precedes(f, o) => ~Better(o, f)
      /\ \A f \in ofKind : ~Better(f, f)
  BY <1>1, PrecedesOrder
<1>4. \A f, g \in ofKind : ~(Precedes(f, g) /\ Precedes(g, f))
  <2>1. \A f, g \in ofKind :
          Precedes(f, g) <=> <<f, g>> \in { p \in ofKind \X ofKind : Precedes(p[1], p[2]) }
    OBVIOUS
  <2> QED
    BY <1>3, <2>1 DEF StrictOrder
<1>5. Redirect(files, full) = { f \in ofKind : \A o \in ofKind : o # f => Precedes(f, o) }
  BY DEF Redirect
<1> HIDE DEF list, n
<1>6. ASSUME NEW f \in ofKind
      PROVE  \E b \in Redirect(files, full) : ~Better(f, b)
  <2>1. PICK i \in 1 .. n : list[i] = f
    BY <1>2
  <2>2. 1 \in 1 .. n
    BY <1>2
  <2>3. list[1] \in ofKind
    BY <1>2, <2>2
  <2>4. ASSUME NEW o \in ofKind, o # list[1]
        PROVE  Precedes(list[1], o)
    <3>1. PICK j \in 1 .. n : list[j] = o
      BY <1>2
    <3>2. j # 1 /\ 1 < j
      BY <1>2, <2>4, <3>1
    <3> QED
      BY <1>2, <2>2, <3>1, <3>2
  <2>5. list[1] \in Redirect(files, full)
    BY <1>5, <2>3, <2>4
  <2>6. ~Better(f, list[1])
    BY <1>3, <2>3, <2>4
  <2> QED
    BY <2>5, <2>6
<1>7. ASSUME NEW f \in Redirect(files, full), NEW g \in Redirect(files, full)
      PROVE  f = g
  BY <1>4, <1>5
<1> QED
  BY <1>5, <1>6, <1>7

\* The files of a snapshot made of an incremental file: that file, and the full one of
\* its base if the target has it.
LEMMA Chain ==
  ASSUME NEW files, IsLedger(files), NEW full \in SUBSET files, NEW inc \in files,
         \A f, g \in full : f = g
  PROVE  LET chain == UrlChain(inc, full)
             base == { f \in full : inc.baseSlot = f.slot }
         IN  /\ chain \in Seq(files)
             /\ chain[1] = inc
             /\ \/ base = {} /\ Len(chain) = 1
                \/ base # {} /\ Len(chain) = 2 /\ chain[2] \in base
<1> DEFINE base == { f \in full : inc.baseSlot = f.slot }
           sorted == SortFiles(base)
           n == Cardinality(base)
<1>0. base \in SUBSET files /\ IsLedger(base)
  BY SubLedger
<1>1. /\ n \in Nat
      /\ sorted \in [1 .. n -> base]
      /\ \A i, j \in 1 .. n : i < j => Precedes(sorted[i], sorted[j])
      /\ \A f \in base : \E i \in 1 .. n : sorted[i] = f
  BY <1>0, Sorted
<1>2. StrictOrder({ p \in base \X base : Precedes(p[1], p[2]) }, base)
  BY <1>0, PrecedesOrder
<1>3. \A f \in base : ~Precedes(f, f)
  BY <1>2 DEF StrictOrder
<1>4. n <= 1
  <2> SUFFICES ASSUME n > 1
               PROVE  FALSE
    BY <1>1
  <2>1. 1 \in 1 .. n /\ 2 \in 1 .. n /\ 1 < 2
    BY <1>1
  <2>2. sorted[1] \in base /\ sorted[2] \in base /\ Precedes(sorted[1], sorted[2])
    BY <1>1, <2>1
  <2> QED
    BY <1>3, <2>2
<1> HIDE DEF sorted, n
<1>5. sorted \in Seq(files) /\ Len(sorted) = n
  BY <1>1
<1>6. << inc >> \in Seq(files) /\ Len(<< inc >>) = 1 /\ << inc >>[1] = inc
  OBVIOUS
<1>7. /\ UrlChain(inc, full) \in Seq(files)
      /\ Len(UrlChain(inc, full)) = 1 + n
      /\ \A i \in 1 .. 1 + n : UrlChain(inc, full)[i] =
           IF i <= 1 THEN << inc >>[i] ELSE sorted[i - 1]
  BY <1>5, <1>6, ConcatProperties DEF UrlChain, sorted
<1>8. UrlChain(inc, full)[1] = inc
  BY <1>1, <1>6, <1>7
<1>9. CASE n = 0
  <2>1. base = {}
    BY <1>1, <1>9
  <2> QED
    BY <1>7, <1>8, <1>9, <2>1
<1>10. CASE n = 1
  <2>1. 1 \in 1 .. n /\ sorted[1] \in base
    BY <1>1, <1>10
  <2>2. UrlChain(inc, full)[2] = sorted[1]
    BY <1>7, <1>10
  <2> QED
    BY <1>7, <1>8, <1>10, <2>1, <2>2
<1> QED
  BY <1>1, <1>4, <1>9, <1>10

\* A listing has the snapshot of each full file and of each incremental one, no other.
IsUrlListing(infos, full, incremental) ==
  /\ \E k \in Nat : DOMAIN infos = 1 .. k
  /\ \A i \in DOMAIN infos :
       \/ \E f \in full : infos[i] = InfoOf(<< f >>)
       \/ \E f \in incremental : infos[i] = UrlInfo(f, full)
  /\ \A f \in full : \E i \in DOMAIN infos : infos[i] = InfoOf(<< f >>)
  /\ \A f \in incremental : \E i \in DOMAIN infos : infos[i] = UrlInfo(f, full)

LEMMA BothListed ==
  ASSUME NEW files, IsLedger(files), NEW full \in SUBSET files,
         NEW incremental \in SUBSET files
  PROVE  IsUrlListing(UrlInfos(full, incremental), full, incremental)
<1> DEFINE fulls == SortFiles(full)
           incs == SortFiles(incremental)
           m == Cardinality(full)
           n == Cardinality(incremental)
           S == { InfoOf(<< f >>) : f \in full } \cup { UrlInfo(f, full) : f \in incremental }
           first == [i \in DOMAIN fulls |-> InfoOf(<< fulls[i] >>)]
           second == [i \in DOMAIN incs |-> UrlInfo(incs[i], full)]
           infos == UrlInfos(full, incremental)
<1>0. IsLedger(full) /\ IsLedger(incremental)
  BY SubLedger
<1>1. /\ m \in Nat /\ fulls \in [1 .. m -> full]
      /\ \A f \in full : \E i \in 1 .. m : fulls[i] = f
  BY <1>0, Sorted
<1>2. /\ n \in Nat /\ incs \in [1 .. n -> incremental]
      /\ \A f \in incremental : \E i \in 1 .. n : incs[i] = f
  BY <1>0, Sorted
<1>3. infos = first \o second
  BY DEF UrlInfos
<1> HIDE DEF m, n, fulls, incs, infos
<1>4. /\ first \in [1 .. m -> S]
      /\ \A i \in 1 .. m : first[i] = InfoOf(<< fulls[i] >>)
  BY <1>1
<1>5. /\ second \in [1 .. n -> S]
      /\ \A i \in 1 .. n : second[i] = UrlInfo(incs[i], full)
  BY <1>2
<1> HIDE DEF first, second, S
<1>6. first \in Seq(S) /\ Len(first) = m /\ second \in Seq(S) /\ Len(second) = n
  BY <1>1, <1>2, <1>4, <1>5
<1>7. /\ infos \in Seq(S) /\ Len(infos) = m + n
      /\ \A i \in 1 .. m + n : infos[i] = IF i <= m THEN first[i] ELSE second[i - m]
  BY <1>3, <1>6, ConcatProperties
<1>8. DOMAIN infos = 1 .. m + n
  BY <1>7
<1>9. ASSUME NEW i \in DOMAIN infos
      PROVE  \/ \E f \in full : infos[i] = InfoOf(<< f >>)
             \/ \E f \in incremental : infos[i] = UrlInfo(f, full)
  <2>1. CASE i <= m
    <3>1. i \in 1 .. m
      BY <1>1, <1>2, <1>8, <2>1
    <3>2. infos[i] = InfoOf(<< fulls[i] >>) /\ fulls[i] \in full
      BY <1>1, <1>4, <1>7, <1>8, <2>1, <3>1
    <3> QED
      BY <3>2
  <2>2. CASE ~(i <= m)
    <3>1. i - m \in 1 .. n
      BY <1>1, <1>2, <1>8, <2>2
    <3>2. infos[i] = UrlInfo(incs[i - m], full) /\ incs[i - m] \in incremental
      BY <1>2, <1>5, <1>7, <1>8, <2>2, <3>1
    <3> QED
      BY <3>2
  <2> QED
    BY <2>1, <2>2
<1>10. ASSUME NEW f \in full
       PROVE  \E i \in DOMAIN infos : infos[i] = InfoOf(<< f >>)
  <2>1. PICK i \in 1 .. m : fulls[i] = f
    BY <1>1
  <2>2. i \in 1 .. m + n /\ i <= m
    BY <1>1, <1>2
  <2> QED
    BY <1>4, <1>7, <1>8, <2>1, <2>2
<1>11. ASSUME NEW f \in incremental
       PROVE  \E i \in DOMAIN infos : infos[i] = UrlInfo(f, full)
  <2>1. PICK i \in 1 .. n : incs[i] = f
    BY <1>2
  <2>2. PICK k \in 1 .. m + n : ~(k <= m) /\ k - m = i
    <3>1. m + i \in 1 .. m + n
      BY <1>1, <1>2
    <3>2. ~(m + i <= m) /\ (m + i) - m = i
      BY <1>1, <1>2
    <3> WITNESS m + i \in 1 .. m + n
    <3> QED
      BY <3>2
  <2>3. infos[k] = second[i]
    BY <1>7, <2>2
  <2>4. second[i] = UrlInfo(f, full)
    BY <1>5, <2>1
  <2> QED
    BY <1>8, <2>2, <2>3, <2>4
<1>12. \E k \in Nat : DOMAIN infos = 1 .. k
  <2>1. m + n \in Nat
    BY <1>1, <1>2
  <2> QED
    BY <1>8, <2>1
<1> QED
  BY <1>9, <1>10, <1>11, <1>12 DEF infos, IsUrlListing

-----------------------------------------------------------------------------
(***************************************************************************)
(* The walk over an index lists every row once, in the order of its keys.  *)
(***************************************************************************)
\* The tables the index can be in: rows under the keys made of their snapshots, no two
\* under one id.
IsTable(table) ==
  /\ IsFiniteSet(table) /\ UniqueIdsOf(table)
  /\ \A e \in table :
       /\ e.key.group \in Int /\ e.key.target \in Int
       /\ e.key.baseSlot \in Int
       /\ e.info.slot \in Slots /\ e.key.inverseSlot = InverseSlot(e.info.slot)

LEMMA SubTable ==
  ASSUME NEW table, IsTable(table), NEW rows \in SUBSET table
  PROVE  IsTable(rows)
BY FS_Subset DEF IsTable, UniqueIdsOf

\* The keys of rows, which are numbers.
LEMMA KeyFields ==
  ASSUME NEW rows, IsTable(rows), NEW e \in rows
  PROVE  /\ e.key.group \in Int /\ e.key.target \in Int /\ e.key.inverseSlot \in Int
         /\ e.key.baseSlot \in Int
         /\ e.info.slot \in Slots /\ e.info.slot \in Nat
         /\ e.key.inverseSlot = MaxSlot - e.info.slot
<1>1. MaxSlot \in Nat /\ Slots \subseteq Nat
  BY IndexAssumption DEF Slots
<1>2. /\ e.key.group \in Int /\ e.key.target \in Int /\ e.key.baseSlot \in Int
      /\ e.info.slot \in Slots /\ e.key.inverseSlot = MaxSlot - e.info.slot
  BY DEF IsTable, InverseSlot
<1>3. e.info.slot \in Nat
  BY <1>1, <1>2
<1>4. e.key.inverseSlot \in Int
  BY <1>1, <1>2, <1>3
<1> QED
  BY <1>2, <1>3, <1>4

Order(rows, key) == { p \in rows \X rows : LexLess(key[p[1]], key[p[2]]) }

LEMMA WalkLists ==
  ASSUME NEW rows, IsFiniteSet(rows), NEW key, StrictOrder(Order(rows, key), rows)
  PROVE  LET list == Walk(rows, key)
             n == Cardinality(rows)
         IN  /\ n \in Nat
             /\ list \in [1 .. n -> rows]
             /\ \A i, j \in 1 .. n : i < j => LexLess(key[list[i]], key[list[j]])
             /\ \A e \in rows : \E i \in 1 .. n : list[i] = e
<1> DEFINE list == Walk(rows, key)
           n == Cardinality(rows)
           R == Order(rows, key)
<1>1. ASSUME NEW e \in rows
      PROVE  { f \in rows : LexLess(key[f], key[e]) } = Before(R, rows, e)
  BY DEF Before, Order
<1>2. list = [i \in 1 .. n |-> list[i]]
  BY DEF Walk
<1>3. ASSUME NEW i \in 1 .. n, NEW x \in rows, Cardinality(Before(R, rows, x)) = i - 1
      PROVE  list[i] \in rows /\ Cardinality(Before(R, rows, list[i])) = i - 1
  <2>1. list[i] = CHOOSE e \in rows : Cardinality({ f \in rows : LexLess(key[f], key[e]) }) = i - 1
    BY DEF Walk
  <2>2. Cardinality({ f \in rows : LexLess(key[f], key[x]) }) = i - 1
    BY <1>1, <1>3
  <2>3. list[i] \in rows /\ Cardinality({ f \in rows : LexLess(key[f], key[list[i]]) }) = i - 1
    BY <2>1, <2>2
  <2> QED
    BY <1>1, <2>3
<1>4. \A i \in 1 .. n :
        (\E x \in rows : Cardinality(Before(R, rows, x)) = i - 1)
          => list[i] \in rows /\ Cardinality(Before(R, rows, list[i])) = i - 1
  BY <1>3
<1>5. /\ n \in Nat
      /\ \A i \in 1 .. n : list[i] \in rows
      /\ \A i, j \in 1 .. n : i < j => <<list[i], list[j]>> \in R
      /\ \A x \in rows : \E i \in 1 .. n : list[i] = x
  <2>1. StrictOrder(R, rows)
    OBVIOUS
  <2> HIDE DEF list, R
  <2> QED
    BY <1>4, <2>1, Enumeration
<1> QED
  BY <1>2, <1>5 DEF Order

\* The order of tuples of numbers, written out.
LEMMA Lex3 ==
  ASSUME NEW a, NEW b, DOMAIN a = 1 .. 3,
         a[1] \in Int, a[2] \in Int, a[3] \in Int, b[1] \in Int, b[2] \in Int, b[3] \in Int
  PROVE  LexLess(a, b) <=>
           \/ a[1] < b[1]
           \/ a[1] = b[1] /\ (a[2] < b[2] \/ (a[2] = b[2] /\ a[3] < b[3]))
<1>1. DOMAIN a = {1, 2, 3}
  OBVIOUS
<1> QED
  BY <1>1 DEF LexLess

LEMMA Lex4 ==
  ASSUME NEW a, NEW b, DOMAIN a = 1 .. 4,
         a[1] \in Int, a[2] \in Int, a[3] \in Int, a[4] \in Int,
         b[1] \in Int, b[2] \in Int, b[3] \in Int, b[4] \in Int
  PROVE  LexLess(a, b) <=>
           \/ a[1] < b[1]
           \/ a[1] = b[1] /\ (a[2] < b[2]
                \/ (a[2] = b[2] /\ (a[3] < b[3] \/ (a[3] = b[3] /\ a[4] < b[4]))))
<1>1. DOMAIN a = {1, 2, 3, 4}
  OBVIOUS
<1> QED
  BY <1>1 DEF LexLess

LEMMA SlotKey ==
  ASSUME NEW s \in Int, NEW g \in Int, NEW t \in Int, NEW inv \in Int
  PROVE  LET key == << s >> \o << g, t, inv >>
         IN  DOMAIN key = 1 .. 4 /\ key[1] = s /\ key[2] = g /\ key[3] = t /\ key[4] = inv
<1>1. << s >> \in Seq(Int) /\ Len(<< s >>) = 1 /\ << s >>[1] = s
  OBVIOUS
<1>2. /\ << g, t, inv >> \in Seq(Int) /\ Len(<< g, t, inv >>) = 3
      /\ << g, t, inv >>[1] = g /\ << g, t, inv >>[2] = t /\ << g, t, inv >>[3] = inv
  OBVIOUS
<1> QED
  BY <1>1, <1>2

\* Tables without two rows of one id have their rows in order by id, and newest first.
LEMMA ByIdOrder ==
  ASSUME NEW rows, IsTable(rows)
  PROVE  StrictOrder(Order(rows, ById(rows)), rows)
<1>1. ASSUME NEW e \in rows, NEW f \in rows
      PROVE  <<e, f>> \in Order(rows, ById(rows)) <=>
               \/ e.key.group < f.key.group
               \/ /\ e.key.group = f.key.group
                  /\ \/ e.key.target < f.key.target
                     \/ e.key.target = f.key.target /\ e.key.inverseSlot < f.key.inverseSlot
  <2>1. <<e, f>> \in Order(rows, ById(rows)) <=> LexLess(Id(e), Id(f))
    BY DEF Order, ById
  <2>2. ASSUME NEW x \in rows
        PROVE  /\ DOMAIN Id(x) = 1 .. 3
               /\ Id(x)[1] = x.key.group /\ Id(x)[2] = x.key.target
               /\ Id(x)[3] = x.key.inverseSlot
               /\ x.key.group \in Int /\ x.key.target \in Int /\ x.key.inverseSlot \in Int
    BY KeyFields DEF Id
  <2> QED
    BY <2>1, <2>2, Lex3
<1>2. ASSUME NEW e \in rows, NEW f \in rows,
             e.key.group = f.key.group, e.key.target = f.key.target,
             e.key.inverseSlot = f.key.inverseSlot
      PROVE  e = f
  BY <1>2 DEF IsTable, UniqueIdsOf, Id
<1>3. \A e \in rows : e.key.group \in Int /\ e.key.target \in Int /\ e.key.inverseSlot \in Int
  BY KeyFields
<1> HIDE DEF Order
<1> QED
  BY <1>1, <1>2, <1>3 DEF StrictOrder

LEMMA BySlotOrder ==
  ASSUME NEW rows, IsTable(rows)
  PROVE  /\ StrictOrder(Order(rows, BySlot(rows)), rows)
         /\ \A e, f \in rows : LexLess(BySlot(rows)[e], BySlot(rows)[f])
                                 => e.key.inverseSlot <= f.key.inverseSlot
<1>1. ASSUME NEW e \in rows, NEW f \in rows
      PROVE  LexLess(BySlot(rows)[e], BySlot(rows)[f]) <=>
               \/ e.key.inverseSlot < f.key.inverseSlot
               \/ /\ e.key.inverseSlot = f.key.inverseSlot
                  /\ \/ e.key.group < f.key.group
                     \/ e.key.group = f.key.group /\ e.key.target < f.key.target
  <2>1. ASSUME NEW x \in rows
        PROVE  /\ DOMAIN BySlot(rows)[x] = 1 .. 4
               /\ BySlot(rows)[x][1] = x.key.inverseSlot
               /\ BySlot(rows)[x][2] = x.key.group
               /\ BySlot(rows)[x][3] = x.key.target
               /\ BySlot(rows)[x][4] = x.key.inverseSlot
               /\ x.key.group \in Int /\ x.key.target \in Int /\ x.key.inverseSlot \in Int
    <3>1. BySlot(rows)[x] = << x.key.inverseSlot >>
                              \o << x.key.group, x.key.target, x.key.inverseSlot >>
      BY DEF BySlot, Id
    <3> QED
      BY <3>1, KeyFields, SlotKey
  <2> DEFINE a == BySlot(rows)[e]
             b == BySlot(rows)[f]
  <2>2. /\ DOMAIN a = 1 .. 4
        /\ a[1] \in Int /\ a[2] \in Int /\ a[3] \in Int /\ a[4] \in Int
        /\ b[1] \in Int /\ b[2] \in Int /\ b[3] \in Int /\ b[4] \in Int
    BY <2>1
  <2>3. /\ a[1] = e.key.inverseSlot /\ a[2] = e.key.group
        /\ a[3] = e.key.target /\ a[4] = a[1]
        /\ b[1] = f.key.inverseSlot /\ b[2] = f.key.group
        /\ b[3] = f.key.target /\ b[4] = b[1]
    BY <2>1
  <2> HIDE DEF a, b
  <2>4. LexLess(a, b) <=>
          \/ a[1] < b[1]
          \/ a[1] = b[1] /\ (a[2] < b[2]
               \/ (a[2] = b[2] /\ (a[3] < b[3] \/ (a[3] = b[3] /\ a[4] < b[4]))))
    BY <2>2, Lex4
  <2>5. LexLess(a, b) <=>
          \/ a[1] < b[1]
          \/ a[1] = b[1] /\ (a[2] < b[2] \/ (a[2] = b[2] /\ a[3] < b[3]))
    BY <2>2, <2>3, <2>4
  <2> QED
    BY <2>3, <2>5 DEF a, b
<1>2. ASSUME NEW e \in rows, NEW f \in rows,
             e.key.group = f.key.group, e.key.target = f.key.target,
             e.key.inverseSlot = f.key.inverseSlot
      PROVE  e = f
  BY <1>2 DEF IsTable, UniqueIdsOf, Id
<1>3. \A e \in rows : e.key.group \in Int /\ e.key.target \in Int /\ e.key.inverseSlot \in Int
  BY KeyFields
<1>4. \A e, f \in rows : <<e, f>> \in Order(rows, BySlot(rows))
                           <=> LexLess(BySlot(rows)[e], BySlot(rows)[f])
  BY DEF Order
<1> QED
  BY <1>1, <1>2, <1>3, <1>4 DEF StrictOrder

LEMMA ByBaseSlotOrder ==
  ASSUME NEW rows, IsTable(rows)
  PROVE  StrictOrder(Order(rows, ByBaseSlot(rows)), rows)
<1> DEFINE key == ByBaseSlot(rows)
<1>1. ASSUME NEW x \in rows
      PROVE  /\ DOMAIN key[x] = 1 .. 4
             /\ key[x][1] = x.key.baseSlot /\ key[x][2] = x.key.group
             /\ key[x][3] = x.key.target /\ key[x][4] = x.key.inverseSlot
             /\ x.key.group \in Int /\ x.key.target \in Int
             /\ x.key.inverseSlot \in Int /\ x.key.baseSlot \in Int
  <2>1. key[x] = << x.key.baseSlot >> \o << x.key.group, x.key.target, x.key.inverseSlot >>
    BY DEF ByBaseSlot, Id
  <2> QED
    BY <2>1, KeyFields, SlotKey
<1>2. ASSUME NEW x \in rows, NEW y \in rows
      PROVE  LexLess(key[x], key[y]) <=>
               \/ x.key.baseSlot < y.key.baseSlot
               \/ /\ x.key.baseSlot = y.key.baseSlot
                  /\ \/ x.key.group < y.key.group
                     \/ /\ x.key.group = y.key.group
                        /\ \/ x.key.target < y.key.target
                           \/ /\ x.key.target = y.key.target
                              /\ x.key.inverseSlot < y.key.inverseSlot
  <2> DEFINE a == key[x]
             b == key[y]
  <2>1. /\ DOMAIN a = 1 .. 4
        /\ a[1] \in Int /\ a[2] \in Int /\ a[3] \in Int /\ a[4] \in Int
        /\ b[1] \in Int /\ b[2] \in Int /\ b[3] \in Int /\ b[4] \in Int
        /\ a[1] = x.key.baseSlot /\ a[2] = x.key.group
        /\ a[3] = x.key.target /\ a[4] = x.key.inverseSlot
        /\ b[1] = y.key.baseSlot /\ b[2] = y.key.group
        /\ b[3] = y.key.target /\ b[4] = y.key.inverseSlot
    BY <1>1
  <2> HIDE DEF a, b
  <2>2. LexLess(a, b) <=>
          \/ a[1] < b[1]
          \/ a[1] = b[1] /\ (a[2] < b[2]
               \/ (a[2] = b[2] /\ (a[3] < b[3] \/ (a[3] = b[3] /\ a[4] < b[4]))))
    BY <2>1, Lex4
  <2> QED
    BY <2>1, <2>2 DEF a, b
<1>3. ASSUME NEW e \in rows, NEW f \in rows,
             e.key.group = f.key.group, e.key.target = f.key.target,
             e.key.inverseSlot = f.key.inverseSlot
      PROVE  e = f
  BY <1>3 DEF IsTable, UniqueIdsOf, Id
<1>4. \A e \in rows : /\ e.key.group \in Int /\ e.key.target \in Int
                     /\ e.key.inverseSlot \in Int /\ e.key.baseSlot \in Int
  BY KeyFields
<1>5. \A e, f \in rows : <<e, f>> \in Order(rows, key) <=> LexLess(key[e], key[f])
  BY DEF Order
<1> HIDE DEF key
<1>6. StrictOrder(Order(rows, key), rows)
  BY <1>2, <1>3, <1>4, <1>5 DEF StrictOrder
<1> QED
  BY <1>6 DEF key

LEMMA GroupRows ==
  ASSUME NEW table, IsTable(table), NEW g
  PROVE  LET rows == InGroup(table, g)
         IN  /\ IsTable(rows) /\ IsFiniteSet(rows)
             /\ \A e, f \in rows : /\ e.info.slot \in Nat
                                   /\ e.key.inverseSlot <= f.key.inverseSlot
                                        => e.info.slot >= f.info.slot
<1> DEFINE rows == InGroup(table, g)
<1>1. IsTable(rows)
  <2>1. rows \in SUBSET table
    BY DEF InGroup
  <2> QED
    BY <2>1, SubTable
<1> HIDE DEF rows
<1>2. ASSUME NEW e \in rows
      PROVE  e.info.slot \in Nat /\ e.key.inverseSlot = MaxSlot - e.info.slot
  BY <1>1, KeyFields
<1>3. MaxSlot \in Nat
  BY IndexAssumption
<1>4. IsFiniteSet(rows)
  BY <1>1 DEF IsTable
<1> QED
  BY <1>1, <1>2, <1>3, <1>4 DEF rows

\* What a limited read returns: rows of the group, newest first, and what it leaves out
\* is at most as new.
LEMMA BestRows ==
  ASSUME NEW table, IsTable(table), NEW g, NEW max \in Int
  PROVE  LET rows == InGroup(table, g)
             best == GetBestSnapshotsByGroup(table, g, max)
             n == Cardinality(rows)
             k == IF max < 0 \/ max + 1 > n THEN n ELSE max + 1
         IN  /\ n \in Nat /\ Len(best) = k /\ DOMAIN best = 1 .. k
             /\ \A i \in 1 .. k : best[i] \in rows
             /\ \A i, j \in 1 .. k :
                  i < j => best[i] # best[j] /\ best[i].info.slot >= best[j].info.slot
             /\ \A e \in rows : \/ \E i \in 1 .. k : best[i] = e
                                \/ k < n /\ \A i \in 1 .. k : e.info.slot <= best[i].info.slot
<1> DEFINE rows == InGroup(table, g)
           list == Walk(rows, BySlot(rows))
           best == GetBestSnapshotsByGroup(table, g, max)
           n == Cardinality(rows)
           k == IF max < 0 \/ max + 1 > n THEN n ELSE max + 1
<1>1. /\ IsTable(rows) /\ IsFiniteSet(rows)
      /\ \A e, f \in rows : /\ e.info.slot \in Nat
                            /\ e.key.inverseSlot <= f.key.inverseSlot
                                 => e.info.slot >= f.info.slot
  BY GroupRows
<1>2. /\ StrictOrder(Order(rows, BySlot(rows)), rows)
      /\ \A e, f \in rows : LexLess(BySlot(rows)[e], BySlot(rows)[f])
                              => e.key.inverseSlot <= f.key.inverseSlot
  BY <1>1, BySlotOrder
<1>3. /\ n \in Nat
      /\ list \in [1 .. n -> rows]
      /\ \A i, j \in 1 .. n : i < j => LexLess(BySlot(rows)[list[i]], BySlot(rows)[list[j]])
      /\ \A e \in rows : \E i \in 1 .. n : list[i] = e
  BY <1>1, <1>2, WalkLists
<1>4. \A i, j \in 1 .. n : i < j => list[i] # list[j] /\ list[i].info.slot >= list[j].info.slot
  <2> SUFFICES ASSUME NEW i \in 1 .. n, NEW j \in 1 .. n, i < j
               PROVE  list[i] # list[j] /\ list[i].info.slot >= list[j].info.slot
    OBVIOUS
  <2>1. list[i] \in rows /\ list[j] \in rows
    BY <1>3
  <2>2. LexLess(BySlot(rows)[list[i]], BySlot(rows)[list[j]])
    BY <1>3
  <2>3. list[i].key.inverseSlot <= list[j].key.inverseSlot
    BY <1>2, <2>1, <2>2
  <2>4. <<list[i], list[j]>> \in Order(rows, BySlot(rows))
    BY <2>1, <2>2 DEF Order
  <2>5. list[i] # list[j]
    BY <1>2, <2>1, <2>4 DEF StrictOrder
  <2> QED
    BY <1>1, <2>1, <2>3, <2>5
<1>5. /\ k \in 0 .. n
      /\ Len(best) = k /\ DOMAIN best = 1 .. k
      /\ \A i \in 1 .. k : best[i] = list[i]
  <2>1. list \in Seq(rows) /\ Len(list) = n
    BY <1>3
  <2>2. best = SubSeq(list, 1, k)
    BY <1>3, <2>1 DEF GetBestSnapshotsByGroup
  <2>3. k \in 0 .. n
    BY <1>3
  <2> HIDE DEF list, best, k, n
  <2> QED
    BY <1>3, <2>1, <2>2, <2>3
<1>6. ASSUME NEW i \in 1 .. n, NEW j \in 1 .. n, i < j
      PROVE  list[j].info.slot <= list[i].info.slot
  <2>1. list[i].info.slot \in Nat /\ list[j].info.slot \in Nat
    BY <1>1, <1>3
  <2> QED
    BY <1>4, <1>6, <2>1
<1>7. ASSUME NEW e \in rows, \A i \in 1 .. k : best[i] # e, NEW i \in 1 .. k
      PROVE  e.info.slot <= best[i].info.slot
  <2>1. PICK j \in 1 .. n : list[j] = e
    BY <1>3
  <2>2. i < j /\ i \in 1 .. n
    <3> HIDE DEF list, best, k
    <3> QED
      BY <1>3, <1>5, <1>7, <2>1
  <2>3. list[j].info.slot <= list[i].info.slot
    BY <1>6, <2>2
  <2> HIDE DEF list, best, k
  <2> QED
    BY <1>5, <2>1, <2>3
<1>10. ASSUME NEW e \in rows, \A i \in 1 .. k : best[i] # e
       PROVE  k < n
  <2>1. PICK j \in 1 .. n : list[j] = e
    BY <1>3
  <2> HIDE DEF list, best, k
  <2> QED
    BY <1>3, <1>5, <1>10, <2>1
<1>8. \A i \in 1 .. k : best[i] \in rows
  <2> HIDE DEF list, best, k
  <2> QED
    BY <1>3, <1>5
<1>9. \A i, j \in 1 .. k :
        i < j => best[i] # best[j] /\ best[i].info.slot >= best[j].info.slot
  <2> HIDE DEF list, best, k
  <2> QED
    BY <1>3, <1>4, <1>5
<1> HIDE DEF list, best, k
<1> QED
  BY <1>3, <1>5, <1>7, <1>8, <1>9, <1>10 DEF best, k

LEMMA BestIsSeq ==
  ASSUME NEW table, IsTable(table), NEW g, NEW max \in Int
  PROVE  GetBestSnapshotsByGroup(table, g, max) \in Seq(InGroup(table, g))
<1> DEFINE rows == InGroup(table, g)
           list == Walk(rows, BySlot(rows))
           n == Cardinality(rows)
           k == IF max < 0 \/ max + 1 > n THEN n ELSE max + 1
<1>1. n \in Nat /\ list \in [1 .. n -> rows]
  BY GroupRows, BySlotOrder, WalkLists
<1>2. list \in Seq(rows) /\ Len(list) = n /\ k \in 0 .. n
  BY <1>1
<1>3. GetBestSnapshotsByGroup(table, g, max) = SubSeq(list, 1, k)
  BY <1>1, <1>2 DEF GetBestSnapshotsByGroup
<1> HIDE DEF list, k, n
<1> QED
  BY <1>1, <1>2, <1>3

\* What a read in the order of ids, or of base slots, returns: the rows it is over, once
\* each.
LEMMA IdWalk ==
  ASSUME NEW rows, IsTable(rows)
  PROVE  LET list == Walk(rows, ById(rows))
             n == Cardinality(rows)
         IN  /\ n \in Nat /\ list \in [1 .. n -> rows] /\ Len(list) = n
             /\ \A e \in rows : \E i \in 1 .. n : list[i] = e
<1> DEFINE list == Walk(rows, ById(rows))
           n == Cardinality(rows)
<1>1. IsFiniteSet(rows)
  BY DEF IsTable
<1>2. StrictOrder(Order(rows, ById(rows)), rows)
  BY ByIdOrder
<1>3. /\ n \in Nat
      /\ list \in [1 .. n -> rows]
      /\ \A e \in rows : \E i \in 1 .. n : list[i] = e
  BY <1>1, <1>2, WalkLists
<1> HIDE DEF list, n
<1>4. Len(list) = n
  BY <1>3
<1> QED
  BY <1>3, <1>4 DEF list, n

\* Of the rows of one group and target the newest comes first in the order of ids.
LEMMA IdWalkNewestFirst ==
  ASSUME NEW rows, IsTable(rows)
  PROVE  LET list == Walk(rows, ById(rows))
         IN  \A i, j \in 1 .. Cardinality(rows) :
               i < j => /\ list[i] # list[j]
                        /\ (list[i].key.group = list[j].key.group /\ list[i].key.target = list[j].key.target)
                             => list[i].info.slot > list[j].info.slot
<1> DEFINE list == Walk(rows, ById(rows))
           n == Cardinality(rows)
<1>1. IsFiniteSet(rows)
  BY DEF IsTable
<1>2. StrictOrder(Order(rows, ById(rows)), rows)
  BY ByIdOrder
<1>3. /\ n \in Nat
      /\ list \in [1 .. n -> rows]
      /\ \A i, j \in 1 .. n : i < j => LexLess(ById(rows)[list[i]], ById(rows)[list[j]])
  BY <1>1, <1>2, WalkLists
<1> HIDE DEF list, n
<1> SUFFICES ASSUME NEW i \in 1 .. n, NEW j \in 1 .. n, i < j
             PROVE  /\ list[i] # list[j]
                    /\ (list[i].key.group = list[j].key.group /\ list[i].key.target = list[j].key.target)
                         => list[i].info.slot > list[j].info.slot
  BY DEF list, n
<1>4. list[i] \in rows /\ list[j] \in rows /\ LexLess(Id(list[i]), Id(list[j]))
  BY <1>3 DEF ById
<1>5. list[i] # list[j]
  <2>1. <<list[i], list[j]>> \in Order(rows, ById(rows))
    BY <1>3, <1>4 DEF Order
  <2> QED
    BY <1>2, <1>4, <2>1 DEF StrictOrder
<1>6. ASSUME list[i].key.group = list[j].key.group, list[i].key.target = list[j].key.target
      PROVE  list[i].info.slot > list[j].info.slot
  <2> DEFINE x == list[i]
             y == list[j]
  <2>1. ASSUME NEW e \in rows
        PROVE  /\ DOMAIN Id(e) = 1 .. 3
               /\ Id(e)[1] = e.key.group /\ Id(e)[2] = e.key.target /\ Id(e)[3] = e.key.inverseSlot
               /\ e.key.group \in Int /\ e.key.target \in Int /\ e.key.inverseSlot \in Int
               /\ e.info.slot \in Nat /\ e.key.inverseSlot = MaxSlot - e.info.slot
    BY KeyFields DEF Id
  <2>2. x \in rows /\ y \in rows /\ LexLess(Id(x), Id(y))
        /\ x.key.group = y.key.group /\ x.key.target = y.key.target
    BY <1>4, <1>6
  <2> HIDE DEF x, y
  <2>3. x.key.inverseSlot < y.key.inverseSlot
    BY <2>1, <2>2, Lex3
  <2>4. MaxSlot \in Nat
    BY IndexAssumption
  <2>5. x.info.slot > y.info.slot
    BY <2>1, <2>2, <2>3, <2>4
  <2> QED
    BY <2>5 DEF x, y
<1> QED
  BY <1>5, <1>6

LEMMA BaseSlotWalk ==
  ASSUME NEW rows, IsTable(rows)
  PROVE  LET list == Walk(rows, ByBaseSlot(rows))
             n == Cardinality(rows)
         IN  /\ n \in Nat /\ list \in [1 .. n -> rows] /\ Len(list) = n
             /\ \A e \in rows : \E i \in 1 .. n : list[i] = e
<1> DEFINE list == Walk(rows, ByBaseSlot(rows))
           n == Cardinality(rows)
<1>1. IsFiniteSet(rows)
  BY DEF IsTable
<1>2. StrictOrder(Order(rows, ByBaseSlot(rows)), rows)
  BY ByBaseSlotOrder
<1>3. /\ n \in Nat
      /\ list \in [1 .. n -> rows]
      /\ \A e \in rows : \E i \in 1 .. n : list[i] = e
  BY <1>1, <1>2, WalkLists
<1> HIDE DEF list, n
<1>4. Len(list) = n
  BY <1>3
<1> QED
  BY <1>3, <1>4 DEF list, n

\* The newest row of a group comes first.
LEMMA NewestRow ==
  ASSUME NEW table, IsTable(table), NEW g, NEW max \in Int, max = 1
  PROVE  LET best == GetBestSnapshotsByGroup(table, g, max)
             rows == InGroup(table, g)
         IN  /\ best = << >> => rows = {}
             /\ best # << >> => /\ best[1] \in rows
                                /\ \A e \in rows : e.info.slot <= best[1].info.slot
             /\ \A e \in rows : e.info.slot \in Slots
<1> DEFINE rows == InGroup(table, g)
           best == GetBestSnapshotsByGroup(table, g, max)
           n == Cardinality(rows)
           k == IF max < 0 \/ max + 1 > n THEN n ELSE max + 1
<1>1. /\ n \in Nat /\ Len(best) = k /\ DOMAIN best = 1 .. k
      /\ \A i \in 1 .. k : best[i] \in rows
      /\ \A i, j \in 1 .. k : i < j => best[i].info.slot >= best[j].info.slot
      /\ \A e \in rows : \/ \E i \in 1 .. k : best[i] = e
                         \/ k < n /\ \A i \in 1 .. k : e.info.slot <= best[i].info.slot
  BY BestRows
<1>2. k \in Nat /\ (k < n => k = 2)
  BY <1>1
<1>3. \A e \in rows : e.info.slot \in Slots
  BY GroupRows, KeyFields
<1>4. \A e \in rows : e.info.slot \in Nat
  BY GroupRows
<1> HIDE DEF best, k, n
<1>5. best # << >> => k >= 1
  <2>1. CASE k = 0
    <3>1. DOMAIN best = {} /\ Len(best) = 0
      BY <1>1, <2>1
    <3>2. best = << >>
      BY <3>1, <1>1, BestIsSeq DEF best
    <3> QED
      BY <3>2
  <2>2. CASE k # 0
    BY <1>2, <2>2
  <2> QED
    BY <2>1, <2>2
<1>6. ASSUME k >= 1
      PROVE  best[1] \in rows /\ \A e \in rows : e.info.slot <= best[1].info.slot
  <2>1. 1 \in 1 .. k /\ best[1] \in rows
    BY <1>1, <1>2, <1>6
  <2>2. ASSUME NEW e \in rows
        PROVE  e.info.slot <= best[1].info.slot
    <3>1. CASE \E i \in 1 .. k : best[i] = e
      <4>1. PICK i \in 1 .. k : best[i] = e
        BY <3>1
      <4>2. i = 1 \/ 1 < i
        BY <1>2
      <4> QED
        BY <1>1, <1>4, <2>1, <4>1, <4>2
    <3>2. CASE \A i \in 1 .. k : e.info.slot <= best[i].info.slot
      BY <2>1, <3>2
    <3> QED
      BY <1>1, <3>1, <3>2
  <2> QED
    BY <2>1, <2>2
<1>7. ASSUME best = << >>
      PROVE  rows = {}
  <2>1. k = 0
    BY <1>1, <1>7
  <2> QED
    BY <1>1, <1>2, <2>1
<1> QED
  BY <1>3, <1>5, <1>6, <1>7 DEF best

-----------------------------------------------------------------------------
\* What a sequence of inserts leaves: one row under each id, of those inserted.
LEMMA LastWritten ==
  ASSUME NEW g, NEW t, NEW time, NEW n \in Nat, NEW infos, DOMAIN infos = 1 .. n
  PROVE  LET es == EntriesOf(g, t, infos, time)
             rows == LastWriters(es)
         IN  /\ DOMAIN es = 1 .. n
             /\ IsFiniteSet(rows) /\ UniqueIdsOf(rows)
             /\ \A e \in rows : \E i \in 1 .. n : e = es[i]
<1> DEFINE es == EntriesOf(g, t, infos, time)
           rows == LastWriters(es)
<1>1. DOMAIN es = 1 .. n
  BY DEF EntriesOf
<1>2. rows \subseteq { es[i] : i \in 1 .. n }
  BY <1>1 DEF LastWriters
<1>3. UniqueIdsOf(rows)
  <2> SUFFICES ASSUME NEW i \in 1 .. n, NEW j \in 1 .. n,
                      \A k \in 1 .. n : k > i => Id(es[k]) # Id(es[i]),
                      \A k \in 1 .. n : k > j => Id(es[k]) # Id(es[j]),
                      Id(es[i]) = Id(es[j])
               PROVE  es[i] = es[j]
    BY <1>1 DEF UniqueIdsOf, LastWriters
  <2>1. i = j
    OBVIOUS
  <2> QED
    BY <2>1
<1>4. IsFiniteSet(rows)
  <2> DEFINE all == { es[i] : i \in 1 .. n }
             f == [i \in 1 .. n |-> es[i]]
  <2>1. f \in Surjection(1 .. n, all)
    BY DEF Surjection
  <2>2. IsFiniteSet(1 .. n)
    BY FS_Interval
  <2>3. IsFiniteSet(all)
    BY <2>1, <2>2, FS_Surjection
  <2> QED
    BY <1>2, <2>3, FS_Subset
<1> HIDE DEF es, rows
<1> QED
  BY <1>1, <1>2, <1>3, <1>4 DEF es, rows
=============================================================================

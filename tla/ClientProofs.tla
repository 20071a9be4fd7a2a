---------------------------- MODULE ClientProofs ----------------------------
(***************************************************************************)
(* Proofs about what uses the tracker: what the index says of the nodes'   *)
(* ledgers (Nodes), the fetch command and the mirror, for any ledgers of   *)
(* the nodes, any command line and local ledger, and any changes meanwhile.*)
(***************************************************************************)
EXTENDS Fetch, Mirror, Lists

(***************************************************************************)
(* The snapshots the index has, and what it says of them.                  *)
(***************************************************************************)
\* A snapshot of files: its base slot is the slot of its full file and the base of its
\* incremental one.
SnapshotOf(files, info) ==
  /\ info.slot \in Slots /\ info.baseSlot \in Slots \ {0}
  /\ info.files \in Seq(files)
  /\ \A f \in FilesIn(info) : IF IsFull(f) THEN f.slot = info.baseSlot ELSE f.baseSlot = info.baseSlot

FullOf(info) == { f \in FilesIn(info) : IsFull(f) }

\* A row is found under the key of its snapshot.
RowIs(e) ==
  /\ e.key.target \in Targets
  /\ e.key = NewSnapshotKey(Group, e.key.target, e.info.slot, e.info.baseSlot)
  /\ SnapshotOf(Files, e.info)

\* A sidecar lists complete snapshots, and has their files as long as nothing was taken
\* away.
RowFits(e) ==
  /\ RowIs(e)
  /\ e.key.target \notin http =>
       /\ FullOf(e.info) # {}
       /\ calm => FilesIn(e.info) \subseteq dir(e.key.target)

NodesInv ==
  /\ NodesTypeOK
  /\ IsFiniteSet(db) /\ UniqueIdsOf(db)
  /\ \A e \in db : RowFits(e)

\* The ledgers of the nodes.
LEMMA NodeLedger ==
  ASSUME NEW n \in Stages
  PROVE  /\ OfValidator(Ledgers[n]) /\ IsLedger(Ledgers[n])
         /\ Ledgers[n] \subseteq Files
         /\ n \in 1 .. Len(Ledgers) /\ 1 .. n \subseteq Stages
BY NodesAssumption DEF Stages, Files, OfValidator

LEMMA InFiles ==
  ASSUME NEW files, NEW info, SnapshotOf(files, info), NEW more, files \subseteq more
  PROVE  SnapshotOf(more, info) /\ FilesIn(info) \subseteq files
<1>1. info.files \in Seq(files) /\ info.files \in Seq(more)
  BY DEF SnapshotOf
<1> QED
  BY <1>1 DEF SnapshotOf, FilesIn

LEMMA NodeSlots ==
  ASSUME NEW files, OfValidator(files), NEW f \in files
  PROVE  /\ f.slot \in Nat /\ f.baseSlot \in Nat /\ f.slot \in Slots \ {0}
         /\ ~IsFull(f) => f.baseSlot \in Slots \ {0}
<1>1. MaxSlot \in Nat
  BY IndexAssumption
<1>2. /\ f.slot \in Nat /\ f.baseSlot \in Nat /\ f.slot \in 1 .. MaxSlot
      /\ f.baseSlot = 0 \/ f.baseSlot < f.slot
  BY DEF OfValidator, IsLedger, Parses, IsFull
<1>3. f.slot \in Slots \ {0}
  BY <1>1, <1>2 DEF Slots
<1>4. f.baseSlot # 0 => f.baseSlot \in Slots \ {0}
  BY <1>1, <1>2 DEF Slots
<1> QED
  BY <1>2, <1>3, <1>4 DEF IsFull

\* A chain of a validator's files has at most two of them.
LEMMA ChainFits ==
  ASSUME NEW files, OfValidator(files), NEW f, NEW chain, IsChain(files, chain, f)
  PROVE  SnapshotOf(files, InfoOf(chain)) /\ FullOf(InfoOf(chain)) # {}
<1> DEFINE info == InfoOf(chain)
           n == Len(chain)
<1>1. /\ chain \in Seq(files) /\ n \in Nat /\ n >= 1
      /\ \A j \in 1 .. n - 1 : ~IsFull(chain[j]) /\ chain[j].baseSlot = chain[j + 1].slot
      /\ IsFull(chain[n])
  BY DEF IsChain
<1>2. info.slot = chain[1].slot /\ info.baseSlot = chain[n].slot /\ info.files = chain
  BY DEF InfoOf
<1> HIDE DEF info, n
<1>3. DOMAIN chain = 1 .. n
  BY <1>1 DEF n
<1>4. \A j \in 1 .. n : chain[j] \in files
  BY <1>1, <1>3
<1>5. chain[1] \in files /\ chain[n] \in files /\ n \in 1 .. n
  BY <1>1, <1>4
<1>6. info.slot \in Slots /\ info.baseSlot \in Slots \ {0}
  BY <1>2, <1>5, NodeSlots
<1>7. ASSUME NEW j \in 1 .. n, j # n
      PROVE  ~IsFull(chain[j]) /\ chain[j].baseSlot = chain[n].slot
  <2>1. j \in 1 .. n - 1 /\ j + 1 \in 1 .. n
    BY <1>1, <1>7
  <2>2. ~IsFull(chain[j]) /\ chain[j].baseSlot = chain[j + 1].slot
    BY <1>1, <2>1
  <2>3. IsFull(chain[j + 1])
    BY <1>4, <2>1, <2>2 DEF OfValidator
  <2>4. j + 1 = n
    <3>1. j + 1 \in 1 .. n - 1 \/ j + 1 = n
      BY <1>1, <2>1
    <3> QED
      BY <1>1, <2>3, <3>1
  <2> QED
    BY <2>2, <2>4
<1>8. ASSUME NEW g \in FilesIn(info)
      PROVE  IF IsFull(g) THEN g.slot = info.baseSlot ELSE g.baseSlot = info.baseSlot
  <2>1. PICK j \in 1 .. n : g = chain[j]
    BY <1>2, <1>3 DEF FilesIn
  <2> QED
    BY <1>1, <1>2, <1>7, <2>1
<1>9. SnapshotOf(files, info)
  BY <1>1, <1>2, <1>6, <1>8 DEF SnapshotOf
<1>10. chain[n] \in FullOf(info)
  BY <1>1, <1>2, <1>3, <1>5 DEF FullOf, FilesIn
<1> QED
  BY <1>9, <1>10 DEF info

\* What a sidecar lists.
LEMMA SidecarLists ==
  ASSUME NEW n \in Stages
  PROVE  /\ \E k \in Nat : DOMAIN Listing[n] = 1 .. k
         /\ \A i \in DOMAIN Listing[n] :
              /\ SnapshotOf(Ledgers[n], Listing[n][i])
              /\ FullOf(Listing[n][i]) # {}
<1> DEFINE files == Ledgers[n]
           infos == ListSnapshots(files)
           complete == { f \in files : ChainOf(files, f) # << >> }
           k == Cardinality(complete)
<1>1. OfValidator(files) /\ IsLedger(files)
  BY NodeLedger
<1>2. Listing[n] = infos
  BY DEF Listing
<1>3. /\ k \in Nat /\ DOMAIN infos = 1 .. k
      /\ \A i \in 1 .. k : \E f \in complete :
           /\ IsChain(files, infos[i].files, f)
           /\ infos[i] = InfoOf(infos[i].files)
  BY <1>1, Listings
<1> HIDE DEF infos, complete, k, files
<1>4. ASSUME NEW i \in 1 .. k
      PROVE  SnapshotOf(files, infos[i]) /\ FullOf(infos[i]) # {}
  <2>1. PICK f \in complete :
          /\ IsChain(files, infos[i].files, f)
          /\ infos[i] = InfoOf(infos[i].files)
    BY <1>3
  <2> DEFINE chain == infos[i].files
  <2>2. SnapshotOf(files, InfoOf(chain)) /\ FullOf(InfoOf(chain)) # {}
    BY <1>1, <2>1, ChainFits
  <2> QED
    BY <2>1, <2>2
<1> QED
  BY <1>2, <1>3, <1>4 DEF files

\* What an HTTP target is found to have, of its ledgers at the two requests.
LEMMA UrlLists ==
  ASSUME NEW m \in Stages, NEW n \in Stages
  PROVE  /\ \E k \in Nat : DOMAIN UrlListingAt(m, n) = 1 .. k
         /\ \A i \in DOMAIN UrlListingAt(m, n) : SnapshotOf(Files, UrlListingAt(m, n)[i])
<1> DEFINE full == Redirect(Ledgers[m], TRUE)
           incs == Redirect(Ledgers[n], FALSE)
           files == Ledgers[m] \cup Ledgers[n]
           infos == UrlInfos(full, incs)
<1>1. /\ OfValidator(Ledgers[m]) /\ IsLedger(Ledgers[m])
      /\ OfValidator(Ledgers[n]) /\ IsLedger(Ledgers[n])
      /\ files \subseteq Files
  BY NodeLedger
<1>2. IsLedger(files)
  BY <1>1, FS_Union DEF IsLedger
<1>3. /\ full \subseteq Ledgers[m] /\ \A f \in full : IsFull(f)
      /\ \A f, g \in full : f = g
  BY <1>1, Redirected
<1>4. incs \subseteq Ledgers[n] /\ \A f \in incs : ~IsFull(f)
  BY <1>1, Redirected
<1>5. UrlListingAt(m, n) = infos
  BY DEF UrlListingAt
<1> HIDE DEF full, incs, files
<1>6. full \in SUBSET files /\ incs \in SUBSET files
  BY <1>3, <1>4 DEF files
<1>7. /\ \E k \in Nat : DOMAIN infos = 1 .. k
      /\ \A i \in DOMAIN infos :
           \/ \E f \in full : infos[i] = InfoOf(<< f >>)
           \/ \E f \in incs : infos[i] = UrlInfo(f, full)
  <2>1. IsUrlListing(infos, full, incs)
    BY <1>2, <1>6, BothListed
  <2> HIDE DEF infos
  <2> QED
    BY <2>1 DEF IsUrlListing
<1> HIDE DEF infos
<1>8. ASSUME NEW f \in full
      PROVE  SnapshotOf(files, InfoOf(<< f >>))
  <2> DEFINE info == InfoOf(<< f >>)
  <2>1. f \in files /\ f.slot \in Slots \ {0} /\ IsFull(f)
    BY <1>1, <1>3, <1>6, NodeSlots
  <2>2. info.slot = f.slot /\ info.baseSlot = f.slot /\ info.files = << f >>
    BY DEF InfoOf
  <2> HIDE DEF info
  <2>3. info.files \in Seq(files) /\ FilesIn(info) = {f}
    BY <2>1, <2>2 DEF FilesIn
  <2> QED
    BY <2>1, <2>2, <2>3 DEF SnapshotOf, info
<1>9. ASSUME NEW f \in incs
      PROVE  SnapshotOf(files, UrlInfo(f, full))
  <2> DEFINE info == UrlInfo(f, full)
             chain == UrlChain(f, full)
  <2>1. /\ f \in files /\ ~IsFull(f)
        /\ f.slot \in Slots \ {0} /\ f.baseSlot \in Slots \ {0}
    BY <1>1, <1>4, <1>6, NodeSlots
  <2>2. info.slot = f.slot /\ info.baseSlot = f.baseSlot /\ info.files = chain
    BY DEF UrlInfo
  <2>3. /\ chain \in Seq(files) /\ chain[1] = f
        /\ \/ Len(chain) = 1
           \/ Len(chain) = 2 /\ chain[2] \in { g \in full : f.baseSlot = g.slot }
    BY <1>2, <1>3, <1>6, <2>1, Chain
  <2> HIDE DEF info, chain
  <2>4. ASSUME NEW g \in FilesIn(info)
        PROVE  IF IsFull(g) THEN g.slot = info.baseSlot ELSE g.baseSlot = info.baseSlot
    <3>1. PICK i \in 1 .. Len(chain) : g = chain[i]
      BY <2>2, <2>3 DEF FilesIn
    <3>2. g = f \/ (g \in full /\ f.baseSlot = g.slot)
      BY <2>3, <3>1
    <3> QED
      BY <1>3, <2>1, <2>2, <3>2
  <2> QED
    BY <2>1, <2>2, <2>3, <2>4 DEF SnapshotOf, info
<1>10. ASSUME NEW i \in DOMAIN infos
       PROVE  SnapshotOf(Files, infos[i])
  <2>1. SnapshotOf(files, infos[i])
    BY <1>7, <1>8, <1>9
  <2> QED
    BY <1>1, <2>1, InFiles DEF files
<1> QED
  BY <1>5, <1>7, <1>10

\* The rows of a listing.
RowsAre(rows, t, infos) ==
  /\ IsFiniteSet(rows) /\ UniqueIdsOf(rows)
  /\ \A e \in rows :
       /\ e.key.group = Group /\ e.key.target = t /\ RowIs(e)
       /\ \E i \in DOMAIN infos : e.info = infos[i]

LEMMA RowsOfListing ==
  ASSUME NEW t \in Targets, NEW files \in SUBSET Files, NEW infos, NEW k \in Nat, DOMAIN infos = 1 .. k,
         \A i \in DOMAIN infos : SnapshotOf(files, infos[i])
  PROVE  RowsAre(Image(Group, t, infos, 0), t, infos)
<1> DEFINE entry(info) == [key |-> NewSnapshotKey(Group, t, info.slot, info.baseSlot),
                           info |-> info, updatedAt |-> 0]
           rows == Image(Group, t, infos, 0)
<1>1. /\ IsFiniteSet(rows) /\ UniqueIdsOf(rows)
      /\ \A e \in rows : \E i \in 1 .. k : e = EntriesOf(Group, t, infos, 0)[i]
  BY LastWritten DEF Image
<1>2. \A i \in 1 .. k : EntriesOf(Group, t, infos, 0)[i] = entry(infos[i])
  BY DEF EntriesOf
<1>3. ASSUME NEW e \in rows
      PROVE  /\ e.key.group = Group /\ e.key.target = t /\ RowIs(e)
             /\ \E i \in DOMAIN infos : e.info = infos[i]
  <2>1. PICK i \in 1 .. k : e = entry(infos[i])
    BY <1>1, <1>2, <1>3
  <2>2. /\ e.info = infos[i] /\ e.key = NewSnapshotKey(Group, t, e.info.slot, e.info.baseSlot)
        /\ e.key.target = t /\ e.key.group = Group
    BY <2>1 DEF NewSnapshotKey
  <2>3. SnapshotOf(Files, e.info)
    BY <2>2, InFiles
  <2> QED
    BY <2>2, <2>3 DEF RowIs
<1> QED
  BY <1>1, <1>3 DEF RowsAre

\* The rows of a sidecar.
LEMMA SidecarRows ==
  ASSUME NEW t \in Targets, NEW n \in Stages
  PROVE  /\ IsFiniteSet(Rows[t][n]) /\ UniqueIdsOf(Rows[t][n])
         /\ \A e \in Rows[t][n] :
              /\ e.key.group = Group /\ e.key.target = t /\ RowIs(e)
              /\ FullOf(e.info) # {} /\ FilesIn(e.info) \subseteq Ledgers[n]
<1> DEFINE files == Ledgers[n]
           infos == Listing[n]
<1>1. Rows[t][n] = Image(Group, t, infos, 0) /\ files \in SUBSET Files
  BY NodeLedger DEF Rows
<1>2. PICK k \in Nat : DOMAIN infos = 1 .. k
  BY SidecarLists
<1>3. \A i \in DOMAIN infos : SnapshotOf(files, infos[i]) /\ FullOf(infos[i]) # {}
  BY SidecarLists
<1> HIDE DEF files, infos
<1>4. \A i \in DOMAIN infos : FilesIn(infos[i]) \subseteq files
  BY <1>1, <1>3, InFiles
<1>5. RowsAre(Rows[t][n], t, infos)
  BY <1>1, <1>2, <1>3, RowsOfListing
<1> QED
  BY <1>3, <1>4, <1>5 DEF files, RowsAre

\* What the collector may have of a target.
LEMMA ScrapesFit ==
  ASSUME stage \in [Targets -> DOMAIN Ledgers], NEW t \in Targets, NEW rows \in Scrapes(t)
  PROVE  /\ IsFiniteSet(rows) /\ UniqueIdsOf(rows)
         /\ \A e \in rows :
              /\ e.key.group = Group /\ e.key.target = t /\ RowIs(e)
              /\ t \notin http => /\ FullOf(e.info) # {}
                                  /\ rows = Scraped(t) => FilesIn(e.info) \subseteq dir(t)
<1>1. stage[t] \in Stages /\ Served(t) \subseteq Stages
  <2>1. stage[t] \in Stages
    BY DEF Stages
  <2> QED
    BY <2>1, NodeLedger DEF Served
<1>2. CASE t \in http
  <2>1. PICK n \in Served(t) : \E m \in 1 .. n : rows = UrlRows[t][m][n]
    BY <1>2 DEF Scrapes
  <2>2. PICK m \in 1 .. n : rows = UrlRows[t][m][n]
    BY <2>1
  <2>3. n \in Stages /\ m \in Stages
    BY <1>1, <2>1, <2>2, NodeLedger
  <2> DEFINE infos == UrlListingAt(m, n)
  <2>4. rows = Image(Group, t, infos, 0)
    BY <2>2, <2>3 DEF UrlRows
  <2>5. PICK k \in Nat : DOMAIN infos = 1 .. k
    BY <2>3, UrlLists
  <2>6. Files \in SUBSET Files /\ \A i \in DOMAIN infos : SnapshotOf(Files, infos[i])
    BY <2>3, UrlLists
  <2> HIDE DEF infos
  <2>7. RowsAre(rows, t, infos)
    BY <2>4, <2>5, <2>6, RowsOfListing
  <2> QED
    BY <1>2, <2>7 DEF RowsAre
<1>3. CASE t \notin http
  <2>1. PICK n \in Served(t) : rows = Rows[t][n]
    BY <1>3 DEF Scrapes
  <2>2. rows = Scraped(t) => rows = Rows[t][stage[t]]
    BY <1>3 DEF Scraped
  <2>3. rows = Scraped(t) => \A e \in rows : FilesIn(e.info) \subseteq dir(t)
    BY <1>1, <2>2, SidecarRows DEF dir
  <2> QED
    BY <1>1, <2>1, <2>3, SidecarRows
<1> QED
  BY <1>2, <1>3

LEMMA FitsTyped ==
  ASSUME NEW e, RowIs(e)
  PROVE  /\ e.key \in Keys /\ FilesIn(e.info) \subseteq Files
         /\ e.key.group = Group /\ e.key.baseSlot = e.info.baseSlot
         /\ e.key.inverseSlot = InverseSlot(e.info.slot)
<1>1. Group \in Groups
  BY NodesAssumption DEF Group
<1>2. e.info.slot \in Slots /\ e.info.baseSlot \in Slots /\ e.info.files \in Seq(Files)
  BY DEF RowIs, SnapshotOf
<1>3. InverseSlot(e.info.slot) \in Slots
  <2>1. MaxSlot \in Nat
    BY IndexAssumption
  <2> QED
    BY <1>2, <2>1 DEF Slots, InverseSlot
<1>4. e.key = NewSnapshotKey(Group, e.key.target, e.info.slot, e.info.baseSlot)
      /\ e.key.target \in Targets
  BY DEF RowIs
<1>5. e.key \in Keys
  BY <1>1, <1>2, <1>3, <1>4 DEF Keys, NewSnapshotKey
<1>6. FilesIn(e.info) \subseteq Files
  BY <1>2 DEF FilesIn
<1> QED
  BY <1>4, <1>5, <1>6 DEF NewSnapshotKey

LEMMA NodesStart == NodesInit => NodesInv
<1> SUFFICES ASSUME NodesInit
             PROVE  NodesInv
  OBVIOUS
<1>1. /\ http \in HttpTargets /\ stage \in [Targets -> DOMAIN Ledgers]
      /\ moves \in 0 .. MaxMoves /\ calm \in BOOLEAN
      /\ db = UNION { Scraped(t) : t \in Targets }
  BY NodesAssumption DEF NodesInit
<1>2. ASSUME NEW t \in Targets
      PROVE  /\ IsFiniteSet(Scraped(t)) /\ UniqueIdsOf(Scraped(t))
             /\ \A e \in Scraped(t) : e.key.target = t /\ RowFits(e)
  <2>1. Scraped(t) \in Scrapes(t)
    <3>1. stage[t] \in Served(t) /\ stage[t] \in 1 .. stage[t]
      BY <1>1, NodesAssumption DEF Served
    <3> QED
      BY <3>1 DEF Scraped, Scrapes
  <2>2. /\ IsFiniteSet(Scraped(t)) /\ UniqueIdsOf(Scraped(t))
        /\ \A e \in Scraped(t) :
             /\ e.key.target = t /\ RowIs(e)
             /\ t \notin http => FullOf(e.info) # {} /\ FilesIn(e.info) \subseteq dir(t)
    <3>1. PICK rows \in Scrapes(t) : rows = Scraped(t)
      BY <2>1
    <3>2. /\ IsFiniteSet(rows) /\ UniqueIdsOf(rows)
          /\ \A e \in rows :
               /\ e.key.target = t /\ RowIs(e)
               /\ t \notin http => FullOf(e.info) # {} /\ FilesIn(e.info) \subseteq dir(t)
      BY <1>1, <3>1, ScrapesFit
    <3> QED
      BY <3>1, <3>2
  <2>3. \A e \in Scraped(t) : RowFits(e)
    BY <2>2 DEF RowFits
  <2> QED
    BY <2>2, <2>3
<1>3. ASSUME NEW e \in db
      PROVE  \E t \in Targets : e \in Scraped(t)
  BY <1>1
<1>4. \A e \in db : RowFits(e)
  BY <1>2, <1>3
<1>5. UniqueIdsOf(db)
  <2> SUFFICES ASSUME NEW e \in db, NEW f \in db, Id(e) = Id(f)
               PROVE  e = f
    BY DEF UniqueIdsOf
  <2>1. PICK t \in Targets : e \in Scraped(t)
    BY <1>3
  <2>2. PICK u \in Targets : f \in Scraped(u)
    BY <1>3
  <2>3. t = u
    BY <1>2, <2>1, <2>2 DEF Id
  <2> QED
    BY <1>2, <2>1, <2>2, <2>3 DEF UniqueIdsOf
<1>6. IsFiniteSet(db)
  <2> DEFINE all == { Scraped(t) : t \in Targets }
             f == [t \in Targets |-> Scraped(t)]
  <2>1. f \in Surjection(Targets, all)
    BY DEF Surjection
  <2>2. IsFiniteSet(all)
    BY <2>1, NodesAssumption, FS_Surjection
  <2>3. \A rows \in all : IsFiniteSet(rows)
    BY <1>2
  <2> HIDE DEF all
  <2>4. IsFiniteSet(UNION all)
    BY <2>2, <2>3, FS_UNION
  <2> QED
    BY <1>1, <2>4 DEF all
<1>7. NodesTypeOK
  BY <1>1, <1>4, FitsTyped DEF NodesTypeOK, RowFits
<1> QED
  BY <1>4, <1>5, <1>6, <1>7 DEF NodesInv

LEMMA NodesStep ==
  ASSUME NodesInv, NodesNext
  PROVE  NodesInv'
<1>1. /\ http \in HttpTargets /\ stage \in [Targets -> DOMAIN Ledgers]
      /\ moves \in 0 .. MaxMoves /\ calm \in BOOLEAN
      /\ IsFiniteSet(db) /\ UniqueIdsOf(db)
      /\ \A e \in db : RowFits(e)
  BY DEF NodesInv, NodesTypeOK
<1>2. PICK t \in Targets : Move(t) \/ Withdraw(t) \/ Publish(t)
  BY DEF NodesNext
<1>3. /\ http' \in HttpTargets /\ stage' \in [Targets -> DOMAIN Ledgers]
      /\ moves' \in 0 .. MaxMoves /\ calm' \in BOOLEAN
  <2>1. CASE Move(t)
    <3>1. moves' \in 0 .. MaxMoves
      BY <1>1, <2>1, NodesAssumption DEF Move
    <3>2. stage' \in [Targets -> DOMAIN Ledgers]
      BY <1>1, <2>1 DEF Move
    <3> QED
      BY <1>1, <2>1, <3>1, <3>2 DEF Move
  <2>2. CASE Withdraw(t)
    BY <1>1, <2>2 DEF Withdraw
  <2>3. CASE Publish(t)
    BY <1>1, <2>3 DEF Publish
  <2> QED
    BY <1>2, <2>1, <2>2, <2>3
<1>4. IsFiniteSet(db') /\ UniqueIdsOf(db') /\ (\A e \in db' : RowFits(e)')
  <2>1. CASE Move(t)
    <3>1. db' = db /\ http' = http /\ calm' = FALSE
      BY <2>1 DEF Move
    <3> QED
      BY <1>1, <3>1 DEF RowFits
  <2>2. CASE Withdraw(t)
    <3>1. db' \subseteq db /\ http' = http /\ calm' = FALSE
      BY <2>2 DEF Withdraw, DeleteSnapshotsByTarget
    <3>2. IsFiniteSet(db')
      BY <1>1, <3>1, FS_Subset
    <3> QED
      BY <1>1, <3>1, <3>2 DEF RowFits, UniqueIdsOf
  <2>3. CASE Publish(t)
    <3>1. PICK rows \in Scrapes(t) :
            /\ db' = db \cup rows
            /\ calm' = (calm /\ (t \in http \/ rows = Scraped(t)))
      BY <2>3 DEF Publish
    <3>2. RowsOf(db, Group, t) = {} /\ UNCHANGED <<http, stage>> /\ (calm' => calm)
      BY <2>3, <3>1 DEF Publish
    <3>3. /\ IsFiniteSet(rows) /\ UniqueIdsOf(rows)
          /\ \A e \in rows :
               /\ e.key.target = t /\ RowIs(e)
               /\ t \notin http => /\ FullOf(e.info) # {}
                                   /\ calm' => FilesIn(e.info) \subseteq dir(t)
      BY <1>1, <3>1, ScrapesFit
    <3>4. IsFiniteSet(db')
      BY <1>1, <3>1, <3>3, FS_Union
    <3>5. \A e \in db : e.key.target # t
      <4>1. \A e \in db : e.key.group = Group
        BY <1>1, FitsTyped DEF RowFits
      <4> QED
        BY <3>2, <4>1 DEF RowsOf
    <3>6. \A e \in db, f \in rows : Id(e) # Id(f)
      BY <3>3, <3>5 DEF Id
    <3>7. UniqueIdsOf(db')
      BY <1>1, <3>1, <3>3, <3>6 DEF UniqueIdsOf
    <3>8. \A u : dir(u)' = dir(u)
      BY <3>2 DEF dir
    <3>9. \A e \in db : RowFits(e)'
      BY <1>1, <3>2, <3>8 DEF RowFits, dir
    <3>10. ASSUME NEW e \in rows
           PROVE  RowFits(e)'
      <4>1. e.key.target = t /\ RowIs(e) /\ dir(t)' = dir(t)
        BY <3>3, <3>8
      <4>2. t \notin http' => FullOf(e.info) # {}
        BY <3>2, <3>3
      <4>3. t \notin http' /\ calm' => FilesIn(e.info) \subseteq dir(t)'
        BY <3>2, <3>3, <4>1
      <4> QED
        BY <4>1, <4>2, <4>3 DEF RowFits, dir
    <3> QED
      BY <3>1, <3>4, <3>7, <3>9, <3>10
  <2> QED
    BY <1>2, <2>1, <2>2, <2>3
<1>5. NodesTypeOK'
  <2>1. \A e \in db' : RowIs(e)
    BY <1>4 DEF RowFits
  <2>2. \A e \in db' : e.key \in Keys /\ FilesIn(e.info) \subseteq Files
    BY <2>1, FitsTyped
  <2> QED
    BY <1>3, <2>2 DEF NodesTypeOK
<1> QED
  BY <1>3, <1>4, <1>5 DEF NodesInv

LEMMA NodesKept ==
  ASSUME NodesInv, UNCHANGED nodes
  PROVE  NodesInv'
BY DEF NodesInv, NodesTypeOK, RowFits, dir, nodes

-----------------------------------------------------------------------------
(***************************************************************************)
(* The tracker's answers.                                                  *)
(***************************************************************************)
LEMMA IndexTable == NodesInv => IsTable(db)
<1> SUFFICES ASSUME NodesInv
             PROVE  IsTable(db)
  OBVIOUS
<1>1. IsFiniteSet(db) /\ UniqueIdsOf(db) /\ \A e \in db : RowIs(e)
  BY DEF NodesInv, RowFits
<1>2. Slots \subseteq Int /\ Groups \subseteq Int /\ Targets \subseteq Int
  BY IndexAssumption DEF Slots
<1>3. ASSUME NEW e \in db
      PROVE  /\ e.key.group \in Int /\ e.key.target \in Int /\ e.key.baseSlot \in Int
             /\ e.info.slot \in Slots /\ e.key.inverseSlot = InverseSlot(e.info.slot)
  <2>1. e.key \in Keys /\ e.key.inverseSlot = InverseSlot(e.info.slot)
    BY <1>1, FitsTyped
  <2>2. e.info.slot \in Slots
    BY <1>1 DEF RowIs, SnapshotOf
  <2> QED
    BY <1>2, <2>1, <2>2 DEF Keys
<1> QED
  BY <1>1, <1>3 DEF IsTable

\* A handler answers with the sources of rows.
Sources(rows) == { SourceOf(e) : e \in rows }

LEMMA Answered ==
  ASSUME NEW rows, NEW n \in Nat, NEW entries \in [1 .. n -> rows]
  PROVE  /\ createJson(entries).sources \in Seq(Sources(rows))
         /\ Len(createJson(entries).sources) = n
<1> DEFINE sources == [i \in 1 .. n |-> SourceOf(entries[i])]
<1>1. createJson(entries).sources = sources
  BY DEF createJson
<1>2. sources \in [1 .. n -> Sources(rows)]
  BY DEF Sources
<1> HIDE DEF sources
<1> QED
  BY <1>1, <1>2

\* The first of the sources is that of a row.
LEMMA FirstRow ==
  ASSUME NEW rows, NEW remote \in Seq(Sources(rows)), remote # << >>
  PROVE  \E e \in rows : remote[1] = SourceOf(e)
<1>1. Len(remote) \in Nat /\ Len(remote) # 0
  OBVIOUS
<1>2. remote[1] \in Sources(rows)
  BY <1>1
<1> QED
  BY <1>2 DEF Sources

LEMMA AnswersBest ==
  ASSUME NodesInv, NEW group, NEW max \in Int
  PROVE  GetBestSnapshots(db, group, max).sources \in Seq(Sources(db))
<1> DEFINE limit == IF max < 0 \/ max > MaxItems THEN MaxItems ELSE max
           entries == GetBestSnapshotsByGroup(db, group, limit)
<1>1. limit \in Int
  BY HandlersAssumption
<1> HIDE DEF limit
<1>2. entries \in Seq(InGroup(db, group))
  BY <1>1, IndexTable, BestIsSeq
<1>3. GetBestSnapshots(db, group, max) = createJson(entries)
  BY DEF GetBestSnapshots, limit
<1> HIDE DEF entries
<1>4. InGroup(db, group) \subseteq db
  BY DEF InGroup
<1>5. Len(entries) \in Nat /\ entries \in [1 .. Len(entries) -> db]
  BY <1>2, <1>4
<1> QED
  BY <1>3, <1>5, Answered

\* Of the rows at a slot, which are found unless a group is named.
LEMMA AnswersAtSlot ==
  ASSUME NodesInv, NEW group \in {AnyGroup, Group}, NEW slot, slot # 0
  PROVE  LET rows == { e \in db : e.info.baseSlot = slot }
             remote == GetSnapshots(db, group, slot).sources
         IN  /\ remote \in Seq(Sources(rows))
             /\ group = AnyGroup /\ rows # {} => remote # << >>
<1> DEFINE rows == { e \in db : e.info.baseSlot = slot }
           asked == { e \in InGroup(db, group) : e.key.baseSlot = slot }
           remote == GetSnapshots(db, group, slot).sources
<1>1. CASE group = AnyGroup
  <2>1. asked = rows
    BY <1>1, FitsTyped DEF InGroup, NodesInv, RowFits
  <2>2. IsTable(rows)
    BY IndexTable, SubTable
  <2> DEFINE entries == Walk(rows, ByBaseSlot(rows))
             n == Cardinality(rows)
  <2>3. /\ n \in Nat /\ entries \in [1 .. n -> rows] /\ Len(entries) = n
        /\ \A e \in rows : \E i \in 1 .. n : entries[i] = e
    BY <2>2, BaseSlotWalk
  <2>4. remote = createJson(entries).sources
    BY <1>1, <2>1 DEF GetSnapshots, GetSnapshotsAtSlotByGroup
  <2> HIDE DEF entries, n, rows, remote
  <2>5. remote \in Seq(Sources(rows)) /\ Len(remote) = n
    BY <2>3, <2>4, Answered
  <2>6. rows # {} => n # 0
    BY <2>3
  <2>7. rows # {} => remote # << >>
    BY <2>3, <2>5, <2>6
  <2> QED
    BY <2>5, <2>7 DEF rows, remote
<1>2. CASE group # AnyGroup
  <2>1. remote = << >>
    BY <1>2 DEF GetSnapshots, GetSnapshotsAtSlotByGroup, ArgsAccepted, InternalError,
                BaseSlotByGroupFields, BaseSlotByGroupArgs
  <2> QED
    BY <1>2, <2>1
<1> QED
  BY <1>1, <1>2

-----------------------------------------------------------------------------
(***************************************************************************)
(* The mirror.                                                             *)
(***************************************************************************)
\* A file has one job.
OneJob(set) == \A j, k \in set : j.file = k.file => j = k

JobRecords ==
  [provider : [schemes : 1 .. 2, host : Targets], file : Files, pc : {"stat", "stream", "put"}]

\* The jobs and the bucket.
JobsInv ==
  /\ jobs \subseteq JobRecords /\ bucket \subseteq Files
  /\ OneJob(jobs)
  /\ \A j \in jobs : j.pc # "stat" => j.file \notin bucket

\* Inductive.
MirrorInv ==
  /\ NodesInv /\ JobsInv
  /\ phase \in {"waiting", "working", "stopped"} /\ ctx \in {"live", "done"}
  /\ failures \in 0 .. MaxFailures

\* Of two places at one slot one comes first, so a tick picks each file once.
LEMMA PickedOnce ==
  ASSUME NEW sources
  PROVE  OneJob(Picked(sources)) /\ \A j \in Picked(sources) : j.pc = "stat"
<1> DEFINE places == Places(sources)
<1>1. ASSUME NEW x \in places
      PROVE  x = <<x[1], x[2]>> /\ x[1] \in Int /\ x[2] \in Int
  <2>1. PICK i \in 1 .. Len(sources) :
          \E j \in 1 .. Len(sources[i].info.files) : x = <<i, j>>
    BY DEF Places
  <2>2. PICK j \in 1 .. Len(sources[i].info.files) : x = <<i, j>>
    BY <2>1
  <2> QED
    BY <2>2
<1>2. ASSUME NEW x \in places, NEW y \in places, ~LexLess(x, y), ~LexLess(y, x)
      PROVE  x = y
  <2> DEFINE i == x[1]  j == x[2]  k == y[1]  l == y[2]
  <2>1. /\ i \in Int /\ j \in Int /\ k \in Int /\ l \in Int
        /\ x = <<i, j>> /\ y = <<k, l>>
    BY <1>1
  <2>2. /\ LexLess(x, y) <=> i < k \/ (i = k /\ j < l)
        /\ LexLess(y, x) <=> k < i \/ (k = i /\ l < j)
    <3>1. DOMAIN x = {1, 2} /\ DOMAIN y = {1, 2}
      BY <2>1
    <3> QED
      BY <2>1, <3>1 DEF LexLess
  <2> HIDE DEF i, j, k, l
  <2>3. i = k /\ j = l
    BY <1>2, <2>1, <2>2
  <2> QED
    BY <2>1, <2>3
<1>3. \A j \in Picked(sources) :
        \E x \in places :
          /\ j = Job(sources, x)
          /\ \A q \in places :
               FileAt(sources, q).slot = FileAt(sources, x).slot => ~LexLess(q, x)
  BY DEF Picked
<1> HIDE DEF places
<1>4. ASSUME NEW j \in Picked(sources), NEW k \in Picked(sources), j.file = k.file
      PROVE  j = k
  <2>1. PICK x \in places :
          /\ j = Job(sources, x)
          /\ \A q \in places :
               FileAt(sources, q).slot = FileAt(sources, x).slot => ~LexLess(q, x)
    BY <1>3
  <2>2. PICK y \in places :
          /\ k = Job(sources, y)
          /\ \A q \in places :
               FileAt(sources, q).slot = FileAt(sources, y).slot => ~LexLess(q, y)
    BY <1>3
  <2>3. FileAt(sources, x) = FileAt(sources, y)
    BY <1>4, <2>1, <2>2 DEF Job
  <2>4. x = y
    BY <1>2, <2>1, <2>2, <2>3
  <2> QED
    BY <2>1, <2>2, <2>4
<1>5. \A j \in Picked(sources) : j.pc = "stat"
  BY <1>3 DEF Job
<1> QED
  BY <1>4, <1>5 DEF OneJob

\* What is picked of the sources of rows are files of nodes, each from a node that listed it.
LEMMA PickedTyped ==
  ASSUME NodesInv, NEW sources \in Seq(Sources(db))
  PROVE  Picked(sources) \subseteq JobRecords
<1> SUFFICES ASSUME NEW j \in Picked(sources)
             PROVE  j \in JobRecords
  OBVIOUS
<1>1. PICK x \in Places(sources) : j = Job(sources, x)
  BY DEF Picked
<1>0. PICK i \in 1 .. Len(sources) : \E k \in 1 .. Len(sources[i].info.files) : x = <<i, k>>
  BY DEF Places
<1>2. PICK k \in 1 .. Len(sources[i].info.files) : x = <<i, k>>
  BY <1>0
<1>3. PICK e \in db : sources[i] = SourceOf(e)
  BY DEF Sources
<1>4. sources[i].target \in Targets /\ sources[i].info.files \in Seq(Files)
  BY <1>3 DEF NodesInv, RowFits, RowIs, SnapshotOf, SourceOf
<1>5. FileAt(sources, x) \in Files
  BY <1>2, <1>4 DEF FileAt
<1>6. Provider(ProbeTarget(sources[i].target)) \in [schemes : 1 .. 2, host : Targets]
  BY <1>4 DEF Provider, ProbeTarget
<1>7. j = [provider |-> Provider(ProbeTarget(sources[i].target)),
           file |-> FileAt(sources, x), pc |-> "stat"]
  BY <1>1, <1>2 DEF Job
<1> QED
  BY <1>5, <1>6, <1>7 DEF JobRecords

\* A job that moves on keeps its file.
LEMMA Proceeds ==
  ASSUME jobs \subseteq JobRecords, OneJob(jobs), NEW j \in jobs,
         NEW next \in {"stat", "stream", "put"}, Proceed(j, next)
  PROVE  /\ jobs' \subseteq JobRecords /\ OneJob(jobs')
         /\ \A k \in jobs' : \/ k \in jobs
                             \/ k.file = j.file /\ k.pc = next
<1> DEFINE moved == [j EXCEPT !.pc = next]
<1>1. j \in JobRecords
  OBVIOUS
<1>2. moved \in JobRecords /\ moved.file = j.file /\ moved.pc = next
  BY <1>1 DEF JobRecords
<1>3. jobs' = (jobs \ {j}) \cup {moved}
  BY DEF Proceed
<1> HIDE DEF moved
<1>4. jobs' \subseteq JobRecords
  BY <1>2, <1>3
<1>5. OneJob(jobs')
  BY <1>2, <1>3 DEF OneJob
<1> QED
  BY <1>2, <1>3, <1>4, <1>5

LEMMA JobSteps ==
  ASSUME JobsInv, NEW j \in jobs, JobStep(j) \/ JobFails(j)
  PROVE  JobsInv'
<1>1. /\ jobs \subseteq JobRecords /\ bucket \subseteq Files /\ OneJob(jobs)
      /\ \A k \in jobs : k.pc # "stat" => k.file \notin bucket
  BY DEF JobsInv
<1>2. ASSUME NEW next \in {"stat", "stream", "put"}, Proceed(j, next), j.file \notin bucket,
             bucket' = bucket
      PROVE  JobsInv'
  BY <1>1, <1>2, Proceeds DEF JobsInv
<1>3. ASSUME End(j), bucket' = bucket \/ bucket' = bucket \cup {j.file}
      PROVE  JobsInv'
  <2>1. jobs' = jobs \ {j} /\ j.file \in Files
    BY <1>1, <1>3 DEF End, JobRecords
  <2> QED
    BY <1>1, <1>3, <2>1 DEF JobsInv, OneJob
<1>4. CASE Stat(j)
  BY <1>2, <1>3, <1>4 DEF Stat
<1>5. CASE Stream(j)
  BY <1>1, <1>2, <1>3, <1>5 DEF Stream
<1>6. CASE Put(j)
  BY <1>3, <1>6 DEF Put
<1>7. CASE JobFails(j)
  BY <1>3, <1>7 DEF JobFails
<1> QED
  BY <1>4, <1>5, <1>6, <1>7 DEF JobStep

LEMMA MirrorStep ==
  ASSUME MirrorInv, [MirrorNext]_mirrorVars
  PROVE  MirrorInv'
<1>1. NodesInv /\ JobsInv
  BY DEF MirrorInv
<1>2. NodesInv'
  <2>1. CASE NodesNext
    BY <1>1, <2>1, NodesStep
  <2>2. CASE UNCHANGED nodes
    BY <1>1, <2>2, NodesKept
  <2>3. Worker \/ UNCHANGED mirrorVars => UNCHANGED nodes
    BY DEF Worker, Tick, TickEnds, Crash, Cancel, Stop, JobStep, Stat, Stream, Put, JobFails,
           mirrorVars
  <2> QED
    BY <2>1, <2>2, <2>3 DEF MirrorNext
<1>3. JobsInv'
  <2>1. CASE Tick
    <3>1. PICK sources \in { GetBestSnapshots(db, AnyGroup, SyncCount).sources } :
            jobs' = Picked(sources)
      BY <2>1 DEF Tick
    <3>2. sources \in Seq(Sources(db))
      BY <1>1, <3>1, AnswersBest, MirrorAssumption
    <3>3. jobs' \subseteq JobRecords /\ OneJob(jobs') /\ \A j \in jobs' : j.pc = "stat"
      BY <1>1, <3>1, <3>2, PickedOnce, PickedTyped
    <3>4. bucket' = bucket
      BY <2>1 DEF Tick
    <3> QED
      BY <1>1, <3>3, <3>4 DEF JobsInv
  <2>2. CASE Crash
    BY <1>1, <2>2 DEF Crash, JobsInv, OneJob
  <2>3. CASE \E j \in jobs : JobStep(j) \/ JobFails(j)
    BY <1>1, <2>3, JobSteps
  <2>4. ASSUME UNCHANGED <<jobs, bucket>>
        PROVE  JobsInv'
    BY <1>1, <2>4 DEF JobsInv
  <2>5. CASE TickEnds \/ Cancel \/ Stop
    BY <2>4, <2>5 DEF TickEnds, Cancel, Stop
  <2>6. CASE NodesNext /\ UNCHANGED <<phase, ctx, jobs, bucket, failures>>
    BY <2>4, <2>6
  <2>7. CASE UNCHANGED mirrorVars
    BY <2>4, <2>7 DEF mirrorVars
  <2> QED
    BY <2>1, <2>2, <2>3, <2>5, <2>6, <2>7 DEF MirrorNext, Worker
<1>4. /\ phase' \in {"waiting", "working", "stopped"} /\ ctx' \in {"live", "done"}
      /\ failures' \in 0 .. MaxFailures
  <2>1. /\ phase \in {"waiting", "working", "stopped"} /\ ctx \in {"live", "done"}
        /\ failures \in 0 .. MaxFailures /\ MaxFailures \in Nat
    BY MirrorAssumption DEF MirrorInv
  <2>2. CASE Tick \/ TickEnds \/ Cancel \/ Stop
    BY <2>1, <2>2 DEF Tick, TickEnds, Cancel, Stop
  <2>3. CASE Crash
    BY <2>1, <2>3 DEF Crash
  <2>4. ASSUME NEW j \in jobs, JobStep(j) \/ JobFails(j)
        PROVE  /\ phase' = phase /\ ctx' = ctx
               /\ failures' \in 0 .. MaxFailures
    BY <2>1, <2>4 DEF JobStep, Stat, Stream, Put, JobFails
  <2>5. CASE UNCHANGED <<phase, ctx, failures>>
    BY <2>1, <2>5
  <2> QED
    BY <2>1, <2>2, <2>3, <2>4, <2>5 DEF MirrorNext, Worker, mirrorVars
<1> QED
  BY <1>2, <1>3, <1>4 DEF MirrorInv

LEMMA MirrorInvariance == MirrorSpec => []MirrorInv
<1>1. MirrorInit => MirrorInv
  <2> SUFFICES ASSUME MirrorInit
               PROVE  MirrorInv
    OBVIOUS
  <2>1. NodesInv
    BY NodesStart DEF MirrorInit
  <2>2. JobsInv
    BY DEF MirrorInit, JobsInv, OneJob
  <2> QED
    BY <2>1, <2>2, MirrorAssumption DEF MirrorInit, MirrorInv
<1>2. MirrorInv /\ [MirrorNext]_mirrorVars => MirrorInv'
  BY MirrorStep
<1> QED
  BY <1>1, <1>2, PTL DEF MirrorSpec

\* What the worker asks for and puts into the bucket are files the nodes had, and whom it
\* asks are targets, whatever becomes of nodes and index between the answer and the copy.
THEOREM MirrorTypeCorrect == MirrorSpec => []MirrorTypeOK
<1>1. MirrorInv => MirrorTypeOK
  BY DEF MirrorInv, NodesInv, JobsInv, JobRecords, MirrorTypeOK
<1> QED
  BY <1>1, MirrorInvariance, PTL

\* No file is copied that the bucket has, nor by two jobs at once, though every job looks
\* first and puts later, and all of a tick run at a time.
THEOREM NothingCopiedTwice == MirrorSpec => []CopiedOnce
<1>1. MirrorInv => CopiedOnce
  BY DEF MirrorInv, JobsInv, OneJob, CopiedOnce
<1> QED
  BY <1>1, MirrorInvariance, PTL

-----------------------------------------------------------------------------
(***************************************************************************)
(* The fetch command.                                                      *)
(***************************************************************************)
RunTyped ==
  /\ flags \in [full : BOOLEAN, incremental : BOOLEAN, slot : Slots, group : {AnyGroup, Group}]
  /\ start \in Locals /\ start \subseteq local /\ local \subseteq start \cup Files
  /\ pc \in {"ask", "older", "full", "refresh", "incremental", "done"}
  /\ exit \in {"none", "ok", "nothing", "fatal", "panic", "interrupted"}
  /\ first.target \in Targets \cup {0}
  /\ snap.target \in Targets \cup {0}
  /\ client \in Targets \cup {0}
  /\ wanted \subseteq Files
  /\ failed \in BOOLEAN

\* No slot of the local ledger is 0, which the tracker takes for none.
LocalInv == IsLedger(local) /\ \A f \in local : f.slot # 0

\* Where the run has got to.
Early ==
  /\ pc \in {"ask", "older"} => snap = NoSnap /\ wanted = {}
  /\ pc = "older" => ~flags.full /\ ListSnapshots(local) # << >>
  /\ pc # "done" => exit = "none"

\* What is being fetched are files of a snapshot that the index had.
Fetching ==
  pc \in {"full", "refresh", "incremental"} \/ wanted # {} =>
    /\ client \in Targets
    /\ SnapshotOf(Files, snap.info) /\ wanted \subseteq FilesIn(snap.info)
    /\ snap.target \notin http => FullOf(snap.info) # {}

\* What the full pass has done, and what it has left to do.
FullPass ==
  /\ pc = "full" => /\ flags.full /\ client = snap.target
                    /\ failed \/ FullOf(snap.info) \subseteq wanted \cup local
  /\ pc = "refresh" => /\ flags.full /\ client = snap.target
                       /\ ~failed /\ wanted = {}
                       /\ FullOf(snap.info) \subseteq local

\* No incremental file is asked for without a full one at its base in the ledger.
WantedBased ==
  (flags.slot = 0 \/ flags.full) /\ client \notin http =>
    \A f \in wanted : IsFull(f) \/ \E b \in local : IsFull(b) /\ b.slot = f.baseSlot

\* The full snapshot of the first answer, once it has been fetched.
FirstFetched ==
  flags.slot = 0 /\ flags.full =>
    /\ pc = "full" => first = snap
    /\ pc \in {"refresh", "incremental"} \/ exit = "ok" =>
         SnapshotOf(Files, first.info) /\ FullOf(first.info) \subseteq local

\* As long as nothing is taken away.
CalmInv ==
  calm =>
    /\ pc \in {"full", "refresh"} => \E e \in db : snap = SourceOf(e)
    /\ snap # NoSnap /\ snap.target \notin http => FilesIn(snap.info) \subseteq dir(snap.target)
    /\ snap # NoSnap /\ client \notin http /\ flags.group = AnyGroup /\ client = snap.target
         => ~failed /\ exit # "fatal"

\* Inductive.
FetchInv ==
  /\ NodesInv /\ RunTyped /\ LocalInv
  /\ Early /\ Fetching /\ FullPass /\ WantedBased /\ FirstFetched /\ CalmInv /\ NoOrphans

\* A ledger's snapshots end in full files of its own, and every full file is one.
LEMMA LocalSnapshots ==
  ASSUME NEW files, IsLedger(files)
  PROVE  LET infos == ListSnapshots(files)
         IN  /\ infos # << >> => \E b \in files : IsFull(b) /\ b.slot = infos[1].baseSlot
             /\ \A f \in files : IsFull(f) => \E i \in DOMAIN infos : infos[i].baseSlot = f.slot
<1> DEFINE infos == ListSnapshots(files)
           complete == { f \in files : ChainOf(files, f) # << >> }
           n == Cardinality(complete)
<1>1. /\ n \in Nat /\ Len(infos) = n /\ DOMAIN infos = 1 .. n
      /\ \A i \in 1 .. n : \E f \in complete :
           /\ IsChain(files, infos[i].files, f)
           /\ infos[i] = InfoOf(infos[i].files)
      /\ \A f \in complete : \E i \in 1 .. n : infos[i].files[1] = f
  BY Listings
<1>2. infos = [i \in 1 .. n |-> infos[i]]
  <2>1. infos = [i \in DOMAIN infos |-> infos[i]]
    BY DEF ListSnapshots
  <2> HIDE DEF infos, n
  <2> QED
    BY <1>1, <2>1
<1>3. ASSUME NEW f \in files, IsFull(f)
      PROVE  f \in complete
  <2>1. ChainOf(files, f) = << f >>
    BY <1>3, Chains
  <2> QED
    BY <2>1
<1> HIDE DEF infos, n, complete
<1>4. infos # << >> => 1 \in 1 .. n
  BY <1>1, <1>2
<1>5. ASSUME NEW i \in 1 .. n
      PROVE  LET chain == infos[i].files
             IN  /\ chain \in Seq(files) /\ Len(chain) \in Nat /\ Len(chain) >= 1
                 /\ \A j \in 1 .. Len(chain) - 1 : ~IsFull(chain[j])
                 /\ IsFull(chain[Len(chain)]) /\ chain[Len(chain)] \in files
                 /\ infos[i].baseSlot = chain[Len(chain)].slot
  <2> DEFINE chain == infos[i].files
  <2>1. PICK f \in complete : IsChain(files, chain, f) /\ infos[i] = InfoOf(chain)
    BY <1>1
  <2>2. infos[i].baseSlot = chain[Len(chain)].slot
    BY <2>1 DEF InfoOf
  <2> HIDE DEF chain
  <2>3. /\ chain \in Seq(files) /\ Len(chain) \in Nat /\ Len(chain) >= 1
        /\ \A j \in 1 .. Len(chain) - 1 : ~IsFull(chain[j])
        /\ IsFull(chain[Len(chain)])
    BY <2>1 DEF IsChain
  <2>4. chain[Len(chain)] \in files
    BY <2>3
  <2> QED
    BY <2>2, <2>3, <2>4 DEF chain
<1>6. ASSUME NEW f \in files, IsFull(f)
      PROVE  \E i \in DOMAIN infos : infos[i].baseSlot = f.slot
  <2>1. PICK i \in 1 .. n : infos[i].files[1] = f
    BY <1>1, <1>3, <1>6
  <2> DEFINE chain == infos[i].files
             k == Len(chain)
  <2>2. /\ k \in Nat /\ k >= 1 /\ \A j \in 1 .. k - 1 : ~IsFull(chain[j])
        /\ infos[i].baseSlot = chain[k].slot /\ chain[1] = f
    BY <1>5, <2>1
  <2> HIDE DEF chain, k
  <2>3. k = 1
    <3>1. k # 1 => 1 \in 1 .. k - 1
      BY <2>2
    <3> QED
      BY <1>6, <2>2, <3>1
  <2> QED
    BY <1>1, <2>2, <2>3
<1> QED
  BY <1>4, <1>5, <1>6 DEF infos

\* An incremental snapshot is fetched without a full one when the local ledger has that.
LEMMA Advised ==
  ASSUME NEW mine, NEW remote, NEW minAge, NEW maxAge,
         ShouldFetchSnapshot(mine, remote, minAge, maxAge).advice \in {"Fetch", "FetchIncremental"}
  PROVE  mine # << >> /\ mine[1].baseSlot = remote[1].info.baseSlot
BY DEF ShouldFetchSnapshot

\* The run begins to fetch the snapshot of a row.
Begins(e, full) ==
  /\ snap' = SourceOf(e) /\ client' = e.key.target
  /\ pc' = IF full THEN "full" ELSE "incremental"
  /\ wanted' = { f \in FilesIn(e.info) : IsFull(f) <=> full }
  /\ failed' = FALSE /\ exit' = exit

LEMMA Takes ==
  ASSUME NEW rows, NEW remote \in Seq(Sources(rows)), NEW full \in BOOLEAN, Take(remote, full)
  PROVE  \/ remote = << >> /\ Done("fatal")
         \/ \E e \in rows : remote # << >> /\ remote[1] = SourceOf(e) /\ Begins(e, full)
<1>1. CASE remote = << >>
  BY <1>1 DEF Take
<1>2. CASE remote # << >>
  <2>1. PICK e \in rows : remote[1] = SourceOf(e)
    BY <1>2, FirstRow
  <2>2. /\ snap' = SourceOf(e) /\ client' = SourceOf(e).target
        /\ pc' = IF full THEN "full" ELSE "incremental"
        /\ wanted' = FilesOf(SourceOf(e), full, ~full)
        /\ failed' = FALSE /\ exit' = exit
    BY <1>2, <2>1 DEF Take
  <2>3. SourceOf(e).target = e.key.target /\ SourceOf(e).info = e.info
    BY DEF SourceOf
  <2>4. FilesOf(SourceOf(e), full, ~full) = { f \in FilesIn(e.info) : IsFull(f) <=> full }
    <3>1. CASE full = TRUE
      BY <2>3, <3>1 DEF FilesOf
    <3>2. CASE full = FALSE
      BY <2>3, <3>2 DEF FilesOf
    <3> QED
      BY <3>1, <3>2
  <2> QED
    BY <1>2, <2>1, <2>2, <2>3, <2>4 DEF Begins
<1> QED
  BY <1>1, <1>2

\* The command line and the first answer after the first request.
FlagsKept ==
  /\ flags' \in [full : BOOLEAN, incremental : BOOLEAN, slot : Slots, group : {AnyGroup, Group}]
  /\ flags'.slot = flags.slot /\ flags'.group = flags.group
  /\ flags'.full => flags.full
  /\ first'.target \in Targets \cup {0}

LEMMA RunNodes ==
  ASSUME FetchInv, UNCHANGED nodes
  PROVE  NodesInv' /\ db' = db /\ http' = http /\ calm' = calm /\ stage' = stage
BY NodesKept DEF FetchInv, nodes

LEMMA BeginStep ==
  ASSUME FetchInv, pc \in {"ask", "older"}, NEW e \in db, NEW full \in BOOLEAN, Begins(e, full),
         UNCHANGED <<nodes, start, local>>, FlagsKept,
         full => flags'.full,
         flags'.slot = 0 /\ flags'.full => full /\ first' = SourceOf(e),
         ~full /\ (flags'.slot = 0 \/ flags'.full) =>
           \E b \in local : IsFull(b) /\ b.slot = e.info.baseSlot
  PROVE  FetchInv'
<1>1. /\ NodesInv' /\ UNCHANGED <<db, http, calm, stage, start, local>>
      /\ snap' = SourceOf(e) /\ client' = e.key.target
      /\ pc' = IF full THEN "full" ELSE "incremental"
      /\ wanted' = { f \in FilesIn(e.info) : IsFull(f) <=> full }
      /\ failed' = FALSE /\ exit' = exit
  BY RunNodes DEF Begins
<1>2. /\ RowFits(e) /\ RowIs(e) /\ e.key.target \in Targets
      /\ SnapshotOf(Files, e.info) /\ FilesIn(e.info) \subseteq Files
  BY FitsTyped DEF FetchInv, NodesInv, RowFits, RowIs
<1>3. snap'.info = e.info /\ snap'.target = e.key.target /\ exit = "none"
  BY <1>1 DEF SourceOf, FetchInv, Early
<1>4. RunTyped'
  <2>1. /\ start \in Locals /\ start \subseteq local /\ local \subseteq start \cup Files
        /\ exit \in {"none", "ok", "nothing", "fatal", "panic", "interrupted"}
    BY DEF FetchInv, RunTyped
  <2> QED
    BY <1>1, <1>2, <1>3, <2>1 DEF RunTyped, FlagsKept
<1>5. LocalInv'
  BY <1>1 DEF FetchInv, LocalInv
<1>6. Early'
  BY <1>1, <1>3 DEF Early
<1>7. Fetching'
  BY <1>1, <1>2, <1>3 DEF Fetching, RowFits
<1>8. FullPass'
  <2>1. full => FullOf(e.info) \subseteq wanted'
    BY <1>1 DEF FullOf
  <2> QED
    BY <1>1, <1>3, <2>1 DEF FullPass
<1>9. WantedBased'
  <2>1. CASE full = TRUE
    BY <1>1, <2>1 DEF WantedBased
  <2>2. CASE full = FALSE
    <3>1. \A f \in wanted' : f.baseSlot = e.info.baseSlot
      BY <1>1, <1>2, <2>2 DEF SnapshotOf
    <3>2. flags'.slot = 0 \/ flags'.full => \E b \in local' : IsFull(b) /\ b.slot = e.info.baseSlot
      BY <1>1, <2>2
    <3> QED
      BY <3>1, <3>2 DEF WantedBased
  <2> QED
    BY <2>1, <2>2
<1>10. FirstFetched'
  BY <1>1, <1>3 DEF FirstFetched
<1>11. CalmInv'
  <2>1. /\ \E r \in db' : snap' = SourceOf(r)
        /\ calm' /\ snap'.target \notin http' => FilesIn(snap'.info) \subseteq dir(snap'.target)
        /\ ~failed' /\ exit' # "fatal"
    BY <1>1, <1>2, <1>3 DEF RowFits
  <2>2. \A t : dir(t)' = dir(t)
    BY <1>1 DEF dir
  <2> QED
    BY <2>1, <1>1, <1>3 DEF CalmInv, dir
<1>12. NoOrphans'
  <2>1. NoOrphans
    BY DEF FetchInv
  <2> QED
    BY <1>1, <2>1 DEF NoOrphans, FlagsKept
<1> QED
  BY <1>1, <1>4, <1>5, <1>6, <1>7, <1>8, <1>9, <1>10, <1>11, <1>12 DEF FetchInv

\* The run ends.
LEMMA DoneStep ==
  ASSUME FetchInv, NEW how \in {"ok", "nothing", "fatal", "panic", "interrupted"}, Done(how),
         UNCHANGED <<nodes, start, local>>, FlagsKept,
         how = "ok" => /\ first' = first
                       /\ flags.slot = 0 /\ flags.full =>
                            SnapshotOf(Files, first.info) /\ FullOf(first.info) \subseteq local,
         how = "fatal" =>
           ~(calm /\ snap # NoSnap /\ client \notin http /\ flags.group = AnyGroup /\ client = snap.target)
  PROVE  FetchInv'
<1>1. /\ NodesInv' /\ UNCHANGED <<db, http, calm, stage, start, local, snap, client, wanted, failed>>
      /\ pc' = "done" /\ exit' = how
  BY RunNodes DEF Done
<1>2. RunTyped'
  <2>1. /\ start \in Locals /\ start \subseteq local /\ local \subseteq start \cup Files
        /\ snap.target \in Targets \cup {0} /\ client \in Targets \cup {0}
        /\ wanted \subseteq Files /\ failed \in BOOLEAN
    BY DEF FetchInv, RunTyped
  <2> QED
    BY <1>1, <2>1 DEF RunTyped, FlagsKept
<1>3. LocalInv'
  BY <1>1 DEF FetchInv, LocalInv
<1>4. Early'
  BY <1>1 DEF Early
<1>5. Fetching'
  BY <1>1 DEF FetchInv, Fetching
<1>6. FullPass'
  BY <1>1 DEF FullPass
<1>7. WantedBased'
  <2>1. WantedBased
    BY DEF FetchInv
  <2> QED
    BY <1>1, <2>1 DEF WantedBased, FlagsKept
<1>8. FirstFetched'
  BY <1>1 DEF FirstFetched, FlagsKept
<1>9. CalmInv'
  <2>1. CalmInv
    BY DEF FetchInv
  <2>2. \A t : dir(t)' = dir(t)
    BY <1>1 DEF dir
  <2> QED
    BY <1>1, <2>1, <2>2 DEF CalmInv, FlagsKept, dir
<1>10. NoOrphans'
  <2>1. NoOrphans
    BY DEF FetchInv
  <2> QED
    BY <1>1, <2>1 DEF NoOrphans, FlagsKept
<1> QED
  BY <1>1, <1>2, <1>3, <1>4, <1>5, <1>6, <1>7, <1>8, <1>9, <1>10 DEF FetchInv

\* A source in an answer is that of a row of the index.
LEMMA SourceTyped ==
  ASSUME NodesInv, NEW remote \in Seq(Sources(db)), remote # << >>
  PROVE  remote[1].target \in Targets
<1>1. PICK e \in db : remote[1] = SourceOf(e)
  BY FirstRow
<1> QED
  BY <1>1 DEF SourceOf, NodesInv, RowFits, RowIs

LEMMA AskStep ==
  ASSUME FetchInv, Ask
  PROVE  FetchInv'
<1> DEFINE answer     == IF flags.slot # 0 THEN GetSnapshots(db, flags.group, flags.slot)
                         ELSE GetBestSnapshots(db, flags.group, -1)
           remote     == answer.sources
           localSnaps == ListSnapshots(local)
           advice     == ShouldFetchSnapshot(localSnaps, remote, MinAge, MaxAge).advice
<1>1. /\ pc = "ask" /\ UNCHANGED <<nodes, start, local>>
      /\ first' = IF remote = << >> THEN NoSnap ELSE remote[1]
      /\ \/ flags.slot # 0 /\ Take(remote, flags.full) /\ UNCHANGED flags
         \/ /\ flags.slot = 0
            /\ \/ /\ advice \in {"NothingFound", "RemoteIsOlder"}
                  /\ Done("nothing") /\ UNCHANGED flags
               \/ /\ advice = "UpToDate"
                  /\ Done(IF localSnaps = << >> THEN "panic" ELSE "nothing")
                  /\ UNCHANGED flags
               \/ /\ advice = "FetchFull" /\ ~flags.full
                  /\ IF localSnaps = << >> THEN Done("panic")
                     ELSE pc' = "older" /\ UNCHANGED <<exit, snap, client, wanted, failed>>
                  /\ UNCHANGED flags
               \/ /\ advice = "FetchIncremental"
                  /\ flags' = [flags EXCEPT !.full = FALSE]
                  /\ IF flags.incremental THEN Take(remote, FALSE) ELSE Done("nothing")
               \/ /\ advice = "Fetch" \/ (advice = "FetchFull" /\ flags.full)
                  /\ Take(remote, flags.full) /\ UNCHANGED flags
  BY DEF Ask
<1>2. /\ NodesInv /\ flags \in [full : BOOLEAN, incremental : BOOLEAN, slot : Slots, group : {AnyGroup, Group}]
      /\ flags.group \in {AnyGroup, Group} /\ flags.full \in BOOLEAN
      /\ snap = NoSnap /\ wanted = {} /\ IsLedger(local)
  BY <1>1 DEF FetchInv, RunTyped, Early, LocalInv
<1>3. remote \in Seq(Sources(db))
  <2>1. CASE flags.slot # 0
    <3> DEFINE rows == { e \in db : e.info.baseSlot = flags.slot }
    <3>1. remote \in Seq(Sources(rows))
      BY <1>2, <2>1, AnswersAtSlot
    <3>2. Sources(rows) \subseteq Sources(db)
      BY DEF Sources
    <3> HIDE DEF remote, rows
    <3> QED
      BY <3>1, <3>2
  <2>2. CASE flags.slot = 0
    <3>1. -1 \in Int
      OBVIOUS
    <3> QED
      BY <1>2, <2>2, <3>1, AnswersBest
  <2> QED
    BY <2>1, <2>2
<1>4. localSnaps # << >> => \E b \in local : IsFull(b) /\ b.slot = localSnaps[1].baseSlot
  BY <1>2, LocalSnapshots
<1>5. advice \in {"Fetch", "FetchIncremental"} =>
        localSnaps # << >> /\ localSnaps[1].baseSlot = remote[1].info.baseSlot
  BY Advised
<1> HIDE DEF remote, localSnaps, advice
<1>6. first'.target \in Targets \cup {0}
  <2>1. CASE remote = << >>
    BY <1>1, <2>1 DEF NoSnap
  <2>2. CASE remote # << >>
    BY <1>1, <1>2, <1>3, <2>2, SourceTyped
  <2> QED
    BY <2>1, <2>2
<1>7. ASSUME flags' = flags \/ flags' = [flags EXCEPT !.full = FALSE]
      PROVE  FlagsKept
  <2>1. CASE flags' = flags
    BY <1>2, <1>6, <2>1 DEF FlagsKept
  <2>2. CASE flags' = [flags EXCEPT !.full = FALSE]
    <3>1. flags' \in [full : BOOLEAN, incremental : BOOLEAN, slot : Slots, group : {AnyGroup, Group}]
      BY <1>2, <2>2
    <3>2. flags'.slot = flags.slot /\ flags'.group = flags.group /\ flags'.full = FALSE
      BY <1>2, <2>2
    <3> QED
      BY <1>6, <3>1, <3>2 DEF FlagsKept
  <2> QED
    BY <1>7, <2>1, <2>2
<1>8. ASSUME NEW how \in {"nothing", "panic", "fatal"}, Done(how), FlagsKept
      PROVE  FetchInv'
  BY <1>1, <1>2, <1>8, DoneStep
<1>9. ASSUME NEW full \in BOOLEAN, Take(remote, full), FlagsKept,
             full => flags'.full, flags'.slot = 0 /\ flags'.full => full,
             ~full /\ (flags'.slot = 0 \/ flags'.full) => advice \in {"Fetch", "FetchIncremental"}
      PROVE  FetchInv'
  <2>1. CASE remote = << >> /\ Done("fatal")
    BY <1>8, <1>9, <2>1
  <2>2. ASSUME NEW e \in db, remote # << >>, remote[1] = SourceOf(e), Begins(e, full)
        PROVE  FetchInv'
    <3>1. first' = SourceOf(e) /\ remote[1].info = e.info
      BY <1>1, <2>2 DEF SourceOf
    <3>2. ~full /\ (flags'.slot = 0 \/ flags'.full) =>
            \E b \in local : IsFull(b) /\ b.slot = e.info.baseSlot
      BY <1>4, <1>5, <1>9, <3>1
    <3> QED
      BY <1>1, <1>9, <2>2, <3>1, <3>2, BeginStep
  <2> QED
    BY <1>3, <1>9, <2>1, <2>2, Takes
<1>10. CASE flags.slot # 0 /\ Take(remote, flags.full) /\ UNCHANGED flags
  BY <1>2, <1>7, <1>9, <1>10
<1>11. CASE flags.slot = 0 /\ advice \in {"NothingFound", "RemoteIsOlder"}
            /\ Done("nothing") /\ UNCHANGED flags
  BY <1>7, <1>8, <1>11
<1>12. CASE flags.slot = 0 /\ advice = "UpToDate"
            /\ Done(IF localSnaps = << >> THEN "panic" ELSE "nothing") /\ UNCHANGED flags
  BY <1>7, <1>8, <1>12
<1>13. CASE /\ flags.slot = 0 /\ advice = "FetchFull" /\ ~flags.full /\ UNCHANGED flags
            /\ IF localSnaps = << >> THEN Done("panic")
               ELSE pc' = "older" /\ UNCHANGED <<exit, snap, client, wanted, failed>>
  <2>1. CASE localSnaps = << >>
    BY <1>7, <1>8, <1>13, <2>1
  <2>2. CASE localSnaps # << >>
    <3>1. /\ NodesInv' /\ UNCHANGED <<db, http, calm, stage, start, local>>
          /\ pc' = "older" /\ UNCHANGED <<exit, snap, client, wanted, failed, flags>>
          /\ pc = "ask" /\ exit = "none"
      BY <1>1, <1>13, <2>2, RunNodes DEF FetchInv, Early
    <3>2. RunTyped'
      <4>1. /\ start \in Locals /\ start \subseteq local /\ local \subseteq start \cup Files
            /\ exit \in {"none", "ok", "nothing", "fatal", "panic", "interrupted"}
            /\ snap.target \in Targets \cup {0} /\ client \in Targets \cup {0}
            /\ wanted \subseteq Files /\ failed \in BOOLEAN
        BY DEF FetchInv, RunTyped
      <4> QED
        BY <1>2, <1>6, <3>1, <4>1 DEF RunTyped
    <3>3. LocalInv' /\ NoOrphans'
      <4>1. LocalInv /\ NoOrphans
        BY DEF FetchInv
      <4> QED
        BY <3>1, <4>1 DEF LocalInv, NoOrphans
    <3>4. Early'
      BY <1>2, <1>13, <2>2, <3>1 DEF Early, localSnaps
    <3>5. Fetching' /\ FullPass' /\ WantedBased'
      BY <1>2, <3>1 DEF Fetching, FullPass, WantedBased
    <3>6. FirstFetched'
      BY <3>1 DEF FirstFetched
    <3>7. CalmInv'
      BY <1>2, <3>1 DEF CalmInv
    <3> QED
      BY <3>1, <3>2, <3>3, <3>4, <3>5, <3>6, <3>7 DEF FetchInv
  <2> QED
    BY <2>1, <2>2
<1>14. CASE /\ flags.slot = 0 /\ advice = "FetchIncremental"
            /\ flags' = [flags EXCEPT !.full = FALSE]
            /\ IF flags.incremental THEN Take(remote, FALSE) ELSE Done("nothing")
  <2>1. FlagsKept /\ flags'.full = FALSE /\ FALSE \in BOOLEAN
    BY <1>2, <1>7, <1>14
  <2>2. CASE flags.incremental
    BY <1>9, <1>14, <2>1, <2>2
  <2>3. CASE ~flags.incremental
    BY <1>8, <1>14, <2>1, <2>3
  <2> QED
    BY <2>2, <2>3
<1>15. CASE /\ flags.slot = 0 /\ (advice = "Fetch" \/ (advice = "FetchFull" /\ flags.full))
            /\ Take(remote, flags.full) /\ UNCHANGED flags
  BY <1>2, <1>7, <1>9, <1>15
<1> QED
  BY <1>1, <1>10, <1>11, <1>12, <1>13, <1>14, <1>15

LEMMA AskOlderStep ==
  ASSUME FetchInv, AskOlder
  PROVE  FetchInv'
<1> DEFINE base   == ListSnapshots(local)[1].baseSlot
           remote == GetSnapshots(db, flags.group, base).sources
           rows   == { e \in db : e.info.baseSlot = base }
<1>1. /\ pc = "older" /\ Take(remote, FALSE)
      /\ UNCHANGED <<nodes, flags, start, local, first>>
  BY DEF AskOlder
<1>2. /\ NodesInv /\ flags.group \in {AnyGroup, Group}
      /\ snap = NoSnap /\ ~flags.full /\ IsLedger(local) /\ ListSnapshots(local) # << >>
      /\ flags \in [full : BOOLEAN, incremental : BOOLEAN, slot : Slots, group : {AnyGroup, Group}]
      /\ first.target \in Targets \cup {0}
      /\ \A f \in local : f.slot # 0
  BY <1>1 DEF FetchInv, RunTyped, Early, LocalInv
<1>3. FlagsKept
  BY <1>1, <1>2 DEF FlagsKept
<1>4. \E b \in local : IsFull(b) /\ b.slot = base
  BY <1>2, LocalSnapshots
<1>5. base # 0
  BY <1>2, <1>4
<1> HIDE DEF base
<1>6. remote \in Seq(Sources(rows))
  BY <1>2, <1>5, AnswersAtSlot
<1> HIDE DEF remote
<1>7. CASE remote = << >> /\ Done("fatal")
  BY <1>1, <1>2, <1>3, <1>7, DoneStep
<1>8. ASSUME NEW e \in rows, Begins(e, FALSE)
      PROVE  FetchInv'
  <2>1. e \in db /\ e.info.baseSlot = base /\ FALSE \in BOOLEAN /\ flags'.full = flags.full
    BY <1>1
  <2> QED
    BY <1>1, <1>2, <1>3, <1>4, <1>8, <2>1, BeginStep
<1>9. FALSE \in BOOLEAN
  OBVIOUS
<1> HIDE DEF rows
<1> QED
  BY <1>1, <1>6, <1>7, <1>8, <1>9, Takes

\* The command line and the first answer stay.
LEMMA SameFlags == FetchInv /\ UNCHANGED <<flags, first>> => FlagsKept
BY DEF FetchInv, RunTyped, FlagsKept

LEMMA DownloadStep ==
  ASSUME FetchInv, NEW f \in wanted, Download(f)
  PROVE  FetchInv'
<1>1. /\ NodesInv' /\ UNCHANGED <<nodes, db, http, calm, stage, flags, start, pc, exit, first, snap, client>>
      /\ wanted' = wanted \ {f} /\ f \notin wanted'
  BY RunNodes DEF Download
<1>2. /\ f \in Files /\ client \in Targets /\ SnapshotOf(Files, snap.info)
      /\ wanted \subseteq FilesIn(snap.info) /\ f \in FilesIn(snap.info)
      /\ pc \notin {"ask", "older", "refresh"}
      /\ pc = "done" \/ exit = "none"
  BY DEF FetchInv, RunTyped, Fetching, Early, FullPass
<1>3. /\ start \subseteq local /\ local \subseteq start \cup Files /\ failed \in BOOLEAN
      /\ LocalInv /\ NoOrphans /\ WantedBased /\ FirstFetched /\ FullPass /\ CalmInv
  BY DEF FetchInv, RunTyped
<1>4. \/ Offers(client, f) /\ local' = local \cup {f} /\ UNCHANGED failed
      \/ ~Offers(client, f) /\ failed' = TRUE /\ UNCHANGED local
  BY DEF Download
<1>5. local \subseteq local' /\ local' \subseteq local \cup {f} /\ failed' \in BOOLEAN
  BY <1>3, <1>4
<1>6. RunTyped'
  <2>1. RunTyped
    BY DEF FetchInv
  <2> QED
    BY <1>1, <1>2, <1>3, <1>5, <2>1 DEF RunTyped
<1>7. LocalInv'
  <2>1. CASE local' = local
    BY <1>3, <2>1 DEF LocalInv
  <2>2. CASE local' = local \cup {f} /\ Offers(client, f)
    <3>1. stage[client] \in Stages /\ f \in Ledgers[stage[client]]
      BY <1>2, <2>2 DEF FetchInv, NodesInv, NodesTypeOK, Stages, Offers, dir
    <3>2. OfValidator(Ledgers[stage[client]]) /\ IsLedger(Ledgers[stage[client]])
      BY <3>1, NodeLedger
    <3>3. f \in [slot : Nat, baseSlot : Nat, hash : Nat, ext : Nat] /\ Parses(f)
      BY <3>1, <3>2 DEF IsLedger
    <3>4. f.slot # 0
      BY <3>1, <3>2, NodeSlots
    <3>5. IsLedger(local')
      BY <1>3, <2>2, <3>3, FS_AddElement DEF LocalInv, IsLedger
    <3> QED
      BY <1>3, <2>2, <3>4, <3>5 DEF LocalInv
  <2> QED
    BY <1>4, <2>1, <2>2
<1>8. Early'
  BY <1>1, <1>2 DEF Early
<1>9. Fetching'
  <2>1. Fetching
    BY DEF FetchInv
  <2> QED
    BY <1>1, <2>1 DEF Fetching
<1>10. FullPass'
  <2>1. pc = "full" /\ ~failed' => FullOf(snap.info) \subseteq wanted' \cup local'
    BY <1>1, <1>3, <1>4 DEF FullPass
  <2> QED
    BY <1>1, <1>2, <1>3, <2>1 DEF FullPass
<1>11. WantedBased'
  BY <1>1, <1>3, <1>5 DEF WantedBased
<1>12. FirstFetched'
  BY <1>1, <1>3, <1>5 DEF FirstFetched
<1>13. CalmInv'
  <2>1. \A t : dir(t)' = dir(t)
    BY <1>1 DEF dir
  <2>2. calm /\ snap # NoSnap /\ client \notin http /\ client = snap.target => Offers(client, f)
    BY <1>2, <1>3 DEF CalmInv, Offers
  <2> QED
    BY <1>1, <1>3, <1>4, <2>1, <2>2 DEF CalmInv, dir
<1>14. NoOrphans'
  <2>1. (flags.slot = 0 \/ flags.full) /\ f \in local' \ local =>
          IsFull(f) \/ \E b \in local : IsFull(b) /\ b.slot = f.baseSlot
    BY <1>3, <1>4 DEF WantedBased, Offers
  <2> QED
    BY <1>1, <1>3, <1>5, <2>1 DEF NoOrphans
<1> QED
  BY <1>1, <1>6, <1>7, <1>8, <1>9, <1>10, <1>11, <1>12, <1>13, <1>14 DEF FetchInv

LEMMA CancelStep ==
  ASSUME FetchInv, NEW f \in wanted, CancelDownload(f)
  PROVE  FetchInv'
<1>1. /\ NodesInv' /\ wanted' \subseteq wanted /\ failed
      /\ UNCHANGED <<nodes, db, http, calm, stage, flags, start, local, pc, exit, first, snap, client, failed>>
  BY RunNodes DEF CancelDownload
<1>2. RunTyped' /\ LocalInv' /\ NoOrphans'
  BY <1>1 DEF FetchInv, RunTyped, LocalInv, NoOrphans
<1>3. Early' /\ Fetching' /\ WantedBased' /\ FirstFetched'
  BY <1>1 DEF FetchInv, Early, Fetching, WantedBased, FirstFetched
<1>4. FullPass'
  BY <1>1 DEF FetchInv, FullPass
<1>5. CalmInv'
  <2>1. CalmInv /\ \A t : dir(t)' = dir(t)
    BY <1>1 DEF FetchInv, dir
  <2> QED
    BY <1>1, <2>1 DEF CalmInv, dir
<1> QED
  BY <1>1, <1>2, <1>3, <1>4, <1>5 DEF FetchInv

LEMMA PassDoneStep ==
  ASSUME FetchInv, PassDone
  PROVE  FetchInv'
<1>1. /\ pc \in {"full", "incremental"} /\ wanted = {}
      /\ UNCHANGED <<nodes, flags, start, local, first>>
  BY DEF PassDone
<1>2. FlagsKept
  BY <1>1, SameFlags
<1>3. /\ SnapshotOf(Files, snap.info) /\ exit = "none"
      /\ pc = "full" => /\ flags.full /\ client = snap.target
                        /\ failed \/ FullOf(snap.info) \subseteq local
      /\ pc = "full" /\ flags.slot = 0 => first = snap
      /\ pc = "incremental" /\ flags.slot = 0 /\ flags.full =>
           SnapshotOf(Files, first.info) /\ FullOf(first.info) \subseteq local
  BY <1>1 DEF FetchInv, Fetching, Early, FullPass, FirstFetched
<1>4. CASE failed /\ Done("fatal")
  <2>1. ~(calm /\ snap # NoSnap /\ client \notin http /\ flags.group = AnyGroup /\ client = snap.target)
    BY <1>4 DEF FetchInv, CalmInv
  <2> QED
    BY <1>1, <1>2, <1>4, <2>1, DoneStep
<1>5. CASE ~failed /\ Done("ok")
  BY <1>1, <1>2, <1>3, <1>5, DoneStep
<1>6. CASE ~failed /\ pc = "full" /\ pc' = "refresh" /\ UNCHANGED <<exit, snap, client, wanted, failed>>
  <2>1. NodesInv' /\ UNCHANGED <<db, http, calm, stage>>
    BY <1>1, RunNodes
  <2>2. RunTyped' /\ LocalInv' /\ NoOrphans' /\ WantedBased'
    BY <1>1, <1>6, <2>1 DEF FetchInv, RunTyped, LocalInv, NoOrphans, WantedBased
  <2>3. Early' /\ Fetching' /\ FullPass' /\ FirstFetched'
    BY <1>1, <1>3, <1>6, <2>1 DEF FetchInv, Early, Fetching, FullPass, FirstFetched
  <2>4. CalmInv'
    <3>1. CalmInv /\ \A t : dir(t)' = dir(t)
      BY <2>1 DEF FetchInv, dir
    <3> QED
      BY <1>1, <1>6, <2>1, <3>1 DEF CalmInv, dir
  <2> QED
    BY <2>1, <2>2, <2>3, <2>4 DEF FetchInv
<1> QED
  BY <1>4, <1>5, <1>6 DEF PassDone

LEMMA RefreshStep ==
  ASSUME FetchInv, Refresh
  PROVE  FetchInv'
<1> DEFINE base   == snap.info.baseSlot
           remote == GetSnapshots(db, flags.group, base).sources
           rows   == { e \in db : e.info.baseSlot = base }
<1>1. /\ pc = "refresh" /\ UNCHANGED <<nodes, flags, start, local, first>>
      /\ IF remote = << >> THEN Done("fatal")
         ELSE /\ snap' = remote[1]
              /\ pc' = "incremental"
              /\ wanted' = FilesOf(remote[1], FALSE, TRUE)
              /\ UNCHANGED <<exit, client, failed>>
  BY DEF Refresh
<1>2. /\ NodesInv /\ flags.group \in {AnyGroup, Group} /\ client \in Targets
      /\ SnapshotOf(Files, snap.info) /\ base # 0
      /\ flags.full /\ client = snap.target /\ failed = FALSE /\ FullOf(snap.info) \subseteq local
      /\ snap.target \notin http => FullOf(snap.info) # {}
      /\ exit = "none"
      /\ flags.slot = 0 => SnapshotOf(Files, first.info) /\ FullOf(first.info) \subseteq local
      /\ calm => \E e \in db : snap = SourceOf(e)
  BY <1>1 DEF FetchInv, RunTyped, Fetching, FullPass, Early, FirstFetched, CalmInv, SnapshotOf
<1>3. /\ NodesInv' /\ UNCHANGED <<db, http, calm, stage>>
  BY <1>1, RunNodes
<1>4. FlagsKept
  BY <1>1, SameFlags
<1>5. /\ remote \in Seq(Sources(rows))
      /\ flags.group = AnyGroup /\ rows # {} => remote # << >>
  BY <1>2, AnswersAtSlot
<1>6. calm => rows # {}
  BY <1>2 DEF SourceOf
<1>7. rows \subseteq db /\ \A e \in rows : e.info.baseSlot = base
  OBVIOUS
<1> HIDE DEF remote, rows
<1>8. CASE remote = << >>
  BY <1>1, <1>4, <1>5, <1>6, <1>8, DoneStep
<1>9. CASE remote # << >>
  <2>1. PICK e \in rows : remote[1] = SourceOf(e)
    BY <1>5, <1>9, FirstRow
  <2>2. /\ RowFits(e) /\ RowIs(e) /\ e.key.target \in Targets /\ SnapshotOf(Files, e.info)
        /\ FilesIn(e.info) \subseteq Files /\ e.info.baseSlot = base
    BY <1>2, <1>7, FitsTyped DEF NodesInv, RowFits, RowIs
  <2>3. /\ snap' = SourceOf(e) /\ snap'.info = e.info /\ snap'.target = e.key.target
        /\ pc' = "incremental" /\ UNCHANGED <<exit, client, failed>>
        /\ wanted' = { f \in FilesIn(e.info) : ~IsFull(f) }
    BY <1>1, <1>9, <2>1 DEF SourceOf, FilesOf
  <2>4. RunTyped' /\ LocalInv' /\ NoOrphans'
    <3>1. RunTyped /\ LocalInv /\ NoOrphans
      BY DEF FetchInv
    <3>2. LocalInv' /\ NoOrphans'
      BY <1>1, <3>1 DEF LocalInv, NoOrphans
    <3> QED
      BY <1>1, <2>2, <2>3, <3>1, <3>2 DEF RunTyped
  <2>5. Early' /\ FullPass'
    BY <1>2, <2>3 DEF Early, FullPass
  <2>6. Fetching'
    BY <1>2, <1>3, <2>2, <2>3 DEF Fetching, RowFits
  <2>7. WantedBased'
    <3>1. \A f \in wanted' : f.baseSlot = base
      BY <2>2, <2>3 DEF SnapshotOf
    <3>2. client \notin http => \E b \in local : IsFull(b) /\ b.slot = base
      BY <1>2 DEF SnapshotOf, FullOf
    <3> QED
      BY <1>1, <1>3, <2>3, <3>1, <3>2 DEF WantedBased
  <2>8. FirstFetched'
    BY <1>1, <1>2, <2>3 DEF FirstFetched
  <2>9. CalmInv'
    <3>1. \A t : dir(t)' = dir(t)
      BY <1>3 DEF dir
    <3>2. calm /\ e.key.target \notin http => FilesIn(e.info) \subseteq dir(e.key.target)
      BY <2>2 DEF RowFits
    <3> QED
      BY <1>1, <1>2, <1>3, <2>3, <3>1, <3>2 DEF CalmInv, dir
  <2> QED
    BY <1>3, <2>4, <2>5, <2>6, <2>7, <2>8, <2>9 DEF FetchInv
<1> QED
  BY <1>8, <1>9

LEMMA InterruptStep ==
  ASSUME FetchInv, Interrupt
  PROVE  FetchInv'
BY SameFlags, DoneStep DEF Interrupt

\* As long as nothing is taken away, rows only come.
LEMMA CalmNodes ==
  ASSUME NodesNext
  PROVE  http' = http /\ (calm' => calm /\ db \subseteq db' /\ stage' = stage)
<1>1. PICK t \in Targets : Move(t) \/ Withdraw(t) \/ Publish(t)
  BY DEF NodesNext
<1> QED
  BY <1>1 DEF Move, Withdraw, Publish

LEMMA OthersStep ==
  ASSUME FetchInv, NodesNext, UNCHANGED run
  PROVE  FetchInv'
<1>1. NodesInv' /\ http' = http /\ (calm' => calm /\ db \subseteq db' /\ stage' = stage)
  BY NodesStep, CalmNodes DEF FetchInv
<1>2. UNCHANGED <<flags, start, local, pc, exit, first, snap, client, wanted, failed>>
  BY DEF run
<1>3. RunTyped' /\ LocalInv' /\ NoOrphans' /\ Early'
  BY <1>2 DEF FetchInv, RunTyped, LocalInv, NoOrphans, Early
<1>4. Fetching' /\ FullPass' /\ WantedBased' /\ FirstFetched'
  BY <1>1, <1>2 DEF FetchInv, Fetching, FullPass, WantedBased, FirstFetched
<1>5. CalmInv'
  <2>1. CalmInv /\ (calm' => \A t : dir(t)' = dir(t))
    BY <1>1 DEF FetchInv, dir
  <2> QED
    BY <1>1, <1>2, <2>1 DEF CalmInv, dir
<1> QED
  BY <1>1, <1>3, <1>4, <1>5 DEF FetchInv

LEMMA FetchStart == Init => FetchInv
<1> SUFFICES ASSUME Init
             PROVE  FetchInv
  OBVIOUS
<1>1. NodesInv
  BY NodesStart DEF Init
<1>2. /\ flags \in [full : BOOLEAN, incremental : BOOLEAN, slot : Slots, group : {AnyGroup, Group}]
      /\ start \in Locals /\ local = start /\ LocalInv
  BY FetchAssumption DEF Init, LocalInv
<1>3. /\ pc = "ask" /\ exit = "none" /\ first = NoSnap /\ snap = NoSnap /\ client = 0
      /\ NoSnap.target = 0 /\ wanted = {} /\ failed = FALSE
  BY DEF Init, NoSnap
<1>4. RunTyped
  BY <1>2, <1>3 DEF RunTyped
<1>5. Early /\ Fetching /\ FullPass /\ WantedBased /\ FirstFetched /\ CalmInv /\ NoOrphans
  BY <1>2, <1>3 DEF Early, Fetching, FullPass, WantedBased, FirstFetched, CalmInv, NoOrphans
<1> QED
  BY <1>1, <1>2, <1>4, <1>5 DEF FetchInv

LEMMA FetchInvariance == Spec => []FetchInv
<1>1. FetchInv /\ [Next]_vars => FetchInv'
  <2> SUFFICES ASSUME FetchInv, [Next]_vars
               PROVE  FetchInv'
    OBVIOUS
  <2>1. CASE Ask
    BY <2>1, AskStep
  <2>2. CASE AskOlder
    BY <2>2, AskOlderStep
  <2>3. CASE PassDone
    BY <2>3, PassDoneStep
  <2>4. CASE Refresh
    BY <2>4, RefreshStep
  <2>5. CASE Interrupt
    BY <2>5, InterruptStep
  <2>6. CASE \E f \in wanted : Download(f)
    BY <2>6, DownloadStep
  <2>7. CASE \E f \in wanted : CancelDownload(f)
    BY <2>7, CancelStep
  <2>8. CASE NodesNext /\ UNCHANGED run
    BY <2>8, OthersStep
  <2>9. CASE UNCHANGED vars
    <3>1. /\ UNCHANGED nodes /\ UNCHANGED run /\ NodesInv' /\ UNCHANGED <<db, http, calm, stage>>
      BY <2>9, RunNodes DEF vars
    <3>2. \A t : dir(t)' = dir(t)
      BY <3>1 DEF dir
    <3>3. CalmInv'
      BY <3>1, <3>2 DEF FetchInv, CalmInv, run, dir
    <3> QED
      BY <3>1, <3>3 DEF FetchInv, run, RunTyped, LocalInv, Early, Fetching, FullPass, WantedBased,
                        FirstFetched, NoOrphans
  <2> QED
    BY <2>1, <2>2, <2>3, <2>4, <2>5, <2>6, <2>7, <2>8, <2>9 DEF Next, Run
<1> QED
  BY <1>1, FetchStart, PTL DEF Spec

\* What the command asks for, and what it keeps, are files of the nodes, whatever the
\* command line and however nodes and index change.
THEOREM FetchTypeCorrect == Spec => []TypeOK
<1>1. FetchInv => TypeOK
  BY DEF FetchInv, NodesInv, RunTyped, TypeOK
<1> QED
  BY <1>1, FetchInvariance, PTL

\* The command adds no incremental snapshot to the local ledger without a full one at its
\* base, wherever it is stopped.
THEOREM NoOrphansEver == Spec => []NoOrphans
<1>1. FetchInv => NoOrphans
  BY DEF FetchInv
<1> QED
  BY <1>1, FetchInvariance, PTL

\* A run that fetches a full snapshot and reports success leaves one at least as new as
\* the best one the tracker named at first: what it lists when asked again can be listed
\* for the local ledger.
THEOREM FullFetched == Spec => []FullReached
<1>1. FetchInv => FullReached
  <2> SUFFICES ASSUME FetchInv, exit = "ok", flags.full, flags.slot = 0,
                      NEW f \in FilesIn(first.info), IsFull(f)
               PROVE  LET snaps == ListSnapshots(local)
                      IN  \E i \in DOMAIN snaps : snaps[i].baseSlot >= first.info.baseSlot
    BY DEF FullReached
  <2>1. SnapshotOf(Files, first.info) /\ FullOf(first.info) \subseteq local /\ IsLedger(local)
    BY DEF FetchInv, FirstFetched, LocalInv
  <2>2. f \in local /\ f.slot = first.info.baseSlot /\ first.info.baseSlot \in Slots
    BY <2>1 DEF FullOf, SnapshotOf
  <2>3. PICK i \in DOMAIN ListSnapshots(local) : ListSnapshots(local)[i].baseSlot = f.slot
    BY <2>1, <2>2, LocalSnapshots
  <2>4. first.info.baseSlot \in Nat
    BY <2>2, IndexAssumption DEF Slots
  <2>5. ListSnapshots(local)[i].baseSlot >= first.info.baseSlot
    BY <2>2, <2>3, <2>4
  <2> QED
    BY <2>5
<1> QED
  BY <1>1, FetchInvariance, PTL

\* A run that asks the node that listed the snapshot fails only when something was taken
\* away from under it, or what it was told had come late.
THEOREM CalmRunsSucceed == Spec => []CalmSucceeds
<1>1. FetchInv => CalmSucceeds
  BY DEF FetchInv, CalmInv, CalmSucceeds
<1> QED
  BY <1>1, FetchInvariance, PTL
=============================================================================

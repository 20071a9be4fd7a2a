---------------------------- MODULE ProberProofs ----------------------------
(***************************************************************************)
(* Proofs about the requests to a node: what a sidecar lists and what a    *)
(* download of the best snapshot sends (module Sidecar), and what a probe  *)
(* of an HTTP target lists, for any set of files and any number of         *)
(* requests, whatever is written and purged between their steps.           *)
(***************************************************************************)
EXTENDS Prober, Lists

(***************************************************************************)
(* The invariant.                                                          *)
(***************************************************************************)
\* What a request is at belongs to its kind; what it has found was there.
Matching ==
  /\ dir \subseteq seen /\ found \subseteq seen
  /\ pc \in {"headfull", "headinc"} => kind = "url"
  /\ pc \in {"readdir", "stat"} => kind \in {"list", "best"}
  /\ pc = "open" => kind \in {"best", "name"}

\* No file that stays is lost between ReadDir and the last Stat.
Scanned == pc = "stat" => stable \subseteq found \cup unstatted

\* No full file that stays is better.
AsGood(file) == \A f \in stable : IsFull(f) => ~Better(f, file)

Chosen == pc = "open" /\ kind = "best" => AsGood(wanted)

\* What is known of an HTTP target between the two requests of a probe.
HalfProbed ==
  pc = "headinc" =>
    /\ \A f \in found : IsFull(f)
    /\ \A f, g \in found : f = g
    /\ \A f \in stable : IsFull(f) => \E b \in found : ~Better(f, b)
    /\ \A f \in stable : f \in Redirect(seen, TRUE) => f \in found

\* UrlListingFits of one snapshot.
FitsIn(info, stays, was) ==
  LET n == Len(info.files)
  IN  /\ SeqRange(info.files) \subseteq was
      /\ \A j \in 1 .. n - 1 : info.files[j].baseSlot = info.files[j + 1].slot
      /\ info.slot = info.files[1].slot
      /\ IsFull(info.files[n]) => info.baseSlot = info.files[n].slot
      /\ ~IsFull(info.files[n]) =>
           ~ \E b \in stays : /\ IsFull(b) /\ b.slot = info.files[n].baseSlot
                             /\ b \in Redirect(was, TRUE)

AllFit == UrlListed => \A i \in DOMAIN response.infos : FitsIn(response.infos[i], stable, seen)

\* The properties of a sidecar's list, of one snapshot each.
CompleteIn(info, was) ==
  LET n == Len(info.files)
  IN  /\ SeqRange(info.files) \subseteq was
      /\ \A j \in 1 .. n - 1 : info.files[j].baseSlot = info.files[j + 1].slot
      /\ IsFull(info.files[n])
      /\ info.baseSlot = info.files[n].slot
      /\ info.slot = info.files[1].slot

ListedWell ==
  Listed =>
    /\ \A i \in DOMAIN response.infos : CompleteIn(response.infos[i], seen)
    /\ \A f \in stable :
         (IsFull(f) \/ \E b \in stable : IsFull(b) /\ b.slot = f.baseSlot) => f \in ListedFiles
    /\ \A i, j \in DOMAIN response.infos :
         i < j => LET f == response.infos[i].files[1]
                      o == response.infos[j].files[1]
                  IN  f # o /\ ~Better(o, f)

LEMMA Fitting == (UrlListingFits <=> AllFit) /\ (UrlListingFits' <=> AllFit')
<1>1. UrlListingFits <=> AllFit
  BY DEF UrlListingFits, AllFit, FitsIn
<1>2. UrlListingFits' <=> AllFit'
  BY DEF UrlListingFits, AllFit, FitsIn
<1> QED
  BY <1>1, <1>2

\* Inductive.
IInv ==
  /\ TypeOK /\ Matching
  /\ Scanned /\ Chosen /\ BestIsServed
  /\ ListedWell
  /\ HalfProbed /\ UrlListingFits /\ UrlBestIsListed

\* A better file of a kind is no reason to redirect to one that was not the best before.
LEMMA StillBest ==
  ASSUME NEW a, NEW b, a \subseteq b
  PROVE  \A f \in a : f \in Redirect(b, TRUE) => f \in Redirect(a, TRUE)
BY DEF Redirect

LEMMA InitInv == Init => IInv
<1> SUFFICES ASSUME Init
             PROVE  IInv
  OBVIOUS
<1>1. TypeOK
  BY SidecarAssumption DEF Init, TypeOK, CodesOf, NoResponse
<1>2. Matching /\ Scanned /\ Chosen /\ BestIsServed /\ HalfProbed
  BY DEF Init, Matching, Scanned, Chosen, BestIsServed, HalfProbed
<1>3. UrlListingFits /\ UrlBestIsListed
  BY DEF Init, UrlListingFits, UrlBestIsListed, UrlListed
<1>4. ListedWell
  BY DEF Init, ListedWell, Listed, NoResponse
<1> QED
  BY <1>1, <1>2, <1>3, <1>4 DEF IInv

\* The validator writes a file or purges one: fewer files stay, more have been seen.
LEMMA Change ==
  ASSUME IInv, NEW f \in Universe, Write(f) \/ Purge(f)
  PROVE  IInv'
<1> USE DEF IInv
<1>1. UNCHANGED <<pc, kind, wanted, unstatted, found, response, requests>>
  BY DEF Write, Purge
<1>2. stable' \subseteq stable /\ seen \subseteq seen' /\ stable' \subseteq dir'
      /\ dir' \subseteq Universe /\ dir' \subseteq seen' /\ seen' \subseteq Universe
  BY DEF TypeOK, Matching, Write, Purge
<1>3. \A g \in stable' : g \in Redirect(seen', TRUE) => g \in Redirect(seen, TRUE)
  <2>1. stable' \subseteq seen
    BY <1>2 DEF TypeOK, Matching
  <2> QED
    BY <1>2, <2>1, StillBest
<1>4. TypeOK'
  BY <1>1, <1>2 DEF TypeOK
<1>5. Matching' /\ Scanned' /\ Chosen' /\ BestIsServed'
  BY <1>1, <1>2 DEF Matching, Scanned, Chosen, AsGood, BestIsServed
<1>6. HalfProbed'
  BY <1>1, <1>2, <1>3 DEF HalfProbed
<1>7. UrlBestIsListed'
  BY <1>1, <1>2 DEF UrlBestIsListed, UrlListed
<1>8. UrlListingFits'
  <2>1. ASSUME NEW info, FitsIn(info, stable, seen)
        PROVE  FitsIn(info, stable', seen')
    BY <1>2, <1>3, <2>1 DEF FitsIn
  <2> QED
    BY <1>1, <2>1, Fitting DEF AllFit, UrlListed
<1>9. ListedWell'
  <2>1. ListedFiles' = ListedFiles /\ (Listed' <=> Listed)
    BY <1>1 DEF ListedFiles, Listed
  <2>2. ASSUME NEW info, CompleteIn(info, seen)
        PROVE  CompleteIn(info, seen')
    BY <1>2, <2>2 DEF CompleteIn
  <2> QED
    BY <1>1, <1>2, <2>1, <2>2 DEF ListedWell
<1> QED
  BY <1>4, <1>5, <1>6, <1>7, <1>8, <1>9

-----------------------------------------------------------------------------
\* A request or a probe begins.
LEMMA Begins ==
  ASSUME IInv,
         \/ \E f \in Universe : DownloadSnapshot(f)
         \/ \E k \in {"list", "best"} : Request(k)
         \/ ProbeUrl
  PROVE  IInv'
<1>1. /\ TypeOK /\ pc = "idle"
      /\ dir' = dir /\ unstatted' = unstatted /\ found' = {}
      /\ stable' = dir /\ seen' = dir /\ requests < MaxRequests /\ requests' = requests + 1
  BY DEF IInv, Begin, Request, DownloadSnapshot, ProbeUrl
<1>2. \/ kind' = "name" /\ pc' = "open" /\ wanted' \in Universe /\ response' = NoResponse
      \/ /\ kind' = "name" /\ pc' = "idle" /\ wanted' \in Universe
         /\ response' = [code |-> 404, infos |-> << >>, file |-> NoFile]
      \/ /\ kind' \in {"list", "best"} /\ pc' = "readdir" /\ wanted' = NoFile
         /\ response' = NoResponse
      \/ kind' = "url" /\ pc' = "headfull" /\ wanted' = NoFile /\ response' = NoResponse
  BY DEF Begin, Reply, Request, DownloadSnapshot, ProbeUrl
<1>3. requests' \in 0 .. MaxRequests
  BY <1>1, SidecarAssumption DEF TypeOK
<1>4. TypeOK'
  BY <1>1, <1>2, <1>3 DEF TypeOK, CodesOf, NoResponse
<1>5. Matching' /\ Scanned' /\ Chosen' /\ BestIsServed' /\ HalfProbed'
  BY <1>1, <1>2 DEF Matching, Scanned, Chosen, BestIsServed, HalfProbed, NoResponse
<1>6. UrlBestIsListed' /\ UrlListingFits'
  BY <1>1, <1>2 DEF UrlBestIsListed, UrlListingFits, UrlListed
<1>7. ListedWell'
  BY <1>2 DEF ListedWell, Listed
<1> QED
  BY <1>4, <1>5, <1>6, <1>7 DEF IInv

\* The directory is read and its entries looked at.
LEMMA Scans ==
  ASSUME IInv, ReadDir \/ \E f \in Universe : Stat(f)
  PROVE  IInv'
<1>1. /\ TypeOK /\ Matching /\ Scanned /\ pc' = "stat"
      /\ kind \in {"list", "best"}
      /\ UNCHANGED <<dir, kind, wanted, response, requests, seen>>
  BY DEF IInv, Matching, ReadDir, Stat
<1>2. /\ unstatted' \subseteq Universe /\ stable' \subseteq stable
      /\ found' \subseteq found \cup dir
      /\ stable' \subseteq found' \cup unstatted'
  <2>1. CASE ReadDir
    BY <1>1, <2>1 DEF TypeOK, ReadDir
  <2>2. CASE \E f \in Universe : Stat(f)
    BY <1>1, <2>2 DEF TypeOK, Scanned, Stat
  <2> QED
    BY <2>1, <2>2
<1>3. TypeOK'
  BY <1>1, <1>2 DEF TypeOK
<1>4. Matching' /\ Scanned' /\ Chosen' /\ BestIsServed' /\ HalfProbed'
  BY <1>1, <1>2 DEF Matching, Scanned, Chosen, BestIsServed, HalfProbed
<1>5. UrlBestIsListed' /\ UrlListingFits'
  BY <1>1 DEF UrlBestIsListed, UrlListingFits, UrlListed
<1>6. ListedWell'
  BY <1>1 DEF ListedWell, Listed
<1> QED
  BY <1>3, <1>4, <1>5, <1>6 DEF IInv

\* The directory cannot be read, or a request of a probe fails.
LEMMA Fails ==
  ASSUME IInv, ReadDirFails \/ HeadFails
  PROVE  IInv'
<1>1. /\ TypeOK /\ Matching /\ kind \in {"list", "best", "url"} /\ pc' = "idle"
      /\ response' = [code |-> 500, infos |-> << >>, file |-> NoFile]
      /\ UNCHANGED <<dir, kind, wanted, unstatted, found, requests, stable, seen>>
  BY DEF IInv, Matching, ReadDirFails, HeadFails, Reply
<1>2. TypeOK'
  BY <1>1 DEF TypeOK, CodesOf
<1>3. Matching' /\ Scanned' /\ Chosen' /\ BestIsServed' /\ HalfProbed'
  BY <1>1 DEF Matching, Scanned, Chosen, BestIsServed, HalfProbed
<1>4. UrlBestIsListed' /\ UrlListingFits'
  BY <1>1 DEF UrlBestIsListed, UrlListingFits, UrlListed
<1>5. ListedWell'
  BY <1>1 DEF ListedWell, Listed
<1> QED
  BY <1>2, <1>3, <1>4, <1>5 DEF IInv

\* The files found are listed.
LEMMA RepliesList ==
  ASSUME IInv, List
  PROVE  IInv'
<1>1. /\ TypeOK /\ Matching /\ pc' = "idle" /\ kind = "list" /\ kind' = "list"
      /\ response'.code = 200 /\ response'.file = NoFile
      /\ response'.infos = ListSnapshots(found)
      /\ UNCHANGED <<dir, wanted, unstatted, found, requests, stable, seen>>
  BY DEF IInv, List, Reply
<1>2. TypeOK'
  BY <1>1 DEF TypeOK, CodesOf
<1>3. Matching' /\ Scanned' /\ Chosen' /\ BestIsServed' /\ HalfProbed'
  BY <1>1 DEF Matching, Scanned, Chosen, BestIsServed, HalfProbed
<1>4. UrlBestIsListed' /\ UrlListingFits'
  BY <1>1 DEF UrlBestIsListed, UrlListingFits, UrlListed
<1> DEFINE complete == { f \in found : ChainOf(found, f) # << >> }
           n == Cardinality(complete)
           infos == ListSnapshots(found)
<1>5. /\ IsLedger(found) /\ stable \subseteq found /\ found \subseteq seen
  <2>1. found \in SUBSET Universe
    BY <1>1 DEF TypeOK
  <2>2. stable \subseteq found
    BY DEF IInv, Scanned, List
  <2> QED
    BY <1>1, <2>1, <2>2, SubLedger, SidecarAssumption DEF Matching
<1>6. /\ n \in Nat /\ DOMAIN infos = 1 .. n
      /\ \A i \in 1 .. n : \E f \in complete :
           /\ IsChain(found, infos[i].files, f)
           /\ infos[i] = InfoOf(infos[i].files)
      /\ \A i, j \in 1 .. n : i < j => /\ infos[i].files[1] # infos[j].files[1]
                                     /\ ~Better(infos[j].files[1], infos[i].files[1])
      /\ \A f \in complete : \E i \in 1 .. n : infos[i].files[1] = f
  BY <1>5, Listings
<1>7. ASSUME NEW f \in stable, IsFull(f) \/ \E b \in stable : IsFull(b) /\ b.slot = f.baseSlot
      PROVE  f \in complete
  <2>1. f \in found
    BY <1>5
  <2>2. CASE IsFull(f)
    <3>1. ChainOf(found, f) = << f >>
      BY <1>5, <2>1, <2>2, Chains
    <3>2. << f >> # << >>
      OBVIOUS
    <3> QED
      BY <2>1, <3>1, <3>2
  <2>3. CASE \E b \in stable : IsFull(b) /\ b.slot = f.baseSlot
    BY <1>5, <2>1, <2>3, Chains
  <2> QED
    BY <1>7, <2>2, <2>3
<1> HIDE DEF complete, n
<1>8. ASSUME NEW i \in 1 .. n
      PROVE  CompleteIn(infos[i], seen)
  <2> DEFINE chain == infos[i].files
  <2>1. PICK f \in complete : IsChain(found, chain, f) /\ infos[i] = InfoOf(chain)
    BY <1>6
  <2>2. infos[i].slot = chain[1].slot /\ infos[i].baseSlot = chain[Len(chain)].slot
    BY <2>1 DEF InfoOf
  <2> HIDE DEF chain, infos
  <2>3. /\ chain \in Seq(found)
        /\ \A j \in 1 .. Len(chain) - 1 : chain[j].baseSlot = chain[j + 1].slot
        /\ IsFull(chain[Len(chain)])
    BY <2>1 DEF IsChain
  <2>4. SeqRange(chain) \subseteq seen
    BY <1>5, <2>3 DEF SeqRange
  <2> QED
    BY <2>2, <2>3, <2>4 DEF CompleteIn, chain
<1>9. ASSUME NEW f \in complete
      PROVE  f \in ListedFiles'
  BY <1>1, <1>6 DEF ListedFiles
<1>10. ListedWell'
  BY <1>1, <1>6, <1>7, <1>8, <1>9 DEF ListedWell
<1> QED
  BY <1>2, <1>3, <1>4, <1>10 DEF IInv

\* The first full one of the sorted files is the best full one.
LEMMA Selects ==
  ASSUME IInv, SelectBest
  PROVE  IInv'
<1> DEFINE sorted == SortFiles(found)
           n == Cardinality(found)
<1>1. /\ TypeOK /\ Matching /\ Scanned /\ pc = "stat" /\ unstatted = {} /\ kind = "best"
      /\ UNCHANGED <<dir, kind, unstatted, found, requests, stable, seen>>
  BY DEF IInv, SelectBest
<1>2. found \in SUBSET Universe /\ stable \subseteq found
  BY <1>1 DEF TypeOK, Scanned
<1>3. /\ n \in Nat /\ sorted \in [1 .. n -> found]
      /\ \A i, j \in 1 .. n : i < j => ~Better(sorted[j], sorted[i])
      /\ \A f \in found : \E i \in 1 .. n : sorted[i] = f
      /\ \A f \in found : ~Better(f, f)
  BY <1>2, Sorted, PrecedesOrder, SubLedger, SidecarAssumption
<1>4. \/ /\ \A i \in DOMAIN sorted : ~IsFull(sorted[i])
         /\ pc' = "idle" /\ wanted' = wanted
         /\ response' = [code |-> 202, infos |-> << >>, file |-> NoFile]
      \/ /\ \E i \in DOMAIN sorted : /\ IsFull(sorted[i])
                                     /\ \A j \in 1 .. i - 1 : ~IsFull(sorted[j])
                                     /\ wanted' = sorted[i]
         /\ pc' = "open" /\ response' = response
  BY DEF SelectBest, Reply
<1> HIDE DEF sorted, n
<1>5. CASE /\ \A i \in DOMAIN sorted : ~IsFull(sorted[i])
           /\ pc' = "idle" /\ wanted' = wanted
           /\ response' = [code |-> 202, infos |-> << >>, file |-> NoFile]
  <2>1. TypeOK'
    BY <1>1, <1>5 DEF TypeOK, CodesOf
  <2>2. \A f \in stable : ~IsFull(f)
    BY <1>2, <1>3, <1>5
  <2>3. Matching' /\ Scanned' /\ Chosen' /\ BestIsServed' /\ HalfProbed'
    BY <1>1, <1>5, <2>2 DEF Matching, Scanned, Chosen, BestIsServed, HalfProbed
  <2>4. UrlBestIsListed' /\ UrlListingFits'
    BY <1>1 DEF UrlBestIsListed, UrlListingFits, UrlListed
  <2>5. ListedWell'
    BY <1>1 DEF ListedWell, Listed
  <2> QED
    BY <2>1, <2>3, <2>4, <2>5 DEF IInv
<1>6. CASE /\ \E i \in DOMAIN sorted : /\ IsFull(sorted[i])
                                       /\ \A j \in 1 .. i - 1 : ~IsFull(sorted[j])
                                       /\ wanted' = sorted[i]
           /\ pc' = "open" /\ response' = response
  <2>1. PICK i \in 1 .. n : /\ IsFull(sorted[i])
                            /\ \A j \in 1 .. i - 1 : ~IsFull(sorted[j])
                            /\ wanted' = sorted[i]
    BY <1>3, <1>6
  <2>2. wanted' \in found
    BY <1>3, <2>1
  <2>3. TypeOK'
    BY <1>1, <1>2, <1>6, <2>2 DEF TypeOK
  <2>4. ASSUME NEW f \in stable, IsFull(f)
        PROVE  ~Better(f, wanted')
    <3>1. PICK j \in 1 .. n : sorted[j] = f
      BY <1>2, <1>3
    <3>2. ~(j \in 1 .. i - 1)
      BY <2>1, <2>4, <3>1
    <3>3. j = i \/ i < j
      BY <1>3, <3>2
    <3> QED
      BY <1>3, <2>1, <2>2, <3>1, <3>3
  <2>5. Matching' /\ Scanned' /\ Chosen' /\ BestIsServed' /\ HalfProbed'
    BY <1>1, <1>6, <2>4 DEF Matching, Scanned, Chosen, AsGood, BestIsServed, HalfProbed
  <2>6. UrlBestIsListed' /\ UrlListingFits'
    BY <1>1 DEF UrlBestIsListed, UrlListingFits, UrlListed
  <2>7. ListedWell'
    BY <1>1 DEF ListedWell, Listed
  <2> QED
    BY <2>3, <2>5, <2>6, <2>7 DEF IInv
<1> QED
  BY <1>4, <1>5, <1>6

LEMMA Opens ==
  ASSUME IInv, Open
  PROVE  IInv'
<1>1. /\ TypeOK /\ Matching /\ Chosen /\ pc = "open" /\ pc' = "idle"
      /\ kind \in {"best", "name"}
      /\ \/ wanted \in dir /\ response' = [code |-> 200, infos |-> << >>, file |-> wanted]
         \/ \E code \in {404, 500} :
              response' = [code |-> code, infos |-> << >>, file |-> NoFile]
      /\ UNCHANGED <<dir, kind, wanted, unstatted, found, requests, stable, seen>>
  BY DEF IInv, Matching, Open, Reply
<1>2. TypeOK'
  <2>1. CASE wanted \in dir /\ response' = [code |-> 200, infos |-> << >>, file |-> wanted]
    <3>1. wanted \in Universe
      BY <1>1, <2>1 DEF TypeOK
    <3> QED
      BY <1>1, <2>1, <3>1 DEF TypeOK, CodesOf
  <2>2. CASE \E code \in {404, 500} :
               response' = [code |-> code, infos |-> << >>, file |-> NoFile]
    BY <1>1, <2>2 DEF TypeOK, CodesOf
  <2> QED
    BY <1>1, <2>1, <2>2
<1>3. Matching' /\ Scanned' /\ Chosen' /\ BestIsServed' /\ HalfProbed'
  BY <1>1 DEF Matching, Scanned, Chosen, AsGood, BestIsServed, HalfProbed
<1>4. UrlBestIsListed' /\ UrlListingFits'
  BY <1>1 DEF UrlBestIsListed, UrlListingFits, UrlListed
<1>5. ListedWell'
  BY <1>1 DEF ListedWell, Listed
<1> QED
  BY <1>2, <1>3, <1>4, <1>5 DEF IInv

-----------------------------------------------------------------------------
(***************************************************************************)
(* A probe of an HTTP target.                                              *)
(***************************************************************************)
LEMMA FirstHead ==
  ASSUME IInv, HeadFull
  PROVE  IInv'
<1>1. /\ TypeOK /\ Matching /\ pc = "headfull" /\ pc' = "headinc" /\ kind = "url"
      /\ found' = Redirect(dir, TRUE)
      /\ UNCHANGED <<dir, kind, wanted, unstatted, response, requests, stable, seen>>
  BY DEF IInv, Matching, HeadFull
<1>2. dir \in SUBSET Universe /\ dir \subseteq seen /\ stable \subseteq dir
  BY <1>1 DEF TypeOK, Matching
<1>3. /\ found' \subseteq dir
      /\ \A f \in found' : IsFull(f)
      /\ \A f \in dir : IsFull(f) => \E b \in found' : ~Better(f, b)
      /\ \A f, g \in found' : f = g
  BY <1>1, <1>2, Redirected, SubLedger, SidecarAssumption
<1>4. \A f \in stable : f \in Redirect(seen, TRUE) => f \in found'
  BY <1>1, <1>2, StillBest
<1>5. TypeOK'
  BY <1>1, <1>2, <1>3 DEF TypeOK
<1>6. HalfProbed'
  BY <1>1, <1>2, <1>3, <1>4 DEF HalfProbed
<1>7. Matching' /\ Scanned' /\ Chosen' /\ BestIsServed'
  BY <1>1, <1>2, <1>3 DEF Matching, Scanned, Chosen, BestIsServed
<1>8. UrlBestIsListed' /\ UrlListingFits'
  BY <1>1 DEF UrlBestIsListed, UrlListingFits, UrlListed
<1>9. ListedWell'
  BY <1>1 DEF ListedWell, Listed
<1> QED
  BY <1>5, <1>6, <1>7, <1>8, <1>9 DEF IInv

\* The snapshot of one full file fits, and so does the one of an incremental file.
LEMMA FullFits ==
  ASSUME NEW f, IsFull(f), NEW stays, NEW was, f \in was
  PROVE  FitsIn(InfoOf(<< f >>), stays, was) /\ InfoOf(<< f >>).files[1] = f
<1> DEFINE info == InfoOf(<< f >>)
<1>1. /\ Len(<< f >>) = 1 /\ << f >>[1] = f /\ DOMAIN << f >> = {1}
  OBVIOUS
<1>2. info.files = << f >> /\ info.slot = f.slot /\ info.baseSlot = f.slot
  BY <1>1 DEF InfoOf
<1> HIDE DEF info
<1>3. FitsIn(info, stays, was)
  BY <1>1, <1>2 DEF FitsIn, SeqRange
<1> QED
  BY <1>1, <1>2, <1>3 DEF info

LEMMA IncrementalFits ==
  ASSUME NEW full \in SUBSET Universe, NEW inc \in Universe, ~IsFull(inc),
         NEW was, NEW stays, full \subseteq was, inc \in was,
         \A f \in full : IsFull(f), \A f, g \in full : f = g,
         \A f \in stays : f \in Redirect(was, TRUE) => f \in full
  PROVE  FitsIn(UrlInfo(inc, full), stays, was) /\ UrlInfo(inc, full).files[1] = inc
<1> DEFINE info == UrlInfo(inc, full)
           chain == UrlChain(inc, full)
           base == { f \in full : inc.baseSlot = f.slot }
<1>1. /\ chain \in Seq(Universe)
      /\ chain[1] = inc
      /\ \/ base = {} /\ Len(chain) = 1
         \/ base # {} /\ Len(chain) = 2 /\ chain[2] \in base
  BY Chain, SidecarAssumption
<1>2. info.files = chain /\ info.slot = inc.slot /\ info.baseSlot = inc.baseSlot
  BY DEF UrlInfo
<1> HIDE DEF info, chain
<1>3. CASE base = {} /\ Len(chain) = 1
  <2>1. DOMAIN chain = {1}
    BY <1>1, <1>3
  <2>2. ~ \E b \in stays : b.slot = inc.baseSlot /\ b \in Redirect(was, TRUE)
    BY <1>3
  <2>3. SeqRange(chain) \subseteq was
    BY <1>1, <2>1 DEF SeqRange
  <2>4. \A j \in 1 .. 1 - 1 : chain[j].baseSlot = chain[j + 1].slot
    OBVIOUS
  <2>5. FitsIn(info, stays, was)
    BY <1>1, <1>2, <1>3, <2>2, <2>3, <2>4 DEF FitsIn
  <2> QED
    BY <1>1, <1>2, <2>5 DEF info, chain
<1>4. CASE base # {} /\ Len(chain) = 2 /\ chain[2] \in base
  <2>1. DOMAIN chain = {1, 2}
    BY <1>1, <1>4
  <2>2. chain[2] \in was /\ IsFull(chain[2]) /\ inc.baseSlot = chain[2].slot
    BY <1>4
  <2>3. SeqRange(chain) \subseteq was
    BY <1>1, <2>1, <2>2 DEF SeqRange
  <2>4. \A j \in 1 .. 2 - 1 : chain[j].baseSlot = chain[j + 1].slot
    <3>1. \A j \in 1 .. 2 - 1 : j = 1 /\ j + 1 = 2
      OBVIOUS
    <3> QED
      BY <1>1, <2>2, <3>1
  <2>5. FitsIn(info, stays, was)
    BY <1>1, <1>2, <1>4, <2>2, <2>3, <2>4 DEF FitsIn
  <2> QED
    BY <1>1, <1>2, <2>5 DEF info, chain
<1> QED
  BY <1>1, <1>3, <1>4

LEMMA SecondHead ==
  ASSUME IInv, HeadIncremental
  PROVE  IInv'
<1> DEFINE incs == Redirect(dir, FALSE)
<1>1. /\ TypeOK /\ Matching /\ HalfProbed
      /\ pc = "headinc" /\ pc' = "idle" /\ kind = "url"
      /\ response' = [code |-> 200, infos |-> UrlInfos(found, incs), file |-> NoFile]
      /\ UNCHANGED <<dir, kind, wanted, unstatted, found, requests, stable, seen>>
  BY DEF IInv, Matching, HeadIncremental, Reply
<1>2. /\ dir \in SUBSET Universe /\ dir \subseteq seen /\ stable \subseteq dir
      /\ found \in SUBSET Universe /\ found \subseteq seen
  BY <1>1 DEF TypeOK, Matching
<1>3. /\ \A f \in found : IsFull(f)
      /\ \A f, g \in found : f = g
      /\ \A f \in stable : IsFull(f) => \E b \in found : ~Better(f, b)
      /\ \A f \in stable : f \in Redirect(seen, TRUE) => f \in found
  BY <1>1 DEF HalfProbed
<1>4. /\ incs \subseteq dir
      /\ \A f \in incs : ~IsFull(f)
      /\ \A f \in dir : ~IsFull(f) => \E b \in incs : ~Better(f, b)
  <2>1. /\ incs \subseteq dir
        /\ \A f \in incs : IsFull(f) <=> FALSE
        /\ \A f \in dir : (IsFull(f) <=> FALSE) => \E b \in incs : ~Better(f, b)
    BY <1>2, Redirected, SubLedger, SidecarAssumption
  <2> QED
    BY <2>1
<1> HIDE DEF incs
<1>5. /\ \A i \in DOMAIN response'.infos :
           \/ \E f \in found : response'.infos[i] = InfoOf(<< f >>)
           \/ \E f \in incs : response'.infos[i] = UrlInfo(f, found)
      /\ \A f \in found : \E i \in DOMAIN response'.infos : response'.infos[i] = InfoOf(<< f >>)
      /\ \A f \in incs : \E i \in DOMAIN response'.infos : response'.infos[i] = UrlInfo(f, found)
  <2>1. IsLedger(Universe)
    BY SidecarAssumption
  <2>2. found \in SUBSET Universe /\ incs \in SUBSET Universe
    BY <1>2, <1>4
  <2>3. IsUrlListing(response'.infos, found, incs)
    BY <1>1, <2>1, <2>2, BothListed
  <2> QED
    BY <2>3 DEF IsUrlListing
<1>6. ASSUME NEW f \in found
      PROVE  FitsIn(InfoOf(<< f >>), stable, seen) /\ InfoOf(<< f >>).files[1] = f
  BY <1>2, <1>3, FullFits
<1>7. ASSUME NEW f \in incs
      PROVE  FitsIn(UrlInfo(f, found), stable, seen) /\ UrlInfo(f, found).files[1] = f
  <2>1. f \in Universe /\ f \in seen /\ ~IsFull(f)
    BY <1>2, <1>4
  <2> QED
    BY <1>2, <1>3, <2>1, IncrementalFits
<1>8. UrlListingFits'
  <2>1. ASSUME NEW i \in DOMAIN response'.infos
        PROVE  FitsIn(response'.infos[i], stable, seen)
    BY <1>5, <1>6, <1>7
  <2>2. AllFit'
    BY <1>1, <2>1 DEF AllFit
  <2> QED
    BY <2>2, Fitting
<1>9. UrlBestIsListed'
  <2>1. ASSUME NEW f \in stable
        PROVE  \E i \in DOMAIN response'.infos :
                 LET best == response'.infos[i].files[1]
                 IN  (IsFull(best) <=> IsFull(f)) /\ ~Better(f, best)
    <3>1. CASE IsFull(f)
      <4>1. PICK b \in found : ~Better(f, b)
        BY <1>3, <3>1
      <4>2. PICK i \in DOMAIN response'.infos : response'.infos[i] = InfoOf(<< b >>)
        BY <1>5
      <4>3. response'.infos[i].files[1] = b /\ IsFull(b)
        BY <1>3, <1>6, <4>2
      <4> QED
        BY <3>1, <4>1, <4>3
    <3>2. CASE ~IsFull(f)
      <4>1. PICK b \in incs : ~Better(f, b)
        BY <1>2, <1>4, <3>2
      <4>2. PICK i \in DOMAIN response'.infos : response'.infos[i] = UrlInfo(b, found)
        BY <1>5
      <4>3. response'.infos[i].files[1] = b /\ ~IsFull(b)
        BY <1>4, <1>7, <4>2
      <4> QED
        BY <3>2, <4>1, <4>3
    <3> QED
      BY <3>1, <3>2
  <2> QED
    BY <1>1, <2>1 DEF UrlBestIsListed
<1>10. TypeOK'
  BY <1>1 DEF TypeOK, CodesOf
<1>11. Matching' /\ Scanned' /\ Chosen' /\ BestIsServed' /\ HalfProbed'
  BY <1>1 DEF Matching, Scanned, Chosen, BestIsServed, HalfProbed
<1>12. ListedWell'
  BY <1>1 DEF ListedWell, Listed
<1> QED
  BY <1>8, <1>9, <1>10, <1>11, <1>12 DEF IInv

-----------------------------------------------------------------------------
LEMMA Invariance == Spec => []IInv
<1>1. Init => IInv
  BY InitInv
<1>2. IInv /\ [Next]_vars => IInv'
  <2> SUFFICES ASSUME IInv, [Next]_vars
               PROVE  IInv'
    OBVIOUS
  <2>1. CASE UNCHANGED vars
    <3>1. /\ UNCHANGED <<dir, pc, kind, wanted, unstatted, found, response, requests,
                         stable, seen>>
      BY <2>1 DEF vars
    <3>2. TypeOK' /\ Matching' /\ Scanned' /\ Chosen' /\ BestIsServed' /\ HalfProbed'
      <4>1. TypeOK'
        BY <3>1 DEF IInv, TypeOK
      <4>2. Matching' /\ Scanned' /\ Chosen' /\ BestIsServed'
        BY <3>1 DEF IInv, Matching, Scanned, Chosen, AsGood, BestIsServed
      <4>3. HalfProbed'
        BY <3>1 DEF IInv, HalfProbed
      <4> QED
        BY <4>1, <4>2, <4>3
    <3>3. UrlBestIsListed'
      BY <3>1 DEF IInv, UrlBestIsListed, UrlListed
    <3>4. UrlListingFits'
      BY <3>1, Fitting DEF IInv, AllFit, UrlListed
    <3>5. ListedWell'
      BY <3>1 DEF IInv, ListedWell, Listed, ListedFiles
    <3> QED
      BY <3>2, <3>3, <3>4, <3>5 DEF IInv
  <2>2. CASE Next
    BY <2>2, Change, Begins, Scans, RepliesList, Selects, Opens, Fails, FirstHead, SecondHead
       DEF Next, SidecarNext
  <2> QED
    BY <2>1, <2>2
<1> QED
  BY <1>1, <1>2, PTL DEF Spec

\* Every state of the requests is well formed: a request is answered with a code its
\* handler has for it, errors included, and sends a file or a listing only if it is the
\* success of a request for one.
THEOREM TypeCorrect == Spec => []TypeOK
<1>1. IInv => TypeOK
  BY DEF IInv
<1> QED
  BY <1>1, Invariance, PTL

\* A download of the best snapshot sends none worse than a full one that stayed, and
\* says there is none only if none stayed.
THEOREM BestServed == Spec => []BestIsServed
<1>1. IInv => BestIsServed
  BY DEF IInv
<1> QED
  BY <1>1, Invariance, PTL

\* The listing made of the two answers of an HTTP target fits together: a snapshot
\* lacks its full file only if the target changed under the probe.
THEOREM UrlListingsFit == Spec => []UrlListingFits
<1>1. IInv => UrlListingFits
  BY DEF IInv
<1> QED
  BY <1>1, Invariance, PTL

\* A probe of an HTTP target that succeeds lists a file of each kind as good as any
\* that stayed.
THEOREM UrlBestListed == Spec => []UrlBestIsListed
<1>1. IInv => UrlBestIsListed
  BY DEF IInv
<1> QED
  BY <1>1, Invariance, PTL

\* Every snapshot a sidecar lists can be assembled from files that were there during the
\* request, down to a full one at the base slot it names.
THEOREM ListedComplete == Spec => []ListedIsComplete
<1>1. IInv => ListedIsComplete
  BY DEF IInv, ListedWell, CompleteIn, ListedIsComplete
<1> QED
  BY <1>1, Invariance, PTL

\* A sidecar lists every snapshot that stayed with its full snapshot during the request.
THEOREM StableListed == Spec => []StableIsListed
<1>1. IInv => StableIsListed
  BY DEF IInv, ListedWell, StableIsListed
<1> QED
  BY <1>1, Invariance, PTL

\* A sidecar lists no snapshot before one that compares better, whatever the extensions,
\* and no file at the top of two snapshots.
THEOREM BestFirst == Spec => []ListedBestFirst
<1>1. IInv => ListedBestFirst
  BY DEF IInv, ListedWell, ListedBestFirst
<1> QED
  BY <1>1, Invariance, PTL
=============================================================================

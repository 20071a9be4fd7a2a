----------------------------- MODULE UrlListing -----------------------------
(***************************************************************************)
(* What the prober makes of an HTTP target that redirects                  *)
(* /snapshot.tar.bz2 and /incremental-snapshot.tar.bz2 to the files it     *)
(* has (scraper/prober.go, probeURL): a listing of at most two snapshots,  *)
(* the full one first.  A file that there is none of is the empty set.     *)
(***************************************************************************)
EXTENDS Ledger

\* The file of a kind, full or incremental, the target redirects to: the best it has.
Redirect(files, full) ==
  LET ofKind == { f \in files : IsFull(f) <=> full }
  IN  { f \in ofKind : \A o \in ofKind : o # f => Precedes(f, o) }

\* (mutant) The incremental snapshot is taken to lie at the slot of the full one.
UrlChainAtSlot(inc, full) ==
  << inc >> \o SortFiles({ f \in full : inc.slot = f.slot })

\* The files of the incremental snapshot: the full one too, if it is its base.
UrlChain(inc, full) ==
  << inc >> \o SortFiles({ f \in full : inc.baseSlot = f.slot })

UrlInfo(inc, full) ==
  [slot |-> inc.slot, baseSlot |-> inc.baseSlot, hash |-> inc.hash,
   files |-> UrlChain(inc, full)]

UrlInfos(full, incremental) ==
  LET fulls == SortFiles(full)
      incs  == SortFiles(incremental)
  IN  [i \in DOMAIN fulls |-> InfoOf(<< fulls[i] >>)]
        \o [i \in DOMAIN incs |-> UrlInfo(incs[i], full)]
=============================================================================

------------------------------- MODULE Nodes -------------------------------
(***************************************************************************)
(* The cluster as the clients of the tracker find it: sidecars, the        *)
(* ledgers of which change, and a tracker whose index follows them with a  *)
(* delay.  The index is rewritten per target as TrackerView allows: a      *)
(* target's rows are withdrawn, and a listing it served, now or earlier,   *)
(* is published.                                                           *)
(* (ScrapeProofs shows that the scraping pipeline does no more than that.) *)
(* Some targets may be HTTP targets: nodes without a sidecar.  They are    *)
(* listed as Prober finds, and answer no request for a file by its name.   *)
(***************************************************************************)
EXTENDS TrackerHandlers, UrlListing

CONSTANTS
  Ledgers,      \* the ledgers a node goes through, in this order: sets of files
  HttpTargets,  \* the sets of targets that may be HTTP targets
  MaxMoves      \* bound on the changes of the nodes' ledgers

\* What a validator has in its directory: no snapshot at slot 0 (which is "no slot" to the
\* tracker), and incremental ones from full ones only.
OfValidator(files) ==
  /\ IsLedger(files)
  /\ \A f \in files : f.slot \in 1 .. MaxSlot
  /\ \A f, b \in files : ~IsFull(f) /\ b.slot = f.baseSlot => IsFull(b)

ASSUME NodesAssumption ==
  /\ Groups # {} /\ IsFiniteSet(Targets)
  /\ HttpTargets \subseteq SUBSET Targets /\ MaxMoves \in Nat
  /\ Len(Ledgers) \in Nat /\ DOMAIN Ledgers = 1 .. Len(Ledgers)
  /\ \A n \in DOMAIN Ledgers : OfValidator(Ledgers[n])

Group == CHOOSE g \in Groups : TRUE    \* the one group all targets are in

VARIABLES
  http,     \* the HTTP targets
  stage,    \* stage[t]: how far node t's ledger is in Ledgers
  moves,    \* changes of ledgers so far
  calm,     \* (history) since the start no ledger and no row was taken away, and no
            \* listing came late
  db        \* the tracker's index

nodes == <<http, stage, moves, calm, db>>

dir(t) == Ledgers[stage[t]]

\* GET /v1/snapshot/<name>, which only a sidecar has.
Offers(t, f) == t \notin http /\ f \in dir(t)

\* The rows of a target that has been scraped just now, for each of its ledgers; of an
\* HTTP target, for the ledgers at the first and at the second request.
Stages == DOMAIN Ledgers
Listing == [n \in Stages |-> ListSnapshots(Ledgers[n])]
UrlListingAt(m, n) == UrlInfos(Redirect(Ledgers[m], TRUE), Redirect(Ledgers[n], FALSE))
Rows == [t \in Targets |-> [n \in Stages |-> Image(Group, t, Listing[n], 0)]]
UrlRows ==
  [t \in Targets |-> [m \in Stages |-> [n \in Stages |-> Image(Group, t, UrlListingAt(m, n), 0)]]]

Scraped(t) == IF t \in http THEN UrlRows[t][stage[t]][stage[t]] ELSE Rows[t][stage[t]]

\* What the collector may have of t: a listing of its ledger now, or one that comes late.
Served(t) == 1 .. stage[t]
Scrapes(t) ==
  IF t \in http THEN UNION { { UrlRows[t][m][n] : m \in 1 .. n } : n \in Served(t) }
  ELSE { Rows[t][n] : n \in Served(t) }

NodesInit ==
  /\ http \in HttpTargets
  /\ stage \in [Targets -> DOMAIN Ledgers]
  /\ moves = 0
  /\ calm = TRUE
  /\ db = UNION { Scraped(t) : t \in Targets }

\* The validator of t replaces its snapshots.
Move(t) ==
  /\ moves < MaxMoves
  /\ stage[t] + 1 \in DOMAIN Ledgers
  /\ stage' = [stage EXCEPT ![t] = @ + 1]
  /\ moves' = moves + 1
  /\ calm' = FALSE
  /\ UNCHANGED <<http, db>>

\* The tracker withdraws the rows of t, or publishes what t serves, or once served.
Withdraw(t) ==
  /\ calm' = FALSE
  /\ db' = DeleteSnapshotsByTarget(db, Group, t)
  /\ UNCHANGED <<http, stage, moves>>

Publish(t) ==
  /\ RowsOf(db, Group, t) = {}
  /\ \E rows \in Scrapes(t) :
       /\ db' = db \cup rows
       /\ calm' = (calm /\ (t \in http \/ rows = Scraped(t)))
  /\ UNCHANGED <<http, stage, moves>>

NodesNext == \E t \in Targets : Move(t) \/ Withdraw(t) \/ Publish(t)

Files == UNION { Ledgers[n] : n \in DOMAIN Ledgers }

FilesIn(info) == { info.files[i] : i \in DOMAIN info.files }

NodesTypeOK ==
  /\ http \in HttpTargets
  /\ stage \in [Targets -> DOMAIN Ledgers]
  /\ moves \in 0 .. MaxMoves
  /\ calm \in BOOLEAN
  /\ \A e \in db : e.key \in Keys /\ FilesIn(e.info) \subseteq Files
=============================================================================

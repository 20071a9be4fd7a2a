# solana-cluster, specified

`solana-cluster` moves Solana ledger snapshots between the nodes of a cluster.
A *sidecar* next to each validator lists and serves the snapshot files of its
ledger directory; a *tracker* asks all sidecars what they have and keeps the
answers in an in-memory index behind an HTTP API; `fetch` asks the tracker for
the best snapshot and downloads it from the sidecar that has it; `mirror`
copies the best snapshots into an S3 bucket.

This directory holds TLA+ modules that model these programs, TLC configurations
that check them on small instances, and TLAPS proofs of theorems that hold for
every instance. `PROJECT.json` maps each definition to the lines it stands for.
Paths below are relative to `src/`.

## 1. The system

### Components

| component | code | state it keeps | operations | modelled in |
|---|---|---|---|---|
| snapshot index | `internal/index` | one memdb table of snapshot rows with the indexes `id` (unique), `slot`, `base_slot`, `base_slot_by_group` | UpsertSnapshots, DeleteSnapshotsByTarget, DeleteOldSnapshots; reads by target, group, newest first, at a slot | `SnapshotIndex`, `IndexQueries`, `IndexAPI` |
| tracker API | `internal/tracker` | none (reads the index) | GET snapshots, best_snapshots, health | `TrackerHandlers`, `TrackerAPI` |
| scraper | `internal/scraper/scraper.go` | root context, ticker, the current round's context, probe goroutines | Start, run (tick), scrape, Close | `Scrape` |
| collector | `internal/scraper/collector.go` | the result channel, one goroutine | run, Close | `Scrape`, `TrackerView` |
| prober | `internal/scraper/prober.go` | none | Probe a sidecar, or an HTTP target by two HEAD requests | `Prober`, `UrlListing` |
| manager | `internal/scraper/manager.go` | the running scrapers | Update, loadGroup, Reset | `TrackerMain` |
| discovery | `internal/discovery` | none | the targets of a group: static, file, consul, http | `TrackerMain` (which backend), `Scrape` (constant `Discoveries`) |
| ledger | `internal/ledger`, `types/snapshot.go` | the ledger directory, written by the validator | ParseSnapshotFileName, ListSnapshotFiles, ListSnapshots, Compare | `Ledger`, `Sidecar` |
| sidecar API | `internal/sidecar/snapshot.go` | none (reads the directory) | list, download best, download by name | `Sidecar` |
| sidecar consensus API | `internal/sidecar/consensus.go` | none | streams slots over a websocket | not modelled |
| fetch | `internal/cmd/fetch`, `internal/fetch` | local ledger directory, the choice made so far | ask, compare, download in two passes | `FetchAdvice`, `Fetch` |
| download client | `internal/fetch/sidecar.go` | a temporary file, named after the snapshot | StreamSnapshot, DownloadSnapshotFile | `Download`, `AtomicFile` |
| mirror | `internal/mirror` | the upload jobs of a tick, the bucket | tick (pick sources, start jobs, wait), upload job, stop | `Mirror` |
| merged listener | `internal/netx` | listeners, an accept loop and a closer for each, a channel, an errgroup | Accept, Close | `MergedListener` |
| tracker command | `internal/cmd/tracker` | two servers in an errgroup, the reload channel | start, reload, shut down | `TrackerMain` |
| other commands, logger, auth, test helpers | `internal/cmd`, `internal/logger`, `types/auth.go`, `internal/ledgertest` | none | wiring | not modelled |

### Interactions

    validator --writes--> ledger dir <--reads-- sidecar <--HTTP-- prober goroutines
                                                   ^                  | unbuffered channel
                                                   |                  v
                                         fetch, mirror            collector --2 transactions--> index
                                                   |                                             ^
                                                   +-----HTTP------> tracker handlers --reads----+

* The scraper starts one goroutine per round and one per target in it; rounds
  overlap when a target is slow. All of them send on the collector's channel.
* The collector is the only writer of the index; the HTTP handlers read it, each
  from one committed version.
* `fetch` and `mirror` act on answers of the tracker which are as old as the last
  scrape, and ask sidecars whose directories have moved on.
* The sidecar's HTTP server accepts from a merged listener, over several addresses.

### What is hard here, and what makes each part correct

* **Scraping.** Overlapping rounds, cancelled contexts, results sent out of order,
  rows replaced in two transactions, closing in any order. Correct when a reader
  finds of each target nothing or one whole listing that the target served, not
  later than the rows say (`WholeListing`, `ImplementsView`), when a target that
  stays up is tracked in the end (`EventuallyTracked`), and when nothing blocks or
  leaks (`EveryResultTaken`, `ClosedGoesQuiet`).
* **Index.** Order comes from a complemented unsigned slot and from byte order of
  compound keys; one unique key. Correct when ids are unique, limited reads never
  prefer an older row nor return more than their bound, and reads find each row once.
* **Tracker API.** Correct when "healthy" means that the group's newest snapshot is
  recent and a fresh group is not reported otherwise.
* **Sidecar.** The directory changes between ReadDir, the Stats and Open, and each of
  them can fail. Correct when a listing names only complete snapshots, misses none that
  was there throughout, has none before a better one, and the best download is not worse
  than what was there throughout.
* **Fetch.** Two requests to the tracker and two download passes over a moving
  world, with crashes. Correct when the local ledger is one a validator can start
  from at every moment, when success means what was promised is there, and when
  only the world's changes make it fail.
* **Mirror.** Many uploads at a time, each a look at the bucket and a put, over the
  same moving world; failures and restarts. Correct when nothing is copied twice
  (`CopiedOnce`), when the best snapshot ends up in the bucket whole whatever forks
  the nodes are on (`BestIsMirrored`), and when a worker can be stopped.
* **Prober.** A node without a sidecar is asked twice, and may change or fail in
  between. Correct when the listing made of both answers fits together
  (`UrlListingFits`) and drops neither answer in silence (`UrlBestIsListed`).
* **Download.** The temporary name is made of the file's, so an attempt finds what the
  one before left, and two commands at a time truncate and rename each other's file.
  Correct when the final name leads to a whole file or to none: always while one
  download writes at a time (`ImplementsAtomicFile`); `TornByAbort` says what is left
  to fear when two do.
* **Tracker command.** Signals, servers that fail, handlers that hang in a reload and a
  collector that closes under its senders, from the first moment of the start to the
  exit. Correct when every stop ends in an exit (`ExitsWhenStopped`), when the panic of
  the senders is confined to it (`PanicsOnlyOnTheWayOut`), and when one bad target group
  does not cost the others (`GoodGroupsTracked`).
* **Merged listener.** Loops, closers and callers that meet on one channel and one
  context. Correct when no accepted connection is dropped while the listener is up
  (`NothingLostWhileLive`, `EveryConnServed`), when one failure or a Close takes
  everything down (`ShutsDown`), after which nothing is under way (`QuietAfterClose`),
  and when Close tells failures from its own cancellation (`CloseReportsFailure`).

All hazards, each at its line, are in `PROJECT.json`.

## 2. Modules

    SnapshotIndex <- IndexQueries <- IndexAPI ---------+
         ^                 ^                           v
         |                 +---- TrackerHandlers <- TrackerAPI <- MCTrackerAPI
         |                              ^                  ^
    TrackerView                         |                  +---- IndexProofs -> Lists
         ^ (INSTANCE, refinement)       |
       Scrape <- MCScrape               +- Nodes <-+- Mirror <- MCMirror
         ^                                   |     |     ^
    ScrapeProofs                             |     |     +--- ClientProofs -> Lists
                                             |     |     v
                                             |     +- Fetch <- MCFetch
                                             v          |
                            Ledger <- UrlListing        v
                              ^ ^         ^        FetchAdvice -> Ledger
                        Sidecar |         |
                              ^ |         |
                              Prober -----+   <- MCProber, ProberProofs -> Lists

    Lists -> IndexQueries, UrlListing (lemmas about their operators)

    Download -> AtomicFile (INSTANCE, refinement)        Download <- DownloadProofs
    TrackerMain <- MCTrackerMain, TrackerMainProofs
    MergedListener <- MergedListenerProofs

`A <- B`: B extends A.

Conventions. A name (group, target, hash) is its rank in byte order, which is all
that indexes and comparisons look at; `AnyGroup` (0) is the empty string. Which
target name begins with which other one matters to memdb's prefix lookup and is
the constant relation `Extends`. Slots are `0 .. MaxSlot`, where `MaxSlot` stands
for 2^64 - 1 wherever width matters (the complement, unsigned subtraction). A
definition marked "(mutant)" is a plausible bug in the one that follows it and is
used only to show that the properties would notice.

* **SnapshotIndex** - keys and the three write transactions, as operators from table
  to table. The table is a set of rows. `Id` is the unique primary index
  (group, target, complemented slot), so an insert replaces the row of equal id and
  of a batch the last insert wins (`LastWriters`).
* **IndexQueries** - the reads. `Walk` lists rows in the byte order of an index,
  memdb appending the primary key to a secondary one. `GetBestSnapshotsByGroup`
  has the code's `len <= max`. `GetSnapshotsByTarget` is the prefix lookup it is in the
  code: what it finds for `host1` includes the rows of `host10` (`ReadsByTarget` says
  exactly which rows, and that a delete takes the same ones). `GetSnapshotsAtSlotByGroup`
  passes its arguments in the code's order, which memdb rejects by type.
* **IndexAPI** - the variable `db` with one action per write operation, any order.
* **TrackerHandlers, TrackerAPI** - the three handlers as functions of the table and
  their properties over all tables of IndexAPI.
* **TrackerView** - the abstract specification of the pipeline: a target's rows are
  withdrawn, then published as a whole; only one target is in that gap at a time; what
  is published was served no later than its time.
* **Scrape** - the pipeline. `status` is the scraper's run loop and root context, `cur`
  the round whose context is live, `discovering` and `probe` the goroutines of each
  round, `pending` the collector between its transactions, `channel` and `panicked`
  the result channel, `db` the table. Actions: Start, Tick, Close, RunReturns (run
  loop); Discover, Answer, Return, Fail (a round); Collect, Upsert, CloseCollector,
  SendOnClosed (collector); Advance (clock). What each target serves at each time is
  the constant history `plan`. A failed discovery is one that finds no target.
* **Ledger** - what a file name parses to (slot, base slot, hash, and any extension at
  all), the comparison of files (`Better`), sorting, chains from an incremental file to its
  full one by the first file at a base slot, and the list of snapshots. `Better` does not
  look at extensions, so one snapshot in two formats is a tie. `sort.Slice` promises no
  order of ties; for so few files it is an insertion sort, which leaves them in the order
  of ReadDir, by name (`Precedes`). The properties are stated with `Better`: none says
  which of two ties comes first.
* **Sidecar** - one request at a time (requests share nothing) through ReadDir, a Stat
  per file and Open, while the validator writes and purges. The errors are steps too: the
  directory cannot be read (ReadDirFails, a 500), a Stat fails (the file is skipped), a
  file cannot be opened or its Stat fails (Open, a 500 or a 404). A download by name is
  refused unless its extension is one of `ServedExts`; the list and the download of the
  best snapshot look at no extension. `stable` and `seen` are history: files present
  throughout since the request began, of which no Stat has failed, and files present at
  any time.
* **UrlListing, Prober** - `UrlInfos` is the listing that the prober makes of the two
  files an HTTP target redirects to. Prober adds to the requests of Sidecar a probe of
  such a target in three steps, ProbeUrl, HeadFull and HeadIncremental, with HeadFails
  at either request, over the same changing directory. A probe of a sidecar is the
  request `list`.
* **Nodes** - what the clients of the tracker find: nodes whose ledgers change (Move)
  and an index that follows them as TrackerView allows (Withdraw, Publish). What is
  published may be a listing that comes late, of a ledger the node has left. Some nodes
  may be HTTP targets: listed as UrlListing says, from two moments of their ledger, and
  without files to ask for by name. What a validator may have in its directory is
  `OfValidator`: incremental snapshots made from full ones, none at slot 0, which the
  tracker takes for "no slot".
* **FetchAdvice, Fetch** - a run of the command: Ask, AskOlder, Download and
  CancelDownload per file, PassDone, Refresh, Interrupt, over Nodes. `local` is the
  ledger, in which the command runs: it reads `--ledger` and writes to the current
  directory, which only make sense together when they are one. The sidecar client
  keeps its target (`client`) though `snap` is replaced, as in the code. `calm`,
  `start` and `first` are history.
* **Mirror** - the worker over Nodes: Tick (the request, the map from slot to source and
  the start of all jobs), Stat, Stream and Put of a job, JobFails, TickEnds (wg.Wait),
  Crash, Cancel, Stop. An address counts its "http://": the worker puts one before a
  target, and whether the tracker has put one there too is the constant `RowScheme`
  (TRUE for this repository's, see section 6). `phase` is the worker's loop, `jobs` the set of upload goroutines
  with their place in UploadJob.Run, `bucket` the files uploaded. Ticks cannot overlap,
  as the loop that reads the ticker runs them.
* **AtomicFile, Download** - the promise (absent or whole, and never gone again; torn only
  once two downloads overlapped) and the code: Stream, Create (which truncates the file
  at the temporary name, whoever writes to it), Copy of a chunk, Promote and
  PromoteFails (the rename), Abort (an error, a cancellation, the death of the process).
  Names lead to inodes, and an open file keeps its inode. Fetch has a download as one
  step, which is what AtomicFile allows a single command.
* **TrackerMain** - `server`, `closed` and `ctx` are the servers and their errgroup,
  `queue` and `reload` the reload channel and the requests to it, `config`, `loaded`
  and `next` Manager.Update, `scraper` and `tracked` what a scraper amounts to here (it
  has a result, it sends it), `collector` the result channel. A target group is the set
  of backends it names and whether the rest of it loads. Actions: StartServer, Listen,
  ServerFails, CloseServer, ServerReturns; Signal, PostReload, HangUp; LoadConfig,
  LoadFails, LoadGroup, StartScrapers, CloseCollector, Exit; Probe, Collect, Panic.
* **MergedListener** - per listener its accept loop (LoopAccepts, LoopFails, LoopLooks,
  LoopTrips, LoopSends, LoopQuits) and its closer (CloserCloses); Accept, AcceptFails,
  Close, CloseReturns are the caller's, Connect, CloseExternally and Fault the
  network's. `loop` is the loop's place in the code, `held` the connection it sends,
  `tripped` and `lost` are history. That Accept has two errors is left out: both mean
  closed.

Left out of all modules: file sizes and times, HTTP headers (with them the range and
conditional downloads that `http.ServeContent` offers), authentication, metrics, logging
and progress bars.

## 3. Runs

| run | instance | shows |
|---|---|---|
| TrackerAPI | 2 groups, 2 targets of prefixed names, 3 snapshots over slots 1 and 3, 2 times, batches of up to 2 | index and handlers: TypeOK, UniqueIds, BestIsNewest, ReadsByTarget, HealthyIsFresh, FreshIsHealthy |
| Scrape | 1 target with any history of two times, 2 overlapping rounds, a discovery that may lose the target, closing at any moment, fairness | TypeOK, WholeListing, EveryResultTaken, EventuallyTracked, ClosedGoesQuiet, ImplementsView |
| Prober | 6 files the validator may have (a snapshot in two formats, another fork at its slot, a full and an incremental one at a slot, an incremental one with an odd extension), any 2 requests or probes, any step failing | TypeOK, ListedIsComplete, StableIsListed, ListedBestFirst, BestIsServed, UrlListingFits, UrlBestIsListed |
| Fetch | 2 nodes going through 4 ledgers, one of which may be an HTTP target, 6 local ledgers, every command line, 2 moves | TypeOK, NoOrphans, FullReached, CalmSucceeds |
| Download | 3 downloads of a file of 3 chunks, a file there before or not | TypeOK, TornByAbort, ImplementsAtomicFile |
| Mirror | 2 nodes on different forks going through 3 ledgers, 2 moves, one failure or crash, cancellation, fairness; target names as the worker expects them | MirrorTypeOK, CopiedOnce, BestIsMirrored, StopsWhenCancelled |
| TrackerMain | 2 servers, 2 reload requests and a SIGHUP, 2 target groups of which one is in order and the other anything, fairness | TypeOK, PanicsOnlyOnTheWayOut, ExitsWhenStopped, GoodGroupsTracked |
| MergedListener | 2 listeners, 3 connections, 2 failures of listeners, closing at any moment, fairness | TypeOK, NothingLostWhileLive, CloseReportsFailure, QuietAfterClose, ShutsDown, EveryConnServed |
| IndexDelete, IndexAtSlot, FetchTarget, MirrorTracker | small instances | a divergence each, see section 6 |

Bounds and why they are enough.

* `MaxSlot` 3 in the tracker gives a snapshot behind the limit, at it, within it and
  ahead of the RPC node, with `MaxSnapshotAge` 1, and makes subtraction wrap.
  Three infos give two that share an id and two that share a base. `MaxTime` 1 gives
  an older and a newer row, `MaxBatch` 2 a batch whose rows collide.
* `Rounds` bounds the overlap of rounds, not their number: an index is used again
  when all goroutines of its round have returned. Two is the current round and a
  cancelled one, the only distinction the code makes. `MaxTime` 1 gives one change
  of what a target serves. In a history the clock stops at `MaxTime`, so a target
  "stays up" if it is up then. One of the listings has two snapshots at one slot. The
  run has one scraper and one target; that other targets and scrapers feeding the same
  collector change nothing is what `ScrapeProofs` proves for any number of them.
* `MaxRequests` 2: the second request sees a directory that had a history, more see
  nothing new. Three files suffice for a chain of two and a competitor; there are six, two
  of which compare equal and one of which no download by name is given.
* The local ledgers are nothing, a full snapshot, two chains (one newer than what a node
  has), a full snapshot of another fork, and an incremental one that has lost its full one.
  `MaxMoves` 2: a ledger changes between listing, first pass and second pass, on one
  node or on both. Withdraw and Publish are not bounded.
* `SyncCount` 1 makes the tracker answer with two snapshots (section 6), from one node
  or both, at one slot or two: what the choice by slot distinguishes. `MaxFailures` 1:
  a failure costs what the tick had left to do; the next tick is a tick like any.
* Three downloads: one that tears the file of another, which renames it away, and a
  retry behind both. `Size` 3 leaves a hole with something before and behind it.
* Two `POST /reload` and a SIGHUP: one fills the channel of capacity one, one hangs, one
  is dropped. Two target groups: one before and one behind the other.
* `Conns` 3 gives each of two loops a connection to hold and one that waits behind;
  `MaxFaults` 2 lets both listeners fail.

Deadlock is checked for TrackerAPI, Prober and Mirror (the validator can always move,
and the index accept a call). It is off for Scrape (a bounded clock or a panic ends a
behaviour), for Fetch, Download and TrackerMain (they end) and for MergedListener (it
shuts down).

### Fairness

Scrape. Weak fairness: a goroutine that can run does; the ticker ticks; a request whose context is
cancelled, or whose target is down, returns an error; the collector finishes its
turn; the clock moves. Strong fairness says more, and rests on the deployment and
on Go's runtime: again and again an interval is long enough for discovery to return
a target it knows and for that target to answer (the interval of the code is
configured for just that); and a goroutine blocked in a send is received in the
end, as Go serves waiting senders first in, first out. Nothing is assumed of
Close or CloseCollector.

Mirror. The ticker ticks and the requests of a tick return, one way or the other. The
second is an assumption about the network: the code sets no timeout, and an upload
that hangs holds up the worker for good. Nothing is assumed of nodes and index; the
liveness property has their coming to rest as its premise.

TrackerMain. Goroutines that can run do: those that start servers, those that wait for
the context to close them, the main one. A group that is scraped has targets that
answer. Nothing is assumed of signals, requests to reload and failures.

MergedListener. Every goroutine that can run does. A loop that is blocked in its send is
received in the end if Accept is called again and again (strong fairness), for the
reason given above. The server calls Accept in a loop, as http.Server.Serve does.

## 4. Proofs

`ScrapeProofs` proves, for any sets of scrapers, groups, targets, rounds and
listings and any histories, from `IndexAssumption` (slots are an initial segment of
the naturals, the prefix relation is reflexive) and `ScrapeAssumption` (types of the
constants only):

* `TypeCorrect`: Spec => []TypeOK.
* `WholeListings`: Spec => []WholeListing.
* `UniqueRows`: Spec => []UniqueIds.
* `Refinement`: Spec => ImplementsView, the detailed pipeline implements TrackerView.

WholeListing is not inductive. What makes it so (`IInv`) is that results under way
are honest - a reply in a probe goroutine, in the channel or in the collector was
served by its target no later than its stamp, which is not in the future
(`ProbesHonest`, `PendingHonest`) - and that between its two transactions the
collector's target has no rows (`GapIsEmpty`), which is why the insert of a listing
cannot mix with an older one whatever round either came from. Only Collect and
Upsert change the table; a delete by prefix takes all rows of any target or none,
so it leaves whole listings whole. The refinement maps `pending` to the gap: Collect
of a listing is Withdraw, Upsert is Publish, every other action a stutter or Advance.

`MergedListenerProofs` proves, for any listeners, connections and bound on failures
(`ListenerAssumption`: the bound is a natural number):

* `TypeCorrect`: Spec => []TypeOK.
* `NothingLost`: Spec => []NothingLostWhileLive.
* `Reports`: Spec => []CloseReportsFailure.
* `Quiet`: Spec => []QuietAfterClose.

The invariant `IInv` adds to the types: before the context is done nothing is lost, no
loop has tripped and nobody has closed (`Live`); a closed socket or a failed loop while
the context is live, a loop about to cancel it and an error of the group all have a
failure behind them (`Blamed`) - this is where it matters that closers act only after
the cancellation and that a loop looks at the context before it reports; and when Close
has returned all loops have ended and its result is the group's (`Ended`), which stays so
as an ended loop takes no step.

`DownloadProofs` proves, for any number of downloads and any size of the file
(`DownloadAssumption`: the size is positive, the names of inodes differ):

* `TypeCorrect`: Spec => []TypeOK.
* `TornFiles`: Spec => []TornByAbort.
* `Refinement`: Spec => ImplementsAtomicFile.

The invariant says that of every inode some download has written all that is in it up
to its own position, the one that truncated it last (`Filled`); that while no two have
written at a time there is one writer at most, to the file at the temporary name, and
what it has written is there (`OneWriter`); and that a download that has not created its
file has written nothing and its inode is new (`Untouched`). Promote is then Appear
without overlap, and Disturb with it; Create is Overlap if another one is copying.

`IndexProofs` proves, for any sets of groups, targets and infos, any width of a slot and
any bound on batches (`IndexAssumption`, `APIAssumption`, `HandlersAssumption`):

* `TypeCorrect`, `UniqueRows`: Spec => []TypeOK, Spec => []UniqueIds.
* `NewestFirst`: Spec => []BestIsNewest.
* `TargetReads`: Spec => []ReadsByTarget.
* `Healthy`, `Fresh`: Spec => []HealthyIsFresh, Spec => []FreshIsHealthy.

The invariant adds to the first two that the slot in a row's key is the complement of the
slot in its info (`Keyed`) and that the table is finite.

`Lists` holds what these and the following proofs share: lemmas about the operators of
`Ledger`, `UrlListing` and `IndexQueries`, for any arguments that meet their hypotheses.

* All reads are walks of one index, in which a row stands at the place given by the number
  of rows before it, and SortFiles places files in the same way. `Enumeration` (over any
  finite set with a strict total order) says that such a list has every element once, in
  order: the ranks are an injection into an interval as large as the set, so each place
  is taken. What remains is that the byte order of a compound key is a strict total order
  of rows of different id, and that a smaller complement is a larger slot. For files it is
  `PrecedesOrder`: `Precedes` is a strict total order, and none precedes a better one.
* `ChainOf` recurses from a file to the best one at its base slot, and TLA+ gives such a
  definition its meaning by CHOOSE: one must show that a function with that equation
  exists. `ChainsExist` does so without an induction theorem: were there a slot up to
  which there is none, there would be a least one (`Least`), and a function for all files
  below it extends to those at it, whose bases lie below (`Extended`). `Chains` says what
  the recursion computes, by a least counterexample again: nothing, or files of the ledger
  each at the base slot of the one before, down to a full one; and not nothing if a full
  file lies at the base slot. `Listings` says that ListSnapshots has one snapshot for each
  file with a chain, none before a better one.

`ProberProofs` proves, for any finite set of files and any number of requests
(`SidecarAssumption`):

* `TypeCorrect`: Spec => []TypeOK.
* `ListedComplete`: Spec => []ListedIsComplete.
* `StableListed`: Spec => []StableIsListed.
* `BestFirst`: Spec => []ListedBestFirst.
* `BestServed`: Spec => []BestIsServed.
* `UrlListingsFit`: Spec => []UrlListingFits.
* `UrlBestListed`: Spec => []UrlBestIsListed.

`Better` alone is not a total order (two formats of a snapshot compare equal); `Precedes`
refines it to one, so SortFiles lists a directory, and a directory with a file of a kind
redirects to exactly one. What is proved of the lists is stated with `Better`. The
invariant says that no file that stays is lost between ReadDir and the last Stat and that
nothing is found that was never there (`Scanned`), that a reply lists what was found
(`ListedWell`, from `Listings`), that the file chosen for a download is as good as any
full one that stays (`Chosen`), and what is known of an HTTP target between its two
requests (`HalfProbed`): the full file found is as good as any that stays, and if the
target's best full file never changes it is that one.

`ClientProofs` proves about the users of the tracker, for any targets, ledgers of the nodes,
HTTP targets, local ledgers, command lines and limits (`NodesAssumption`, `FetchAssumption`,
`MirrorAssumption` and those of the index):

* `FetchTypeCorrect`: Spec => []TypeOK.
* `NoOrphansEver`: Spec => []NoOrphans.
* `FullFetched`: Spec => []FullReached.
* `CalmRunsSucceed`: Spec => []CalmSucceeds.
* `MirrorTypeCorrect`: MirrorSpec => []MirrorTypeOK.
* `NothingCopiedTwice`: MirrorSpec => []CopiedOnce.

What both clients rest on is `NodesInv`: whatever nodes and index have been through, a row
is of a snapshot some node had (`RowIs`: full files at its base slot, incremental ones
based on it), no two rows have one id, a sidecar's row has a full file, and its files are
still there if nothing was taken away and no listing came late (`RowFits`). It follows from
`Listings` for sidecars and `BothListed` for HTTP targets, whose two answers may be of two
ledgers. `AnswersBest` and `AnswersAtSlot` carry it through the handlers: every source in an
answer is that of a row, and a row at the slot asked for gives an answer that is not empty
(without a group).

None of the properties of Fetch is inductive. `FetchInv` adds, for each moment of a run:

* what is being fetched is a snapshot the index had (`Fetching`), in the full pass from the
  node that listed it (`FullPass`);
* an incremental file is asked for only when a full one at its base is in the ledger
  already (`WantedBased`). There are three ways to get there: the advice, which gives the
  incremental pass alone only when the bases are equal (`Advised`), and the best local
  snapshot ends in a full file of its own (`LocalSnapshots`); the question for the base of
  that snapshot (AskOlder); and a full pass that has not failed, followed by a question for
  incremental snapshots at its base (Refresh). This makes NoOrphans hold through every
  download, interrupted or not;
* once the full pass is over, the full files of the first answer are in the ledger
  (`FirstFetched`), and a ledger lists each full file, which is FullReached;
* while nothing is taken away, the row of the snapshot is still in the index when it is asked
  for again, the node still has its files, and no download has failed (`CalmInv`).

For the mirror, of the places in an answer that are at one slot one comes first, so a tick
has one job for a file (`PickedOnce`), and a tick begins when all jobs have ended.

`TrackerMainProofs` proves, for any servers, reloads and configurations
(`MainAssumption`), `TypeCorrect`: Spec => []TypeOK and `PanicsLate`: Spec =>
[]PanicsOnlyOnTheWayOut, from an invariant that relates closed servers to the reason for
closing them (`StoppedForAReason`) and the result channel to the servers (`CollectorLast`).

Only model-checked is liveness, which TLAPS does not prove under fairness:
EveryResultTaken, EventuallyTracked, ClosedGoesQuiet, BestIsMirrored, StopsWhenCancelled,
ShutsDown, EveryConnServed, ExitsWhenStopped, GoodGroupsTracked. Every invariant and every
refinement that a run checks is a theorem as well.

The assumptions on constants are types, with these exceptions. Slots are an initial segment
of the naturals, names of inodes differ, a target's name begins with itself. And validators
make incremental snapshots from full ones, and no snapshot at slot 0 (`OfValidator`): from a
chain of several incremental snapshots fetch would leave one without a full file at its
base, and slot 0 is no slot to the tracker, so that the question for the snapshots at it is
answered with all there are. The local ledger need not be a validator's: it may hold any
files, but none at slot 0.

## 5. What is not modelled, and why

* Listening on the addresses of an interface (`netx.ListenTCPInterface`) and the choice
  of the address to report (`Addr`): set-up without concurrency.
* The consensus API of the sidecar keeps no state: one goroutine per request forwards
  what the validator sends, until either side closes its connection.
* Configuration beyond the backends of a target group; discovery by consul beyond the
  set of its possible answers.
* Loss of what was written but not synced at a power failure (`fetch/sidecar.go:140`):
  a crash in the models is that of a process.
* Reloading: nothing in the code receives from the reload channel.
* Authentication, TLS, flags, metrics, logging: no concurrent behaviour.
* memdb, resty, the Go runtime and the validator are modelled from their use only
  ("external" in `PROJECT.json`): atomic transactions, ordered radix trees,
  FIFO channels.

## 6. Divergences found while modelling

Checked by a run that ends in a counterexample:

* **IndexDelete** - `DeleteSnapshotsByTarget` drops the target's terminator and so takes the
  rows of every target whose name begins with it (host1, host10).
* **IndexAtSlot** - `GetSnapshotsAtSlotByGroup` with a group passes its arguments in the wrong
  order and panics.
* **FetchTarget** - after the refresh the incremental file of one node is asked of another.
* **MirrorTracker** - the tracker names a target by scheme and host, the mirror puts another
  "http://" before it, and copies nothing. The run Mirror is about a tracker that
  names bare hosts.

Seen in the models, without a run of their own:

* index and tracker: `GetSnapshotsByTarget` makes the same prefix lookup as the delete
  (`index.go:56`), so it returns the rows of host10 for host1, where its comment promises
  "all snapshots served by a host" (`index.go:53`); `ReadsByTarget` states what it does
  return. `GetBestSnapshotsByGroup` returns max + 1 rows if there are so many
  (`index.go:102`), where `max` is "the max number of snapshots to return"
  (`index.go:94`; BestIsNewest);
  an incremental snapshot at the slot of a full one replaces it in the index
  (`LastWriters`); a snapshot newer than the RPC node's slot makes the unsigned age wrap
  around and is reported as too old (`tracker.go:149`; the premise of FreshIsHealthy);
* scraping: the collector closes its channel while scrapers still send, which panics
  (`collector.go:56`; PanicsOnlyOnTheWayOut says when); results of a closed scraper reach
  the index after Close has returned (ClosedGoesQuiet says for how long); a group that
  names http targets next to another backend is probed in the wrong way and never
  tracked (`prober.go:87`; the premise of GoodGroupsTracked); in sidecar mode the target
  of a result lacks the API path that the probe uses (`prober.go:121`);
* ledger and sidecar: a snapshot that lies there in two formats is listed twice, and the
  tracker keeps the second (`LastWriters`); a file with an odd extension is listed, and sent
  as the best one, but refused by name (`sidecar/snapshot.go:98`); a chain gives up when the best file at its base slot leads nowhere though
  another would do (`BestAt`);
* fetch: the advice compares the base of the best local snapshot (`fetch/fetch.go:40`), which
  need not be the newest one at hand: with a chain of an old full snapshot on disk that
  reaches beyond a newer full one just fetched, whose incremental files are gone by the
  refresh, the next run fetches the newer full snapshot again. FullReached is
  therefore about some snapshot of the ledger, not about the first; the limit computed from `--max-slots` is dropped (`cmd/fetch/fetch.go:133`);
  `--full=false` on an empty ledger panics (`Ask`); the refresh takes the newest snapshot of
  the first target, not of all (`ByBaseSlot`); files of HTTP targets are asked of a
  sidecar API they do not have (`Offers`); a listing that lacks its full file leaves the
  full pass with nothing to do, and the run reports success (`cmd/fetch/fetch.go:241`);
* tracker command: `/reload` answers though nothing reloads, and the second request hangs
  (`cmd/tracker/tracker.go:85`); the exit status after a crash of a server is 0
  (`cmd/tracker/tracker.go:139`);
* merged listener: a connection it has accepted when it shuts down is dropped without
  being closed (`lost`).

## 7. Plan

Done: every component whose operations interact or can fail half-way, and the proofs of
section 4. Left, in this order:

1. Fetch over Download, two commands at a time in one directory: now Fetch takes a
   download for the one step that AtomicFile promises a single command.
2. The index of Nodes as an instance of TrackerView: now Withdraw and Publish are written
   after its actions, which ScrapeProofs shows to be all the pipeline does.
3. Several scrapers of one tracker closed and started again one by one, once the code
   reloads its configuration.
4. The consensus API, if it comes to share a connection between clients.

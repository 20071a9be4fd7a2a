------------------------------- MODULE Fetch -------------------------------
(***************************************************************************)
(* One run of `solana-snapshots fetch` (internal/cmd/fetch/fetch.go)       *)
(* against a tracker and sidecars that change meanwhile: Nodes.            *)
(***************************************************************************)
EXTENDS Nodes, FetchAdvice

CONSTANTS
  Locals,     \* the ledgers the run may start with
  FlagSets,   \* command lines: [full, incremental, slot, group]
  MinAge,     \* --min-slots
  MaxAge      \* --max-slots

ASSUME FetchAssumption ==
  /\ MinAge \in Nat /\ MaxAge \in Nat
  /\ \A files \in Locals : IsLedger(files) /\ \A f \in files : f.slot # 0
  /\ FlagSets \subseteq [full : BOOLEAN, incremental : BOOLEAN, slot : Slots,
                        group : {AnyGroup, Group}]

VARIABLES
  flags,    \* the command line
  start,    \* (history) the local ledger at the start
  local,    \* the local ledger; downloads are put there
  pc,       \* ask, older, full, refresh, incremental, done
  exit,     \* how the run ended: ok, nothing, fatal, panic, interrupted
  first,    \* (history) the best snapshot of the tracker's first answer
  snap,     \* the snapshot being fetched
  client,   \* the target the sidecar client was made for
  wanted,   \* files still to download in this pass
  failed    \* a download of this pass failed

run == <<flags, start, local, pc, exit, first, snap, client, wanted, failed>>
vars == <<nodes, run>>

NoSnap == [target |-> 0]

Init ==
  /\ NodesInit
  /\ flags \in FlagSets
  /\ start \in Locals
  /\ local = start
  /\ pc = "ask"
  /\ exit = "none"
  /\ first = NoSnap
  /\ snap = NoSnap
  /\ client = NoSnap.target
  /\ wanted = {}
  /\ failed = FALSE

-----------------------------------------------------------------------------
\* The run.  A request that does not reach its server ends it (Interrupt).

Done(how) == pc' = "done" /\ exit' = how /\ UNCHANGED <<snap, client, wanted, failed>>

\* (mutant) All files in the first pass.
FilesAtOnce(source, full, incremental) ==
  FilesIn(source.info)

\* The files downloadSnapshot asks for of a snapshot.
FilesOf(source, full, incremental) ==
  { f \in FilesIn(source.info) :
      IF IsFull(f) THEN full ELSE incremental }

\* From the list of matching snapshots on (an error response has none, and ends the
\* run just the same): take the first, make a client for its
\* target, and begin the first pass.
Take(remote, full) ==
  IF remote = << >> THEN Done("fatal")
  ELSE /\ snap' = remote[1]
       /\ client' = remote[1].target
       /\ pc' = IF full THEN "full" ELSE "incremental"
       /\ wanted' = FilesOf(remote[1], full, ~full)
       /\ failed' = FALSE
       /\ UNCHANGED exit

\* First request to the tracker, and what follows from its answer.
Ask ==
  /\ pc = "ask"
  /\ LET answer     == IF flags.slot # 0 THEN GetSnapshots(db, flags.group, flags.slot)
                       ELSE GetBestSnapshots(db, flags.group, -1)
         remote     == answer.sources
         localSnaps == ListSnapshots(local)
         advice     == ShouldFetchSnapshot(localSnaps, remote, MinAge, MaxAge).advice
     IN  /\ first' = IF remote = << >> THEN NoSnap ELSE remote[1]
         /\ \/ flags.slot # 0 /\ Take(remote, flags.full) /\ UNCHANGED flags
            \/ /\ flags.slot = 0
               /\ \/ /\ advice \in {"NothingFound", "RemoteIsOlder"}
                     /\ Done("nothing") /\ UNCHANGED flags
                  \/ /\ advice = "UpToDate"
                     /\ Done(IF localSnaps = << >> THEN "panic" ELSE "nothing")
                     /\ UNCHANGED flags
                  \/ /\ advice = "FetchFull" /\ ~flags.full
                     /\ IF localSnaps = << >> THEN Done("panic")
                        ELSE pc' = "older" /\ UNCHANGED <<exit, snap, client, wanted, failed>>
                     /\ UNCHANGED flags
                  \/ /\ advice = "FetchIncremental"
                     /\ flags' = [flags EXCEPT !.full = FALSE]
                     /\ IF flags.incremental THEN Take(remote, FALSE) ELSE Done("nothing")
                  \/ /\ advice = "Fetch" \/ (advice = "FetchFull" /\ flags.full)
                     /\ Take(remote, flags.full) /\ UNCHANGED flags
  /\ UNCHANGED <<nodes, start, local>>

\* Only an incremental snapshot is wanted: one for the full snapshot at hand.
AskOlder ==
  /\ pc = "older"
  /\ Take(GetSnapshots(db, flags.group, ListSnapshots(local)[1].baseSlot).sources, FALSE)
  /\ UNCHANGED <<nodes, flags, start, local, first>>

\* DownloadSnapshotFile from the client's target (AtomicFile shows it as a step): 404
\* when the file is gone, or the target no sidecar.
Download(f) ==
  /\ f \in wanted
  /\ wanted' = wanted \ {f}
  /\ \/ /\ Offers(client, f)
        /\ local' = local \cup {f}
        /\ UNCHANGED failed
     \/ /\ ~Offers(client, f)
        /\ failed' = TRUE
        /\ UNCHANGED local
  /\ UNCHANGED <<nodes, flags, start, pc, exit, first, snap, client>>

\* The error of one download cancels the context of the others.
CancelDownload(f) ==
  /\ f \in wanted
  /\ failed
  /\ wanted' = wanted \ {f}
  /\ UNCHANGED <<nodes, flags, start, local, pc, exit, first, snap, client, failed>>

\* (mutant) The errors of the downloads are lost.
PassDoneRegardless ==
  /\ pc \in {"full", "incremental"}
  /\ wanted = {}
  /\ \/ /\ pc = "full" /\ flags.incremental
        /\ pc' = "refresh"
        /\ UNCHANGED <<exit, snap, client, wanted, failed>>
     \/ /\ pc = "incremental" \/ ~flags.incremental
        /\ Done("ok")
  /\ UNCHANGED <<nodes, flags, start, local, first>>

\* All downloads of the pass have returned (errgroup.Wait).
PassDone ==
  /\ pc \in {"full", "incremental"}
  /\ wanted = {}
  /\ \/ /\ failed
        /\ Done("fatal")
     \/ /\ ~failed /\ pc = "full" /\ flags.incremental
        /\ pc' = "refresh"
        /\ UNCHANGED <<exit, snap, client, wanted, failed>>
     \/ /\ ~failed /\ (pc = "incremental" \/ ~flags.incremental)
        /\ Done("ok")
  /\ UNCHANGED <<nodes, flags, start, local, first>>

\* (mutant) Asks by the slot of the snapshot, not by its base slot.
RefreshBySlot ==
  /\ pc = "refresh"
  /\ LET remote == GetSnapshots(db, flags.group, snap.info.slot).sources
     IN  IF remote = << >> THEN Done("fatal")
         ELSE /\ snap' = remote[1]
              /\ pc' = "incremental"
              /\ wanted' = FilesOf(remote[1], FALSE, TRUE)
              /\ UNCHANGED <<exit, client, failed>>
  /\ UNCHANGED <<nodes, flags, start, local, first>>

\* The full snapshot is there: ask for the incremental ones at its slot.  The
\* client stays.
Refresh ==
  /\ pc = "refresh"
  /\ LET remote == GetSnapshots(db, flags.group, snap.info.baseSlot).sources
     IN  IF remote = << >> THEN Done("fatal")
         ELSE /\ snap' = remote[1]
              /\ pc' = "incremental"
              /\ wanted' = FilesOf(remote[1], FALSE, TRUE)
              /\ UNCHANGED <<exit, client, failed>>
  /\ UNCHANGED <<nodes, flags, start, local, first>>

\* ^C, --download-timeout, or a request that failed on the way.
Interrupt ==
  /\ pc # "done"
  /\ Done("interrupted")
  /\ UNCHANGED <<nodes, flags, start, local, first>>

Run == Ask \/ AskOlder \/ PassDone \/ Refresh \/ Interrupt
       \/ \E f \in wanted : Download(f) \/ CancelDownload(f)

Next == (pc # "done" /\ NodesNext /\ UNCHANGED run) \/ Run

Spec == Init /\ [][Next]_vars

-----------------------------------------------------------------------------
TypeOK ==
  /\ NodesTypeOK
  /\ flags \in [full : BOOLEAN, incremental : BOOLEAN, slot : Slots, group : {AnyGroup, Group}]
  /\ start \in Locals
  /\ start \subseteq local /\ local \subseteq start \cup Files
  /\ pc \in {"ask", "older", "full", "refresh", "incremental", "done"}
  /\ exit \in {"none", "ok", "nothing", "fatal", "panic", "interrupted"}
  /\ first.target \in Targets \cup {0}
  /\ snap.target \in Targets \cup {0}
  /\ client \in Targets \cup {0}
  /\ wanted \subseteq Files
  /\ failed \in BOOLEAN

\* Whenever the run ends, or is killed, it has added no incremental snapshot to the
\* local ledger without a full one at its base: the validator could not start from
\* it.  (--slot without --full asks for just that, and is excepted.)
NoOrphans ==
  (flags.slot = 0 \/ flags.full) =>
    \A f \in local \ start : IsFull(f) \/ \E b \in local : IsFull(b) /\ b.slot = f.baseSlot

\* A run that fetched a full snapshot and reports success left the ledger with a
\* complete snapshot at least as new, in its full part, as the best one the tracker
\* named at first, whatever happened to nodes and index since.  (A snapshot listed
\* without its full file, as an HTTP target's may be, is excepted.)
FullReached ==
  (exit = "ok" /\ flags.full /\ flags.slot = 0 /\ \E f \in FilesIn(first.info) : IsFull(f)) =>
    LET snaps == ListSnapshots(local)
    IN  \E i \in DOMAIN snaps : snaps[i].baseSlot >= first.info.baseSlot

\* Once a snapshot has been chosen, and as long as its files are asked of the node
\* that listed them, a run fails only because something was taken away from under
\* it, or the listing came too late: it asks the tracker and the node for nothing they do not have.  (Under --group
\* the tracker answers no question about a slot, and an HTTP target has no files.)
CalmSucceeds ==
  (calm /\ client \notin http /\ flags.group = AnyGroup /\ snap # NoSnap /\ client = snap.target) => exit # "fatal"

-----------------------------------------------------------------------------
\* types/snapshot.go:24 "SnapshotSource describes a snapshot, and where to get it
\* from": files are asked of the target that listed them.
AsksItsTarget == wanted # {} => client = snap.target

=============================================================================

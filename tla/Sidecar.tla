------------------------------ MODULE Sidecar ------------------------------
(***************************************************************************)
(* The sidecar's snapshot API (internal/sidecar/snapshot.go) on a ledger   *)
(* directory that the validator changes under it.  A request reads the     *)
(* directory, stats the files one by one and, to send one, opens it: each  *)
(* a step, with snapshots appearing and being purged in between.  Requests *)
(* share nothing, so one at a time is enough.  Prober adds the requests of *)
(* the tracker to nodes without a sidecar.                                 *)
(***************************************************************************)
EXTENDS Ledger

CONSTANTS
  Universe,     \* the snapshot files the validator may write
  ServedExts,   \* the extensions a download by name accepts
  MaxRequests   \* bound on the requests

ASSUME SidecarAssumption ==
  MaxRequests \in Nat /\ IsLedger(Universe)

VARIABLES
  dir,        \* the files in the ledger directory
  pc,         \* of the request: idle, readdir, stat, open
  kind,       \* "list", "best", "name"
  wanted,     \* the file a download is for, or NoFile
  unstatted,  \* directory entries of which the status is not known yet
  found,      \* the files found by ReadDir and Stat
  response,   \* [code, infos] of the last request
  requests,   \* requests so far
  stable,     \* (history) the files present, and not failing a Stat, since the request began
  seen        \* (history) the files present at any time since then

vars == <<dir, pc, kind, wanted, unstatted, found, response, requests, stable, seen>>

NoFile == [slot |-> 0]
NoResponse == [code |-> 0, infos |-> << >>, file |-> NoFile]

Init ==
  /\ dir \in SUBSET Universe
  /\ pc = "idle"
  /\ kind = "list"
  /\ wanted = NoFile
  /\ unstatted = {}
  /\ found = {}
  /\ response = NoResponse
  /\ requests = 0
  /\ stable = dir
  /\ seen = dir

-----------------------------------------------------------------------------
\* The validator writes a snapshot under its final name, or purges one.
Write(f) ==
  /\ f \notin dir
  /\ dir' = dir \cup {f}
  /\ seen' = seen \cup {f}
  /\ UNCHANGED <<pc, kind, wanted, unstatted, found, response, requests, stable>>

Purge(f) ==
  /\ f \in dir
  /\ dir' = dir \ {f}
  /\ stable' = stable \ {f}
  /\ UNCHANGED <<pc, kind, wanted, unstatted, found, response, requests, seen>>

-----------------------------------------------------------------------------
Begin(k, f) ==
  /\ pc = "idle"
  /\ requests < MaxRequests
  /\ requests' = requests + 1
  /\ kind' = k
  /\ wanted' = f
  /\ found' = {}
  /\ stable' = dir
  /\ seen' = dir
  /\ UNCHANGED <<dir, unstatted>>

Reply(code, infos, file) ==
  /\ response' = [code |-> code, infos |-> infos, file |-> file]
  /\ pc' = "idle"

\* A request for the list, or for the best full snapshot.
Request(k) ==
  /\ Begin(k, NoFile)
  /\ pc' = "readdir"
  /\ response' = NoResponse

\* DownloadSnapshot: one by name, refused if its extension (or else its name) is odd.
DownloadSnapshot(f) ==
  /\ Begin("name", f)
  /\ \/ f.ext \in ServedExts /\ pc' = "open" /\ response' = NoResponse
     \/ f.ext \notin ServedExts /\ Reply(404, << >>, NoFile)

\* ListSnapshotFiles: fs.ReadDir ...
ReadDir ==
  /\ pc = "readdir"
  /\ pc' = "stat"
  /\ unstatted' = dir
  /\ UNCHANGED <<dir, kind, wanted, found, response, requests, stable, seen>>

\* ... the error of which both handlers answer with 500 ...
ReadDirFails ==
  /\ pc = "readdir"
  /\ Reply(500, << >>, NoFile)
  /\ UNCHANGED <<dir, kind, wanted, unstatted, found, requests, stable, seen>>

\* ... then fs.Stat of each entry, which skips one that is gone, or cannot be read.
Stat(f) ==
  /\ pc = "stat"
  /\ f \in unstatted
  /\ unstatted' = unstatted \ {f}
  /\ \/ f \in dir /\ found' = found \cup {f} /\ UNCHANGED stable
     \/ stable' = stable \ {f} /\ UNCHANGED found
  /\ UNCHANGED <<dir, pc, kind, wanted, response, requests, seen>>

\* SnapshotHandler.ListSnapshots
List ==
  /\ pc = "stat" /\ unstatted = {} /\ kind = "list"
  /\ Reply(200, ListSnapshots(found), NoFile)
  /\ UNCHANGED <<dir, kind, wanted, unstatted, found, requests, stable, seen>>

\* (mutant) Only the first of the sorted files is looked at.
SelectFirst ==
  /\ pc = "stat" /\ unstatted = {} /\ kind = "best"
  /\ LET sorted == SortFiles(found)
     IN  \/ /\ ~ \E i \in DOMAIN sorted : i = 1 /\ IsFull(sorted[i])
            /\ Reply(202, << >>, NoFile)
            /\ UNCHANGED wanted
         \/ /\ \E i \in DOMAIN sorted : i = 1 /\ IsFull(sorted[i]) /\ wanted' = sorted[i]
            /\ pc' = "open"
            /\ UNCHANGED response
  /\ UNCHANGED <<dir, kind, unstatted, found, requests, stable, seen>>

\* DownloadBestSnapshot: the first full one of the sorted files, if any.
SelectBest ==
  /\ pc = "stat" /\ unstatted = {} /\ kind = "best"
  /\ LET sorted == SortFiles(found)
     IN  \/ /\ \A i \in DOMAIN sorted : ~IsFull(sorted[i])
            /\ Reply(202, << >>, NoFile)
            /\ UNCHANGED wanted
         \/ /\ \E i \in DOMAIN sorted :
                 /\ IsFull(sorted[i]) /\ \A j \in 1 .. i - 1 : ~IsFull(sorted[j])
                 /\ wanted' = sorted[i]
            /\ pc' = "open"
            /\ UNCHANGED response
  /\ UNCHANGED <<dir, kind, unstatted, found, requests, stable, seen>>

\* (mutant) A file that is gone is answered as no snapshot yet.
OpenNotYet ==
  /\ pc = "open"
  /\ \/ wanted \in dir /\ Reply(200, << >>, wanted)
     \/ \E code \in {202, 500} : Reply(code, << >>, NoFile)
  /\ UNCHANGED <<dir, kind, wanted, unstatted, found, requests, stable, seen>>

\* serveSnapshot: an open file is served whole, purged meanwhile or not.  A file that
\* is gone, or of which Stat fails, is not found; any other error is the server's.
Open ==
  /\ pc = "open"
  /\ \/ wanted \in dir /\ Reply(200, << >>, wanted)
     \/ \E code \in {404, 500} : Reply(code, << >>, NoFile)
  /\ UNCHANGED <<dir, kind, wanted, unstatted, found, requests, stable, seen>>

SidecarNext ==
  \/ \E f \in Universe : Write(f) \/ Purge(f) \/ DownloadSnapshot(f) \/ Stat(f)
  \/ \E k \in {"list", "best"} : Request(k)
  \/ ReadDir
  \/ ReadDirFails
  \/ List
  \/ SelectBest
  \/ Open

-----------------------------------------------------------------------------
SeqRange(s) == { s[i] : i \in DOMAIN s }

Listed == pc = "idle" /\ kind = "list" /\ response.code = 200
ListedFiles == { response.infos[i].files[1] : i \in DOMAIN response.infos }

\* Every snapshot in a reply can be assembled: its files were in the directory
\* during the request, go strictly down, each lies at the base slot of the one
\* before, and end with a full snapshot at the base slot the info names.
ListedIsComplete ==
  Listed => \A i \in DOMAIN response.infos :
    LET info == response.infos[i]
        n    == Len(info.files)
    IN  /\ SeqRange(info.files) \subseteq seen
        /\ \A j \in 1 .. n - 1 : info.files[j].baseSlot = info.files[j + 1].slot
        /\ IsFull(info.files[n])
        /\ info.baseSlot = info.files[n].slot
        /\ info.slot = info.files[1].slot

\* A snapshot that was there for the whole request, with a full snapshot at its base
\* that was too, is in the reply whatever came and went meanwhile.
StableIsListed ==
  Listed => \A f \in stable :
    (IsFull(f) \/ \E b \in stable : IsFull(b) /\ b.slot = f.baseSlot) => f \in ListedFiles

\* "Result is sorted by best-to-worst" (snapshot.go), no file twice: the tracker and
\* fetch take the first one for the best.  A snapshot in two formats is listed twice.
ListedBestFirst ==
  Listed => \A i, j \in DOMAIN response.infos :
    i < j => LET f == response.infos[i].files[1]
                 o == response.infos[j].files[1]
             IN  f # o /\ ~Better(o, f)

\* A download of the best snapshot never sends one that is worse than a full
\* snapshot present all along, and says there is none only if none was.
BestIsServed ==
  (pc = "idle" /\ kind = "best" /\ response.code # 0) =>
    \A f \in stable : IsFull(f) =>
      /\ response.code # 202
      /\ response.code = 200 => ~Better(f, response.file)
=============================================================================

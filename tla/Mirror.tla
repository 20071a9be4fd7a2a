------------------------------- MODULE Mirror -------------------------------
(***************************************************************************)
(* The mirror worker (internal/mirror): at each tick it asks the tracker   *)
(* for the best snapshots, picks one source for every slot among their     *)
(* files, and copies the files that the bucket lacks, each in a goroutine  *)
(* of its own.  The tick ends with the last of them.  Whoever runs the     *)
(* worker may cancel its context, on which every request fails and the     *)
(* worker stops; the mirror command never does, it is killed.              *)
(***************************************************************************)
EXTENDS Nodes

CONSTANTS
  SyncCount,     \* snapshots asked for
  RowScheme,     \* whether the tracker names targets by URL: this repository's does
  MaxFailures    \* bound on the failures: of requests of jobs, and crashes

ASSUME MirrorAssumption ==
  SyncCount \in Nat /\ RowScheme \in BOOLEAN /\ MaxFailures \in Nat

VARIABLES
  phase,    \* of the worker: "waiting" for the ticker, "working" on a tick, "stopped"
  ctx,      \* the context: live, done
  jobs,     \* the upload jobs that have not ended
  bucket,   \* the files in the bucket
  failures  \* failures so far

mirrorVars == <<nodes, phase, ctx, jobs, bucket, failures>>

MirrorInit ==
  /\ NodesInit
  /\ phase = "waiting" /\ ctx = "live"
  /\ jobs = {}
  /\ bucket = {}
  /\ failures = 0

-----------------------------------------------------------------------------
\* Addresses: how many times "http://" stands before the host.  The tracker's prober
\* writes the target with its scheme (ProbeTarget); the worker puts one before it.
ProbeTarget(t) == [schemes |-> IF RowScheme THEN 1 ELSE 0, host |-> t]
Provider(address) == [address EXCEPT !.schemes = @ + 1]
Serves(address, f) == address.schemes = 1 /\ Offers(address.host, f)

\* The map of a tick, one entry per slot: of the files in the order of the sources
\* the first at a slot stays.
Places(sources) ==
  UNION { { <<i, j>> : j \in 1 .. Len(sources[i].info.files) } : i \in 1 .. Len(sources) }

FileAt(sources, p) == sources[p[1]].info.files[p[2]]

Job(sources, p) ==
  [provider |-> Provider(ProbeTarget(sources[p[1]].target)), file |-> FileAt(sources, p),
   pc |-> "stat"]

\* (mutant) The last at a slot stays.
PickedLast(sources) ==
  LET places == Places(sources)
  IN  { Job(sources, p) : p \in { x \in places :
          \A q \in places : FileAt(sources, q).slot = FileAt(sources, x).slot => ~LexLess(x, q) } }

Picked(sources) ==
  LET places == Places(sources)
  IN  { Job(sources, p) : p \in { x \in places :
          \A q \in places : FileAt(sources, q).slot = FileAt(sources, x).slot => ~LexLess(q, x) } }

\* (mutant) The ticker is not held up by the uploads of the tick before.
TickOverlaps ==
  /\ phase # "stopped" /\ ctx = "live"
  /\ phase' = "working"
  /\ \E sources \in { GetBestSnapshots(db, AnyGroup, SyncCount).sources } :
       jobs' = jobs \cup Picked(sources)
  /\ UNCHANGED <<nodes, ctx, bucket, failures>>

\* Worker.tick up to the last "go"; a request that fails changes nothing.
Tick ==
  /\ phase = "waiting" /\ ctx = "live"
  /\ phase' = "working"
  /\ \E sources \in { GetBestSnapshots(db, AnyGroup, SyncCount).sources } :
       jobs' = Picked(sources)
  /\ UNCHANGED <<nodes, ctx, bucket, failures>>

\* wg.Wait returns.
TickEnds ==
  /\ phase = "working"
  /\ jobs = {}
  /\ phase' = "waiting"
  /\ UNCHANGED <<nodes, ctx, jobs, bucket, failures>>

\* The process is killed and started again: an upload not through leaves no object.
Crash ==
  /\ phase # "stopped" /\ failures < MaxFailures
  /\ failures' = failures + 1
  /\ phase' = "waiting" /\ ctx' = "live"
  /\ jobs' = {}
  /\ UNCHANGED <<nodes, bucket>>

\* The context is cancelled; Worker.Run returns when no tick is in progress.
Cancel ==
  /\ ctx = "live"
  /\ ctx' = "done"
  /\ UNCHANGED <<nodes, phase, jobs, bucket, failures>>

Stop ==
  /\ phase = "waiting" /\ ctx = "done"
  /\ phase' = "stopped"
  /\ UNCHANGED <<nodes, ctx, jobs, bucket, failures>>

\* The job moves on, or ends.
Proceed(j, next) == jobs' = (jobs \ {j}) \cup { [j EXCEPT !.pc = next] }
End(j) == jobs' = jobs \ {j}

\* (mutant) A job that has nothing to do is not counted down.
StatStays(j) ==
  /\ j \in jobs /\ j.pc = "stat" /\ j.file \notin bucket
  /\ Proceed(j, "stream")
  /\ UNCHANGED <<nodes, phase, ctx, bucket, failures>>

\* UploadJob.Run: is the file in the bucket already?
Stat(j) ==
  /\ j \in jobs /\ j.pc = "stat"
  /\ IF j.file \in bucket THEN End(j) ELSE Proceed(j, "stream")
  /\ UNCHANGED <<nodes, phase, ctx, bucket, failures>>

\* The sidecar sends the headers of the file, or 404; an address that is none ends
\* the job as well.
Stream(j) ==
  /\ j \in jobs /\ j.pc = "stream"
  /\ IF Serves(j.provider, j.file) THEN Proceed(j, "put") ELSE End(j)
  /\ UNCHANGED <<nodes, phase, ctx, bucket, failures>>

\* The file has been read to its end: the object appears, whole.
Put(j) ==
  /\ j \in jobs /\ j.pc = "put"
  /\ bucket' = bucket \cup {j.file}
  /\ End(j)
  /\ UNCHANGED <<nodes, phase, ctx, failures>>

\* A request of the job fails, to the sidecar or to S3; that is logged.  After a
\* cancellation all of them do, but one that is through already.
JobFails(j) ==
  /\ j \in jobs
  /\ \/ ctx = "done" /\ UNCHANGED failures
     \/ ctx = "live" /\ failures < MaxFailures /\ failures' = failures + 1
  /\ End(j)
  /\ UNCHANGED <<nodes, phase, ctx, bucket>>

JobStep(j) == Stat(j) \/ Stream(j) \/ Put(j)

Worker == Tick \/ TickEnds \/ Crash \/ Cancel \/ Stop \/ \E j \in jobs : JobStep(j) \/ JobFails(j)

MirrorNext == (NodesNext /\ UNCHANGED <<phase, ctx, jobs, bucket, failures>>) \/ Worker

MirrorSpec == MirrorInit /\ [][MirrorNext]_mirrorVars

(***************************************************************************)
(* Fairness.  The ticker ticks, and the requests of jobs return.  That is  *)
(* an assumption about the network and S3: none of them has a timeout, and *)
(* one that hangs holds up the worker for good.  That they do not fail     *)
(* forever is the bound MaxFailures.                                       *)
(***************************************************************************)
Fairness ==
  /\ WF_mirrorVars(Tick)
  /\ WF_mirrorVars(TickEnds)
  /\ WF_mirrorVars(Stop)
  /\ WF_mirrorVars(\E j \in jobs : JobStep(j))

MirrorFairSpec == MirrorSpec /\ Fairness

-----------------------------------------------------------------------------
MirrorTypeOK ==
  /\ NodesTypeOK
  /\ phase \in {"waiting", "working", "stopped"} /\ ctx \in {"live", "done"}
  /\ jobs \subseteq [provider : [schemes : 1 .. 2, host : Targets], file : Files, pc : {"stat", "stream", "put"}]
  /\ bucket \subseteq Files
  /\ failures \in 0 .. MaxFailures

\* No file is copied that the bucket has, nor copied twice at once: what a job found
\* missing is still missing when it puts it there, though many jobs run at a time
\* and the look and the put are two requests.
CopiedOnce ==
  \A j \in jobs :
    /\ j.pc # "stat" => j.file \notin bucket
    /\ \A k \in jobs : k.file = j.file => k = j

\* The index says of every node what is in its ledger now.
InStep == \A t \in Targets : RowsOf(db, Group, t) = Scraped(t)

\* The best snapshot is in the bucket, its full snapshot and all, and a file of every
\* slot of the others.
Mirrored ==
  \A best \in { GetBestSnapshots(db, AnyGroup, SyncCount).sources } :
    best # << >> =>
      /\ FilesIn(best[1].info) \subseteq bucket
      /\ \A i \in DOMAIN best : \A f \in FilesIn(best[i].info) :
           \E g \in bucket : g.slot = f.slot

\* When nodes and index have come to rest, the mirror ends up with the best snapshot
\* complete, and with something of every slot, whatever forks the nodes are on.
BestIsMirrored == (<>[]InStep /\ []<>(ctx = "live")) => <>[]Mirrored

\* A cancelled worker stops, uploads and all, and leaves no job behind (unless it is
\* killed and started again before).
StopsWhenCancelled == ctx = "done" ~> (ctx = "live" \/ (phase = "stopped" /\ jobs = {}))
=============================================================================

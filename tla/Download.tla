------------------------------ MODULE Download ------------------------------
(***************************************************************************)
(* Downloads of one snapshot file into one directory (DownloadSnapshotFile *)
(* of internal/fetch/sidecar.go): each writes to a temporary file and      *)
(* renames it in the end.  The temporary name is made of the file's, so    *)
(* downloads of one file share it: attempts one after the other after a    *)
(* failure, or of two commands running at a time.                          *)
(*                                                                         *)
(* The name of a snapshot determines its contents, which are the chunks    *)
(* 1 .. Size; each download writes them at an offset of its own.  A name   *)
(* leads to an inode, an open file keeps its inode whatever becomes of the *)
(* name.  An inode is named after the download that created it.            *)
(***************************************************************************)
EXTENDS Naturals

CONSTANTS
  Downloads,   \* the attempts made, one after the other or at a time
  Size,        \* chunks of the file
  Before,      \* the inode of a file that was there before
  NoInode

ASSUME DownloadAssumption ==
  /\ Size \in Nat \ {0}
  /\ Before \notin Downloads
  /\ NoInode \notin Downloads \cup {Before}

VARIABLES
  tmp,       \* the inode at the temporary name
  dest,      \* the inode at the final name
  content,   \* content[i]: the chunks that are in inode i; the rest are holes
  pc,        \* of a download: idle, streaming, copying, done, failed
  fd,        \* the inode a download writes to
  pos,       \* the chunks it has written
  overlap    \* (history) a file was created while another download was copying

vars == <<tmp, dest, content, pc, fd, pos, overlap>>

Inodes == Downloads \cup {Before}
Chunks == 1 .. Size

Init ==
  /\ tmp = NoInode
  /\ dest \in {NoInode, Before}
  /\ content = [i \in Inodes |-> IF i = Before THEN Chunks ELSE {}]
  /\ pc = [d \in Downloads |-> "idle"]
  /\ fd = [d \in Downloads |-> NoInode]
  /\ pos = [d \in Downloads |-> 0]
  /\ overlap = FALSE

Copying == { d \in Downloads : pc[d] = "copying" }

-----------------------------------------------------------------------------
\* StreamSnapshot: the sidecar has the file.
Stream(d) ==
  /\ pc[d] = "idle"
  /\ pc' = [pc EXCEPT ![d] = "streaming"]
  /\ UNCHANGED <<tmp, dest, content, fd, pos, overlap>>

\* os.Create: the file at the temporary name is truncated, whoever writes to it, or a
\* new one is made.
Create(d) ==
  /\ pc[d] = "streaming"
  /\ LET i == IF tmp = NoInode THEN d ELSE tmp
     IN  /\ tmp' = i
         /\ fd' = [fd EXCEPT ![d] = i]
         /\ content' = [content EXCEPT ![i] = {}]
  /\ pc' = [pc EXCEPT ![d] = "copying"]
  /\ overlap' = (overlap \/ Copying # {})
  /\ UNCHANGED <<dest, pos>>

\* One write of io.Copy.
Copy(d) ==
  /\ pc[d] = "copying" /\ pos[d] < Size
  /\ content' = [content EXCEPT ![fd[d]] = @ \cup {pos[d] + 1}]
  /\ pos' = [pos EXCEPT ![d] = @ + 1]
  /\ UNCHANGED <<tmp, dest, pc, fd, overlap>>

\* (mutants) The file is linked, not moved; a body that ends early is taken for whole.
PromoteLinks(d) ==
  /\ pc[d] = "copying" /\ pos[d] = Size
  /\ tmp # NoInode
  /\ dest' = tmp
  /\ pc' = [pc EXCEPT ![d] = "done"]
  /\ UNCHANGED <<tmp, content, fd, pos, overlap>>

PromoteShort(d) ==
  /\ pc[d] = "copying"
  /\ tmp # NoInode
  /\ dest' = tmp
  /\ tmp' = NoInode
  /\ pc' = [pc EXCEPT ![d] = "done"]
  /\ UNCHANGED <<content, fd, pos, overlap>>

\* io.Copy has returned: whatever file has the temporary name now is renamed ...
Promote(d) ==
  /\ pc[d] = "copying" /\ pos[d] = Size
  /\ tmp # NoInode
  /\ dest' = tmp
  /\ tmp' = NoInode
  /\ pc' = [pc EXCEPT ![d] = "done"]
  /\ UNCHANGED <<content, fd, pos, overlap>>

\* ... and if another download has taken it away the download fails.
PromoteFails(d) ==
  /\ pc[d] = "copying" /\ pos[d] = Size
  /\ tmp = NoInode
  /\ pc' = [pc EXCEPT ![d] = "failed"]
  /\ UNCHANGED <<tmp, dest, content, fd, pos, overlap>>

\* (mutant) The file is renamed whatever io.Copy returned.
AbortPromotes(d) ==
  /\ pc[d] \in {"idle", "streaming", "copying"}
  /\ pc' = [pc EXCEPT ![d] = "failed"]
  /\ dest' = IF pc[d] = "copying" /\ tmp # NoInode THEN tmp ELSE dest
  /\ tmp' = IF pc[d] = "copying" THEN NoInode ELSE tmp
  /\ UNCHANGED <<content, fd, pos, overlap>>

\* A request or a write fails, the context is cancelled or the process dies: the
\* temporary file stays as it is.
Abort(d) ==
  /\ pc[d] \in {"idle", "streaming", "copying"}
  /\ pc' = [pc EXCEPT ![d] = "failed"]
  /\ UNCHANGED <<tmp, dest, content, fd, pos, overlap>>

Step(d) == Stream(d) \/ Create(d) \/ Copy(d) \/ Promote(d) \/ PromoteFails(d) \/ Abort(d)

Next == \E d \in Downloads : Step(d)

Spec == Init /\ [][Next]_vars

-----------------------------------------------------------------------------
\* A download has an inode once it has created its file, and before only a name; the
\* two names never lead to one inode.
TypeOK ==
  /\ tmp \in Downloads \cup {NoInode}
  /\ dest \in Inodes \cup {NoInode}
  /\ tmp # NoInode => tmp # dest
  /\ content \in [Inodes -> SUBSET Chunks]
  /\ pc \in [Downloads -> {"idle", "streaming", "copying", "done", "failed"}]
  /\ fd \in [Downloads -> Downloads \cup {NoInode}]
  /\ pos \in [Downloads -> 0 .. Size]
  /\ overlap \in BOOLEAN
  /\ \A d \in Downloads : pc[d] \in {"copying", "done"} => fd[d] # NoInode

Whole(i) == content[i] = Chunks

Seen == IF dest = NoInode THEN "absent" ELSE IF Whole(dest) THEN "whole" ELSE "torn"

Abstract == INSTANCE AtomicFile WITH file <- Seen

\* The snapshot appears under its name as a whole, through any failures and retries,
\* as long as no two downloads of it write at a time.
ImplementsAtomicFile == Abstract!Spec

AtRest == \A d \in Downloads : pc[d] \in {"idle", "done", "failed"}

\* Even if they do, what stays torn when all have ended is the work of one that was cut
\* short after another had renamed its file away: had it gone on, it would have
\* filled the holes.
TornByAbort ==
  (AtRest /\ dest # NoInode /\ ~Whole(dest)) =>
    /\ overlap
    /\ \E d \in Downloads : pc[d] = "failed" /\ fd[d] = dest /\ pos[d] < Size
=============================================================================

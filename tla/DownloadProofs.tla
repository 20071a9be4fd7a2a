--------------------------- MODULE DownloadProofs ---------------------------
(***************************************************************************)
(* Proofs about Download, for any number of downloads and any size.        *)
(***************************************************************************)
EXTENDS Download, TLAPS

USE DownloadAssumption

\* Of every inode some download has written all that is in it up to its own position:
\* the one that truncated it last.
Filled(i) == \E d \in Downloads :
  /\ fd[d] = i
  /\ 1 .. pos[d] \subseteq content[i]
  /\ pc[d] = "copying" \/ pc[d] = "failed" \/ (pc[d] = "done" /\ pos[d] = Size)

\* While no two downloads have written at a time there is one writer at most, it writes
\* to the file at the temporary name, and what it has written is there.
OneWriter == ~overlap => \A d \in Copying :
  /\ Copying = {d}
  /\ tmp = fd[d]
  /\ 1 .. pos[d] \subseteq content[tmp]

\* A download that has no file yet is at its beginning, and its inode is no one's.
Untouched == \A d \in Downloads : pc[d] \in {"idle", "streaming"} =>
  /\ pos[d] = 0
  /\ tmp # d /\ dest # d
  /\ \A e \in Downloads : fd[e] # d

IInv ==
  /\ TypeOK
  /\ Untouched
  /\ tmp # NoInode => Filled(tmp)
  /\ dest \notin {NoInode, Before} => Filled(dest)
  /\ content[Before] = Chunks
  /\ OneWriter
  /\ ~overlap => dest = NoInode \/ Whole(dest)

-----------------------------------------------------------------------------
LEMMA InitInv == Init => IInv
<1> SUFFICES ASSUME Init PROVE IInv
  OBVIOUS
<1>1. TypeOK
  <2>1. content \in [Inodes -> SUBSET Chunks]
    BY DEF Init
  <2>2. pos \in [Downloads -> 0 .. Size]
    BY DEF Init
  <2>3. fd \in [Downloads -> Downloads \cup {NoInode}]
    BY DEF Init
  <2>4. pc \in [Downloads -> {"idle", "streaming", "copying", "done", "failed"}]
        /\ \A d \in Downloads : pc[d] = "idle"
    BY DEF Init
  <2> QED
    BY <2>1, <2>2, <2>3, <2>4 DEF Init, TypeOK, Inodes
<1>2. Untouched
  BY DEF Init, Untouched
<1>3. content[Before] = Chunks /\ (dest = NoInode \/ Whole(dest))
  BY DEF Init, Whole, Inodes
<1>4. Copying = {}
  BY DEF Init, Copying
<1>5. OneWriter
  BY <1>4 DEF OneWriter
<1>6. tmp = NoInode /\ dest \in {NoInode, Before}
  BY DEF Init
<1> QED
  BY <1>1, <1>2, <1>3, <1>5, <1>6 DEF IInv

\* What does not touch an inode, nor take a step back, leaves it filled.
LEMMA FilledStays ==
  ASSUME NEW d \in Downloads, TypeOK, Copy(d), NEW i \in Downloads, Filled(i)
  PROVE  Filled(i)'
<1>1. PICK e \in Downloads :
        /\ fd[e] = i
        /\ 1 .. pos[e] \subseteq content[i]
        /\ pc[e] = "copying" \/ pc[e] = "failed" \/ (pc[e] = "done" /\ pos[e] = Size)
  BY DEF Filled
<1>2. fd' = fd /\ pc' = pc
  BY DEF Copy
<1>3. content[i] \subseteq content'[i]
  BY DEF Copy, TypeOK, Inodes
<1>4. CASE e = d
  <2>1. pos'[d] = pos[d] + 1 /\ pos[d] \in 0 .. Size /\ pc[d] = "copying"
    BY DEF Copy, TypeOK
  <2>2. pos[d] + 1 \in content'[i]
    BY <1>1, <1>4 DEF Copy, TypeOK, Inodes
  <2>3. 1 .. pos'[d] \subseteq content'[i]
    BY <1>1, <1>3, <1>4, <2>1, <2>2
  <2> QED
    BY <1>1, <1>2, <1>4, <2>1, <2>3 DEF Filled
<1>5. CASE e # d
  <2>1. pos'[e] = pos[e]
    BY <1>5 DEF Copy, TypeOK
  <2> QED
    BY <1>1, <1>2, <1>3, <2>1 DEF Filled
<1> QED
  BY <1>4, <1>5

LEMMA TypeStep == TypeOK /\ Untouched /\ [Next]_vars => TypeOK'
<1> SUFFICES ASSUME TypeOK, Untouched, [Next]_vars
             PROVE  TypeOK'
  OBVIOUS
<1>1. ASSUME NEW d \in Downloads, Stream(d) PROVE TypeOK'
  BY <1>1 DEF TypeOK, Stream
<1>2. ASSUME NEW d \in Downloads, Create(d) PROVE TypeOK'
  <2>1. CASE tmp = NoInode
    BY <1>2, <2>1 DEF TypeOK, Create, Untouched, Inodes
  <2>2. CASE tmp # NoInode
    BY <1>2, <2>2 DEF TypeOK, Create, Inodes
  <2> QED
    BY <2>1, <2>2
<1>3. ASSUME NEW d \in Downloads, Copy(d) PROVE TypeOK'
  <2>1. fd[d] \in Inodes /\ pos[d] + 1 \in Chunks
    BY <1>3 DEF TypeOK, Copy, Inodes, Chunks
  <2>2. content' \in [Inodes -> SUBSET Chunks]
    BY <1>3, <2>1 DEF TypeOK, Copy
  <2>3. pos' \in [Downloads -> 0 .. Size]
    BY <1>3 DEF TypeOK, Copy
  <2> QED
    BY <1>3, <2>2, <2>3 DEF TypeOK, Copy
<1>4. ASSUME NEW d \in Downloads, Promote(d) PROVE TypeOK'
  BY <1>4 DEF TypeOK, Promote, Inodes
<1>5. ASSUME NEW d \in Downloads, PromoteFails(d) PROVE TypeOK'
  BY <1>5 DEF TypeOK, PromoteFails
<1>6. ASSUME NEW d \in Downloads, Abort(d) PROVE TypeOK'
  BY <1>6 DEF TypeOK, Abort
<1>7. CASE UNCHANGED vars
  BY <1>7 DEF TypeOK, vars
<1> QED
  BY <1>1, <1>2, <1>3, <1>4, <1>5, <1>6, <1>7 DEF Next, Step

LEMMA UntouchedStep == TypeOK /\ Untouched /\ [Next]_vars => Untouched'
<1> SUFFICES ASSUME TypeOK, Untouched, [Next]_vars
             PROVE  Untouched'
  OBVIOUS
<1>1. ASSUME NEW d \in Downloads, Stream(d) PROVE Untouched'
  BY <1>1 DEF TypeOK, Untouched, Stream
<1>2. ASSUME NEW d \in Downloads, Create(d) PROVE Untouched'
  <2>1. CASE tmp = NoInode
    BY <1>2, <2>1 DEF TypeOK, Create, Untouched
  <2>2. CASE tmp # NoInode
    BY <1>2, <2>2 DEF TypeOK, Create, Untouched
  <2> QED
    BY <2>1, <2>2
<1>3. ASSUME NEW d \in Downloads, Copy(d) PROVE Untouched'
  BY <1>3 DEF TypeOK, Untouched, Copy
<1>4. ASSUME NEW d \in Downloads, Promote(d) PROVE Untouched'
  BY <1>4 DEF TypeOK, Untouched, Promote
<1>5. ASSUME NEW d \in Downloads, PromoteFails(d) PROVE Untouched'
  BY <1>5 DEF TypeOK, Untouched, PromoteFails
<1>6. ASSUME NEW d \in Downloads, Abort(d) PROVE Untouched'
  BY <1>6 DEF TypeOK, Untouched, Abort
<1>7. CASE UNCHANGED vars
  BY <1>7 DEF Untouched, vars
<1> QED
  BY <1>1, <1>2, <1>3, <1>4, <1>5, <1>6, <1>7 DEF Next, Step

\* The step of a download that neither writes nor creates, seen from an inode.
LEMMA FilledKept ==
  ASSUME NEW i, Filled(i), UNCHANGED <<content, fd, pos>>,
         \A e \in Downloads : pc'[e] = pc[e] \/ pc'[e] = "failed"
                               \/ (pc[e] = "copying" /\ pc'[e] = "done" /\ pos[e] = Size)
                               \/ (pc[e] = "idle" /\ pc'[e] = "streaming")
  PROVE  Filled(i)'
BY DEF Filled

LEMMA FilledStep ==
  ASSUME IInv, [Next]_vars
  PROVE  /\ tmp' # NoInode => Filled(tmp)'
         /\ dest' \notin {NoInode, Before} => Filled(dest)'
         /\ content'[Before] = Chunks
<1> USE DEF IInv
<1>1. ASSUME NEW d \in Downloads, Create(d)
      PROVE  /\ tmp' # NoInode => Filled(tmp)'
             /\ dest' \notin {NoInode, Before} => Filled(dest)'
             /\ content'[Before] = Chunks
  <2> DEFINE i == IF tmp = NoInode THEN d ELSE tmp
  <2>1. i \in Downloads /\ i # dest /\ tmp' = i /\ dest' = dest
    BY <1>1 DEF Create, TypeOK, Untouched
  <2>2. fd'[d] = i /\ pos'[d] = 0 /\ pc'[d] = "copying"
    BY <1>1 DEF Create, TypeOK, Untouched
  <2>3. Filled(tmp)'
    BY <2>1, <2>2 DEF Filled
  <2>4. \A j \in Inodes : j # i => content'[j] = content[j]
    BY <1>1 DEF Create, TypeOK
  <2>5. ASSUME dest \notin {NoInode, Before} PROVE Filled(dest)'
    <3>1. PICK e \in Downloads :
            /\ fd[e] = dest
            /\ 1 .. pos[e] \subseteq content[dest]
            /\ pc[e] = "copying" \/ pc[e] = "failed" \/ (pc[e] = "done" /\ pos[e] = Size)
      BY <2>5 DEF Filled
    <3>2. e # d
      BY <1>1, <3>1 DEF Create
    <3>3. fd'[e] = fd[e] /\ pos'[e] = pos[e] /\ pc'[e] = pc[e]
      BY <1>1, <3>2 DEF Create, TypeOK
    <3>4. content'[dest] = content[dest]
      BY <2>1, <2>4, <2>5 DEF TypeOK
    <3> QED
      BY <2>1, <3>1, <3>3, <3>4 DEF Filled
  <2>6. content'[Before] = Chunks
    BY <2>1, <2>4 DEF Inodes
  <2> QED
    BY <2>1, <2>3, <2>5, <2>6
<1>2. ASSUME NEW d \in Downloads, Copy(d)
      PROVE  /\ tmp' # NoInode => Filled(tmp)'
             /\ dest' \notin {NoInode, Before} => Filled(dest)'
             /\ content'[Before] = Chunks
  <2>1. tmp' = tmp /\ dest' = dest
    BY <1>2 DEF Copy
  <2>0. tmp \in Downloads \cup {NoInode} /\ dest \in Downloads \cup {NoInode, Before}
    BY DEF TypeOK, Inodes
  <2>2. \A i \in Downloads : Filled(i) => Filled(i)'
    BY <1>2, FilledStays
  <2>3. /\ tmp # NoInode => Filled(tmp)'
        /\ dest \notin {NoInode, Before} => Filled(dest)'
    BY <2>0, <2>1, <2>2 DEF Filled
  <2>4. fd[d] # Before
    BY <1>2 DEF TypeOK
  <2>5. content'[Before] = Chunks
    BY <1>2, <2>4 DEF Copy, TypeOK, Inodes
  <2> QED
    BY <2>1, <2>3, <2>5
<1>3. ASSUME NEW d \in Downloads, Stream(d) \/ PromoteFails(d) \/ Abort(d)
      PROVE  /\ tmp' # NoInode => Filled(tmp)'
             /\ dest' \notin {NoInode, Before} => Filled(dest)'
             /\ content'[Before] = Chunks
  <2>1. UNCHANGED <<tmp, dest, content, fd, pos>>
    BY <1>3 DEF Stream, PromoteFails, Abort
  <2>2. \A e \in Downloads : pc'[e] = pc[e] \/ pc'[e] = "failed"
                              \/ (pc[e] = "idle" /\ pc'[e] = "streaming")
    BY <1>3 DEF Stream, PromoteFails, Abort, TypeOK
  <2>3. \A j : Filled(j) => Filled(j)'
    BY <2>1, <2>2, FilledKept
  <2> QED
    BY <2>1, <2>3 DEF Filled
<1>4. ASSUME NEW d \in Downloads, Promote(d)
      PROVE  /\ tmp' # NoInode => Filled(tmp)'
             /\ dest' \notin {NoInode, Before} => Filled(dest)'
             /\ content'[Before] = Chunks
  <2>1. UNCHANGED <<content, fd, pos>> /\ tmp' = NoInode /\ dest' = tmp
    BY <1>4 DEF Promote
  <2>2. \A e \in Downloads : pc'[e] = pc[e]
                              \/ (pc[e] = "copying" /\ pc'[e] = "done" /\ pos[e] = Size)
    BY <1>4 DEF Promote, TypeOK
  <2>3. \A j : Filled(j) => Filled(j)'
    BY <2>1, <2>2, FilledKept
  <2>4. Filled(tmp)
    BY <1>4 DEF Promote
  <2> QED
    BY <2>1, <2>3, <2>4 DEF Filled
<1>5. CASE UNCHANGED vars
  BY <1>5 DEF vars, Filled
<1> QED
  BY <1>1, <1>2, <1>3, <1>4, <1>5 DEF Next, Step

LEMMA WriterStep ==
  ASSUME IInv, [Next]_vars
  PROVE  OneWriter' /\ (~overlap' => dest' = NoInode \/ Whole(dest)')
<1> USE DEF IInv
<1> SUFFICES ASSUME ~overlap'
             PROVE  /\ \A d \in Copying' : /\ Copying' = {d}
                                            /\ tmp' = fd'[d]
                                            /\ 1 .. pos'[d] \subseteq content'[tmp']
                    /\ dest' = NoInode \/ content'[dest'] = Chunks
  BY DEF OneWriter, Whole
<1>0. /\ ~overlap
      /\ \A d \in Copying : Copying = {d} /\ tmp = fd[d] /\ 1 .. pos[d] \subseteq content[tmp]
      /\ dest = NoInode \/ content[dest] = Chunks
  <2>1. overlap' = overlap \/ overlap' = (overlap \/ Copying # {})
    BY DEF Next, Step, Stream, Create, Copy, Promote, PromoteFails, Abort, vars
  <2>2. ~overlap
    BY <2>1
  <2> QED
    BY <2>2 DEF OneWriter, Whole
<1> DEFINE Goal == /\ \A d \in Copying' : /\ Copying' = {d}
                                           /\ tmp' = fd'[d]
                                           /\ 1 .. pos'[d] \subseteq content'[tmp']
                   /\ dest' = NoInode \/ content'[dest'] = Chunks
<1>1. ASSUME NEW d \in Downloads, Create(d) PROVE Goal
  <2>1. Copying = {}
    BY <1>1 DEF Create
  <2>2. Copying' = {d}
    BY <1>1, <2>1 DEF Create, Copying, TypeOK
  <2>3. tmp' = fd'[d] /\ pos'[d] = 0 /\ tmp' # dest
    BY <1>1 DEF Create, TypeOK, Untouched
  <2>4. dest # NoInode => content'[dest] = content[dest]
    BY <1>1, <2>3 DEF Create, TypeOK
  <2>5. dest' = dest
    BY <1>1 DEF Create
  <2> QED
    BY <1>0, <2>2, <2>3, <2>4, <2>5
<1>2. ASSUME NEW d \in Downloads, Copy(d) PROVE Goal
  <2>1. d \in Copying /\ Copying' = Copying
    BY <1>2 DEF Copy, Copying
  <2>2. Copying = {d} /\ tmp = fd[d] /\ 1 .. pos[d] \subseteq content[tmp]
    BY <1>0, <2>1
  <2>3. tmp' = tmp /\ dest' = dest /\ fd' = fd /\ pos'[d] = pos[d] + 1 /\ pos[d] \in Nat
    BY <1>2 DEF Copy, TypeOK
  <2>4. tmp \in Inodes /\ tmp # dest
    BY <1>2, <2>2 DEF Copy, TypeOK, Inodes
  <2>5. content'[tmp] = content[tmp] \cup {pos[d] + 1}
    BY <1>2, <2>2, <2>4 DEF Copy, TypeOK
  <2>6. 1 .. pos'[d] \subseteq content'[tmp]
    BY <2>2, <2>3, <2>5
  <2>7. dest # NoInode => content'[dest] = content[dest]
    BY <1>2, <2>2, <2>4 DEF Copy, TypeOK
  <2> QED
    BY <1>0, <2>1, <2>2, <2>3, <2>6, <2>7
<1>3. ASSUME NEW d \in Downloads, Stream(d) \/ PromoteFails(d) \/ Abort(d) PROVE Goal
  <2>1. UNCHANGED <<tmp, dest, content, fd, pos>>
    BY <1>3 DEF Stream, PromoteFails, Abort
  <2>2. Copying' \subseteq Copying
    BY <1>3 DEF Stream, PromoteFails, Abort, Copying, TypeOK
  <2> QED
    BY <1>0, <2>1, <2>2
<1>4. ASSUME NEW d \in Downloads, Promote(d) PROVE Goal
  <2>1. d \in Copying
    BY <1>4 DEF Promote, Copying
  <2>2. Copying = {d} /\ 1 .. Size \subseteq content[tmp]
    BY <1>0, <1>4, <2>1 DEF Promote
  <2>3. Copying' = {}
    BY <1>4, <2>2 DEF Promote, Copying, TypeOK
  <2>4. content[tmp] = Chunks
    BY <1>4, <2>2 DEF Promote, TypeOK, Chunks, Inodes
  <2> QED
    BY <1>4, <2>3, <2>4 DEF Promote
<1>5. CASE UNCHANGED vars
  BY <1>0, <1>5 DEF vars, Copying
<1> QED
  BY <1>1, <1>2, <1>3, <1>4, <1>5 DEF Next, Step

LEMMA StepInv == IInv /\ [Next]_vars => IInv'
BY TypeStep, UntouchedStep, FilledStep, WriterStep DEF IInv

LEMMA Invariant == Spec => []IInv
BY InitInv, StepInv, PTL DEF Spec

-----------------------------------------------------------------------------
\* Every state of any downloads is well formed, whatever they do to each other.
THEOREM TypeCorrect == Spec => []TypeOK
<1>1. IInv => TypeOK
  BY DEF IInv
<1> QED
  BY <1>1, Invariant, PTL

\* A file left torn (fetch/sidecar.go) is the work of overlapping downloads, one of
\* which was cut short while it wrote to what had become the file.
THEOREM TornFiles == Spec => []TornByAbort
<1>1. ASSUME IInv, AtRest, dest # NoInode, ~Whole(dest)
      PROVE  /\ overlap
             /\ \E d \in Downloads : pc[d] = "failed" /\ fd[d] = dest /\ pos[d] < Size
  <2>1. overlap
    BY <1>1 DEF IInv
  <2>2. dest # Before
    BY <1>1 DEF IInv, Whole
  <2>3. PICK d \in Downloads :
          /\ fd[d] = dest
          /\ 1 .. pos[d] \subseteq content[dest]
          /\ pc[d] = "copying" \/ pc[d] = "failed" \/ (pc[d] = "done" /\ pos[d] = Size)
    BY <1>1, <2>2 DEF IInv, Filled
  <2>4. content[dest] \subseteq Chunks /\ pos[d] \in 0 .. Size
    BY <1>1, <2>2 DEF IInv, TypeOK
  <2>5. pos[d] # Size
    BY <1>1, <2>3, <2>4 DEF Whole, Chunks
  <2>6. pc[d] = "failed" /\ pos[d] < Size
    BY <1>1, <2>3, <2>4, <2>5 DEF AtRest
  <2> QED
    BY <2>1, <2>3, <2>6
<1>2. IInv => TornByAbort
  BY <1>1 DEF TornByAbort
<1> QED
  BY <1>2, Invariant, PTL

-----------------------------------------------------------------------------
LEMMA RefineInit == Init => Abstract!Init
<1> SUFFICES ASSUME Init PROVE Abstract!Init
  OBVIOUS
<1>1. dest = Before => Whole(dest)
  BY DEF Init, Whole, Inodes
<1>2. Seen \in {"absent", "whole"}
  BY <1>1 DEF Init, Seen
<1> QED
  BY <1>2 DEF Init, Abstract!Init

\* Create is the step at which downloads begin to overlap, or invisible; Promote makes
\* the file appear; a write is invisible unless it is to a file that was renamed.
LEMMA RefineStep ==
  ASSUME IInv, IInv', [Next]_vars
  PROVE  [Abstract!Next]_(Abstract!vars)
<1> USE DEF Abstract!vars, Abstract!Next, Abstract!Appear, Abstract!Overlap, Abstract!Disturb
<1>0. /\ overlap \in BOOLEAN
      /\ ~overlap => Seen \in {"absent", "whole"}
      /\ dest # NoInode => Seen \in {"whole", "torn"}
      /\ dest' # NoInode => Seen' \in {"whole", "torn"}
      /\ ~overlap' => Seen' \in {"absent", "whole"}
  BY DEF IInv, TypeOK, Seen, Whole
<1>1. ASSUME NEW d \in Downloads, Create(d) PROVE UNCHANGED Seen
  <2>1. dest' = dest
    BY <1>1 DEF Create
  <2>2. dest # NoInode => content'[dest] = content[dest]
    BY <1>1 DEF Create, IInv, TypeOK, Untouched
  <2> QED
    BY <2>1, <2>2 DEF Seen, Whole
<1>2. ASSUME NEW d \in Downloads, Create(d) PROVE overlap' = overlap \/ overlap' = TRUE
  BY <1>0, <1>2 DEF Create
<1>3. ASSUME NEW d \in Downloads, Copy(d) PROVE [Abstract!Next]_(Abstract!vars)
  <2>1. dest' = dest /\ overlap' = overlap
    BY <1>3 DEF Copy
  <2>2. CASE overlap /\ dest # NoInode
    BY <1>0, <2>1, <2>2
  <2>3. CASE dest = NoInode
    BY <2>1, <2>3 DEF Seen
  <2>4. CASE ~overlap /\ dest # NoInode
    BY <1>0, <2>1, <2>4
  <2> QED
    BY <1>0, <2>2, <2>3, <2>4
<1>4. ASSUME NEW d \in Downloads, Promote(d) PROVE [Abstract!Next]_(Abstract!vars)
  <2>1. dest' # NoInode /\ overlap' = overlap
    BY <1>4 DEF Promote
  <2>2. Seen' = "whole" \/ overlap
    BY <1>0, <2>1
  <2> QED
    BY <1>0, <2>1, <2>2
<1>5. ASSUME NEW d \in Downloads, Stream(d) \/ PromoteFails(d) \/ Abort(d)
      PROVE  UNCHANGED <<Seen, overlap>>
  BY <1>5 DEF Stream, PromoteFails, Abort, Seen, Whole
<1>6. CASE UNCHANGED vars
  BY <1>6 DEF vars, Seen, Whole
<1> QED
  BY <1>1, <1>2, <1>3, <1>4, <1>5, <1>6 DEF Next, Step

\* DownloadSnapshotFile implements AtomicFile: without overlap a file appears under its
\* name as a whole, whatever fails and however often it is tried again.
THEOREM Refinement == Spec => ImplementsAtomicFile
<1>1. Init => Abstract!Init
  BY RefineInit
<1>2. IInv /\ IInv' /\ [Next]_vars => [Abstract!Next]_(Abstract!vars)
  BY RefineStep
<1> QED
  BY <1>1, <1>2, Invariant, PTL DEF Spec, ImplementsAtomicFile, Abstract!Spec
=============================================================================

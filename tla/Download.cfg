\* Three downloads of one file, after one another or at a time, failing at any step.
CONSTANTS
  Downloads = {d1, d2, d3}
  Size = 3
  Before = Before
  NoInode = NoInode
SPECIFICATION Spec
INVARIANTS TypeOK TornByAbort
PROPERTIES ImplementsAtomicFile
CHECK_DEADLOCK FALSE

---------------------------- MODULE FetchAdvice ----------------------------
(***************************************************************************)
(* ShouldFetchSnapshot (internal/fetch/fetch.go): from the snapshots of    *)
(* the local ledger and those the tracker offers, both best to worst, what *)
(* to do and down to which slot a remote snapshot is of use.               *)
(* Slots stay far below 2^63, so the int64 conversions are exact.          *)
(***************************************************************************)
EXTENDS Ledger

\* A full snapshot file with one hash among the files of both infos.
ShareFull(localFiles, remoteFiles) ==
  \E i \in DOMAIN localFiles, j \in DOMAIN remoteFiles :
    IsFull(localFiles[i]) /\ IsFull(remoteFiles[j]) /\ localFiles[i].hash = remoteFiles[j].hash

ShouldFetchSnapshot(local, remote, minAge, maxAge) ==
  LET theirs        == remote[1].info
      localSlot     == IF local = << >> THEN 0 ELSE local[1].slot
      localBaseSlot == IF local = << >> THEN 0 ELSE local[1].baseSlot
      minSlot       == IF maxAge < theirs.slot THEN theirs.slot - maxAge ELSE 0
      advice        ==
        CASE localBaseSlot < theirs.baseSlot -> "FetchFull"
          [] local # << >> /\ localBaseSlot = theirs.baseSlot ->
               IF ShareFull(local[1].files, theirs.files) THEN "FetchIncremental" ELSE "Fetch"
          [] OTHER -> "RemoteIsOlder"
  IN  IF remote = << >> THEN [advice |-> "NothingFound", minSlot |-> 0]
      ELSE IF theirs.slot - localSlot < minAge THEN [advice |-> "UpToDate", minSlot |-> 0]
      ELSE [advice |-> advice, minSlot |-> minSlot]
=============================================================================

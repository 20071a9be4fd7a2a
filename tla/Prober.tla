------------------------------- MODULE Prober -------------------------------
(***************************************************************************)
(* The tracker's prober (scraper/prober.go) against a node the files of    *)
(* which change under it.  For a sidecar it is one request, of Sidecar;    *)
(* for an HTTP target (http_targets) two HEAD requests one after the       *)
(* other, of which the answers may not fit together.                       *)
(***************************************************************************)
EXTENDS Sidecar, UrlListing

\* Probe in URL mode: probeURL begins.
ProbeUrl ==
  /\ pc = "idle"
  /\ requests < MaxRequests
  /\ requests' = requests + 1
  /\ kind' = "url"
  /\ wanted' = NoFile
  /\ pc' = "headfull"
  /\ found' = {}
  /\ response' = NoResponse
  /\ stable' = dir
  /\ seen' = dir
  /\ UNCHANGED <<dir, unstatted>>

\* headSnapshot(snapshot.tar.bz2): a redirect, or 404 (202) for none.
HeadFull ==
  /\ pc = "headfull"
  /\ found' = Redirect(dir, TRUE)
  /\ pc' = "headinc"
  /\ UNCHANGED <<dir, kind, wanted, unstatted, response, requests, stable, seen>>

\* headSnapshot(incremental-snapshot.tar.bz2), and the listing made of both answers.
HeadIncremental ==
  /\ pc = "headinc"
  /\ Reply(200, UrlInfos(found, Redirect(dir, FALSE)), NoFile)
  /\ UNCHANGED <<dir, kind, wanted, unstatted, found, requests, stable, seen>>

\* (mutant) An error of the second request is taken for "no incremental snapshot".
HeadFailsMildly ==
  /\ \/ pc = "headfull" /\ Reply(500, << >>, NoFile)
     \/ pc = "headinc" /\ Reply(200, UrlInfos(found, {}), NoFile)
  /\ UNCHANGED <<dir, kind, wanted, unstatted, found, requests, stable, seen>>

\* A request fails, or its answer is no redirect to a snapshot: so does the probe,
\* whatever the other one has brought.
HeadFails ==
  /\ pc \in {"headfull", "headinc"}
  /\ Reply(500, << >>, NoFile)
  /\ UNCHANGED <<dir, kind, wanted, unstatted, found, requests, stable, seen>>

Next == SidecarNext \/ ProbeUrl \/ HeadFull \/ HeadIncremental \/ HeadFails

Spec == Init /\ [][Next]_vars

-----------------------------------------------------------------------------
\* What a request or probe of a kind may be answered with, 0 being no answer yet.
CodesOf == [list |-> {0, 200, 500}, best |-> {0, 200, 202, 404, 500},
            name |-> {0, 200, 404, 500}, url |-> {0, 200, 500}]

\* A reply has a code of its kind of request, and a file or a listing only if it is the
\* success of a request for one.
TypeOK ==
  /\ dir \subseteq Universe
  /\ pc \in {"idle", "readdir", "stat", "open", "headfull", "headinc"}
  /\ kind \in {"list", "best", "name", "url"}
  /\ wanted \in Universe \cup {NoFile}
  /\ unstatted \subseteq Universe
  /\ found \subseteq Universe
  /\ response.code \in CodesOf[kind]
  /\ response.code = 200 /\ kind \in {"best", "name"} => response.file \in Universe
  /\ response.file # NoFile => response.code = 200 /\ kind \in {"best", "name"}
  /\ response.infos # << >> => response.code = 200 /\ kind \in {"list", "url"}
  /\ requests \in 0 .. MaxRequests
  /\ stable \subseteq dir
  /\ seen \subseteq Universe

UrlListed == pc = "idle" /\ kind = "url" /\ response.code = 200

\* What an HTTP target is listed with was there during the probe, the files of a
\* snapshot fit together, and a snapshot lacks its full file only if the target changed
\* under the probe: the full snapshot at its base was not the target's best throughout.
UrlListingFits ==
  UrlListed => \A i \in DOMAIN response.infos :
    LET info == response.infos[i]
        n    == Len(info.files)
    IN  /\ SeqRange(info.files) \subseteq seen
        /\ \A j \in 1 .. n - 1 : info.files[j].baseSlot = info.files[j + 1].slot
        /\ info.slot = info.files[1].slot
        /\ IsFull(info.files[n]) => info.baseSlot = info.files[n].slot
        /\ ~IsFull(info.files[n]) =>
             ~ \E b \in stable : /\ IsFull(b) /\ b.slot = info.files[n].baseSlot
                                 /\ b \in Redirect(seen, TRUE)

\* A probe that succeeds lists a full, and an incremental, snapshot at least as good
\* as every one that was there throughout: an answer is never dropped in silence.
UrlBestIsListed ==
  UrlListed => \A f \in stable : \E i \in DOMAIN response.infos :
    LET best == response.infos[i].files[1]
    IN  (IsFull(best) <=> IsFull(f)) /\ ~Better(f, best)
=============================================================================

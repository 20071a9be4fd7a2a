-------------------------- MODULE TrackerMainProofs --------------------------
(***************************************************************************)
(* Proofs about the tracker command: its type invariant, and that the      *)
(* result channel is closed, and a scraper panics, only on the way out.    *)
(***************************************************************************)
EXTENDS TrackerMain, TLAPS

\* A server is closed, and returns, for a signal or a failure only.
StoppedForAReason ==
  \A s \in Servers : closed[s] \/ server[s] = "returned" => stop \/ failure

\* The result channel outlives the servers, and nothing panics while it is open.
CollectorLast ==
  /\ collector = "closed" => \A s \in Servers : server[s] = "returned"
  /\ exit = "panic" => collector = "closed"

\* A scraper is one of a group that was loaded.
ScrapersLoaded == \A g \in Groups : scraper[g] # "none" => g \in loaded

IInv == TypeOK /\ StoppedForAReason /\ CollectorLast /\ ScrapersLoaded

LEMMA InitInv == Init => IInv
<1> SUFFICES ASSUME Init
             PROVE  IInv
  OBVIOUS
<1>1. Len(config) \in Nat /\ 1 \in 1 .. Len(config) + 1
  BY MainAssumption DEF Init
<1>2. ~stop /\ ~failure /\ stop \in BOOLEAN /\ failure \in BOOLEAN /\ ctx = "live"
  BY DEF Init
<1>3. /\ server \in [Servers -> {"new", "starting", "serving", "returned"}]
      /\ closed \in [Servers -> BOOLEAN]
      /\ reload \in [Reloads -> {"none", "blocked", "taken", "dropped"}]
      /\ scraper \in [Groups -> {"none", "running", "sending"}]
  BY DEF Init
<1>4. TypeOK
  BY <1>1, <1>2, <1>3 DEF Init, TypeOK
<1>5. StoppedForAReason /\ CollectorLast /\ ScrapersLoaded
  BY DEF Init, StoppedForAReason, CollectorLast, ScrapersLoaded
<1> QED
  BY <1>4, <1>5 DEF IInv

-----------------------------------------------------------------------------
(***************************************************************************)
(* The steps, by the part of the state they change.                        *)
(***************************************************************************)
ServerStep(s) == \/ StartServer(s) \/ Listen(s) \/ ServerFails(s)
                 \/ CloseServer(s) \/ ServerReturns(s)

LEMMA ServerSteps ==
  ASSUME IInv, NEW s \in Servers, ServerStep(s)
  PROVE  IInv'
<1> USE DEF IInv
<1>1. UNCHANGED <<config, main, stop, queue, reload, loaded, next, scraper, tracked,
                  collector, exit>>
  BY DEF ServerStep, StartServer, Listen, ServerFails, CloseServer, ServerReturns,
         reloading, scraping
<1>2. /\ server' \in [Servers -> {"new", "starting", "serving", "returned"}]
      /\ closed' \in [Servers -> BOOLEAN] /\ failure' \in BOOLEAN
      /\ ctx' \in {"live", "done"} /\ (ctx' = "done" <=> stop \/ failure')
      /\ failure => failure'
  <2>1. server' \in [Servers -> {"new", "starting", "serving", "returned"}]
    BY DEF TypeOK, ServerStep, StartServer, Listen, ServerFails, CloseServer, ServerReturns
  <2>2. closed' \in [Servers -> BOOLEAN]
    BY DEF TypeOK, ServerStep, StartServer, Listen, ServerFails, CloseServer, ServerReturns
  <2>3. \/ failure' = TRUE /\ ctx' = "done"
        \/ UNCHANGED <<failure, ctx>>
    BY DEF ServerStep, StartServer, Listen, ServerFails, CloseServer, ServerReturns
  <2>4. /\ failure' \in BOOLEAN /\ ctx' \in {"live", "done"} /\ (failure => failure')
        /\ ctx' = "done" <=> stop \/ failure'
    <3>1. CASE failure' = TRUE /\ ctx' = "done"
      BY <3>1, Zenon
    <3>2. CASE UNCHANGED <<failure, ctx>>
      BY <3>2, Zenon DEF TypeOK
    <3> QED
      BY <2>3, <3>1, <3>2
  <2> QED
    BY <2>1, <2>2, <2>4
<1>3. \A t \in Servers : /\ server[t] = "returned" => server'[t] = "returned"
                         /\ closed'[t] \/ server'[t] = "returned" => stop \/ failure'
  BY DEF TypeOK, StoppedForAReason, ServerStep, StartServer, Listen, ServerFails,
         CloseServer, ServerReturns
<1>4. TypeOK'
  BY <1>1, <1>2 DEF TypeOK, Groups
<1>5. StoppedForAReason' /\ CollectorLast' /\ ScrapersLoaded'
  BY <1>1, <1>3 DEF StoppedForAReason, CollectorLast, ScrapersLoaded, Groups
<1> QED
  BY <1>4, <1>5

\* Signals and reloads.
LEMMA RequestSteps ==
  ASSUME IInv, Signal \/ \E r \in Reloads : PostReload(r) \/ HangUp(r)
  PROVE  IInv'
<1> USE DEF IInv
<1>1. UNCHANGED <<config, main, server, closed, failure, loaded, next, scraper, tracked,
                  collector, exit>>
  BY DEF Signal, PostReload, HangUp, servers, reloading, scraping
<1>2. /\ stop' \in BOOLEAN /\ (stop => stop')
      /\ ctx' \in {"live", "done"} /\ (ctx' = "done" <=> stop' \/ failure)
      /\ queue' \in 0 .. 1
      /\ reload' \in [Reloads -> {"none", "blocked", "taken", "dropped"}]
  <2>1. \/ stop' = TRUE /\ ctx' = "done"
        \/ UNCHANGED <<stop, ctx>>
    BY DEF Signal, PostReload, HangUp, servers
  <2>2. /\ stop' \in BOOLEAN /\ (stop => stop') /\ ctx' \in {"live", "done"}
        /\ ctx' = "done" <=> stop' \/ failure
    <3>1. CASE stop' = TRUE /\ ctx' = "done"
      BY <3>1, Zenon
    <3>2. CASE UNCHANGED <<stop, ctx>>
      BY <3>2, Zenon DEF TypeOK
    <3> QED
      BY <2>1, <3>1, <3>2
  <2>3. queue' \in 0 .. 1
    BY DEF TypeOK, Signal, PostReload, HangUp, reloading
  <2>4. reload' \in [Reloads -> {"none", "blocked", "taken", "dropped"}]
    BY DEF TypeOK, Signal, PostReload, HangUp, reloading
  <2> QED
    BY <2>2, <2>3, <2>4
<1>3. TypeOK'
  BY <1>1, <1>2 DEF TypeOK, Groups
<1>4. StoppedForAReason' /\ CollectorLast' /\ ScrapersLoaded'
  BY <1>1, <1>2 DEF StoppedForAReason, CollectorLast, ScrapersLoaded, Groups
<1> QED
  BY <1>3, <1>4

MainStep == \/ LoadConfig \/ LoadFails \/ LoadGroup \/ StartScrapers
            \/ CloseCollector \/ Exit

LEMMA MainSteps ==
  ASSUME IInv, MainStep
  PROVE  IInv'
<1> USE DEF IInv
<1>1. UNCHANGED <<config, server, closed, ctx, failure, stop, queue, reload, tracked>>
  BY DEF MainStep, LoadConfig, LoadFails, LoadGroup, StartScrapers, CloseCollector, Exit,
         servers, reloading, scraping
<1>2. /\ main' \in {"servers", "update", "wait", "closed", "exited"}
      /\ collector' \in {"open", "closed"}
      /\ exit' \in {"none", "ok", "fatal", "panic"} /\ (exit' # "none" <=> main' = "exited")
  BY DEF TypeOK, MainStep, LoadConfig, LoadFails, LoadGroup, StartScrapers,
         CloseCollector, Exit, Alive
<1>3. loaded' \subseteq Groups /\ loaded \subseteq loaded' /\ next' \in 1 .. Len(config) + 1
  <2>1. Len(config) \in Nat /\ Groups = 1 .. Len(config)
    BY MainAssumption DEF TypeOK, Groups
  <2>2. CASE LoadGroup
    BY <2>1, <2>2 DEF TypeOK, LoadGroup
  <2>3. CASE ~LoadGroup
    BY <2>3 DEF TypeOK, MainStep, LoadConfig, LoadFails, StartScrapers, CloseCollector,
                Exit, scraping
  <2> QED
    BY <2>2, <2>3
<1>4. /\ scraper' \in [Groups -> {"none", "running", "sending"}]
      /\ \A g \in Groups : scraper'[g] # "none" => g \in loaded'
  <2>1. CASE StartScrapers
    BY <2>1 DEF StartScrapers
  <2>2. CASE ~StartScrapers
    <3>1. scraper' = scraper
      BY <2>2 DEF MainStep, LoadConfig, LoadFails, LoadGroup, CloseCollector, Exit, scraping
    <3> QED
      BY <1>3, <3>1 DEF TypeOK, ScrapersLoaded
  <2> QED
    BY <2>1, <2>2
<1>5. TypeOK'
  BY <1>1, <1>2, <1>3, <1>4 DEF TypeOK, Groups
<1>6. CollectorLast'
  BY <1>1 DEF TypeOK, CollectorLast, MainStep, LoadConfig, LoadFails, LoadGroup,
              StartScrapers, CloseCollector, Exit, Alive
<1>7. StoppedForAReason' /\ ScrapersLoaded'
  BY <1>1, <1>4 DEF StoppedForAReason, ScrapersLoaded, Groups
<1> QED
  BY <1>5, <1>6, <1>7

LEMMA ScraperSteps ==
  ASSUME IInv, NEW g \in Groups, Probe(g) \/ Collect(g) \/ Panic(g)
  PROVE  IInv'
<1> USE DEF IInv
<1>1. UNCHANGED <<config, server, closed, ctx, failure, stop, queue, reload, loaded, next,
                  collector>>
  BY DEF Probe, Collect, Panic, servers, reloading, scraping
<1>2. /\ main' \in {"servers", "update", "wait", "closed", "exited"}
      /\ exit' \in {"none", "ok", "fatal", "panic"} /\ (exit' # "none" <=> main' = "exited")
      /\ exit' = "panic" => collector = "closed"
  BY DEF TypeOK, CollectorLast, Probe, Collect, Panic
<1>3. /\ scraper' \in [Groups -> {"none", "running", "sending"}]
      /\ tracked' \subseteq loaded
      /\ \A h \in Groups : scraper'[h] # "none" => h \in loaded
  BY DEF TypeOK, ScrapersLoaded, Probe, Collect, Panic, scraping
<1>4. TypeOK'
  BY <1>1, <1>2, <1>3 DEF TypeOK, Groups
<1>5. StoppedForAReason' /\ CollectorLast' /\ ScrapersLoaded'
  BY <1>1, <1>2, <1>3 DEF StoppedForAReason, CollectorLast, ScrapersLoaded, Groups
<1> QED
  BY <1>4, <1>5

LEMMA Invariance == Spec => []IInv
<1>1. Init => IInv
  BY InitInv
<1>2. IInv /\ [Next]_vars => IInv'
  <2> SUFFICES ASSUME IInv, [Next]_vars
               PROVE  IInv'
    OBVIOUS
  <2>1. CASE UNCHANGED vars
    BY <2>1 DEF IInv, TypeOK, Groups, StoppedForAReason, CollectorLast, ScrapersLoaded,
                vars, servers, reloading, scraping
  <2>2. CASE Next
    <3>1. CASE \E s \in Servers : ServerStep(s)
      BY <3>1, ServerSteps
    <3>2. CASE Signal \/ \E r \in Reloads : PostReload(r) \/ HangUp(r)
      BY <3>2, RequestSteps
    <3>3. CASE MainStep
      BY <3>3, MainSteps
    <3>4. CASE \E g \in Groups : Probe(g) \/ Collect(g) \/ Panic(g)
      BY <3>4, ScraperSteps
    <3> QED
      BY <2>2, <3>1, <3>2, <3>3, <3>4 DEF Next, ServerStep, MainStep
  <2> QED
    BY <2>1, <2>2
<1> QED
  BY <1>1, <1>2, PTL DEF Spec

\* The tracker command keeps its types: what is tracked was loaded, at most one request
\* to reload waits in the channel, and the process ends when run is over, not before.
THEOREM TypeCorrect == Spec => []TypeOK
<1>1. IInv => TypeOK
  BY DEF IInv
<1> QED
  BY <1>1, Invariance, PTL

\* The result channel is closed under running scrapers, which then may panic, only when
\* both servers have returned, for a signal or a failure.
THEOREM PanicsLate == Spec => []PanicsOnlyOnTheWayOut
<1>1. IInv => PanicsOnlyOnTheWayOut
  BY MainAssumption DEF IInv, StoppedForAReason, CollectorLast, PanicsOnlyOnTheWayOut
<1> QED
  BY <1>1, Invariance, PTL
=============================================================================

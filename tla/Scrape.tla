------------------------------- MODULE Scrape -------------------------------
(***************************************************************************)
(* The tracker's scraping pipeline: internal/scraper.  Every target group  *)
(* has a Scraper whose run loop starts a scrape round on each tick of its  *)
(* interval and cancels the context of the round before.  A round asks the *)
(* discoverer for targets and probes each in a goroutine of its own; the   *)
(* goroutine stamps its result and sends it on one unbuffered channel.     *)
(* The Collector receives results and replaces the target's rows of the    *)
(* index, in two transactions.                                             *)
(*                                                                         *)
(* Time is an integer clock.  What each target serves at each time is      *)
(* chosen at the start (plan), so the history the properties speak of      *)
(* needs no variable of its own.                                           *)
(***************************************************************************)
EXTENDS SnapshotIndex

CONSTANTS
  Scrapers,      \* the scrapers a Manager started, one per target group
  GroupOf,       \* the group name of a scraper
  Discoveries,   \* the target sets a scraper's discoverer may return
  Rounds,        \* bound: scrape rounds of one scraper that overlap in time
  Listings,      \* replies to ListSnapshots: sequences of infos
  Down,          \* a target that does not answer; the outcome of a failed probe
  MaxTime,       \* bound on the clock
  Plans,         \* the histories of the targets considered
  Shutdown       \* whether scrapers and collector may be closed

Times == 0 .. MaxTime

ASSUME ScrapeAssumption ==
  /\ MaxTime \in Nat
  /\ GroupOf \in [Scrapers -> Groups]
  /\ Discoveries \in [Scrapers -> SUBSET SUBSET Targets]
  /\ Rounds # {}
  /\ \A l \in Listings : l \in Seq(Infos)
  /\ Down \notin Listings
  /\ Plans \subseteq [Targets -> [Times -> Listings \cup {Down}]]
  /\ Shutdown \in BOOLEAN

VARIABLES
  plan,          \* plan[t][n]: what target t serves at time n
  clock,
  status,        \* of a scraper: its run loop and its root context
  cur,           \* the round whose context the run loop has not cancelled
  discovering,   \* the rounds of a scraper that wait for its discoverer
  probe,         \* probe[s][k][t]: the goroutine of round k for target t
  pending,       \* the result between the collector's two transactions
  channel,       \* the result channel
  panicked,      \* the process died of a panic
  db             \* the snapshot table

vars == <<plan, clock, status, cur, discovering, probe, pending, channel, panicked, db>>

\* Every result a probe goroutine can hold; reply is Down for an error.
Probes == [pc : {"idle", "probing", "answered", "sending"},
           reply : Listings \cup {Down}, time : Times]

IdleProbe == [pc |-> "idle", reply |-> Down, time |-> 0]

Results == [group : Groups, target : Targets, infos : Listings, time : Times]

NoResult == [group |-> AnyGroup]

Init ==
  /\ plan \in Plans
  /\ clock = 0
  /\ status = [s \in Scrapers |-> "new"]
  /\ cur = [s \in Scrapers |-> CHOOSE k \in Rounds : TRUE]
  /\ discovering = [s \in Scrapers |-> {}]
  /\ probe = [s \in Scrapers |-> [k \in Rounds |-> [t \in Targets |-> IdleProbe]]]
  /\ pending = NoResult
  /\ channel = "open"
  /\ panicked = FALSE
  /\ db = {}

-----------------------------------------------------------------------------
\* The run loop.

\* The context of round k of s has not been cancelled.
Live(s, k) == status[s] = "running" /\ cur[s] = k

\* All goroutines of round k have returned (its WaitGroup is at zero).
Finished(s, k) ==
  /\ k \notin discovering[s]
  /\ \A t \in Targets : probe[s][k][t].pc = "idle"

FreeRounds(s) == { k \in Rounds : Finished(s, k) }

\* The loop body up to its select: a fresh context and a scrape goroutine.
BeginRound(s) ==
  /\ FreeRounds(s) # {}
  /\ LET k == CHOOSE k \in FreeRounds(s) : TRUE
     IN  /\ cur' = [cur EXCEPT ![s] = k]
         /\ discovering' = [discovering EXCEPT ![s] = @ \cup {k}]

Start(s) ==
  /\ status[s] = "new"
  /\ status' = [status EXCEPT ![s] = "running"]
  /\ BeginRound(s)
  /\ UNCHANGED <<plan, clock, probe, pending, channel, panicked, db>>

\* The ticker fires: the previous context is cancelled and the next round
\* starts, finished or not.  A select with both channels ready may also take
\* the tick after the root context was cancelled.
Tick(s) ==
  /\ status[s] \in {"running", "cancelled"}
  /\ BeginRound(s)
  /\ UNCHANGED <<plan, clock, status, probe, pending, channel, panicked, db>>

\* Scraper.Close, first half: cancel the root context ...
Close(s) ==
  /\ Shutdown
  /\ status[s] = "running"
  /\ status' = [status EXCEPT ![s] = "cancelled"]
  /\ UNCHANGED <<plan, clock, cur, discovering, probe, pending, channel, panicked, db>>

\* ... and its return, when run has taken the Done branch.
RunReturns(s) ==
  /\ status[s] = "cancelled"
  /\ status' = [status EXCEPT ![s] = "stopped"]
  /\ UNCHANGED <<plan, clock, cur, discovering, probe, pending, channel, panicked, db>>

-----------------------------------------------------------------------------
\* A scrape round.

\* The discoverer returns T and a goroutine is started for each of its members.
\* A discovery that failed is one that found nothing: the round is over.
Discover(s, k, T) ==
  /\ k \in discovering[s]
  /\ discovering' = [discovering EXCEPT ![s] = @ \ {k}]
  /\ probe' = [probe EXCEPT ![s][k] =
                 [t \in Targets |-> IF t \in T THEN [IdleProbe EXCEPT !.pc = "probing"]
                                               ELSE @[t]]]
  /\ UNCHANGED <<plan, clock, status, cur, pending, channel, panicked, db>>

SetProbe(s, k, t, p) == probe' = [probe EXCEPT ![s][k][t] = p]

\* The target composes its reply and the request's context is still live.
Answer(s, k, t) ==
  /\ probe[s][k][t].pc = "probing"
  /\ Live(s, k)
  /\ plan[t][clock] # Down
  /\ SetProbe(s, k, t, [pc |-> "answered", reply |-> plan[t][clock], time |-> 0])
  /\ UNCHANGED <<plan, clock, status, cur, discovering, pending, channel, panicked, db>>

\* (mutant) The result is not stamped.
ReturnUnstamped(s, k, t) ==
  /\ probe[s][k][t].pc = "answered"
  /\ SetProbe(s, k, t, [pc |-> "sending", reply |-> probe[s][k][t].reply, time |-> 0])
  /\ UNCHANGED <<plan, clock, status, cur, discovering, pending, channel, panicked, db>>

\* Probe returns the reply; the result is stamped with the time of now.
Return(s, k, t) ==
  /\ probe[s][k][t].pc = "answered"
  /\ SetProbe(s, k, t, [pc |-> "sending", reply |-> probe[s][k][t].reply, time |-> clock])
  /\ UNCHANGED <<plan, clock, status, cur, discovering, pending, channel, panicked, db>>

\* (mutant) The probe does not hear of the cancellation.
FailDeaf(s, k, t) ==
  /\ probe[s][k][t].pc \in {"probing", "answered"}
  /\ plan[t][clock] = Down
  /\ SetProbe(s, k, t, [pc |-> "sending", reply |-> Down, time |-> clock])
  /\ UNCHANGED <<plan, clock, status, cur, discovering, pending, channel, panicked, db>>

\* Probe returns an error: the context was cancelled or the target is down.
Fail(s, k, t) ==
  /\ probe[s][k][t].pc \in {"probing", "answered"}
  /\ ~Live(s, k) \/ plan[t][clock] = Down
  /\ SetProbe(s, k, t, [pc |-> "sending", reply |-> Down, time |-> clock])
  /\ UNCHANGED <<plan, clock, status, cur, discovering, pending, channel, panicked, db>>

-----------------------------------------------------------------------------
\* The collector.

ResultOf(s, t, p) ==
  [group |-> GroupOf[s], target |-> t, infos |-> p.reply, time |-> p.time]

\* (mutants) The old rows are not deleted; an error blocks; an empty listing is
\* taken for an error.
CollectKeepsRows(s, k, t) ==
  /\ channel = "open"
  /\ pending = NoResult
  /\ probe[s][k][t].pc = "sending"
  /\ SetProbe(s, k, t, IdleProbe)
  /\ pending' = IF probe[s][k][t].reply = Down THEN NoResult
                ELSE ResultOf(s, t, probe[s][k][t])
  /\ UNCHANGED <<plan, clock, status, cur, discovering, channel, panicked, db>>

CollectNoError(s, k, t) ==
  /\ channel = "open"
  /\ pending = NoResult
  /\ probe[s][k][t].pc = "sending" /\ probe[s][k][t].reply # Down
  /\ SetProbe(s, k, t, IdleProbe)
  /\ pending' = ResultOf(s, t, probe[s][k][t])
  /\ db' = DeleteSnapshotsByTarget(db, GroupOf[s], t)
  /\ UNCHANGED <<plan, clock, status, cur, discovering, channel, panicked>>

CollectDropsEmpty(s, k, t) ==
  /\ channel = "open"
  /\ pending = NoResult
  /\ probe[s][k][t].pc = "sending"
  /\ SetProbe(s, k, t, IdleProbe)
  /\ \/ /\ probe[s][k][t].reply \in {Down, << >>}
        /\ UNCHANGED <<pending, db>>
     \/ /\ probe[s][k][t].reply \notin {Down, << >>}
        /\ pending' = ResultOf(s, t, probe[s][k][t])
        /\ db' = DeleteSnapshotsByTarget(db, GroupOf[s], t)
  /\ UNCHANGED <<plan, clock, status, cur, discovering, channel, panicked>>

\* One turn of the range loop up to the end of the first transaction: an error
\* is logged and forgotten, otherwise the rows of the target are deleted.
Collect(s, k, t) ==
  /\ channel = "open"
  /\ pending = NoResult
  /\ probe[s][k][t].pc = "sending"
  /\ SetProbe(s, k, t, IdleProbe)
  /\ \/ /\ probe[s][k][t].reply = Down
        /\ UNCHANGED <<pending, db>>
     \/ /\ probe[s][k][t].reply # Down
        /\ pending' = ResultOf(s, t, probe[s][k][t])
        /\ db' = DeleteSnapshotsByTarget(db, GroupOf[s], t)
  /\ UNCHANGED <<plan, clock, status, cur, discovering, channel, panicked>>

\* The second transaction, and the end of the turn.
Upsert ==
  /\ pending # NoResult
  /\ db' = UpsertSnapshots(db, EntriesOf(pending.group, pending.target,
                                    pending.infos, pending.time))
  /\ pending' = NoResult
  /\ UNCHANGED <<plan, clock, status, cur, discovering, probe, channel, panicked>>

CloseCollector ==
  /\ Shutdown
  /\ channel = "open"
  /\ channel' = "closed"
  /\ UNCHANGED <<plan, clock, status, cur, discovering, probe, pending, panicked, db>>

\* A send on the closed channel, begun before or after it was closed.
SendOnClosed(s, k, t) ==
  /\ channel = "closed"
  /\ probe[s][k][t].pc = "sending"
  /\ panicked' = TRUE
  /\ UNCHANGED <<plan, clock, status, cur, discovering, probe, pending, channel, db>>

-----------------------------------------------------------------------------
Advance ==
  /\ clock < MaxTime
  /\ clock' = clock + 1
  /\ UNCHANGED <<plan, status, cur, discovering, probe, pending, channel, panicked, db>>

ScraperStep(s) ==
  \/ Start(s)
  \/ Tick(s)
  \/ Close(s)
  \/ RunReturns(s)

RoundStep(s, k) ==
  \/ \E T \in Discoveries[s] : Discover(s, k, T)
  \/ \E t \in Targets :
       \/ Answer(s, k, t)
       \/ Return(s, k, t)
       \/ Fail(s, k, t)
       \/ Collect(s, k, t)
       \/ SendOnClosed(s, k, t)

Next ==
  /\ ~panicked
  /\ \/ \E s \in Scrapers : ScraperStep(s) \/ \E k \in Rounds : RoundStep(s, k)
     \/ Upsert
     \/ CloseCollector
     \/ Advance

Spec == Init /\ [][Next]_vars

-----------------------------------------------------------------------------
(***************************************************************************)
(* Fairness.  Goroutines that can run do run, the ticker ticks, requests   *)
(* of a cancelled context return.  Strong fairness says three more things: *)
(* again and again an interval is long enough for the discoverer to return *)
(* a target it has not lost for good, and for that target, if it is up, to *)
(* answer; and a sender waiting on the channel is received in the end, as  *)
(* go queues waiting senders first in, first out.                          *)
(***************************************************************************)
ScraperFairness(s) ==
  /\ WF_vars(~panicked /\ Start(s))
  /\ WF_vars(~panicked /\ Tick(s))
  /\ WF_vars(~panicked /\ RunReturns(s))

ProbeFairness(s, t) ==
  /\ SF_vars(~panicked /\ \E k \in Rounds : \E T \in Discoveries[s] :
               t \in T /\ Live(s, k) /\ Discover(s, k, T))
  /\ \A k \in Rounds : WF_vars(~panicked /\ \E T \in Discoveries[s] : Discover(s, k, T))
  /\ SF_vars(~panicked /\ \E k \in Rounds : Answer(s, k, t))
  /\ SF_vars(~panicked /\ \E k \in Rounds : Return(s, k, t))
  /\ \A k \in Rounds : /\ WF_vars(~panicked /\ (Return(s, k, t) \/ Fail(s, k, t)))
                       /\ SF_vars(~panicked /\ Collect(s, k, t))

Fairness ==
  /\ \A s \in Scrapers : /\ ScraperFairness(s)
                         /\ \A t \in Targets : ProbeFairness(s, t)
  /\ WF_vars(~panicked /\ Upsert)
  /\ WF_vars(~panicked /\ Advance)

FairSpec == Spec /\ Fairness

-----------------------------------------------------------------------------
TypeOK ==
  /\ plan \in Plans
  /\ clock \in Times
  /\ status \in [Scrapers -> {"new", "running", "cancelled", "stopped"}]
  /\ cur \in [Scrapers -> Rounds]
  /\ discovering \in [Scrapers -> SUBSET Rounds]
  /\ probe \in [Scrapers -> [Rounds -> [Targets -> Probes]]]
  /\ pending \in Results \cup {NoResult}
  /\ channel \in {"open", "closed"}
  /\ panicked \in BOOLEAN
  /\ db \subseteq EntriesAt(Times)

\* The pipeline as the index TrackerView promises its readers; the gap of the view
\* is the target between the collector's two transactions.
View == INSTANCE TrackerView WITH
          gap <- IF pending = NoResult THEN NoResult
                 ELSE [group |-> pending.group, target |-> pending.target]

\* At every moment, between the collector's two transactions too and however
\* the rounds of the scrapers overlap, a reader sees of a target either nothing
\* or one listing which the target really served, whole, not mixed with rows of
\* an earlier one, and served no later than the UpdatedAt the rows carry.
WholeListing ==
  \A g \in Groups, t \in Targets :
    \/ RowsOf(db, g, t) = {}
    \/ \E l \in Listings, n \in 0 .. clock :
         View!ServedBy(t, l, n) /\ RowsOf(db, g, t) = Image(g, t, l, n)

\* The primary index stays unique (the "id" index of schema.go).
UniqueIds == UniqueIdsOf(db)

\* What a probe brings to the channel is taken by the collector as long as that
\* is open: no result, an error least of all, blocks the goroutines behind it.
EveryResultTaken ==
  \A s \in Scrapers, k \in Rounds, t \in Targets :
    [](channel = "open") =>
      ((probe[s][k][t].pc = "sending") ~> (probe[s][k][t].pc # "sending"))

\* After the scrapers have been closed, with the collector still open, every
\* goroutine of theirs ends and the index comes to rest: the round that was under
\* way is in no wait group of Close, but it does not leak.
ClosedGoesQuiet ==
  []( (\A s \in Scrapers : status[s] = "stopped") /\ channel = "open" =>
        <>(\/ channel = "closed"
           \/ /\ pending = NoResult
              /\ \A s \in Scrapers, k \in Rounds : Finished(s, k)) )

TargetsOf(s) == UNION Discoveries[s]

Contents(rows) == { [key |-> e.key, info |-> e.info] : e \in rows }

\* The rows of t are those of listing l.
Shows(g, t, l) == Contents(RowsOf(db, g, t)) = Contents(Image(g, t, l, MaxTime))

\* A target that stays up and that a running scraper knows ends up indexed with
\* what it serves: again and again exactly that, and from some time on never
\* anything older, though results of cancelled rounds still arrive.
EventuallyTracked ==
  \A s \in Scrapers : \A t \in TargetsOf(s) : \A l \in Listings :
    LET g == GroupOf[s]
    IN  (plan[t][MaxTime] = l /\ [](status[s] \in {"new", "running"} /\ channel = "open"))
          => /\ []<>Shows(g, t, l)
             /\ <>[](Shows(g, t, l) \/ RowsOf(db, g, t) = {})

\* Replacing a target's rows, in two transactions and with rounds that overlap,
\* is one step of what TrackerView promises its readers or invisible to them.
ImplementsView == View!Spec
=============================================================================

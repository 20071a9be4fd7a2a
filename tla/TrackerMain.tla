----------------------------- MODULE TrackerMain -----------------------------
(***************************************************************************)
(* The tracker command (internal/cmd/tracker/tracker.go) from its start to *)
(* its exit: two HTTP servers in an errgroup, each with a goroutine that   *)
(* closes it when the group's context is done; signals and POST /reload,   *)
(* both of which go to a channel of capacity one that nobody receives      *)
(* from; the configuration, of which each target group becomes a scraper   *)
(* (internal/scraper/manager.go); the result channel, closed on the way    *)
(* out while the scrapers run on.  What a scraper does is module Scrape;   *)
(* here it sends results as long as it lives.                              *)
(***************************************************************************)
EXTENDS Naturals, Sequences

CONSTANTS
  Servers,     \* the internal server and the public one
  Internal,    \* the one that serves POST /reload
  Reloads,     \* the requests made to it, SIGHUP included
  SigHup,      \* of these, the ones that are signals
  MaxGroups,   \* bound on the target groups
  Configs      \* the configurations: sequences of target groups

ASSUME MainAssumption ==
  /\ Internal \in Servers /\ SigHup \subseteq Reloads
  /\ MaxGroups \in Nat
  /\ \A c \in Configs : Len(c) \in 0 .. MaxGroups /\ DOMAIN c = 1 .. Len(c)

VARIABLES
  config,      \* the target groups of the configuration file
  main,        \* of run: servers, load, update, start, wait, closed, exited
  server,      \* of a server: new, starting, serving, returned
  closed,      \* Server.Close was called
  stop,        \* SIGINT or SIGTERM came
  ctx,         \* the errgroup's context: live, done
  failure,     \* a server returned an error
  queue,       \* the length of the reload channel
  reload,      \* of a reload: none, blocked, taken, dropped
  loaded,      \* the groups loadGroup has made a scraper of
  next,        \* the group Update looks at
  scraper,     \* of a group: none, running, sending a result
  tracked,     \* the groups of which a listing has reached the collector
  collector,   \* the result channel: open, closed
  exit         \* none, ok, fatal, panic

servers == <<server, closed, ctx, failure>>
reloading == <<queue, reload>>
scraping == <<loaded, next, scraper, tracked>>
vars == <<config, main, servers, stop, reloading, scraping, collector, exit>>

Groups == DOMAIN config

Init ==
  /\ config \in Configs
  /\ main = "servers"
  /\ server = [s \in Servers |-> "new"]
  /\ closed = [s \in Servers |-> FALSE]
  /\ stop = FALSE /\ ctx = "live" /\ failure = FALSE
  /\ queue = 0
  /\ reload = [r \in Reloads |-> "none"]
  /\ loaded = {} /\ next = 1
  /\ scraper = [g \in Groups |-> "none"]
  /\ tracked = {}
  /\ collector = "open"
  /\ exit = "none"

Alive == exit = "none"

-----------------------------------------------------------------------------
\* Target groups: the backends a group names and whether the rest of it (TLS files,
\* credentials) is in order.

Backends == {"static", "file", "consul", "http"}

\* discovery.NewFromConfig: the first backend named, in this order.
Order == << "static", "file", "consul", "http" >>
Discoverer(group) ==
  LET named == SelectSeq(Order, LAMBDA b : b \in group.backends)
  IN  IF named = << >> THEN "none" ELSE named[1]

\* The prober takes targets for URLs as soon as http targets are named.
UrlMode(group) == "http" \in group.backends

Loads(group) == Discoverer(group) # "none" /\ group.sound

\* The prober asks the targets for what they are: URLs come from http targets only.
Fits(group) == UrlMode(group) <=> Discoverer(group) = "http"

-----------------------------------------------------------------------------
\* Servers.

\* runGroupServer starts the goroutine of a server.
StartServer(s) ==
  /\ Alive /\ main = "servers" /\ server[s] = "new"
  /\ server' = [server EXCEPT ![s] = "starting"]
  /\ UNCHANGED <<config, main, closed, stop, ctx, failure, reloading, scraping, collector, exit>>

\* ListenAndServe listens, unless the server has been closed already.
Listen(s) ==
  /\ Alive /\ server[s] = "starting" /\ ~closed[s]
  /\ server' = [server EXCEPT ![s] = "serving"]
  /\ UNCHANGED <<config, main, closed, stop, ctx, failure, reloading, scraping, collector, exit>>

\* It cannot listen, or stops accepting: the error ends the group's context.
ServerFails(s) ==
  /\ Alive /\ server[s] \in {"starting", "serving"} /\ ~closed[s]
  /\ server' = [server EXCEPT ![s] = "returned"]
  /\ failure' = TRUE
  /\ ctx' = "done"
  /\ UNCHANGED <<config, main, closed, stop, reloading, scraping, collector, exit>>

\* SIGINT, SIGTERM.
Signal ==
  /\ Alive /\ ~stop
  /\ stop' = TRUE
  /\ ctx' = "done"
  /\ UNCHANGED <<config, main, server, closed, failure, reloading, scraping, collector, exit>>

\* (mutant) Shutdown waits for the handlers.
ShutdownServer(s) ==
  /\ Alive /\ ctx = "done" /\ server[s] # "new" /\ ~closed[s]
  /\ s = Internal => \A r \in Reloads : reload[r] # "blocked"
  /\ closed' = [closed EXCEPT ![s] = TRUE]
  /\ UNCHANGED <<config, main, server, stop, ctx, failure, reloading, scraping, collector, exit>>

\* The goroutine that waits for the context closes the server, whether it listens by
\* now or not, and its connections, whatever their handlers do.
CloseServer(s) ==
  /\ Alive /\ ctx = "done" /\ server[s] # "new" /\ ~closed[s]
  /\ closed' = [closed EXCEPT ![s] = TRUE]
  /\ UNCHANGED <<config, main, server, stop, ctx, failure, reloading, scraping, collector, exit>>

\* ListenAndServe returns ErrServerClosed.
ServerReturns(s) ==
  /\ Alive /\ closed[s] /\ server[s] \in {"starting", "serving"}
  /\ server' = [server EXCEPT ![s] = "returned"]
  /\ UNCHANGED <<config, main, closed, stop, ctx, failure, reloading, scraping, collector, exit>>

-----------------------------------------------------------------------------
\* Reloads.

\* POST /reload: the handler sends on the channel, and waits while it is full.
PostReload(r) ==
  /\ Alive /\ server[Internal] = "serving" /\ reload[r] = "none" /\ r \notin SigHup
  /\ reload' = [reload EXCEPT ![r] = IF queue = 0 THEN "taken" ELSE "blocked"]
  /\ queue' = 1
  /\ UNCHANGED <<config, main, servers, stop, scraping, collector, exit>>

\* SIGHUP: the runtime drops a signal that does not fit into the channel.
HangUp(r) ==
  /\ Alive /\ reload[r] = "none" /\ r \in SigHup
  /\ reload' = [reload EXCEPT ![r] = IF queue = 0 THEN "taken" ELSE "dropped"]
  /\ queue' = 1
  /\ UNCHANGED <<config, main, servers, stop, scraping, collector, exit>>

-----------------------------------------------------------------------------
\* run.

\* The configuration is read once the servers are starting; log.Fatal ends the process.
LoadConfig ==
  /\ Alive /\ main = "servers" /\ \A s \in Servers : server[s] # "new"
  /\ main' = "update"
  /\ UNCHANGED <<config, servers, stop, reloading, scraping, collector, exit>>

LoadFails ==
  /\ Alive /\ main = "servers" /\ \A s \in Servers : server[s] # "new"
  /\ main' = "exited"
  /\ exit' = "fatal"
  /\ UNCHANGED <<config, servers, stop, reloading, scraping, collector>>

\* (mutant) Update gives up at the first group that does not load.
LoadGroupOrStop ==
  /\ Alive /\ main = "update" /\ next \in Groups
  /\ loaded' = IF Loads(config[next]) THEN loaded \cup {next} ELSE loaded
  /\ next' = IF Loads(config[next]) THEN next + 1 ELSE Len(config) + 1
  /\ UNCHANGED <<config, main, servers, stop, reloading, scraper, tracked, collector, exit>>

\* Manager.Update, first loop: a scraper for each group that loads; an error is logged.
LoadGroup ==
  /\ Alive /\ main = "update" /\ next \in Groups
  /\ loaded' = IF Loads(config[next]) THEN loaded \cup {next} ELSE loaded
  /\ next' = next + 1
  /\ UNCHANGED <<config, main, servers, stop, reloading, scraper, tracked, collector, exit>>

\* (mutant) A scraper is started for every group of the configuration.
StartAll ==
  /\ Alive /\ main = "update" /\ next \notin Groups
  /\ scraper' = [g \in Groups |-> "running"]
  /\ main' = "wait"
  /\ UNCHANGED <<config, servers, stop, reloading, loaded, next, tracked, collector, exit>>

\* Second loop: the scrapers are started, and run from now on.
StartScrapers ==
  /\ Alive /\ main = "update" /\ next \notin Groups
  /\ scraper' = [g \in Groups |-> IF g \in loaded THEN "running" ELSE "none"]
  /\ main' = "wait"
  /\ UNCHANGED <<config, servers, stop, reloading, loaded, next, tracked, collector, exit>>

\* (mutant) The collector is closed when the signal comes.
CloseCollectorAtOnce ==
  /\ Alive /\ main = "wait" /\ ctx = "done" /\ collector = "open"
  /\ collector' = "closed"
  /\ main' = "closed"
  /\ UNCHANGED <<config, servers, stop, reloading, scraping, exit>>

\* group.Wait returns when both servers have; the deferred calls run: the collector is
\* closed, its senders are not ...
CloseCollector ==
  /\ Alive /\ main = "wait" /\ \A s \in Servers : server[s] = "returned"
  /\ collector' = "closed"
  /\ main' = "closed"
  /\ UNCHANGED <<config, servers, stop, reloading, scraping, exit>>

\* ... and the process ends, with status 0 after a crash of a server too.
Exit ==
  /\ Alive /\ main = "closed"
  /\ main' = "exited"
  /\ exit' = "ok"
  /\ UNCHANGED <<config, servers, stop, reloading, scraping, collector>>

-----------------------------------------------------------------------------
\* Scrapers.

\* A probe goroutine of the group has a result ...
Probe(g) ==
  /\ Alive /\ scraper[g] = "running"
  /\ scraper' = [scraper EXCEPT ![g] = "sending"]
  /\ UNCHANGED <<config, main, servers, stop, reloading, loaded, next, tracked, collector, exit>>

\* ... which is an error if the target was asked for what it is not.
Collect(g) ==
  /\ Alive /\ scraper[g] = "sending" /\ collector = "open"
  /\ scraper' = [scraper EXCEPT ![g] = "running"]
  /\ tracked' = IF Fits(config[g]) THEN tracked \cup {g} ELSE tracked
  /\ UNCHANGED <<config, main, servers, stop, reloading, loaded, next, collector, exit>>

\* Sending on the closed channel.
Panic(g) ==
  /\ Alive /\ scraper[g] = "sending" /\ collector = "closed"
  /\ main' = "exited"
  /\ exit' = "panic"
  /\ UNCHANGED <<config, servers, stop, reloading, scraping, collector>>

Next ==
  \/ \E s \in Servers : \/ StartServer(s) \/ Listen(s) \/ ServerFails(s)
                        \/ CloseServer(s) \/ ServerReturns(s)
  \/ Signal
  \/ \E r \in Reloads : PostReload(r) \/ HangUp(r)
  \/ LoadConfig \/ LoadFails \/ LoadGroup \/ StartScrapers \/ CloseCollector \/ Exit
  \/ \E g \in Groups : Probe(g) \/ Collect(g) \/ Panic(g)

Spec == Init /\ [][Next]_vars

(***************************************************************************)
(* Fairness: goroutines that can run do, and a group has targets that      *)
(* answer.  Nothing is assumed of signals, requests and failures.          *)
(***************************************************************************)
Fairness ==
  /\ WF_vars(\E s \in Servers : StartServer(s) \/ Listen(s))
  /\ WF_vars(\E s \in Servers : CloseServer(s) \/ ServerReturns(s))
  /\ WF_vars(LoadConfig \/ LoadFails \/ LoadGroup \/ StartScrapers \/ CloseCollector \/ Exit)
  /\ \A g \in 1 .. MaxGroups : WF_vars(g \in Groups /\ (Probe(g) \/ Collect(g)))

FairSpec == Spec /\ Fairness

-----------------------------------------------------------------------------
TypeOK ==
  /\ config \in Configs
  /\ main \in {"servers", "update", "wait", "closed", "exited"}
  /\ server \in [Servers -> {"new", "starting", "serving", "returned"}]
  /\ closed \in [Servers -> BOOLEAN]
  /\ stop \in BOOLEAN /\ failure \in BOOLEAN
  /\ ctx \in {"live", "done"} /\ (ctx = "done" <=> stop \/ failure)
  /\ queue \in 0 .. 1
  /\ reload \in [Reloads -> {"none", "blocked", "taken", "dropped"}]
  /\ loaded \subseteq Groups /\ tracked \subseteq loaded
  /\ next \in 1 .. Len(config) + 1
  /\ scraper \in [Groups -> {"none", "running", "sending"}]
  /\ collector \in {"open", "closed"}
  /\ exit \in {"none", "ok", "fatal", "panic"} /\ (exit # "none" <=> main = "exited")

\* The deferred Close of the collector panics goroutines of scrapers that run on.  Nobody
\* is served by then: it happens only on the way out, when both servers have returned
\* and had been told to, or had failed.
PanicsOnlyOnTheWayOut ==
  (collector = "closed" \/ exit = "panic") =>
    /\ stop \/ failure
    /\ \A s \in Servers : server[s] = "returned"

\* A signal, or a server that fails, ends the process, at whatever point of its start it
\* comes and though a handler is blocked for good in a reload.
ExitsWhenStopped == (stop \/ failure) ~> exit # "none"

\* A group that is in order ends up tracked, whatever is wrong with the groups before and
\* behind it, unless the process ends: with backends of one kind, as a group that names
\* http targets next to another backend is probed in the wrong way.
GoodGroupsTracked ==
  \A g \in 1 .. MaxGroups :
    (main = "wait" /\ g \in Groups /\ Loads(config[g]) /\ Fits(config[g]))
      ~> (g \in tracked \/ exit # "none")
=============================================================================

--------------------------- MODULE MergedListener ---------------------------
(***************************************************************************)
(* netx.MergeListeners (internal/netx/netx.go): several listeners as one,  *)
(* with an http.Server that accepts from it and closes it.                 *)
(*                                                                         *)
(* Per listener there is an accept loop, in an errgroup, and a goroutine   *)
(* that closes the listener once the context is done.  The loops hand      *)
(* their connections to Accept over an unbuffered channel.  The first loop *)
(* to return an error makes the errgroup cancel the context; so does       *)
(* Close, which then waits for the loops, but not for the closers.         *)
(***************************************************************************)
EXTENDS Naturals, Sequences

CONSTANTS
  Listeners,
  Conns,       \* bound: the connections clients open
  MaxFaults    \* bound on the failures of listeners

ASSUME ListenerAssumption == MaxFaults \in Nat

VARIABLES
  socket,     \* socket[l]: the listening socket, open or closed
  backlog,    \* backlog[l]: connections established and not accepted
  fresh,      \* connections clients have yet to open
  faults,     \* failures of listeners so far
  loop,       \* loop[l]: accepting, sending, failed, tripping, ended
  held,       \* held[l]: the connection a loop sends, << >> if none
  served,     \* connections Accept returned
  lost,       \* connections accepted, neither returned nor closed
  ctx,        \* live, done
  groupErr,   \* the errgroup has an error
  tripped,    \* (history) a loop cancelled the context, not Close
  server,     \* serving (a connection), accepting, down (Accept gave an error)
  closing     \* the call of Close: no, waiting, nil, error

net == <<socket, backlog, fresh, faults>>
conns == <<held, served, lost>>
group == <<ctx, groupErr, tripped>>
user == <<server, closing>>
vars == <<net, loop, conns, group, user>>

Init ==
  /\ socket = [l \in Listeners |-> "open"]
  /\ backlog = [l \in Listeners |-> << >>]
  /\ fresh = Conns
  /\ faults = 0
  /\ loop = [l \in Listeners |-> "accepting"]
  /\ held = [l \in Listeners |-> << >>]
  /\ served = {} /\ lost = {}
  /\ ctx = "live" /\ groupErr = FALSE /\ tripped = FALSE
  /\ server = "serving" /\ closing = "no"

Goto(l, pc) == loop' = [loop EXCEPT ![l] = pc]

-----------------------------------------------------------------------------
\* The network: a client connects, and the kernel completes the connection.
Connect(l, c) ==
  /\ socket[l] = "open" /\ c \in fresh
  /\ fresh' = fresh \ {c}
  /\ backlog' = [backlog EXCEPT ![l] = Append(@, c)]
  /\ UNCHANGED <<socket, faults, loop, conns, group, user>>

\* A socket that is closed resets the connections of its backlog.
Shut(l) ==
  /\ socket[l] = "open"
  /\ socket' = [socket EXCEPT ![l] = "closed"]
  /\ backlog' = [backlog EXCEPT ![l] = << >>]
  /\ UNCHANGED <<fresh, loop, conns, group, user>>

\* Someone else closes a listener, or its Accept fails, out of descriptors say.
CloseExternally(l) == faults < MaxFaults /\ faults' = faults + 1 /\ Shut(l)

Fault(l) ==
  /\ loop[l] = "accepting" /\ faults < MaxFaults
  /\ faults' = faults + 1
  /\ Goto(l, "failed")
  /\ UNCHANGED <<socket, backlog, fresh, conns, group, user>>

-----------------------------------------------------------------------------
\* The goroutine that closes a listener.
CloserCloses(l) == ctx = "done" /\ Shut(l) /\ UNCHANGED faults

\* The accept loop: Accept returns a connection, or that the socket is closed.
LoopAccepts(l) ==
  /\ loop[l] = "accepting" /\ backlog[l] # << >>
  /\ Goto(l, "sending")
  /\ held' = [held EXCEPT ![l] = << Head(backlog[l]) >>]
  /\ backlog' = [backlog EXCEPT ![l] = Tail(@)]
  /\ UNCHANGED <<socket, fresh, faults, served, lost, group, user>>

LoopFails(l) ==
  /\ loop[l] = "accepting" /\ socket[l] = "closed"
  /\ Goto(l, "failed")
  /\ UNCHANGED <<net, conns, group, user>>

\* (mutant) Every error of Accept is an error of the loop.
LoopLooksAway(l) ==
  loop[l] = "failed" /\ Goto(l, "tripping") /\ UNCHANGED <<net, conns, group, user>>

\* It looks at the context: an error after a cancellation is none.
LoopLooks(l) ==
  /\ loop[l] = "failed"
  /\ Goto(l, IF ctx = "done" THEN "ended" ELSE "tripping")
  /\ UNCHANGED <<net, conns, group, user>>

\* (mutant) The errgroup has no context.
LoopTripsAlone(l) ==
  /\ loop[l] = "tripping"
  /\ Goto(l, "ended")
  /\ groupErr' = TRUE
  /\ UNCHANGED <<net, conns, ctx, tripped, user>>

\* It returns the error; the errgroup keeps its first one and cancels the context.
LoopTrips(l) ==
  /\ loop[l] = "tripping"
  /\ Goto(l, "ended")
  /\ groupErr' = TRUE
  /\ ctx' = "done"
  /\ tripped' = (tripped \/ ctx = "live")
  /\ UNCHANGED <<net, conns, user>>

\* The select of the loop and that of Accept meet on the channel.
LoopSends(l) ==
  /\ loop[l] = "sending" /\ server = "accepting"
  /\ Goto(l, "accepting")
  /\ server' = "serving"
  /\ served' = served \cup { held[l][1] }
  /\ held' = [held EXCEPT ![l] = << >>]
  /\ UNCHANGED <<net, lost, group, closing>>

\* (mutant) The select has a default.
LoopGivesUp(l) ==
  /\ loop[l] = "sending"
  /\ Goto(l, "accepting")
  /\ lost' = lost \cup { held[l][1] }
  /\ UNCHANGED <<net, held, served, group, user>>

\* The select of the loop sees the context done; nobody closes the connection.
LoopQuits(l) ==
  /\ loop[l] = "sending" /\ ctx = "done"
  /\ Goto(l, "ended")
  /\ lost' = lost \cup { held[l][1] }
  /\ held' = [held EXCEPT ![l] = << >>]
  /\ UNCHANGED <<net, served, group, user>>

-----------------------------------------------------------------------------
\* Accept is called, and sees the context done.  (Which of two errors it returns,
\* both of which mean "closed", is left out.)
Accept == server = "serving" /\ server' = "accepting" /\ UNCHANGED <<net, loop, conns, group, closing>>

AcceptFails ==
  /\ server = "accepting" /\ ctx = "done"
  /\ server' = "down"
  /\ UNCHANGED <<net, loop, conns, group, closing>>

\* Close cancels the context ...
Close ==
  /\ closing = "no"
  /\ closing' = "waiting"
  /\ ctx' = "done"
  /\ UNCHANGED <<net, loop, conns, groupErr, tripped, server>>

\* (mutant) Close does not wait for the group.
CloseReturnsAtOnce ==
  /\ closing = "waiting"
  /\ closing' = IF groupErr THEN "error" ELSE "nil"
  /\ UNCHANGED <<net, loop, conns, group, server>>

\* ... and waits for the loops.
CloseReturns ==
  /\ closing = "waiting"
  /\ \A l \in Listeners : loop[l] = "ended"
  /\ closing' = IF groupErr THEN "error" ELSE "nil"
  /\ UNCHANGED <<net, loop, conns, group, server>>

-----------------------------------------------------------------------------
LoopStep(l) ==
  LoopAccepts(l) \/ LoopFails(l) \/ LoopLooks(l) \/ LoopTrips(l) \/ LoopSends(l) \/ LoopQuits(l)

Next ==
  \/ \E l \in Listeners :
       \/ \E c \in Conns : Connect(l, c)
       \/ CloseExternally(l) \/ Fault(l) \/ CloserCloses(l) \/ LoopStep(l)
  \/ Accept \/ AcceptFails \/ Close \/ CloseReturns

Spec == Init /\ [][Next]_vars

(***************************************************************************)
(* Fairness.  Goroutines that can run do: each waits for one thing at a    *)
(* time.  Go serves waiting senders first in, first out, hence the strong  *)
(* fairness of a send.                                                     *)
(***************************************************************************)
Fairness ==
  /\ \A l \in Listeners :
       WF_vars(LoopStep(l)) /\ SF_vars(LoopSends(l)) /\ WF_vars(CloserCloses(l))
  /\ WF_vars(Accept) /\ WF_vars(AcceptFails) /\ WF_vars(CloseReturns)

FairSpec == Spec /\ Fairness

-----------------------------------------------------------------------------
TypeOK ==
  /\ socket \in [Listeners -> {"open", "closed"}]
  /\ backlog \in [Listeners -> Seq(Conns)]
  /\ fresh \subseteq Conns
  /\ faults \in 0 .. MaxFaults
  /\ loop \in [Listeners -> {"accepting", "sending", "failed", "tripping", "ended"}]
  /\ held \in [Listeners -> Seq(Conns)]
  /\ \A l \in Listeners : Len(held[l]) = IF loop[l] = "sending" THEN 1 ELSE 0
  /\ served \subseteq Conns /\ lost \subseteq Conns
  /\ ctx \in {"live", "done"} /\ groupErr \in BOOLEAN /\ tripped \in BOOLEAN
  /\ server \in {"serving", "accepting", "down"}
  /\ closing \in {"no", "waiting", "nil", "error"}

Closed == closing \in {"nil", "error"}

\* As long as no listener has failed and nobody has closed the merged one, every
\* connection that was accepted reaches the server.
NothingLostWhileLive == ctx = "live" => lost = {}

\* Close reports a failure that has shut the listener down before, and makes none up:
\* the errors by which its own cancellation ends the loops are none.
CloseReportsFailure ==
  /\ (Closed /\ tripped) => closing = "error"
  /\ closing = "error" => faults > 0

\* Once Close has returned, no connection is on its way to Accept any more.
QuietAfterClose == Closed => \A l \in Listeners : held[l] = << >>

\* One listener that fails, or a Close, takes everything down: all sockets are closed,
\* the loops end, the server's Accept returns an error, and Close returns.
ShutsDown ==
  (ctx = "done" \/ \E l \in Listeners : loop[l] = "failed") ~>
    /\ \A l \in Listeners : socket[l] = "closed" /\ loop[l] = "ended"
    /\ server = "down"
    /\ closing # "waiting"

\* A connection in a backlog is served unless something shuts down, though its loop
\* may block in a send while those of the others are received.
EveryConnServed ==
  \A c \in Conns :
    (\E l \in Listeners : c \in { backlog[l][i] : i \in DOMAIN backlog[l] }) ~>
      (c \in served \/ ctx = "done" \/ \E l \in Listeners : socket[l] = "closed")
=============================================================================

------------------------ MODULE MergedListenerProofs ------------------------
(***************************************************************************)
(* Proofs about MergedListener: for any number of listeners, connections   *)
(* and failures.                                                           *)
(***************************************************************************)
EXTENDS MergedListener, TLAPS

-----------------------------------------------------------------------------
(***************************************************************************)
(* The inductive invariant.  CloseReportsFailure is about the end of a     *)
(* story: an error the errgroup has must come from a failure, which has    *)
(* left its trace in a loop or a socket before (Blamed), and it must still *)
(* be there when Close reads it, after which no loop can change it         *)
(* (Ended).                                                                *)
(***************************************************************************)
\* Before anything shuts down, nothing is lost and nobody closes.
Live == ctx = "live" => lost = {} /\ ~tripped /\ closing = "no"

\* A failure is the cause of a closed socket and of a failed loop while the context is
\* live, of a loop about to cancel it, and of an error of the group.
Blamed ==
  /\ \A l \in Listeners :
       /\ ctx = "live" /\ (socket[l] = "closed" \/ loop[l] = "failed") => faults > 0
       /\ loop[l] = "tripping" => faults > 0
  /\ groupErr => faults > 0
  /\ tripped => groupErr

\* When Close has returned all loops have ended, and its result is the group's.
Ended ==
  Closed =>
    /\ \A l \in Listeners : loop[l] = "ended"
    /\ closing = "error" <=> groupErr

IInv == TypeOK /\ Live /\ Blamed /\ Ended

-----------------------------------------------------------------------------
\* The initial state satisfies the invariant.
LEMMA InitInv == Init => IInv
<1> SUFFICES ASSUME Init PROVE IInv
  OBVIOUS
<1>1. TypeOK
  <2>1. backlog \in [Listeners -> Seq(Conns)] /\ held \in [Listeners -> Seq(Conns)]
    BY DEF Init
  <2>2. \A l \in Listeners : Len(held[l]) = 0 /\ loop[l] = "accepting"
    BY DEF Init
  <2>3. \A l \in Listeners : Len(held[l]) = IF loop[l] = "sending" THEN 1 ELSE 0
    BY <2>2
  <2>4. /\ socket \in [Listeners -> {"open", "closed"}]
        /\ loop \in [Listeners -> {"accepting", "sending", "failed", "tripping", "ended"}]
    BY DEF Init
  <2>5. faults \in 0 .. MaxFaults
    BY ListenerAssumption DEF Init
  <2>6. /\ fresh \subseteq Conns /\ served \subseteq Conns /\ lost \subseteq Conns
        /\ ctx \in {"live", "done"} /\ groupErr \in BOOLEAN /\ tripped \in BOOLEAN
        /\ server \in {"serving", "accepting", "down"}
        /\ closing \in {"no", "waiting", "nil", "error"}
    BY DEF Init
  <2> QED
    BY <2>1, <2>3, <2>4, <2>5, <2>6 DEF TypeOK
<1>2. Live
  BY DEF Init, Live
<1>3. Blamed
  BY DEF Init, Blamed
<1>4. Ended
  BY DEF Init, Ended, Closed
<1> QED
  BY <1>1, <1>2, <1>3, <1>4 DEF IInv

\* Every step keeps the types.
LEMMA StepType == TypeOK /\ [Next]_vars => TypeOK'
<1> SUFFICES ASSUME TypeOK, [Next]_vars PROVE TypeOK'
  OBVIOUS
<1> USE ListenerAssumption
<1>1. ASSUME NEW l \in Listeners, NEW c \in Conns, Connect(l, c) PROVE TypeOK'
  <2>1. backlog' \in [Listeners -> Seq(Conns)]
    BY <1>1 DEF TypeOK, Connect
  <2> QED
    BY <1>1, <2>1 DEF TypeOK, Connect, conns, group, user
<1>2. ASSUME NEW l \in Listeners, Shut(l), faults' \in 0 .. MaxFaults PROVE TypeOK'
  <2>1. backlog' \in [Listeners -> Seq(Conns)]
    BY <1>2 DEF TypeOK, Shut
  <2> QED
    BY <1>2, <2>1 DEF TypeOK, Shut, conns, group, user
<1>3. ASSUME NEW l \in Listeners, Fault(l) PROVE TypeOK'
  BY <1>3 DEF TypeOK, Fault, Goto, conns, group, user
<1>4. ASSUME NEW l \in Listeners, LoopAccepts(l) PROVE TypeOK'
  <2>1. backlog[l] \in Seq(Conns) /\ backlog[l] # << >>
    BY <1>4 DEF TypeOK, LoopAccepts
  <2>2. Head(backlog[l]) \in Conns /\ Tail(backlog[l]) \in Seq(Conns)
    BY <2>1
  <2>3. << Head(backlog[l]) >> \in Seq(Conns) /\ Len(<< Head(backlog[l]) >>) = 1
    BY <2>2
  <2>4. backlog' \in [Listeners -> Seq(Conns)] /\ held' \in [Listeners -> Seq(Conns)]
    BY <1>4, <2>2, <2>3 DEF TypeOK, LoopAccepts
  <2>5. \A m \in Listeners : Len(held'[m]) = IF loop'[m] = "sending" THEN 1 ELSE 0
    BY <1>4, <2>3 DEF TypeOK, LoopAccepts, Goto
  <2> QED
    BY <1>4, <2>4, <2>5 DEF TypeOK, LoopAccepts, Goto, group, user
<1>5. ASSUME NEW l \in Listeners, LoopFails(l) PROVE TypeOK'
  BY <1>5 DEF TypeOK, LoopFails, Goto, net, conns, group, user
<1>6. ASSUME NEW l \in Listeners, LoopLooks(l) PROVE TypeOK'
  BY <1>6 DEF TypeOK, LoopLooks, Goto, net, conns, group, user
<1>7. ASSUME NEW l \in Listeners, LoopTrips(l) PROVE TypeOK'
  <2>1. tripped' \in BOOLEAN /\ groupErr' \in BOOLEAN
    BY <1>7 DEF TypeOK, LoopTrips
  <2> QED
    BY <1>7, <2>1 DEF TypeOK, LoopTrips, Goto, net, conns, user
<1>8. ASSUME NEW l \in Listeners, LoopSends(l) PROVE TypeOK'
  <2>1. held[l] \in Seq(Conns) /\ Len(held[l]) = 1
    BY <1>8 DEF TypeOK, LoopSends
  <2>2. held[l][1] \in Conns
    BY <2>1
  <2>3. \A m \in Listeners : Len(held'[m]) = IF loop'[m] = "sending" THEN 1 ELSE 0
    BY <1>8 DEF TypeOK, LoopSends, Goto
  <2> QED
    BY <1>8, <2>2, <2>3 DEF TypeOK, LoopSends, Goto, net, group
<1>9. ASSUME NEW l \in Listeners, LoopQuits(l) PROVE TypeOK'
  <2>1. held[l] \in Seq(Conns) /\ Len(held[l]) = 1
    BY <1>9 DEF TypeOK, LoopQuits
  <2>2. held[l][1] \in Conns
    BY <2>1
  <2>3. \A m \in Listeners : Len(held'[m]) = IF loop'[m] = "sending" THEN 1 ELSE 0
    BY <1>9 DEF TypeOK, LoopQuits, Goto
  <2> QED
    BY <1>9, <2>2, <2>3 DEF TypeOK, LoopQuits, Goto, net, group, user
<1>10. CASE Accept
  BY <1>10 DEF TypeOK, Accept, net, conns, group
<1>11. CASE AcceptFails
  BY <1>11 DEF TypeOK, AcceptFails, net, conns, group
<1>12. CASE Close
  BY <1>12 DEF TypeOK, Close, net, conns
<1>13. CASE CloseReturns
  BY <1>13 DEF TypeOK, CloseReturns, net, conns, group
<1>14. CASE UNCHANGED vars
  BY <1>14 DEF TypeOK, vars, net, conns, group, user
<1>15. ASSUME NEW l \in Listeners, CloseExternally(l) \/ CloserCloses(l) PROVE TypeOK'
  <2>1. Shut(l) /\ faults' \in 0 .. MaxFaults
    BY <1>15 DEF CloseExternally, CloserCloses, TypeOK
  <2> QED
    BY <1>2, <2>1
<1> QED
  BY <1>1, <1>3, <1>4, <1>5, <1>6, <1>7, <1>8, <1>9, <1>10, <1>11, <1>12, <1>13, <1>14, <1>15
     DEF Next, LoopStep

-----------------------------------------------------------------------------
\* What a step does to the parts of the state the other conjuncts speak of.
LEMMA StepLive == TypeOK /\ Live /\ [Next]_vars => Live'
<1> SUFFICES ASSUME TypeOK, Live, [Next]_vars PROVE Live'
  OBVIOUS
<1> USE DEF Live
<1>1. ASSUME NEW l \in Listeners,
             \/ \E c \in Conns : Connect(l, c)
             \/ CloseExternally(l) \/ Fault(l) \/ CloserCloses(l)
             \/ LoopAccepts(l) \/ LoopFails(l) \/ LoopLooks(l)
      PROVE  Live'
  BY <1>1 DEF Connect, CloseExternally, Fault, CloserCloses, Shut, LoopAccepts, LoopFails,
              LoopLooks, conns, group, user
<1>2. ASSUME NEW l \in Listeners, LoopTrips(l) PROVE Live'
  BY <1>2 DEF LoopTrips
<1>3. ASSUME NEW l \in Listeners, LoopSends(l) PROVE Live'
  BY <1>3 DEF LoopSends, group
<1>4. ASSUME NEW l \in Listeners, LoopQuits(l) PROVE Live'
  BY <1>4 DEF LoopQuits, group
<1>5. CASE Accept
  BY <1>5 DEF Accept, conns, group
<1>6. CASE AcceptFails
  BY <1>6 DEF AcceptFails, conns, group
<1>7. CASE Close
  BY <1>7 DEF Close
<1>8. CASE CloseReturns
  BY <1>8 DEF CloseReturns, conns, group, TypeOK
<1>9. CASE UNCHANGED vars
  BY <1>9 DEF vars, conns, group, user
<1> QED
  BY <1>1, <1>2, <1>3, <1>4, <1>5, <1>6, <1>7, <1>8, <1>9 DEF Next, LoopStep

\* A listener that a goroutine closes is closed after a cancellation; everyone else's
\* close, and every error of Accept, is a failure.
LEMMA StepBlamed == TypeOK /\ Live /\ Blamed /\ [Next]_vars => Blamed'
<1> SUFFICES ASSUME TypeOK, Live, Blamed, [Next]_vars PROVE Blamed'
  OBVIOUS
<1> USE DEF Blamed
<1>0. faults \in Nat
  BY ListenerAssumption DEF TypeOK
<1>1. ASSUME NEW l \in Listeners, NEW c \in Conns, Connect(l, c) PROVE Blamed'
  BY <1>1 DEF Connect, group
<1>2. ASSUME NEW l \in Listeners, CloseExternally(l) \/ Fault(l) PROVE Blamed'
  <2>1. faults' > 0
    BY <1>0, <1>2 DEF CloseExternally, Fault
  <2>2. groupErr' = groupErr /\ tripped' = tripped
    BY <1>2 DEF CloseExternally, Fault, Shut, group
  <2> QED
    BY <2>1, <2>2
<1>3. ASSUME NEW l \in Listeners, CloserCloses(l) PROVE Blamed'
  BY <1>3 DEF CloserCloses, Shut, group
<1>4. ASSUME NEW l \in Listeners, LoopAccepts(l) PROVE Blamed'
  BY <1>4 DEF LoopAccepts, Goto, group, TypeOK
<1>5. ASSUME NEW l \in Listeners, LoopFails(l) PROVE Blamed'
  BY <1>5 DEF LoopFails, Goto, net, group, TypeOK
<1>6. ASSUME NEW l \in Listeners, LoopLooks(l) PROVE Blamed'
  BY <1>6 DEF LoopLooks, Goto, net, group, TypeOK
<1>7. ASSUME NEW l \in Listeners, LoopTrips(l) PROVE Blamed'
  <2>1. faults' > 0
    BY <1>7 DEF LoopTrips, net
  <2> QED
    BY <1>7, <2>1 DEF LoopTrips, Goto, TypeOK
<1>8. ASSUME NEW l \in Listeners, LoopSends(l) PROVE Blamed'
  BY <1>8 DEF LoopSends, Goto, net, group, TypeOK
<1>9. ASSUME NEW l \in Listeners, LoopQuits(l) PROVE Blamed'
  BY <1>9 DEF LoopQuits, Goto, net, group, TypeOK
<1>10. CASE Accept
  BY <1>10 DEF Accept, net, group
<1>11. CASE AcceptFails
  BY <1>11 DEF AcceptFails, net, group
<1>12. CASE Close
  BY <1>12 DEF Close, net
<1>13. CASE CloseReturns
  BY <1>13 DEF CloseReturns, net, group
<1>14. CASE UNCHANGED vars
  BY <1>14 DEF vars, net, group
<1> QED
  BY <1>1, <1>2, <1>3, <1>4, <1>5, <1>6, <1>7, <1>8, <1>9, <1>10, <1>11, <1>12, <1>13, <1>14
     DEF Next, LoopStep

\* A loop that has ended takes no step, so what Close found when it returned stays.
LEMMA StepEnded == TypeOK /\ Ended /\ [Next]_vars => Ended'
<1> SUFFICES ASSUME TypeOK, Ended, [Next]_vars PROVE Ended'
  OBVIOUS
<1> USE DEF Ended, Closed
<1>1. ASSUME NEW l \in Listeners,
             \/ \E c \in Conns : Connect(l, c)
             \/ CloseExternally(l) \/ CloserCloses(l)
      PROVE  Ended'
  BY <1>1 DEF Connect, CloseExternally, CloserCloses, Shut, group, user
<1>2. ASSUME NEW l \in Listeners,
             \/ Fault(l) \/ LoopAccepts(l) \/ LoopFails(l) \/ LoopLooks(l)
             \/ LoopTrips(l) \/ LoopSends(l) \/ LoopQuits(l)
      PROVE  Ended'
  <2>1. loop[l] # "ended"
    BY <1>2 DEF Fault, LoopAccepts, LoopFails, LoopLooks, LoopTrips, LoopSends, LoopQuits
  <2>2. closing' = closing
    BY <1>2 DEF Fault, LoopAccepts, LoopFails, LoopLooks, LoopTrips, LoopSends, LoopQuits, user
  <2> QED
    BY <2>1, <2>2
<1>3. CASE Accept
  BY <1>3 DEF Accept, group
<1>4. CASE AcceptFails
  BY <1>4 DEF AcceptFails, group
<1>5. CASE Close
  BY <1>5 DEF Close
<1>6. CASE CloseReturns
  BY <1>6 DEF CloseReturns, group
<1>7. CASE UNCHANGED vars
  BY <1>7 DEF vars, group, user
<1> QED
  BY <1>1, <1>2, <1>3, <1>4, <1>5, <1>6, <1>7 DEF Next, LoopStep

\* The invariant holds in every reachable state.
LEMMA Invariance == Spec => []IInv
<1>1. IInv /\ [Next]_vars => IInv'
  BY StepType, StepLive, StepBlamed, StepEnded DEF IInv
<1> QED
  BY InitInv, <1>1, PTL DEF Spec

-----------------------------------------------------------------------------
\* Every reachable state is well formed; in particular a loop holds a connection exactly
\* while it sends.
THEOREM TypeCorrect == Spec => []TypeOK
<1>1. IInv => TypeOK
  BY DEF IInv
<1> QED
  BY Invariance, <1>1, PTL

\* While the merged listener is up, every accepted connection reaches Accept.
THEOREM NothingLost == Spec => []NothingLostWhileLive
<1>1. IInv => NothingLostWhileLive
  BY DEF IInv, Live, NothingLostWhileLive
<1> QED
  BY Invariance, <1>1, PTL

\* Close returns the error of a failure that shut the listener down, and no error
\* when no listener has failed.
THEOREM Reports == Spec => []CloseReportsFailure
<1>1. IInv => CloseReportsFailure
  BY DEF IInv, Blamed, Ended, CloseReportsFailure, Closed
<1> QED
  BY Invariance, <1>1, PTL

\* When Close returns no loop holds a connection, and none ever will.
THEOREM Quiet == Spec => []QuietAfterClose
<1>1. ASSUME IInv PROVE QuietAfterClose
  <2> SUFFICES ASSUME Closed, NEW l \in Listeners PROVE held[l] = << >>
    BY DEF QuietAfterClose
  <2>1. held[l] \in Seq(Conns) /\ Len(held[l]) = 0
    BY <1>1 DEF IInv, Ended, TypeOK
  <2> QED
    BY <2>1
<1> QED
  BY Invariance, <1>1, PTL
=============================================================================

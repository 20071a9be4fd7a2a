\* Two listeners, three connections, closing and failing at any moment.
CONSTANTS
  Listeners = {l1, l2}
  Conns = {c1, c2, c3}
  MaxFaults = 2
SPECIFICATION FairSpec
INVARIANTS TypeOK NothingLostWhileLive CloseReportsFailure QuietAfterClose
PROPERTIES ShutsDown EveryConnServed
CHECK_DEADLOCK FALSE

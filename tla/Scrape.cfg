\* One target under two overlapping rounds, any history of it, closed at any time.
CONSTANTS
  Groups = {1}
  Targets = {1}
  Extends <- MCExtends
  MaxSlot = 3
  Scrapers = {s1}
  GroupOf <- MCGroupOf
  Discoveries <- Unsteady
  Rounds = {1, 2}
  Listings <- MCListings
  Down = Down
  MaxTime = 1
  Plans <- AllPlans
  Shutdown = TRUE
SPECIFICATION FairSpec
INVARIANTS TypeOK WholeListing
PROPERTIES EveryResultTaken EventuallyTracked ClosedGoesQuiet ImplementsView
CHECK_DEADLOCK FALSE

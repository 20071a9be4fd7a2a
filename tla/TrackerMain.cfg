\* Two groups, a signal, two POST /reload and a SIGHUP, servers failing at any moment.
CONSTANTS
  Servers = {internal, public}
  Internal = internal
  Reloads = {post1, post2, hup}
  SigHup = {hup}
  MaxGroups = 2
  Configs <- MCConfigs
SPECIFICATION FairSpec
INVARIANTS TypeOK PanicsOnlyOnTheWayOut
PROPERTIES ExitsWhenStopped GoodGroupsTracked
CHECK_DEADLOCK FALSE

CONSTANTS
  v1 = v1
  broken = broken
  edited = edited
  plain = plain
  set = set
  r1 = r1
  r2 = r2
  old = old
  n1 = n1
  n2 = n2
  f1 = f1
  f2 = f2
  f3 = f3
  f4 = f4
  none = none
  Contents = {v1, broken, edited}
  Images = {v1, broken}
  Loadable = {v1, edited}
  Configurable = {edited}
  Valves = {plain, set}
  NoValves = plain
  Runs = {r1, r2}
  Others = {old}
  Chats = {r1, r2, old, n1, n2}
  Folders = {f1, f2, f3, f4}
  Trees <- MCTrees
  NoFolder = none
  MaxTests = 1
  MaxRuns = 2
  MaxIncidents = 1
  MaxDisturbances = 1
SPECIFICATION FairSpec
INVARIANTS
  OnlyLoadableIsStored
  NoChatIsLost
  LastListingKeepsItsResults
PROPERTIES
  SyncMakesTheImageLive
  ValvesSurvive
  EmptiesTheFolder
  ServerStarts
CHECK_DEADLOCK FALSE

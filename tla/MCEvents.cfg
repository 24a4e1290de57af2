CONSTANTS
  j1 = j1
  j2 = j2
  Jobs = {j1, j2}
  MaxCalls = 3
  MaxText = 1
  MaxInterrupts = 2
SPECIFICATION FairSpec
INVARIANTS
  NothingComesLate
  OnlyOutputsAreLost
PROPERTIES
  OneAtATimeInOrder
  ComesToRest

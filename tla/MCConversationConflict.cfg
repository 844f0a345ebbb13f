\* Two turns with re-emission: the branches are said to write disjoint channels.
SPECIFICATION Spec
CONSTANTS
  ChildIds = {c1, c2}
  NoChild = NoChild
  IntentSets <- MCIntentSets
  Reemission = {TRUE}
  MaxTurns = 2
INVARIANT NoWriteConflict
CHECK_DEADLOCK FALSE

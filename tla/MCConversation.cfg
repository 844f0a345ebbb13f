\* Two turns, two children, with and without re-emission, under fairness.
SPECIFICATION FairSpec
CONSTANTS
  ChildIds = {c1, c2}
  NoChild = NoChild
  IntentSets <- MCIntentSets
  Reemission = {TRUE, FALSE}
  MaxTurns = 2
INVARIANTS
  TypeOK
  RespondReadsThisTurn
  TargetOnFile
  SoleChildNeverAsked
  SwitchMatchesTarget
  RecordedForItsChild
  PipelineInv
PROPERTY KeepsTurnProtocol
CHECK_DEADLOCK FALSE

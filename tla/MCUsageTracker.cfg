\* Two workers, two models per call.
SPECIFICATION FairSpec
CONSTANTS
  turn1 = turn1
  turn2 = turn2
  memory = memory
  profile_update = profile_update
  respond = respond
  Workers = {w1, w2}
  Turns = {turn1, turn2}
  Nodes = {memory, profile_update, respond}
  Jobs <- SomeJobs
  Models = 2
  MaxRuns = 2
  MaxStops = 1
INVARIANTS
  TypeOK
  BilledToItsTurn
  BufferHoldsRunning
  UsageAccounted
  OneVoicePerReply
PROPERTY KeepsLedger
CHECK_DEADLOCK FALSE

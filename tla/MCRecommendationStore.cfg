\* Two threads, a crash, and whoever was cut off may try again.
SPECIFICATION FairSpec
CONSTANTS
  matilda = matilda
  bfg = bfg
  anonymous = anonymous
  Threads = {t1, t2}
  Keyed = {matilda, bfg}
  Authorless = {anonymous}
  Lists <- SomeLists
  MaxTurns = 1
  MaxCrashes = 1
INVARIANTS
  TypeOK
  StoredWhole
  DuplicatesAreConcurrent
  StoredIsAnswered
PROPERTY ReplyIsGiven
CHECK_DEADLOCK FALSE

\* One turn of an agent that stops only when every operation returned a result.
SPECIFICATION FairSpec
CONSTANTS
  SoftTools = {"update_reading_interest", "update_school_information", "update_member_profile",
               "update_family_reading_policy"}
  Keys <- MCKeys
  Values <- MCValues
  NoRecord = NoRecord
  NoRequest = NoRequest
  Malformed = Malformed
  ChildIds = {c1, c2}
  Member = member
  NoChild = NoChild
  OperationLists <- MCOperationLists
  StrayCalls <- MCStrayCalls
  Resumes <- MCResumes
  Obedient = TRUE
  Diligent = TRUE
  MaxIterations = 3
  MaxBatch = 2
  MaxTurns = 1
INVARIANT AppliedMeansLanded
PROPERTIES
  KeepsPromise
  TurnEnds
CHECK_DEADLOCK FALSE

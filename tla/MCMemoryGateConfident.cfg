\* One turn of an agent that may stop at once.
SPECIFICATION Spec
CONSTANTS
  SoftTools = {"update_reading_interest", "update_school_information", "update_member_profile",
               "update_family_reading_policy"}
  Keys <- MCKeys
  Values <- MCValues
  NoRecord = NoRecord
  NoRequest = NoRequest
  Malformed = Malformed
  ChildIds = {c1, c2}
  Member = member
  NoChild = NoChild
  OperationLists <- MCOperationLists
  StrayCalls <- MCStrayCalls
  Resumes <- MCResumes
  Obedient = TRUE
  Diligent = FALSE
  MaxIterations = 3
  MaxBatch = 2
  MaxTurns = 1
INVARIANT AppliedMeansConfident
CHECK_DEADLOCK FALSE

\* One turn of an agent that may call a tool that is not listed.
SPECIFICATION Spec
CONSTANTS
  SoftTools = {"update_reading_interest", "update_school_information", "update_member_profile",
               "update_family_reading_policy"}
  Keys <- MCKeys
  Values <- MCValues
  NoRecord = NoRecord
  NoRequest = NoRequest
  Malformed = Malformed
  ChildIds = {c1, c2}
  Member = member
  NoChild = NoChild
  OperationLists <- MCOperationLists
  StrayCalls <- MCStrayCalls
  Resumes <- MCResumes
  Obedient = FALSE
  Diligent = FALSE
  MaxIterations = 2
  MaxBatch = 2
  MaxTurns = 1
INVARIANT IdentityWritesConsented
CHECK_DEADLOCK FALSE

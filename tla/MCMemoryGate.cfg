\* One thread, two turns, an obedient agent; replies and failures in every order.
SPECIFICATION Spec
CONSTANTS
  SoftTools = {"update_reading_interest", "update_school_information", "update_member_profile",
               "update_family_reading_policy"}
  Keys <- MCKeys
  Values <- MCValues
  NoRecord = NoRecord
  NoRequest = NoRequest
  Malformed = Malformed
  ChildIds = {c1, c2}
  Member = member
  NoChild = NoChild
  OperationLists <- MCOperationLists
  StrayCalls <- MCStrayCalls
  Resumes <- MCResumes
  Obedient = TRUE
  Diligent = FALSE
  MaxIterations = 2
  MaxBatch = 2
  MaxTurns = 2
SYMMETRY Symmetric
INVARIANTS
  TypeOK
  IdentityWritesConsented
  SoftFactsSurviveGate
  FactsFollowNewChild
  GateInv
CHECK_DEADLOCK FALSE

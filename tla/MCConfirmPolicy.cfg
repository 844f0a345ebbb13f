\* Every list of up to three operations and every reply.
SPECIFICATION Spec
CONSTANTS
  SoftTools = {"update_reading_interest"}
  Keys <- MCKeys
  Values <- MCValues
  NoRecord = NoRecord
  NoRequest = NoRequest
  Malformed = Malformed
  Menu <- MCMenu
  Resumes <- MCResumes
  MaxLength = 3
INVARIANTS
  FoldUpdatesInOrder
  ApprovedCreateIsNamed
  OneWritePerRecord
CHECK_DEADLOCK FALSE

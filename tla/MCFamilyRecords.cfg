\* Two threads of a family that edit lists and record a book and a policy.
SPECIFICATION Spec
CONSTANTS
  dragons = dragons
  Threads = {t1, t2}
  Topics = {dragons}
  Titles = {book1}
  Scopes = {child}
  Edits <- SomeEdits
  MaxCalls = 2
  MaxTurns = 1
  MaxLate = 1
SYMMETRY Symmetric
INVARIANTS
  TypeOK
  AcknowledgedEditsSurvive
  RecordsInv
  DuplicatesAreRaced
CHECK_DEADLOCK FALSE

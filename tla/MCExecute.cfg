\* Five plans, both loops, every pattern of failures and verdicts.
SPECIFICATION FairSpec
CONSTANTS
  b1 = b1
  b2 = b2
  b3 = b3
  Books = {b1, b2, b3}
  Titles = {"one", "two"}
  TitleOf <- MCTitles
  Plans <- MCPlans
  MaxAttempts = 3
INVARIANTS
  TypeOK
  NothingSunk
  RejectedIsDropped
  ShortOnlyAfterBudget
PROPERTY ExecuteEnds
CHECK_DEADLOCK FALSE

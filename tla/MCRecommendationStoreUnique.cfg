\* Two threads recommend a book without an author.
SPECIFICATION Spec
CONSTANTS
  matilda = matilda
  bfg = bfg
  anonymous = anonymous
  Threads = {t1, t2}
  Keyed = {matilda, bfg}
  Authorless = {anonymous}
  Lists <- ShortList
  MaxTurns = 1
  MaxCrashes = 0
INVARIANT BooksUnique
CHECK_DEADLOCK FALSE

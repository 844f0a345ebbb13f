------------------------- MODULE RecommendationStore -------------------------
(***************************************************************************)
(* How respond stores a recommendation (agent/pipeline/respond.py,         *)
(* agent/domain/recommendation.py): in one transaction a session, and per  *)
(* recommended book an item that refers to the book's row in the cache,    *)
(* which is looked up, and added when it is missing.                       *)
(*                                                                         *)
(* Several threads do so at once on PostgreSQL, under its default READ     *)
(* COMMITTED: a statement sees what is committed and what its transaction  *)
(* did.  An insert waits for another open transaction that inserted the    *)
(* same key of the unique index (title, author); a key with a null author  *)
(* is never the same as another.                                           *)
(***************************************************************************)
EXTENDS Naturals, Sequences

CONSTANTS
  Threads,     \* conversation threads, of any families
  Keyed,       \* books with an author
  Authorless,  \* books without
  Lists,       \* what a turn may recommend; empty: nothing to store
  MaxTurns,    \* bound: turns of one thread
  MaxCrashes   \* bound: crashes of the process

Books == Keyed \cup Authorless

ASSUME StoreAssumption ==
  /\ Keyed \cap Authorless = {}
  /\ Lists \subseteq Seq(Books)
  /\ MaxTurns \in Nat /\ MaxCrashes \in Nat

\* An execution of respond: a crashed one may be tried again.
Reply == [thread : Threads, turn : 1..MaxTurns, attempt : Nat]

\* Ids are uuids: that of a book's row is told by the item that made it.
BookId  == [reply : Reply, place : Nat]
BookRow == [id : BookId, book : Books]
Item    == [rank : Nat, book : Books, book_id : BookId]
Session == [reply : Reply, books : Lists, items : SUBSET Item]

VARIABLES
  \* the database: committed rows
  book_cache,
  sessions,
  \* a thread
  pc,          \* "idle", "composed", "lookup", "insert", "commit", "done", "crashed"
  list,        \* what its turn recommends
  place,       \* the place in it that is stored next
  found,       \* the row that was looked up for it, as a set
  added,       \* rows its open transaction has inserted
  items,       \* items it has inserted
  turn,
  attempt,
  crashes,
  \* history
  answered,    \* replies that were checkpointed
  interrupted, \* those a crash cut off
  met          \* pairs of replies whose transactions were open at once

database == <<book_cache, sessions>>
history  == <<answered, interrupted, met>>
vars == <<database, pc, list, place, found, added, items, turn, attempt, crashes, history>>

ThisReply(t) == [thread |-> t, turn |-> turn[t], attempt |-> attempt[t]]

Open == {"lookup", "insert", "commit"}

TypeOK ==
  /\ book_cache \subseteq BookRow /\ sessions \subseteq Session
  /\ pc \in [Threads -> Open \cup {"idle", "composed", "done", "crashed"}]
  /\ list \in [Threads -> Lists \cup {<<>>}]
  /\ place \in [Threads -> Nat]
  /\ found \in [Threads -> SUBSET BookRow]
  /\ added \in [Threads -> SUBSET BookRow]
  /\ items \in [Threads -> SUBSET Item]
  /\ turn \in [Threads -> 0..MaxTurns]
  /\ attempt \in [Threads -> Nat]
  /\ crashes \in 0..MaxCrashes
  /\ answered \subseteq Reply /\ interrupted \subseteq Reply
  /\ met \subseteq SUBSET Reply
  /\ \A t \in Threads :
        /\ pc[t] # "idle" => list[t] \in Lists /\ turn[t] > 0
        /\ pc[t] \in {"lookup", "insert"} => place[t] \in 1..Len(list[t])

Init ==
  /\ book_cache = {} /\ sessions = {}
  /\ pc = [t \in Threads |-> "idle"]
  /\ list = [t \in Threads |-> <<>>]
  /\ place = [t \in Threads |-> 0] /\ turn = place /\ attempt = place
  /\ found = [t \in Threads |-> {}] /\ added = found /\ items = found
  /\ crashes = 0
  /\ answered = {} /\ interrupted = {} /\ met = {}

-----------------------------------------------------------------------------
\* respond has a reply; a new message may also take over a thread that crashed.
Compose(t, books) ==
  /\ pc[t] \in {"idle", "crashed"}
  /\ turn[t] < MaxTurns
  /\ turn' = [turn EXCEPT ![t] = @ + 1]
  /\ attempt' = [attempt EXCEPT ![t] = 0]
  /\ list' = [list EXCEPT ![t] = books]
  /\ pc' = [pc EXCEPT ![t] = "composed"]
  /\ UNCHANGED <<database, place, found, added, items, crashes, history>>

\* The node runs again from the checkpoint before it.
Rerun(t) ==
  /\ pc[t] = "crashed"
  /\ attempt' = [attempt EXCEPT ![t] = @ + 1]
  /\ pc' = [pc EXCEPT ![t] = "composed"]
  /\ UNCHANGED <<database, list, place, found, added, items, turn, crashes, history>>

\* Books and a target child: the transaction opens and the session is inserted.
Begin(t) ==
  /\ pc[t] = "composed"
  /\ list[t] # <<>>
  /\ pc' = [pc EXCEPT ![t] = "lookup"]
  /\ place' = [place EXCEPT ![t] = 1]
  /\ met' = met \cup {{ThisReply(t), ThisReply(u)} : u \in {v \in Threads \ {t} : pc[v] \in Open}}
  /\ UNCHANGED <<database, list, found, added, items, turn, attempt, crashes, answered, interrupted>>

NothingToStore(t) ==
  /\ pc[t] = "composed"
  /\ list[t] = <<>>
  /\ pc' = [pc EXCEPT ![t] = "done"]
  /\ UNCHANGED <<database, list, place, found, added, items, turn, attempt, crashes, history>>

\* Mutant: what the transaction inserted is not flushed before the next lookup.
Visible_committed_only(t) == book_cache

Visible(t) == book_cache \cup added[t]

Book(t) == list[t][place[t]]

\* get_by_title_author
Matches(t) == {row \in Visible(t) : row.book = Book(t)}

\* Mutant: respond does not catch what storing raises.
AfterFailure_raises == "idle"

\* The failure is logged; respond returns its reply all the same.
AfterFailure == "done"

\* Mutant: what was inserted stays with a session that is not closed.
RolledBack_not_closed(t) ==
  /\ pc' = [pc EXCEPT ![t] = AfterFailure]
  /\ found' = [found EXCEPT ![t] = {}]
  /\ items' = [items EXCEPT ![t] = {}]
  /\ UNCHANGED <<database, list, place, added, turn, attempt, crashes, history>>

\* Mutant: the failure is caught inside the scope, which then commits.
RolledBack_commits(t) ==
  /\ pc' = [pc EXCEPT ![t] = AfterFailure]
  /\ book_cache' = book_cache \cup added[t]
  /\ sessions' = sessions \cup {[reply |-> ThisReply(t), books |-> list[t], items |-> items[t]]}
  /\ found' = [found EXCEPT ![t] = {}]
  /\ added' = [added EXCEPT ![t] = {}]
  /\ items' = [items EXCEPT ![t] = {}]
  /\ UNCHANGED <<list, place, turn, attempt, crashes, history>>

\* session_scope rolls back, closes and raises.
RolledBack(t) ==
  /\ pc' = [pc EXCEPT ![t] = AfterFailure]
  /\ found' = [found EXCEPT ![t] = {}]
  /\ added' = [added EXCEPT ![t] = {}]
  /\ items' = [items EXCEPT ![t] = {}]
  /\ UNCHANGED <<database, list, place, turn, attempt, crashes, history>>

Lookup(t) ==
  /\ pc[t] = "lookup"
  /\ \A p, q \in Matches(t) : p = q
  /\ found' = [found EXCEPT ![t] = Matches(t)]
  /\ pc' = [pc EXCEPT ![t] = "insert"]
  /\ UNCHANGED <<database, list, place, added, items, turn, attempt, crashes, history>>

\* get_one_or_none raises when there are several.
Ambiguous(t) ==
  /\ pc[t] = "lookup"
  /\ \E p, q \in Matches(t) : p # q
  /\ RolledBack(t)

\* The book's row is to be inserted, and the index has an entry of its key,
\* of an open transaction or of a committed row.
Inserts(t) == pc[t] = "insert" /\ found[t] = {}
Holders(t) == {u \in Threads \ {t} : \E row \in added[u] : row.book = Book(t)}
Waits(t)    == Inserts(t) /\ Book(t) \in Keyed /\ Holders(t) # {}

Violates(t) ==
  /\ Inserts(t) /\ Book(t) \in Keyed /\ Holders(t) = {}
  /\ \E row \in book_cache : row.book = Book(t)

\* Mutant: one step past the end of the list.
Following_one_too_many(t) == IF place[t] <= Len(list[t]) THEN "lookup" ELSE "commit"

Following(t) == IF place[t] < Len(list[t]) THEN "lookup" ELSE "commit"

\* The book's row is added if there was none, and the item that refers to it.
Insert(t) ==
  LET new  == [id |-> [reply |-> ThisReply(t), place |-> place[t]], book |-> Book(t)]
      rows == IF found[t] = {} THEN {new} ELSE found[t]
  IN  /\ pc[t] = "insert"
      /\ ~Waits(t) /\ ~Violates(t)
      /\ added' = IF found[t] = {} THEN [added EXCEPT ![t] = @ \cup {new}] ELSE added
      /\ items' = [items EXCEPT ![t] = @ \cup
                     {[rank |-> place[t], book |-> Book(t), book_id |-> row.id] : row \in rows}]
      /\ found' = [found EXCEPT ![t] = {}]
      /\ place' = [place EXCEPT ![t] = @ + 1]
      /\ pc' = [pc EXCEPT ![t] = Following(t)]
      /\ UNCHANGED <<database, list, turn, attempt, crashes, history>>

UniqueViolation(t) == Violates(t) /\ RolledBack(t)

\* The threads of a cycle of waiting transactions.
InCycle(t) ==
  \E cycle \in SUBSET Threads :
     /\ t \in cycle
     /\ \A u \in cycle : /\ Waits(u) /\ Holders(u) \cap cycle # {}
                         /\ \E v \in cycle : Waits(v) /\ u \in Holders(v)

\* The deadlock detector picks one.
DeadlockAborts(t) == InCycle(t) /\ RolledBack(t)

\* The scope commits when the block ends.  The connection may break after the
\* commit: respond takes that for a failure.
Commit(t) ==
  /\ pc[t] = "commit"
  /\ book_cache' = book_cache \cup added[t]
  /\ sessions' = sessions \cup {[reply |-> ThisReply(t), books |-> list[t], items |-> items[t]]}
  /\ added' = [added EXCEPT ![t] = {}]
  /\ items' = [items EXCEPT ![t] = {}]
  /\ pc' \in {[pc EXCEPT ![t] = "done"], [pc EXCEPT ![t] = AfterFailure]}
  /\ UNCHANGED <<list, place, found, turn, attempt, crashes, history>>

\* Any statement, or the commit, may fail.
Fails(t) == pc[t] \in Open /\ RolledBack(t)

\* respond returns and its reply is checkpointed.
Answer(t) ==
  /\ pc[t] = "done"
  /\ answered' = answered \cup {ThisReply(t)}
  /\ pc' = [pc EXCEPT ![t] = "idle"]
  /\ list' = [list EXCEPT ![t] = <<>>]
  /\ place' = [place EXCEPT ![t] = 0]
  /\ UNCHANGED <<database, found, added, items, turn, attempt, crashes, interrupted, met>>

\* The process ends; the database rolls back what was open.
Crash ==
  /\ crashes < MaxCrashes
  /\ crashes' = crashes + 1
  /\ pc' = [t \in Threads |-> IF pc[t] = "idle" THEN "idle" ELSE "crashed"]
  /\ interrupted' = interrupted \cup
       {ThisReply(t) : t \in {u \in Threads : pc[u] \notin {"idle", "crashed"}}}
  /\ found' = [t \in Threads |-> {}] /\ added' = found' /\ items' = found'
  /\ UNCHANGED <<database, list, place, turn, attempt, answered, met>>

\* What goes on without anybody's help.
Progress(t) ==
  \/ Begin(t) \/ NothingToStore(t)
  \/ Lookup(t) \/ Ambiguous(t)
  \/ Insert(t) \/ UniqueViolation(t)
  \/ Commit(t)
  \/ Answer(t)

Next ==
  \/ \E t \in Threads :
       \/ \E books \in Lists : Compose(t, books)
       \/ Rerun(t)
       \/ Progress(t)
       \/ DeadlockAborts(t)
       \/ Fails(t)
  \/ Crash

Spec == Init /\ [][Next]_vars

\* A thread goes on unless its transaction waits for another's; the database
\* resolves deadlocks.  No statement has a timeout.
FairSpec ==
  /\ Spec
  /\ \A t \in Threads : WF_vars(Progress(t))
  /\ WF_vars(\E t \in Threads : DeadlockAborts(t))

-----------------------------------------------------------------------------
(***************************************************************************)
(* A recommendation is stored whole or not at all: every place of the list *)
(* has its item, which refers to a committed row of the same book          *)
(* (_persist_recommendation under session_scope).                          *)
(***************************************************************************)
StoredWhole ==
  \A session \in sessions :
     /\ {item.rank : item \in session.items} = 1..Len(session.books)
     /\ \A p, q \in session.items : p.rank = q.rank => p = q
     /\ \A item \in session.items :
           /\ item.book = session.books[item.rank]
           /\ \E row \in book_cache : row.id = item.book_id /\ row.book = item.book

(***************************************************************************)
(* Two rows of one book can only be those of a book without an author,     *)
(* added by two transactions that were open at the same time               *)
(* (save_recommendation_items, book_cache_title_author_key).               *)
(***************************************************************************)
DuplicatesAreConcurrent ==
  \A p, q \in book_cache :
     p # q /\ p.book = q.book =>
        p.book \in Authorless /\ {p.id.reply, q.id.reply} \in met /\ p.id.reply # q.id.reply

(***************************************************************************)
(* What is stored was said: a session's reply reached the thread, or is    *)
(* about to, or a crash came in between.  So a turn has a second session   *)
(* only after a crash, and a failure to store costs no reply (respond).    *)
(***************************************************************************)
StoredIsAnswered ==
  \A session \in sessions :
     LET reply == session.reply IN
     \/ reply \in answered \cup interrupted
     \/ pc[reply.thread] = "done" /\ reply = ThisReply(reply.thread)

(***************************************************************************)
(* Every reply is given unless the process crashes: no transaction of      *)
(* another thread holds it up for good, whichever way storing fails        *)
(* (respond, session_scope).                                               *)
(***************************************************************************)
ReplyIsGiven ==
  \A t \in Threads :
     pc[t] = "composed" ~> (pc[t] = "crashed" \/ ThisReply(t) \in answered)

(***************************************************************************)
(* What the docstrings of BookCache and of its repository say: a book is   *)
(* unique by title and author.                                             *)
(***************************************************************************)
BooksUnique == \A p, q \in book_cache : p.book = q.book => p = q
=============================================================================

---------------------- MODULE RecommendationStoreProofs ----------------------
(***************************************************************************)
(* Proofs about RecommendationStore, for every set of threads, books and   *)
(* lists: type correctness, that a recommendation is stored whole, that    *)
(* what is stored is answered, and which rows of the cache may be double.  *)
(***************************************************************************)
EXTENDS RecommendationStore, SequenceTheorems, TLAPS

(***************************************************************************)
(* The inductive invariant.                                                *)
(***************************************************************************)

\* What a transaction did is gone with it.
Scoped ==
  \A t \in Threads : pc[t] \notin Open => found[t] = {} /\ added[t] = {} /\ items[t] = {}

\* What was found is the one visible row of the book.
FoundIsVisible ==
  \A t \in Threads : /\ found[t] # {} => pc[t] = "insert" /\ found[t] \subseteq Matches(t)
                     /\ \A p, q \in found[t] : p = q

\* The items of a transaction are those of the places before the next.
StoredSoFar ==
  \A t \in Threads : pc[t] \in Open =>
     /\ place[t] \in 1..Len(list[t]) + 1
     /\ pc[t] = "commit" => place[t] = Len(list[t]) + 1
     /\ {item.rank : item \in items[t]} = 1..place[t] - 1
     /\ \A p, q \in items[t] : p.rank = q.rank => p = q
     /\ \A item \in items[t] :
           /\ item.book = list[t][item.rank]
           /\ \E row \in Visible(t) : row.id = item.book_id /\ row.book = item.book

\* A transaction adds rows under its own reply, one for a book.
OwnRows ==
  \A t \in Threads :
     /\ \A row \in added[t] : row.id.reply = ThisReply(t)
     /\ \A p, q \in added[t] : p.book = q.book => p = q
     /\ Inserts(t) => \A row \in added[t] : row.book # Book(t)

\* A committed row is of a reply that is not about to store, or not any more.
Over(reply) ==
  LET t == reply.thread IN
  \/ reply.turn < turn[t]
  \/ reply.turn = turn[t] /\ reply.attempt < attempt[t]
  \/ reply = ThisReply(t) /\ pc[t] \notin Open \cup {"composed"}

RowsAreOver == \A row \in book_cache : Over(row.id.reply)

\* The index: of a book with an author there is one row, committed or not.
KeyedOnce ==
  /\ \A p, q \in book_cache : p.book = q.book /\ p.book \in Keyed => p = q
  /\ \A t \in Threads : \A p \in added[t] : p.book \in Keyed =>
        /\ \A q \in book_cache : p.book # q.book
        /\ \A u \in Threads \ {t} : \A q \in added[u] : p.book # q.book

\* Transactions that are open at once have met.
OpenHaveMet ==
  \A t, u \in Threads :
     t # u /\ pc[t] \in Open /\ pc[u] \in Open => {ThisReply(t), ThisReply(u)} \in met

\* A row that a transaction did not see when it looked was committed since.
UnseenHaveMet ==
  \A t \in Threads : \A q \in book_cache :
     /\ \A p \in added[t] : p.book = q.book => {ThisReply(t), q.id.reply} \in met
     /\ Inserts(t) /\ q.book = Book(t) => {ThisReply(t), q.id.reply} \in met

IInv == /\ TypeOK /\ Scoped /\ FoundIsVisible /\ StoredSoFar /\ OwnRows /\ RowsAreOver /\ KeyedOnce
        /\ OpenHaveMet /\ UnseenHaveMet /\ StoredWhole /\ DuplicatesAreConcurrent /\ StoredIsAnswered

-----------------------------------------------------------------------------
\* The assumptions in parts.
LEMMA ListsAreLists == ASSUME NEW books \in Lists PROVE books \in Seq(Books)
BY StoreAssumption

LEMMA PlacesOfList ==
  ASSUME NEW books \in Lists
  PROVE  Len(books) \in Nat /\ \A i \in 1..Len(books) : books[i] \in Books
BY ListsAreLists, LenProperties, ElementOfSeq

\* Whatever makes storing fail, the transaction is rolled back.
AbortsOpen(t) == pc[t] \in Open /\ RolledBack(t)

\* The ways a thread steps.
Steps(t) ==
  \/ \E books \in Lists : Compose(t, books)
  \/ Rerun(t) \/ Begin(t) \/ NothingToStore(t) \/ Lookup(t) \/ Insert(t)
  \/ AbortsOpen(t) \/ Commit(t) \/ Answer(t)

LEMMA NextSteps ==
  ASSUME [Next]_vars
  PROVE  (\E t \in Threads : Steps(t)) \/ Crash \/ UNCHANGED vars
<1>1. ASSUME NEW t \in Threads, Ambiguous(t) \/ UniqueViolation(t) \/ DeadlockAborts(t) \/ Fails(t)
      PROVE  AbortsOpen(t)
  BY <1>1 DEF Ambiguous, UniqueViolation, Violates, Inserts, DeadlockAborts, InCycle, Waits, Fails,
              AbortsOpen, Open
<1> QED BY <1>1 DEF Next, Progress, Steps

LEMMA InitIInv == Init => IInv
<1> SUFFICES ASSUME Init PROVE IInv
  OBVIOUS
<1> USE DEF Init
<1>1. TypeOK
  BY StoreAssumption DEF TypeOK
<1>2. Scoped /\ FoundIsVisible /\ OwnRows /\ RowsAreOver /\ KeyedOnce /\ UnseenHaveMet
  BY DEF Scoped, FoundIsVisible, OwnRows, Inserts, RowsAreOver, KeyedOnce, UnseenHaveMet
<1>3. StoredSoFar /\ OpenHaveMet
  BY DEF StoredSoFar, OpenHaveMet, Open
<1>4. StoredWhole /\ DuplicatesAreConcurrent /\ StoredIsAnswered
  BY DEF StoredWhole, DuplicatesAreConcurrent, StoredIsAnswered
<1> QED BY <1>1, <1>2, <1>3, <1>4 DEF IInv

-----------------------------------------------------------------------------
\* A thread that executes respond has a reply.
LEMMA ReplyType ==
  ASSUME TypeOK, NEW t \in Threads, pc[t] # "idle"
  PROVE  ThisReply(t) \in Reply /\ ThisReply(t).thread = t
<1>1. turn[t] \in 1..MaxTurns /\ attempt[t] \in Nat
  BY StoreAssumption DEF TypeOK
<1> QED BY <1>1 DEF ThisReply, Reply

\* The book at the place that is stored next.
LEMMA BookType ==
  ASSUME TypeOK, NEW t \in Threads, pc[t] \in {"lookup", "insert"}
  PROVE  list[t] \in Lists /\ Book(t) \in Books /\ place[t] \in 1..Len(list[t])
<1>1. list[t] \in Lists /\ place[t] \in 1..Len(list[t])
  BY DEF TypeOK
<1> QED BY <1>1, PlacesOfList DEF Book

\* Every step keeps the types.
LEMMA NextTypeOK == TypeOK /\ [Next]_vars => TypeOK'
<1> SUFFICES ASSUME TypeOK, [Next]_vars PROVE TypeOK'
  OBVIOUS
<1> USE StoreAssumption
<1>1. ASSUME NEW t \in Threads, NEW books \in Lists, Compose(t, books)
      PROVE  TypeOK'
  BY <1>1 DEF Compose, database, history, TypeOK
<1>2. ASSUME NEW t \in Threads, Rerun(t)
      PROVE  TypeOK'
  BY <1>2 DEF Rerun, database, history, TypeOK
<1>3. ASSUME NEW t \in Threads, Begin(t)
      PROVE  TypeOK'
  <2>1. list[t] \in Seq(Books) /\ list[t] # <<>>
    BY <1>3, ListsAreLists DEF Begin, TypeOK
  <2>2. 1 \in 1..Len(list[t])
    <3>1. Len(list[t]) \in Nat \ {0}
      BY <2>1, EmptySeq
    <3> QED BY <3>1
  <2>3. met' \subseteq SUBSET Reply
    <3>1. \A u \in Threads : pc[u] \in Open => ThisReply(u) \in Reply
      BY ReplyType DEF Open
    <3>2. ThisReply(t) \in Reply
      BY <1>3, ReplyType DEF Begin
    <3> DEFINE pairs == {{ThisReply(t), ThisReply(u)} : u \in {v \in Threads \ {t} : pc[v] \in Open}}
    <3>3. met' = met \cup pairs
      BY <1>3 DEF Begin
    <3>4. ASSUME NEW pair \in pairs
          PROVE  pair \subseteq Reply
      <4>1. PICK u \in Threads : pc[u] \in Open /\ pair = {ThisReply(t), ThisReply(u)}
        OBVIOUS
      <4> QED BY <3>1, <3>2, <4>1
    <3> HIDE DEF pairs
    <3>5. met \subseteq SUBSET Reply
      BY DEF TypeOK
    <3> QED BY <3>3, <3>4, <3>5
  <2> QED BY <1>3, <2>2, <2>3 DEF Begin, database, TypeOK, Open
<1>4. ASSUME NEW t \in Threads, NothingToStore(t)
      PROVE  TypeOK'
  BY <1>4 DEF NothingToStore, database, history, TypeOK
<1>5. ASSUME NEW t \in Threads, Lookup(t)
      PROVE  TypeOK'
  <2>1. Matches(t) \subseteq BookRow
    BY DEF Matches, Visible, TypeOK
  <2> QED BY <1>5, <2>1 DEF Lookup, database, history, TypeOK, Open
<1>6. ASSUME NEW t \in Threads, Insert(t)
      PROVE  TypeOK'
  <2> DEFINE new == [id |-> [reply |-> ThisReply(t), place |-> place[t]], book |-> Book(t)]
  <2> DEFINE these == IF found[t] = {} THEN {new} ELSE found[t]
  <2> DEFINE made == {[rank |-> place[t], book |-> Book(t), book_id |-> row.id] : row \in these}
  <2>1. pc[t] = "insert" /\ place[t] \in 1..Len(list[t]) /\ Len(list[t]) \in Nat /\ place[t] \in Nat
    BY <1>6, BookType, PlacesOfList DEF Insert
  <2>2. new \in BookRow
    BY <2>1, BookType, ReplyType DEF BookRow, BookId
  <2>3. these \subseteq BookRow
    BY <2>2 DEF TypeOK
  <2>4. made \subseteq Item
    BY <2>1, <2>3, BookType DEF Item, BookRow
  <2>5. /\ added' = IF found[t] = {} THEN [added EXCEPT ![t] = @ \cup {new}] ELSE added
        /\ items' = [items EXCEPT ![t] = @ \cup made]
        /\ found' = [found EXCEPT ![t] = {}] /\ place' = [place EXCEPT ![t] = @ + 1]
        /\ pc' = [pc EXCEPT ![t] = Following(t)]
        /\ UNCHANGED <<database, list, turn, attempt, crashes, history>>
    BY <1>6 DEF Insert
  <2> HIDE DEF new, made
  <2>6. added' \in [Threads -> SUBSET BookRow] /\ items' \in [Threads -> SUBSET Item]
    BY <2>2, <2>4, <2>5 DEF TypeOK
  <2>7. /\ pc' \in [Threads -> Open \cup {"idle", "composed", "done", "crashed"}]
        /\ place' \in [Threads -> Nat]
    BY <2>1, <2>5 DEF TypeOK, Following, Open
  <2>8. \A u \in Threads : pc'[u] \in {"lookup", "insert"} => place'[u] \in 1..Len(list[u])
    BY <2>1, <2>5 DEF TypeOK, Following, Open
  <2>9. \A u \in Threads : pc'[u] # "idle" => list[u] \in Lists /\ turn[u] > 0
    BY <2>1, <2>5 DEF TypeOK
  <2> QED BY <2>5, <2>6, <2>7, <2>8, <2>9 DEF database, history, TypeOK
<1>7. ASSUME NEW t \in Threads, AbortsOpen(t)
      PROVE  TypeOK'
  BY <1>7 DEF AbortsOpen, RolledBack, AfterFailure, database, history, TypeOK, Open
<1>8. ASSUME NEW t \in Threads, Commit(t)
      PROVE  TypeOK'
  <2> DEFINE session == [reply |-> ThisReply(t), books |-> list[t], items |-> items[t]]
  <2>1. session \in Session
    BY <1>8, ReplyType DEF Commit, Session, TypeOK
  <2>2. sessions' = sessions \cup {session} /\ book_cache' = book_cache \cup added[t]
    BY <1>8 DEF Commit
  <2> HIDE DEF session
  <2>3. sessions' \subseteq Session /\ book_cache' \subseteq BookRow
    BY <2>1, <2>2 DEF TypeOK
  <2>4. pc' = [pc EXCEPT ![t] = "done"] /\ pc[t] # "idle"
    BY <1>8 DEF Commit, AfterFailure
  <2> QED BY <1>8, <2>3, <2>4 DEF Commit, history, TypeOK
<1>9. ASSUME NEW t \in Threads, Answer(t)
      PROVE  TypeOK'
  <2>1. ThisReply(t) \in Reply
    BY <1>9, ReplyType DEF Answer
  <2> QED BY <1>9, <2>1 DEF Answer, database, TypeOK
<1>10. ASSUME Crash
       PROVE  TypeOK'
  <2>1. interrupted' \subseteq Reply
    BY <1>10, ReplyType DEF Crash, TypeOK
  <2> QED BY <1>10, <2>1 DEF Crash, database, TypeOK
<1>11. ASSUME UNCHANGED vars
       PROVE  TypeOK'
  BY <1>11 DEF vars, database, history, TypeOK
<1> QED BY <1>1, <1>2, <1>3, <1>4, <1>5, <1>6, <1>7, <1>8, <1>9, <1>10, <1>11, NextSteps DEF Steps

-----------------------------------------------------------------------------
\* A thread's step leaves the others alone.
LEMMA Others ==
  ASSUME TypeOK, NEW t \in Threads, Steps(t), NEW u \in Threads \ {t}
  PROVE  /\ pc'[u] = pc[u] /\ list'[u] = list[u] /\ place'[u] = place[u] /\ found'[u] = found[u]
         /\ added'[u] = added[u] /\ items'[u] = items[u] /\ ThisReply(u)' = ThisReply(u)
<1>1. /\ pc'[u] = pc[u] /\ list'[u] = list[u] /\ place'[u] = place[u] /\ found'[u] = found[u]
      /\ added'[u] = added[u] /\ items'[u] = items[u] /\ turn'[u] = turn[u] /\ attempt'[u] = attempt[u]
  <2>1. CASE \E books \in Lists : Compose(t, books)
    BY <2>1 DEF Compose, TypeOK
  <2>2. CASE Rerun(t) \/ Begin(t) \/ NothingToStore(t) \/ Lookup(t)
    BY <2>2 DEF Rerun, Begin, NothingToStore, Lookup, TypeOK
  <2>3. CASE Insert(t)
    BY <2>3 DEF Insert, TypeOK
  <2>4. CASE AbortsOpen(t)
    BY <2>4 DEF AbortsOpen, RolledBack, TypeOK
  <2>5. CASE Commit(t)
    BY <2>5 DEF Commit, TypeOK
  <2>6. CASE Answer(t)
    BY <2>6 DEF Answer, TypeOK
  <2> QED BY <2>1, <2>2, <2>3, <2>4, <2>5, <2>6 DEF Steps
<1> QED BY <1>1 DEF ThisReply

\* The cache grows, and only by a commit; the same of the sessions.
LEMMA OnlyCommitsAdd ==
  ASSUME NEW t \in Threads, Steps(t)
  PROVE  /\ book_cache \subseteq book_cache'
         /\ ~Commit(t) => UNCHANGED database
         /\ Commit(t) => /\ book_cache' = book_cache \cup added[t]
                         /\ sessions' = sessions \cup
                              {[reply |-> ThisReply(t), books |-> list[t], items |-> items[t]]}
BY DEF Steps, Compose, Rerun, Begin, NothingToStore, Lookup, Insert, AbortsOpen, RolledBack, Commit,
       Answer, database

\* What a step does to the thread itself.
LEMMA ThisThread ==
  ASSUME TypeOK, NEW t \in Threads, Steps(t)
  PROVE  /\ ~(\E books \in Lists : Compose(t, books)) /\ ~Rerun(t) => ThisReply(t)' = ThisReply(t)
         /\ ~Insert(t) => \/ added'[t] = added[t] /\ items'[t] = items[t]
                          \/ added'[t] = {} /\ items'[t] = {}
         /\ pc'[t] \in Open => pc[t] \in Open \cup {"composed"}
         /\ pc'[t] \in Open /\ pc[t] \notin Open => Begin(t)
         /\ AbortsOpen(t) \/ Commit(t) =>
               pc'[t] = "done" /\ pc[t] \in Open /\ added'[t] = {} /\ items'[t] = {}
         /\ AbortsOpen(t) => found'[t] = {}
<1>1. ASSUME ~(\E books \in Lists : Compose(t, books)), ~Rerun(t)
      PROVE  ThisReply(t)' = ThisReply(t)
  <2>1. UNCHANGED <<turn, attempt>>
    BY <1>1 DEF Steps, Begin, NothingToStore, Lookup, Insert, AbortsOpen, RolledBack, Commit, Answer
  <2> QED BY <2>1 DEF ThisReply
<1>2. ASSUME AbortsOpen(t)
      PROVE  pc'[t] = "done" /\ pc[t] \in Open /\ added'[t] = {} /\ items'[t] = {} /\ found'[t] = {}
  BY <1>2 DEF AbortsOpen, RolledBack, AfterFailure, TypeOK
<1>3. ASSUME Commit(t)
      PROVE  pc'[t] = "done" /\ pc[t] \in Open /\ added'[t] = {} /\ items'[t] = {}
  <2>1. pc' = [pc EXCEPT ![t] = "done"]
    BY <1>3 DEF Commit, AfterFailure
  <2> QED BY <1>3, <2>1 DEF Commit, Open, TypeOK
<1>4. ASSUME ~Insert(t)
      PROVE  \/ added'[t] = added[t] /\ items'[t] = items[t]
             \/ added'[t] = {} /\ items'[t] = {}
  <2>1. ASSUME ~AbortsOpen(t), ~Commit(t)
        PROVE  UNCHANGED <<added, items>>
    BY <1>4, <2>1 DEF Steps, Compose, Rerun, Begin, NothingToStore, Lookup, Answer
  <2> QED BY <1>2, <1>3, <2>1
<1>5. ASSUME pc'[t] \in Open
      PROVE  pc[t] \in Open \/ Begin(t)
  BY <1>2, <1>3, <1>5 DEF Steps, Compose, Rerun, NothingToStore, Lookup, Insert, Answer, Open, TypeOK
<1>6. Begin(t) => pc[t] = "composed"
  BY DEF Begin
<1> QED BY <1>1, <1>2, <1>3, <1>4, <1>5, <1>6

\* What a transaction did is gone with it.
LEMMA NextScoped == TypeOK /\ Scoped /\ FoundIsVisible /\ [Next]_vars => Scoped'
<1> SUFFICES ASSUME TypeOK, Scoped, FoundIsVisible, [Next]_vars PROVE Scoped'
  OBVIOUS
<1>1. ASSUME NEW t \in Threads, Steps(t), NEW u \in Threads, pc'[u] \notin Open
      PROVE  found'[u] = {} /\ added'[u] = {} /\ items'[u] = {}
  <2>1. CASE u # t
    BY <1>1, <2>1, Others DEF Scoped
  <2>2. CASE u = t /\ pc[t] \in Open
    <3>1. AbortsOpen(t) \/ Commit(t)
      BY <1>1, <2>2 DEF Steps, Compose, Rerun, Begin, NothingToStore, Lookup, Insert, Following, Answer,
                        Open, TypeOK
    <3>2. Commit(t) => found'[t] = {}
      BY DEF Commit, FoundIsVisible
    <3> QED BY <1>1, <2>2, <3>1, <3>2, ThisThread
  <2>3. CASE u = t /\ pc[t] \notin Open
    <3>1. UNCHANGED <<found, added, items>>
      BY <1>1, <2>3 DEF Steps, Compose, Rerun, Begin, NothingToStore, Lookup, Insert, AbortsOpen, Commit,
                        Answer, Open
    <3> QED BY <2>3, <3>1 DEF Scoped
  <2> QED BY <2>1, <2>2, <2>3
<1>2. CASE Crash
  BY <1>2 DEF Crash, Scoped
<1>3. CASE UNCHANGED vars
  BY <1>3 DEF vars, Scoped
<1> QED BY <1>1, <1>2, <1>3, NextSteps DEF Scoped

\* What a lookup found stays visible and the only one.
LEMMA NextFoundIsVisible == TypeOK /\ FoundIsVisible /\ [Next]_vars => FoundIsVisible'
<1> SUFFICES ASSUME TypeOK, FoundIsVisible, [Next]_vars PROVE FoundIsVisible'
  OBVIOUS
<1>1. ASSUME NEW t \in Threads, Steps(t), NEW u \in Threads
      PROVE  /\ found'[u] # {} => pc'[u] = "insert" /\ found'[u] \subseteq Matches(u)'
             /\ \A p, q \in found'[u] : p = q
  <2>1. CASE u # t
    <3>1. Matches(u) \subseteq Matches(u)'
      BY <1>1, <2>1, Others, OnlyCommitsAdd DEF Matches, Visible, Book
    <3> QED BY <1>1, <2>1, <3>1, Others DEF FoundIsVisible
  <2>2. CASE u = t /\ Lookup(t)
    <3>1. Matches(t)' = Matches(t)
      BY <2>2 DEF Lookup, database, Matches, Visible, Book
    <3> QED BY <2>2, <3>1 DEF Lookup, TypeOK
  <2>3. CASE u = t /\ ~Lookup(t)
    <3>1. found'[t] = {}
      <4>1. CASE \/ \E books \in Lists : Compose(t, books)
                 \/ Rerun(t) \/ Begin(t) \/ NothingToStore(t) \/ Commit(t) \/ Answer(t)
        BY <4>1 DEF Compose, Rerun, Begin, NothingToStore, Commit, Answer, FoundIsVisible
      <4>2. CASE Insert(t)
        BY <4>2 DEF Insert, TypeOK
      <4> QED BY <1>1, <2>3, <4>1, <4>2, ThisThread DEF Steps
    <3> QED BY <2>3, <3>1
  <2> QED BY <2>1, <2>2, <2>3
<1>2. CASE Crash
  BY <1>2 DEF Crash, FoundIsVisible
<1>3. CASE UNCHANGED vars
  BY <1>3 DEF vars, database, FoundIsVisible, Matches, Visible, Book
<1> QED BY <1>1, <1>2, <1>3, NextSteps DEF FoundIsVisible

-----------------------------------------------------------------------------
\* The turn and the attempt of a thread are its own.
LEMMA OthersTurn ==
  ASSUME TypeOK, NEW t \in Threads, Steps(t), NEW u \in Threads \ {t}
  PROVE  turn'[u] = turn[u] /\ attempt'[u] = attempt[u]
<1>1. CASE \E books \in Lists : Compose(t, books)
  BY <1>1 DEF Compose, TypeOK
<1>2. CASE Rerun(t)
  BY <1>2 DEF Rerun, TypeOK
<1>3. CASE ~(\E books \in Lists : Compose(t, books)) /\ ~Rerun(t)
  BY <1>3 DEF Steps, Begin, NothingToStore, Lookup, Insert, AbortsOpen, RolledBack, Commit, Answer
<1> QED BY <1>1, <1>2, <1>3

\* An insert adds one item, and its row is visible.
LEMMA InsertOne ==
  ASSUME TypeOK, FoundIsVisible, NEW t \in Threads, Insert(t)
  PROVE  /\ pc[t] = "insert" /\ pc'[t] = Following(t)
         /\ place'[t] = place[t] + 1 /\ list' = list /\ book_cache' = book_cache
         /\ \/ found[t] # {} /\ added' = added
            \/ /\ Inserts(t) /\ ~Waits(t) /\ ~Violates(t)
               /\ \E row : /\ row.id.reply = ThisReply(t) /\ row.book = Book(t)
                           /\ added' = [added EXCEPT ![t] = added[t] \cup {row}]
         /\ \E row \in Visible(t)' :
               /\ row.book = Book(t)
               /\ items'[t] = items[t] \cup {[rank |-> place[t], book |-> Book(t), book_id |-> row.id]}
<1> DEFINE new == [id |-> [reply |-> ThisReply(t), place |-> place[t]], book |-> Book(t)]
<1> DEFINE these == IF found[t] = {} THEN {new} ELSE found[t]
<1> DEFINE Made(row) == [rank |-> place[t], book |-> Book(t), book_id |-> row.id]
<1>1. /\ pc[t] = "insert" /\ pc' = [pc EXCEPT ![t] = Following(t)]
      /\ place' = [place EXCEPT ![t] = @ + 1] /\ list' = list /\ book_cache' = book_cache
      /\ added' = IF found[t] = {} THEN [added EXCEPT ![t] = @ \cup {new}] ELSE added
      /\ items' = [items EXCEPT ![t] = @ \cup {Made(row) : row \in these}]
      /\ ~Waits(t) /\ ~Violates(t)
  BY DEF Insert, database
<1>2. pc'[t] = Following(t) /\ place'[t] = place[t] + 1
  BY <1>1 DEF TypeOK
<1>3. new.id.reply = ThisReply(t) /\ new.book = Book(t)
  OBVIOUS
<1>4. \/ found[t] # {} /\ added' = added
      \/ /\ Inserts(t)
         /\ \E row : /\ row.id.reply = ThisReply(t) /\ row.book = Book(t)
                     /\ added' = [added EXCEPT ![t] = added[t] \cup {row}]
  <2> HIDE DEF new
  <2> QED BY <1>1, <1>3 DEF Inserts
<1>5. PICK row : these = {row} /\ row.book = Book(t) /\ row \in Visible(t)'
  <2>1. CASE found[t] = {}
    <3>1. new \in Visible(t)'
      BY <1>1, <2>1 DEF Visible, TypeOK
    <3> QED BY <1>3, <2>1, <3>1
  <2>2. CASE found[t] # {}
    <3>1. PICK row : found[t] = {row} /\ row \in Matches(t)
      BY <2>2 DEF FoundIsVisible
    <3>2. row.book = Book(t) /\ row \in Visible(t)
      BY <3>1 DEF Matches
    <3>3. row \in Visible(t)'
      BY <1>1, <2>2, <3>2 DEF Visible
    <3> QED BY <2>2, <3>1, <3>2, <3>3
  <2> QED BY <2>1, <2>2
<1>6. items'[t] = items[t] \cup {Made(row)}
  <2>1. {Made(r) : r \in these} = {Made(row)}
    BY <1>5
  <2> HIDE DEF Made, these
  <2> QED BY <1>1, <2>1 DEF TypeOK
<1> QED BY <1>1, <1>2, <1>4, <1>5, <1>6

\* The items of a transaction are those of the places before the next.
LEMMA NextStoredSoFar ==
  TypeOK /\ Scoped /\ FoundIsVisible /\ StoredSoFar /\ [Next]_vars => StoredSoFar'
<1> SUFFICES ASSUME TypeOK, Scoped, FoundIsVisible, StoredSoFar, [Next]_vars PROVE StoredSoFar'
  OBVIOUS
<1> DEFINE Good(u) ==
      /\ place[u] \in 1..Len(list[u]) + 1
      /\ pc[u] = "commit" => place[u] = Len(list[u]) + 1
      /\ {item.rank : item \in items[u]} = 1..place[u] - 1
      /\ \A p, q \in items[u] : p.rank = q.rank => p = q
      /\ \A item \in items[u] :
            /\ item.book = list[u][item.rank]
            /\ \E row \in Visible(u) : row.id = item.book_id /\ row.book = item.book
<1>1. ASSUME NEW u \in Threads, pc[u] \in Open, Visible(u) \subseteq Visible(u)',
             pc'[u] \in {pc[u], "lookup", "insert"}, place'[u] = place[u], list'[u] = list[u], items'[u] = items[u]
      PROVE  Good(u)'
  <2>1. Good(u)
    BY <1>1 DEF StoredSoFar
  <2>2. \A item \in items[u] : \E row \in Visible(u)' : row.id = item.book_id /\ row.book = item.book
    BY <1>1, <2>1
  <2> QED BY <1>1, <2>1, <2>2
<1>2. ASSUME NEW t \in Threads, Steps(t), NEW u \in Threads, u # t, pc'[u] \in Open
      PROVE  Good(u)'
  <2>1. Visible(u) \subseteq Visible(u)'
    BY <1>2, Others, OnlyCommitsAdd DEF Visible
  <2> HIDE DEF Good
  <2> QED BY <1>1, <1>2, <2>1, Others
<1>3. ASSUME NEW t \in Threads, Begin(t)
      PROVE  Good(t)'
  <2>1. items[t] = {} /\ list[t] \in Lists
    BY <1>3 DEF Begin, Scoped, Open, TypeOK
  <2>2. items'[t] = {} /\ list'[t] = list[t] /\ place'[t] = 1 /\ pc'[t] = "lookup"
    BY <1>3, <2>1 DEF Begin, TypeOK
  <2>3. Len(list[t]) \in Nat
    BY <2>1, PlacesOfList
  <2> QED BY <2>2, <2>3
<1>4. ASSUME NEW t \in Threads, Lookup(t)
      PROVE  Good(t)'
  <2>1. pc[t] \in Open /\ pc'[t] = "insert" /\ place' = place /\ list' = list /\ items' = items
        /\ Visible(t)' = Visible(t)
    BY <1>4 DEF Lookup, Open, TypeOK, Visible, database
  <2> HIDE DEF Good
  <2> QED BY <1>1, <2>1
<1>5. ASSUME NEW t \in Threads, Insert(t)
      PROVE  Good(t)'
  <2>1. PICK row \in Visible(t)' :
           /\ row.book = Book(t)
           /\ items'[t] = items[t] \cup {[rank |-> place[t], book |-> Book(t), book_id |-> row.id]}
    BY <1>5, InsertOne
  <2>2. pc[t] = "insert" /\ pc'[t] = Following(t) /\ place'[t] = place[t] + 1 /\ list' = list
    BY <1>5, InsertOne
  <2>3. place[t] \in 1..Len(list[t]) /\ Len(list[t]) \in Nat
    BY <2>2, BookType, PlacesOfList
  <2>4. Good(t)
    BY <2>2 DEF StoredSoFar, Open
  <2>5. place'[t] \in 1..Len(list'[t]) + 1 /\ (pc'[t] = "commit" => place'[t] = Len(list'[t]) + 1)
    BY <2>2, <2>3 DEF Following
  <2>6. {item.rank : item \in items'[t]} = 1..place'[t] - 1
    <3> DEFINE item0 == [rank |-> place[t], book |-> Book(t), book_id |-> row.id]
    <3>1. {item.rank : item \in items'[t]} = {item.rank : item \in items[t]} \cup {place[t]}
      <4>1. item0.rank = place[t] /\ items'[t] = items[t] \cup {item0}
        BY <2>1
      <4> HIDE DEF item0
      <4> QED BY <4>1
    <3>2. 1..place'[t] - 1 = 1..(place[t] - 1) \cup {place[t]}
      BY <2>2, <2>3
    <3> QED BY <2>4, <3>1, <3>2
  <2>7. \A p \in items[t] : p.rank # place[t]
    <3>1. \A p \in items[t] : p.rank \in 1..place[t] - 1
      BY <2>4
    <3> QED BY <2>3, <3>1
  <2>8. \A p, q \in items'[t] : p.rank = q.rank => p = q
    <3> DEFINE item0 == [rank |-> place[t], book |-> Book(t), book_id |-> row.id]
    <3>1. item0.rank = place[t] /\ items'[t] = items[t] \cup {item0}
      BY <2>1
    <3> HIDE DEF item0
    <3> QED BY <2>4, <2>7, <3>1
  <2>9. Visible(t) \subseteq Visible(t)'
    <3>1. added[t] \subseteq added'[t]
      <4>1. CASE added' = added
        BY <4>1
      <4>2. CASE \E r : added' = [added EXCEPT ![t] = added[t] \cup {r}]
        BY <4>2 DEF TypeOK
      <4> QED BY <1>5, <4>1, <4>2, InsertOne
    <3>2. book_cache' = book_cache
      BY <1>5, InsertOne
    <3> QED BY <3>1, <3>2 DEF Visible
  <2>10. ASSUME NEW item \in items'[t]
         PROVE  /\ item.book = list'[t][item.rank]
                /\ \E r \in Visible(t)' : r.id = item.book_id /\ r.book = item.book
    <3>1. CASE item \in items[t]
      BY <2>2, <2>4, <2>9, <3>1
    <3>2. CASE item = [rank |-> place[t], book |-> Book(t), book_id |-> row.id]
      <4>1. item.rank = place[t] /\ item.book = Book(t) /\ item.book_id = row.id
        BY <3>2
      <4>2. item.book = list'[t][item.rank]
        BY <2>2, <4>1 DEF Book
      <4> QED BY <2>1, <4>1, <4>2
    <3> QED BY <2>1, <3>1, <3>2
  <2> QED BY <2>5, <2>6, <2>8, <2>10
<1>6. ASSUME NEW t \in Threads, Steps(t), pc'[t] \in Open
      PROVE  Begin(t) \/ Lookup(t) \/ Insert(t)
  <2>1. ~AbortsOpen(t) /\ ~Commit(t)
    BY <1>6, ThisThread DEF Open
  <2>2. ASSUME (\E books \in Lists : Compose(t, books)) \/ Rerun(t) \/ NothingToStore(t) \/ Answer(t)
        PROVE  FALSE
    BY <1>6, <2>2 DEF Compose, Rerun, NothingToStore, Answer, Open, TypeOK
  <2> QED BY <1>6, <2>1, <2>2 DEF Steps
<1>7. ASSUME NEW t \in Threads, Steps(t), NEW u \in Threads, pc'[u] \in Open
      PROVE  Good(u)'
  <2> HIDE DEF Good
  <2> QED BY <1>2, <1>3, <1>4, <1>5, <1>6, <1>7
<1>8. ASSUME Crash
      PROVE  \A u \in Threads : pc'[u] \notin Open
  BY <1>8 DEF Crash, Open
<1>9. ASSUME UNCHANGED vars, NEW u \in Threads, pc'[u] \in Open
      PROVE  Good(u)'
  <2>1. Visible(u)' = Visible(u)
    BY <1>9 DEF vars, database, Visible
  <2> HIDE DEF Good
  <2> QED BY <1>1, <1>9, <2>1 DEF vars
<1>10. \A u \in Threads : pc'[u] \in Open => Good(u)'
  <2> HIDE DEF Good
  <2> QED BY <1>7, <1>8, <1>9, NextSteps
<1> QED BY <1>10 DEF StoredSoFar

-----------------------------------------------------------------------------
\* A step that does not insert adds nothing.
LEMMA OnlyInsertsAdd ==
  ASSUME TypeOK, NEW t \in Threads, Steps(t), ~Insert(t), NEW u \in Threads
  PROVE  added'[u] \subseteq added[u]
BY Others, ThisThread

\* A transaction adds rows under its own reply, one for a book.
LEMMA NextOwnRows == TypeOK /\ Scoped /\ FoundIsVisible /\ OwnRows /\ [Next]_vars => OwnRows'
<1> SUFFICES ASSUME TypeOK, Scoped, FoundIsVisible, OwnRows, [Next]_vars PROVE OwnRows'
  OBVIOUS
<1> DEFINE Own(u) ==
      /\ \A row \in added[u] : row.id.reply = ThisReply(u)
      /\ \A p, q \in added[u] : p.book = q.book => p = q
      /\ Inserts(u) => \A row \in added[u] : row.book # Book(u)
<1>1. ASSUME NEW t \in Threads, Steps(t), NEW u \in Threads, u # t
      PROVE  Own(u)'
  <2>1. pc'[u] = pc[u] /\ list'[u] = list[u] /\ place'[u] = place[u] /\ found'[u] = found[u]
        /\ added'[u] = added[u] /\ ThisReply(u)' = ThisReply(u)
    BY <1>1, Others
  <2>2. Inserts(u)' <=> Inserts(u)
    BY <2>1 DEF Inserts
  <2>3. Book(u)' = Book(u)
    BY <2>1 DEF Book
  <2> QED BY <2>1, <2>2, <2>3 DEF OwnRows
<1>2. ASSUME NEW u \in Threads, added'[u] = {}
      PROVE  Own(u)'
  BY <1>2
<1>3. ASSUME NEW t \in Threads, (\E books \in Lists : Compose(t, books)) \/ Rerun(t)
      PROVE  Own(t)'
  <2>1. pc[t] \notin Open /\ added' = added
    BY <1>3 DEF Compose, Rerun, Open
  <2> HIDE DEF Own
  <2> QED BY <1>2, <2>1 DEF Scoped
<1>4. ASSUME NEW t \in Threads, Lookup(t)
      PROVE  Own(t)'
  <2>1. added' = added /\ ThisReply(t)' = ThisReply(t) /\ Book(t)' = Book(t) /\ found'[t] = Matches(t)
    BY <1>4 DEF Lookup, ThisReply, Book, TypeOK
  <2>2. Inserts(t)' => \A row \in added[t] : row.book # Book(t)
    BY <2>1 DEF Inserts, Matches, Visible
  <2> QED BY <2>1, <2>2 DEF OwnRows
<1>5. ASSUME NEW t \in Threads, Insert(t)
      PROVE  Own(t)'
  <2>1. ThisReply(t)' = ThisReply(t) /\ pc'[t] # "insert"
    BY <1>5 DEF Insert, ThisReply, Following, TypeOK
  <2>2. ~Inserts(t)'
    BY <2>1 DEF Inserts
  <2>3. CASE added' = added
    BY <2>1, <2>2, <2>3 DEF OwnRows
  <2>4. CASE Inserts(t) /\ \E row : /\ row.id.reply = ThisReply(t) /\ row.book = Book(t)
                                    /\ added' = [added EXCEPT ![t] = added[t] \cup {row}]
    <3>1. PICK row : /\ row.id.reply = ThisReply(t) /\ row.book = Book(t)
                     /\ added'[t] = added[t] \cup {row}
      BY <2>4 DEF TypeOK
    <3> QED BY <2>1, <2>2, <2>4, <3>1 DEF OwnRows
  <2> QED BY <1>5, <2>3, <2>4, InsertOne
<1>6. ASSUME NEW t \in Threads, Begin(t) \/ NothingToStore(t) \/ Answer(t)
      PROVE  Own(t)'
  <2>1. pc[t] \notin Open /\ added' = added
    BY <1>6 DEF Begin, NothingToStore, Answer, Open
  <2> HIDE DEF Own
  <2> QED BY <1>2, <2>1 DEF Scoped
<1>7. ASSUME NEW t \in Threads, Steps(t)
      PROVE  Own(t)'
  <2>1. CASE AbortsOpen(t) \/ Commit(t)
    <3>1. added'[t] = {}
      BY <1>7, <2>1, ThisThread
    <3> HIDE DEF Own
    <3> QED BY <1>2, <3>1
  <2> HIDE DEF Own
  <2> QED BY <1>3, <1>4, <1>5, <1>6, <1>7, <2>1 DEF Steps
<1>8. ASSUME Crash, NEW u \in Threads
      PROVE  Own(u)'
  <2>1. added'[u] = {}
    BY <1>8 DEF Crash
  <2> HIDE DEF Own
  <2> QED BY <1>2, <2>1
<1>9. CASE UNCHANGED vars
  BY <1>9 DEF vars, OwnRows, Inserts, Book, ThisReply
<1>10. ASSUME ~UNCHANGED vars
       PROVE  \A u \in Threads : Own(u)'
  <2> HIDE DEF Own
  <2> QED BY <1>1, <1>7, <1>8, <1>10, NextSteps
<1>11. (\A u \in Threads : Own(u)') => OwnRows'
  BY DEF OwnRows
<1> HIDE DEF Own
<1> QED BY <1>9, <1>10, <1>11

\* A committed row is of a reply that is over.
LEMMA NextRowsAreOver == TypeOK /\ OwnRows /\ RowsAreOver /\ [Next]_vars => RowsAreOver'
<1> SUFFICES ASSUME TypeOK, OwnRows, RowsAreOver, [Next]_vars PROVE RowsAreOver'
  OBVIOUS
<1>1. ASSUME NEW row \in book_cache
      PROVE  /\ row.id.reply \in Reply /\ row.id.reply.thread \in Threads
             /\ row.id.reply.turn \in Nat /\ row.id.reply.attempt \in Nat
  <2>1. row.id.reply \in Reply
    BY DEF TypeOK, BookRow, BookId
  <2> QED BY <2>1, StoreAssumption DEF Reply
<1>2. ASSUME NEW t \in Threads, Steps(t), NEW reply \in Reply, Over(reply)
      PROVE  Over(reply)'
  <2> DEFINE v == reply.thread
  <2>1. v \in Threads /\ reply.turn \in Nat /\ reply.attempt \in Nat
    BY StoreAssumption DEF Reply
  <2>2. CASE v # t
    BY <1>2, <2>1, <2>2, Others, OthersTurn DEF Over
  <2>3. CASE v = t /\ \E books \in Lists : Compose(t, books)
    <3>1. turn'[t] = turn[t] + 1 /\ turn[t] \in Nat
      BY <2>3, StoreAssumption DEF Compose, TypeOK
    <3>2. reply.turn <= turn[t]
      BY <1>2, <2>1, <2>3, <3>1 DEF Over, ThisReply
    <3>3. reply.turn < turn'[t]
      BY <2>1, <3>1, <3>2
    <3> QED BY <2>3, <3>3 DEF Over
  <2>4. CASE v = t /\ Rerun(t)
    <3>1. turn' = turn /\ attempt'[t] = attempt[t] + 1 /\ attempt[t] \in Nat
      BY <2>4 DEF Rerun, TypeOK
    <3>2. reply.turn < turn[t] \/ (reply.turn = turn[t] /\ reply.attempt <= attempt[t])
      BY <1>2, <2>1, <2>4, <3>1 DEF Over, ThisReply
    <3>3. reply.turn < turn'[t] \/ (reply.turn = turn'[t] /\ reply.attempt < attempt'[t])
      BY <2>1, <3>1, <3>2
    <3> QED BY <2>4, <3>3 DEF Over
  <2>5. CASE v = t /\ ~(\E books \in Lists : Compose(t, books)) /\ ~Rerun(t)
    <3>1. UNCHANGED <<turn, attempt>> /\ ThisReply(t)' = ThisReply(t)
      BY <1>2, <2>5, ThisThread DEF Steps, Begin, NothingToStore, Lookup, Insert, AbortsOpen, RolledBack,
                                    Commit, Answer
    <3>2. pc[t] \notin Open \cup {"composed"} => pc'[t] \notin Open \cup {"composed"}
      BY <1>2, <2>5 DEF Steps, Begin, NothingToStore, Lookup, Insert, AbortsOpen, Commit, Answer, Open, TypeOK
    <3> QED BY <1>2, <2>5, <3>1, <3>2 DEF Over
  <2> QED BY <2>2, <2>3, <2>4, <2>5
<1>3. ASSUME NEW t \in Threads, Steps(t), NEW row \in book_cache'
      PROVE  Over(row.id.reply)'
  <2>1. CASE row \in book_cache
    BY <1>1, <1>2, <1>3, <2>1 DEF RowsAreOver
  <2>2. CASE row \notin book_cache
    <3>1. Commit(t) /\ row \in added[t]
      BY <1>3, <2>2, OnlyCommitsAdd DEF database
    <3>2. row.id.reply = ThisReply(t) /\ ThisReply(t)' = ThisReply(t)
      BY <3>1 DEF OwnRows, Commit, ThisReply
    <3>3. pc'[t] = "done" /\ ThisReply(t).thread = t
      BY <1>3, <3>1, ThisThread DEF ThisReply
    <3> QED BY <3>2, <3>3 DEF Over, Open
  <2> QED BY <2>1, <2>2
<1>4. CASE Crash
  <2>1. UNCHANGED <<turn, attempt, book_cache>> /\ \A u \in Threads : ThisReply(u)' = ThisReply(u)
    BY <1>4 DEF Crash, ThisReply, database
  <2>2. \A u \in Threads : pc'[u] \notin Open \cup {"composed"}
    BY <1>4 DEF Crash, Open
  <2> QED BY <1>1, <2>1, <2>2 DEF RowsAreOver, Over
<1>5. CASE UNCHANGED vars
  BY <1>5 DEF vars, database, RowsAreOver, Over, ThisReply
<1> QED BY <1>3, <1>4, <1>5, NextSteps DEF RowsAreOver

-----------------------------------------------------------------------------
\* Of a book with an author there is one row.
LEMMA NextKeyedOnce ==
  TypeOK /\ Scoped /\ FoundIsVisible /\ OwnRows /\ KeyedOnce /\ [Next]_vars => KeyedOnce'
<1> SUFFICES ASSUME TypeOK, Scoped, FoundIsVisible, OwnRows, KeyedOnce, [Next]_vars PROVE KeyedOnce'
  OBVIOUS
<1>1. ASSUME book_cache' = book_cache, \A u \in Threads : added'[u] \subseteq added[u]
      PROVE  KeyedOnce'
  BY <1>1 DEF KeyedOnce
<1>2. ASSUME NEW t \in Threads, Insert(t)
      PROVE  KeyedOnce'
  <2>1. CASE added' = added
    BY <1>1, <1>2, <2>1, InsertOne
  <2>2. CASE /\ Inserts(t) /\ ~Waits(t) /\ ~Violates(t)
             /\ \E row : /\ row.id.reply = ThisReply(t) /\ row.book = Book(t)
                         /\ added' = [added EXCEPT ![t] = added[t] \cup {row}]
    <3>1. PICK row : row.book = Book(t) /\ added' = [added EXCEPT ![t] = added[t] \cup {row}]
      BY <2>2
    <3>2. added'[t] = added[t] \cup {row} /\ \A u \in Threads \ {t} : added'[u] = added[u]
      BY <3>1 DEF TypeOK
    <3>3. Book(t) \in Keyed =>
             /\ \A q \in book_cache : q.book # Book(t)
             /\ \A u \in Threads \ {t} : \A q \in added[u] : q.book # Book(t)
      BY <2>2 DEF Waits, Violates, Holders
    <3>4. book_cache' = book_cache
      BY <1>2, InsertOne
    <3>5. ASSUME NEW v \in Threads, NEW p \in added'[v], p.book \in Keyed
          PROVE  /\ \A q \in book_cache : p.book # q.book
                 /\ \A u \in Threads \ {v} : \A q \in added'[u] : p.book # q.book
      <4>1. CASE p \in added[v]
        BY <3>1, <3>2, <3>3, <3>5, <4>1 DEF KeyedOnce
      <4>2. CASE p \notin added[v]
        BY <3>1, <3>2, <3>3, <3>5, <4>2
      <4> QED BY <4>1, <4>2
    <3> QED BY <3>4, <3>5 DEF KeyedOnce
  <2> QED BY <1>2, <2>1, <2>2, InsertOne
<1>3. ASSUME NEW t \in Threads, Commit(t)
      PROVE  KeyedOnce'
  <2>1. Steps(t)
    BY <1>3 DEF Steps
  <2>2. book_cache' = book_cache \cup added[t] /\ added'[t] = {}
    BY <1>3, <2>1, OnlyCommitsAdd, ThisThread
  <2>3. \A u \in Threads \ {t} : added'[u] = added[u]
    BY <2>1, Others
  <2>4. \A p, q \in book_cache' : p.book = q.book /\ p.book \in Keyed => p = q
    BY <2>2 DEF KeyedOnce, OwnRows
  <2>5. \A v \in Threads : \A p \in added'[v] : p.book \in Keyed => \A q \in book_cache' : p.book # q.book
    BY <2>2, <2>3 DEF KeyedOnce
  <2>6. \A v \in Threads : \A p \in added'[v] : p.book \in Keyed =>
           \A u \in Threads \ {v} : \A q \in added'[u] : p.book # q.book
    BY <2>2, <2>3 DEF KeyedOnce
  <2> QED BY <2>4, <2>5, <2>6 DEF KeyedOnce
<1>4. ASSUME NEW t \in Threads, Steps(t), ~Insert(t), ~Commit(t)
      PROVE  KeyedOnce'
  BY <1>1, <1>4, OnlyInsertsAdd, OnlyCommitsAdd DEF database
<1>5. CASE Crash
  BY <1>1, <1>5 DEF Crash, database
<1>6. CASE UNCHANGED vars
  BY <1>1, <1>6 DEF vars, database
<1> QED BY <1>2, <1>3, <1>4, <1>5, <1>6, NextSteps

\* Who begins while others are open meets them.
LEMMA NextOpenHaveMet == TypeOK /\ OpenHaveMet /\ [Next]_vars => OpenHaveMet'
<1> SUFFICES ASSUME TypeOK, OpenHaveMet, [Next]_vars PROVE OpenHaveMet'
  OBVIOUS
<1>1. ASSUME NEW t \in Threads, Steps(t), pc'[t] \in Open
      PROVE  ThisReply(t)' = ThisReply(t)
  <2>1. ~(\E books \in Lists : Compose(t, books)) /\ ~Rerun(t)
    BY <1>1 DEF Compose, Rerun, Open, TypeOK
  <2> QED BY <1>1, <2>1, ThisThread
<1>2. ASSUME NEW t \in Threads, Steps(t), NEW u \in Threads, NEW v \in Threads, u # v,
             pc'[u] \in Open, pc'[v] \in Open
      PROVE  {ThisReply(u)', ThisReply(v)'} \in met'
  <2>1. met \subseteq met'
    BY <1>2 DEF Steps, Compose, Rerun, Begin, NothingToStore, Lookup, Insert, AbortsOpen, RolledBack,
                Commit, Answer, history
  <2>2. ThisReply(u)' = ThisReply(u) /\ ThisReply(v)' = ThisReply(v)
    BY <1>1, <1>2, Others
  <2>3. CASE pc[u] \in Open /\ pc[v] \in Open
    BY <1>2, <2>1, <2>2, <2>3 DEF OpenHaveMet
  <2>4. CASE u = t /\ Begin(t)
    <3>1. pc[v] \in Open
      BY <1>2, <2>4, Others
    <3> QED BY <1>2, <2>2, <2>4, <3>1 DEF Begin
  <2>5. CASE v = t /\ Begin(t)
    <3>1. pc[u] \in Open
      BY <1>2, <2>5, Others
    <3>2. {ThisReply(v), ThisReply(u)} \in met'
      BY <1>2, <2>5, <3>1 DEF Begin
    <3>3. {ThisReply(v), ThisReply(u)} = {ThisReply(u), ThisReply(v)}
      OBVIOUS
    <3> QED BY <2>2, <3>2, <3>3
  <2> QED BY <1>2, <2>3, <2>4, <2>5, Others, ThisThread
<1>3. CASE Crash
  BY <1>3 DEF Crash, OpenHaveMet, Open
<1>4. CASE UNCHANGED vars
  BY <1>4 DEF vars, history, OpenHaveMet, ThisReply
<1>5. (\E t \in Threads : Steps(t)) => OpenHaveMet'
  BY <1>2 DEF OpenHaveMet
<1> QED BY <1>3, <1>4, <1>5, NextSteps

\* A row that a transaction did not see when it looked was committed since.
LEMMA NextUnseenHaveMet ==
  TypeOK /\ Scoped /\ FoundIsVisible /\ OwnRows /\ OpenHaveMet /\ UnseenHaveMet /\ [Next]_vars => UnseenHaveMet'
<1> SUFFICES ASSUME TypeOK, Scoped, FoundIsVisible, OwnRows, OpenHaveMet, UnseenHaveMet, [Next]_vars
             PROVE  UnseenHaveMet'
  OBVIOUS
<1> DEFINE Met(u, q) ==
      /\ \A p \in added[u] : p.book = q.book => {ThisReply(u), q.id.reply} \in met
      /\ Inserts(u) /\ q.book = Book(u) => {ThisReply(u), q.id.reply} \in met
<1>0. ASSUME NEW t \in Threads, Steps(t)
      PROVE  met \subseteq met'
  BY <1>0 DEF Steps, Compose, Rerun, Begin, NothingToStore, Lookup, Insert, AbortsOpen, RolledBack,
              Commit, Answer, history
<1>1. ASSUME NEW t \in Threads, Steps(t), NEW u \in Threads, u # t, NEW q \in book_cache
      PROVE  Met(u, q)'
  <2>1. pc'[u] = pc[u] /\ list'[u] = list[u] /\ place'[u] = place[u] /\ found'[u] = found[u]
        /\ added'[u] = added[u] /\ ThisReply(u)' = ThisReply(u)
    BY <1>1, Others
  <2>2. (Inserts(u)' <=> Inserts(u)) /\ Book(u)' = Book(u)
    BY <2>1 DEF Inserts, Book
  <2> QED BY <1>0, <1>1, <2>1, <2>2 DEF UnseenHaveMet
<1>2. ASSUME NEW u \in Threads, added'[u] = {}, pc'[u] # "insert", NEW q
      PROVE  Met(u, q)'
  BY <1>2 DEF Inserts
<1>3. ASSUME NEW t \in Threads, NEW q \in book_cache, Lookup(t)
      PROVE  Met(t, q)'
  <2>1. added' = added /\ ThisReply(t)' = ThisReply(t) /\ Book(t)' = Book(t) /\ found'[t] = Matches(t) /\ met' = met
    BY <1>3 DEF Lookup, ThisReply, Book, TypeOK, history
  <2>2. Inserts(t)' => q.book # Book(t)
    BY <2>1 DEF Inserts, Matches, Visible
  <2> QED BY <2>1, <2>2 DEF UnseenHaveMet
<1>4. ASSUME NEW t \in Threads, NEW q \in book_cache, Insert(t)
      PROVE  Met(t, q)'
  <2>1. ThisReply(t)' = ThisReply(t) /\ pc'[t] # "insert" /\ met' = met
    BY <1>4 DEF Insert, ThisReply, Following, TypeOK, history
  <2>2. ~Inserts(t)'
    BY <2>1 DEF Inserts
  <2>3. CASE added' = added
    BY <2>1, <2>2, <2>3 DEF UnseenHaveMet
  <2>4. CASE Inserts(t) /\ \E row : /\ row.id.reply = ThisReply(t) /\ row.book = Book(t)
                                    /\ added' = [added EXCEPT ![t] = added[t] \cup {row}]
    <3>1. PICK row : row.book = Book(t) /\ added'[t] = added[t] \cup {row}
      BY <2>4 DEF TypeOK
    <3> QED BY <2>1, <2>2, <2>4, <3>1 DEF UnseenHaveMet
  <2> QED BY <1>4, <2>3, <2>4, InsertOne
<1>5. ASSUME NEW t \in Threads, Steps(t), NEW q \in book_cache
      PROVE  Met(t, q)'
  <2>1. CASE AbortsOpen(t) \/ Commit(t)
    <3>1. added'[t] = {} /\ pc'[t] = "done"
      BY <1>5, <2>1, ThisThread
    <3> HIDE DEF Met
    <3> QED BY <1>2, <3>1
  <2>2. CASE (\E books \in Lists : Compose(t, books)) \/ Rerun(t) \/ Begin(t) \/ NothingToStore(t) \/ Answer(t)
    <3>1. pc[t] \notin Open /\ added' = added /\ pc'[t] # "insert"
      BY <2>2 DEF Compose, Rerun, Begin, NothingToStore, Answer, Open, TypeOK
    <3> HIDE DEF Met
    <3> QED BY <1>2, <3>1 DEF Scoped
  <2> HIDE DEF Met
  <2> QED BY <1>3, <1>4, <1>5, <2>1, <2>2 DEF Steps
<1>6. ASSUME NEW t \in Threads, Commit(t), NEW q \in added[t], NEW u \in Threads
      PROVE  Met(u, q)'
  <2>1. Steps(t) /\ q.id.reply = ThisReply(t) /\ pc[t] \in Open
    BY <1>6 DEF Steps, OwnRows, Commit, Open
  <2>2. CASE u = t
    <3>1. added'[t] = {} /\ pc'[t] = "done"
      BY <1>6, <2>1, ThisThread
    <3> HIDE DEF Met
    <3> QED BY <1>2, <2>2, <3>1
  <2>3. CASE u # t
    <3>1. pc'[u] = pc[u] /\ added'[u] = added[u] /\ ThisReply(u)' = ThisReply(u)
      BY <2>1, <2>3, Others
    <3>2. pc[u] \in Open => {ThisReply(u), q.id.reply} \in met'
      BY <1>0, <2>1, <2>3 DEF OpenHaveMet
    <3>3. added'[u] # {} \/ Inserts(u)' => pc[u] \in Open
      BY <3>1 DEF Scoped, Inserts, Open
    <3> QED BY <3>1, <3>2, <3>3
  <2> QED BY <2>2, <2>3
<1>7. ASSUME NEW t \in Threads, Steps(t), NEW u \in Threads, NEW q \in book_cache'
      PROVE  Met(u, q)'
  <2> HIDE DEF Met
  <2>1. q \in book_cache \/ (Commit(t) /\ q \in added[t])
    BY <1>7, OnlyCommitsAdd DEF database
  <2> QED BY <1>1, <1>5, <1>6, <1>7, <2>1
<1>8. ASSUME Crash, NEW u \in Threads, NEW q \in book_cache'
      PROVE  Met(u, q)'
  <2>1. added'[u] = {} /\ pc'[u] # "insert"
    BY <1>8 DEF Crash
  <2> HIDE DEF Met
  <2> QED BY <1>2, <2>1
<1>9. CASE UNCHANGED vars
  BY <1>9 DEF vars, database, history, UnseenHaveMet, Inserts, Book, ThisReply
<1>10. ASSUME ~UNCHANGED vars
       PROVE  \A u \in Threads : \A q \in book_cache' : Met(u, q)'
  <2> HIDE DEF Met
  <2> QED BY <1>7, <1>8, <1>10, NextSteps
<1>11. (\A u \in Threads : \A q \in book_cache' : Met(u, q)') => UnseenHaveMet'
  BY DEF UnseenHaveMet
<1> HIDE DEF Met
<1> QED BY <1>9, <1>10, <1>11

-----------------------------------------------------------------------------
\* A session is stored whole in a cache.
WholeIn(session, cache) ==
  /\ {item.rank : item \in session.items} = 1..Len(session.books)
  /\ \A p, q \in session.items : p.rank = q.rank => p = q
  /\ \A item \in session.items :
        /\ item.book = session.books[item.rank]
        /\ \E row \in cache : row.id = item.book_id /\ row.book = item.book

LEMMA StoredWholeDef ==
  /\ StoredWhole <=> \A session \in sessions : WholeIn(session, book_cache)
  /\ StoredWhole' <=> \A session \in sessions' : WholeIn(session, book_cache')
BY DEF StoredWhole, WholeIn

LEMMA WholeInMore ==
  ASSUME NEW session, NEW cache, NEW more, cache \subseteq more, WholeIn(session, cache)
  PROVE  WholeIn(session, more)
BY DEF WholeIn

\* A recommendation is stored whole.
LEMMA NextStoredWhole == TypeOK /\ StoredSoFar /\ StoredWhole /\ [Next]_vars => StoredWhole'
<1> SUFFICES ASSUME TypeOK, StoredSoFar, StoredWhole, [Next]_vars PROVE StoredWhole'
  OBVIOUS
<1>1. ASSUME NEW t \in Threads, Commit(t)
      PROVE  StoredWhole'
  <2> DEFINE session == [reply |-> ThisReply(t), books |-> list[t], items |-> items[t]]
  <2>1. Steps(t) /\ pc[t] = "commit" /\ pc[t] \in Open
    BY <1>1 DEF Steps, Commit, Open
  <2>2. /\ book_cache' = book_cache \cup added[t] /\ sessions' = sessions \cup {session}
        /\ book_cache \subseteq book_cache'
    BY <1>1, <2>1, OnlyCommitsAdd
  <2>3. session.books = list[t] /\ session.items = items[t]
    OBVIOUS
  <2>4. place[t] = Len(list[t]) + 1 /\ Len(list[t]) \in Nat
    BY <2>1, PlacesOfList DEF StoredSoFar, TypeOK
  <2>5. 1..place[t] - 1 = 1..Len(list[t])
    BY <2>4
  <2>6. /\ {item.rank : item \in items[t]} = 1..place[t] - 1
        /\ \A p, q \in items[t] : p.rank = q.rank => p = q
        /\ \A item \in items[t] :
              /\ item.book = list[t][item.rank]
              /\ \E row \in Visible(t) : row.id = item.book_id /\ row.book = item.book
    BY <2>1 DEF StoredSoFar
  <2>7. Visible(t) = book_cache \cup added[t]
    BY DEF Visible
  <2> HIDE DEF session
  <2>8. WholeIn(session, book_cache \cup added[t])
    BY <2>3, <2>5, <2>6, <2>7 DEF WholeIn
  <2>9. \A s \in sessions : WholeIn(s, book_cache')
    BY <2>2, StoredWholeDef, WholeInMore
  <2> QED BY <2>2, <2>8, <2>9, StoredWholeDef
<1>2. ASSUME UNCHANGED database
      PROVE  StoredWhole'
  BY <1>2 DEF database, StoredWhole
<1>3. ASSUME NEW t \in Threads, Steps(t)
      PROVE  StoredWhole'
  BY <1>1, <1>2, <1>3, OnlyCommitsAdd
<1> QED BY <1>2, <1>3, NextSteps DEF Crash, vars

\* Rows that are double are of transactions that were open at once.
LEMMA NextDuplicatesAreConcurrent ==
  /\ TypeOK /\ OwnRows /\ RowsAreOver /\ KeyedOnce /\ UnseenHaveMet /\ DuplicatesAreConcurrent
  /\ [Next]_vars
  => DuplicatesAreConcurrent'
<1> SUFFICES ASSUME TypeOK, OwnRows, RowsAreOver, KeyedOnce, UnseenHaveMet, DuplicatesAreConcurrent,
                    [Next]_vars
             PROVE  DuplicatesAreConcurrent'
  OBVIOUS
<1>1. ASSUME NEW t \in Threads, Steps(t)
      PROVE  met \subseteq met'
  BY <1>1 DEF Steps, Compose, Rerun, Begin, NothingToStore, Lookup, Insert, AbortsOpen, RolledBack,
              Commit, Answer, history
<1>2. ASSUME NEW t \in Threads, Commit(t), NEW p \in added[t], NEW q \in book_cache, p.book = q.book
      PROVE  /\ p.book \in Authorless /\ p.id.reply # q.id.reply
             /\ {p.id.reply, q.id.reply} \in met /\ {q.id.reply, p.id.reply} \in met
  <2>1. p.book \in Books
    BY DEF TypeOK, BookRow
  <2>2. p.book \in Authorless
    BY <1>2, <2>1 DEF KeyedOnce, Books
  <2>3. p.id.reply = ThisReply(t)
    BY DEF OwnRows
  <2>4. {p.id.reply, q.id.reply} \in met
    BY <1>2, <2>3 DEF UnseenHaveMet
  <2>5. {q.id.reply, p.id.reply} = {p.id.reply, q.id.reply}
    OBVIOUS
  <2>6. q.id.reply # ThisReply(t)
    <3>1. Over(q.id.reply)
      BY DEF RowsAreOver
    <3>2. turn[t] \in Nat /\ attempt[t] \in Nat
      BY StoreAssumption DEF TypeOK
    <3>3. ~Over(ThisReply(t))
      BY <1>2, <3>2 DEF Over, ThisReply, Commit, Open
    <3> QED BY <3>1, <3>3
  <2> QED BY <2>2, <2>3, <2>4, <2>5, <2>6
<1>3. ASSUME NEW t \in Threads, Commit(t)
      PROVE  DuplicatesAreConcurrent'
  <2>1. Steps(t) /\ book_cache' = book_cache \cup added[t]
    BY <1>3, OnlyCommitsAdd DEF Steps
  <2>2. ASSUME NEW p \in book_cache', NEW q \in book_cache', p # q, p.book = q.book
        PROVE  p.book \in Authorless /\ {p.id.reply, q.id.reply} \in met /\ p.id.reply # q.id.reply
    <3>1. CASE p \in added[t] /\ q \in added[t]
      BY <2>2, <3>1 DEF OwnRows
    <3>2. CASE p \in book_cache /\ q \in book_cache
      BY <2>2, <3>2 DEF DuplicatesAreConcurrent
    <3>3. CASE p \in added[t] /\ q \in book_cache
      BY <1>2, <1>3, <2>2, <3>3
    <3>4. CASE p \in book_cache /\ q \in added[t]
      BY <1>2, <1>3, <2>2, <3>4
    <3> QED BY <2>1, <3>1, <3>2, <3>3, <3>4
  <2> QED BY <1>1, <2>1, <2>2 DEF DuplicatesAreConcurrent
<1>4. ASSUME NEW t \in Threads, Steps(t), ~Commit(t)
      PROVE  DuplicatesAreConcurrent'
  BY <1>1, <1>4, OnlyCommitsAdd DEF database, DuplicatesAreConcurrent
<1>5. CASE Crash
  BY <1>5 DEF Crash, database, DuplicatesAreConcurrent
<1>6. CASE UNCHANGED vars
  BY <1>6 DEF vars, database, history, DuplicatesAreConcurrent
<1> QED BY <1>3, <1>4, <1>5, <1>6, NextSteps

\* What is stored is said, or a crash came in between.
LEMMA NextStoredIsAnswered == TypeOK /\ StoredIsAnswered /\ [Next]_vars => StoredIsAnswered'
<1> SUFFICES ASSUME TypeOK, StoredIsAnswered, [Next]_vars PROVE StoredIsAnswered'
  OBVIOUS
<1> DEFINE Said(reply) == \/ reply \in answered \cup interrupted
                          \/ pc[reply.thread] = "done" /\ reply = ThisReply(reply.thread)
<1>1. \A session \in sessions : Said(session.reply) /\ session.reply.thread \in Threads
  BY DEF StoredIsAnswered, TypeOK, Session, Reply
<1>2. ASSUME NEW t \in Threads, Steps(t), NEW reply, reply.thread \in Threads, Said(reply)
      PROVE  Said(reply)'
  <2>1. answered \cup interrupted \subseteq answered' \cup interrupted'
    BY <1>2 DEF Steps, Compose, Rerun, Begin, NothingToStore, Lookup, Insert, AbortsOpen, RolledBack,
                Commit, Answer, history
  <2>2. CASE reply \in answered \cup interrupted
    BY <2>1, <2>2
  <2>3. CASE reply.thread # t
    BY <1>2, <2>1, <2>3, Others
  <2>4. CASE reply.thread = t /\ pc[t] = "done" /\ reply = ThisReply(t)
    <3>1. Answer(t)
      BY <1>2, <2>4 DEF Steps, Compose, Rerun, Begin, NothingToStore, Lookup, Insert, AbortsOpen,
                        Commit, Open
    <3> QED BY <2>4, <3>1 DEF Answer
  <2> QED BY <1>2, <2>2, <2>3, <2>4
<1>3. ASSUME NEW t \in Threads, Steps(t)
      PROVE  \A session \in sessions' : Said(session.reply)'
  <2> DEFINE new == [reply |-> ThisReply(t), books |-> list[t], items |-> items[t]]
  <2>1. CASE ~Commit(t)
    <3>1. sessions' = sessions
      BY <1>3, <2>1, OnlyCommitsAdd DEF database
    <3> HIDE DEF Said
    <3> QED BY <1>1, <1>2, <1>3, <3>1
  <2>2. CASE Commit(t)
    <3>1. sessions' = sessions \cup {new} /\ new.reply = ThisReply(t)
      BY <1>3, <2>2, OnlyCommitsAdd
    <3>2. pc'[t] = "done" /\ ThisReply(t).thread = t /\ ThisReply(t)' = ThisReply(t)
      BY <1>3, <2>2, ThisThread DEF Commit, ThisReply
    <3>3. ASSUME NEW session \in sessions'
          PROVE  Said(session.reply)'
      <4>1. CASE session \in sessions
        <5> HIDE DEF Said
        <5> QED BY <1>1, <1>2, <1>3, <4>1
      <4>2. CASE session.reply = ThisReply(t)
        BY <3>2, <4>2
      <4> HIDE DEF Said, new
      <4> QED BY <3>1, <4>1, <4>2
    <3> HIDE DEF Said
    <3> QED BY <3>3
  <2> QED BY <2>1, <2>2
<1>4. ASSUME Crash, NEW session \in sessions'
      PROVE  Said(session.reply)'
  <2>1. sessions' = sessions /\ answered' = answered /\ session \in sessions
    BY <1>4 DEF Crash, database
  <2>2. interrupted' = interrupted \cup
          {ThisReply(u) : u \in {v \in Threads : pc[v] \notin {"idle", "crashed"}}}
    BY <1>4 DEF Crash
  <2> QED BY <1>1, <2>1, <2>2
<1>5. ASSUME UNCHANGED vars, NEW session \in sessions'
      PROVE  Said(session.reply)'
  BY <1>1, <1>5 DEF vars, database, history, ThisReply
<1>6. \A session \in sessions' : Said(session.reply)'
  <2> HIDE DEF Said
  <2> QED BY <1>3, <1>4, <1>5, NextSteps
<1> QED BY <1>6 DEF StoredIsAnswered

LEMMA NextIInv == IInv /\ [Next]_vars => IInv'
BY NextTypeOK, NextScoped, NextFoundIsVisible, NextStoredSoFar, NextOwnRows, NextRowsAreOver,
   NextKeyedOnce, NextOpenHaveMet, NextUnseenHaveMet, NextStoredWhole, NextDuplicatesAreConcurrent,
   NextStoredIsAnswered DEF IInv

-----------------------------------------------------------------------------
(***************************************************************************)
(* The inductive invariant holds.                                          *)
(***************************************************************************)
THEOREM Inductive == Spec => []IInv
<1> QED BY InitIInv, NextIInv, PTL DEF Spec

(***************************************************************************)
(* The database and the threads are well formed.                           *)
(***************************************************************************)
THEOREM TypeCorrect == Spec => []TypeOK
<1>1. IInv => TypeOK
  BY DEF IInv
<1> QED BY <1>1, Inductive, PTL

(***************************************************************************)
(* A recommendation is stored whole or not at all, with rows that exist.   *)
(***************************************************************************)
THEOREM Whole == Spec => []StoredWhole
<1>1. IInv => StoredWhole
  BY DEF IInv
<1> QED BY <1>1, Inductive, PTL

(***************************************************************************)
(* A book has two rows only if it has no author and two transactions that  *)
(* were open at the same time each added one.                              *)
(***************************************************************************)
THEOREM Duplicates == Spec => []DuplicatesAreConcurrent
<1>1. IInv => DuplicatesAreConcurrent
  BY DEF IInv
<1> QED BY <1>1, Inductive, PTL

(***************************************************************************)
(* What is stored was said in the thread, is about to be, or was cut off   *)
(* by a crash.                                                             *)
(***************************************************************************)
THEOREM Answered == Spec => []StoredIsAnswered
<1>1. IInv => StoredIsAnswered
  BY DEF IInv
<1> QED BY <1>1, Inductive, PTL
=============================================================================

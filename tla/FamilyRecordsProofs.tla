------------------------- MODULE FamilyRecordsProofs -------------------------
(***************************************************************************)
(* Proofs about FamilyRecords, for every set of threads, edits, books and  *)
(* scopes: type correctness, that acknowledged edits survive, and that     *)
(* only a race gives a book two rows.                                      *)
(***************************************************************************)
EXTENDS FamilyRecords, TLAPS

\* A tool sends fields of one record, all of them in the response.
LEMMA RecordOfTool ==
  ASSUME NEW tool \in Tool
  PROVE  ListTools[tool] \subseteq RecordOf(tool) /\ RecordOf(tool) \subseteq Fields
<1>1. ListTools[tool] \subseteq Fields
  BY DEF Fields
<1>2. /\ {"notes"} = ListTools["update_child_notes"]
      /\ {"concerns"} = ListTools["update_member_profile"]
      /\ {"update_child_notes", "update_member_profile"} \subseteq Tool
  BY DEF ListTools, Tool
<1>3. {"notes", "concerns"} \subseteq Fields
  BY <1>2 DEF Fields
<1>4. tool \notin {"update_child_notes", "update_member_profile"} =>
         "notes" \notin ListTools[tool] /\ "concerns" \notin ListTools[tool]
  BY DEF ListTools, Tool
<1> QED BY <1>1, <1>2, <1>3, <1>4 DEF RecordOf

\* What an edit asks for.
LEMMA EditFields ==
  ASSUME NEW edit \in Edits
  PROVE  /\ edit.tool \in Tool /\ edit.replace \in BOOLEAN
         /\ edit.add \in [Fields -> SUBSET Topics] /\ edit.remove \in [Fields -> SUBSET Topics]
         /\ ListTools[edit.tool] \subseteq Fields
<1>1. edit \in Edit
  BY FamilyRecordsAssumption
<1>2. edit \in [tool : Tool, add : [Fields -> SUBSET Topics], remove : [Fields -> SUBSET Topics],
                replace : BOOLEAN]
  BY <1>1 DEF Edit
<1> QED BY <1>2 DEF Fields

\* The request of a list edit is well formed.
LEMMA PutIsRequest ==
  ASSUME NEW edit \in Edits, NEW old \in [Fields -> SUBSET Topics]
  PROVE  PutRequest(edit, old) \in Request
<1>1. edit.add \in [Fields -> SUBSET Topics] /\ edit.remove \in [Fields -> SUBSET Topics]
  BY EditFields
<1>2. edit.tool \in Tool /\ ListTools[edit.tool] \subseteq Fields
  BY EditFields
<1>3. \A f \in Fields : Merged(edit, old[f], f) \in SUBSET Topics
  BY <1>1 DEF Merged
<1> DEFINE req == PutRequest(edit, old)
<1>4. req.kind = "put" /\ req.items = ListTools[edit.tool] /\ req.id = 0
  BY DEF PutRequest
<1>5. req.body \in [Items -> SUBSET Topics]
  BY <1>2, <1>3 DEF PutRequest
<1>6. req.added \in [Items -> SUBSET Topics] /\ req.removed \in [Items -> SUBSET Topics]
  BY <1>1, <1>2 DEF PutRequest
<1>7. req \in [kind : {"put", "create", "patch"}, items : SUBSET Items, id : Nat,
               body : [Items -> SUBSET Topics], added : [Items -> SUBSET Topics],
               removed : [Items -> SUBSET Topics]]
  BY <1>2, <1>4, <1>5, <1>6 DEF PutRequest, Items
<1> QED BY <1>2, <1>4, <1>7 DEF Request

\* So is the request about one row.
LEMMA OneItemIsRequest ==
  ASSUME NEW kind \in {"create", "patch"}, NEW item \in Titles \cup Scopes, NEW id \in Nat,
         NEW values \in SUBSET Topics, NEW new \in SUBSET Topics
  PROVE  OneItem(kind, item, id, values, new) \in Request
BY DEF OneItem, Request, Items, NoTopics

\* The request that leaves reasons alone is well formed.
LEMMA OtherColumnsIsRequest ==
  ASSUME NEW row \in Row, Titles # {}
  PROVE  OtherColumns(row) \in Request
BY DEF OtherColumns, Request, Row, NoTopics

\* What a session knows about an item it may create or patch.
LEMMA BookRequestsType ==
  ASSUME TypeOK, NEW t \in Threads, phase[t] = "listed", NEW req \in BookRequests(t)
  PROVE  req \in Request
<1>1. book[t] \in Books /\ known[t] \in SUBSET Row
  BY DEF TypeOK
<1>2. book[t].title \in Titles /\ book[t].reasons \in SUBSET Topics
  BY <1>1 DEF Books
<1>3. \A row \in Found(t, book[t].title) :
         /\ row.item = book[t].title /\ row.id \in Nat
         /\ Accumulated(row, book[t].reasons) \in SUBSET Topics
  BY <1>1, <1>2 DEF Found, Row, Accumulated
<1>4. \A row \in Found(t, book[t].title) : OtherColumns(row) \in Request
  BY <1>1, <1>2, OtherColumnsIsRequest DEF Found
<1>5. \A row \in Found(t, book[t].title) : PatchRequest(row, book[t].reasons) \in Request
  BY <1>2, <1>3, OneItemIsRequest DEF PatchRequest
<1>6. CreateRequest(book[t].title, book[t].reasons) \in Request
  BY <1>2, OneItemIsRequest DEF CreateRequest
<1> QED BY <1>4, <1>5, <1>6 DEF BookRequests

\* So is what a policy tool may ask, about the scope it was called for.
LEMMA PolicyRequestsType ==
  ASSUME TypeOK, NEW t \in Threads, NEW scope \in Scopes, NEW goals \in SUBSET Topics,
         NEW req \in PolicyRequests(t, scope, goals)
  PROVE  req \in Request
<1>1. known[t] \in SUBSET Row
  BY DEF TypeOK
<1>2. \A row \in Found(t, scope) :
         row.item = scope /\ row.id \in Nat /\ Accumulated(row, goals) \in SUBSET Topics
  BY <1>1 DEF Found, Row, Accumulated
<1> QED
  BY <1>2, OneItemIsRequest DEF PolicyRequests, CreateRequest, PatchRequest

\* A patch changes the values of a row and nothing else.
LEMMA PatchedRow ==
  ASSUME NEW r \in Row, NEW v \in SUBSET Topics
  PROVE  LET p == [r EXCEPT !.values = v] IN
         /\ p \in Row
         /\ p.id = r.id /\ p.item = r.item /\ p.values = v
BY DEF Row

\* Accounts keeps its records well formed.
LEMMA PerformType ==
  ASSUME TypeOK, NEW req \in Request, NEW blind \in BOOLEAN, NEW unanswered \in BOOLEAN,
         Perform(req, blind, unanswered)
  PROVE  /\ profile' \in [Fields -> SUBSET Topics]
         /\ rows' \subseteq Row
         /\ next_id' \in Nat
<1>1. /\ req.body \in [Items -> SUBSET Topics] /\ Fields \subseteq Items
      /\ Titles \cup Scopes \subseteq Items
  BY DEF Request, Items
<1>2. profile' \in [Fields -> SUBSET Topics]
  BY <1>1 DEF Perform, TypeOK
<1>3. CASE req.kind = "put"
  BY <1>2, <1>3 DEF Perform, TypeOK
<1>4. CASE req.kind = "create"
  <2>1. req.items \subseteq Titles \cup Scopes
    BY <1>4 DEF Request
  <2>2. \A x \in req.items : [id |-> next_id, item |-> x, values |-> req.body[x],
                              blind |-> blind, unanswered |-> unanswered] \in Row
    BY <1>1, <2>1 DEF Row, TypeOK
  <2> QED BY <1>2, <1>4, <2>2 DEF Perform, TypeOK
<1>5. CASE req.kind = "patch"
  <2>1. ASSUME NEW r \in rows PROVE [r EXCEPT !.values = req.body[r.item]] \in Row
    <3>1. r \in Row /\ r.item \in Items
      BY <1>1 DEF TypeOK, Row
    <3> QED BY <1>1, <3>1, PatchedRow
  <2> QED BY <1>2, <1>5, <2>1 DEF Perform, TypeOK
<1> QED BY <1>3, <1>4, <1>5 DEF Request

\* The history variables keep their types when a request is carried out.
LEMMA RememberType ==
  ASSUME TypeOK, NEW req \in Request, NEW blind \in SUBSET Items, NEW answered \in BOOLEAN,
         Remember(req, blind, answered)
  PROVE  kept' \in [Items -> SUBSET Topics] /\ dropped' \in [Items -> SUBSET Topics]
<1>1. req.added \in [Items -> SUBSET Topics] /\ req.removed \in [Items -> SUBSET Topics]
  BY DEF Request
<1> QED BY <1>1 DEF Remember, TypeOK

\* Whatever becomes of a request, accounts and the history keep their types.
LEMMA SendType ==
  ASSUME TypeOK, NEW t \in Threads, NEW req \in Request, NEW fate \in Fate, Send(t, req, fate)
  PROVE  /\ profile' \in [Fields -> SUBSET Topics]
         /\ rows' \subseteq Row
         /\ next_id' \in Nat
         /\ late' \subseteq Request
         /\ kept' \in [Items -> SUBSET Topics] /\ dropped' \in [Items -> SUBSET Topics]
<1>1. CASE fate = "timeout"
  BY <1>1 DEF Send, TypeOK, accounts
<1>2. CASE fate # "timeout"
  <2>1. /\ Perform(req, stale[t] \cap req.items # {}, fate = "lost")
        /\ Remember(req, stale[t] \cap req.items, fate = "ok")
        /\ late' = late
    BY <1>2 DEF Send
  <2>2. stale[t] \cap req.items \in SUBSET Items
    BY DEF TypeOK
  <2> QED BY <2>1, <2>2, PerformType, RememberType DEF TypeOK
<1> QED BY <1>1, <1>2

\* A write makes copies stale in items, and in nothing else.
LEMMA StalenessType ==
  ASSUME TypeOK, NEW t \in Threads, NEW req \in Request, NEW fate \in Fate, NEW fresh
  PROVE  Staleness(t, req, fate, fresh) \in [Threads -> SUBSET Items]
<1>1. req.items \in SUBSET Items
  BY DEF Request
<1>2. Outdate(Threads \ {t}, req) \in [Threads -> SUBSET Items]
  BY <1>1 DEF Outdate, TypeOK
<1> QED BY <1>2 DEF Staleness, TypeOK

\* What a session knows of the policies stays rows.
LEMMA RefreshedPoliciesType ==
  ASSUME TypeOK, rows' \subseteq Row, NEW t \in Threads, NEW req
  PROVE  RefreshedPolicies(t, req) \in [Threads -> SUBSET Row]
BY DEF RefreshedPolicies, TypeOK
-----------------------------------------------------------------------------
\* The initial state has its types.
LEMMA InitType == Init => TypeOK
<1> SUFFICES ASSUME Init PROVE TypeOK
  OBVIOUS
<1>1. NoProfile \in [Fields -> SUBSET Topics] /\ NoTopics \in [Items -> SUBSET Topics]
  BY DEF NoProfile, NoTopics
<1>2. 0 \in 0..MaxCalls /\ 0 \in 0..MaxTurns
  BY FamilyRecordsAssumption
<1>3. phase \in [Threads -> {"idle", "turn", "listed"}]
      /\ \A t \in Threads : phase[t] # "listed"
  BY DEF Init
<1>4. cache \in [Threads -> [Fields -> SUBSET Topics]]
  BY <1>1 DEF Init
<1>5. /\ known \in [Threads -> SUBSET Row] /\ stale \in [Threads -> SUBSET Items]
      /\ book \in [Threads -> Books \cup {NoBook}]
      /\ calls \in [Threads -> 0..MaxCalls] /\ turns \in [Threads -> 0..MaxTurns]
  BY <1>2 DEF Init
<1> QED BY <1>1, <1>3, <1>4, <1>5 DEF Init, TypeOK

\* Every step of a thread keeps the types, and so does a late request.
LEMMA ThreadStepType ==
  ASSUME TypeOK, NEW t \in Threads, ThreadStep(t)
  PROVE  TypeOK'
<1>1. ASSUME Called(t) PROVE calls' \in [Threads -> 0..MaxCalls]
  BY <1>1, FamilyRecordsAssumption DEF Called, TypeOK
<1>2. CASE LoadContext(t)
  <2>1. {r \in rows : r.item \in Scopes} \in SUBSET Row
    BY DEF TypeOK
  <2>2. turns' \in [Threads -> 0..MaxTurns]
    BY <1>2, FamilyRecordsAssumption DEF LoadContext, TypeOK
  <2>3. phase' \in [Threads -> {"idle", "turn", "listed"}]
        /\ \A u \in Threads : phase'[u] = "listed" => phase[u] = "listed"
    BY <1>2 DEF LoadContext, TypeOK
  <2>4. known' \in [Threads -> SUBSET Row]
    BY <1>2, <2>1 DEF LoadContext, TypeOK
  <2>5. cache' \in [Threads -> [Fields -> SUBSET Topics]]
    BY <1>2 DEF LoadContext, TypeOK
  <2> QED BY <1>2, <2>2, <2>3, <2>4, <2>5 DEF LoadContext, TypeOK, accounts
<1>3. ASSUME NEW edit \in Edits, NEW fate \in Fate, EditList(t, edit, fate)
      PROVE  TypeOK'
  <2> DEFINE req == PutRequest(edit, cache[t])
  <2>1. req \in Request
    BY PutIsRequest DEF TypeOK
  <2>2. Send(t, req, fate) /\ stale' = Staleness(t, req, fate, RecordOf(edit.tool))
    BY <1>3 DEF EditList
  <2>3. stale' \in [Threads -> SUBSET Items]
    BY <2>1, <2>2, StalenessType
  <2> HIDE DEF req
  <2>4. /\ profile' \in [Fields -> SUBSET Topics]
        /\ rows' \subseteq Row /\ next_id' \in Nat /\ late' \subseteq Request
        /\ kept' \in [Items -> SUBSET Topics] /\ dropped' \in [Items -> SUBSET Topics]
    BY <2>1, <2>2, SendType
  <2>5. cache' \in [Threads -> [Fields -> SUBSET Topics]]
    BY <1>3, <2>4 DEF EditList, RefreshedCache, TypeOK
  <2>6. calls' \in [Threads -> 0..MaxCalls]
        /\ UNCHANGED <<phase, known, book, turns>>
    BY <1>1, <1>3 DEF EditList
  <2> QED BY <2>3, <2>4, <2>5, <2>6 DEF TypeOK
<1>4. ASSUME NEW new_book \in Books, ListHistory(t, new_book)
      PROVE  TypeOK'
  <2>1. Listed(t) \in SUBSET Row
    BY DEF Listed, TypeOK
  <2>2. known' \in [Threads -> SUBSET Row] /\ stale' \in [Threads -> SUBSET Items]
    BY <1>4, <2>1 DEF ListHistory, TypeOK
  <2>3. calls' \in [Threads -> 0..MaxCalls]
    BY <1>1, <1>4 DEF ListHistory
  <2>4. phase' \in [Threads -> {"idle", "turn", "listed"}]
    BY <1>4 DEF ListHistory, TypeOK
  <2>5. /\ book' \in [Threads -> Books \cup {NoBook}]
        /\ \A u \in Threads : phase'[u] = "listed" => book'[u] \in Books
    BY <1>4 DEF ListHistory, TypeOK
  <2> QED BY <1>4, <2>2, <2>3, <2>4, <2>5 DEF ListHistory, TypeOK, accounts
<1>5. ASSUME NEW fate \in Fate, RecordBook(t, fate)
      PROVE  TypeOK'
  <2>1. PICK req \in BookRequests(t) :
           Send(t, req, fate) /\ stale' = Staleness(t, req, fate, {})
    BY <1>5 DEF RecordBook
  <2>2. req \in Request
    BY <1>5, BookRequestsType DEF RecordBook
  <2>3. stale' \in [Threads -> SUBSET Items]
    BY <2>1, <2>2, StalenessType
  <2>4. /\ profile' \in [Fields -> SUBSET Topics]
        /\ rows' \subseteq Row /\ next_id' \in Nat /\ late' \subseteq Request
        /\ kept' \in [Items -> SUBSET Topics] /\ dropped' \in [Items -> SUBSET Topics]
    BY <2>1, <2>2, SendType
  <2>5. phase' \in [Threads -> {"idle", "turn", "listed"}]
    BY <1>5 DEF RecordBook, TypeOK
  <2>6. /\ book' \in [Threads -> Books \cup {NoBook}]
        /\ \A u \in Threads : phase'[u] = "listed" => book'[u] \in Books
    BY <1>5 DEF RecordBook, TypeOK
  <2>7. UNCHANGED <<cache, known, calls, turns>>
    BY <1>5 DEF RecordBook
  <2> QED BY <2>3, <2>4, <2>5, <2>6, <2>7 DEF TypeOK
<1>6. ASSUME NEW scope \in Scopes, NEW goals \in SUBSET Topics, NEW fate \in Fate,
             RecordPolicy(t, scope, goals, fate)
      PROVE  TypeOK'
  <2>1. PICK req \in PolicyRequests(t, scope, goals) :
           /\ Send(t, req, fate)
           /\ known' = IF fate = "ok" THEN RefreshedPolicies(t, req) ELSE known
           /\ stale' = Staleness(t, req, fate, {})
    BY <1>6 DEF RecordPolicy
  <2>2. req \in Request
    BY PolicyRequestsType
  <2>3. stale' \in [Threads -> SUBSET Items]
    BY <2>1, <2>2, StalenessType
  <2>4. /\ profile' \in [Fields -> SUBSET Topics]
        /\ rows' \subseteq Row /\ next_id' \in Nat /\ late' \subseteq Request
        /\ kept' \in [Items -> SUBSET Topics] /\ dropped' \in [Items -> SUBSET Topics]
    BY <2>1, <2>2, SendType
  <2>5. known' \in [Threads -> SUBSET Row]
    BY <2>1, <2>4, RefreshedPoliciesType DEF TypeOK
  <2>6. calls' \in [Threads -> 0..MaxCalls] /\ UNCHANGED <<phase, cache, book, turns>>
    BY <1>1, <1>6 DEF RecordPolicy
  <2> QED BY <2>3, <2>4, <2>5, <2>6 DEF TypeOK
<1>7. CASE ToolFails(t)
  <2>1. calls' \in [Threads -> 0..MaxCalls]
    BY <1>1, <1>7 DEF ToolFails, TypeOK
  <2>2. phase' \in [Threads -> {"idle", "turn", "listed"}]
    BY <1>7 DEF ToolFails, TypeOK
  <2>3. /\ book' \in [Threads -> Books \cup {NoBook}]
        /\ \A u \in Threads : phase'[u] = "listed" => book'[u] \in Books
    BY <1>7 DEF ToolFails, TypeOK
  <2> QED BY <1>7, <2>1, <2>2, <2>3 DEF ToolFails, TypeOK, accounts
<1>8. CASE EndTurn(t)
  <2>1. NoProfile \in [Fields -> SUBSET Topics] /\ 0 \in 0..MaxCalls
    BY FamilyRecordsAssumption DEF NoProfile
  <2>2. /\ cache' \in [Threads -> [Fields -> SUBSET Topics]]
        /\ known' \in [Threads -> SUBSET Row] /\ stale' \in [Threads -> SUBSET Items]
        /\ calls' \in [Threads -> 0..MaxCalls]
    BY <1>8, <2>1 DEF EndTurn, TypeOK
  <2>3. phase' \in [Threads -> {"idle", "turn", "listed"}]
        /\ \A u \in Threads : phase'[u] = "listed" => phase[u] = "listed"
    BY <1>8 DEF EndTurn, TypeOK
  <2> QED BY <1>8, <2>2, <2>3 DEF EndTurn, TypeOK, accounts
<1> QED
  BY <1>2, <1>3, <1>4, <1>5, <1>6, <1>7, <1>8 DEF ThreadStep

\* A late request that is carried out, or never is, keeps the types.
LEMMA LandType ==
  ASSUME TypeOK, NEW req \in late, Land(req)
  PROVE  TypeOK'
<1>1. req \in Request /\ late' \subseteq Request
  BY DEF Land, TypeOK
<1>2. UNCHANGED <<phase, cache, known, book, calls, turns>>
  BY DEF Land
<1>3. CASE UNCHANGED <<accounts, kept, dropped, stale>>
  BY <1>1, <1>2, <1>3 DEF TypeOK, accounts
<1>4. CASE /\ Perform(req, TRUE, TRUE)
           /\ Remember(req, req.items, FALSE)
           /\ stale' = Outdate(Threads, req)
  <2>1. req.items \in SUBSET Items
    BY <1>1 DEF Request
  <2>2. stale' \in [Threads -> SUBSET Items]
    BY <1>4, <2>1 DEF Outdate, TypeOK
  <2>3. profile' \in [Fields -> SUBSET Topics] /\ rows' \subseteq Row /\ next_id' \in Nat
    BY <1>1, <1>4, PerformType
  <2>4. kept' \in [Items -> SUBSET Topics] /\ dropped' \in [Items -> SUBSET Topics]
    BY <1>1, <1>4, <2>1, RememberType
  <2> QED BY <1>1, <1>2, <2>2, <2>3, <2>4 DEF TypeOK
<1> QED BY <1>3, <1>4 DEF Land
-----------------------------------------------------------------------------
\* Carrying a request out keeps the ids apart, every row on file, and the
\* items it is not about as they were.
LEMMA PerformRows ==
  ASSUME CopiesInv, NEW req \in Request, NEW blind \in BOOLEAN, NEW unanswered \in BOOLEAN,
         Perform(req, blind, unanswered)
  PROVE  /\ DistinctIds(rows') /\ \A row \in rows' : row.id < next_id'
         /\ \A r \in rows : \E s \in rows' : s.id = r.id /\ s.item = r.item
         /\ \A r \in rows : r.item \notin req.items => r \in rows'
         /\ req.kind # "patch" => rows \subseteq rows'
         /\ \A f \in Fields : f \notin req.items => profile'[f] = profile[f]
<1>1. /\ rows \subseteq Row /\ next_id \in Nat /\ DistinctIds(rows)
      /\ \A row \in rows : row.id < next_id
  BY DEF CopiesInv, TypeOK
<1>2. \A f \in Fields : f \notin req.items => profile'[f] = profile[f]
  BY DEF Perform
<1>3. CASE req.kind = "put"
  BY <1>1, <1>2, <1>3 DEF Perform
<1>4. CASE req.kind = "create"
  <2>1. PICK x : req.items \subseteq {x}
    BY <1>4 DEF Request
  <2> DEFINE n(y) == [id |-> next_id, item |-> y, values |-> req.body[y],
                      blind |-> blind, unanswered |-> unanswered]
  <2>2. rows' = rows \cup {n(y) : y \in req.items} /\ next_id' = next_id + 1
    BY <1>4 DEF Perform
  <2>3. \A s \in rows' : s \in rows \/ s = n(x)
    BY <2>1, <2>2
  <2>4. n(x).id = next_id
    OBVIOUS
  <2> HIDE DEF n
  <2>5. \A row \in rows' : row.id < next_id'
    <3> SUFFICES ASSUME NEW row \in rows' PROVE row.id < next_id'
      OBVIOUS
    <3>1. row.id \in Nat /\ row.id <= next_id
      BY <1>1, <2>3, <2>4 DEF Row
    <3> QED BY <1>1, <2>2, <3>1
  <2>6. DistinctIds(rows')
    <3> SUFFICES ASSUME NEW p \in rows', NEW q \in rows', p.id = q.id PROVE p = q
      BY DEF DistinctIds
    <3>1. \A r \in rows : r.id # next_id
      BY <1>1 DEF Row
    <3> QED BY <1>1, <2>3, <2>4, <3>1 DEF DistinctIds
  <2> QED BY <1>2, <1>4, <2>2, <2>5, <2>6
<1>5. CASE req.kind = "patch"
  <2> DEFINE s(r) == IF r.id = req.id /\ r.item \in req.items
                     THEN [r EXCEPT !.values = req.body[r.item]] ELSE r
  <2>1. rows' = {s(r) : r \in rows} /\ next_id' = next_id
    BY <1>5 DEF Perform
  <2>2. ASSUME NEW r \in rows PROVE s(r).id = r.id /\ s(r).item = r.item
    <3>1. r \in Row
      BY <1>1
    <3>2. r.item \in req.items => req.body[r.item] \in SUBSET Topics
      BY DEF Request
    <3> QED BY <3>1, <3>2, PatchedRow
  <2>3. \A r \in rows : r.item \notin req.items => s(r) = r
    OBVIOUS
  <2> HIDE DEF s
  <2>4. DistinctIds(rows')
    BY <1>1, <2>1, <2>2 DEF DistinctIds
  <2>5. \A row \in rows' : row.id < next_id'
    BY <1>1, <2>1, <2>2
  <2> QED BY <1>2, <1>5, <2>1, <2>2, <2>3, <2>4, <2>5
<1> QED BY <1>3, <1>4, <1>5 DEF Request

\* Items a request is not about keep what is kept of them.
LEMMA RememberOthers ==
  ASSUME TypeOK, NEW req \in Request, NEW blind, NEW answered, Remember(req, blind, answered)
  PROVE  \A x \in Items : x \notin req.items => kept'[x] = kept[x] /\ dropped'[x] = dropped[x]
BY DEF Remember

\* A session whose copy did not change sees such items as before.
LEMMA CopyUndisturbed ==
  ASSUME CopiesInv, NEW req \in Request, NEW u \in Threads, NEW x \in Items,
         x \notin req.items, InCopy(u, x),
         kept'[x] = kept[x], dropped'[x] = dropped[x],
         cache'[u] = cache[u], RowsOf(x, known[u]) \subseteq known'[u],
         \A r \in rows : r.item \notin req.items => r \in rows'
  PROVE  InCopy(u, x)'
<1>1. CASE x \in Fields
  BY <1>1 DEF InCopy
<1>2. CASE x \notin Fields
  <2> SUFFICES ASSUME NEW topic \in kept[x]
               PROVE  \E row \in RowsOf(x, known'[u]), file \in RowsOf(x, rows') :
                         row.id = file.id /\ topic \in row.values /\ topic \in file.values
    BY <1>2 DEF InCopy
  <2>1. PICK row \in RowsOf(x, known[u]), file \in RowsOf(x, rows) :
           row.id = file.id /\ topic \in row.values /\ topic \in file.values
    BY <1>2 DEF InCopy
  <2>2. row \in RowsOf(x, known'[u]) /\ file \in RowsOf(x, rows')
    BY <2>1 DEF RowsOf
  <2> QED BY <2>1, <2>2
<1> QED BY <1>1, <1>2

\* Nor does what is on file of such an item lose anything that is kept.
LEMMA ValueUndisturbed ==
  ASSUME CopiesInv, NEW req \in Request, NEW x \in Items,
         kept'[x] \subseteq kept[x], dropped'[x] \subseteq dropped[x],
         x \in Fields => profile'[x] = profile[x],
         \A r \in RowsOf(x, rows) : r \in rows'
  PROVE  kept'[x] \subseteq Value(x)' /\ dropped'[x] \cap Value(x)' = {}
<1>1. kept[x] \subseteq Value(x) /\ dropped[x] \cap Value(x) = {}
  BY DEF CopiesInv, AcknowledgedEditsSurvive
<1>2. CASE x \in Fields
  BY <1>1, <1>2 DEF Value
<1>3. CASE x \notin Fields
  <2>1. dropped[x] = {}
    BY <1>3 DEF CopiesInv
  <2>2. Value(x) \subseteq Value(x)'
    BY <1>3 DEF Value, RowsOf
  <2> QED BY <1>1, <2>1, <2>2
<1> QED BY <1>2, <1>3
-----------------------------------------------------------------------------
\* The fields a list edit sends keep the copy but for what the edit removes,
\* and hold nothing but the copy and what it adds.
LEMMA MergeKeeps ==
  ASSUME NEW edit \in Edits, NEW old \in [Fields -> SUBSET Topics], NEW x \in ListTools[edit.tool]
  PROVE  LET req == PutRequest(edit, old) IN
         /\ req.added[x] \subseteq req.body[x]
         /\ (req.removed[x] \ req.added[x]) \cap req.body[x] = {}
         /\ old[x] \ req.removed[x] \subseteq req.body[x]
         /\ req.body[x] \subseteq old[x] \cup req.added[x]
<1>1. edit.add \in [Fields -> SUBSET Topics] /\ edit.remove \in [Fields -> SUBSET Topics]
  BY EditFields
<1>2. x \in Fields /\ x \in Items
  BY EditFields DEF Items
<1>3. old[x] \subseteq Topics /\ edit.add[x] \subseteq Topics /\ edit.remove[x] \subseteq Topics
  BY <1>1, <1>2
<1> DEFINE req == PutRequest(edit, old)
<1>4. req.body[x] = IF edit.replace THEN edit.add[x]
                    ELSE (old[x] \cup edit.add[x]) \ edit.remove[x]
  BY <1>2 DEF PutRequest, Merged
<1>5. req.added[x] = IF edit.replace THEN edit.add[x] ELSE edit.add[x] \ edit.remove[x]
  BY <1>2 DEF PutRequest
<1>6. req.removed[x] = IF edit.replace THEN Topics \ edit.add[x] ELSE edit.remove[x]
  BY <1>2 DEF PutRequest
<1> HIDE DEF req
<1> QED BY <1>3, <1>4, <1>5, <1>6 DEF req

\* A list edit that accounts carries out.
LEMMA PutKeeps ==
  ASSUME CopiesInv, NEW t \in Threads, phase[t] = "turn", NEW edit \in Edits,
         NEW fate \in {"ok", "lost"}, NEW req, req = PutRequest(edit, cache[t]),
         Send(t, req, fate)
  PROVE  /\ rows' = rows
         /\ \A x \in Items : x \notin req.items => kept'[x] = kept[x] /\ dropped'[x] = dropped[x]
         /\ \A x \in Items : kept'[x] \subseteq Value(x)' /\ dropped'[x] \cap Value(x)' = {}
         /\ fate = "lost" => \A x \in req.items \ stale[t] :
               kept'[x] \subseteq cache[t][x] /\ dropped'[x] \cap cache[t][x] = {}
<1>1. TypeOK
  BY DEF CopiesInv
<1>2. cache[t] \in [Fields -> SUBSET Topics]
  BY <1>1 DEF TypeOK
<1>3. req \in Request /\ req.kind = "put" /\ req.items = ListTools[edit.tool]
  BY <1>2, PutIsRequest DEF PutRequest
<1>4. req.items \subseteq Fields /\ Fields \subseteq Items
  BY <1>3, EditFields DEF Items
<1> DEFINE blind == stale[t] \cap req.items
<1>5. Perform(req, blind # {}, fate = "lost") /\ Remember(req, blind, fate = "ok")
  BY DEF Send
<1>6. /\ rows' = rows
      /\ \A f \in Fields : profile'[f] = IF f \in req.items THEN req.body[f] ELSE profile[f]
  BY <1>3, <1>5 DEF Perform
<1>7. \A x \in Items : x \notin req.items => kept'[x] = kept[x] /\ dropped'[x] = dropped[x]
  BY <1>1, <1>3, <1>5, RememberOthers
<1>8. ASSUME NEW x \in req.items
      PROVE  /\ kept'[x] \subseteq req.body[x] /\ dropped'[x] \cap req.body[x] = {}
             /\ fate = "lost" /\ x \notin stale[t] =>
                  kept'[x] \subseteq cache[t][x] /\ dropped'[x] \cap cache[t][x] = {}
  <2>1. /\ req.added[x] \subseteq req.body[x]
        /\ (req.removed[x] \ req.added[x]) \cap req.body[x] = {}
        /\ cache[t][x] \ req.removed[x] \subseteq req.body[x]
        /\ req.body[x] \subseteq cache[t][x] \cup req.added[x]
    BY <1>2, <1>3, MergeKeeps
  <2> DEFINE gained == IF fate = "ok" THEN req.added[x] ELSE {}
             gone   == IF fate = "ok" THEN req.removed[x] ELSE {}
  <2>2. CASE x \in stale[t]
    <3>1. kept'[x] = gained /\ dropped'[x] = gone \ req.added[x]
      BY <1>3, <1>4, <1>5, <2>2 DEF Remember
    <3> QED BY <2>1, <2>2, <3>1
  <2>3. CASE x \notin stale[t]
    <3>1. /\ kept'[x] = (kept[x] \ req.removed[x]) \cup gained
          /\ dropped'[x] = (dropped[x] \cup gone) \ req.added[x]
      BY <1>3, <1>4, <1>5, <2>3 DEF Remember
    <3>2. x \in Reads(t) \ stale[t]
      BY <1>4, <2>3 DEF Reads
    <3>3. kept[x] \subseteq cache[t][x] /\ dropped[x] \cap cache[t][x] = {}
      BY <1>4, <3>2 DEF CopiesInv, CopiesCurrent, InCopy
    <3> QED BY <2>1, <3>1, <3>3
  <2> QED BY <2>2, <2>3
<1>9. ASSUME NEW x \in Items
      PROVE  kept'[x] \subseteq Value(x)' /\ dropped'[x] \cap Value(x)' = {}
  <2>1. CASE x \in req.items
    <3>1. Value(x)' = req.body[x]
      BY <1>4, <1>6, <2>1 DEF Value
    <3> QED BY <1>8, <2>1, <3>1
  <2>2. CASE x \notin req.items
    BY <1>3, <1>6, <1>7, <2>2, ValueUndisturbed DEF RowsOf
  <2> QED BY <2>1, <2>2
<1> QED BY <1>6, <1>7, <1>8, <1>9

\* The id a row is written under, and what a write of it means: the new
\* values are there, other rows stay, and a row keeps what the session knew.
RowId(req) == IF req.kind = "create" THEN next_id ELSE req.id

RowWritten(t, item, new, fate, req) ==
  /\ req.items = {item} /\ profile' = profile
  /\ \E s \in RowsOf(item, rows') : s.id = RowId(req) /\ new \subseteq s.values
  /\ \A r \in RowsOf(item, rows) : r.id # RowId(req) => r \in rows'
  /\ \A row \in RowsOf(item, known[t]), r \in RowsOf(item, rows) :
        row.id = RowId(req) /\ r.id = RowId(req) =>
           \E s \in RowsOf(item, rows') : s.id = RowId(req) /\ row.values \subseteq s.values
  /\ kept'[item] \subseteq (IF item \in stale[t] /\ req.kind # "create" THEN {} ELSE kept[item])
                              \cup (IF fate = "ok" THEN new ELSE {})
  /\ dropped'[item] = {}

\* A row that accounts creates or patches for a session that reads its item.
LEMMA RowKeeps ==
  ASSUME CopiesInv, NEW t \in Threads, NEW item \in Titles \cup Scopes, item \in Reads(t),
         NEW new \in SUBSET Topics, NEW fate \in {"ok", "lost"}, NEW req \in Request,
         \/ req = CreateRequest(item, new)
         \/ \E row \in RowsOf(item, known[t]) : req = PatchRequest(row, new),
         Send(t, req, fate)
  PROVE  RowWritten(t, item, new, fate, req)
<1>1. /\ TypeOK /\ DistinctIds(known[t]) /\ KnownOnFile
      /\ \A row \in rows : row \in Row /\ row.id < next_id
      /\ known[t] \subseteq Row
  BY DEF CopiesInv, TypeOK
<1>2. item \in Items /\ item \notin Fields
  BY FamilyRecordsAssumption DEF Items
<1> DEFINE blind == stale[t] \cap req.items
<1>3. Perform(req, blind # {}, fate = "lost") /\ Remember(req, blind, fate = "ok")
  BY DEF Send
<1>4. CASE req = CreateRequest(item, new)
  <2>1. /\ req.kind = "create" /\ req.items = {item}
        /\ req.body[item] = new /\ req.added[item] = new /\ req.removed[item] = {}
    BY <1>2, <1>4 DEF CreateRequest, OneItem, NoTopics
  <2> DEFINE n == [id |-> next_id, item |-> item, values |-> new,
                   blind |-> blind # {}, unanswered |-> fate = "lost"]
  <2>2. rows' = rows \cup {n} /\ profile' = profile
    BY <1>3, <2>1 DEF Perform
  <2>3. n.id = next_id /\ n.item = item /\ n.values = new
    OBVIOUS
  <2> HIDE DEF n
  <2>4. \A r \in rows : r.id # next_id
    BY <1>1 DEF Row, TypeOK
  <2>5. /\ kept'[item] = kept[item] \cup (IF fate = "ok" THEN new ELSE {})
        /\ dropped'[item] = {}
    <3>1. dropped[item] = {}
      BY <1>2 DEF CopiesInv
    <3> QED BY <1>2, <1>3, <2>1, <3>1 DEF Remember
  <2> QED BY <2>1, <2>2, <2>3, <2>4, <2>5 DEF RowsOf, RowWritten, RowId
<1>5. ASSUME NEW row \in RowsOf(item, known[t]), req = PatchRequest(row, new)
      PROVE  /\ req.kind = "patch" /\ req.items = {item} /\ profile' = profile
             /\ \E s \in RowsOf(item, rows') : s.id = req.id /\ new \subseteq s.values
             /\ \A r \in RowsOf(item, rows) : r.id # req.id => r \in rows'
             /\ \A k \in RowsOf(item, known[t]), r \in RowsOf(item, rows) :
                   k.id = req.id /\ r.id = req.id =>
                      \E s \in RowsOf(item, rows') : s.id = req.id /\ k.values \subseteq s.values
             /\ kept'[item] \subseteq (IF item \in stale[t] THEN {} ELSE kept[item])
                                         \cup (IF fate = "ok" THEN new ELSE {})
             /\ dropped'[item] = {}
  <2>1. /\ req.kind = "patch" /\ req.items = {item} /\ req.id = row.id
        /\ req.body[item] = row.values \cup new
        /\ req.added[item] = new /\ req.removed[item] = {}
    BY <1>2, <1>5 DEF PatchRequest, OneItem, NoTopics, RowsOf, Accumulated
  <2> DEFINE s(r) == IF r.id = req.id /\ r.item \in req.items
                     THEN [r EXCEPT !.values = req.body[r.item]] ELSE r
  <2>2. rows' = {s(r) : r \in rows} /\ profile' = profile
    BY <1>3, <2>1 DEF Perform
  <2>3. ASSUME NEW r \in rows, r.id = req.id, r.item = item
        PROVE  s(r).id = req.id /\ s(r).item = item /\ s(r).values = row.values \cup new
    <3>1. r \in Row /\ req.body[item] \in SUBSET Topics
      BY <1>1, <1>2 DEF Request
    <3>2. s(r) = [r EXCEPT !.values = req.body[item]]
      BY <2>1, <2>3
    <3> HIDE DEF s
    <3> QED BY <2>1, <2>3, <3>1, <3>2, PatchedRow
  <2>4. \A r \in rows : r.id # req.id => s(r) = r
    OBVIOUS
  <2> HIDE DEF s
  <2>5. PICK file \in rows : file.id = req.id /\ file.item = item
    BY <1>1, <2>1 DEF KnownOnFile, RowsOf
  <2>6. /\ s(file) \in RowsOf(item, rows') /\ s(file).id = req.id
        /\ s(file).values = row.values \cup new
    BY <2>2, <2>3, <2>5 DEF RowsOf
  <2>7. \A k \in RowsOf(item, known[t]) : k.id = req.id => k = row
    BY <1>1, <2>1 DEF DistinctIds, RowsOf
  <2>8. /\ kept'[item] \subseteq (IF item \in stale[t] THEN {} ELSE kept[item])
                                    \cup (IF fate = "ok" THEN new ELSE {})
        /\ dropped'[item] = {}
    <3>1. dropped[item] = {}
      BY <1>2 DEF CopiesInv
    <3> QED BY <1>2, <1>3, <2>1, <3>1 DEF Remember
  <2>9. \A r \in RowsOf(item, rows) : r.id # req.id => r \in rows'
    BY <2>2, <2>4 DEF RowsOf
  <2> QED BY <2>1, <2>2, <2>6, <2>7, <2>8, <2>9
<1> QED BY <1>4, <1>5 DEF RowWritten, RowId
-----------------------------------------------------------------------------
\* After a row is written, what is kept of every item is on file.
LEMMA RowSurvives ==
  ASSUME CopiesInv, NEW t \in Threads, NEW item \in Titles \cup Scopes, item \in Reads(t),
         NEW new \in SUBSET Topics, NEW fate \in {"ok", "lost"}, NEW req \in Request,
         \/ req = CreateRequest(item, new)
         \/ \E row \in RowsOf(item, known[t]) : req = PatchRequest(row, new),
         Send(t, req, fate)
  PROVE  \A x \in Items : kept'[x] \subseteq Value(x)' /\ dropped'[x] \cap Value(x)' = {}
<1>1. RowWritten(t, item, new, fate, req)
  BY RowKeeps
<1>2. item \in Items /\ item \notin Fields /\ TypeOK
  BY FamilyRecordsAssumption DEF Items, CopiesInv
<1>3. Perform(req, stale[t] \cap req.items # {}, fate = "lost")
      /\ Remember(req, stale[t] \cap req.items, fate = "ok")
  BY DEF Send
<1>4. \A r \in rows : r.item \notin req.items => r \in rows'
  BY <1>3, PerformRows
<1>5. \A x \in Items : x \notin req.items => kept'[x] = kept[x] /\ dropped'[x] = dropped[x]
  BY <1>2, <1>3, RememberOthers
<1>6. ASSUME NEW x \in Items, x # item
      PROVE  kept'[x] \subseteq Value(x)' /\ dropped'[x] \cap Value(x)' = {}
  <2>1. \A r \in RowsOf(x, rows) : r \in rows'
    BY <1>1, <1>4, <1>6 DEF RowsOf, RowWritten
  <2> QED BY <1>1, <1>5, <1>6, <2>1, ValueUndisturbed DEF RowWritten
<1>7. ASSUME NEW topic \in kept'[item]
      PROVE  \E s \in RowsOf(item, rows') : topic \in s.values
  <2>1. CASE topic \in new
    BY <1>1, <2>1 DEF RowWritten
  <2>2. CASE topic \notin new
    <3>1. topic \in kept[item] /\ (item \notin stale[t] \/ req.kind = "create")
      BY <1>1, <1>7, <2>2 DEF RowWritten
    <3>2. CASE req.kind = "create"
      <4>1. kept[item] \subseteq Value(item)
        BY <1>2 DEF CopiesInv, AcknowledgedEditsSurvive
      <4>2. PICK r \in RowsOf(item, rows) : topic \in r.values
        BY <1>2, <3>1, <4>1 DEF Value
      <4>3. r.id # next_id
        BY <4>2 DEF CopiesInv, TypeOK, RowsOf, Row
      <4> QED BY <1>1, <3>2, <4>2, <4>3 DEF RowsOf, RowWritten, RowId
    <3>3. CASE item \notin stale[t]
      <4>1. InCopy(t, item)
        BY <3>3 DEF CopiesInv, CopiesCurrent
      <4>2. PICK row \in RowsOf(item, known[t]), file \in RowsOf(item, rows) :
               row.id = file.id /\ topic \in row.values /\ topic \in file.values
        BY <1>2, <3>1, <4>1 DEF InCopy
      <4> QED BY <1>1, <4>2 DEF RowsOf, RowWritten
    <3> QED BY <3>1, <3>2, <3>3
  <2> QED BY <2>1, <2>2
<1>8. Value(item)' = UNION {row.values : row \in RowsOf(item, rows')}
  BY <1>2 DEF Value
<1>9. kept'[item] \subseteq Value(item)' /\ dropped'[item] \cap Value(item)' = {}
  BY <1>1, <1>7, <1>8 DEF RowWritten
<1> QED BY <1>6, <1>9

\* The copies of the sessions that did not write stay current.
LEMMA OthersCurrent ==
  ASSUME CopiesInv, NEW req \in Request, NEW u \in Threads, NEW x \in Reads(u),
         x \notin stale[u], x \notin req.items,
         kept'[x] = kept[x], dropped'[x] = dropped[x],
         cache'[u] = cache[u], known'[u] = known[u],
         \A r \in rows : r.item \notin req.items => r \in rows'
  PROVE  InCopy(u, x)'
<1>1. x \in Items
  BY DEF Reads, Items
<1>2. InCopy(u, x)
  BY DEF CopiesInv, CopiesCurrent
<1>3. RowsOf(x, known[u]) \subseteq known'[u]
  BY DEF RowsOf
<1> QED BY <1>1, <1>2, <1>3, CopyUndisturbed

\* A request of t that accounts carries out makes the others' copies stale.
LEMMA StaleOthers ==
  ASSUME TypeOK, NEW t \in Threads, NEW req, NEW fate \in {"ok", "lost"}, NEW fresh,
         stale' = Staleness(t, req, fate, fresh)
  PROVE  /\ \A u \in Threads \ {t} :
               /\ stale[u] \subseteq stale'[u]
               /\ Reads(u) # {} => req.items \subseteq stale'[u]
         /\ stale'[t] = IF fate = "ok" THEN stale[t] \ fresh ELSE stale[t]
<1>1. Outdate(Threads \ {t}, req)[t] = stale[t]
  BY DEF Outdate
<1>2. stale' = [Outdate(Threads \ {t}, req) EXCEPT
                  ![t] = IF fate = "ok" THEN stale[t] \ fresh ELSE stale[t]]
  BY <1>1 DEF Staleness
<1>3. \A u \in Threads \ {t} :
         stale'[u] = IF phase[u] \in {"turn", "listed"} THEN stale[u] \cup req.items ELSE stale[u]
  BY <1>2 DEF Outdate
<1>4. \A u \in Threads : Reads(u) # {} => phase[u] \in {"turn", "listed"}
  BY DEF Reads, TypeOK
<1> QED BY <1>2, <1>3, <1>4 DEF Outdate

\* What one item keeps once its row was written: the session that knows the
\* row it wrote, or has not seen the answer, still has it in its copy.
LEMMA RowInCopy ==
  ASSUME CopiesInv, NEW t \in Threads, NEW item \in Scopes, phase[t] = "turn",
         item \notin stale[t],
         NEW new \in SUBSET Topics, NEW fate \in {"ok", "lost"}, NEW req \in Request,
         \/ req = CreateRequest(item, new)
         \/ \E row \in RowsOf(item, known[t]) : req = PatchRequest(row, new),
         Send(t, req, fate),
         known' = IF fate = "ok" THEN RefreshedPolicies(t, req) ELSE known
  PROVE  InCopy(t, item)'
<1>1. item \in Reads(t)
  BY DEF Reads
<1>2. RowWritten(t, item, new, fate, req)
  BY <1>1, RowKeeps
<1>3. item \notin Fields /\ TypeOK
  BY FamilyRecordsAssumption DEF CopiesInv
<1>4. fate = "ok" =>
         known'[t] = {r \in known[t] : r.item \notin req.items \/ r.id # RowId(req)}
                       \cup {r \in rows' : r.item \in req.items /\ r.id = RowId(req)}
  BY <1>3 DEF RefreshedPolicies, TypeOK, RowId
<1>5. fate = "lost" => known'[t] = known[t]
  OBVIOUS
<1> SUFFICES ASSUME NEW topic \in kept'[item]
             PROVE  \E row \in RowsOf(item, known'[t]), file \in RowsOf(item, rows') :
                       row.id = file.id /\ topic \in row.values /\ topic \in file.values
  BY <1>3 DEF InCopy
<1>6. CASE fate = "ok" /\ topic \in new
  <2>1. PICK s \in RowsOf(item, rows') : s.id = RowId(req) /\ new \subseteq s.values
    BY <1>2 DEF RowWritten
  <2>2. s \in RowsOf(item, known'[t])
    BY <1>2, <1>4, <1>6, <2>1 DEF RowsOf, RowWritten
  <2> QED BY <1>6, <2>1, <2>2
<1>7. CASE ~(fate = "ok" /\ topic \in new)
  <2>1. topic \in kept[item]
    BY <1>2, <1>7 DEF RowWritten
  <2>2. InCopy(t, item)
    BY <1>1 DEF CopiesInv, CopiesCurrent
  <2>3. PICK row \in RowsOf(item, known[t]), file \in RowsOf(item, rows) :
           row.id = file.id /\ topic \in row.values /\ topic \in file.values
    BY <1>3, <2>1, <2>2 DEF InCopy
  <2>4. CASE row.id # RowId(req)
    <3>1. file \in RowsOf(item, rows')
      BY <1>2, <2>3, <2>4 DEF RowsOf, RowWritten
    <3>2. row \in RowsOf(item, known'[t])
      BY <1>4, <1>5, <2>3, <2>4 DEF RowsOf
    <3> QED BY <2>3, <3>1, <3>2
  <2>5. CASE row.id = RowId(req)
    <3>1. PICK s \in RowsOf(item, rows') : s.id = RowId(req) /\ row.values \subseteq s.values
      BY <1>2, <2>3, <2>5 DEF RowWritten
    <3>2. fate = "ok" => s \in RowsOf(item, known'[t])
      BY <1>2, <1>4, <3>1 DEF RowsOf, RowWritten
    <3>3. fate = "lost" => row \in RowsOf(item, known'[t])
      BY <1>5, <2>3
    <3> QED BY <2>3, <2>5, <3>1, <3>2, <3>3
  <2> QED BY <2>4, <2>5
<1> QED BY <1>6, <1>7
-----------------------------------------------------------------------------
\* A step that leaves accounts and the copies alone keeps the invariant.
LEMMA QuietStep ==
  ASSUME CopiesInv, TypeOK', UNCHANGED <<profile, rows, next_id, kept, dropped>>,
         UNCHANGED <<cache, known, stale>>, \A u \in Threads : Reads(u)' \subseteq Reads(u)
  PROVE  CopiesInv'
<1>1. CopiesCurrent'
  <2> SUFFICES ASSUME NEW u \in Threads, NEW x \in Reads(u)', x \notin stale[u]
               PROVE  InCopy(u, x)'
    BY DEF CopiesCurrent
  <2>1. InCopy(u, x)
    BY DEF CopiesInv, CopiesCurrent
  <2> QED BY <2>1 DEF InCopy, RowsOf
<1> QED BY <1>1 DEF CopiesInv, DistinctIds, KnownOnFile, AcknowledgedEditsSurvive, Value, RowsOf

\* A turn that starts copies what is on file, so its copy is current.
LEMMA LoadInv ==
  ASSUME CopiesInv, TypeOK', NEW t \in Threads, LoadContext(t)
  PROVE  CopiesInv'
<1>1. /\ UNCHANGED <<profile, rows, next_id, kept, dropped, stale>>
      /\ phase' = [phase EXCEPT ![t] = "turn"]
      /\ cache' = [cache EXCEPT ![t] = profile]
      /\ known' = [known EXCEPT ![t] = {r \in rows : r.item \in Scopes}]
  BY DEF LoadContext, accounts
<1>2. TypeOK
  BY DEF CopiesInv
<1>3. \A u \in Threads : DistinctIds(known'[u])
  BY <1>1, <1>2 DEF CopiesInv, DistinctIds, TypeOK
<1>4. KnownOnFile'
  BY <1>1, <1>2 DEF CopiesInv, KnownOnFile, TypeOK
<1>5. ASSUME NEW u \in Threads, NEW x \in Reads(u)', x \notin stale[u]
      PROVE  InCopy(u, x)'
  <2>1. CASE u # t
    <3>1. x \in Reads(u) /\ cache'[u] = cache[u] /\ known'[u] = known[u]
      BY <1>1, <1>2, <2>1, <1>5 DEF Reads, TypeOK
    <3>2. InCopy(u, x)
      BY <1>5, <3>1 DEF CopiesInv, CopiesCurrent
    <3> QED BY <1>1, <3>1, <3>2 DEF InCopy, RowsOf
  <2>2. CASE u = t
    <3>1. x \in Fields \cup Scopes /\ x \in Items
      BY <1>1, <1>2, <1>5, <2>2 DEF Reads, TypeOK, Items
    <3>2. kept[x] \subseteq Value(x) /\ dropped[x] \cap Value(x) = {}
      BY <3>1 DEF CopiesInv, AcknowledgedEditsSurvive
    <3>3. cache'[t] = profile /\ known'[t] = {r \in rows : r.item \in Scopes}
      BY <1>1, <1>2 DEF TypeOK
    <3>4. CASE x \in Fields
      BY <1>1, <2>2, <3>2, <3>3, <3>4 DEF InCopy, Value
    <3>5. CASE x \notin Fields
      <4>1. RowsOf(x, known'[t]) = RowsOf(x, rows) /\ rows' = rows
        BY <1>1, <3>1, <3>3, <3>5 DEF RowsOf
      <4>2. \A topic \in kept[x] : \E row \in RowsOf(x, rows) : topic \in row.values
        BY <3>2, <3>5 DEF Value
      <4> QED BY <1>1, <2>2, <3>5, <4>1, <4>2 DEF InCopy
    <3> QED BY <3>4, <3>5
  <2> QED BY <2>1, <2>2
<1>6. CopiesCurrent'
  BY <1>1, <1>5 DEF CopiesCurrent
<1> QED
  BY <1>1, <1>3, <1>4, <1>6
     DEF CopiesInv, DistinctIds, AcknowledgedEditsSurvive, Value, RowsOf

\* A session that lists the history knows what is on file of every book.
LEMMA ListInv ==
  ASSUME CopiesInv, TypeOK', NEW t \in Threads, NEW new_book \in Books,
         ListHistory(t, new_book)
  PROVE  CopiesInv'
<1>1. /\ UNCHANGED <<profile, rows, next_id, kept, dropped, cache>>
      /\ phase[t] = "turn" /\ phase' = [phase EXCEPT ![t] = "listed"]
      /\ known' = [known EXCEPT ![t] = Listed(t)]
      /\ stale' = [stale EXCEPT ![t] = stale[t] \ Titles]
  BY DEF ListHistory, accounts
<1>2. /\ TypeOK /\ DistinctIds(rows) /\ DistinctIds(known[t]) /\ KnownOnFile
  BY DEF CopiesInv
<1>3. DistinctIds(Listed(t))
  <2> SUFFICES ASSUME NEW p \in Listed(t), NEW q \in Listed(t), p.id = q.id PROVE p = q
    BY DEF DistinctIds
  <2>1. ASSUME NEW k \in known[t], NEW r \in rows, k.id = r.id, k.item \in Scopes, r.item \in Titles
        PROVE  FALSE
    <3>1. PICK file \in rows : file.id = k.id /\ file.item = k.item
      BY <1>2 DEF KnownOnFile
    <3>2. file = r
      BY <1>2, <2>1, <3>1 DEF DistinctIds
    <3> QED BY <2>1, <3>1, <3>2, FamilyRecordsAssumption
  <2> QED BY <1>2, <2>1 DEF Listed, DistinctIds
<1>4. \A u \in Threads : DistinctIds(known'[u])
  BY <1>1, <1>2, <1>3 DEF CopiesInv, TypeOK
<1>5. KnownOnFile'
  BY <1>1, <1>2 DEF KnownOnFile, Listed, TypeOK
<1>6. ASSUME NEW u \in Threads, NEW x \in Reads(u)', x \notin stale'[u]
      PROVE  InCopy(u, x)'
  <2>1. CASE u # t
    <3>1. x \in Reads(u) /\ known'[u] = known[u] /\ x \notin stale[u]
      BY <1>1, <1>2, <1>6, <2>1 DEF Reads, TypeOK
    <3>2. InCopy(u, x)
      BY <1>6, <3>1 DEF CopiesInv, CopiesCurrent
    <3> QED BY <1>1, <3>1, <3>2 DEF InCopy, RowsOf
  <2>2. CASE u = t
    <3>1. known'[t] = Listed(t) /\ stale'[t] = stale[t] \ Titles /\ x \in Items
      BY <1>1, <1>2, <1>6, <2>2 DEF Reads, TypeOK, Items
    <3>2. CASE x \in Titles
      <4>1. kept[x] \subseteq Value(x) /\ x \notin Fields
        BY <3>1, <3>2, FamilyRecordsAssumption DEF CopiesInv, AcknowledgedEditsSurvive
      <4>2. RowsOf(x, known'[t]) = RowsOf(x, rows) /\ rows' = rows
        BY <1>1, <3>1, <3>2, FamilyRecordsAssumption DEF RowsOf, Listed
      <4>3. \A topic \in kept[x] : \E row \in RowsOf(x, rows) : topic \in row.values
        BY <4>1 DEF Value
      <4> QED BY <1>1, <2>2, <4>1, <4>2, <4>3 DEF InCopy
    <3>3. CASE x \notin Titles
      <4>1. x \in Reads(t) /\ x \notin stale[t]
        BY <1>1, <1>6, <2>2, <3>1, <3>3 DEF Reads, Items
      <4>2. InCopy(t, x)
        BY <4>1 DEF CopiesInv, CopiesCurrent
      <4>3. x \in Fields \/ RowsOf(x, known'[t]) = RowsOf(x, known[t])
        BY <3>1, <3>3, FamilyRecordsAssumption DEF RowsOf, Listed, Items
      <4> QED BY <1>1, <2>2, <4>2, <4>3 DEF InCopy, RowsOf
    <3> QED BY <3>2, <3>3
  <2> QED BY <2>1, <2>2
<1>7. CopiesCurrent'
  BY <1>6 DEF CopiesCurrent
<1> QED
  BY <1>1, <1>4, <1>5, <1>7
     DEF CopiesInv, DistinctIds, AcknowledgedEditsSurvive, Value, RowsOf

\* A turn that ends reads nothing any more.
LEMMA EndInv ==
  ASSUME CopiesInv, TypeOK', NEW t \in Threads, EndTurn(t)
  PROVE  CopiesInv'
<1>1. /\ UNCHANGED <<profile, rows, next_id, kept, dropped>>
      /\ phase' = [phase EXCEPT ![t] = "idle"]
      /\ cache' = [cache EXCEPT ![t] = NoProfile]
      /\ known' = [known EXCEPT ![t] = {}]
      /\ stale' = [stale EXCEPT ![t] = {}]
  BY DEF EndTurn, accounts
<1>2. TypeOK
  BY DEF CopiesInv
<1>3. \A u \in Threads : DistinctIds(known'[u])
  BY <1>1, <1>2 DEF CopiesInv, DistinctIds, TypeOK
<1>4. KnownOnFile'
  BY <1>1, <1>2 DEF CopiesInv, KnownOnFile, TypeOK
<1>5. ASSUME NEW u \in Threads, NEW x \in Reads(u)', x \notin stale'[u]
      PROVE  InCopy(u, x)'
  <2>1. u # t
    BY <1>1, <1>2, <1>5 DEF Reads, TypeOK
  <2>2. /\ x \in Reads(u) /\ x \notin stale[u]
        /\ cache'[u] = cache[u] /\ known'[u] = known[u]
    BY <1>1, <1>2, <1>5, <2>1 DEF Reads, TypeOK
  <2>3. InCopy(u, x)
    BY <1>5, <2>2 DEF CopiesInv, CopiesCurrent
  <2> QED BY <1>1, <2>2, <2>3 DEF InCopy, RowsOf
<1>6. CopiesCurrent'
  BY <1>5 DEF CopiesCurrent
<1> QED
  BY <1>1, <1>3, <1>4, <1>6
     DEF CopiesInv, DistinctIds, AcknowledgedEditsSurvive, Value, RowsOf
-----------------------------------------------------------------------------
\* A list edit keeps the invariant, whatever becomes of its request.
LEMMA EditInv ==
  ASSUME CopiesInv, TypeOK', NEW t \in Threads, NEW edit \in Edits, NEW fate \in Fate,
         EditList(t, edit, fate)
  PROVE  CopiesInv'
<1> DEFINE req == PutRequest(edit, cache[t])
<1>1. /\ phase[t] = "turn" /\ Send(t, req, fate)
      /\ cache' = IF fate = "ok" THEN RefreshedCache(t, RecordOf(edit.tool)) ELSE cache
      /\ stale' = Staleness(t, req, fate, RecordOf(edit.tool))
      /\ UNCHANGED <<phase, known>>
  BY DEF EditList
<1>2. TypeOK /\ edit.tool \in Tool
  BY EditFields DEF CopiesInv
<1>3. req \in Request /\ req.kind = "put" /\ req.items = ListTools[edit.tool]
  BY <1>2, PutIsRequest DEF PutRequest, TypeOK
<1> HIDE DEF req
<1>4. \A u \in Threads : Reads(u)' = Reads(u)
  BY <1>1 DEF Reads
<1>5. CASE fate = "timeout"
  <2>1. UNCHANGED <<profile, rows, next_id, kept, dropped, cache, known, stale>>
    BY <1>1, <1>5 DEF Send, Staleness, accounts
  <2> QED BY <1>4, <2>1, QuietStep
<1>6. CASE fate # "timeout"
  <2>1. fate \in {"ok", "lost"}
    BY <1>6 DEF Fate
  <2>2. /\ rows' = rows
        /\ \A x \in Items : x \notin req.items => kept'[x] = kept[x] /\ dropped'[x] = dropped[x]
        /\ \A x \in Items : kept'[x] \subseteq Value(x)' /\ dropped'[x] \cap Value(x)' = {}
        /\ fate = "lost" => \A x \in req.items \ stale[t] :
              kept'[x] \subseteq cache[t][x] /\ dropped'[x] \cap cache[t][x] = {}
    BY <1>1, <2>1, PutKeeps DEF req
  <2>3. next_id' = next_id
    BY <1>1, <1>3, <1>6 DEF Send, Perform
  <2>4. /\ \A u \in Threads \ {t} :
              /\ stale[u] \subseteq stale'[u]
              /\ Reads(u) # {} => req.items \subseteq stale'[u]
        /\ stale'[t] = IF fate = "ok" THEN stale[t] \ RecordOf(edit.tool) ELSE stale[t]
    <3> DEFINE fresh == RecordOf(edit.tool)
    <3>1. stale' = Staleness(t, req, fate, fresh)
      BY <1>1
    <3> HIDE DEF fresh
    <3>2. /\ \A u \in Threads \ {t} :
                /\ stale[u] \subseteq stale'[u]
                /\ Reads(u) # {} => req.items \subseteq stale'[u]
          /\ stale'[t] = IF fate = "ok" THEN stale[t] \ fresh ELSE stale[t]
      BY <1>2, <2>1, <3>1, StaleOthers
    <3> QED BY <3>2 DEF fresh
  <2>5. req.items \subseteq RecordOf(edit.tool) /\ RecordOf(edit.tool) \subseteq Fields
    BY <1>2, <1>3, RecordOfTool
  <2>6. \A x \in Items \ Fields : dropped'[x] = {}
    BY <2>2, <2>5 DEF CopiesInv
  <2>7. ASSUME NEW u \in Threads, NEW x \in Reads(u), x \notin stale'[u]
        PROVE  InCopy(u, x)'
    <3>1. x \in Items
      BY <2>7 DEF Reads, Items
    <3>2. CASE u # t
      <4>1. x \notin stale[u] /\ x \notin req.items
        BY <2>4, <2>7, <3>2
      <4>2. cache'[u] = cache[u] /\ known'[u] = known[u]
        BY <1>1, <1>2, <3>2 DEF RefreshedCache, TypeOK
      <4> QED BY <1>3, <2>2, <2>7, <3>1, <4>1, <4>2, OthersCurrent
    <3>3. CASE u = t /\ fate = "ok" /\ x \in RecordOf(edit.tool)
      <4>1. x \in Fields /\ cache'[t][x] = profile'[x]
        BY <1>1, <1>2, <2>5, <3>3 DEF RefreshedCache, TypeOK
      <4> QED BY <2>2, <3>1, <3>3, <4>1 DEF InCopy, Value
    <3>4. CASE u = t /\ fate = "ok" /\ x \notin RecordOf(edit.tool)
      <4>1. x \notin stale[t] /\ x \notin req.items
        BY <2>4, <2>5, <2>7, <3>4
      <4>2. x \in Fields => cache'[t][x] = cache[t][x]
        BY <1>1, <1>2, <3>4 DEF RefreshedCache, TypeOK
      <4>3. InCopy(t, x)
        BY <2>7, <3>4, <4>1 DEF CopiesInv, CopiesCurrent
      <4> QED BY <1>1, <2>2, <3>1, <3>4, <4>1, <4>2, <4>3 DEF InCopy, RowsOf
    <3>5. CASE u = t /\ fate = "lost"
      <4>1. x \notin stale[t] /\ cache' = cache
        BY <1>1, <2>4, <2>7, <3>5
      <4>2. CASE x \in req.items
        BY <2>2, <2>5, <3>5, <4>1, <4>2 DEF InCopy
      <4>3. CASE x \notin req.items
        <5>1. InCopy(t, x)
          BY <2>7, <3>5, <4>1 DEF CopiesInv, CopiesCurrent
        <5> QED BY <1>1, <2>2, <3>1, <3>5, <4>1, <4>3, <5>1 DEF InCopy, RowsOf
      <4> QED BY <4>2, <4>3
    <3> QED BY <2>1, <3>2, <3>3, <3>4, <3>5
  <2>8. CopiesCurrent'
    BY <1>4, <2>7 DEF CopiesCurrent
  <2>9. AcknowledgedEditsSurvive'
    BY <2>2 DEF AcknowledgedEditsSurvive
  <2> QED
    BY <1>1, <2>2, <2>3, <2>6, <2>8, <2>9 DEF CopiesInv, DistinctIds, KnownOnFile
<1> QED BY <1>5, <1>6

\* A late request keeps the invariant: every copy is stale in its items.
LEMMA LandInv ==
  ASSUME CopiesInv, TypeOK', NEW req \in late, Land(req)
  PROVE  CopiesInv'
<1>1. TypeOK /\ req \in Request
  BY DEF CopiesInv, TypeOK
<1>2. UNCHANGED <<phase, cache, known>>
  BY DEF Land
<1>3. \A u \in Threads : Reads(u)' = Reads(u)
  BY <1>2 DEF Reads
<1>4. CASE UNCHANGED <<accounts, kept, dropped, stale>>
  BY <1>2, <1>3, <1>4, QuietStep DEF accounts
<1>5. CASE /\ Perform(req, TRUE, TRUE)
           /\ Remember(req, req.items, FALSE)
           /\ stale' = Outdate(Threads, req)
  <2>1. /\ DistinctIds(rows') /\ \A row \in rows' : row.id < next_id'
        /\ \A r \in rows : \E s \in rows' : s.id = r.id /\ s.item = r.item
        /\ \A r \in rows : r.item \notin req.items => r \in rows'
        /\ req.kind # "patch" => rows \subseteq rows'
        /\ \A f \in Fields : f \notin req.items => profile'[f] = profile[f]
    BY <1>1, <1>5, PerformRows
  <2>2. \A x \in Items : x \notin req.items => kept'[x] = kept[x] /\ dropped'[x] = dropped[x]
    BY <1>1, <1>5, RememberOthers
  <2>3. ASSUME NEW x \in Items, x \in req.items
        PROVE  /\ kept'[x] = IF req.kind = "create" THEN kept[x] \ req.removed[x] ELSE {}
               /\ dropped'[x] \subseteq dropped[x]
               /\ x \notin Fields => dropped'[x] = {}
    <3>1. x \notin Fields => dropped[x] = {}
      BY <2>3 DEF CopiesInv
    <3> QED BY <1>5, <2>3, <3>1 DEF Remember
  <2>4. ASSUME NEW x \in Items
        PROVE  kept'[x] \subseteq Value(x)' /\ dropped'[x] \cap Value(x)' = {}
    <3>1. CASE x \notin req.items
      <4>1. \A r \in RowsOf(x, rows) : r \in rows'
        BY <2>1, <3>1 DEF RowsOf
      <4> QED BY <1>1, <2>1, <2>2, <3>1, <4>1, ValueUndisturbed
    <3>2. CASE x \in req.items /\ req.kind = "create"
      <4>1. x \notin Fields /\ rows \subseteq rows'
        BY <1>1, <2>1, <3>2, FamilyRecordsAssumption DEF Request
      <4> QED BY <1>1, <2>3, <3>2, <4>1, ValueUndisturbed DEF RowsOf
    <3>3. CASE x \in req.items /\ req.kind # "create"
      <4>1. kept'[x] = {} /\ dropped'[x] = {}
        BY <1>5, <3>3 DEF Remember
      <4> QED BY <4>1
    <3> QED BY <3>1, <3>2, <3>3
  <2>5. ASSUME NEW u \in Threads, NEW x \in Reads(u), x \notin stale'[u]
        PROVE  InCopy(u, x)'
    <3>1. phase[u] \in {"turn", "listed"} /\ x \in Items
      BY <1>1, <2>5 DEF Reads, Items, TypeOK
    <3>2. x \notin stale[u] /\ x \notin req.items
      BY <1>5, <2>5, <3>1 DEF Outdate
    <3> QED BY <1>1, <1>2, <2>1, <2>2, <2>5, <3>1, <3>2, OthersCurrent
  <2>6. CopiesCurrent'
    BY <1>3, <2>5 DEF CopiesCurrent
  <2>7. KnownOnFile'
    <3> SUFFICES ASSUME NEW t \in Threads, NEW row \in known[t]
                 PROVE  \E file \in rows' : file.id = row.id /\ file.item = row.item
      BY <1>2 DEF KnownOnFile
    <3>1. PICK file \in rows : file.id = row.id /\ file.item = row.item
      BY DEF CopiesInv, KnownOnFile
    <3> QED BY <2>1, <3>1
  <2>8. \A x \in Items \ Fields : dropped'[x] = {}
    BY <2>2, <2>3 DEF CopiesInv
  <2>9. AcknowledgedEditsSurvive'
    BY <2>4 DEF AcknowledgedEditsSurvive
  <2>10. \A t \in Threads : DistinctIds(known'[t])
    BY <1>2 DEF CopiesInv
  <2> QED BY <2>1, <2>6, <2>7, <2>8, <2>9, <2>10 DEF CopiesInv, DistinctIds
<1> QED BY <1>4, <1>5 DEF Land
-----------------------------------------------------------------------------
\* What a session knows after a policy was acknowledged is on file, each row
\* once.
LEMMA RefreshedKnown ==
  ASSUME CopiesInv, NEW t \in Threads, NEW item \in Scopes, item \in Reads(t),
         NEW new \in SUBSET Topics, NEW fate \in {"ok", "lost"}, NEW req \in Request,
         \/ req = CreateRequest(item, new)
         \/ \E row \in RowsOf(item, known[t]) : req = PatchRequest(row, new),
         Send(t, req, fate), known' = RefreshedPolicies(t, req)
  PROVE  DistinctIds(known'[t]) /\ \A k \in known'[t] : k \in known[t] \/ k \in rows'
<1>1. /\ TypeOK /\ DistinctIds(known[t]) /\ DistinctIds(rows) /\ KnownOnFile
      /\ \A row \in rows : row \in Row /\ row.id < next_id
  BY DEF CopiesInv, TypeOK
<1>2. req.items = {item}
  <2>1. RowWritten(t, item, new, fate, req)
    BY RowKeeps
  <2> QED BY <2>1 DEF RowWritten
<1>3. DistinctIds(rows') /\ \A r \in rows : \E s \in rows' : s.id = r.id /\ s.item = r.item
  BY PerformRows DEF Send
<1>4. known'[t] = {r \in known[t] : r.item # item \/ r.id # RowId(req)}
                    \cup {r \in rows' : r.item = item /\ r.id = RowId(req)}
  BY <1>1, <1>2 DEF RefreshedPolicies, RowId, TypeOK
<1>5. ASSUME NEW p \in known[t], NEW q \in rows', p.id = q.id, q.item = item
      PROVE  p.item = item
  <2>1. PICK file \in rows : file.id = p.id /\ file.item = p.item
    BY <1>1 DEF KnownOnFile
  <2>2. PICK s \in rows' : s.id = file.id /\ s.item = file.item
    BY <1>3
  <2>3. s = q
    BY <1>3, <1>5, <2>1, <2>2 DEF DistinctIds
  <2> QED BY <1>5, <2>1, <2>2, <2>3
<1>6. DistinctIds(known'[t])
  <2> SUFFICES ASSUME NEW p \in known'[t], NEW q \in known'[t], p.id = q.id PROVE p = q
    BY DEF DistinctIds
  <2> QED BY <1>1, <1>3, <1>4, <1>5 DEF DistinctIds
<1> QED BY <1>4, <1>6

\* A row written for t: by a tool that knows only the rows it listed, or by one
\* that refreshes its copy of the policies.
LEMMA RowInv ==
  ASSUME CopiesInv, TypeOK', NEW t \in Threads,
         NEW item \in Titles \cup Scopes, item \in Reads(t),
         NEW new \in SUBSET Topics, NEW fate \in {"ok", "lost"}, NEW req \in Request,
         \/ req = CreateRequest(item, new)
         \/ \E row \in RowsOf(item, known[t]) : req = PatchRequest(row, new),
         Send(t, req, fate), stale' = Staleness(t, req, fate, {}), cache' = cache,
         \A u \in Threads : Reads(u)' \subseteq Reads(u),
         \/ known' = known /\ item \notin Reads(t)'
         \/ /\ item \in Scopes /\ phase[t] = "turn"
            /\ known' = IF fate = "ok" THEN RefreshedPolicies(t, req) ELSE known
  PROVE  CopiesInv'
<1>1. /\ TypeOK /\ KnownOnFile
      /\ \A u \in Threads : DistinctIds(known[u])
  BY DEF CopiesInv
<1>2. /\ req.items = {item} /\ profile' = profile /\ dropped'[item] = {}
  <2>1. RowWritten(t, item, new, fate, req)
    BY RowKeeps
  <2> QED BY <2>1 DEF RowWritten
<1>3. Perform(req, stale[t] \cap req.items # {}, fate = "lost")
      /\ Remember(req, stale[t] \cap req.items, fate = "ok")
  BY DEF Send
<1>4. /\ DistinctIds(rows') /\ \A row \in rows' : row.id < next_id'
      /\ \A r \in rows : \E s \in rows' : s.id = r.id /\ s.item = r.item
      /\ \A r \in rows : r.item \notin req.items => r \in rows'
  BY <1>3, PerformRows
<1>5. \A x \in Items : x \notin req.items => kept'[x] = kept[x] /\ dropped'[x] = dropped[x]
  BY <1>1, <1>3, RememberOthers
<1>6. AcknowledgedEditsSurvive'
  BY RowSurvives DEF AcknowledgedEditsSurvive
<1>7. /\ \A u \in Threads \ {t} :
            stale[u] \subseteq stale'[u] /\ (Reads(u) # {} => req.items \subseteq stale'[u])
      /\ stale'[t] = stale[t]
  <2>1. stale'[t] = IF fate = "ok" THEN stale[t] \ {} ELSE stale[t]
    BY <1>1, StaleOthers
  <2>2. stale[t] \ {} = stale[t]
    OBVIOUS
  <2> QED BY <1>1, <2>1, <2>2, StaleOthers
<1>8. \A u \in Threads \ {t} : known'[u] = known[u]
  BY <1>1 DEF RefreshedPolicies, TypeOK
<1>9. \/ known'[t] = known[t]
      \/ fate = "ok" /\ item \in Scopes /\ known' = RefreshedPolicies(t, req)
  OBVIOUS
<1>10. DistinctIds(known'[t]) /\ \A k \in known'[t] : k \in known[t] \/ k \in rows'
  BY <1>1, <1>9, RefreshedKnown
<1>11. ASSUME NEW u \in Threads, NEW x \in Reads(u)', x \notin stale'[u]
       PROVE  InCopy(u, x)'
  <2>1. x \in Reads(u) /\ x \in Items
    BY <1>11 DEF Reads, Items
  <2>2. CASE u # t
    BY <1>2, <1>4, <1>5, <1>7, <1>8, <1>11, <2>1, <2>2, OthersCurrent
  <2>3. CASE u = t /\ x # item
    <3>1. InCopy(t, x)
      BY <1>7, <1>11, <2>1, <2>3 DEF CopiesInv, CopiesCurrent
    <3>2. RowsOf(x, known[t]) \subseteq known'[t]
      <4>1. fate = "ok" /\ known' = RefreshedPolicies(t, req) =>
               {r \in known[t] : r.item \notin req.items} \subseteq known'[t]
        BY <1>1 DEF RefreshedPolicies, TypeOK
      <4> QED BY <1>2, <1>9, <2>3, <4>1 DEF RowsOf
    <3> QED BY <1>2, <1>4, <1>5, <2>1, <2>3, <3>1, <3>2, CopyUndisturbed
  <2>4. CASE u = t /\ x = item
    <3>1. /\ item \in Scopes /\ phase[t] = "turn" /\ item \notin stale[t]
          /\ known' = IF fate = "ok" THEN RefreshedPolicies(t, req) ELSE known
      BY <1>7, <1>11, <2>4
    <3> QED BY <2>4, <3>1, RowInCopy
  <2> QED BY <2>2, <2>3, <2>4
<1>12. CopiesCurrent'
  BY <1>11 DEF CopiesCurrent
<1>13. KnownOnFile'
  <2> SUFFICES ASSUME NEW u \in Threads, NEW k \in known'[u]
               PROVE  \E file \in rows' : file.id = k.id /\ file.item = k.item
    BY DEF KnownOnFile
  <2>1. k \in known[u] \/ k \in rows'
    BY <1>8, <1>10
  <2> QED BY <1>1, <1>4, <2>1 DEF KnownOnFile
<1>14. \A u \in Threads : DistinctIds(known'[u])
  BY <1>1, <1>8, <1>10
<1>15. \A x \in Items \ Fields : dropped'[x] = {}
  BY <1>2, <1>5 DEF CopiesInv
<1> QED
  BY <1>4, <1>6, <1>12, <1>13, <1>14, <1>15 DEF CopiesInv, DistinctIds

\* Recording a book keeps the invariant.
LEMMA BookInv ==
  ASSUME CopiesInv, TypeOK', NEW t \in Threads, NEW fate \in Fate, RecordBook(t, fate)
  PROVE  CopiesInv'
<1>1. PICK req \in BookRequests(t) :
         Send(t, req, fate) /\ stale' = Staleness(t, req, fate, {})
  BY DEF RecordBook
<1>2. TypeOK /\ phase[t] = "listed" /\ cache' = cache /\ known' = known
      /\ phase' = [phase EXCEPT ![t] = "turn"]
  BY DEF CopiesInv, RecordBook
<1>3. req \in Request /\ book[t].title \in Titles /\ book[t].reasons \in SUBSET Topics
  BY <1>2, BookRequestsType DEF TypeOK, Books
<1>4. /\ \A u \in Threads : Reads(u)' \subseteq Reads(u)
      /\ book[t].title \in Reads(t) /\ book[t].title \notin Reads(t)'
  BY <1>2, <1>3, FamilyRecordsAssumption DEF Reads, TypeOK, Items
<1>5. CASE fate = "timeout"
  <2>1. UNCHANGED <<profile, rows, next_id, kept, dropped, stale>>
    BY <1>1, <1>5 DEF Send, Staleness, accounts
  <2> QED BY <1>2, <1>4, <2>1, QuietStep
<1>6. CASE fate # "timeout" /\ req.items = {}
  <2>1. /\ Perform(req, stale[t] \cap req.items # {}, fate = "lost")
        /\ Remember(req, stale[t] \cap req.items, fate = "ok")
    BY <1>1, <1>6 DEF Send
  <2>2. req.kind = "patch"
    BY <1>6 DEF BookRequests, CreateRequest, PatchRequest, OneItem, OtherColumns
  <2>3. rows' = rows /\ profile' = profile /\ next_id' = next_id
    BY <1>6, <2>1, <2>2 DEF Perform
  <2>4. kept' = kept /\ dropped' = dropped
    BY <1>2, <1>6, <2>1 DEF Remember, TypeOK
  <2>5. stale' = stale
    <3>1. Outdate(Threads \ {t}, req) = stale
      BY <1>2, <1>6 DEF Outdate, TypeOK
    <3>2. stale[t] \ {} = stale[t]
      OBVIOUS
    <3>3. stale' = [stale EXCEPT ![t] = stale[t]]
      BY <1>1, <1>6, <3>1, <3>2 DEF Staleness
    <3> QED BY <1>2, <3>3 DEF TypeOK
  <2> QED BY <1>2, <1>4, <2>3, <2>4, <2>5, QuietStep
<1>7. CASE fate # "timeout" /\ req.items # {}
  <2>1. \/ req = CreateRequest(book[t].title, book[t].reasons)
        \/ \E row \in RowsOf(book[t].title, known[t]) : req = PatchRequest(row, book[t].reasons)
    BY <1>7 DEF BookRequests, OtherColumns, Found, RowsOf
  <2>2. fate \in {"ok", "lost"}
    BY <1>7 DEF Fate
  <2> QED BY <1>1, <1>2, <1>3, <1>4, <2>1, <2>2, RowInv
<1> QED BY <1>5, <1>6, <1>7

\* Recording a policy keeps the invariant.
LEMMA PolicyInv ==
  ASSUME CopiesInv, TypeOK', NEW t \in Threads, NEW scope \in Scopes,
         NEW goals \in SUBSET Topics, NEW fate \in Fate, RecordPolicy(t, scope, goals, fate)
  PROVE  CopiesInv'
<1>1. PICK req \in PolicyRequests(t, scope, goals) :
         /\ Send(t, req, fate)
         /\ known' = IF fate = "ok" THEN RefreshedPolicies(t, req) ELSE known
         /\ stale' = Staleness(t, req, fate, {})
  BY DEF RecordPolicy
<1>2. TypeOK /\ phase[t] = "turn" /\ cache' = cache /\ phase' = phase
  BY DEF CopiesInv, RecordPolicy
<1>3. req \in Request
  BY <1>2, PolicyRequestsType
<1>4. (\A u \in Threads : Reads(u)' \subseteq Reads(u)) /\ scope \in Reads(t)
  BY <1>2 DEF Reads
<1>5. CASE fate = "timeout"
  <2>1. UNCHANGED <<profile, rows, next_id, kept, dropped, known, stale>>
    BY <1>1, <1>5 DEF Send, Staleness, accounts
  <2> QED BY <1>2, <1>4, <2>1, QuietStep
<1>6. CASE fate # "timeout"
  <2>1. \/ req = CreateRequest(scope, goals)
        \/ \E row \in RowsOf(scope, known[t]) : req = PatchRequest(row, goals)
    BY DEF PolicyRequests, Found, RowsOf
  <2>2. fate \in {"ok", "lost"}
    BY <1>6 DEF Fate
  <2> QED BY <1>1, <1>2, <1>3, <1>4, <2>1, <2>2, RowInv
<1> QED BY <1>5, <1>6

-----------------------------------------------------------------------------
\* Initially nothing is on file and nothing is kept.
LEMMA InitCopies == Init => CopiesInv
<1> SUFFICES ASSUME Init PROVE CopiesInv
  OBVIOUS
<1>1. TypeOK
  BY InitType
<1>2. rows = {} /\ \A t \in Threads : known[t] = {} /\ Reads(t) = {}
  BY DEF Init, Reads
<1>3. \A x \in Items : kept[x] = {} /\ dropped[x] = {}
  BY DEF Init, NoTopics
<1>4. AcknowledgedEditsSurvive
  BY <1>3 DEF AcknowledgedEditsSurvive
<1> QED
  BY <1>1, <1>2, <1>3, <1>4 DEF CopiesInv, DistinctIds, KnownOnFile, CopiesCurrent

\* Every step keeps the copies current and the acknowledged edits on file.
LEMMA NextCopies == CopiesInv /\ [Next]_vars => CopiesInv'
<1> SUFFICES ASSUME CopiesInv, [Next]_vars PROVE CopiesInv'
  OBVIOUS
<1>1. TypeOK
  BY DEF CopiesInv
<1>2. ASSUME NEW t \in Threads, ThreadStep(t) PROVE CopiesInv'
  <2>1. TypeOK'
    BY <1>1, <1>2, ThreadStepType
  <2>2. CASE LoadContext(t)
    BY <2>1, <2>2, LoadInv
  <2>3. ASSUME NEW edit \in Edits, NEW fate \in Fate, EditList(t, edit, fate) PROVE CopiesInv'
    BY <2>1, <2>3, EditInv
  <2>4. ASSUME NEW new_book \in Books, ListHistory(t, new_book) PROVE CopiesInv'
    BY <2>1, <2>4, ListInv
  <2>5. ASSUME NEW fate \in Fate, RecordBook(t, fate) PROVE CopiesInv'
    BY <2>1, <2>5, BookInv
  <2>6. ASSUME NEW scope \in Scopes, NEW goals \in SUBSET Topics, NEW fate \in Fate,
               RecordPolicy(t, scope, goals, fate)
        PROVE  CopiesInv'
    BY <2>1, <2>6, PolicyInv
  <2>7. CASE ToolFails(t)
    <3>1. \A u \in Threads : Reads(u)' \subseteq Reads(u)
      BY <1>1, <2>7 DEF ToolFails, Reads, TypeOK, Items
    <3> QED BY <2>1, <2>7, <3>1, QuietStep DEF ToolFails, accounts
  <2>8. CASE EndTurn(t)
    BY <2>1, <2>8, EndInv
  <2> QED BY <1>2, <2>2, <2>3, <2>4, <2>5, <2>6, <2>7, <2>8 DEF ThreadStep
<1>3. ASSUME NEW req \in late, Land(req) PROVE CopiesInv'
  BY <1>1, <1>3, LandType, LandInv
<1>4. CASE UNCHANGED vars
  BY <1>4 DEF vars, accounts, CopiesInv, TypeOK, DistinctIds, KnownOnFile, CopiesCurrent, Reads,
              InCopy, RowsOf, AcknowledgedEditsSurvive, Value
<1> QED BY <1>2, <1>3, <1>4 DEF Next

-----------------------------------------------------------------------------
\* Duplicates: what a session knows of the rows of an item.

\* A row on file after a request was there before, or the request created it.
LEMMA RowsBack ==
  ASSUME TypeOK, NEW req \in Request, NEW blind \in BOOLEAN, NEW unanswered \in BOOLEAN,
         Perform(req, blind, unanswered), NEW s \in rows'
  PROVE  \/ \E r \in rows : /\ r.id = s.id /\ r.item = s.item
                            /\ r.blind = s.blind /\ r.unanswered = s.unanswered
         \/ /\ req.kind = "create" /\ s.item \in req.items /\ s.id = next_id
            /\ s.blind = blind /\ s.unanswered = unanswered
<1>1. CASE req.kind = "put"
  BY <1>1 DEF Perform
<1>2. CASE req.kind = "create"
  BY <1>2 DEF Perform
<1>3. CASE req.kind = "patch"
  <2>1. PICK r \in rows :
           s = IF r.id = req.id /\ r.item \in req.items
               THEN [r EXCEPT !.values = req.body[r.item]] ELSE r
    BY <1>3 DEF Perform
  <2>2. r \in Row
    BY DEF TypeOK
  <2>3. r.id = s.id /\ r.item = s.item /\ r.blind = s.blind /\ r.unanswered = s.unanswered
    BY <2>1, <2>2 DEF Row
  <2> QED BY <2>3
<1> QED BY <1>1, <1>2, <1>3 DEF Request

\* A request duplicates a row knowingly only if it was made blind, or the other
\* row is one nobody heard of.
LEMMA DuplicateRows ==
  ASSUME CopiesInv, DuplicatesAreRaced,
         NEW req \in Request, NEW blind \in BOOLEAN, NEW unanswered \in BOOLEAN,
         Perform(req, blind, unanswered),
         req.kind = "create" /\ ~blind =>
            \A r \in rows : r.item \in req.items => r.item \in Scopes /\ r.unanswered
  PROVE  DuplicatesAreRaced'
<1>1. TypeOK
  BY DEF CopiesInv
<1>2. ASSUME NEW p \in rows', NEW q \in rows', p.item = q.item,
             NEW r \in rows, r.id = p.id, r.item = p.item, r.blind = p.blind,
             r.unanswered = p.unanswered,
             req.kind = "create", q.item \in req.items, q.blind = blind
      PROVE  \/ p.blind \/ q.blind
             \/ p.item \in Scopes /\ p.unanswered
  BY <1>2
<1> SUFFICES ASSUME NEW p \in rows', NEW q \in rows', p.id # q.id, p.item = q.item
             PROVE  \/ p.blind \/ q.blind
                    \/ p.item \in Scopes /\ (p.unanswered \/ q.unanswered)
  BY DEF DuplicatesAreRaced
<1> DEFINE Old(s) == \E r \in rows : /\ r.id = s.id /\ r.item = s.item
                                     /\ r.blind = s.blind /\ r.unanswered = s.unanswered
           New(s) == /\ req.kind = "create" /\ s.item \in req.items /\ s.id = next_id
                     /\ s.blind = blind /\ s.unanswered = unanswered
<1>3. (Old(p) \/ New(p)) /\ (Old(q) \/ New(q))
  BY <1>1, RowsBack
<1>4. CASE Old(p) /\ Old(q)
  BY <1>4 DEF DuplicatesAreRaced
<1>5. CASE Old(p) /\ New(q)
  BY <1>2, <1>5
<1>6. CASE New(p) /\ Old(q)
  BY <1>2, <1>6
<1>7. CASE New(p) /\ New(q)
  BY <1>7
<1> QED BY <1>3, <1>4, <1>5, <1>6, <1>7

\* A session that reads no more, knows the same and whose items nobody wrote
\* still knows what is on file.
LEMMA StillSeen ==
  ASSUME CopiesInv, NEW req \in Request, NEW blind \in BOOLEAN, NEW unanswered \in BOOLEAN,
         Perform(req, blind, unanswered),
         NEW t \in Threads, NEW x, Seen(t, x), x \notin req.items,
         RowsOf(x, known[t]) \subseteq known'[t]
  PROVE  Seen(t, x)'
<1>1. TypeOK
  BY DEF CopiesInv
<1> SUFFICES ASSUME NEW row \in rows', row.item = x
             PROVE  \/ x \in Scopes /\ row.unanswered
                    \/ \E copy \in RowsOf(x, known'[t]) : copy.id = row.id
  BY DEF Seen, RowsOf
<1>2. PICK r \in rows : r.id = row.id /\ r.item = row.item /\ r.unanswered = row.unanswered
  BY <1>1, RowsBack
<1>3. CASE x \in Scopes /\ r.unanswered
  BY <1>2, <1>3
<1>4. CASE \E copy \in RowsOf(x, known[t]) : copy.id = r.id
  BY <1>2, <1>4 DEF RowsOf
<1> QED BY <1>2, <1>3, <1>4 DEF Seen, RowsOf

\* The writer of a policy knows the row it wrote, or nobody heard of it.
LEMMA WriterSees ==
  ASSUME CopiesInv, NEW t \in Threads, NEW item \in Scopes, NEW fate \in {"ok", "lost"},
         NEW req \in Request, req.items = {item}, NEW blind \in BOOLEAN,
         NEW unanswered \in BOOLEAN, unanswered <=> fate = "lost",
         Perform(req, blind, unanswered), Seen(t, item),
         known' = IF fate = "ok" THEN RefreshedPolicies(t, req) ELSE known
  PROVE  Seen(t, item)'
<1>1. TypeOK
  BY DEF CopiesInv
<1> SUFFICES ASSUME NEW row \in rows', row.item = item
             PROVE  \/ row.unanswered
                    \/ \E copy \in RowsOf(item, known'[t]) : copy.id = row.id
  BY DEF Seen, RowsOf
<1> DEFINE id == IF req.kind = "create" THEN next_id ELSE req.id
<1>2. fate = "ok" =>
        known'[t] = {r \in known[t] : r.item \notin req.items \/ r.id # id}
                      \cup {r \in rows' : r.item \in req.items /\ r.id = id}
  BY <1>1 DEF RefreshedPolicies, TypeOK
<1>3. CASE \E r \in rows : r.id = row.id /\ r.item = row.item /\ r.unanswered = row.unanswered
  <2>1. row.unanswered \/ \E copy \in RowsOf(item, known[t]) : copy.id = row.id
    BY <1>3 DEF Seen, RowsOf
  <2>2. CASE \E copy \in RowsOf(item, known[t]) : copy.id = row.id
    <3>1. CASE fate = "ok" /\ row.id = id
      BY <1>2, <3>1 DEF RowsOf
    <3>2. CASE fate = "ok" /\ row.id # id
      BY <1>2, <2>2, <3>2 DEF RowsOf
    <3>3. CASE fate = "lost"
      BY <2>2, <3>3
    <3> QED BY <3>1, <3>2, <3>3
  <2> QED BY <2>1, <2>2
<1>4. CASE req.kind = "create" /\ row.id = next_id /\ row.unanswered = unanswered
  BY <1>2, <1>4 DEF RowsOf
<1>5. \/ \E r \in rows : /\ r.id = row.id /\ r.item = row.item
                          /\ r.blind = row.blind /\ r.unanswered = row.unanswered
      \/ /\ req.kind = "create" /\ row.item \in req.items /\ row.id = next_id
         /\ row.blind = blind /\ row.unanswered = unanswered
  BY <1>1, RowsBack
<1> QED BY <1>3, <1>4, <1>5

\* A step that adds no row and makes no session read or know more.
LEMMA QuietRace ==
  ASSUME CopiesInv, RaceInv, rows' = rows,
         \A u \in Threads : \A x \in Reads(u)' \ Fields :
            x \notin stale'[u] => /\ x \in Reads(u) /\ x \notin stale[u]
                                  /\ known'[u] = known[u]
  PROVE  RaceInv'
<1>1. ASSUME NEW u \in Threads, NEW x \in (Reads(u)' \ Fields) \ stale'[u]
      PROVE  Seen(u, x)'
  <2>1. Seen(u, x) /\ known'[u] = known[u]
    BY <1>1 DEF RaceInv
  <2> QED BY <2>1 DEF Seen, RowsOf
<1> QED BY <1>1 DEF RaceInv, DuplicatesAreRaced

\* A row written for t, as in RowInv.
LEMMA RowRace ==
  ASSUME CopiesInv, RaceInv, NEW t \in Threads,
         NEW item \in Titles \cup Scopes, item \in Reads(t),
         NEW fate \in {"ok", "lost"}, NEW req \in Request, req.items = {item},
         req.kind = "create" => RowsOf(item, known[t]) = {},
         Send(t, req, fate), stale' = Staleness(t, req, fate, {}),
         \A u \in Threads : Reads(u)' \subseteq Reads(u),
         \/ known' = known /\ item \notin Reads(t)'
         \/ /\ item \in Scopes
            /\ known' = IF fate = "ok" THEN RefreshedPolicies(t, req) ELSE known
  PROVE  RaceInv'
<1> DEFINE blind == stale[t] \cap req.items # {}
<1>1. TypeOK /\ item \notin Fields
  BY FamilyRecordsAssumption DEF CopiesInv
<1>2. Perform(req, blind, fate = "lost") /\ blind \in BOOLEAN /\ (fate = "lost") \in BOOLEAN
  BY DEF Send
<1>3. /\ \A u \in Threads \ {t} :
            stale[u] \subseteq stale'[u] /\ (Reads(u) # {} => req.items \subseteq stale'[u])
      /\ stale'[t] = stale[t]
  <2>1. stale'[t] = IF fate = "ok" THEN stale[t] \ {} ELSE stale[t]
    BY <1>1, StaleOthers
  <2>2. stale[t] \ {} = stale[t]
    OBVIOUS
  <2> QED BY <1>1, <2>1, <2>2, StaleOthers
<1>4. ~blind => item \notin stale[t]
  OBVIOUS
<1> HIDE DEF blind
<1>5. req.kind = "create" /\ ~blind =>
        \A r \in rows : r.item \in req.items => r.item \in Scopes /\ r.unanswered
  <2> SUFFICES ASSUME req.kind = "create", ~blind, NEW r \in rows, r.item = item
               PROVE  item \in Scopes /\ r.unanswered
    OBVIOUS
  <2>1. Seen(t, item)
    BY <1>1, <1>4 DEF RaceInv
  <2> QED BY <2>1 DEF Seen, RowsOf
<1>6. DuplicatesAreRaced'
  BY <1>2, <1>5, DuplicateRows DEF RaceInv
<1>7. ASSUME NEW u \in Threads, NEW x \in Reads(u)', x \notin Fields, x \notin stale'[u]
      PROVE  Seen(u, x)'
  <2>1. x \in Reads(u)
    BY <1>7
  <2>2. CASE u # t
    <3>1. x \notin stale[u] /\ x \notin req.items /\ known'[u] = known[u]
      BY <1>1, <1>3, <1>7, <2>1, <2>2 DEF RefreshedPolicies, TypeOK
    <3>2. Seen(u, x)
      BY <1>7, <2>1, <3>1 DEF RaceInv
    <3>3. RowsOf(x, known[u]) \subseteq known'[u]
      BY <3>1 DEF RowsOf
    <3> QED BY <1>2, <3>1, <3>2, <3>3, StillSeen
  <2>3. CASE u = t /\ x # item
    <3>1. Seen(t, x)
      BY <1>3, <1>7, <2>1, <2>3 DEF RaceInv
    <3>2. RowsOf(x, known[t]) \subseteq known'[t]
      <4>1. known' = RefreshedPolicies(t, req) =>
               {r \in known[t] : r.item \notin req.items} \subseteq known'[t]
        BY <1>1 DEF RefreshedPolicies, TypeOK
      <4> QED BY <2>3, <4>1 DEF RowsOf
    <3> QED BY <1>2, <2>3, <3>1, <3>2, StillSeen
  <2>4. CASE u = t /\ x = item
    <3>1. item \in Scopes /\ known' = IF fate = "ok" THEN RefreshedPolicies(t, req) ELSE known
      BY <1>7, <2>4
    <3>2. Seen(t, item)
      BY <1>1, <1>3, <1>7, <2>4 DEF RaceInv
    <3> DEFINE unanswered == fate = "lost"
    <3>3. /\ unanswered \in BOOLEAN /\ (unanswered <=> fate = "lost")
          /\ Perform(req, blind, unanswered) /\ blind \in BOOLEAN
      BY <1>2
    <3> HIDE DEF unanswered
    <3>4. Seen(t, item)'
      BY <3>1, <3>2, <3>3, WriterSees
    <3> QED BY <2>4, <3>4
  <2> QED BY <2>2, <2>3, <2>4
<1> QED BY <1>6, <1>7 DEF RaceInv

\* A turn that starts knows every policy on file, and a history just listed is
\* known.
LEMMA ReadRace ==
  ASSUME CopiesInv, RaceInv, NEW t \in Threads,
         LoadContext(t) \/ \E new_book \in Books : ListHistory(t, new_book)
  PROVE  RaceInv'
<1>1. TypeOK
  BY DEF CopiesInv
<1>2. /\ rows' = rows
      /\ \A u \in Threads \ {t} : /\ phase'[u] = phase[u] /\ known'[u] = known[u]
                                  /\ stale'[u] = stale[u]
  BY <1>1 DEF LoadContext, ListHistory, accounts, TypeOK
<1>3. ASSUME NEW u \in Threads, NEW x \in (Reads(u)' \ Fields) \ stale'[u]
      PROVE  Seen(u, x)'
  <2>1. CASE u # t
    <3>1. Seen(u, x)
      BY <1>2, <1>3, <2>1 DEF RaceInv, Reads
    <3> QED BY <1>2, <2>1, <3>1 DEF Seen, RowsOf
  <2>2. CASE u = t /\ LoadContext(t)
    <3>1. phase'[t] = "turn" /\ known'[t] = {r \in rows : r.item \in Scopes}
      BY <1>1, <2>2 DEF LoadContext, TypeOK
    <3>2. x \in Scopes
      BY <1>3, <2>2, <3>1 DEF Reads
    <3>3. RowsOf(x, known'[t]) = RowsOf(x, rows')
      BY <1>2, <3>1, <3>2 DEF RowsOf
    <3> QED BY <2>2, <3>3 DEF Seen
  <2>3. CASE u = t /\ \E new_book \in Books : ListHistory(t, new_book)
    <3>1. /\ phase[t] = "turn" /\ phase'[t] = "listed" /\ known'[t] = Listed(t)
          /\ stale'[t] = stale[t] \ Titles
      BY <1>1, <2>3 DEF ListHistory, TypeOK
    <3>2. CASE x \in Titles
      <4>1. RowsOf(x, known'[t]) = RowsOf(x, rows')
        BY <1>2, <3>1, <3>2, FamilyRecordsAssumption DEF RowsOf, Listed
      <4> QED BY <2>3, <4>1 DEF Seen
    <3>3. CASE x \notin Titles
      <4>1. x \in Scopes /\ x \in Reads(t) /\ x \notin stale[t]
        BY <1>3, <2>3, <3>1, <3>3 DEF Reads, Items
      <4>2. Seen(t, x)
        BY <1>3, <4>1 DEF RaceInv
      <4>3. RowsOf(x, known'[t]) = RowsOf(x, known[t]) /\ RowsOf(x, rows') = RowsOf(x, rows)
        BY <1>2, <3>1, <3>3, <4>1 DEF RowsOf, Listed
      <4> QED BY <2>3, <4>2, <4>3 DEF Seen
    <3> QED BY <3>2, <3>3
  <2> QED BY <2>1, <2>2, <2>3
<1> QED BY <1>2, <1>3 DEF RaceInv, DuplicatesAreRaced

\* A list edit touches no row.
LEMMA EditRace ==
  ASSUME CopiesInv, RaceInv, NEW t \in Threads, NEW edit \in Edits, NEW fate \in Fate,
         EditList(t, edit, fate)
  PROVE  RaceInv'
<1> DEFINE req == PutRequest(edit, cache[t])
<1>1. /\ Send(t, req, fate) /\ stale' = Staleness(t, req, fate, RecordOf(edit.tool))
      /\ UNCHANGED <<phase, known>> /\ req.kind = "put"
  BY DEF EditList, PutRequest
<1>2. TypeOK /\ edit.tool \in Tool
  BY EditFields DEF CopiesInv
<1> HIDE DEF req
<1>3. rows' = rows
  BY <1>1 DEF Send, Perform, accounts
<1>4. RecordOf(edit.tool) \subseteq Fields
  BY <1>2, RecordOfTool
<1>5. \A u \in Threads : stale[u] \ Fields \subseteq stale'[u]
  <2>1. CASE fate = "timeout"
    BY <1>1, <2>1 DEF Staleness
  <2>2. CASE fate \in {"ok", "lost"}
    <3> DEFINE fresh == RecordOf(edit.tool)
    <3>1. stale' = Staleness(t, req, fate, fresh) /\ fresh \subseteq Fields
      BY <1>1, <1>4
    <3> HIDE DEF fresh
    <3>2. /\ \A u \in Threads \ {t} :
                /\ stale[u] \subseteq stale'[u]
                /\ Reads(u) # {} => req.items \subseteq stale'[u]
          /\ stale'[t] = IF fate = "ok" THEN stale[t] \ fresh ELSE stale[t]
      BY <1>2, <2>2, <3>1, StaleOthers
    <3> QED BY <3>1, <3>2
  <2> QED BY <2>1, <2>2 DEF Fate
<1> QED BY <1>1, <1>3, <1>5, QuietRace DEF Reads

\* The row of a book.
LEMMA BookRace ==
  ASSUME CopiesInv, RaceInv, NEW t \in Threads, NEW fate \in Fate, RecordBook(t, fate)
  PROVE  RaceInv'
<1>1. PICK req \in BookRequests(t) :
         Send(t, req, fate) /\ stale' = Staleness(t, req, fate, {})
  BY DEF RecordBook
<1>2. /\ TypeOK /\ phase[t] = "listed" /\ known' = known
      /\ phase' = [phase EXCEPT ![t] = "turn"]
  BY DEF CopiesInv, RecordBook
<1>3. req \in Request /\ book[t].title \in Titles
  BY <1>2, BookRequestsType DEF TypeOK, Books
<1>4. /\ \A u \in Threads : Reads(u)' \subseteq Reads(u)
      /\ book[t].title \in Reads(t) /\ book[t].title \notin Reads(t)'
  BY <1>2, <1>3, FamilyRecordsAssumption DEF Reads, TypeOK, Items
<1>5. CASE fate = "timeout"
  <2>1. rows' = rows /\ stale' = stale
    BY <1>1, <1>5 DEF Send, Staleness, accounts
  <2> QED BY <1>2, <1>4, <2>1, QuietRace
<1>6. CASE fate # "timeout" /\ req.items = {}
  <2>1. req.kind = "patch"
    BY <1>6 DEF BookRequests, CreateRequest, PatchRequest, OneItem, OtherColumns
  <2>2. rows' = rows
    BY <1>1, <1>6, <2>1 DEF Send, Perform
  <2>3. \A u \in Threads : stale[u] \subseteq stale'[u]
    <3>1. fate \in {"ok", "lost"}
      BY <1>6 DEF Fate
    <3>2. \A u \in Threads \ {t} : stale[u] \subseteq stale'[u]
      BY <1>1, <1>2, <3>1, StaleOthers
    <3>3. stale'[t] = IF fate = "ok" THEN stale[t] \ {} ELSE stale[t]
      BY <1>1, <1>2, <3>1, StaleOthers
    <3> QED BY <3>2, <3>3
  <2> QED BY <1>2, <1>4, <2>2, <2>3, QuietRace
<1>7. CASE fate # "timeout" /\ req.items # {}
  <2>1. fate \in {"ok", "lost"}
    BY <1>7 DEF Fate
  <2>2. /\ req.items = {book[t].title}
        /\ req.kind = "create" => RowsOf(book[t].title, known[t]) = {}
    BY <1>7 DEF BookRequests, CreateRequest, PatchRequest, OneItem, OtherColumns, Found, RowsOf
  <2> QED BY <1>1, <1>2, <1>3, <1>4, <2>1, <2>2, RowRace
<1> QED BY <1>5, <1>6, <1>7

\* The row of a policy.
LEMMA PolicyRace ==
  ASSUME CopiesInv, RaceInv, NEW t \in Threads, NEW scope \in Scopes,
         NEW goals \in SUBSET Topics, NEW fate \in Fate, RecordPolicy(t, scope, goals, fate)
  PROVE  RaceInv'
<1>1. PICK req \in PolicyRequests(t, scope, goals) :
         /\ Send(t, req, fate)
         /\ known' = IF fate = "ok" THEN RefreshedPolicies(t, req) ELSE known
         /\ stale' = Staleness(t, req, fate, {})
  BY DEF RecordPolicy
<1>2. TypeOK /\ phase[t] = "turn" /\ phase' = phase
  BY DEF CopiesInv, RecordPolicy
<1>3. req \in Request
  BY <1>2, PolicyRequestsType
<1>4. (\A u \in Threads : Reads(u)' \subseteq Reads(u)) /\ scope \in Reads(t)
  BY <1>2 DEF Reads
<1>5. CASE fate = "timeout"
  <2>1. rows' = rows /\ known' = known /\ stale' = stale
    BY <1>1, <1>5 DEF Send, Staleness, accounts
  <2> QED BY <1>4, <2>1, QuietRace
<1>6. CASE fate # "timeout"
  <2>1. fate \in {"ok", "lost"}
    BY <1>6 DEF Fate
  <2>2. /\ req.items = {scope}
        /\ req.kind = "create" => RowsOf(scope, known[t]) = {}
    BY DEF PolicyRequests, CreateRequest, PatchRequest, OneItem, Found, RowsOf
  <2> QED BY <1>1, <1>3, <1>4, <2>1, <2>2, RowRace
<1> QED BY <1>5, <1>6

\* A late request is blind, and makes every copy of its items stale.
LEMMA LandRace ==
  ASSUME CopiesInv, RaceInv, NEW req \in late, Land(req)
  PROVE  RaceInv'
<1>1. TypeOK /\ req \in Request
  BY DEF CopiesInv, TypeOK
<1>2. known' = known /\ \A u \in Threads : Reads(u)' = Reads(u)
  BY DEF Land, Reads
<1>3. CASE UNCHANGED <<accounts, kept, dropped, stale>>
  BY <1>2, <1>3, QuietRace DEF accounts
<1>4. CASE Perform(req, TRUE, TRUE) /\ stale' = Outdate(Threads, req)
  <2>1. DuplicatesAreRaced'
    BY <1>1, <1>4, DuplicateRows DEF RaceInv
  <2>2. ASSUME NEW u \in Threads, NEW x \in (Reads(u) \ Fields) \ stale'[u]
        PROVE  Seen(u, x)'
    <3>1. phase[u] \in {"turn", "listed"}
      BY <1>1, <2>2 DEF Reads, TypeOK
    <3>2. x \notin stale[u] /\ x \notin req.items
      BY <1>4, <2>2, <3>1 DEF Outdate
    <3>3. Seen(u, x) /\ RowsOf(x, known[u]) \subseteq known'[u]
      BY <1>2, <2>2, <3>2 DEF RaceInv, RowsOf
    <3> QED BY <1>1, <1>4, <3>2, <3>3, StillSeen
  <2> QED BY <1>2, <2>1, <2>2 DEF RaceInv
<1> QED BY <1>3, <1>4 DEF Land

\* A turn that ends or a tool that fails writes nothing.
LEMMA StopRace ==
  ASSUME CopiesInv, RaceInv, NEW t \in Threads, ToolFails(t) \/ EndTurn(t)
  PROVE  RaceInv'
<1>1. TypeOK
  BY DEF CopiesInv
<1>2. CASE ToolFails(t)
  <2>1. \A u \in Threads : Reads(u)' \subseteq Reads(u)
    BY <1>1, <1>2 DEF ToolFails, Reads, TypeOK, Items
  <2> QED BY <1>2, <2>1, QuietRace DEF ToolFails, accounts
<1>3. CASE EndTurn(t)
  <2>1. Reads(t)' = {}
    BY <1>1, <1>3 DEF EndTurn, Reads, TypeOK
  <2>2. \A u \in Threads \ {t} : /\ Reads(u)' = Reads(u) /\ known'[u] = known[u]
                                 /\ stale'[u] = stale[u]
    BY <1>1, <1>3 DEF EndTurn, Reads, TypeOK
  <2> QED BY <1>3, <2>1, <2>2, QuietRace DEF EndTurn, accounts
<1> QED BY <1>2, <1>3

LEMMA InitRace == Init => RaceInv
BY DEF Init, RaceInv, DuplicatesAreRaced, Seen, RowsOf

LEMMA NextRace == CopiesInv /\ RaceInv /\ [Next]_vars => RaceInv'
<1> SUFFICES ASSUME CopiesInv, RaceInv, [Next]_vars PROVE RaceInv'
  OBVIOUS
<1>1. ASSUME NEW t \in Threads, ThreadStep(t) PROVE RaceInv'
  <2>1. ASSUME NEW edit \in Edits, NEW fate \in Fate, EditList(t, edit, fate) PROVE RaceInv'
    BY <2>1, EditRace
  <2>2. ASSUME NEW fate \in Fate, RecordBook(t, fate) PROVE RaceInv'
    BY <2>2, BookRace
  <2>3. ASSUME NEW scope \in Scopes, NEW goals \in SUBSET Topics, NEW fate \in Fate,
               RecordPolicy(t, scope, goals, fate)
        PROVE  RaceInv'
    BY <2>3, PolicyRace
  <2> QED BY <1>1, <2>1, <2>2, <2>3, ReadRace, StopRace DEF ThreadStep
<1>2. ASSUME NEW req \in late, Land(req) PROVE RaceInv'
  BY <1>2, LandRace
<1>3. CASE UNCHANGED vars
  BY <1>3, QuietRace DEF vars, accounts, Reads
<1> QED BY <1>1, <1>2, <1>3 DEF Next

\* Copies that nobody else's write outdated hold what is kept and know what is
\* on file, through every step of every thread and every late request.
THEOREM RecordsInvariance == Spec => []RecordsInv
<1>1. Init => CopiesInv /\ RaceInv
  BY InitCopies, InitRace
<1>2. CopiesInv /\ RaceInv /\ [Next]_vars => CopiesInv' /\ RaceInv'
  BY NextCopies, NextRace
<1>3. RecordsInv <=> CopiesInv /\ RaceInv
  BY DEF RecordsInv
<1> QED BY <1>1, <1>2, <1>3, PTL DEF Spec

\* The state of accounts, of the sessions and of the history has its type.
THEOREM TypeCorrect == Spec => []TypeOK
<1>1. RecordsInv => TypeOK
  BY DEF RecordsInv, CopiesInv
<1> QED BY RecordsInvariance, <1>1, PTL

\* What a tool acknowledged stays on file until somebody edits it again or
\* writes back a copy older than another's write, whatever answers are lost,
\* requests arrive late and turns fail, and however many threads there are.
THEOREM EditsSurvive == Spec => []AcknowledgedEditsSurvive
<1>1. RecordsInv => AcknowledgedEditsSurvive
  BY DEF RecordsInv, CopiesInv
<1> QED BY RecordsInvariance, <1>1, PTL

\* Two rows of a book come from a writer that could not see the other's write;
\* two policies of a scope also from a create whose answer was lost.
THEOREM DuplicatesNeedARace == Spec => []DuplicatesAreRaced
<1>1. RecordsInv => DuplicatesAreRaced
  BY DEF RecordsInv, RaceInv
<1> QED BY RecordsInvariance, <1>1, PTL
==============================================================================

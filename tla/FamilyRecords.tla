---------------------------- MODULE FamilyRecords ----------------------------
(***************************************************************************)
(* The read-modify-write tools of agent/domain against the accounts        *)
(* service, for one child and one requester of a family that talks in      *)
(* several conversation threads.                                           *)
(*                                                                         *)
(* A turn copies the family's records when it loads (load_context,         *)
(* domain_session), may wait for long at the gate, and then runs tools.    *)
(* A list edit is merged into the copy and the whole fields are sent back. *)
(* The notes on a child stand for the passages they are made of, without   *)
(* their order and repetitions.                                            *)
(* A book is merged into its row of the history, listed just before; a     *)
(* policy into the copied one of its scope.  Accounts carries out a        *)
(* request and answers, or its answer is lost, or the client times out     *)
(* first and the request is carried out later, or never.                   *)
(***************************************************************************)
EXTENDS Naturals, FiniteSets

CONSTANTS
  Threads,   \* the family's conversation threads
  Topics,    \* the entries of lists: interests, genres, reasons, goals, ...
  Titles,    \* books
  Scopes,    \* policy scopes: the child's, and the family's
  Edits,     \* the list edits an agent may ask for
  MaxCalls,  \* bound: tool calls of one session
  MaxTurns,  \* bound: turns of one thread
  MaxLate    \* bound: requests on their way that nobody waits for

\* The list fields each tool sends, all of them at every call.
ListTools ==
  [update_reading_interest      |-> {"interests"},
   update_genre_preference      |-> {"preferred_genres", "disliked_genres"},
   update_theme_tone_preference |-> {"liked_themes", "disliked_themes", "preferred_tone",
                                     "avoid_topics"},
   update_child_notes           |-> {"notes"},
   update_member_profile        |-> {"concerns"}]

Tool   == DOMAIN ListTools
Fields == UNION {ListTools[tool] : tool \in Tool}
Items  == Fields \cup Titles \cup Scopes

\* The fields accounts returns with one of a tool's: its record's.
RecordOf(tool) ==
  CASE tool = "update_child_notes"    -> {"notes"}
    [] tool = "update_member_profile" -> {"concerns"}
    [] OTHER                          -> Fields \ {"notes", "concerns"}

\* The fields whose tools take removals: themes, tones and notes only grow.
Removable == {"interests", "preferred_genres", "disliked_genres", "concerns"}

\* Per field what to add and to remove; replace is update_child_notes' mode.
Edit ==
  {edit \in [tool : Tool, add : [Fields -> SUBSET Topics], remove : [Fields -> SUBSET Topics],
             replace : BOOLEAN] :
     /\ \A f \in Fields \ Removable : edit.remove[f] = {}
     /\ edit.replace => edit.tool = "update_child_notes"}

\* A row of the reading history, of a title, or a policy, of a scope.
Row == [id : Nat, item : Titles \cup Scopes, values : SUBSET Topics,
        blind : BOOLEAN,        \* made without a view of the rows that were there
        unanswered : BOOLEAN]   \* made by a request whose answer was lost

\* What accounts is asked: fields to put, a row to create, or one to patch.
\* `added' and `removed' say what the edit meant, for the history variables.
Request ==
  {req \in [kind : {"put", "create", "patch"}, items : SUBSET Items, id : Nat,
             body : [Items -> SUBSET Topics], added : [Items -> SUBSET Topics],
             removed : [Items -> SUBSET Topics]] :
     IF req.kind = "put" THEN req.items \subseteq Fields
     ELSE \E x \in Titles \cup Scopes : req.items \subseteq {x}}

ASSUME FamilyRecordsAssumption ==
  /\ Fields \cap Titles = {} /\ Fields \cap Scopes = {} /\ Titles \cap Scopes = {}
  /\ Edits \subseteq Edit
  /\ {MaxCalls, MaxTurns, MaxLate} \subseteq Nat

VARIABLES
  \* accounts
  profile,   \* the list fields of the child, its reading profile and the member
  rows,      \* reading history and policies
  next_id,
  late,      \* requests whose client gave up waiting, not carried out yet
  \* a thread's turn
  phase,
  cache,     \* DomainContext: the session's copy of the profile
  known,     \* the copy of the policies, and the history as last listed
  book,      \* [title, reasons]: what _upsert has listed the history for
  calls,
  turns,
  \* history
  stale,     \* what others wrote since the thread read it
  kept,      \* what acknowledged edits added, and nobody undid knowingly
  dropped    \* what they removed

accounts == <<profile, rows, next_id>>
vars == <<accounts, late, phase, cache, known, book, calls, turns, stale, kept, dropped>>

NoTopics  == [x \in Items |-> {}]
NoProfile == [f \in Fields |-> {}]
Books    == {b \in [title : Titles, reasons : SUBSET Topics, given : BOOLEAN] :
               b.given \/ b.reasons = {}}
NoBook   == [title |-> "none"]

TypeOK ==
  /\ profile \in [Fields -> SUBSET Topics]
  /\ rows \subseteq Row
  /\ next_id \in Nat
  /\ late \subseteq Request
  /\ phase \in [Threads -> {"idle", "turn", "listed"}]
  /\ cache \in [Threads -> [Fields -> SUBSET Topics]]
  /\ known \in [Threads -> SUBSET Row]
  /\ book \in [Threads -> Books \cup {NoBook}]
  /\ \A t \in Threads : phase[t] = "listed" => book[t] \in Books
  /\ calls \in [Threads -> 0..MaxCalls]
  /\ turns \in [Threads -> 0..MaxTurns]
  /\ stale \in [Threads -> SUBSET Items]
  /\ kept \in [Items -> SUBSET Topics]
  /\ dropped \in [Items -> SUBSET Topics]

Init ==
  /\ profile = NoProfile
  /\ rows = {} /\ next_id = 0
  /\ late = {}
  /\ phase = [t \in Threads |-> "idle"]
  /\ cache = [t \in Threads |-> NoProfile]
  /\ known = [t \in Threads |-> {}]
  /\ book = [t \in Threads |-> NoBook]
  /\ calls = [t \in Threads |-> 0]
  /\ turns = [t \in Threads |-> 0]
  /\ stale = [t \in Threads |-> {}]
  /\ kept = NoTopics /\ dropped = NoTopics

-----------------------------------------------------------------------------
\* Accounts carries a request out.  `blind' and `unanswered' mark a new row.
Perform(req, blind, unanswered) ==
  /\ profile' = IF req.kind # "put" THEN profile
                ELSE [f \in Fields |-> IF f \in req.items THEN req.body[f] ELSE profile[f]]
  /\ rows' = CASE req.kind = "put" -> rows
               [] req.kind = "create" ->
                    rows \cup {[id |-> next_id, item |-> x, values |-> req.body[x],
                                blind |-> blind, unanswered |-> unanswered] : x \in req.items}
               [] req.kind = "patch" ->
                    {IF r.id = req.id /\ r.item \in req.items
                     THEN [r EXCEPT !.values = req.body[r.item]] ELSE r : r \in rows}
  /\ next_id' = IF req.kind = "create" THEN next_id + 1 ELSE next_id

\* What an edit means for the history: one made with a current view extends
\* what is kept; one made blind undoes what the others did.
Remember(req, blind, answered) ==
  LET gained(x) == IF answered THEN req.added[x] ELSE {}
      gone(x)   == IF answered THEN req.removed[x] ELSE {}
  IN  /\ kept' = [x \in Items |->
                    IF x \notin req.items THEN kept[x]
                    ELSE IF x \in blind /\ req.kind # "create" THEN gained(x)
                    ELSE (kept[x] \ req.removed[x]) \cup gained(x)]
      /\ dropped' = [x \in Items |->
                       IF x \notin req.items THEN dropped[x]
                       ELSE IF x \in blind THEN gone(x) \ req.added[x]
                       ELSE (dropped[x] \cup gone(x)) \ req.added[x]]

\* The turn of another thread no longer sees what is on file.
Outdate(others, req) ==
  [u \in Threads |-> IF u \in others /\ phase[u] \in {"turn", "listed"}
                     THEN stale[u] \cup req.items ELSE stale[u]]

\* Mutant: the copy is not refreshed from the response.
RefreshedCache_never(t, fresh) == cache

\* _upsert, _refresh_child_cache, _set_member_profile_cache: the record in the
\* response replaces the copy's.
RefreshedCache(t, fresh) ==
  [cache EXCEPT ![t] = [f \in Fields |-> IF f \in fresh THEN profile'[f] ELSE cache[t][f]]]

\* Mutant: a created policy is not added to the copy.
RefreshedPolicies_forgets_created(t, req) ==
  IF req.kind = "create" THEN known
  ELSE [known EXCEPT ![t] =
          {r \in known[t] : r.item \notin req.items \/ r.id # req.id}
            \cup {r \in rows' : r.item \in req.items /\ r.id = req.id}]

\* ctx.policies.append, _replace_policy_cache.
RefreshedPolicies(t, req) ==
  LET id == IF req.kind = "create" THEN next_id ELSE req.id
  IN  [known EXCEPT ![t] =
         {r \in known[t] : r.item \notin req.items \/ r.id # id}
           \cup {r \in rows' : r.item \in req.items /\ r.id = id}]

\* Mutant: one call too many is made.
Called_off_by_one(t) == calls[t] <= MaxCalls /\ calls' = [calls EXCEPT ![t] = @ + 1]

\* A session makes a bounded number of calls (_MAX_ITERATIONS replies).
Called(t) == calls[t] < MaxCalls /\ calls' = [calls EXCEPT ![t] = @ + 1]

(***************************************************************************)
(* A write request of thread t.  `ok': accounts answers.  `lost': it does  *)
(* the work and the answer is lost; the tool raises, so the copy is not    *)
(* refreshed.  `timeout': the tool raises and the request is still on its  *)
(* way.                                                                    *)
(***************************************************************************)
Send(t, req, fate) ==
  LET blind == stale[t] \cap req.items
  IN  IF fate = "timeout"
      THEN /\ Cardinality(late) < MaxLate
           /\ late' = late \cup {req}
           /\ UNCHANGED <<accounts, kept, dropped>>
      ELSE /\ Perform(req, blind # {}, fate = "lost")
           /\ Remember(req, blind, fate = "ok")
           /\ UNCHANGED late

Staleness(t, req, fate, fresh) ==
  IF fate = "timeout" THEN stale
  ELSE [Outdate(Threads \ {t}, req) EXCEPT ![t] = IF fate = "ok" THEN @ \ fresh ELSE @]

Fate == {"ok", "lost", "timeout"}

-----------------------------------------------------------------------------
\* A turn starts: get_context copies the family's records into the thread.
LoadContext(t) ==
  /\ phase[t] = "idle"
  /\ turns[t] < MaxTurns
  /\ turns' = [turns EXCEPT ![t] = @ + 1]
  /\ phase' = [phase EXCEPT ![t] = "turn"]
  /\ cache' = [cache EXCEPT ![t] = profile]
  /\ known' = [known EXCEPT ![t] = {r \in rows : r.item \in Scopes}]
  /\ UNCHANGED <<accounts, late, book, calls, stale, kept, dropped>>

\* remove_all(merge_unique(copy, add), remove); notes are appended or replaced.
Merged(edit, old, f) ==
  IF edit.replace THEN edit.add[f] ELSE (old \cup edit.add[f]) \ edit.remove[f]

\* The full fields of the tool, merged into the copy.
PutRequest(edit, old) ==
  LET fields == ListTools[edit.tool]
  IN  [kind    |-> "put", items |-> fields, id |-> 0,
       body    |-> [x \in Items |-> IF x \in fields THEN Merged(edit, old[x], x) ELSE {}],
       added   |-> [x \in Items |-> IF x \notin fields THEN {}
                                    ELSE IF edit.replace THEN edit.add[x]
                                    ELSE edit.add[x] \ edit.remove[x]],
       removed |-> [x \in Items |-> IF x \notin fields THEN {}
                                    ELSE IF edit.replace THEN Topics \ edit.add[x]
                                    ELSE edit.remove[x]]]

\* update_reading_interest, update_genre_preference, ...
EditList(t, edit, fate) ==
  LET req == PutRequest(edit, cache[t])
  IN  /\ phase[t] = "turn"
      /\ Called(t)
      /\ Send(t, req, fate)
      /\ cache' = IF fate = "ok" THEN RefreshedCache(t, RecordOf(edit.tool)) ELSE cache
      /\ stale' = Staleness(t, req, fate, RecordOf(edit.tool))
      /\ UNCHANGED <<phase, known, book, turns>>

Listed(t) == {r \in known[t] : r.item \in Scopes} \cup {r \in rows : r.item \in Titles}

\* reading_history._upsert lists the history ...
ListHistory(t, new_book) ==
  /\ phase[t] = "turn"
  /\ Called(t)
  /\ known' = [known EXCEPT ![t] = Listed(t)]
  /\ book' = [book EXCEPT ![t] = new_book]
  /\ stale' = [stale EXCEPT ![t] = @ \ Titles]
  /\ phase' = [phase EXCEPT ![t] = "listed"]
  /\ UNCHANGED <<accounts, late, cache, turns, kept, dropped>>

\* The rows of an item, one of which a tool takes: the first of a list whose
\* order is accounts' affair.
Found(t, item) == {r \in known[t] : r.item = item}

\* Mutant: the new values replace the old.
Accumulated_replaced(row, new) == new

\* merge_unique(existing, new)
Accumulated(row, new) == row.values \cup new

\* A row of an item is created, or one that was found is patched.
OneItem(kind, item, id, values, new) ==
  [kind |-> kind, items |-> {item}, id |-> id,
   body    |-> [x \in Items |-> IF x = item THEN values ELSE {}],
   added   |-> [x \in Items |-> IF x = item THEN new ELSE {}],
   removed |-> NoTopics]

CreateRequest(item, new) == OneItem("create", item, 0, new, new)
PatchRequest(row, new)   == OneItem("patch", row.item, row.id, Accumulated(row, new), new)

\* A patch of other columns: the status, the author, a note.
OtherColumns(row) == [kind |-> "patch", items |-> {}, id |-> row.id, body |-> NoTopics,
                      added |-> NoTopics, removed |-> NoTopics]

\* Reasons are sent when the tool gives a list of them, also an empty one.
BookRequests(t) ==
  LET new == book[t] IN
  IF Found(t, new.title) = {} THEN {CreateRequest(new.title, new.reasons)}
  ELSE {IF new.given THEN PatchRequest(row, new.reasons)
        ELSE OtherColumns(row) : row \in Found(t, new.title)}

\* ... and creates the book's row or patches the one it found.
RecordBook(t, fate) ==
  /\ phase[t] = "listed"
  /\ \E req \in BookRequests(t) :
        /\ Send(t, req, fate)
        /\ stale' = Staleness(t, req, fate, {})
  /\ phase' = [phase EXCEPT ![t] = "turn"]
  /\ book' = [book EXCEPT ![t] = NoBook]
  /\ UNCHANGED <<cache, known, calls, turns>>

PolicyRequests(t, scope, goals) ==
  IF Found(t, scope) = {} THEN {CreateRequest(scope, goals)}
  ELSE {PatchRequest(row, goals) : row \in Found(t, scope)}

\* update_family_reading_policy: the active policy of the scope in the copy is
\* patched, or one is created.
RecordPolicy(t, scope, goals, fate) ==
  /\ phase[t] = "turn"
  /\ Called(t)
  /\ \E req \in PolicyRequests(t, scope, goals) :
        /\ Send(t, req, fate)
        /\ known' = IF fate = "ok" THEN RefreshedPolicies(t, req) ELSE known
        /\ stale' = Staleness(t, req, fate, {})
  /\ UNCHANGED <<phase, cache, book, turns>>

\* A tool raises before accounts has done anything.
ToolFails(t) ==
  /\ \/ phase[t] = "turn" /\ Called(t)
     \/ phase[t] = "listed" /\ UNCHANGED calls
  /\ phase' = [phase EXCEPT ![t] = "turn"]
  /\ book' = [book EXCEPT ![t] = NoBook]
  /\ UNCHANGED <<accounts, late, cache, known, turns, stale, kept, dropped>>

\* profile_update returns, or raises: its model call or its final get_context.
\* Either way the DomainContext is gone.
EndTurn(t) ==
  /\ phase[t] = "turn"
  /\ phase' = [phase EXCEPT ![t] = "idle"]
  /\ cache' = [cache EXCEPT ![t] = NoProfile]
  /\ known' = [known EXCEPT ![t] = {}]
  /\ calls' = [calls EXCEPT ![t] = 0]
  /\ stale' = [stale EXCEPT ![t] = {}]
  /\ UNCHANGED <<accounts, late, book, turns, kept, dropped>>

\* A request is carried out after its client gave up, or it never is.
Land(req) ==
  /\ req \in late
  /\ late' = late \ {req}
  /\ \/ /\ Perform(req, TRUE, TRUE)
        /\ Remember(req, req.items, FALSE)
        /\ stale' = Outdate(Threads, req)
     \/ UNCHANGED <<accounts, kept, dropped, stale>>
  /\ UNCHANGED <<phase, cache, known, book, calls, turns>>

ThreadStep(t) ==
  \/ LoadContext(t)
  \/ \E edit \in Edits, fate \in Fate : EditList(t, edit, fate)
  \/ \E new_book \in Books : ListHistory(t, new_book)
  \/ \E fate \in Fate : RecordBook(t, fate)
  \/ \E scope \in Scopes, goals \in SUBSET Topics, fate \in Fate :
        RecordPolicy(t, scope, goals, fate)
  \/ ToolFails(t)
  \/ EndTurn(t)

Next == (\E t \in Threads : ThreadStep(t)) \/ (\E req \in late : Land(req))

Spec == Init /\ [][Next]_vars

-----------------------------------------------------------------------------
\* What is on file of an item, and its rows among some.
RowsOf(x, some) == {row \in some : row.item = x}
Value(x) == IF x \in Fields THEN profile[x] ELSE UNION {row.values : row \in RowsOf(x, rows)}

(***************************************************************************)
(* What a tool acknowledged stays: an interest the parent added, a reason  *)
(* or a goal is on file, and what was removed is gone, until somebody      *)
(* edits it again - or writes back a copy that is older than another       *)
(* thread's or a late request's write (merge_unique and remove_all over    *)
(* the cached profile, _upsert's refresh).  A lost answer, a retry and a   *)
(* failed turn undo nothing.                                               *)
(***************************************************************************)
AcknowledgedEditsSurvive ==
  \A x \in Items : kept[x] \subseteq Value(x) /\ dropped[x] \cap Value(x) = {}

(***************************************************************************)
(* The strengthening of AcknowledgedEditsSurvive that steps preserve.  The *)
(* rows a session knows are on file, under the same id; and what is kept   *)
(* of an item nobody else wrote since is in the session's copy, so that    *)
(* writing the copy back undoes nothing.                                   *)
(***************************************************************************)
DistinctIds(some) == \A p, q \in some : p.id = q.id => p = q

KnownOnFile ==
  \A t \in Threads : \A row \in known[t] :
     \E file \in rows : file.id = row.id /\ file.item = row.item

InCopy(t, x) ==
  IF x \in Fields
  THEN kept[x] \subseteq cache[t][x] /\ dropped[x] \cap cache[t][x] = {}
  ELSE \A topic \in kept[x] : \E row \in RowsOf(x, known[t]), file \in RowsOf(x, rows) :
          row.id = file.id /\ topic \in row.values /\ topic \in file.values

\* The items a session merges against: the history's only once it is listed.
Reads(t) == CASE phase[t] = "turn"   -> Fields \cup Scopes
              [] phase[t] = "listed" -> Items
              [] OTHER               -> {}

CopiesCurrent == \A t \in Threads : \A x \in Reads(t) \ stale[t] : InCopy(t, x)

CopiesInv ==
  /\ TypeOK
  /\ DistinctIds(rows) /\ \A row \in rows : row.id < next_id
  /\ \A t \in Threads : DistinctIds(known[t])
  /\ KnownOnFile
  /\ \A x \in Items \ Fields : dropped[x] = {}
  /\ CopiesCurrent
  /\ AcknowledgedEditsSurvive

(***************************************************************************)
(* Two rows of one book, or two policies of one scope, come from a writer  *)
(* that could not see the other's write, which landed between its reading  *)
(* and its own or after its client gave up; two policies also from a       *)
(* create whose answer was lost, a book is found again by then             *)
(* (reading_history._upsert, _active_policy).                              *)
(***************************************************************************)
DuplicatesAreRaced ==
  \A p, q \in rows :
     p.id # q.id /\ p.item = q.item =>
        \/ p.blind \/ q.blind
        \/ p.item \in Scopes /\ (p.unanswered \/ q.unanswered)

(***************************************************************************)
(* The strengthening of DuplicatesAreRaced that steps preserve: of an item *)
(* nobody else wrote since, a session knows every row on file, but for a   *)
(* policy whose creation was not answered.                                 *)
(***************************************************************************)
Seen(t, x) ==
  \A row \in RowsOf(x, rows) :
     \/ x \in Scopes /\ row.unanswered
     \/ \E copy \in RowsOf(x, known[t]) : copy.id = row.id

RaceInv ==
  /\ \A t \in Threads : \A x \in (Reads(t) \ Fields) \ stale[t] : Seen(t, x)
  /\ DuplicatesAreRaced

RecordsInv == CopiesInv /\ RaceInv
==============================================================================

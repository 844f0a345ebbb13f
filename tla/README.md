# Verification of the book recommendation agent

TLA+ models of the agent in `src/agent`, the TLC runs that check them, and the
TLAPS proofs about them. The agent is a LangGraph pipeline: a parent writes in a
chat thread, language models read the message, capabilities answer it, and a
memory branch decides what to write to the family's records, asking the parent
before it touches anybody's identity.

Paths below are relative to `src/` of the repository.

## 1. The system

```
guard -> load_context -> understand -> plan -> clarify -+-> execute -+-> respond
  |                                              |      +-> memory  -+
  +-> END (refused)                              +-> END (question)

execute: dispatch -> {recommend, evaluate, compare, discussion, path, content} -> aggregate
memory:  memory_policy -> prepare_confirmation -+-> request_confirmation -> apply_confirmation -+
                                                +-----------------------------------------------+-> profile_update
```

| Component | State | Operations | Interacts with |
|---|---|---|---|
| Main graph (`graph.py`, `lifecycle.py`, `pipeline/*`, `state.py`) | the channels of `FlowState`, kept per thread in the checkpoint | one node per stage | accounts (read), both subgraphs, the recommendation store |
| Execute subgraph (`pipeline/execute.py`) | `results` (fan-in scratch), `capability_results` | dispatch, one node per capability, aggregate | capabilities |
| Self-critique loops (`capabilities/recommend.py`, `evaluate.py`) | the list or text, feedback, attempts | generate/validate/emit, prepare/evaluate/validate/emit | models only |
| Memory subgraph (`memory/*`) | operations, popup, reply, outcome | decide, prepare, request, apply, write | the parent (popup), accounts (writes) |
| Gate policy (`memory/confirm_policy.py`, `schemas.py`) | none, pure | classify, fold, build the popup, read the reply, apply it | memory subgraph |
| Domain tools (`domain/*`) | `DomainContext`: the turn's target and a cache of the family's records | 16 tools | accounts, the agent of `profile_update` |
| Accounts service (external; `accounts_client.py`) | the family's records | each call commits on its own | every thread of the family |
| Recommendation store (`domain/recommendation.py`, `books.py`, `db/*`) | sessions, items, book cache | one transaction per stored reply | `respond` |
| Usage accounting (`usage_tracker.py`) | a buffer by run, a queue, a consumer thread | callbacks, consume | every model call |
| Guard (`guard.py`) | none | refuse or let pass | external classifier |
| `llm.py`, `prompts.py`, `language.py`, `webapp.py` | none | model fallback, rendering, language codes, agent card | |

What makes it hard:

- *Channels outlive the turn.* A turn that is refused, asks a question, raises or
  is abandoned leaves whatever it did not rewrite to the next one.
- *Two branches in one superstep.* They start from the same channels, may not
  write the same one, and become visible together or not at all. One of them can
  stop for days on a popup.
- *A popup is answered late, badly, or never.* The reply may be malformed or
  edited; a new message may come instead. The plan is recomputed after the pause.
- *Writes are made by a model with tools*, one HTTP call at a time, each committed
  on its own, each of which may fail or land with its reply lost.
- *Retries with a budget* in both self-critique loops and in the tool loop.
- *Several threads of a family* share its records in accounts.
- *Threads of all families* share the book cache, and insert into it at once under
  READ COMMITTED and a unique index with a nullable column.
- *One callback handler* serves the model calls of every turn of the process, and
  a daemon thread writes what it queues.
- *The process ends* between a commit and the checkpoint, or with records queued.

What makes each component correct:

- main graph: what `respond` says and stores belongs to this turn and this child;
  a chat client sees at most one popup and one reply per turn;
- memory: no identity field changes without consent to that value for that record,
  but for a grade that is a school fact; no fact lost or filed under another child;
  no false "saved";
- gate policy: the record shown is the one the list amounts to, and a reply leaves
  at most one identity write of the child and one of the member, raw operations of
  the list included;
- execute: a failure costs only its own contribution; a loop settles for less only
  when its budget is spent;
- domain tools: what a tool acknowledged stays on file, and a book has one row of
  history, unless another writer could not be seen;
- store: a recommendation is stored whole or not at all, what is stored is also
  said, a failure to store costs no reply, and the cache has a book once;
- usage: an answer's tokens are billed once, to the turn and node that used them,
  or known to be lost; the buffer holds what is running.

## 2. Modules

| Module | Models | Uses |
|---|---|---|
| `ConfirmPolicy` | `memory/confirm_policy.py`, records of `memory/schemas.py` | |
| `ConfirmPolicyCheck` | the same computations the way the code does them, front to back | `ConfirmPolicy` |
| `ConfirmPolicyProofs` | theorems | `ConfirmPolicyCheck`, TLAPS |
| `ConfirmedWrites` | abstract: what the gate promises | `ConfirmPolicy` |
| `MemoryGate` | the memory subgraph with accounts | `ConfirmPolicy`; implements `ConfirmedWrites` |
| `MemoryGateProofs` | theorems | `MemoryGate`, TLAPS |
| `TurnProtocol` | abstract: what a chat client sees | |
| `Conversation` | the main graph of one thread | implements `TurnProtocol` |
| `ConversationProofs` | theorems | `Conversation`, TLAPS |
| `Execute` | the execute subgraph and both loops | |
| `ExecuteProofs` | theorems | `Execute`, TLAPS |
| `FamilyRecords` | the read-modify-write tools of several threads on one child's records, and accounts | |
| `FamilyRecordsProofs` | theorems | `FamilyRecords`, TLAPS |
| `RecommendationStore` | the transaction of `respond` in several threads, on PostgreSQL | |
| `RecommendationStoreProofs` | theorems | `RecommendationStore`, TLAPS |
| `UsageLedger` | abstract: what is owed is billed once or given up | |
| `UsageTracker` | model chains, callbacks, buffer, queue, consumer | implements `UsageLedger` |
| `UsageTrackerProofs` | theorems | `UsageTracker`, TLAPS |
| `MC*` | instances for TLC | |

`Conversation` is the composition: it holds the execute branch reduced to which
planned capabilities contributed, and the memory branch reduced to its nodes, the
kind of its operations, a child it may create and its outcome. `Execute` and
`MemoryGate` are those two branches in detail. `FamilyRecords` looks across
threads at what the tool loop of `MemoryGate` does to the records themselves.
`RecommendationStore` is `Conversation`'s `Respond` in detail, and `UsageTracker`
what runs beside every node that calls a model.

### Correspondence with the code

**ConfirmPolicy.** A list of operations is a set of records numbered by their
place. A record is the function `model_dump(exclude_none=True)` gives: an absent
key is a `None` field. `classify` is `Gated`/`Ungated`, `_fold` is `Last`,
`Folded` and `Fold`, `_build_request` is `BuildRequest`, and `_apply_decision` is
`Applied`. A list of aliases stands for its first element; the empty list
(`NoAliases`) is left out of a record, a list that begins with an empty string
(`Blank`) is not, and then names the child so. Validation errors of the schemas are
`BuildRaises`. Titles of popups and rationales are left out; tool names are taken
after `_norm`. `WithDefaults`, `Provided` and `Overlay` say what the identity tools
make of a record, for the two modules that use it.

**MemoryGate.** `pc` is the next node, and inside `profile_update` the place in
its loop (`agent`, `tools`, `refetch`). `thread` is what the parent graph sees,
written only when the subgraph ends (`Finish`); an abandoned popup and a node
that raises (`Fail`) leave it alone. A tool call is one action with three
outcomes: it lands, it lands and its reply is lost, or it changes nothing.
`Addressees` says whose record a tool is about: a new child, the requester, the
family, or the session's target child, without which `require_child_id` raises.
`Stored` is what an identity tool leaves on file. `update_school_information` is
among them although `classify` takes it for a soft fact: it sends the grade, a field
of the record the popup shows. What the other soft tools change is in
`FamilyRecords`. The early return of `profile_update` without a family id is left
out: `load_context` stores the family or raises in every turn.
`consent`, `writes`, `emitted`, `returned`, `before` and `outcome` are history:
the code does not have them and no guard reads them, except the `Diligent`
agent's, which describes a model that stops only when all its calls returned.

**ConfirmedWrites.** The abstract gate has the records on file and the writes that
are granted: `[tool, arguments, who]`, `who` being the record they are about. It
makes granted writes, in any number, until the next message withdraws them
(`GrantedWrites` of `MemoryGate` is the mapping), and `ChangeGrade` is all it may
do without a grant.

**Conversation.** One action per node. Each channel carries the number of the
turn that wrote it, so that a stale one can be told apart. The superstep of
`execute` and `memory` is `pc = "fan_out"` with one program counter per branch;
`FanIn` publishes what both wrote, and `TurnFails` and a new message on a paused
thread discard it. `Resume` runs only the paused node. `reemits` says whether the
runtime hands back channels a subgraph without an output schema only read, as the
docstring of `ExecuteOutput` describes; the runtime is not part of the
repository, so both answers are checked.

**Execute.** One program counter per capability. What a model proposes is any
subset of `Books`, what a screening says any verdict on any of them. `TitleOf`
decides which books share a title; `Filed` is the dict of verdicts by title, in
which the last of a title remains, and `Kept` the list it leaves. `proposed` and
`judged` keep the last list and its verdicts before they were filed: history.

**FamilyRecords.** `profile`, `rows` and `next_id` are what accounts holds;
`cache` and `known` are the `DomainContext` of a thread's turn. A list is the set of
its entries, since `merge_unique` and `remove_all` depend on nothing else. The notes
on a child, which are appended text, are the set of the passages they are made of:
their order and repetitions are left out. `Edit` allows what the tools' parameters
do: removals of the `Removable` fields only, `replace` for `update_child_notes`
only. A tool is one action, but
the book tools are two (`ListHistory`, `RecordBook`), since they read accounts
before they write. `EditList` computes the whole fields from the copy
(`PutRequest`), sends them, and on an answer takes the record in it for the copy.
Every write has one of three fates: answered; carried out with the answer lost;
or timed out, in which case it stays in `late` until accounts carries it out
(`Land`) or never does. `EndTurn` covers the return of `profile_update` and its
raising. The status, author and notes of a row and the scalars of a profile are
left out: they are overwritten, never merged. Accounts is external: which of two
rows of an item a list shows first is its choice, and it has no rule against two.
`kept`, `dropped`, `stale` and the marks `blind` and `unanswered` of a row are
history. `kept` gains what an acknowledged edit adds and loses what
another removes; a write made from an outdated copy replaces it, because undoing
what it could not see is what such a write does.

**RecommendationStore.** `pc` is the place of a thread in `respond`: with a reply
(`composed`), before `get_by_title_author` (`lookup`), before the inserts of an
item (`insert`), before the commit of `session_scope`, or `done`, with the reply
still to be checkpointed. What a transaction inserted is in `added` and `items`
until `Commit` moves it to the database or `RolledBack` drops it. The isolation
is that of the database: a lookup sees committed rows and its own (`Visible`); an
insert waits for another open transaction with the same key (`Waits`), fails on a
committed one (`UniqueViolation`), and a cycle of waits is broken by the deadlock
detector. Keys with a null author are all different, which is why books are in
`Keyed` or `Authorless`. Anything else that raises is `Fails`. `Crash` ends the
process: `Rerun` is the node executed again from the checkpoint before it,
`Compose` a new message instead. Titles, reasons and the target child of a
session are data. `answered`, `interrupted` and `met` are history.

**UsageTracker.** A worker executes the node of a turn (`EnterNode`, with the
context `with_turn_context` sets or leaves empty), which calls its chain any
number of times. `StartRun` is `on_chat_model_start`; `OnLlmEnd` pops the buffer,
and `Enqueue` emits the event and queues the record, as two steps, because other
runs' callbacks come in between. `FallsBack` is what `with_fallbacks` does: an
error, or an answer its schema rejects, goes to the next model unless chunks were
passed on already. A run id is the number of the worker's runs. `Take`,
`WriteRow` and `InsertFails` are `_consume`; `Stop` ends the process anywhere.
Token counts are zero or not. The SDKs' own retries make no callbacks and are
left out. `due` and `lost` are history.

## 3. Runs

| Run | Shows | Bounds |
|---|---|---|
| `policy` | the gate's operators agree with the code's own order of computation | every list of up to three of nine operations, five replies |
| `gate` | consent, facts, outcomes over two turns; `GateInv`, the invariant that is proved | 2 children, 9 lists, 5 replies, 2 iterations of 2 calls, 2 turns |
| `gate_diligent` | an agent that finishes its work: no false "saved"; implements `ConfirmedWrites`; a turn ends | 3 iterations, 1 turn |
| `gate_confident` | *violation*: "saved" without a tool call | 1 turn |
| `gate_stray` | *violation*: an identity write without a popup | 1 turn |
| `conversation` | what `respond` reads and stores; `PipelineInv`, the invariant that is proved; implements `TurnProtocol`, with liveness | 2 children, 2 turns, 2 sets of intents, both runtimes |
| `conflict` | *violation*: two writes to one channel at the fan-in | 2 turns |
| `execute` | contributions, verdicts, budgets, termination | 5 plans, 3 books of which 2 share a title, 3 attempts |
| `records` | acknowledged edits survive lost answers, late requests, retries and failed turns, unless overwritten from an outdated copy; a duplicate row needs a writer that could not see the first; `RecordsInv`, the invariant that is proved | 2 threads, 3 edits, 1 topic, 1 book, 1 scope, 2 calls each, 1 late request |
| `usage` | whom a row is billed to, what the buffer holds, that nothing due is forgotten or counted twice, one voice per reply; implements `UsageLedger`, with liveness | 2 workers, 3 jobs of 2 turns, 2 models per call, 2 runs per worker, 1 end of the process |
| `store` | recommendations are whole, rows that are double were added concurrently, what is stored is answered, every reply is given | 2 threads, 3 books, 4 lists, 1 turn each, 1 crash |
| `unique_books` | *violation*: a book has two rows | 2 threads, 1 book without author, 1 turn each |

Why the bounds are enough. Every staleness needs one turn that leaves something
behind and one that finds it: two turns. A target can be confused with one other
child: two children. The lists of `gate` have one representative of each way through
`classify` and `_apply_decision`, and of each addressee: nothing, a policy, a fact
about the parent with a school fact, an edit made of two operations with a fact, an
edit with a school fact, an edit that folds to nothing, a create without a name with
a school fact that contradicts its grade, a create with an edit of the member, and a
record the schema rejects. A create also meets a target child that is on file, since
the policy may return any list in any turn. Two tool calls per reply and two replies
reach every order of success, failure and lost reply in a batch followed by a
recovery; `gate_diligent` has a third so that a run can also recover and stop.
The loops of `Execute` run with the code's own budget of three, over two books whose
verdicts collide and one that is judged alone. In
`FamilyRecords` a copy can be outdated by one other writer or by one late request,
and the two threads may also run one after the other, which is a second turn; two
calls of a session make a retry. Its edits are a tool that writes two fields at
once, naming both or only one, and one on the requester's record beside the child's;
one topic is enough, since the entries of a list are merged one by one. In
`UsageTracker` two workers have one run each of the same or of different turns
at once, a chain has a model to fall back to, and the jobs differ in how the node
is told, in how the answer is used and in whether the turn is identified; the end
of the process leaves a second run to find what the first left behind. In
`RecommendationStore` two transactions reach every wait, and the two lists that
take the same books in opposite order deadlock; a crash and the retry after it
are the third transaction, which finds the two rows the first two made. The
proofs lift the invariants of `gate`, `conversation`, `execute`, `records`, `usage`
and `store` to every value of the constants.

Deadlock checking is off where a system really may stop: the parent need not
write again, and the bound on turns ends every behaviour.

Fairness. `FairSpec` of each module is weak fairness of the nodes: the LangGraph
runtime keeps running the tasks of a superstep, and each call to a model or to
accounts returns or raises (`accounts_client._TIMEOUT`, the model clients'
timeouts). In `UsageTracker` it is weaker: a callback that began ends, and the
consumer takes the next record and its write returns or raises; nothing is
assumed of nodes and models. In `RecommendationStore` a thread goes on as long as
its transaction does not wait, and the database resolves deadlocks; no statement
has a timeout, so a wait ends only because its holder goes on. Nothing is assumed
of the parent: answering a popup and sending a message are never fair.

### What the violations say

- `gate_confident`: `profile_update.py:111` does not count an agent that makes no
  call as a failure, the comment above it says it does.
- `gate_stray`: that identity writes "must be confirmed before applying" is a
  convention of the prompt; `profile_update` binds and runs every memory tool.
- `conflict`: the branches are disjoint only as long as the memory subgraph, which
  has no output schema, does not hand back `capability_results`.
- `unique_books`: `BookCache` and its repository promise a book is unique by title
  and author. The author may be null, the index takes null keys for different,
  and two transactions that look the book up at once both add it. From then on
  every recommendation of that book raises (`get_one_or_none`) and is not stored:
  `Ambiguous`.

More sentences of the code's own documentation are not what the code does. The
models show each, no run is kept for them:

- `capabilities/recommend.py:167`: a book only survives if screening keeps it.
  Verdicts are keyed by title (`:195`), so of two books with one title both stay or
  go, whatever was said of the other; `RejectedIsDropped` states exactly this.
- `memory/confirm_policy.py:28`: high-stakes operations are confirmed.
  `update_school_information` (`domain/child.py:91`) is not among `_CONFIRM_TOOLS`,
  yet it changes the grade, which the popup shows and confirms: `ChangeGrade` of
  `ConfirmedWrites`, `SchoolFact` of `MemoryGate`. `add_family_member` is not among
  them either; it names a new member and changes nobody's record.
- A popup that shows no reading language creates a child who reads English: the
  default of `create_child` (`WithDefaults`).
- `llm.py:60`: one model handles a request. With a schema, an answer that does not
  parse is answered again by the next model, and both are billed (`Answered`).
- `usage_tracker.py:284`: the live event is independent of billing. It is sent
  first, and what it raises is swallowed with the record (`EmitRaises`).
- `state.py:73` and `:78`: the outcome and the results are rewritten every turn. A
  turn that is refused or asks a question rewrites neither (`Guard`, `Clarify` of
  `Conversation`), and a frontend that reads the thread sees those of an earlier
  turn. `respond` does not, which is `RespondReadsThisTurn`.
- `capabilities/evaluate.py:184`: the best effort is shipped. The last attempt
  overwrites the evaluation, with the empty string when it fails (`Analyse`).
- `memory/profile_update.py:4`: the writes share one transaction. That of
  `domain_session` is the local database's; accounts commits each call (`Send`).
- `domain/reading_history.py:4`: repeated mentions update the same row.
  `DuplicatesAreRaced` says when they do not.

Two divergences no model has:

- `domain/family.py:129` says a child-scoped policy applies to the turn's target
  child; without a target (`:133`) it is stored as the family's, and the tool reports
  a child's. `FamilyRecords` takes a policy's scope as given.
- `domain/context.py:127` says tool writes never mutate the caller's structures.
  `list(members)` copies the list and not its dicts, and `family.py:191` assigns into
  the dict of the requester. `FamilyRecords` has the copy only.

### What the properties permit

Some hazards of this code happen, and no property forbids them. `PROJECT.json` lists
them without one: two conversations of a family overwrite each other's edits or make
two rows of a book; a request carried out after its client gave up does so too; a
create whose reply was lost and that is tried again makes a second child; the facts
of a turn about a child on file land on that child when its create fails; a
recommendation made for one child is stored for the child the same turn created; a
turn that raises after its tools ran leaves their writes. The properties of
`FamilyRecords` and `RecordedForItsChild` say that nothing else does this damage.

## 4. Proofs

`ConfirmPolicyProofs`, for every menu of operations, every set of replies and
lists of every length:

- `PopupShowsUpdates`: `Spec => []FoldUpdatesInOrder`. `_fold` picks, of every key,
  the last operation that gives it; the code updates one dict. `MergeInv` is the
  loop invariant that relates the two: the dict holds of each key the value of
  its last operation. That "the last" names one operation rests on the numbering
  of the list (`ListInv`). No recursion is needed, since the list grows in `Emit`.
- `CreateIsNamed`, `OneReplyOneWrite`: what a reply leaves (`ReplyLeaves`) are soft
  facts, at most one write of a child's record and at most one of the member's,
  whether the record is the popup's or the parent's edited one. No raw identity
  operation of the list is beside them, since what is not gated and what is bundled
  are soft facts (`UngatedAreSoft`).

`MemoryGateProofs`, for every set of children, lists, replies and bounds. The
invariant `GateInv` has four parts, proved in this order:

- `SessionInvariance`: `Spec => []SessionInv`, for *every* agent. It says per node
  what the one before it left: nothing is written before the gate, the popup is the
  one the list builds, the consent is the one the decision gives, and the final
  list holds only consented identity writes. Lemmas give the types of `Fold`,
  `Named`, `BuildRequest` and `Applied`. One lemma per action. `GateTypes` follows.
- `FactsInvariance`, and from it `FactsSurvive` and `FactsLandOnNewChild`, for
  every agent and every list, one that creates a child in a turn about another
  included. Which child a fact lands on rests on the session's target: it is the
  turn's until a create has returned, and a child that was not on file from then on.
- `LandedInvariance`, for every agent, and from it `AppliedLanded`, under `ASSUME
  Diligent` (the agent stops only when each of its calls returned). What returned
  was written, and the loop is left without a failure only by a reply without
  calls, or after some; the status is "applied" only in the first case.
- `GatePromise`, under `ASSUME Obedient` (the agent calls only operations it was
  given, see `gate_stray`): `IdentityWritesConsented` compares the records on file
  with those the turn began with, field by field, and is not inductive alone. That a
  value is agreed rests on the list `profile_update` was given (`ConsentedIsGranted`),
  that list on the popup rebuilt by `apply_confirmation`, and that popup on the list
  being the one the parent saw, which is `SessionInv`; that it is agreed for this
  child, on the session's target being the popup's as long as nothing is created.
  `OverlayAgreed` is the step from the old record to the new one. `GateInvariance`
  joins the four.
- `ImplementsPromise`, under `ASSUME Obedient`: `Spec => KeepsPromise`, the whole
  of `ConfirmedWrites`. Each node maps to a step of it or a stutter; a school fact
  maps to `ChangeGrade`, or to a stutter when it has no grade.

`ConversationProofs`, for every family, set of intents and number of turns:

- `PipelineInvariance`: `Spec => []PipelineInv`. The strengthening says what each
  stage has rewritten (`StageInv`), that a child made in the superstep is in the
  context read after it (`FilesInv`, `BranchInv`), and how many popups and
  replies there were (`CountInv`).
- `PipelineTypes`, `NothingStaleIsComposed`, `TargetsAreOnFile`,
  `RecommendationsFollowTheirChild`: its consequences.
- `SoleChildIsPinned`: `clarify` is reached without a target only if the turn holds
  no child or several; the pin is the sole child when there is one.
- `SwitchesAreReal`: the announced switch is what `understand` made the target,
  and only a child created in the superstep replaces it.
- `ConversationKeepsOrder`: every step of the pipeline is a step of `TurnProtocol`
  or a stutter, so the safety part of the protocol holds.

`ExecuteProofs`, for every set of books, titles and plans and every budget:

- `Inductive`: `Spec => []IInv`. `NodesFollowPlan` says that a capability is off
  exactly when it is not planned, and `Contributed` that a contribution is that of
  a finished capability, as its loop left it, so that nothing can be missing once
  all have finished. That a loop has spent its budget when it falls short rests on
  an attempt being made only while one is left (`RecommendBudget`,
  `EvaluateBudget`).
- `TypeCorrect`, `Arrives`, `SpendsItsBudget`: its consequences.
- `RejectsAreDropped`, for any titles: the list `Kept` leaves is decided by title
  (`VerdictsDecide`), and every verdict in `Filed` is one of those given.

`FamilyRecordsProofs`, for every number of threads, topics, books, scopes, edits,
calls, turns and late requests:

- `RecordsInvariance`: `Spec => []RecordsInv`. That an acknowledged edit survives
  is not inductive: a tool sends back whole fields, so the next write keeps it
  only if the session's copy still holds it. `CopiesCurrent` says it does, for
  every item nobody wrote since the session read it, in every session that may
  still write; `KnownOnFile` and the distinct ids say that a patch reaches the row
  that was found. A write makes the copies of the others stale, its own session
  takes the answer, and a session whose answer was lost keeps a copy that is no
  worse than before, since what accounts did on its behalf was not acknowledged.
  That is `CopiesInv`; the other part, `RaceInv`, says that of an item nobody else
  wrote a session knows every row on file, but for a policy whose creation was not
  answered (`Seen`), so that whoever adds a second row could not see the first.
- `TypeCorrect`, `EditsSurvive`, `DuplicatesNeedARace`: its consequences.

`UsageTrackerProofs`, for every set of workers, turns, nodes and jobs, every
length of a chain and any number of runs and ends of the process:

- `Inductive`: `Spec => []IInv`. That a row names its turn is not inductive: it
  rests on the context a worker keeps while its node runs and on what `on_llm_end`
  holds after it emptied the buffer (`ContextKept`), and the latter on the buffer
  having exactly the runs in progress. That nothing is counted twice rests on run
  ids being fresh: what is due has ended (`DueHasEnded`). `Accounts` says of five
  sets of runs that they are a partition, and each step moves a run from one to
  another.
- `TypeCorrect`, `Billing`, `BufferIsBounded`, `Accounting`, `OneVoice`: its
  consequences. `ImplementsLedger`: every step is one of `UsageLedger` or a
  stutter.

`RecommendationStoreProofs`, for every set of threads, books and lists and any
number of turns and crashes:

- `Inductive`: `Spec => []IInv`. That only concurrent transactions make a book
  double rests on three things: of a book with an author there is one row,
  committed or in an open transaction (`KeyedOnce`, from waiting and from the
  index); transactions open at once have met (`OpenHaveMet`); and a row that a
  transaction did not see when it looked was committed since, by one it met
  (`UnseenHaveMet`). `StoredSoFar` is the loop invariant of
  `save_recommendation_items`; `RowsAreOver` keeps replies apart over retries.
- `TypeCorrect`, `Whole`, `Duplicates`, `Answered`: its consequences.

Every safety property that a passing run checks is the statement of a theorem
above. Only model-checked is what is temporal beyond safety: `TurnEnds`,
`ExecuteEnds`, `ReplyIsGiven`, and the liveness of `TurnProtocol` and
`UsageLedger`, whose safety parts are proved, since the prover has neither
`ENABLED` nor liveness under fairness. The four violations are TLC's too.

The assumptions on constants are those the modules name. Beside types and values
that must differ, they are: `MaxIterations` is positive (`_MAX_ITERATIONS` is 5),
every list of operations has a last one, and the frontend sends back records of
the schema. `AppliedLanded`, `GatePromise`, `GateInvariance` and `ImplementsPromise`
have a further hypothesis, stated in the theorem; a run shows for each of `Obedient`
and `Diligent` that it can be met, and section 3 what happens without it.

## 5. Assumptions and what is not modelled

- LangGraph is used, not contained: a superstep's writes appear together, a node
  that raises ends the run with the last checkpoint, a resume re-runs the paused
  node, a new input on a paused thread starts over from `guard`.
- A thread handles one run at a time.
- The family exists throughout: the case where the context cannot be read back
  because the family is gone (404) is left out.
- Accounts carries out each request at once and alone, gives rows fresh ids,
  deletes none, and returns the record it wrote. `FamilyRecords` has one child and
  one requester: records of different children share nothing but the threads.
- Models return anything their schema allows, or raise. `intents` are sets: their
  order only orders the reply.
- PostgreSQL keeps READ COMMITTED, its default: `db/base.py` sets no other level.
  A crash ends the process as a whole.
- Of the store, feedback and the metadata tools of `domain/books.py` are left out:
  no node of the graph calls them. Composing a reply may raise; the turn then ends
  without touching the store, which is `TurnFails` of `Conversation`.
- Runs of one node are one after another in `UsageTracker`; nodes that run in
  parallel are different workers.
- Tests, evaluations, scripts, prompts, language codes, the agent card and the
  database's table declarations hold no behaviour of the running system that a
  property here is about.

## 6. Plan

In this order; all but the last are done.

1. `ConfirmPolicy`, `MemoryGate`, `ConfirmedWrites`: the only writes that cannot
   be taken back, behind the only human step.
2. `Conversation`, `TurnProtocol`: what survives a turn, the parallel superstep.
3. `Execute`: the answer branch and its loops.
4. Proofs of the invariants of 1 and 2 and of the protocol's safety.
5. `FamilyRecords`: the domain tools of several threads on shared records, with
   its invariant proved.
6. `RecommendationStore`: the transaction of `respond`, its unique index, a crash
   between commit and reply, with its invariant proved.
7. `UsageTracker`: callbacks of parallel runs, the shared buffer, the queue and
   its consumer, the end of the process, with its invariant and the refinement of
   `UsageLedger` proved.
8. Proofs of the properties that were only checked: `ConfirmPolicyCheck`, the
   facts and outcomes of `MemoryGate` and its refinement of `ConfirmedWrites`, the
   remaining properties of `Conversation`, and duplicates in `FamilyRecords`.
9. Still to do: the scope of a policy that was recorded without a target child,
   with what the parent meant by it.

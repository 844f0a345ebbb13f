---------------------------- MODULE UsageTracker ----------------------------
(***************************************************************************)
(* Token usage accounting (agent/usage_tracker.py) under the model chains  *)
(* of agent/llm.py.                                                        *)
(*                                                                         *)
(* Worker threads execute the nodes of several turns.  A node calls a      *)
(* model chain; the chain tries its models in order, each try is a run     *)
(* with callbacks.  The one handler of the process keeps the metadata of   *)
(* the runs in progress in a dict, and puts a record in a queue when a run *)
(* ends.  A daemon thread writes the records, one at a time.               *)
(***************************************************************************)
EXTENDS Naturals, Sequences

CONSTANTS
  Workers,  \* threads that execute nodes
  Turns,
  Nodes,
  Jobs,     \* the node executions there may be
  Models,   \* models of a chain
  MaxRuns,  \* bound: runs of one worker
  MaxStops  \* bound: ends of the process

Strategies == {"HEAVY", "STANDARD", "FAST"}

\* A node of a turn, as the last name on the path of nested graphs.  `named':
\* LangGraph tells the node in the metadata, and not only in checkpoint_ns.
\* `identified': turn_id is in the state and the runtime has its AppContext;
\* a thread may be resumed without.
Job == [turn : Turns, path : Seq(Nodes) \ {<<>>}, named : BOOLEAN, identified : BOOLEAN,
        strategy : Strategies, use : {"invoke", "stream", "structured", "tools"}]

\* A run and its run_id: the number of the worker's runs it is.
Run == [worker : Workers, number : Nat, job : Job, model : 1..Models]

NoTurn == "no turn"

ASSUME UsageAssumption ==
  /\ Jobs \subseteq Job
  /\ NoTurn \notin Turns /\ "" \notin Nodes
  /\ Models \in Nat \ {0}
  /\ MaxRuns \in Nat /\ MaxStops \in Nat

Metadata == [langgraph_node : Nodes \cup {""}, checkpoint_ns : Seq(Nodes),
             strategy : Strategies \cup {""}]
NoMetadata == [langgraph_node |-> "", checkpoint_ns |-> <<>>, strategy |-> ""]

\* A TokenUsageRecord; `run' stands for its id.
Row == [run : Run, turn : Turns, node : Nodes \cup {""}, strategy : Strategies \cup {""}]

NoJob == [use |-> "none"]

VARIABLES
  pc,        \* of a worker: "idle", "node", "running", "ending", "answered", "failed"
  job,       \* the node it executes
  turn_ctx,  \* _ctx in the node's context
  model,     \* the model its call has come to
  spoken,    \* the models whose chunks of this call were passed on
  runs,      \* how many runs it has made
  held,      \* the metadata on_llm_end has popped
  buffer,    \* _meta_by_run
  queue,
  hand,      \* the record the consumer has in hand, as a set
  rows,
  stops,
  due,       \* history: runs whose usage is to be recorded
  lost       \* history: those that never will be

worker_vars == <<pc, job, turn_ctx, model, spoken, runs, held>>
vars == <<worker_vars, buffer, queue, hand, rows, stops, due, lost>>

CurrentRun(w) ==
  [worker |-> w, number |-> runs[w], job |-> job[w], model |-> model[w]]

TypeOK ==
  /\ pc \in [Workers -> {"idle", "node", "running", "ending", "answered", "failed"}]
  /\ job \in [Workers -> Jobs \cup {NoJob}]
  /\ \A w \in Workers : pc[w] # "idle" => job[w] \in Jobs
  /\ turn_ctx \in [Workers -> Turns \cup {NoTurn}]
  /\ model \in [Workers -> 1..Models]
  /\ spoken \in [Workers -> SUBSET (1..Models)]
  /\ runs \in [Workers -> 0..MaxRuns]
  /\ held \in [Workers -> Metadata]
  /\ buffer \in [DOMAIN buffer -> Metadata] /\ DOMAIN buffer \subseteq Run
  /\ queue \in Seq(Row)
  /\ hand \subseteq Row /\ \A p, q \in hand : p = q
  /\ rows \subseteq Row
  /\ stops \in 0..MaxStops
  /\ due \subseteq Run /\ lost \subseteq due

Init ==
  /\ pc = [w \in Workers |-> "idle"]
  /\ job = [w \in Workers |-> NoJob]
  /\ turn_ctx = [w \in Workers |-> NoTurn]
  /\ model = [w \in Workers |-> 1]
  /\ spoken = [w \in Workers |-> {}]
  /\ runs = [w \in Workers |-> 0]
  /\ held = [w \in Workers |-> NoMetadata]
  /\ buffer = [run \in {} |-> NoMetadata]
  /\ queue = <<>> /\ hand = {} /\ rows = {}
  /\ stops = 0
  /\ due = {} /\ lost = {}

-----------------------------------------------------------------------------
(***************************************************************************)
(* The node and its chain.                                                 *)
(***************************************************************************)

\* with_turn_context sets _ctx in the node's copy of a context that never had it.
ContextAtEntry(j) == IF j.identified THEN j.turn ELSE NoTurn

EnterNode(w, j) ==
  /\ pc[w] = "idle"
  /\ runs[w] + Models <= MaxRuns
  /\ pc' = [pc EXCEPT ![w] = "node"]
  /\ job' = [job EXCEPT ![w] = j]
  /\ turn_ctx' = [turn_ctx EXCEPT ![w] = ContextAtEntry(j)]
  /\ UNCHANGED <<model, spoken, runs, held, buffer, queue, hand, rows, stops, due, lost>>

LeaveNode(w) ==
  /\ pc[w] = "node"
  /\ pc' = [pc EXCEPT ![w] = "idle"]
  /\ job' = [job EXCEPT ![w] = NoJob]
  /\ turn_ctx' = [turn_ctx EXCEPT ![w] = NoTurn]
  /\ model' = [model EXCEPT ![w] = 1]
  /\ spoken' = [spoken EXCEPT ![w] = {}]
  /\ UNCHANGED <<runs, held, buffer, queue, hand, rows, stops, due, lost>>

\* What LangGraph and Strategy._with_tracking tag a run with.
Tags(j) ==
  [langgraph_node |-> IF j.named THEN j.path[Len(j.path)] ELSE "",
   checkpoint_ns  |-> j.path,
   strategy       |-> j.strategy]

\* _stash
Stashed(run, metadata) ==
  [r \in DOMAIN buffer \cup {run} |-> IF r = run THEN metadata ELSE buffer[r]]

\* on_chat_model_start of a run of the k-th model, under a fresh run_id
StartRun(w, k) ==
  LET run == [worker |-> w, number |-> runs[w] + 1, job |-> job[w], model |-> k]
  IN  /\ pc' = [pc EXCEPT ![w] = "running"]
      /\ model' = [model EXCEPT ![w] = k]
      /\ runs' = [runs EXCEPT ![w] = @ + 1]
      /\ buffer' = Stashed(run, Tags(job[w]))
      /\ UNCHANGED <<job, turn_ctx, held, queue, hand, rows, stops, due, lost>>

\* The node calls its chain: chain, stream_chain, structured or tools.
Call(w) ==
  /\ pc[w] = "node"
  /\ runs[w] + Models <= MaxRuns
  /\ StartRun(w, 1)
  /\ spoken' = [spoken EXCEPT ![w] = {}]

\* Mutants: a model too many; a stream that breaks off is begun again.
FallsBack_one_too_many(w) == model[w] \notin spoken[w] /\ model[w] <= Models
FallsBack_any_time(w)     == model[w] < Models

\* with_fallbacks: the next model, unless chunks of this one were passed on.
FallsBack(w) == model[w] \notin spoken[w] /\ model[w] < Models

NextModel(w) ==
  /\ pc[w] = "failed"
  /\ FallsBack(w)
  /\ StartRun(w, model[w] + 1)
  /\ UNCHANGED spoken

\* The call raises; the node handles that or raises itself.
CallRaises(w) ==
  /\ pc[w] = "failed"
  /\ ~FallsBack(w)
  /\ pc' = [pc EXCEPT ![w] = "node"]
  /\ UNCHANGED <<job, turn_ctx, model, spoken, runs, held, buffer, queue, hand, rows, stops, due, lost>>

FirstChunk(w) ==
  /\ pc[w] = "running"
  /\ job[w].use = "stream"
  /\ model[w] \notin spoken[w]
  /\ spoken' = [spoken EXCEPT ![w] = @ \cup {model[w]}]
  /\ UNCHANGED <<pc, job, turn_ctx, model, runs, held, buffer, queue, hand, rows, stops, due, lost>>

-----------------------------------------------------------------------------
(***************************************************************************)
(* The callbacks at the end of a run.                                      *)
(***************************************************************************)
Popped(run) == [r \in DOMAIN buffer \ {run} |-> buffer[r]]

\* Mutant: a failed run is left in the buffer.
OnLlmError_keeps_entry(w) ==
  /\ pc[w] = "running"
  /\ pc' = [pc EXCEPT ![w] = "failed"]
  /\ UNCHANGED <<job, turn_ctx, model, spoken, runs, held, buffer, queue, hand, rows, stops, due, lost>>

\* The model has spent its retries, or its stream breaks.
OnLlmError(w) ==
  /\ pc[w] = "running"
  /\ pc' = [pc EXCEPT ![w] = "failed"]
  /\ buffer' = Popped(CurrentRun(w))
  /\ UNCHANGED <<job, turn_ctx, model, spoken, runs, held, queue, hand, rows, stops, due, lost>>

\* Mutant: an answer without input tokens, from the model's cache, does not count.
Counts_both(inp, out) == inp # 0 /\ out # 0

Counts(inp, out) == ~(inp = 0 /\ out = 0)

(***************************************************************************)
(* on_llm_end takes the metadata out of the buffer, and goes on if the     *)
(* answer is a message with tokens.  Such an answer is due in a turn that  *)
(* is identified.                                                          *)
(***************************************************************************)
OnLlmEnd(w, inp, out) ==
  LET run == CurrentRun(w)
  IN  /\ pc[w] = "running"
      /\ job[w].use = "stream" => model[w] \in spoken[w]
      /\ held' = [held EXCEPT ![w] = IF run \in DOMAIN buffer THEN buffer[run] ELSE NoMetadata]
      /\ buffer' = Popped(run)
      /\ pc' = [pc EXCEPT ![w] = IF Counts(inp, out) THEN "ending" ELSE "answered"]
      /\ due' = IF inp + out > 0 /\ job[w].identified THEN due \cup {run} ELSE due
      /\ UNCHANGED <<job, turn_ctx, model, spoken, runs, queue, hand, rows, stops, lost>>

\* Mutant: the outermost graph's node.
NodeFromMeta_outermost(meta) ==
  IF meta.langgraph_node # "" THEN meta.langgraph_node
  ELSE IF meta.checkpoint_ns # <<>> THEN Head(meta.checkpoint_ns) ELSE ""

NodeFromMeta(meta) ==
  IF meta.langgraph_node # "" THEN meta.langgraph_node
  ELSE IF meta.checkpoint_ns # <<>> THEN meta.checkpoint_ns[Len(meta.checkpoint_ns)] ELSE ""

\* ... emits its event, and queues a record if the context is set.
Enqueue(w) ==
  /\ pc[w] = "ending"
  /\ queue' = IF turn_ctx[w] = NoTurn THEN queue
              ELSE Append(queue, [run |-> CurrentRun(w), turn |-> turn_ctx[w],
                                  node |-> NodeFromMeta(held[w]), strategy |-> held[w].strategy])
  /\ pc' = [pc EXCEPT ![w] = "answered"]
  /\ held' = [held EXCEPT ![w] = NoMetadata]
  /\ UNCHANGED <<job, turn_ctx, model, spoken, runs, buffer, hand, rows, stops, due, lost>>

\* The stream writer raises.  The runtime swallows what a callback raises, and
\* the record that was to follow is never queued.
EmitRaises(w) ==
  /\ pc[w] = "ending"
  /\ NodeFromMeta(held[w]) # ""
  /\ lost' = lost \cup ({CurrentRun(w)} \cap due)
  /\ pc' = [pc EXCEPT ![w] = "answered"]
  /\ held' = [held EXCEPT ![w] = NoMetadata]
  /\ UNCHANGED <<job, turn_ctx, model, spoken, runs, buffer, queue, hand, rows, stops, due>>

\* The chain hands the answer to the node, or fails to parse it into its schema.
Answered(w) ==
  /\ pc[w] = "answered"
  /\ \/ pc' = [pc EXCEPT ![w] = "node"]
     \/ job[w].use = "structured" /\ pc' = [pc EXCEPT ![w] = "failed"]
  /\ UNCHANGED <<job, turn_ctx, model, spoken, runs, held, buffer, queue, hand, rows, stops, due, lost>>

-----------------------------------------------------------------------------
(***************************************************************************)
(* The consumer, and the end of the process.                               *)
(***************************************************************************)
Take ==
  /\ hand = {} /\ queue # <<>>
  /\ hand' = {Head(queue)} /\ queue' = Tail(queue)
  /\ UNCHANGED <<worker_vars, buffer, rows, stops, due, lost>>

\* The transaction commits, whatever the consumer hears of it.
WriteRow ==
  /\ hand # {}
  /\ rows' = rows \cup hand /\ hand' = {}
  /\ UNCHANGED <<worker_vars, buffer, queue, stops, due, lost>>

\* Mutant: a record that could not be written is queued again.
InsertFails_queues_again ==
  /\ hand # {}
  /\ \E row \in hand : queue' = Append(queue, row)
  /\ hand' = {}
  /\ UNCHANGED <<worker_vars, buffer, rows, stops, due, lost>>

\* It does not; the failure is logged and the record dropped.
InsertFails ==
  /\ hand # {}
  /\ lost' = lost \cup {row.run : row \in hand} /\ hand' = {}
  /\ UNCHANGED <<worker_vars, buffer, queue, rows, stops, due>>

\* The process ends and starts again.  Nobody puts the sentinel in the queue and
\* the consumer is a daemon: what is queued is gone, and what is in hand is if
\* its transaction did not commit.
Stop ==
  /\ stops < MaxStops
  /\ stops' = stops + 1
  /\ pc' = [w \in Workers |-> "idle"]
  /\ job' = [w \in Workers |-> NoJob]
  /\ turn_ctx' = [w \in Workers |-> NoTurn]
  /\ model' = [w \in Workers |-> 1]
  /\ spoken' = [w \in Workers |-> {}]
  /\ held' = [w \in Workers |-> NoMetadata]
  /\ buffer' = [run \in {} |-> NoMetadata]
  /\ queue' = <<>> /\ hand' = {}
  /\ \/ rows' = rows \cup hand
     \/ UNCHANGED rows
  /\ lost' = due \ {row.run : row \in rows'}
  /\ UNCHANGED <<runs, due>>

WorkerStep(w) ==
  \/ \E j \in Jobs : EnterNode(w, j)
  \/ LeaveNode(w)
  \/ Call(w)
  \/ NextModel(w)
  \/ CallRaises(w)
  \/ FirstChunk(w)
  \/ OnLlmError(w)
  \/ \E inp, out \in 0..1 : OnLlmEnd(w, inp, out)
  \/ Enqueue(w)
  \/ EmitRaises(w)
  \/ Answered(w)

Next == (\E w \in Workers : WorkerStep(w)) \/ Take \/ WriteRow \/ InsertFails \/ Stop

Spec == Init /\ [][Next]_vars

\* A callback that began ends; the consumer keeps running, and a write to the
\* database returns or raises.
FairSpec ==
  /\ Spec
  /\ \A w \in Workers : WF_vars(Enqueue(w) \/ EmitRaises(w))
  /\ WF_vars(Take)
  /\ WF_vars(WriteRow \/ InsertFails)

-----------------------------------------------------------------------------
RunsOf(records) == {row.run : row \in records}
Queued  == {queue[i] : i \in 1..Len(queue)}
Ending  == {CurrentRun(w) : w \in {v \in Workers : pc[v] = "ending"}}
Running == {CurrentRun(w) : w \in {v \in Workers : pc[v] = "running"}}

(***************************************************************************)
(* A row is billed to the turn, the node and the strategy of the run that  *)
(* used the tokens, whatever ran at the same time in the same process      *)
(* (on_llm_end reads _ctx and the buffer of all runs).                     *)
(***************************************************************************)
BilledToItsTurn ==
  \A row \in rows \cup hand \cup Queued :
     LET j == row.run.job
     IN  row.turn = j.turn /\ row.node = j.path[Len(j.path)] /\ row.strategy = j.strategy

(***************************************************************************)
(* The buffer holds the runs in progress and nothing else, each with its   *)
(* own metadata: it cannot grow with failures, and no run finds another's  *)
(* (_stash, on_llm_error, on_llm_end).                                     *)
(***************************************************************************)
BufferHoldsRunning ==
  /\ DOMAIN buffer = Running
  /\ \A run \in Running : buffer[run] = Tags(run.job)

(***************************************************************************)
(* An answer with tokens, input or output, in an identified turn is        *)
(* accounted for: it is on its way to the queue, queued, in the consumer's *)
(* hand, in a row, or known to be lost, and only one of these              *)
(* (on_llm_end, _consume).                                                 *)
(***************************************************************************)
UsageAccounted ==
  /\ due = RunsOf(rows) \cup RunsOf(hand) \cup RunsOf(Queued) \cup lost \cup (Ending \cap due)
  /\ lost \cap (RunsOf(rows) \cup RunsOf(hand) \cup RunsOf(Queued) \cup Ending) = {}
  /\ RunsOf(rows) \cap (RunsOf(hand) \cup RunsOf(Queued) \cup Ending) = {}
  /\ RunsOf(hand) \cap (RunsOf(Queued) \cup Ending) = {}
  /\ RunsOf(Queued) \cap Ending = {}
  /\ \A i, k \in 1..Len(queue) : queue[i].run = queue[k].run => i = k

(***************************************************************************)
(* The parent never sees one reply begun twice: of the models one call     *)
(* tries, at most one has its chunks passed on (stream_chain under         *)
(* _gather_text).                                                          *)
(***************************************************************************)
OneVoicePerReply == \A w \in Workers : \A p, q \in spoken[w] : p = q

\* The accounting implements its promise.
Ledger == INSTANCE UsageLedger WITH
            owed <- due \ (RunsOf(rows) \cup lost), billed <- RunsOf(rows), lost <- lost

(***************************************************************************)
(* What is owed is billed at most once and given up at most once, never    *)
(* both, and it does not wait forever: a record that cannot be written     *)
(* does not hold up the others (_consume).                                 *)
(***************************************************************************)
KeepsLedger == Ledger!Spec
=============================================================================

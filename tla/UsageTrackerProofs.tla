------------------------- MODULE UsageTrackerProofs -------------------------
(***************************************************************************)
(* Proofs about UsageTracker, for every set of workers, turns, nodes and   *)
(* jobs and every length of a chain: type correctness, to which run's turn *)
(* a row is billed, what the buffer holds, that usage is accounted for,    *)
(* that a reply has one voice, and that the accounting implements the      *)
(* safety part of UsageLedger.                                             *)
(***************************************************************************)
EXTENDS UsageTracker, SequenceTheorems, TLAPS

(***************************************************************************)
(* The inductive invariant.  The properties alone are not inductive: that  *)
(* a row has the right turn rests on the context and the metadata its run  *)
(* had when it ended, and that nothing is counted twice on the freshness   *)
(* of run ids.                                                             *)
(***************************************************************************)

\* A call has the runs left that its chain may need.
RunsLeft ==
  \A w \in Workers :
     pc[w] \in {"running", "ending", "answered", "failed"} =>
        runs[w] + (Models - model[w]) <= MaxRuns

\* The context is the one of the node, and what on_llm_end holds the run's tags.
ContextKept ==
  \A w \in Workers :
     /\ pc[w] # "idle" => turn_ctx[w] = ContextAtEntry(job[w])
     /\ pc[w] = "ending" => held[w] = Tags(job[w])

\* What is due has ended; a run that is ending is due if its turn is identified.
DueHasEnded ==
  /\ \A run \in due : run.job.identified /\ run.number <= runs[run.worker]
  /\ \A w \in Workers : pc[w] = "running" => \A run \in due : run.worker = w => run.number < runs[w]
  /\ \A w \in Workers : pc[w] = "ending" /\ job[w].identified => CurrentRun(w) \in due

\* Only the model a call has come to has spoken.
OnlyLastSpoke == \A w \in Workers : spoken[w] \subseteq {model[w]}

IInv == TypeOK /\ RunsLeft /\ ContextKept /\ DueHasEnded /\ OnlyLastSpoke
          /\ BufferHoldsRunning /\ BilledToItsTurn /\ UsageAccounted

-----------------------------------------------------------------------------
\* The assumptions in parts the provers can use.
LEMMA Bounds == Models \in Nat \ {0} /\ MaxRuns \in Nat /\ MaxStops \in Nat
BY Zenon, UsageAssumption

LEMMA JobsAreJobs == ASSUME NEW j \in Jobs PROVE j \in Job
BY Zenon, UsageAssumption

\* What a job tells of itself.
LEMMA JobType ==
  ASSUME NEW j \in Jobs
  PROVE  /\ j \in Job /\ j.turn \in Turns /\ j.path \in Seq(Nodes) /\ Len(j.path) \in Nat \ {0}
         /\ j.path[Len(j.path)] \in Nodes \ {""}
         /\ j.identified \in BOOLEAN /\ j.strategy \in Strategies
<1>1. j \in Job
  BY JobsAreJobs
<1>2. j.path \in Seq(Nodes) /\ j.path # <<>>
  BY <1>1 DEF Job
<1>3. Len(j.path) \in Nat \ {0}
  BY <1>2, EmptySeq
<1>4. j.path[Len(j.path)] \in Nodes
  BY <1>2, <1>3, ElementOfSeq
<1>5. "" \notin Nodes
  BY Zenon, UsageAssumption
<1> QED BY <1>1, <1>2, <1>3, <1>4, <1>5 DEF Job

\* Metadata is well formed, and the node can be told from it.
LEMMA TagsType ==
  ASSUME NEW j \in Jobs
  PROVE  /\ Tags(j) \in Metadata
         /\ NodeFromMeta(Tags(j)) = j.path[Len(j.path)]
         /\ Tags(j).strategy = j.strategy
<1>1. Tags(j) \in Metadata
  BY JobType DEF Tags, Metadata
<1>2. NodeFromMeta(Tags(j)) = j.path[Len(j.path)]
  BY JobType DEF Tags, NodeFromMeta
<1> QED BY <1>1, <1>2 DEF Tags

LEMMA NodeFromMetaType ==
  ASSUME NEW meta \in Metadata
  PROVE  NodeFromMeta(meta) \in Nodes \cup {""}
<1>1. meta.langgraph_node \in Nodes \cup {""} /\ meta.checkpoint_ns \in Seq(Nodes)
  BY DEF Metadata
<1>2. ASSUME meta.checkpoint_ns # <<>>
      PROVE  meta.checkpoint_ns[Len(meta.checkpoint_ns)] \in Nodes
  <2>1. Len(meta.checkpoint_ns) \in Nat \ {0}
    BY <1>1, <1>2, EmptySeq
  <2>2. Len(meta.checkpoint_ns) \in 1..Len(meta.checkpoint_ns)
    BY <2>1
  <2> QED BY <1>1, <2>2, ElementOfSeq
<1> QED BY <1>1, <1>2 DEF NodeFromMeta

\* A worker that executes a node has a run.
LEMMA CurrentRunType ==
  ASSUME TypeOK, NEW w \in Workers, pc[w] # "idle"
  PROVE  CurrentRun(w) \in Run
<1>1. job[w] \in Job
  BY JobsAreJobs DEF TypeOK
<1>2. runs[w] \in Nat /\ model[w] \in 1..Models
  BY Bounds DEF TypeOK
<1> QED BY <1>1, <1>2 DEF CurrentRun, Run

\* Initially everything is well formed.
LEMMA InitIInv == Init => IInv
<1> SUFFICES ASSUME Init PROVE IInv
  OBVIOUS
<1> USE Bounds DEF Init
<1>1. TypeOK
  <2>1. NoMetadata \in Metadata
    BY EmptySeq DEF NoMetadata, Metadata
  <2> QED BY <2>1, EmptySeq DEF TypeOK
<1>2. RunsLeft /\ ContextKept /\ DueHasEnded /\ OnlyLastSpoke
  BY DEF RunsLeft, ContextKept, DueHasEnded, OnlyLastSpoke
<1>3. BufferHoldsRunning
  BY DEF BufferHoldsRunning, Running
<1>4. BilledToItsTurn
  BY DEF BilledToItsTurn, Queued
<1>5. UsageAccounted
  BY DEF UsageAccounted, RunsOf, Queued, Ending
<1> QED BY <1>1, <1>2, <1>3, <1>4, <1>5 DEF IInv

-----------------------------------------------------------------------------
\* The start of a run keeps the types.
LEMMA StartRunType ==
  ASSUME TypeOK, NEW w \in Workers, pc[w] # "idle", NEW k \in 1..Models,
         runs[w] + 1 <= MaxRuns, StartRun(w, k), spoken' \in [Workers -> SUBSET (1..Models)]
  PROVE  TypeOK'
<1>1. job[w] \in Jobs
  BY DEF TypeOK
<1>2. runs[w] + 1 \in Nat /\ runs[w] + 1 \in 0..MaxRuns
  BY Bounds DEF TypeOK
<1> DEFINE run == [worker |-> w, number |-> runs[w] + 1, job |-> job[w], model |-> k]
<1>3. run \in Run
  BY <1>1, <1>2, Bounds, JobsAreJobs DEF Run
<1>4. buffer' \in [DOMAIN buffer' -> Metadata] /\ DOMAIN buffer' \subseteq Run
  BY <1>1, <1>3, TagsType DEF StartRun, Stashed, TypeOK
<1>5. /\ pc' \in [Workers -> {"idle", "node", "running", "ending", "answered", "failed"}]
      /\ model' \in [Workers -> 1..Models]
      /\ \A v \in Workers : pc'[v] # "idle" => job'[v] \in Jobs
  BY <1>1 DEF StartRun, TypeOK
<1>6. runs' \in [Workers -> 0..MaxRuns]
  BY <1>2 DEF StartRun, TypeOK
<1> QED BY <1>4, <1>5, <1>6 DEF StartRun, TypeOK

\* Every step keeps the types.
LEMMA NextTypeOK == TypeOK /\ RunsLeft /\ UsageAccounted /\ [Next]_vars => TypeOK'
<1> SUFFICES ASSUME TypeOK, RunsLeft, UsageAccounted, [Next]_vars PROVE TypeOK'
  OBVIOUS
<1> USE Bounds
<1>1. ASSUME NEW w \in Workers, NEW j \in Jobs, EnterNode(w, j)
      PROVE  TypeOK'
  <2>1. turn_ctx' \in [Workers -> Turns \cup {NoTurn}]
    BY <1>1, JobType DEF EnterNode, ContextAtEntry, TypeOK
  <2> QED BY <1>1, <2>1 DEF EnterNode, TypeOK
<1>2. ASSUME NEW w \in Workers, LeaveNode(w)
      PROVE  TypeOK'
  BY <1>2 DEF LeaveNode, TypeOK
<1>3. ASSUME NEW w \in Workers, Call(w)
      PROVE  TypeOK'
  <2>1. runs[w] + 1 <= MaxRuns /\ 1 \in 1..Models
    BY <1>3 DEF Call, TypeOK
  <2>2. spoken' \in [Workers -> SUBSET (1..Models)]
    BY <1>3 DEF Call, TypeOK
  <2> QED BY <1>3, <2>1, <2>2, StartRunType DEF Call
<1>4. ASSUME NEW w \in Workers, NextModel(w)
      PROVE  TypeOK'
  <2>1. model[w] < Models /\ model[w] \in 1..Models
    BY <1>4 DEF NextModel, FallsBack, TypeOK
  <2>2. runs[w] + (Models - model[w]) <= MaxRuns /\ runs[w] \in Nat
    BY <1>4 DEF NextModel, RunsLeft, TypeOK
  <2>3. runs[w] + 1 <= MaxRuns /\ model[w] + 1 \in 1..Models
    BY <2>1, <2>2
  <2>4. spoken' \in [Workers -> SUBSET (1..Models)]
    BY <1>4 DEF NextModel, TypeOK
  <2> QED BY <1>4, <2>3, <2>4, StartRunType DEF NextModel
<1>5. ASSUME NEW w \in Workers, CallRaises(w) \/ Answered(w)
      PROVE  TypeOK'
  BY <1>5 DEF CallRaises, Answered, TypeOK
<1>6. ASSUME NEW w \in Workers, FirstChunk(w)
      PROVE  TypeOK'
  BY <1>6 DEF FirstChunk, TypeOK
<1>7. ASSUME NEW w \in Workers, OnLlmError(w)
      PROVE  TypeOK'
  <2>1. buffer' \in [DOMAIN buffer' -> Metadata] /\ DOMAIN buffer' \subseteq Run
    BY <1>7 DEF OnLlmError, Popped, TypeOK
  <2> QED BY <1>7, <2>1 DEF OnLlmError, TypeOK
<1>8. ASSUME NEW w \in Workers, NEW inp \in 0..1, NEW out \in 0..1, OnLlmEnd(w, inp, out)
      PROVE  TypeOK'
  <2>1. buffer' \in [DOMAIN buffer' -> Metadata] /\ DOMAIN buffer' \subseteq Run
    BY <1>8 DEF OnLlmEnd, Popped, TypeOK
  <2>2. NoMetadata \in Metadata
    BY EmptySeq DEF NoMetadata, Metadata
  <2>3. held' \in [Workers -> Metadata]
    BY <1>8, <2>2 DEF OnLlmEnd, TypeOK
  <2>4. due' \subseteq Run /\ lost' \subseteq due'
    BY <1>8, CurrentRunType DEF OnLlmEnd, TypeOK
  <2>5. pc' \in [Workers -> {"idle", "node", "running", "ending", "answered", "failed"}]
        /\ \A v \in Workers : pc'[v] # "idle" => job'[v] \in Jobs
    BY <1>8 DEF OnLlmEnd, TypeOK
  <2> QED BY <1>8, <2>1, <2>3, <2>4, <2>5 DEF OnLlmEnd, TypeOK
<1>9. ASSUME NEW w \in Workers, Enqueue(w)
      PROVE  TypeOK'
  <2>1. NoMetadata \in Metadata
    BY EmptySeq DEF NoMetadata, Metadata
  <2> DEFINE row == [run |-> CurrentRun(w), turn |-> turn_ctx[w],
                     node |-> NodeFromMeta(held[w]), strategy |-> held[w].strategy]
  <2>2. turn_ctx[w] # NoTurn => row \in Row
    <3>1. CurrentRun(w) \in Run /\ held[w] \in Metadata
      BY <1>9, CurrentRunType DEF Enqueue, TypeOK
    <3>2. NodeFromMeta(held[w]) \in Nodes \cup {""} /\ held[w].strategy \in Strategies \cup {""}
      BY <3>1, NodeFromMetaType DEF Metadata
    <3> QED BY <3>1, <3>2 DEF Row, TypeOK
  <2>3. queue' \in Seq(Row)
    BY <1>9, <2>2 DEF Enqueue, TypeOK
  <2> QED BY <1>9, <2>1, <2>3 DEF Enqueue, TypeOK
<1>10. ASSUME NEW w \in Workers, EmitRaises(w)
       PROVE  TypeOK'
  <2>1. NoMetadata \in Metadata
    BY EmptySeq DEF NoMetadata, Metadata
  <2> QED BY <1>10, <2>1 DEF EmitRaises, TypeOK
<1>11. ASSUME Take
       PROVE  TypeOK'
  <2>1. Head(queue) \in Row /\ Tail(queue) \in Seq(Row)
    BY <1>11 DEF Take, TypeOK
  <2> QED BY <1>11, <2>1 DEF Take, worker_vars, TypeOK
<1>12. ASSUME WriteRow
       PROVE  TypeOK'
  BY <1>12 DEF WriteRow, worker_vars, TypeOK
<1>13. ASSUME InsertFails \/ Stop
       PROVE  TypeOK'
  <2>1. CASE InsertFails
    <3>1. {row.run : row \in hand} \subseteq due
      BY DEF UsageAccounted, RunsOf
    <3> QED BY <2>1, <3>1 DEF InsertFails, worker_vars, TypeOK
  <2>2. CASE Stop
    <3>1. NoMetadata \in Metadata
      BY EmptySeq DEF NoMetadata, Metadata
    <3>2. rows' \subseteq Row /\ lost' \subseteq due' /\ due' \subseteq Run
      BY <2>2 DEF Stop, TypeOK
    <3>3. stops' \in 0..MaxStops
      BY <2>2 DEF Stop, TypeOK
    <3>4. queue' \in Seq(Row)
      BY <2>2, EmptySeq DEF Stop
    <3> QED BY <2>2, <3>1, <3>2, <3>3, <3>4 DEF Stop, TypeOK
  <2> QED BY <1>13, <2>1, <2>2
<1>14. ASSUME UNCHANGED vars
       PROVE  TypeOK'
  BY <1>14 DEF vars, worker_vars, TypeOK
<1> QED BY <1>1, <1>2, <1>3, <1>4, <1>5, <1>6, <1>7, <1>8, <1>9, <1>10, <1>11, <1>12, <1>13, <1>14
       DEF Next, WorkerStep

-----------------------------------------------------------------------------
\* The runs a call has left.
LEMMA NextRunsLeft == TypeOK /\ RunsLeft /\ [Next]_vars => RunsLeft'
<1> SUFFICES ASSUME TypeOK, RunsLeft, [Next]_vars PROVE RunsLeft'
  OBVIOUS
<1> USE Bounds
<1>1. ASSUME NEW w \in Workers, NEW v \in Workers,
             pc'[v] \in {"running", "ending", "answered", "failed"}, WorkerStep(w)
      PROVE  runs'[v] + (Models - model'[v]) <= MaxRuns
  <2>1. CASE Call(w)
    BY <1>1, <2>1 DEF Call, StartRun, RunsLeft, TypeOK
  <2>2. CASE NextModel(w)
    <3>1. v = w => runs[w] + (Models - model[w]) <= MaxRuns
      BY <2>2 DEF NextModel, RunsLeft
    <3>2. runs[v] \in Nat /\ model[v] \in 1..Models
      BY DEF TypeOK
    <3>3. v = w => runs'[v] = runs[w] + 1 /\ model'[v] = model[w] + 1
      BY <2>2 DEF NextModel, StartRun, TypeOK
    <3>4. v # w => runs'[v] = runs[v] /\ model'[v] = model[v] /\ pc'[v] = pc[v]
      BY <2>2 DEF NextModel, StartRun, TypeOK
    <3>5. v # w => runs[v] + (Models - model[v]) <= MaxRuns
      BY <1>1, <3>4 DEF RunsLeft
    <3> QED BY <3>1, <3>2, <3>3, <3>4, <3>5
  <2>3. CASE \/ \E j \in Jobs : EnterNode(w, j)
             \/ LeaveNode(w) \/ CallRaises(w) \/ FirstChunk(w) \/ OnLlmError(w)
             \/ \E inp, out \in 0..1 : OnLlmEnd(w, inp, out)
             \/ Enqueue(w) \/ EmitRaises(w) \/ Answered(w)
    <3>1. runs'[v] = runs[v]
      BY <2>3 DEF EnterNode, LeaveNode, CallRaises, FirstChunk, OnLlmError, OnLlmEnd, Enqueue,
                  EmitRaises, Answered
    <3>2. model'[v] = model[v] /\ pc[v] \in {"running", "ending", "answered", "failed"}
      BY <1>1, <2>3 DEF EnterNode, LeaveNode, CallRaises, FirstChunk, OnLlmError, OnLlmEnd, Enqueue,
                        EmitRaises, Answered, TypeOK
    <3> QED BY <3>1, <3>2 DEF RunsLeft
  <2> QED BY <1>1, <2>1, <2>2, <2>3 DEF WorkerStep
<1>2. ASSUME Take \/ WriteRow \/ InsertFails \/ Stop \/ UNCHANGED vars
      PROVE  RunsLeft'
  BY <1>2 DEF Take, WriteRow, InsertFails, Stop, vars, worker_vars, RunsLeft
<1> QED BY <1>1, <1>2 DEF Next, RunsLeft

\* The context a callback reads stays that of the node the run belongs to.
LEMMA NextContextKept ==
  TypeOK /\ BufferHoldsRunning /\ ContextKept /\ [Next]_vars => ContextKept'
<1> SUFFICES ASSUME TypeOK, BufferHoldsRunning, ContextKept, [Next]_vars PROVE ContextKept'
  OBVIOUS
<1>1. ASSUME NEW w \in Workers, NEW v \in Workers, WorkerStep(w)
      PROVE  /\ pc'[v] # "idle" => turn_ctx'[v] = ContextAtEntry(job'[v])
             /\ pc'[v] = "ending" => held'[v] = Tags(job'[v])
  <2>1. CASE \/ Call(w) \/ NextModel(w)
    BY <2>1 DEF Call, NextModel, StartRun, ContextKept, TypeOK
  <2>2. CASE \E j \in Jobs : EnterNode(w, j)
    BY <2>2 DEF EnterNode, ContextKept, TypeOK
  <2>3. CASE \E inp, out \in 0..1 : OnLlmEnd(w, inp, out)
    <3>1. PICK inp, out \in 0..1 : OnLlmEnd(w, inp, out)
      BY <2>3
    <3>2. CurrentRun(w) \in Running
      BY <3>1 DEF OnLlmEnd, Running
    <3>3. buffer[CurrentRun(w)] = Tags(job[w]) /\ CurrentRun(w) \in DOMAIN buffer
      BY <3>2 DEF BufferHoldsRunning, CurrentRun
    <3>4. held' = [held EXCEPT ![w] = Tags(job[w])]
      BY <3>1, <3>3 DEF OnLlmEnd
    <3>5. pc'[v] = "ending" => v = w \/ pc[v] = "ending"
      BY <3>1 DEF OnLlmEnd, TypeOK
    <3>6. pc'[v] # "idle" => pc[v] # "idle"
      BY <3>1 DEF OnLlmEnd, TypeOK
    <3> QED BY <3>1, <3>4, <3>5, <3>6 DEF OnLlmEnd, ContextKept, TypeOK
  <2>4. CASE \/ LeaveNode(w) \/ CallRaises(w) \/ FirstChunk(w) \/ OnLlmError(w) \/ Answered(w)
    BY <2>4 DEF LeaveNode, CallRaises, FirstChunk, OnLlmError, Answered, ContextKept, TypeOK
  <2>5. CASE \/ Enqueue(w) \/ EmitRaises(w)
    BY <2>5 DEF Enqueue, EmitRaises, ContextKept, TypeOK
  <2> QED BY <1>1, <2>1, <2>2, <2>3, <2>4, <2>5 DEF WorkerStep
<1>2. ASSUME Take \/ WriteRow \/ InsertFails \/ Stop \/ UNCHANGED vars
      PROVE  ContextKept'
  BY <1>2 DEF Take, WriteRow, InsertFails, Stop, vars, worker_vars, ContextKept
<1> QED BY <1>1, <1>2 DEF Next, ContextKept

\* Of the models of a call, only the last has spoken.
LEMMA NextOnlyLastSpoke == TypeOK /\ OnlyLastSpoke /\ [Next]_vars => OnlyLastSpoke'
<1> SUFFICES ASSUME TypeOK, OnlyLastSpoke, [Next]_vars PROVE OnlyLastSpoke'
  OBVIOUS
<1>1. ASSUME NEW w \in Workers, NEW v \in Workers, WorkerStep(w)
      PROVE  spoken'[v] \subseteq {model'[v]}
  <2>1. CASE Call(w)
    BY <2>1 DEF Call, StartRun, OnlyLastSpoke, TypeOK
  <2>2. CASE NextModel(w)
    <3>1. spoken[w] = {}
      BY <2>2 DEF NextModel, FallsBack, OnlyLastSpoke
    <3> QED BY <2>2, <3>1 DEF NextModel, StartRun, OnlyLastSpoke, TypeOK
  <2>3. CASE FirstChunk(w)
    BY <2>3 DEF FirstChunk, OnlyLastSpoke, TypeOK
  <2>5. CASE LeaveNode(w)
    BY <2>5 DEF LeaveNode, OnlyLastSpoke, TypeOK
  <2>4. CASE \/ \E j \in Jobs : EnterNode(w, j)
             \/ CallRaises(w) \/ OnLlmError(w)
             \/ \E inp, out \in 0..1 : OnLlmEnd(w, inp, out)
             \/ Enqueue(w) \/ EmitRaises(w) \/ Answered(w)
    BY <2>4 DEF EnterNode, CallRaises, OnLlmError, OnLlmEnd, Enqueue, EmitRaises, Answered,
                OnlyLastSpoke
  <2> QED BY <1>1, <2>1, <2>2, <2>3, <2>4, <2>5 DEF WorkerStep
<1>2. ASSUME Take \/ WriteRow \/ InsertFails \/ Stop \/ UNCHANGED vars
      PROVE  OnlyLastSpoke'
  BY <1>2 DEF Take, WriteRow, InsertFails, Stop, vars, worker_vars, OnlyLastSpoke
<1> QED BY <1>1, <1>2 DEF Next, OnlyLastSpoke

-----------------------------------------------------------------------------
\* The runs in progress, and those that are ending, are the same if the workers
\* that make them are.
LEMMA SameRunning ==
  ASSUME \A v \in Workers : /\ pc'[v] = "running" <=> pc[v] = "running"
                            /\ pc[v] = "running" => CurrentRun(v)' = CurrentRun(v)
  PROVE  Running' = Running
BY DEF Running

LEMMA SameEnding ==
  ASSUME \A v \in Workers : /\ pc'[v] = "ending" <=> pc[v] = "ending"
                            /\ pc[v] = "ending" => CurrentRun(v)' = CurrentRun(v)
  PROVE  Ending' = Ending
BY DEF Ending

\* The run a worker starts is the one more in progress.
LEMMA StartedRunning ==
  ASSUME TypeOK, NEW w \in Workers, NEW k \in 1..Models, pc[w] \notin {"running", "ending"},
         StartRun(w, k)
  PROVE  LET run == [worker |-> w, number |-> runs[w] + 1, job |-> job[w], model |-> k]
         IN  Running' = Running \cup {run} /\ Ending' = Ending /\ buffer' = Stashed(run, Tags(job[w]))
<1> DEFINE run == [worker |-> w, number |-> runs[w] + 1, job |-> job[w], model |-> k]
<1>1. pc' = [pc EXCEPT ![w] = "running"] /\ model' = [model EXCEPT ![w] = k]
      /\ runs' = [runs EXCEPT ![w] = @ + 1] /\ job' = job /\ buffer' = Stashed(run, Tags(job[w]))
  BY DEF StartRun
<1>2. CurrentRun(w)' = run /\ pc'[w] = "running"
  BY <1>1 DEF CurrentRun, TypeOK
<1>3. \A v \in Workers \ {w} : CurrentRun(v)' = CurrentRun(v) /\ pc'[v] = pc[v]
  BY <1>1 DEF CurrentRun, TypeOK
<1>4. Running' = Running \cup {run}
  BY <1>2, <1>3 DEF Running
<1>5. Ending' = Ending
  BY <1>2, <1>3 DEF Ending
<1> QED BY <1>1, <1>4, <1>5

\* A run that ends is not in progress any more.
LEMMA StoppedRunning ==
  ASSUME TypeOK, NEW w \in Workers, pc[w] = "running", NEW next \in {"failed", "ending", "answered"},
         pc' = [pc EXCEPT ![w] = next], UNCHANGED <<job, model, runs>>
  PROVE  /\ Running' = Running \ {CurrentRun(w)}
         /\ Ending' = IF next = "ending" THEN Ending \cup {CurrentRun(w)} ELSE Ending
<1>1. pc'[w] = next /\ \A v \in Workers \ {w} : pc'[v] = pc[v]
  BY DEF TypeOK
<1>2. \A v \in Workers : CurrentRun(v)' = CurrentRun(v) /\ CurrentRun(v).worker = v
  BY DEF CurrentRun
<1>3. Running' = Running \ {CurrentRun(w)}
  BY <1>1, <1>2 DEF Running
<1>4. Ending' = IF next = "ending" THEN Ending \cup {CurrentRun(w)} ELSE Ending
  BY <1>1, <1>2 DEF Ending
<1> QED BY <1>3, <1>4

\* A callback that is done leaves the runs that are ending.
LEMMA StoppedEnding ==
  ASSUME TypeOK, NEW w \in Workers, pc[w] = "ending",
         pc' = [pc EXCEPT ![w] = "answered"], UNCHANGED <<job, model, runs>>
  PROVE  /\ CurrentRun(w) \in Ending /\ Ending' = Ending \ {CurrentRun(w)}
         /\ Running' = Running
<1>1. pc'[w] = "answered" /\ \A v \in Workers \ {w} : pc'[v] = pc[v]
  BY DEF TypeOK
<1>2. \A v \in Workers : CurrentRun(v)' = CurrentRun(v) /\ CurrentRun(v).worker = v
  BY DEF CurrentRun
<1>3. CurrentRun(w) \in Ending /\ Ending' = Ending \ {CurrentRun(w)}
  BY <1>1, <1>2 DEF Ending
<1>4. Running' = Running
  BY <1>1, <1>2 DEF Running
<1> QED BY <1>3, <1>4

\* The other steps of a worker are of no concern to its runs.
LEMMA OtherWorkerSteps ==
  ASSUME TypeOK, NEW w \in Workers,
         \/ \E j \in Jobs : EnterNode(w, j)
         \/ LeaveNode(w) \/ CallRaises(w) \/ FirstChunk(w) \/ Answered(w)
  PROVE  /\ Running' = Running /\ Ending' = Ending
         /\ UNCHANGED <<buffer, queue, hand, rows, due, lost, runs>>
<1>1. UNCHANGED <<buffer, queue, hand, rows, due, lost, runs>>
  BY DEF EnterNode, LeaveNode, CallRaises, FirstChunk, Answered
<1>2. /\ \A v \in Workers \ {w} : pc'[v] = pc[v] /\ job'[v] = job[v] /\ model'[v] = model[v]
      /\ pc'[w] \in {"running", "ending"} \/ pc[w] \in {"running", "ending"} =>
            pc'[w] = pc[w] /\ job'[w] = job[w] /\ model'[w] = model[w]
  BY DEF EnterNode, LeaveNode, CallRaises, FirstChunk, Answered, TypeOK
<1>3. \A v \in Workers : pc'[v] = pc[v] /\ job'[v] = job[v] /\ model'[v] = model[v] =>
                            CurrentRun(v)' = CurrentRun(v)
  BY <1>1 DEF CurrentRun
<1> QED BY <1>1, <1>2, <1>3, SameRunning, SameEnding

LEMMA NoWorkerSteps ==
  ASSUME UNCHANGED worker_vars
  PROVE  Running' = Running /\ Ending' = Ending
BY DEF worker_vars, Running, Ending, CurrentRun

\* The buffer holds what is running.
LEMMA NextBufferHoldsRunning ==
  TypeOK /\ RunsLeft /\ BufferHoldsRunning /\ [Next]_vars => BufferHoldsRunning'
<1> SUFFICES ASSUME TypeOK, RunsLeft, BufferHoldsRunning, [Next]_vars PROVE BufferHoldsRunning'
  OBVIOUS
<1>1. ASSUME NEW w \in Workers, NEW k \in 1..Models, pc[w] \in {"node", "failed"}, StartRun(w, k)
      PROVE  BufferHoldsRunning'
  <2> DEFINE run == [worker |-> w, number |-> runs[w] + 1, job |-> job[w], model |-> k]
  <2>1. Running' = Running \cup {run} /\ buffer' = Stashed(run, Tags(job[w]))
    BY <1>1, StartedRunning
  <2>2. DOMAIN buffer' = Running \cup {run}
    BY <2>1 DEF Stashed, BufferHoldsRunning
  <2>3. \A r \in Running \cup {run} : buffer'[r] = Tags(r.job)
    BY <2>1 DEF Stashed, BufferHoldsRunning
  <2> QED BY <2>1, <2>2, <2>3 DEF BufferHoldsRunning
<1>2. ASSUME NEW w \in Workers, pc[w] = "running", NEW next \in {"failed", "ending", "answered"},
             pc' = [pc EXCEPT ![w] = next], UNCHANGED <<job, model, runs>>,
             buffer' = Popped(CurrentRun(w))
      PROVE  BufferHoldsRunning'
  <2>1. Running' = Running \ {CurrentRun(w)}
    BY <1>2, StoppedRunning
  <2> QED BY <1>2, <2>1 DEF Popped, BufferHoldsRunning
<1>3. ASSUME Running' = Running, UNCHANGED buffer
      PROVE  BufferHoldsRunning'
  BY <1>3 DEF BufferHoldsRunning
<1>4. ASSUME NEW w \in Workers, WorkerStep(w)
      PROVE  BufferHoldsRunning'
  <2>1. CASE Call(w)
    BY <1>1, <2>1, Bounds DEF Call
  <2>2. CASE NextModel(w)
    <3>1. model[w] + 1 \in 1..Models
      BY <2>2, Bounds DEF NextModel, FallsBack, TypeOK
    <3> QED BY <1>1, <2>2, <3>1 DEF NextModel
  <2>3. CASE OnLlmError(w)
    BY <1>2, <2>3 DEF OnLlmError
  <2>4. CASE \E inp, out \in 0..1 : OnLlmEnd(w, inp, out)
    BY <1>2, <2>4 DEF OnLlmEnd
  <2>5. CASE Enqueue(w) \/ EmitRaises(w)
    BY <1>3, <2>5, StoppedEnding DEF Enqueue, EmitRaises
  <2> QED BY <1>3, <1>4, <2>1, <2>2, <2>3, <2>4, <2>5, OtherWorkerSteps DEF WorkerStep
<1>5. ASSUME Take \/ WriteRow \/ InsertFails \/ UNCHANGED vars
      PROVE  BufferHoldsRunning'
  BY <1>3, <1>5, NoWorkerSteps DEF Take, WriteRow, InsertFails, vars
<1>6. ASSUME Stop
      PROVE  BufferHoldsRunning'
  BY <1>6 DEF Stop, BufferHoldsRunning, Running
<1> QED BY <1>4, <1>5, <1>6 DEF Next

-----------------------------------------------------------------------------
\* A run that starts is new, one that is due is over.
LEMMA NextDueHasEnded == TypeOK /\ RunsLeft /\ DueHasEnded /\ [Next]_vars => DueHasEnded'
<1> SUFFICES ASSUME TypeOK, RunsLeft, DueHasEnded, [Next]_vars PROVE DueHasEnded'
  OBVIOUS
<1>0. /\ \A run \in due : run \in Run /\ run.worker \in Workers /\ run.number \in Nat
      /\ \A w \in Workers : runs[w] \in Nat
  BY Bounds DEF TypeOK, Run
<1>1. ASSUME NEW w \in Workers, NEW k \in 1..Models, pc[w] \in {"node", "failed"}, StartRun(w, k)
      PROVE  DueHasEnded'
  <2>1. /\ due' = due /\ job' = job /\ pc' = [pc EXCEPT ![w] = "running"]
        /\ runs' = [runs EXCEPT ![w] = runs[w] + 1] /\ model' = [model EXCEPT ![w] = k]
    BY <1>1 DEF StartRun
  <2>2. \A v \in Workers : runs'[v] \in Nat /\ runs'[v] >= runs[v] /\ (v = w => runs'[v] > runs[v])
    BY <1>0, <2>1 DEF TypeOK
  <2>3. \A run \in due : run.job.identified /\ run.number <= runs[run.worker]
    BY DEF DueHasEnded
  <2>4. \A run \in due' : run.job.identified /\ run.number <= runs'[run.worker]
    BY <1>0, <2>1, <2>2, <2>3
  <2>5. ASSUME NEW v \in Workers, pc'[v] = "running", NEW run \in due', run.worker = v
        PROVE  run.number < runs'[v]
    <3>1. CASE v = w
      BY <1>0, <2>1, <2>2, <2>3, <2>5, <3>1
    <3>2. CASE v # w
      <4>1. pc[v] = "running" /\ runs'[v] = runs[v]
        BY <2>1, <2>5, <3>2 DEF TypeOK
      <4> QED BY <2>1, <2>5, <4>1 DEF DueHasEnded
    <3> QED BY <3>1, <3>2
  <2>6. ASSUME NEW v \in Workers, pc'[v] = "ending", job'[v].identified
        PROVE  CurrentRun(v)' \in due'
    <3>1. v # w /\ pc[v] = "ending" /\ runs'[v] = runs[v] /\ model'[v] = model[v]
      BY <2>1, <2>6 DEF TypeOK
    <3>2. CurrentRun(v)' = CurrentRun(v)
      BY <2>1, <3>1 DEF CurrentRun
    <3> QED BY <2>1, <2>6, <3>1, <3>2 DEF DueHasEnded
  <2> QED BY <2>4, <2>5, <2>6 DEF DueHasEnded
<1>2. ASSUME NEW w \in Workers, NEW inp \in 0..1, NEW out \in 0..1, OnLlmEnd(w, inp, out)
      PROVE  DueHasEnded'
  <2>1. /\ pc[w] = "running" /\ UNCHANGED <<job, model, runs>>
        /\ pc' = [pc EXCEPT ![w] = IF Counts(inp, out) THEN "ending" ELSE "answered"]
        /\ due' = IF inp + out > 0 /\ job[w].identified THEN due \cup {CurrentRun(w)} ELSE due
    BY <1>2 DEF OnLlmEnd
  <2>2. CurrentRun(w).worker = w /\ CurrentRun(w).number = runs[w] /\ CurrentRun(w).job = job[w]
    BY DEF CurrentRun
  <2>3. \A run \in due' : run.job.identified /\ run.number <= runs'[run.worker]
    BY <1>0, <2>1, <2>2 DEF DueHasEnded
  <2>4. ASSUME NEW v \in Workers, pc'[v] = "running", NEW run \in due', run.worker = v
        PROVE  run.number < runs'[v]
    <3>1. v # w /\ pc[v] = "running"
      BY <2>1, <2>4 DEF TypeOK
    <3>2. run \in due
      BY <2>1, <2>2, <2>4, <3>1
    <3> QED BY <2>1, <2>4, <3>1, <3>2 DEF DueHasEnded
  <2>5. ASSUME NEW v \in Workers, pc'[v] = "ending", job'[v].identified
        PROVE  CurrentRun(v)' \in due'
    <3>1. CurrentRun(v)' = CurrentRun(v)
      BY <2>1 DEF CurrentRun
    <3>2. CASE v = w
      <4>1. Counts(inp, out)
        BY <2>1, <2>5, <3>2 DEF TypeOK
      <4>2. inp + out > 0
        BY <4>1 DEF Counts
      <4> QED BY <2>1, <2>5, <3>1, <3>2, <4>2
    <3>3. CASE v # w
      <4>1. pc[v] = "ending" /\ job[v].identified
        BY <2>1, <2>5, <3>3 DEF TypeOK
      <4> QED BY <2>1, <3>1, <4>1 DEF DueHasEnded
    <3> QED BY <3>2, <3>3
  <2> QED BY <2>3, <2>4, <2>5 DEF DueHasEnded
<1>3. ASSUME UNCHANGED <<due, runs>>,
             \A v \in Workers : pc'[v] \in {"running", "ending"} =>
                pc'[v] = pc[v] /\ job'[v] = job[v] /\ model'[v] = model[v]
      PROVE  DueHasEnded'
  <2>1. \A v \in Workers : pc'[v] \in {"running", "ending"} => CurrentRun(v)' = CurrentRun(v)
    BY <1>3 DEF CurrentRun
  <2> QED BY <1>3, <2>1 DEF DueHasEnded
<1>4. ASSUME NEW w \in Workers, WorkerStep(w)
      PROVE  DueHasEnded'
  <2>1. CASE Call(w)
    BY <1>1, <2>1, Bounds DEF Call
  <2>2. CASE NextModel(w)
    <3>1. model[w] + 1 \in 1..Models
      BY <2>2, Bounds DEF NextModel, FallsBack, TypeOK
    <3> QED BY <1>1, <2>2, <3>1 DEF NextModel
  <2>3. CASE \E inp, out \in 0..1 : OnLlmEnd(w, inp, out)
    BY <1>2, <2>3
  <2>4. CASE \/ \E j \in Jobs : EnterNode(w, j)
             \/ LeaveNode(w) \/ CallRaises(w) \/ Answered(w)
             \/ OnLlmError(w) \/ Enqueue(w) \/ EmitRaises(w)
    <3>1. /\ UNCHANGED <<due, runs>> /\ pc'[w] \notin {"running", "ending"}
          /\ \A v \in Workers \ {w} : pc'[v] = pc[v] /\ job'[v] = job[v] /\ model'[v] = model[v]
      BY <2>4 DEF EnterNode, LeaveNode, CallRaises, Answered, OnLlmError, Enqueue, EmitRaises, TypeOK
    <3> QED BY <1>3, <3>1
  <2>5. CASE FirstChunk(w)
    BY <1>3, <2>5 DEF FirstChunk
  <2> QED BY <1>4, <2>1, <2>2, <2>3, <2>4, <2>5 DEF WorkerStep
<1>5. ASSUME Take \/ WriteRow \/ InsertFails \/ UNCHANGED vars
      PROVE  DueHasEnded'
  BY <1>3, <1>5 DEF Take, WriteRow, InsertFails, vars, worker_vars
<1>6. ASSUME Stop
      PROVE  DueHasEnded'
  BY <1>3, <1>6 DEF Stop
<1> QED BY <1>4, <1>5, <1>6 DEF Next

-----------------------------------------------------------------------------
\* The queue holds each run once.
OncePerRun(q) == \A i, k \in 1..Len(q) : q[i].run = q[k].run => i = k

\* A record is appended.
LEMMA AppendQueued ==
  ASSUME TypeOK, NEW row \in Row, queue' = Append(queue, row)
  PROVE  /\ Queued' = Queued \cup {row}
         /\ OncePerRun(queue) /\ row.run \notin RunsOf(Queued) => OncePerRun(queue')
<1>1. queue \in Seq(Row) /\ Len(queue) \in Nat
  BY LenProperties DEF TypeOK
<1>2. /\ Len(queue') = Len(queue) + 1 /\ queue'[Len(queue) + 1] = row
      /\ \A i \in 1..Len(queue) : queue'[i] = queue[i]
  BY <1>1, AppendProperties
<1>3. 1..Len(queue') = 1..Len(queue) \cup {Len(queue) + 1}
  BY <1>1, <1>2
<1>4. Queued' = Queued \cup {row}
  BY <1>2, <1>3 DEF Queued
<1>5. ASSUME OncePerRun(queue), row.run \notin RunsOf(Queued)
      PROVE  OncePerRun(queue')
  <2>1. \A i \in 1..Len(queue) : queue'[i].run # row.run
    BY <1>2, <1>5 DEF RunsOf, Queued
  <2> QED BY <1>1, <1>2, <1>3, <1>5, <2>1 DEF OncePerRun
<1> QED BY <1>4, <1>5

\* The first is taken.
LEMMA TailQueued ==
  ASSUME TypeOK, queue # <<>>, queue' = Tail(queue)
  PROVE  /\ Head(queue) \in Row
         /\ Queued = Queued' \cup {Head(queue)}
         /\ OncePerRun(queue) => OncePerRun(queue') /\ Head(queue).run \notin RunsOf(Queued')
<1>1. queue \in Seq(Row) /\ Len(queue) \in Nat \ {0}
  BY EmptySeq DEF TypeOK
<1>2. /\ Head(queue) \in Row /\ Head(queue) = queue[1] /\ Len(queue') = Len(queue) - 1
      /\ \A i \in 1..Len(queue') : queue'[i] = queue[i + 1]
  BY <1>1, HeadTailProperties
<1>3. Queued \subseteq Queued' \cup {Head(queue)}
  <2>1. ASSUME NEW i \in 1..Len(queue), i # 1
        PROVE  queue[i] \in Queued'
    <3>1. i - 1 \in 1..Len(queue') /\ queue'[i - 1] = queue[i]
      BY <1>1, <1>2, <2>1
    <3> QED BY <3>1 DEF Queued
  <2> QED BY <1>1, <1>2, <2>1 DEF Queued
<1>4. Queued' \cup {Head(queue)} \subseteq Queued
  <2>1. \A i \in 1..Len(queue') : i + 1 \in 1..Len(queue)
    BY <1>1, <1>2
  <2>2. 1 \in 1..Len(queue)
    BY <1>1
  <2> QED BY <1>2, <2>1, <2>2 DEF Queued
<1>5. ASSUME OncePerRun(queue)
      PROVE  OncePerRun(queue') /\ Head(queue).run \notin RunsOf(Queued')
  <2>1. \A i \in 1..Len(queue') : i + 1 \in 1..Len(queue) /\ i + 1 # 1 /\ 1 \in 1..Len(queue)
    BY <1>1, <1>2
  <2>2. OncePerRun(queue')
    <3>1. ASSUME NEW i \in 1..Len(queue'), NEW k \in 1..Len(queue'), queue'[i].run = queue'[k].run
          PROVE  i = k
      <4>1. i + 1 = k + 1
        BY <1>2, <1>5, <2>1, <3>1 DEF OncePerRun
      <4> QED BY <4>1
    <3> QED BY <3>1 DEF OncePerRun
  <2>3. \A i \in 1..Len(queue') : queue'[i].run # Head(queue).run
    BY <1>2, <1>5, <2>1 DEF OncePerRun
  <2> QED BY <2>2, <2>3 DEF RunsOf, Queued
<1> QED BY <1>2, <1>3, <1>4, <1>5

\* Whether the context is set tells whether the turn is identified.
LEMMA ContextIdentifies ==
  ASSUME TypeOK, ContextKept, NEW w \in Workers, pc[w] = "ending"
  PROVE  /\ turn_ctx[w] # NoTurn <=> job[w].identified
         /\ turn_ctx[w] # NoTurn => turn_ctx[w] = job[w].turn
<1>1. job[w] \in Jobs /\ turn_ctx[w] = ContextAtEntry(job[w])
  BY DEF TypeOK, ContextKept
<1>2. job[w].turn \in Turns /\ job[w].identified \in BOOLEAN
  BY <1>1, JobType
<1>3. NoTurn \notin Turns
  BY Zenon, UsageAssumption
<1>4. job[w].turn # NoTurn
  BY <1>2, <1>3
<1> QED BY <1>1, <1>2, <1>4 DEF ContextAtEntry

\* Every row is billed to the turn, the node and the strategy of its run.
LEMMA NextBilledToItsTurn ==
  TypeOK /\ ContextKept /\ BilledToItsTurn /\ [Next]_vars => BilledToItsTurn'
<1> SUFFICES ASSUME TypeOK, ContextKept, BilledToItsTurn, [Next]_vars PROVE BilledToItsTurn'
  OBVIOUS
<1>1. ASSUME rows' \cup hand' \cup Queued' \subseteq rows \cup hand \cup Queued
      PROVE  BilledToItsTurn'
  BY <1>1 DEF BilledToItsTurn
<1>2. ASSUME NEW w \in Workers, Enqueue(w), turn_ctx[w] # NoTurn
      PROVE  BilledToItsTurn'
  <2> DEFINE row == [run |-> CurrentRun(w), turn |-> turn_ctx[w],
                     node |-> NodeFromMeta(held[w]), strategy |-> held[w].strategy]
  <2>1. pc[w] = "ending" /\ rows' = rows /\ hand' = hand /\ queue' = Append(queue, row)
    BY <1>2 DEF Enqueue
  <2>2. job[w] \in Jobs /\ held[w] = Tags(job[w]) /\ held[w] \in Metadata
    BY <2>1 DEF TypeOK, ContextKept
  <2>3. CurrentRun(w) \in Run /\ row.run.job = job[w]
    BY <2>1, CurrentRunType DEF CurrentRun
  <2>4. turn_ctx[w] = job[w].turn /\ turn_ctx[w] \in Turns
    BY <1>2, <2>1, ContextIdentifies DEF TypeOK
  <2>5. row.node = job[w].path[Len(job[w].path)] /\ row.strategy = job[w].strategy
    BY <2>2, TagsType
  <2>6. row \in Row
    BY <2>2, <2>3, <2>4, NodeFromMetaType DEF Row, Metadata
  <2>7. Queued' = Queued \cup {row}
    BY <2>1, <2>6, AppendQueued
  <2> QED BY <2>1, <2>3, <2>4, <2>5, <2>7 DEF BilledToItsTurn
<1>3. ASSUME UNCHANGED <<rows, hand, queue>>
      PROVE  BilledToItsTurn'
  BY <1>1, <1>3 DEF Queued
<1>4. ASSUME NEW w \in Workers, WorkerStep(w)
      PROVE  BilledToItsTurn'
  <2>1. CASE Enqueue(w) /\ turn_ctx[w] = NoTurn
    BY <1>3, <2>1 DEF Enqueue
  <2>2. CASE ~Enqueue(w)
    BY <1>3, <1>4, <2>2 DEF WorkerStep, EnterNode, LeaveNode, Call, NextModel, StartRun, CallRaises,
       FirstChunk, OnLlmError, OnLlmEnd, EmitRaises, Answered
  <2> QED BY <1>2, <2>1, <2>2
<1>5. ASSUME Take
      PROVE  BilledToItsTurn'
  BY <1>1, <1>5, TailQueued DEF Take
<1>6. ASSUME WriteRow \/ InsertFails \/ UNCHANGED vars
      PROVE  BilledToItsTurn'
  BY <1>1, <1>6 DEF WriteRow, InsertFails, vars, Queued
<1>7. ASSUME Stop
      PROVE  BilledToItsTurn'
  <2>1. queue' = <<>> /\ hand' = {} /\ rows' \subseteq rows \cup hand
    BY <1>7 DEF Stop
  <2>2. Queued' = {}
    BY <2>1 DEF Queued
  <2> QED BY <1>1, <2>1, <2>2
<1> QED BY <1>4, <1>5, <1>6, <1>7 DEF Next

-----------------------------------------------------------------------------
\* Of the runs that are due, each is in one place.
Accounts(d, written, taken, queued, gone, ending) ==
  /\ d = written \cup taken \cup queued \cup gone \cup (ending \cap d)
  /\ gone \cap (written \cup taken \cup queued \cup ending) = {}
  /\ written \cap (taken \cup queued \cup ending) = {}
  /\ taken \cap (queued \cup ending) = {}
  /\ queued \cap ending = {}

\* A run goes from the queue to the consumer.
LEMMA RunTaken ==
  ASSUME NEW d, NEW written, NEW queued, NEW gone, NEW ending, NEW run, run \notin queued,
         Accounts(d, written, {}, queued \cup {run}, gone, ending)
  PROVE  Accounts(d, written, {run}, queued, gone, ending)
BY DEF Accounts

LEMMA AccountedDef ==
  UsageAccounted <=> /\ Accounts(due, RunsOf(rows), RunsOf(hand), RunsOf(Queued), lost, Ending)
                     /\ OncePerRun(queue)
BY DEF UsageAccounted, Accounts, OncePerRun

\* The same, of the next state.
LEMMA AccountedNext ==
  ASSUME Accounts(due', RunsOf(rows'), RunsOf(hand'), RunsOf(Queued'), lost', Ending'),
         OncePerRun(queue')
  PROVE  UsageAccounted'
BY DEF UsageAccounted, Accounts, OncePerRun, RunsOf

LEMMA RunsOfParts ==
  ASSUME NEW p, NEW q, NEW row
  PROVE  /\ RunsOf(p \cup q) = RunsOf(p) \cup RunsOf(q)
         /\ RunsOf({row}) = {row.run} /\ RunsOf({}) = {}
         /\ p \subseteq q => RunsOf(p) \subseteq RunsOf(q)
BY DEF RunsOf

\* A run that ends is due, if it is, and in no other place.
LEMMA EndAccounts ==
  ASSUME TypeOK, DueHasEnded, UsageAccounted,
         NEW w \in Workers, NEW inp \in 0..1, NEW out \in 0..1, OnLlmEnd(w, inp, out)
  PROVE  UsageAccounted'
<1>1. /\ pc[w] = "running" /\ UNCHANGED <<job, model, runs, queue, hand, rows, lost>>
      /\ pc' = [pc EXCEPT ![w] = IF Counts(inp, out) THEN "ending" ELSE "answered"]
      /\ due' = IF inp + out > 0 /\ job[w].identified THEN due \cup {CurrentRun(w)} ELSE due
  BY DEF OnLlmEnd
<1>2. Queued' = Queued
  BY <1>1 DEF Queued
<1>3. CurrentRun(w) \notin due
  BY <1>1, Bounds DEF DueHasEnded, CurrentRun, TypeOK
<1>4. Ending' = IF Counts(inp, out) THEN Ending \cup {CurrentRun(w)} ELSE Ending
  BY <1>1, StoppedRunning
<1>5. Counts(inp, out) <=> inp + out > 0
  BY DEF Counts
<1>6. \/ due' = due /\ Ending' = Ending
      \/ due' = due /\ Ending' = Ending \cup {CurrentRun(w)}
      \/ due' = due \cup {CurrentRun(w)} /\ Ending' = Ending \cup {CurrentRun(w)}
  BY <1>1, <1>4, <1>5
<1>7. CurrentRun(w) \notin Ending
  BY <1>1 DEF Ending, CurrentRun
<1>8. Accounts(due', RunsOf(rows), RunsOf(hand), RunsOf(Queued), lost, Ending')
  BY <1>3, <1>6, <1>7, AccountedDef DEF Accounts
<1> QED BY <1>1, <1>2, <1>8, AccountedDef, AccountedNext

\* Whatever becomes of a callback, the run is queued or given up if it is due.
LEMMA CallbackAccounts ==
  ASSUME TypeOK, ContextKept, DueHasEnded, UsageAccounted,
         NEW w \in Workers, Enqueue(w) \/ EmitRaises(w)
  PROVE  UsageAccounted'
<1> DEFINE run == CurrentRun(w)
<1> DEFINE row == [run |-> run, turn |-> turn_ctx[w],
                   node |-> NodeFromMeta(held[w]), strategy |-> held[w].strategy]
<1>1. pc[w] = "ending" /\ UNCHANGED <<job, model, runs, hand, rows, due>>
      /\ pc' = [pc EXCEPT ![w] = "answered"]
  BY DEF Enqueue, EmitRaises
<1>2. run \in Ending /\ Ending' = Ending \ {run}
  BY <1>1, StoppedEnding
<1>3. run \in due <=> job[w].identified
  BY <1>1 DEF DueHasEnded, CurrentRun
<1>4. ASSUME queue' = queue, lost' = lost \cup ({run} \cap due)
      PROVE  UsageAccounted'
  <2>1. Queued' = Queued
    BY <1>4 DEF Queued
  <2>2. Accounts(due, RunsOf(rows), RunsOf(hand), RunsOf(Queued), lost', Ending')
    BY <1>2, <1>4, AccountedDef DEF Accounts
  <2> QED BY <1>1, <1>4, <2>1, <2>2, AccountedDef, AccountedNext
<1>5. ASSUME queue' = Append(queue, row), lost' = lost, turn_ctx[w] # NoTurn
      PROVE  UsageAccounted'
  <2>1. run \in due
    BY <1>1, <1>3, <1>5, ContextIdentifies
  <2>2. row \in Row
    <3>1. run \in Run /\ turn_ctx[w] \in Turns /\ held[w] \in Metadata
      BY <1>1, <1>5, CurrentRunType DEF TypeOK
    <3> QED BY <3>1, NodeFromMetaType DEF Row, Metadata
  <2>3. Queued' = Queued \cup {row} /\ (run \notin RunsOf(Queued) => OncePerRun(queue'))
    BY <1>5, <2>2, AppendQueued, AccountedDef
  <2>4. RunsOf(Queued') = RunsOf(Queued) \cup {run}
    <3>1. row.run = run
      OBVIOUS
    <3> HIDE DEF row
    <3> QED BY <2>3, <3>1 DEF RunsOf
  <2>5. run \notin RunsOf(Queued)
    BY <1>2, AccountedDef DEF Accounts
  <2>6. Accounts(due, RunsOf(rows), RunsOf(hand), RunsOf(Queued'), lost, Ending')
    BY <1>2, <2>1, <2>4, AccountedDef DEF Accounts
  <2> QED BY <1>1, <1>5, <2>3, <2>5, <2>6, AccountedNext
<1>6. CASE Enqueue(w) /\ turn_ctx[w] = NoTurn
  <2>1. run \notin due
    BY <1>1, <1>3, <1>6, ContextIdentifies
  <2> QED BY <1>4, <1>6, <2>1 DEF Enqueue
<1>7. CASE Enqueue(w) /\ turn_ctx[w] # NoTurn
  BY <1>5, <1>7 DEF Enqueue
<1>8. CASE EmitRaises(w)
  BY <1>4, <1>8 DEF EmitRaises
<1> QED BY <1>6, <1>7, <1>8

\* The consumer moves a record on.
LEMMA ConsumerAccounts ==
  ASSUME TypeOK, UsageAccounted, Take \/ WriteRow \/ InsertFails
  PROVE  UsageAccounted'
<1>1. Ending' = Ending /\ due' = due
  BY NoWorkerSteps DEF Take, WriteRow, InsertFails
<1>2. CASE Take
  <2>1. hand = {} /\ hand' = {Head(queue)} /\ queue # <<>> /\ queue' = Tail(queue) /\ rows' = rows /\ lost' = lost
    BY <1>2 DEF Take
  <2>2. /\ Queued = Queued' \cup {Head(queue)} /\ OncePerRun(queue')
        /\ Head(queue).run \notin RunsOf(Queued')
    BY <2>1, TailQueued, AccountedDef
  <2>3. RunsOf(Queued) = RunsOf(Queued') \cup {Head(queue).run}
    BY <2>2, RunsOfParts
  <2>4. RunsOf(hand) = {} /\ RunsOf(hand') = {Head(queue).run}
    BY <2>1, RunsOfParts
  <2>5. Accounts(due, RunsOf(rows), RunsOf(hand'), RunsOf(Queued'), lost, Ending)
    BY <2>2, <2>3, <2>4, AccountedDef, RunTaken
  <2> QED BY <1>1, <2>1, <2>2, <2>5, AccountedNext
<1>3. CASE WriteRow
  <2>1. rows' = rows \cup hand /\ hand' = {} /\ queue' = queue /\ lost' = lost
    BY <1>3 DEF WriteRow
  <2>2. RunsOf(rows') = RunsOf(rows) \cup RunsOf(hand) /\ RunsOf(hand') = {} /\ Queued' = Queued
    BY <2>1 DEF RunsOf, Queued
  <2>3. Accounts(due, RunsOf(rows'), RunsOf(hand'), RunsOf(Queued), lost, Ending)
    BY <2>2, AccountedDef DEF Accounts
  <2> QED BY <1>1, <2>1, <2>2, <2>3, AccountedDef, AccountedNext
<1>4. CASE InsertFails
  <2>1. rows' = rows /\ hand' = {} /\ queue' = queue /\ lost' = lost \cup RunsOf(hand)
    BY <1>4 DEF InsertFails, RunsOf
  <2>2. RunsOf(hand') = {} /\ Queued' = Queued
    BY <2>1 DEF RunsOf, Queued
  <2>3. Accounts(due, RunsOf(rows), RunsOf(hand'), RunsOf(Queued), lost', Ending)
    BY <2>1, <2>2, AccountedDef DEF Accounts
  <2> QED BY <1>1, <2>1, <2>2, <2>3, AccountedDef, AccountedNext
<1> QED BY <1>2, <1>3, <1>4

\* When the process stops, what is not in a row is lost.
LEMMA StopAccounts ==
  ASSUME TypeOK, UsageAccounted, Stop
  PROVE  /\ UsageAccounted'
         /\ RunsOf(rows) \subseteq RunsOf(rows') /\ RunsOf(rows') \subseteq RunsOf(rows) \cup RunsOf(hand)
         /\ lost \subseteq lost'
<1>1. /\ queue' = <<>> /\ hand' = {} /\ (rows' = rows \/ rows' = rows \cup hand) /\ due' = due
      /\ lost' = due \ RunsOf(rows') /\ pc' = [v \in Workers |-> "idle"]
  BY DEF Stop, RunsOf
<1>2. Queued' = {} /\ Ending' = {} /\ OncePerRun(queue')
  BY <1>1 DEF Queued, Ending, OncePerRun
<1>3. RunsOf(hand') = {} /\ RunsOf(Queued') = {}
      /\ (RunsOf(rows') = RunsOf(rows) \/ RunsOf(rows') = RunsOf(rows) \cup RunsOf(hand))
  BY <1>1, <1>2, RunsOfParts
<1>4. Accounts(due', RunsOf(rows'), RunsOf(hand'), RunsOf(Queued'), lost', Ending')
  BY <1>1, <1>2, <1>3, AccountedDef DEF Accounts
<1>5. lost \subseteq lost'
  BY <1>1, <1>3, AccountedDef DEF Accounts
<1> QED BY <1>2, <1>3, <1>4, <1>5, AccountedNext

\* The other steps do not touch the accounts.
LEMMA OtherAccounts ==
  ASSUME TypeOK, RunsLeft, UsageAccounted,
         \/ \E w \in Workers : \/ \E j \in Jobs : EnterNode(w, j)
                               \/ LeaveNode(w) \/ Call(w) \/ NextModel(w) \/ CallRaises(w)
                               \/ FirstChunk(w) \/ OnLlmError(w) \/ Answered(w)
         \/ UNCHANGED vars
  PROVE  UsageAccounted' /\ UNCHANGED <<rows, due, lost>>
<1>1. ASSUME Ending' = Ending, UNCHANGED <<queue, hand, rows, due, lost>>
      PROVE  UsageAccounted'
  <2>1. Queued' = Queued
    BY <1>1 DEF Queued
  <2> QED BY <1>1, <2>1, AccountedDef, AccountedNext
<1>2. CASE UNCHANGED vars
  BY <1>1, <1>2, NoWorkerSteps DEF vars
<1>3. ASSUME NEW w \in Workers, Call(w) \/ NextModel(w)
      PROVE  Ending' = Ending /\ UNCHANGED <<queue, hand, rows, due, lost>>
  <2>1. PICK k \in 1..Models : StartRun(w, k)
    <3>1. CASE Call(w)
      BY <3>1, Bounds DEF Call
    <3>2. CASE NextModel(w)
      <4>1. model[w] + 1 \in 1..Models
        BY <3>2, Bounds DEF NextModel, FallsBack, TypeOK
      <4> QED BY <3>2, <4>1 DEF NextModel
    <3> QED BY <1>3, <3>1, <3>2
  <2>2. pc[w] \notin {"running", "ending"}
    BY <1>3 DEF Call, NextModel
  <2> QED BY <2>1, <2>2, StartedRunning DEF StartRun
<1>4. ASSUME NEW w \in Workers, OnLlmError(w)
      PROVE  Ending' = Ending /\ UNCHANGED <<queue, hand, rows, due, lost>>
  BY <1>4, StoppedRunning DEF OnLlmError
<1> QED BY <1>1, <1>2, <1>3, <1>4, OtherWorkerSteps

LEMMA NextUsageAccounted ==
  TypeOK /\ RunsLeft /\ ContextKept /\ DueHasEnded /\ UsageAccounted /\ [Next]_vars => UsageAccounted'
<1> SUFFICES ASSUME TypeOK, RunsLeft, ContextKept, DueHasEnded, UsageAccounted, [Next]_vars
             PROVE  UsageAccounted'
  OBVIOUS
<1>1. ASSUME NEW w \in Workers, WorkerStep(w)
      PROVE  UsageAccounted'
  BY <1>1, EndAccounts, CallbackAccounts, OtherAccounts DEF WorkerStep
<1> QED BY <1>1, ConsumerAccounts, StopAccounts, OtherAccounts DEF Next

-----------------------------------------------------------------------------
LEMMA NextIInv == IInv /\ [Next]_vars => IInv'
BY NextTypeOK, NextRunsLeft, NextContextKept, NextDueHasEnded, NextOnlyLastSpoke,
   NextBufferHoldsRunning, NextBilledToItsTurn, NextUsageAccounted DEF IInv

(***************************************************************************)
(* The inductive invariant holds.                                          *)
(***************************************************************************)
THEOREM Inductive == Spec => []IInv
<1> QED BY InitIInv, NextIInv, PTL DEF Spec

(***************************************************************************)
(* The state of the handler, the workers and the consumer is well formed.  *)
(***************************************************************************)
THEOREM TypeCorrect == Spec => []TypeOK
<1>1. IInv => TypeOK
  BY DEF IInv
<1> QED BY <1>1, Inductive, PTL

(***************************************************************************)
(* Whatever ran at the same time, a row is billed to the turn, the node    *)
(* and the strategy of the run that used the tokens.                       *)
(***************************************************************************)
THEOREM Billing == Spec => []BilledToItsTurn
<1>1. IInv => BilledToItsTurn
  BY DEF IInv
<1> QED BY <1>1, Inductive, PTL

(***************************************************************************)
(* The buffer holds exactly the runs in progress, with their metadata.     *)
(***************************************************************************)
THEOREM BufferIsBounded == Spec => []BufferHoldsRunning
<1>1. IInv => BufferHoldsRunning
  BY DEF IInv
<1> QED BY <1>1, Inductive, PTL

(***************************************************************************)
(* The usage of an answer in an identified turn is accounted for, once.    *)
(***************************************************************************)
THEOREM Accounting == Spec => []UsageAccounted
<1>1. IInv => UsageAccounted
  BY DEF IInv
<1> QED BY <1>1, Inductive, PTL

(***************************************************************************)
(* Of the models that one call tries, at most one has its chunks passed    *)
(* on.                                                                     *)
(***************************************************************************)
THEOREM OneVoice == Spec => []OneVoicePerReply
<1>1. IInv => OneVoicePerReply
  BY DEF IInv, OnlyLastSpoke, OneVoicePerReply
<1> QED BY <1>1, Inductive, PTL

-----------------------------------------------------------------------------
\* Every step of the accounting is one of the ledger, or none.
LEMMA LedgerStep == IInv /\ [Next]_vars => [Ledger!Next]_(Ledger!vars)
<1> SUFFICES ASSUME IInv, [Next]_vars, ~UNCHANGED Ledger!vars
             PROVE  Ledger!Next
  OBVIOUS
<1> USE DEF IInv
<1> DEFINE owed == due \ (RunsOf(rows) \cup lost)
<1>1. Accounts(due, RunsOf(rows), RunsOf(hand), RunsOf(Queued), lost, Ending)
  BY AccountedDef
<1>2. ASSUME UNCHANGED <<rows, due, lost>>
      PROVE  FALSE
  BY <1>2 DEF Ledger!vars, RunsOf
<1>3. ASSUME NEW w \in Workers, NEW inp \in 0..1, NEW out \in 0..1, OnLlmEnd(w, inp, out)
      PROVE  Ledger!Answer
  <2>1. due' = due \cup {CurrentRun(w)} /\ rows' = rows /\ lost' = lost
    BY <1>2, <1>3 DEF OnLlmEnd
  <2>2. CurrentRun(w) \notin due
    BY <1>3, Bounds DEF OnLlmEnd, DueHasEnded, CurrentRun, TypeOK
  <2>3. RunsOf(rows') = RunsOf(rows) /\ RunsOf(rows) \subseteq due /\ lost \subseteq due
    BY <1>1, <2>1 DEF Accounts
  <2>4. owed' = owed \cup {CurrentRun(w)}
    BY <2>1, <2>2, <2>3
  <2> HIDE DEF owed
  <2>5. CurrentRun(w) \in owed' \ (owed \cup RunsOf(rows) \cup lost)
    BY <2>1, <2>2, <2>3 DEF owed
  <2>6. \E run \in owed' \ (owed \cup RunsOf(rows) \cup lost) : owed' = owed \cup {run}
    BY <2>4, <2>5
  <2> QED BY <2>1, <2>3, <2>6 DEF Ledger!Answer, owed
<1>4. ASSUME NEW run, run \in due, run \notin RunsOf(rows) \cup lost,
             due' = due, rows' = rows, lost' = lost \cup {run}
      PROVE  Ledger!Settle
  <2>1. RunsOf(rows') = RunsOf(rows)
    BY <1>4
  <2> QED BY <1>4, <2>1 DEF Ledger!Settle, Ledger!GiveUp
<1>5. ASSUME NEW w \in Workers, EmitRaises(w)
      PROVE  Ledger!Settle
  <2>1. CurrentRun(w) \in Ending /\ due' = due /\ rows' = rows
    BY <1>5 DEF EmitRaises, Ending
  <2>2. CurrentRun(w) \in due /\ lost' = lost \cup {CurrentRun(w)}
    BY <1>2, <1>5, <2>1 DEF EmitRaises
  <2> QED BY <1>1, <1>4, <2>1, <2>2 DEF Accounts
<1>6. ASSUME WriteRow \/ InsertFails
      PROVE  Ledger!Settle
  <2>1. PICK row \in hand : hand = {row}
    <3>1. hand # {} /\ \A p, q \in hand : p = q
      BY <1>6 DEF WriteRow, InsertFails, TypeOK
    <3> QED BY <3>1
  <2>2. RunsOf(hand) = {row.run}
    BY <2>1, RunsOfParts
  <2>3. row.run \in due \ (RunsOf(rows) \cup lost)
    BY <1>1, <2>2 DEF Accounts
  <2>4. CASE WriteRow
    <3>1. rows' = rows \cup hand /\ due' = due /\ lost' = lost
      BY <2>4 DEF WriteRow
    <3>2. RunsOf(rows') = RunsOf(rows) \cup {row.run}
      BY <2>1, <3>1 DEF RunsOf
    <3> QED BY <2>3, <3>1, <3>2 DEF Ledger!Settle, Ledger!Bill
  <2>5. CASE InsertFails
    <3>1. rows' = rows /\ due' = due /\ lost' = lost \cup {row.run}
      BY <2>2, <2>5 DEF InsertFails, RunsOf
    <3> QED BY <1>4, <2>3, <3>1
  <2> QED BY <1>6, <2>4, <2>5
<1>7. ASSUME Stop
      PROVE  Ledger!Stop
  <2> DEFINE written == RunsOf(rows') \ RunsOf(rows)
  <2>1. /\ due' = due /\ lost' = due \ RunsOf(rows') /\ lost \subseteq lost'
        /\ RunsOf(rows) \subseteq RunsOf(rows') /\ RunsOf(rows') \subseteq RunsOf(rows) \cup RunsOf(hand)
    BY <1>7, StopAccounts DEF Stop, RunsOf
  <2>2. \A p, q \in RunsOf(hand) : p = q
    BY DEF TypeOK, RunsOf
  <2>3. written \in SUBSET owed
    BY <1>1, <2>1 DEF Accounts
  <2>4. \A p, q \in written : p = q
    BY <2>1, <2>2
  <2>5. RunsOf(rows') = RunsOf(rows) \cup written /\ lost' = lost \cup (owed \ written)
    BY <1>1, <2>1 DEF Accounts
  <2>6. due' \ (RunsOf(rows') \cup lost') = {}
    BY <2>1
  <2> QED BY <2>3, <2>4, <2>5, <2>6 DEF Ledger!Stop
<1>8. ASSUME NEW w \in Workers, WorkerStep(w)
      PROVE  Ledger!Next
  <2>1. CASE Enqueue(w)
    BY <1>2, <2>1 DEF Enqueue
  <2> QED BY <1>2, <1>3, <1>5, <1>8, <2>1, OtherAccounts DEF WorkerStep, Ledger!Next
<1>9. CASE UNCHANGED vars
  BY <1>2, <1>9, OtherAccounts
<1>10. CASE Take
  BY <1>2, <1>10 DEF Take
<1> QED BY <1>6, <1>7, <1>8, <1>9, <1>10 DEF Next, Ledger!Next

(***************************************************************************)
(* The accounting keeps the ledger's promise, as far as safety goes: what  *)
(* is owed is billed or given up, never both, and never twice.             *)
(***************************************************************************)
THEOREM ImplementsLedger == Spec => Ledger!Ledger
<1>1. Init => Ledger!Init
  BY DEF Init, Ledger!Init, RunsOf
<1> QED BY <1>1, LedgerStep, Inductive, PTL DEF Spec, Ledger!Ledger
=============================================================================

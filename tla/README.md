# TLA+ models of KubePilot AIOps

KubePilot is a Go server that receives alerts, lets an LLM "Brain" investigate
each incident in an Eino graph, proposes a recovery of a Kubernetes deployment,
waits for an operator's approval, executes the recovery and verifies it. This
directory models the parts of it that decide what happens to an incident, to
the cluster and to what the server learns. All paths below are relative to the
repository root.

## 1. Inventory

### Components, their state and operations

| component | state | operations | models |
|---|---|---|---|
| Incident status machine (`internal/domain/incident.go:1034`) | one status per incident | `CanTransition`, `Transition` | `IncidentStatus` |
| Supervisor recovery graph (`agent/supervisor.go`, `agent/brain_recovery.go`) | `WorkflowState` of one invocation: incident, proposal, Brain budget, plan, pending reflection, termination, recovery execution, verification | `Run`, `Resume`, the graph nodes from `recovery_permission` to `incident_finalizer` | `RecoveryWorkflow` |
| Executor (`agent/recovery.go`, `internal/execution/action_executor.go`) | the Redis action guard, the target deployment | `Prepare`, `DryRun`, `Execute`, `Verify` | `RecoveryWorkflow` |
| IncidentManager (`internal/service/incidents.go`) | the stored row, the checkpoint, the approvals table, and one snapshot per handler or goroutine | `Create`, `IngestAlert`, `Retry`, `MigrateWorkflowAttempt`, `Approve`, `diagnose`, `resumeWorkflow`, `ObserveWorkflowEvent` | `IncidentManager` |
| Incident store (`internal/store/`) | incident, approval, knowledge and benchmark tables | `Create`, `Get`, `Update`, `AppendAlert`, `RecordApproval`, ... | one row of each kind, in the module that uses it |
| Redis store (`internal/store/redis.go`, `eino_checkpoint.go`) | checkpoints, action claims, locks, cursors | get, set, delete, `ClaimAction`, `CompleteAction`, `Lock`, `RefreshLock`, `Unlock` | `RecoveryWorkflow`, `IncidentManager`, `LogIndexer` |
| Brain loop (`agent/brain_graph.go`, `brain_state.go`, `brain_tools.go`, `brain_skills.go`) | turns, phases, tool executions, hypotheses, groundings, beliefs, diagnosis, plan, reflections, the conversation | context builder, model turn, action gateway, tools, classifier, observation, belief and reflection nodes, routers | `BrainLoop`, `MessageHistory`; its interface in `RecoveryWorkflow` |
| Brain runtime (`internal/brainruntime/runtime.go`) | none (pure) | budgets, tool policy, admission, grounding, belief commits, recovery permission | `RecoveryGrounding` computes admission, grounding and permission; `BrainLoop` has the policy, the budgets and the beliefs; `ReflectionCost` is in `RecoveryWorkflow` |
| Baseline runtimes (`agent/baseline_graph.go`, `cognitive_graph.go`, `constrained_agents.go`, `constrained_tools.go`, `middleware.go`, `internal/safety/`) | `WorkflowState` under a lock, agents' budgets, the hypothesis lifecycle, policies | the graph's nodes, the agents' turns and the tools of their batches | `ReActAgents`, `BaselineGraph` |
| Causal candidates and verification (`reasoning/candidates.go`, `engine.go`) | none (pure) | match, annotate, generate, verify | `CausalCandidates` |
| Evidence ranking, state assertions (`reasoning/engine.go`, `assertions.go`) | an incident's evidence and assertions | merge, rank, assert | `EvidenceRounds` |
| Causal learning and discovery (`internal/service/causal_learning.go`, `internal/causal/`, `internal/store/knowledge*.go`) | topology and causal patterns, revisions, support events, candidates, knowledge, vectors | `Learn`, `Engine.Discover`, seeding, `SetCausalPatternStatus`, `RollbackCausalPattern` | `CausalMining`, `KnowledgeEvolution` |
| Benchmark manager (`internal/service/benchmarks.go`) | runs and cancel functions in memory, their rows, child processes | `Start`, `Resume`, `Cancel`, `execute`, restart | `BenchmarkManager` |
| Log indexer (`retrieval/log_indexer.go`, `cmd/log-indexer`) | leader lock, cursor, indexed entries | `Run`, refresh, `IndexOnce` | `LogIndexer` |
| Chat model hot reload (`internal/model/hot_client.go`) | active client, pins by hash, last attempt | `refresh`, `WithSnapshot`, `SnapshotIdentity`, `WithSnapshotHash` | `HotModel` |
| Alert correlation (`internal/service/incidents.go:188`, `correlation.go`) | none of its own | `correlate`, LLM fallback | the merge of an alert, in `IncidentManager` |
| Event hub, collectors, retrieval, world model, topology, signal extraction, telemetry, HTTP API, configuration, benchmark suite, frontend | - | I/O, parsing, scoring | not modelled |

### How they interact

* An HTTP handler reads an incident row, acts on that snapshot and may spawn a
  goroutine (`diagnose`, `resumeWorkflow`), which reads the row again, runs the
  graph for minutes and writes the whole row back (`Store.Update`).
* While the graph runs, every `transition` (`agent/supervisor.go:128`) emits an
  event; `ObserveWorkflowEvent` puts the status, and nothing else, into the row.
  Alerts are merged into the row under a row lock (`AppendAlert`).
* `Supervisor` calls the Brain graph for a fresh incident, and again with a
  pending reflection when a dry run, the action or its verification failed. The
  Brain answers with a termination and perhaps a diagnosis and a plan.
* The approval node interrupts the graph: Eino writes the checkpoint
  `incident:<id>` to Redis and `Run` returns. `Resume` deserialises a private
  copy of it, so concurrent resumes share nothing in memory; they meet in the
  checkpoint, in the approvals table, in the claim of the idempotency key
  (`SETNX`) and in the deployment.
* The Brain shows each model call a bounded tail of the conversation; the
  reasoning engine turns what the tools collected into assertions, candidates
  and verdicts.
* `diagnose` pins the chat model before the graph runs and records its hash;
  `resumeWorkflow` asks for the client of that hash.
* A workflow that ends `RESOLVED` calls `CausalLearner.Learn` in its goroutine.
  What becomes active there is matched against the evidence of later incidents.
* The benchmark manager runs the evaluation as a child process against the
  server; its incidents are marked, and learning must not see them.
* Replicas of the log indexer share a Redis lock and cursor.

### What is hard, and what makes it correct

* **Mutation path**: concurrent resumes, a crash anywhere between claim, write
  and completion, a lost reply, a late apply, the expiry of a claim. Correct
  when a key writes at most once, only what was approved is written, and the
  recorded outcome does not lie.
* **Recovery graph**: cycles bounded by budgets charged at different nodes; a
  second pass of the graph behind a settled status. Correct when every
  invocation ends, `RESOLVED` is earned, and a failure is not recovered twice
  on one approval.
* **Incident row**: snapshots, status events, alerts and restarts that reach
  the row in any order. Correct when the row of an incident nobody works on can
  be acted upon, and no recovery is on it that was not approved.
* **Brain loop**: a model that calls anything, several calls that were all
  authorised on the state before them, evidence that changes under hypotheses,
  diagnosis and plan. Correct when budgets hold and end the loop, what counts as
  supported, validated or planned belongs to the evidence of now, and a failed
  recovery stays owed.
* **Conversation**: bounded, truncated and rewritten in place. Correct when the
  provider is shown every call with its result, and the newest exchange.
* **Baseline agents**: parallel calls over one state, critical sections with
  work between them. Correct when budgets hold, a refutation lasts and the
  recovery is handed off for an accepted, arbitrated diagnosis.
* **Candidates, evidence, assertions**: several algorithms compute the same
  notion over different tables. Correct when they agree.
* **Knowledge**: concurrent learning with a write after another and no
  transaction around them. Correct when what is shown as learned is stored,
  nothing activates itself early, evaluation incidents stay out, and rollback
  has what it needs.
* **Services**: a status in memory, in a row and in a process; a lock that
  expires under its holder; a client replaced while it is in use.

`PROJECT.json` lists the hazards one by one, with the property that covers each
or the reason why none does.

## 2. Modules

| module | role |
|---|---|
| `IncidentStatus` | the transitions table as `Successors`, `CanMove`, `AfterMove` (a discarded error) |
| `ApprovedMutation` | abstract: what the recovery path promises. A key is approved, then at most one write is sent under it, then that write is applied or dropped |
| `RecoveryWorkflow` | detailed: one `Run` and any number of `Resume` invocations through the recovery half of the graph |
| `IncidentManager` | the tasks that read and write one incident row |
| `BrainLoop` | the Brain graph of one incident between two hand-overs to `Supervisor` |
| `RecoveryGrounding` | what stands behind a recovery proposal: evidence, attributions, groundings, diagnosis, plan and permission |
| `MessageHistory` | the conversation and the part of it each model call is shown |
| `ReActAgents`, `BaselineGraph` | the tool-calling agents of the baselines, and the graph around them |
| `CausalCandidates` | candidates from the active patterns, and their verification, over bounded evidence |
| `EvidenceRounds` | merge, ranking and state assertions over rounds of observation |
| `CausalMining`, `KnowledgeEvolution` | path mining as operators, and the tasks and tables of learning |
| `BenchmarkManager`, `LogIndexer`, `HotModel` | the services beside the workflow |
| `RecoveryWorkflow_proofs`, `IncidentManager_proofs`, `BrainLoop_proofs`, `BaselineGraph_proofs`, `Reasoning_proofs`, `KnowledgeEvolution_proofs`, `BenchmarkManager_proofs`, `Services_proofs` | theorems and proofs |
| `MC...` | small instances for TLC |

`RecoveryWorkflow`, `IncidentManager` and `ReActAgents` extend `IncidentStatus`;
`RecoveryWorkflow` instantiates `ApprovedMutation` for the refinement;
`BaselineGraph` extends `ReActAgents`, whose agents it starts and waits for;
`KnowledgeEvolution` extends `CausalMining`; `Services_proofs` extends `LogIndexer`
and `HotModel`, `Reasoning_proofs` extends `CausalCandidates`, `EvidenceRounds`,
`RecoveryGrounding` and `MessageHistory`. `MCServices` and `MCReasoning`
compose parts that share no state: `focus`, chosen once, is the one that moves,
so one run explores each of them alone. In every module, a definition whose name
carries a suffix (`ClaimAction_Overwrites`) is a mutant: a plausible bug that is
not part of the specification and shows that the property it is paired with in
`PROJECT.json` can fail.

### RecoveryWorkflow

`pc[i]` is the graph node an invocation executes next. Calls that leave the
process split a node: the executor is `executor` (validation), `target_state`
(read of uid and version), `claim` (Redis), `mutate` (the write) and `reply`.
`status`, `proposal`, `brain`, `approval`, `mutation` and `verify` are the parts
of the invocation's own `WorkflowState`; `checkpoint`, `claims` and `target` are
what the invocations share.

* The Brain is one step: it spends turns and reflection units, may produce a
  plan, and closes for every reason the loop can (`BrainTurnsExhausted`,
  `BrainReflectionBlocked`, `BrainCloses`) or fails (`BrainFails`). Which
  diagnosis it reached is left open: the permission node grants or denies as it
  likes once there is a plan. `BrainLoop` has the inside of that step.
* `approval[i].matches` says whether the execution context agrees with the
  frozen chain (ids, hashes, namespace, snapshots), the conjunction
  `validateExecutionContext` computes. The expiry is separate, since it can pass
  between the three validations.
* `mutation[i].outcome` is `RecoveryExecution.Outcome`; `mutation[i].request`
  records what became of the write itself. `base` is the version the write is
  conditional on: none for the restart patch, the one read just before for
  scale and rollback.
* A verification round is a sample: healthy or not, and the restart count that
  was read, if any. `verify[i].samples` remembers the last three, to state what
  a verdict was earned with.
* The API server applies or drops a sent write at any later time, other writers
  change or recreate the deployment, a claim expires once nobody works on it,
  and the server process crashes: every running invocation is gone, Redis and
  the cluster stay.

### IncidentManager

A handler and the goroutine it spawns are one task; `pc[t]` says where it is
between two store calls. `in[t]` is the snapshot it read and `state[t]` the
incident its graph works on. `row` is the stored incident, reduced to its
status, attempt, proposal, interrupt, whether the hashes were filled in, and
alerts. The graph moves through the statuses of the recovery graph and fails
anywhere. `Retry` is four steps (read, invalidate, clear and delete the
checkpoint, store and spawn), `Approve` is read, record, then `resumeWorkflow`:
read again, compare the hashes, restore the checkpoint, run, store. An approved
resume whose row has lost its proposal to a `Retry` dereferences nil
(`ResumePanics`), and with that goroutine the process and all its tasks are gone.

`PolicyHash` is what `RuntimeHashesForMethod` returns. The server computes a
hash that is never empty, while no incident carries one, so a resume is always
refused (section 5): the runs named *Liveness* and *RefusedResume*
use that value. It also means that, until it is repaired, the `Resume` half of
`RecoveryWorkflow` is reached through the `Supervisor` API (as in
`agent/checkpoint_resume_e2e_test.go`) and not through `IncidentManager`. The
*Calls* run uses the empty hash to check what the rest of the code does once
the two sides agree.

### BrainLoop and MessageHistory

`node` is the graph node that runs next. A turn is: the termination router, the
context builder (phase and category narrowing, skills), `Model` (any batch of
the tools the node exposes, well-formed or not, or prose), the gateway
(a batch of reads is cut to those that may run in parallel, any batch to what is
left of the budget), the two guards for structure and
arguments (a batch with an invalid call is refused call by call,
`RejectArguments`), `Tools` (all calls authorised and answered on the state as it is),
then `ClassifyResult` once for each result: `runBrain...Tool` and
`applyCapabilityOutput` charge the call and change hypotheses, groundings,
diagnosis, plan and phase. After the batch come `ObservationUpdate`,
`BeliefUpdate`, `BeliefCommit` and the reflection router with its six outcomes.

Evidence is a version number: what counts is whether a hypothesis, a diagnosis
or a plan belongs to the version of now. Known items that are collected again
make a new version too: `StableID` leaves the window out of the id, and
`EvidenceSnapshotHash` covers it. What a tool answers (new evidence, known items,
none; a grounding level, with or without evidence against it; a rejected
admission) is the call's argument; a revision names one parent or several, all of
which it replaces.
`history` is what the tool policy reads of the earlier calls: repeats and calls
without new information. Repeats count per tool and target; targets are not named,
so a call of a tool that has them may be at another one, and at the same one it is
refused like any other (`"denied"`, which also stands for a request the server
finds inconsistent). `scenario` fixes how the loop was entered (fresh,
after a failed dry run, after a failed recovery), the budgets and what the model
may call.

`MessageHistory` follows the messages themselves: the transcript, the units a
request forms with its results, and the cut at six messages and 24 KB; the
gateway, the tools, the guards and the truncation of results each count and
rewrite for themselves.

### RecoveryGrounding

What `BrainLoop` leaves to the call is computed here, for turns of one call. A
step is a tool with the nodes behind it. `held` maps an item to the window it was
last seen in, so `SnapshotOf(held)` is what the hash stands for; `executions`
are the collections with the hypotheses and needs they were bound to. `Admit`
resolves targets to scopes, one of which needs an edge the evidence has drawn.
`ValidateHypothesis` takes the model's attribution, refuses one that leaves out
an item collected for the hypothesis, and computes the level from needs,
coverage, currency and contradictions (`GroundingOf`). `SubmitDiagnosis`,
`ValidateDiagnosis`, `SubmitRecovery` and `Propose` are the way to a proposal,
with the thresholds of `RecoveryAllowed` as integers. Reflections, a spent budget
and the end of the loop come at any time: budgets belong to `BrainLoop`.

### ReActAgents and BaselineGraph

`state` is the baseline's `WorkflowState`. `agent` is whose turn it is, `todo`
the rest of the batches of the agents that run their calls in order, `flight` the
bag of calls the diagnosis agent runs in parallel. A tool is one step, but for
`verify`, which copies the ledger in one critical section and writes in another
(`VerifyReads`, `VerifyWrites`). A verdict is a grade: open, refuted, supported
with missing nodes, too weak for acceptance, or acceptable. Drafts are a sequence
that may name a hypothesis twice, and then so do the verdicts: a map over the
ledger keeps the last of them (`LastOf`), a search finds the first (`FirstOf`). A
call consumes what its turn reserved for its identity, and one with a repeated
identity is charged again (`Admitted`). The model answers with tools it was
offered: the filters of the middleware cut what the provider is sent and do not
refuse an answer outside of it, so this is an assumption about the provider.
`BaselineGraph` adds
`node` and the runtime of the deterministic methods: rounds, pending requests
and policies, arbitration, and why the loop stopped.

### CausalCandidates and EvidenceRounds

Patterns, nodes, items and readings are numbered or named values; the instance
has the eleven patterns of `knowledge/causal_patterns.yaml` in full. A round
collects one item and runs the whole pipeline (`Round`): match, annotate,
generate, verify. Scores are the counts they order by. `EvidenceRounds` gives
items times, replaces an item by a later collection of the same ID, leaves the
ranking open (any order of the items) and follows every assertion through
`ACTIVE` and `CONTRADICTED`.

### KnowledgeEvolution

`Learn` is a task per incident and a step per call to the database: topology
(find, then write), validation, merge, support event, discovery (list, then
four writes per candidate), knowledge row, vector. `Facts` says which gates an
incident passes and what its diagnosis would teach. `Merge` of a pattern runs
in a transaction with a row lock and is one step, as are the operator's calls.
`LearnFails` fails any call, a restart drops all tasks and seeds the pattern
file again. A `List` of patterns fails once the table has a row (section 5).
A topology pattern that cannot be looked up is taken for a new one (`FindTopology`).
A pattern is named by its path, where `PatternID` also hashes cluster, namespace,
action and observations: the incidents of an instance agree on those.
`validCandidate` ends with the validator on the first supporting incident, which
passes whatever `SupportedWell` and `Discoverable` let through.
`History` and `Graphs` go by the position of an incident in the list that was
read. Candidates of one confidence are ordered by `PatternID`, a hash, so
`BestFirst` allows every order of a tie.

### BenchmarkManager, LogIndexer, HotModel

`BenchmarkManager`: an attempt is an accepted call and its goroutine; it
persists, begins, runs one child per command, stores the cases and finishes.
`run` is the status in memory, `row` the one in the database, and a write may
fail (`dirty`). A restart loses memory and kills nothing it does not own.
`LogIndexer`: a replica acquires the lock, its refresher cancels the run when
the lock is no longer its own, `IndexOnce` is a step for its queries, per batch and
per write of the cursor; which entries a full query returns, and in which order
entries of one time are indexed, is open. `HotModel`: the holder of `probeMu` has
a candidate; edits, failing probes, workflows that pin, record and resume, and restarts
come in between.

## 3. Runs

TLC 2 with two workers; all instances are exhaustive.

| run | instance | states | checks |
|---|---|---|---|
| `RecoveryConcurrency` | 2 resumes, 2 keys, 1 crash, 1 foreign change, no reflection | 1.2 M | `AtMostOneMutationPerKey`, `OutcomeIsHonest`, `UnknownIsNotReplayed`, `MutationIsApproved`, `ImplementsLedger` |
| `RecoveryLifecycle` | 1 resume, 2 turns, 3 units (one reflection), up to 4 rounds, restart counts 0..1 | 434 k | `TypeOK`, `ResolvedIsEarned`, `FailedRecoveryIsNotReproposed`, `SettledStatusIsFinal`, `EveryInvocationSettles` |
| `IncidentCalls` | up to 2 retries, 2 approvals, 2 keys and 1 alert, three calls at a time; matching hash | 1.0 M | `QuietIncidentIsSettled` (with the types), `RecoveryIsApproved`, `AlertsKeepWorkflowState` |
| `IncidentLiveness` | 1 retry, 1 approval, 1 alert, 1 fault, the policy hash the server computes | 26 k | `IncidentSettles` |
| `BrainLoop` | eight scenarios, below; deadlock | 3.7 M | `BudgetsHold`, `CallsDoNotFailTheGraph`, `SupportedIsCurrent`, `RecoveryIsEarned`, `ConfidentTerminationIsEarned`, `FailedRecoveryIsOwed` |
| `Baseline` | methods rag, react, rule_only, cognitive, active; 2 hypotheses, 2 sources, 1 proposal, 2 drafts, batches of 2; deadlock | 3.2 M | `BudgetsHold`, `HandoffIsEarned`, `PoliciesAreJudged`, `RefutedStaysRefuted` |
| `Reasoning` | shipped patterns and 10 items; 7 kinds in 3 rounds; 3 items, 2 revisions, 3 collections; 3 turns of conversation | 759 k | `VerificationAgrees`, `AssertionsAdmitNothing`, `ContextIsRepresentative`, `ContradictionIsEarned`, `ProposalIsGrounded`, `HistoryIsFaithful` |
| `Knowledge` | three servers, 9 incidents, 1 operator call, 1 fault | 637 k | `EvaluationStaysOut`, `KnowledgeIsComplete`, `ActivationIsEarned`, `RevisionsAreKept` |
| `Services` | 3 attempts and 2 faults; 2 replicas, 3 entries, 1 fault; 3 configurations, 2 edits, 2 faults | 193 k | `OneExecution`, `RowFollowsRun`, `CursorFollowsIndex`, `StaleLeaderStops`, `ServedModelIsProbed`, `GoodFileIsServed` |
| `RecoveryDoubleApproval`, `IncidentRefusedResume`, `BaselineStaleDryRun` | as above; the last one with 2 proposals | | one statement of the repository each, which the code does not keep |

**Why the bounds are enough.**

* *Mutation path.* The hazards are races of two resumes that use the same key
  or two keys; a third resume adds no new pair. One crash falls at every point
  between the durable writes.
* *Recovery graph.* Two turns and one reflection's worth of units let a failed
  dry run, a failed action and a failed verification each be reflected on and
  run into the exhausted budget. Four rounds let a streak be broken and a window
  of three be completed behind it; two restart counts make a restart visible.
* *Incident row.* Two retries let an old and a new diagnosis overlap, and one
  approval races them; two approvals with two keys are two resumes on one
  checkpoint, beside a retry. `LoadIsBounded` names the calls that come together:
  two of one kind beside one of the other, or two retries or one call of each kind
  beside an alert. What they show holds for every hash and any number
  of calls by the proofs of section 4.
* *Brain loop.* Any tool with any answer for five turns of one call, and for two
  turns of two calls after a failed dry run or recovery; three turns without
  reflection and five tool calls reach the router's other half. The way to a
  validated diagnosis and a plan takes more than ten turns: `Investigation` and
  `Reinvestigation` restrict the model to the calls on that way and let it
  repeat, skip and reorder them; `Collection` collects and retrieves for eight
  turns after a refused dry run, with every answer a collector gives, which is
  enough for the repeats and the calls without information that the tool policy
  refuses. `Reads` sends batches of two reads into a gateway that lets one through.
  Two active hypotheses and one revision meet both limits of the lineage budget.
* *Conversation.* Batches of up to three with at most two parallel reads, results
  of 1, 12 and 25 KB against 6 messages and 24 KB: a unit that fits, two that do
  not, and one result that alone does not.
* *Baselines.* Each agent can use up its iterations, tools and corrections;
  batches of two verify in parallel with each other and with a refutation; two
  drafts are of two hypotheses or twice of one. Three calls of the diagnosis agent
  are a submission, a verification and a diagnosis. Which of two proposals is
  handed over is the question of `BaselineStaleDryRun`; the other run has one.
* *Reasoning.* Every set of the ten collectable items in every order they
  reach the runtime; every pattern with all its nodes. Four context items for
  seven kinds, two of which repeat and two of which share a family. For the
  grounding, two hypotheses and three collections: an item can be collected again
  behind a grounding, by a query for the same hypothesis, for the other one or for
  none. A proposal needs two collections, which leaves one to come at any point.
* *Knowledge.* Three incidents are the activation threshold: three concurrent
  `Learn` calls in an empty table, a mining run behind three earlier incidents
  and an evaluation among them, with one more that shows another path and
  contradicts the first or does not, by its place in the list; and a seeded server.
* *Services.* The third attempt follows a restart and a cancelled one. Three
  entries of two namespaces and batches of one leave work after each write of the
  cursor, and the limit of a query leaves an entry out. Two
  configurations that serve and one that does not, with two edits, replace a
  candidate while its probe is out.

**Deadlock.** `BrainLoop` and `Baseline` check it, with a step of its own for a
graph that has ended. In `BrainLoop` it is part of the argument that every loop
ends: turns are bounded, so are the nodes of a turn, and there is always a next
node until the end. Elsewhere calls, entries, edits and faults are finitely many,
and then an idle server is a correct final state.

**Fairness.** Each invocation's or task's steps are weakly fair: a goroutine
that can run runs. This rests on every call it makes coming back. The
capability carries a timeout (`tools/registry.go:73`, 30 s for the action, see
`internal/execution/action_executor.go:70`), the model client has its own, and
verification has a deadline (`agent/supervisor.go:405`) that is looked at
between rounds; the reads of a round and of a dry run rely on the API server
and the network stack to fail a dead call. In `IncidentManager` a graph also
leaves its statuses for the interrupt, the finalizer or an error; that its
cycles end is what `RecoveryLifecycle` shows. In `LogIndexer` the refresher of a
replica that lost the lock ticks, and a cancelled run stops. In `HotModel` the
poller's ticker refreshes, a probe answers or times out, and `retryEvery`
passes. Operators, the cluster, the clock, edits and faults are not fair.

**Refinement.** `ImplementsLedger` maps `approvals` to the keys of the approving
resumes and `write[k]` to the fates of all writes sent under `k`. A second write
under a key would make that a set of two, which the ledger does not know.

**What properties excuse.** `ConfidentTerminationIsEarned`, the first half of
`RecoveryIsEarned` and the second half of `CallsDoNotFailTheGraph` are about turns
of one call: with several, the code does accept a confident end on evidence the
same turn replaced, and a diagnosis behind the validation of another (section 5).
`CursorFollowsIndex` excuses two leaders at a time, a cursor that could not be
read, entries that share a timestamp and entries that the limit of a later query
leaves out. `ContextIsRepresentative` and
`ContradictionIsEarned` are about rounds with an item from Kubernetes and some
telemetry, without which `RankEvidence` fails. `IncidentSettles` excuses a failed
write, a crash and a panic, as does `QuietIncidentIsSettled`. `OneExecution` excuses
a restart that could not mark its row.

## 4. Proofs

All eight proof modules are checked by TLAPS for every value of the constants
that their assumptions allow.

| module | theorem | says |
|---|---|---|
| `RecoveryWorkflow_proofs` | `TypeCorrect` | `Spec => []TypeOK` |
| | `InvariantCorrect` | `Spec => []IInv` |
| | `OneMutationPerKey` | `Spec => []AtMostOneMutationPerKey` |
| | `HonestOutcome` | `Spec => []OutcomeIsHonest` |
| | `UnknownIsFinal` | `Spec => []UnknownIsNotReplayed` |
| | `NoSecondRecovery` | `Spec => []FailedRecoveryIsNotReproposed` |
| | `VerdictCorrect` | `Spec => []VerdictInv` |
| | `ResolutionIsEarned` | `Spec => []ResolvedIsEarned` |
| | `SettledIsFinal` | `Spec => SettledStatusIsFinal` |
| | `ApprovalCorrect` | `Spec => []ApprovalInv` |
| | `OnlyApprovedMutations` | `Spec => MutationIsApproved` |
| | `LedgerImplemented` | `Spec => ImplementsLedger` |
| `IncidentManager_proofs` | `InvariantCorrect` | `Spec => [](TypeOK /\ IInv)` |
| | `QuietIsSettled` | `Spec => []QuietIncidentIsSettled` |
| | `RecoveriesAreApproved` | `Spec => []RecoveryIsApproved` |
| | `AlertsKeepState` | `Spec => AlertsKeepWorkflowState` |
| `BrainLoop_proofs` | `InvariantCorrect` | `Spec => [](TypeOK /\ IInv)` |
| | `BudgetsKept` | `Spec => []BudgetsHold` |
| | `GraphCompletes` | `Spec => []CallsDoNotFailTheGraph` |
| | `SupportStaysCurrent` | `Spec => []SupportedIsCurrent` |
| | `RecoveryNeedsDiagnosis` | `Spec => []RecoveryIsEarned` |
| | `ConfidenceNeedsDiagnosis` | `Spec => []ConfidentTerminationIsEarned` |
| | `FailureStaysOwed` | `Spec => []FailedRecoveryIsOwed` |
| `BaselineGraph_proofs` | `InvariantCorrect` | `Spec => []IInv` |
| | `BudgetsKept` | `Spec => []BudgetsHold` |
| | `HandoffNeedsDiagnosis` | `Spec => []HandoffIsEarned` |
| | `PoliciesJudged` | `Spec => []PoliciesAreJudged` |
| | `RefutationStays` | `Spec => RefutedStaysRefuted` |
| `Reasoning_proofs` | `ProposalsAreGrounded` | `GroundingSpec => []ProposalIsGrounded` |
| | `AssertionsAreObservations` | `CandidateSpec => []AssertionsAdmitNothing` |
| | `VerificationFollows` | `PatternsAreChains => (CandidateSpec => []VerificationAgrees)` |
| | `ContradictionEarned` | `RoundSpec => []ContradictionIsEarned` |
| | `ContextRepresents` | `MaxItems >= 4 => (RoundSpec => []ContextIsRepresentative)` |
| | `ConversationFaithful` | `HistorySpec => []HistoryIsFaithful` |
| `KnowledgeEvolution_proofs` | `InvariantCorrect` | `Spec => []IInv` |
| | `EvaluationIsKeptOut` | `Spec => []EvaluationStaysOut` |
| | `LearnedIsStored` | `Spec => []KnowledgeIsComplete` |
| | `RevisionsStay` | `Spec => RevisionsAreKept` |
| | `ActivationNeedsIncidents` | `Spec => ActivationIsEarned` |
| `BenchmarkManager_proofs` | `TypeCorrect` | `Spec => []TypeOK` |
| | `Inductive` | `Spec => []IInv` |
| | `OneExecutionHolds` | `Spec => []OneExecution` |
| | `RowFollowsRunHolds` | `Spec => []RowFollowsRun` |
| `Services_proofs` | `CursorFollows` | `IndexerSpec => []CursorFollowsIndex` |
| | `ServedModelIsProbedHolds` | `ModelSpec => []ServedModelIsProbed` |

### Recovery

They hold for every set of calls and keys and every value of the budgets and
bounds, assuming `InvocationAssumption` (the run is not one of the calls),
`BudgetAssumption` and `BoundAssumption` (budgets and bounds are natural
numbers).

**The inductive invariant.** `AtMostOneMutationPerKey` alone is not inductive: a
state in which one resume has written and another stands at `mutate` with the
same key satisfies it and violates it one step later. `IInv` says why there is
no such state:

* `OwnerInv`: a resume that stands at `mutate` or has written *owns* its key.
  A key has one owner, and as long as anybody could still claim the key, its
  claim stands. The second half needs `expired`: the claim outlives the
  proposal, so once it goes every resume that could claim would be refused
  before it gets there.
* `ProgressInv`: what the node says about the status and the execution record.
  It gives `OutcomeIsHonest` (before `mutate` nothing was sent) and lets the
  transitions of the executor succeed, without which an unknown outcome could
  leave the graph as an error.
* `ReflectionInv`: a reflection pending from a failed dry run belongs to a plan
  that was dropped, so it is consumed before a checkpoint is written and cannot
  send the executor's result back to the Brain. This is what makes
  `UnknownIsNotReplayed` hold: the branch behind the executor looks at the
  pending reflection and not at the outcome.
* `ShapeInv`: the run never passes the interrupt and a resume never precedes it.

`TypeStep` has one step per action, `InvCall` and `InvRun` one per action of a
resume and of the run, `InvServer` and `InvEnvironment` those of the surroundings;
the temporal steps combine them.

**The verdict.** `ResolvedIsEarned` looks at the last three samples, the code at a
counter and the last restart count. `StreakOf` relates them: the streak counts
samples at the end of the window, all healthy and none with more restarts than
the one before, and `previous` is the count of the last. `VerdictInv` adds that
nothing was sampled before the verification node and that a streak of three
leaves it. `SettledStatusIsFinal` needs `ProgressInv`: behind a settled status
the graph asks for transitions the table refuses.

**The ledger.** `ApprovalInv` follows a proposal from the run that froze it
through the checkpoint into every resume, and says that a resume behind the
executor node carries a matching approval. With it, the step that sends a write
sends an approved one (`OnlyApprovedMutations`). For the refinement, `OwnerInv`
says that no other resume has a write under the same key, so the set of fates of
that key goes from `{}` to `{"sent"}` and on to one fate (`LedgerWrites`);
`LedgerNext` has one step per action that the ledger can see, all others are
stutters (`WritesStep`, `EnvironmentWrites`, `LedgerStutters`).

### Incident manager

Any retries, approvals, alerts, keys and faults, and any value of the policy hash,
so both the shipped server and the repaired one (`TaskAssumption`: the three
kinds of tasks are distinct; `BoundAssumption`). A status event or an old snapshot
can put almost any status into the row, so the proof does not follow the row but
the tasks: `ProgressInv` says that a row in progress has a task that will still
write its result, `TaskInv` and `WriteInv` that this result is a settled status.
A step that ends such a task writes the row, and the only steps that put an
unsettled status there are taken by tasks that go on (`ProgressInv` of each
action). For `RecoveryIsApproved`, `DecisionInv` says that an approval that was
recorded holds its key alone, and `CopyInv` that no snapshot shows a recovery
before there was one. `AlertsKeepWorkflowState` follows from the actions alone.

### Brain loop

Any set of scenarios whose fields are natural numbers and Booleans and whose entry
is one of the three (`ScenariosAssumption`), and any limits (`LimitsAssumption`):
the batch size, the budgets, the calls exposed and the number of hypotheses are
not bounded by the instance TLC explores. The parts of `IInv`:

* `CallsInv`: a result that waits to be classified carries what its tool read,
  and that is what the ledger says for as long as results wait: diagnosis and
  versions of it are about the snapshot, which does not move before
  `ObservationUpdate`.
* `BudgetInv`: `usage <= limit` alone is not inductive, because a turn charges
  behind the check. Past the gateway, the calls charged, the calls of the reply
  and the results together fit the budget; at a context builder a turn is left.
* `LedgerInv`: outside the two nodes that move it the snapshot is the evidence,
  and what is `SUPPORTED`, validated or planned belongs to it. It gives
  `SupportedIsCurrent` and the plan of `RecoveryIsEarned`.
* `ControlInv`, `TerminationInv`: a reflection knows where it came from, a turn is
  granted what its phase grants, and a termination is followed only by the rest
  of its turn.
* `HopsInv`: `NodeDepth` bounds the nodes since the last context by the place in
  the graph. The reflection router can be passed twice only with a trigger
  pending, and behind the router there is none, or the loop ends.
* `SingleInv`, for turns of one call: the one result is applied to the very state
  its tool read (`ReadHolds`), so the confidence a belief commit compares is
  still there, evidence is collected only in phases that are not recovery, and no
  diagnosis replaces a validated one while recovery is planned. Each of these
  fails with two calls a turn, which is why three properties say so.

Every part has one lemma for the steps and one for the initial states; the effect
of a tool result is stated first, once per operator (`HypothesesGrow`,
`MovedKeeps`, `ControlMoves`, `DiagnosisMoves`). `NextVersion` picks the largest
version with `CHOOSE`; that there is one needs a bound on the versions, which is
in `LedgerInv`, and the least-element principle (`LargestOfBounded`).

### Baseline

Any methods, proposals and batches, finite sets of sources and hypotheses (the
code keeps both in slices), a positive number of drafts and of iterations for each agent
(`AgentsAssumption`; `agent/constrained_agents.go:67`), and sources that have not
the name of another tool (`ToolNames`). `IInv` has three parts:

* `AgentsInv`: `StateOK` keeps the budgets, and that a verdict which passes rests
  on evidence of Kubernetes and of another source (`IsLedger`). Verdicts are not
  one for each hypothesis: drafts may share an identity. `ResultEarned` says what a status and a `done` mark promise.
  `IsCall` is what makes parallel calls safe: a verification in flight holds a
  copy of the ledger, and that copy is a ledger of sources that the state still
  has, so what it writes back later is one too. Sources only grow.
* `GraphInv`: the runtime's verdicts are a ledger as well, nothing is charged and
  no hypothesis is taken up before the agents run, and behind a deterministic
  method the diagnosis agent has nothing left to do (`DiagnosisIsOver`), so the
  hypothesis the recovery is for is the one of the arbitration.
* `PolicyInv`: policies wait for the round they bought, and `PoliciesAreJudged`.

`RefutedStaysRefuted` is proved per tool: the transition service has no way out of
`REFUTED`, and a verification that computed on an older copy overwrites the ledger
but moves the service only from the status it had copied. Each tool of the agents is one lemma, and a turn composes them
(`NextKeeps`).

### Grounding

Any evidence, hypotheses, queries, attributions and bounds
(`RevisionsAssumption`, `RequestsAssumption`, `AttributionsAssumption`: a query
without an item is no evidence, and `ValidateEvidenceAttributions` knows three
relations). The server asks for an attribution of what was collected for a
hypothesis when it grounds it, and never again, so `ProposalIsGrounded` rests on
the snapshots being comparable in time. `Windowed` says that no snapshot has a
window ahead of the clock; a collection therefore makes a snapshot that no
grounding has (`CollectionIsNew`), which keeps `GroundingsComplete`: a grounding
with the snapshot of now attributes all that is bound to its hypothesis.
`DiagnosisCurrent` says that a final diagnosis has the snapshot of now, and
`NeedsAnswered` that calls never take an answer to a need away. The permission
node compares the snapshots of diagnosis and grounding, and the property follows.

### Candidates

Any patterns, items, taxonomy and activations. `AssertionsAdmitNothing` compares
the candidates of a round with those of the same evidence without assertions.
Three facts make them equal: a category is admitted when and only when one of its
patterns triggers (`OnlyAdmittedAreEligible`); whatever an assertion adds to the
support of a category, a triggered pattern of it already claims all of its own
items there (`SupportIsClaimed`), so patterns compare the same (`StandingIsKept`);
and the draft depends on pattern and evidence alone (`CandidatesAreDraftsOf`).

`VerificationAgrees` is false for an arbitrary store: two patterns that share the
name of a node may disagree about it, since what one of them shows under
that name counts for the other. `VerificationFollows` is about the stores it holds for:
`StoreAssumption` (finitely many patterns and items, edges that are pairs,
activations of the store's own patterns) and the hypothesis `PatternsAreChains`:
every pattern is one chain through all its nodes, a cause stands only at the head,
and it has a mechanism that no other pattern names. The loader
(`reasoning/seed.go:16`) does not ask for this; the file that is shipped has it,
and TLC evaluates that (`ShippedAreChains`, assumed in `MCReasoning`). The
argument: the best pattern of a category is one of the eligible (`BestIsEligible`,
from `HighestExists`), so a candidate is the draft of a triggered pattern
(`CandidateIsDraft`). An observed path is the chain of the observed nodes from an
admission node (`ObservedPathIs`); its second node is no cause, so an anomaly
speaks for it (`AnomalySpeaks`), and the decisive nodes of verification are among
it (`ObservedPathsVerify`). A declared path that was not observed is found complete
only when its mechanism was shown (`DeclaredPathsAreEarned`), and since no other
pattern names that mechanism, it was this pattern that showed it.

### Rounds

Any kinds of items, collections and scores. `KindAssumption` states what the
collectors and the normalisation guarantee about a kind: four modalities, families
for metrics only, and that items of one signature agree in both.
`RoundsAssumption` has the limit that the configuration enforces.

*The choice of context.* `preserveRequiredSources` is three loops over a ranking.
A loop is a recursive function, and `LoopKeeps` is the induction over it: what
every step keeps, the loop keeps. `Narrowed` (no repeats, within the limit) holds
throughout; the first loop leaves an item of each modality it has room for
(`RequiredUpTo`), of which no two are metrics of one family; the second keeps that
and leaves no family out while there is room (`RepresentedUpTo`); the third only
adds, and only if there was room (`FillLoop`). `PreservedOK` combines them. With
the limits two and three, which `internal/config/config.go:275` admits, there is
no place for four modalities: `ContextRepresents` is about four or more, and TLC
finds the counterexample for fewer. That Kubernetes and some telemetry stay, on
which `RankEvidence` insists, holds for every limit, and so the theorem about
contradictions has no such hypothesis.

*Contradictions.* `ContradictionIsEarned` is about the readings among the ranked
items, and a later collection may replace the very item that contradicted.
`BuildStateAssertions` judges anew each time (`AssertedOK`): what stays
`CONTRADICTED` has no abnormal reading, and still a normal one, because the item
that replaces one of the window lies in the window and has the same readings
(`WindowOK`, `NormalReadingStays`). `ContradictionHasReading` states this also for
rounds whose ranking is refused.

### Conversation

Any limits, sizes, batches and corrections (`HistoryAssumption`: natural numbers).
What a model is shown says nothing about how the transcript got there, so the
invariant is about the transcript. `CallsAreTracked`: between two turns it is
`Answered` (every call has its result at its own distance behind the request, every
result a request); from the model's answer to the results it is `Pending`, an
answered one with a request behind it whose calls are the calls in flight. That is
where the gateway matters: it cuts the calls in the message the conversation holds
(`CutKeepsPending`), and the tools answer what is left (`ResultsAnswer`).

Of an answered transcript the units are the requests with as many messages behind
them as they have calls (`UnitsAre`). They tile it: a message belongs to a unit
that begins no earlier than any given beginning (`HeadsStayBehind`, `UnitsCover`).
So the messages since a place are the rest of the transcript from the first
beginning there (`SinceIs`), what is shown is the longest rest that fits
(`HistoryIs`), and a rest is answered itself (`RestIsAnswered`). The exchange of the
last turn is a rest as well, a suffix of every longer one (`LaterRestIsSuffix`). Of
the sum of sizes only the empty case is used (`SizeOfNothing`): the sum over a set
is a recursive function, and there its recursion ends at once.

### Knowledge

Any incidents, pattern files, histories, operator calls and faults
(`ServersAssumption`), and any facts of which an incident has at most one
proposal, one topology and one path to mine (`FactsAssumption`: `Learn` makes one
of each from one diagnosis). `IInv` has four parts:

* `PatternInv`: every pattern has its revisions, the first and the row's own
  among them, and none newer than the row. That is why no write of a new version
  meets an old one: a merge takes the larger version plus one (`MergeKeeps`), an
  operator's call the row's plus one, also when it rolls an old row back
  (`ReviseKeeps`), and the seed, which may lower a status, keeps the version and
  writes revision 1 only where there is none (`SeedKeeps`). `RevisionsAreKept`
  follows from the same lemmas.
* `TaskInv`: what `Learn` has behind it at each step (`Progress`). Others may
  revise or roll back a row meanwhile, so "stored" speaks of some revision
  (`Covered`), and as revisions only grow (`PatternStep`) no step of another task
  takes it back (`DerivedStays`).
* `ReadInv`: what `Learn` holds between its writes: a topology it found and a
  batch whose candidates name only what may be learned from. The one at the head
  passed the gates before it is merged, and is merged before it is stored as
  accepted (`Decided`).
* `TableInv`: the same of the tables, which gives `KnowledgeIsComplete`.

`Learnable`, the resolved incidents outside of evaluations, only grows
(`LearnableGrows`). Of the miner the proof uses that a candidate names
incidents that have a graph (`MinedAreLearnable`), and that three of them stand
behind one that `SupportedWell` passes (`BatchIsSound`); what its folds compute is
left to TLC. For `ActivationIsEarned` a merge that activates has passed
`EligibleForActivation`, a first row is active only for such a candidate, and the
remaining writes that set a status are the operator's and the seed's.

### Benchmark manager

Any profiles, attempts and faults (`ProfilesAssumption`). `OneExecution` is not
inductive: a handler accepts a call by the status in memory, and nothing in the
property says that an attempt that still runs keeps that status active. `IInv`
adds where the live attempt is: before `begin` the status is `queued`, after it
`running`, and at `finish` the case results are stored. Then a handler that sees
a settled status knows that no attempt is live (`AcceptKeeps`), a step of the live
one keeps the relation (`ExecuteKeeps`), and a restart drops them all.

### Log indexer

Any replicas and namespaces, finitely many entries, a positive batch size and any
window (`LimitsAssumption`). `Missing` is what was read and is not indexed.
`LeaderOK` says where it is at each step of `IndexOnce`: behind the cursor that
was loaded, then in the batches, which are sorted, and no longer in a batch that
is indexed. `calm`, the hypothesis of the property, is one leader at a time that
finds its cursor; then the only replica that works owns the lock, so a step of
it need be compared with no other (`LeaderStep`). When `IndexOnce` fails, the
cursor still lies before everything that is missing, and the next one begins
there.

### Hot model

Any configurations and workflows (`ConfigsAssumption`). `IInv` adds that a client
in a workflow's context was active or pinned when it was taken, so what the
workflow is given to run on is one that answered its probe, also when another
one has become active since.

**Induction over data.** The library's induction theorems take an operator for a
parameter, which the provers cannot instantiate. `WFMin`, the least element of a
well-founded relation, takes a set. `LeastExists` draws the least element of a set
of numbers from it, and `LoopKeeps`, `MinIsMember` and `MaxIsMember` are
consequences: the invariant of a loop is a function from places to sets of values,
and the first place at which it fails has a predecessor at which it holds.

**Only model-checked.** Liveness (`EveryInvocationSettles`, `IncidentSettles`,
`StaleLeaderStops`, `GoodFileIsServed`) is out of the prover's reach. What the folds of `CausalMining` compute is checked on the instances above.

## 5. Where the code and the repository's own statements differ

Three are runs that must end in a counterexample; `PROJECT.json` quotes the
statements.

1. `IncidentRefusedResume`: `resumeWorkflow` compares `RankingPolicyHash` with a
   hash no incident ever carries, and refuses every approval and rejection.
2. `RecoveryDoubleApproval`: two keys apply one proposal twice.
3. `BaselineStaleDryRun`: `submit_supervisor_outcome` asks for "a fresh dry-run
   proposal" and accepts the dry run of an earlier one
   (`agent/constrained_agents.go:346`).

The following are behaviours the models reach, without a run of their own.

*Incidents and recovery*

* Target drift: `README.md:108` lists uid and resource version among what is
  matched before a mutation; they are compared, but the write that follows does
  not carry the precondition that was checked (`agent/recovery.go:142`).
* A reflected failure: after a failed recovery that was reflected on, the
  permission node asks for `NEEDS_ATTENTION` (`agent/brain_recovery.go:167`),
  which `RECOVERY_FAILED` does not allow, and the graph ends as an error.
* Lost alerts: `AppendAlert` serialises with the workflow
  (`internal/store/postgres.go:193`), but the whole-row write that ends a
  diagnosis erases what was merged since its read
  (`internal/service/incidents.go:409`).
* An expired proposal that awaits approval can be neither approved, rejected nor
  retried (`internal/service/incidents.go:440`; `README.md:112` promises an
  explicit state).
* A revived attempt: a retry accepted between the last status event and the last
  write of a diagnosis is overwritten by the old attempt (`README.md:54`: a
  migration invalidates stale artifacts).
* A borrowed interrupt: a resume that is refused writes its old snapshot back
  (`internal/service/incidents.go:474`), so the row may hold the interrupt of one
  attempt when a newer one adds its proposal. The approval that follows resumes
  the old checkpoint with the new proposal; the comparison in the approval node
  (`agent/supervisor.go:723`) is what refuses it, so nothing is executed
  (`RecoveryIsApproved`).
* A lost proposal: `resumeWorkflow` reads the row again and dereferences its
  proposal (`internal/service/incidents.go:495`). A `Retry` accepted behind the
  approval has cleared it, and the panic ends the server.
* A model switch: `WithSnapshot` and `SnapshotIdentity` are two calls
  (`internal/service/incidents.go:368`, `:377`), and a reload between them
  records another hash than that of the pinned client; a resume then runs on the
  other model (`internal/model/hot_client.go:188`: a reload "can therefore never
  switch models midway").

*Brain*

* When the tool calls are spent after a diagnosis was submitted,
  `enterToolBudgetFinalization` (`agent/brain_graph.go:472`) moves to the
  escalation phase, where `validate_diagnosis` is not allowed; the prompt
  (`agent/brain_graph.go:386`) and the skill
  (`internal/agent/skills/brain/synthesize-diagnosis/SKILL.md:55`) ask for
  exactly that call.
* With several calls a turn, `finish_investigation` may claim
  `DIAGNOSIS_CONFIDENT` next to a call that brings new evidence, and two belief
  commits of one hypothesis end the graph as an error.
* With several calls a turn, a diagnosis submitted behind the validation of the
  one before it replaces it, and the phase is `RECOVERY` all the same
  (`agent/brain_state.go:160`): a plan can then be written for a diagnosis that
  was never validated. The permission node of `Supervisor` refuses its proposal
  (`agent/brain_recovery.go`).
* The history is cut along units from the newest back and stops at the first that
  does not fit (`agent/brain_graph.go:600`): a newest unit of seven messages, or
  with a result larger than the limit, leaves the model without any history.
* `brainEvidenceViews` (`agent/brain_context.go:21`) takes items in stored order
  and stops at the first that does not fit, so the Brain may see one modality
  only, which the ranking takes care to prevent (`reasoning/engine.go:369`).

*Reasoning*

* A path can be completed by a node of the same name in another pattern, which
  `reasoning/candidates.go:428` says must never happen.
* A longer declared path with more support is preferred to a shorter one that was
  observed completely.
* A contradicted assertion is reopened in the next round by the old abnormal
  reading, which is still among the evidence (`reasoning/assertions.go:62`).

*Knowledge*

* `List` of causal patterns selects 18 columns and scans 17
  (`internal/store/knowledge_evolution.go:106`): on a server with seeded patterns
  learning stops behind the topology merge for every incident with a proposal,
  and discovery rejects every candidate.
* "operators can disable and roll back knowledge" (`README.md:99`), but a restart
  seeds the pattern file over a disabled pattern
  (`internal/store/knowledge.go:298`), and a merge may reactivate a learned one.

*Baselines*

* Submitting a hypothesis again that is already `SUPPORTED`, or verifying it in
  two calls of a batch, ends the run as an error.
* Two drafts with one identity get two verdicts (`agent/constrained_tools.go:868`,
  `reasoning/engine.go:1113`). When both move the hypothesis, the run ends as an
  error; otherwise the ledger keeps both, and a service that is started again from
  it takes the last one, which may forget an acceptance.
* An agent that finishes in its last iteration is reported as exhausted.

*Log indexer*

* Entries of one timestamp at the boundary of a batch, entries that Loki receives
  late, and those between a lost cursor and the window are never indexed.
* A query that is full returns the newest entries (`tools/loki.go:62`), and the
  cursor then passes the older ones: an entry that an earlier query returned and
  that failed to be indexed is lost when enough newer ones arrive before the retry.

## 6. Not modelled, and the plan

Next, the most consequential first:

1. `AlertIngest`: several incidents, `FindByFingerprint`, `correlate` and
   `Create`; which incident an alert belongs to. Two first alerts with one
   fingerprint may both find none and both create one
   (`internal/service/incidents.go:145`): nothing in the code prevents it.
2. The composition of `IncidentManager` with the resumes of `RecoveryWorkflow`:
   which proposal an approval is for when a retry replaced it, and what a failed
   read after `RecordApproval` loses.
3. `BrainLoop` as a refinement of the Brain step of `RecoveryWorkflow`.
4. The belief engine's numbers, and signal extraction
   (`internal/reasoning/evidence`), as functions over bounded inputs.
5. Baseline variants that ask for parallel hypotheses in one request; the rollout
   gates of `internal/learning`, once a binary wires them.

Left out for good: the registry of Brain states (`agent/supervisor.go:889`), which
only the audit record reads and which a failing resume may find replaced or empty;
what a model answers, prompts, retrieval scores, embeddings,
parsers of collected data, HTTP parsing, configuration, the event hub (browser
sessions only), telemetry, the frontend and the benchmark's fault injection. The
graph's crash recovery is not modelled beyond the approval checkpoint because the
server has none: a workflow that dies elsewhere is not restarted.

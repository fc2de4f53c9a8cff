# A TLA+ model of the SLM-OS scheduling simulator

This directory specifies and verifies the control logic of the SLM-OS AI
scheduler repository: the discrete-event simulator in which schedulers are
compared and training data is produced, the expert policies and the environments
that drive it, and the tools that generate, carry, learn from, export and
evaluate its data. Every definition that models code is
tied to its lines in `PROJECT.json` ("map"). TLC checks small instances, TLAPS
proves the central invariants for every value of the constants.

## 1. The system

The repository trains schedulers for a multi-core operating system that runs
machine-learning inference tasks. A simulator plays episodes of task arrivals;
expert policies or learned agents decide where each ready task goes; the
decisions and their rewards become a dataset; models are trained on it and
exported to the kernel.

| part | state | operations | used by |
|---|---|---|---|
| engine (`slm_sim/engine.py`) | clock, event heap, push sequence, tasks, cores, pools, GPU queue, metrics, completions not yet rewarded, transitions | `reset`, `run_episode`, one handler per event type, helpers | runner, gym, oracle, evaluation |
| actions (`slm_sim/actions.py`) | none of its own; writes the engine's tasks, queues and GPU queue | `apply_action`, `encode_action`, `decode_action` | engine loop, gym, oracle |
| data model (`slm_sim/models.py`) | the records: task, core, pools, GPU | pool pressure, GPU latency | all |
| platforms (`slm_sim/platforms.py`) | three constant profiles | lookup | engine, gym |
| workloads (`slm_sim/workloads/`) | a random generator | `seed_all_events` pushes arrivals before the episode starts | engine loop, gym |
| experts (`slm_sim/experts/`) | none (random: a generator) | `decide`; the oracle replays episodes offline | runner, evaluation |
| observation, reward | none | float vectors computed from the engine | engine loop, gym |
| gym environment (`slm_sim/gym_env.py`, `training/rl/vec_env.py`) | pending task, episode seed | `reset`, `step` | PPO training, evaluation |
| runner and log (`slm_sim/runner.py`, `slm_sim/logging.py`, `scripts/generate_dataset.py`) | list of results, Parquet files | batches of episodes, in a pool of processes or not | dataset |
| split (`scripts/split_dataset.py`) | three writers | assigns episodes to train, val, test, streams rows, statistics | training |
| training (`training/`) | datasets, epochs, checkpoint, curriculum phase | train, early stop, fine-tune, DAgger, PPO | export, evaluation |
| trace ingestion (`data/slmos_traces.py`) | none | parses a kernel trace, pairs decisions with completions | fine-tuning |
| export (`scripts/export_models.py`, `deploy/ai_scheduler.h`) | files | flattens models to C arrays | the kernel |
| evaluation (`evaluation/`) | result tables | metrics, statistics, plots | reports |

**Interaction.** The engine is single-threaded. Its loop pops the earliest event,
sets the clock, runs the handler, and when the handler returns true and some
task is READY it calls back into the agent, applies the agent's action, and
pushes the event of the task if it now runs. Three callers drive the handlers:
`run_episode`, the gym environment and the oracle's replay. All other parts
communicate through files.

**What is hard.** Concurrency here is the concurrency of *pending events*: an
event is pushed when a task starts and is never cancelled, so when the agent
preempts, migrates or re-places the task the old event is still in the heap and
acts on whatever it finds. Hard behaviours, each listed at its line under
"hazards" in `PROJECT.json`:

* stale completion and quantum events (`engine.py:399`, `:417`),
* READY tasks that are picked again while they wait in run queues, so that a
  task has entries in several queues (`engine.py:570`), and migrations that do
  not look at the task's state (`:550`),
* a clock that is moved forward by the context-switch cost past events still in
  the heap and then set back by the next event (`:456`),
* priorities that change while tasks are queued (`:473`), between kernel levels,
* GPU requests, pools without admission check, rewards that wait for a later
  decision,
* outside the engine: files left by an earlier run (checkpoints, splits,
  exports), jobs and generations stopped in the middle, rounding of proportions,
  reuse of task ids in traces, results of a process pool in completion order.

**What makes each part correct.**

* *Engine and actions*: a task is on one core, starts only when ready, completes
  once; accounting (metrics, pools, busy time, rewards) agrees with the tasks'
  states; nothing is scheduled in the past; ready tasks do not wait on an idle
  platform; episodes end; with agents that do not preempt, events are never
  stale. Section 4.
* *Action codec*: encode and decode are inverse on the platform's action space,
  and the C decoder agrees.
* *Drivers (gym, oracle)*: the same steps as `run_episode`; each completion is
  credited to exactly one step.
* *Experts*: they name a core that exists and is not isolated; EDF preempts only
  for a nearer deadline.
* *Observation and reward*: the first task slot describes the task being
  decided; reward and metrics judge a deadline alike.
* *Workloads*: no arrival outside its window; pinned arrivals spread over the
  component's cores.
* *Generation*: every file has its episodes whole and under the right number and
  seed, whatever order the pool returns them in; a generation ends.
* *Split*: every episode is in exactly one part and no row is lost.
* *Subsampling*: never more rows than asked for, nor than the arrays hold.
* *Training*: the returned weights are those of the best epoch of this job; jobs
  that share a directory do not spoil each other's baselines.
* *DAgger*: no state is labelled twice.
* *Trace ingestion*: a decision is rewarded by the completion of its own task.
* *Export*: the exported arrays decide as the trained model does, and what is
  left in the output directory verifies.
* *Evaluation*: what is compared are episodes with the same arrivals.

## 2. Modules

| module | models | role |
|---|---|---|
| `SimModels` | `models.py`, `actions.py` | task states, kernel priority levels and `_adjust_priority`, event types and their heap order, the action space |
| `SimEngine` | `engine.py`, `apply_action` | `Init` is `reset` + `seed_all_events`, one action per handler and per early return, one per outcome of `apply_action`, `EndEpisode`; `TypeOK` |
| `TaskSharing` | | abstract specification: tasks arrive, start on a free core, yield, are taken over, finish; no time, events, queues or priorities |
| `SimEngineProps` | | the engine's properties, and the refinement mapping to `TaskSharing` |
| `SimEngineWork` | | extends `SimEngine` by two history variables, when each core started its task and how long each task has run, and states what `remaining_work_ns` is worth |
| `SimEngineDocs` | | statements of the documentation that the code does not satisfy |
| `CoreStats` | `_handle_migration_check` | extends `SimEngine` by the utilization and the cached working sets a core shows, old until the next migration check |
| `Experts` | `experts/edf.py`, `hybrid.py`, `weighted.py` | extends `CoreStats`: the free choice of the decision becomes the policy's |
| `Oracle` | `experts/oracle.py` | extends `Experts`: baseline episode, replay with sampled actions, drain, comparison of scores |
| `GymEnv` | `gym_env.py` | extends `SimEngine`: `reset`, `step` and the loop between two decisions, for any caller |
| `Observation` | `observation.py` | extends `CoreStats`: the slots and features of the vector, in thousandths |
| `Reward` | `reward.py` | extends `Observation`: the transitions of `run_episode` with the four components of their reward |
| `EvalMetrics` | `evaluation/metrics.py` | extends `CoreStats`: `compute_eval_metrics` at the end of an episode |
| `ActionCodec` | `encode_action`, `decode_action`, the generated `ai_decode_action` | from the expert's action to an index and back, on platforms of any size |
| `Workloads` | `workloads/` | the seeding of an episode, one arrival, gap, window or profile at a time |
| `DatasetBatch` | `generate_dataset.py`, `runner.py`, `logging.py`, `validate_dataset.py` | combinations, pool of workers, results in any order, files, interruptions |
| `DatasetSplit` | `split_dataset.py`, `validate_dataset.py` | shares of episodes, streamed files, failing reads, statistics |
| `DatasetLoad` | `mlp/dataset.py`, `xgboost/features.py` | the two passes of a bounded load |
| `TraceIngest` | `slmos_traces.py` | the kernel's ring (external), the dump, pairing, rows |
| `Dagger` | `mlp/dagger.py` | rounds, episodes, tables and files |
| `MlpTraining` | `_train_mlp.py`, `mlp/train.py` | jobs with their paths, epochs, early stopping, checkpoints |
| `PpoTraining` | `rl/train.py`, `rl/curriculum.py`, `rl/vec_env.py` | steps of the vector of environments, rollouts, checkpoints, phases |
| `XgbExport` | `xgboost/train.py`, `export_models.py` | cascade, label encoding, base scores, flattening, packing, walk |
| `NetworkFold` | `mlp/model.py`, `export_models.py` | the network in evaluation and its folded layers |
| `ExportFiles` | `export_models.py` (`main`, writers) | the output directory over several exports |
| `Evaluation` | `run_eval.py`, `agents.py`, `statistical_tests.py`, `run_evaluation.py` | episodes, generators, results, pairs |
| `NoneValue` | | the constant `None` of the tool modules |
| `MC...` | | instances for TLC: `MCSimEngine`, `MCSimEngineWork`, `MCPolicies`, `MCGymEnv`, `MCReward`, `MCData`, `MCModels`, `MCDatasetSplit`, `MCEvalMetrics` |
| `Totals` | | the sum of a function over a finite set |
| `SimEngineTypes`, `SimEngineProofs`, `SimEngineAccounts` | | proofs about the engine, see section 5 |
| `AgentProofs`, `GymEnvProofs` | | proofs about the agents with their rewards, and about the environment |
| `DataProofs`, `ModelProofs` | | proofs about the tools that make and carry data, and about those that train, export and compare models |
| `DataLemmas` | | lemmas about sums and joined sequences that the other proofs use |

*Composition.* The drivers and policies extend the engine and share its
variables: `SimEngine` < `CoreStats` < `Experts` < `Oracle`, `CoreStats` <
`Observation` < `Reward`, `CoreStats` < `EvalMetrics`, `SimEngine` < `GymEnv`.
So what an expert decides is decided in the engine's states, with stale events
and old statistics, and the environment is compared step by step with
`run_episode`. The tools communicate through files only; each has its own module,
and a file's content is what the properties tell apart (the episodes in a split,
the job and epoch of a checkpoint, the checkpoint an export was made from).
`MCData` and `MCModels` put independent tools side by side: the variable `tool`
says which one runs, the others idle in an initial state. Since they share no
variable, each behaves as it does alone.

### Correspondence of `SimEngine` with the code

State: each variable carries the name of the attribute it models. The heap is a
set of event records `[ts, type, seq, task, core]`; `IsNextEvent` is
`heapq.heappop`. `pc` is the position in the loop of `run_episode`: `"event"`
before `pop_event`, `"decide"` when the handler asked for a decision and some
task is READY, `"done"` after the loop. `event_ts` is the timestamp of the event
being handled, which the clock may have left behind. `prev_obs` says whether the
loop holds a transition to log. Two variables are history: `rewarded` counts in
how many logged transitions a task's completion occurred (what the code keeps in
`transitions`), `finish_time` is the `completion_time_ns` of the completion record.

Actions: `HandleTaskArrival`, `HandleTaskCompletion` / `DropStaleCompletion`,
`DropIdleQuantum` / `FreeCoreOfDeadTask` / `FinishInQuantum` / `PreemptAtQuantum`,
`HandleDeadlineCheck`, `MigrateTask` / `SkipMigration` are the handlers, each with
the head of the loop (`PopEvent`: pop, leave beyond the end, busy time) and its
tail (`NeedsDecision`). `AssignToGpu`, `PreemptCurrent`, `StartOnIdleCore` and
`EnqueueOnBusyCore` are the outcomes of `apply_action`, each with the rest of the
decision (`Decision`: pick, log the previous transition, adjust the priority)
and the call of `_schedule_completion_for_task` that follows.

Abstractions:

* Time is in ticks instead of nanoseconds; intervals, quantum, thresholds and
  durations are constants. `int(remaining / (freq / 1500))` is
  `(remaining * RefFreq) \div Freq`.
* The agent's decision is any member of `Actions`, so what holds holds for every
  policy, expert or learned.
* The random context-switch cost is any value of `CsMin .. CsMax`, and the
  arrival times are any function into `ArrivalTimes`; a task's profile
  (priority, deadline, work, sizes) is a constant function.
* Megabytes of the pools are integers.

Left out of `SimEngine`: the utilization statistics (`CoreStats`), observations
and reward values (`Observation`, `Reward`), which the handlers do not read back;
the `BLOCKED` state, which nothing assigns; `SCHEDULING_DECISION`, which nothing
pushes; the `GPU_COMPLETION` handler, which nothing reaches (see
`doc_gpu_queue`); `cpu_affinity` and `loaded_models`, which nothing reads.

### Correspondence of the other modules

* `CoreStats`, `Observation`, `Reward`, `EvalMetrics`, `Experts`: floating-point
  shares are integers in parts of `Unit`; a comparison of two floats becomes one
  of two fractions, cut the same way on both sides.
* `Oracle`: sampling is a choice; an action can be the best of a sample of
  `actions_per_step` exactly when that many actions score no more than it
  (`IsBestOfSample`). `Share` makes the compliance rate an integer.
* `GymEnv`: `pc = "decide"` and `"done"` are the states in which the caller has
  control. `StepAfterEnd` is a `step` without a pending task. `credited` is
  history, the rewards a completion was in. The seed of the next episode is any
  choice of arrival times.
* `Workloads`: a draw is any value of its range (`Gaps`, `Jitter`, `BurstCounts`,
  `BurstOffsets`), time in ticks.
* `DatasetBatch`: an episode is determined by its seed and stands for its rows.
  `hash()` of a combination differs between processes, so the base seed is any of
  `BaseSeeds`. `Interrupt` is the end of the process between any two steps.
* `DatasetSplit`: `Fail` is a raw file that cannot be read in the second pass.
  `AppendToOld` and every other definition marked "Mutation" is not part of the
  model: it is what the code would be with a slip, used to see that the
  properties notice.
* `DatasetLoad`: only the number of rows drawn from a row group is kept. A float
  product may fall on either side of an exact half (`RoundedShare`).
* `MlpTraining`: a loss is any of a few values or NaN; `Exit` is the process
  going away after a job or in the middle. `started_from` and `custom_paths` are
  history. What a job's data amount to is any of `DataSizes`, for a platform at
  most its own actions (`DataOf`: the filter of `SchedulerDataset`); `rows` says
  whether the training set has rows, without which the data loader raises before
  anything is saved. `ended = "misfit"` is a strict load that finds another number
  of outputs, at the start or when the checkpoint is read back. `GivenPaths` are
  the paths `--output` and `--init-from` may name.
* `XgbExport`: `Trees` are the trees of the dumps and those below their nodes, and
  `Height` says that they nest finitely, so that what is recursive in the code is a
  recursive function here. Integers stand for the floats: rounding is left out.
  `Leaf`, `Walk` and `Runtime...` are external, the booster and the kernel.
* `ExportFiles`: the C compiler and the verification program are external
  (`Builds`, `Passes`): the program passes for certain when the argmax ranges over
  the weights' outputs and the expected actions are those of the same checkpoint.
* `Evaluation`: the arrivals of an episode are known by its scenario and the
  state of the generator that seeded it.

## 3. Runs

| run | question | instance | states |
|---|---|---|---|
| `engine_full` | do the safety properties hold whatever the agent decides, does the engine implement `TaskSharing`, does every episode end? | 3 tasks, 2 cores of different speed, GPU, all 18 decisions, context-switch cost 0..1, arrivals at 0 or 2, 13 ticks | 189 000 |
| `engine_no_preempt` | without preemption and GPU, does every busy core have exactly one event? | 4 longer tasks, quantum 2, a big and a little core, 8 ticks | 552 000 |
| `work_reference` | without preemption and on reference cores, does a task run exactly as long as it should? | 3 tasks of one to three quanta, context-switch cost 0..1, 16 ticks | 26 000 |
| `policies` | do the experts and the oracle mean and get what they ask for? | 3 tasks, a big and a little core, three policies, oracle with samples of 2 and 4 decisions, 25 ticks | 285 000 |
| `gym` | is the environment `run_episode` in pieces, and is each completion rewarded once? | the tasks of `engine_full`, all decisions, callers that go on or reset, 11 ticks | 207 000 |
| `reward` | does the observation show the decided task, and do reward and metrics agree? | 3 tasks of three components, two cores of different type, 10 ticks | 162 000 |
| `data` | do the tools that make and carry data keep it whole? | see below | 899 000 |
| `models` | do the tools that train, export and compare keep models apart and exact? | see below | 821 000 |
| `doc_frees_core`, `doc_gpu_queue`, `doc_p99`, `doc_split_leak` | does the code do what its documents say? | each ends in a counterexample | |

*Bounds of the engine.* Three tasks and two cores are the least in which a task
can be preempted on one core, run on another and be hit by its old event while a
third task waits. The durations span more than two quanta of the longest task on
the slow core, three deadline checks and two migration checks, so that each boost
threshold and each handler occurs. Rebalancing needs a queue more than two longer
than another: that takes the four tasks of `engine_no_preempt`, in which stale
entries make the queues long. `EpisodeDuration` is the bound on time. TLC's
coverage shows that the runs together take every action; `DropIdleQuantum` and
`FreeCoreOfDeadTask`, which only stale events cause, occur in `engine_full`. In
`policies` every task finishes under the hybrid policy, one can stay behind under the weighted one (the
exception of `NothingStranded` occurs), and the oracle's four decisions are fewer
than the episode may have, as `OnlyBoundStrands` needs.

*Bounds of `data`.* Arrivals: one scenario with pred_maint's burst windows and the
overlay, one with two periodic profiles, one with affinities, each over three or
more periods, at most 12 arrivals. Generation: two combinations with 3 and 2
episodes of 0 to 2 decisions, 2 workers, 2 generations. Split: 2 raw files of up to
4 episodes, 2 splits, so that the second meets the first one's files and shares
are cut to nothing. Load: up to 4 row groups of up to 3 rows, every bound from 0
to 7 and none. Traces: 2 slots, 4 records in a ring of 3. DAgger: 3 rounds of 3
episodes of up to 2 decisions.

*Bounds of `models`.* Codec: platforms of 1 to 8 cores. Training: 2 jobs of up to 4
epochs with patience 2, two losses and NaN; two platforms of 24 and 42 actions or
none; data with all actions of the smaller one, with 36, too few for the larger one
(no expert uses the GPU, `docs/FUTURE.md:71`), or with none; two given paths, a
baseline's and a fine-tuned one's. PPO: 2 environments, rollouts of 5,
200 timesteps, four phases. Cascades: five core models, two priority models, three
preemption models, of one to nine trees. Folding: sizes 2, 2, 2, 2 and 1, two
linear layers and two norms to choose from, scales of both signs and zero. Export: two platforms, two
suffixes, 2 trainings, 3 exports. Evaluation: 2 experts, up to 2 trained agents, 2
scenarios, 2 episodes.

*View.* Push numbers grow without limit and only their order among equal
(time, type) matters, so the engine's runs compare states up to that order
(`UpToPushOrder`): every guard and every property gives the same answer in two
states that agree on it, and their successors agree again. `work_reference` also
leaves the accounts out of the view (`WithoutAccounts`), since no guard and
neither of its properties reads them.

*Deadlock checking* is off since every program here stops when it is done.

*Fairness.* `FairSpec` (`engine_full`) assumes `WF_vars(Next)`: the loop is one
thread that never waits, so if it can take a step it does. Nothing more is assumed
of it, and the agent is not assumed to be fair. `BatchFairness` (`data`) assumes
weak fairness of each worker's `Take` and `Return` and of `WriteFile`: a pool
whose processes keep running, and a parent that iterates over its results. An
episode returns because of `EpisodeEnds`. `Interrupt` is not fair.

## 4. Properties

Engine (`engine_full`, `engine_no_preempt`, `work_reference`):

* `TypeOK`; `Mutex`: no task is current on two cores, and a current task is RUNNING
  or finished, never READY.
* `SharesCores`: refinement of `TaskSharing`. `RunningOn` maps a core to its
  current task unless that task has terminated; a core that still holds a
  finished task is free in the abstract specification.
* `NothingInThePast`, `BusyWithinElapsed`: time is consistent although the clock
  runs ahead of events and back.
* `CompletedOnce`, `MemoryBalanced`, `RewardedOnce`: metrics, pools and rewards
  account for each task exactly once, however many events it gets.
* `WorkConserving`: as long as no decision has used the GPU, between two events no
  task waits while all cores are idle. (A single idle core next to a full queue
  does occur, see the hazards. With the GPU the property fails in instances with
  longer tasks: a quantum that finds a finished task frees the core and leaves its
  queue, one decision is asked for, and when that sends its task to the GPU the
  other tasks of the queue wait on an idle platform for the next event.)
* `EpisodeEnds`: `<>(pc = "done")`.
* `OneEventPerBusyCore`: in an instance whose agents neither preempt nor use the
  GPU, no event is ever stale.
* `WorkDone`, `ProgressKept`: on reference cores and without preemption, time run
  and remaining work add up to the duration while a task waits, and a finished
  task has run for its duration, across quanta, switches and migrations.

Policies (`policies`):

* `EarlierDeadlineDisplaces`: under EDF a task loses its core only to one with an
  earlier deadline, although the policy asks by deadline and `apply_action`
  grants by priority.
* `ActionsAreObeyed`: the replay takes no action that `apply_action` would carry out
  as another one (the GPU slot for a task that cannot run there, an isolated core).
* `OnlyBoundStrands`: a replay that had decisions left leaves no task waiting on a
  platform whose cores are idle and whose GPU has nothing queued.
* `NothingStranded`: under EDF, hybrid and weighted, once only the periodic checks
  are pending, every task has completed. The one exception are the two policies that
  preempt, when a core is left to a finished task: a preempted task completes by the
  old event of another core, and who is queued on the core it ran on waits for ever
  (`doc_frees_core`). The hybrid policy never preempts and never strands a task.

Drivers (`gym`, `reward`):

* `CreditedOnce`, `TerminatedForGood`, `DrivesLikeRunEpisode`: every completion is
  in the reward of one `step`; an ended episode does not move; up to there the
  environment is a refinement of `SimEngine`.
* `PickedIsShownFirst`: slot 0 is the task `apply_action` will get.
* `RewardAgreesWithMetrics`: the rewards of an episode and its metrics count the
  same deadlines met and missed.

Data (`data`):

* `InWindow`, `RoundRobin` (workloads); `EpisodesWhole`, `GenerationEnds`
  (generation); `WrittenFilesPartition` (split); `FillsItsArrays` (load);
  `OwnOutcome` (traces); `LabelledOnce` (DAgger).

Models (`models`):

* `RoundTrip` (codec); `ReturnsBest`, `StopsForPatience`, `BaselineKept` (MLP jobs);
  `NamedForItsSize` (MLP jobs: with default paths, what is saved under a platform's
  name has its number of outputs, and no job for a platform fails a strict load; a job
  without `--platform` takes the number from its data and may); `CheckpointsInTime` (PPO); `ExportMatchesVectors`
  (cascades); `FoldingIsExact` (networks); `ExportedVerifies` (directory);
  `PairsShareEpisode` (evaluation).

Each property stands in its module under a comment that says which code it is
about, and `PROJECT.json` names for each a slip in the code that breaks it
("mutants"), and for each hazard the properties that watch it.

### Where the code and its documents differ

Four differences have a run that ends in a counterexample:

| run | what happens |
|---|---|
| `doc_frees_core` | a preempted task completes by its old core's event while it runs on a second core, which keeps the finished task |
| `doc_gpu_queue` | the GPU never starts its first job |
| `doc_p99` | the reported 99th percentile of the latencies is their mean, so half of the tasks may be above it |
| `doc_split_leak` | an episode is in this split's test file and in the training file an earlier split left |

Others met while modelling; the models do what the code does:

* `actions.py:138`: a task preempted by a decision keeps the remaining work of its
  last quantum, so what it ran since is lost; `engine.py:432` takes unscaled time
  off unscaled work, so a fast core is not faster in the quanta before the last.
* `engine.py:627`: a quantum event names its core only and strikes whoever runs
  there; `engine.py:473`: a boost does not move a task inside its run queue.
* `engine.py:354`: arrivals are added to the pools without looking at their size.
* `actions.py:83`: raising a priority moves by kernel level, not by one.
* `engine.py:256`: no second of warm-up is left out of the rewards (plan, line 339).
* `engine.py:347`: `cpu_affinity` is stored and read by nothing, so the pinned
  arrivals of `asymmetric` are placed anywhere.
* `actions.py:134`: EDF asks for a preemption by deadline and gets it only when the
  priority is higher as well.
* `hybrid.py:58`: the boost to HIGH is one `raise`, which moves by one level.
* `observation.py:90`: `cache_pressure` is a share already (`engine.py:689`) and is
  divided by the largest cache once more; it is as old as the last migration check
  (`engine.py:532`), as are the figures `weighted.py` decides on.
* `oracle.py:207`: the better of two scores is returned with the actions of the
  replay, whichever was better; `oracle.py:198`: nothing is decided after
  `max_decisions`; `oracle.py:179` never ends with more actions per step than the
  platform has.
* `metrics.py:163`, `:175`, `:191`: the severity of misses is that of the mean latency, a
  task that starved and then completed is not counted as starved, and inversions
  compare a queue with the running task instead of with the entries before it.
* `generate_dataset.py:81`: `hash()` of strings differs between processes, so a
  dataset cannot be generated again from its seeds alone.
* `split_dataset.py`: nothing holds `burst_storm` out of training
  (`docs/evaluation.md:71`; `docs/FUTURE.md:122` says so itself).
* `xgboost/train.py:226`: a bound below 4 rows gives `max_rows // 4 = 0`, which is no
  bound.
* `mlp/train.py:212`: a job that never had a loss to save loads the checkpoint of an
  earlier job under the same path.
* `_train_mlp.py:77`: without `--platform` the number of outputs is what the data
  amount to, so a fine-tuning on a trace that lacks the highest action the baseline
  was trained on does not load it (`train.py:108`, strict).
* `curriculum.py:126`: the environments have no `set_scenario` and the error is
  passed over, so the phases change nothing.
* `dagger.py:104`: the rounds collect rows from the same model, which is not
  retrained between them; `dataset.py:56` then drops the rows, whose policy name is
  not one of the training experts.
* `slmos_traces.py:327`: a slot used again within a dump rewards a decision with
  another task's end; `:293` admits cores the platform does not have.
* `export_models.py:1154`: the verifier and its vectors are written for the last
  suffix exported, and compile against the weights without one. An export killed
  between the weights and the vectors may leave a directory that does not verify.
* `gym_env.py:96`: without a seed an episode gets the next number, so parallel
  environments that start close together repeat each other's episodes.

## 5. Proofs

The theorems hold for every value of the constants that meets the named
assumptions of the module: for the engine, sizes and periods are positive where
the code divides by them or re-arms by them, profiles have their types,
`CsMin <= CsMax`, `Actions` is a set of decisions of the platform; for the tools,
counts are natural numbers, losses are integers apart from `Infinity` and `NaN`,
and `None` is none of the values it stands beside. So they hold for any number of
tasks, cores, files, episodes, workers, jobs, agents and exports. Every theorem
named below but `EpisodeIsFinite`, `NextEventIsUnique`, `PoolNeverWaits` and
`GenerationIsFinite` states a property that a run checks, so that the instance shows
what the theorem generalizes.

A few theorems need more, as an assumption of their own that stands in their
statement:

* `NoPreemptionNoGpu` (`CoresAreDriven`, `WorkIsDone`, `ProgressIsKept`): no action
  preempts and no task may use the GPU. With either the statements are false: a
  preempted task leaves its completion in the heap, and the GPU never finishes.
* `ReferenceCores` (`WorkIsDone`, `ProgressIsKept`): every core has the reference
  frequency, because the quantum takes unscaled time off (section 4).
* `ResolvesATick` (`RewardsAgree`): the deadline component of a reward is computed in
  thousandths of its range, and a tick of lateness must be visible in them.
* `AffinityAssumption` (`CoresInTurn`; an assumption of `Workloads` that its runs
  evaluate): a scenario with an affinity map has no burst overlay, seeds every
  component once and lists no core twice for one. The only such scenario,
  `asymmetric`, is of this form; with a component seeded twice the statement is
  false, since other components' numbers lie between its two blocks.
* `TreesAssumption`, `ModelsAssumption` (`XgbExportsPredict`; assumptions of `XgbExport`
  that its run evaluates): a dump nests finitely, its leaves and conditions are
  integers, a classifier has at least two classes, and a binary one a single base
  score, as XGBoost stores it (the comment at `export_models.py:309` says what would
  diverge otherwise).
* `SamplesThePlatform` (`ReplayIsObeyed`): the oracle samples among all decisions of a
  platform that has a core that is not isolated.

### The engine (`SimEngineTypes`, `SimEngineProofs`, `SimEngineAccounts`)

* `TypeCorrect`: `Spec => []TypeOK`. `TypeOK` is inductive by itself; the proof
  has one lemma per action, split along `LoopOK`, `TasksOK`, `CoresOK`,
  `AccountsOK`. The facts that carry it are that `AdjustPriority` and
  `DeadlineBoost` stay within the priorities, and that inserting and removing
  queue entries yields queues.
* `TimeInOrder`: `Spec => []NothingInThePast`, inductive with `TypeOK`: whatever a
  handler pushes lies at or after the clock, and the clock at or after the event.
* `BusyTimeCorrect`: `Spec => []BusyWithinElapsed`, from `TimeInOrder`: a step adds
  at most the advance of the clock, and that is at most the advance of the event
  time because the clock was not behind.
* `MutexCorrect`: `Spec => []Mutex`. `Mutex` alone is not inductive: a second
  arrival of a task would make a running task READY. The invariant `SharingInv`
  adds `ArrivesOnce`: a task has at most one arrival in the heap, and none once
  it has arrived.
* `EngineShares`: `Spec => SharesCores`. Initial states map to initial states; each
  action, under `TypeOK` and `SharingInv`, maps to a step of `TaskSharing` or to a
  stutter.
* `CountedOnce`: `Spec => []CompletedOnce`. Every step either keeps the terminated
  tasks with their deadlines and finish times (`KeepsAccounts`) or adds one that
  was RUNNING (`Completes`); the counts follow by adding an element to a finite
  set. `ArrivesOnce` is needed because a second arrival would move a deadline that
  has been judged.
* `MemoryIsBalanced`: `Spec => []MemoryBalanced`. What a pool holds is a sum over the
  tasks that live (`TotalOf`); a task enters the sum once when it arrives and
  leaves it once when it terminates, which is `Moves` of the refinement again, so
  what is subtracted was in the sum and the clamp at zero never acts.
* `RewardsAreWhole`: `Spec => []RewardedOnce`. It is not inductive: an episode that
  ends without a decision throws its completions away. `NothingStarted` adds that
  before the first decision no task runs, so there are none.
* `NeverIdle`: `Spec => []WorkConserving`, inductive with `TypeOK`: a handler that
  frees a core asks for a decision when a task is READY, one that asks for none
  leaves tasks and cores alone, and a decision without the GPU leaves some core
  with a task.
* `CoresAreDriven`: `OneEventPerBusyCore`. `CoreDriven` is the central lemma: a step
  that touches one core and leaves it with no task and no event, or with a task
  and its one event, keeps all cores driven. Mutual exclusion is what keeps the
  other cores' tasks untouched.
* `EpisodeIsFinite`: `Spec => [](Rank \in Ranks) /\ [][Below(Rank', Rank)]_vars`. `Rank` is
  a tuple of seven natural numbers, compared in lexicographic order: whether the
  episode is under way, the time left, the tasks that have not arrived, those that
  have not completed, the quantum events due now, whether a decision is wanted, and
  the events due now. A periodic check that pushes itself again lies later; a
  quantum that pushes another has a positive quantum; what a handler or a decision
  pushes at the current time is a completion or a quantum of a task that it starts,
  which the numbers further left or the decision pay for. `RanksWellFounded` shows
  that every nonempty set of ranks has a minimal one. So no behaviour takes infinitely many
  steps, for any workload and agent: of `EpisodeEnds` only that a state which is not
  done has a step (ENABLED) and that the loop takes it (fairness) is left to TLC.
* `NextEventIsUnique`: `Spec => []OneNextEvent`. Push numbers are given once
  (`PushOrderInv`), so `Before` is a strict total order of the pending events and
  a handler never depends on which of several equal entries the heap returns.

### Agents and rewards (`AgentProofs`)

* `WorkIsDone`, `ProgressIsKept`: the history variables of `SimEngineWork` measure each
  task's time on a core. `WorkInv` says of a task that waits that what it has run and
  what it has left make up its duration (`Accounted`), of one on a core the same for
  the time before this stretch, and that the core's one pending event
  (`OneEventPerBusyCore`) lies where its work ends, or its quantum when that is
  shorter (`CoreOnTime`).
* `RewardsAgree`: the deadline component of `compute_reward` is the whole reward
  exactly when `finish_time <= Deadline`, so with `CompletedOnce` the number of
  rewarded tasks is the engine's counter.
* `FirstSlotIsDecided`: `SomeoneWaits` says that a decision is only asked for when a
  task is READY. The observation sorts by what the engine picks by, and the
  greatest key is unique up to ties the engine breaks in the same way.
* `BoundStrands`: `OracleInv` says that the baseline and the replay conserve work, and
  that from the drain on, unless the bound on decisions was reached, no event
  within the episode is left and no task waits while all cores are idle (`Drained`).
* `EarlierDisplaces`: under EDF the action asks for a preemption only after the
  comparison of the deadlines, and `PreemptCurrent` is the only step that
  takes a core from a task that keeps it.
* `NobodyIsStranded`: `OracleSpec => []NothingStranded`. `ServedInv` says who still has
  an event: a task that has not arrived has its arrival (`NextIsPending`), a core
  with an unfinished task has an event of its own that will serve it
  (`WillBeServed`), a RUNNING task is the current one of a core
  (`RunningIsCurrent`), and the GPU is not used. With `WorkConserving` of `OracleInv`
  a READY task needs a core that is busy, whose event is then pending, or which
  keeps a finished task; under the hybrid policy, which never preempts,
  `OneEventPerBusyCore` excludes the latter. An earlier property, that the experts serve every
  task in a long enough episode, held of its instance only: with five tasks on two
  cores under EDF, and with three under weighted, cores end up with finished tasks
  and queues nobody starts.
* `ReplayIsObeyed`: the replay's actions come from `Actions` and are the best of a
  sample by their score; the score of an action the engine would not obey is below
  that of some action it would, which exists by `SamplesThePlatform`.

### The environment (`GymEnvProofs`)

* `CreditsAreWhole`: `GymSpec => []CreditedOnce`. `GymInv` adds to the engine's
  invariants that nothing has completed before the first decision (`NothingDone`),
  that the pending task is the one the engine picks (`PendingIsNext`), and that an
  episode ends only with events beyond it (`OnlyLateEvents`).
* `StaysTerminated`: the action property, for callers that step after the end; it
  rests on `OnlyLateEvents`.
* `GymIsRunEpisode`: `GymSpec => DrivesLikeRunEpisode`. The lemmas show handler by
  handler that a step of the loop is the step of `run_episode` under the mapping,
  which changes only what is logged: a call's rewards count as logged when the
  transition it belongs to is (`LoggedBy`).

### The tools (`DataProofs`, `ModelProofs`)

* `SplitPartitions` (`DatasetSplit`): `SplitInv` has two parts: the shares partition
  the episodes that were counted (`SharesPartition`), and a file that is open holds
  the rows of its share read so far while of a share without a file nothing has
  been read (`StreamedSoFar`). At the end of the list that is the property.
* `EpisodesAreWhole` (`DatasetBatch`): `BatchInv` says that for some base seed the
  episodes not yet taken, those that run on a worker and those that came back
  part the numbers of the batch among them, each under its own seed (`Batched`),
  that the results have as many different numbers as there are results
  (`ResultsOK`), and that the table flattened from them holds each side by side and
  nothing else (`TableWhole`). `TableStaysWhole` is the central lemma: the rows of
  one more episode leave those of the others where they are. When as many results
  as episodes have come back, their numbers are a subset of `0 .. n - 1` with `n`
  elements, so every episode is there and no worker holds one (`AllBack`).
* `PoolNeverWaits`, `GenerationIsFinite` (`DatasetBatch`): `NoneLost`, another conjunct of
  `BatchInv`, says that an episode that was taken has come back or a worker has it. So
  while results are missing a worker can take or return one (the pool has a worker:
  `Workers # {}` is an assumption of the theorem), and every such step lowers the
  combinations that follow, the episodes not taken or the results missing
  (`BatchRank`). What is left of `GenerationEnds` is ENABLED and fairness.
* `RowsAreLabelledOnce` (`Dagger`): `DaggerInv` orders the rows by the seeds of their
  episodes: those of the round lie between its first seed and that of the episode
  under way (`RoundInv`), those of the tables before it below (`TablesInv`).
* `ArraysAreFilled` (`DatasetLoad`): `KeepsItsShare` says that the write position is
  what the row groups read so far were given, and that their shares stay within
  half a row per group of the total; the arithmetic of rounding is in the lemmas
  about `RoundedShare`.
* `ArrivalsInWindow` (`Workloads`): `WorkloadInv` says that the job in hand keeps its
  clock within its window (`ClockInv`) and that what it has seeded lies in the
  episode (`SeededInv`), windows and bursts at the end included.
* `CoresInTurn` (`Workloads`): `BlocksInv` says that the arrivals are numbered in their
  order and that, in a scenario with an affinity map, those of a component are
  consecutive, because it is seeded once. Among consecutive numbers two remainders
  occur equally often to within one (`RemaindersEven` of `DataLemmas`: going back from
  one number to the next with the other remainder is an injection that leaves out
  the first), so the modulus shares a component's arrivals out although the numbers
  run through all components.
* `RewardsAreOwn` (`TraceIngest`): no two slots hold one job (`SlotsInv`), and a job
  whose end is in the ring is in no slot and ends there once (`RingInv`), also after
  the ring has dropped records; the rows are those of the dump (`RowsInv`).
* `RoundTripCorrect` (`ActionCodec`): the invariant `CodecInv` says that the index
  is that of the action, and everything decoded so far came from the platform's
  actions; the arithmetic is in one lemma per decoder, on constants.
* `NamesMatchSizes`, `BaselineSurvives` (`MlpTraining`): `PathsInv` adds what a job
  with default paths knows of where it reads and writes and how many outputs it has
  (`DefaultPaths`): a job for a platform starts from, and reads back, a file under that
  platform's name, so its strict loads find the size it was saved with.
* `BestReturned`, `PatienceCounted` (`MlpTraining`): `BestInv` says that either no
  epoch had a loss, or `best_epoch` is the first with the least one (`HasBest`);
  that in the second case the checkpoint holds the weights of that epoch
  (`SavedBest`), which is why the file can be read back at the end; and that the
  patience counter is the number of epochs since (`Waited`).
* `CheckpointsAreSaved` (`PpoTraining`): `CheckpointInv` says that after `k` calls of the
  callback the checkpoints are those of every `SaveFreq`-th call; the rest is
  arithmetic of quotients.
* `NetworkFolds` (`NetworkFold`): for layers of any sizes. The lemmas are those of
  linear algebra, about `Dot`: it distributes over addition and takes out the
  scale column by column, so `W (s x + t) + b` is `(W s) x + (W t + b)`; `FoldInv`
  keeps that the network has fitting layers and the export is their folding, and
  the proof follows both forward passes layer by layer.
* `XgbExportsPredict` (`XgbExport`): `XgbInv` says that the blob, the vectors and the
  C source are those of one model, trained some time before (`SourcesOf`). That the
  arrays of a model predict what it does is shown by induction on the height: the
  nodes of a subtree lie side by side from the index its parent was given, in the
  rebased section and in the source alike, and a walk of as many steps as there are
  nodes ends in the leaf the comparisons lead to. Trees of one leaf in front shift
  the class of the others by the number of classes, that is not at all, so the sums
  are the margins, and the logit of a binary base score moves the threshold to
  zero.
* `ExportsVerify` (`ExportFiles`): `ExportInv` says for the platform the directory
  was used for that the weights, the header and the expected actions of a model
  belong to one checkpoint (`Consistent`), except between the writing of the
  weights and of the actions, when the weights are those in hand (`Weighted`), and
  that then the export has not ended. `ArgsUsed` ties the running export to the
  history the property speaks of.
* `ComparisonsFair` (`Evaluation`): `EvalInv` says that a result is determined by
  its agent, scenario and seed (`IsRow`), in memory, in the result file and in every
  pair, so that what is joined on scenario and seed has equal arrivals.

### Sums, recursion and joined sequences (`DataLemmas`)

Memory pools, inner products and tables are folds over data. The library's
induction theorems take the induction hypothesis as an operator, which the
provers used here cannot instantiate, so the lemmas argue by the least
counterexample instead: the set of finite subsets (or of lengths) for which a
statement fails, if it is not empty, has a minimal element by `WFMin`
(`SmallestSet`, `SmallestNumber`), and the minimal one is refuted by the step of the
induction. That gives, for `TotalOf` (module `Totals`: the sum of a function over a
finite set) that it exists, takes out an element, is monotone in what it sums and
distributes over addition and scaling; and for the community modules'
`FlattenSeq` that appending a sequence appends its elements, that a sequence
of sequences has the elements of each at an offset that is the total length of those
before it, and for functions defined by recursion over a set with a height that they
exist and satisfy their equation. The lemmas about
quotients and remainders, with a divisor that is not a numeral, are there too.

### Checked by TLC only

* Liveness: `EpisodeEnds` and `GenerationEnds`. A proof needs ENABLED under a fairness
  condition; their safety halves are `EpisodeIsFinite`, and `PoolNeverWaits` with
  `GenerationIsFinite`.
* `CompletionFreesCore`, `GpuServesQueue` and the two others of the `doc_` runs, which
  are false.

## 6. Not modelled

* Dead code of the engine: the `GPU_COMPLETION` handler and `_start_next_gpu_job`
  (nothing pushes the event), `BLOCKED`, `SCHEDULING_DECISION`, `loaded_models` and
  the reference counts.
* Numeric code without control: gradients and optimizers (a loss is any value),
  the growing of trees (any tree), the policy network of `rl/network.py` and its
  behavioural cloning, the derived features of `xgboost/features.py`, the t-tests'
  arithmetic, the distributions behind random draws.
* The inference of the model agents in `evaluation/agents.py`: their answer is any
  action, as in `SimEngine`.
* Bytes and text: the header and record layout of the kernel's trace, the text of
  the generated C files, ONNX files, plots.
* `optuna_search`, whose result nothing reads; the extraction of the PPO actor's
  layers from its archive; the order of the stages in `train_all.py`, of which
  `TrainModel` of `ExportFiles` keeps that any of them has run.

## 7. What is left

An abstract specification of the tools' files, with the modules that write them
shown to implement it.

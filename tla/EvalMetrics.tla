----------------------------- MODULE EvalMetrics -----------------------------
(***************************************************************************)
(* compute_eval_metrics of evaluation/metrics.py: what is reported of an   *)
(* episode, computed from the engine as the episode left it, once          *)
(* evaluate_agent has brought the statistics of the cores up to date.      *)
(***************************************************************************)
EXTENDS CoreStats

CONSTANTS
  None,
  Starving,        \* a wait of that many times the duration starves (10)
  AverageTarget    \* the mean of TARGET_LATENCY_NS

VARIABLE em       \* the EvalMetrics, None before they are computed
evalVars == <<vars, statVars, em>>

Ended == {t \in Tasks : state[t] = "TERMINATED"}
Latency(t) == finish_time[t] - arrival_time_ns[t]

total_latency_ns == MapThenSumSet(Latency, Ended)
MeanLatency == IF Ended = {} THEN 0 ELSE total_latency_ns \div metrics.completed

(* _collect_latencies: as many copies of the mean as tasks have completed. *)
_collect_latencies == [i \in 1 .. (IF total_latency_ns > 0 THEN metrics.completed ELSE 0)
                         |-> MeanLatency]
P99 == IF _collect_latencies = <<>> THEN 0 ELSE _collect_latencies[1]

(* deadline_compliance_rate *)
Compliance ==
  IF metrics.met + metrics.missed = 0 THEN Unit
  ELSE (metrics.met * Unit) \div (metrics.met + metrics.missed)

(* _collect_deadline_overshoots, and its mean. *)
MissSeverity == IF metrics.missed = 0 THEN 0 ELSE Larger(0, MeanLatency - AverageTarget)

(* _count_starvation *)
Starved(t) ==
  /\ state[t] = "READY" /\ Work[t] > 0
  /\ clock_ns - arrival_time_ns[t] > Starving * Work[t]
_count_starvation == Cardinality({t \in Tasks : Starved(t)})

(* _count_priority_inversions: entries of a queue above the core's task.   *)
Inverted(c) ==
  {i \in DOMAIN run_queue[c] :
     /\ current_task[c] # NoTask
     /\ effective_priority[run_queue[c][i]] > effective_priority[current_task[c]]}
_count_priority_inversions == MapThenSumSet(LAMBDA c : Cardinality(Inverted(c)), Cores)

compute_eval_metrics ==
  [dcr |-> Compliance, mean_latency |-> MeanLatency, p99_latency |-> P99,
   miss_severity |-> MissSeverity, starvation_count |-> _count_starvation,
   priority_inversion_count |-> _count_priority_inversions,
   tasks_arrived |-> metrics.arrived, tasks_completed |-> metrics.completed]

EvalInit ==
  /\ Init /\ StatsInit
  /\ em = None

Episode == Next /\ KeepStats /\ UNCHANGED em

(* evaluate_agent after run_episode. *)
Evaluate ==
  /\ pc = "done" /\ em = None
  /\ em' = compute_eval_metrics
  /\ UNCHANGED vars
  /\ IF clock_ns = 0 THEN UNCHANGED statVars ELSE UpdateUtilizationStats

EvalNext == Episode \/ Evaluate
EvalSpec == EvalInit /\ [][EvalNext]_evalVars

-----------------------------------------------------------------------------
(* docs/evaluation.md:13: "P99 latency", the "99th percentile latency".    *)
(* With less than a hundred tasks no latency lies far above it; at least   *)
(* half of them do not.  Fails: it is the mean. *)
P99CoversHalf ==
  em # None =>
    2 * Cardinality({t \in Ended : Latency(t) <= em.p99_latency}) >= Cardinality(Ended)
=============================================================================

------------------------------- MODULE Oracle -------------------------------
(***************************************************************************)
(* run_offline_episode of slm_sim/experts/oracle.py: an episode under the  *)
(* hybrid policy gives the score to beat; then the same workload is        *)
(* replayed with the best of a few sampled actions at each of the first    *)
(* MaxDecisions decisions, and what is left in the heap is processed       *)
(* without deciding anything.                                              *)
(***************************************************************************)
EXTENDS Experts

CONSTANTS
  ActionsPerStep,   \* actions_per_step
  MaxDecisions,     \* max_decisions
  Share            \* a multiple of every possible number of deadlines

VARIABLES
  phase,            \* "baseline", "replay", "drain" or "returned"
  seeded,           \* the arrival times the seed of the workload gives
  best_actions,     \* the actions of the replay
  baseline_score,   \* score of the hybrid episode
  best_score        \* the score that is returned

oracleVars == <<phase, seeded, best_actions, baseline_score, best_score>>
allVars == <<expertVars, oracleVars>>

(* _compute_score in tenths of a Share: 1000 times the deadline           *)
(* compliance rate plus a tenth per completed task. *)
EpisodeScore ==
  LET deadlines == metrics.met + metrics.missed
  IN  10000 * (IF deadlines = 0 THEN Share ELSE (metrics.met * Share) \div deadlines)
        + metrics.completed * Share

(* _score_action, in tenths. *)
Urgent(t) == Deadline(t) > 0 /\ Remaining(t) < SoonDeadline
UrgencyBonus(t) ==
  IF ~ Urgent(t) THEN 0 ELSE IF Remaining(t) < NearDeadline THEN 20 ELSE 10
PreemptionBonus(t, a) ==
  IF ~ a.preempt \/ current_task[a.core] = NoTask THEN 0
  ELSE IF effective_priority[current_task[a.core]] < effective_priority[t] THEN 4 ELSE -3
ImmediateScore(t, a) ==
  IF a.core >= NCores THEN (IF t \in CanUseGpu /\ GpuAvailable THEN 5 ELSE -10)
  ELSE IF a.core \in Isolated THEN -20
  ELSE Larger(0, 10 - 2 * Load(a.core))
         + UrgencyBonus(t)
         + (IF WorkingSet[t] <= CacheSize[a.core] THEN 3 ELSE 0)
         + (IF a.adj = 2 /\ Urgent(t) THEN 2 ELSE 0)
         + PreemptionBonus(t, a)

(* The candidates: the first core that is not isolated, keeping the        *)
(* priority, and random actions until there are ActionsPerStep (at least   *)
(* two); the best of them is taken.  An action is the best of some such    *)
(* sample when the sample fits among the actions that score no more.       *)
(* Mutation: the sample is random actions only. *)
DefaultAction ==
  {a \in Actions : a.adj = 1 /\ ~ a.preempt /\ a.core \in Migratable
                     /\ \A c \in Migratable : a.core <= c}
NotBetter(t, a) == {b \in Actions : ImmediateScore(t, b) <= ImmediateScore(t, a)}
IsBestOfRandom(t, a) == Cardinality(NotBetter(t, a)) >= ActionsPerStep
IsBestOfSample(t, a) ==
  /\ DefaultAction \subseteq NotBetter(t, a)
  /\ Cardinality(NotBetter(t, a)) >= ActionsPerStep

-----------------------------------------------------------------------------
OracleInit ==
  /\ ExpertInit
  /\ phase = "baseline"
  /\ seeded = [t \in Tasks |-> (CHOOSE e \in event_queue : e.task = t).ts]
  /\ best_actions = <<>>
  /\ baseline_score = 0
  /\ best_score = 0

(* The first episode; under another policy than hybrid it is all there is. *)
BaselineStep ==
  /\ phase = "baseline"
  /\ ExpertNext
  /\ UNCHANGED oracleVars

(* The baseline without a decision is returned at once; otherwise the      *)
(* workload is seeded again. *)
StartReplay ==
  /\ phase = "baseline"
  /\ policy = "hybrid"
  /\ pc = "done"
  /\ prev_obs
  /\ phase' = "replay"
  /\ policy' = "oracle"
  /\ baseline_score' = EpisodeScore
  /\ Restart(seeded)
  /\ utilization_pct' = [c \in Cores |-> 0]
  /\ cached' = [c \in Cores |-> 0]
  /\ UNCHANGED <<seeded, best_actions, best_score>>

(* The loop of the replay goes on while decisions are left. *)
(* Mutation: the loop stops one decision early. *)
OneLess == Len(best_actions) < MaxDecisions - 1
MayDecide == Len(best_actions) < MaxDecisions

ReplayEvent ==
  /\ phase = "replay"
  /\ MayDecide
  /\ ProcessEvent
  /\ KeepStats
  /\ UNCHANGED <<policy, oracleVars>>

(* A decision of the replay; no transition is logged and no completion     *)
(* forgotten. *)
ReplayDecision(t, a) ==
  /\ phase = "replay"
  /\ IsPicked(t)
  /\ IsBestOfSample(t, a)
  /\ ApplyAction(t, a)
  /\ best_actions' = Append(best_actions, a)
  /\ UNCHANGED <<rewardVars, recently_completed, statVars, policy, phase, seeded,
                 baseline_score, best_score>>

(* The replay is left with its decisions used up, or at the end of the     *)
(* episode. *)
StopReplay ==
  /\ phase = "replay"
  /\ pc = "event"
  /\ IF MayDecide THEN LoopEnds ELSE UNCHANGED event_queue
  /\ phase' = "drain"
  /\ UNCHANGED <<pc, clock_ns, event_ts, event_sequence, taskVars, coreVars, core_busy_ns,
                 gpu_queue, accountVars, rewardVars, statVars, policy, seeded, best_actions,
                 baseline_score, best_score>>

(* The rest of the heap; the handlers' wish for a decision is ignored. *)
DrainEvent ==
  /\ phase = "drain"
  /\ ProcessEvent
  /\ KeepStats
  /\ UNCHANGED <<policy, oracleVars>>

IgnoreDecision ==
  /\ phase = "drain"
  /\ pc = "decide"
  /\ pc' = "event"
  /\ UNCHANGED <<clock_ns, event_ts, event_queue, event_sequence, taskVars, coreVars,
                 core_busy_ns, gpu_queue, accountVars, rewardVars, statVars, policy, oracleVars>>

(* The better of the two scores is returned with the actions of the        *)
(* replay. *)
Return ==
  /\ phase = "drain"
  /\ pc = "event"
  /\ LoopEnds
  /\ pc' = "done"
  /\ phase' = "returned"
  /\ best_score' = Larger(EpisodeScore, baseline_score)
  /\ UNCHANGED <<clock_ns, event_ts, event_sequence, taskVars, coreVars, core_busy_ns,
                 gpu_queue, accountVars, rewardVars, statVars, policy, seeded, best_actions,
                 baseline_score>>

OracleNext ==
  \/ BaselineStep
  \/ StartReplay
  \/ ReplayEvent
  \/ \E t \in Tasks, a \in Actions : ReplayDecision(t, a)
  \/ StopReplay
  \/ DrainEvent
  \/ IgnoreDecision
  \/ Return

OracleSpec == OracleInit /\ [][OracleNext]_allVars

-----------------------------------------------------------------------------
(* The replay never takes an action that apply_action would carry out as   *)
(* another one: none for the GPU slot when the task cannot run there, and  *)
(* none for an isolated core, because the default action is always among   *)
(* the candidates and scores better (_score_action, apply_action). *)
ActionsAreObeyed ==
  [][\A t \in Tasks :
       phase = "replay" /\ IsPicked(t) /\ Len(best_actions') > Len(best_actions)
         => LET a == best_actions'[Len(best_actions')]
            IN  Targets(a, a.core) \/ GpuTarget(t, a)]_allVars

(* Only the bound on the decisions leaves tasks unplaced: when the replay  *)
(* has taken fewer, no task waits at the end while every core is idle and  *)
(* the GPU has nothing queued (the loops of run_offline_episode). *)
OnlyBoundStrands ==
  phase = "returned" /\ best_actions # <<>> /\ Len(best_actions) < MaxDecisions
    /\ (\A c \in Cores : current_task[c] = NoTask) /\ gpu_queue = <<>>
    => \A t \in Tasks : state[t] # "READY"
=============================================================================

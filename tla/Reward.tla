------------------------------- MODULE Reward -------------------------------
(***************************************************************************)
(* compute_reward of slm_sim/reward.py, and the rewards run_episode logs:  *)
(* a transition is rewarded when the next decision, or the end, is reached.*)
(* Rewards are in units of Unit, which is a multiple of ten; the total is  *)
(* in hundredths of them.                                                  *)
(***************************************************************************)
EXTENDS Observation

CONSTANTS
  TargetLatency    \* component_type -> TARGET_LATENCY_NS

VARIABLE logged    \* the reward of the transition logged last
rewardStateVars == <<vars, statVars, logged>>

(* _compute_deadline_reward of one completed task.                         *)
(* Mutation: a task that ends on its deadline is late. *)
LateAtDeadline(t) ==
  LET overshoot == finish_time[t] - Deadline(t)
  IN  IF Deadline(t) = 0 THEN Unit \div 10
      ELSE IF overshoot < 0 THEN Unit
      ELSE Larger(-2 * Unit, -((2 * Unit * overshoot) \div RelDeadline[t]))
DeadlineReward(t) ==
  LET overshoot == finish_time[t] - Deadline(t)
  IN  IF Deadline(t) = 0 THEN Unit \div 10
      ELSE IF overshoot <= 0 THEN Unit
      ELSE Larger(-2 * Unit, -((2 * Unit * overshoot) \div RelDeadline[t]))

(* _compute_latency_reward of one completed task.                          *)
LatencyReward(t) ==
  Larger(-Unit, Smaller(Unit,
    Unit - ((finish_time[t] - arrival_time_ns[t]) * Unit)
             \div TargetLatency[ComponentType[t]]))

(* The mean over the completions since the last transition. *)
MeanOf(Of(_)) ==
  IF recently_completed = <<>> THEN 0
  ELSE MapThenSumSet(LAMBDA i : Of(recently_completed[i]), DOMAIN recently_completed)
         \div Len(recently_completed)

(* _compute_balance_reward *)
BalanceReward == IF SumOfUse = 0 THEN Unit ELSE Larger(0, Unit - Variation)

(* _compute_power_reward *)
ActivePower == MapThenSumSet(LAMBDA c : utilization_pct[c] * PowerWeight[c], Cores)
MaxPossible == MapThenSumSet(LAMBDA c : PowerWeight[c], Cores)
PowerReward == Smaller(Unit, Larger(0, Unit - ActivePower \div MaxPossible))

(* compute_reward with the default weights. *)
compute_reward ==
  LET d == MeanOf(DeadlineReward)
      l == MeanOf(LatencyReward)
  IN  [deadline |-> d, latency |-> l, balance |-> BalanceReward, power |-> PowerReward,
       total |-> 50 * d + 25 * l + 15 * BalanceReward + 10 * PowerReward]

NoReward == [deadline |-> 0, latency |-> 0, balance |-> 0, power |-> 0, total |-> 0]

(* A transition is logged by a step that decides, or ends the episode,     *)
(* after a decision. *)
Logs == prev_obs /\ (pc = "decide" \/ pc' = "done")

RewardInit == Init /\ StatsInit /\ logged = NoReward
RewardNext ==
  /\ Next
  /\ KeepStats
  /\ logged' = IF Logs THEN compute_reward ELSE logged

RewardSpec == RewardInit /\ [][RewardNext]_rewardStateVars

-----------------------------------------------------------------------------
(* The reward and the metrics judge every completion alike: it gets the    *)
(* whole reward when it counts as met and a penalty when it counts as      *)
(* missed, on the deadline too (reward.py _compute_deadline_reward,        *)
(* engine.py _handle_task_completion). *)
RewardAgreesWithMetrics ==
  /\ metrics.met = Cardinality({t \in Terminated : DeadlineReward(t) = Unit})
  /\ metrics.missed = Cardinality({t \in Terminated : DeadlineReward(t) < 0})
=============================================================================

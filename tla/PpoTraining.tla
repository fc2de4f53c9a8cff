----------------------------- MODULE PpoTraining -----------------------------
(***************************************************************************)
(* training/rl/train.py, curriculum.py and vec_env.py: PPO's rollouts over *)
(* a vector of environments, the callbacks that save checkpoints and move  *)
(* the curriculum on, and the scenario each environment plays.  What the   *)
(* policy learns, and its evaluation, are left out.  The loop of learn and *)
(* the calls of the callbacks are Stable Baselines 3's, as used here.      *)
(***************************************************************************)
EXTENDS Integers, Sequences, FiniteSetsExt

CONSTANTS
  n_envs, n_steps,    \* environments, steps of each in a rollout
  total_timesteps,
  save_every,         \* the 500_000 of train.py:180
  phases,             \* a sequence of [start_step, scenarios]
  initial_scenario,
  use_curriculum

ASSUME PpoAssumption ==
  /\ n_envs \in Nat \ {0} /\ n_steps \in Nat \ {0} /\ total_timesteps \in Nat
  /\ save_every \in Nat \ {0} /\ use_curriculum \in BOOLEAN
  /\ phases \in Seq([start_step : Nat, scenarios : SUBSET STRING]) /\ phases # <<>>
  /\ phases[1].start_step = 0
  /\ \A i, j \in DOMAIN phases : i < j => phases[i].start_step < phases[j].start_step

VARIABLES
  num_timesteps,      \* of all environments together
  rollout,            \* steps taken in this rollout
  phase_idx,          \* the curriculum's _current_phase_idx
  sampled,            \* the scenario asked for last, initially the first one
  env_scenario,       \* environment -> its scenario_name
  checkpoints         \* num_timesteps at each checkpoint
ppoVars == <<num_timesteps, rollout, phase_idx, sampled, env_scenario, checkpoints>>

Envs == 0 .. n_envs - 1

(* make_vec_env: all environments begin with one scenario.                 *)
PpoInit ==
  /\ num_timesteps = 0 /\ rollout = 0 /\ phase_idx = 1
  /\ sampled = initial_scenario /\ env_scenario = [i \in Envs |-> initial_scenario]
  /\ checkpoints = <<>>

Learning == num_timesteps < total_timesteps \/ rollout > 0

(* save_freq counts the calls of the callback, one for all environments.   *)
(* Mutation: it is given in timesteps. *)
SaveFreqInSteps == save_every
SaveFreq == Max({save_every \div n_envs, 1})

(* One step of every environment. *)
VecStep ==
  /\ Learning /\ rollout < n_steps
  /\ num_timesteps' = num_timesteps + n_envs /\ rollout' = rollout + 1
  /\ checkpoints' = IF ((num_timesteps + n_envs) \div n_envs) % SaveFreq = 0
                    THEN Append(checkpoints, num_timesteps + n_envs) ELSE checkpoints
  /\ UNCHANGED <<phase_idx, sampled, env_scenario>>

(* CurriculumSchedule.update: the last phase that is reached. *)
Update(steps) ==
  LET reached == {i \in DOMAIN phases : steps >= phases[i].start_step}
  IN  IF reached = {} THEN phase_idx ELSE Max(reached)

(* CurriculumCallback._on_rollout_end: the environments have no            *)
(* set_scenario, the AttributeError of the call is passed over. *)
RolloutEnd ==
  /\ rollout = n_steps /\ rollout' = 0
  /\ IF use_curriculum
     THEN /\ phase_idx' = Update(num_timesteps)
          /\ sampled' \in phases[phase_idx'].scenarios
     ELSE UNCHANGED <<phase_idx, sampled>>
  /\ UNCHANGED <<num_timesteps, env_scenario, checkpoints>>

PpoNext == VecStep \/ RolloutEnd
PpoSpec == PpoInit /\ [][PpoNext]_ppoVars

-----------------------------------------------------------------------------
(* docs/training.md:167: a checkpoint is saved "every 500K steps"; the     *)
(* callback counts calls, not timesteps, so the period must be shared out  *)
(* over the environments (train.py:178-183). *)
CheckpointsInTime ==
  \A i \in DOMAIN checkpoints \cup {Len(checkpoints) + 1} :
    LET from == IF i = 1 THEN 0 ELSE checkpoints[i - 1]
        to == IF i \in DOMAIN checkpoints THEN checkpoints[i] ELSE num_timesteps
    IN  to - from <= Max({save_every, n_envs})
=============================================================================

------------------------------- MODULE GymEnv -------------------------------
(***************************************************************************)
(* SlmSchedulerEnv of slm_sim/gym_env.py: the engine driven by a caller    *)
(* that calls step and reset, instead of by run_episode.  A step applies   *)
(* its action to the pending task, turns the event loop until the next     *)
(* decision or the end, and returns the reward of what completed.          *)
(*                                                                         *)
(* pc is "event" inside _advance_to_next_decision, "decide" when it has    *)
(* returned true and "done" when it has returned false; in the last two    *)
(* the caller is in control.  The log of run_episode (rewardVars) is not   *)
(* kept by the environment and stays empty.                                *)
(***************************************************************************)
EXTENDS SimEngine

VARIABLES
  pending,      \* _current_task_id, NoTask for None
  stepping,     \* whether _advance_to_next_decision was called by step
  terminated,   \* whether _advance_to_next_decision has returned
                \* false in this episode
  credited      \* task -> number of returned rewards its completion is in

gymVars == <<pending, stepping, terminated, credited>>
envVars == <<vars, gymVars>>

(* The first half of reset; the advance to the first decision follows. *)
GymInit ==
  /\ Init
  /\ pending = NoTask
  /\ stepping = FALSE
  /\ terminated = FALSE
  /\ credited = [t \in Tasks |-> 0]

(* What the reward a call to step returns is computed from. *)
(* Mutation: the completions of the calls before are in it as well. *)
ReturnRewardAgain ==
  credited' = [t \in Tasks |-> credited[t] + Occurrences(t)' + Occurrences(t)]
ReturnReward ==
  credited' = IF stepping THEN [t \in Tasks |-> credited[t] + Occurrences(t)'] ELSE credited

(* One turn of the loop of _advance_to_next_decision.                      *)
(* Mutation: the task the event belongs to becomes the pending one. *)
PendingIsAnyReady(t) == t \in Tasks /\ state[t] = "READY"
PendingIsPicked(t) == IsPicked(t)
TurnLoop ==
  /\ ProcessEvent
  /\ UNCHANGED <<stepping, terminated>>
  /\ IF pc' = "decide"
     THEN /\ \E t \in Tasks : PendingIsPicked(t)' /\ pending' = t
          /\ ReturnReward
     ELSE UNCHANGED <<pending, credited>>

(* _advance_to_next_decision returns false. *)
EndLoop ==
  /\ pc = "event"
  /\ pc' = "done"
  /\ LoopEnds
  /\ pending' = NoTask
  /\ terminated' = TRUE
  /\ UNCHANGED <<clock_ns, event_ts, event_sequence, taskVars, coreVars, core_busy_ns,
                 gpu_queue, accountVars, rewardVars, stepping>>
  /\ ReturnReward

(* step with a pending task: the completions rewarded before are forgotten *)
(* and the decoded action is applied. *)
Step(a) ==
  /\ pending # NoTask
  /\ ApplyAction(pending, a)
  /\ recently_completed' = <<>>
  /\ stepping' = TRUE
  /\ UNCHANGED <<rewardVars, pending, terminated, credited>>

(* step after the episode has ended: no task is pending, and the loop is   *)
(* entered again. *)
StepAfterEnd ==
  /\ pc = "done"
  /\ pending = NoTask
  /\ pc' = "event"
  /\ recently_completed' = <<>>
  /\ stepping' = TRUE
  /\ UNCHANGED <<clock_ns, event_ts, event_queue, event_sequence, taskVars, coreVars,
                 core_busy_ns, gpu_queue, memory_used, metrics, finish_time, rewardVars,
                 pending, terminated, credited>>

(* reset, at any moment the caller has control: the engine starts again,   *)
(* _current_task_id keeps its value until the advance sets it. *)
Reset ==
  /\ pc \in {"decide", "done"}
  /\ \E at \in [Tasks -> ArrivalTimes] : Restart(at)
  /\ stepping' = FALSE
  /\ terminated' = FALSE
  /\ credited' = [t \in Tasks |-> 0]
  /\ UNCHANGED pending

(* A caller that takes one episode as the interface intends: it steps      *)
(* until it is told that the episode has terminated. *)
EpisodeNext ==
  \/ TurnLoop
  \/ EndLoop
  \/ \E a \in Actions : Step(a)

(* Any caller. *)
GymNext == EpisodeNext \/ StepAfterEnd \/ Reset
GymSpec == GymInit /\ [][GymNext]_envVars

-----------------------------------------------------------------------------
(* The completions no return value covers yet: while a step is on its way  *)
(* those that occurred in it, and when the caller has control none. *)
Uncredited(t) == IF pc = "event" /\ ~ terminated THEN Occurrences(t) ELSE 0

(* Every completion counts in the reward of exactly one call of step, also *)
(* the completions of the step that ends the episode, and no call after    *)
(* the end or after a reset pays for one again (step clears                *)
(* _recently_completed before it applies its action, run_episode after it  *)
(* has logged the reward). *)
CreditedOnce ==
  \A t \in Tasks : credited[t] + Uncredited(t) = IF state[t] = "TERMINATED" THEN 1 ELSE 0

(* Once an episode has been reported as terminated it stays so until it is *)
(* reset: a caller that goes on calling step moves no task, no clock and   *)
(* no counter, since only events beyond the episode are left (the loop of  *)
(* _advance_to_next_decision drops one per call). *)
TerminatedForGood ==
  [][terminated /\ terminated'
       => UNCHANGED <<taskVars, coreVars, clock_ns, metrics, credited, pending>>]_envVars

-----------------------------------------------------------------------------
(* The first state of the loop at which run_episode would have logged what *)
(* the last call of step returned is the next decision. *)
LoggedBy(t) == credited[t] - (IF pc = "decide" /\ stepping THEN Occurrences(t) ELSE 0)

RunEpisode == INSTANCE SimEngine WITH
  prev_obs <- stepping,
  rewarded <- [t \in Tasks |-> LoggedBy(t)]

(* As long as the caller stops at the end of the episode, or resets, the   *)
(* environment is run_episode: it takes the same steps of the engine, and  *)
(* the rewards of its calls are the rewards of the transitions run_episode *)
(* logs, each with the same completions (gym_env.py step, engine.py        *)
(* run_episode). *)
CallerResets == pc # "event" /\ ~ stepping'
DrivesLikeRunEpisode ==
  /\ RunEpisode!Init
  /\ [][~ terminated /\ ~ CallerResets
         => RunEpisode!Next \/ UNCHANGED RunEpisode!vars]_envVars
=============================================================================

------------------------------ MODULE MCReward ------------------------------
(***************************************************************************)
(* Instances of the observation and the reward for TLC.                    *)
(***************************************************************************)
EXTENDS Reward

MCPriority == <<2, 6, 6>>
MCRelDeadline == <<4, 2, 0>>
MCWork == <<2, 2, 4>>
MCSize == <<1, 2, 0>>
MCComponent == <<0, 1, 2>>
MCFreq == [c \in Cores |-> IF c = 0 THEN 2 ELSE 1]
MCCache == [c \in Cores |-> 1 + c]
MCPower == [c \in Cores |-> 1 + 2 * c]
MCTarget == [k \in 0 .. 4 |-> 1 + k]
MCLimit ==
  [cores |-> 2, pending |-> 2, run_queue |-> 2, cache |-> 2, working_set |-> 2,
   model |-> 2, infer |-> 3, wait |-> 4, ready |-> 2, gpu_queue |-> 1, deadline |-> 4,
   latency |-> 3, weight_pool |-> 2, workspace_pool |-> 2]
AllActions == SchedulingAction(NCores)

(* Two states that differ only in the numbers of their pushes order their  *)
(* events alike. *)
Rank(e) == Cardinality({f \in event_queue : f.ts = e.ts /\ f.type = e.type /\ f.seq < e.seq})
UpToPushOrder ==
  <<{[e EXCEPT !.seq = Rank(e)] : e \in event_queue}, pc, clock_ns, event_ts, taskVars,
    coreVars, core_busy_ns, gpu_queue, accountVars, rewardVars, statVars, logged>>
=============================================================================

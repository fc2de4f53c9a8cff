------------------------------ MODULE MCGymEnv ------------------------------
(***************************************************************************)
(* Instances of the gym environment for TLC.                               *)
(***************************************************************************)
EXTENDS GymEnv

MCPriority == <<2, 6, 4>>
MCRelDeadline == <<6, 4, 0>>
MCWork == <<2, 3, 4>>
MCCanUseGpu == {2}
MCSize == <<1, 2, 0>>
MCFreq == [c \in Cores |-> IF c = 0 THEN 2 ELSE 1]
AllActions == SchedulingAction(NCores)

(* Two states that differ only in the numbers of their pushes order their  *)
(* events alike. *)
Rank(e) == Cardinality({f \in event_queue : f.ts = e.ts /\ f.type = e.type /\ f.seq < e.seq})
UpToPushOrder ==
  <<{[e EXCEPT !.seq = Rank(e)] : e \in event_queue}, pc, clock_ns, event_ts, taskVars,
    coreVars, core_busy_ns, gpu_queue, accountVars, rewardVars, gymVars>>
=============================================================================

----------------------------- MODULE MCPolicies -----------------------------
(***************************************************************************)
(* An instance of the expert policies and the oracle for TLC.              *)
(***************************************************************************)
EXTENDS Oracle

MCPriority == <<4, 0, 0>>
MCRelDeadline == <<0, 3, 4>>
MCWork == <<5, 5, 5>>
MCSize == <<2, 1, 1>>
BigLittleFreq == [c \in Cores |-> IF c = 0 THEN 1 ELSE 3]
MCCache == [c \in Cores |-> 2 + c]
MCPower == [c \in Cores |-> 1 + 2 * c]
AllActions == SchedulingAction(NCores)

(* Two states that differ only in the numbers of their pushes order their  *)
(* events alike, and of the actions taken only their number matters later. *)
Rank(e) == Cardinality({f \in event_queue : f.ts = e.ts /\ f.type = e.type /\ f.seq < e.seq})
UpToPushOrder ==
  <<{[e EXCEPT !.seq = Rank(e)] : e \in event_queue}, pc, clock_ns, event_ts, taskVars,
    coreVars, core_busy_ns, gpu_queue, accountVars, rewardVars, statVars, policy, phase,
    seeded, Len(best_actions), baseline_score, best_score>>
=============================================================================

-------------------------- MODULE MCSimEngineWork --------------------------
(***************************************************************************)
(* Instances of SimEngineWork for TLC.                                     *)
(***************************************************************************)
EXTENDS SimEngineWork

(* Three tasks of one to three quanta. *)
MCPriority == <<2, 6, 4>>
MCRelDeadline == <<9, 4, 0>>
MCWork == <<6, 3, 4>>
MCSize == <<0, 1, 2>>

ReferenceFreq == [c \in Cores |-> RefFreq]

AllActions == SchedulingAction(NCores)
CpuNoPreempt == {a \in AllActions : a.core < NCores /\ ~ a.preempt}
CpuKeepNoPreempt == {a \in CpuNoPreempt : a.adj = 1}
(* What the future and the properties depend on: the numbers of the pushes *)
(* only as far as they order the events, the start of a core's stint only  *)
(* while it runs one, and none of the accounts. *)
Rank(e) == Cardinality({f \in event_queue : f.ts = e.ts /\ f.type = e.type /\ f.seq < e.seq})
WithoutAccounts ==
  <<{[e EXCEPT !.seq = Rank(e)] : e \in event_queue}, pc, clock_ns, taskVars,
    current_task, run_queue, executed,
    [c \in Cores |-> IF current_task[c] = NoTask THEN 0 ELSE since[c]]>>
=============================================================================

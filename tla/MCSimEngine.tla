---------------------------- MODULE MCSimEngine ----------------------------
(***************************************************************************)
(* Instances of the engine for TLC.                                        *)
(***************************************************************************)
EXTENDS SimEngineProps, SimEngineDocs

(* Task profiles: two short tasks and one that needs several quanta, with  *)
(* the priorities the workloads use; task 2 may use the GPU. *)
MCPriority == <<2, 6, 4>>
MCRelDeadline == <<6, 4, 0>>
MCWork == <<2, 3, 4>>
MCCanUseGpu == {2}
MCModelSize == <<1, 2, 0>>
MCWorkingSet == <<1, 1, 1>>

(* Long tasks that live for several quanta and pile up in the run queues. *)
LongPriority == <<6, 4, 4, 2>>
LongRelDeadline == <<0, 5, 0, 7>>
LongWork == <<7, 5, 4, 2>>
LongSize == <<1, 0, 2, 1>>

(* A platform of one slow and one reference core. *)
MCFreq == [c \in Cores |-> IF c = 0 THEN 2 ELSE 1]

(* A big and a little core around the reference frequency 2. *)
BigLittleFreq == [c \in Cores |-> IF c = 0 THEN 3 ELSE 1]

(* Decisions of the agents. *)
AllActions == SchedulingAction(NCores)
KeepPriority == {a \in AllActions : a.adj = 1}
CpuNoPreempt == {a \in AllActions : a.core < NCores /\ ~ a.preempt}
CpuKeepNoPreempt == CpuNoPreempt \cap KeepPriority

(* Two states that differ only in the numbers of their pushes order their  *)
(* events alike. *)
Rank(e) == Cardinality({f \in event_queue : f.ts = e.ts /\ f.type = e.type /\ f.seq < e.seq})
UpToPushOrder ==
  <<{[e EXCEPT !.seq = Rank(e)] : e \in event_queue}, pc, clock_ns, event_ts, taskVars,
    coreVars, core_busy_ns, gpu_queue, accountVars, rewardVars>>
=============================================================================

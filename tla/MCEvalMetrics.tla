---------------------------- MODULE MCEvalMetrics ----------------------------
(* Instances of the evaluation metrics for TLC. *)
EXTENDS EvalMetrics

MCPriority == <<2, 6, 4>>
MCRelDeadline == <<8, 4, 0>>
MCWork == <<1, 2, 2>>
MCSize == <<1, 1, 0>>
MCFreq == [c \in Cores |-> 1]
MCOnes == [c \in Cores |-> 1]
AllActions == SchedulingAction(NCores)
CpuActions == {a \in AllActions : a.core < NCores /\ a.adj = 1}
QueueOnly == {a \in CpuActions : ~a.preempt}
=============================================================================

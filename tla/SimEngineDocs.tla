--------------------------- MODULE SimEngineDocs ---------------------------
(***************************************************************************)
(* Statements of the repository's documentation and comments about the     *)
(* engine which the code does not satisfy.  Each is checked by a run that  *)
(* ends in a counterexample.                                               *)
(***************************************************************************)
EXTENDS SimEngine

(* docs/simulator.md:19, TASK_COMPLETION: "Frees core".  No core keeps a   *)
(* task that has completed.  Fails when a preempted task completes by the  *)
(* event of its first core while it is running on a second one. *)
CompletionFreesCore ==
  \A c \in Cores : current_task[c] # NoTask => state[current_task[c]] # "TERMINATED"

(* engine.py:635: "Start the next GPU job from the queue if the GPU is     *)
(* idle.", and the plan, 1.8: "Tasks submitted to the GPU have a latency   *)
(* based on their ops_per_inference".  Between two events, a queued job    *)
(* means the GPU is at work, so the completion of some job is pending.     *)
(* Fails because apply_action only appends to the queue, and               *)
(* _start_next_gpu_job is called by the completion of a job alone.         *)
GpuServesQueue ==
  pc = "event" /\ gpu_queue # <<>> => \E e \in event_queue : e.type = GPU_COMPLETION
=============================================================================

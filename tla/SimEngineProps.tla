--------------------------- MODULE SimEngineProps ---------------------------
(***************************************************************************)
(* What the engine of SimEngine promises, whatever the agent decides, and  *)
(* what it promises only when no decision preempts or uses the GPU.        *)
(***************************************************************************)
EXTENDS SimEngine, Totals

Live == {t \in Tasks : state[t] \in {"READY", "RUNNING"}}

(* No task is current on two cores: stale queue entries, re-decisions of   *)
(* queued tasks and migrations never start a task twice at the same time   *)
(* (_start_next_from_queue, apply_action). *)
OneCorePerTask ==
  \A c, d \in Cores :
    current_task[c] # NoTask /\ current_task[c] = current_task[d] => c = d

(* A core's current task has been started and was not put back: it is      *)
(* RUNNING, or it completed while the core was not told.                   *)
CurrentIsStarted ==
  \A c \in Cores :
    current_task[c] # NoTask => state[current_task[c]] \in {"RUNNING", "TERMINATED"}

Mutex == OneCorePerTask /\ CurrentIsStarted

(* Although a context switch moves the clock past events that are still in *)
(* the heap, no handler schedules an event before the one that was popped  *)
(* last, so timestamps leave the heap in order (push_event, pop_event). *)
NothingInThePast ==
  /\ event_ts <= clock_ns
  /\ \A e \in event_queue : event_ts <= e.ts

(* Every task is counted once, however many completion events it gets from *)
(* preemptions and quanta, and its deadline is judged once by the time of  *)
(* that completion (_handle_task_completion). *)
CompletedOnce ==
  /\ metrics.completed = Cardinality(Terminated)
  /\ metrics.met = Cardinality({t \in Terminated :
                     Deadline(t) # 0 /\ finish_time[t] <= Deadline(t)})
  /\ metrics.missed = Cardinality({t \in Terminated :
                        Deadline(t) # 0 /\ finish_time[t] > Deadline(t)})

(* The pools hold exactly the memory of the live tasks: nothing leaks and  *)
(* nothing is freed twice, so the clamp at zero never acts. *)
MemoryBalanced ==
  /\ memory_used.weight = TotalOf(ModelSize, Live)
  /\ memory_used.workspace = TotalOf(WorkingSet, Live)

(* The reward of every completion is logged in exactly one transition: it  *)
(* waits in _recently_completed until the next decision, or the end of the *)
(* episode (run_episode). *)
RewardedOnce ==
  \A t \in Tasks :
    rewarded[t] + (IF pc = "done" THEN 0 ELSE Occurrences(t))
      = IF t \in Terminated THEN 1 ELSE 0

(* No core is busy longer than the episode has lasted, although the clock  *)
(* steps back after a context switch: the utilization never needs its      *)
(* clamp at 1 (_update_core_busy_time). *)
BusyWithinElapsed == \A c \in Cores : core_busy_ns[c] <= event_ts

(* Between events, no task waits while every core is without one, as long  *)
(* as no decision has used the GPU: each event that frees a core asks for  *)
(* a decision, and the decision starts its task or finds the core busy     *)
(* (_process_event, apply_action).  After a decision for the GPU the other *)
(* READY tasks may wait on idle cores for the next event. *)
WorkConserving ==
  pc = "event" /\ gpu_queue = <<>> /\ (\A c \in Cores : current_task[c] = NoTask)
    => \A t \in Tasks : state[t] # "READY"

(* The pending events that will act on core c. *)
CoreEvents(c) ==
  {e \in event_queue : e.type \in {TASK_COMPLETION, QUANTUM_EXPIRED} /\ e.core = c}

(* Without preemption and GPU, a core has one pending event when it has a  *)
(* current task and none otherwise, and a completion names that task,      *)
(* which is RUNNING: no completion is stale, no quantum hits another task  *)
(* than the one it was set for, and no core is left with a finished task   *)
(* (_schedule_completion_for_task).  The event that ends the episode is    *)
(* lost, so this holds until then. *)
CoreIsDriven(c) ==
  IF current_task[c] = NoTask
  THEN CoreEvents(c) = {}
  ELSE /\ state[current_task[c]] = "RUNNING"
       /\ \E e \in CoreEvents(c) :
            /\ CoreEvents(c) = {e}
            /\ e.type = TASK_COMPLETION => e.task = current_task[c]

OneEventPerBusyCore == pc # "done" => \A c \in Cores : CoreIsDriven(c)

(* The engine implements TaskSharing: the task running on a core is its    *)
(* current task, unless that one has completed without the core noticing.  *)
RunningOn == [c \in Cores |->
  IF current_task[c] # NoTask /\ state[current_task[c]] = "RUNNING"
  THEN current_task[c] ELSE NoTask]

Sharing == INSTANCE TaskSharing WITH status <- state, on <- RunningOn

(* Whatever the agent decides and whichever stale events fire, each task   *)
(* arrives once, starts only from READY on a core nobody runs on, and      *)
(* finishes once (engine.py, actions.py). *)
SharesCores == Sharing!Spec

(* The episode ends: handlers that push events at the current time, and    *)
(* periodic events, never keep the loop from reaching the end (run_episode).*)
EpisodeEnds == <>(pc = "done")
=============================================================================

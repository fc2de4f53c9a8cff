----------------------------- MODULE SimModels -----------------------------
(***************************************************************************)
(* The data of the simulator: task states, priority levels, event types,   *)
(* the order of events, and the decomposed scheduling action               *)
(* (slm_sim/models.py, slm_sim/actions.py and the head of                  *)
(* slm_sim/engine.py).  Nothing here has state.                            *)
(***************************************************************************)
EXTENDS Integers, Sequences

(* TaskState.  "NONE" is a task whose TASK_ARRIVAL has not been handled:   *)
(* it is not in engine.tasks yet.  BLOCKED is declared by the code and     *)
(* never assigned, so it is left out.                                      *)
TaskState == {"NONE", "READY", "RUNNING", "TERMINATED"}

(* The kernel's priority levels, with their gaps. *)
PRIORITY_LEVELS == <<0, 2, 4, 6, 7>>
PRIORITY_HIGH == 6
PRIORITY_CRITICAL == 7

Levels == {0, 2, 4, 6, 7}
Priorities == 0 .. PRIORITY_CRITICAL

Larger(a, b) == IF a >= b THEN a ELSE b
Smaller(a, b) == IF a <= b THEN a ELSE b

(* The index of the highest level that does not exceed the priority p. *)
LevelIndex(p) ==
  CHOOSE i \in 1 .. 5 :
    /\ PRIORITY_LEVELS[i] <= p
    /\ \A j \in 1 .. 5 : PRIORITY_LEVELS[j] <= p => j <= i

(* _adjust_priority: 0 lowers by one level, 1 keeps, 2 raises by one.  A   *)
(* priority between two levels (a boost of priority + 1) is rounded down   *)
(* to a level before it is moved.                                          *)
(* Mutation: the level is moved by one, unclamped. *)
AdjustUnclamped(current, adj) == current + adj - 1
AdjustPriority(current, adj) ==
  CASE adj = 1 -> current
    [] adj = 0 -> PRIORITY_LEVELS[Larger(1, LevelIndex(current) - 1)]
    [] adj = 2 -> PRIORITY_LEVELS[Smaller(5, LevelIndex(current) + 1)]

(* EventType, in the order heapq compares it.  SCHEDULING_DECISION (5) is  *)
(* never pushed, and GPU_COMPLETION only by its own handler. *)
TASK_ARRIVAL == 0
TASK_COMPLETION == 1
GPU_COMPLETION == 2
QUANTUM_EXPIRED == 3
DEADLINE_CHECK == 4
MIGRATION_CHECK == 6

(* Event: the heap orders by timestamp, then type, then push order. *)
(* Mutation: the event type is compared before the timestamp. *)
BeforeByType(e, f) ==
  \/ e.type < f.type
  \/ e.type = f.type /\ e.ts < f.ts
  \/ e.type = f.type /\ e.ts = f.ts /\ e.seq < f.seq
Before(e, f) ==
  \/ e.ts < f.ts
  \/ e.ts = f.ts /\ e.type < f.type
  \/ e.ts = f.ts /\ e.type = f.type /\ e.seq < f.seq

(* The absent task (None) and the absent core (None). *)
NoTask == 0
NoCore == -1

(* SchedulingAction on a platform of n cores; core n is the GPU slot. *)
SchedulingAction(n) == [core : 0 .. n, adj : 0 .. 2, preempt : BOOLEAN]
=============================================================================

--------------------------- MODULE SimEngineWork ---------------------------
(***************************************************************************)
(* How long tasks really ran.  The engine keeps an estimate of the work    *)
(* left (remaining_work_ns); this module adds two history variables to     *)
(* SimEngine that measure it and states what the estimate is worth.        *)
(***************************************************************************)
EXTENDS SimEngine, Totals

VARIABLES
  since,     \* core -> clock when its current task was started
  executed   \* task -> time it has run on cores, finished stints only

workVars == <<vars, since, executed>>

(* A core's running task leaves it: it finishes, or the core switches; and *)
(* a core is given a task to start, perhaps the one it had. *)
Leaves(c) ==
  /\ current_task[c] # NoTask
  /\ state[current_task[c]] = "RUNNING"
  /\ \/ state'[current_task[c]] # "RUNNING"
     \/ context_switches'[c] # context_switches[c]
TakesOver(c) ==
  /\ current_task'[c] # NoTask
  /\ \/ current_task'[c] # current_task[c]
     \/ context_switches'[c] # context_switches[c]

(* A handler takes the core at the time of its event, a decision at the    *)
(* clock; a stint may be cut before the clock its start was set to. *)
TakenAt == IF pc = "event" THEN event_ts' ELSE clock_ns
Stint(c) == Larger(0, TakenAt - since[c])

WorkInit ==
  /\ Init
  /\ since = [c \in Cores |-> 0]
  /\ executed = [t \in Tasks |-> 0]

WorkNext ==
  /\ Next
  /\ since' = [c \in Cores |-> IF TakesOver(c) THEN clock_ns' ELSE since[c]]
  /\ executed' = [t \in Tasks |->
       executed[t] + TotalOf([c \in Cores |-> Stint(c)],
                            {c \in Cores : Leaves(c) /\ current_task[c] = t})]

WorkSpec == WorkInit /\ [][WorkNext]_workVars

-----------------------------------------------------------------------------
(* On cores of the reference speed, and without preemption by decisions, a *)
(* finished task has run exactly for its inference_duration_ns, over all   *)
(* its quanta, the cores it was migrated to and the context switches in    *)
(* between (_schedule_completion_for_task, _handle_quantum_expired). *)
WorkDone ==
  \A t \in Tasks : state[t] = "TERMINATED" => executed[t] = Work[t]

(* A task that waits has run for what its remaining work is short of its   *)
(* duration: nothing it did is lost and nothing is charged that it did not *)
(* do (_handle_quantum_expired).  The plan, 1.5: remaining_work_ns is the  *)
(* "estimated remaining compute time". *)
ProgressKept ==
  \A t \in Tasks : state[t] = "READY" => executed[t] + remaining_work_ns[t] = Work[t]
=============================================================================

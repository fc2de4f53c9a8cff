------------------------------ MODULE Experts ------------------------------
(***************************************************************************)
(* The engine driven by one of the deterministic expert policies of        *)
(* slm_sim/experts: the set of decisions it may take about the picked task *)
(* is a singleton that depends on the state.  (The random policy takes any *)
(* decision of the platform, see ActionCodec.)                             *)
(***************************************************************************)
EXTENDS CoreStats

CONSTANTS
  Policies,         \* those looked at: "edf", "hybrid", "weighted"
  LargeWorkingSet,  \* LARGE_WORKING_SET_MB
  BootPenalty       \* the load added to core 0 (100)

ASSUME PolicyAssumption ==
  /\ Policies \subseteq {"edf", "hybrid", "weighted"}
  /\ BootPenalty \in Nat

VARIABLE policy   \* who decides in the episode: one of them, or "oracle" (Oracle)

expertVars == <<vars, statVars, policy>>

(* The decision (core, priority_adj, preempt). *)
Choose(c, adj, preempt) == [core |-> c, adj |-> adj, preempt |-> preempt]

(* The current task of c, which only counts while it is RUNNING. *)
Occupied(c) == current_task[c] # NoTask /\ state[current_task[c]] = "RUNNING"

-----------------------------------------------------------------------------
(* Earliest deadline first: the least loaded core, and preemption when its *)
(* current task has a later deadline, or none.                             *)
(* Mutation: a task without a deadline preempts like any other. *)
PreemptsAnyLater(t, c) == Occupied(c) /\ Deadline(t) < Deadline(current_task[c])
ShouldPreempt(t, c) ==
  /\ Deadline(t) # 0
  /\ Occupied(c)
  /\ LET u == current_task[c] IN Deadline(u) = 0 \/ Deadline(t) < Deadline(u)

Edf(t) ==
  {Choose(c, 1, ShouldPreempt(t, c)) : c \in {d \in Cores : IsLeastLoaded(d)}}

-----------------------------------------------------------------------------
(* The replica of the SLM-OS scheduler. *)
Remaining(t) == Deadline(t) - clock_ns

(* Whether the hybrid policy raises t's priority. *)
RaisesForDeadline(t) ==
  /\ Deadline(t) # 0
  /\ \/ Remaining(t) < NearDeadline /\ effective_priority[t] < PRIORITY_CRITICAL
     \/ /\ Remaining(t) >= NearDeadline /\ Remaining(t) < SoonDeadline
        /\ effective_priority[t] < PRIORITY_HIGH
     \/ Remaining(t) >= SoonDeadline /\ Remaining(t) < CloseDeadline

(* _find_performance_cpu: the boot core counts as heavily loaded.          *)
PenalizedLoad(c) == Load(c) + (IF c = 0 THEN BootPenalty ELSE 0)
IsPerformanceCpu(c) ==
  /\ c \in Performance \ Isolated
  /\ \A d \in Performance \ Isolated :
       PenalizedLoad(c) < PenalizedLoad(d)
         \/ (PenalizedLoad(c) = PenalizedLoad(d) /\ c <= d)

(* _find_target_cpu *)
IsTargetCpu(t, c) ==
  IF (Deadline(t) # 0 \/ WorkingSet[t] >= LargeWorkingSet) /\ Performance \ Isolated # {}
  THEN IsPerformanceCpu(c) ELSE IsLeastLoaded(c)

Hybrid(t) ==
  {Choose(c, IF RaisesForDeadline(t) THEN 2 ELSE 1, FALSE) :
     c \in {d \in Cores : IsTargetCpu(t, d)}}

-----------------------------------------------------------------------------
(* The weighted policy.  A score is a sum of five weighted fractions; here *)
(* it is their integer numerator over the common denominator of Whole.     *)
MaxPower == Max({PowerWeight[c] : c \in Cores})
Whole == 7 * Unit * CloseDeadline * MaxPower

Urgency(t) ==        \* in units of CloseDeadline
  IF Deadline(t) = 0 THEN 0
  ELSE IF Remaining(t) <= 0 THEN CloseDeadline ELSE Larger(0, CloseDeadline - Remaining(t))
FitsCache(t, c) == WorkingSet[t] <= Larger(0, CacheSize[c] - cached[c])

Score(t, c) ==
  35 * Urgency(t) * (Whole \div CloseDeadline)
  + 25 * effective_priority[t] * (Whole \div 7)
  + (IF FitsCache(t, c) THEN 20 * Whole ELSE 0)
  + 15 * (Unit - utilization_pct[c]) * (Whole \div Unit)
  + 5 * (MaxPower - PowerWeight[c]) * (Whole \div MaxPower)

(* The first non-isolated core with the highest score. *)
IsBestCore(t, c) ==
  IF Migratable = {} THEN c = 0
  ELSE /\ c \in Migratable
       /\ \A d \in Migratable : Score(t, c) > Score(t, d) \/ (Score(t, c) = Score(t, d) /\ c <= d)

Weighted(t) ==
  {Choose(c, IF Deadline(t) # 0 /\ Remaining(t) < SoonDeadline THEN 2 ELSE 1,
          /\ c \notin Isolated
          /\ Occupied(c)
          /\ Score(t, c) - Score(current_task[c], c) > 30 * Whole) :
     c \in {d \in Cores : IsBestCore(t, d)}}

-----------------------------------------------------------------------------
Decisions(t) ==
  CASE policy = "edf" -> Edf(t)
    [] policy = "hybrid" -> Hybrid(t)
    [] policy = "weighted" -> Weighted(t)

ExpertInit == Init /\ StatsInit /\ policy \in Policies

ExpertNext ==
  /\ \/ ProcessEvent
     \/ \E t \in Tasks : IsPicked(t) /\ \E a \in Decisions(t) : Decide(t, a)
     \/ EndEpisode
  /\ KeepStats
  /\ UNCHANGED policy

ExpertSpec == ExpertInit /\ [][ExpertNext]_expertVars

-----------------------------------------------------------------------------
(* Preemptions lose progress, queued tasks are placed again and stale      *)
(* events fire, but no task is stranded: when no arrival and no event of a *)
(* core is pending, every task has completed.  The one exception is the    *)
(* policies that preempt: a task that completes by the event of a core it  *)
(* was preempted on leaves the core it runs on to a finished task, and who *)
(* is queued there waits for ever.  The hybrid policy never does that      *)
(* (run_episode with the policies of slm_sim/experts). *)
NothingPending == \A e \in event_queue : e.type \in {DEADLINE_CHECK, MIGRATION_CHECK}
KeepsFinished(c) == current_task[c] # NoTask /\ state[current_task[c]] = "TERMINATED"
NothingStranded ==
  policy \in Policies /\ pc = "event" /\ NothingPending =>
    \/ Terminated = Tasks
    \/ policy # "hybrid" /\ \E c \in Cores : KeepsFinished(c)

(* A running task loses its core to a decision only when the new task has  *)
(* a deadline, and an earlier one than its own if it has one itself        *)
(* (edf.py _should_preempt with apply_action). *)
Displaced(c) ==
  /\ current_task[c] # NoTask
  /\ current_task'[c] # current_task[c]
EarlierDeadlineDisplaces ==
  [][policy = "edf" /\ pc = "decide" => \A c \in Cores : Displaced(c) =>
       /\ Deadline(current_task'[c]) # 0
       /\ Deadline(current_task[c]) # 0
            => Deadline(current_task'[c]) < Deadline(current_task[c])]_expertVars
=============================================================================

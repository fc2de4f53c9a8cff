----------------------------- MODULE CoreStats -----------------------------
(***************************************************************************)
(* The statistics of the cores that _update_utilization_stats keeps for    *)
(* the observation, the reward and the weighted policy.  They are brought  *)
(* up to date by the migration check only, so between two checks whoever   *)
(* reads them reads old values.                                            *)
(***************************************************************************)
EXTENDS SimEngine, FiniteSetsExt

CONSTANTS
  CacheSize,     \* core -> size of its cache, in the unit of WorkingSet
  Performance,   \* the cores of type PERFORMANCE
  PowerWeight,   \* core -> power_weight
  Unit           \* one unit of a fraction: 1.0 is Unit

ASSUME StatsAssumption ==
  /\ CacheSize \in [Cores -> Nat \ {0}]
  /\ Performance \subseteq Cores
  /\ PowerWeight \in [Cores -> Nat \ {0}]
  /\ Unit \in Nat \ {0}

VARIABLES
  utilization_pct,   \* core -> fraction of the elapsed time it was busy
  cached             \* core -> working sets it is charged for (cache_pressure
                     \* times the size of its cache)
statVars == <<utilization_pct, cached>>

StatsInit ==
  /\ utilization_pct = [c \in Cores |-> 0]
  /\ cached = [c \in Cores |-> 0]

(* The working sets of the current task and of the entries of the queue,   *)
(* an entry each time it occurs. *)
ChargedTo(c) ==
  (IF current_task[c] # NoTask THEN WorkingSet[current_task[c]] ELSE 0)
    + MapThenSumSet(LAMBDA i : WorkingSet[run_queue[c][i]], DOMAIN run_queue[c])

(* _update_utilization_stats at the time of the check, which is never 0,   *)
(* and before the check migrates a task. *)
UpdateUtilizationStats ==
  /\ cached' = [c \in Cores |-> ChargedTo(c)]
  /\ utilization_pct' =
       [c \in Cores |-> Smaller(Unit, (core_busy_ns'[c] * Unit) \div clock_ns')]

MigrationCheckDue ==
  /\ pc = "event"
  /\ \E e \in event_queue :
       IsNextEvent(e) /\ e.type = MIGRATION_CHECK /\ e.ts <= EpisodeDuration

KeepStats ==
  IF MigrationCheckDue THEN UpdateUtilizationStats ELSE UNCHANGED statVars
=============================================================================

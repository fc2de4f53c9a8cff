------------------------------- MODULE MCData -------------------------------
(***************************************************************************)
(* The tools that make and carry data, side by side: one of them runs from *)
(* its start, the others stay where they begin.  They share nothing but    *)
(* None, so each behaves as it does alone.                                 *)
(***************************************************************************)
EXTENDS Workloads, DatasetBatch, DatasetSplit, DatasetLoad, TraceIngest, Dagger

-----------------------------------------------------------------------------
(* The instance. *)
Of(c, k) == [component |-> c, intensity |-> k]
Storm ==
  [profiles |-> <<Of("pred_maint", 1)>>, burst_overlay |-> TRUE, affinity_map |-> <<>>,
   end_ns |-> 30]
Background ==
  [profiles |-> <<Of("security_monitor", 1), Of("system", 2)>>, burst_overlay |-> FALSE,
   affinity_map |-> <<>>, end_ns |-> 32]
Asymmetric ==
  [profiles |-> <<Of("anomaly_detector", 1), Of("pred_maint", 1)>>, burst_overlay |-> FALSE,
   affinity_map |-> [c \in {"anomaly_detector", "pred_maint"} |->
                       IF c = "pred_maint" THEN <<4, 5>> ELSE <<0, 1>>],
   end_ns |-> 14]
MCScenarios == {Storm, Background, Asymmetric}
MCInterval == [c \in Periodic |-> 10]

(* Episodes of none to two decisions. *)
MCCombos == <<"edf", "random">>
MCEpisodes == [c \in Range(Combos) |-> IF c = "edf" THEN 3 ELSE 2]
MCDecisions(seed) == seed % 3

MCRawFiles == <<"edf", "edf_burst_storm">>
MCMaxRows == {None} \cup 0 .. 7

-----------------------------------------------------------------------------
VARIABLE tool
dataVars == <<tool, workloadVars, batchVars, splitVars, loadVars, traceVars, daggerVars>>

(* Where a tool has several states to begin in, it idles in one of them. *)
Init ==
  /\ tool \in {"workload", "batch", "split", "load", "trace", "dagger"}
  /\ WorkloadInit /\ (tool = "workload" \/ scenario = Storm)
  /\ LoadInit /\ (tool = "load" \/ (groups = <<>> /\ max_rows = None))
  /\ BatchInit /\ SplitInit /\ TraceInit /\ DaggerInit

Next ==
  /\ UNCHANGED tool
  /\ IF tool = "workload" THEN WorkloadNext ELSE UNCHANGED workloadVars
  /\ IF tool = "batch" THEN BatchNext ELSE UNCHANGED batchVars
  /\ IF tool = "split" THEN SplitNext ELSE UNCHANGED splitVars
  /\ IF tool = "load" THEN LoadNext ELSE UNCHANGED loadVars
  /\ IF tool = "trace" THEN TraceNext ELSE UNCHANGED traceVars
  /\ IF tool = "dagger" THEN DaggerNext ELSE UNCHANGED daggerVars

Spec == Init /\ [][Next]_dataVars /\ BatchFairness
=============================================================================

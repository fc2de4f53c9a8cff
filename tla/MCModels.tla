------------------------------ MODULE MCModels ------------------------------
(***************************************************************************)
(* The tools that train, export, decode and compare models, side by side:  *)
(* one of them runs from its start, the others stay where they begin.  They*)
(* share nothing but None, so each behaves as it does alone.               *)
(***************************************************************************)
EXTENDS ActionCodec, MlpTraining, PpoTraining, XgbExport, NetworkFold,
        ExportFiles, Evaluation

-----------------------------------------------------------------------------
(* The instance.  A million timesteps of PPO are 4 here. *)
MCSizeOf == [p \in Platforms |-> IF p = "raspberry_pi5" THEN 24 ELSE 42]
MCGivenPaths == {<<"raspberry_pi5", "">>, <<"jetson_orin_nano", "_real">>}

Phase(at_step, s) == [start_step |-> at_step, scenarios |-> s]
MCPhases ==
  <<Phase(0, {"light_single", "light_mixed"}),
    Phase(4, {"light_mixed", "deadline_pressure"}),
    Phase(12, {"light_mixed", "burst_storm"}),
    Phase(20, {"heavy_inference", "burst_storm"})>>

MCInputs == {<<v>> : v \in 0 .. 2}

(* The logit of p quarters, finite at both ends, times ten. *)
MCLogit(p) == [q \in 0 .. 4 |-> CASE q = 0 -> -276 [] q = 1 -> -11 [] q = 2 -> 0
                                   [] q = 3 -> 11 [] q = 4 -> 276][p]

(* Trees over the input (1), the core (2) and the priority (3), and        *)
(* cascades of them; the large one has more nodes than the runtime takes.  *)
L(v) == [leaf |-> v]
N(f, t, y, n) == [split |-> f, condition |-> t, yes |-> y, no |-> n]
Deep(f) == N(f, 2, N(f, 1, L(9), L(-14)), N(1, 1, L(5), L(-25)))
Small(f) == N(f, 2, L(-4), L(7))
Binary(f, p) == [booster |-> [trees |-> <<Deep(f), Small(f)>>, base_score |-> <<p>>,
                              n_classes |-> 2], classes |-> <<0, 1>>]
Triple(f, base, labels) ==
  [booster |-> [trees |-> <<Small(f), Deep(f), L(3), Deep(1), Small(f), L(-2)>>,
                base_score |-> base, n_classes |-> 3], classes |-> labels]
Large == [booster |-> [trees |-> [i \in 1 .. 9 |-> Deep(1)], base_score |-> <<0, 0, 0>>,
                       n_classes |-> 3], classes |-> <<0, 1, 2>>]
MCCascades ==
  [core : {Triple(1, <<0, 0, 0>>, <<0, 1, 3>>), Triple(1, <<5, -5, 4>>, <<0, 1, 3>>),
           Triple(1, <<2>>, <<0, 1, 2>>), Large, Binary(1, 1)},
   priority : {Triple(2, <<0, 9, 1>>, <<0, 1, 2>>), Triple(2, <<1, 0, 3>>, <<0, 1, 2>>)},
   preempt : {Binary(3, 0), Binary(3, 1), Binary(2, 3)}]

MCTrees ==
  {L(v) : v \in {9, -14, 5, -25, -4, 7, 3, -2}}
    \cup UNION {{Deep(f), Deep(f).yes, Deep(f).no, Small(f)} : f \in 1 .. 3}
MCHeight == [t \in MCTrees |-> IF IsLeaf(t) THEN 0 ELSE IF IsLeaf(t.yes) THEN 1 ELSE 2]

MCLinears == {[W |-> <<<<1, -2>>, <<0, 1>>>>, b |-> <<1, 0>>],
              [W |-> <<<<-1, 1>>, <<2, 1>>>>, b |-> <<0, -1>>],
              [W |-> <<<<1, -1>>>>, b |-> <<2>>]}
MCNorms == {[scale |-> <<2, -1>>, shift |-> <<0, 1>>], [scale |-> <<0, 1>>, shift |-> <<-1, 0>>]}
MCStates == {<<a, b>> : a, b \in -1 .. 1}

MCActionSpaceSize ==
  [p \in ExportPlatforms |-> IF p = "raspberry_pi5" THEN 24 ELSE 42]

MCExperts == <<"hybrid", "random">>
MCTrained == <<"mlp", "xgboost">>
MCScenarios == <<"light_single", "asymmetric">>

-----------------------------------------------------------------------------
VARIABLE tool
modelsVars == <<tool, codecVars, mlpVars, ppoVars, xgbVars, foldVars, exportVars, evalVars>>

(* Where a tool has several states to begin in, it idles in one of them. *)
Init ==
  /\ tool \in {"codec", "mlp", "ppo", "xgb", "fold", "export", "eval"}
  /\ CodecInit
  /\ \/ tool = "codec"
     \/ /\ num_cores = 1 /\ ~gpu_available
        /\ action = [core |-> 0, adj |-> 0, preempt |-> FALSE]
  /\ IF tool = "fold" THEN FoldInit
     ELSE network = <<>> /\ folded = <<>>
  /\ EvalInit /\ (tool = "eval" \/ agents = Experts)
  /\ MlpInit /\ PpoInit /\ XgbInit /\ ExportInit

Next ==
  /\ UNCHANGED tool
  /\ IF tool = "codec" THEN CodecNext ELSE UNCHANGED codecVars
  /\ IF tool = "mlp" THEN MlpNext ELSE UNCHANGED mlpVars
  /\ IF tool = "ppo" THEN PpoNext ELSE UNCHANGED ppoVars
  /\ IF tool = "xgb" THEN XgbNext ELSE UNCHANGED xgbVars
  /\ IF tool = "fold" THEN FoldNext ELSE UNCHANGED foldVars
  /\ IF tool = "export" THEN ExportNext ELSE UNCHANGED exportVars
  /\ IF tool = "eval" THEN EvalNext ELSE UNCHANGED evalVars

Spec == Init /\ [][Next]_modelsVars
=============================================================================

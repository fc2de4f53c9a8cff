----------------------------- MODULE XgbExport -----------------------------
(***************************************************************************)
(* The XGBoost cascade and its export (training/xgboost/train.py,          *)
(* scripts/export_models.py): three boosters trained and saved one after   *)
(* the other, flattened into node arrays, with XGBoost's base score folded *)
(* into single-leaf trees, packed into one blob, and walked by a runtime   *)
(* that knows nothing but the arrays.                                      *)
(*                                                                         *)
(* A tree is a leaf [leaf] or a node [split, condition, yes, no].  A booster*)
(* is [trees, base_score, n_classes]; tree i adds to class i % n_classes.  *)
(* An input is a sequence of feature values.                               *)
(***************************************************************************)
EXTENDS Integers, Sequences, FiniteSets, SequencesExt, Totals, NoneValue

CONSTANTS
  Trees,        \* the trees of the dumps, and those below their nodes
  Height,       \* of each of them, 0 of a leaf alone
  Models,       \* what training may produce: records core, priority, preempt
                \* of [booster, classes], the classes in label order
  Inputs,       \* the test vectors
  Logit(_),     \* the margin of a probability
  MaxTrees,     \* _XGB_MAX_TREES_CASCADE
  MaxNodes,     \* _XGB_MAX_NODES_CASCADE
  MaxClasses,   \* _XGB_MAX_LABEL_CLASSES
  MaxSaves      \* bound on the trainings

VARIABLES
  saved_model,  \* models/xgboost: the model saved last, or None
  export_pc,    \* where the exporter is: idle, packed, written
  flattened,    \* trees_data
  blob,         \* xgb_sched.smb: the sections in it, or None
  c_source,     \* ai_xgboost_trees.c, or None
  expected,     \* test_vectors_xgb.bin and expected_actions_xgb.bin, or None
  with_source,  \* history: the last export wrote it too
  saves         \* trainings so far
xgbVars == <<saved_model, export_pc, flattened, blob, c_source, expected, with_source, saves>>

XGB_CASCADE_ORDER == <<"core", "priority", "preempt">>
Classifiers == Range(XGB_CASCADE_ORDER)

IsLeaf(tree) == "leaf" \in DOMAIN tree

(* A dump nests finitely; integers stand for the floats.                   *)
ASSUME TreesAssumption ==
  /\ Height \in [Trees -> Nat]
  /\ \A t \in Trees :
       \/ IsLeaf(t) /\ t.leaf \in Int
       \/ /\ ~ IsLeaf(t) /\ t.split \in Nat /\ t.condition \in Int
          /\ t.yes \in Trees /\ Height[t.yes] < Height[t]
          /\ t.no \in Trees /\ Height[t.no] < Height[t]

(* A classifier of several classes; of two, the booster is binary and has  *)
(* one base score, a probability. *)
IsClassifier(m) ==
  /\ m.booster.trees \in Seq(Trees) /\ m.booster.base_score \in Seq(Int)
  /\ m.classes \in Seq(Int) /\ Len(m.classes) >= 2
  /\ m.booster.n_classes = Len(m.classes)
  /\ Len(m.classes) = 2 =>
       Len(m.booster.base_score) = 1 /\ Logit(m.booster.base_score[1]) \in Int

ASSUME ModelsAssumption ==
  \A m \in Models : IsClassifier(m.core) /\ IsClassifier(m.priority) /\ IsClassifier(m.preempt)

-----------------------------------------------------------------------------
(* What XGBoost predicts: the margins of the classes are the base score's, *)
(* plus the leaves reached; the class of the largest wins, the first of    *)
(* them, and a binary booster has the margin of class 1 alone. *)
Leaf(tree, x) ==
  LET value[t \in Trees] ==
        IF IsLeaf(t) THEN t.leaf
        ELSE value[IF x[t.split] < t.condition THEN t.yes ELSE t.no]
  IN  value[tree]

Sum(s) == TotalOf(s, DOMAIN s)
FirstLargest(s) ==
  CHOOSE i \in DOMAIN s : \A j \in DOMAIN s : s[j] <= s[i] /\ (s[j] = s[i] => i <= j)

(* The sum of the values of the trees that add to class k, 0 the first. *)
ClassSum(values, k, n) ==
  Sum([i \in DOMAIN values |-> IF (i - 1) % n = k THEN values[i] ELSE 0])

XgbPredict(b, x) ==
  LET leaves == [i \in DOMAIN b.trees |-> Leaf(b.trees[i], x)]
  IN  IF b.n_classes <= 2
      THEN IF Sum(leaves) + Logit(b.base_score[1]) > 0 THEN 1 ELSE 0
      ELSE FirstLargest([k \in 1 .. b.n_classes |->
             b.base_score[IF Len(b.base_score) = 1 THEN 1 ELSE k]
               + ClassSum(leaves, k - 1, b.n_classes)]) - 1

(* TripleClassifier.predict: each classifier sees the labels predicted     *)
(* before it, in their original values. *)
predict(m, x) ==
  LET core == m.core.classes[XgbPredict(m.core.booster, x) + 1]
      with_core == Append(x, core)
      priority == m.priority.classes[XgbPredict(m.priority.booster, with_core) + 1]
      with_both == Append(with_core, priority)
      preempt == m.preempt.classes[XgbPredict(m.preempt.booster, with_both) + 1]
  IN  <<core, priority, preempt>>

-----------------------------------------------------------------------------
(* _flatten_tree: a node, everything below its first child, everything     *)
(* below its second; indices count from 0 within the tree.                 *)
LeafNode(v) == [feature_idx |-> -1, threshold |-> 0, leaf_value |-> v,
                left_child |-> 0, right_child |-> 0]

Flatten[node \in Trees] == [at \in Nat |->
  IF IsLeaf(node) THEN <<LeafNode(node.leaf)>>
  ELSE LET left == Flatten[node.yes][at + 1]
           right == Flatten[node.no][at + 1 + Len(left)]
       IN  <<[feature_idx |-> node.split, threshold |-> node.condition, leaf_value |-> 0,
              left_child |-> at + 1, right_child |-> at + 1 + Len(left)]>> \o left \o right]

(* export_xgboost_trees of one classifier: the margins of the base score   *)
(* become trees in front of the others; a base score of another length than*)
(* the classes raises ValueError. *)
(* Mutation: the probability of a binary booster is taken for a margin. *)
RawMargins(b, n) ==
  IF n = 2 /\ Len(b.base_score) = 1 THEN <<0, b.base_score[1]>> ELSE b.base_score
BaseMargins(b, n) ==
  IF n = 2 /\ Len(b.base_score) = 1 THEN <<0, Logit(b.base_score[1])>> ELSE b.base_score

HasMargins(m) ==
  LET n == Len(m.classes)
  IN  Len(m.booster.base_score) \in (IF n = 2 THEN {1, 2} ELSE {n})

TreesOf(m) ==
  LET base == BaseMargins(m.booster, Len(m.classes))
  IN  [trees |-> [k \in DOMAIN base |-> <<LeafNode(base[k])>>]
                   \o [i \in DOMAIN m.booster.trees |-> Flatten[m.booster.trees[i]][0]],
       label_classes |-> m.classes]

(* Where each tree's root is in the concatenation of the trees. *)
Offsets(trees) == [i \in DOMAIN trees |-> Sum([j \in 1 .. i - 1 |-> Len(trees[j])])]

(* _build_classifier_section: the children count from the section's start. *)
Rebase(node, offset) ==
  IF node.feature_idx < 0 THEN node
  ELSE [node EXCEPT !.left_child = @ + offset, !.right_child = @ + offset]

Section(data) ==
  LET at == Offsets(data.trees)
  IN  [tree_offsets |-> at,
       nodes |-> FlattenSeq([i \in DOMAIN data.trees |->
                   [j \in DOMAIN data.trees[i] |-> Rebase(data.trees[i][j], at[i])]]),
       labels |-> data.label_classes]

Fits(data) ==
  /\ Len(data.trees) \in 1 .. MaxTrees
  /\ Sum([i \in DOMAIN data.trees |-> Len(data.trees[i])]) <= MaxNodes
  /\ Len(data.label_classes) <= MaxClasses

(* write_xgboost_c of one classifier: the nodes as they are, and offsets. *)
SourceArrays(data) ==
  [tree_offsets |-> Offsets(data.trees), nodes |-> FlattenSeq(data.trees),
   labels |-> data.label_classes]

-----------------------------------------------------------------------------
(* The exporter and the trainer.                                           *)
XgbInit ==
  /\ saved_model = None /\ export_pc = "idle" /\ flattened = None
  /\ blob = None /\ c_source = None /\ expected = None
  /\ with_source = FALSE /\ saves = 0

(* train_triple_classifier and TripleClassifier.save *)
TrainCascade ==
  /\ export_pc = "idle" /\ saves < MaxSaves
  /\ \E m \in Models : saved_model' = m
  /\ saves' = saves + 1
  /\ UNCHANGED <<export_pc, flattened, blob, c_source, expected, with_source>>

(* export_xgboost up to the packing of the blob: nothing is written when   *)
(* there is no model, or when it raises.                                   *)
Pack ==
  /\ export_pc = "idle" /\ saved_model # None
  /\ \A name \in Classifiers : HasMargins(saved_model[name])
  /\ flattened' = [name \in Classifiers |-> TreesOf(saved_model[name])]
  /\ \A name \in Classifiers : Fits(flattened'[name])
  /\ export_pc' = "packed"
  /\ UNCHANGED <<saved_model, blob, c_source, expected, with_source, saves>>

(* write_xgboost_blob *)
WriteBlob ==
  /\ export_pc = "packed"
  /\ blob' = [name \in Classifiers |-> Section(flattened[name])]
  /\ export_pc' = "written"
  /\ UNCHANGED <<saved_model, flattened, c_source, expected, with_source, saves>>

(* generate_xgb_verification_data, and write_xgboost_c when it is asked for.*)
Verify(emit_c_source) ==
  /\ export_pc = "written"
  /\ expected' = [x \in Inputs |-> predict(saved_model, x)]
  /\ c_source' = IF emit_c_source THEN [name \in Classifiers |-> SourceArrays(flattened[name])]
               ELSE c_source
  /\ with_source' = emit_c_source
  /\ export_pc' = "idle" /\ flattened' = None
  /\ UNCHANGED <<saved_model, blob, saves>>

XgbNext == TrainCascade \/ Pack \/ WriteBlob \/ \E emit_c_source \in BOOLEAN : Verify(emit_c_source)

XgbSpec == XgbInit /\ [][XgbNext]_xgbVars

-----------------------------------------------------------------------------
(* The runtime (external, as export_xgboost_trees describes it): it follows*)
(* the indices from a tree's root to a leaf, adds up all trees and takes 0 *)
(* as the threshold of two classes, and the largest sum of more.           *)
NextNode(nodes, root, i, x) ==
  LET node == nodes[i + 1]
  IN  IF node.feature_idx < 0 THEN i
      ELSE root + (IF x[node.feature_idx] < node.threshold
                   THEN node.left_child ELSE node.right_child)

(* A path has no more steps than there are nodes.                          *)
Walk(nodes, root, start, x) ==
  LET path[k \in 0 .. Len(nodes)] ==
        IF k = 0 THEN start ELSE NextNode(nodes, root, path[k - 1], x)
  IN  nodes[path[Len(nodes)] + 1].leaf_value

(* The class of x, the children's indices counting from 0 or from the root.*)
RuntimeClass(s, x, relative) ==
  LET n == Len(s.labels)
      values == [t \in DOMAIN s.tree_offsets |->
                   Walk(s.nodes, IF relative THEN s.tree_offsets[t] ELSE 0, s.tree_offsets[t], x)]
  IN  IF n <= 2 THEN IF Sum(values) > 0 THEN 1 ELSE 0
      ELSE FirstLargest([k \in 1 .. n |-> ClassSum(values, k - 1, n)]) - 1

RuntimePredict(arrays, x, relative) ==
  LET core == arrays.core.labels[RuntimeClass(arrays.core, x, relative) + 1]
      with_core == Append(x, core)
      priority == arrays.priority.labels[RuntimeClass(arrays.priority, with_core, relative) + 1]
      with_both == Append(with_core, priority)
      preempt == arrays.preempt.labels[RuntimeClass(arrays.preempt, with_both, relative) + 1]
  IN  <<core, priority, preempt>>

(* Between exports the runtime, walking the blob, predicts what the test   *)
(* vectors beside it say the trained model predicts: of the export written *)
(* last, also when a later model could not be exported; and so does the C  *)
(* source, when that export wrote it, whose children count from the root of*)
(* the tree (export_xgboost, write_xgboost_blob, write_xgboost_c).         *)
ExportMatchesVectors ==
  export_pc = "idle" /\ blob # None =>
    \A x \in Inputs :
      /\ RuntimePredict(blob, x, FALSE) = expected[x]
      /\ with_source => RuntimePredict(c_source, x, TRUE) = expected[x]
=============================================================================

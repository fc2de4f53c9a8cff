---------------------------- MODULE NetworkFold ----------------------------
(***************************************************************************)
(* SchedulerMLP (training/mlp/model.py) and the folding of its batch norms *)
(* into the four layers the C inference has (scripts/export_models.py).    *)
(* Weights are integers; a batch norm in evaluation is the scale and shift *)
(* it amounts to, [scale, shift]; a linear layer is [W, b], W by rows.     *)
(***************************************************************************)
EXTENDS Integers, Sequences, Totals

CONSTANTS
  n_features, hidden1, hidden2, hidden3, n_actions,   \* sizes of the layers
  Linears,   \* linear layers the network may have
  Norms,     \* batch norms it may have
  States     \* input vectors

ASSUME FoldAssumption ==
  /\ {n_features, hidden1, hidden2, hidden3, n_actions} \subseteq Nat \ {0}
  /\ States \subseteq [1 .. n_features -> Int]

VARIABLES
  network,   \* the layers of nn.Sequential, the first at index 1
  folded     \* the layers of the export, empty before
foldVars == <<network, folded>>

Dot(u, v) == TotalOf([i \in DOMAIN u |-> u[i] * v[i]], DOMAIN u)

ReLU == "relu"
Dropout == "dropout"
ApplyLinear(l, x) == [i \in DOMAIN l.W |-> Dot(l.W[i], x) + l.b[i]]
ApplyReLU(x) == [i \in DOMAIN x |-> IF x[i] < 0 THEN 0 ELSE x[i]]
ApplyNorm(n, x) == [i \in DOMAIN x |-> n.scale[i] * x[i] + n.shift[i]]

-----------------------------------------------------------------------------
(* SchedulerMLP.__init__ and forward, in evaluation: dropout does nothing. *)
Linear(n, m) == {l \in Linears : l.W \in [1 .. m -> [1 .. n -> Int]] /\ l.b \in [1 .. m -> Int]}
BatchNorm(n) == {k \in Norms : {k.scale, k.shift} \subseteq [1 .. n -> Int]}

Sequential(l0, n0, l1, n1, l2, n2, l3) ==
  <<[l |-> l0], [k |-> ReLU], [n |-> n0], [k |-> Dropout],
    [l |-> l1], [k |-> ReLU], [n |-> n1], [k |-> Dropout],
    [l |-> l2], [k |-> ReLU], [n |-> n2], [l |-> l3]>>

Apply(x, layer) ==
  IF "l" \in DOMAIN layer THEN ApplyLinear(layer.l, x)
  ELSE IF "n" \in DOMAIN layer THEN ApplyNorm(layer.n, x)
  ELSE IF layer.k = ReLU THEN ApplyReLU(x) ELSE x

Forward(x) ==
  LET after[k \in 0 .. Len(network)] == IF k = 0 THEN x ELSE Apply(after[k - 1], network[k])
  IN  after[Len(network)]

(* fold_bn_into_next_linear: z = W (scale x + shift) + b, with the shift   *)
(* moved into the bias. *)
(* Mutation: the rows of W are scaled. *)
ScaleRows(n, l) ==
  [W |-> [i \in DOMAIN l.W |-> [j \in DOMAIN l.W[i] |-> l.W[i][j] * n.scale[i]]],
   b |-> [i \in DOMAIN l.b |-> Dot(l.W[i], n.shift) + l.b[i]]]
FoldIntoNextLinear(n, l) ==
  [W |-> [i \in DOMAIN l.W |-> [j \in DOMAIN l.W[i] |-> l.W[i][j] * n.scale[j]]],
   b |-> [i \in DOMAIN l.b |-> Dot(l.W[i], n.shift) + l.b[i]]]

(* fold_mlp_batchnorms, by the positions in the network. *)
At(i) == network[i + 1]
FoldedLayers ==
  <<At(0).l, FoldIntoNextLinear(At(2).n, At(4).l),
    FoldIntoNextLinear(At(6).n, At(8).l), FoldIntoNextLinear(At(10).n, At(11).l)>>

(* The forward pass over exported layers, a ReLU between them but not after*)
(* the last: verify_bn_folding, generate_verification_data and the C       *)
(* program's run_inference. *)
ApplyFolded(y, k) ==
  LET z == ApplyLinear(folded[k], y) IN IF k < Len(folded) THEN ApplyReLU(z) ELSE z
FoldedForward(x) ==
  LET after[k \in 0 .. Len(folded)] == IF k = 0 THEN x ELSE ApplyFolded(after[k - 1], k)
  IN  after[Len(folded)]

FoldInit ==
  /\ \E l0 \in Linear(n_features, hidden1), n0 \in BatchNorm(hidden1),
        l1 \in Linear(hidden1, hidden2), n1 \in BatchNorm(hidden2),
        l2 \in Linear(hidden2, hidden3), n2 \in BatchNorm(hidden3),
        l3 \in Linear(hidden3, n_actions) :
       network = Sequential(l0, n0, l1, n1, l2, n2, l3)
  /\ folded = <<>>

Fold ==
  /\ folded = <<>>
  /\ folded' = FoldedLayers
  /\ UNCHANGED network

FoldNext == Fold
FoldSpec == FoldInit /\ [][FoldNext]_foldVars

(* The exported layers compute what the trained network does, whatever the *)
(* signs of the scales, which a ReLU before the norm would not commute with*)
(* (fold_mlp_batchnorms, verify_bn_folding). *)
FoldingIsExact == folded # <<>> => \A x \in States : FoldedForward(x) = Forward(x)
=============================================================================

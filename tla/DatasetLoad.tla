----------------------------- MODULE DatasetLoad -----------------------------
(***************************************************************************)
(* The loaders of training/mlp/dataset.py (SchedulerDataset.__init__) and  *)
(* training/xgboost/features.py (load_features_and_labels), and the bounds *)
(* their callers give them (train_triple_classifier, _train_mlp.py): a     *)
(* Parquet file is read group by group and, when its matching rows are more*)
(* than max_rows, thinned out.  A group is the number of its rows that     *)
(* match the expert and platform filters; which of them are drawn is left  *)
(* to the random generator, so only their number is kept.                  *)
(***************************************************************************)
EXTENDS NoneValue, Integers, Sequences, FiniteSetsExt, SequencesExt

CONSTANTS
  MaxGroups,     \* row groups in a file
  MaxGroupRows,  \* matching rows in a group
  MaxRows        \* the bounds callers pass; None: no bound

ASSUME LoadAssumption ==
  MaxGroups \in Nat /\ MaxGroupRows \in Nat /\ MaxRows \subseteq Nat \cup {None}

VARIABLES
  groups,        \* the file's groups
  max_rows,      \* the bound asked for
  file,          \* "train", then "val"
  kept,          \* the rows taken from each group so far
  loading        \* FALSE once the second pass has left its loop
loadVars == <<groups, max_rows, file, kept, loading>>

Sum(s) == FoldSeq(LAMBDA a, b : a + b, 0, s)
total_expert_rows == Sum(groups)
write_pos == Sum(kept)

(* The bound in force: a validation file is loaded with a quarter of it, a *)
(* bound of None or 0 is none. *)
bound == IF max_rows = None \/ file = "train" THEN max_rows ELSE max_rows \div 4
Thinned == bound \notin {None, 0} /\ total_expert_rows > bound
n == IF Thinned THEN bound ELSE total_expert_rows

Files == UNION {[1 .. k -> 0 .. MaxGroupRows] : k \in 0 .. MaxGroups}
LoadInit ==
  /\ groups \in Files /\ max_rows \in MaxRows
  /\ file = "train" /\ kept = <<>> /\ loading = TRUE

(* round(rg_n * sample_ratio); the product of floats may fall on either    *)
(* side of an exact half. *)
RoundedShare(rg_n) ==
  {k \in 0 .. rg_n : LET off == 2 * (k * total_expert_rows - rg_n * n)
                     IN  -total_expert_rows <= off /\ off <= total_expert_rows}

(* Mutation: the rest of the buffer is not looked at. *)
ShareUnbounded(rg_n) == IF Thinned THEN RoundedShare(rg_n) ELSE {rg_n}
Share(rg_n) ==
  {Min({k, n - write_pos}) : k \in IF Thinned THEN RoundedShare(rg_n) ELSE {rg_n}}

(* One group of the second pass; a full buffer ends it. *)
ReadGroup ==
  /\ loading /\ Len(kept) < Len(groups) /\ total_expert_rows > 0
  /\ \E keep \in Share(groups[Len(kept) + 1]) :
       /\ kept' = Append(kept, keep)
       /\ loading' = (write_pos + keep < n)
  /\ UNCHANGED <<groups, max_rows, file>>

EndOfFile ==
  /\ loading /\ (Len(kept) = Len(groups) \/ total_expert_rows = 0)
  /\ loading' = FALSE
  /\ UNCHANGED <<groups, max_rows, file, kept>>

(* The validation file is loaded when the training file had any row. *)
LoadValidation ==
  /\ ~loading /\ file = "train" /\ write_pos > 0
  /\ file' = "val" /\ groups' \in Files /\ kept' = <<>> /\ loading' = TRUE
  /\ UNCHANGED max_rows

LoadNext == ReadGroup \/ EndOfFile \/ LoadValidation
LoadSpec == LoadInit /\ [][LoadNext]_loadVars

-----------------------------------------------------------------------------

(* The write position never leaves the arrays, which were allocated before *)
(* the shares were rounded, and no group is asked for more rows than it has*)
(* (dataset.py:103-130): both would raise in the middle of a load.  And a  *)
(* load without a bound loses no row, while one with a bound falls short of*)
(* it by at most half a row for each group (the trim at dataset.py:161).   *)
FillsItsArrays ==
  /\ write_pos <= n
  /\ \A i \in DOMAIN kept : kept[i] \in 0 .. groups[i]
  /\ ~loading => IF Thinned THEN 2 * (n - write_pos) <= Len(groups)
                 ELSE write_pos = total_expert_rows
=============================================================================

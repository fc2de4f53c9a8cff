---------------------------- MODULE DatasetSplit ----------------------------
(***************************************************************************)
(* scripts/split_dataset.py and scripts/validate_dataset.py: the episodes  *)
(* of the raw files are shuffled and shared out to a training, a validation*)
(* and a test file, one raw file after the other; the statistics are those *)
(* of the training file.  An episode is the key <<file, episode_id>> and   *)
(* stands for all its rows; a file is the set of the episodes in it.       *)
(***************************************************************************)
EXTENDS NoneValue, Integers, FiniteSets, Sequences, SequencesExt

CONSTANTS
  RawFiles,      \* the sequence of raw files, one for each combination
  EpisodeIds,    \* the episode numbers a file may have
  MaxSplits      \* bound on the splits made

ASSUME FilesAssumption == RawFiles \in Seq(Range(RawFiles))

VARIABLES
  raw,           \* file -> the episodes in it, {} when it is not there
  keys,          \* the splits' episodes: train_keys, val_keys, test_keys
  next_file,     \* position of the raw file read next, 0 when not splitting
  writers,       \* the splits opened by this run
  out,           \* the splits on disk, or None
  stats,         \* normalization.json: the episodes it is of, or None
  ended,         \* how the last split ended
  splits
splitVars == <<raw, keys, next_file, writers, out, stats, ended, splits>>

Splits == {"train", "val", "test"}
NoKeys == [s \in Splits |-> {}]

SplitInit ==
  /\ raw = [f \in Range(RawFiles) |-> {}]
  /\ keys = NoKeys /\ next_file = 0 /\ writers = {}
  /\ out = [s \in Splits |-> None] /\ stats = None
  /\ ended = "none" /\ splits = 0

(* Between splits the raw files are generated, some or all of them. *)
Regenerate ==
  /\ next_file = 0 /\ splits < MaxSplits
  /\ \E f \in Range(RawFiles), n \in 0 .. Cardinality(EpisodeIds) :
       raw' = [raw EXCEPT ![f] = {<<f, e>> : e \in {i \in EpisodeIds : i < n}}]
  /\ UNCHANGED <<keys, next_file, writers, out, stats, ended, splits>>

unique_keys == UNION {raw[f] : f \in Range(RawFiles)}

(* _assign_splits: the shares are cut to whole numbers, the rest is tested *)
(* on.  (The products of floats are these numbers below 90 episodes.)      *)
TrainShare(n) == (70 * n) \div 100
ValShare(n) == (15 * n) \div 100

TestKeys(train, val) == unique_keys \ (train \cup val)

SubsetsOfSize(S, n) == {k \in SUBSET S : Cardinality(k) = n}

(* split_dataset up to the second pass; without raw files nothing happens. *)
BeginSplit ==
  /\ next_file = 0 /\ splits < MaxSplits /\ unique_keys # {}
  /\ splits' = splits + 1
  /\ LET n == Cardinality(unique_keys)
     IN  \E train \in SubsetsOfSize(unique_keys, TrainShare(n)) :
           \E val \in SubsetsOfSize(unique_keys \ train, ValShare(n)) :
             keys' = [train |-> train, val |-> val, test |-> TestKeys(train, val)]
  /\ next_file' = 1 /\ writers' = {}
  /\ UNCHANGED <<raw, out, stats, ended>>

(* The second pass over one raw file: a split with rows in it is opened on *)
(* its first rows, and what it held before is gone. *)
(* Mutation: a file that is there is appended to. *)
AppendToOld ==
  /\ next_file \in DOMAIN RawFiles
  /\ LET rows(s) == raw[RawFiles[next_file]] \cap keys[s]
     IN  /\ writers' = writers \cup {s \in Splits : rows(s) # {}}
         /\ out' = [s \in Splits |->
                      IF rows(s) = {} THEN out[s]
                      ELSE rows(s) \cup IF out[s] = None THEN {} ELSE out[s]]
  /\ next_file' = next_file + 1
  /\ UNCHANGED <<raw, keys, stats, ended, splits>>
SplitFile ==
  /\ next_file \in DOMAIN RawFiles
  /\ LET rows(s) == raw[RawFiles[next_file]] \cap keys[s]
     IN  /\ writers' = writers \cup {s \in Splits : rows(s) # {}}
         /\ out' = [s \in Splits |->
                      IF rows(s) = {} THEN out[s]
                      ELSE rows(s) \cup IF s \in writers THEN out[s] ELSE {}]
  /\ next_file' = next_file + 1
  /\ UNCHANGED <<raw, keys, stats, ended, splits>>

End(how) == next_file' = 0 /\ keys' = NoKeys /\ writers' = {} /\ ended' = how

(* A raw file cannot be read: the writers are closed on what they have. *)
Fail ==
  /\ next_file \in DOMAIN RawFiles
  /\ End("raised")
  /\ UNCHANGED <<raw, out, stats, splits>>

(* compute_normalization_stats: of the training file that is there. *)
ComputeStats ==
  /\ next_file > Len(RawFiles)
  /\ IF out["train"] = None THEN End("raised") /\ UNCHANGED stats
     ELSE End("done") /\ stats' = out["train"]
  /\ UNCHANGED <<raw, out, splits>>

SplitNext == Regenerate \/ BeginSplit \/ SplitFile \/ Fail \/ ComputeStats
SplitSpec == SplitInit /\ [][SplitNext]_splitVars

-----------------------------------------------------------------------------
(* When a split is through, the files it wrote share out the episodes of   *)
(* the raw files: none is in two of them and none is lost, although each   *)
(* raw file is read twice and its rows are spread over three writers       *)
(* (_assign_splits, split_dataset). *)
WrittenFilesPartition ==
  next_file > Len(RawFiles) =>
    /\ \A s, r \in writers : s # r => out[s] \cap out[r] = {}
    /\ UNION {out[s] : s \in writers} = unique_keys

(* docs/dataset.md:80: the split "ensures all transitions from the same    *)
(* episode stay in the same split (prevents temporal data leakage)".  Fails*)
(* because a share without rows leaves the file of an earlier split.       *)
NoEpisodeInTwoSplits ==
  ended = "done" /\ next_file = 0 =>
    \A s, r \in Splits : s # r /\ out[s] # None /\ out[r] # None => out[s] \cap out[r] = {}
=============================================================================

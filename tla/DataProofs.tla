----------------------------- MODULE DataProofs -----------------------------
(***************************************************************************)
(* Theorems about the tools that make and carry data, component by         *)
(* component.  The components share nothing; each theorem is about the     *)
(* specification of one of them.                                           *)
(***************************************************************************)
EXTENDS DatasetSplit, DatasetLoad, DatasetBatch, Dagger, TraceIngest, Workloads, DataLemmas,
        SequenceTheorems

-----------------------------------------------------------------------------
(* The files a split writes partition the episodes.                        *)

Positions == DOMAIN RawFiles

(* The episodes of the raw files before position i. *)
ReadBefore(i) == UNION {raw[RawFiles[j]] : j \in {k \in Positions : k < i}}

SharesPartition ==
  /\ \A s, r \in Splits : s # r => keys[s] \cap keys[r] = {}
  /\ unique_keys = UNION {keys[s] : s \in Splits}

(* A split that has been opened holds the rows of its share read so far,   *)
(* and for the others none has been read. *)
StreamedSoFar ==
  \A s \in Splits :
    IF s \in writers THEN out[s] = ReadBefore(next_file) \cap keys[s]
    ELSE ReadBefore(next_file) \cap keys[s] = {}

SplitInv ==
  /\ next_file \in Nat
  /\ writers \subseteq Splits
  /\ next_file # 0 => SharesPartition /\ StreamedSoFar

LEMMA ReadOneMore ==
  ASSUME NEW i \in Positions, Positions \subseteq Nat
  PROVE  ReadBefore(i + 1) = ReadBefore(i) \cup raw[RawFiles[i]]
<1>1. \A k \in Positions : k < i + 1 <=> k < i \/ k = i
  <2>1. \A k \in Nat : k < i + 1 <=> k < i \/ k = i
    OBVIOUS
  <2> QED
    BY <2>1
<1> QED
  BY <1>1 DEF ReadBefore

LEMMA ReadAll ==
  ASSUME NEW i \in Nat, Positions = 1 .. Len(RawFiles), Len(RawFiles) \in Nat,
         i > Len(RawFiles)
  PROVE  ReadBefore(i) = unique_keys
<1>1. {k \in Positions : k < i} = Positions
  OBVIOUS
<1> QED
  BY <1>1 DEF ReadBefore, unique_keys, Range, Positions

LEMMA ReadNone ==
  ASSUME Positions \subseteq Nat \ {0}
  PROVE  ReadBefore(1) = {}
<1>1. \A k \in Positions : ~ (k < 1)
  <2>1. \A k \in Nat \ {0} : ~ (k < 1)
    OBVIOUS
  <2> QED
    BY <2>1
<1> QED
  BY <1>1 DEF ReadBefore

LEMMA BeginSplitKeeps ==
  ASSUME BeginSplit
  PROVE  SplitInv'
<1>1. PICK train \in SUBSET unique_keys : \E val \in SUBSET (unique_keys \ train) :
        keys' = [train |-> train, val |-> val, test |-> TestKeys(train, val)]
  BY DEF BeginSplit, SubsetsOfSize
<1>8. PICK val \in SUBSET (unique_keys \ train) :
        keys' = [train |-> train, val |-> val, test |-> TestKeys(train, val)]
  BY <1>1
<1>2. unique_keys' = unique_keys
  BY DEF BeginSplit, unique_keys
<1>3. SharesPartition'
  BY <1>8, <1>2 DEF SharesPartition, Splits, TestKeys
<1>4. Positions \subseteq Nat \ {0}
  BY FilesAssumption DEF Positions
<1>5. ReadBefore(1)' = {}
  BY <1>4, ReadNone DEF ReadBefore, BeginSplit
<1>6. next_file' = 1 /\ writers' = {}
  BY DEF BeginSplit
<1>7. StreamedSoFar'
  BY <1>5, <1>6 DEF StreamedSoFar
<1> QED
  BY <1>3, <1>6, <1>7 DEF SplitInv

LEMMA SplitFileKeeps ==
  ASSUME SplitInv, SplitFile
  PROVE  SplitInv'
<1> DEFINE now == raw[RawFiles[next_file]]
           part(s) == now \cap keys[s]
<1>1. next_file \in Positions /\ next_file # 0 /\ Positions \subseteq Nat
  BY FilesAssumption DEF SplitFile, Positions, SplitInv
<1>2. next_file' = next_file + 1 /\ raw' = raw /\ keys' = keys
  BY DEF SplitFile
<1>3. ReadBefore(next_file)' = ReadBefore(next_file) \cup now
  BY <1>1, <1>2, ReadOneMore DEF SplitInv, ReadBefore
<1>4. SharesPartition'
  BY <1>1, <1>2 DEF SharesPartition, unique_keys, SplitInv
<1>5. /\ writers' = writers \cup {s \in Splits : part(s) # {}}
      /\ \A s \in Splits :
           out'[s] = IF part(s) = {} THEN out[s]
                     ELSE part(s) \cup IF s \in writers THEN out[s] ELSE {}
  BY DEF SplitFile
<1>6. ASSUME NEW s \in Splits
      PROVE  IF s \in writers' THEN out'[s] = ReadBefore(next_file)' \cap keys'[s]
             ELSE ReadBefore(next_file)' \cap keys'[s] = {}
  <2>1. IF s \in writers THEN out[s] = ReadBefore(next_file) \cap keys[s]
        ELSE ReadBefore(next_file) \cap keys[s] = {}
    BY <1>1 DEF SplitInv, StreamedSoFar
  <2> QED
    BY <1>2, <1>3, <1>5, <2>1
<1> QED
  BY <1>2, <1>4, <1>5, <1>6 DEF SplitInv, StreamedSoFar

(* When a split is through, the files it wrote share out the episodes of   *)
(* the raw files: none is in two of them and none is lost, whatever the    *)
(* shares, however the episodes were drawn and whatever earlier splits and *)
(* failures left (_assign_splits, split_dataset). *)
THEOREM SplitPartitions == SplitSpec => []WrittenFilesPartition
<1>1. SplitInit => SplitInv
  BY DEF SplitInit, SplitInv
<1>2. SplitInv /\ [SplitNext]_splitVars => SplitInv'
  <2> SUFFICES ASSUME SplitInv, [SplitNext]_splitVars
               PROVE  SplitInv'
    OBVIOUS
  <2>1. CASE Regenerate
    BY <2>1 DEF Regenerate, SplitInv
  <2>2. CASE BeginSplit
    BY <2>2, BeginSplitKeeps
  <2>3. CASE SplitFile
    BY <2>3, SplitFileKeeps
  <2>4. ASSUME NEW how, End(how)
        PROVE  SplitInv'
    BY <2>4 DEF End, SplitInv
  <2>5. CASE Fail
    BY <2>4, <2>5 DEF Fail
  <2>6. CASE ComputeStats
    BY <2>4, <2>6 DEF ComputeStats
  <2>7. CASE UNCHANGED splitVars
    BY <2>7 DEF splitVars, SplitInv, SharesPartition, StreamedSoFar, ReadBefore, unique_keys
  <2> QED
    BY <2>1, <2>2, <2>3, <2>5, <2>6, <2>7 DEF SplitNext
<1>3. SplitInv => WrittenFilesPartition
  <2> SUFFICES ASSUME SplitInv, next_file > Len(RawFiles)
               PROVE  /\ \A s, r \in writers : s # r => out[s] \cap out[r] = {}
                      /\ UNION {out[s] : s \in writers} = unique_keys
    BY DEF WrittenFilesPartition
  <2>1. next_file # 0 /\ ReadBefore(next_file) = unique_keys
    BY FilesAssumption, ReadAll DEF SplitInv, Positions
  <2>2. \A s \in Splits : keys[s] \subseteq unique_keys
    BY <2>1 DEF SplitInv, SharesPartition
  <2>3. \A s \in Splits : IF s \in writers THEN out[s] = keys[s] ELSE keys[s] = {}
    BY <2>1, <2>2 DEF SplitInv, StreamedSoFar
  <2> QED
    BY <2>1, <2>3 DEF SplitInv, SharesPartition
<1> QED
  BY <1>1, <1>2, <1>3, PTL DEF SplitSpec

-----------------------------------------------------------------------------
(* Dagger for any rounds, episodes and seeds: what a round writes down is  *)
(* of its own episodes, whose seeds come after those of the rounds before. *)
Labelled == [seed : Nat, at : Nat, expert_policy : Nat]

Unlike(s) == \A i, j \in DOMAIN s : i # j => <<s[i].seed, s[i].at>> # <<s[j].seed, s[j].at>>
SeedsBelow(s, seed) == \A i \in DOMAIN s : s[i].seed < seed

DaggerTypes ==
  /\ iteration \in Nat /\ taken \in Nat
  /\ ep \in 0 .. episodes_per_iteration
  /\ corrected_transitions \in Seq(Labelled)
  /\ all_tables \in Seq(Seq(Labelled))

(* The rows of the round so far. *)
RoundInv ==
  /\ ep = episodes_per_iteration => taken = 0
  /\ Unlike(corrected_transitions)
  /\ \A i \in DOMAIN corrected_transitions :
       /\ Seed(iteration, 0) <= corrected_transitions[i].seed
       /\ corrected_transitions[i].seed <= Seed(iteration, ep)
       /\ corrected_transitions[i].seed = Seed(iteration, ep) => corrected_transitions[i].at < taken

(* The tables of the rounds before. *)
TablesInv ==
  /\ \A i \in DOMAIN all_tables : SeedsBelow(all_tables[i], Seed(iteration, 0))
  /\ SeedsBelow(FlattenSeq(all_tables), Seed(iteration, 0))
  /\ LabelledOnce

DaggerInv == DaggerTypes /\ RoundInv /\ TablesInv

LEMMA SeedsRise ==
  ASSUME NEW i \in Nat, NEW e \in Nat
  PROVE  /\ Seed(i, e) \in Nat /\ Seed(i, e + 1) = Seed(i, e) + 1
         /\ Seed(i + 1, 0) = Seed(i, episodes_per_iteration)
         /\ Seed(i, 0) <= Seed(i, e) /\ Seed(i, 0) \in Nat
<1> USE DaggerAssumption
<1>1. PICK m \in Nat : m = i * episodes_per_iteration
  OBVIOUS
<1>2. (i + 1) * episodes_per_iteration = m + episodes_per_iteration
  BY <1>1
<1> QED
  BY <1>1, <1>2 DEF Seed

LEMMA SameTables ==
  ASSUME LabelledOnce, all_tables' = all_tables
  PROVE  LabelledOnce'
<1>1. PICK tables : tables = all_tables
  OBVIOUS
<1>2. tables = all_tables'
  BY <1>1
<1> QED
  BY <1>1, <1>2 DEF LabelledOnce

LEMMA DecideKeeps ==
  ASSUME DaggerInv, Decide
  PROVE  DaggerInv'
<1> DEFINE c == corrected_transitions
           row == [seed |-> Seed(iteration, ep), at |-> taken, expert_policy |-> iteration]
<1>1. /\ ep \in Nat /\ ep # episodes_per_iteration /\ taken \in Nat /\ iteration \in Nat
      /\ c \in Seq(Labelled)
  BY DaggerAssumption DEF DaggerInv, DaggerTypes, Decide
<1>2. Seed(iteration, ep) \in Nat /\ Seed(iteration, 0) <= Seed(iteration, ep)
  BY <1>1, SeedsRise
<1>3. /\ taken' = taken + 1 /\ c' = Append(c, row)
      /\ iteration' = iteration /\ ep' = ep /\ all_tables' = all_tables
  BY DEF Decide, Correction
<1>4. row \in Labelled
  BY <1>1, <1>2 DEF Labelled
<1>5. DaggerTypes'
  BY <1>1, <1>3, <1>4 DEF DaggerInv, DaggerTypes
<1>6. TablesInv'
  <2>1. Seed(iteration, 0)' = Seed(iteration, 0)
    BY <1>3 DEF Seed
  <2>2. LabelledOnce'
    BY <1>3, SameTables DEF DaggerInv, TablesInv
  <2>3. \A i \in DOMAIN all_tables' : SeedsBelow(all_tables'[i], Seed(iteration, 0)')
    BY <1>3, <2>1 DEF DaggerInv, TablesInv
  <2>4. SeedsBelow(FlattenSeq(all_tables'), Seed(iteration, 0)')
    BY <1>3, <2>1 DEF DaggerInv, TablesInv
  <2> QED
    BY <2>2, <2>3, <2>4 DEF TablesInv
<1>7. /\ Len(c) \in Nat /\ DOMAIN c = 1 .. Len(c) /\ DOMAIN c' = 1 .. Len(c) + 1
      /\ c'[Len(c) + 1] = row /\ \A i \in 1 .. Len(c) : c'[i] = c[i] /\ c[i] \in Labelled
  BY <1>1, <1>3, <1>4
<1>8. \A i \in 1 .. Len(c) : /\ Seed(iteration, 0) <= c[i].seed /\ c[i].seed <= Seed(iteration, ep)
                             /\ c[i].seed = Seed(iteration, ep) => c[i].at < taken
  BY <1>7 DEF DaggerInv, RoundInv
<1>9. Unlike(c)
  BY DEF DaggerInv, RoundInv
<1>10. Seed(iteration, ep)' = Seed(iteration, ep) /\ Seed(iteration, 0)' = Seed(iteration, 0)
  BY <1>3 DEF Seed
<1>11. \A i \in 1 .. Len(c) : c[i].at \in Nat /\ c[i].seed \in Nat
  BY <1>7 DEF Labelled
<1>12. row.seed = Seed(iteration, ep) /\ row.at = taken
  OBVIOUS
<1> HIDE DEF c, row
<1>13. \A i \in 1 .. Len(c) : <<c[i].seed, c[i].at>> # <<row.seed, row.at>>
  BY <1>1, <1>8, <1>11, <1>12
<1>14. Unlike(c)'
  BY <1>7, <1>9, <1>13 DEF Unlike
<1>15. \A i \in DOMAIN c' : /\ Seed(iteration, 0)' <= c'[i].seed /\ c'[i].seed <= Seed(iteration, ep)'
                            /\ c'[i].seed = Seed(iteration, ep)' => c'[i].at < taken'
  BY <1>1, <1>2, <1>3, <1>7, <1>8, <1>10, <1>11, <1>12
<1>16. RoundInv'
  BY <1>1, <1>3, <1>14, <1>15 DEF RoundInv, c
<1> QED
  BY <1>5, <1>6, <1>16 DEF DaggerInv

LEMMA NextEpisodeKeeps ==
  ASSUME DaggerInv, NextEpisode
  PROVE  DaggerInv'
<1>1. /\ ep \in Nat /\ ep \in 0 .. episodes_per_iteration - 1 /\ taken \in Nat /\ iteration \in Nat
      /\ corrected_transitions \in Seq(Labelled) /\ episodes_per_iteration \in Nat
  BY DaggerAssumption DEF DaggerInv, DaggerTypes, NextEpisode
<1>2. /\ Seed(iteration, ep) \in Nat /\ Seed(iteration, ep + 1) = Seed(iteration, ep) + 1
      /\ Seed(iteration, 0) \in Nat
  BY <1>1, SeedsRise
<1>3. /\ ep' = ep + 1 /\ taken' = 0 /\ iteration' = iteration
      /\ corrected_transitions' = corrected_transitions /\ all_tables' = all_tables
  BY DEF NextEpisode
<1>4. DaggerTypes'
  BY <1>1, <1>3 DEF DaggerInv, DaggerTypes
<1>5. TablesInv'
  <2>1. Seed(iteration, 0)' = Seed(iteration, 0)
    BY <1>3 DEF Seed
  <2>2. LabelledOnce'
    BY <1>3, SameTables DEF DaggerInv, TablesInv
  <2>3. \A i \in DOMAIN all_tables' : SeedsBelow(all_tables'[i], Seed(iteration, 0)')
    BY <1>3, <2>1 DEF DaggerInv, TablesInv
  <2>4. SeedsBelow(FlattenSeq(all_tables'), Seed(iteration, 0)')
    BY <1>3, <2>1 DEF DaggerInv, TablesInv
  <2> QED
    BY <2>2, <2>3, <2>4 DEF TablesInv
<1>6. Seed(iteration, ep)' = Seed(iteration, ep) + 1 /\ Seed(iteration, 0)' = Seed(iteration, 0)
  BY <1>2, <1>3 DEF Seed
<1>7. \A i \in DOMAIN corrected_transitions : corrected_transitions[i].seed \in Nat
  <2>1. \A i \in DOMAIN corrected_transitions : corrected_transitions[i] \in Labelled
    BY <1>1
  <2> QED
    BY <2>1 DEF Labelled
<1>8. RoundInv'
  BY <1>2, <1>3, <1>6, <1>7 DEF DaggerInv, RoundInv, Unlike
<1> QED
  BY <1>4, <1>5, <1>8 DEF DaggerInv

LEMMA RoundEndsKeeps ==
  ASSUME DaggerInv, RoundEnds
  PROVE  DaggerInv'
<1> DEFINE c == corrected_transitions
           tables == all_tables
           flat == FlattenSeq(tables)
           from == Seed(iteration, 0)
           to == Seed(iteration + 1, 0)
<1>1. /\ ep = episodes_per_iteration /\ taken = 0 /\ iteration \in Nat
      /\ c \in Seq(Labelled) /\ tables \in Seq(Seq(Labelled)) /\ episodes_per_iteration \in Nat
  BY DaggerAssumption DEF DaggerInv, DaggerTypes, RoundInv, RoundEnds
<1>2. to = Seed(iteration, ep) /\ from \in Nat /\ to \in Nat /\ from <= to
  BY <1>1, SeedsRise
<1>3. /\ ep' = 0 /\ taken' = 0 /\ iteration' = iteration + 1 /\ c' = <<>>
      /\ tables' = tables \/ tables' = Append(tables, c)
  BY DEF RoundEnds
<1>4. DaggerTypes'
  <2>1. tables' \in Seq(Seq(Labelled)) /\ c' \in Seq(Labelled)
    BY <1>1, <1>3
  <2>2. iteration' \in Nat /\ taken' \in Nat /\ ep' \in 0 .. episodes_per_iteration
    BY <1>1, <1>3
  <2> QED
    BY <2>1, <2>2 DEF DaggerTypes
<1>5. RoundInv'
  BY <1>3 DEF RoundInv, Unlike
<1>6. \A i \in DOMAIN c : /\ c[i].seed \in Nat /\ c[i].at \in Nat
                          /\ from <= c[i].seed /\ c[i].seed < to
  <2>1. \A i \in DOMAIN c : c[i] \in Labelled
    BY <1>1
  <2>2. \A i \in DOMAIN c : /\ from <= c[i].seed /\ c[i].seed <= to
                            /\ c[i].seed = to => c[i].at < 0
    BY <1>1, <1>2 DEF DaggerInv, RoundInv
  <2>3. \A i \in DOMAIN c : c[i].seed \in Nat /\ c[i].at \in Nat
    BY <2>1 DEF Labelled
  <2> HIDE DEF c, from, to
  <2> QED
    BY <1>2, <2>2, <2>3
<1>7. flat \in Seq(Labelled)
  BY <1>1, FlattenType
<1>8. \A i \in DOMAIN flat : flat[i].seed \in Nat /\ flat[i].seed < from
  <2>1. \A i \in DOMAIN flat : flat[i] \in Labelled
    BY <1>7
  <2> QED
    BY <2>1 DEF DaggerInv, TablesInv, SeedsBelow, Labelled
<1>9. \A i \in DOMAIN tables : \A j \in DOMAIN tables[i] :
        tables[i][j].seed \in Nat /\ tables[i][j].seed < from
  <2>1. \A i \in DOMAIN tables : \A j \in DOMAIN tables[i] : tables[i][j] \in Labelled
    BY <1>1
  <2> QED
    BY <2>1 DEF DaggerInv, TablesInv, SeedsBelow, Labelled
<1>10. Unlike(c) /\ Unlike(flat)
  BY DEF DaggerInv, RoundInv, TablesInv, LabelledOnce, Unlike
<1>11. Seed(iteration, 0)' = to
  BY <1>3 DEF Seed
<1>12. CASE tables' = tables
  <2>1. SeedsBelow(flat, to) /\ \A i \in DOMAIN tables : SeedsBelow(tables[i], to)
    <3> HIDE DEF from, to, flat
    <3> QED
      BY <1>2, <1>8, <1>9 DEF SeedsBelow
  <2>2. TablesInv'
    BY <1>11, <1>12, <2>1 DEF DaggerInv, TablesInv, LabelledOnce
  <2> QED
    BY <1>4, <1>5, <2>2 DEF DaggerInv
<1>13. CASE tables' = Append(tables, c)
  <2>1. FlattenSeq(tables)' = flat \o c
    BY <1>1, <1>13, FlattenAppend
  <2>2. /\ Len(tables) \in Nat /\ DOMAIN tables = 1 .. Len(tables)
        /\ DOMAIN tables' = 1 .. Len(tables) + 1 /\ tables'[Len(tables) + 1] = c
        /\ \A i \in 1 .. Len(tables) : tables'[i] = tables[i]
    BY <1>1, <1>13
  <2>3. /\ Len(flat) \in Nat /\ Len(c) \in Nat /\ DOMAIN c = 1 .. Len(c)
        /\ DOMAIN flat = 1 .. Len(flat) /\ DOMAIN (flat \o c) = 1 .. Len(flat) + Len(c)
        /\ \A i \in 1 .. Len(flat) : (flat \o c)[i] = flat[i]
        /\ \A i \in 1 .. Len(flat) + Len(c) : i \notin 1 .. Len(flat) =>
             i - Len(flat) \in 1 .. Len(c) /\ (flat \o c)[i] = c[i - Len(flat)]
    BY <1>1, <1>7
  <2> HIDE DEF c, from, to, flat, tables
  <2>4. SeedsBelow(flat \o c, to)
    BY <1>2, <1>6, <1>8, <2>3 DEF SeedsBelow
  <2>5. \A i \in DOMAIN tables' : SeedsBelow(tables'[i], to)
    BY <1>2, <1>6, <1>9, <2>2 DEF SeedsBelow
  <2>6. Unlike(flat \o c)
    <3>1. ASSUME NEW i \in 1 .. Len(flat) + Len(c), NEW j \in 1 .. Len(flat) + Len(c), i # j
          PROVE  <<(flat \o c)[i].seed, (flat \o c)[i].at>> # <<(flat \o c)[j].seed, (flat \o c)[j].at>>
      <4>1. CASE i \in 1 .. Len(flat) /\ j \in 1 .. Len(flat)
        BY <1>10, <2>3, <3>1, <4>1 DEF Unlike
      <4>2. CASE i \in 1 .. Len(flat) /\ j \notin 1 .. Len(flat)
        BY <1>2, <1>6, <1>8, <2>3, <4>2
      <4>3. CASE i \notin 1 .. Len(flat) /\ j \in 1 .. Len(flat)
        <5>1. (flat \o c)[j].seed < from /\ from <= (flat \o c)[i].seed
          BY <1>6, <1>8, <2>3, <4>3
        <5>2. (flat \o c)[j].seed \in Nat /\ (flat \o c)[i].seed \in Nat
          BY <1>6, <1>8, <2>3, <4>3
        <5> QED
          BY <1>2, <5>1, <5>2
      <4>4. CASE i \notin 1 .. Len(flat) /\ j \notin 1 .. Len(flat)
        <5>1. i - Len(flat) # j - Len(flat)
          BY <2>3, <3>1
        <5> QED
          BY <1>10, <2>3, <4>4, <5>1 DEF Unlike
      <4> QED
        BY <4>1, <4>2, <4>3, <4>4
    <3> QED
      BY <2>3, <3>1 DEF Unlike
  <2>7. ASSUME NEW i \in DOMAIN tables', NEW j \in DOMAIN tables', i # j
        PROVE  {r.seed : r \in Range(tables'[i])} \cap {r.seed : r \in Range(tables'[j])} = {}
    <3>1. CASE i \in 1 .. Len(tables) /\ j \in 1 .. Len(tables)
      BY <2>2, <2>7, <3>1 DEF DaggerInv, TablesInv, LabelledOnce, tables
    <3>2. CASE i = Len(tables) + 1
      BY <1>2, <1>6, <1>9, <2>2, <2>7, <3>2 DEF Range
    <3>3. CASE j = Len(tables) + 1
      BY <1>2, <1>6, <1>9, <2>2, <2>7, <3>3 DEF Range
    <3>4. i \in 1 .. Len(tables) \/ i = Len(tables) + 1
      BY <2>2
    <3>5. j \in 1 .. Len(tables) \/ j = Len(tables) + 1
      BY <2>2
    <3> QED
      BY <3>1, <3>2, <3>3, <3>4, <3>5
  <2>8. LabelledOnce'
    BY <2>1, <2>6, <2>7 DEF LabelledOnce, Unlike, tables
  <2>9. TablesInv'
    BY <1>11, <2>1, <2>4, <2>5, <2>8 DEF TablesInv, tables
  <2> QED
    BY <1>4, <1>5, <2>9 DEF DaggerInv
<1> QED
  BY <1>3, <1>12, <1>13

(* However many decisions the episodes take and whatever rounds stay       *)
(* without a row, the tables repeat no row and share no episode            *)
(* (run_dagger). *)
THEOREM RowsAreLabelledOnce == DaggerSpec => []LabelledOnce
<1>1. DaggerInit => DaggerInv
  <2> SUFFICES ASSUME DaggerInit PROVE DaggerInv
    OBVIOUS
  <2>1. FlattenSeq(all_tables) = <<>>
    BY FlattenNone DEF DaggerInit
  <2> QED
    BY <2>1, DaggerAssumption DEF DaggerInit, DaggerInv, DaggerTypes, RoundInv, TablesInv,
       LabelledOnce, Unlike, SeedsBelow
<1>2. DaggerInv /\ [DaggerNext]_daggerVars => DaggerInv'
  <2> SUFFICES ASSUME DaggerInv, [DaggerNext]_daggerVars
               PROVE  DaggerInv'
    OBVIOUS
  <2>1. CASE UNCHANGED daggerVars
    <3>1. UNCHANGED <<iteration, ep, taken, corrected_transitions, all_tables>>
      BY <2>1 DEF daggerVars
    <3>2. DaggerTypes'
      BY <3>1 DEF DaggerInv, DaggerTypes
    <3>3. RoundInv'
      BY <3>1 DEF DaggerInv, RoundInv, Unlike, Seed
    <3>4. TablesInv'
      BY <3>1 DEF DaggerInv, TablesInv, LabelledOnce, SeedsBelow, Seed
    <3> QED
      BY <3>2, <3>3, <3>4 DEF DaggerInv
  <2> QED
    BY <2>1, DecideKeeps, NextEpisodeKeeps, RoundEndsKeeps DEF DaggerNext
<1>3. DaggerInv => LabelledOnce
  BY DEF DaggerInv, TablesInv
<1> QED
  BY <1>1, <1>2, <1>3, PTL DEF DaggerSpec

-----------------------------------------------------------------------------
(* DatasetLoad for files of any groups and any bound: the rows taken keep  *)
(* to the share of those read, half a row for each group apart.            *)
LEMMA SumIsTotal ==
  ASSUME NEW s
  PROVE  Sum(s) = TotalOf(s, DOMAIN s)
BY DEF Sum, FoldSeq, FoldFunction, FoldFunctionOnSet, TotalOf, MapThenSumSet, MapThenFoldSet

LEMMA SmallerOfTwo ==
  ASSUME NEW a \in Nat, NEW b \in Nat
  PROVE  Min({a, b}) = IF a <= b THEN a ELSE b
<1>1. \E x \in {a, b} : \A y \in {a, b} : x <= y
  OBVIOUS
<1>2. Min({a, b}) \in {a, b} /\ \A y \in {a, b} : Min({a, b}) <= y
  BY <1>1 DEF Min
<1> QED
  BY <1>2

(* The rows of the first k groups. *)
RowsOfFirst(k) == TotalOf(groups, 1 .. k)

LoadTypes ==
  /\ groups \in Seq(Nat) /\ kept \in Seq(Nat) /\ Len(kept) <= Len(groups)
  /\ max_rows \in Nat \cup {None} /\ loading \in BOOLEAN

KeepsItsShare ==
  LET read == Len(kept)
  IN  IF Thinned
      THEN 2 * (n * RowsOfFirst(read) - total_expert_rows * write_pos) <= read * total_expert_rows
      ELSE write_pos = RowsOfFirst(read)

LoadInv == LoadTypes /\ FillsItsArrays /\ (loading => KeepsItsShare)

(* What the totals are; all rows are those of the first Len(groups) groups.*)
LEMMA LoadTotals ==
  ASSUME LoadTypes
  PROVE  /\ total_expert_rows = RowsOfFirst(Len(groups)) /\ total_expert_rows \in Nat
         /\ write_pos = TotalOf(kept, 1 .. Len(kept)) /\ write_pos \in Nat
         /\ n \in Nat /\ n <= total_expert_rows
         /\ \A k \in 0 .. Len(groups) :
              RowsOfFirst(k) \in Nat /\ RowsOfFirst(k) <= total_expert_rows
         /\ RowsOfFirst(0) = 0
<1>1. /\ Len(groups) \in Nat /\ DOMAIN groups = 1 .. Len(groups)
      /\ \A i \in 1 .. Len(groups) : groups[i] \in Nat
      /\ Len(kept) \in Nat /\ DOMAIN kept = 1 .. Len(kept)
      /\ \A i \in 1 .. Len(kept) : kept[i] \in Nat
  BY DEF LoadTypes
<1>2. total_expert_rows = RowsOfFirst(Len(groups)) /\ total_expert_rows \in Nat
  BY <1>1, SumIsTotal, TotalOfPrefix DEF total_expert_rows, RowsOfFirst
<1>3. write_pos = TotalOf(kept, 1 .. Len(kept)) /\ write_pos \in Nat
  BY <1>1, SumIsTotal, TotalOfPrefix DEF write_pos
<1>4. n \in Nat /\ n <= total_expert_rows
  <2>1. bound # None => bound \in Nat
    BY DEF bound, LoadTypes
  <2> QED
    BY <1>2, <2>1 DEF n, Thinned
<1>5. \A k \in 0 .. Len(groups) : RowsOfFirst(k) \in Nat /\ RowsOfFirst(k) <= total_expert_rows
  BY <1>1, <1>2, TotalOfPrefix DEF RowsOfFirst
<1>6. RowsOfFirst(0) = 0
  BY TotalOfPrefix DEF RowsOfFirst
<1> QED
  BY <1>2, <1>3, <1>4, <1>5, <1>6

(* One group more. *)
LEMMA ReadGroupKeeps ==
  ASSUME LoadInv, ReadGroup
  PROVE  LoadInv'
<1> DEFINE L == Len(kept)
           T == total_expert_rows
           P == RowsOfFirst(L)
           W == write_pos
           N == n
<1>1. /\ L \in Nat /\ Len(groups) \in Nat /\ L < Len(groups)
      /\ L + 1 \in 1 .. Len(groups) /\ groups[L + 1] \in Nat /\ kept \in Seq(Nat)
      /\ DOMAIN groups = 1 .. Len(groups)
  BY DEF LoadInv, LoadTypes, ReadGroup
<1>2. /\ T \in Nat /\ P \in Nat /\ W \in Nat /\ N \in Nat
      /\ RowsOfFirst(L + 1) \in Nat /\ RowsOfFirst(L + 1) <= T
  BY <1>1, LoadTotals DEF LoadInv
<1> DEFINE g == groups[L + 1]
<1>3. RowsOfFirst(L + 1) = P + g
  <2>1. \A i \in 1 .. L + 1 : groups[i] \in Nat
    BY <1>1 DEF LoadInv, LoadTypes
  <2>2. L + 1 \in Nat /\ L + 1 > 0 /\ (L + 1) - 1 = L
    BY <1>1
  <2> HIDE DEF L
  <2>3. TotalOf(groups, 1 .. L + 1) = TotalOf(groups, 1 .. L) + groups[L + 1]
    BY <2>1, <2>2, TotalOfPrefix
  <2> QED
    BY <2>3 DEF RowsOfFirst
<1>4. PICK keep \in Share(g) : /\ kept' = Append(kept, keep)
                               /\ loading' = (W + keep < N)
  BY DEF ReadGroup
<1>5. groups' = groups /\ max_rows' = max_rows /\ file' = file /\ loading
  BY DEF ReadGroup
<1>6. T' = T /\ Thinned' = Thinned /\ N' = N
  BY <1>5 DEF total_expert_rows, Thinned, n, bound
<1>7. W <= N
  BY DEF LoadInv, FillsItsArrays
<1>8. PICK k \in 0 .. g : /\ keep = IF k <= N - W THEN k ELSE N - W
                          /\ Thinned => /\ -T <= 2 * (k * T - g * N)
                                        /\ 2 * (k * T - g * N) <= T
                          /\ ~Thinned => k = g
  <2>1. PICK k \in IF Thinned THEN RoundedShare(g) ELSE {g} : keep = Min({k, N - W})
    BY <1>4 DEF Share
  <2>2. k \in 0 .. g
    BY <1>1, <2>1 DEF RoundedShare
  <2>3. N - W \in Nat
    BY <1>2, <1>7
  <2>4. keep = IF k <= N - W THEN k ELSE N - W
    BY <2>1, <2>2, <2>3, SmallerOfTwo
  <2> QED
    BY <2>1, <2>2, <2>4 DEF RoundedShare
<1>9. keep \in 0 .. g /\ keep \in Nat /\ W + keep <= N
  BY <1>1, <1>2, <1>7, <1>8
<1>10. /\ Len(kept') = L + 1 /\ DOMAIN kept' = 1 .. L + 1 /\ kept' \in Seq(Nat)
       /\ kept'[L + 1] = keep /\ \A i \in 1 .. L : kept'[i] = kept[i]
  BY <1>1, <1>4, <1>9
<1>11. LoadTypes'
  BY <1>1, <1>4, <1>5, <1>9, <1>10 DEF LoadInv, LoadTypes
<1>12. W' = W + keep
  <2>1. W' = TotalOf(kept', 1 .. L + 1) /\ W = TotalOf(kept, 1 .. L)
    BY <1>10, <1>11, LoadTotals, SumIsTotal DEF LoadInv, write_pos
  <2>2. TotalOf(kept', 1 .. L + 1) = TotalOf(kept', 1 .. L) + keep
    <3>1. \A i \in 1 .. L + 1 : kept'[i] \in Nat
      BY <1>10
    <3>2. L + 1 \in Nat /\ L + 1 > 0 /\ (L + 1) - 1 = L
      BY <1>1
    <3> HIDE DEF L
    <3> QED
      BY <1>10, <3>1, <3>2, TotalOfPrefix
  <2>3. TotalOf(kept', 1 .. L) = TotalOf(kept, 1 .. L)
    <3>1. IsFiniteSet(1 .. L) /\ \A i \in 1 .. L : kept'[i] = kept[i]
      BY <1>1, <1>10, FS_Interval
    <3> HIDE DEF L
    <3> QED
      BY <3>1, TotalSame
  <2> QED
    BY <2>1, <2>2, <2>3
<1>13. \A i \in DOMAIN kept' : kept'[i] \in 0 .. groups'[i]
  <2>1. \A i \in 1 .. L : kept[i] \in 0 .. groups[i]
    BY <1>1 DEF LoadInv, FillsItsArrays
  <2>2. \A i \in 1 .. L + 1 : i \in 1 .. L \/ i = L + 1
    BY <1>1
  <2> HIDE DEF L
  <2> QED
    BY <1>5, <1>9, <1>10, <2>1, <2>2
<1>14. P' = RowsOfFirst(L + 1) /\ Len(groups') = Len(groups)
  BY <1>5, <1>10 DEF RowsOfFirst
<1>15. ~loading => FALSE
  BY <1>5
<1>16. KeepsItsShare
  BY <1>5 DEF LoadInv
<1>17. CASE Thinned
  <2>1. 2 * (N * P - T * W) <= L * T
    BY <1>16, <1>17 DEF KeepsItsShare
  <2>2. keep = k => 2 * (N * (P + g) - T * (W + keep)) <= (L + 1) * T
    <3> HIDE DEF N, P, T, W, L, g
    <3>1. 2 * (k * T - g * N) >= -T
      BY <1>8, <1>17
    <3>2. /\ N * (P + g) = N * P + N * g /\ T * (W + k) = T * W + T * k
          /\ (L + 1) * T = L * T + T /\ k * T = T * k /\ g * N = N * g
      BY <1>1, <1>2 DEF g
    <3>3. /\ N * P \in Int /\ N * g \in Int /\ T * W \in Int /\ T * k \in Int
          /\ L * T \in Int
      BY <1>1, <1>2 DEF g
    <3>4. \A a, b, c, d, e \in Int :
            2 * (a - c) <= e /\ 2 * (d - b) >= -T => 2 * ((a + b) - (c + d)) <= e + T
      BY <1>2
    <3>5. 2 * ((N * P + N * g) - (T * W + T * k)) <= L * T + T
      BY <2>1, <3>1, <3>2, <3>3, <3>4
    <3> QED
      BY <3>2, <3>5
  <2>3. W + keep < N => keep = k
    BY <1>1, <1>2, <1>8
  <2>4. W + keep < N => KeepsItsShare'
    BY <1>3, <1>6, <1>10, <1>12, <1>14, <1>17, <2>2, <2>3 DEF KeepsItsShare
  <2>5. ~(W + keep < N) => 2 * (N' - W') <= Len(groups')
    BY <1>1, <1>2, <1>6, <1>9, <1>12, <1>14
  <2>6. FillsItsArrays'
    BY <1>4, <1>6, <1>9, <1>12, <1>13, <1>17, <2>5 DEF FillsItsArrays
  <2> QED
    BY <1>4, <1>11, <2>4, <2>6 DEF LoadInv
<1>18. CASE ~Thinned
  <2>1. W = P /\ N = T
    BY <1>16, <1>18 DEF KeepsItsShare, n
  <2>2. keep = g
    BY <1>1, <1>2, <1>3, <1>8, <1>18, <2>1
  <2>3. W' = RowsOfFirst(L + 1)
    BY <1>3, <1>12, <2>1, <2>2
  <2>4. KeepsItsShare'
    BY <1>6, <1>10, <1>14, <1>18, <2>3 DEF KeepsItsShare
  <2>5. ~(W + keep < N) => W' = T'
    BY <1>2, <1>6, <1>9, <1>12, <2>1
  <2>6. FillsItsArrays'
    BY <1>4, <1>6, <1>9, <1>12, <1>13, <1>18, <2>5 DEF FillsItsArrays
  <2> QED
    BY <1>11, <2>4, <2>6 DEF LoadInv
<1> QED
  BY <1>17, <1>18

LEMMA EndOfFileKeeps ==
  ASSUME LoadInv, EndOfFile
  PROVE  LoadInv'
<1> DEFINE L == Len(kept)
           T == total_expert_rows
           W == write_pos
           N == n
<1>1. /\ groups' = groups /\ max_rows' = max_rows /\ file' = file /\ kept' = kept
      /\ loading /\ ~loading' /\ loading' \in BOOLEAN
  BY DEF EndOfFile
<1>2. T' = T /\ W' = W /\ Thinned' = Thinned /\ N' = N
  BY <1>1 DEF total_expert_rows, write_pos, Thinned, n, bound
<1>3. LoadTypes'
  BY <1>1 DEF LoadInv, LoadTypes
<1>4. /\ T \in Nat /\ W \in Nat /\ N \in Nat /\ N <= T /\ W <= N
      /\ L \in Nat /\ Len(groups) \in Nat
  BY LoadTotals DEF LoadInv, FillsItsArrays, LoadTypes
<1>5. KeepsItsShare
  BY <1>1 DEF LoadInv
<1>6. CASE Thinned
  <2>1. T > 0 /\ L = Len(groups)
    <3>1. bound \in Nat
      BY <1>6 DEF bound, Thinned, LoadInv, LoadTypes
    <3>2. T > 0
      BY <1>4, <1>6, <3>1 DEF Thinned
    <3> QED
      BY <3>2 DEF EndOfFile
  <2>2. RowsOfFirst(L) = T
    BY <2>1, LoadTotals DEF LoadInv
  <2>3. 2 * (N * T - T * W) <= L * T
    BY <1>5, <1>6, <2>2 DEF KeepsItsShare
  <2>4. 2 * (N - W) <= L
    <3> HIDE DEF N, T, W, L
    <3> QED
      BY <1>4, <2>1, <2>3
  <2> QED
    BY <1>1, <1>2, <1>3, <1>6, <2>1, <2>4 DEF LoadInv, FillsItsArrays
<1>7. CASE ~Thinned
  <2>1. W = T
    <3>1. CASE T = 0
      BY <1>4, <3>1
    <3>2. CASE L = Len(groups)
      BY <1>5, <1>7, <3>2, LoadTotals DEF LoadInv, KeepsItsShare
    <3> QED
      BY <3>1, <3>2 DEF EndOfFile
  <2> QED
    BY <1>1, <1>2, <1>3, <1>7, <2>1 DEF LoadInv, FillsItsArrays
<1> QED
  BY <1>6, <1>7

(* Before the second pass. *)
LoadStart == groups \in Files /\ max_rows \in Nat \cup {None} /\ kept = <<>> /\ loading = TRUE

LEMMA LoadBegins == LoadStart => LoadInv
<1> SUFFICES ASSUME LoadStart PROVE LoadInv
  OBVIOUS
<1> USE DEF LoadStart
<1>1. groups \in Seq(Nat)
  BY LoadAssumption DEF Files
<1>2. LoadTypes
  BY <1>1 DEF LoadTypes
<1>3. write_pos = 0 /\ n \in Nat /\ total_expert_rows \in Nat /\ RowsOfFirst(0) = 0
  <2>1. TotalOf(kept, 1 .. 0) = 0
    BY TotalOfPrefix
  <2> QED
    BY <1>2, <2>1, LoadTotals
<1>4. KeepsItsShare
  BY <1>3 DEF KeepsItsShare
<1> QED
  BY <1>2, <1>3, <1>4 DEF LoadInv, FillsItsArrays

(* No load writes past its arrays or asks a group for rows it has not, a   *)
(* load without a bound loses no row, and one with a bound falls short of  *)
(* it by half a row for each group at most, for any groups and any bound   *)
(* (SchedulerDataset.__init__, load_features_and_labels). *)
THEOREM ArraysAreFilled == LoadSpec => []FillsItsArrays
<1>1. LoadInit => LoadInv
  BY LoadBegins, LoadAssumption DEF LoadInit, LoadStart
<1>2. LoadInv /\ [LoadNext]_loadVars => LoadInv'
  <2> SUFFICES ASSUME LoadInv, [LoadNext]_loadVars
               PROVE  LoadInv'
    OBVIOUS
  <2>1. CASE LoadValidation
    <3>1. LoadStart'
      BY <2>1 DEF LoadValidation, LoadInv, LoadTypes, LoadStart, Files
    <3>2. LoadStart' => LoadInv'
      BY LoadBegins, PTL
    <3> QED
      BY <3>1, <3>2
  <2>2. CASE UNCHANGED loadVars
    BY <2>2 DEF loadVars, LoadInv, LoadTypes, FillsItsArrays, KeepsItsShare, RowsOfFirst,
       total_expert_rows, write_pos, Thinned, n, bound
  <2> QED
    BY <2>1, <2>2, ReadGroupKeeps, EndOfFileKeeps DEF LoadNext
<1>3. LoadInv => FillsItsArrays
  BY DEF LoadInv
<1> QED
  BY <1>1, <1>2, <1>3, PTL DEF LoadSpec

-----------------------------------------------------------------------------
(* Workloads for any scenarios and draws: every window lies in the episode,*)
(* the arrivals of the seeding in progress lie in its window, and those of *)
(* the seedings to come are not there yet.                                 *)
Jobs == {s \in [component : STRING, intensity : Nat \ {0}, from : Nat, to : Int] : s.to <= end_ns}
Arrivals ==
  [task_id : Nat, component : STRING, time : 0 .. end_ns - 1, seeding : Nat,
   windowed : BOOLEAN, cpu_affinity : Int]

WorkloadTypes ==
  /\ scenario \in Scenarios
  /\ todo \in Seq(Jobs)
  /\ arrivals \in Seq(Arrivals)

ClockInv ==
  /\ t # None => todo # <<>> /\ t \in Nat /\ t >= job.from
  /\ window # None => todo # <<>> /\ window \in Nat /\ window >= job.from

SeededInv ==
  \A i \in DOMAIN arrivals :
    /\ arrivals[i].seeding >= Len(todo)
    /\ todo # <<>> /\ arrivals[i].seeding = Len(todo) =>
         job.from <= arrivals[i].time /\ arrivals[i].time < job.to

WorkloadInv == WorkloadTypes /\ ClockInv /\ SeededInv

LEMMA FirstJob ==
  ASSUME WorkloadTypes, todo # <<>>
  PROVE  /\ job.component \in STRING /\ job.intensity \in Nat \ {0}
         /\ job.from \in Nat /\ job.to \in Int /\ job.to <= end_ns /\ end_ns \in Nat
         /\ Tail(todo) \in Seq(Jobs) /\ Len(Tail(todo)) = Len(todo) - 1 /\ Len(todo) \in Nat
<1>1. job \in Jobs
  BY DEF WorkloadTypes, job
<1> QED
  BY <1>1, WorkloadAssumption DEF WorkloadTypes, Jobs, end_ns

(* Arrivals within the window of the seeding in progress. *)
LEMMA EmitKeeps ==
  ASSUME WorkloadInv, todo # <<>>, NEW times \in Seq(Int),
         \A i \in DOMAIN times : job.from <= times[i] /\ times[i] < job.to,
         Emit(times), todo' = todo, scenario' = scenario
  PROVE  arrivals' \in Seq(Arrivals)' /\ SeededInv'
<1> DEFINE new == [i \in DOMAIN times |->
              [task_id |-> Len(arrivals) + i, component |-> job.component, time |-> times[i],
               seeding |-> Len(todo), windowed |-> window # None, cpu_affinity |-> ANY]]
           A == Len(arrivals)
           K == Len(times)
<1>1. /\ job.component \in STRING /\ job.from \in Nat /\ job.to \in Int /\ job.to <= end_ns
      /\ end_ns \in Nat /\ Len(todo) \in Nat
  BY FirstJob DEF WorkloadInv
<1>2. arrivals \in Seq(Arrivals) /\ A \in Nat /\ K \in Nat /\ DOMAIN times = 1 .. K
  BY DEF WorkloadInv, WorkloadTypes
<1>3. ASSUME NEW i \in 1 .. K
      PROVE  /\ new[i] \in Arrivals /\ new[i].seeding = Len(todo)
             /\ job.from <= new[i].time /\ new[i].time < job.to
  <2>1. times[i] \in Int /\ job.from <= times[i] /\ times[i] < job.to
    BY <1>2
  <2>2. times[i] \in 0 .. end_ns - 1
    BY <1>1, <2>1
  <2>3. A + i \in Nat /\ ANY \in Int
    BY <1>2 DEF ANY
  <2> QED
    BY <1>1, <1>2, <2>1, <2>2, <2>3 DEF Arrivals
<1>4. new \in Seq(Arrivals) /\ Len(new) = K
  BY <1>2, <1>3
<1>5. arrivals' = arrivals \o new
  BY DEF Emit
<1>6. Arrivals' = Arrivals /\ job' = job
  BY DEF Arrivals, job, end_ns
<1> HIDE DEF new, Arrivals
<1>7. /\ arrivals' \in Seq(Arrivals) /\ DOMAIN arrivals' = 1 .. A + K /\ DOMAIN arrivals = 1 .. A
      /\ \A i \in 1 .. A : arrivals'[i] = arrivals[i]
      /\ \A i \in 1 .. A + K : i \notin 1 .. A => i - A \in 1 .. K /\ arrivals'[i] = new[i - A]
  <2>1. arrivals' \in Seq(Arrivals) /\ Len(arrivals') = A + K
    BY <1>2, <1>4, <1>5
  <2>2. DOMAIN arrivals' = 1 .. A + K /\ DOMAIN arrivals = 1 .. A
    BY <1>2, <2>1
  <2>3. \A i \in 1 .. A : arrivals'[i] = arrivals[i]
    BY <1>2, <1>4, <1>5
  <2>4. ASSUME NEW i \in 1 .. A + K, i \notin 1 .. A
        PROVE  i - A \in 1 .. K /\ arrivals'[i] = new[i - A]
    BY <1>2, <1>4, <1>5, <2>4
  <2> QED
    BY <2>1, <2>2, <2>3, <2>4
<1> HIDE DEF A, K
<1>8. ASSUME NEW i \in 1 .. A + K
      PROVE  /\ arrivals'[i].seeding >= Len(todo)
             /\ arrivals'[i].seeding = Len(todo) =>
                  job.from <= arrivals'[i].time /\ arrivals'[i].time < job.to
  <2>1. CASE i \in 1 .. A
    BY <1>7, <2>1 DEF WorkloadInv, SeededInv
  <2>2. CASE i \notin 1 .. A
    <3>1. PICK k \in 1 .. K : arrivals'[i] = new[k]
      BY <1>7, <2>2
    <3>2. Len(todo) \in Nat
      BY <1>1
    <3> QED
      BY <1>3, <3>1, <3>2
  <2> QED
    BY <2>1, <2>2
<1>9. SeededInv'
  BY <1>6, <1>7, <1>8 DEF SeededInv
<1> QED
  BY <1>6, <1>7, <1>9

LEMMA NextProfileKeeps ==
  ASSUME WorkloadInv, todo # <<>>, NextProfile, UNCHANGED <<arrivals, scenario>>
  PROVE  WorkloadInv'
<1>1. /\ Tail(todo) \in Seq(Jobs) /\ Len(Tail(todo)) = Len(todo) - 1 /\ Len(todo) \in Nat
  BY FirstJob DEF WorkloadInv
<1>2. Jobs' = Jobs /\ Arrivals' = Arrivals
  BY DEF Jobs, Arrivals, end_ns
<1>3. WorkloadTypes'
  BY <1>1, <1>2 DEF WorkloadInv, WorkloadTypes, NextProfile
<1>4. ClockInv'
  BY DEF ClockInv, NextProfile
<1>5. \A i \in DOMAIN arrivals : arrivals[i].seeding >= Len(todo) /\ arrivals[i].seeding \in Nat
  <2>1. \A i \in DOMAIN arrivals : arrivals[i] \in Arrivals
    BY DEF WorkloadInv, WorkloadTypes
  <2> QED
    BY <2>1 DEF WorkloadInv, SeededInv, Arrivals
<1>6. SeededInv'
  <2>1. Len(todo') = Len(todo) - 1 /\ arrivals' = arrivals
    BY <1>1 DEF NextProfile
  <2> QED
    BY <1>1, <1>5, <2>1 DEF SeededInv
<1> QED
  BY <1>3, <1>4, <1>6 DEF WorkloadInv

LEMMA BurstTimes ==
  ASSUME NEW now \in Nat, now >= job.from, ~ now >= job.to, job.from \in Nat, job.to \in Int,
         NEW b \in BurstsOf(now, job.to)
  PROVE  /\ <<now>> \o b \in Seq(Int)
         /\ \A i \in DOMAIN (<<now>> \o b) :
              job.from <= (<<now>> \o b)[i] /\ (<<now>> \o b)[i] < job.to
<1>1. b \in Seq(Int) /\ \A i \in DOMAIN b : job.from <= b[i] /\ b[i] < job.to
  <2> DEFINE drawn == {now + o : o \in BurstOffsets}
             before == {x \in drawn : x < job.to}
  <2>1. \A x \in before : x \in Int /\ job.from <= x /\ x < job.to
    BY WorkloadAssumption
  <2>2. b = <<>> \/ \E j \in Nat : b \in [1 .. j -> before]
    <3> DEFINE kept_of(k) == IF before = drawn THEN {k} ELSE 0 .. k
               counts == UNION {kept_of(k) : k \in BurstCounts}
    <3>1. b \in {<<>>} \cup UNION {[1 .. j -> before] : j \in counts}
      BY DEF BurstsOf
    <3>2. counts \subseteq Nat
      BY WorkloadAssumption
    <3> HIDE DEF counts, before
    <3> QED
      BY <3>1, <3>2
  <2> HIDE DEF before
  <2>3. CASE b = <<>>
    BY <2>3
  <2>4. CASE \E j \in Nat : b \in [1 .. j -> before]
    <3>1. PICK j \in Nat : b \in [1 .. j -> before]
      BY <2>4
    <3> QED
      BY <2>1, <3>1
  <2> QED
    BY <2>2, <2>3, <2>4
<1> DEFINE times == <<now>> \o b
<1>2. times \in Seq(Int) /\ \A i \in DOMAIN times : job.from <= times[i] /\ times[i] < job.to
  <2>1. <<now>> \in Seq(Int) /\ Len(<<now>>) = 1 /\ <<now>>[1] = now
    OBVIOUS
  <2>2. /\ times \in Seq(Int) /\ Len(b) \in Nat /\ DOMAIN times = 1 .. 1 + Len(b)
        /\ times[1] = now
        /\ \A i \in 1 .. 1 + Len(b) : i # 1 => times[i] = b[i - 1] /\ i - 1 \in DOMAIN b
    BY <1>1, <2>1
  <2> HIDE DEF times
  <2>3. ASSUME NEW i \in DOMAIN times
        PROVE  job.from <= times[i] /\ times[i] < job.to
    <3>1. CASE i = 1
      BY <2>2, <3>1
    <3>2. CASE i # 1
      BY <1>1, <2>2, <3>2
    <3> QED
      BY <3>1, <3>2
  <2> QED
    BY <2>2, <2>3
<1> QED
  BY <1>2

LEMMA AnomalyArrivalKeeps ==
  ASSUME WorkloadInv, AnomalyArrival, scenario' = scenario
  PROVE  WorkloadInv'
<1>1. todo # <<>>
  BY DEF AnomalyArrival, Seeds
<1>2. PICK gap \in Gaps :
        LET now == (IF t = None THEN job.from ELSE t) + gap
        IN  IF now >= job.to THEN NextProfile /\ UNCHANGED arrivals
            ELSE /\ t' = now /\ UNCHANGED <<todo, window>>
                 /\ \E b \in BurstsOf(now, job.to) : Emit(<<now>> \o b)
  BY DEF AnomalyArrival
<1> DEFINE now == (IF t = None THEN job.from ELSE t) + gap
<1>3. job.from \in Nat /\ job.to \in Int /\ gap \in Nat
  BY <1>1, FirstJob, WorkloadAssumption DEF WorkloadInv
<1>4. now \in Nat /\ now >= job.from
  BY <1>3 DEF WorkloadInv, ClockInv
<1>5. CASE now >= job.to
  BY <1>1, <1>2, <1>5, NextProfileKeeps
<1>6. CASE ~ now >= job.to
  <2>1. PICK b \in BurstsOf(now, job.to) : Emit(<<now>> \o b)
    BY <1>2, <1>6
  <2>2. t' = now /\ todo' = todo /\ window' = window
    BY <1>2, <1>6
  <2> HIDE DEF now
  <2> DEFINE times == <<now>> \o b
  <2>4. times \in Seq(Int) /\ \A i \in DOMAIN times : job.from <= times[i] /\ times[i] < job.to
    BY <1>3, <1>4, <1>6, BurstTimes
  <2>5. arrivals' \in Seq(Arrivals)' /\ SeededInv'
    <3> HIDE DEF times
    <3>1. Emit(times)
      BY <2>1 DEF times
    <3> QED
      BY <1>1, <2>2, <2>4, <3>1, EmitKeeps
  <2>6. WorkloadTypes'
    BY <2>2, <2>5 DEF WorkloadInv, WorkloadTypes, Jobs, end_ns
  <2>7. ClockInv'
    BY <1>1, <1>4, <2>2 DEF WorkloadInv, ClockInv, job
  <2> QED
    BY <2>5, <2>6, <2>7 DEF WorkloadInv
<1> QED
  BY <1>5, <1>6

(* A step of a periodic loop by some interval. *)
LEMMA TickOfKeeps ==
  ASSUME WorkloadInv, t # None, NEW step \in Nat, TickOf(step), scenario' = scenario
  PROVE  WorkloadInv'
<1>1. PICK jitter \in Jitter(step) :
        Emit(IF Kept(t + jitter) THEN <<t + jitter>> ELSE <<>>) /\ t' = t + step
  BY DEF TickOf
<1>2. todo' = todo /\ window' = window
  BY DEF TickOf
<1>3. todo # <<>> /\ t \in Nat /\ t >= job.from
  BY DEF WorkloadInv, ClockInv
<1>4. job.from \in Nat /\ job.to \in Int /\ jitter \in Int
  BY <1>3, FirstJob DEF WorkloadInv, Jitter
<1> DEFINE times == IF Kept(t + jitter) THEN <<t + jitter>> ELSE <<>>
<1>5. times \in Seq(Int) /\ \A i \in DOMAIN times : job.from <= times[i] /\ times[i] < job.to
  <2>1. t + jitter \in Int
    BY <1>3, <1>4
  <2>2. CASE Kept(t + jitter)
    BY <2>1, <2>2 DEF Kept
  <2>3. CASE ~Kept(t + jitter)
    BY <2>3
  <2> QED
    BY <2>2, <2>3
<1>6. arrivals' \in Seq(Arrivals)' /\ SeededInv'
  <2>1. Emit(times)
    BY <1>1
  <2> HIDE DEF times
  <2> QED
    BY <1>2, <1>3, <1>5, <2>1, EmitKeeps
<1>7. WorkloadTypes'
  BY <1>2, <1>6 DEF WorkloadInv, WorkloadTypes, Jobs, end_ns
<1>8. ClockInv'
  BY <1>1, <1>2, <1>3, <1>4 DEF WorkloadInv, ClockInv, job
<1> QED
  BY <1>6, <1>7, <1>8 DEF WorkloadInv

(* A step of the clock alone. *)
LEMMA ClockKeeps ==
  ASSUME WorkloadInv, todo # <<>>, t' \in Nat, t' >= job.from,
         (window' \in Nat /\ window' >= job.from) \/ window' = window,
         UNCHANGED <<todo, arrivals, scenario>>
  PROVE  WorkloadInv'
<1>1. WorkloadTypes' /\ SeededInv'
  BY DEF WorkloadInv, WorkloadTypes, SeededInv, Jobs, Arrivals, end_ns, job
<1>2. ClockInv'
  BY DEF WorkloadInv, ClockInv, job
<1> QED
  BY <1>1, <1>2 DEF WorkloadInv

LEMMA Shared ==
  ASSUME NEW a \in Nat, NEW b \in Nat \ {0}
  PROVE  a \div b \in Nat
OBVIOUS

LEMMA PeriodicKeeps ==
  ASSUME WorkloadInv, BeginPeriod \/ Tick \/ BurstTick \/ NextWindow \/ PeriodEnds,
         scenario' = scenario
  PROVE  WorkloadInv'
<1>1. todo # <<>>
  BY DEF BeginPeriod, Tick, BurstTick, NextWindow, PeriodEnds, Seeds
<1>2. job.intensity \in Nat \ {0} /\ job.from \in Nat /\ job.to \in Int
  BY <1>1, FirstJob DEF WorkloadInv
<1>3. CASE BeginPeriod
  <2>1. t' \in job.from .. job.from + interval - 1
    BY <1>3 DEF BeginPeriod
  <2>2. interval \in Nat
    <3>1. Interval[job.component] \in Nat
      BY <1>3, WorkloadAssumption DEF BeginPeriod, Seeds
    <3> QED
      BY <1>2, <3>1, Shared DEF interval
  <2>3. t' \in Nat /\ t' >= job.from
    BY <1>2, <2>1, <2>2
  <2> QED
    BY <1>1, <1>3, <2>3, ClockKeeps DEF BeginPeriod
<1>4. CASE Tick
  <2>1. interval \in Nat
    <3>1. Interval[job.component] \in Nat
      BY <1>4, WorkloadAssumption DEF Tick, Seeds
    <3> QED
      BY <1>2, <3>1, Shared DEF interval
  <2> QED
    BY <1>4, <2>1, TickOfKeeps DEF Tick
<1>5. CASE BurstTick
  <2>1. BurstStep \div job.intensity \in Nat
    BY <1>2, WorkloadAssumption, Shared
  <2> QED
    BY <1>5, <2>1, TickOfKeeps DEF BurstTick
<1>6. CASE NextWindow
  <2> DEFINE next == IF window = None THEN job.from + burst_interval ELSE window + burst_interval
  <2>1. burst_interval \in Nat
    BY <1>2, WorkloadAssumption, Shared DEF burst_interval
  <2>2. CASE next < job.to
    <3>1. window' = next /\ t' = next /\ UNCHANGED <<todo, arrivals>>
      BY <1>6, <2>2 DEF NextWindow
    <3>2. next \in Nat
      BY <1>2, <2>1 DEF WorkloadInv, ClockInv
    <3>3. next >= job.from
      <4>1. window # None => window >= job.from
        BY <1>6 DEF WorkloadInv, ClockInv
      <4> QED
        BY <1>2, <2>1, <4>1 DEF WorkloadInv, ClockInv
    <3> QED
      BY <1>1, <3>1, <3>2, <3>3, ClockKeeps
  <2>3. CASE ~ next < job.to
    BY <1>1, <1>6, <2>3, NextProfileKeeps DEF NextWindow
  <2> QED
    BY <2>2, <2>3
<1>7. CASE PeriodEnds
  BY <1>1, <1>7, NextProfileKeeps DEF PeriodEnds
<1> QED
  BY <1>3, <1>4, <1>5, <1>6, <1>7

LEMMA AffinityKeeps ==
  ASSUME WorkloadInv, ApplyAffinity, scenario' = scenario
  PROVE  WorkloadInv'
<1>1. /\ todo' = todo /\ todo = <<>> /\ t' = t /\ window' = window
      /\ DOMAIN arrivals' = DOMAIN arrivals
  BY DEF ApplyAffinity
<1>2. Arrivals' = Arrivals /\ Jobs' = Jobs /\ job' = job
  BY <1>1 DEF Arrivals, Jobs, end_ns, job
<1>3. ASSUME NEW i \in DOMAIN arrivals
      PROVE  /\ arrivals'[i] \in Arrivals
             /\ arrivals'[i].seeding = arrivals[i].seeding /\ arrivals'[i].time = arrivals[i].time
  <2>1. arrivals[i] \in Arrivals
    BY DEF WorkloadInv, WorkloadTypes
  <2>2. CASE arrivals[i].component \in DOMAIN affinity_map
    <3> DEFINE cores == affinity_map[arrivals[i].component]
    <3>1. arrivals'[i] = [arrivals[i] EXCEPT !.cpu_affinity = CoreFor(arrivals[i])]
      BY <2>2 DEF ApplyAffinity
    <3>2. cores \in Seq(Nat) \ {<<>>}
      BY <2>2, WorkloadAssumption DEF affinity_map, WorkloadInv, WorkloadTypes
    <3>3. arrivals[i].task_id \in Nat
      BY <2>1 DEF Arrivals
    <3>4. (arrivals[i].task_id % Len(cores)) + 1 \in 1 .. Len(cores)
      <4>1. Len(cores) \in Nat \ {0}
        BY <3>2
      <4> HIDE DEF cores
      <4> QED
        BY <3>3, <4>1
    <3>5. CoreFor(arrivals[i]) \in Nat
      <4>1. CoreFor(arrivals[i]) = cores[(arrivals[i].task_id % Len(cores)) + 1]
        BY DEF CoreFor
      <4> HIDE DEF cores
      <4> QED
        BY <3>2, <3>4, <4>1
    <3> QED
      BY <2>1, <3>1, <3>5 DEF Arrivals
  <2>3. CASE arrivals[i].component \notin DOMAIN affinity_map
    <3>1. arrivals'[i] = arrivals[i]
      BY <2>3 DEF ApplyAffinity
    <3> QED
      BY <2>1, <3>1
  <2> QED
    BY <2>2, <2>3
<1>4. arrivals' \in Seq(Arrivals)
  <2>1. Len(arrivals) \in Nat /\ DOMAIN arrivals = 1 .. Len(arrivals)
    BY DEF WorkloadInv, WorkloadTypes
  <2>2. arrivals' \in [1 .. Len(arrivals) -> Arrivals]
    BY <1>3, <2>1 DEF ApplyAffinity
  <2> HIDE DEF Arrivals
  <2> QED
    BY <2>1, <2>2
<1>5. WorkloadTypes'
  BY <1>1, <1>2, <1>4 DEF WorkloadInv, WorkloadTypes
<1>6. ClockInv'
  BY <1>1, <1>2 DEF WorkloadInv, ClockInv
<1>7. SeededInv'
  BY <1>1, <1>2, <1>3 DEF WorkloadInv, SeededInv
<1> QED
  BY <1>5, <1>6, <1>7 DEF WorkloadInv

LEMMA SeedAllType ==
  ASSUME scenario \in Scenarios, NEW from \in Nat, NEW to \in Int, to <= end_ns, NEW k \in Nat \ {0}
  PROVE  SeedAll(from, to, k) \in Seq(Jobs)
<1>1. profiles \in Seq([component : STRING, intensity : Nat \ {0}])
  BY WorkloadAssumption DEF profiles
<1>2. ASSUME NEW i \in DOMAIN profiles
      PROVE  Seeding(profiles[i], from, to, k) \in Jobs
  <2>1. profiles[i] \in [component : STRING, intensity : Nat \ {0}]
    <3> DEFINE Profile == [component : STRING, intensity : Nat \ {0}]
    <3>1. profiles \in Seq(Profile)
      BY <1>1
    <3> HIDE DEF Profile
    <3>2. profiles[i] \in Profile
      BY <3>1
    <3> QED
      BY <3>2 DEF Profile
  <2>2. \A u, v \in Nat \ {0} : u * v \in Nat \ {0}
    OBVIOUS
  <2> QED
    BY <2>1, <2>2 DEF Seeding, Jobs
<1>3. Len(profiles) \in Nat /\ DOMAIN profiles = 1 .. Len(profiles)
  BY <1>1
<1> HIDE DEF Jobs
<1> QED
  BY <1>2, <1>3 DEF SeedAll

LEMMA WorkloadBegins ==
  ASSUME WorkloadInit
  PROVE  WorkloadInv
<1> DEFINE m == (end_ns - 1) \div BURST_OVERLAY_INTERVAL_NS
<1>1. scenario \in Scenarios /\ end_ns \in Nat
  BY WorkloadAssumption DEF WorkloadInit, end_ns
<1>2. SeedAll(0, end_ns, 1) \in Seq(Jobs)
  BY <1>1, SeedAllType
<1>3. m \in Int
  BY <1>1, WorkloadAssumption
<1>4. ASSUME NEW i \in 1 .. m
      PROVE  OverlayWindows[i] \in Seq(Jobs)
  <2> DEFINE from == i * BURST_OVERLAY_INTERVAL_NS
             to == MinOf(from + BURST_OVERLAY_DURATION_NS, end_ns)
  <2>1. from \in Nat
    BY <1>3, WorkloadAssumption
  <2>2. to \in Int /\ to <= end_ns
    BY <1>1, <2>1, WorkloadAssumption DEF MinOf
  <2>3. OverlayWindows[i] = SeedAll(from, to, 3)
    BY DEF OverlayWindows
  <2> HIDE DEF from, to
  <2> QED
    BY <1>1, <2>1, <2>2, <2>3, SeedAllType
<1>5. OverlayWindows \in Seq(Seq(Jobs))
  <2>1. PICK j \in Nat : 1 .. m = 1 .. j
    <3>1. CASE m \in Nat
      BY <3>1
    <3>2. CASE m \notin Nat
      <4>1. 1 .. m = 1 .. 0
        BY <1>3, <3>2
      <4> QED
        BY <4>1
    <3> QED
      BY <3>1, <3>2
  <2>2. OverlayWindows \in [1 .. j -> Seq(Jobs)]
    BY <1>4, <2>1 DEF OverlayWindows
  <2> HIDE DEF Jobs
  <2> QED
    BY <2>2
<1>6. FlattenSeq(OverlayWindows) \in Seq(Jobs)
  BY <1>5, FlattenType
<1>7. todo \in Seq(Jobs)
  BY <1>2, <1>6 DEF WorkloadInit
<1>8. t = None /\ window = None /\ arrivals = <<>>
  BY DEF WorkloadInit
<1> QED
  BY <1>1, <1>7, <1>8 DEF WorkloadInv, WorkloadTypes, ClockInv, SeededInv

LEMMA WorkloadSteps ==
  ASSUME WorkloadInv, [WorkloadNext]_workloadVars
  PROVE  WorkloadInv'
<1>1. CASE UNCHANGED workloadVars
  BY <1>1 DEF workloadVars, WorkloadInv, WorkloadTypes, ClockInv, SeededInv, Jobs, Arrivals,
     end_ns, job
<1>2. CASE WorkloadNext
  BY <1>2, AnomalyArrivalKeeps, PeriodicKeeps, AffinityKeeps DEF WorkloadNext
<1> QED
  BY <1>1, <1>2

(* Whatever the phases, the gaps, the jitter and the bursts of any         *)
(* scenario, every arrival lies in the window of its seeding and in the    *)
(* episode (seed_events of the profiles, _seed_burst_overlay). *)
THEOREM ArrivalsInWindow == WorkloadSpec => []InWindow
<1>1. WorkloadInit => WorkloadInv
  BY WorkloadBegins
<1>2. WorkloadInv /\ [WorkloadNext]_workloadVars => WorkloadInv'
  BY WorkloadSteps
<1>3. WorkloadInv => InWindow
  <2> SUFFICES ASSUME WorkloadInv PROVE InWindow
    OBVIOUS
  <2>1. \A i \in DOMAIN arrivals : arrivals[i].time \in 0 .. end_ns - 1
    <3>1. \A i \in DOMAIN arrivals : arrivals[i] \in Arrivals
      BY DEF WorkloadInv, WorkloadTypes
    <3> QED
      BY <3>1 DEF Arrivals
  <2>2. end_ns \in Nat
    BY WorkloadAssumption DEF WorkloadInv, WorkloadTypes, end_ns
  <2>3. ASSUME todo # <<>>, NEW i \in DOMAIN arrivals, arrivals[i].seeding = Len(todo)
        PROVE  arrivals[i].time \in job.from .. job.to - 1
    <3>1. job.from \in Nat /\ job.to \in Int
      BY <2>3, FirstJob DEF WorkloadInv
    <3>2. job.from <= arrivals[i].time /\ arrivals[i].time < job.to
      BY <2>3 DEF WorkloadInv, SeededInv
    <3>3. arrivals[i].time \in Int
      BY <2>1, <2>2
    <3> QED
      BY <3>1, <3>2, <3>3
  <2> QED
    BY <2>1, <2>3 DEF InWindow
<1> QED
  BY <1>1, <1>2, <1>3, PTL DEF WorkloadSpec

(* The numbers of a component's arrivals are consecutive, since they come  *)
(* from one seeding. *)
Mapped == DOMAIN affinity_map # {}
Before(i) == Len(profiles) - i + 1

BlocksInv ==
  /\ \A i \in DOMAIN arrivals : arrivals[i].task_id = i
  /\ Mapped =>
       /\ Len(todo) <= Len(profiles)
       /\ \A i \in 1 .. Len(todo) :
            todo[i].component = profiles[Before(Len(todo) - i + 1)].component
       /\ \A i \in DOMAIN arrivals :
            /\ arrivals[i].seeding \in 1 .. Len(profiles)
            /\ arrivals[i].component = profiles[Before(arrivals[i].seeding)].component
       /\ \A i, j \in DOMAIN arrivals : i <= j => arrivals[i].seeding >= arrivals[j].seeding
  /\ patched => todo = <<>> /\ \A i \in DOMAIN arrivals :
       arrivals[i].component \in DOMAIN affinity_map =>
         arrivals[i].cpu_affinity = CoreFor(arrivals[i])

Emits == todo # <<>> /\ UNCHANGED <<todo, patched>> /\ \E times \in Seq(Int) : Emit(times)
Drops == todo # <<>> /\ todo' = Tail(todo) /\ UNCHANGED <<arrivals, patched>>

(* What a step does to the seedings and the arrivals. *)
LEMMA StepKinds ==
  ASSUME WorkloadInv, WorkloadNext
  PROVE  Emits \/ Drops \/ ApplyAffinity \/ UNCHANGED <<todo, arrivals, patched>>
<1>1. ASSUME NEW step, TickOf(step), t # None
      PROVE  Emits
  <2>1. PICK jitter \in Jitter(step) : Emit(IF Kept(t + jitter) THEN <<t + jitter>> ELSE <<>>)
    BY <1>1 DEF TickOf
  <2>2. todo # <<>> /\ UNCHANGED <<todo, patched>> /\ t \in Nat
    BY <1>1 DEF TickOf, WorkloadInv, ClockInv
  <2>3. t + jitter \in Int
    BY <2>2 DEF Jitter
  <2>4. (IF Kept(t + jitter) THEN <<t + jitter>> ELSE <<>>) \in Seq(Int)
    BY <2>3
  <2> QED
    BY <2>1, <2>2, <2>4 DEF Emits
<1>2. CASE AnomalyArrival
  <2>1. todo # <<>> /\ patched' = patched
    BY <1>2 DEF AnomalyArrival, Seeds
  <2>2. PICK gap \in Gaps :
          LET now == (IF t = None THEN job.from ELSE t) + gap
          IN  IF now >= job.to THEN NextProfile /\ UNCHANGED arrivals
              ELSE /\ t' = now /\ UNCHANGED <<todo, window>>
                   /\ \E b \in BurstsOf(now, job.to) : Emit(<<now>> \o b)
    BY <1>2 DEF AnomalyArrival
  <2> DEFINE now == (IF t = None THEN job.from ELSE t) + gap
  <2>3. job.from \in Nat /\ job.to \in Int /\ gap \in Nat
    BY <2>1, FirstJob, WorkloadAssumption DEF WorkloadInv
  <2>4. now \in Nat /\ now >= job.from
    BY <2>3 DEF WorkloadInv, ClockInv
  <2>5. CASE now >= job.to
    BY <2>1, <2>2, <2>5 DEF Drops, NextProfile
  <2>6. CASE ~ now >= job.to
    <3>1. PICK b \in BurstsOf(now, job.to) : Emit(<<now>> \o b)
      BY <2>2, <2>6
    <3>2. todo' = todo
      BY <2>2, <2>6
    <3>3. <<now>> \o b \in Seq(Int)
      BY <2>3, <2>4, <2>6, BurstTimes
    <3> QED
      BY <2>1, <3>1, <3>2, <3>3 DEF Emits
  <2> QED
    BY <2>5, <2>6
<1>3. CASE BeginPeriod
  BY <1>3 DEF BeginPeriod
<1>4. CASE Tick \/ BurstTick
  BY <1>1, <1>4 DEF Tick, BurstTick
<1>5. CASE NextWindow \/ PeriodEnds
  BY <1>5 DEF NextWindow, PeriodEnds, NextProfile, Drops, Seeds
<1> QED
  BY <1>2, <1>3, <1>4, <1>5 DEF WorkloadNext

LEMMA ScenarioFacts ==
  ASSUME scenario \in Scenarios
  PROVE  /\ profiles \in Seq([component : STRING, intensity : Nat \ {0}]) /\ Len(profiles) \in Nat
         /\ Mapped => ~burst_overlay
         /\ Mapped => \A i, j \in 1 .. Len(profiles) :
              profiles[i].component = profiles[j].component => i = j
         /\ \A c \in DOMAIN affinity_map : /\ affinity_map[c] \in Seq(Nat) \ {<<>>}
                                           /\ IsInjective(affinity_map[c])
<1>1. profiles \in Seq([component : STRING, intensity : Nat \ {0}])
  BY WorkloadAssumption DEF profiles
<1>2. Len(profiles) \in Nat /\ DOMAIN profiles = 1 .. Len(profiles)
  BY <1>1
<1> QED
  BY <1>1, <1>2, WorkloadAssumption, AffinityAssumption
     DEF profiles, affinity_map, burst_overlay, Mapped

LEMMA EmitKeepsBlocks ==
  ASSUME WorkloadInv, BlocksInv, Emits, scenario' = scenario
  PROVE  BlocksInv'
<1>1. PICK times \in Seq(Int) : Emit(times)
  BY DEF Emits
<1> DEFINE new == [i \in DOMAIN times |->
              [task_id |-> Len(arrivals) + i, component |-> job.component, time |-> times[i],
               seeding |-> Len(todo), windowed |-> window # None, cpu_affinity |-> ANY]]
           A == Len(arrivals)
           K == Len(times)
<1>2. /\ todo # <<>> /\ todo' = todo /\ ~patched /\ ~patched'
      /\ profiles' = profiles /\ Mapped' = Mapped /\ affinity_map' = affinity_map
  BY DEF Emits, BlocksInv, profiles, Mapped, affinity_map
<1>3. /\ arrivals \in Seq(Arrivals) /\ A \in Nat /\ DOMAIN arrivals = 1 .. A
      /\ K \in Nat /\ DOMAIN times = 1 .. K
      /\ Len(todo) \in Nat \ {0} /\ job = todo[1] /\ Len(profiles) \in Nat
  BY <1>2, ScenarioFacts DEF WorkloadInv, WorkloadTypes, job
<1>4. arrivals' = arrivals \o new
  BY <1>1 DEF Emit
<1>5. \A i \in 1 .. K : /\ new[i].task_id = A + i /\ new[i].component = job.component
                        /\ new[i].seeding = Len(todo)
  BY <1>3
<1>6. new \in Seq(Range(new)) /\ Len(new) = K
  <2>1. DOMAIN new = 1 .. K /\ new = [i \in 1 .. K |-> new[i]]
    BY <1>3
  <2> HIDE DEF new
  <2> QED
    BY <1>3, <2>1 DEF Range
<1> HIDE DEF new
<1>7. /\ DOMAIN arrivals' = 1 .. A + K
      /\ \A i \in 1 .. A : arrivals'[i] = arrivals[i]
      /\ \A i \in A + 1 .. A + K : i - A \in 1 .. K /\ arrivals'[i] = new[i - A]
  <2> DEFINE Both == Arrivals \cup Range(new)
  <2>1. arrivals \in Seq(Both) /\ new \in Seq(Both)
    BY <1>3, <1>6
  <2> HIDE DEF Both
  <2> QED
    BY <1>3, <1>4, <1>6, <2>1, ConcatProperties
<1> HIDE DEF A, K
<1>8. \A i \in A + 1 .. A + K : /\ arrivals'[i].task_id = i
                                /\ arrivals'[i].component = job.component
                                /\ arrivals'[i].seeding = Len(todo)
  <2> SUFFICES ASSUME NEW i \in A + 1 .. A + K
               PROVE  /\ arrivals'[i].task_id = i
                      /\ arrivals'[i].component = job.component
                      /\ arrivals'[i].seeding = Len(todo)
    OBVIOUS
  <2>1. PICK j \in 1 .. K : j = i - A /\ arrivals'[i] = new[j]
    BY <1>7
  <2>2. A + j = i
    BY <1>3, <2>1 DEF A
  <2> QED
    BY <1>5, <2>1, <2>2, Zenon
<1>9. \A i \in 1 .. A + K : i \in 1 .. A \/ i \in A + 1 .. A + K
  BY <1>3
<1>10. \A i \in 1 .. A + K : arrivals'[i].task_id = i
  BY <1>3, <1>7, <1>8, <1>9 DEF BlocksInv
<1>11. ASSUME Mapped
       PROVE  /\ \A i \in 1 .. A + K :
                   /\ arrivals'[i].seeding \in 1 .. Len(profiles)
                   /\ arrivals'[i].component = profiles[Before(arrivals'[i].seeding)].component
              /\ \A i, j \in 1 .. A + K :
                   i <= j => arrivals'[i].seeding >= arrivals'[j].seeding
  <2>1. /\ Len(todo) \in 1 .. Len(profiles)
        /\ job.component = profiles[Before(Len(todo))].component
    <3>1. Len(todo) <= Len(profiles) /\ 1 \in 1 .. Len(todo) /\ Len(todo) - 1 + 1 = Len(todo)
      BY <1>3, <1>11 DEF BlocksInv
    <3> QED
      BY <1>3, <1>11, <3>1 DEF BlocksInv
  <2>2. \A i \in 1 .. A : /\ arrivals[i].seeding \in 1 .. Len(profiles)
                          /\ arrivals[i].component = profiles[Before(arrivals[i].seeding)].component
                          /\ arrivals[i].seeding >= Len(todo)
    BY <1>3, <1>11 DEF BlocksInv, WorkloadInv, SeededInv
  <2>3. \A i \in 1 .. A + K :
          /\ arrivals'[i].seeding \in 1 .. Len(profiles)
          /\ arrivals'[i].component = profiles[Before(arrivals'[i].seeding)].component
          /\ arrivals'[i].seeding >= Len(todo)
    <3> SUFFICES ASSUME NEW i \in 1 .. A + K
                 PROVE  /\ arrivals'[i].seeding \in 1 .. Len(profiles)
                        /\ arrivals'[i].component = profiles[Before(arrivals'[i].seeding)].component
                        /\ arrivals'[i].seeding >= Len(todo)
      OBVIOUS
    <3>1. CASE i \in 1 .. A
      BY <1>7, <2>2, <3>1
    <3>2. CASE i \in A + 1 .. A + K
      <4>1. arrivals'[i].component = job.component /\ arrivals'[i].seeding = Len(todo)
        BY <1>8, <3>2
      <4>2. Len(todo) >= Len(todo)
        BY <1>3
      <4> QED
        BY <2>1, <4>1, <4>2, Zenon
    <3> QED
      BY <1>9, <3>1, <3>2
  <2>4. ASSUME NEW i \in 1 .. A + K, NEW j \in 1 .. A + K, i <= j
        PROVE  arrivals'[i].seeding >= arrivals'[j].seeding
    <3>1. CASE j \in 1 .. A
      <4>1. i \in 1 .. A
        BY <1>3, <2>4, <3>1
      <4> QED
        BY <1>3, <1>7, <1>11, <2>4, <3>1, <4>1 DEF BlocksInv
    <3>2. CASE j \in A + 1 .. A + K
      BY <1>8, <2>3, <3>2
    <3> QED
      BY <1>9, <3>1, <3>2
  <2> QED
    BY <2>3, <2>4
<1>12. Mapped => \A i \in 1 .. Len(todo) :
         todo[i].component = profiles[Before(Len(todo) - i + 1)].component
  BY DEF BlocksInv
<1>13. Mapped => Len(todo) <= Len(profiles)
  BY DEF BlocksInv
<1>14. \A k : Before(k)' = Len(profiles) - k + 1
  BY <1>2 DEF Before
<1> QED
  BY <1>2, <1>7, <1>10, <1>11, <1>12, <1>13 DEF BlocksInv, Before

LEMMA DropKeepsBlocks ==
  ASSUME WorkloadInv, BlocksInv, Drops, scenario' = scenario
  PROVE  BlocksInv'
<1>1. /\ todo # <<>> /\ todo' = Tail(todo) /\ arrivals' = arrivals /\ ~patched /\ ~patched'
      /\ profiles' = profiles /\ Mapped' = Mapped
  BY DEF Drops, BlocksInv, profiles, Mapped, affinity_map
<1>2. /\ Len(todo) \in Nat \ {0} /\ Len(todo') = Len(todo) - 1
      /\ \A i \in 1 .. Len(todo) - 1 : todo'[i] = todo[i + 1]
  <2>1. todo \in Seq(Jobs)
    BY DEF WorkloadInv, WorkloadTypes
  <2> HIDE DEF Jobs
  <2> QED
    BY <1>1, <2>1, HeadTailProperties, LenProperties
<1>3. Len(profiles) \in Nat
  BY ScenarioFacts DEF WorkloadInv, WorkloadTypes
<1>4. ASSUME Mapped, NEW i \in 1 .. Len(todo')
      PROVE  todo'[i].component = profiles[Before(Len(todo') - i + 1)].component
  <2>1. i + 1 \in 1 .. Len(todo) /\ Len(todo) - (i + 1) + 1 = Len(todo') - i + 1
    BY <1>2
  <2>2. todo[i + 1].component = profiles[Before(Len(todo) - (i + 1) + 1)].component
    BY <1>4, <2>1 DEF BlocksInv
  <2> QED
    BY <1>2, <2>1, <2>2
<1>5. Mapped => Len(todo') <= Len(profiles)
  BY <1>2, <1>3 DEF BlocksInv
<1>6. /\ \A i \in DOMAIN arrivals : arrivals[i].task_id = i
      /\ Mapped =>
           /\ \A i \in DOMAIN arrivals :
                /\ arrivals[i].seeding \in 1 .. Len(profiles)
                /\ arrivals[i].component = profiles[Before(arrivals[i].seeding)].component
           /\ \A i, j \in DOMAIN arrivals : i <= j => arrivals[i].seeding >= arrivals[j].seeding
  BY DEF BlocksInv
<1> QED
  BY <1>1, <1>4, <1>5, <1>6 DEF BlocksInv, Before

LEMMA AffinityKeepsBlocks ==
  ASSUME WorkloadInv, BlocksInv, ApplyAffinity, scenario' = scenario
  PROVE  BlocksInv'
<1>1. /\ todo' = todo /\ todo = <<>> /\ DOMAIN arrivals' = DOMAIN arrivals
      /\ profiles' = profiles /\ Mapped' = Mapped /\ affinity_map' = affinity_map
  BY DEF ApplyAffinity, profiles, Mapped, affinity_map
<1>2. ASSUME NEW i \in DOMAIN arrivals
      PROVE  /\ arrivals'[i].seeding = arrivals[i].seeding
             /\ arrivals'[i].component = arrivals[i].component
             /\ arrivals'[i].task_id = arrivals[i].task_id
             /\ arrivals'[i].component \in DOMAIN affinity_map =>
                  arrivals'[i].cpu_affinity = CoreFor(arrivals[i])
  <2>1. arrivals[i] \in Arrivals
    BY DEF WorkloadInv, WorkloadTypes
  <2>2. CASE arrivals[i].component \in DOMAIN affinity_map
    <3>1. arrivals'[i] = [arrivals[i] EXCEPT !.cpu_affinity = CoreFor(arrivals[i])]
      BY <2>2 DEF ApplyAffinity
    <3> QED
      BY <2>1, <3>1 DEF Arrivals
  <2>3. CASE arrivals[i].component \notin DOMAIN affinity_map
    <3>1. arrivals'[i] = arrivals[i]
      BY <2>3 DEF ApplyAffinity
    <3> QED
      BY <2>3, <3>1
  <2> QED
    BY <2>2, <2>3
<1>3. \A i \in DOMAIN arrivals : CoreFor(arrivals[i])' = CoreFor(arrivals[i])
  BY <1>1, <1>2 DEF CoreFor
<1>4. \A i \in DOMAIN arrivals : arrivals'[i].component \in DOMAIN affinity_map =>
         arrivals'[i].cpu_affinity = CoreFor(arrivals[i])'
  BY <1>2, <1>3
<1>5. /\ \A i \in DOMAIN arrivals : arrivals[i].task_id = i
      /\ Mapped =>
           /\ Len(todo) <= Len(profiles)
           /\ \A i \in 1 .. Len(todo) :
                todo[i].component = profiles[Before(Len(todo) - i + 1)].component
           /\ \A i \in DOMAIN arrivals :
                /\ arrivals[i].seeding \in 1 .. Len(profiles)
                /\ arrivals[i].component = profiles[Before(arrivals[i].seeding)].component
           /\ \A i, j \in DOMAIN arrivals : i <= j => arrivals[i].seeding >= arrivals[j].seeding
  BY DEF BlocksInv
<1> QED
  BY <1>1, <1>2, <1>4, <1>5 DEF BlocksInv, Before

LEMMA BlocksBegin ==
  ASSUME WorkloadInit
  PROVE  BlocksInv
<1>1. arrivals = <<>> /\ patched = FALSE /\ scenario \in Scenarios
  BY DEF WorkloadInit
<1>2. Len(profiles) \in Nat /\ DOMAIN profiles = 1 .. Len(profiles) /\ Mapped => ~burst_overlay
  BY <1>1, ScenarioFacts
<1>3. ASSUME Mapped
      PROVE  /\ Len(todo) = Len(profiles)
             /\ \A i \in 1 .. Len(todo) : todo[i].component = profiles[i].component
  <2>1. todo = SeedAll(0, end_ns, 1) \o <<>>
    BY <1>1, <1>2, <1>3, ScenarioFacts DEF WorkloadInit
  <2>2. end_ns \in Nat
    BY <1>1, WorkloadAssumption DEF end_ns
  <2>3. SeedAll(0, end_ns, 1) \in Seq(Jobs)
    BY <1>1, <2>2, SeedAllType
  <2>4. todo = SeedAll(0, end_ns, 1)
    <3> HIDE DEF Jobs
    <3> QED
      BY <2>1, <2>3
  <2>5. Len(todo) = Len(profiles) /\ \A i \in 1 .. Len(profiles) : todo[i].component = profiles[i].component
    BY <1>2, <2>4 DEF SeedAll, Seeding
  <2> QED
    BY <2>5
<1>4. ASSUME Mapped, NEW i \in 1 .. Len(todo)
      PROVE  todo[i].component = profiles[Before(Len(todo) - i + 1)].component
  <2>1. Before(Len(todo) - i + 1) = i
    BY <1>2, <1>3, <1>4 DEF Before
  <2> QED
    BY <1>3, <1>4, <2>1
<1> QED
  BY <1>1, <1>2, <1>3, <1>4 DEF BlocksInv

LEMMA BlocksShared ==
  ASSUME WorkloadInv, BlocksInv
  PROVE  RoundRobin
<1> SUFFICES ASSUME patched, NEW c \in DOMAIN affinity_map
             PROVE  LET on(k) == Cardinality({i \in DOMAIN arrivals :
                                    arrivals[i].component = c /\ arrivals[i].cpu_affinity = k})
                        cores == Range(affinity_map[c])
                    IN  /\ \A k, l \in cores : on(k) <= on(l) + 1
                        /\ \A i \in DOMAIN arrivals : arrivals[i].component = c
                             => arrivals[i].cpu_affinity \in cores
  BY DEF RoundRobin
<1> DEFINE list == affinity_map[c]
           L == Len(list)
           N == Len(arrivals)
           B == {i \in 1 .. N : arrivals[i].component = c}
           Given(k) == {i \in DOMAIN arrivals :
                          arrivals[i].component = c /\ arrivals[i].cpu_affinity = k}
<1>1. /\ list \in Seq(Nat) /\ L \in Nat \ {0} /\ DOMAIN list = 1 .. L /\ IsInjective(list)
      /\ N \in Nat /\ DOMAIN arrivals = 1 .. N /\ Mapped
  <2>1. list \in Seq(Nat) \ {<<>>} /\ IsInjective(list)
    BY ScenarioFacts DEF WorkloadInv, WorkloadTypes
  <2>2. N \in Nat /\ DOMAIN arrivals = 1 .. N
    BY DEF WorkloadInv, WorkloadTypes
  <2> HIDE DEF list
  <2> QED
    BY <2>1, <2>2 DEF Mapped
<1>2. \A i \in B : i % L \in 0 .. L - 1 /\ arrivals[i].cpu_affinity = list[(i % L) + 1]
  <2> SUFFICES ASSUME NEW i \in B
               PROVE  i % L \in 0 .. L - 1 /\ arrivals[i].cpu_affinity = list[(i % L) + 1]
    OBVIOUS
  <2>1. arrivals[i].task_id = i /\ arrivals[i].cpu_affinity = CoreFor(arrivals[i])
    BY <1>1 DEF BlocksInv
  <2>2. CoreFor(arrivals[i]) = list[(i % L) + 1]
    BY <2>1 DEF CoreFor
  <2> HIDE DEF list
  <2>3. i % L \in 0 .. L - 1
    BY <1>1
  <2> QED
    BY <2>1, <2>2, <2>3
<1>3. \A i, k \in B : \A j \in i .. k : j \in B
  <2> SUFFICES ASSUME NEW i \in B, NEW k \in B, NEW j \in i .. k PROVE j \in B
    OBVIOUS
  <2>1. j \in 1 .. N /\ i <= j /\ j <= k
    BY <1>1
  <2>2. \A x \in 1 .. N : /\ arrivals[x].seeding \in 1 .. Len(profiles)
                          /\ arrivals[x].component = profiles[Before(arrivals[x].seeding)].component
    BY <1>1 DEF BlocksInv
  <2>3. arrivals[i].seeding >= arrivals[j].seeding /\ arrivals[j].seeding >= arrivals[k].seeding
    BY <1>1, <2>1 DEF BlocksInv
  <2>4. Len(profiles) \in Nat /\ \A x, y \in 1 .. Len(profiles) :
          profiles[x].component = profiles[y].component => x = y
    BY <1>1, ScenarioFacts DEF WorkloadInv, WorkloadTypes
  <2>5. /\ Before(arrivals[i].seeding) \in 1 .. Len(profiles)
        /\ Before(arrivals[k].seeding) \in 1 .. Len(profiles)
    <3>1. \A x \in 1 .. Len(profiles) : Before(x) \in 1 .. Len(profiles)
      BY <2>4 DEF Before
    <3>2. i \in 1 .. N /\ k \in 1 .. N
      OBVIOUS
    <3> QED
      BY <2>2, <3>1, <3>2
  <2>6. Before(arrivals[i].seeding) = Before(arrivals[k].seeding)
    BY <2>2, <2>4, <2>5
  <2>7. arrivals[i].seeding = arrivals[k].seeding
    BY <2>2, <2>4, <2>6 DEF Before
  <2>8. arrivals[j].seeding = arrivals[i].seeding
    BY <2>1, <2>2, <2>3, <2>7
  <2>9. arrivals[j].component = c
    BY <2>1, <2>2, <2>8
  <2> QED
    BY <2>1, <2>9
<1> HIDE DEF list, L
<1>4. ASSUME NEW k \in Range(list)
      PROVE  \E r \in 0 .. L - 1 : Given(k) = WithRemainder(B, L, r)
  <2>1. PICK x \in 1 .. L : list[x] = k
    BY <1>1 DEF Range
  <2>2. x - 1 \in 0 .. L - 1 /\ \A y \in 0 .. L - 1 : y + 1 \in 1 .. L /\ (y + 1 = x <=> y = x - 1)
    BY <1>1
  <2>3. \A i \in B : list[(i % L) + 1] = k <=> i % L = x - 1
    BY <1>1, <1>2, <2>1, <2>2 DEF IsInjective
  <2>4. Given(k) = WithRemainder(B, L, x - 1)
    BY <1>1, <1>2, <2>3 DEF WithRemainder
  <2> QED
    BY <2>2, <2>4
<1>5. ASSUME NEW k \in Range(list), NEW l \in Range(list)
      PROVE  Cardinality(Given(k)) <= Cardinality(Given(l)) + 1
  <2>1. PICK r \in 0 .. L - 1 : Given(k) = WithRemainder(B, L, r)
    BY <1>4
  <2>2. PICK s \in 0 .. L - 1 : Given(l) = WithRemainder(B, L, s)
    BY <1>4
  <2>3. B \in SUBSET (1 .. N)
    OBVIOUS
  <2>4. N \in Nat /\ L \in Nat \ {0}
    BY <1>1
  <2> HIDE DEF B, N, Given
  <2>5. Cardinality(WithRemainder(B, L, r)) <= Cardinality(WithRemainder(B, L, s)) + 1
    BY <1>3, <2>3, <2>4, RemaindersEven
  <2> QED
    BY <2>1, <2>2, <2>5
<1>6. \A i \in DOMAIN arrivals : arrivals[i].component = c
        => arrivals[i].cpu_affinity \in Range(list)
  <2> SUFFICES ASSUME NEW i \in B PROVE arrivals[i].cpu_affinity \in Range(list)
    BY <1>1
  <2>1. (i % L) + 1 \in DOMAIN list
    BY <1>1, <1>2
  <2> QED
    BY <1>2, <2>1 DEF Range
<1> QED
  BY <1>5, <1>6 DEF list

(* The arrivals of a component that has a list of cores are given to them  *)
(* in turn, so that no core has more than one more than another, although  *)
(* the numbers run through all components: for any map in which no core is *)
(* listed twice, in scenarios that seed a component once and without the   *)
(* overlay (_apply_affinity_map). *)
THEOREM CoresInTurn == WorkloadSpec => []RoundRobin
<1>1. WorkloadInit => WorkloadInv /\ BlocksInv
  BY WorkloadBegins, BlocksBegin
<1>2. WorkloadInv /\ BlocksInv /\ [WorkloadNext]_workloadVars => WorkloadInv' /\ BlocksInv'
  <2> SUFFICES ASSUME WorkloadInv, BlocksInv, [WorkloadNext]_workloadVars
               PROVE  WorkloadInv' /\ BlocksInv'
    OBVIOUS
  <2>1. WorkloadInv'
    BY WorkloadSteps
  <2>2. scenario' = scenario
    BY DEF WorkloadNext, workloadVars
  <2>3. ASSUME UNCHANGED <<todo, arrivals, patched>>
        PROVE  BlocksInv'
    BY <2>2, <2>3 DEF BlocksInv, Before, profiles, Mapped, affinity_map, CoreFor
  <2>4. CASE WorkloadNext
    BY <2>1, <2>2, <2>3, <2>4, StepKinds, EmitKeepsBlocks, DropKeepsBlocks, AffinityKeepsBlocks
  <2>5. CASE UNCHANGED workloadVars
    BY <2>1, <2>3, <2>5 DEF workloadVars
  <2> QED
    BY <2>1, <2>4, <2>5
<1>3. WorkloadInv /\ BlocksInv => RoundRobin
  BY BlocksShared
<1> QED
  BY <1>1, <1>2, <1>3, PTL DEF WorkloadSpec

-----------------------------------------------------------------------------
(* TraceIngest for any ring, slots and cores: a job ends once, since its   *)
(* slot is free afterwards and the next job in it is another one.          *)
Records ==
  [kind : {KIND_DECISION}, task_id : TaskIds, action_core : CoresRecorded, job : Nat]
  \cup [kind : {KIND_COMPLETION}, task_id : TaskIds, outcome : Outcomes, job : Nat]
  \cup [kind : {OTHER_KIND}, task_id : TaskIds]

SlotsInv ==
  /\ jobs \in Nat
  /\ slot \in [TaskIds -> Nat]
  /\ \A u \in TaskIds : slot[u] <= jobs
  /\ \A u, v \in TaskIds : u # v /\ slot[u] # 0 => slot[u] # slot[v]

IsEnd(r) == r.kind = KIND_COMPLETION

(* A completion's job has begun and is in no slot. *)
Over(r, slots, begun) == IsEnd(r) => r.job \in 1 .. begun /\ \A u \in TaskIds : slots[u] # r.job

EndsOnce(s) == \A i, j \in DOMAIN s : IsEnd(s[i]) /\ IsEnd(s[j]) /\ i # j => s[i].job # s[j].job

RingInv ==
  /\ ring \in Seq(Records)
  /\ \A i \in DOMAIN ring : Over(ring[i], slot, jobs)
  /\ EndsOnce(ring)

RowsInv ==
  /\ dump # None => dump.records = ring
  /\ rows # None =>
       /\ dump # None /\ DOMAIN rows = decisions
       /\ \A i \in decisions : /\ rows[i].reward = Reward(dump.records[i])
                               /\ rows[i].of = dump.records[i]

TraceInv == SlotsInv /\ RingInv /\ RowsInv

(* A record is made: the others keep their place in the ring or, when it is*)
(* full, move up by one. *)
LEMMA RecordKeeps ==
  ASSUME TraceInv, NEW r \in Records, Record(r), SlotsInv',
         Over(r, slot', jobs'),
         \A i \in DOMAIN ring : Over(ring[i], slot', jobs'),
         IsEnd(r) => \A i \in DOMAIN ring : IsEnd(ring[i]) => ring[i].job # r.job
  PROVE  TraceInv'
<1> DEFINE all == Append(ring, r)
           L == Len(ring)
<1>1. /\ dump = None /\ dump' = None /\ rows' = rows
      /\ ring' = all \/ ring' = Tail(all)
  BY DEF Record
<1>2. ring \in Seq(Records) /\ L \in Nat /\ DOMAIN ring = 1 .. L /\ EndsOnce(ring)
  BY DEF TraceInv, RingInv
<1> HIDE DEF Records
<1>3. /\ all \in Seq(Records) /\ all # <<>> /\ DOMAIN all = 1 .. L + 1 /\ all[L + 1] = r
      /\ \A i \in 1 .. L : all[i] = ring[i]
  BY <1>2
<1>4. /\ Tail(all) \in Seq(Records) /\ DOMAIN Tail(all) = 1 .. L
      /\ \A i \in 1 .. L : Tail(all)[i] = all[i + 1]
  BY <1>2, <1>3
<1> HIDE DEF all, L
<1>5. \A i \in 1 .. L + 1 : i \in 1 .. L \/ i = L + 1
  BY <1>2
<1>6. \A i \in 1 .. L + 1 : Over(all[i], slot', jobs')
  BY <1>2, <1>3, <1>5
<1>7. EndsOnce(all)
  BY <1>2, <1>3, <1>5 DEF EndsOnce
<1>8. RowsInv'
  BY <1>1 DEF TraceInv, RowsInv
<1>9. CASE ring' = all
  <2>1. ring' \in Seq(Records)' /\ \A i \in DOMAIN ring' : Over(ring'[i], slot', jobs')
    BY <1>3, <1>6, <1>9 DEF Records
  <2>2. RingInv'
    BY <1>7, <1>9, <2>1 DEF RingInv, EndsOnce
  <2> QED
    BY <1>8, <2>2 DEF TraceInv
<1>10. CASE ring' = Tail(all)
  <2>1. ring' \in Seq(Records)'
    BY <1>4, <1>10 DEF Records
  <2>2. DOMAIN ring' = 1 .. L /\ \A i \in 1 .. L : i + 1 \in 1 .. L + 1 /\ ring'[i] = all[i + 1]
    BY <1>2, <1>4, <1>10
  <2>3. \A i \in DOMAIN ring' : Over(ring'[i], slot', jobs')
    BY <1>6, <2>2
  <2>4. ASSUME NEW i \in DOMAIN ring', NEW j \in DOMAIN ring', IsEnd(ring'[i]), IsEnd(ring'[j]), i # j
        PROVE  ring'[i].job # ring'[j].job
    <3>1. i \in 1 .. L /\ j \in 1 .. L
      BY <2>2
    <3>2. /\ i + 1 \in DOMAIN all /\ j + 1 \in DOMAIN all /\ i + 1 # j + 1
          /\ ring'[i] = all[i + 1] /\ ring'[j] = all[j + 1]
      BY <1>2, <1>3, <2>2, <2>4, <3>1
    <3> QED
      BY <1>7, <2>4, <3>2 DEF EndsOnce
  <2>5. RingInv'
    BY <2>1, <2>3, <2>4 DEF RingInv, EndsOnce
  <2> QED
    BY <1>8, <2>5 DEF TraceInv
<1> QED
  BY <1>1, <1>9, <1>10

LEMMA JobsOver ==
  ASSUME TraceInv, NEW i \in DOMAIN ring, IsEnd(ring[i])
  PROVE  /\ ring[i].job \in Nat /\ 1 <= ring[i].job /\ ring[i].job <= jobs
         /\ \A u \in TaskIds : slot[u] # ring[i].job
BY DEF TraceInv, SlotsInv, RingInv, Over

LEMMA DecisionKeeps ==
  ASSUME TraceInv, NEW id \in TaskIds, Decision(id)
  PROVE  TraceInv'
<1>1. PICK c \in CoresRecorded :
        LET new == slot[id] = 0
            begun == IF new THEN jobs + 1 ELSE slot[id]
        IN  /\ slot' = [slot EXCEPT ![id] = begun] /\ jobs' = IF new THEN begun ELSE jobs
            /\ Record([kind |-> KIND_DECISION, task_id |-> id, action_core |-> c, job |-> begun])
  BY DEF Decision
<1> DEFINE new == slot[id] = 0
           begun == IF new THEN jobs + 1 ELSE slot[id]
           r == [kind |-> KIND_DECISION, task_id |-> id, action_core |-> c, job |-> begun]
<1>2. /\ jobs \in Nat /\ slot \in [TaskIds -> Nat]
      /\ \A u \in TaskIds : slot[u] <= jobs
      /\ \A u, v \in TaskIds : u # v /\ slot[u] # 0 => slot[u] # slot[v]
  BY DEF TraceInv, SlotsInv
<1>3. begun \in Nat \ {0} /\ \A u \in TaskIds : u # id => slot[u] # begun
  BY <1>2
<1>4. /\ slot' = [slot EXCEPT ![id] = begun] /\ jobs' \in Nat /\ jobs <= jobs' /\ begun <= jobs'
      /\ Record(r)
  BY <1>1, <1>2
<1>5. r \in Records /\ ~IsEnd(r)
  BY <1>3 DEF Records, IsEnd, KIND_DECISION, KIND_COMPLETION
<1>6. \A i \in DOMAIN ring : IsEnd(ring[i]) => begun # ring[i].job
  BY <1>2, JobsOver
<1> HIDE DEF begun, r
<1>7. SlotsInv'
  <2>1. /\ slot' \in [TaskIds -> Nat]
        /\ \A u \in TaskIds : slot'[u] = IF u = id THEN begun ELSE slot[u]
    BY <1>2, <1>3, <1>4
  <2>2. \A u \in TaskIds : slot'[u] <= jobs'
    BY <1>2, <1>3, <1>4, <2>1
  <2>3. \A u, v \in TaskIds : u # v /\ slot'[u] # 0 => slot'[u] # slot'[v]
    BY <1>2, <1>3, <2>1
  <2> QED
    BY <1>4, <2>1, <2>2, <2>3 DEF SlotsInv
<1>8. ASSUME NEW i \in DOMAIN ring
      PROVE  Over(ring[i], slot', jobs')
  <2>1. SUFFICES ASSUME IsEnd(ring[i])
                 PROVE  /\ ring[i].job \in 1 .. jobs'
                        /\ \A u \in TaskIds : slot'[u] # ring[i].job
    BY DEF Over
  <2>2. ring[i].job \in 1 .. jobs'
    BY <1>2, <1>4, <2>1, JobsOver
  <2>3. \A u \in TaskIds : slot'[u] # ring[i].job
    BY <1>2, <1>4, <1>6, <2>1, JobsOver
  <2> QED
    BY <2>2, <2>3
<1>9. Over(r, slot', jobs')
  BY <1>5 DEF Over
<1> QED
  BY <1>4, <1>5, <1>7, <1>8, <1>9, RecordKeeps

LEMMA CompletionKeeps ==
  ASSUME TraceInv, NEW id \in TaskIds, Completion(id)
  PROVE  TraceInv'
<1>1. PICK o \in Outcomes :
        /\ slot[id] # 0 /\ slot' = [slot EXCEPT ![id] = 0] /\ jobs' = jobs
        /\ Record([kind |-> KIND_COMPLETION, task_id |-> id, outcome |-> o, job |-> slot[id]])
  BY DEF Completion
<1> DEFINE r == [kind |-> KIND_COMPLETION, task_id |-> id, outcome |-> o, job |-> slot[id]]
<1>2. /\ jobs \in Nat /\ slot \in [TaskIds -> Nat]
      /\ \A u \in TaskIds : slot[u] <= jobs
      /\ \A u, v \in TaskIds : u # v /\ slot[u] # 0 => slot[u] # slot[v]
  BY DEF TraceInv, SlotsInv
<1>3. /\ slot' \in [TaskIds -> Nat]
      /\ \A u \in TaskIds : slot'[u] = IF u = id THEN 0 ELSE slot[u]
  BY <1>1, <1>2
<1>4. r \in Records /\ r.job = slot[id] /\ Record(r)
  BY <1>1, <1>2 DEF Records
<1> HIDE DEF r
<1>5. SlotsInv'
  BY <1>1, <1>2, <1>3 DEF SlotsInv
<1>6. Over(r, slot', jobs')
  <2>1. r.job \in 1 .. jobs'
    BY <1>1, <1>2, <1>4
  <2>2. \A u \in TaskIds : slot'[u] # r.job
    BY <1>1, <1>2, <1>3, <1>4
  <2> QED
    BY <2>1, <2>2 DEF Over
<1>7. ASSUME NEW i \in DOMAIN ring
      PROVE  Over(ring[i], slot', jobs')
  <2>1. SUFFICES ASSUME IsEnd(ring[i])
                 PROVE  /\ ring[i].job \in 1 .. jobs'
                        /\ \A u \in TaskIds : slot'[u] # ring[i].job
    BY DEF Over
  <2>2. ring[i].job \in 1 .. jobs'
    BY <1>1, <1>2, <2>1, JobsOver
  <2>3. \A u \in TaskIds : slot'[u] # ring[i].job
    BY <1>2, <1>3, <2>1, JobsOver
  <2> QED
    BY <2>2, <2>3
<1>8. \A i \in DOMAIN ring : IsEnd(ring[i]) => ring[i].job # r.job
  BY <1>4, JobsOver
<1> QED
  BY <1>4, <1>5, <1>6, <1>7, <1>8, RecordKeeps

LEMMA OtherRecordKeeps ==
  ASSUME TraceInv, OtherRecord
  PROVE  TraceInv'
<1> DEFINE r == [kind |-> OTHER_KIND, task_id |-> CHOOSE u \in TaskIds : TRUE]
<1>1. Record(r) /\ slot' = slot /\ jobs' = jobs
  BY DEF OtherRecord
<1>2. r \in Records /\ ~IsEnd(r)
  BY TraceAssumption DEF Records, IsEnd, OTHER_KIND, KIND_COMPLETION
<1> HIDE DEF r
<1>3. SlotsInv' /\ \A i \in DOMAIN ring : Over(ring[i], slot', jobs')
  BY <1>1 DEF TraceInv, SlotsInv, RingInv
<1>4. Over(r, slot', jobs')
  BY <1>2 DEF Over
<1> QED
  BY <1>1, <1>2, <1>3, <1>4, RecordKeeps

LEMMA DumpKeeps ==
  ASSUME TraceInv, Dump
  PROVE  TraceInv'
<1>1. /\ slot' = slot /\ jobs' = jobs /\ ring' = ring /\ rows' = rows /\ dump = None
      /\ dump'.records = ring
  BY DEF Dump
<1>2. SlotsInv' /\ RingInv'
  BY <1>1 DEF TraceInv, SlotsInv, RingInv
<1>3. RowsInv'
  BY <1>1 DEF TraceInv, RowsInv
<1> QED
  BY <1>2, <1>3 DEF TraceInv

LEMMA IngestKeeps ==
  ASSUME TraceInv, Ingest
  PROVE  TraceInv'
<1>1. slot' = slot /\ jobs' = jobs /\ ring' = ring /\ dump' = dump /\ dump # None
  BY DEF Ingest
<1>2. SlotsInv' /\ RingInv'
  BY <1>1 DEF TraceInv, SlotsInv, RingInv
<1>3. decisions' = decisions /\ \A r : Reward(r)' = Reward(r)
  BY <1>1 DEF decisions, OfKind, Reward, EndsOf, completions
<1>4. rows' = None \/ rows' = [i \in decisions |->
                           [action |-> encode_action_index(dump.records[i].action_core),
                            reward |-> Reward(dump.records[i]), of |-> dump.records[i]]]
  BY DEF Ingest
<1>5. RowsInv'
  BY <1>1, <1>3, <1>4 DEF TraceInv, RowsInv
<1> QED
  BY <1>2, <1>5 DEF TraceInv

(* A task with one completion in the dump is rewarded by it. *)
LEMMA RewardOfEnd ==
  ASSUME NEW d, NEW j \in Nat, EndsOf(d.task_id) = {j}
  PROVE  Reward(d) = Reached(dump.records[j].outcome)
<1>1. Max({j}) = j
  BY DEF Max
<1> QED
  BY <1>1 DEF Reward

(* Whatever the ring dropped and whenever it is dumped, a decision whose   *)
(* slot was not used again within the dump gets the end of its own task,   *)
(* or nothing (_build_reward_for_decisions). *)
THEOREM RewardsAreOwn == TraceSpec => []OwnOutcome
<1>1. TraceInit => TraceInv
  BY DEF TraceInit, TraceInv, SlotsInv, RingInv, RowsInv, EndsOnce
<1>2. TraceInv /\ [TraceNext]_traceVars => TraceInv'
  <2> SUFFICES ASSUME TraceInv, [TraceNext]_traceVars
               PROVE  TraceInv'
    OBVIOUS
  <2>1. CASE UNCHANGED traceVars
    <3>1. /\ slot' = slot /\ jobs' = jobs /\ ring' = ring /\ dump' = dump /\ rows' = rows
      BY <2>1 DEF traceVars
    <3>2. SlotsInv' /\ RingInv'
      BY <3>1 DEF TraceInv, SlotsInv, RingInv
    <3>3. decisions' = decisions /\ \A r : Reward(r)' = Reward(r)
      BY <3>1 DEF decisions, OfKind, Reward, EndsOf, completions
    <3>4. RowsInv'
      BY <3>1, <3>3 DEF TraceInv, RowsInv
    <3> QED
      BY <3>2, <3>4 DEF TraceInv
  <2>2. CASE TraceNext
    BY <2>2, DecisionKeeps, CompletionKeeps, OtherRecordKeeps, DumpKeeps, IngestKeeps
       DEF TraceNext
  <2> QED
    BY <2>1, <2>2
<1>3. TraceInv => OwnOutcome
  <2> SUFFICES ASSUME TraceInv, rows # None, NEW i \in DOMAIN rows,
                      \A j \in InSlot(rows[i].of) : dump.records[j].job = rows[i].of.job
               PROVE  LET of == rows[i].of
                          ends == {j \in InSlot(of) : dump.records[j].kind = KIND_COMPLETION}
                      IN  /\ ends = {} => rows[i].reward = 0
                          /\ \A j \in ends : rows[i].reward =
                               CASE dump.records[j].outcome = "none" -> 1
                                 [] dump.records[j].outcome = "met" -> 10
                                 [] OTHER -> -10
    BY DEF OwnOutcome
  <2> DEFINE d == rows[i].of
             ends == {j \in InSlot(d) : dump.records[j].kind = KIND_COMPLETION}
  <2>1. dump.records = ring /\ rows[i].reward = Reward(d)
    BY DEF TraceInv, RowsInv
  <2>2. ends = EndsOf(d.task_id)
    BY DEF EndsOf, completions, OfKind, InSlot, KIND_COMPLETION, OTHER_KIND
  <2>3. CASE ends = {}
    BY <2>1, <2>2, <2>3 DEF Reward
  <2>4. ASSUME NEW j \in ends
        PROVE  rows[i].reward = Reached(dump.records[j].outcome)
    <3>1. j \in DOMAIN ring /\ IsEnd(ring[j]) /\ ring[j].job = d.job
      BY <2>1 DEF InSlot, IsEnd
    <3>2. j \in Nat
      BY <3>1 DEF TraceInv, RingInv
    <3>3. ASSUME NEW k \in ends PROVE k = j
      <4>1. k \in DOMAIN ring /\ IsEnd(ring[k]) /\ ring[k].job = d.job
        BY <2>1 DEF InSlot, IsEnd
      <4> HIDE DEF d, ends
      <4> QED
        BY <3>1, <4>1 DEF TraceInv, RingInv, EndsOnce
    <3>4. ends = {j}
      <4> HIDE DEF ends
      <4> QED
        BY <2>4, <3>3
    <3> QED
      BY <2>1, <2>2, <3>2, <3>4, RewardOfEnd
  <2> QED
    BY <2>3, <2>4 DEF Reached
<1> QED
  BY <1>1, <1>2, <1>3, PTL DEF TraceSpec

-----------------------------------------------------------------------------
(* The files of a generated dataset.  What is written is the rows of the   *)
(* results, one episode after the other.                                   *)
Row == [episode_id : Int, seed : Int, step : Int, done : BOOLEAN]
Runnable == {e \in [episode_id : Int, seed : Int] : Decisions(e.seed) \in Nat}
Ids(r) == {r[i].episode_id : i \in DOMAIN r}
Table(r) == FlattenSeq([i \in DOMAIN r |-> Rows(r[i])])

TableWhole(r) ==
  /\ Table(r) \in Seq(Row)
  /\ \A i \in DOMAIN Table(r) : Table(r)[i].episode_id \in Ids(r)
  /\ \A i \in DOMAIN r : Holds(Table(r), r[i])

LEMMA RowsType ==
  ASSUME NEW x \in Runnable
  PROVE  /\ Rows(x) \in Seq(Row) /\ Len(Rows(x)) = Decisions(x.seed)
         /\ \A k \in 1 .. Decisions(x.seed) : Rows(x)[k].episode_id = x.episode_id
<1> DEFINE d == Decisions(x.seed)
<1>1. d \in Nat /\ x.episode_id \in Int /\ x.seed \in Int
  BY DEF Runnable
<1>2. Rows(x) = [i \in 1 .. d |-> [episode_id |-> x.episode_id, seed |-> x.seed,
                                   step |-> i - 1, done |-> i = d]]
  BY DEF Rows
<1> HIDE DEF d
<1>3. \A i \in 1 .. d : [episode_id |-> x.episode_id, seed |-> x.seed,
                         step |-> i - 1, done |-> i = d] \in Row
  BY <1>1 DEF Row
<1>4. Rows(x) \in [1 .. d -> Row]
  BY <1>2, <1>3
<1>5. Rows(x) \in Seq(Row) /\ Len(Rows(x)) = d
  BY <1>1, <1>4
<1>6. \A k \in 1 .. d : Rows(x)[k].episode_id = x.episode_id
  BY <1>2
<1> QED
  BY <1>5, <1>6 DEF d

LEMMA TableGrows ==
  ASSUME NEW r \in Seq(Runnable), NEW x \in Runnable
  PROVE  Table(Append(r, x)) = Table(r) \o Rows(x)
<1> DEFINE R == [i \in DOMAIN r |-> Rows(r[i])]
           q == Append(r, x)
           Q == [i \in DOMAIN q |-> Rows(q[i])]
<1>1. Len(r) \in Nat /\ DOMAIN r = 1 .. Len(r) /\ \A i \in 1 .. Len(r) : r[i] \in Runnable
  OBVIOUS
<1>2. /\ Len(q) = Len(r) + 1 /\ DOMAIN q = 1 .. Len(r) + 1 /\ q[Len(r) + 1] = x
      /\ \A i \in 1 .. Len(r) : q[i] = r[i]
  OBVIOUS
<1>3. R \in Seq(Seq(Row)) /\ Len(R) = Len(r)
  <2>1. \A i \in 1 .. Len(r) : Rows(r[i]) \in Seq(Row)
    BY <1>1, RowsType
  <2> QED
    BY <1>1, <2>1
<1>4. Rows(x) \in Seq(Row)
  BY RowsType
<1>5. Q = Append(R, Rows(x))
  <2>1. /\ DOMAIN Q = 1 .. Len(r) + 1 /\ Q[Len(r) + 1] = Rows(x)
        /\ \A i \in 1 .. Len(r) : Q[i] = R[i]
    BY <1>1, <1>2
  <2>2. /\ DOMAIN Append(R, Rows(x)) = 1 .. Len(r) + 1
        /\ Append(R, Rows(x))[Len(r) + 1] = Rows(x)
        /\ \A i \in 1 .. Len(r) : Append(R, Rows(x))[i] = R[i]
    BY <1>3, <1>4, AppendProperties
  <2>3. Q \in Seq(Seq(Row)) /\ Append(R, Rows(x)) \in Seq(Seq(Row))
    <3>1. \A i \in 1 .. Len(r) + 1 : Rows(q[i]) \in Seq(Row)
      BY <1>1, <1>2, <1>4, RowsType
    <3>2. Q \in [1 .. Len(r) + 1 -> Seq(Row)]
      BY <1>2, <3>1
    <3> QED
      BY <1>1, <1>3, <1>4, <3>2
  <2> HIDE DEF Q, R, q
  <2>4. \A i \in 1 .. Len(r) + 1 : Q[i] = Append(R, Rows(x))[i]
    BY <1>1, <2>1, <2>2
  <2> QED
    BY <2>1, <2>2, <2>3, <2>4
<1>6. FlattenSeq(Q) = FlattenSeq(R) \o Rows(x)
  <2> HIDE DEF R, Q, q
  <2> QED
    BY <1>3, <1>4, <1>5, FlattenAppend
<1> QED
  BY <1>6 DEF Table

(* The rows of another episode leave those of the others where they are.   *)
LEMMA TableStaysWhole ==
  ASSUME NEW r \in Seq(Runnable), NEW x \in Runnable, x.episode_id \notin Ids(r), TableWhole(r)
  PROVE  TableWhole(Append(r, x)) /\ Ids(Append(r, x)) = Ids(r) \cup {x.episode_id}
<1> DEFINE q == Append(r, x)
           old == Table(r)
           new == Rows(x)
           all == Table(q)
           L == Len(old)
           d == Decisions(x.seed)
<1>1. Len(r) \in Nat /\ DOMAIN r = 1 .. Len(r) /\ \A i \in 1 .. Len(r) : r[i] \in Runnable
  OBVIOUS
<1>2. /\ Len(q) = Len(r) + 1 /\ DOMAIN q = 1 .. Len(r) + 1 /\ q[Len(r) + 1] = x
      /\ \A i \in 1 .. Len(r) : q[i] = r[i]
  OBVIOUS
<1>3. Ids(q) = Ids(r) \cup {x.episode_id}
  <2>1. ASSUME NEW i \in DOMAIN q PROVE q[i].episode_id \in Ids(r) \cup {x.episode_id}
    <3>1. CASE i \in 1 .. Len(r)
      BY <1>1, <1>2, <3>1 DEF Ids
    <3>2. CASE i = Len(r) + 1
      BY <1>2, <3>2
    <3> QED
      BY <1>1, <1>2, <3>1, <3>2
  <2>2. ASSUME NEW i \in DOMAIN r PROVE r[i].episode_id \in Ids(q)
    <3>1. i \in DOMAIN q /\ q[i] = r[i]
      BY <1>1, <1>2
    <3> QED
      BY <3>1 DEF Ids
  <2>3. x.episode_id \in Ids(q)
    <3>1. Len(r) + 1 \in DOMAIN q
      BY <1>1, <1>2
    <3> QED
      BY <1>2, <3>1 DEF Ids
  <2>4. Ids(q) \subseteq Ids(r) \cup {x.episode_id}
    BY <2>1 DEF Ids
  <2>5. Ids(r) \subseteq Ids(q)
    BY <2>2 DEF Ids
  <2> QED
    BY <2>3, <2>4, <2>5
<1>4. /\ old \in Seq(Row) /\ new \in Seq(Row) /\ L \in Nat /\ d \in Nat /\ Len(new) = d
      /\ \A k \in 1 .. d : new[k].episode_id = x.episode_id
  <2>1. old \in Seq(Row)
    BY DEF TableWhole
  <2>2. d \in Nat
    BY DEF Runnable
  <2> HIDE DEF old, d
  <2>3. L \in Nat
    BY <2>1
  <2> QED
    BY <2>1, <2>2, <2>3, RowsType DEF d
<1>5. /\ all \in Seq(Row) /\ Len(all) = L + d
      /\ \A i \in 1 .. L : all[i] = old[i]
      /\ \A k \in 1 .. d : all[L + k] = new[k]
  <2>1. all = old \o new
    BY TableGrows
  <2> HIDE DEF old, new, all, d, q
  <2>2. /\ all \in Seq(Row) /\ Len(all) = L + d
        /\ \A i \in 1 .. L + d : all[i] = IF i <= L THEN old[i] ELSE new[i - L]
    BY <1>4, <2>1, ConcatProperties
  <2>3. \A k \in 1 .. d : L + k \in 1 .. L + d /\ ~(L + k <= L) /\ (L + k) - L = k
    BY <1>4
  <2>4. \A i \in 1 .. L : i \in 1 .. L + d /\ i <= L
    BY <1>4
  <2> QED
    BY <2>2, <2>3, <2>4
<1>6. /\ \A i \in DOMAIN old : old[i].episode_id \in Ids(r)
      /\ \A i \in DOMAIN r : Holds(old, r[i])
  BY DEF TableWhole
<1>7. DOMAIN old = 1 .. L /\ DOMAIN all = 1 .. L + d
  BY <1>4, <1>5
<1> HIDE DEF old, new, all, d, L, q
<1>8. \A i \in 1 .. L + d : (i \in 1 .. L /\ all[i] = old[i] /\ old[i].episode_id \in Ids(r))
                              \/ (i \in L + 1 .. L + d /\ all[i].episode_id = x.episode_id)
  <2> SUFFICES ASSUME NEW i \in 1 .. L + d
               PROVE  (i \in 1 .. L /\ all[i] = old[i] /\ old[i].episode_id \in Ids(r))
                              \/ (i \in L + 1 .. L + d /\ all[i].episode_id = x.episode_id)
    OBVIOUS
  <2>1. CASE i <= L
    BY <1>4, <1>5, <1>6, <1>7, <2>1
  <2>2. CASE ~(i <= L)
    <3>1. i - L \in 1 .. d /\ L + (i - L) = i /\ i \in L + 1 .. L + d
      BY <1>4, <2>2
    <3>2. all[L + (i - L)] = new[i - L] /\ new[i - L].episode_id = x.episode_id
      BY <1>4, <1>5, <3>1
    <3> QED
      BY <3>1, <3>2
  <2> QED
    BY <2>1, <2>2
<1>9. \A i \in DOMAIN all : all[i].episode_id \in Ids(q)
  BY <1>3, <1>7, <1>8
<1>10. Holds(all, x)
  <2>1. RowsOf(all, x.episode_id) = L + 1 .. L + d
    <3>1. ASSUME NEW i \in 1 .. L + d
          PROVE  all[i].episode_id = x.episode_id <=> i \in L + 1 .. L + d
      <4>1. CASE i \in L + 1 .. L + d
        BY <1>4, <1>8, <4>1
      <4>2. CASE i \notin L + 1 .. L + d
        BY <1>8, <4>2
      <4> QED
        BY <4>1, <4>2
    <3>2. RowsOf(all, x.episode_id) = {i \in 1 .. L + d : i \in L + 1 .. L + d}
      BY <1>7, <3>1 DEF RowsOf
    <3>3. L + 1 .. L + d \subseteq 1 .. L + d
      BY <1>4
    <3> QED
      BY <3>2, <3>3
  <2>2. L \in 0 .. Len(all)
    BY <1>4, <1>5
  <2>3. \A k \in 1 .. d : all[L + k] = Rows(x)[k]
    BY <1>5 DEF new
  <2> QED
    BY <2>1, <2>2, <2>3 DEF Holds, d
<1>11. ASSUME NEW i \in DOMAIN r PROVE Holds(all, r[i])
  <2> DEFINE e == r[i]
             size == Decisions(e.seed)
  <2>1. PICK from \in 0 .. Len(old) :
          /\ RowsOf(old, e.episode_id) = from + 1 .. from + size
          /\ \A k \in 1 .. size : old[from + k] = Rows(e)[k]
    BY <1>6 DEF Holds
  <2>2. e.episode_id \in Ids(r) /\ e.episode_id # x.episode_id /\ size \in Nat
    BY <1>1 DEF Ids, Runnable
  <2> HIDE DEF e, size
  <2>3. RowsOf(all, e.episode_id) = RowsOf(old, e.episode_id)
    <3>1. ASSUME NEW p \in 1 .. L + d, all[p].episode_id = e.episode_id
          PROVE  p \in 1 .. L /\ old[p].episode_id = e.episode_id
      BY <1>8, <2>2, <3>1
    <3>2. ASSUME NEW p \in 1 .. L, old[p].episode_id = e.episode_id
          PROVE  p \in 1 .. L + d /\ all[p].episode_id = e.episode_id
      BY <1>4, <1>5, <3>2
    <3> QED
      BY <1>7, <3>1, <3>2 DEF RowsOf
  <2>4. \A k \in 1 .. size : from + k \in from + 1 .. from + size
    BY <2>2
  <2>5. from + 1 .. from + size \subseteq 1 .. L
    BY <1>7, <2>1 DEF RowsOf
  <2>6. \A k \in 1 .. size : all[from + k] = Rows(e)[k]
    BY <1>5, <2>1, <2>4, <2>5
  <2>7. from \in 0 .. Len(all)
    BY <1>4, <1>5, <2>1 DEF L
  <2> QED
    BY <2>1, <2>3, <2>6, <2>7 DEF Holds, e, size
<1>12. \A i \in DOMAIN q : Holds(all, q[i])
  <2> SUFFICES ASSUME NEW i \in DOMAIN q PROVE Holds(all, q[i])
    OBVIOUS
  <2>1. CASE i \in 1 .. Len(r)
    BY <1>1, <1>2, <1>11, <2>1
  <2>2. CASE i = Len(r) + 1
    BY <1>2, <1>10, <2>2
  <2> QED
    BY <1>1, <1>2, <2>1, <2>2
<1>13. TableWhole(q)
  BY <1>5, <1>9, <1>12 DEF TableWhole, all
<1> QED
  BY <1>3, <1>13 DEF q

(* The state of a batch with the seeds from s on: the episodes not taken   *)
(* are the last ones, those taken run on one worker or have come back, once*)
(* each. *)
Number(s, e) == [episode_id |-> e, seed |-> s + e]
OfBatch == NEpisodes[Combos[combo]]
Taken == 0 .. OfBatch - Len(args_list) - 1

Batched(s) ==
  /\ OfBatch - Len(args_list) \in Nat
  /\ \A i \in 1 .. Len(args_list) : args_list[i] = Number(s, OfBatch - Len(args_list) + i - 1)
  /\ \A w \in Workers : running[w] # None =>
       \E e \in Taken : running[w] = Number(s, e) /\ e \notin Ids(results)
  /\ \A w, v \in Workers : w # v /\ running[w] # None => running[w] # running[v]
  /\ \A i \in DOMAIN results : \E e \in Taken : results[i] = Number(s, e)

ResultsOK ==
  /\ results \in Seq(Runnable)
  /\ IsFiniteSet(Ids(results)) /\ Cardinality(Ids(results)) = Len(results)
  /\ TableWhole(results)

BatchTypes ==
  /\ combo \in 0 .. Len(Combos)
  /\ args_list \in Seq([episode_id : Int, seed : Int])
  /\ running \in [Workers -> Runnable \cup {None}]
  /\ DOMAIN raw_files = Range(Combos)

(* No episode is lost: one that was taken has come back, or a worker has it. *)
NoneLost ==
  combo # 0 => \A e \in Taken :
    e \in Ids(results) \/ \E w \in Workers : running[w] # None /\ running[w].episode_id = e

BatchInv ==
  /\ BatchTypes
  /\ NoneLost
  /\ ResultsOK
  /\ combo = 0 => results = <<>> /\ args_list = <<>> /\ \A w \in Workers : running[w] = None
  /\ combo # 0 => \E s \in BaseSeeds : Batched(s)
  /\ EpisodesWhole

LEMMA ComboFacts ==
  ASSUME NEW c \in 1 .. Len(Combos)
  PROVE  /\ Combos[c] \in Range(Combos) /\ NEpisodes[Combos[c]] \in Nat
         /\ \A s \in BaseSeeds, e \in 0 .. NEpisodes[Combos[c]] - 1 :
              Number(s, e) \in Runnable /\ Number(s, e) \in [episode_id : Int, seed : Int]
              /\ Number(s, e).episode_id = e /\ Number(s, e) # None
<1> USE BatchAssumption
<1>1. Combos[c] \in Range(Combos)
  BY DEF Range
<1>2. NEpisodes[Combos[c]] \in Nat
  BY <1>1
<1>3. ASSUME NEW s \in BaseSeeds, NEW e \in 0 .. NEpisodes[Combos[c]] - 1
      PROVE  Number(s, e) \in Runnable /\ Number(s, e) \in [episode_id : Int, seed : Int]
              /\ Number(s, e).episode_id = e /\ Number(s, e) # None
  <2>1. e \in Int /\ s + e \in Int /\ Decisions(s + e) \in Nat
    BY <1>1, <1>2
  <2>2. Number(s, e) \in [episode_id : Int, seed : Int] /\ Number(s, e).seed = s + e
        /\ Number(s, e).episode_id = e
    BY <2>1 DEF Number
  <2> QED
    BY <2>1, <2>2 DEF Runnable
<1> QED
  BY <1>1, <1>2, <1>3

LEMMA NoResults ==
  ASSUME NEW r, r = <<>>
  PROVE  /\ r \in Seq(Runnable) /\ Ids(r) = {}
         /\ IsFiniteSet(Ids(r)) /\ Cardinality(Ids(r)) = Len(r)
         /\ TableWhole(r)
<1>1. r \in Seq(Runnable) /\ DOMAIN r = {} /\ Len(r) = 0
  OBVIOUS
<1>2. Ids(r) = {}
  BY <1>1 DEF Ids
<1>3. [i \in DOMAIN r |-> Rows(r[i])] = <<>>
  BY <1>1
<1>4. Table(r) = <<>>
  BY <1>3, FlattenNone DEF Table
<1>5. TableWhole(r)
  <2>1. ASSUME NEW table, table = <<>> PROVE table \in Seq(Row) /\ DOMAIN table = {}
    BY <2>1
  <2>2. Table(r) \in Seq(Row) /\ DOMAIN Table(r) = {}
    BY <1>4, <2>1
  <2> QED
    BY <1>1, <2>2 DEF TableWhole
<1> QED
  BY <1>1, <1>2, <1>5, FS_EmptySet

LEMMA BatchBegins ==
  ASSUME NEW c \in 1 .. Len(Combos), BeginBatch(c), results' = <<>>,
         \A w \in Workers : running'[w] = None
  PROVE  /\ combo' \in 1 .. Len(Combos) /\ args_list' \in Seq([episode_id : Int, seed : Int])
         /\ \E s \in BaseSeeds : Batched(s)'
         /\ NoneLost'
<1> USE BatchAssumption
<1> DEFINE size == NEpisodes[Combos[c]]
<1>1. PICK s \in BaseSeeds :
        args_list' = [i \in 1 .. size |-> [episode_id |-> i - 1, seed |-> s + i - 1]]
  BY DEF BeginBatch
<1>2. combo' = c /\ size \in Nat
  BY ComboFacts DEF BeginBatch
<1>3. OfBatch' = size
  BY <1>2 DEF OfBatch
<1>4. s \in Int
  OBVIOUS
<1> HIDE DEF size
<1>5. args_list' \in Seq([episode_id : Int, seed : Int]) /\ Len(args_list') = size
  <2> DEFINE Args == [episode_id : Int, seed : Int]
  <2>1. \A i \in 1 .. size : [episode_id |-> i - 1, seed |-> s + i - 1] \in Args
    BY <1>2, <1>4
  <2>2. args_list' \in [1 .. size -> Args]
    BY <1>1, <2>1
  <2> HIDE DEF Args
  <2>3. args_list' \in Seq(Args) /\ Len(args_list') = size
    BY <1>2, <2>2
  <2> QED
    BY <2>3 DEF Args
<1>6. \A i \in 1 .. size : args_list'[i] = Number(s, size - size + i - 1)
  <2> SUFFICES ASSUME NEW i \in 1 .. size PROVE args_list'[i] = Number(s, size - size + i - 1)
    OBVIOUS
  <2>1. size - size + i - 1 = i - 1 /\ s + i - 1 = s + (i - 1)
    BY <1>2, <1>4
  <2> QED
    BY <1>1, <2>1 DEF Number
<1>7. Batched(s)'
  BY <1>2, <1>3, <1>5, <1>6 DEF Batched
<1>8. NoneLost'
  <2>1. Taken' = {}
    BY <1>2, <1>3, <1>5 DEF Taken
  <2> QED
    BY <2>1 DEF NoneLost
<1> QED
  BY <1>2, <1>5, <1>7, <1>8

LEMMA EpisodeTaken ==
  ASSUME BatchInv, combo # 0, NEW s \in BaseSeeds, Batched(s)
  PROVE  /\ combo \in 1 .. Len(Combos) /\ OfBatch \in Nat /\ Len(args_list) \in Nat
         /\ Len(args_list) <= OfBatch
         /\ Ids(results) \subseteq Taken
         /\ \A e, f \in Taken : Number(s, e) = Number(s, f) => e = f
         /\ \A e \in 0 .. OfBatch - 1 : Number(s, e).episode_id = e /\ Number(s, e) # None
                                        /\ Number(s, e) \in Runnable
<1>1. combo \in 1 .. Len(Combos) /\ OfBatch \in Nat /\ Len(args_list) \in Nat
  <2>1. combo \in 1 .. Len(Combos)
    BY BatchAssumption DEF BatchInv, BatchTypes
  <2>2. Len(args_list) \in Nat
    BY DEF BatchInv, BatchTypes
  <2> QED
    BY <2>1, <2>2, ComboFacts DEF OfBatch
<1>2. Len(args_list) <= OfBatch
  BY <1>1 DEF Batched
<1>3. \A e \in 0 .. OfBatch - 1 : Number(s, e).episode_id = e /\ Number(s, e) # None
                                        /\ Number(s, e) \in Runnable
  BY <1>1, ComboFacts DEF OfBatch
<1>4. Taken \subseteq 0 .. OfBatch - 1
  BY <1>1, <1>2 DEF Taken
<1>5. Ids(results) \subseteq Taken
  <2>1. ASSUME NEW i \in DOMAIN results PROVE results[i].episode_id \in Taken
    <3>1. PICK e \in Taken : results[i] = Number(s, e)
      BY DEF Batched
    <3> QED
      BY <1>3, <1>4, <3>1
  <2> QED
    BY <2>1 DEF Ids
<1>6. \A e, f \in Taken : Number(s, e) = Number(s, f) => e = f
  <2> SUFFICES ASSUME NEW e \in Taken, NEW f \in Taken, Number(s, e) = Number(s, f) PROVE e = f
    OBVIOUS
  <2>1. Number(s, e).episode_id = e /\ Number(s, f).episode_id = f
    BY <1>3, <1>4
  <2> QED
    BY <2>1
<1> QED
  BY <1>1, <1>2, <1>3, <1>5, <1>6

LEMMA TakeKeeps ==
  ASSUME BatchInv, NEW w \in Workers, Take(w)
  PROVE  BatchInv'
<1>1. /\ running[w] = None /\ args_list # <<>> /\ args_list' = Tail(args_list)
      /\ running' = [running EXCEPT ![w] = Head(args_list)]
      /\ UNCHANGED <<combo, results, raw_files, generations>>
  BY DEF Take
<1>2. combo # 0
  BY <1>1 DEF BatchInv
<1>3. PICK s \in BaseSeeds : Batched(s)
  BY <1>2 DEF BatchInv
<1> DEFINE size == OfBatch
           left == Len(args_list)
           new == size - left
<1>4. /\ combo \in 1 .. Len(Combos) /\ size \in Nat /\ left \in Nat /\ left <= size
      /\ Ids(results) \subseteq Taken
      /\ \A e \in 0 .. size - 1 : Number(s, e).episode_id = e /\ Number(s, e) # None
                                        /\ Number(s, e) \in Runnable
  BY <1>2, <1>3, EpisodeTaken
<1>5. /\ args_list \in Seq([episode_id : Int, seed : Int])
      /\ running \in [Workers -> Runnable \cup {None}]
  BY DEF BatchInv, BatchTypes
<1>6. /\ left # 0 /\ Len(args_list') = left - 1 /\ Head(args_list) = args_list[1]
      /\ args_list' \in Seq([episode_id : Int, seed : Int])
      /\ \A i \in 1 .. left - 1 : args_list'[i] = args_list[i + 1]
  <2> DEFINE A == [episode_id : Int, seed : Int]
  <2>1. args_list \in Seq(A)
    BY <1>5
  <2> HIDE DEF A
  <2>2. /\ left # 0 /\ Len(args_list') = left - 1 /\ Head(args_list) = args_list[1]
        /\ args_list' \in Seq(A)
        /\ \A i \in 1 .. left - 1 : args_list'[i] = args_list[i + 1]
    BY <1>1, <2>1, HeadTailProperties
  <2> QED
    BY <2>2 DEF A
<1>7. OfBatch' = size
  BY <1>1 DEF OfBatch
<1>8. Taken = 0 .. new - 1 /\ Taken' = 0 .. new /\ new \in 0 .. size - 1
  BY <1>4, <1>6, <1>7 DEF Taken
<1>9. \A i \in 1 .. left : args_list[i] = Number(s, size - left + i - 1)
  BY <1>3 DEF Batched
<1>10. Head(args_list) = Number(s, new)
  <2>1. 1 \in 1 .. left /\ size - left + 1 - 1 = new
    BY <1>4, <1>6
  <2> QED
    BY <1>6, <1>9, <2>1
<1> HIDE DEF size, left, new
<1>11. \A i \in 1 .. left - 1 : args_list'[i] = Number(s, size - (left - 1) + i - 1)
  <2> SUFFICES ASSUME NEW i \in 1 .. left - 1
               PROVE  args_list'[i] = Number(s, size - (left - 1) + i - 1)
    OBVIOUS
  <2>1. i + 1 \in 1 .. left /\ size - left + (i + 1) - 1 = size - (left - 1) + i - 1
    BY <1>4
  <2> QED
    BY <1>6, <1>9, <2>1
<1>12. /\ running'[w] = Number(s, new) /\ \A v \in Workers : v # w => running'[v] = running[v]
       /\ running' \in [Workers -> Runnable \cup {None}]
  BY <1>1, <1>4, <1>5, <1>8, <1>10
<1>13. /\ \A v \in Workers : running[v] # None =>
            \E e \in Taken : running[v] = Number(s, e) /\ e \notin Ids(results)
       /\ \A u, v \in Workers : u # v /\ running[u] # None => running[u] # running[v]
       /\ \A i \in DOMAIN results : \E e \in Taken : results[i] = Number(s, e)
  BY <1>3 DEF Batched
<1>14. Taken \subseteq Taken' /\ new \in Taken' /\ new \notin Taken /\ new \notin Ids(results)
  BY <1>4, <1>8
<1>15. \A v \in Workers : v # w => running'[v] # Number(s, new)
  <2> SUFFICES ASSUME NEW v \in Workers, v # w, running[v] = Number(s, new) PROVE FALSE
    BY <1>12
  <2>1. running[v] # None
    BY <1>4, <1>8
  <2>2. PICK e \in Taken : running[v] = Number(s, e)
    BY <1>13, <2>1
  <2>3. Number(s, e).episode_id = e /\ Number(s, new).episode_id = new
    BY <1>4, <1>8
  <2> QED
    BY <1>14, <2>2, <2>3
<1>16. Batched(s)'
  <2>1. \A v \in Workers : running'[v] # None =>
            \E e \in Taken' : running'[v] = Number(s, e) /\ e \notin Ids(results)
    BY <1>12, <1>13, <1>14
  <2>2. \A u, v \in Workers : u # v /\ running'[u] # None => running'[u] # running'[v]
    BY <1>12, <1>13, <1>15
  <2>3. \A i \in DOMAIN results : \E e \in Taken' : results[i] = Number(s, e)
    BY <1>13, <1>14
  <2>4. results' = results /\ Ids(results') = Ids(results)
    BY <1>1
  <2>5. OfBatch' = size /\ Len(args_list') = left - 1 /\ size - (left - 1) \in Nat
    BY <1>4, <1>6, <1>7
  <2> QED
    BY <1>11, <2>1, <2>2, <2>3, <2>4, <2>5 DEF Batched
<1>17. ResultsOK' /\ EpisodesWhole'
  <2>1. ResultsOK'
    BY <1>1 DEF BatchInv, ResultsOK
  <2>2. EpisodesWhole'
    BY <1>1 DEF BatchInv, EpisodesWhole
  <2> QED
    BY <2>1, <2>2
<1>18. BatchTypes'
  BY <1>1, <1>6, <1>12 DEF BatchInv, BatchTypes
<1>19. NoneLost'
  <2> SUFFICES ASSUME NEW e \in Taken'
               PROVE  \/ e \in Ids(results')
                      \/ \E v \in Workers : running'[v] # None /\ running'[v].episode_id = e
    BY DEF NoneLost
  <2>1. CASE e = new
    BY <1>4, <1>8, <1>12, <2>1
  <2>2. CASE e # new
    <3>1. e \in Taken
      BY <1>8, <2>2
    <3>2. \/ e \in Ids(results)
          \/ \E v \in Workers : running[v] # None /\ running[v].episode_id = e
      BY <1>2, <3>1 DEF BatchInv, NoneLost
    <3> QED
      BY <1>1, <1>12, <3>2
  <2> QED
    BY <2>1, <2>2
<1> QED
  BY <1>1, <1>2, <1>16, <1>17, <1>18, <1>19 DEF BatchInv

LEMMA ReturnKeeps ==
  ASSUME BatchInv, NEW w \in Workers, Return(w)
  PROVE  BatchInv'
<1>1. /\ running[w] # None /\ results' = Append(results, running[w])
      /\ running' = [running EXCEPT ![w] = None]
      /\ UNCHANGED <<combo, args_list, raw_files, generations>>
  BY DEF Return
<1>2. combo # 0
  BY <1>1 DEF BatchInv
<1>3. PICK s \in BaseSeeds : Batched(s)
  BY <1>2 DEF BatchInv
<1>4. /\ running \in [Workers -> Runnable \cup {None}] /\ results \in Seq(Runnable)
      /\ IsFiniteSet(Ids(results)) /\ Cardinality(Ids(results)) = Len(results)
      /\ TableWhole(results)
  BY DEF BatchInv, BatchTypes, ResultsOK
<1>5. /\ OfBatch \in Nat /\ Len(args_list) \in Nat /\ Len(args_list) <= OfBatch
      /\ \A e, f \in Taken : Number(s, e) = Number(s, f) => e = f
      /\ \A e \in 0 .. OfBatch - 1 : Number(s, e).episode_id = e /\ Number(s, e) # None
                                        /\ Number(s, e) \in Runnable
  BY <1>2, <1>3, EpisodeTaken
<1>6. Taken \subseteq 0 .. OfBatch - 1
  BY <1>5 DEF Taken
<1>7. /\ OfBatch - Len(args_list) \in Nat
      /\ \A i \in 1 .. Len(args_list) : args_list[i] = Number(s, OfBatch - Len(args_list) + i - 1)
      /\ \A v \in Workers : running[v] # None =>
            \E e \in Taken : running[v] = Number(s, e) /\ e \notin Ids(results)
      /\ \A u, v \in Workers : u # v /\ running[u] # None => running[u] # running[v]
      /\ \A i \in DOMAIN results : \E e \in Taken : results[i] = Number(s, e)
  BY <1>3 DEF Batched
<1>8. PICK x \in Taken : running[w] = Number(s, x) /\ x \notin Ids(results)
  BY <1>1, <1>7
<1>9. running[w] \in Runnable /\ running[w].episode_id = x
  BY <1>5, <1>6, <1>8
<1>10. TableWhole(results') /\ Ids(results') = Ids(results) \cup {x}
  BY <1>1, <1>4, <1>8, <1>9, TableStaysWhole
<1>11. /\ results' \in Seq(Runnable) /\ Len(results') = Len(results) + 1
       /\ DOMAIN results' = 1 .. Len(results) + 1 /\ DOMAIN results = 1 .. Len(results)
       /\ results'[Len(results) + 1] = running[w]
       /\ \A i \in DOMAIN results : results'[i] = results[i]
  BY <1>1, <1>4, <1>9
<1>12. /\ IsFiniteSet(Ids(results'))
       /\ Cardinality(Ids(results')) = Len(results')
  BY <1>4, <1>8, <1>10, <1>11, FS_AddElement
<1>13. ResultsOK'
  BY <1>10, <1>11, <1>12 DEF ResultsOK
<1>14. /\ running'[w] = None /\ \A v \in Workers : v # w => running'[v] = running[v]
       /\ running' \in [Workers -> Runnable \cup {None}]
  BY <1>1, <1>4
<1>15. \A v \in Workers : running'[v] # None =>
         \E e \in Taken : running'[v] = Number(s, e) /\ e \notin Ids(results')
  <2> SUFFICES ASSUME NEW v \in Workers, running'[v] # None
               PROVE  \E e \in Taken : running'[v] = Number(s, e) /\ e \notin Ids(results')
    OBVIOUS
  <2>1. v # w /\ running'[v] = running[v]
    BY <1>14
  <2>2. PICK e \in Taken : running[v] = Number(s, e) /\ e \notin Ids(results)
    BY <1>7, <2>1
  <2>3. e # x
    BY <1>1, <1>7, <1>8, <2>1, <2>2
  <2> QED
    BY <1>10, <2>1, <2>2, <2>3
<1>16. \A u, v \in Workers : u # v /\ running'[u] # None => running'[u] # running'[v]
  BY <1>7, <1>14
<1>17. \A i \in DOMAIN results' : \E e \in Taken : results'[i] = Number(s, e)
  <2> SUFFICES ASSUME NEW i \in DOMAIN results'
               PROVE  \E e \in Taken : results'[i] = Number(s, e)
    OBVIOUS
  <2>1. CASE i \in DOMAIN results
    BY <1>7, <1>11, <2>1
  <2>2. CASE i \notin DOMAIN results
    <3>1. i = Len(results) + 1
      BY <1>4, <1>11, <2>2
    <3> QED
      BY <1>8, <1>11, <3>1
  <2> QED
    BY <2>1, <2>2
<1>18. OfBatch' = OfBatch /\ Taken' = Taken
  BY <1>1 DEF OfBatch, Taken
<1>19. Batched(s)'
  BY <1>1, <1>7, <1>15, <1>16, <1>17, <1>18 DEF Batched
<1>20. BatchTypes' /\ EpisodesWhole'
  <2>1. BatchTypes'
    BY <1>1, <1>14 DEF BatchInv, BatchTypes
  <2>2. EpisodesWhole'
    BY <1>1 DEF BatchInv, EpisodesWhole
  <2> QED
    BY <2>1, <2>2
<1>21. NoneLost'
  <2> SUFFICES ASSUME NEW e \in Taken
               PROVE  \/ e \in Ids(results')
                      \/ \E v \in Workers : running'[v] # None /\ running'[v].episode_id = e
    BY <1>18 DEF NoneLost
  <2>1. \/ e \in Ids(results)
        \/ \E v \in Workers : running[v] # None /\ running[v].episode_id = e
    BY <1>2 DEF BatchInv, NoneLost
  <2> QED
    BY <1>9, <1>10, <1>14, <2>1
<1> QED
  BY <1>1, <1>2, <1>13, <1>19, <1>20, <1>21 DEF BatchInv

(* The rows of a batch that is whole pass the validation. *)
LEMMA TableValid ==
  ASSUME NEW r \in Seq(Runnable), TableWhole(r), Table(r) # <<>>
  PROVE  validate_file(Table(r))
<1> DEFINE T == Table(r)
<1>1. \A i \in DOMAIN T : T[i].episode_id \in Ids(r)
  BY DEF TableWhole
<1>2. \A j \in DOMAIN r : Holds(T, r[j])
  BY DEF TableWhole
<1>3. \A j \in DOMAIN r : r[j] \in Runnable
  OBVIOUS
<1> HIDE DEF T
<1>4. ASSUME NEW i \in DOMAIN T PROVE T[Max(RowsOf(T, T[i].episode_id))].done
  <2>1. PICK j \in DOMAIN r : r[j].episode_id = T[i].episode_id
    BY <1>1 DEF Ids
  <2> DEFINE e == r[j]
             d == Decisions(e.seed)
  <2>2. PICK from \in 0 .. Len(T) :
          /\ RowsOf(T, e.episode_id) = from + 1 .. from + d
          /\ \A k \in 1 .. d : T[from + k] = Rows(e)[k]
    BY <1>2 DEF Holds
  <2>3. d \in Nat /\ from \in Int
    BY <1>3 DEF Runnable
  <2>4. Rows(e) = [k \in 1 .. d |-> [episode_id |-> e.episode_id, seed |-> e.seed,
                                      step |-> k - 1, done |-> k = d]]
    BY DEF Rows
  <2>5. i \in RowsOf(T, e.episode_id)
    BY <2>1 DEF RowsOf
  <2> HIDE DEF e, d
  <2>6. i \in from + 1 .. from + d
    BY <2>2, <2>5
  <2>7. d \in 1 .. d /\ from + 1 <= from + d
    BY <2>3, <2>6
  <2>8. Max(from + 1 .. from + d) = from + d
    BY <2>3, <2>7 DEF Max
  <2>9. T[from + d].done
    <3> DEFINE last(b) == [episode_id |-> e.episode_id, seed |-> e.seed,
                            step |-> d - 1, done |-> b]
    <3>1. Rows(e)[d] = last(d = d)
      BY <2>4, <2>7
    <3>2. (d = d) = TRUE /\ last(TRUE).done
      OBVIOUS
    <3> HIDE DEF last
    <3>3. Rows(e)[d] = last(TRUE)
      BY <3>1, <3>2
    <3> QED
      BY <2>2, <2>7, <3>2, <3>3
  <2>10. RowsOf(T, T[i].episode_id) = from + 1 .. from + d
    BY <2>1, <2>2 DEF e
  <2> QED
    BY <2>8, <2>9, <2>10
<1> QED
  BY <1>4 DEF validate_file, T

LEMMA EpisodeCount ==
  ASSUME NEW size \in Nat
  PROVE  IsFiniteSet(0 .. size - 1) /\ Cardinality(0 .. size - 1) = size
<1> DEFINE top == size - 1
<1>1. 0 \in Int /\ top \in Int /\ (0 > top <=> size = 0) /\ top - 0 + 1 = size
  OBVIOUS
<1> HIDE DEF top
<1>2. IsFiniteSet(0 .. top) /\ Cardinality(0 .. top) = IF 0 > top THEN 0 ELSE top - 0 + 1
  BY <1>1, FS_Interval
<1>3. Cardinality(0 .. top) = size
  BY <1>1, <1>2
<1> QED
  BY <1>2, <1>3 DEF top

(* When as many results as episodes have come back, every episode has, and *)
(* no worker holds one. *)
LEMMA AllBack ==
  ASSUME BatchInv, combo # 0, NEW s \in BaseSeeds, Batched(s), Len(results) = OfBatch
  PROVE  /\ Ids(results) = 0 .. OfBatch - 1 /\ Len(args_list) = 0
         /\ \A w \in Workers : running[w] = None
<1>1. /\ OfBatch \in Nat /\ Len(args_list) \in Nat /\ Len(args_list) <= OfBatch
      /\ Ids(results) \subseteq Taken
  BY EpisodeTaken
<1>2. Taken \subseteq 0 .. OfBatch - 1
  BY <1>1 DEF Taken
<1>3. IsFiniteSet(Ids(results)) /\ Cardinality(Ids(results)) = OfBatch
  BY DEF BatchInv, ResultsOK
<1>4. IsFiniteSet(0 .. OfBatch - 1) /\ Cardinality(0 .. OfBatch - 1) = OfBatch
  BY <1>1, EpisodeCount
<1>5. Ids(results) = 0 .. OfBatch - 1
  <2>1. Ids(results) \in SUBSET (0 .. OfBatch - 1)
    BY <1>1, <1>2
  <2> QED
    BY <1>3, <1>4, <2>1, FS_Subset
<1>6. Len(args_list) = 0
  <2> SUFFICES ASSUME Len(args_list) # 0 PROVE FALSE
    OBVIOUS
  <2>1. OfBatch - 1 \in 0 .. OfBatch - 1
    BY <1>1
  <2>2. OfBatch - 1 \in Taken
    BY <1>1, <1>5, <2>1
  <2> QED
    BY <1>1, <2>2 DEF Taken
<1>7. Taken = 0 .. OfBatch - 1
  BY <1>1, <1>6 DEF Taken
<1>8. \A w \in Workers : running[w] = None
  BY <1>5, <1>7 DEF Batched
<1> QED
  BY <1>5, <1>6, <1>8

LEMMA WriteKeeps ==
  ASSUME BatchInv, WriteFile
  PROVE  BatchInv'
<1> USE BatchAssumption
<1> DEFINE c0 == Combos[combo]
           T == Table(results)
<1>1. /\ combo # 0 /\ Len(results) = OfBatch
      /\ raw_files' = (IF T = <<>> THEN raw_files ELSE [raw_files EXCEPT ![c0] = T])
      /\ results' = <<>>
      /\ \/ BeginBatch(combo + 1) /\ combo < Len(Combos)
         \/ combo' = 0 /\ args_list' = args_list
      /\ running' = running
  BY DEF WriteFile, OfBatch, Table
<1>2. PICK s \in BaseSeeds : Batched(s)
  BY <1>1 DEF BatchInv
<1>3. /\ Ids(results) = 0 .. OfBatch - 1 /\ Len(args_list) = 0
      /\ \A w \in Workers : running[w] = None
  BY <1>1, <1>2, AllBack
<1>4. /\ combo \in 0 .. Len(Combos) /\ args_list \in Seq([episode_id : Int, seed : Int])
      /\ running \in [Workers -> Runnable \cup {None}] /\ DOMAIN raw_files = Range(Combos)
      /\ results \in Seq(Runnable) /\ TableWhole(results) /\ EpisodesWhole
  BY DEF BatchInv, BatchTypes, ResultsOK
<1>5. combo \in 1 .. Len(Combos) /\ Len(Combos) \in Nat
  BY <1>1, <1>4
<1>6. \A e \in 0 .. OfBatch - 1 : Number(s, e).episode_id = e
  BY <1>5, ComboFacts DEF OfBatch
<1>7. T # <<>> => validate_file(T)
  BY <1>4, TableValid
<1>8. \A i \in DOMAIN T : T[i].episode_id \in 0 .. OfBatch - 1
  BY <1>3, <1>4 DEF TableWhole
<1>9. ASSUME NEW e \in 0 .. OfBatch - 1
      PROVE  Holds(T, [episode_id |-> e, seed |-> s + e])
  <2>1. PICK i \in DOMAIN results : results[i].episode_id = e
    BY <1>3 DEF Ids
  <2>2. PICK f \in Taken : results[i] = Number(s, f)
    BY <1>2 DEF Batched
  <2>3. Taken = 0 .. OfBatch - 1
    BY <1>3, <1>5, ComboFacts DEF Taken, OfBatch
  <2>4. results[i] = Number(s, e)
    BY <1>6, <2>1, <2>2, <2>3
  <2>5. Holds(T, results[i])
    BY <1>4 DEF TableWhole
  <2> QED
    BY <2>4, <2>5 DEF Number
<1>10. EpisodesWhole'
  <2> HIDE DEF T
  <2>1. DOMAIN raw_files' = Range(Combos)
    BY <1>1, <1>4
  <2> SUFFICES ASSUME NEW c \in Range(Combos), raw_files'[c] # None
               PROVE  /\ validate_file(raw_files'[c])
                      /\ \E u \in BaseSeeds :
                           \A e \in 0 .. NEpisodes[c] - 1 :
                             Holds(raw_files'[c], [episode_id |-> e, seed |-> u + e])
                      /\ \A i \in DOMAIN raw_files'[c] :
                           raw_files'[c][i].episode_id \in 0 .. NEpisodes[c] - 1
    BY DEF EpisodesWhole
  <2>2. CASE T = <<>> \/ c # c0
    <3>1. raw_files'[c] = raw_files[c]
      BY <1>1, <1>4, <2>2
    <3> QED
      BY <1>4, <3>1 DEF EpisodesWhole
  <2>3. CASE T # <<>> /\ c = c0
    <3>1. raw_files'[c] = T
      BY <1>1, <1>4, <2>3
    <3>2. NEpisodes[c] = OfBatch
      BY <2>3 DEF OfBatch
    <3> QED
      BY <1>7, <1>8, <1>9, <2>3, <3>1, <3>2
  <2> QED
    BY <2>2, <2>3
<1>11. DOMAIN raw_files' = Range(Combos)
  BY <1>1, <1>4
<1>12. ResultsOK'
  BY <1>1, NoResults DEF ResultsOK
<1>13. CASE BeginBatch(combo + 1) /\ combo < Len(Combos)
  <2>1. combo + 1 \in 1 .. Len(Combos)
    BY <1>5, <1>13
  <2>2. /\ combo' \in 1 .. Len(Combos) /\ args_list' \in Seq([episode_id : Int, seed : Int])
        /\ \E u \in BaseSeeds : Batched(u)'
        /\ NoneLost'
    BY <1>1, <1>3, <1>13, <2>1, BatchBegins
  <2> QED
    <3>1. combo' # 0
      BY <1>5, <2>2
    <3>2. BatchTypes'
      BY <1>1, <1>4, <1>5, <1>11, <2>2 DEF BatchInv, BatchTypes
    <3> QED
      BY <1>10, <1>12, <2>2, <3>1, <3>2 DEF BatchInv
<1>14. CASE combo' = 0 /\ args_list' = args_list
  <2>1. args_list' = <<>>
    BY <1>3, <1>4, <1>14
  <2> QED
    BY <1>1, <1>3, <1>4, <1>5, <1>10, <1>11, <1>12, <1>14, <2>1
       DEF BatchInv, BatchTypes, NoneLost
<1> QED
  BY <1>1, <1>13, <1>14

LEMMA InterruptKeeps ==
  ASSUME BatchInv, Interrupt
  PROVE  BatchInv'
<1>1. /\ combo' = 0 /\ args_list' = <<>> /\ results' = <<>> /\ raw_files' = raw_files
      /\ running' = [w \in Workers |-> None]
  BY DEF Interrupt
<1>2. ResultsOK'
  BY <1>1, NoResults DEF ResultsOK
<1>3. BatchTypes'
  BY <1>1, BatchAssumption DEF BatchInv, BatchTypes
<1>4. EpisodesWhole'
  BY <1>1 DEF BatchInv, EpisodesWhole
<1> QED
  BY <1>1, <1>2, <1>3, <1>4 DEF BatchInv, NoneLost

LEMMA StartKeeps ==
  ASSUME BatchInv, StartGeneration
  PROVE  BatchInv'
<1> USE BatchAssumption
<1>1. /\ combo = 0 /\ BeginBatch(1)
      /\ UNCHANGED <<running, results, raw_files>>
  BY DEF StartGeneration
<1>2. results' = <<>> /\ \A w \in Workers : running'[w] = None
  BY <1>1 DEF BatchInv
<1>3. 1 \in 1 .. Len(Combos) /\ 0 \notin 1 .. Len(Combos)
  BY EmptySeq
<1>4. /\ combo' \in 1 .. Len(Combos) /\ args_list' \in Seq([episode_id : Int, seed : Int])
      /\ \E s \in BaseSeeds : Batched(s)'
      /\ NoneLost'
  BY <1>1, <1>2, <1>3, BatchBegins
<1>5. ResultsOK'
  BY <1>2, NoResults DEF ResultsOK
<1>6. BatchTypes'
  BY <1>1, <1>4 DEF BatchInv, BatchTypes
<1>7. EpisodesWhole'
  BY <1>1 DEF BatchInv, EpisodesWhole
<1> QED
  BY <1>2, <1>3, <1>4, <1>5, <1>6, <1>7 DEF BatchInv

LEMMA BatchInvariant == BatchSpec => []BatchInv
<1>1. BatchInit => BatchInv
  <2> SUFFICES ASSUME BatchInit PROVE BatchInv
    OBVIOUS
  <2>1. /\ combo = 0 /\ args_list = <<>> /\ results = <<>>
        /\ running = [w \in Workers |-> None]
        /\ raw_files = [c \in Range(Combos) |-> None]
    BY DEF BatchInit
  <2>2. ResultsOK
    BY <2>1, NoResults DEF ResultsOK
  <2>3. BatchTypes
    BY <2>1, BatchAssumption DEF BatchTypes
  <2>4. EpisodesWhole
    BY <2>1 DEF EpisodesWhole
  <2> QED
    BY <2>1, <2>2, <2>3, <2>4 DEF BatchInv, NoneLost
<1>2. BatchInv /\ [BatchNext]_batchVars => BatchInv'
  <2> SUFFICES ASSUME BatchInv, [BatchNext]_batchVars PROVE BatchInv'
    OBVIOUS
  <2>1. CASE StartGeneration
    BY <2>1, StartKeeps
  <2>2. CASE WriteFile
    BY <2>2, WriteKeeps
  <2>3. CASE Interrupt
    BY <2>3, InterruptKeeps
  <2>4. ASSUME NEW w \in Workers, Take(w) PROVE BatchInv'
    BY <2>4, TakeKeeps
  <2>5. ASSUME NEW w \in Workers, Return(w) PROVE BatchInv'
    BY <2>5, ReturnKeeps
  <2>6. CASE UNCHANGED batchVars
    <3>1. UNCHANGED <<combo, args_list, running, results, raw_files>>
      BY <2>6 DEF batchVars
    <3>2. ResultsOK'
      BY <3>1 DEF BatchInv, ResultsOK
    <3>3. BatchTypes'
      BY <3>1 DEF BatchInv, BatchTypes
    <3>4. EpisodesWhole'
      BY <3>1 DEF BatchInv, EpisodesWhole
    <3>5. OfBatch' = OfBatch /\ Taken' = Taken
      BY <3>1 DEF OfBatch, Taken
    <3>6. ASSUME NEW s \in BaseSeeds, Batched(s) PROVE Batched(s)'
      BY <3>1, <3>5, <3>6 DEF Batched
    <3>7. NoneLost'
      BY <3>1, <3>5 DEF BatchInv, NoneLost
    <3> QED
      BY <3>1, <3>2, <3>3, <3>4, <3>6, <3>7 DEF BatchInv
  <2> QED
    BY <2>1, <2>2, <2>3, <2>4, <2>5, <2>6 DEF BatchNext
<1> QED
  BY <1>1, <1>2, PTL DEF BatchSpec

(* Whatever order the workers return in, and wherever the script is        *)
(* interrupted, every file written has each episode of its combination     *)
(* once, complete, in its order and under its own seed, and passes the     *)
(* validation: the invariant is that the episodes not yet taken, those that*)
(* run and those that came back part the numbers of the batch among them   *)
(* (run_batch, batch_to_parquet, validate_file). *)
THEOREM EpisodesAreWhole == BatchSpec => []EpisodesWhole
<1>1. BatchInv => EpisodesWhole
  BY DEF BatchInv
<1> QED
  BY <1>1, BatchInvariant, PTL

(* A batch never waits for nothing: as long as not all results have come   *)
(* back, some worker has an episode to return or one to take (run_batch,   *)
(* mp.Pool, which has at least one worker). *)
PoolGoesOn ==
  combo # 0 =>
    Len(results) = OfBatch \/ \E w \in Workers : running[w] # None \/ args_list # <<>>

THEOREM PoolNeverWaits ==
  ASSUME Workers # {}
  PROVE  BatchSpec => []PoolGoesOn
<1>1. BatchInv => PoolGoesOn
  <2> SUFFICES ASSUME BatchInv, combo # 0, args_list = <<>>, \A w \in Workers : running[w] = None
               PROVE  Len(results) = OfBatch
    BY DEF PoolGoesOn
  <2>1. PICK s \in BaseSeeds : Batched(s)
    BY DEF BatchInv
  <2>2. OfBatch \in Nat /\ Ids(results) \subseteq Taken
    BY <2>1, EpisodeTaken
  <2>3. Taken = 0 .. OfBatch - 1
    BY <2>2 DEF Taken
  <2>4. Ids(results) = 0 .. OfBatch - 1
    BY <2>2, <2>3 DEF BatchInv, NoneLost
  <2>5. Cardinality(Ids(results)) = Len(results)
    BY DEF BatchInv, ResultsOK
  <2> QED
    BY <2>2, <2>4, <2>5, EpisodeCount
<1> QED
  BY <1>1, BatchInvariant, PTL

LEMMA RankNumbers ==
  ASSUME BatchInv, combo # 0
  PROVE  /\ combo \in Nat /\ Len(Combos) \in Nat /\ Len(Combos) - combo \in Nat
         /\ Len(args_list) \in Nat /\ OfBatch \in Nat /\ Len(results) \in Nat
         /\ OfBatch - Len(results) \in Nat
<1>1. PICK s \in BaseSeeds : Batched(s)
  BY DEF BatchInv
<1>2. /\ combo \in 1 .. Len(Combos) /\ OfBatch \in Nat /\ Len(args_list) \in Nat
      /\ Len(args_list) <= OfBatch /\ Ids(results) \subseteq Taken
  BY <1>1, EpisodeTaken
<1>3. Len(Combos) \in Nat
  BY BatchAssumption
<1>4. Ids(results) \subseteq 0 .. OfBatch - 1
  BY <1>2 DEF Taken
<1>5. /\ Cardinality(Ids(results)) = Len(results) /\ Len(results) \in Nat
      /\ IsFiniteSet(Ids(results))
  BY DEF BatchInv, ResultsOK
<1>6. Cardinality(Ids(results)) <= OfBatch
  BY <1>2, <1>4, EpisodeCount, FS_Subset
<1> QED
  BY <1>2, <1>3, <1>5, <1>6

(* A generation does not go on for ever: every step of it that does not end*)
(* it lowers, in lexicographic order, the combinations that follow, the    *)
(* episodes not taken, or the results that are missing (run_batch). *)
BatchRank == <<Len(Combos) - combo, Len(args_list), OfBatch - Len(results)>>
BatchBelow(r, s) == \E i \in 1 .. 3 : r[i] < s[i] /\ \A j \in 1 .. i - 1 : r[j] = s[j]

THEOREM GenerationIsFinite ==
  BatchSpec => /\ [](combo # 0 => BatchRank \in [1 .. 3 -> Nat])
               /\ [][combo # 0 /\ combo' # 0 => BatchBelow(BatchRank', BatchRank)]_batchVars
<1>1. BatchInv => (combo # 0 => BatchRank \in [1 .. 3 -> Nat])
  <2> SUFFICES ASSUME BatchInv, combo # 0 PROVE BatchRank \in [1 .. 3 -> Nat]
    OBVIOUS
  <2>1. Len(Combos) - combo \in Nat /\ Len(args_list) \in Nat /\ OfBatch - Len(results) \in Nat
    BY RankNumbers
  <2> QED
    BY <2>1 DEF BatchRank
<1>2. BatchInv /\ BatchInv' /\ [BatchNext]_batchVars =>
        [combo # 0 /\ combo' # 0 => BatchBelow(BatchRank', BatchRank)]_batchVars
  <2> SUFFICES ASSUME BatchInv, BatchInv', BatchNext, combo # 0, combo' # 0
               PROVE  BatchBelow(BatchRank', BatchRank)
    OBVIOUS
  <2> DEFINE a == Len(Combos) - combo
             b == Len(args_list)
             d == OfBatch - Len(results)
  <2>1. /\ a \in Nat /\ b \in Nat /\ d \in Nat
        /\ BatchRank = <<a, b, d>> /\ BatchRank' = <<a', b', d'>>
        /\ combo \in Nat /\ Len(Combos) \in Nat /\ OfBatch \in Nat /\ Len(results) \in Nat
    BY RankNumbers DEF BatchRank
  <2>2. CASE WriteFile
    <3>1. a' < a
      BY <2>1, <2>2 DEF WriteFile, BeginBatch
    <3> HIDE DEF a, b, d
    <3> QED
      BY <2>1, <3>1 DEF BatchBelow
  <2>3. ASSUME NEW w \in Workers, Take(w) PROVE BatchBelow(BatchRank', BatchRank)
    <3>1. a' = a /\ b' < b
      BY <2>3, HeadTailProperties DEF Take, BatchInv, BatchTypes
    <3> HIDE DEF a, b, d
    <3> QED
      BY <2>1, <3>1 DEF BatchBelow
  <2>4. ASSUME NEW w \in Workers, Return(w) PROVE BatchBelow(BatchRank', BatchRank)
    <3>1. Len(results') = Len(results) + 1
      BY <2>4 DEF Return, BatchInv, ResultsOK
    <3>2. a' = a /\ b' = b /\ d' < d
      BY <2>1, <2>4, <3>1 DEF Return, OfBatch
    <3> HIDE DEF a, b, d
    <3> QED
      BY <2>1, <3>2 DEF BatchBelow
  <2> QED
    BY <2>2, <2>3, <2>4 DEF BatchNext, StartGeneration, Interrupt
<1> QED
  BY <1>1, <1>2, BatchInvariant, PTL DEF BatchSpec
=============================================================================

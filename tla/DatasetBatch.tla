---------------------------- MODULE DatasetBatch ----------------------------
(***************************************************************************)
(* The generation of the raw dataset (scripts/generate_dataset.py,         *)
(* slm_sim/runner.py, slm_sim/logging.py): for every combination of expert,*)
(* scenario and platform a batch of episodes is run by a pool of workers,  *)
(* whose results come back in any order, and written as one file.          *)
(* An episode is determined by its seed (SimEngine); its rows are          *)
(* [episode_id, seed, step, done].                                         *)
(***************************************************************************)
EXTENDS NoneValue, Integers, Sequences, SequencesExt

CONSTANTS
  Combos,          \* the sequence of combinations: expert/scenario/platform
  NEpisodes,       \* combination -> its number of episodes
  Workers,         \* the pool
  BaseSeeds,       \* what hash() of a combination may be in a process
  Decisions(_),    \* seed -> decisions in the episode
  MaxGenerations   \* bound on the times the script is run

ASSUME BatchAssumption ==
  /\ Combos # <<>> /\ Combos \in Seq(Range(Combos))
  /\ NEpisodes \in [Range(Combos) -> Nat]
  /\ BaseSeeds \subseteq Int
  /\ \A c \in Range(Combos), s \in BaseSeeds :
       \A e \in 0 .. NEpisodes[c] - 1 : Decisions(s + e) \in Nat
  /\ None \notin [episode_id : Nat, seed : Int]

VARIABLES
  combo,        \* the combination being run, an index into Combos, 0 when none
  args_list,    \* the episodes not yet taken by a worker
  running,      \* worker -> the episode it runs, or None
  results,      \* the results in the order they came back
  raw_files,        \* combination -> rows of its file, or None
  generations   \* runs of the script
batchVars == <<combo, args_list, running, results, raw_files, generations>>

BatchInit ==
  /\ combo = 0 /\ args_list = <<>>
  /\ running = [w \in Workers |-> None] /\ results = <<>>
  /\ raw_files = [c \in Range(Combos) |-> None]
  /\ generations = 0

(* run_batch's args_list: the hash of a combination, of strings, is another*)
(* in every process. *)
BeginBatch(c) ==
  /\ combo' = c
  /\ \E s \in BaseSeeds :
       args_list' = [i \in 1 .. NEpisodes[Combos[c]] |-> [episode_id |-> i - 1, seed |-> s + i - 1]]

StartGeneration ==
  /\ combo = 0 /\ generations < MaxGenerations
  /\ generations' = generations + 1
  /\ BeginBatch(1)
  /\ UNCHANGED <<running, results, raw_files>>

(* mp.Pool: a worker takes the next episode and runs it (run_single_episode).*)
Take(w) ==
  /\ running[w] = None /\ args_list # <<>>
  /\ running' = [running EXCEPT ![w] = Head(args_list)]
  /\ args_list' = Tail(args_list)
  /\ UNCHANGED <<combo, results, raw_files, generations>>

(* imap_unordered: the results come in the order the workers finish. *)
(* Mutation: an episode is numbered by the order of the results. *)
NumberByResult(w) ==
  /\ running[w] # None
  /\ results' = Append(results, [running[w] EXCEPT !.episode_id = Len(results)])
  /\ running' = [running EXCEPT ![w] = None]
  /\ UNCHANGED <<combo, args_list, raw_files, generations>>
(* Mutation: an episode without a transition is not returned. *)
ReturnRows(w) ==
  /\ running[w] # None
  /\ results' = IF Decisions(running[w].seed) = 0 THEN results ELSE Append(results, running[w])
  /\ running' = [running EXCEPT ![w] = None]
  /\ UNCHANGED <<combo, args_list, raw_files, generations>>
Return(w) ==
  /\ running[w] # None
  /\ results' = Append(results, running[w])
  /\ running' = [running EXCEPT ![w] = None]
  /\ UNCHANGED <<combo, args_list, raw_files, generations>>

(* transitions_to_table: the steps are numbered, the last one is done. *)
Rows(e) ==
  [i \in 1 .. Decisions(e.seed) |->
     [episode_id |-> e.episode_id, seed |-> e.seed, step |-> i - 1, done |-> i = Decisions(e.seed)]]

(* batch_to_parquet: nothing is written when no episode had a transition.  *)
(* The next combination follows. *)
WriteFile ==
  /\ combo # 0 /\ Len(results) = NEpisodes[Combos[combo]]
  /\ LET rows == FlattenSeq([i \in DOMAIN results |-> Rows(results[i])])
     IN  raw_files' = IF rows = <<>> THEN raw_files ELSE [raw_files EXCEPT ![Combos[combo]] = rows]
  /\ results' = <<>>
  /\ IF combo < Len(Combos) THEN BeginBatch(combo + 1)
     ELSE combo' = 0 /\ UNCHANGED args_list
  /\ UNCHANGED <<running, generations>>

(* The script is interrupted: what is not written is lost. *)
Interrupt ==
  /\ combo # 0
  /\ combo' = 0 /\ args_list' = <<>> /\ results' = <<>>
  /\ running' = [w \in Workers |-> None]
  /\ UNCHANGED <<raw_files, generations>>

BatchNext ==
  \/ StartGeneration \/ WriteFile \/ Interrupt
  \/ \E w \in Workers : Take(w) \/ Return(w)

BatchFairness == WF_batchVars(WriteFile) /\ \A w \in Workers : WF_batchVars(Take(w)) /\ WF_batchVars(Return(w))
BatchSpec == BatchInit /\ [][BatchNext]_batchVars /\ BatchFairness

-----------------------------------------------------------------------------
(* The places of the rows of episode e. *)
RowsOf(rows, e) == {i \in DOMAIN rows : rows[i].episode_id = e}

(* validate_file: the last row of every episode is done (that the features,*)
(* actions and rewards of a row are in their ranges is left out). *)
validate_file(rows) ==
  /\ rows # <<>>
  /\ \A i \in DOMAIN rows : rows[Max(RowsOf(rows, rows[i].episode_id))].done

(* The rows of e are the episode's own, side by side and in its order. *)
Holds(rows, e) ==
  \E from \in 0 .. Len(rows) :
    /\ RowsOf(rows, e.episode_id) = from + 1 .. from + Decisions(e.seed)
    /\ \A k \in 1 .. Decisions(e.seed) : rows[from + k] = Rows(e)[k]

(* Whatever the order the workers return in, every file has each of its    *)
(* episodes once, complete, with its steps in order and the seed that      *)
(* belongs to its number, so that an episode can be found and run again,   *)
(* and the validation finds no fault with it (run_batch,                   *)
(* transitions_to_table, validate_file). *)
EpisodesWhole ==
  \A c \in Range(Combos) : raw_files[c] # None =>
    /\ validate_file(raw_files[c])
    /\ \E s \in BaseSeeds :
         \A e \in 0 .. NEpisodes[c] - 1 :
           Holds(raw_files[c], [episode_id |-> e, seed |-> s + e])
    /\ \A i \in DOMAIN raw_files[c] : raw_files[c][i].episode_id \in 0 .. NEpisodes[c] - 1

(* Every generation comes to its end: the pool neither loses an episode nor*)
(* waits for one that is not there (run_batch). *)
GenerationEnds == combo # 0 ~> combo = 0
=============================================================================

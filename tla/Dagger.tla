------------------------------- MODULE Dagger -------------------------------
(***************************************************************************)
(* training/mlp/dagger.py: rounds of episodes in which the trained network *)
(* decides and the expert writes down, for each state the network meets,   *)
(* what it would have done.  The rows of a round become a table and a file;*)
(* nothing is trained in between.  An episode is known by its seed, and a  *)
(* row by its episode and place.                                           *)
(***************************************************************************)
EXTENDS Integers, Sequences, SequencesExt

CONSTANTS
  n_iterations, episodes_per_iteration, base_seed,
  MaxDecisions      \* bound on the decisions of an episode

ASSUME DaggerAssumption ==
  n_iterations \in Nat /\ episodes_per_iteration \in Nat /\ base_seed \in Nat

VARIABLES
  iteration, ep,            \* the loop's counters
  corrected_transitions,    \* the rows of the round
  taken,                    \* decisions the network has taken in the episode
  all_tables,               \* the tables of the rounds
  round_files               \* round -> rows written, <<>> for no file
daggerVars == <<iteration, ep, corrected_transitions, taken, all_tables, round_files>>

Rounds == 0 .. n_iterations - 1

(* Mutation: every round runs the same episodes. *)
SeedOfEpisode(i, e) == base_seed + e
Seed(i, e) == base_seed + i * episodes_per_iteration + e

DaggerInit ==
  /\ iteration = 0 /\ ep = 0 /\ taken = 0
  /\ corrected_transitions = <<>> /\ all_tables = <<>>
  /\ round_files = [i \in Rounds |-> <<>>]

(* A decision point: the observation, the expert's answer to it as label,  *)
(* and only then the network's action on the engine. *)
Correction == [seed |-> Seed(iteration, ep), at |-> taken, expert_policy |-> iteration]
Decide ==
  /\ iteration < n_iterations /\ ep < episodes_per_iteration /\ taken < MaxDecisions
  /\ taken' = taken + 1
  /\ corrected_transitions' = Append(corrected_transitions, Correction)
  /\ UNCHANGED <<iteration, ep, all_tables, round_files>>

NextEpisode ==
  /\ iteration < n_iterations /\ ep < episodes_per_iteration
  /\ ep' = ep + 1 /\ taken' = 0
  /\ UNCHANGED <<iteration, corrected_transitions, all_tables, round_files>>

(* The end of a round; without rows there is neither a table nor a file.   *)
RoundEnds ==
  /\ iteration < n_iterations /\ ep = episodes_per_iteration
  /\ IF corrected_transitions = <<>> THEN UNCHANGED <<all_tables, round_files>>
     ELSE /\ all_tables' = Append(all_tables, corrected_transitions)
          /\ round_files' = [round_files EXCEPT ![iteration] = corrected_transitions]
  /\ corrected_transitions' = <<>>
  /\ iteration' = iteration + 1 /\ ep' = 0 /\ taken' = 0

DaggerNext == Decide \/ NextEpisode \/ RoundEnds
DaggerSpec == DaggerInit /\ [][DaggerNext]_daggerVars

-----------------------------------------------------------------------------
(* No state is labelled twice: the tables share no episode and repeat no   *)
(* row, whatever rounds stayed empty, so a row does not weigh more than    *)
(* once in the mix (run_dagger). *)
LabelledOnce ==
  LET rows == FlattenSeq(all_tables)
  IN  /\ \A r, s \in DOMAIN rows :
           r # s => <<rows[r].seed, rows[r].at>> # <<rows[s].seed, rows[s].at>>
      /\ \A i, j \in DOMAIN all_tables : i # j =>
           {r.seed : r \in Range(all_tables[i])} \cap {r.seed : r \in Range(all_tables[j])} = {}
=============================================================================

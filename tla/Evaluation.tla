----------------------------- MODULE Evaluation -----------------------------
(***************************************************************************)
(* scripts/run_evaluation.py and evaluation/: every agent takes the same   *)
(* seeds of every scenario, a row per episode is collected, and the agents *)
(* are compared with a baseline on the episodes they share.  The arrivals  *)
(* of an episode are known by its scenario and the state of the random     *)
(* generator the workload is seeded with.                                  *)
(***************************************************************************)
EXTENDS Integers, Sequences, SequencesExt, NoneValue

CONSTANTS
  Experts,          \* get_default_experts: the names, in order
  Trained,          \* the agents of trained models, in order
  scenarios,        \* the scenarios, in order
  n_episodes, base_seed,
  baseline          \* what the agents are compared with

ASSUME EvaluationAssumption ==
  /\ n_episodes \in Nat \ {0} /\ base_seed \in Nat
  /\ Experts # <<>> /\ scenarios # <<>>

VARIABLES
  agents,        \* the experts and the trained agents whose model is there
  at,            \* position of the agent, of the scenario, and the episode
  rng,           \* the workload's generator: seed and numbers drawn
  rows,          \* the rows of evaluate_agent so far
  results,       \* eval_results.csv, None while there is none
  comparisons,   \* the comparisons made: agent, scenario, pairs
  stage             \* "episodes", "compare", "done", "failed"
evalVars == <<agents, at, rng, rows, results, comparisons, stage>>

Fresh(seed) == [seed |-> seed, drawn |-> 0]

EvalInit ==
  /\ \E there \in SUBSET Range(Trained) :
       agents = Experts \o SelectSeq(Trained, LAMBDA a : a \in there)
  /\ at = <<1, 1, 0>>
  /\ rng = Fresh(base_seed)
  /\ rows = {} /\ results = None /\ comparisons = {} /\ stage = "episodes"

(* The next episode in the order of the three loops. *)
After ==
  LET a == at[1] s == at[2] e == at[3]
  IN  IF e + 1 < n_episodes THEN <<a, s, e + 1>>
      ELSE IF s < Len(scenarios) THEN <<a, s + 1, 0>> ELSE <<a + 1, 1, 0>>

(* One episode: the engine and the workload get the seed of the episode,   *)
(* each a generator of its own. *)
(* Mutation: the generator is made once and goes on from agent to agent. *)
GoOn(seed) == rng
GeneratorOf(seed) == Fresh(seed)
Episode ==
  /\ stage = "episodes" /\ at[1] <= Len(agents)
  /\ LET seed == base_seed + at[3]
         used == GeneratorOf(seed)
     IN  /\ rows' = rows \cup {[agent |-> agents[at[1]], scenario |-> scenarios[at[2]],
                                seed |-> seed, arrivals |-> <<scenarios[at[2]], used>>]}
         /\ rng' = [used EXCEPT !.drawn = @ + 1]
  /\ at' = After
  /\ UNCHANGED <<agents, results, comparisons, stage>>

(* An agent that raises ends the evaluation, and nothing has been saved.   *)
Raise ==
  /\ stage = "episodes" /\ at[1] > Len(Experts) /\ at[1] <= Len(agents)
  /\ stage' = "failed"
  /\ UNCHANGED <<agents, at, rng, rows, results, comparisons>>

Save ==
  /\ stage = "episodes" /\ at[1] > Len(agents)
  /\ results' = rows /\ stage' = "compare"
  /\ UNCHANGED <<agents, at, rng, rows, comparisons>>

(* paired_comparison: the episodes of both agents are joined.              *)
Joined(r, q) == r.seed = q.seed /\ r.scenario = q.scenario
Of(a, s) == {r \in results : r.agent = a /\ (s = None \/ r.scenario = s)}
Pairs(a, b, s) == {p \in Of(a, s) \X Of(b, s) : Joined(p[1], p[2])}

(* run_all_comparisons, scenario by scenario, or a pooled comparison. *)
Compare(a, s) ==
  /\ stage = "compare" /\ a # baseline
  /\ comparisons' = comparisons \cup
       {[agent |-> a, scenario |-> s, pairs |-> Pairs(a, baseline, s)]}
  /\ UNCHANGED <<agents, at, rng, rows, results, stage>>
Finish ==
  /\ stage = "compare" /\ stage' = "done"
  /\ \A a \in Range(agents) \ {baseline}, s \in Range(scenarios) :
       \E c \in comparisons : c.agent = a /\ c.scenario = s
  /\ UNCHANGED <<agents, at, rng, rows, results, comparisons>>

EvalNext == \/ Episode \/ Raise \/ Save \/ Finish
        \/ \E a \in Range(agents), s \in Range(scenarios) \cup {None} : Compare(a, s)
EvalSpec == EvalInit /\ [][EvalNext]_evalVars

-----------------------------------------------------------------------------
(* docs/evaluation.md: "Same random seeds across agents eliminates noise   *)
(* from different task sequences".  What a comparison subtracts are the    *)
(* results of two agents on the same arrivals, each episode once, in a     *)
(* scenario and over all of them, whatever models are missing              *)
(* (evaluate_agent, paired_comparison). *)
PairsShareEpisode ==
  \A c \in comparisons :
    /\ \A p \in c.pairs : p[1].arrivals = p[2].arrivals
    /\ \A p, q \in c.pairs : (p[1] = q[1]) <=> (p[2] = q[2])
=============================================================================

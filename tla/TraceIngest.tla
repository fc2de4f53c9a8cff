----------------------------- MODULE TraceIngest -----------------------------
(***************************************************************************)
(* data/slmos_traces.py: the trace ring of a running SLM-OS is dumped and  *)
(* made into rows for fine-tuning, one for each decision, with an action   *)
(* index and a reward.  The kernel's side (a ring of records, task slots   *)
(* that are used again) is external and as the module describes it: a      *)
(* decision is recorded when a task is placed, which may happen several    *)
(* times, a completion when it ends.  A record carries the job it is of,   *)
(* which the dump does not.                                                *)
(***************************************************************************)
EXTENDS NoneValue, Integers, Sequences, SequencesExt

CONSTANTS
  TaskIds,          \* slots
  RingSize, MaxRecords,   \* records the ring keeps, records ever made
  CoresRecorded,    \* what action_core may be in a record
  MAX_ACTION_CORE

ASSUME TraceAssumption ==
  /\ TaskIds # {} /\ MAX_ACTION_CORE \in Nat /\ CoresRecorded \subseteq Int

VARIABLES
  slot,      \* task id -> the job in it, 0 when free
  jobs,      \* jobs begun
  ring,      \* the records kept, oldest first
  made,      \* records made
  dump,      \* the file read: whether it is intact, and its records
  rows,      \* the Parquet file, its rows by the places of their decisions in
             \* the dump, or None
  raised
traceVars == <<slot, jobs, ring, made, dump, rows, raised>>

KIND_DECISION == 1
KIND_COMPLETION == 2
OTHER_KIND == 3          \* any other
Outcomes == {"none", "met", "missed"}     \* deadline_ns = 0, else deadline_met

TraceInit ==
  /\ slot = [t \in TaskIds |-> 0] /\ jobs = 0 /\ ring = <<>> /\ made = 0
  /\ dump = None /\ rows = None /\ raised = FALSE

-----------------------------------------------------------------------------
(* The kernel *)
Record(r) ==
  /\ dump = None /\ made < MaxRecords /\ made' = made + 1
  /\ LET all == Append(ring, r)
     IN  ring' = IF Len(all) > RingSize THEN Tail(all) ELSE all
  /\ UNCHANGED <<dump, rows, raised>>

Decision(t) ==
  \E c \in CoresRecorded :
    LET new == slot[t] = 0
        job == IF new THEN jobs + 1 ELSE slot[t]
    IN  /\ slot' = [slot EXCEPT ![t] = job] /\ jobs' = IF new THEN job ELSE jobs
        /\ Record([kind |-> KIND_DECISION, task_id |-> t, action_core |-> c, job |-> job])
Completion(t) ==
  \E o \in Outcomes :
    /\ slot[t] # 0 /\ slot' = [slot EXCEPT ![t] = 0] /\ UNCHANGED jobs
    /\ Record([kind |-> KIND_COMPLETION, task_id |-> t, outcome |-> o, job |-> slot[t]])
OtherRecord ==
  /\ Record([kind |-> OTHER_KIND, task_id |-> CHOOSE t \in TaskIds : TRUE]) /\ UNCHANGED <<slot, jobs>>

(* The dump of the ring; the file may be of another format, version or     *)
(* layout, or cut short.  What the kernel does afterwards is not in it.    *)
Dump ==
  /\ dump = None
  /\ \E intact \in BOOLEAN : dump' = [intact |-> intact, records |-> ring]
  /\ UNCHANGED <<slot, jobs, ring, made, rows, raised>>

-----------------------------------------------------------------------------
(* parse_trace: the places of the records of a kind; those of an unknown   *)
(* kind are left out. *)
OfKind(kind) == {i \in DOMAIN dump.records : dump.records[i].kind = kind}
decisions == OfKind(KIND_DECISION)
completions == OfKind(KIND_COMPLETION)

(* encode_action_index: keep the priority, do not preempt. *)
encode_action_index(action_core) == (action_core * 3 + 1) * 2 + 0
Encodes(action_core) == action_core \in 0 .. MAX_ACTION_CORE - 1

(* _build_reward_for_decisions, in tenths; the last completion of an id    *)
(* stands for all of them. *)
EndsOf(task_id) == {i \in completions : dump.records[i].task_id = task_id}
Reached(outcome) ==
  CASE outcome = "none" -> 1 [] outcome = "met" -> 10 [] OTHER -> -10
(* Mutation: a task without a completion is taken to have done well. *)
HopefulReward(d) ==
  LET of == EndsOf(d.task_id)
  IN  IF of = {} THEN 1 ELSE Reached(dump.records[Max(of)].outcome)
Reward(d) ==
  LET of == EndsOf(d.task_id)
  IN  IF of = {} THEN 0 ELSE Reached(dump.records[Max(of)].outcome)

(* ingest_path: parse_trace and write_parquet, which writes nothing when it*)
(* raises. *)
Ingest ==
  /\ dump # None /\ rows = None /\ ~raised
  /\ LET bad == ~dump.intact \/ \E i \in decisions : ~Encodes(dump.records[i].action_core)
     IN  /\ raised' = bad
         /\ rows' = IF bad THEN None
                    ELSE [i \in decisions |->
                            [action |-> encode_action_index(dump.records[i].action_core),
                             reward |-> Reward(dump.records[i]), of |-> dump.records[i]]]
  /\ UNCHANGED <<slot, jobs, ring, made, dump>>

TraceNext == \/ \E t \in TaskIds : Decision(t) \/ Completion(t)
             \/ OtherRecord \/ Dump \/ Ingest
TraceSpec == TraceInit /\ [][TraceNext]_traceVars

-----------------------------------------------------------------------------
(* Every decision is rewarded by the end of its own task, and by nothing   *)
(* when the dump does not hold it: neither when it has not come yet, nor   *)
(* when the ring dropped other records of the task.  (Only a decision whose*)
(* slot was used again within the dump gets another task's end.)           *)
InSlot(r) ==
  {j \in DOMAIN dump.records : /\ dump.records[j].kind # OTHER_KIND
                               /\ dump.records[j].task_id = r.task_id}
OwnOutcome ==
  rows # None => \A i \in DOMAIN rows :
    LET of == rows[i].of
        ends == {j \in InSlot(of) : dump.records[j].kind = KIND_COMPLETION}
    IN  (\A j \in InSlot(of) : dump.records[j].job = of.job) =>
          /\ ends = {} => rows[i].reward = 0
          /\ \A j \in ends : rows[i].reward =
               CASE dump.records[j].outcome = "none" -> 1
                 [] dump.records[j].outcome = "met" -> 10
                 [] OTHER -> -10
=============================================================================

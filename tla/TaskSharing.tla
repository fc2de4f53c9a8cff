---------------------------- MODULE TaskSharing ----------------------------
(***************************************************************************)
(* What a scheduler owes its tasks, with no events, queues, clock or       *)
(* priorities: a task arrives once, starts only when it is ready and only  *)
(* on a core that is free or given up in the same step, may be put back,   *)
(* and finishes once, giving its core up.  A running task is on one core,  *)
(* or on none (the GPU).                                                   *)
(***************************************************************************)
EXTENDS SimModels

CONSTANTS Tasks, Cores

VARIABLES
  status,   \* task -> TaskState
  on        \* core -> the task running on it, or NoTask

vars == <<status, on>>

Init ==
  /\ status = [t \in Tasks |-> "NONE"]
  /\ on = [c \in Cores |-> NoTask]

Arrive(t) ==
  /\ status[t] = "NONE"
  /\ status' = [status EXCEPT ![t] = "READY"]
  /\ UNCHANGED on

Start(t, c) ==
  /\ status[t] = "READY"
  /\ on[c] = NoTask
  /\ status' = [status EXCEPT ![t] = "RUNNING"]
  /\ on' = [on EXCEPT ![c] = t]

(* t runs on no core. *)
Offload(t) ==
  /\ status[t] = "READY"
  /\ status' = [status EXCEPT ![t] = "RUNNING"]
  /\ UNCHANGED on

Finish(t) ==
  /\ status[t] = "RUNNING"
  /\ status' = [status EXCEPT ![t] = "TERMINATED"]
  /\ on' = [c \in Cores |-> IF on[c] = t THEN NoTask ELSE on[c]]

Yield(t, c) ==
  /\ on[c] = t
  /\ status' = [status EXCEPT ![t] = "READY"]
  /\ on' = [on EXCEPT ![c] = NoTask]

(* u takes core c over from t, which finished or was put back. *)
TakeOver(t, u, c, fate) ==
  /\ on[c] = t
  /\ status[u] = "READY"
  /\ status' = [status EXCEPT ![t] = fate, ![u] = "RUNNING"]
  /\ on' = [on EXCEPT ![c] = u]

Next ==
  \/ \E t \in Tasks : Arrive(t) \/ Offload(t) \/ Finish(t)
  \/ \E t \in Tasks, c \in Cores : Start(t, c) \/ Yield(t, c)
  \/ \E t, u \in Tasks, c \in Cores, fate \in {"READY", "TERMINATED"} :
       TakeOver(t, u, c, fate)

Spec == Init /\ [][Next]_vars
=============================================================================

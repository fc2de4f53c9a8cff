---------------------------- MODULE ActionCodec ----------------------------
(***************************************************************************)
(* The flat index of a scheduling action (slm_sim/actions.py) and its way  *)
(* from the expert that takes it to the machine that carries it out: the   *)
(* log encodes it, the trained model answers with the index, and the gym   *)
(* environment or the C code that write_config_h generates decodes it.     *)
(***************************************************************************)
EXTENDS SimModels, Sequences

CONSTANTS MaxCores   \* the largest platform

ASSUME CoresAssumption == MaxCores \in 1 .. 255

VARIABLES
  num_cores,      \* len(engine.cores)
  gpu_available,  \* gpu.available
  action,         \* the SchedulingAction
  idx,            \* its index, -1 before it is encoded
  decoded         \* what the decoders made of the index, in their order

codecVars == <<num_cores, gpu_available, action, idx, decoded>>

(* encode_action *)
encode_action(a) == (a.core * 3 + a.adj) * 2 + (IF a.preempt THEN 1 ELSE 0)

(* decode_action *)
(* Mutation: the two small fields are taken off in the order of encoding. *)
DecodeInOrder(i) ==
  [core |-> (i \div 3) \div 2, adj |-> i % 3, preempt |-> (i \div 3) % 2 = 1]
decode_action(i) ==
  [core |-> (i \div 2) \div 3, adj |-> (i \div 2) % 3, preempt |-> i % 2 = 1]

(* ai_decode_action of the generated ai_config.h: the fields are unsigned  *)
(* chars. *)
ai_decode_action(i) ==
  [core |-> ((i \div 2) \div 3) % 256, adj |-> ((i \div 2) % 3) % 256,
   preempt |-> (i % 2) % 256 = 1]

(* The decisions of a platform: a core, or the GPU slot when there is one. *)
PlatformActions(n, gpu) ==
  {a \in SchedulingAction(n) : a.core < n \/ gpu}

CodecInit ==
  /\ num_cores \in 1 .. MaxCores
  /\ gpu_available \in BOOLEAN
  /\ action \in PlatformActions(num_cores, gpu_available)
  /\ idx = -1
  /\ decoded = <<>>

Encode ==
  /\ idx = -1
  /\ idx' = encode_action(action)
  /\ UNCHANGED <<num_cores, gpu_available, action, decoded>>

Decode(d) ==
  /\ idx >= 0
  /\ Len(decoded) < 2
  /\ decoded' = Append(decoded, d)
  /\ UNCHANGED <<num_cores, gpu_available, action, idx>>

CodecNext == Encode \/ Decode(decode_action(idx)) \/ Decode(ai_decode_action(idx))
CodecSpec == CodecInit /\ [][CodecNext]_codecVars

-----------------------------------------------------------------------------
(* Whoever decodes an index carries out the action that was logged: the    *)
(* simulator and the C code agree on every platform (actions.py            *)
(* encode_action / decode_action, export_models.py write_config_h). *)
RoundTrip == \A i \in DOMAIN decoded : decoded[i] = action
=============================================================================

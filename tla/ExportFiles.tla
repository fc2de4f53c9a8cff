---------------------------- MODULE ExportFiles ----------------------------
(***************************************************************************)
(* scripts/export_models.py as what it leaves in the output directory over *)
(* several exports: which checkpoint each file was written from, and what  *)
(* the verification program built from them (write_verify_c) would say.    *)
(* A checkpoint is [id, n_actions]; the XGBoost export is XgbExport's, here*)
(* only whether it ends or raises.                                         *)
(***************************************************************************)
EXTENDS Integers, Sequences, NoneValue

CONSTANTS
  ExportPlatforms, \* the platforms exported for
  ActionSpaceSize, \* platform -> action_space_size
  ActionSpaces,    \* the action spaces models were trained for
  WeightsSuffixes, \* the values of --weights-suffix, "" the default
  MaxTrainings,    \* bound on the checkpoints saved
  MaxExports       \* bound on the exports

Architectures == {"mlp", "ppo"}
Named == <<"named", "real">>     \* a checkpoint given on the command line

(* The command line: --platform, --weights-suffix, --checkpoint. *)
ExportArgs == [platform : ExportPlatforms, suffix : WeightsSuffixes, checkpoint : {None, Named}]

ASSUME ExportFilesAssumption ==
  /\ ActionSpaceSize \in [ExportPlatforms -> Nat \ {0}] /\ ActionSpaces \subseteq Nat
  /\ None \notin Nat \cup [id : Nat, n_actions : Nat] \cup ExportArgs

VARIABLES
  models,       \* path -> the checkpoint there, or None
  xgboost,      \* what export_xgboost does: skips, ends, raises
  export_args,  \* the command line of the running export, or None
  todo,         \* the models it has yet to export
  step,         \* what it writes next of the model in front
  layers,       \* the layers extracted: a checkpoint
  files,        \* name -> content, or None
  export_ended, \* how the last export ended: none, done, exited, raised
  used,         \* history: the platforms and suffixes exports were started with
  trainings, exports
exportVars == <<models, xgboost, export_args, todo, step, layers, files,
                export_ended, used, trainings, exports>>

(* The paths models are read from: platform-specific and generic MLP, PPO, *)
(* and the one named on the command line. *)
Generic == <<"mlp", "best">>
BestPpo == <<"ppo", "best_model">>
ModelPaths == {<<"mlp", p>> : p \in ExportPlatforms} \cup {Generic, BestPpo, Named}

Header(a) == <<a, "h">>
Source(a, suffix) == <<a, "c", suffix>>
Vectors(a) == <<a, "vectors">>
Verifier(a) == <<a, "verify">>
Config == <<"config">>
FileNames == {Config} \cup {Header(a) : a \in Architectures} \cup {Vectors(a) : a \in Architectures}
           \cup {Verifier(a) : a \in Architectures}
           \cup {Source(a, s) : a \in Architectures, s \in WeightsSuffixes}

ExportInit ==
  /\ models = [p \in ModelPaths |-> None] /\ xgboost = "skips"
  /\ export_args = None /\ todo = <<>> /\ step = "pick" /\ layers = None
  /\ files = [n \in FileNames |-> None]
  /\ export_ended = "none" /\ used = {} /\ trainings = 0 /\ exports = 0

-----------------------------------------------------------------------------
(* Between exports a model is trained, for any action space.               *)
TrainModel ==
  /\ export_args = None /\ trainings < MaxTrainings
  /\ trainings' = trainings + 1
  /\ \/ /\ \E p \in ModelPaths, n \in ActionSpaces :
             models' = [models EXCEPT ![p] = [id |-> trainings', n_actions |-> n]]
        /\ UNCHANGED xgboost
     \/ \E x \in {"ends", "raises"} : xgboost' = x /\ UNCHANGED models
  /\ UNCHANGED <<export_args, todo, step, layers, files, export_ended, used, exports>>

(* main: a named checkpoint needs a single model. *)
StartExport ==
  /\ export_args = None /\ exports < MaxExports
  /\ exports' = exports + 1
  /\ export_args' \in ExportArgs
  /\ todo' \in {<<"mlp">>, <<"ppo">>, <<"xgboost">>, <<"mlp", "ppo", "xgboost">>}
  /\ export_args'.checkpoint = None \/ Len(todo') = 1
  /\ used' = used \cup {<<export_args'.platform, export_args'.suffix>>}
  /\ step' = "pick" /\ layers' = None
  /\ UNCHANGED <<models, xgboost, files, export_ended, trainings>>

End(how) ==
  /\ export_args' = None /\ todo' = <<>> /\ step' = "pick" /\ layers' = None
  /\ export_ended' = how

(* The next model, after this one was written, skipped or refused. *)
NextModel ==
  /\ todo' = Tail(todo) /\ step' = "pick" /\ layers' = None
  /\ UNCHANGED <<export_args, export_ended>>

(* The path export_mlp and export_ppo load. *)
PathOf(a) ==
  CASE export_args.checkpoint # None -> export_args.checkpoint
    [] a = "ppo" -> BestPpo
    [] a = "mlp" /\ models[<<"mlp", export_args.platform>>] # None -> <<"mlp", export_args.platform>>
    [] OTHER -> Generic

(* Whether the layers are written: their outputs are the platform's actions.*)
(* Mutation: any layers are. *)
AnyLayers(checkpoint) == TRUE
FitsPlatform(checkpoint) == checkpoint.n_actions = ActionSpaceSize[export_args.platform]

(* export_mlp and export_ppo up to the first file: a named checkpoint that *)
(* is missing ends the program; a missing or an unfit model is passed over.*)
LoadModel ==
  /\ todo # <<>> /\ Head(todo) \in Architectures /\ step = "pick"
  /\ LET found == models[PathOf(Head(todo))]
     IN  IF found = None /\ export_args.checkpoint # None THEN End("exited")
         ELSE IF found = None \/ ~FitsPlatform(found) THEN NextModel
         ELSE /\ layers' = found /\ step' = "weights"
              /\ UNCHANGED <<export_args, todo, export_ended>>
  /\ UNCHANGED <<models, xgboost, files, used, trainings, exports>>

(* write_nn_weights_c: one header for all suffixes. *)
WriteWeights ==
  /\ step = "weights"
  /\ files' = [files EXCEPT ![Header(Head(todo))] = layers.n_actions,
                            ![Source(Head(todo), export_args.suffix)] = layers]
  /\ step' = "vectors"
  /\ UNCHANGED <<models, xgboost, export_args, todo, layers, export_ended, used, trainings, exports>>

(* generate_verification_data: the actions these layers choose. *)
WriteVectors ==
  /\ step = "vectors"
  /\ files' = [files EXCEPT ![Vectors(Head(todo))] = layers]
  /\ step' = "verify"
  /\ UNCHANGED <<models, xgboost, export_args, todo, layers, export_ended, used, trainings, exports>>

(* write_verify_c *)
WriteVerifier ==
  /\ step = "verify"
  /\ files' = [files EXCEPT ![Verifier(Head(todo))] = Head(todo)]
  /\ NextModel
  /\ UNCHANGED <<models, xgboost, used, trainings, exports>>

(* export_xgboost: the named checkpoint and the suffix play no part. *)
ExportXgboost ==
  /\ todo # <<>> /\ Head(todo) = "xgboost" /\ step = "pick"
  /\ IF xgboost = "raises" THEN End("raised") ELSE NextModel
  /\ UNCHANGED <<models, xgboost, files, used, trainings, exports>>

(* write_config_h, the last thing main does. *)
WriteConfig ==
  /\ export_args # None /\ todo = <<>>
  /\ files' = [files EXCEPT ![Config] = ActionSpaceSize[export_args.platform]]
  /\ End("done")
  /\ UNCHANGED <<models, xgboost, used, trainings, exports>>

ExportNext ==
  \/ TrainModel \/ StartExport
  \/ LoadModel \/ WriteWeights \/ WriteVectors \/ WriteVerifier
  \/ ExportXgboost \/ WriteConfig

ExportSpec == ExportInit /\ [][ExportNext]_exportVars

-----------------------------------------------------------------------------
(* verify_inference_<a> (external: the C compiler) builds from the weights *)
(* without a suffix, the header and ai_config.h, and passes for certain    *)
(* when it takes the argmax over as many outputs as the weights have and   *)
(* the expected actions are theirs. *)
Builds(a) ==
  /\ {Verifier(a), Source(a, ""), Header(a), Config} \subseteq {n \in FileNames : files[n] # None}
  /\ files[Header(a)] = files[Source(a, "")].n_actions
Passes(a) ==
  /\ Builds(a)
  /\ files[Config] = files[Source(a, "")].n_actions
  /\ files[Vectors(a)] = files[Source(a, "")]

(* In a directory used for one platform and without a suffix, everything   *)
(* exported so far verifies whenever no export is running, whatever was    *)
(* retrained for whichever action space, skipped, refused or interrupted by*)
(* an exception in between (main, the order of the writes in export_mlp and*)
(* export_ppo). *)
ExportedVerifies ==
  export_args = None /\ files[Config] # None /\ (\E p \in ExportPlatforms : used = {<<p, "">>}) =>
    \A a \in Architectures : files[Verifier(a)] # None => Passes(a)
=============================================================================

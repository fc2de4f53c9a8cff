----------------------------- MODULE MlpTraining -----------------------------
(***************************************************************************)
(* scripts/_train_mlp.py and training/mlp/train.py: one job after another  *)
(* trains a model, from scratch on the simulator's data or, on a captured  *)
(* trace, from the weights of an earlier job, and keeps the best epoch in  *)
(* a checkpoint file.  Weights are known by the job and the epoch that made*)
(* them and by their number of outputs; epoch -1 is the random start.      *)
(***************************************************************************)
EXTENDS Integers, Sequences, NoneValue

CONSTANTS
  Platforms,     \* the names --platform takes
  SizeOf,        \* platform -> action_space_size
  DataSizes,     \* what the actions in the data amount to (max + 1, or 0)
  GivenPaths,    \* paths --output and --init-from may name
  Losses,        \* validation losses an epoch may have
  NaN, Infinity, \* a loss that is no number; the least loss before the first
  n_epochs, patience,
  MaxJobs        \* bound on the jobs started

ASSUME TrainAssumption ==
  /\ n_epochs \in Nat \ {0} /\ patience \in Nat \ {0}
  /\ SizeOf \in [Platforms -> Nat] /\ DataSizes \subseteq Nat
  /\ Losses \subseteq Int /\ Infinity \notin Losses \cup {NaN} /\ NaN \notin Losses
  /\ None \notin Platforms \cup GivenPaths /\ None \notin [job : Nat, epoch : Int, n_actions : Nat]

VARIABLES
  disk,          \* path -> the weights in it, or None
  job,           \* number of the job
  platform,      \* --platform of the last job, or None
  args,          \* its source, output, start and number of outputs; or None
  model,         \* the weights in memory
  val_losses, best_val_loss, best_epoch, patience_counter,
  ended,         \* "no", "returned", "exit", "misfit" or "raised"
  started_from,  \* history: what disk held when the job began
  custom_paths   \* history: some job was given an output or a start
mlpVars == <<disk, job, platform, args, model, val_losses, best_val_loss, best_epoch,
          patience_counter, ended, started_from, custom_paths>>

Weights(j, e, k) == [job |-> j, epoch |-> e, n_actions |-> k]

(* _default_save_path and _default_init_path *)
Paths == ((Platforms \cup {None}) \X {"", "_real"}) \cup GivenPaths
(* Mutation: both sources save under the same name. *)
SaveOverBase(source, p) == <<p, "">>
SavePath(source, p) == <<p, IF source = "slmos-traces" THEN "_real" ELSE "">>
InitPath(source, p) == IF source = "slmos-traces" THEN <<p, "">> ELSE None

(* What the data of a job amount to: those of a platform hold its actions  *)
(* only, and maybe not all of them. *)
DataOf(p) == {data \in DataSizes : p # None => data <= SizeOf[p]}

(* Mutation: the size is read off the data. *)
NActionsOfData(p, data) == IF data = 0 THEN 42 ELSE data
(* Of train_mlp: the platform's size or the data's, 42 without data. *)
NActions(p, data) == IF p # None THEN SizeOf[p] ELSE IF data = 0 THEN 42 ELSE data

MlpInit ==
  /\ disk = [p \in Paths |-> None] /\ started_from = disk
  /\ job = 0 /\ platform = None /\ args = None /\ model = None
  /\ val_losses = <<>> /\ best_val_loss = Infinity /\ best_epoch = 0
  /\ patience_counter = 0 /\ ended = "no" /\ custom_paths = FALSE

Idle == args = None /\ job < MaxJobs

(* _train_mlp.py up to the loop of epochs.  A trace of fewer than two rows *)
(* or a start that is not there ends the job, a start of another size does *)
(* not load (load_state_dict, strict), and a training set without rows,    *)
(* which a trace does not have, raises in DataLoader. *)
Start(source, p, output, init) ==
  LET path == IF output # None THEN output ELSE SavePath(source, p)
      from == IF init # None THEN init ELSE InitPath(source, p)
  IN  /\ Idle
      /\ job' = job + 1 /\ platform' = p /\ started_from' = disk
      /\ custom_paths' = (custom_paths \/ output # None \/ init # None)
      /\ val_losses' = <<>> /\ best_val_loss' = Infinity /\ best_epoch' = 0
      /\ patience_counter' = 0
      /\ \E data \in DataOf(p), rows \in BOOLEAN :
           LET k == NActions(p, data)
               missing == from # None /\ disk[from] = None
               misfit == from # None /\ ~missing /\ disk[from].n_actions # k
               trains == ~missing /\ ~misfit /\ rows
           IN  /\ (rows => data > 0) /\ (source = "slmos-traces" => rows)
               /\ args' = IF trains
                          THEN [source |-> source, output |-> path, from |-> from, k |-> k]
                          ELSE None
               /\ ended' = IF missing THEN "exit" ELSE IF misfit THEN "misfit"
                           ELSE IF trains THEN "no" ELSE "raised"
               /\ model' = IF ~trains THEN None
                           ELSE IF from = None THEN Weights(job + 1, -1, k) ELSE disk[from]
      /\ UNCHANGED disk
TooFewRows ==
  /\ Idle /\ job' = job + 1 /\ ended' = "exit" /\ started_from' = disk
  /\ platform' \in Platforms \cup {None} /\ val_losses' = <<>> /\ model' = None
  /\ UNCHANGED <<disk, args, best_val_loss, best_epoch, patience_counter, custom_paths>>

epoch == Len(val_losses)
Running == args # None /\ ended = "no"
InLoop == Running /\ epoch < n_epochs /\ patience_counter < patience

(* No comparison with NaN holds. *)
Less(a, b) == a # NaN /\ b # NaN /\ (b = Infinity \/ a < b)
Improves(loss) == Less(loss, best_val_loss)
(* Mutation: an improvement does not reset the counter. *)
CountsOn(loss) == patience_counter + IF Improves(loss) THEN 0 ELSE 1
Counter(loss) == IF Improves(loss) THEN 0 ELSE patience_counter + 1

(* One epoch: training changes the weights, validation judges them, the    *)
(* best are saved. *)
Epoch ==
  /\ InLoop
  /\ \E loss \in Losses \cup {NaN} :
       LET new == Weights(job, epoch, args.k)
       IN  /\ model' = new /\ val_losses' = Append(val_losses, loss)
           /\ patience_counter' = Counter(loss)
           /\ IF Improves(loss)
              THEN /\ best_val_loss' = loss /\ best_epoch' = epoch
                   /\ disk' = [disk EXCEPT ![args.output] = new]
              ELSE UNCHANGED <<best_val_loss, best_epoch, disk>>
  /\ UNCHANGED <<job, platform, args, ended, started_from, custom_paths>>

(* After the loop the checkpoint is read back, strictly, if there is one.  *)
(* Mutation: the weights of the last epoch are returned. *)
ReturnLast ==
  /\ Running /\ ~InLoop
  /\ ended' = "returned" /\ model' = model
  /\ UNCHANGED <<disk, job, platform, args, val_losses, best_val_loss, best_epoch,
                 patience_counter, started_from, custom_paths>>
Return ==
  /\ Running /\ ~InLoop
  /\ LET saved == disk[args.output]
     IN  IF saved = None THEN ended' = "returned" /\ model' = model
         ELSE IF saved.n_actions # args.k THEN ended' = "misfit" /\ model' = None
         ELSE ended' = "returned" /\ model' = saved
  /\ UNCHANGED <<disk, job, platform, args, val_losses, best_val_loss, best_epoch,
                 patience_counter, started_from, custom_paths>>

(* The process is gone, after its job or in the middle of it. *)
Exit ==
  /\ args # None /\ args' = None /\ model' = None
  /\ UNCHANGED <<disk, job, platform, val_losses, best_val_loss, best_epoch,
                 patience_counter, ended, started_from, custom_paths>>

Sources == {"simulator", "slmos-traces"}
MlpStart ==
  \E s \in Sources, p \in Platforms \cup {None}, o, i \in GivenPaths \cup {None} :
    Start(s, p, o, i)

MlpNext == MlpStart \/ TooFewRows \/ Epoch \/ Return \/ Exit
MlpSpec == MlpInit /\ [][MlpNext]_mlpVars

-----------------------------------------------------------------------------
Best(e) == /\ e \in DOMAIN val_losses /\ val_losses[e] # NaN
           /\ \A d \in DOMAIN val_losses :
                val_losses[d] # NaN => val_losses[e] < val_losses[d] \/ (val_losses[e] = val_losses[d] /\ e <= d)

(* A job that had a loss at all returns the weights of the first epoch with*)
(* the least one, and leaves them in its checkpoint, whatever the epochs   *)
(* after it did and whichever start and output it was given (train_mlp).   *)
ReturnsBest ==
  ended = "returned" /\ args # None =>
    \A e \in DOMAIN val_losses :
      Best(e) => model = Weights(job, e - 1, args.k) /\ disk[args.output] = model

(* Early stopping: a job gives up exactly when as many epochs as its       *)
(* patience followed the best one, or the start (train.py:177-192).        *)
StopsForPatience ==
  ended = "returned" /\ epoch < n_epochs =>
    LET last == IF \E e \in DOMAIN val_losses : Best(e)
                THEN CHOOSE e \in DOMAIN val_losses : Best(e) ELSE 0
    IN  epoch - last = patience

(* _train_mlp.py:83: "the model output dim is platform-specific so         *)
(* deployment-target dimensionality matches at export time".  As long as no*)
(* job is given paths of its own, what is saved under a platform's name has*)
(* its number of outputs, whatever actions the data lack, and no job for a *)
(* platform raises because the checkpoint it starts from or reads back has *)
(* another.  A job without --platform takes the number from its data, and  *)
(* its strict load may raise. *)
NamedForItsSize ==
  ~custom_paths =>
    /\ \A p \in Platforms, source \in Sources :
         LET saved == disk[SavePath(source, p)]
         IN  saved # None => saved.n_actions = SizeOf[p]
    /\ ended = "misfit" => platform = None

(* A fine-tuning job without paths of its own leaves the checkpoint it     *)
(* starts from as it was, so the next one starts from the same baseline    *)
(* (_default_save_path, _default_init_path). *)
BaselineKept ==
  ~custom_paths /\ args # None /\ args.from # None =>
    disk[args.from] = started_from[args.from]
=============================================================================

----------------------------- MODULE ModelProofs -----------------------------
(***************************************************************************)
(* Theorems about what is trained, exported and evaluated, component by    *)
(* component.  The components share nothing; each theorem is about the     *)
(* specification of one of them.                                           *)
(***************************************************************************)
EXTENDS ActionCodec, MlpTraining, ExportFiles, Evaluation, PpoTraining, NetworkFold,
        XgbExport, DataLemmas

-----------------------------------------------------------------------------
(* The codec's round trip, for every platform of up to 255 cores.          *)

(* Both decoders undo encode_action. *)
LEMMA DecodersInvert ==
  ASSUME NEW n \in 1 .. MaxCores, NEW a \in SchedulingAction(n)
  PROVE  /\ encode_action(a) \in Nat
         /\ decode_action(encode_action(a)) = a
         /\ ai_decode_action(encode_action(a)) = a
<1>1. PICK c \in 0 .. 255, adj \in 0 .. 2, b \in BOOLEAN :
        a = [core |-> c, adj |-> adj, preempt |-> b]
  BY CoresAssumption DEF SchedulingAction
<1>2. PICK p \in 0 .. 1 : p = IF b THEN 1 ELSE 0
  OBVIOUS
<1>3. PICK k \in Nat : k = c * 3 + adj
  OBVIOUS
<1>4. PICK i \in Nat : i = k * 2 + p
  OBVIOUS
<1>5. k \div 3 = c /\ k % 3 = adj
  BY <1>3
<1>6. i \div 2 = k /\ i % 2 = p
  BY <1>4
<1>7. c % 256 = c /\ adj % 256 = adj /\ p % 256 = p
  OBVIOUS
<1>8. encode_action(a) = i
  BY <1>1, <1>2, <1>3, <1>4 DEF encode_action
<1>9. decode_action(i) = a
  BY <1>1, <1>2, <1>5, <1>6 DEF decode_action
<1>10. ai_decode_action(i) = a
  BY <1>1, <1>2, <1>5, <1>6, <1>7 DEF ai_decode_action
<1> QED
  BY <1>8, <1>9, <1>10

(* RoundTrip is not inductive alone: it needs the index that is decoded to *)
(* be that of the action. *)
CodecInv ==
  /\ num_cores \in 1 .. MaxCores
  /\ action \in SchedulingAction(num_cores)
  /\ idx = -1 \/ idx = encode_action(action)
  /\ decoded \in Seq(SchedulingAction(num_cores))
  /\ RoundTrip

(* Whoever decodes an index, the simulator or the C code, carries out the  *)
(* action that was logged, on every platform (encode_action,               *)
(* decode_action, write_config_h). *)
THEOREM RoundTripCorrect == CodecSpec => []RoundTrip
<1>1. CodecInit => CodecInv
  BY DEF CodecInit, CodecInv, PlatformActions, RoundTrip
<1>2. CodecInv /\ [CodecNext]_codecVars => CodecInv'
  <2> SUFFICES ASSUME CodecInv, [CodecNext]_codecVars
               PROVE  CodecInv'
    OBVIOUS
  <2> USE DEF CodecInv
  <2>1. CASE Encode
    BY <2>1 DEF Encode, RoundTrip
  <2>2. ASSUME NEW d, Decode(d), d = action
        PROVE  CodecInv'
    <3>1. decoded' = Append(decoded, action)
      BY <2>2 DEF Decode
    <3>2. decoded' \in Seq(SchedulingAction(num_cores))
      BY <3>1
    <3>3. \A k \in DOMAIN decoded' : decoded'[k] = action
      BY <3>1 DEF RoundTrip
    <3> QED
      BY <2>2, <3>2, <3>3 DEF Decode, RoundTrip
  <2>3. ASSUME idx >= 0
        PROVE  decode_action(idx) = action /\ ai_decode_action(idx) = action
    BY <2>3, DecodersInvert
  <2>4. CASE Decode(decode_action(idx))
    BY <2>2, <2>3, <2>4 DEF Decode
  <2>5. CASE Decode(ai_decode_action(idx))
    BY <2>2, <2>3, <2>5 DEF Decode
  <2>6. CASE UNCHANGED codecVars
    BY <2>6 DEF codecVars, RoundTrip
  <2> QED
    BY <2>1, <2>4, <2>5, <2>6 DEF CodecNext
<1>3. CodecInv => RoundTrip
  BY DEF CodecInv
<1> QED
  BY <1>1, <1>2, <1>3, PTL DEF CodecSpec

-----------------------------------------------------------------------------
(* MlpTraining for any platforms, numbers of epochs and losses.            *)

(* What a job without paths of its own knows of where it reads and writes. *)
DefaultPaths ==
  ~custom_paths /\ args # None =>
    /\ args.source \in Sources /\ platform \in Platforms \cup {None}
    /\ args.output = SavePath(args.source, platform)
    /\ platform # None => args.k = SizeOf[platform]
    /\ args.from # None => args.from \in Paths /\ args.from # args.output

(* Files saved under a platform's name have its size. *)
PathsInv ==
  /\ DOMAIN disk = Paths
  /\ DefaultPaths
  /\ NamedForItsSize
  /\ BaselineKept

(* The names of two platforms differ, and that of none is another. *)
LEMMA SavePathsDiffer ==
  ASSUME NEW s, NEW t, NEW p, NEW q, SavePath(s, p) = SavePath(t, q)
  PROVE  p = q
<1>1. SavePath(s, p)[1] = p /\ SavePath(t, q)[1] = q
  BY DEF SavePath
<1> QED
  BY <1>1

LEMMA PathOfSave ==
  ASSUME NEW s, NEW p \in Platforms \cup {None}
  PROVE  SavePath(s, p) \in Paths
<1> DEFINE suffix == IF s = "slmos-traces" THEN "_real" ELSE ""
<1>1. suffix \in {"", "_real"}
  OBVIOUS
<1>2. <<p, suffix>> \in (Platforms \cup {None}) \X {"", "_real"}
  BY <1>1
<1> QED
  BY <1>2 DEF SavePath, Paths

LEMMA DefaultsOfStart ==
  ASSUME NEW s \in Sources, NEW p \in Platforms \cup {None}, InitPath(s, p) # None
  PROVE  /\ InitPath(s, p) \in Paths /\ InitPath(s, p) # SavePath(s, p)
         /\ InitPath(s, p) = SavePath("simulator", p)
<1>1. s = "slmos-traces"
  BY DEF InitPath
<1>2. InitPath(s, p) = <<p, "">> /\ SavePath(s, p) = <<p, "_real">>
  BY <1>1 DEF InitPath, SavePath
<1>3. <<p, "">>[2] = "" /\ <<p, "_real">>[2] = "_real"
  OBVIOUS
<1>4. "" # "_real" /\ "simulator" # "slmos-traces"
  OBVIOUS
<1>5. SavePath("simulator", p) = <<p, "">>
  BY <1>4 DEF SavePath
<1> QED
  BY <1>2, <1>3, <1>4, <1>5, PathOfSave

LEMMA StartKeepsPaths ==
  ASSUME PathsInv, NEW s \in Sources, NEW p \in Platforms \cup {None},
         NEW o \in GivenPaths \cup {None}, NEW i \in GivenPaths \cup {None}, Start(s, p, o, i)
  PROVE  PathsInv'
<1> DEFINE path == IF o # None THEN o ELSE SavePath(s, p)
           from == IF i # None THEN i ELSE InitPath(s, p)
<1>1. PICK data \in DataOf(p) :
        /\ args' = None \/ args' = [source |-> s, output |-> path, from |-> from,
                                    k |-> NActions(p, data)]
        /\ ended' = "misfit" =>
             from # None /\ disk[from] # None /\ disk[from].n_actions # NActions(p, data)
  <2>1. PICK data \in DataOf(p), full \in BOOLEAN :
          LET k == NActions(p, data)
              missing == from # None /\ disk[from] = None
              misfit == from # None /\ ~missing /\ disk[from].n_actions # k
              trains == ~missing /\ ~misfit /\ full
          IN  /\ args' = IF trains
                         THEN [source |-> s, output |-> path, from |-> from, k |-> k]
                         ELSE None
              /\ ended' = IF missing THEN "exit" ELSE IF misfit THEN "misfit"
                          ELSE IF trains THEN "no" ELSE "raised"
    BY DEF Start
  <2> QED
    BY <2>1
<1>2. /\ custom_paths' = (custom_paths \/ o # None \/ i # None)
      /\ disk' = disk /\ started_from' = disk /\ platform' = p
  BY DEF Start
<1>3. CASE custom_paths'
  BY <1>2, <1>3 DEF PathsInv, DefaultPaths, NamedForItsSize, BaselineKept
<1>4. CASE ~custom_paths'
  <2>1. path = SavePath(s, p) /\ from = InitPath(s, p) /\ ~custom_paths
    BY <1>2, <1>4
  <2>2. p # None => p \in Platforms /\ NActions(p, data) = SizeOf[p]
    BY DEF NActions
  <2>3. DefaultPaths'
    BY <1>1, <1>2, <2>1, <2>2, DefaultsOfStart DEF DefaultPaths
  <2>4. ASSUME ended' = "misfit"
        PROVE  p = None
    <3>1. SUFFICES ASSUME p # None
                   PROVE  FALSE
      OBVIOUS
    <3>2. from = SavePath("simulator", p) /\ "simulator" \in Sources
      BY <1>1, <2>1, <2>4, DefaultsOfStart DEF Sources
    <3>3. disk[from] # None => disk[from].n_actions = SizeOf[p]
      BY <2>1, <2>2, <3>1, <3>2 DEF PathsInv, NamedForItsSize
    <3> QED
      BY <1>1, <2>2, <2>4, <3>1, <3>3
  <2>5. NamedForItsSize'
    BY <1>2, <2>1, <2>4 DEF PathsInv, NamedForItsSize, SavePath
  <2> QED
    BY <1>2, <2>1, <2>3, <2>5 DEF PathsInv, BaselineKept
<1> QED
  BY <1>3, <1>4

LEMMA EpochKeepsPaths ==
  ASSUME PathsInv, Epoch
  PROVE  PathsInv'
<1> DEFINE new == Weights(job, epoch, args.k)
<1>1. disk' = disk \/ disk' = [disk EXCEPT ![args.output] = new]
  BY DEF Epoch
<1>2. /\ args' = args /\ started_from' = started_from /\ custom_paths' = custom_paths
      /\ platform' = platform /\ ended' = ended
  BY DEF Epoch
<1>3. new.n_actions = args.k
  BY DEF Weights
<1>4. args # None
  BY DEF Epoch, InLoop, Running
<1>5. DefaultPaths'
  BY <1>2 DEF PathsInv, DefaultPaths
<1>6. ASSUME ~custom_paths, NEW q \in Platforms, NEW t \in Sources, disk'[SavePath(t, q)] # None
      PROVE  disk'[SavePath(t, q)].n_actions = SizeOf[q]
  <2> DEFINE target == SavePath(t, q)
  <2>1. target \in Paths
    BY PathOfSave
  <2>2. CASE disk'[target] = disk[target]
    BY <1>6, <2>2 DEF PathsInv, NamedForItsSize
  <2>3. CASE disk'[target] # disk[target]
    <3>1. target = args.output /\ disk'[target] = new
      BY <1>1, <2>1, <2>3 DEF PathsInv
    <3>2. platform = q
      BY <1>4, <1>6, <3>1, SavePathsDiffer DEF PathsInv, DefaultPaths
    <3>3. platform # None
      BY <3>2, TrainAssumption
    <3> QED
      BY <1>3, <1>4, <1>6, <3>1, <3>2, <3>3 DEF PathsInv, DefaultPaths
  <2> QED
    BY <2>2, <2>3
<1>7. ASSUME ~custom_paths, args.from # None
      PROVE  disk'[args.from] = started_from[args.from]
  <2>1. args.from \in DOMAIN disk /\ args.from # args.output
    BY <1>4, <1>7 DEF PathsInv, DefaultPaths
  <2>2. disk[args.from] = started_from[args.from]
    BY <1>4, <1>7 DEF PathsInv, BaselineKept
  <2> QED
    BY <1>1, <2>1, <2>2
<1>8. DOMAIN disk' = Paths
  BY <1>1 DEF PathsInv
<1>9. NamedForItsSize'
  BY <1>2, <1>6 DEF PathsInv, NamedForItsSize, SavePath
<1> QED
  BY <1>2, <1>5, <1>7, <1>8, <1>9 DEF PathsInv, BaselineKept

(* A job for a platform reads back no checkpoint of another size. *)
LEMMA ReturnKeepsPaths ==
  ASSUME PathsInv, Return
  PROVE  PathsInv'
<1>1. /\ UNCHANGED <<disk, args, platform, started_from, custom_paths>> /\ args # None
      /\ ended' = "misfit" => disk[args.output] # None /\ disk[args.output].n_actions # args.k
  BY DEF Return, Running
<1>2. ASSUME ~custom_paths, ended' = "misfit"
      PROVE  platform = None
  <2>1. SUFFICES ASSUME platform # None
                 PROVE  FALSE
    OBVIOUS
  <2>2. /\ platform \in Platforms /\ args.source \in Sources
        /\ args.output = SavePath(args.source, platform) /\ args.k = SizeOf[platform]
    BY <1>1, <1>2, <2>1 DEF PathsInv, DefaultPaths
  <2> QED
    BY <1>1, <1>2, <2>2 DEF PathsInv, NamedForItsSize
<1>3. NamedForItsSize'
  BY <1>1, <1>2 DEF PathsInv, NamedForItsSize, SavePath
<1> QED
  BY <1>1, <1>3 DEF PathsInv, DefaultPaths, BaselineKept

LEMMA PathsInvariant == MlpSpec => []PathsInv
<1>1. MlpInit => PathsInv
  <2>1. ASSUME MlpInit, NEW q \in Platforms, NEW t \in Sources
        PROVE  disk[SavePath(t, q)] = None
    BY <2>1, PathOfSave DEF MlpInit
  <2> QED
    BY <2>1 DEF MlpInit, PathsInv, DefaultPaths, NamedForItsSize, BaselineKept
<1>2. PathsInv /\ [MlpNext]_mlpVars => PathsInv'
  <2> SUFFICES ASSUME PathsInv, [MlpNext]_mlpVars
               PROVE  PathsInv'
    OBVIOUS
  <2>1. CASE MlpStart
    BY <2>1, StartKeepsPaths DEF MlpStart
  <2>2. CASE Epoch
    BY <2>2, EpochKeepsPaths
  <2>3. CASE Return
    BY <2>3, ReturnKeepsPaths
  <2> USE DEF PathsInv, DefaultPaths, NamedForItsSize, BaselineKept, SavePath
  <2>4. CASE TooFewRows
    BY <2>4 DEF TooFewRows, Idle
  <2>5. CASE Exit
    BY <2>5 DEF Exit
  <2>6. CASE UNCHANGED mlpVars
    BY <2>6 DEF mlpVars
  <2> QED
    BY <2>1, <2>2, <2>3, <2>4, <2>5, <2>6 DEF MlpNext
<1> QED
  BY <1>1, <1>2, PTL DEF MlpSpec

(* As long as no job is given paths of its own, what is saved under a      *)
(* platform's name has its number of outputs, whatever the data amount to, *)
(* and no job for a platform raises because a checkpoint has another       *)
(* (_train_mlp.py:83). *)
THEOREM NamesMatchSizes == MlpSpec => []NamedForItsSize
<1>1. PathsInv => NamedForItsSize
  BY DEF PathsInv
<1> QED
  BY <1>1, PathsInvariant, PTL

(* A fine-tuning job without paths of its own leaves the checkpoint it     *)
(* starts from as it was (_default_save_path, _default_init_path). *)
THEOREM BaselineSurvives == MlpSpec => []BaselineKept
<1>1. PathsInv => BaselineKept
  BY DEF PathsInv
<1> QED
  BY <1>1, PathsInvariant, PTL

-----------------------------------------------------------------------------
(* The best epoch so far.                                                  *)

NoBest == best_val_loss = Infinity /\ \A d \in DOMAIN val_losses : val_losses[d] = NaN
HasBest ==
  /\ best_val_loss \in Losses
  /\ best_epoch \in Nat
  /\ best_epoch + 1 \in DOMAIN val_losses
  /\ val_losses[best_epoch + 1] = best_val_loss
  /\ \A d \in DOMAIN val_losses : val_losses[d] # NaN =>
       \/ best_val_loss < val_losses[d]
       \/ best_val_loss = val_losses[d] /\ best_epoch + 1 <= d

SavedBest == HasBest => disk[args.output] = Weights(job, best_epoch, args.k)

(* The epochs since the best one. *)
Waited == IF best_val_loss = Infinity THEN epoch ELSE epoch - (best_epoch + 1)

JobTypeOK ==
  /\ job \in Nat
  /\ val_losses \in Seq(Losses \cup {NaN})
  /\ patience_counter \in 0 .. patience
  /\ DOMAIN disk = Paths
  /\ args # None => args.k \in Nat /\ args.output \in Paths

BestInv ==
  /\ JobTypeOK
  /\ args # None => (NoBest \/ HasBest) /\ SavedBest /\ patience_counter = Waited
  /\ ReturnsBest
  /\ StopsForPatience

LEMMA BestIsUnique ==
  ASSUME val_losses \in Seq(Losses \cup {NaN})
  PROVE  /\ HasBest => \A e \in DOMAIN val_losses : Best(e) <=> e = best_epoch + 1
         /\ NoBest => \A e \in DOMAIN val_losses : ~Best(e)
<1>1. \A e \in DOMAIN val_losses : e \in Nat /\ (val_losses[e] # NaN => val_losses[e] \in Int)
  <2>1. \A e \in DOMAIN val_losses : e \in Nat /\ val_losses[e] \in Losses \cup {NaN}
    OBVIOUS
  <2> QED
    BY <2>1, TrainAssumption
<1>2. ASSUME HasBest, NEW e \in DOMAIN val_losses
      PROVE  Best(e) <=> e = best_epoch + 1
  <2> DEFINE b == best_epoch + 1
  <2>1. b \in DOMAIN val_losses /\ val_losses[b] = best_val_loss /\ val_losses[b] # NaN
    BY <1>2, TrainAssumption DEF HasBest
  <2>2. \A d \in DOMAIN val_losses : val_losses[d] # NaN =>
          val_losses[b] < val_losses[d] \/ (val_losses[b] = val_losses[d] /\ b <= d)
    BY <1>2, <2>1 DEF HasBest
  <2> HIDE DEF b
  <2>3. Best(b)
    BY <2>1, <2>2 DEF Best
  <2>4. ASSUME Best(e)
        PROVE  e = b
    <3>1. val_losses[e] # NaN
      BY <2>4 DEF Best
    <3>2. val_losses[b] < val_losses[e] \/ (val_losses[b] = val_losses[e] /\ b <= e)
      BY <2>2, <3>1
    <3>3. val_losses[e] < val_losses[b] \/ (val_losses[e] = val_losses[b] /\ e <= b)
      BY <2>1, <2>4 DEF Best
    <3>4. e \in Nat /\ b \in Nat /\ val_losses[e] \in Int /\ val_losses[b] \in Int
      BY <1>1, <2>1, <3>1
    <3> QED
      BY <3>2, <3>3, <3>4
  <2> QED
    BY <2>3, <2>4 DEF b
<1>3. ASSUME NoBest, NEW e \in DOMAIN val_losses
      PROVE  ~Best(e)
  BY <1>3 DEF NoBest, Best
<1> QED
  BY <1>2, <1>3

LEMMA StartKeepsBest ==
  ASSUME BestInv, NEW s \in Sources, NEW p \in Platforms \cup {None},
         NEW o \in GivenPaths \cup {None}, NEW i \in GivenPaths \cup {None}, Start(s, p, o, i)
  PROVE  BestInv'
<1> DEFINE path == IF o # None THEN o ELSE SavePath(s, p)
           from == IF i # None THEN i ELSE InitPath(s, p)
<1>1. PICK data \in DataOf(p) :
        /\ args' = None \/ args' = [source |-> s, output |-> path, from |-> from,
                                    k |-> NActions(p, data)]
        /\ ended' # "returned"
  BY DEF Start
<1>2. /\ job' = job + 1 /\ disk' = disk /\ val_losses' = <<>>
      /\ best_val_loss' = Infinity /\ patience_counter' = 0
  BY DEF Start
<1>3. path \in Paths
  BY PathOfSave DEF Paths
<1>4. NActions(p, data) \in Nat
  BY TrainAssumption DEF NActions, DataOf
<1>5. job' \in Nat /\ 0 \in 0 .. patience /\ <<>> \in Seq(Losses \cup {NaN})
  BY <1>2, TrainAssumption DEF BestInv, JobTypeOK
<1>6. JobTypeOK'
  BY <1>1, <1>2, <1>3, <1>4, <1>5 DEF JobTypeOK, BestInv
<1>7. NoBest' /\ ~HasBest' /\ Waited' = 0
  BY <1>2, TrainAssumption DEF NoBest, HasBest, Waited, epoch
<1> QED
  BY <1>1, <1>2, <1>6, <1>7 DEF BestInv, SavedBest, ReturnsBest, StopsForPatience

LEMMA EpochKeepsBest ==
  ASSUME BestInv, Epoch
  PROVE  BestInv'
<1>1. PICK loss \in Losses \cup {NaN} :
        /\ val_losses' = Append(val_losses, loss) /\ patience_counter' = Counter(loss)
        /\ IF Improves(loss)
           THEN /\ best_val_loss' = loss /\ best_epoch' = epoch
                /\ disk' = [disk EXCEPT ![args.output] = Weights(job, epoch, args.k)]
           ELSE UNCHANGED <<best_val_loss, best_epoch, disk>>
  BY DEF Epoch
<1>2. /\ args' = args /\ job' = job /\ ended' = ended
      /\ args # None /\ ended = "no" /\ patience_counter < patience
  BY DEF Epoch, InLoop, Running
<1>3. PICK n \in Nat :
        /\ n = Len(val_losses) /\ n = epoch /\ epoch' = n + 1
        /\ DOMAIN val_losses = 1 .. n /\ DOMAIN val_losses' = 1 .. n + 1
        /\ val_losses'[n + 1] = loss
        /\ \A d \in 1 .. n : val_losses'[d] = val_losses[d] /\ val_losses[d] \in Losses \cup {NaN}
  <2>1. PICK s \in Seq(Losses \cup {NaN}) : s = val_losses
    BY DEF BestInv, JobTypeOK
  <2>2. PICK n \in Nat : n = Len(s) /\ DOMAIN s = 1 .. n
    BY <2>1
  <2>3. /\ DOMAIN Append(s, loss) = 1 .. n + 1 /\ Append(s, loss)[n + 1] = loss
        /\ Len(Append(s, loss)) = n + 1
        /\ \A d \in 1 .. n : Append(s, loss)[d] = s[d] /\ s[d] \in Losses \cup {NaN}
    BY <2>2
  <2>4. val_losses' = Append(s, loss)
    BY <1>1, <2>1
  <2> QED
    BY <2>1, <2>2, <2>3, <2>4 DEF epoch
<1>4. val_losses' \in Seq(Losses \cup {NaN})
  BY <1>1 DEF BestInv, JobTypeOK
<1>5. \A x \in Losses : x \in Int /\ x # NaN /\ x # Infinity
  BY TrainAssumption
<1>6. NoBest \/ HasBest
  BY <1>2 DEF BestInv
<1>7. \A d \in 1 .. n + 1 : d \in 1 .. n \/ d = n + 1
  OBVIOUS
<1>8. CASE Improves(loss)
  <2>1. loss \in Losses /\ (best_val_loss = Infinity \/ loss < best_val_loss)
    BY <1>8 DEF Improves, Less
  <2>2. best_val_loss' = loss /\ best_epoch' = n
    BY <1>1, <1>3, <1>8
  <2>3. ASSUME NEW d \in 1 .. n, val_losses[d] # NaN
        PROVE  loss < val_losses[d]
    <3>1. HasBest
      BY <1>3, <1>6, <2>3 DEF NoBest
    <3>2. best_val_loss < val_losses[d] \/ best_val_loss = val_losses[d]
      BY <1>3, <2>3, <3>1 DEF HasBest
    <3>3. best_val_loss \in Losses /\ val_losses[d] \in Losses
      BY <1>3, <2>3, <3>1 DEF HasBest
    <3>4. loss < best_val_loss
      BY <1>5, <2>1, <3>3
    <3> QED
      BY <1>5, <2>1, <3>2, <3>3, <3>4
  <2>4. HasBest'
    BY <1>3, <1>7, <2>1, <2>2, <2>3 DEF HasBest
  <2>5. disk' = [disk EXCEPT ![args.output] = Weights(job, n, args.k)]
    BY <1>1, <1>3, <1>8
  <2>6. DOMAIN disk' = Paths /\ SavedBest'
    BY <1>2, <2>2, <2>5 DEF SavedBest, BestInv, JobTypeOK
  <2>7. patience_counter' = 0 /\ 0 \in 0 .. patience
    BY <1>1, <1>8, TrainAssumption DEF Counter
  <2>8. Waited' = 0
    BY <1>3, <1>5, <2>1, <2>2 DEF Waited
  <2> QED
    BY <1>2, <1>4, <2>4, <2>6, <2>7, <2>8
       DEF BestInv, JobTypeOK, ReturnsBest, StopsForPatience
<1>9. CASE ~Improves(loss)
  <2>1. best_val_loss' = best_val_loss /\ best_epoch' = best_epoch /\ disk' = disk
    BY <1>1, <1>9
  <2>2. patience_counter' = patience_counter + 1
    BY <1>1, <1>9 DEF Counter
  <2>3. patience_counter' \in 0 .. patience /\ patience_counter \in Nat
    BY <1>2, <2>2, TrainAssumption DEF BestInv, JobTypeOK
  <2>4. patience_counter = Waited
    BY <1>2 DEF BestInv
  <2>5. CASE NoBest
    <3>1. loss = NaN /\ best_val_loss = Infinity
      BY <1>9, <2>5, TrainAssumption DEF NoBest, Improves, Less
    <3>2. NoBest' /\ ~HasBest'
      BY <1>3, <1>5, <1>7, <2>1, <2>5, <3>1 DEF NoBest, HasBest
    <3>3. Waited' = n + 1 /\ Waited = n
      BY <1>3, <2>1, <3>1 DEF Waited
    <3> QED
      BY <1>2, <1>4, <2>1, <2>2, <2>3, <2>4, <3>2, <3>3
         DEF BestInv, JobTypeOK, ReturnsBest, StopsForPatience, SavedBest
  <2>6. CASE HasBest
    <3>1. best_val_loss \in Losses /\ best_epoch \in Nat /\ best_epoch + 1 \in 1 .. n
      BY <1>3, <2>6 DEF HasBest
    <3>2. loss = NaN \/ best_val_loss < loss \/ best_val_loss = loss
      BY <1>5, <1>9, <3>1 DEF Improves, Less
    <3>3. best_epoch + 1 <= n + 1 /\ best_epoch + 1 \in 1 .. n + 1
      BY <3>1
    <3>4. HasBest'
      BY <1>3, <1>7, <2>1, <2>6, <3>1, <3>2, <3>3 DEF HasBest
    <3>5. Waited = n - (best_epoch + 1) /\ Waited' = (n + 1) - (best_epoch + 1)
      BY <1>3, <1>5, <2>1, <3>1 DEF Waited
    <3>6. Waited' = Waited + 1
      BY <3>1, <3>5
    <3>7. SavedBest'
      BY <1>2, <2>1, <2>6 DEF BestInv, SavedBest
    <3> QED
      BY <1>2, <1>4, <2>1, <2>2, <2>3, <2>4, <3>4, <3>6, <3>7
         DEF BestInv, JobTypeOK, ReturnsBest, StopsForPatience
  <2> QED
    BY <1>6, <2>5, <2>6
<1> QED
  BY <1>8, <1>9

LEMMA ReturnKeepsBest ==
  ASSUME BestInv, Return
  PROVE  BestInv'
<1>1. /\ UNCHANGED <<disk, job, args, val_losses, best_val_loss, best_epoch, patience_counter>>
      /\ args # None /\ ~InLoop /\ Running
  BY DEF Return, Running
<1>2. /\ JobTypeOK /\ SavedBest /\ patience_counter = Waited /\ (NoBest \/ HasBest)
  BY <1>1 DEF BestInv
<1>3. JobTypeOK' /\ SavedBest' /\ patience_counter' = Waited' /\ (NoBest' \/ HasBest')
  BY <1>1, <1>2 DEF JobTypeOK, SavedBest, Waited, NoBest, HasBest, epoch
<1>4. ASSUME HasBest
      PROVE  disk[args.output] = Weights(job, best_epoch, args.k) /\ model' = disk[args.output]
  <2> DEFINE saved == disk[args.output]
  <2>1. saved = Weights(job, best_epoch, args.k)
    BY <1>2, <1>4 DEF SavedBest
  <2>2. Weights(job, best_epoch, args.k) \in [job : Nat, epoch : Int, n_actions : Nat]
    BY <1>1, <1>2, <1>4 DEF Weights, HasBest, JobTypeOK
  <2>3. saved # None /\ saved.n_actions = args.k
    BY <2>1, <2>2, TrainAssumption DEF Weights
  <2> QED
    BY <2>1, <2>3 DEF Return
<1>5. ReturnsBest'
  <2> SUFFICES ASSUME NEW e \in DOMAIN val_losses, Best(e)
               PROVE  model' = Weights(job, e - 1, args.k) /\ disk[args.output] = model'
    BY <1>1 DEF ReturnsBest, Best
  <2>1. HasBest /\ e = best_epoch + 1
    BY <1>2, BestIsUnique DEF JobTypeOK
  <2>2. e - 1 = best_epoch
    BY <2>1 DEF HasBest
  <2> QED
    BY <1>4, <2>1, <2>2
<1>6. StopsForPatience'
  <2> SUFFICES ASSUME epoch < n_epochs
               PROVE  epoch - (IF \E e \in DOMAIN val_losses : Best(e)
                               THEN CHOOSE e \in DOMAIN val_losses : Best(e) ELSE 0) = patience
    BY <1>1 DEF StopsForPatience, Best, epoch
  <2>1. patience_counter = patience
    BY <1>1, <1>2, TrainAssumption DEF InLoop, JobTypeOK
  <2>2. epoch \in Nat
    BY <1>2 DEF JobTypeOK, epoch
  <2>3. CASE NoBest
    <3>1. ~\E e \in DOMAIN val_losses : Best(e)
      BY <1>2, <2>3, BestIsUnique DEF JobTypeOK
    <3>2. epoch = patience
      BY <1>2, <2>1, <2>3 DEF NoBest, Waited
    <3>3. epoch - 0 = patience
      BY <2>2, <3>2
    <3> QED
      BY <3>1, <3>3
  <2>4. CASE HasBest
    <3>1. /\ \E e \in DOMAIN val_losses : Best(e)
          /\ (CHOOSE e \in DOMAIN val_losses : Best(e)) = best_epoch + 1
      BY <1>2, <2>4, BestIsUnique DEF JobTypeOK, HasBest
    <3>2. Waited = epoch - (best_epoch + 1)
      BY <2>4, TrainAssumption DEF HasBest, Waited
    <3> QED
      BY <1>2, <2>1, <3>1, <3>2
  <2> QED
    BY <1>2, <2>3, <2>4
<1> QED
  BY <1>3, <1>5, <1>6 DEF BestInv

LEMMA BestInvariant == MlpSpec => []BestInv
<1>1. MlpInit => BestInv
  <2> SUFFICES ASSUME MlpInit
               PROVE  BestInv
    OBVIOUS
  <2>1. JobTypeOK
    BY TrainAssumption DEF MlpInit, JobTypeOK
  <2> QED
    BY <2>1 DEF MlpInit, BestInv, ReturnsBest, StopsForPatience
<1>2. BestInv /\ [MlpNext]_mlpVars => BestInv'
  <2> SUFFICES ASSUME BestInv, [MlpNext]_mlpVars
               PROVE  BestInv'
    OBVIOUS
  <2>1. CASE MlpStart
    BY <2>1, StartKeepsBest DEF MlpStart
  <2>2. CASE TooFewRows
    <3>1. job' \in Nat /\ <<>> \in Seq(Losses \cup {NaN})
      BY <2>2 DEF TooFewRows, BestInv, JobTypeOK
    <3> QED
      BY <2>2, <3>1 DEF TooFewRows, Idle, BestInv, JobTypeOK, ReturnsBest, StopsForPatience
  <2>3. CASE Epoch
    BY <2>3, EpochKeepsBest
  <2>4. CASE Return
    BY <2>4, ReturnKeepsBest
  <2>5. CASE Exit
    BY <2>5 DEF Exit, BestInv, JobTypeOK, ReturnsBest, StopsForPatience, Best, epoch
  <2>6. CASE UNCHANGED mlpVars
    BY <2>6 DEF mlpVars, BestInv, JobTypeOK, ReturnsBest, StopsForPatience, Best, epoch,
                NoBest, HasBest, SavedBest, Waited
  <2> QED
    BY <2>1, <2>2, <2>3, <2>4, <2>5, <2>6 DEF MlpNext
<1> QED
  BY <1>1, <1>2, PTL DEF MlpSpec

(* A job that had a loss at all returns the weights of the first epoch with*)
(* the least one, and leaves them in its checkpoint (train_mlp). *)
THEOREM BestReturned == MlpSpec => []ReturnsBest
<1>1. BestInv => ReturnsBest
  BY DEF BestInv
<1> QED
  BY <1>1, BestInvariant, PTL

(* A job gives up exactly when as many epochs as its patience followed the *)
(* best one, or the start (train.py:177-192). *)
THEOREM PatienceCounted == MlpSpec => []StopsForPatience
<1>1. BestInv => StopsForPatience
  BY DEF BestInv
<1> QED
  BY <1>1, BestInvariant, PTL

-----------------------------------------------------------------------------
(* What an output directory used for one platform holds verifies.          *)

Checkpoints == [id : Nat, n_actions : Nat]

ExportTypes ==
  /\ trainings \in Nat
  /\ models \in [ModelPaths -> Checkpoints \cup {None}]
  /\ DOMAIN files = FileNames
  /\ used \subseteq ExportPlatforms \X WeightsSuffixes
  /\ todo # <<>> => export_args \in ExportArgs
  /\ step # "pick" => /\ todo # <<>> /\ Head(todo) \in Architectures
                      /\ layers \in Checkpoints /\ FitsPlatform(layers)

(* Everything was exported for platform p and without a suffix. *)
OnlyFor(p) == used = {<<p, "">>}

(* The running export is one of those used stands for. *)
ArgsUsed ==
  export_args # None \/ todo # <<>> => <<export_args.platform, export_args.suffix>> \in used

Writing(a, file) == step = file /\ Head(todo) = a

(* The weights of a are those of a checkpoint for p, and so are its        *)
(* expected actions. *)
Weighted(fs, a, p, checkpoint) ==
  /\ checkpoint \in Checkpoints /\ checkpoint.n_actions = ActionSpaceSize[p]
  /\ fs[Header(a)] = checkpoint.n_actions
  /\ fs[Source(a, "")] = checkpoint
Consistent(fs, a, p) ==
  \E checkpoint : Weighted(fs, a, p, checkpoint) /\ fs[Vectors(a)] = checkpoint

(* Between the weights and the vectors of a, its files belong to two       *)
(* checkpoints; at all other times they agree when a was exported. *)
FilesAgree(p) ==
  \A a \in Architectures :
    /\ Writing(a, "vectors") => Weighted(files, a, p, layers)
    /\ Writing(a, "verify") => Consistent(files, a, p)
    /\ files[Verifier(a)] # None /\ ~Writing(a, "vectors") => Consistent(files, a, p)

ConfigFits(p) == files[Config] # None => files[Config] = ActionSpaceSize[p]

ExportInv ==
  /\ ExportTypes
  /\ ArgsUsed
  /\ used = {} => \A n \in FileNames : files[n] = None
  /\ \A p \in ExportPlatforms : OnlyFor(p) => FilesAgree(p) /\ ConfigFits(p)

-----------------------------------------------------------------------------
(* The file names are distinct. *)
LEMMA NamesDiffer ==
  ASSUME NEW a \in Architectures, NEW b \in Architectures, NEW s
  PROVE  /\ {Header(a), Vectors(a), Verifier(a), Source(a, "")} \cap {Config} = {}
         /\ Header(a) # Vectors(b) /\ Header(a) # Verifier(b) /\ Vectors(a) # Verifier(b)
         /\ Source(a, s) # Header(b) /\ Source(a, s) # Vectors(b) /\ Source(a, s) # Verifier(b)
         /\ Header(a) = Header(b) => a = b
         /\ Vectors(a) = Vectors(b) => a = b
         /\ Verifier(a) = Verifier(b) => a = b
         /\ Source(a, s) = Source(b, "") => a = b /\ s = ""
<1>1. /\ Len(Config) = 1 /\ Len(Header(a)) = 2 /\ Len(Header(b)) = 2
      /\ Len(Vectors(a)) = 2 /\ Len(Vectors(b)) = 2 /\ Len(Verifier(a)) = 2 /\ Len(Verifier(b)) = 2
      /\ Len(Source(a, s)) = 3 /\ Len(Source(a, "")) = 3
  BY DEF Config, Header, Vectors, Verifier, Source
<1>2. /\ Header(a)[2] = "h" /\ Vectors(a)[2] = "vectors"
      /\ Vectors(b)[2] = "vectors" /\ Verifier(b)[2] = "verify"
  BY DEF Header, Vectors, Verifier
<1>3. /\ Header(a)[1] = a /\ Header(b)[1] = b /\ Vectors(a)[1] = a /\ Vectors(b)[1] = b
      /\ Verifier(a)[1] = a /\ Verifier(b)[1] = b
      /\ Source(a, s)[1] = a /\ Source(b, "")[1] = b
      /\ Source(a, s)[3] = s /\ Source(b, "")[3] = ""
  BY DEF Header, Vectors, Verifier, Source
<1>4. 1 # 2 /\ 1 # 3 /\ 2 # 3
  OBVIOUS
<1>5. "h" # "vectors" /\ "h" # "verify" /\ "vectors" # "verify"
  OBVIOUS
<1>6. Header(a) # Vectors(b) /\ Header(a) # Verifier(b) /\ Vectors(a) # Verifier(b)
  BY <1>2, <1>5
<1>7. {Header(a), Vectors(a), Verifier(a), Source(a, "")} \cap {Config} = {}
  BY <1>1, <1>4
<1>8. /\ Source(a, s) # Header(b) /\ Source(a, s) # Vectors(b) /\ Source(a, s) # Verifier(b)
  BY <1>1, <1>4
<1>9. /\ Header(a) = Header(b) => a = b
      /\ Vectors(a) = Vectors(b) => a = b
      /\ Verifier(a) = Verifier(b) => a = b
      /\ Source(a, s) = Source(b, "") => a = b /\ s = ""
  BY <1>3
<1> QED
  BY <1>6, <1>7, <1>8, <1>9

LEMMA NamesExist ==
  ASSUME NEW a \in Architectures
  PROVE  /\ {Header(a), Vectors(a), Verifier(a), Config} \subseteq FileNames
         /\ \A s \in WeightsSuffixes : Source(a, s) \in FileNames
BY DEF FileNames

-----------------------------------------------------------------------------
(* The types. *)
LEMMA PathExists ==
  ASSUME export_args \in ExportArgs, NEW a \in Architectures
  PROVE  PathOf(a) \in ModelPaths
<1>1. export_args.checkpoint \in {None, Named} /\ export_args.platform \in ExportPlatforms
  BY DEF ExportArgs
<1>2. /\ {Generic, BestPpo, Named} \subseteq ModelPaths
      /\ <<"mlp", export_args.platform>> \in ModelPaths
  BY <1>1 DEF ModelPaths
<1>3. CASE export_args.checkpoint # None
  BY <1>1, <1>2, <1>3 DEF PathOf
<1>4. CASE export_args.checkpoint = None
  <2>1. CASE a = "ppo"
    BY <1>2, <1>4, <2>1 DEF PathOf
  <2>2. CASE a = "mlp"
    BY <1>2, <1>4, <2>2 DEF PathOf
  <2> QED
    BY <2>1, <2>2 DEF Architectures
<1> QED
  BY <1>3, <1>4

LEMMA TypesKept ==
  ASSUME ExportTypes, ExportNext
  PROVE  ExportTypes'
<1>1. CASE TrainModel
  <2>1. trainings' \in Nat
    BY <1>1 DEF TrainModel, ExportTypes
  <2>2. models' \in [ModelPaths -> Checkpoints \cup {None}]
    <3>1. CASE models' = models
      BY <3>1 DEF ExportTypes
    <3>2. CASE models' # models
      <4>1. PICK q \in ModelPaths, n \in ActionSpaces :
              models' = [models EXCEPT ![q] = [id |-> trainings', n_actions |-> n]]
        BY <1>1, <3>2 DEF TrainModel
      <4>2. [id |-> trainings', n_actions |-> n] \in Checkpoints
        BY <2>1, ExportFilesAssumption DEF Checkpoints
      <4> QED
        BY <4>1, <4>2 DEF ExportTypes
    <3> QED
      BY <3>1, <3>2
  <2> QED
    BY <1>1, <2>1, <2>2 DEF TrainModel, ExportTypes, FitsPlatform
<1>2. CASE StartExport
  <2>1. <<export_args'.platform, export_args'.suffix>> \in ExportPlatforms \X WeightsSuffixes
    BY <1>2 DEF StartExport, ExportArgs
  <2> QED
    BY <1>2, <2>1 DEF StartExport, ExportTypes
<1>3. CASE LoadModel
  <2> DEFINE found == models[PathOf(Head(todo))]
  <2>1. CASE step' = "pick"
    BY <1>3, <2>1 DEF LoadModel, End, NextModel, ExportTypes
  <2>2. CASE step' # "pick"
    <3>1. /\ found # None /\ FitsPlatform(found) /\ layers' = found
          /\ Head(todo) \in Architectures /\ todo # <<>>
          /\ UNCHANGED <<export_args, todo, models, files, used, trainings>>
      BY <1>3, <2>2 DEF LoadModel, End, NextModel
    <3>2. found \in Checkpoints
      BY <3>1, PathExists DEF ExportTypes
    <3> QED
      BY <3>1, <3>2 DEF ExportTypes, FitsPlatform
  <2> QED
    BY <2>1, <2>2
<1>4. CASE WriteWeights
  BY <1>4 DEF WriteWeights, ExportTypes, FitsPlatform
<1>5. CASE WriteVectors
  BY <1>5 DEF WriteVectors, ExportTypes, FitsPlatform
<1>6. CASE WriteVerifier
  BY <1>6 DEF WriteVerifier, NextModel, ExportTypes
<1>7. CASE ExportXgboost
  BY <1>7 DEF ExportXgboost, End, NextModel, ExportTypes
<1>8. CASE WriteConfig
  BY <1>8 DEF WriteConfig, End, ExportTypes
<1> QED
  BY <1>1, <1>2, <1>3, <1>4, <1>5, <1>6, <1>7, <1>8 DEF ExportNext

-----------------------------------------------------------------------------
(* The files of one architecture. *)
SameFiles(f, g, b) ==
  \A n \in {Header(b), Source(b, ""), Vectors(b)} : g[n] = f[n]

LEMMA SameFilesAgree ==
  ASSUME NEW f, NEW g, NEW b \in Architectures, NEW p, SameFiles(f, g, b), Consistent(f, b, p)
  PROVE  Consistent(g, b, p)
BY DEF SameFiles, Consistent, Weighted

(* A platform's only exports are those of the running one. *)
LEMMA RunningIsOnly ==
  ASSUME ExportInv, todo # <<>>, NEW p \in ExportPlatforms, OnlyFor(p)
  PROVE  /\ export_args.platform = p /\ export_args.suffix = "" /\ "" \in WeightsSuffixes
         /\ FilesAgree(p) /\ ConfigFits(p)
<1>1. <<export_args.platform, export_args.suffix>> = <<p, "">>
  BY DEF ExportInv, ArgsUsed, OnlyFor
<1>2. export_args.suffix \in WeightsSuffixes
  BY DEF ExportInv, ExportTypes, ExportArgs
<1> QED
  BY <1>1, <1>2 DEF ExportInv

Directory(f) == DOMAIN f = FileNames

(* The weights written for a. *)
AfterWeights(f, a, c) == [f EXCEPT ![Header(a)] = c.n_actions, ![Source(a, "")] = c]

OnlyWeighted(f, g, a, p, c) ==
  /\ Weighted(g, a, p, c) /\ g[Config] = f[Config]
  /\ \A b \in Architectures : b # a => SameFiles(f, g, b) /\ g[Verifier(b)] = f[Verifier(b)]

LEMMA WeightsWritten ==
  ASSUME NEW f, Directory(f), "" \in WeightsSuffixes,
         NEW p, NEW a \in Architectures, NEW c \in Checkpoints, c.n_actions = ActionSpaceSize[p]
  PROVE  OnlyWeighted(f, AfterWeights(f, a, c), a, p, c)
<1> DEFINE g == AfterWeights(f, a, c)
<1>0. g = [f EXCEPT ![Header(a)] = c.n_actions, ![Source(a, "")] = c]
  BY DEF AfterWeights
<1> USE DEF Directory
<1> HIDE DEF g
<1>1. \A b \in Architectures : {Header(b), Source(b, ""), Vectors(b), Verifier(b), Config} \subseteq FileNames
  BY NamesExist
<1>2. Weighted(g, a, p, c)
  <2>1. g[Header(a)] = c.n_actions /\ g[Source(a, "")] = c
    BY <1>0, <1>1, NamesDiffer
  <2> QED
    BY <2>1 DEF Weighted
<1>3. ASSUME NEW b \in Architectures, b # a
      PROVE  SameFiles(f, g, b) /\ g[Verifier(b)] = f[Verifier(b)]
  <2>1. \A n \in {Header(b), Source(b, ""), Vectors(b), Verifier(b)} :
          n # Header(a) /\ n # Source(a, "")
    BY <1>3, NamesDiffer
  <2> QED
    BY <1>0, <1>1, <2>1 DEF SameFiles
<1>4. g[Config] = f[Config]
  BY <1>0, <1>1, NamesDiffer
<1> QED
  BY <1>2, <1>3, <1>4 DEF g, OnlyWeighted

LEMMA WeightsAgree ==
  ASSUME ExportInv, WriteWeights, NEW p \in ExportPlatforms, OnlyFor(p)
  PROVE  FilesAgree(p)' /\ ConfigFits(p)'
<1>1. /\ Head(todo) \in Architectures /\ todo # <<>> /\ layers \in Checkpoints /\ FitsPlatform(layers)
      /\ DOMAIN files = FileNames
  BY DEF ExportInv, ExportTypes, WriteWeights
<1>2. PICK a \in Architectures : a = Head(todo)
  BY <1>1
<1>3. /\ export_args.platform = p /\ export_args.suffix = "" /\ "" \in WeightsSuffixes
      /\ FilesAgree(p) /\ ConfigFits(p)
  BY <1>1, RunningIsOnly
<1>4. PICK g : g = files'
  OBVIOUS
<1>5. PICK c \in Checkpoints : c = layers
  BY <1>1
<1>6. /\ g = AfterWeights(files, a, c)
      /\ step = "weights" /\ step' = "vectors" /\ layers' = c /\ Head(todo') = a
  BY <1>2, <1>3, <1>4, <1>5 DEF WriteWeights, AfterWeights
<1>7. c.n_actions = ActionSpaceSize[p]
  BY <1>1, <1>3, <1>5 DEF FitsPlatform
<1>8. /\ Weighted(g, a, p, c) /\ g[Config] = files[Config]
      /\ \A b \in Architectures : b # a => SameFiles(files, g, b) /\ g[Verifier(b)] = files[Verifier(b)]
  <2>1. OnlyWeighted(files, AfterWeights(files, a, c), a, p, c)
    <3>1. Directory(files) /\ "" \in WeightsSuffixes
      BY <1>1, <1>3 DEF Directory
    <3> QED
      BY <3>1, <1>7, WeightsWritten
  <2> QED
    BY <1>6, <2>1 DEF OnlyWeighted
<1>9. ASSUME NEW b \in Architectures, b # a, g[Verifier(b)] # None
      PROVE  Consistent(g, b, p)
  <2>1. Consistent(files, b, p)
    BY <1>3, <1>6, <1>8, <1>9 DEF FilesAgree, Writing
  <2> QED
    BY <1>8, <1>9, <2>1, SameFilesAgree
<1>10. FilesAgree(p)'
  <2> SUFFICES ASSUME NEW b \in Architectures
               PROVE  /\ step' = "vectors" /\ Head(todo') = b => Weighted(files', b, p, layers')
                      /\ step' = "verify" /\ Head(todo') = b => Consistent(files', b, p)
                      /\ files'[Verifier(b)] # None /\ ~(step' = "vectors" /\ Head(todo') = b)
                           => Consistent(files', b, p)
    BY DEF FilesAgree, Writing
  <2>1. CASE b = a
    BY <1>4, <1>6, <1>8, <2>1
  <2>2. CASE b # a
    BY <1>4, <1>6, <1>9, <2>2
  <2> QED
    BY <2>1, <2>2
<1> QED
  BY <1>3, <1>4, <1>8, <1>10 DEF ConfigFits

(* The vectors written for a. *)
AfterVectors(f, a, c) == [f EXCEPT ![Vectors(a)] = c]

LEMMA VectorsWritten ==
  ASSUME NEW f, Directory(f), "" \in WeightsSuffixes,
         NEW p \in ExportPlatforms, NEW a \in Architectures, NEW c \in Checkpoints,
         Weighted(f, a, p, c)
  PROVE  /\ Consistent(AfterVectors(f, a, c), a, p) /\ AfterVectors(f, a, c)[Config] = f[Config]
         /\ \A b \in Architectures : b # a =>
              /\ SameFiles(f, AfterVectors(f, a, c), b)
              /\ AfterVectors(f, a, c)[Verifier(b)] = f[Verifier(b)]
<1> DEFINE g == AfterVectors(f, a, c)
<1>0. g = [f EXCEPT ![Vectors(a)] = c]
  BY DEF AfterVectors
<1> USE DEF Directory
<1> HIDE DEF g
<1>1. \A b \in Architectures : {Header(b), Source(b, ""), Vectors(b), Verifier(b), Config} \subseteq FileNames
  BY NamesExist
<1>2. Consistent(g, a, p)
  <2>1. g[Header(a)] = f[Header(a)] /\ g[Source(a, "")] = f[Source(a, "")] /\ g[Vectors(a)] = c
    BY <1>0, <1>1, NamesDiffer
  <2> QED
    BY <2>1 DEF Weighted, Consistent
<1>3. ASSUME NEW b \in Architectures, b # a
      PROVE  SameFiles(f, g, b) /\ g[Verifier(b)] = f[Verifier(b)]
  <2>1. \A n \in {Header(b), Source(b, ""), Vectors(b), Verifier(b)} : n # Vectors(a)
    BY <1>3, NamesDiffer
  <2> QED
    BY <1>0, <1>1, <2>1 DEF SameFiles
<1>4. g[Config] = f[Config]
  BY <1>0, <1>1, NamesDiffer
<1> QED
  BY <1>2, <1>3, <1>4 DEF g

LEMMA VectorsAgree ==
  ASSUME ExportInv, WriteVectors, NEW p \in ExportPlatforms, OnlyFor(p)
  PROVE  FilesAgree(p)' /\ ConfigFits(p)'
<1>1. /\ Head(todo) \in Architectures /\ todo # <<>> /\ layers \in Checkpoints
      /\ DOMAIN files = FileNames
  BY DEF ExportInv, ExportTypes, WriteVectors
<1>2. PICK a \in Architectures : a = Head(todo)
  BY <1>1
<1>3. "" \in WeightsSuffixes /\ FilesAgree(p) /\ ConfigFits(p)
  BY <1>1, RunningIsOnly
<1>4. PICK g : g = files'
  OBVIOUS
<1>5. /\ g = AfterVectors(files, a, layers)
      /\ step = "vectors" /\ step' = "verify" /\ Head(todo') = a
  BY <1>2, <1>4 DEF WriteVectors, AfterVectors
<1>6. Weighted(files, a, p, layers)
  BY <1>2, <1>3, <1>5 DEF FilesAgree, Writing
<1>7. /\ Consistent(g, a, p) /\ g[Config] = files[Config]
      /\ \A b \in Architectures : b # a => SameFiles(files, g, b) /\ g[Verifier(b)] = files[Verifier(b)]
  <2>1. /\ Consistent(AfterVectors(files, a, layers), a, p)
        /\ AfterVectors(files, a, layers)[Config] = files[Config]
        /\ \A b \in Architectures : b # a =>
              /\ SameFiles(files, AfterVectors(files, a, layers), b)
              /\ AfterVectors(files, a, layers)[Verifier(b)] = files[Verifier(b)]
    <3>1. Directory(files)
      BY <1>1 DEF Directory
    <3> QED
      BY <3>1, <1>1, <1>3, <1>6, VectorsWritten
  <2> QED
    BY <1>5, <2>1
<1>8. ASSUME NEW b \in Architectures, b # a, g[Verifier(b)] # None
      PROVE  Consistent(g, b, p)
  <2>1. Consistent(files, b, p)
    BY <1>2, <1>3, <1>7, <1>8 DEF FilesAgree, Writing
  <2> QED
    BY <1>7, <1>8, <2>1, SameFilesAgree
<1>9. FilesAgree(p)'
  <2> SUFFICES ASSUME NEW b \in Architectures
               PROVE  /\ step' = "vectors" /\ Head(todo') = b => Weighted(files', b, p, layers')
                      /\ step' = "verify" /\ Head(todo') = b => Consistent(files', b, p)
                      /\ files'[Verifier(b)] # None /\ ~(step' = "vectors" /\ Head(todo') = b)
                           => Consistent(files', b, p)
    BY DEF FilesAgree, Writing
  <2>1. CASE b = a
    BY <1>4, <1>5, <1>7, <2>1
  <2>2. CASE b # a
    BY <1>4, <1>5, <1>8, <2>2
  <2> QED
    BY <2>1, <2>2
<1> QED
  BY <1>3, <1>4, <1>7, <1>9 DEF ConfigFits

LEMMA VerifierAgree ==
  ASSUME ExportInv, WriteVerifier, NEW p \in ExportPlatforms, OnlyFor(p)
  PROVE  FilesAgree(p)' /\ ConfigFits(p)'
<1>1. Head(todo) \in Architectures /\ todo # <<>> /\ DOMAIN files = FileNames
  BY DEF ExportInv, ExportTypes, WriteVerifier
<1>2. PICK a \in Architectures : a = Head(todo)
  BY <1>1
<1>3. "" \in WeightsSuffixes /\ FilesAgree(p) /\ ConfigFits(p)
  BY <1>1, RunningIsOnly
<1>4. PICK g : g = files'
  OBVIOUS
<1>5. g = [files EXCEPT ![Verifier(a)] = a] /\ step = "verify" /\ step' = "pick"
  BY <1>2, <1>4 DEF WriteVerifier, NextModel
<1>6. \A b \in Architectures : {Header(b), Source(b, ""), Vectors(b), Verifier(b), Config} \subseteq FileNames
  BY <1>3, NamesExist
<1>7. \A b \in Architectures : SameFiles(files, g, b) /\ (b # a => g[Verifier(b)] = files[Verifier(b)])
  <2> SUFFICES ASSUME NEW b \in Architectures
               PROVE  SameFiles(files, g, b) /\ (b # a => g[Verifier(b)] = files[Verifier(b)])
    OBVIOUS
  <2>1. \A n \in {Header(b), Source(b, ""), Vectors(b)} : n # Verifier(a)
    BY NamesDiffer
  <2>2. b # a => Verifier(b) # Verifier(a)
    BY NamesDiffer
  <2> QED
    BY <1>1, <1>5, <1>6, <2>1, <2>2 DEF SameFiles
<1>8. g[Config] = files[Config]
  BY <1>1, <1>5, <1>6, NamesDiffer
<1>9. ASSUME NEW b \in Architectures, g[Verifier(b)] # None
      PROVE  Consistent(g, b, p)
  <2>1. Consistent(files, b, p)
    BY <1>2, <1>3, <1>5, <1>7, <1>9 DEF FilesAgree, Writing
  <2> QED
    BY <1>7, <2>1, SameFilesAgree
<1>10. FilesAgree(p)'
  BY <1>4, <1>5, <1>9 DEF FilesAgree, Writing
<1> QED
  BY <1>3, <1>4, <1>8, <1>10 DEF ConfigFits

-----------------------------------------------------------------------------
(* The steps that write no file of a model. *)
LEMMA IdleAgrees ==
  ASSUME NEW p, FilesAgree(p), ConfigFits(p), step # "vectors",
         step' \notin {"vectors", "verify"}, files' = files
  PROVE  FilesAgree(p)' /\ ConfigFits(p)'
BY DEF FilesAgree, ConfigFits, Writing

LEMMA NothingAgrees ==
  ASSUME NEW p, \A n \in FileNames : files'[n] = None, step' = "pick"
  PROVE  FilesAgree(p)' /\ ConfigFits(p)'
<1>1. \A a \in Architectures : files'[Verifier(a)] = None
  BY NamesExist
<1>2. files'[Config] = None
  BY DEF FileNames
<1> QED
  BY <1>1, <1>2 DEF FilesAgree, ConfigFits, Writing

LEMMA ConfigAgrees ==
  ASSUME ExportInv, WriteConfig, NEW p \in ExportPlatforms, OnlyFor(p)
  PROVE  FilesAgree(p)' /\ ConfigFits(p)'
<1>1. /\ step = "pick" /\ step' = "pick" /\ DOMAIN files = FileNames /\ Config \in FileNames
      /\ FilesAgree(p)
  BY DEF ExportInv, ExportTypes, WriteConfig, End, FileNames
<1>2. <<export_args.platform, export_args.suffix>> = <<p, "">>
  BY DEF ExportInv, ArgsUsed, OnlyFor, WriteConfig
<1>20. "" \in WeightsSuffixes
  BY DEF ExportInv, ExportTypes, OnlyFor
<1>3. PICK g : g = files'
  OBVIOUS
<1>4. g = [files EXCEPT ![Config] = ActionSpaceSize[p]]
  BY <1>2, <1>3 DEF WriteConfig
<1>5. g[Config] = ActionSpaceSize[p]
  BY <1>1, <1>4
<1>6. \A b \in Architectures : SameFiles(files, g, b) /\ g[Verifier(b)] = files[Verifier(b)]
  <2> SUFFICES ASSUME NEW b \in Architectures
               PROVE  SameFiles(files, g, b) /\ g[Verifier(b)] = files[Verifier(b)]
    OBVIOUS
  <2>1. \A n \in {Header(b), Source(b, ""), Vectors(b), Verifier(b)} : n # Config
    BY NamesDiffer
  <2> QED
    BY <1>1, <1>20, <1>4, <2>1, NamesExist DEF SameFiles
<1>7. ASSUME NEW b \in Architectures, g[Verifier(b)] # None
      PROVE  Consistent(g, b, p)
  <2>1. Consistent(files, b, p)
    BY <1>1, <1>6, <1>7 DEF FilesAgree, Writing
  <2> QED
    BY <1>6, <2>1, SameFilesAgree
<1>8. FilesAgree(p)'
  BY <1>1, <1>3, <1>7 DEF FilesAgree, Writing
<1> QED
  BY <1>3, <1>5, <1>8 DEF ConfigFits

-----------------------------------------------------------------------------
(* Between exports nothing is half written. *)
LEMMA IdleBetween ==
  ASSUME ExportTypes, export_args = None
  PROVE  todo = <<>> /\ step = "pick"
BY ExportFilesAssumption DEF ExportTypes

LEMMA StartAgrees ==
  ASSUME ExportInv, StartExport, NEW p \in ExportPlatforms, OnlyFor(p)'
  PROVE  FilesAgree(p)' /\ ConfigFits(p)'
<1>1. step = "pick" /\ step' = "pick" /\ files' = files
  BY IdleBetween DEF ExportInv, StartExport
<1>2. used = {} \/ OnlyFor(p)
  BY DEF StartExport, OnlyFor
<1>3. CASE used = {}
  BY <1>1, <1>3, NothingAgrees DEF ExportInv
<1>4. CASE OnlyFor(p)
  BY <1>1, <1>4, IdleAgrees DEF ExportInv
<1> QED
  BY <1>2, <1>3, <1>4

LEMMA ArgsKept ==
  ASSUME ExportInv, ExportNext
  PROVE  ArgsUsed'
<1>1. CASE TrainModel
  BY <1>1 DEF TrainModel, ExportInv, ArgsUsed
<1>2. CASE StartExport
  BY <1>2 DEF StartExport, ArgsUsed
<1>3. CASE LoadModel
  BY <1>3 DEF LoadModel, End, NextModel, ExportInv, ArgsUsed
<1>4. CASE WriteWeights
  BY <1>4 DEF WriteWeights, ExportInv, ArgsUsed
<1>5. CASE WriteVectors
  BY <1>5 DEF WriteVectors, ExportInv, ArgsUsed
<1>6. CASE WriteVerifier
  BY <1>6 DEF WriteVerifier, NextModel, ExportInv, ExportTypes, ArgsUsed
<1>7. CASE ExportXgboost
  BY <1>7 DEF ExportXgboost, End, NextModel, ExportInv, ArgsUsed
<1>8. CASE WriteConfig
  BY <1>8 DEF WriteConfig, End, ArgsUsed
<1> QED
  BY <1>1, <1>2, <1>3, <1>4, <1>5, <1>6, <1>7, <1>8 DEF ExportNext

LEMMA ExportInvKept ==
  ASSUME ExportInv, [ExportNext]_exportVars
  PROVE  ExportInv'
<1>1. CASE UNCHANGED exportVars
  BY <1>1 DEF exportVars, ExportInv, ExportTypes, ArgsUsed, OnlyFor, FilesAgree, ConfigFits,
              Writing, FitsPlatform
<1>2. CASE ExportNext
  <2>1. ExportTypes' /\ ArgsUsed'
    BY <1>2, TypesKept, ArgsKept DEF ExportInv
  <2>2. CASE StartExport
    <3>1. used' # {}
      BY <2>2 DEF StartExport
    <3> QED
      BY <2>1, <2>2, <3>1, StartAgrees DEF ExportInv
  <2>3. CASE TrainModel \/ LoadModel \/ ExportXgboost
    <3>1. /\ files' = files /\ used' = used
          /\ step = "pick" /\ step' \notin {"vectors", "verify"}
      <4>1. CASE TrainModel
        BY <4>1, IdleBetween DEF TrainModel, ExportInv
      <4>2. CASE LoadModel
        BY <4>2 DEF LoadModel, End, NextModel
      <4>3. CASE ExportXgboost
        BY <4>3 DEF ExportXgboost, End, NextModel
      <4> QED
        BY <2>3, <4>1, <4>2, <4>3
    <3>2. ASSUME NEW p \in ExportPlatforms, OnlyFor(p)'
          PROVE  FilesAgree(p)' /\ ConfigFits(p)'
      BY <3>1, <3>2, IdleAgrees DEF ExportInv, OnlyFor
    <3>3. (used = {} => \A n \in FileNames : files[n] = None)'
      BY <3>1 DEF ExportInv
    <3> QED
      BY <2>1, <3>2, <3>3 DEF ExportInv
  <2>4. CASE WriteWeights \/ WriteVectors \/ WriteVerifier \/ WriteConfig
    <3>1. used' = used
      BY <2>4 DEF WriteWeights, WriteVectors, WriteVerifier, WriteConfig
    <3>2. used # {}
      BY <2>4 DEF WriteWeights, WriteVectors, WriteVerifier, WriteConfig, ExportInv, ExportTypes, ArgsUsed
    <3>3. ASSUME NEW p \in ExportPlatforms, OnlyFor(p)'
          PROVE  FilesAgree(p)' /\ ConfigFits(p)'
      <4>1. OnlyFor(p)
        BY <3>1, <3>3 DEF OnlyFor
      <4> QED
        BY <2>4, <4>1, WeightsAgree, VectorsAgree, VerifierAgree, ConfigAgrees
    <3> QED
      BY <2>1, <3>1, <3>2, <3>3 DEF ExportInv
  <2> QED
    BY <1>2, <2>2, <2>3, <2>4 DEF ExportNext
<1> QED
  BY <1>1, <1>2

LEMMA ExportInvInit ==
  ASSUME ExportInit
  PROVE  ExportInv
<1>1. ExportTypes /\ ArgsUsed
  BY DEF ExportInit, ExportTypes, ArgsUsed
<1>2. used = {} /\ \A n \in FileNames : files[n] = None
  BY DEF ExportInit
<1>3. \A p : ~OnlyFor(p)
  BY <1>2 DEF OnlyFor
<1> QED
  BY <1>1, <1>2, <1>3 DEF ExportInv

LEMMA ConsistentPasses ==
  ASSUME NEW p \in ExportPlatforms, NEW a \in Architectures, "" \in WeightsSuffixes,
         files[Config] # None, files[Config] = ActionSpaceSize[p],
         files[Verifier(a)] # None, Consistent(files, a, p)
  PROVE  Passes(a)
<1>1. PICK c : Weighted(files, a, p, c) /\ files[Vectors(a)] = c
  BY DEF Consistent
<1>2. /\ files[Header(a)] = c.n_actions /\ files[Source(a, "")] = c
      /\ c.n_actions \in Nat /\ c \in Checkpoints /\ c.n_actions = ActionSpaceSize[p]
  BY <1>1 DEF Weighted, Checkpoints
<1>3. files[Header(a)] # None /\ files[Source(a, "")] # None
  BY <1>2, ExportFilesAssumption DEF Checkpoints
<1>4. Builds(a)
  BY <1>2, <1>3, NamesExist DEF Builds
<1> QED
  BY <1>1, <1>2, <1>4 DEF Passes

LEMMA ExportInvVerifies ==
  ASSUME ExportInv
  PROVE  ExportedVerifies
<1> SUFFICES ASSUME export_args = None, files[Config] # None,
                    NEW p \in ExportPlatforms, OnlyFor(p),
                    NEW a \in Architectures, files[Verifier(a)] # None
             PROVE  Passes(a)
  BY DEF ExportedVerifies, OnlyFor
<1>1. step = "pick"
  BY IdleBetween DEF ExportInv
<1>2. FilesAgree(p) /\ files[Config] = ActionSpaceSize[p]
  BY DEF ExportInv, ConfigFits
<1>3. "" \in WeightsSuffixes
  BY DEF ExportInv, ExportTypes, OnlyFor
<1>4. Consistent(files, a, p)
  BY <1>1, <1>2 DEF FilesAgree, Writing
<1> QED
  BY <1>2, <1>3, <1>4, ConsistentPasses

(* In a directory used for one platform and without a suffix, everything   *)
(* exported verifies whenever no export is running (main, export_mlp and   *)
(* export_ppo with the files they write). *)
THEOREM ExportsVerify == ExportSpec => []ExportedVerifies
<1>1. ExportSpec => []ExportInv
  BY ExportInvInit, ExportInvKept, PTL DEF ExportSpec
<1> QED
  BY <1>1, ExportInvVerifies, PTL

-----------------------------------------------------------------------------
(* The pairing of Evaluation for any agents, scenarios and seeds.          *)

(* The row an agent's episode gives: since its generator is a fresh one,   *)
(* the arrivals depend on the scenario and the seed only. *)
RowOf(a, s, e) == [agent |-> a, scenario |-> s, seed |-> e, arrivals |-> <<s, Fresh(e)>>]
IsRow(r) == r = RowOf(r.agent, r.scenario, r.seed)

(* One agent's results on one side of a comparison, another's on the other.*)
Fair(c) ==
  \E a, b : \A p \in c.pairs :
    /\ IsRow(p[1]) /\ IsRow(p[2])
    /\ p = <<p[1], p[2]>>
    /\ p[1].agent = a /\ p[2].agent = b
    /\ Joined(p[1], p[2])

EvalInv ==
  /\ \A r \in rows : IsRow(r)
  /\ stage \in {"compare", "done"} => \A r \in results : IsRow(r)
  /\ \A c \in comparisons : Fair(c)

LEMMA FairPairs ==
  ASSUME NEW c, Fair(c)
  PROVE  /\ \A p \in c.pairs : p[1].arrivals = p[2].arrivals
         /\ \A p, q \in c.pairs : p[1] = q[1] <=> p[2] = q[2]
<1>1. PICK a, b : \A p \in c.pairs :
        /\ IsRow(p[1]) /\ IsRow(p[2]) /\ p = <<p[1], p[2]>>
        /\ p[1].agent = a /\ p[2].agent = b /\ Joined(p[1], p[2])
  BY DEF Fair
<1>2. ASSUME NEW p \in c.pairs
      PROVE  /\ p[1] = RowOf(a, p[1].scenario, p[1].seed)
             /\ p[2] = RowOf(b, p[1].scenario, p[1].seed)
  BY <1>1 DEF IsRow, Joined
<1>3. ASSUME NEW p \in c.pairs
      PROVE  p[1].arrivals = p[2].arrivals
  <2>1. \A x, y, z : RowOf(x, y, z).arrivals = <<y, Fresh(z)>>
    BY DEF RowOf
  <2> QED
    BY <1>2, <2>1
<1>4. ASSUME NEW p \in c.pairs, NEW q \in c.pairs, p[1] = q[1]
      PROVE  p[2] = q[2]
  BY <1>2, <1>4
<1>5. ASSUME NEW p \in c.pairs, NEW q \in c.pairs, p[2] = q[2]
      PROVE  p[1] = q[1]
  <2>1. p[2].scenario = p[1].scenario /\ p[2].seed = p[1].seed
    BY <1>1 DEF Joined
  <2>2. q[2].scenario = q[1].scenario /\ q[2].seed = q[1].seed
    BY <1>1 DEF Joined
  <2> QED
    BY <1>2, <1>5, <2>1, <2>2
<1> QED
  BY <1>3, <1>4, <1>5

LEMMA CompareFair ==
  ASSUME \A r \in results : IsRow(r), NEW a, NEW b, NEW s, NEW s2
  PROVE  Fair([agent |-> a, scenario |-> s2, pairs |-> Pairs(a, b, s)])
<1>1. \A p \in Pairs(a, b, s) :
        /\ IsRow(p[1]) /\ IsRow(p[2]) /\ p = <<p[1], p[2]>>
        /\ p[1].agent = a /\ p[2].agent = b /\ Joined(p[1], p[2])
  BY DEF Pairs, Of
<1>2. [agent |-> a, scenario |-> s2, pairs |-> Pairs(a, b, s)].pairs = Pairs(a, b, s)
  OBVIOUS
<1> QED
  BY <1>1, <1>2 DEF Fair

(* What a comparison subtracts are the results of two agents on the same   *)
(* arrivals, each episode once, whichever agents ran before and whichever  *)
(* models are missing (evaluate_agent, paired_comparison). *)
THEOREM ComparisonsFair == EvalSpec => []PairsShareEpisode
<1>1. EvalInit => EvalInv
  BY DEF EvalInit, EvalInv
<1>2. EvalInv /\ [EvalNext]_evalVars => EvalInv'
  <2> SUFFICES ASSUME EvalInv, [EvalNext]_evalVars
               PROVE  EvalInv'
    OBVIOUS
  <2>1. CASE Episode
    <3> DEFINE new == RowOf(agents[at[1]], scenarios[at[2]], base_seed + at[3])
    <3>1. rows' = rows \cup {new}
      BY <2>1 DEF Episode, GeneratorOf, RowOf
    <3>2. IsRow(new)
      BY DEF IsRow, RowOf
    <3>3. \A r \in rows' : IsRow(r)
      BY <3>1, <3>2 DEF EvalInv
    <3> QED
      BY <2>1, <3>3 DEF Episode, EvalInv
  <2>2. CASE Raise
    BY <2>2 DEF Raise, EvalInv
  <2>3. CASE Save
    BY <2>3 DEF Save, EvalInv
  <2>4. CASE Finish
    BY <2>4 DEF Finish, EvalInv
  <2>5. ASSUME NEW a, NEW s, Compare(a, s)
        PROVE  EvalInv'
    <3>1. Fair([agent |-> a, scenario |-> s, pairs |-> Pairs(a, baseline, s)])
      BY <2>5, CompareFair DEF Compare, EvalInv
    <3> QED
      BY <2>5, <3>1 DEF Compare, EvalInv
  <2>6. CASE UNCHANGED evalVars
    BY <2>6 DEF evalVars, EvalInv
  <2> QED
    BY <2>1, <2>2, <2>3, <2>4, <2>5, <2>6 DEF EvalNext
<1>3. EvalInv => PairsShareEpisode
  BY FairPairs DEF EvalInv, PairsShareEpisode
<1> QED
  BY <1>1, <1>2, <1>3, PTL DEF EvalSpec

-----------------------------------------------------------------------------
(* PpoTraining for any number of environments, steps and phases.           *)

LEMMA LargerOfTwo ==
  ASSUME NEW a \in Nat, NEW b \in Nat
  PROVE  Max({a, b}) \in Nat /\ Max({a, b}) \in {a, b} /\ Max({a, b}) >= a /\ Max({a, b}) >= b
<1>1. \E x \in {a, b} : \A y \in {a, b} : x >= y
  OBVIOUS
<1>2. Max({a, b}) \in {a, b} /\ \A y \in {a, b} : Max({a, b}) >= y
  BY <1>1 DEF Max
<1> QED
  BY <1>2

LEMMA NextQuotient ==
  ASSUME NEW k \in Nat, NEW p \in Nat \ {0}
  PROVE  IF (k + 1) % p = 0 THEN (k + 1) \div p = (k \div p) + 1 /\ p * ((k \div p) + 1) = k + 1
         ELSE (k + 1) \div p = k \div p
<1>1. PICK q \in Nat, r \in 0 .. p - 1 : q = k \div p /\ r = k % p /\ k = p * q + r
  BY Quotient
<1> DEFINE j == k + 1
<1> j \in Nat
  OBVIOUS
<1> HIDE DEF j
<1>2. CASE r = p - 1
  <2>1. j = p * (q + 1) + 0 /\ q + 1 \in Nat /\ 0 \in 0 .. p - 1
    BY <1>1, <1>2 DEF j
  <2>2. j \div p = q + 1 /\ j % p = 0
    BY <2>1, QuotientIs
  <2> QED
    BY <1>1, <2>1, <2>2 DEF j
<1>3. CASE r # p - 1
  <2>1. j = p * q + (r + 1) /\ r + 1 \in 0 .. p - 1
    BY <1>1, <1>3 DEF j
  <2>2. j \div p = q /\ j % p = r + 1
    BY <2>1, QuotientIs
  <2> QED
    BY <1>1, <2>1, <2>2 DEF j
<1> QED
  BY <1>2, <1>3

(* After k calls of the callback, the checkpoints are those of every       *)
(* SaveFreq-th call. *)
CheckpointInv ==
  \E k \in Nat :
    /\ num_timesteps = n_envs * k
    /\ checkpoints = [i \in 1 .. k \div SaveFreq |-> n_envs * (SaveFreq * i)]

LEMMA SaveFreqShared ==
  SaveFreq \in Nat \ {0} /\ n_envs * SaveFreq <= Max({save_every, n_envs})
<1> USE PpoAssumption
<1> DEFINE q == save_every \div n_envs
<1>1. q \in Nat /\ n_envs * q <= save_every
  <2>1. PICK r \in 0 .. n_envs - 1 : q \in Nat /\ save_every = n_envs * q + r
    <3>1. /\ q \in Nat /\ save_every % n_envs \in 0 .. n_envs - 1
          /\ save_every = n_envs * q + (save_every % n_envs)
      BY Quotient
    <3> HIDE DEF q
    <3> QED
      BY <3>1, Zenon
  <2> HIDE DEF q
  <2> QED
    BY <2>1
<1>2. SaveFreq \in {q, 1} /\ SaveFreq >= 1 /\ SaveFreq \in Nat
  BY <1>1, LargerOfTwo DEF SaveFreq
<1>3. Max({save_every, n_envs}) \in Nat /\ Max({save_every, n_envs}) >= save_every
      /\ Max({save_every, n_envs}) >= n_envs
  BY LargerOfTwo
<1> HIDE DEF q
<1>4. n_envs * SaveFreq <= save_every \/ n_envs * SaveFreq = n_envs
  BY <1>1, <1>2
<1> QED
  BY <1>1, <1>2, <1>3, <1>4

LEMMA WholeQuotient ==
  ASSUME NEW p \in Nat \ {0}, NEW q \in Nat
  PROVE  (p * q) \div p = q
<1>1. PICK k \in Nat, r \in 0 .. p - 1 : k = p * q + r /\ r = 0
  OBVIOUS
<1>2. k \div p = q
  BY <1>1, QuotientIs
<1> QED
  BY <1>1, <1>2

LEMMA StepKeepsCheckpoints ==
  ASSUME CheckpointInv, VecStep
  PROVE  CheckpointInv'
<1> DEFINE p == SaveFreq
<1>1. p \in Nat \ {0} /\ n_envs \in Nat \ {0}
  BY SaveFreqShared, PpoAssumption
<1>2. PICK k \in Nat : /\ num_timesteps = n_envs * k
                       /\ checkpoints = [i \in 1 .. k \div p |-> n_envs * (p * i)]
  BY DEF CheckpointInv
<1>3. checkpoints' = IF ((num_timesteps + n_envs) \div n_envs) % p = 0
                     THEN Append(checkpoints, num_timesteps + n_envs) ELSE checkpoints
  BY DEF VecStep
<1>4. SaveFreq' = p
  BY DEF SaveFreq
<1> HIDE DEF p
<1>5. num_timesteps + n_envs = n_envs * (k + 1) /\ num_timesteps' = n_envs * (k + 1)
  BY <1>1, <1>2 DEF VecStep
<1>6. (num_timesteps + n_envs) \div n_envs = k + 1
  <2>1. PICK m \in Nat : m = k + 1
    BY <1>1
  <2>2. (n_envs * m) \div n_envs = m
    BY <1>1, WholeQuotient
  <2> QED
    BY <1>5, <2>1, <2>2
<1> DEFINE c(j) == [i \in 1 .. j |-> n_envs * (p * i)]
<1>7. k \div p \in Nat
  BY <1>1, Quotient
<1>8. checkpoints' = c((k + 1) \div p)
  <2>1. CASE (k + 1) % p = 0
    <3>1. (k + 1) \div p = (k \div p) + 1 /\ p * ((k \div p) + 1) = k + 1
      BY <1>1, <2>1, NextQuotient
    <3>2. checkpoints' = Append(c(k \div p), n_envs * (p * ((k \div p) + 1)))
      BY <1>2, <1>3, <1>5, <1>6, <2>1, <3>1
    <3>3. \A j \in Nat : Append(c(j), n_envs * (p * (j + 1))) = c(j + 1)
      OBVIOUS
    <3> HIDE DEF c
    <3> QED
      BY <1>7, <3>1, <3>2, <3>3
  <2>2. CASE (k + 1) % p # 0
    BY <1>1, <1>2, <1>3, <1>6, <2>2, NextQuotient
  <2> QED
    BY <2>1, <2>2
<1> QED
  BY <1>4, <1>5, <1>8 DEF CheckpointInv

LEMMA CheckpointsBound ==
  ASSUME CheckpointInv
  PROVE  CheckpointsInTime
<1> DEFINE p == SaveFreq
           M == Max({save_every, n_envs})
<1>1. p \in Nat \ {0} /\ n_envs \in Nat \ {0} /\ n_envs * p <= M /\ M \in Nat
  BY SaveFreqShared, PpoAssumption, LargerOfTwo
<1>2. PICK k \in Nat : /\ num_timesteps = n_envs * k
                       /\ checkpoints = [i \in 1 .. k \div p |-> n_envs * (p * i)]
  BY DEF CheckpointInv
<1> HIDE DEF p, M
<1>3. PICK q \in Nat, r \in 0 .. p - 1 : q = k \div p /\ k = p * q + r
  BY <1>1, Quotient
<1>4. /\ DOMAIN checkpoints = 1 .. q /\ Len(checkpoints) = q
      /\ \A i \in 1 .. q : checkpoints[i] = n_envs * (p * i)
  BY <1>2, <1>3
<1> DEFINE from(i) == IF i = 1 THEN 0 ELSE checkpoints[i - 1]
           to(i) == IF i \in DOMAIN checkpoints THEN checkpoints[i] ELSE num_timesteps
<1>5. ASSUME NEW i \in 1 .. q + 1
      PROVE  to(i) - from(i) <= M
  <2>1. from(i) = n_envs * (p * (i - 1))
    <3>1. CASE i = 1
      BY <1>1, <3>1
    <3>2. CASE i # 1
      BY <1>3, <1>4, <3>2
    <3> QED
      BY <3>1, <3>2
  <2>2. CASE i \in 1 .. q
    <3>1. to(i) = n_envs * (p * i)
      BY <1>4, <2>2
    <3>2. n_envs * (p * i) = n_envs * (p * (i - 1)) + n_envs * p
      BY <1>1
    <3> HIDE DEF from, to
    <3> QED
      BY <1>1, <2>1, <3>1, <3>2
  <2>3. CASE i = q + 1
    <3>1. to(i) = n_envs * k
      <4>1. i \notin DOMAIN checkpoints
        BY <1>4, <2>3
      <4> QED
        BY <1>2, <4>1
    <3>2. n_envs * k = n_envs * (p * (i - 1)) + n_envs * r
      BY <1>1, <1>3, <2>3
    <3>3. n_envs * r <= n_envs * p
      BY <1>1, TimesMonotone
    <3> HIDE DEF from, to
    <3> QED
      BY <1>1, <2>1, <3>1, <3>2, <3>3
  <2> QED
    BY <2>2, <2>3
<1>6. DOMAIN checkpoints \cup {Len(checkpoints) + 1} = 1 .. q + 1
  BY <1>4
<1> QED
  BY <1>5, <1>6 DEF CheckpointsInTime, M

(* However the steps of the environments and the period divide, no more    *)
(* timesteps than the period, or one step of all environments, pass        *)
(* without a checkpoint (train.py:178-183). *)
THEOREM CheckpointsAreSaved == PpoSpec => []CheckpointsInTime
<1>1. PpoInit => CheckpointInv
  <2> SUFFICES ASSUME PpoInit PROVE CheckpointInv
    OBVIOUS
  <2>1. 0 \div SaveFreq = 0
    BY SaveFreqShared
  <2>2. num_timesteps = n_envs * 0 /\ checkpoints = [i \in 1 .. 0 |-> n_envs * (SaveFreq * i)]
    BY PpoAssumption DEF PpoInit
  <2> QED
    BY <2>1, <2>2 DEF CheckpointInv
<1>2. CheckpointInv /\ [PpoNext]_ppoVars => CheckpointInv'
  <2> SUFFICES ASSUME CheckpointInv, [PpoNext]_ppoVars
               PROVE  CheckpointInv'
    OBVIOUS
  <2>1. CASE VecStep
    BY <2>1, StepKeepsCheckpoints
  <2>2. CASE RolloutEnd \/ UNCHANGED ppoVars
    BY <2>2 DEF RolloutEnd, ppoVars, CheckpointInv, SaveFreq
  <2> QED
    BY <2>1, <2>2 DEF PpoNext
<1> QED
  BY <1>1, <1>2, CheckpointsBound, PTL DEF PpoSpec

-----------------------------------------------------------------------------
(* The folding of the batch norms, for layers of any sizes and weights.    *)

LEMMA ProductsAreIntegers ==
  ASSUME NEW a \in Int, NEW b \in Int, NEW c \in Int, NEW d \in Int
  PROVE  /\ a * b \in Int /\ a * d \in Int /\ (a * b) * c \in Int /\ b * c + d \in Int
         /\ a * (b * c + d) = (a * b) * c + a * d
  OBVIOUS

(* The inner product is an integer. *)
LEMMA DotOfIntegers ==
  ASSUME NEW n \in Nat, NEW u \in [1 .. n -> Int], NEW v \in [1 .. n -> Int]
  PROVE  Dot(u, v) \in Int
<1> DEFINE F == [i \in 1 .. n |-> u[i] * v[i]]
<1>1. \A i \in 1 .. n : F[i] \in Int
  BY ProductsAreIntegers
<1>2. IsFiniteSet(1 .. n)
  BY FS_Interval
<1>3. Dot(u, v) = TotalOf(F, 1 .. n)
  BY DEF Dot
<1> HIDE DEF F
<1> QED
  BY <1>1, <1>2, <1>3, TotalOfIntegers

(* What the layers are given and give. *)
LEMMA LayerTypes ==
  ASSUME NEW n \in Nat \ {0}, NEW m \in Nat \ {0}, NEW l \in Linear(n, m),
         NEW x \in [1 .. n -> Int]
  PROVE  /\ ApplyLinear(l, x) \in [1 .. m -> Int]
         /\ ApplyReLU(x) \in [1 .. n -> Int]
         /\ \A k \in BatchNorm(n) : ApplyNorm(k, x) \in [1 .. n -> Int]
<1>1. l.W \in [1 .. m -> [1 .. n -> Int]] /\ l.b \in [1 .. m -> Int]
  BY DEF Linear
<1>2. ASSUME NEW i \in 1 .. m PROVE Dot(l.W[i], x) + l.b[i] \in Int
  <2>1. Dot(l.W[i], x) \in Int /\ l.b[i] \in Int
    BY <1>1, DotOfIntegers
  <2> QED
    BY <2>1
<1>3. ASSUME NEW k \in BatchNorm(n), NEW i \in 1 .. n PROVE k.scale[i] * x[i] + k.shift[i] \in Int
  <2>1. k.scale[i] \in Int /\ x[i] \in Int /\ k.shift[i] \in Int
    BY DEF BatchNorm
  <2> QED
    BY <2>1, ProductsAreIntegers
<1>4. ApplyLinear(l, x) \in [1 .. m -> Int]
  BY <1>1, <1>2 DEF ApplyLinear
<1>5. ApplyReLU(x) \in [1 .. n -> Int]
  BY DEF ApplyReLU
<1>6. ASSUME NEW k \in BatchNorm(n) PROVE ApplyNorm(k, x) \in [1 .. n -> Int]
  BY <1>3 DEF ApplyNorm
<1> QED
  BY <1>4, <1>5, <1>6

(* A folded layer does what the norm and the layer did one after the other.*)
LEMMA FoldedLayerSame ==
  ASSUME NEW n \in Nat \ {0}, NEW m \in Nat \ {0}, NEW l \in Linear(n, m), NEW k \in BatchNorm(n),
         NEW x \in [1 .. n -> Int]
  PROVE  ApplyLinear(FoldIntoNextLinear(k, l), x) = ApplyLinear(l, ApplyNorm(k, x))
<1> DEFINE f == FoldIntoNextLinear(k, l)
<1>1. /\ l.W \in [1 .. m -> [1 .. n -> Int]] /\ l.b \in [1 .. m -> Int]
      /\ k.scale \in [1 .. n -> Int] /\ k.shift \in [1 .. n -> Int]
  BY DEF Linear, BatchNorm
<1>2. /\ f.W = [i \in 1 .. m |-> [j \in 1 .. n |-> l.W[i][j] * k.scale[j]]]
      /\ f.b = [i \in 1 .. m |-> Dot(l.W[i], k.shift) + l.b[i]]
  BY <1>1 DEF FoldIntoNextLinear
<1>3. ApplyNorm(k, x) = [j \in 1 .. n |-> k.scale[j] * x[j] + k.shift[j]]
  BY DEF ApplyNorm
<1>4. ASSUME NEW i \in 1 .. m
      PROVE  Dot(f.W[i], x) + f.b[i] = Dot(l.W[i], ApplyNorm(k, x)) + l.b[i]
  <2>1. l.W[i] \in [1 .. n -> Int] /\ l.b[i] \in Int
    BY <1>1
  <2>2. f.W[i] = [j \in 1 .. n |-> l.W[i][j] * k.scale[j]]
        /\ f.b[i] = Dot(l.W[i], k.shift) + l.b[i]
    BY <1>2
  <2> HIDE DEF f
  <2>3. f.W[i] \in [1 .. n -> Int] /\ ApplyNorm(k, x) \in [1 .. n -> Int]
    <3>1. \A j \in 1 .. n : l.W[i][j] * k.scale[j] \in Int
      BY <1>1, <2>1, ProductsAreIntegers
    <3>2. ApplyNorm(k, x) \in [1 .. n -> Int]
      BY LayerTypes
    <3> QED
      BY <2>2, <3>1, <3>2
  <2>4. Dot(l.W[i], ApplyNorm(k, x)) = Dot(f.W[i], x) + Dot(l.W[i], k.shift)
    <3>1. \A j \in 1 .. n : f.W[i][j] = l.W[i][j] * k.scale[j]
                          /\ ApplyNorm(k, x)[j] = k.scale[j] * x[j] + k.shift[j]
      BY <1>3, <2>2
    <3> DEFINE F == [j \in 1 .. n |-> l.W[i][j] * ApplyNorm(k, x)[j]]
               G == [j \in 1 .. n |-> f.W[i][j] * x[j]]
               H == [j \in 1 .. n |-> l.W[i][j] * k.shift[j]]
    <3>2. ASSUME NEW j \in 1 .. n PROVE G[j] \in Int /\ H[j] \in Int /\ F[j] = G[j] + H[j]
      <4> DEFINE a == l.W[i][j]
                 b == k.scale[j]
                 c == x[j]
                 d == k.shift[j]
      <4>1. a \in Int /\ b \in Int /\ c \in Int /\ d \in Int
        BY <1>1, <2>1
      <4>2. F[j] = a * (b * c + d) /\ G[j] = (a * b) * c /\ H[j] = a * d
        BY <3>1
      <4> HIDE DEF F, G, H, a, b, c, d
      <4>3. a * d \in Int /\ (a * b) * c \in Int /\ a * (b * c + d) = (a * b) * c + a * d
        BY <4>1, ProductsAreIntegers
      <4> QED
        BY <4>2, <4>3
    <3>3. /\ Dot(l.W[i], ApplyNorm(k, x)) = TotalOf(F, 1 .. n)
          /\ Dot(f.W[i], x) = TotalOf(G, 1 .. n) /\ Dot(l.W[i], k.shift) = TotalOf(H, 1 .. n)
      BY <2>1, <2>3 DEF Dot
    <3> HIDE DEF F, G, H
    <3>4. ASSUME NEW D, D = 1 .. n PROVE TotalOf(F, D) = TotalOf(G, D) + TotalOf(H, D)
      <4>1. IsFiniteSet(D)
        BY <3>4, FS_Interval
      <4>2. \A j \in D : G[j] \in Int /\ H[j] \in Int /\ F[j] = G[j] + H[j]
        BY <3>2, <3>4
      <4> QED
        BY <4>1, <4>2, TotalAdds
    <3> QED
      BY <3>3, <3>4
  <2>5. Dot(f.W[i], x) \in Int /\ Dot(l.W[i], k.shift) \in Int
    BY <1>1, <2>1, <2>3, DotOfIntegers
  <2> QED
    BY <2>1, <2>2, <2>4, <2>5
<1> HIDE DEF f
<1>5. DOMAIN f.W = 1 .. m /\ DOMAIN l.W = 1 .. m
  BY <1>1, <1>2
<1>6. ApplyLinear(f, x) = ApplyLinear(l, ApplyNorm(k, x))
  BY <1>4, <1>5 DEF ApplyLinear
<1> QED
  BY <1>6 DEF f

(* A forward pass is the composition of its layers: the recursive functions*)
(* of the passes exist, so their definitions can be unfolded. *)
Layered(x, k, f) == f = [i \in 0 .. k |-> IF i = 0 THEN x ELSE Apply(f[i - 1], network[i])]
LayeredFolded(x, k, f) == f = [i \in 0 .. k |-> IF i = 0 THEN x ELSE ApplyFolded(f[i - 1], i)]

LEMMA PassExists ==
  ASSUME NEW x, NEW n \in Nat
  PROVE  \E f : Layered(x, n, f)
<1> DEFINE T == {k \in Nat : ~ \E f : Layered(x, k, f)}
<1>1. SUFFICES ASSUME T # {} PROVE FALSE
  OBVIOUS
<1>2. PICK k \in T : \A j \in T : k <= j
  <2>1. T \subseteq Nat
    OBVIOUS
  <2> HIDE DEF T
  <2> QED
    BY <1>1, <2>1, SmallestNumber
<1>3. CASE k = 0
  <2> DEFINE f == [i \in 0 .. 0 |-> x]
  <2>1. Layered(x, 0, f)
    BY DEF Layered
  <2> QED
    BY <1>3, <2>1
<1>4. CASE k # 0
  <2>1. k \in Nat /\ k - 1 \in Nat /\ k - 1 \notin T
    <3>1. k \in Nat
      OBVIOUS
    <3> HIDE DEF T
    <3> QED
      BY <1>2, <1>4, <3>1
  <2>2. PICK g : Layered(x, k - 1, g)
    BY <2>1
  <2>3. \A i \in 0 .. k - 1 : g[i] = IF i = 0 THEN x ELSE Apply(g[i - 1], network[i])
    BY <2>2 DEF Layered
  <2> k \in Nat
    BY <2>1
  <2> HIDE DEF T
  <2> DEFINE f == [i \in 0 .. k |-> IF i = 0 THEN x ELSE Apply(g[i - 1], network[i])]
  <2>4. \A i \in 0 .. k - 1 : f[i] = g[i]
    BY <2>3
  <2>5. \A i \in 0 .. k : i # 0 => i - 1 \in 0 .. k - 1
    OBVIOUS
  <2>6. \A i \in 0 .. k : i # 0 => f[i - 1] = g[i - 1]
    BY <2>4, <2>5
  <2>7. Layered(x, k, f)
    BY <2>6 DEF Layered
  <2> QED
    BY <2>1, <2>7 DEF T
<1> QED
  BY <1>3, <1>4

LEMMA FoldedPassExists ==
  ASSUME NEW x, NEW n \in Nat
  PROVE  \E f : LayeredFolded(x, n, f)
<1> DEFINE T == {k \in Nat : ~ \E f : LayeredFolded(x, k, f)}
<1>1. SUFFICES ASSUME T # {} PROVE FALSE
  OBVIOUS
<1>2. PICK k \in T : \A j \in T : k <= j
  <2>1. T \subseteq Nat
    OBVIOUS
  <2> HIDE DEF T
  <2> QED
    BY <1>1, <2>1, SmallestNumber
<1>3. CASE k = 0
  <2> DEFINE f == [i \in 0 .. 0 |-> x]
  <2>1. LayeredFolded(x, 0, f)
    BY DEF LayeredFolded
  <2> QED
    BY <1>3, <2>1
<1>4. CASE k # 0
  <2>1. k \in Nat /\ k - 1 \in Nat /\ k - 1 \notin T
    <3>1. k \in Nat
      OBVIOUS
    <3> HIDE DEF T
    <3> QED
      BY <1>2, <1>4, <3>1
  <2>2. PICK g : LayeredFolded(x, k - 1, g)
    BY <2>1
  <2>3. \A i \in 0 .. k - 1 : g[i] = IF i = 0 THEN x ELSE ApplyFolded(g[i - 1], i)
    BY <2>2 DEF LayeredFolded
  <2> k \in Nat
    BY <2>1
  <2> HIDE DEF T
  <2> DEFINE f == [i \in 0 .. k |-> IF i = 0 THEN x ELSE ApplyFolded(g[i - 1], i)]
  <2>4. \A i \in 0 .. k - 1 : f[i] = g[i]
    BY <2>3
  <2>5. \A i \in 0 .. k : i # 0 => i - 1 \in 0 .. k - 1
    OBVIOUS
  <2>6. \A i \in 0 .. k : i # 0 => f[i - 1] = g[i - 1]
    BY <2>4, <2>5
  <2>7. LayeredFolded(x, k, f)
    BY <2>6 DEF LayeredFolded
  <2> QED
    BY <2>1, <2>7 DEF T
<1> QED
  BY <1>3, <1>4

LEMMA ForwardPasses ==
  ASSUME NEW x, NEW n \in Nat, Len(network) = n
  PROVE  \E f : Layered(x, n, f) /\ Forward(x) = f[n]
<1> DEFINE f == CHOOSE f : Layered(x, n, f)
<1>1. Layered(x, n, f)
  BY PassExists
<1>2. Forward(x) = f[n]
  BY DEF Forward, Layered
<1> QED
  BY <1>1, <1>2

LEMMA FoldedForwardPasses ==
  ASSUME NEW x, NEW n \in Nat, Len(folded) = n
  PROVE  \E f : LayeredFolded(x, n, f) /\ FoldedForward(x) = f[n]
<1> DEFINE f == CHOOSE f : LayeredFolded(x, n, f)
<1>1. LayeredFolded(x, n, f)
  BY FoldedPassExists
<1>2. FoldedForward(x) = f[n]
  BY DEF FoldedForward, LayeredFolded
<1> QED
  BY <1>1, <1>2

(* The network is built as SchedulerMLP.__init__ does, and what is folded  *)
(* is this network. *)
FoldInv ==
  /\ \E l0 \in Linear(n_features, hidden1), n0 \in BatchNorm(hidden1),
        l1 \in Linear(hidden1, hidden2), n1 \in BatchNorm(hidden2),
        l2 \in Linear(hidden2, hidden3), n2 \in BatchNorm(hidden3),
        l3 \in Linear(hidden3, n_actions) :
       network = Sequential(l0, n0, l1, n1, l2, n2, l3)
  /\ folded \in {<<>>, FoldedLayers}

LEMMA LayerApplies ==
  ASSUME NEW l, NEW x
  PROVE  /\ Apply(x, [l |-> l]) = ApplyLinear(l, x)
         /\ Apply(x, [n |-> l]) = ApplyNorm(l, x)
         /\ Apply(x, [k |-> ReLU]) = ApplyReLU(x)
         /\ Apply(x, [k |-> Dropout]) = x
<1>1. Apply(x, [l |-> l]) = ApplyLinear(l, x)
  BY DEF Apply
<1>2. Apply(x, [n |-> l]) = ApplyNorm(l, x)
  BY DEF Apply
<1>3. Apply(x, [k |-> ReLU]) = ApplyReLU(x)
  BY DEF Apply
<1>4. Apply(x, [k |-> Dropout]) = x
  BY DEF Apply, ReLU, Dropout
<1> QED
  BY <1>1, <1>2, <1>3, <1>4

LEMMA FoldedSame ==
  ASSUME NEW l0 \in Linear(n_features, hidden1), NEW n0 \in BatchNorm(hidden1),
         NEW l1 \in Linear(hidden1, hidden2), NEW n1 \in BatchNorm(hidden2),
         NEW l2 \in Linear(hidden2, hidden3), NEW n2 \in BatchNorm(hidden3),
         NEW l3 \in Linear(hidden3, n_actions),
         network = Sequential(l0, n0, l1, n1, l2, n2, l3), folded = FoldedLayers,
         NEW x \in [1 .. n_features -> Int]
  PROVE  FoldedForward(x) = Forward(x)
<1> USE FoldAssumption
<1>1. /\ Len(network) = 12
      /\ network[1] = [l |-> l0] /\ network[2] = [k |-> ReLU] /\ network[3] = [n |-> n0]
      /\ network[4] = [k |-> Dropout]
      /\ network[5] = [l |-> l1] /\ network[6] = [k |-> ReLU] /\ network[7] = [n |-> n1]
      /\ network[8] = [k |-> Dropout]
      /\ network[9] = [l |-> l2] /\ network[10] = [k |-> ReLU] /\ network[11] = [n |-> n2]
      /\ network[12] = [l |-> l3]
  BY DEF Sequential
<1>2. /\ Len(folded) = 4 /\ folded[1] = l0 /\ folded[2] = FoldIntoNextLinear(n0, l1)
      /\ folded[3] = FoldIntoNextLinear(n1, l2) /\ folded[4] = FoldIntoNextLinear(n2, l3)
  <2>1. /\ At(0).l = l0 /\ At(2).n = n0 /\ At(4).l = l1 /\ At(6).n = n1
        /\ At(8).l = l2 /\ At(10).n = n2 /\ At(11).l = l3
    BY <1>1 DEF At
  <2>2. folded = <<l0, FoldIntoNextLinear(n0, l1), FoldIntoNextLinear(n1, l2),
                   FoldIntoNextLinear(n2, l3)>>
    BY <2>1, Zenon DEF FoldedLayers
  <2> QED
    BY <2>2
<1>3. PICK f : Layered(x, 12, f) /\ Forward(x) = f[12]
  BY <1>1, ForwardPasses
<1>4. PICK g : LayeredFolded(x, 4, g) /\ FoldedForward(x) = g[4]
  BY <1>2, FoldedForwardPasses
<1>5. f[0] = x /\ \A i \in 1 .. 12 : f[i] = Apply(f[i - 1], network[i])
  BY <1>3 DEF Layered
<1>6. g[0] = x /\ \A i \in 1 .. 4 : g[i] = ApplyFolded(g[i - 1], i)
  BY <1>4 DEF LayeredFolded
<1> DEFINE h1 == ApplyReLU(ApplyLinear(l0, x))
           h2 == ApplyReLU(ApplyLinear(l1, ApplyNorm(n0, h1)))
           h3 == ApplyReLU(ApplyLinear(l2, ApplyNorm(n1, h2)))
           out == ApplyLinear(l3, ApplyNorm(n2, h3))
<1>7. f[2] = h1
  <2>1. f[1] = Apply(x, [l |-> l0]) /\ f[2] = Apply(f[1], [k |-> ReLU])
    BY <1>1, <1>5
  <2>2. f[1] = ApplyLinear(l0, x) /\ f[2] = ApplyReLU(f[1])
    BY <2>1, LayerApplies
  <2> QED
    BY <2>2
<1>8. f[6] = h2
  <2>1. /\ f[3] = Apply(f[2], [n |-> n0]) /\ f[4] = Apply(f[3], [k |-> Dropout])
        /\ f[5] = Apply(f[4], [l |-> l1]) /\ f[6] = Apply(f[5], [k |-> ReLU])
    BY <1>1, <1>5
  <2>2. /\ f[3] = ApplyNorm(n0, f[2]) /\ f[4] = f[3]
        /\ f[5] = ApplyLinear(l1, f[4]) /\ f[6] = ApplyReLU(f[5])
    BY <2>1, LayerApplies
  <2> QED
    BY <1>7, <2>2
<1>9. f[10] = h3
  <2>1. /\ f[7] = Apply(f[6], [n |-> n1]) /\ f[8] = Apply(f[7], [k |-> Dropout])
        /\ f[9] = Apply(f[8], [l |-> l2]) /\ f[10] = Apply(f[9], [k |-> ReLU])
    BY <1>1, <1>5
  <2>2. /\ f[7] = ApplyNorm(n1, f[6]) /\ f[8] = f[7]
        /\ f[9] = ApplyLinear(l2, f[8]) /\ f[10] = ApplyReLU(f[9])
    BY <2>1, LayerApplies
  <2> QED
    BY <1>8, <2>2
<1>10. f[12] = out
  <2>1. f[11] = Apply(f[10], [n |-> n2]) /\ f[12] = Apply(f[11], [l |-> l3])
    BY <1>1, <1>5
  <2>2. f[11] = ApplyNorm(n2, f[10]) /\ f[12] = ApplyLinear(l3, f[11])
    BY <2>1, LayerApplies
  <2> QED
    BY <1>9, <2>2
<1>11. h1 \in [1 .. hidden1 -> Int]
  BY LayerTypes
<1>12. h2 \in [1 .. hidden2 -> Int]
  <2> HIDE DEF h1
  <2>1. ApplyNorm(n0, h1) \in [1 .. hidden1 -> Int]
    BY <1>11, LayerTypes
  <2>2. ApplyLinear(l1, ApplyNorm(n0, h1)) \in [1 .. hidden2 -> Int]
    BY <2>1, LayerTypes
  <2> QED
    BY <2>2, LayerTypes
<1>13. h3 \in [1 .. hidden3 -> Int]
  <2> HIDE DEF h2
  <2>1. ApplyNorm(n1, h2) \in [1 .. hidden2 -> Int]
    BY <1>12, LayerTypes
  <2>2. ApplyLinear(l2, ApplyNorm(n1, h2)) \in [1 .. hidden3 -> Int]
    BY <2>1, LayerTypes
  <2> QED
    BY <2>2, LayerTypes
<1>14. /\ g[1] = ApplyReLU(ApplyLinear(folded[1], g[0]))
       /\ g[2] = ApplyReLU(ApplyLinear(folded[2], g[1]))
       /\ g[3] = ApplyReLU(ApplyLinear(folded[3], g[2]))
       /\ g[4] = ApplyLinear(folded[4], g[3])
  <2>1. /\ g[1] = ApplyFolded(g[0], 1) /\ g[2] = ApplyFolded(g[1], 2)
        /\ g[3] = ApplyFolded(g[2], 3) /\ g[4] = ApplyFolded(g[3], 4)
    BY <1>6
  <2> QED
    BY <1>2, <2>1 DEF ApplyFolded
<1> HIDE DEF h1, h2, h3, out
<1>15. g[1] = h1
  BY <1>2, <1>6, <1>14 DEF h1
<1>16. g[2] = h2
  <2>1. ApplyLinear(folded[2], h1) = ApplyLinear(l1, ApplyNorm(n0, h1))
    BY <1>2, <1>11, FoldedLayerSame
  <2> QED
    BY <1>14, <1>15, <2>1 DEF h2
<1>17. g[3] = h3
  <2>1. ApplyLinear(folded[3], h2) = ApplyLinear(l2, ApplyNorm(n1, h2))
    BY <1>2, <1>12, FoldedLayerSame
  <2> QED
    BY <1>14, <1>16, <2>1 DEF h3
<1>18. g[4] = out
  <2>1. ApplyLinear(folded[4], h3) = ApplyLinear(l3, ApplyNorm(n2, h3))
    BY <1>2, <1>13, FoldedLayerSame
  <2> QED
    BY <1>14, <1>17, <2>1 DEF out
<1> QED
  BY <1>3, <1>4, <1>10, <1>18

(* The exported layers compute what the trained network does, for layers   *)
(* of any sizes and integer weights, and scales of any sign                *)
(* (fold_mlp_batchnorms, verify_bn_folding). *)
THEOREM NetworkFolds == FoldSpec => []FoldingIsExact
<1>1. FoldInit => FoldInv
  BY DEF FoldInit, FoldInv
<1>2. FoldInv /\ [FoldNext]_foldVars => FoldInv'
  <2> SUFFICES ASSUME FoldInv, [FoldNext]_foldVars PROVE FoldInv'
    OBVIOUS
  <2>1. network' = network /\ FoldedLayers' = FoldedLayers
    BY DEF FoldNext, Fold, foldVars, FoldedLayers, At
  <2>2. folded' \in {<<>>, FoldedLayers}
    BY DEF FoldNext, Fold, foldVars, FoldInv
  <2> QED
    BY <2>1, <2>2 DEF FoldInv
<1>3. FoldInv => FoldingIsExact
  <2> SUFFICES ASSUME FoldInv, folded # <<>>, NEW x \in States
               PROVE  FoldedForward(x) = Forward(x)
    BY DEF FoldingIsExact
  <2>1. x \in [1 .. n_features -> Int] /\ folded = FoldedLayers
    BY FoldAssumption DEF FoldInv
  <2> QED
    BY <2>1, FoldedSame DEF FoldInv
<1> QED
  BY <1>1, <1>2, <1>3, PTL DEF FoldSpec

-----------------------------------------------------------------------------
(* The exported cascade predicts what the trained one predicts.            *)

(* A node that _flatten_tree appends. *)
FlatNode == [feature_idx : Int, threshold : Int, leaf_value : Int,
             left_child : Nat, right_child : Nat]

(* A set of trees has a lowest one. *)
LEMMA LowestTree ==
  ASSUME NEW T, T \subseteq Trees, T # {}
  PROVE  \E t \in T : \A u \in T : Height[t] <= Height[u]
<1> DEFINE N == {Height[t] : t \in T}
<1>1. N \subseteq Nat /\ N # {}
  BY TreesAssumption
<1> HIDE DEF N
<1>2. PICK h \in N : \A k \in N : h <= k
  BY <1>1, SmallestNumber
<1>3. PICK t \in T : h = Height[t]
  BY <1>2 DEF N
<1>4. \A u \in T : Height[u] \in N
  BY DEF N
<1> QED
  BY <1>2, <1>3, <1>4

LEMMA LeafOrNode ==
  ASSUME NEW t \in Trees
  PROVE  /\ Height[t] \in Nat
         /\ IsLeaf(t) => t.leaf \in Int
         /\ ~ IsLeaf(t) => /\ t.split \in Nat /\ t.condition \in Int
                           /\ t.yes \in Trees /\ Height[t.yes] < Height[t]
                           /\ t.no \in Trees /\ Height[t.no] < Height[t]
BY TreesAssumption

(* The value of a tree is the value of the child that x goes to. *)
Child(t, x) == IF x[t.split] < t.condition THEN t.yes ELSE t.no
LeafStep(f, t, x) == IF IsLeaf(t) THEN t.leaf ELSE f[Child(t, x)]
LeafValues(f, x) == f = [t \in Trees |-> LeafStep(f, t, x)]

LEMMA LeafDef ==
  ASSUME NEW tree, NEW x
  PROVE  Leaf(tree, x) = (CHOOSE f : LeafValues(f, x))[tree]
BY DEF Leaf, LeafValues, LeafStep, Child

LEMMA LeafValuesExist ==
  ASSUME NEW x
  PROVE  \E f : LeafValues(f, x)
<1> DEFINE F == [p \in Trees \X [Trees -> Int] |-> LeafStep(p[2], p[1], x)]
<1>1. ASSUME NEW t \in Trees, ~ IsLeaf(t)
      PROVE  Child(t, x) \in Trees /\ Height[Child(t, x)] < Height[t]
  BY <1>1, LeafOrNode DEF Child
<1>2. ASSUME NEW t \in Trees, NEW g \in [Trees -> Int]
      PROVE  LeafStep(g, t, x) \in Int
  BY <1>1, <1>2, LeafOrNode DEF LeafStep
<1>3. F \in [Trees \X [Trees -> Int] -> Int]
  BY <1>2
<1>4. \A t \in Trees : \A g \in [Trees -> Int] : F[<<t, g>>] = LeafStep(g, t, x)
  OBVIOUS
<1> HIDE DEF F
<1>5. LooksBelow(Trees, Int, Height, F)
  <2> SUFFICES ASSUME NEW t \in Trees, NEW g \in [Trees -> Int], NEW h \in [Trees -> Int],
                      \A e \in Trees : Height[e] < Height[t] => g[e] = h[e]
               PROVE  F[<<t, g>>] = F[<<t, h>>]
    BY Zenon DEF LooksBelow
  <2>1. LeafStep(g, t, x) = LeafStep(h, t, x)
    BY <1>1 DEF LeafStep
  <2> QED
    BY <1>4, <2>1
<1>6. PICK f \in [Trees -> Int] : \A t \in Trees : f[t] = F[<<t, f>>]
  <2>1. IsRecursion(Trees, Int, Height, F)
    BY <1>3, <1>5, TreesAssumption DEF IsRecursion
  <2> QED
    BY <2>1, RecursionExists
<1>7. \A t \in Trees : f[t] = LeafStep(f, t, x)
  BY <1>4, <1>6
<1> QED
  BY <1>7 DEF LeafValues

LEMMA LeafIs ==
  ASSUME NEW x, NEW tree \in Trees
  PROVE  /\ Leaf(tree, x) \in Int
         /\ IsLeaf(tree) => Leaf(tree, x) = tree.leaf
         /\ ~ IsLeaf(tree) => Leaf(tree, x) = Leaf(Child(tree, x), x)
<1> DEFINE f == CHOOSE f : LeafValues(f, x)
<1>1. LeafValues(f, x)
  BY LeafValuesExist
<1>2. \A t : Leaf(t, x) = f[t]
  BY LeafDef
<1> HIDE DEF f
<1>3. \A t \in Trees : f[t] = LeafStep(f, t, x)
  BY <1>1 DEF LeafValues
<1> DEFINE T == {t \in Trees : f[t] \notin Int}
<1>4. T = {}
  <2>1. SUFFICES ASSUME T # {} PROVE FALSE
    OBVIOUS
  <2>2. PICK t \in T : \A u \in T : Height[t] <= Height[u]
    <3>1. T \subseteq Trees
      OBVIOUS
    <3> HIDE DEF T
    <3> QED
      BY <2>1, <3>1, LowestTree
  <2>3. t \in Trees /\ f[t] \notin Int /\ f[t] = LeafStep(f, t, x)
    BY <1>3
  <2>4. ~ IsLeaf(t) /\ f[t] = f[Child(t, x)]
    BY <2>3, LeafOrNode DEF LeafStep
  <2>5. /\ Child(t, x) \in Trees /\ Height[Child(t, x)] < Height[t]
        /\ Height[t] \in Nat /\ Height[Child(t, x)] \in Nat
    BY <2>3, <2>4, LeafOrNode DEF Child
  <2>6. Child(t, x) \notin T
    BY <2>2, <2>5
  <2> QED
    BY <2>3, <2>4, <2>5, <2>6
<1> QED
  BY <1>2, <1>3, <1>4 DEF LeafStep

(* The nodes of a tree: its root's, and those of its children behind it.   *)
FlatRoot(t, pos, size) ==
  [feature_idx |-> t.split, threshold |-> t.condition, leaf_value |-> 0,
   left_child |-> pos + 1, right_child |-> pos + 1 + size]
FlatStep(f, t, pos) ==
  IF IsLeaf(t) THEN <<LeafNode(t.leaf)>>
  ELSE <<FlatRoot(t, pos, Len(f[t.yes][pos + 1]))>> \o f[t.yes][pos + 1]
         \o f[t.no][pos + 1 + Len(f[t.yes][pos + 1])]
FlatTrees(f) == f = [t \in Trees |-> [pos \in Nat |-> FlatStep(f, t, pos)]]

LEMMA FlattenDef == Flatten = CHOOSE f : FlatTrees(f)
BY DEF Flatten, FlatTrees, FlatStep, FlatRoot

LEMMA FlatStepType ==
  ASSUME NEW t \in Trees, NEW pos \in Nat, NEW f,
         ~ IsLeaf(t) => \A i \in Nat : f[t.yes][i] \in Seq(FlatNode) /\ f[t.no][i] \in Seq(FlatNode)
  PROVE  FlatStep(f, t, pos) \in Seq(FlatNode)
<1>1. CASE IsLeaf(t)
  <2>1. LeafNode(t.leaf) \in FlatNode
    BY <1>1, LeafOrNode DEF LeafNode, FlatNode
  <2> QED
    BY <1>1, <2>1 DEF FlatStep
<1>2. CASE ~ IsLeaf(t)
  <2>1. PICK left \in Seq(FlatNode) : left = f[t.yes][pos + 1]
    BY <1>2
  <2>2. pos + 1 + Len(left) \in Nat
    OBVIOUS
  <2>3. PICK right \in Seq(FlatNode) : right = f[t.no][pos + 1 + Len(left)]
    BY <1>2, <2>2
  <2>4. FlatRoot(t, pos, Len(left)) \in FlatNode
    BY <1>2, <2>2, LeafOrNode DEF FlatRoot, FlatNode
  <2>5. FlatStep(f, t, pos) = <<FlatRoot(t, pos, Len(left))>> \o left \o right
    BY <1>2, <2>1, <2>3 DEF FlatStep
  <2>6. PICK r \in FlatNode : r = FlatRoot(t, pos, Len(left))
    BY <2>4
  <2>7. <<r>> \o left \o right \in Seq(FlatNode)
    OBVIOUS
  <2> QED
    BY <2>5, <2>6, <2>7
<1> QED
  BY <1>1, <1>2

LEMMA FlatTreesExist == \E f : FlatTrees(f)
<1> DEFINE V == [Nat -> Seq(FlatNode)]
           F == [p \in Trees \X [Trees -> V] |-> [pos \in Nat |-> FlatStep(p[2], p[1], pos)]]
<1>1. ASSUME NEW t \in Trees, NEW g \in [Trees -> V], NEW pos \in Nat
      PROVE  FlatStep(g, t, pos) \in Seq(FlatNode)
  <2>1. \A e \in Trees, i \in Nat : g[e][i] \in Seq(FlatNode)
    OBVIOUS
  <2>2. ~ IsLeaf(t) => t.yes \in Trees /\ t.no \in Trees
    BY LeafOrNode
  <2> HIDE DEF V
  <2>3. ~ IsLeaf(t) => \A i \in Nat : g[t.yes][i] \in Seq(FlatNode) /\ g[t.no][i] \in Seq(FlatNode)
    BY <2>1, <2>2
  <2> QED
    BY <2>3, FlatStepType
<1>2. F \in [Trees \X [Trees -> V] -> V]
  <2>1. ASSUME NEW t \in Trees, NEW g \in [Trees -> V]
        PROVE  [pos \in Nat |-> FlatStep(g, t, pos)] \in V
    BY <1>1
  <2> HIDE DEF V
  <2> QED
    BY <2>1
<1>3. ASSUME NEW t \in Trees, NEW g \in [Trees -> V]
      PROVE  F[<<t, g>>] = [pos \in Nat |-> FlatStep(g, t, pos)]
  <2> HIDE DEF V
  <2> QED
    OBVIOUS
<1>4. V # {}
  <2>1. [n \in Nat |-> <<>>] \in V
    OBVIOUS
  <2> QED
    BY <2>1
<1> HIDE DEF F, V
<1>5. LooksBelow(Trees, V, Height, F)
  <2> SUFFICES ASSUME NEW t \in Trees, NEW g \in [Trees -> V], NEW h \in [Trees -> V],
                      \A e \in Trees : Height[e] < Height[t] => g[e] = h[e]
               PROVE  F[<<t, g>>] = F[<<t, h>>]
    BY Zenon DEF LooksBelow
  <2>1. ~ IsLeaf(t) => g[t.yes] = h[t.yes] /\ g[t.no] = h[t.no]
    BY LeafOrNode
  <2>2. \A pos \in Nat : FlatStep(g, t, pos) = FlatStep(h, t, pos)
    BY <2>1 DEF FlatStep
  <2>3. [pos \in Nat |-> FlatStep(g, t, pos)] = [pos \in Nat |-> FlatStep(h, t, pos)]
    BY <2>2
  <2>4. F[<<t, g>>] = [pos \in Nat |-> FlatStep(g, t, pos)]
    BY <1>3
  <2>5. F[<<t, h>>] = [pos \in Nat |-> FlatStep(h, t, pos)]
    BY <1>3
  <2> QED
    BY <2>3, <2>4, <2>5, Zenon
<1>6. PICK f \in [Trees -> V] : \A t \in Trees : f[t] = F[<<t, f>>]
  <2>1. IsRecursion(Trees, V, Height, F)
    BY <1>2, <1>4, <1>5, TreesAssumption DEF IsRecursion
  <2> QED
    BY <2>1, RecursionExists
<1>7. \A t \in Trees : f[t] = [pos \in Nat |-> FlatStep(f, t, pos)]
  BY <1>3, <1>6
<1> QED
  BY <1>7 DEF FlatTrees

LEMMA FlattenStep ==
  ASSUME NEW t \in Trees, NEW pos \in Nat
  PROVE  Flatten[t][pos] = FlatStep(Flatten, t, pos)
<1>1. FlatTrees(Flatten)
  BY FlattenDef, FlatTreesExist
<1> QED
  BY <1>1 DEF FlatTrees

LEMMA FlattenSeqs ==
  ASSUME NEW tree \in Trees
  PROVE  \A pos \in Nat : Flatten[tree][pos] \in Seq(FlatNode)
<1> DEFINE T == {t \in Trees : ~ \A pos \in Nat : Flatten[t][pos] \in Seq(FlatNode)}
<1>1. SUFFICES ASSUME T # {} PROVE FALSE
  OBVIOUS
<1>2. PICK t \in T : \A u \in T : Height[t] <= Height[u]
  <2>1. T \subseteq Trees
    OBVIOUS
  <2> HIDE DEF T
  <2> QED
    BY <1>1, <2>1, LowestTree
<1>3. PICK pos \in Nat : Flatten[t][pos] \notin Seq(FlatNode)
  OBVIOUS
<1>4. t \in Trees
  OBVIOUS
<1>5. ASSUME NEW c \in Trees, Height[c] < Height[t]
      PROVE  \A i \in Nat : Flatten[c][i] \in Seq(FlatNode)
  <2>1. Height[c] \in Nat /\ Height[t] \in Nat
    BY <1>4, LeafOrNode
  <2>2. c \notin T
    BY <1>2, <1>5, <2>1
  <2> QED
    BY <2>2
<1>6. ~ IsLeaf(t) =>
        \A i \in Nat : Flatten[t.yes][i] \in Seq(FlatNode) /\ Flatten[t.no][i] \in Seq(FlatNode)
  BY <1>4, <1>5, LeafOrNode
<1>7. FlatStep(Flatten, t, pos) \in Seq(FlatNode)
  BY <1>4, <1>6, FlatStepType
<1> QED
  BY <1>3, <1>4, <1>7, FlattenStep

(* What _flatten_tree appends for a leaf, and for a node. *)
LEMMA FlattenLeaf ==
  ASSUME NEW t \in Trees, NEW pos \in Nat, IsLeaf(t)
  PROVE  Flatten[t][pos] = <<LeafNode(t.leaf)>>
BY FlattenStep DEF FlatStep

LEMMA FlattenNode ==
  ASSUME NEW t \in Trees, NEW pos \in Nat, ~ IsLeaf(t)
  PROVE  \E left, right \in Seq(FlatNode) :
           /\ left = Flatten[t.yes][pos + 1] /\ right = Flatten[t.no][pos + 1 + Len(left)]
           /\ Flatten[t][pos] = <<FlatRoot(t, pos, Len(left))>> \o left \o right
<1>1. t.yes \in Trees /\ t.no \in Trees
  BY LeafOrNode
<1>2. PICK left \in Seq(FlatNode) : left = Flatten[t.yes][pos + 1]
  BY <1>1, FlattenSeqs
<1>3. PICK right \in Seq(FlatNode) : right = Flatten[t.no][pos + 1 + Len(left)]
  BY <1>1, FlattenSeqs
<1>4. Flatten[t][pos] = <<FlatRoot(t, pos, Len(left))>> \o left \o right
  BY <1>2, <1>3, FlattenStep DEF FlatStep
<1> QED
  BY <1>2, <1>3, <1>4

(* A node as the runtime reads it, of a tree whose root is at off: its     *)
(* children are where _flatten_tree put them in the tree. *)
Reads(n, p, root, off) ==
  /\ n.feature_idx = p.feature_idx /\ n.threshold = p.threshold /\ n.leaf_value = p.leaf_value
  /\ p.feature_idx >= 0 =>
       root + n.left_child = off + p.left_child /\ root + n.right_child = off + p.right_child
Placed(nodes, s, root, off, pos) ==
  \A i \in 1 .. Len(s) : Reads(nodes[off + pos + i], s[i], root, off)

LEMMA FlattenNotEmpty ==
  ASSUME NEW t \in Trees, NEW pos \in Nat
  PROVE  Len(Flatten[t][pos]) \in Nat \ {0}
<1>1. CASE IsLeaf(t)
  <2>1. \A v : Len(<<v>>) = 1
    OBVIOUS
  <2>2. Len(Flatten[t][pos]) = 1
    BY <1>1, <2>1, FlattenLeaf
  <2> QED
    BY <2>2
<1>2. CASE ~ IsLeaf(t)
  <2>1. PICK left \in Seq(FlatNode), right \in Seq(FlatNode) :
          Flatten[t][pos] = <<FlatRoot(t, pos, Len(left))>> \o left \o right
    BY <1>2, FlattenNode
  <2> QED
    BY <2>1
<1> QED
  BY <1>1, <1>2

(* The children's nodes are behind their parent's, and the walk goes on    *)
(* at the first of them. *)
GoesOn(nodes, root, off, pos, x, t) ==
  \E c \in Nat : /\ NextNode(nodes, root, off + pos, x) = off + c
                 /\ Placed(nodes, Flatten[Child(t, x)][c], root, off, c)
                 /\ Len(Flatten[Child(t, x)][c]) < Len(Flatten[t][pos])

LEMMA ChildPlaced ==
  ASSUME NEW t \in Trees, NEW pos \in Nat, ~ IsLeaf(t), NEW x, NEW nodes, NEW root \in Nat,
         NEW off \in Nat, Placed(nodes, Flatten[t][pos], root, off, pos)
  PROVE  GoesOn(nodes, root, off, pos, x, t)
<1> USE DEF GoesOn
<1>1. PICK left \in Seq(FlatNode), right \in Seq(FlatNode) :
        /\ left = Flatten[t.yes][pos + 1] /\ right = Flatten[t.no][pos + 1 + Len(left)]
        /\ Flatten[t][pos] = <<FlatRoot(t, pos, Len(left))>> \o left \o right
  BY FlattenNode
<1> DEFINE whole == <<FlatRoot(t, pos, Len(left))>> \o left \o right
<1>2. /\ Len(whole) = 1 + Len(left) + Len(right) /\ whole[1] = FlatRoot(t, pos, Len(left))
      /\ \A i \in 1 .. Len(left) : whole[1 + i] = left[i]
      /\ \A i \in 1 .. Len(right) : whole[1 + Len(left) + i] = right[i]
  <2>1. PICK r : r = FlatRoot(t, pos, Len(left))
    OBVIOUS
  <2> QED
    BY <2>1
<1>3. \A i \in 1 .. 1 + Len(left) + Len(right) : Reads(nodes[off + pos + i], whole[i], root, off)
  BY <1>1, <1>2, Zenon DEF Placed
<1> HIDE DEF whole
<1> PICK l \in Nat, r \in Nat : l = Len(left) /\ r = Len(right)
  OBVIOUS
<1>4. Reads(nodes[off + pos + 1], FlatRoot(t, pos, l), root, off)
  <2>1. 1 \in 1 .. 1 + l + r
    OBVIOUS
  <2> QED
    BY <1>2, <1>3, <2>1
<1>5. NextNode(nodes, root, off + pos, x) =
        IF x[t.split] < t.condition THEN off + (pos + 1) ELSE off + (pos + 1 + l)
  BY <1>4, LeafOrNode DEF NextNode, Reads, FlatRoot
<1>6. Placed(nodes, left, root, off, pos + 1)
  <2> SUFFICES ASSUME NEW i \in 1 .. Len(left)
               PROVE  Reads(nodes[off + (pos + 1) + i], left[i], root, off)
    BY Zenon DEF Placed
  <2>1. 1 + i \in 1 .. 1 + l + r /\ off + pos + (1 + i) = off + (pos + 1) + i
    <3>1. PICK k \in 1 .. l : k = i
      OBVIOUS
    <3>2. 1 + k \in 1 .. 1 + l + r /\ off + pos + (1 + k) = off + (pos + 1) + k
      OBVIOUS
    <3> QED
      BY <3>1, <3>2
  <2>2. Reads(nodes[off + pos + (1 + i)], whole[1 + i], root, off)
    BY <1>3, <2>1
  <2> QED
    BY <1>2, <2>1, <2>2
<1>7. Placed(nodes, right, root, off, pos + 1 + l)
  <2> SUFFICES ASSUME NEW i \in 1 .. Len(right)
               PROVE  Reads(nodes[off + (pos + 1 + l) + i], right[i], root, off)
    BY Zenon DEF Placed
  <2>1. 1 + l + i \in 1 .. 1 + l + r /\ off + pos + (1 + l + i) = off + (pos + 1 + l) + i
    <3>1. PICK k \in 1 .. r : k = i
      OBVIOUS
    <3>2. 1 + l + k \in 1 .. 1 + l + r /\ off + pos + (1 + l + k) = off + (pos + 1 + l) + k
      OBVIOUS
    <3> QED
      BY <3>1, <3>2
  <2>2. Reads(nodes[off + pos + (1 + l + i)], whole[1 + l + i], root, off)
    BY <1>3, <2>1
  <2> QED
    BY <1>2, <2>1, <2>2
<1>8. Len(Flatten[t][pos]) = 1 + l + r
  BY <1>1, <1>2 DEF whole
<1>9. CASE x[t.split] < t.condition
  <2>1. Child(t, x) = t.yes /\ NextNode(nodes, root, off + pos, x) = off + (pos + 1)
    BY <1>5, <1>9 DEF Child
  <2>2. pos + 1 \in Nat /\ l < 1 + l + r
    OBVIOUS
  <2> QED
    BY <1>1, <1>6, <1>8, <2>1, <2>2
<1>10. CASE ~ x[t.split] < t.condition
  <2>1. Child(t, x) = t.no /\ NextNode(nodes, root, off + pos, x) = off + (pos + 1 + l)
    BY <1>5, <1>10 DEF Child
  <2>2. pos + 1 + l \in Nat /\ r < 1 + l + r
    OBVIOUS
  <2> QED
    BY <1>1, <1>7, <1>8, <2>1, <2>2
<1> QED
  BY <1>9, <1>10

(* The walk of n steps. *)
Path(f, nodes, root, start, x, n) ==
  f = [k \in 0 .. n |-> IF k = 0 THEN start ELSE NextNode(nodes, root, f[k - 1], x)]

LEMMA WalkExists ==
  ASSUME NEW nodes, NEW root, NEW start, NEW x, NEW n \in Nat
  PROVE  \E f : Path(f, nodes, root, start, x, n)
<1> DEFINE T == {k \in Nat : ~ \E f : Path(f, nodes, root, start, x, k)}
<1>1. SUFFICES ASSUME T # {} PROVE FALSE
  OBVIOUS
<1>2. PICK k \in T : \A j \in T : k <= j
  <2>1. T \subseteq Nat
    OBVIOUS
  <2> HIDE DEF T
  <2> QED
    BY <1>1, <2>1, SmallestNumber
<1>3. k \in Nat /\ ~ \E f : Path(f, nodes, root, start, x, k)
  OBVIOUS
<1>4. CASE k = 0
  <2>1. Path([j \in 0 .. 0 |-> start], nodes, root, start, x, 0)
    BY DEF Path
  <2> QED
    BY <1>3, <1>4, <2>1
<1>5. CASE k # 0
  <2>1. k - 1 \in Nat /\ k - 1 \notin T
    <3> HIDE DEF T
    <3> QED
      BY <1>2, <1>3, <1>5
  <2>2. PICK g : Path(g, nodes, root, start, x, k - 1)
    BY <2>1
  <2> HIDE DEF T
  <2>3. \A i \in 0 .. k - 1 : g[i] = IF i = 0 THEN start ELSE NextNode(nodes, root, g[i - 1], x)
    BY <2>2 DEF Path
  <2> DEFINE f == [i \in 0 .. k |-> IF i = 0 THEN start ELSE NextNode(nodes, root, g[i - 1], x)]
  <2>4. \A i \in 0 .. k - 1 : f[i] = g[i]
    BY <1>3, <2>3
  <2>5. \A i \in 0 .. k : i # 0 => i - 1 \in 0 .. k - 1
    BY <1>3
  <2>6. \A i \in 0 .. k : i # 0 => f[i - 1] = g[i - 1]
    BY <2>4, <2>5
  <2>7. Path(f, nodes, root, start, x, k)
    BY <2>6 DEF Path
  <2> QED
    BY <1>3, <2>7
<1> QED
  BY <1>4, <1>5

LEMMA WalkDef ==
  ASSUME NEW nodes, NEW root, NEW start, NEW x, Len(nodes) \in Nat
  PROVE  \E f : /\ Path(f, nodes, root, start, x, Len(nodes))
                /\ Walk(nodes, root, start, x) = nodes[f[Len(nodes)] + 1].leaf_value
<1> DEFINE f == CHOOSE f : Path(f, nodes, root, start, x, Len(nodes))
<1>1. Path(f, nodes, root, start, x, Len(nodes))
  BY WalkExists
<1>2. Walk(nodes, root, start, x) = nodes[f[Len(nodes)] + 1].leaf_value
  BY DEF Walk, Path
<1> QED
  BY <1>1, <1>2

(* A path that has come to a tree's root with enough steps left ends in    *)
(* the leaf that x belongs to. *)
Arrives(f, n, nodes, root, off, x, t) ==
  \A pos \in Nat, j \in 0 .. n :
    /\ Placed(nodes, Flatten[t][pos], root, off, pos)
    /\ f[j] = off + pos /\ j + Len(Flatten[t][pos]) <= n + 1
    => nodes[f[n] + 1].leaf_value = Leaf(t, x)

AtLeaf(nodes, i) == nodes[i + 1].feature_idx < 0

LEMMA StaysAtLeaf ==
  ASSUME NEW nodes, NEW root, NEW start, NEW x, NEW n \in Nat, NEW f,
         Path(f, nodes, root, start, x, n), NEW i \in Nat, AtLeaf(nodes, i),
         NEW j \in 0 .. n, f[j] = i
  PROVE  f[n] = i
<1> DEFINE T == {k \in j .. n : f[k] # i}
<1>1. SUFFICES ASSUME T # {} PROVE FALSE
  OBVIOUS
<1>2. PICK k \in T : \A y \in T : k <= y
  <2>1. T \subseteq Nat
    OBVIOUS
  <2> HIDE DEF T
  <2> QED
    BY <1>1, <2>1, SmallestNumber
<1>3. k \in j .. n /\ f[k] # i
  OBVIOUS
<1>4. k # j /\ k - 1 \in j .. n /\ k - 1 \notin T
  <2> HIDE DEF T
  <2> QED
    BY <1>2, <1>3
<1>5. f[k - 1] = i
  BY <1>4
<1>6. k \in 0 .. n /\ k # 0
  BY <1>3, <1>4
<1>7. f[k] = NextNode(nodes, root, i, x)
  BY <1>5, <1>6 DEF Path
<1> QED
  BY <1>3, <1>7 DEF NextNode, AtLeaf

LEMMA PathArrives ==
  ASSUME NEW nodes, NEW root \in Nat, NEW off \in Nat, NEW start, NEW x, NEW n \in Nat, NEW f,
         Path(f, nodes, root, start, x, n), NEW tree \in Trees
  PROVE  Arrives(f, n, nodes, root, off, x, tree)
<1> DEFINE T == {t \in Trees : ~ Arrives(f, n, nodes, root, off, x, t)}
<1>1. SUFFICES ASSUME T # {} PROVE FALSE
  OBVIOUS
<1>2. PICK t \in T : \A u \in T : Height[t] <= Height[u]
  <2>1. T \subseteq Trees
    OBVIOUS
  <2> HIDE DEF T
  <2> QED
    BY <1>1, <2>1, LowestTree
<1>3. t \in Trees /\ ~ Arrives(f, n, nodes, root, off, x, t)
  OBVIOUS
<1>4. ASSUME NEW c \in Trees, Height[c] < Height[t]
      PROVE  Arrives(f, n, nodes, root, off, x, c)
  <2>1. Height[c] \in Nat /\ Height[t] \in Nat
    BY <1>3, LeafOrNode
  <2>2. c \notin T
    BY <1>2, <1>4, <2>1
  <2> QED
    BY <2>2
<1> HIDE DEF T
<1>5. PICK pos \in Nat, j \in 0 .. n :
        /\ Placed(nodes, Flatten[t][pos], root, off, pos)
        /\ f[j] = off + pos /\ j + Len(Flatten[t][pos]) <= n + 1
        /\ nodes[f[n] + 1].leaf_value # Leaf(t, x)
  BY <1>3 DEF Arrives
<1>6. CASE IsLeaf(t)
  <2>1. Reads(nodes[off + pos + 1], LeafNode(t.leaf), root, off)
    <3>1. Flatten[t][pos] = <<LeafNode(t.leaf)>>
      BY <1>3, <1>6, FlattenLeaf
    <3> QED
      BY <1>5, <3>1 DEF Placed
  <2>2. nodes[off + pos + 1].feature_idx = -1 /\ nodes[off + pos + 1].leaf_value = t.leaf
    BY <2>1 DEF Reads, LeafNode
  <2>3. f[n] = off + pos
    <3>1. PICK i \in Nat : i = off + pos
      OBVIOUS
    <3>2. AtLeaf(nodes, i) /\ f[j] = i
      BY <1>5, <2>2, <3>1 DEF AtLeaf
    <3>3. f[n] = i
      BY <3>2, StaysAtLeaf
    <3> QED
      BY <3>1, <3>3
  <2> QED
    BY <1>3, <1>5, <1>6, <2>2, <2>3, LeafIs
<1>7. CASE ~ IsLeaf(t)
  <2>1. PICK c \in Nat : /\ NextNode(nodes, root, off + pos, x) = off + c
                         /\ Placed(nodes, Flatten[Child(t, x)][c], root, off, c)
                         /\ Len(Flatten[Child(t, x)][c]) < Len(Flatten[t][pos])
    <3>1. PICK u \in Trees : u = t
      BY <1>3
    <3>2. ~ IsLeaf(u) /\ Placed(nodes, Flatten[u][pos], root, off, pos)
      BY <1>5, <1>7, <3>1
    <3>3. GoesOn(nodes, root, off, pos, x, u)
      BY <3>2, ChildPlaced
    <3> QED
      BY <3>1, <3>3 DEF GoesOn
  <2>2. Child(t, x) \in Trees /\ Height[Child(t, x)] < Height[t]
    BY <1>3, <1>7, LeafOrNode DEF Child
  <2>3. Len(Flatten[Child(t, x)][c]) \in Nat \ {0} /\ Len(Flatten[t][pos]) \in Nat \ {0}
    BY <1>3, <2>2, FlattenNotEmpty
  <2>4. j + 1 \in 0 .. n /\ (j + 1) + Len(Flatten[Child(t, x)][c]) <= n + 1
    <3>1. PICK small \in Nat \ {0}, large \in Nat \ {0} :
            small = Len(Flatten[Child(t, x)][c]) /\ large = Len(Flatten[t][pos])
      BY <2>3
    <3>2. small < large /\ j + large <= n + 1 /\ j \in Nat
      BY <1>5, <2>1, <3>1
    <3>3. j + 1 \in 0 .. n /\ (j + 1) + small <= n + 1
      BY <3>2
    <3> QED
      BY <3>1, <3>3
  <2>5. f[j + 1] = off + c
    <3>1. j + 1 # 0 /\ (j + 1) - 1 = j
      OBVIOUS
    <3>2. f[j + 1] = NextNode(nodes, root, f[j], x)
      BY <2>4, <3>1 DEF Path
    <3> QED
      BY <1>5, <2>1, <3>2
  <2>6. nodes[f[n] + 1].leaf_value = Leaf(Child(t, x), x)
    <3>1. Arrives(f, n, nodes, root, off, x, Child(t, x))
      BY <1>4, <2>2
    <3> QED
      BY <2>1, <2>4, <2>5, <3>1, Zenon DEF Arrives
  <2>7. Leaf(t, x) = Leaf(Child(t, x), x)
    BY <1>3, <1>7, LeafIs
  <2> QED
    BY <1>5, <2>6, <2>7
<1> QED
  BY <1>6, <1>7

(* A walk from where a tree is finds the tree's value. *)
LEMMA WalkFindsLeaf ==
  ASSUME NEW nodes, Len(nodes) \in Nat, NEW root \in Nat, NEW off \in Nat, NEW x,
         NEW tree \in Trees, Placed(nodes, Flatten[tree][0], root, off, 0),
         Len(Flatten[tree][0]) <= Len(nodes) + 1
  PROVE  Walk(nodes, root, off, x) = Leaf(tree, x)
<1> DEFINE n == Len(nodes)
<1>1. PICK f : /\ Path(f, nodes, root, off, x, n)
               /\ Walk(nodes, root, off, x) = nodes[f[n] + 1].leaf_value
  BY WalkDef
<1> HIDE DEF n
<1>2. n \in Nat /\ 0 \in 0 .. n
  BY DEF n
<1>3. Arrives(f, n, nodes, root, off, x, tree)
  BY <1>1, <1>2, PathArrives
<1>4. f[0] = off + 0
  BY <1>1, <1>2 DEF Path
<1>5. 0 + Len(Flatten[tree][0]) <= n + 1
  BY FlattenNotEmpty DEF n
<1> QED
  BY <1>1, <1>2, <1>3, <1>4, <1>5 DEF Arrives

(* A walk that begins at a leaf.                                           *)
LEMMA BeginsAtLeaf ==
  ASSUME NEW nodes, NEW root, NEW i \in Nat, NEW x, NEW n \in Nat, NEW f,
         Path(f, nodes, root, i, x, n), AtLeaf(nodes, i)
  PROVE  f[n] = i
<1>1. PICK j \in 0 .. n : j = 0
  OBVIOUS
<1>2. f[j] = i
  BY <1>1 DEF Path
<1> QED
  BY <1>2, StaysAtLeaf

LEMMA WalkAtLeaf ==
  ASSUME NEW nodes, Len(nodes) \in Nat, NEW root, NEW off \in Nat, NEW x, AtLeaf(nodes, off)
  PROVE  Walk(nodes, root, off, x) = nodes[off + 1].leaf_value
<1>1. PICK n \in Nat : n = Len(nodes)
  OBVIOUS
<1>2. PICK f : /\ Path(f, nodes, root, off, x, n)
               /\ Walk(nodes, root, off, x) = nodes[f[n] + 1].leaf_value
  BY <1>1, WalkDef
<1>3. f[n] = off
  BY <1>2, BeginsAtLeaf
<1> QED
  BY <1>2, <1>3

(* The arrays of a classifier hold each of its trees at its offset, the    *)
(* children counting from 0 or from the root. *)
RootOf(relative, off) == IF relative THEN off ELSE 0
Holds(s, trees, relative) ==
  /\ Len(s.nodes) \in Nat /\ DOMAIN s.tree_offsets = 1 .. Len(trees)
  /\ \A i \in 1 .. Len(trees) :
       /\ s.tree_offsets[i] \in Nat /\ Len(trees[i]) <= Len(s.nodes)
       /\ Placed(s.nodes, trees[i], RootOf(relative, s.tree_offsets[i]), s.tree_offsets[i], 0)

Sizes(trees) == [i \in 1 .. Len(trees) |-> Len(trees[i])]

LEMMA OffsetsAre ==
  ASSUME NEW S, NEW trees \in Seq(Seq(S))
  PROVE  /\ DOMAIN Offsets(trees) = 1 .. Len(trees)
         /\ \A i \in 1 .. Len(trees) : /\ Offsets(trees)[i] = TotalOf(Sizes(trees), 1 .. i - 1)
                                       /\ Offsets(trees)[i] \in Nat
<1>1. DOMAIN trees = 1 .. Len(trees) /\ Len(trees) \in Nat
  OBVIOUS
<1>2. DOMAIN Offsets(trees) = 1 .. Len(trees)
  BY <1>1 DEF Offsets
<1> SUFFICES ASSUME NEW i \in 1 .. Len(trees)
             PROVE  /\ Offsets(trees)[i] = TotalOf(Sizes(trees), 1 .. i - 1)
                    /\ Offsets(trees)[i] \in Nat
  BY <1>2
<1> DEFINE w == [j \in 1 .. i - 1 |-> Len(trees[j])]
<1>3. Offsets(trees)[i] = TotalOf(w, 1 .. i - 1)
  BY <1>1 DEF Offsets, Sum
<1>4. i - 1 \in Nat /\ \A j \in 1 .. i - 1 : j \in 1 .. Len(trees)
  BY <1>1
<1>5. \A j \in 1 .. i - 1 : w[j] = Sizes(trees)[j]
  BY <1>4 DEF Sizes
<1>6. \A j \in 1 .. i - 1 : w[j] \in Nat
  <2>1. \A j \in 1 .. Len(trees) : Len(trees[j]) \in Nat
    OBVIOUS
  <2> QED
    BY <1>4, <2>1
<1> HIDE DEF w
<1>7. IsFiniteSet(1 .. i - 1)
  BY <1>4, FS_Interval
<1>8. TotalOf(w, 1 .. i - 1) = TotalOf(Sizes(trees), 1 .. i - 1)
  BY <1>5, <1>7, TotalSame
<1>9. TotalOf(w, 1 .. i - 1) \in Nat
  BY <1>6, <1>7, TotalType
<1> QED
  BY <1>3, <1>8, <1>9

LEMMA ArraysHold ==
  ASSUME NEW trees \in Seq(Seq(FlatNode)), NEW moved \in Seq(Seq(FlatNode)), NEW s,
         Len(moved) = Len(trees), \A i \in 1 .. Len(trees) : Len(moved[i]) = Len(trees[i]),
         s.nodes = FlattenSeq(moved), s.tree_offsets = Offsets(trees), NEW relative \in BOOLEAN,
         \A i \in 1 .. Len(trees) : \A j \in 1 .. Len(trees[i]) :
           Reads(moved[i][j], trees[i][j], RootOf(relative, Offsets(trees)[i]), Offsets(trees)[i])
  PROVE  Holds(s, trees, relative)
<1>1. Len(s.nodes) \in Nat
  <2>1. s.nodes \in Seq(FlatNode)
    BY FlattenType
  <2> QED
    BY <2>1
<1>2. ASSUME NEW i \in 1 .. Len(trees)
      PROVE  /\ s.tree_offsets[i] \in Nat /\ Len(trees[i]) <= Len(s.nodes)
             /\ Placed(s.nodes, trees[i], RootOf(relative, s.tree_offsets[i]), s.tree_offsets[i], 0)
  <2>1. PICK o \in Nat : o = s.tree_offsets[i] /\ o = TotalOf(Sizes(trees), 1 .. i - 1)
    BY OffsetsAre
  <2>2. i \in 1 .. Len(moved) /\ \A k \in 1 .. Len(moved) : Sizes(trees)[k] = Len(moved[k])
    BY DEF Sizes
  <2>3. ASSUME NEW j \in 1 .. Len(moved[i])
        PROVE  o + j \in 1 .. Len(s.nodes) /\ s.nodes[o + j] = moved[i][j]
    <3>1. /\ TotalOf(Sizes(trees), 1 .. i - 1) + j \in 1 .. Len(FlattenSeq(moved))
          /\ FlattenSeq(moved)[TotalOf(Sizes(trees), 1 .. i - 1) + j] = moved[i][j]
      BY <2>2, FlattenPlaces
    <3> QED
      BY <2>1, <3>1
  <2>4. PICK l \in Nat : l = Len(trees[i]) /\ l = Len(moved[i])
    <3>1. \A k \in 1 .. Len(trees) : Len(trees[k]) \in Nat
      OBVIOUS
    <3> QED
      BY <3>1
  <2>5. PICK n \in Nat : n = Len(s.nodes)
    BY <1>1
  <2>6. l <= n
    <3>1. l > 0 => o + l \in 1 .. n
      BY <2>3, <2>4, <2>5
    <3> QED
      BY <3>1
  <2>7. Placed(s.nodes, trees[i], RootOf(relative, o), o, 0)
    <3> SUFFICES ASSUME NEW j \in 1 .. Len(trees[i])
                 PROVE  Reads(s.nodes[o + 0 + j], trees[i][j], RootOf(relative, o), o)
      BY Zenon DEF Placed
    <3>1. o + 0 + j = o + j /\ j \in 1 .. Len(moved[i])
      BY <2>4
    <3>2. s.nodes[o + 0 + j] = moved[i][j]
      BY <2>3, <3>1
    <3>3. Reads(moved[i][j], trees[i][j], RootOf(relative, o), o)
      BY <2>1
    <3> QED
      BY <3>2, <3>3, Zenon
  <2> QED
    BY <2>1, <2>4, <2>5, <2>6, <2>7
<1>3. DOMAIN s.tree_offsets = 1 .. Len(trees)
  BY OffsetsAre
<1> QED
  BY <1>1, <1>2, <1>3, Zenon DEF Holds

LEMMA SourceHolds ==
  ASSUME NEW data, NEW trees \in Seq(Seq(FlatNode)), data.trees = trees
  PROVE  Holds(SourceArrays(data), trees, TRUE)
<1> DEFINE s == SourceArrays(data)
<1>1. s.nodes = FlattenSeq(trees) /\ s.tree_offsets = Offsets(trees)
  BY DEF SourceArrays
<1>2. \A i \in 1 .. Len(trees) : \A j \in 1 .. Len(trees[i]) :
        Reads(trees[i][j], trees[i][j], RootOf(TRUE, Offsets(trees)[i]), Offsets(trees)[i])
  BY DEF Reads, RootOf
<1> HIDE DEF s
<1>3. Holds(s, trees, TRUE)
  BY <1>1, <1>2, ArraysHold
<1> QED
  BY <1>3 DEF s

(* In the blob the children have moved with their tree.                    *)
LEMMA RebaseReads ==
  ASSUME NEW p \in FlatNode, NEW off \in Nat
  PROVE  Rebase(p, off) \in FlatNode /\ Reads(Rebase(p, off), p, 0, off)
<1>1. PICK a \in Int, b \in Int, c \in Int, l \in Nat, r \in Nat :
        p = [feature_idx |-> a, threshold |-> b, leaf_value |-> c,
             left_child |-> l, right_child |-> r]
  BY DEF FlatNode
<1>2. CASE a < 0
  BY <1>1, <1>2 DEF Rebase, Reads
<1>3. CASE ~ a < 0
  <2>1. Rebase(p, off) = [feature_idx |-> a, threshold |-> b, leaf_value |-> c,
                          left_child |-> l + off, right_child |-> r + off]
    BY <1>1, <1>3 DEF Rebase
  <2> QED
    BY <1>1, <2>1 DEF Reads, FlatNode
<1> QED
  BY <1>2, <1>3

LEMMA SectionHolds ==
  ASSUME NEW data, NEW trees \in Seq(Seq(FlatNode)), data.trees = trees
  PROVE  Holds(Section(data), trees, FALSE)
<1> DEFINE s == Section(data)
           pos == Offsets(trees)
           Tree(i) == [j \in DOMAIN trees[i] |-> Rebase(trees[i][j], pos[i])]
           moved == [i \in DOMAIN trees |-> Tree(i)]
<1>1. s.nodes = FlattenSeq(moved) /\ s.tree_offsets = pos
  BY DEF Section
<1>2. \A i \in 1 .. Len(trees) : pos[i] \in Nat
  BY OffsetsAre
<1> HIDE DEF pos, s
<1>3. ASSUME NEW i \in 1 .. Len(trees)
      PROVE  /\ Tree(i) \in Seq(FlatNode) /\ Len(Tree(i)) = Len(trees[i])
             /\ \A j \in 1 .. Len(trees[i]) : Reads(Tree(i)[j], trees[i][j], 0, pos[i])
  <2>1. PICK t \in Seq(FlatNode) : t = trees[i]
    BY <1>3
  <2>2. PICK o \in Nat : o = pos[i]
    BY <1>2
  <2>3. \A j \in 1 .. Len(t) : t[j] \in FlatNode
    OBVIOUS
  <2>4. \A j \in 1 .. Len(t) : Rebase(t[j], o) \in FlatNode /\ Reads(Rebase(t[j], o), t[j], 0, o)
    BY <2>3, RebaseReads
  <2>5. Tree(i) = [j \in 1 .. Len(t) |-> Rebase(t[j], o)]
    BY <2>1, <2>2
  <2> HIDE DEF Tree
  <2>6. Tree(i) \in Seq(FlatNode) /\ Len(Tree(i)) = Len(t)
    BY <2>4, <2>5
  <2>7. \A j \in 1 .. Len(t) : Tree(i)[j] = Rebase(t[j], o)
    BY <2>5
  <2> QED
    BY <2>1, <2>2, <2>4, <2>6, <2>7
<1> HIDE DEF Tree
<1>4. moved \in Seq(Seq(FlatNode)) /\ Len(moved) = Len(trees)
  <2>1. \A i \in 1 .. Len(trees) : Tree(i) \in Seq(FlatNode)
    BY <1>3
  <2>2. moved = [i \in 1 .. Len(trees) |-> Tree(i)] /\ Len(trees) \in Nat
    OBVIOUS
  <2> QED
    BY <2>1, <2>2
<1>5. \A i \in 1 .. Len(trees) : moved[i] = Tree(i)
  OBVIOUS
<1> HIDE DEF moved
<1>6. \A i \in 1 .. Len(trees) : Len(moved[i]) = Len(trees[i])
  BY <1>3, <1>5
<1>7. \A i \in 1 .. Len(trees) : \A j \in 1 .. Len(trees[i]) :
        Reads(moved[i][j], trees[i][j], RootOf(FALSE, Offsets(trees)[i]), Offsets(trees)[i])
  BY <1>3, <1>5 DEF RootOf, pos
<1>8. Holds(s, trees, FALSE)
  BY <1>1, <1>4, <1>6, <1>7, ArraysHold DEF pos
<1> QED
  BY <1>8 DEF s

(* The trees of a classifier: its base score's, then the booster's.        *)
Exportable(m) == IsClassifier(m) /\ HasMargins(m)
Base(m) == BaseMargins(m.booster, Len(m.classes))
Exported(m) == TreesOf(m).trees

LEMMA BaseIs ==
  ASSUME NEW m, Exportable(m)
  PROVE  /\ Base(m) \in Seq(Int) /\ Len(Base(m)) = Len(m.classes)
         /\ Len(m.classes) \in Nat /\ Len(m.classes) >= 2
         /\ m.booster.n_classes = Len(m.classes)
         /\ Len(m.classes) = 2 =>
              /\ Base(m)[1] = 0 /\ Base(m)[2] = Logit(m.booster.base_score[1])
              /\ Logit(m.booster.base_score[1]) \in Int
         /\ Len(m.classes) > 2 => Base(m) = m.booster.base_score
<1>1. /\ m.booster.base_score \in Seq(Int) /\ m.classes \in Seq(Int) /\ Len(m.classes) >= 2
      /\ m.booster.n_classes = Len(m.classes)
      /\ Len(m.classes) = 2 =>
           Len(m.booster.base_score) = 1 /\ Logit(m.booster.base_score[1]) \in Int
  BY DEF Exportable, IsClassifier
<1>2. Len(m.classes) \in Nat
  BY <1>1
<1>3. CASE Len(m.classes) = 2
  <2>1. Base(m) = <<0, Logit(m.booster.base_score[1])>>
    BY <1>1, <1>3 DEF Base, BaseMargins
  <2> QED
    BY <1>1, <1>3, <2>1
<1>4. CASE Len(m.classes) # 2
  <2>1. Len(m.booster.base_score) = Len(m.classes)
    BY <1>4 DEF Exportable, HasMargins
  <2>2. Base(m) = m.booster.base_score
    BY <1>4 DEF Base, BaseMargins
  <2> QED
    BY <1>1, <1>2, <1>4, <2>1, <2>2
<1> QED
  BY <1>3, <1>4

LEMMA ExportedTrees ==
  ASSUME NEW m, Exportable(m)
  PROVE  /\ Exported(m) \in Seq(Seq(FlatNode))
         /\ Len(Exported(m)) = Len(m.classes) + Len(m.booster.trees)
         /\ \A k \in 1 .. Len(m.classes) : Exported(m)[k] = <<LeafNode(Base(m)[k])>>
         /\ \A i \in 1 .. Len(m.booster.trees) :
              Exported(m)[Len(m.classes) + i] = Flatten[m.booster.trees[i]][0]
<1>1. PICK trees \in Seq(Trees) : trees = m.booster.trees
  BY DEF Exportable, IsClassifier
<1>2. PICK base \in Seq(Int) : base = Base(m) /\ Len(base) = Len(m.classes)
  BY BaseIs
<1> DEFINE first == [k \in DOMAIN base |-> <<LeafNode(base[k])>>]
           rest == [i \in DOMAIN trees |-> Flatten[trees[i]][0]]
<1>3. first \in Seq(Seq(FlatNode)) /\ Len(first) = Len(base)
  <2>1. \A v \in Int : LeafNode(v) \in FlatNode
    BY DEF LeafNode, FlatNode
  <2>2. \A v \in Int : <<LeafNode(v)>> \in Seq(FlatNode)
    BY <2>1
  <2>3. first = [k \in 1 .. Len(base) |-> <<LeafNode(base[k])>>] /\ Len(base) \in Nat
    OBVIOUS
  <2>4. \A k \in 1 .. Len(base) : <<LeafNode(base[k])>> \in Seq(FlatNode)
    BY <2>2
  <2> HIDE DEF first
  <2> QED
    BY <2>3, <2>4
<1>4. rest \in Seq(Seq(FlatNode)) /\ Len(rest) = Len(trees)
  <2>1. \A i \in 1 .. Len(trees) : Flatten[trees[i]][0] \in Seq(FlatNode)
    BY FlattenSeqs
  <2>2. rest = [i \in 1 .. Len(trees) |-> Flatten[trees[i]][0]] /\ Len(trees) \in Nat
    OBVIOUS
  <2> HIDE DEF rest
  <2> QED
    BY <2>1, <2>2
<1>5. \A k \in 1 .. Len(base) : first[k] = <<LeafNode(base[k])>>
  OBVIOUS
<1>6. \A i \in 1 .. Len(trees) : rest[i] = Flatten[trees[i]][0]
  OBVIOUS
<1>7. Exported(m) = first \o rest
  BY <1>1, <1>2 DEF Exported, TreesOf, Base
<1> HIDE DEF first, rest
<1>8. /\ first \o rest \in Seq(Seq(FlatNode)) /\ Len(first \o rest) = Len(first) + Len(rest)
      /\ \A k \in 1 .. Len(first) : (first \o rest)[k] = first[k]
      /\ \A k \in 1 .. Len(rest) : (first \o rest)[Len(first) + k] = rest[k]
  <2>1. PICK u \in Seq(Seq(FlatNode)), v \in Seq(Seq(FlatNode)) : u = first /\ v = rest
    BY <1>3, <1>4
  <2>2. /\ u \o v \in Seq(Seq(FlatNode)) /\ Len(u \o v) = Len(u) + Len(v)
        /\ \A k \in 1 .. Len(u) : (u \o v)[k] = u[k]
        /\ \A k \in 1 .. Len(v) : (u \o v)[Len(u) + k] = v[k]
    BY ConcatPlaces
  <2> QED
    BY <2>1, <2>2, Zenon
<1>9. Len(first) = Len(m.classes) /\ Len(rest) = Len(m.booster.trees)
  BY <1>1, <1>2, <1>3, <1>4
<1>10. \A k \in 1 .. Len(m.classes) : Exported(m)[k] = <<LeafNode(Base(m)[k])>>
  BY <1>2, <1>5, <1>7, <1>8, <1>9
<1>11. \A i \in 1 .. Len(m.booster.trees) :
         Exported(m)[Len(m.classes) + i] = Flatten[m.booster.trees[i]][0]
  BY <1>1, <1>6, <1>7, <1>8, <1>9
<1> QED
  BY <1>7, <1>8, <1>9, <1>10, <1>11, Zenon

(* What the runtime adds up: the base margins and the leaves.              *)
Leaves(m, x) == [i \in DOMAIN m.booster.trees |-> Leaf(m.booster.trees[i], x)]
Walks(s, x, relative) ==
  [t \in DOMAIN s.tree_offsets |->
     Walk(s.nodes, IF relative THEN s.tree_offsets[t] ELSE 0, s.tree_offsets[t], x)]

LEMMA LeavesAre ==
  ASSUME NEW m, Exportable(m), NEW x
  PROVE  /\ DOMAIN Leaves(m, x) = 1 .. Len(m.booster.trees) /\ Len(m.booster.trees) \in Nat
         /\ \A i \in 1 .. Len(m.booster.trees) : /\ m.booster.trees[i] \in Trees
                                                 /\ Leaves(m, x)[i] = Leaf(m.booster.trees[i], x)
                                                 /\ Leaves(m, x)[i] \in Int
<1>1. PICK trees \in Seq(Trees) : trees = m.booster.trees
  BY DEF Exportable, IsClassifier
<1>2. \A i \in 1 .. Len(trees) : trees[i] \in Trees /\ Leaf(trees[i], x) \in Int
  BY LeafIs
<1> QED
  BY <1>1, <1>2 DEF Leaves

(* The values of the trees, of which the first are the base margins.       *)
Values(values, base, leaves, n, l) ==
  /\ n \in Nat \ {0} /\ l \in Nat
  /\ DOMAIN base = 1 .. n /\ DOMAIN leaves = 1 .. l /\ DOMAIN values = 1 .. n + l
  /\ \A k \in 1 .. n : base[k] \in Int /\ values[k] = base[k]
  /\ \A i \in 1 .. l : leaves[i] \in Int /\ values[n + i] = leaves[i]

LEMMA WalksAre ==
  ASSUME NEW m, Exportable(m), NEW x, NEW s, NEW relative \in BOOLEAN,
         Holds(s, Exported(m), relative)
  PROVE  Values(Walks(s, x, relative), Base(m), Leaves(m, x),
                Len(m.classes), Len(m.booster.trees))
<1> DEFINE n == Len(m.classes)
           l == Len(m.booster.trees)
           trees == Exported(m)
<1>1. n \in Nat \ {0} /\ l \in Nat /\ Len(trees) = n + l
  <2>1. n \in Nat /\ n >= 2
    BY BaseIs
  <2>2. l \in Nat /\ Len(trees) = n + l
    BY LeavesAre, ExportedTrees
  <2> HIDE DEF n, l, trees
  <2> QED
    BY <2>1, <2>2
<1>2. /\ \A k \in 1 .. n : trees[k] = <<LeafNode(Base(m)[k])>>
      /\ \A i \in 1 .. l : trees[n + i] = Flatten[m.booster.trees[i]][0]
  BY ExportedTrees
<1>3. \A i \in 1 .. l :
        m.booster.trees[i] \in Trees /\ Leaves(m, x)[i] = Leaf(m.booster.trees[i], x)
  BY LeavesAre
<1> HIDE DEF n, l, trees
<1>4. Len(s.nodes) \in Nat /\ DOMAIN s.tree_offsets = 1 .. n + l
  BY <1>1, Zenon DEF Holds, trees
<1>5. ASSUME NEW i \in 1 .. n + l
      PROVE  /\ s.tree_offsets[i] \in Nat /\ Len(trees[i]) <= Len(s.nodes)
             /\ Placed(s.nodes, trees[i], RootOf(relative, s.tree_offsets[i]), s.tree_offsets[i], 0)
             /\ Walks(s, x, relative)[i] =
                  Walk(s.nodes, RootOf(relative, s.tree_offsets[i]), s.tree_offsets[i], x)
  <2>1. i \in 1 .. Len(trees)
    BY <1>1
  <2>2. Walks(s, x, relative)[i] =
          Walk(s.nodes, RootOf(relative, s.tree_offsets[i]), s.tree_offsets[i], x)
    BY <1>4 DEF Walks, RootOf
  <2> QED
    BY <2>1, <2>2, Zenon DEF Holds, trees
<1>6. ASSUME NEW k \in 1 .. n
      PROVE  Walks(s, x, relative)[k] = Base(m)[k]
  <2>1. k \in 1 .. n + l
    BY <1>1
  <2>2. PICK off \in Nat : off = s.tree_offsets[k]
    BY <1>5, <2>1
  <2>3. Placed(s.nodes, <<LeafNode(Base(m)[k])>>, RootOf(relative, off), off, 0)
    BY <1>2, <1>5, <2>1, <2>2
  <2>4. Reads(s.nodes[off + 0 + 1], LeafNode(Base(m)[k]), RootOf(relative, off), off)
    BY <2>3 DEF Placed
  <2>5. off + 0 + 1 = off + 1
    OBVIOUS
  <2>6. AtLeaf(s.nodes, off) /\ s.nodes[off + 1].leaf_value = Base(m)[k]
    BY <2>4, <2>5 DEF Reads, LeafNode, AtLeaf
  <2>7. Walk(s.nodes, RootOf(relative, off), off, x) = s.nodes[off + 1].leaf_value
    BY <1>4, <2>6, WalkAtLeaf
  <2> QED
    BY <1>5, <2>1, <2>2, <2>6, <2>7
<1>7. ASSUME NEW i \in 1 .. l
      PROVE  Walks(s, x, relative)[n + i] = Leaves(m, x)[i]
  <2>1. n + i \in 1 .. n + l
    BY <1>1
  <2>2. PICK off \in Nat : off = s.tree_offsets[n + i]
    BY <1>5, <2>1
  <2>3. PICK tree \in Trees : tree = m.booster.trees[i] /\ Leaves(m, x)[i] = Leaf(tree, x)
    BY <1>3
  <2>4. /\ Placed(s.nodes, Flatten[tree][0], RootOf(relative, off), off, 0)
        /\ Len(Flatten[tree][0]) <= Len(s.nodes)
    BY <1>2, <1>5, <2>1, <2>2, <2>3
  <2>5. RootOf(relative, off) \in Nat
    BY DEF RootOf
  <2>6. Len(Flatten[tree][0]) <= Len(s.nodes) + 1
    <3>1. Len(Flatten[tree][0]) \in Nat
      BY FlattenNotEmpty
    <3> QED
      BY <1>4, <2>4, <3>1
  <2>7. Walk(s.nodes, RootOf(relative, off), off, x) = Leaf(tree, x)
    BY <1>4, <2>4, <2>5, <2>6, WalkFindsLeaf
  <2> QED
    BY <1>5, <2>1, <2>2, <2>3, <2>7
<1>8. DOMAIN Walks(s, x, relative) = 1 .. n + l
  BY <1>4 DEF Walks
<1>9. DOMAIN Base(m) = 1 .. n /\ \A k \in 1 .. n : Base(m)[k] \in Int
  <2>1. PICK base \in Seq(Int) : base = Base(m) /\ Len(base) = n
    BY BaseIs DEF n
  <2>2. DOMAIN base = 1 .. Len(base) /\ \A k \in 1 .. Len(base) : base[k] \in Int
    OBVIOUS
  <2> QED
    BY <2>1, <2>2
<1>10. DOMAIN Leaves(m, x) = 1 .. l /\ \A i \in 1 .. l : Leaves(m, x)[i] \in Int
  BY LeavesAre DEF l
<1>11. Values(Walks(s, x, relative), Base(m), Leaves(m, x), n, l)
  BY <1>1, <1>6, <1>7, <1>8, <1>9, <1>10, Zenon DEF Values
<1> QED
  BY <1>11 DEF n, l

(* The sums over them are XGBoost's margins.                               *)
LEMMA RemainderOfLess ==
  ASSUME NEW n \in Nat \ {0}, NEW k \in 0 .. n - 1, NEW j \in Nat
  PROVE  k % n = k /\ (n + j) % n = j % n
<1>1. k % n = k
  <2>1. k \in Nat /\ k = n * 0 + k /\ 0 \in Nat
    OBVIOUS
  <2> QED
    BY <2>1, QuotientIs
<1>2. (n + j) % n = j % n
  <2>1. PICK q \in Nat, r \in 0 .. n - 1 : q = j \div n /\ r = j % n /\ j = n * q + r
    BY Quotient
  <2>2. PICK t \in Nat, u \in Nat : t = n + j /\ u = q + 1
    <3>1. n + j \in Nat /\ q + 1 \in Nat
      OBVIOUS
    <3> QED
      BY <3>1, Zenon
  <2>3. t = n * u + r
    BY <2>1, <2>2
  <2>4. t % n = r
    BY <2>3, QuotientIs
  <2> QED
    BY <2>1, <2>2, <2>4
<1> QED
  BY <1>1, <1>2

(* The values of the trees of class c, and 0 for the others'.              *)
Only(values, c, n) == [i \in DOMAIN values |-> IF (i - 1) % n = c THEN values[i] ELSE 0]

LEMMA ClassSums ==
  ASSUME NEW n, NEW l, NEW base, NEW leaves, NEW values, Values(values, base, leaves, n, l),
         NEW c \in 0 .. n - 1
  PROVE  ClassSum(values, c, n) = base[c + 1] + ClassSum(leaves, c, n)
<1> DEFINE F == Only(values, c, n)
           G == Only(base, c, n)
           H == Only(leaves, c, n)
<1>0. n \in Nat \ {0} /\ l \in Nat
  BY DEF Values
<1>1. DOMAIN base = 1 .. n /\ DOMAIN leaves = 1 .. l /\ DOMAIN values = 1 .. n + l
  BY DEF Values
<1>2. /\ ClassSum(values, c, n) = TotalOf(F, 1 .. n + l)
      /\ ClassSum(leaves, c, n) = TotalOf(H, 1 .. l)
  BY <1>1 DEF ClassSum, Sum, Only
<1>3. ASSUME NEW k \in 1 .. n
      PROVE  F[k] \in Int /\ F[k] = G[k] /\ G[k] = IF k = c + 1 THEN base[k] ELSE 0
  <2>1. k - 1 \in 0 .. n - 1 /\ k \in 1 .. n + l
    BY <1>0
  <2>2. (k - 1) % n = k - 1
    BY <1>0, <2>1, RemainderOfLess
  <2>3. F[k] = (IF (k - 1) % n = c THEN values[k] ELSE 0)
    BY <1>1, <2>1 DEF Only
  <2>4. G[k] = (IF (k - 1) % n = c THEN base[k] ELSE 0)
    BY <1>1 DEF Only
  <2>5. k - 1 = c <=> k = c + 1
    BY <1>0
  <2>6. base[k] \in Int /\ values[k] = base[k]
    BY DEF Values
  <2> HIDE DEF F, G
  <2> QED
    BY <2>2, <2>3, <2>4, <2>5, <2>6
<1>4. ASSUME NEW i \in 1 .. l
      PROVE  F[n + i] \in Int /\ F[n + i] = H[i]
  <2>1. i - 1 \in Nat /\ (n + i) - 1 = n + (i - 1) /\ n + i \in 1 .. n + l
    BY <1>0
  <2>2. (n + (i - 1)) % n = (i - 1) % n
    <3>1. 0 \in 0 .. n - 1
      BY <1>0
    <3> QED
      BY <1>0, <2>1, <3>1, RemainderOfLess
  <2>3. F[n + i] = (IF ((n + i) - 1) % n = c THEN values[n + i] ELSE 0)
    BY <1>1, <2>1 DEF Only
  <2>4. H[i] = (IF (i - 1) % n = c THEN leaves[i] ELSE 0)
    BY <1>1 DEF Only
  <2>5. ((n + i) - 1) % n = (i - 1) % n
    BY <2>1, <2>2
  <2>6. leaves[i] \in Int /\ values[n + i] = leaves[i]
    BY DEF Values
  <2> HIDE DEF F, H
  <2> QED
    BY <2>3, <2>4, <2>5, <2>6
<1> HIDE DEF F, G, H
<1>5. TotalOf(F, 1 .. n + l) = TotalOf(G, 1 .. n) + TotalOf(H, 1 .. l)
  <2>1. n \in Nat /\ l \in Nat
    BY <1>0
  <2>2. \A i \in 1 .. n : F[i] \in Int /\ F[i] = G[i]
    BY <1>3
  <2>3. Follows(F, G, H, n, l)
    BY <1>4, <2>1, <2>2, Zenon DEF Follows
  <2> QED
    BY <2>1, <2>3, TotalOfJoined
<1>6. TotalOf(G, 1 .. n) = base[c + 1]
  <2>1. PICK d \in 1 .. n : d = c + 1
    BY <1>0
  <2>2. G[d] = base[d] /\ G[d] \in Int /\ \A k \in 1 .. n : k # d => G[k] = 0
    BY <1>3, <2>1
  <2>3. IsFiniteSet(1 .. n)
    BY <1>0, FS_Interval
  <2>4. TotalOf(G, 1 .. n) = G[d]
    BY <2>2, <2>3, TotalOfOne
  <2> QED
    BY <2>1, <2>2, <2>4
<1> QED
  BY <1>2, <1>5, <1>6

LEMMA AllSums ==
  ASSUME NEW n, NEW l, NEW base, NEW leaves, NEW values, Values(values, base, leaves, n, l)
  PROVE  /\ Sum(values) = Sum(base) + Sum(leaves) /\ Sum(leaves) \in Int
         /\ n = 2 /\ base[1] = 0 => Sum(base) = base[2] /\ base[2] \in Int
<1>0. n \in Nat /\ l \in Nat /\ IsFiniteSet(1 .. n) /\ IsFiniteSet(1 .. l)
  <2>1. n \in Nat /\ l \in Nat
    BY DEF Values
  <2> QED
    BY <2>1, FS_Interval
<1>1. /\ Sum(values) = TotalOf(values, 1 .. n + l) /\ Sum(base) = TotalOf(base, 1 .. n)
      /\ Sum(leaves) = TotalOf(leaves, 1 .. l)
  BY DEF Sum, Values
<1>2. \A k \in 1 .. n : values[k] \in Int /\ values[k] = base[k]
  BY DEF Values
<1>3. \A i \in 1 .. l : values[n + i] \in Int /\ values[n + i] = leaves[i]
  BY DEF Values
<1>4. TotalOf(values, 1 .. n + l) = TotalOf(base, 1 .. n) + TotalOf(leaves, 1 .. l)
  <2>1. Follows(values, base, leaves, n, l)
    BY <1>0, <1>2, <1>3, Zenon DEF Follows
  <2> QED
    BY <1>0, <2>1, TotalOfJoined
<1>5. TotalOf(leaves, 1 .. l) \in Int
  <2>1. \A i \in 1 .. l : leaves[i] \in Int
    BY <1>3
  <2> QED
    BY <1>0, <2>1, TotalOfIntegers
<1>6. ASSUME n = 2, base[1] = 0
      PROVE  TotalOf(base, 1 .. n) = base[2] /\ base[2] \in Int
  <2>1. PICK d \in 1 .. n : d = 2
    BY <1>6
  <2>2. base[d] \in Int /\ \A k \in 1 .. n : k # d => base[k] = 0
    BY <1>2, <1>6, <2>1
  <2>3. TotalOf(base, 1 .. n) = base[d]
    BY <1>0, <2>2, TotalOfOne, Zenon
  <2> QED
    BY <2>1, <2>2, <2>3
<1> QED
  BY <1>1, <1>4, <1>5, <1>6

(* The runtime's class is XGBoost's.                                       *)
LEMMA SameClass ==
  ASSUME NEW m, Exportable(m), NEW x, NEW s, NEW relative \in BOOLEAN,
         Holds(s, Exported(m), relative), s.labels = m.classes
  PROVE  RuntimeClass(s, x, relative) = XgbPredict(m.booster, x)
<1> DEFINE n == Len(m.classes)
           l == Len(m.booster.trees)
           scores == m.booster.base_score
           leaves == Leaves(m, x)
           values == Walks(s, x, relative)
<1>1. Values(values, Base(m), leaves, n, l)
  BY WalksAre
<1>2. RuntimeClass(s, x, relative) =
        IF n <= 2 THEN IF Sum(values) > 0 THEN 1 ELSE 0
        ELSE FirstLargest([k \in 1 .. n |-> ClassSum(values, k - 1, n)]) - 1
  BY DEF RuntimeClass, Walks
<1>3. XgbPredict(m.booster, x) =
        IF n <= 2 THEN IF Sum(leaves) + Logit(scores[1]) > 0 THEN 1 ELSE 0
        ELSE FirstLargest([k \in 1 .. n |->
               scores[IF Len(scores) = 1 THEN 1 ELSE k] + ClassSum(leaves, k - 1, n)]) - 1
  BY BaseIs DEF XgbPredict, Leaves
<1>4. n \in Nat /\ n >= 2
  BY BaseIs
<1>5. n = 2 => Base(m)[1] = 0 /\ Base(m)[2] = Logit(scores[1])
  BY BaseIs
<1>6. (n > 2 => Base(m) = scores) /\ Len(Base(m)) = n
  BY BaseIs
<1> HIDE DEF n, l, scores, leaves, values
<1>7. CASE n = 2
  <2>1. Sum(values) = Sum(leaves) + Logit(scores[1])
    <3>1. /\ Sum(values) = Sum(Base(m)) + Sum(leaves) /\ Sum(leaves) \in Int
          /\ n = 2 /\ Base(m)[1] = 0 => Sum(Base(m)) = Base(m)[2] /\ Base(m)[2] \in Int
      BY <1>1, AllSums, Zenon
    <3> QED
      BY <1>5, <1>7, <3>1
  <2> QED
    BY <1>2, <1>3, <1>7, <2>1
<1>8. CASE n # 2
  <2>1. ~ n <= 2 /\ Base(m) = scores /\ Len(scores) # 1
    <3>1. n > 2
      BY <1>4, <1>8
    <3>2. Base(m) = scores
      BY <1>6, <3>1
    <3>3. Len(scores) = n
      BY <1>6, <3>2
    <3> QED
      BY <1>4, <3>1, <3>2, <3>3
  <2>2. ASSUME NEW k \in 1 .. n
        PROVE  ClassSum(values, k - 1, n) =
                 scores[IF Len(scores) = 1 THEN 1 ELSE k] + ClassSum(leaves, k - 1, n)
    <3>1. PICK c \in 0 .. n - 1 : c = k - 1 /\ c + 1 = k
      BY <1>4
    <3>2. ClassSum(values, c, n) = Base(m)[c + 1] + ClassSum(leaves, c, n)
      BY <1>1, ClassSums
    <3> QED
      BY <1>6, <1>8, <2>1, <3>1, <3>2
  <2>3. [k \in 1 .. n |-> ClassSum(values, k - 1, n)] =
          [k \in 1 .. n |->
             scores[IF Len(scores) = 1 THEN 1 ELSE k] + ClassSum(leaves, k - 1, n)]
    BY <2>2
  <2> QED
    BY <1>2, <1>3, <2>1, <2>3, Zenon
<1> QED
  BY <1>7, <1>8


LEMMA ThreeClassifiers == Classifiers = {"core", "priority", "preempt"}
<1>1. DOMAIN XGB_CASCADE_ORDER = {1, 2, 3}
  BY DEF XGB_CASCADE_ORDER
<1>2. /\ XGB_CASCADE_ORDER[1] = "core" /\ XGB_CASCADE_ORDER[2] = "priority"
      /\ XGB_CASCADE_ORDER[3] = "preempt"
  BY DEF XGB_CASCADE_ORDER
<1> QED
  BY <1>1, <1>2 DEF Classifiers, Range

(* The cascade: each classifier sees the labels predicted before it.       *)
LEMMA SameCascade ==
  ASSUME NEW m, NEW arrays, NEW relative \in BOOLEAN, NEW x,
         \A name \in Classifiers : /\ Exportable(m[name])
                                   /\ Holds(arrays[name], Exported(m[name]), relative)
                                   /\ arrays[name].labels = m[name].classes
  PROVE  RuntimePredict(arrays, x, relative) = predict(m, x)
<1>1. "core" \in Classifiers /\ "priority" \in Classifiers /\ "preempt" \in Classifiers
  BY ThreeClassifiers
<1>2. /\ Exportable(m.core) /\ Holds(arrays.core, Exported(m.core), relative)
      /\ arrays.core.labels = m.core.classes
  BY <1>1
<1>3. /\ Exportable(m.priority) /\ Holds(arrays.priority, Exported(m.priority), relative)
      /\ arrays.priority.labels = m.priority.classes
  BY <1>1
<1>4. /\ Exportable(m.preempt) /\ Holds(arrays.preempt, Exported(m.preempt), relative)
      /\ arrays.preempt.labels = m.preempt.classes
  BY <1>1
<1>5. \A y : RuntimeClass(arrays.core, y, relative) = XgbPredict(m.core.booster, y)
  BY <1>2, SameClass, Zenon
<1>6. \A y : RuntimeClass(arrays.priority, y, relative) = XgbPredict(m.priority.booster, y)
  BY <1>3, SameClass, Zenon
<1>7. \A y : RuntimeClass(arrays.preempt, y, relative) = XgbPredict(m.preempt.booster, y)
  BY <1>4, SameClass, Zenon
<1> DEFINE core == m.core.classes[XgbPredict(m.core.booster, x) + 1]
           with_core == Append(x, core)
           priority == m.priority.classes[XgbPredict(m.priority.booster, with_core) + 1]
           with_both == Append(with_core, priority)
           preempt == m.preempt.classes[XgbPredict(m.preempt.booster, with_both) + 1]
<1>8. predict(m, x) = <<core, priority, preempt>>
  BY DEF predict
<1>9. core = arrays.core.labels[RuntimeClass(arrays.core, x, relative) + 1]
  BY <1>2, <1>5, Zenon
<1> HIDE DEF core
<1>10. priority = arrays.priority.labels[RuntimeClass(arrays.priority, with_core, relative) + 1]
  BY <1>3, <1>6, Zenon
<1> HIDE DEF priority
<1>11. preempt = arrays.preempt.labels[RuntimeClass(arrays.preempt, with_both, relative) + 1]
  BY <1>4, <1>7, Zenon
<1> HIDE DEF preempt
<1>12. RuntimePredict(arrays, x, relative) = <<core, priority, preempt>>
  BY <1>9, <1>10, <1>11, Zenon DEF RuntimePredict
<1> QED
  BY <1>8, <1>12

(* The files of a model, and that both hold its trees.                     *)
CanExport(m) == m \in Models /\ \A name \in Classifiers : HasMargins(m[name])
SectionsOf(m) == [name \in Classifiers |-> Section(TreesOf(m[name]))]
SourcesOf(m) == [name \in Classifiers |-> SourceArrays(TreesOf(m[name]))]

LEMMA FilesPredict ==
  ASSUME NEW m, CanExport(m), NEW x
  PROVE  /\ RuntimePredict(SectionsOf(m), x, FALSE) = predict(m, x)
         /\ RuntimePredict(SourcesOf(m), x, TRUE) = predict(m, x)
<1>1. ASSUME NEW name \in Classifiers
      PROVE  /\ Exportable(m[name]) /\ Exported(m[name]) \in Seq(Seq(FlatNode))
             /\ TreesOf(m[name]).trees = Exported(m[name])
             /\ TreesOf(m[name]).label_classes = m[name].classes
  <2>1. IsClassifier(m[name])
    BY ModelsAssumption, ThreeClassifiers DEF CanExport
  <2>2. Exportable(m[name])
    BY <2>1 DEF CanExport, Exportable
  <2>3. TreesOf(m[name]).label_classes = m[name].classes
    BY DEF TreesOf
  <2> QED
    BY <2>2, <2>3, ExportedTrees DEF Exported
<1>2. ASSUME NEW name \in Classifiers
      PROVE  /\ Holds(SectionsOf(m)[name], Exported(m[name]), FALSE)
             /\ SectionsOf(m)[name].labels = m[name].classes
  <2>1. SectionsOf(m)[name] = Section(TreesOf(m[name]))
    BY DEF SectionsOf
  <2>2. Holds(Section(TreesOf(m[name])), Exported(m[name]), FALSE)
    BY <1>1, SectionHolds
  <2>3. Section(TreesOf(m[name])).labels = TreesOf(m[name]).label_classes
    BY DEF Section
  <2> QED
    BY <1>1, <2>1, <2>2, <2>3
<1>3. ASSUME NEW name \in Classifiers
      PROVE  /\ Holds(SourcesOf(m)[name], Exported(m[name]), TRUE)
             /\ SourcesOf(m)[name].labels = m[name].classes
  <2>1. SourcesOf(m)[name] = SourceArrays(TreesOf(m[name]))
    BY DEF SourcesOf
  <2>2. Holds(SourceArrays(TreesOf(m[name])), Exported(m[name]), TRUE)
    BY <1>1, SourceHolds
  <2>3. SourceArrays(TreesOf(m[name])).labels = TreesOf(m[name]).label_classes
    BY DEF SourceArrays
  <2> QED
    BY <1>1, <2>1, <2>2, <2>3
<1>4. RuntimePredict(SectionsOf(m), x, FALSE) = predict(m, x)
  BY <1>1, <1>2, SameCascade, Zenon
<1>5. RuntimePredict(SourcesOf(m), x, TRUE) = predict(m, x)
  BY <1>1, <1>3, SameCascade, Zenon
<1> QED
  BY <1>4, <1>5

(* Between two steps of an export the files are those of the saved model;  *)
(* when it is done they are of one model, which a later training may have  *)
(* replaced.                                                               *)
XgbInv ==
  /\ saved_model \in Models \cup {None}
  /\ export_pc \in {"idle", "packed", "written"}
  /\ export_pc # "idle" =>
       /\ CanExport(saved_model)
       /\ flattened = [name \in Classifiers |-> TreesOf(saved_model[name])]
  /\ export_pc = "written" => blob = SectionsOf(saved_model)
  /\ export_pc = "idle" /\ blob # None =>
       \E m \in Models : /\ CanExport(m) /\ blob = SectionsOf(m)
                         /\ expected = [x \in Inputs |-> predict(m, x)]
                         /\ with_source => c_source = SourcesOf(m)

LEMMA XgbInductive == XgbInv /\ [XgbNext]_xgbVars => XgbInv'
<1> SUFFICES ASSUME XgbInv, [XgbNext]_xgbVars PROVE XgbInv'
  OBVIOUS
<1>1. CASE TrainCascade
  <2>1. saved_model' \in Models \cup {None}
    BY <1>1 DEF TrainCascade
  <2>2. export_pc' = "idle" /\ export_pc = "idle"
    BY <1>1 DEF TrainCascade
  <2>3. UNCHANGED <<blob, expected, with_source, c_source>>
    BY <1>1 DEF TrainCascade
  <2> QED
    BY <2>1, <2>2, <2>3, Zenon DEF XgbInv
<1>2. CASE Pack
  <2>1. export_pc' = "packed" /\ saved_model' = saved_model /\ saved_model # None
    BY <1>2 DEF Pack
  <2>2. saved_model \in Models \cup {None}
    BY DEF XgbInv
  <2>3. CanExport(saved_model)
    BY <1>2, <2>1, <2>2 DEF CanExport, Pack
  <2>4. flattened' = [name \in Classifiers |-> TreesOf(saved_model[name])]
    BY <1>2 DEF Pack
  <2> QED
    BY <2>1, <2>2, <2>3, <2>4 DEF XgbInv
<1>3. CASE WriteBlob
  <2>1. /\ export_pc = "packed" /\ export_pc' = "written"
        /\ UNCHANGED <<saved_model, flattened>>
        /\ blob' = [name \in Classifiers |-> Section(flattened[name])]
    BY <1>3 DEF WriteBlob
  <2>2. /\ CanExport(saved_model) /\ saved_model \in Models \cup {None}
        /\ flattened = [name \in Classifiers |-> TreesOf(saved_model[name])]
    BY <2>1 DEF XgbInv
  <2>3. blob' = SectionsOf(saved_model)
    BY <2>1, <2>2 DEF SectionsOf
  <2> QED
    BY <2>1, <2>2, <2>3 DEF XgbInv
<1>4. ASSUME NEW emit_c_source \in BOOLEAN, Verify(emit_c_source) PROVE XgbInv'
  <2>1. /\ export_pc = "written" /\ export_pc' = "idle" /\ UNCHANGED <<saved_model, blob>>
        /\ expected' = [x \in Inputs |-> predict(saved_model, x)]
        /\ with_source' = emit_c_source
        /\ emit_c_source => c_source' = [name \in Classifiers |-> SourceArrays(flattened[name])]
    BY <1>4 DEF Verify
  <2>2. /\ CanExport(saved_model) /\ saved_model \in Models \cup {None}
        /\ flattened = [name \in Classifiers |-> TreesOf(saved_model[name])]
        /\ blob = SectionsOf(saved_model)
    BY <2>1 DEF XgbInv
  <2>3. with_source' => c_source' = SourcesOf(saved_model)
    BY <2>1, <2>2 DEF SourcesOf
  <2>4. saved_model \in Models
    BY <2>2 DEF CanExport
  <2> QED
    BY <2>1, <2>2, <2>3, <2>4, Zenon DEF XgbInv
<1>5. CASE UNCHANGED xgbVars
  BY <1>5, Zenon DEF xgbVars, XgbInv
<1> QED
  BY <1>1, <1>2, <1>3, <1>4, <1>5 DEF XgbNext

LEMMA XgbInvMatches == XgbInv => ExportMatchesVectors
<1> SUFFICES ASSUME XgbInv, export_pc = "idle", blob # None, NEW x \in Inputs
             PROVE  /\ RuntimePredict(blob, x, FALSE) = expected[x]
                    /\ with_source => RuntimePredict(c_source, x, TRUE) = expected[x]
  BY Zenon DEF ExportMatchesVectors
<1>1. PICK m \in Models : /\ CanExport(m) /\ blob = SectionsOf(m)
                          /\ expected = [y \in Inputs |-> predict(m, y)]
                          /\ with_source => c_source = SourcesOf(m)
  BY Zenon DEF XgbInv
<1>2. expected[x] = predict(m, x)
  BY <1>1
<1> QED
  BY <1>1, <1>2, FilesPredict, Zenon

(* Whatever trees, base scores and labels the training saves, between      *)
(* exports the walk through the blob predicts for every input what the     *)
(* model it came from predicts, as the test vectors say; and so does the   *)
(* walk through the C source of the same export (export_xgboost).          *)
THEOREM XgbExportsPredict == XgbSpec => []ExportMatchesVectors
<1>1. XgbInit => XgbInv
  BY DEF XgbInit, XgbInv
<1> QED
  BY <1>1, XgbInductive, XgbInvMatches, PTL DEF XgbSpec
=============================================================================

------------------------------ MODULE HostEval ------------------------------
(***************************************************************************)
(* The three scripts that prepare and evaluate the model on the host:      *)
(* run_onnx.py (the ONNX model), run_modelsdk.py (quantise, evaluate,      *)
(* compile) and run_accelmode.py (the quantised model on a board), run one *)
(* after the other on one build folder, any of them ending early, also in  *)
(* the middle of removing a folder, which rmtree does file by file, or of  *)
(* writing what the compiler made.  The boxes are those of Detection.      *)
(*                                                                         *)
(* A Python dictionary that is passed on is a reference: `heap` holds what *)
(* each of them maps the model's input to (an image), and lists hold       *)
(* dictionaries, not images.                                               *)
(***************************************************************************)
EXTENDS Detection, Sequences

CONSTANTS
  NTest,      (* images in test_dir, at most num_test_images of them used   *)
  NCalib,     (* images in calib_dir, at most num_calib_images of them used *)
  MaxRuns,    (* bound on the scripts started                               *)
  MaxFaults   (* bound on the scripts that end early and on failed writes   *)

ASSUME HostConstants ==
  NTest \in Nat /\ NCalib \in Nat /\ MaxRuns \in Nat /\ MaxFaults \in Nat

Scripts == {"onnx", "modelsdk", "accel"}
Images  == 1 .. Larger(NTest, NCalib)
NoImage == 0
Absent  == 0          \* of a file that does not exist
ResultFiles == {"model", "archive", "json", "elf"}
NOutputs == 3         \* tensors of one inference

VARIABLES
  script, run,  (* the script that runs, and the number of this run         *)
  evaluate,     (* its --evaluate flag                                      *)
  pc,           (* where it is, "idle" when none runs                       *)
  it,           (* images the iterator of its current loop has given        *)
  i,            (* the variable `i`                                         *)
  heap,         (* dictionary -> the image it holds                         *)
  samples,      (* calib_data or test_data: a list of dictionaries          *)
  pictures,     (* original_images                                          *)
  pred,         (* the images whose outputs the accelerator returned        *)
  file, picture, outputOf,  (* filename, img_bgr, and the image of `output` *)
  folder,       (* annotated images of each script's folder                 *)
  results,      (* results_dir: the quantised model, the archive of the     *)
                (* compiled one and the two files extracted from it: the    *)
                (* run each is of, or Absent                                *)
  calibrated,   (* images quantize() saw in the last calibration            *)
  outcome,      (* how the last script ended                                *)
  unwritten,    (* history: images of this run that imwrite failed on       *)
  faults

fsVars    == <<folder, results>>
loopVars  == <<it, i, heap, samples, pictures, pred>>
imageVars == <<file, picture, outputOf>>
runVars   == <<script, run, evaluate>>
hostVars  == <<script, run, evaluate, pc, it, i, heap, samples, pictures, pred,
               file, picture, outputOf, folder, results, calibrated,
               outcome, unwritten, faults>>
vars == <<nmsVars, hostVars>>

Init ==
  /\ NmsInit
  /\ script = "onnx" /\ run = 0 /\ evaluate = FALSE /\ pc = "idle"
  /\ it = 0 /\ i = 0 /\ heap = <<>> /\ samples = <<>>
  /\ pictures = <<>> /\ pred = <<>>
  /\ file = NoImage /\ picture = NoImage /\ outputOf = NoImage
  /\ folder = [s \in Scripts |-> {}]
  /\ results = [f \in ResultFiles |-> Absent]
  /\ calibrated = {} /\ outcome = "none" /\ unwritten = {} /\ faults = 0

FreshLocals ==
  /\ it' = 0 /\ i' = 0 /\ heap' = <<>> /\ samples' = <<>>
  /\ pictures' = <<>> /\ pred' = <<>>
  /\ file' = NoImage /\ picture' = NoImage /\ outputOf' = NoImage

Start(s, e) ==
  /\ pc = "idle" /\ run < MaxRuns
  /\ e => s = "modelsdk"
  /\ script' = s /\ run' = run + 1 /\ evaluate' = e
  /\ pc' = IF s = "modelsdk" THEN "results" ELSE "clean"
  /\ FreshLocals
  /\ outcome' = "none" /\ unwritten' = {}
  /\ UNCHANGED <<nmsVars, folder, results, calibrated, faults>>

-----------------------------------------------------------------------------
(* Folders and the model.                                                  *)

(* rmtree of the folder of annotated images, a file at a time, and mkdir.  *)
CleanFolder ==
  /\ pc = "clean"
  /\ \/ /\ \E f \in folder[script] : folder' = [folder EXCEPT ![script] = @ \ {f}]
        /\ UNCHANGED <<pc, it>>
     \/ /\ folder[script] = {}
        /\ pc' = IF script = "modelsdk" THEN "next" ELSE "load"
        /\ it' = 0
        /\ UNCHANGED folder
  /\ UNCHANGED <<nmsVars, runVars, i, heap, samples, pictures, pred, imageVars,
                 results, calibrated, outcome, unwritten, faults>>

(* Faulty variant: mkdir accepts a results_dir that exists.                *)
CleanResultsKept ==
  /\ pc = "results"
  /\ pc' = "load"
  /\ UNCHANGED <<nmsVars, runVars, loopVars, imageVars, fsVars, calibrated,
                 outcome, unwritten, faults>>

(* rmtree of results_dir, a file at a time in any order, and mkdir.        *)
CleanResults ==
  /\ pc = "results"
  /\ \/ /\ \E f \in ResultFiles :
             results[f] # Absent /\ results' = [results EXCEPT ![f] = Absent]
        /\ UNCHANGED pc
     \/ /\ \A f \in ResultFiles : results[f] = Absent
        /\ pc' = "load"
        /\ UNCHANGED results
  /\ UNCHANGED <<nmsVars, runVars, loopVars, imageVars, folder, calibrated,
                 outcome, unwritten, faults>>

(* The ONNX model, or the quantised one, which must exist.                 *)
LoadModel ==
  /\ pc = "load"
  /\ script = "accel" => results["model"] # Absent
  /\ pc' = CASE script = "onnx" -> "next"
             [] script = "modelsdk" -> "prep"
             [] script = "accel" -> "collect"
  /\ heap' = IF script = "modelsdk" THEN <<NoImage>> ELSE heap
  /\ UNCHANGED <<nmsVars, runVars, it, i, samples, pictures, pred, imageVars,
                 fsVars, calibrated, outcome, unwritten, faults>>

(* A turn of the loop of _data_prep: every turn stores its image in the    *)
(* one dictionary made before the loop, and appends that dictionary.       *)
DataPrep ==
  /\ pc = "prep" /\ it < NCalib
  /\ it' = it + 1 /\ i' = it + 1
  /\ heap' = [heap EXCEPT ![1] = it + 1]
  /\ samples' = Append(samples, 1)
  /\ UNCHANGED <<nmsVars, runVars, pc, pictures, pred, imageVars, fsVars,
                 calibrated, outcome, unwritten, faults>>

(* quantize() and save().                                                  *)
Quantize ==
  /\ pc = "prep" /\ it = NCalib
  /\ calibrated' = {heap[samples[k]] : k \in DOMAIN samples}
  /\ results' = [results EXCEPT !["model"] = run]
  /\ pc' = IF evaluate THEN "clean" ELSE "compile"
  /\ UNCHANGED <<nmsVars, runVars, loopVars, imageVars, folder,
                 outcome, unwritten, faults>>

(* Faulty variant: the dictionary is made once, before the loop.           *)
CollectTestShared ==
  /\ pc = "collect" /\ it < NTest
  /\ it' = it + 1 /\ i' = it + 1
  /\ heap' = <<it + 1>>
  /\ samples' = Append(samples, 1)
  /\ pictures' = Append(pictures, it + 1)
  /\ UNCHANGED <<nmsVars, runVars, pc, pred, imageVars, fsVars, calibrated,
                 outcome, unwritten, faults>>

(* A turn of run_accelmode's first loop, with a dictionary of its own.     *)
CollectTest ==
  /\ pc = "collect" /\ it < NTest
  /\ it' = it + 1 /\ i' = it + 1
  /\ heap' = Append(heap, it + 1)
  /\ samples' = Append(samples, it + 1)
  /\ pictures' = Append(pictures, it + 1)
  /\ UNCHANGED <<nmsVars, runVars, pc, pred, imageVars, fsVars, calibrated,
                 outcome, unwritten, faults>>

(* execute_in_accelerator_mode answers with the outputs in the order of    *)
(* the samples.                                                            *)
ExecuteOnBoard ==
  /\ pc = "collect" /\ it = NTest
  /\ pred' = [k \in DOMAIN samples |-> heap[samples[k]]]
  /\ it' = 0 /\ pc' = "next"
  /\ UNCHANGED <<nmsVars, runVars, i, heap, samples, pictures, imageVars, fsVars,
                 calibrated, outcome, unwritten, faults>>

-----------------------------------------------------------------------------
(* The evaluation loop: name, picture and outputs of the next image, then  *)
(* Detection's loop, then drawing and writing.                             *)

(* Faulty variant: the loop is stepped by `i`, which inner loops reuse.    *)
NextImageByI ==
  /\ pc = "next" /\ phase = "idle" /\ i < NTest
  /\ i' = IF script = "onnx" THEN NOutputs ELSE i + 1
  /\ it' = i + 1
  /\ file' = i + 1
  /\ picture'  = IF script = "accel" THEN pictures[i + 1] ELSE i + 1
  /\ outputOf' = IF script = "accel" THEN pred[i + 1] ELSE i + 1
  /\ Postprocess
  /\ pc' = "draw"
  /\ UNCHANGED <<runVars, heap, samples, pictures, pred, fsVars, calibrated,
                 outcome, unwritten, faults>>

(* run_onnx counts the output tensors with `i` again when it transposes.   *)
NextImage ==
  /\ pc = "next" /\ phase = "idle" /\ it < NTest
  /\ it' = it + 1
  /\ i' = IF script = "onnx" THEN NOutputs ELSE it + 1
  /\ file' = it + 1
  /\ picture'  = IF script = "accel" THEN pictures[it + 1] ELSE it + 1
  /\ outputOf' = IF script = "accel" THEN pred[it + 1] ELSE it + 1
  /\ Postprocess
  /\ pc' = "draw"
  /\ UNCHANGED <<runVars, heap, samples, pictures, pred, fsVars, calibrated,
                 outcome, unwritten, faults>>

Suppress ==
  /\ pc = "draw" /\ KeepBest
  /\ UNCHANGED hostVars

Annotation == [name |-> file, picture |-> picture, boxes |-> outputOf, run |-> run]

(* The loop that draws counts the boxes with `i`.                          *)
DrawLoop == i' = IF keep = {} THEN i ELSE Cardinality(keep)

Write ==
  /\ pc = "draw" /\ left = {} /\ DrawLoop /\ UseBoxes
  /\ folder' = [folder EXCEPT ![script] = {f \in @ : f.name # file} \cup {Annotation}]
  /\ pc' = "next"
  /\ UNCHANGED <<runVars, it, heap, samples, pictures, pred, imageVars, results,
                 calibrated, outcome, unwritten, faults>>

(* "ERROR: Image write failed!", and the loop goes on.                     *)
WriteFails ==
  /\ pc = "draw" /\ left = {} /\ faults < MaxFaults /\ DrawLoop /\ UseBoxes
  /\ unwritten' = unwritten \cup {file}
  /\ faults' = faults + 1
  /\ pc' = "next"
  /\ UNCHANGED <<runVars, it, heap, samples, pictures, pred, imageVars, fsVars,
                 calibrated, outcome>>

EndOfImages ==
  /\ pc = "next" /\ it >= NTest
  /\ pc' = IF script = "modelsdk" THEN "compile" ELSE "idle"
  /\ outcome' = IF script = "modelsdk" THEN outcome ELSE "ok"
  /\ UNCHANGED <<nmsVars, runVars, loopVars, imageVars, fsVars, calibrated,
                 unwritten, faults>>

(* compile() writes the archive ...                                        *)
Compile ==
  /\ pc = "compile"
  /\ results' = [results EXCEPT !["archive"] = run]
  /\ pc' = "extractJson"
  /\ UNCHANGED <<nmsVars, runVars, loopVars, imageVars, folder, calibrated,
                 outcome, unwritten, faults>>

(* ... that two files are extracted from.                                  *)
ExtractJson ==
  /\ pc = "extractJson"
  /\ results' = [results EXCEPT !["json"] = results["archive"]]
  /\ pc' = "extractElf"
  /\ UNCHANGED <<nmsVars, runVars, loopVars, imageVars, folder, calibrated,
                 outcome, unwritten, faults>>

ExtractElf ==
  /\ pc = "extractElf"
  /\ results' = [results EXCEPT !["elf"] = results["archive"]]
  /\ pc' = "idle" /\ outcome' = "ok"
  /\ UNCHANGED <<nmsVars, runVars, loopVars, imageVars, folder, calibrated,
                 unwritten, faults>>

(* An exception of any call above, or the end of the process: nothing is   *)
(* cleaned up.                                                             *)
EndsEarly ==
  /\ pc # "idle"
  /\ \/ faults < MaxFaults /\ faults' = faults + 1
     \/ pc = "load" /\ script = "accel" /\ results["model"] = Absent /\ UNCHANGED faults
  /\ pc' = "idle" /\ outcome' = "failed"
  /\ IF phase = "nms" THEN UseBoxes ELSE UNCHANGED nmsVars
  /\ UNCHANGED <<runVars, loopVars, imageVars, fsVars, calibrated, unwritten>>

Loop == \/ CleanFolder \/ CleanResults \/ LoadModel \/ DataPrep \/ Quantize
        \/ CollectTest \/ ExecuteOnBoard \/ NextImage \/ Suppress \/ Write
        \/ EndOfImages \/ Compile \/ ExtractJson \/ ExtractElf

Next == \/ \E s \in Scripts, e \in BOOLEAN : Start(s, e)
        \/ Loop \/ WriteFails \/ EndsEarly

Spec == Init /\ [][Next]_vars

-----------------------------------------------------------------------------
(* An annotated image shows, under its own name, its own picture with the  *)
(* boxes computed from it: although `i` is reused by the loops inside, and *)
(* although run_accelmode evaluates all images before it looks at any.     *)
AnnotationIsOwn ==
  \A s \in Scripts : \A f \in folder[s] : f.name = f.picture /\ f.boxes = f.picture

(* What a script that ended well leaves: every image, but those whose      *)
(* write was reported as failed.                                           *)
EveryImageWritten ==
  (outcome = "ok" /\ (script = "modelsdk" => evaluate)) =>
    {f.name : f \in folder[script]} = (1 .. NTest) \ unwritten

(* What is on disk is of one run, wherever runs ended and whatever they    *)
(* left half removed or half written: a folder never mixes the annotated   *)
(* images of two, nor results_dir the models and benchmark files of two;   *)
(* and a run of run_modelsdk that ended well left all of its files.        *)
FolderIsOneRun ==
  \A s \in Scripts : \A f, g \in folder[s] : f.run = g.run

ResultsAreOneRun ==
  \A f, g \in ResultFiles :
    results[f] # Absent /\ results[g] # Absent => results[f] = results[g]

ResultsComplete ==
  script = "modelsdk" /\ outcome = "ok" => \A f \in ResultFiles : results[f] = run

DiskIsOfOneRun == FolderIsOneRun /\ ResultsAreOneRun /\ ResultsComplete

(* README.md: the model is quantised with the images of calib_dir.         *)
EveryCalibrationImageSeen == results["model"] # Absent => calibrated = 1 .. NCalib
=============================================================================

----------------------------- MODULE FrameGraph -----------------------------
(***************************************************************************)
(* The graph of application.json up to the pads of the overlay: the        *)
(* decoder's tee pushes every frame to two branches.  The video branch is  *)
(* a queue2.  The model branch is a queue2, the preproc element            *)
(* (simaaiprocesscvu), the MLA element (simaaiprocessmla), which runs in   *)
(* the task of preproc, and detess_dequant (simaaiprocesscvu again).       *)
(*                                                                         *)
(* Abstractions: a buffer is the number of its frame, Eos the event that   *)
(* follows the last.  The metadata is what processcvu asks of its input:   *)
(* all the fields it needs, or not; each element writes a complete set.    *)
(* The pools of the CVU elements hold 5 buffers, more than can be under    *)
(* way, so only the pool of the MLA element is counted.                    *)
(***************************************************************************)
EXTENDS Integers, Sequences, FiniteSets

CONSTANTS
  NFrames,     (* frames the source sends before its end                    *)
  QueueSize,   (* buffers that fit in a queue2                              *)
  MlaBuffers,  (* no_of_obufs: buffers of the MLA element's pool            *)
  Fields,      (* metadata fields read and written                          *)
  MaxMissing,  (* bound on the buffers that lack a field                    *)
  MaxFaults    (* bound on the calls that fail                              *)

ASSUME FrameGraphConstants ==
  /\ NFrames \in Nat /\ QueueSize \in Nat \ {0}
  /\ MlaBuffers \in Nat \ {0, 1}       \* MIN_POOL_SIZE
  /\ MaxMissing \in Nat /\ MaxFaults \in Nat

Frames == 1 .. NFrames
Eos    == NFrames + 1
Pads   == 1 .. 2          \* sink_0: the model branch, sink_1: the video
Model  == 1
Video  == 2

VARIABLES
  decoded,   (* frames the decoder has put out, Eos included                *)
  has,       (* the fields in the metadata of each frame's buffer           *)
  owed,      (* pads whose branch the tee has still to push that frame to   *)
  queue,     (* the queue2 of each branch                                   *)
  pre,       (* preproc's sink pad: a sequence of at most one               *)
  task,      (* preproc's task: idle, calling the MLA element, pushing, over*)
  sent,      (* the frame in its hands, Eos after a failure                 *)
  free,      (* buffers in the pool of the MLA element                      *)
  lost,      (* frames the MLA element failed on                            *)
  mid,       (* detess_dequant's sink pad                                   *)
  detess, result,  (* its task, and the frame in its hands                  *)
  pad,       (* the buffer on each pad of the overlay                       *)
  eos,       (* its pads that have seen EOS                                 *)
  missing, faults

tee   == <<decoded, has, owed>>
first == <<pre, task, sent>>
last  == <<mid, detess, result>>
graphVars == <<tee, queue, first, free, lost, last, pad, eos>>

GraphInit ==
  /\ decoded = 0 /\ has = [f \in Frames |-> Fields] /\ owed = {}
  /\ queue = [p \in Pads |-> <<>>]
  /\ pre = <<>> /\ task = "idle" /\ sent = 0
  /\ free = MlaBuffers /\ lost = {}
  /\ mid = <<>> /\ detess = "idle" /\ result = 0
  /\ pad = [p \in Pads |-> <<>>] /\ eos = {}
  /\ missing = 0 /\ faults = 0

Fault == faults < MaxFaults /\ faults' = faults + 1
Returned(f) == IF f = Eos THEN 0 ELSE 1
-----------------------------------------------------------------------------
(* The decoder's next frame, or the end of the stream.                     *)
DecodeFrame ==
  /\ owed = {} /\ decoded < Eos
  /\ decoded' = decoded + 1 /\ owed' = Pads
  /\ \/ UNCHANGED <<has, missing>>
     \/ /\ decoded' # Eos /\ missing < MaxMissing /\ missing' = missing + 1
        /\ \E fs \in SUBSET Fields \ {Fields} : has' = [has EXCEPT ![decoded'] = fs]
  /\ UNCHANGED <<queue, first, free, lost, last, pad, eos, faults>>

(* The tee pushes it to its first branch, then to the second; a queue that *)
(* is full blocks it.                                                      *)
TeePush(p) ==
  /\ p \in owed /\ \A o \in owed : p <= o
  /\ Len(queue[p]) < QueueSize
  /\ queue' = [queue EXCEPT ![p] = Append(@, decoded)]
  /\ owed' = owed \ {p}
  /\ UNCHANGED <<decoded, has, first, free, lost, last, pad, eos, missing, faults>>

(* The thread of a queue2; a pad that holds a buffer blocks it.            *)
Dequeue(p) ==
  /\ queue[p] # <<>> /\ queue' = [queue EXCEPT ![p] = Tail(@)]
  /\ LET f == Head(queue[p]) IN
     IF p = Model THEN pre = <<>> /\ pre' = <<f>> /\ UNCHANGED <<pad, eos>>
     ELSE /\ pad[p] = <<>> /\ UNCHANGED pre
          /\ IF f = Eos THEN eos' = eos \cup {p} /\ UNCHANGED pad
             ELSE pad' = [pad EXCEPT ![p] = <<f>>] /\ UNCHANGED eos
  /\ UNCHANGED <<tee, task, sent, free, lost, last, missing, faults>>
-----------------------------------------------------------------------------
(* preproc's aggregate().  A buffer that lacks a field is not listed, and  *)
(* the job finds no input; at the end of the stream there is no buffer at  *)
(* all.  Every error ends the task, which sends EOS on.                    *)
Preproc ==
  /\ task = "idle" /\ pre # <<>> /\ pre' = <<>>
  /\ IF pre[1] # Eos /\ has[pre[1]] = Fields
       THEN \/ task' = "mla" /\ sent' = pre[1] /\ UNCHANGED faults
            \/ task' = "push" /\ sent' = Eos /\ Fault
       ELSE task' = "push" /\ sent' = Eos /\ UNCHANGED faults
  /\ UNCHANGED <<tee, queue, free, lost, last, pad, eos, missing>>

(* The transform returns an error, GstBaseTransform gives both buffers     *)
(* back, and preproc, which ignores the result of finish_buffer(), goes on.*)
DropFrame ==
  task' = "idle" /\ lost' = lost \cup {sent} /\ UNCHANGED free

(* The MLA element: a buffer of its pool, for which it waits, and the run, *)
(* with one of its error paths.                                            *)
Transform ==
  /\ task = "mla" /\ free > 0
  /\ \/ task' = "push" /\ free' = free - 1 /\ UNCHANGED <<lost, faults>>
     \/ DropFrame /\ Fault
  /\ UNCHANGED <<tee, queue, pre, sent, last, pad, eos, missing>>

(* detess_dequant has failed: its pad is flushing and refuses buffers.     *)
Flushing == detess = "over" \/ (detess = "push" /\ result = Eos)

(* Its output goes to the pad of detess_dequant; a pad that refuses it     *)
(* makes an error that preproc ignores as well.                            *)
PushResult ==
  /\ task = "push"
  /\ IF Flushing THEN UNCHANGED mid /\ free' = free + Returned(sent)
     ELSE mid = <<>> /\ mid' = <<sent>> /\ UNCHANGED free
  /\ task' = IF sent = Eos THEN "over" ELSE "idle"
  /\ UNCHANGED <<tee, queue, pre, sent, lost, detess, result, pad, eos, missing, faults>>
-----------------------------------------------------------------------------
(* detess_dequant's aggregate(): the buffer is popped ...                  *)
DetessPop ==
  /\ detess = "idle" /\ mid # <<>> /\ mid' = <<>>
  /\ result' = mid[1] /\ detess' = IF mid[1] = Eos THEN "push" ELSE "run"
  /\ UNCHANGED <<tee, queue, first, free, lost, pad, eos, missing, faults>>

(* Faulty variant: the list is emptied, but its buffers are not released.  *)
KeepInput == UNCHANGED free

(* clean_buffer_list(): peek and pop have taken two references to it, the  *)
(* list gives back one and gst_buffer_list_remove() the other.             *)
CleanBufferList == free' = free + 1

(* ... the job runs ...                                                    *)
DetessRun ==
  /\ detess = "run" /\ detess' = "push" /\ CleanBufferList
  /\ UNCHANGED <<tee, queue, first, lost, mid, result, pad, eos, missing, faults>>

(* ... or fails: the task ends, its pad drops what it holds, and the input *)
(* of the job is never released.                                           *)
DetessFails ==
  /\ detess = "run" /\ detess' = "push" /\ result' = Eos /\ Fault
  /\ mid' = <<>> /\ free' = free + (IF mid = <<>> THEN 0 ELSE Returned(mid[1]))
  /\ UNCHANGED <<tee, queue, first, lost, pad, eos, missing>>

(* finish_buffer(), or the EOS after an error.                             *)
PushTensor ==
  /\ detess = "push" /\ pad[Model] = <<>>
  /\ IF result = Eos
       THEN eos' = eos \cup {Model} /\ detess' = "over" /\ UNCHANGED pad
       ELSE pad' = [pad EXCEPT ![Model] = <<result>>] /\ detess' = "idle" /\ UNCHANGED eos
  /\ UNCHANGED <<tee, queue, first, free, lost, mid, result, missing, faults>>
-----------------------------------------------------------------------------
PreprocTask == Preproc \/ Transform \/ PushResult
DetessTask  == DetessPop \/ DetessRun \/ DetessFails \/ PushTensor

GraphNext == \/ DecodeFrame \/ PreprocTask \/ DetessTask
             \/ \E p \in Pads : TeePush(p) \/ Dequeue(p)
=============================================================================

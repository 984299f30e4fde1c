------------------------------ MODULE Overlay ------------------------------
(***************************************************************************)
(* The Python aggregator at the end of FrameGraph that draws the boxes of  *)
(* the model branch on the frames of the video branch                      *)
(* (python_plugin_template.py, payload.py).                                *)
(*                                                                         *)
(* do_aggregate() takes what is on the pads without looking at frame ids:  *)
(* which boxes go on which picture rests on the order of both branches and *)
(* on what every element does when something fails.                        *)
(*                                                                         *)
(* Abstractions: the value of a metadata field is the frame it was read    *)
(* from, 0 for the initial value.  MyPlugin leaves                         *)
(* next_plugin_is_metaparser FALSE, so metadata is never a header.         *)
(***************************************************************************)
EXTENDS FrameGraph

CONSTANT MaxBlank   (* bound on the buffers finished after the end          *)

ASSUME OverlayConstants == MaxBlank \in Nat

VARIABLES
  pc,        (* where do_aggregate() is; "stopped" after FlowReturn.ERROR   *)
  todo,      (* pads it has still to visit                                  *)
  inputs,    (* input_buffers: the frames, in the order of the pads         *)
  fields,    (* self.frame_id, self.stream_id, ... : frame each was read of *)
  maps,      (* buffers that are mapped: <<0, 0>> is the output             *)
  labelled,  (* insert_metadata() succeeded on the output buffer            *)
  drawn,     (* what run() wrote into it: <<boxes, picture>>, <<0, 0>> none *)
  transmit,  (* the KPI switch                                              *)
  out,       (* buffers finished                                            *)
  blanks

vars == <<graphVars, missing, faults, pc, todo, inputs, fields, maps, labelled,
          drawn, transmit, out, blanks>>
othersThanPads == <<tee, queue, first, free, lost, last, eos>>
bounds == <<missing, faults, blanks>>

Init ==
  /\ GraphInit
  /\ pc = "wait" /\ todo = {} /\ inputs = <<>>
  /\ fields = [f \in Fields |-> 0]
  /\ maps = {} /\ labelled = FALSE /\ drawn = <<0, 0>>
  /\ transmit = FALSE /\ out = <<>> /\ blanks = 0

(* The metadata of what is on a pad.                                       *)
FieldsOn(p) == IF p = Model THEN Fields ELSE has[pad[p][1]]

-----------------------------------------------------------------------------
(* The property is set from the MQTT thread of gst_app at any time.        *)
SetTransmit ==
  /\ transmit' = ~transmit
  /\ UNCHANGED <<graphVars, pc, todo, inputs, fields, maps, labelled, drawn,
                 out, bounds>>

-----------------------------------------------------------------------------
(* do_aggregate().  GstAggregator calls it when every pad has a buffer or  *)
(* has seen EOS; there is no deadline, since get_next_time is not given.   *)
Aggregate ==
  /\ pc = "wait"
  /\ \A p \in Pads : pad[p] # <<>> \/ p \in eos
  /\ eos = Pads => blanks < MaxBlank
  /\ blanks' = IF eos = Pads /\ \A p \in Pads : pad[p] = <<>> THEN blanks + 1 ELSE blanks
  /\ pc' = "pop" /\ todo' = Pads /\ inputs' = <<>>
  /\ labelled' = FALSE /\ drawn' = <<0, 0>>
  /\ UNCHANGED <<graphVars, fields, maps, transmit, out, missing, faults>>

(* Faulty variant: metadata is taken from the first buffer only.           *)
ExtractFirst(p) ==
  fields' = IF inputs = <<>>
              THEN [f \in Fields |-> IF f \in FieldsOn(p) THEN pad[p][1] ELSE fields[f]]
              ELSE fields

(* extract_metadata: a field that is missing keeps its value.              *)
Extract(p) ==
  fields' = [f \in Fields |-> IF f \in FieldsOn(p) THEN pad[p][1] ELSE fields[f]]

(* pop_buffer, extract_metadata and map of the next pad; a pad at EOS has  *)
(* no buffer and is passed over.                                           *)
Pop(p) ==
  /\ pc = "pop" /\ p \in todo /\ \A o \in todo : p <= o
  /\ todo' = todo \ {p}
  /\ pc' = IF todo' = {} THEN "allocate" ELSE pc
  /\ IF pad[p] = <<>>
       THEN UNCHANGED <<pad, inputs, fields, maps>>
       ELSE /\ pad' = [pad EXCEPT ![p] = <<>>]
            /\ Extract(p)
            /\ inputs' = Append(inputs, pad[p][1])
            /\ maps' = maps \cup {<<p, pad[p][1]>>}
  /\ UNCHANGED <<othersThanPads, labelled, drawn, transmit, out, bounds>>

(* Faulty variant: after an exception the element waits for new buffers.   *)
GiveUpOK == pc' = "wait"

(* FlowReturn.ERROR: GstAggregator sends EOS and leaves its task.          *)
GiveUp == pc' = "stopped"

(* map() of an input fails: its view cannot be used, with the buffer gone  *)
(* from the pad.                                                           *)
PopFails(p) ==
  /\ pc = "pop" /\ p \in todo /\ \A o \in todo : p <= o
  /\ pad[p] # <<>> /\ pad' = [pad EXCEPT ![p] = <<>>]
  /\ Extract(p)
  /\ GiveUp /\ Fault
  /\ UNCHANGED <<othersThanPads, todo, inputs, maps, labelled, drawn, transmit,
                 out, missing, blanks>>

(* insert_metadata: the fields are attached and verified, or the buffer    *)
(* goes on without.                                                        *)
InsertMetadata ==
  \/ labelled' = TRUE /\ UNCHANGED faults
  \/ labelled' = FALSE /\ Fault

(* The output buffer is allocated and mapped, and gets its metadata.       *)
Allocate ==
  /\ pc = "allocate"
  /\ maps' = maps \cup {<<0, 0>>}
  /\ InsertMetadata
  /\ pc' = IF inputs = <<>> THEN "unmap" ELSE "run"
  /\ UNCHANGED <<graphVars, todo, inputs, fields, drawn, transmit, out,
                 missing, blanks>>

(* new_allocate() or map() of the output fails; the inputs stay mapped.    *)
AllocateFails ==
  /\ pc = "allocate" /\ faults < MaxFaults
  /\ faults' = faults + 1
  /\ GiveUp
  /\ UNCHANGED <<graphVars, todo, inputs, fields, maps, labelled, drawn, transmit,
                 out, missing, blanks>>

(* payload.py's run(): input_buffers[0] is decoded, [1] is the picture.    *)
Run ==
  /\ pc = "run" /\ Len(inputs) = 2
  /\ drawn' = <<inputs[Model], inputs[Video]>>
  /\ pc' = "unmap"
  /\ UNCHANGED <<graphVars, todo, inputs, fields, maps, labelled, transmit,
                 out, bounds>>

(* Faulty variant: an exception of run() leaves the output as it is.       *)
RunRaisesIgnored ==
  /\ pc = "run"
  /\ \/ Len(inputs) < 2 /\ UNCHANGED faults
     \/ Len(inputs) = 2 /\ Fault
  /\ pc' = "unmap"
  /\ UNCHANGED <<graphVars, todo, inputs, fields, maps, labelled, drawn, transmit,
                 out, missing, blanks>>

(* With one buffer there is no input_buffers[1], or the picture is not as  *)
(* long as the outputs; cv2 and numpy may raise at any other time.         *)
RunRaises ==
  /\ pc = "run"
  /\ \/ Len(inputs) < 2 /\ UNCHANGED faults
     \/ Len(inputs) = 2 /\ Fault
  /\ GiveUp
  /\ UNCHANGED <<graphVars, todo, inputs, fields, maps, labelled, drawn, transmit,
                 out, missing, blanks>>

(* Faulty variant: the maps of the inputs are forgotten.                   *)
UnmapOutput ==
  /\ pc = "unmap" /\ maps' = maps \ {<<0, 0>>} /\ pc' = "finish"
  /\ UNCHANGED <<graphVars, todo, inputs, fields, labelled, drawn, transmit,
                 out, bounds>>

(* unmap of the inputs in hand and of the output.                          *)
Unmap ==
  /\ pc = "unmap"
  /\ maps' = {m \in maps : m # <<0, 0>> /\ \A k \in DOMAIN inputs : m[2] # inputs[k]}
  /\ pc' = "finish"
  /\ UNCHANGED <<graphVars, todo, inputs, fields, labelled, drawn, transmit,
                 out, bounds>>

(* finish_buffer() and, with transmit set, the KPI message.                *)
Finish ==
  /\ pc = "finish"
  /\ out' = Append(out, [boxes |-> drawn[1], picture |-> drawn[2],
                         labelled |-> labelled, label |-> fields,
                         kpi |-> IF transmit THEN {fields} ELSE {}])
  /\ pc' = "wait"
  /\ UNCHANGED <<graphVars, todo, inputs, fields, maps, labelled, drawn, transmit,
                 bounds>>

Plugin == \/ Aggregate \/ Allocate \/ AllocateFails \/ Run \/ RunRaises \/ Unmap \/ Finish
          \/ \E p \in Pads : Pop(p) \/ PopFails(p)

overlayVars == <<pc, todo, inputs, fields, maps, labelled, drawn, transmit, out, blanks>>

Rests == UNCHANGED overlayVars

Next == \/ SetTransmit \/ Plugin
        \/ GraphNext /\ Rests

Spec == Init /\ [][Next]_vars

(* The source sends, and every streaming thread runs.                      *)
FairSpec ==
  /\ Spec /\ WF_vars(Plugin) /\ WF_vars(DecodeFrame /\ Rests)
  /\ WF_vars(PreprocTask /\ Rests) /\ WF_vars(DetessTask /\ Rests)
  /\ \A p \in Pads : WF_vars(TeePush(p) /\ Rests) /\ WF_vars(Dequeue(p) /\ Rests)

-----------------------------------------------------------------------------
Shown == {out[k].picture : k \in DOMAIN out}

(* The boxes on the k-th picture were computed from the k-th frame that    *)
(* the model branch put out: of its own frame as long as the MLA element   *)
(* lost none, although nothing compares the two frame ids.  No missing     *)
(* field, no call that fails between the two pads and no early end of a    *)
(* branch shifts the one against the other; a frame that the MLA element   *)
(* lost shifts them for the rest of the stream, by exactly one.            *)
BoxesAreNextInLine ==
  \A k \in DOMAIN out : out[k].picture # 0 =>
    /\ out[k].boxes \notin lost
    /\ Cardinality((1 .. out[k].boxes) \ lost) = out[k].picture

(* No frame is lost, repeated or overtaken as long as the element runs;    *)
(* the blank buffers it finishes when the pads are at their end come after *)
(* the last frame.                                                         *)
EveryFrameOnceInOrder ==
  \A k \in DOMAIN out :
    IF k <= NFrames THEN out[k].picture = k ELSE out[k].picture = 0

(* An output's metadata and its KPI message describe its own picture, also *)
(* when the boxes are of another frame or fields were missing.             *)
LabelIsOwn ==
  \A k \in DOMAIN out : out[k].picture # 0 /\ out[k].labelled =>
    \A f \in Fields, l \in {out[k].label} \cup out[k].kpi : l[f] = out[k].picture

(* No buffer is finished, and no call of do_aggregate() returns OK, with a *)
(* map that nobody will undo.                                              *)
NoMapLeft == pc \in {"finish", "wait"} => maps = {}

(* Every frame the decoder puts out is shown, unless the element has       *)
(* stopped with an error: the tee, the queues, the pads and the pool of    *)
(* the MLA element, which wait for one another, never wait for ever.       *)
EveryFrameShown ==
  \A n \in Frames : decoded >= n ~> (n \in Shown \/ pc = "stopped")
=============================================================================

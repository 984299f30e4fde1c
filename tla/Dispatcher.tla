----------------------------- MODULE Dispatcher -----------------------------
(***************************************************************************)
(* dispatcher-lite: buffer_data_dispatcher_send() runs the model on one    *)
(* input buffer and passes an output buffer of its pool on, together with  *)
(* the batches of mla_client_run_model().                                  *)
(*                                                                         *)
(* One streaming thread calls send(); whoever receives the outputs gives   *)
(* them back to the pool when it likes.  An output buffer keeps what it    *)
(* held when it is taken from the pool again.                              *)
(*                                                                         *)
(* Abstractions: the output memory is one array of cells, the pool's       *)
(* buffers lie next to each other in it, and a cell holds <<frame, tensor>>*)
(* for the input tensor its content was computed from; a buffer id is the  *)
(* address of its buffer; a failed run leaves the output as it was.        *)
(***************************************************************************)
EXTENDS Integers, FiniteSets

CONSTANTS
  Configs,    (* [cpu, batch, model]: cpu, batch_size and batch_size_model  *)
  InTensor,   (* in_tensor_size, in cells                                   *)
  OutTensor,  (* out_tensor_size, in cells                                  *)
  NFrames,    (* input buffers sent                                         *)
  NBufs,      (* no_of_outbuf                                               *)
  Metas,      (* how many of the metadata fields, in reading order, inputs have *)
  Offsets,    (* their buffer-offset                                        *)
  AddrSpace,  (* 2^32: addresses the MLA transport can express              *)
  DumpData,   (* dump_data                                                  *)
  MaxFaults,  (* bound on the other external calls that fail                *)
  MaxMetaFaults (* bound on the calls on custom metadata that fail          *)

ASSUME DispatcherConstants ==
  /\ \A c \in Configs : /\ c.cpu \in {"DEV", "MLA", "EVXX"}
                        /\ c.batch \in Int /\ c.model \in Int
  /\ InTensor \in Nat \ {0} /\ OutTensor \in Nat \ {0}
  /\ NFrames \in Nat /\ NBufs \in Nat \ {0}
  /\ Metas \subseteq 0 .. 4 /\ Offsets \subseteq Nat
  /\ AddrSpace \in Nat \ {0}
  /\ DumpData \in BOOLEAN /\ MaxFaults \in Nat /\ MaxMetaFaults \in Nat

(* The output pool lies in the memory that the MLA transport can address.  *)
ASSUME PoolIsAddressable == NBufs * OutTensor <= AddrSpace

Frames == 1 .. NFrames
Bufs   == 0 .. NBufs - 1
NoBuf  == 0 - 1
Garbage == <<0, 0>>
NoMeta  == [frame |-> 0, stream |-> 0, complete |-> FALSE]

VARIABLES
  cfg,      (* the configuration dispatcher_init() read                     *)
  pc,       (* where send() is: idle, acquire, run, attach                  *)
  frame,    (* the input buffer it was last called with                     *)
  mapped,   (* input buffers that are mapped                                *)
  frame_id, (* self->frame_id                                               *)
  inp,      (* locals: in_buf_id, in_buf_offset, and stream_id (timestamp); *)
            (* history: whether the input had all metadata                  *)
  out,      (* outbuf                                                       *)
  runs,     (* runs of the model completed for this input                   *)
  owner,    (* of each output buffer: pool, dispatcher, downstream, lost    *)
  mem,      (* the output memory                                            *)
  meta,     (* frame-id and stream-id of each output buffer; history: the   *)
            (* same for its input                                           *)
  faults, metaFaults (* external calls that failed                          *)

vars == <<cfg, pc, frame, mapped, frame_id, inp, out, runs, owner, mem, meta,
          faults, metaFaults>>

-----------------------------------------------------------------------------
(* A batch is as many tensors as the user asks for; the MLA and EVXX       *)
(* transports know no batches.  Buffers are as large as a batch.           *)
Tensors == IF cfg.cpu = "DEV" /\ cfg.batch >= 1 THEN cfg.batch ELSE 1
InData  == Tensors * InTensor
OutData == Tensors * OutTensor

InBase(f)  == 1 + f * InData
OutBase(b) == b * OutData
OutCells   == 0 .. NBufs * OutData - 1
CellsOf(b) == OutBase(b) .. OutBase(b) + OutData - 1

(* What lies at an address of the input memory during the call.            *)
ReadAt(a) == IF \E i \in 0 .. Tensors - 1 : a = InBase(frame) + i * InTensor
               THEN <<frame, (a - InBase(frame)) \div InTensor>> ELSE Garbage

(* The address the model is given: the MLA transport passes 32 bits, EVXX  *)
(* resolves self->in_buf_id, a field that nothing ever sets.               *)
InAddr == CASE cfg.cpu = "DEV"  -> inp.id
            [] cfg.cpu = "MLA"  -> ((inp.id % AddrSpace) + inp.offset) % AddrSpace
            [] cfg.cpu = "EVXX" -> 0
OutAddr == IF cfg.cpu = "MLA" THEN OutBase(out) % AddrSpace ELSE OutBase(out)

(* mla_run_batch: n tensors, read and written at a distance of one chunk.  *)
RunBatch(from, to, n, inChunk, outChunk) ==
  [a \in OutCells |->
     LET hit == {i \in 0 .. n - 1 : a \in to + i * outChunk .. to + i * outChunk + OutTensor - 1}
     IN  IF hit = {} THEN mem[a]
         ELSE ReadAt(from + inChunk * (CHOOSE i \in hit : \A j \in hit : j <= i))]

(* The strategy of mla_client_run_model.                                   *)
Invalid == cfg.cpu = "DEV" /\ (cfg.batch < 1 \/ cfg.model < 1)
Single  == cfg.cpu # "DEV" \/ cfg.batch = 1
Native  == ~Single /\ cfg.batch <= cfg.model

(* Faulty variant: the number of full runs is rounded up.                  *)
RunCountUp == (cfg.batch + cfg.model - 1) \div cfg.model

RunCount == cfg.batch \div cfg.model

Completed == IF Single \/ Native THEN 0 ELSE runs * cfg.model

(* Faulty variant: what is left over is taken for a full run.              *)
FullBatch == IF Single THEN 1 ELSE IF Native THEN cfg.batch ELSE cfg.model

BatchNow == IF Single THEN 1
            ELSE IF Native THEN cfg.batch
            ELSE IF runs < RunCount THEN cfg.model ELSE cfg.batch - Completed

LastRun == Single \/ Native \/ Completed + BatchNow >= cfg.batch

-----------------------------------------------------------------------------
Init ==
  /\ cfg \in Configs
  /\ pc = "idle" /\ frame = 0 /\ mapped = {} /\ frame_id = 0
  /\ inp = [id |-> 0, offset |-> 0, stream |-> 0, complete |-> FALSE]
  /\ out = NoBuf /\ runs = 0
  /\ owner = [b \in Bufs |-> "pool"]
  /\ mem = [a \in OutCells |-> Garbage]
  /\ meta = [b \in Bufs |-> NoMeta]
  /\ faults = 0 /\ metaFaults = 0

Fault ==
  faults < MaxFaults /\ faults' = faults + 1 /\ UNCHANGED metaFaults
MetaFault ==
  metaFaults < MaxMetaFaults /\ metaFaults' = metaFaults + 1 /\ UNCHANGED faults
NoFault == UNCHANGED <<faults, metaFaults>>

(* Faulty variant: the frame id is not taken from the input.               *)
FrameIdKept(m) == frame_id

(* The fields are read in a chain of && and the first that is missing ends *)
(* it: buffer-id, frame-id, buffer-offset, timestamp and with it stream-id.*)
FrameId(m) == IF m >= 2 THEN frame + 1 ELSE frame_id

(* send() is called with the next input: map it and read its metadata.     *)
(* stream_id and timestamp are uninitialised unless all fields are there.  *)
Receive(m, offset) ==
  /\ pc = "idle" /\ frame < NFrames
  /\ frame' = frame + 1
  /\ mapped' = mapped \cup {frame + 1}
  /\ frame_id' = FrameId(m)
  /\ \E stale \in IF m = 4 THEN {frame + 1} ELSE 0 .. frame :
       inp' = [id     |-> IF m >= 1 THEN InBase(frame + 1) ELSE 0,
               offset |-> IF m >= 3 THEN offset ELSE 0,
               stream |-> stale, complete |-> m = 4]
  /\ pc' = "acquire"
  /\ UNCHANGED <<cfg, out, runs, owner, mem, meta>> /\ NoFault

(* The metadata has no structure: return at once, the input stays mapped.  *)
ReceiveNoStructure ==
  /\ MetaFault
  /\ pc = "idle" /\ frame < NFrames
  /\ frame' = frame + 1
  /\ mapped' = mapped \cup {frame + 1}
  /\ UNCHANGED <<cfg, pc, frame_id, inp, out, runs, owner, mem, meta>>

(* The pool blocks until a buffer is free and strips its metadata.         *)
Acquire(b) ==
  /\ pc = "acquire" /\ owner[b] = "pool"
  /\ owner' = [owner EXCEPT ![b] = "dispatcher"]
  /\ meta' = [meta EXCEPT ![b] = NoMeta]
  /\ out' = b /\ runs' = 0
  /\ pc' = "run"
  /\ UNCHANGED <<cfg, frame, mapped, frame_id, inp, mem>> /\ NoFault

AcquireFails ==
  /\ pc = "acquire" /\ Fault
  /\ mapped' = mapped \ {frame}
  /\ pc' = "idle"
  /\ UNCHANGED <<cfg, frame, frame_id, inp, out, runs, owner, mem, meta>>

(* One run of the model, or of one batch of it.                            *)
Run ==
  /\ pc = "run" /\ ~Invalid
  /\ mem' = IF Single \/ Native
              THEN RunBatch(InAddr, OutAddr, BatchNow,
                            InData \div BatchNow, OutData \div BatchNow)
              ELSE RunBatch(InAddr + InTensor * Completed, OutAddr + OutTensor * Completed,
                            BatchNow, InTensor, OutTensor)
  /\ runs' = runs + 1
  /\ pc' = IF LastRun THEN "attach" ELSE "run"
  /\ UNCHANGED <<cfg, frame, mapped, frame_id, inp, out, owner, meta>> /\ NoFault

(* The run of a single tensor on the MLA client fails: only a message.     *)
RunFailsUnnoticed ==
  /\ pc = "run" /\ ~Invalid /\ cfg.cpu = "DEV" /\ Single
  /\ Fault
  /\ pc' = "attach"
  /\ UNCHANGED <<cfg, frame, mapped, frame_id, inp, out, runs, owner, mem, meta>>

(* Faulty variant: the input stays mapped when the frame is dropped.       *)
MappedAfterDrop == mapped

(* Faulty variant: the output is not given back when the frame is dropped. *)
OwnerKept == [owner EXCEPT ![out] = "lost"]

MappedAfter == mapped \ {frame}
OwnerAfterDrop == [owner EXCEPT ![out] = "pool"]

(* drop_and_continue.                                                      *)
Drop ==
  /\ mapped' = MappedAfter
  /\ owner' = OwnerAfterDrop
  /\ out' = NoBuf
  /\ pc' = "idle"
  /\ UNCHANGED <<cfg, frame, frame_id, inp, runs, mem, meta>>

RunFails ==
  /\ pc = "run"
  /\ \/ Invalid /\ NoFault
     \/ ~Invalid /\ ~(cfg.cpu = "DEV" /\ Single) /\ Fault
  /\ Drop

(* Writing the output to a file fails.                                     *)
DumpFails ==
  /\ pc = "attach" /\ DumpData /\ Fault
  /\ Drop

(* No metadata can be added: return, with input mapped and output lost.    *)
AttachFails ==
  /\ MetaFault
  /\ pc = "attach"
  /\ owner' = [owner EXCEPT ![out] = "lost"]
  /\ out' = NoBuf
  /\ pc' = "idle"
  /\ UNCHANGED <<cfg, frame, mapped, frame_id, inp, runs, mem, meta>>

(* The output gets its metadata and is passed to the callback.             *)
Forward ==
  /\ pc = "attach"
  /\ meta' = [meta EXCEPT ![out] = [frame    |-> frame_id, stream |-> inp.stream,
                                  complete |-> inp.complete]]
  /\ mapped' = mapped \ {frame}
  /\ owner' = [owner EXCEPT ![out] = "downstream"]
  /\ out' = NoBuf
  /\ pc' = "idle"
  /\ UNCHANGED <<cfg, frame, frame_id, inp, runs, mem>> /\ NoFault

(* Downstream drops its last reference.                                    *)
Release(b) ==
  /\ owner[b] = "downstream"
  /\ owner' = [owner EXCEPT ![b] = "pool"]
  /\ UNCHANGED <<cfg, pc, frame, mapped, frame_id, inp, out, runs, mem, meta>> /\ NoFault

SendStep ==
  \/ \E b \in Bufs : Acquire(b)
  \/ AcquireFails \/ Run \/ RunFails \/ RunFailsUnnoticed
  \/ DumpFails \/ AttachFails \/ Forward

Next ==
  \/ \E m \in Metas, offset \in Offsets : Receive(m, offset)
  \/ ReceiveNoStructure
  \/ SendStep
  \/ \E b \in Bufs : Release(b)

(* The streaming thread runs, and an output is not kept for ever.          *)
Fairness == WF_vars(SendStep) /\ \A b \in Bufs : WF_vars(Release(b))

Spec == Init /\ [][Next]_vars
FairSpec == Spec /\ Fairness

-----------------------------------------------------------------------------
(* Every variable holds a value of the kind its C field can hold.          *)
TypeOK ==
  /\ cfg \in Configs
  /\ pc \in {"idle", "acquire", "run", "attach"}
  /\ frame \in 0 .. NFrames /\ frame_id \in 0 .. NFrames
  /\ mapped \subseteq Frames
  /\ inp \in [id : Nat, offset : Nat, stream : 0 .. NFrames, complete : BOOLEAN]
  /\ out \in Bufs \cup {NoBuf} /\ runs \in Nat
  /\ owner \in [Bufs -> {"pool", "dispatcher", "downstream", "lost"}]
  /\ mem \in [OutCells -> (0 .. NFrames) \X Int]
  /\ meta \in [Bufs -> [frame : 0 .. NFrames, stream : 0 .. NFrames, complete : BOOLEAN]]
  /\ faults \in 0 .. MaxFaults /\ metaFaults \in 0 .. MaxMetaFaults

(* "the in_buff should come from a src_pad": what is passed on was computed *)
(* tensor by tensor from the input whose frame and stream its metadata     *)
(* names, although the buffer held an older frame and runs may fail.       *)
ResultIsOwn ==
  \A b \in Bufs : owner[b] = "downstream" /\ meta[b].complete =>
    /\ meta[b].stream = meta[b].frame
    /\ \A i \in 0 .. Tensors - 1, c \in 0 .. OutTensor - 1 :
         mem[OutBase(b) + i * OutTensor + c] = <<meta[b].frame, i>>

(* The same for the branches of send() that report every failed run and    *)
(* read the input whose metadata they got: MLA and batches.                *)
CheckedResultIsOwn ==
  cfg.cpu = "MLA" \/ (cfg.cpu = "DEV" /\ ~Single) => ResultIsOwn

(* No run asks the model for more tensors than it was compiled for, for    *)
(* none, or for tensors beyond the batch.                                  *)
BatchFits ==
  pc = "run" /\ ~Invalid /\ ~Single =>
    BatchNow \in 1 .. cfg.model /\ Completed + BatchNow <= cfg.batch

(* A buffer that was passed on is not written while downstream holds it:   *)
(* no batch runs past the end of its own output buffer.                    *)
DownstreamStable ==
  [][\A b \in Bufs : owner[b] = "downstream" =>
       \A a \in CellsOf(b) : mem'[a] = mem[a]]_vars

(* Every path out of send(), those of dropped frames included, unmaps the  *)
(* input and disposes of the output; only failing metadata calls leave one.*)
NothingHeldWhenIdle ==
  pc = "idle" =>
    /\ Cardinality(mapped) <= metaFaults
    /\ Cardinality({b \in Bufs : owner[b] \notin {"pool", "downstream"}}) <= metaFaults

(* send() returns: a free output buffer turns up even after failures.      *)
SendReturns == pc # "idle" ~> pc = "idle"
=============================================================================

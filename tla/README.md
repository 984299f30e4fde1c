# A TLA+ verification of the YOLOX pipeline's runtime

The repository is an object detection application for a SiMa.ai board: an RTSP
source, a CVU pre-processing stage, the YOLOX network on the MLA, a CVU
post-processing stage and a Python overlay, run as one GStreamer pipeline by
`gst_app`, with a live trace reader that turns LTTng events into KPI messages
on MQTT.  Around it are scripts that prepare, run and measure the model.

This directory holds TLA+ modules translated from that code, the TLC models
that check them and TLAPS proofs about them.

## 1. Inventory

Paths are relative to `src/yolox_s_opt_no_reshapes_mpk_rtspsrc/` unless they
start with `src/`.

| Component | State it keeps | Operations | What makes it correct |
|---|---|---|---|
| KPI sink (`.../plugins/kpi_sender/kpi_sender.c`, `kpi.c`) | `plugin_kpi_map`, `json_kpi_map` with `last_updated`, `mutex_json_kpi`, `push_to_mqtt`, `is_running` | `consume`, `observer_thread_func`, `mqtt_on_message`, `sink_finalize` | every KPI is reported once, with its own times, stream and name; a frame is one message; nothing waits for ever; nothing runs after tear-down |
| Trace parsing, MQTT glue (`trace.c`, `utils.c`, `mqtt.c`) | none; the mosquitto connection | `trace_parse_from_message`, `trace_generate_request_id_from_trace`, `mqtt_disconnect` | the events of one occurrence get one key |
| Live trace reader API | `running` status, retry counter, babeltrace graph | make and run the graph, retry, stop | a stopped reader ends; an instance has one graph, and one KPI sink, at a time |
| `gst_app` (`pipeline.cpp`, `gst_app.cpp`, `mqtt_client.cpp`, `lttng_session.cpp`) | pipeline state, `terminate`, the asynchronous reader, the MQTT thread, the LTTng session | start, bus loop, signals, MQTT commands, destructor | what was told to end ends; what the threads use outlives them; the session is given back |
| processcvu, processmla | input list, buffer pool, metadata of the frame, `transmit` | `aggregate` / `transform`, caps events, state changes | buffers return to their pool; a failure does not make the branches wait for ever |
| Overlay (`python_plugin_template.py`, `payload.py`) | metadata fields, maps | `do_aggregate`, `run` | the boxes are drawn on the picture they belong to, and the metadata is that of the picture |
| Buffer pool, allocators, allocation query | pools, segments | allocate, map, free | a pool that is at its limit gets its buffers back |
| dispatcher-lite (`dispatcher.c`, `mla_client.c`, backends) | output pool, `frame_id`, batch sizes | `buffer_data_dispatcher_send`, `mla_client_run_model` | what is forwarded was computed from the input it names |
| simamm (`core/simamm`, `core/dispatcher-lite`) | table of attached buffers, bitmap, mutex | `buffer_id_to_paddr`, `buffer_id_to_vaddr` | an id resolves to its own memory or, when the library gives none, to no address; a buffer takes one slot |
| caps, metadata | negotiated configuration | caps queries and events | the configuration follows the caps |
| `src/get_fps` | handles on the board, tunnels, sockets | connect, allocate, run, release, signals | no handle is used after it was given back; a result is of its frame; a program that gives its buffers back ends, and nobody waits for ever but where a request was refused |
| `src/start.py`, `src/stop.py` | the docker daemon and its container | choose a port, create, configure, enter, stop, remove | the container is configured once, completely, and with the port it publishes |
| Model scripts (`src/run_onnx.py`, `run_modelsdk.py`, `run_accelmode.py`, `utils.py`) | folders of results, the quantised model, the list of boxes | quantise, evaluate, compile, decode, suppress | an annotated image shows its own boxes; the disk is of one run; suppression neither doubles nor loses an object |

How they interact.  GStreamer calls the plugins on streaming threads, one per
queue segment; buffers and their metadata are the messages.  Each plugin with
`transmit` set emits LTTng events; the trace reader, a thread of `gst_app`, gets
them through an lttng-live session and calls the KPI sink's `consume`.  The sink
has a thread of its own (the observer) and a callback on the MQTT thread.
`gst_app` sets the plugins' `transmit` from an MQTT thread and stops everything
from a signal handler.

The hard behaviours are therefore: threads that share tables and flags, some
without a lock; timeouts that publish what is incomplete while its rest
arrives; commands that arrive in the middle of a frame; tear-down beside live
threads; failures in the middle of a sequence (a batch, a graph, an
allocation); recycled buffers.  `PROJECT.json` lists each at its line
under `hazards`, with the properties that cover it.  On the host the hard
behaviours are programs that are interrupted between two steps on shared
folders, on a shared board or on a shared container.

## 2. Plan

| # | Modules | State |
|---|---|---|
| 1 | `KpiSender`, abstract `KpiReport`; `KpiSenderProofs` | done |
| 2 | `Dispatcher`, `SimaMM`; `DispatcherProofs`, `SimaMMProofs` | done |
| 3 | `FrameGraph` (both CVU elements, the MLA element and its pool, the tee and the queues) composed with `Overlay`; `OverlayProofs` | done |
| 4 | `GstApp` (lifecycle, signals, commands, trace reader, LTTng session); `GstAppProofs` | done |
| 5 | `Detection` composed with `HostEval`; `HostEvalProofs` | done |
| 6 | `DevkitSession` (get_fps), `SdkContainer` (start.py, stop.py); `DevkitSessionProofs`, `SdkContainerProofs` | done |

Which module uses which: `KpiSender` instantiates `KpiReport` with a refinement
mapping; `Overlay` extends `FrameGraph` and adds the element at its end;
`HostEval` extends `Detection` and runs it once per image.  The KPI sink that
`GstApp` makes and gives back is the one `KpiSender` models.

Every safety property that a passing run checks is now a theorem, and so is the
refinement `ImplementsReport` (section 11).  Two of them, `StartIsOwn` and
`SingleMessage`, need hypotheses without which they are false.

## 3. The KPI sink: `KpiSender`

**Actors and state.**  `consume()` and `sink_finalize()` run on the graph thread
(`gpc` is where it is, `cur` the key of the KPI it converts), the observer on its
own (`opc`, and `expired`, the lists its pass has still to publish), callbacks on
the MQTT thread, and `Tick` is the clock.  `kpis` is `plugin_kpi_map`, `lists`
with `age` is `json_kpi_map` with `last_updated`.  Each step between two accesses
of shared data is an action of its own: `ConsumeEvent` (merge, look-up of a PCIe
start, readiness), `GraphLock`, `AddNode` (add and `is_full`), `GraphPublish`,
`GraphUnlock` (unlock and removal from `plugin_kpi_map`), `ObserverCheck`,
`ObserverLock`, `ObserverPublish`, `ObserverUnlock`, `OnMessage`, `Finalize`,
`JoinObserver`, `Disconnect`, `FreeSink`.

**Abstraction.**  A plugin instance on a stream is one element (its hash is taken
to be free of collisions).  A timestamp is the frame whose occurrence it stamps, 0
when the field is not set: that is what the properties tell apart.  An age counts
observer periods and stops one above the threshold.  Texts, JSON and the broker
are left out; a message is the list of nodes it is made of.  Events that never
reach the tables (dropped by LTTng, not emitted, not parsed, or passed while
`push_to_mqtt` is false) are one action, `MissEvent`.

**External.**  The order in which plugins and remote cores emit (`Before`,
`Due`) and the clock (`Tick`, `Outstanding`) are not in the repository; they are
modelled from how the plugins call the trace points.  A plugin's START comes
first, the kernel pair is ordered, the plugin's END and the kernel pair are not.
`MaxGap` bounds how long a frame with events to come is left alone: with
`MaxGap > Threshold` the observer may cut a frame in two, with
`MaxGap <= Threshold` it may not.

**Abstract specification.**  `KpiReport` has one variable per promise: whether
the sink is open, which KPIs of each group wait, and which messages were sent.
`ImplementsReport` maps `KpiSender` to it.

| Run | Instance | Shows |
|---|---|---|
| `kpi_liveness` | 2 plugins on 2 streams, commands, a lost event, fair threads | `EventuallyPublished`, complete or not. `WellLabelled` |
| `kpi_pcie` | a PCIe source, started once, and a remote-core plugin, 2 frames, `MaxGap = Threshold`, tear-down at any moment, fair threads | `StartIsOwn`. `SingleMessage`: the threshold does not split a frame. `PublishedListExists`: neither thread publishes a list the other took. `ReportedOnce`. `CompleteIsReported`: no order of the four events loses a KPI. `NothingRunsAfterFree`, `FinalizeReturns`, `ImplementsReport` |
| `kpi_pcie_restart` | the same, stopped and restarted | violates `StartIsOwn` (finding below) |

**Bounds.**  Two elements are enough for every pair of emitters that share a list,
two frames for a stale entry and for two lists of one stream; lists, keys and the
lock do not depend on more.  `Threshold = 1` and `MaxGap` on either side of it
cover both orders of timeout and completion.  `MaxCommands` and `MaxLost` bound
commands and losses.  Only `kpi_pcie` may stop (`CHECK_DEADLOCK FALSE`):
after `FreeSink` there is nothing left to do.

**Fairness.**  Both threads are scheduled (weak fairness), the clock advances,
and the graph thread, when it waits for the mutex, gets it in one of the 100 ms
in which the observer sleeps outside it (strong fairness of `GraphLock`).
Nothing is assumed of events, commands or tear-down.

**Finding.**  `kpi_pcie_restart`: the entry of a PCIe START is never removed.  A
START that passes while `push_to_mqtt` is false leaves the entry of an earlier
one, and the KPI of the next END takes its start time (`kpi_sender.c:337`).

## 4. dispatcher-lite: `Dispatcher`

**Actors and state.**  One streaming thread calls `buffer_data_dispatcher_send`
(`pc`: idle, acquire, run, attach); downstream releases output buffers when it
likes.  `Receive` maps the input and reads its metadata, `Acquire` blocks on the
pool, `Run` is one run of the model or of one batch, `Forward` attaches metadata
and calls back.  Every path that fails is an action: `AcquireFails`, `RunFails`
and `DumpFails` (`drop_and_continue`), `RunFailsUnnoticed`,
`ReceiveNoStructure`, `AttachFails`.

**Abstraction.**  The output memory is one array of cells in which the pool's
buffers lie side by side, so that a batch that is too long is seen to run into
the next buffer.  A cell holds the frame and tensor it was computed from and
keeps it when its buffer is recycled.  Metadata fields are read in the order of
the code's `&&` chain; the field that is missing is chosen, and what the
uninitialised locals then hold is any earlier frame or none.  A buffer id is an
address.

**External.**  The memory of the inputs (`ReadAt`), the memory of the pool,
downstream (`Release`), and which driver calls fail (`Fault`, `MetaFault`).  A
failed run leaves the output as it was.

| Run | Instance | Shows |
|---|---|---|
| `dispatcher` | 3 inputs, 2 output buffers; batches that fit the model, divide and do not divide by it, a single tensor, an invalid batch; DEV, MLA and EVXX; 2 failures of calls, 1 of metadata | `CheckedResultIsOwn`, `BatchFits`, `DownstreamStable`, `NothingHeldWhenIdle`, `SendReturns` |
| `dispatcher_single` | batch of one tensor | violates `ResultIsOwn` (finding) |

**Bounds.**  Two buffers are the pool's minimum (`MIN_POOL_SIZE`) and are both
recycled by three inputs.  Batches of 4 and 5 on a model of 2 have even and
uneven splits, a batch of 5 needs two full runs and a remainder.  One metadata
failure and two others leave the pool a buffer, so that `SendReturns` does not
hold for want of one nor fail for it.  The 32 bit truncation of MLA addresses is
in the model but `AddrSpace` is larger than any address.  The system stops after
the last input (`CHECK_DEADLOCK FALSE`).

**Fairness.**  The streaming thread runs and downstream does not keep an output
for ever; failures and inputs are never owed.

**Finding.**  `dispatcher_single`: with `batch_size` 1 `mla_client_run_model`
prints that the run failed and returns 0, so the recycled buffer is passed on
with the new frame's metadata and old content (`mla_client.c:139`).

## 5. The table of attached buffers: `SimaMM`

Any thread calls `buffer_id_to_paddr` or `buffer_id_to_vaddr`.  `Lock`, `Hit`,
`Attach`, `StoreId`, `MarkAndUnlock` and `Full` are the steps of
`find_buffer_by_id`; `Read` reads the entry after the unlock, `Fallback` attaches
when there is no slot, without mapping: the caller may get no virtual address
(`simamm.c:125`).  The memory library may fail to attach or to map (`Answers`).
Nobody checks that (`simamm.c:82-84`; `attach_to_memory` does): the slot is taken
with no address and answers with none from then on.  `refused` is history: the ids
for which that happened, in any call.  `Mask(i)` is `1 << i` as the compiled code computes it:
an `int`, whose highest bit is the sign and fills the upper half of the 64 bit
word, and whose shift amount is taken modulo its width beyond that (in C both
are outside what the language defines; the processor's shift does this).  The
addresses of a buffer are its id, 0 is no address; ids are not 0, since an unused
slot has id 0.  `ResolvesOwn` says that a call answers with the address of its own
id or, if the id is in `refused`, with none; never with another's.

| Run | Instance | Shows |
|---|---|---|
| `simamm` | 2 threads, 3 buffers, 4 slots, an int of 2 bits | `ResolvesOwn`, `OneSlotPerId`, `CallReturns` |

Four slots and two bits keep the proportion of 64 and 32, and the third buffer
is the first that finds no slot.  Every attach may fail.  `CallReturns` assumes that
threads run and that a thread waiting for the mutex gets it when it is free again
and again.

## 6. From the decoder to the encoder: `FrameGraph` and `Overlay`

**Actors and state.**  The graph of `application.json` is a thread per queue.
The decoder's task decodes (`DecodeFrame`) and pushes each frame through the tee
to the model branch and then to the video branch (`TeePush`), blocking on a full
queue2; each queue2 has a thread (`Dequeue`).  The aggregator preproc has a task
(`task`, `sent`), which also runs the MLA element's `transform` (`Transform`) with
its pool of output buffers (`free`); detess_dequant has another (`detess`,
`result`).  The overlay's task is `do_aggregate()`: `Aggregate`, `Pop` of each pad
in order, `Allocate` with `insert_metadata`, `Run`, `Unmap`, `Finish`, and a path
that fails out of each (`PopFails`, `AllocateFails`, `RunRaises`).  The KPI switch
moves at any time (`SetTransmit`).

**Errors.**  An error that `aggregate` returns ends its element's task, after
which the element sends EOS and its pad refuses buffers (`Flushing`).  processcvu
returns one when its job fails (`Preproc`, `DetessFails`) and then does not
release what it had popped.  It ignores the result of
`gst_aggregator_finish_buffer()`: an error of the MLA element, which runs inside
that call, loses the frame and nothing else (`DropFrame`), and an element behind
it that has stopped is not noticed either (`PushResult`).

**Abstraction.**  A buffer is the number of its frame; `inputs`, `drawn` and
`fields` say which frame each thing came from.  Only the MLA element's pool is
counted: it has two buffers, the others more than can be under way.  A frame's
metadata may lack fields (`has`); every element of the model branch writes all of
them.

**External.**  Source, decoder, tee, queue2, GstAggregator and GstBaseTransform.

| Run | Instance | Shows |
|---|---|---|
| `overlay` | 3 frames, queues of 1, MLA pool of 2, 2 fields, 1 buffer with missing fields, any 2 failing calls | `EveryFrameOnceInOrder`, `BoxesAreNextInLine`, `LabelIsOwn`, `NoMapLeft`, `EveryFrameShown` |

`BoxesAreNextInLine` is exactly what the code gives: the k-th picture gets the
boxes of the k-th frame the MLA element did not lose.  Without a loss these are
its own although nobody compares frame ids; one loss shifts the boxes of the rest
of the stream, each by one frame (section 12).

**Bounds.**  A queue of one buffer is the tightest, two buffers are the pool's
minimum (`MIN_POOL_SIZE`) and both are recycled; three frames let one be lost, one
follow it and one wait.  Two failures are enough for a loss followed by the end of
a branch.  `MaxBlank` bounds the blank buffers after the end.

**Fairness.**  Every streaming thread runs and the source sends on.  Failures and
the KPI switch are never owed.  The system stops after the last frame
(`CHECK_DEADLOCK FALSE`).

## 7. gst_app: `GstApp`

**Actors and state.**  `main` is where `main()` and `pipeline_driver()` stand,
from `Launch` over `Construct`, `BuildPipeline`, `InitMQTTClient`,
`CreateSession` and its loop `DestroyOldSession`, `StartReader` (`std::async`),
`StartPipeline`, the bus loop (`Poll` reads its condition, `PopNothing` and `Pop` are
what the bus gives, `GetReader`, `LeaveLoop`) to the destructor
(`DeleteClient`, `DeleteSession`, `JoinReader`).  The signal handler (`Signal`)
runs in the main thread at any step, also between the loop's condition and the
message it pops; the mosquitto thread walks over the elements
between `Command` and `CommandDone`; the reader is `MakeGraph`, `RunOnce`,
`RunFails` and `Retry`, with `graph` its variable and `senders` the graphs that
exist.  Several instances share the LTTng session daemon (`session`), which knows
a session by the pipeline's name and outlives the programs.

| Run | Instance | Shows |
|---|---|---|
| `gstapp` | 2 instances of one pipeline, 2 tries, a signal, a failing call or a kill | `NothingFreedIsUsed`, `OneSender`, `SessionLeft`, `ExitIsReached` |

**Bounds.**  Two instances are enough for one to destroy the other's session, two
tries for one that is retried and the last one, which is not.  One fault and one
signal each fall on every step.  `NothingFreedIsUsed` says of `session_url` what the end of
stream promises, which waits for the reader; an ERROR or a signal does not wait
(section 12).

**Fairness.**  The threads of a program run; a run of the graph returns, as its
source does when it has nothing.  Messages on the bus, signals, commands and
failures are never owed: `ExitIsReached` starts where the loop was told to end.

## 8. The model on the host: `Detection` and `HostEval`

`Detection` is the decoding and suppression of `utils.py`, which `payload.py`
repeats: `get_model_outputs` (`RowIndex`), `demo_postprocess` (`LevelAt`, `Grid`,
`Decode`), `multiclass_nms` (`Passing`, `Postprocess`) and a turn of the loop of
`nms` (`KeepBest`).  argsort is not stable, so `Best` leaves open which of equal
scores comes first.  Offsets and sizes are whole cells, scores are steps.

`HostEval` runs the three scripts one after the other on one build folder:
`CleanResults`, `LoadModel`, `DataPrep`, `Quantize`, `CleanFolder`, the loop over
images (`NextImage`, `Suppress`, `Write`, `WriteFails`), `CollectTest` and
`ExecuteOnBoard` of run_accelmode, `Compile`, `ExtractJson`, `ExtractElf`.  Folders
are removed as rmtree does it, file by file in any order, and `results` has the run
of each file of results_dir: the quantised model, the archive, and the two files
extracted from it.  A dictionary is a
reference into `heap`; `i`, `it`, `filename`, the picture and the output are
separate variables, since the code reuses some of them.  `EndsEarly` is an
exception or a kill at any step, between two files of a removal too.

| Run | Instance | Shows |
|---|---|---|
| `hosteval` | 3 runs of any scripts, 2 images, 4 boxes that chain over 2 levels on a map that is not square, every score | `CentredOnCell`, `KeptApart`, `SuppressedByBetter`, `AnnotationIsOwn`, `DiskIsOfOneRun`, `EveryImageWritten` |
| `hosteval_calib` | 2 runs | violates `EveryCalibrationImageSeen` (finding) |

**Bounds.**  Two images show an index or a dictionary of the wrong one; three
runs are an interrupted one, one over its remains, and one of another script, and
two faults let two of them end early.
Three boxes in a chain, whose ends do not overlap, are the shortest case in which
the order of suppression matters; the fourth box lies on another level.

**Finding.**  `_data_prep()` makes one dictionary per input before the loop over
the images and appends it each time, so quantisation sees the last calibration
image only (`run_modelsdk.py:158`).

## 9. Programs against a board: `DevkitSession`

`kind` says which of four programs a session is: network_eval on an `.elf` or a
`.tar.gz`, remote_runner, or a script written against `apis/pipeline.py`.  The
program's steps are `Tunnel`, `TunnelZmq`, `Copy`, `Connect`, `LoadModel`,
`AllocateIfm` and `AllocateOfm` per batch element, `Upload`, `Run`, `Ran`,
`Download`, `NextFrame`, `Release` per handle; `Signal` is Ctrl-C or Ctrl-Z, whose
handler releases in the middle of anything and exits; `Dies` is a kill.  Requests
are a queue per session (`req`), so that a handler's request can follow one that
is still under way; `up` and `down` are the ZMQ pair.  `limit` is `--max_frames`,
whose default 0 is no limit, or the number of frames of a script.

**External.**  The service of the board, from how the client uses it: one
connection at a time, requests in order, a handle it cannot make is None, nothing
is freed by a disconnect.  It may refuse any request but a free, an upload before or
after it took the frame from the pair.  A refused free would leave its handle on
the board, as the client looks at no answer to it.

| Run | Instance | Shows |
|---|---|---|
| `devkit` | 2 programs of any kind, 5 handles, batches of 1 and 2, no limit or 2 frames, 2 attempts, a failing request or a kill, 2 signals | `NoUseAfterFree`, `LeftBehind`, `ResultIsOwn`, `SessionEnds` |

**Bounds.**  Five handles are a batch of two with its model, and fewer than two
sessions need, so that the second finds what the first left.  Two signals are one
in the middle of the release the other began.  Two attempts stand for ten.

Frames after the second of a program without a limit are not told apart.

The client looks neither at the answer of an upload (`apis/pipeline.py:164`) nor at
that of a download (`mla_rt_client.py:224`), and a `.tar.gz` run that gave None goes
on (`network_eval.py:172`).  So `ResultIsOwn` holds of a frame unless its upload or an
earlier one was refused (`missed`): from then on a run may use the buffer's old
content or a frame left in the pair.  And `SessionEnds` says that a program ends or,
without a limit, reaches the next frame, unless it is in `recv()` after a refused
download (`WaitsForOfm`); once it releases, it ends.

**Fairness.**  Program and service run.  Signals and deaths are never owed.

## 10. The SDK's container: `SdkContainer`

Terminals run `start.py` (`FindPort`, `CheckDaemon`, `RestartDaemon`, `CheckImage`,
`LookRunning`, `LookStopped`, `StartStopped`, `ChooseDirectory`, `DockerRun`,
`Configure` per group of commands, `ConfigureFails`, `Enter`) and `stop.py`
(`List`, `StopContainer`, `RemoveContainer`) against one daemon; each docker
command is a step.  `docker cp` works on a stopped container too, `docker exec` does
not (`Reached`).  `conf` counts how often each group of configuration commands
was applied to the container, `orphan` remembers that stop.py removed it under the
program that configured it.  Daemon, ports and other programs are external.

| Run | Instance | Shows |
|---|---|---|
| `sdk` | 2 start.py, 1 stop.py, 2 ports, the daemon dies or a port moves, a command fails, one 'r' answer | `ConfiguredOnce`, `OwnSetupComplete`, `PortFileIsPublished` |

Two terminals are the smallest race, two ports the smallest choice.  The docker
daemon accepts one container of a name: that is what the properties rest on.

## 11. Proofs

### `KpiSenderProofs`

For every value of the constants that `KpiConstants` allows:

| Theorem | Property |
|---|---|
| `TypeCorrect` | `TypeOK` |
| `PublicationIsSafe` | `PublishedListExists` |
| `TearDownIsSafe` | `NothingRunsAfterFree` |
| `NeverReportedTwice` | `ReportedOnce` |
| `KpisAreLabelled` | `WellLabelled` |
| `NoCompleteKpiIsLost` | `CompleteIsReported` |
| `SinkImplementsReport` | `ImplementsReport` |
| `StartsAreOwn`, with `MaxLost = 0` and `NeverStopped` | `StartIsOwn` |
| `FrameInOneMessage`, with `MaxGap <= Threshold` and `CountsEveryPlugin` | `SingleMessage` |

The first three follow from one inductive invariant, `Inv`: types; who holds the
mutex is told by both program counters; the key being converted is in
`plugin_kpi_map`; the list about to be published is not empty and every expired
list is not empty, which holds since only the holder of the mutex touches the
lists; tear-down advances only after the observer exited.  `NeverReportedTwice`
needs the history: `OnceInv` adds that a stored KPI is one whose events passed,
that the KPI of an element is converted when its last event passed (`CurIsNew`),
so that a second node could only come from an event that passed before.  Each
proof has a step per action and the tables' operators have lemmas of their own.

The others build on `OnceInv`.  `KpisAreLabelled` (`LabelInv`): the events of the
remote core carry neither name nor stream, so the plugin's own START, which comes
before them, must have left both in the entry.  `NoCompleteKpiIsLost` (`KeptInv`):
a KPI is reported, being converted, or still gathering, and what is gathering
holds every stamp that was merged, whatever the order of the four events.
`SinkImplementsReport` has the two parts of a refinement: `Init` maps to
`Report!Init`, and each action to an action of `KpiReport` or a stutter (taking a
KPI from one map is a stutter, adding its node is the abstract step).

The hypotheses of the last two are what the code relies on.  `StartsAreOwn`: a
PCIe START is kept in one entry that nothing removes, so a START that is lost, or
passes while `push_to_mqtt` is false, leaves the previous frame's; `NeverStopped`
says that `push_to_mqtt` is not reset, start-kpis may come at any time
(`StartInv`).  Without it `kpi_pcie_restart` shows the violation.
`FrameInOneMessage`: `is_full` compares the number of nodes with `plugins_count`,
and the observer compares an age with the threshold.  `CountsEveryPlugin` says that
no stream has more plugins than `plugins_count`, so that nothing is added to a list
that was full (`Final`); `MaxGap <= Threshold` keeps a list that will grow younger
than what the observer takes (`InTime`).  Both are promises of the pipeline's
configuration and timing that the sink cannot check.

### `SimaMMProofs`

For every number of threads, slots and bits of an int (`SimaMMConstants`: at
least as many slots as bits):

| Theorem | Property |
|---|---|
| `TypeCorrect` | `TypeOK` |
| `ResolutionIsOwn` | `ResolvesOwn` |
| `SlotsAreDistinct` | `OneSlotPerId` |

`ResolvesOwn` is not inductive: it rests on what a reader outside the mutex
knows.  `Inv` adds that the thread between lock and unlock has the mutex; that a
slot in use holds the address of its id, or none if the id is in `refused`, and so
does the one that the holder is filling;
and that the slot a reader was handed is in use.  Since the word only gains bits
and only slots that are not in use are written, the entry stays as it was when
it was found.  The masks may overlap: the proof needs only that none is empty
(`MaskInWord`).

### `DispatcherProofs`

For all batch sizes, model batches, tensor sizes, pool sizes and numbers of
failures.  `DispatcherConstants` types the constants; `PoolIsAddressable` says
that the output pool lies in the memory the MLA transport's 32 bits can address.

| Theorem | Property |
|---|---|
| `TypeCorrect` | `TypeOK` |
| `BatchesFit` | `BatchFits` |
| `NothingLeaks` | `NothingHeldWhenIdle` |
| `OutputsAreStable` | `DownstreamStable` |
| `ChecksKeepResultsOwn`, with `InputsAreAddressable` | `CheckedResultIsOwn` |

`BatchFits` needs `Progress`: while runs are left, no more than `RunCount` full
ones were made and less than the batch is complete; the rest is the arithmetic of
the quotient (`SplitBatch`).  `NothingLeaks` rests on `HeldInv`: the output send()
has in hand is the only one marked so, and what is left behind, counted without
the input of the current call, is bounded by the failed metadata calls; each path
that fails is a case.  `OutputsAreStable` combines both: the tensors of a run lie
in the buffer in hand (`TensorsInBuffer`), buffers do not overlap
(`CellsDisjoint`), and the one in hand is not downstream.
`ChecksKeepResultsOwn` follows from `ResultInv`: the address in use is that of the
current input (`InputKnown`), the tensors completed so far hold what was computed
from it (`RunsHold`), and every output that left before still holds its own, since
a run writes only the next tensors of the buffer in hand.  The MLA transport adds
buffer-offset to the address and passes 32 bits on; `InputsAreAddressable` says, if
there is an MLA configuration at all, that the offset is 0, which is what every
element of `src/` writes (`dispatcher.c:357`, `gstsimaaiprocesscvu.cpp:360`,
`gstsimaaiprocessmla.cpp:585`), and that inputs lie below that limit, which nothing in
`src/` checks.

### `GstAppProofs`

For every number of instances, retries, signals and faults
(`GstAppAssumption`):

| Theorem | Property |
|---|---|
| `TypeCorrect` | `TypeOK` |
| `ThreadsUseLiveMemory` | `NothingFreedIsUsed` |
| `AtMostOneSender` | `OneSender` |
| `SessionIsDestroyed` | `SessionLeft` |

The invariant `Inv` is a conjunction per instance (`Local`): the reader's `graph`
is set exactly when it runs or sleeps, and then there is one sink; there is no
MQTT thread while the pipeline is given back; the url lives while the loop does,
and after an end of stream the loop goes on only with the reader over; an instance
with a handle made a session and has left only after destroying it.  A step of one
instance leaves the others' conjuncts alone (`OthersKeep`), so that each action has
one lemma about its own instance.

### `OverlayProofs`

For every number of frames, queue and pool size, set of fields and failures:

| Theorem | Property |
|---|---|
| `EveryMapUndone` | `NoMapLeft` |
| `FramesInOrder` | `EveryFrameOnceInOrder` |
| `BoxesInLine` | `BoxesAreNextInLine` |
| `LabelsAreOwn` | `LabelIsOwn` |

For the first, `Inv` adds that every map is of the output or of a buffer in
`input_buffers` (`InHand`), which is what unmap goes over, and the types of what
moves through the graph (`Moving`).

The other three are one invariant over the whole chain of queues, pads, tasks and
hands, `InOrder`: there is a frame `m` up to which the frames have left the model
branch, and what is under way is the rest in order (`Ordered(m)`).  On the video
branch these are consecutive numbers (`VideoPad`); on the model branch the frames
that the MLA element did not lose, named by `Rank`, the number of such frames up to one
(`Queues`, `Places`, `Line`).  Each step takes from the front of one place and adds
to the end of the next, so it moves a segment and leaves the order.  `Told` says
what the overlay's task has in hand and what its outputs show (`Round`, `Story`):
the k-th output has the k-th picture, its labels and the boxes of rank k.  An
element whose task has ended puts no frame into the chain any more.

### `HostEvalProofs`

For every size of the image, set of rows, output of the network, score, threshold,
number of images and of runs (`DetectionConstants`, `HotCells`, `HostConstants`).
The first three are about `NmsSpec`; `ScriptsSuppressInTurn` proves that `HostEval`
implements it, so that they hold of the scripts (`DrawnBoxesAreRight`).

| Theorem | Property |
|---|---|
| `BoxesAreCentred` | `CentredOnCell` |
| `KeptBoxesAreApart` | `KeptApart` |
| `NothingIsLost` | `SuppressedByBetter` |
| `ScriptsSuppressInTurn` | `Spec => NmsSpec` |
| `DrawnBoxesAreRight` | all three, of `HostEval`'s `Spec` |
| `AnnotationsAreOwn` | `AnnotationIsOwn` |
| `EveryImageIsThere` | `EveryImageWritten` |
| `DiskHoldsOneRun` | `DiskIsOfOneRun` |
| `CalibrationSeesLastOnly` | `LastImageOnly`: the finding of `hosteval_calib`, for every size of `calib_dir` |

`BoxesAreCentred` is the arithmetic of positions: a row-major position lies in the
range of its own level and of no other (`RowInLevel`, `LevelFound`), and quotient
and remainder by the width give its row and column back (`GridFound`).
`KeptBoxesAreApart` needs that the overlap test is symmetric
(`OverlapSymmetric`), since `nms()` tests a pair in one order only.

The scripts' invariant `Inv` says where a script is in its list of steps (`Path`),
that its lists are empty when it begins (`Fresh`), that run_accelmode's lists are in
the order of the images (`Collected`), that the loop's `file`, picture and output
are of one image (`AtImage`), which images the folder holds when the loop is at it
(`Written`), and that these are of the run that cleaned the folder (`OfThisRun`).
A run of run_modelsdk writes a file of results_dir only after it saw the last old one
go, so that each file there is of one run, wherever a removal was cut short.
`OneDictionary` is what `_data_prep()` does to its list.

### `DevkitSessionProofs`

For every number of programs of any kind, handles, buffers of a batch, frames,
failing requests and signals (`DevkitConstants`):

| Theorem | Property |
|---|---|
| `BoardIsNotMisused` | `NoUseAfterFree` |
| `SpareBuffersAreLeft` | `LeftBehind` |
| `ResultsAreOwn` | `ResultIsOwn` |

`Inv` has two parts per program.  `Handles` ties the handles the program has on the
board to where it stands and to the request under way: while it allocates, the
first n buffers; in the loop, all of them; in the release, all but the first k it
returns, the k-th of which may still be on its way (`Connects`, `Allocates`, `Loops`,
`Releases`).  A signal may begin the release in the middle of a run, or again in the
middle of a release, so `BeginsRelease` allows what is then still under way.
`Carries` says in which of the ZMQ sockets, the buffers or the result a script's
frame is, as long as no upload was refused (`InOrder`), and that a result of another
frame comes after a refused upload.  A step of one program changes nothing of
another's (`SameKeeps`): handles carry their owner.

### `SdkContainerProofs`

For every number of terminals, ports and failures (`SdkConstants`):

| Theorem | Property |
|---|---|
| `ContainerIsConfiguredOnce` | `ConfiguredOnce` |
| `CreatorSetsUpCompletely` | `OwnSetupComplete` |
| `SavedPortIsPublished` | `PortFileIsPublished` |

The one lock is the container's name: `docker run` fails if it is taken.  `Inv` says
that whoever created the container is past creation (`PastCreation`) and, until
stop.py removes a container under the program that made it (`orphan`), that who
configures the container is its creator, on its own port (`Creator`); that the configuration counts of the container are those of the groups
its creator went through (`Counted`); and that a creator which entered went
through all (`Complete`).

### Only model-checked

- The liveness properties `EventuallyPublished`, `FinalizeReturns`, `SendReturns`,
  `CallReturns`, `EveryFrameShown`, `ExitIsReached` and `SessionEnds`: liveness under
  fairness is out of the prover's reach.
- What the violation runs refute: `StartIsOwn` with stop-kpis, `ResultIsOwn` of
  the unchecked dispatcher branch, `EveryCalibrationImageSeen`.
- `SingleMessage` with `MaxGap > Threshold`, and `StartIsOwn` with lost events, are not
  claimed: the code does not give them.

## 12. Observations without a run

Met while modelling; where a model contains one, its properties are stated with it.

Frame graph:
- The result of `gst_aggregator_finish_buffer` is ignored
  (`gstsimaaiprocesscvu.cpp:611`): a failed MLA run loses its frame on one branch
  only, and the boxes of all later pictures are of a later frame.
- A job that fails logs "drop and continue" (`:600`) but returns
  `GST_FLOW_ERROR`, which ends the branch; inputs and output stay referenced.
  `add2list` returns `GST_FLOW_ERROR`, which is not 0, where its caller tests for
  FALSE (`:285`).
- processmla's error paths leave input and output mapped
  (`gstsimaaiprocessmla.cpp:980-1016`).
- `metadata_add_failed` is never reset (`python_plugin_template.py:755`);
  `pcie_buffer_id` is always 0 (`:607`).

gst_app:
- A SIGINT before `terminate = FALSE` is lost (`pipeline.cpp:540`); one before the
  object is set dereferences NULL (`gst_app.cpp:12`).
- After a failed `make_graph`, `bt_graph_run_once(NULL)` aborts
  (`live_trace_reader_api.c:166`); the retry counter is never reset; a graph that
  has ended is run again for ever.
- On ERROR or a signal `session_url` may be freed while the reader makes another
  graph (`pipeline.cpp:317`): `NothingFreedIsUsed` holds for the end of stream only.
- Two instances destroy each other's session (`lttng_session.cpp:16`).

dispatcher-lite and simamm:
- On EVXX the request is built from `in_buf_id`, which nothing sets
  (`dispatcher.c:266-268`); MLA addresses are passed in 32 bits (`:300`).
- An attach or a map that failed is not checked (`simamm.c:82-84`): the slot answers
  with no address for ever, also when the library would give one later.
- From the 33rd buffer on no slot is found, with 32 never used (`simamm.c:86`);
  entries are never removed (`:74`).  From then on `buffer_id_to_vaddr` asks for
  the virtual address of memory nobody mapped (`:125`).

KPI sink:
- Entries left half-filled while `push_to_mqtt` is false stay in
  `plugin_kpi_map`; a message that does not parse is not released
  (`kpi_sender.c:288`, `:293`).

Host programs:
- A tunnel on another local port moves `dv_port`, but the connection goes to
  `dv_host` (`network_eval.py:281`); `release()` frees the first ifm and ofm of the
  batch only (`:188`); ssh tunnels outlive the program (`:338`).
- The answer of the upload is ignored (`apis/pipeline.py:164`): after a refused one
  the result may be another frame's.  After a refused download `recv()` waits for ever
  (`mla_rt_client.py:224-225`).  With `--max_frames` at its default 0 only a signal or
  an error ends network_eval (`network_eval.py:241`), and a `.tar.gz` run that gave
  None goes on (`:172`).
- A third try of the docker restart that succeeds exits (`start.py:128`); a
  container whose configuration failed half-way is entered as complete
  (`start.py:184`).
- `run_remote_command` joins characters (`ssh_utils.py:200`); `topk.py:79` repeats
  `continue` for ever.

## 13. Not modelled

- gst_app: parsing of manifest and command line, and the replacement of tags in
  the pipeline string (pure functions); `gst_app_utils.cpp` is not built.
- The plugins: caps negotiation and the change of the pool it brings (once, in the
  same task, before the first frame), reading configurations, dump files,
  allocators and segments (calls of an external memory library), PCIe ids (this
  graph has no PCIe element).  The Python template's header mode, which
  `MyPlugin` does not use, and `do_start`'s search for the model's JSON.
- KPI sink: the JSON text, hash collisions, the broker's delivery, and the
  reference counts of babeltrace messages.
- dispatcher-lite: loading models, writing output files, the host (A65) branch,
  for which `send` runs nothing, and the backends' drivers.  simamm: the copy in
  `core/dispatcher-lite`, which does all of it under the mutex and fills further slots
  for a buffer it has no address of.
- get_fps: `PrePostProcessingPipeline`'s numeric code, the client's array variants,
  which nothing calls, `topk`.  start.py: the Windows and macOS branches.
- Model scripts: pixel operations, ONNX shapes, `yolox_surgery_no_reshape.py` (one
  pass over one graph).
- Test programs.

--------------------------- MODULE DevkitSession ---------------------------
(***************************************************************************)
(* The programs of get_fps/ that drive a DevKit from a host: network_eval  *)
(* on an .elf ("eval") or a .tar.gz ("pm"), remote_runner ("runner"), and  *)
(* a script written against apis/pipeline.py ("api").  Each opens ssh      *)
(* tunnels, copies its files, connects to the one RPC service of the board *)
(* (which refuses a second connection), takes buffers on the board, runs   *)
(* frames and gives the buffers back.  Ctrl-C and Ctrl-Z run a handler     *)
(* that releases in the middle of whatever the program is doing.           *)
(*                                                                         *)
(* External, modelled from its use: the service (one thread per            *)
(* connection, requests in order, any but a free may be refused, nothing   *)
(* freed by a disconnect) and the ZMQ socket pair, which dv_connect makes  *)
(* anew.  Abstractions: the data of a buffer is the number of the frame    *)
(* it came from; ssh and scp succeed at some attempt or not at all.        *)
(***************************************************************************)
EXTENDS Integers, Sequences, FiniteSets

CONSTANTS
  Sessions,     (* program runs                                            *)
  Capacity,     (* handles the board can give out                          *)
  MaxBatch,     (* largest batch_size                                      *)
  Limits,       (* what max_frames is, 0 for no limit, and the number of   *)
                (* frames of a script                                      *)
  MaxFrames,    (* the largest of them; later frames are not told apart    *)
  MaxAttempts,  (* max_attempts, 10 in the code                            *)
  MaxFaults,    (* bound on the requests that fail                         *)
  MaxSignals,   (* bound on Ctrl-C and Ctrl-Z                              *)
  None

ASSUME DevkitConstants ==
  /\ Capacity \in Nat /\ MaxBatch \in Nat \ {0} /\ MaxFrames \in Nat \ {0, 1}
  /\ Limits \subseteq 0 .. MaxFrames
  /\ MaxAttempts \in Nat \ {0} /\ MaxFaults \in Nat /\ MaxSignals \in Nat
  /\ None \notin Sessions

Kinds == {"eval", "pm", "api", "runner"}
Ended == {"done", "error"}
NoLimit == 0                      \* the default of --max_frames
Fresh == 0                        \* what a fresh buffer holds

VARIABLES
  kind, batch,   (* which program a session is, args.batch_size            *)
  limit,         (* args.max_frames, or the frames of a script             *)
  pc,            (* where it is                                            *)
  port,          (* its dv_port, as the distance from the service's        *)
  frame,         (* fcounter                                               *)
  req,           (* requests the service has not answered                  *)
  ok,            (* what the last answer said                              *)
  up, down,      (* the ZMQ pair: frames under way                         *)
  got,           (* history: <<frame, frame the result was computed from>> *)
  missed,        (* history: the frames whose upload was refused           *)
  releases,      (* history: times it began to give its buffers back       *)
  owner,         (* the session the service is connected with              *)
  held,          (* handles that are out                                   *)
  ifm, ofm,      (* content of a session's first buffers                   *)
  misuse,        (* history: <<session, "run" or "free">> on a dead handle *)
  faults, signals

client == <<kind, batch, limit, port>>
done   == <<got, missed>>
board  == <<owner, held, ifm, ofm, misuse>>
pair   == <<up, down>>
vars == <<kind, batch, limit, pc, port, frame, req, ok, up, down, got, missed, releases,
          owner, held, ifm, ofm, misuse, faults, signals>>

Handle(s, what, i) == [of |-> s, what |-> what, i |-> i]
Model(s)   == Handle(s, "model", 0)
Env(s)     == Handle(s, "env", 0)
Ifm(s, i)  == Handle(s, "ifm", i)
Ofm(s, i)  == Handle(s, "ofm", i)
Buffers(s) == {Ifm(s, i) : i \in 1 .. batch[s]} \cup {Ofm(s, i) : i \in 1 .. batch[s]}

Init ==
  /\ kind = [s \in Sessions |-> "eval"] /\ batch = [s \in Sessions |-> 1]
  /\ limit = [s \in Sessions |-> 1]
  /\ pc = [s \in Sessions |-> "off"]
  /\ port = [s \in Sessions |-> 0] /\ frame = [s \in Sessions |-> 1]
  /\ req = [s \in Sessions |-> <<>>] /\ ok = [s \in Sessions |-> TRUE]
  /\ up = [s \in Sessions |-> <<>>] /\ down = [s \in Sessions |-> <<>>]
  /\ got = [s \in Sessions |-> {}] /\ missed = [s \in Sessions |-> {}]
  /\ releases = [s \in Sessions |-> 0]
  /\ owner = None /\ held = {}
  /\ ifm = [s \in Sessions |-> Fresh] /\ ofm = [s \in Sessions |-> Fresh]
  /\ misuse = {} /\ faults = 0 /\ signals = 0

Goto(s, l) == pc' = [pc EXCEPT ![s] = l]

(* A program goes on only when its request was answered.                   *)
At(s, l) == pc[s] = l /\ req[s] = <<>>

Call(s, op, h) == req' = [req EXCEPT ![s] = Append(@, [op |-> op, h |-> h])]

(* The process ends: its connection and its sockets are gone, and with     *)
(* them the requests nobody answered.                                      *)
Leave(s, how) ==
  /\ Goto(s, how)
  /\ req' = [req EXCEPT ![s] = <<>>]
  /\ up' = [up EXCEPT ![s] = <<>>] /\ down' = [down EXCEPT ![s] = <<>>]
  /\ owner' = IF owner = s THEN None ELSE owner
  /\ UNCHANGED <<client, frame, ok, done, releases, held, ifm, ofm, misuse,
                 faults, signals>>

Start(s) ==
  /\ pc[s] = "off"
  /\ \E k \in Kinds, n \in 1 .. MaxBatch, m \in Limits, bypass \in BOOLEAN :
       /\ k = "eval" \/ n = 1
       /\ k = "api" => m # NoLimit
       /\ kind' = [kind EXCEPT ![s] = k] /\ batch' = [batch EXCEPT ![s] = n]
       /\ limit' = [limit EXCEPT ![s] = IF k = "runner" THEN @ ELSE m]
       /\ Goto(s, IF k = "api" THEN "connect" ELSE IF bypass THEN "copy" ELSE "tunnel")
  /\ UNCHANGED <<port, frame, req, ok, pair, done, releases, board,
                 faults, signals>>

(* create_forward_tunnel(): the n-th attempt, on the n-th port.            *)
Tunnel(s) ==
  /\ pc[s] = "tunnel"
  /\ \/ /\ \E n \in 1 .. MaxAttempts : port' = [port EXCEPT ![s] = n - 1]
        /\ Goto(s, IF kind[s] = "runner" THEN "copy" ELSE "tunnelZmq")
        /\ UNCHANGED <<kind, batch, limit, req, pair, owner>>
     \/ Leave(s, "error")
  /\ UNCHANGED <<frame, ok, done, releases, held, ifm, ofm, misuse, faults, signals>>

(* create_forward_tunnel_generic() for the ZMQ port: the port it got is    *)
(* not used.                                                               *)
TunnelZmq(s) ==
  /\ pc[s] = "tunnelZmq"
  /\ \/ /\ Goto(s, "copy")
        /\ UNCHANGED <<client, req, pair, owner>>
     \/ Leave(s, "error")
  /\ UNCHANGED <<frame, ok, done, releases, held, ifm, ofm, misuse, faults, signals>>

(* scp_files_to_remote(), and for the runner get_requirements_txt().       *)
Copy(s) ==
  /\ pc[s] = "copy"
  /\ \/ /\ Goto(s, "connect")
        /\ UNCHANGED <<client, frame, req, ok, pair, done, releases, board, faults, signals>>
     \/ Leave(s, "error")

(* rpyc.connect(dv_host, dv_port), ping, check_version, and for the eval   *)
(* the comparison of the batch sizes: a port that was moved is one on the  *)
(* board where nobody listens, and a busy service closes the connection.   *)
Connect(s) ==
  /\ pc[s] = "connect"
  /\ \/ /\ port[s] = 0 /\ owner = None
        /\ owner' = s
        /\ IF kind[s] = "runner"
             THEN Goto(s, "env") /\ Call(s, "alloc", Env(s))
             ELSE Goto(s, "model") /\ Call(s, "connect", Model(s))
        /\ UNCHANGED <<client, frame, ok, pair, done, releases, held, ifm, ofm,
                       misuse, faults, signals>>
     \/ Leave(s, "error")

(* load_model_only() after dv_connect(); pm_connect() did it for the pm.   *)
LoadModel(s) ==
  /\ At(s, "model")
  /\ IF ~ok[s] THEN Leave(s, "error")
     ELSE /\ Goto(s, IF kind[s] = "pm" THEN "loop" ELSE "ifm")
          /\ IF kind[s] = "pm" THEN req' = req ELSE Call(s, "alloc", Model(s))
          /\ UNCHANGED <<client, frame, ok, pair, done, releases, board, faults, signals>>

Took(s, what) == Cardinality({h \in held : h.of = s /\ h.what = what})

(* One round of Pipeline.__init__'s loop over the batch.                   *)
AllocateIfm(s) ==
  /\ At(s, "ifm")
  /\ IF ~ok[s] THEN Leave(s, "error")
     ELSE /\ IF Took(s, "ofm") = batch[s]
               THEN Goto(s, "loop") /\ req' = req
               ELSE Goto(s, "ofm") /\ Call(s, "alloc", Ifm(s, Took(s, "ifm") + 1))
          /\ UNCHANGED <<client, frame, ok, pair, done, releases, board, faults, signals>>

AllocateOfm(s) ==
  /\ At(s, "ofm")
  /\ IF ~ok[s] THEN Leave(s, "error")
     ELSE /\ Goto(s, IF kind[s] = "api" THEN "ofm?" ELSE "ifm")
          /\ Call(s, "alloc", Ofm(s, Took(s, "ofm") + 1))
          /\ UNCHANGED <<client, frame, ok, pair, done, releases, board, faults, signals>>

(* init_ifm_ofm() of apis/pipeline.py frees the ifm when there is no ofm,  *)
(* and forgets to forget it.                                               *)
OfmAllocated(s) ==
  /\ At(s, "ofm?")
  /\ IF ok[s] THEN Goto(s, "loop") /\ UNCHANGED <<req, releases>>
     ELSE /\ Goto(s, "raised") /\ Call(s, "free", Ifm(s, 1))
          /\ releases' = [releases EXCEPT ![s] = @ + 1]
  /\ UNCHANGED <<client, frame, ok, pair, done, board, faults, signals>>

(* Faulty variant: the frame is sent only after the service answered.      *)
UploadAsksFirst(s) ==
  /\ At(s, "loop") /\ kind[s] = "api"
  /\ Call(s, "upload", Ifm(s, 1))
  /\ Goto(s, "run")
  /\ UNCHANGED <<client, frame, ok, pair, done, releases, board, faults, signals>>

(* run_inference(): the api first sends the frame over ZMQ, then asks the  *)
(* service to receive it.                                                  *)
Upload(s) ==
  /\ At(s, "loop") /\ kind[s] = "api"
  /\ up' = [up EXCEPT ![s] = Append(@, frame[s])]
  /\ Call(s, "upload", Ifm(s, 1))
  /\ Goto(s, "run")
  /\ UNCHANGED <<client, frame, ok, down, done, releases, board, faults, signals>>

(* Faulty variant: rc is not looked at.                                    *)
RanUnchecked(s) ==
  /\ At(s, "ran")
  /\ IF kind[s] = "api"
       THEN Goto(s, "download") /\ Call(s, "download", Ofm(s, 1))
       ELSE Goto(s, "next") /\ req' = req
  /\ UNCHANGED <<client, frame, ok, pair, done, releases, board, faults, signals>>

(* run_model_phys(), run_batch_model_phys(), pm_run_pipeline(): what       *)
(* upload_ifm_zmq() answered is not looked at.                             *)
Run(s) ==
  /\ IF kind[s] = "api" THEN At(s, "run") ELSE At(s, "loop")
  /\ Call(s, "run", Model(s))
  /\ Goto(s, "ran")
  /\ UNCHANGED <<client, frame, ok, pair, done, releases, board, faults, signals>>

(* A run that failed raises, but run_pipelined_inference() of network_eval *)
(* hands on the None it got, and nobody looks at it.                       *)
Ran(s) ==
  /\ At(s, "ran")
  /\ CASE kind[s] = "eval" /\ ~ok[s] -> Leave(s, "error")
       [] kind[s] = "api" /\ ~ok[s]  ->
            Goto(s, "raised") /\ UNCHANGED <<req, pair, owner>>
       [] kind[s] = "api" /\ ok[s]   ->
            /\ Goto(s, "download") /\ Call(s, "download", Ofm(s, 1))
            /\ UNCHANGED <<pair, owner>>
       [] OTHER -> Goto(s, "next") /\ UNCHANGED <<req, pair, owner>>
  /\ UNCHANGED <<client, frame, ok, done, releases, held, ifm, ofm, misuse, faults, signals>>

(* download_ofm_only_zmq(): ask first, then receive, with no timeout and   *)
(* whatever was answered.                                                  *)
Download(s) ==
  /\ At(s, "download") /\ down[s] # <<>>
  /\ got' = [got EXCEPT ![s] = @ \cup {<<frame[s], Head(down[s])>>}]
  /\ down' = [down EXCEPT ![s] = Tail(@)]
  /\ Goto(s, "next")
  /\ UNCHANGED <<client, frame, req, ok, up, missed, releases, board, faults, signals>>

(* max_frames ends the loop, if there is one; after one frame the handlers *)
(* are registered.  With --layer_stats_path the first frame is the last,   *)
(* and the file it left on the board is copied back: when that fails       *)
(* open() raises.                                                          *)
NextFrame(s) ==
  /\ pc[s] = "next"
  /\ \/ /\ frame[s] # limit[s]
        /\ frame' = [frame EXCEPT ![s] = IF @ < MaxFrames THEN @ + 1 ELSE @]
        /\ Goto(s, "loop")
     \/ /\ frame[s] = limit[s] \/ (kind[s] = "eval" /\ frame[s] = 1)
        /\ Goto(s, "release")
        /\ UNCHANGED frame
  /\ UNCHANGED <<client, req, ok, pair, done, releases, board, faults, signals>>

StatsMissing(s) ==
  /\ pc[s] = "next" /\ kind[s] = "eval" /\ frame[s] = 1
  /\ Leave(s, "error")

(* A script that catches what run_inference() or init_ifm_ofm() raised     *)
(* goes on with another frame, when it has its buffers, or releases.       *)
Caught(s) ==
  /\ At(s, "raised")
  /\ \/ /\ frame[s] < limit[s] /\ Ofm(s, 1) \in held
        /\ frame' = [frame EXCEPT ![s] = @ + 1]
        /\ Goto(s, "loop")
     \/ Goto(s, "release") /\ UNCHANGED frame
  /\ UNCHANGED <<client, req, ok, pair, done, releases, board, faults, signals>>

(* Faulty variant: the model is forgotten.                                 *)
ReturnedWithoutModel(s) == CASE kind[s] \in {"eval", "api"} -> <<Ifm(s, 1), Ofm(s, 1)>>
                             [] kind[s] = "pm"              -> <<>>
                             [] kind[s] = "runner"          -> <<Env(s)>>

(* What release() asks the service to free: the first ifm and the first    *)
(* ofm of the batch, and the model.                                        *)
Returned(s) == CASE kind[s] \in {"eval", "api"} -> <<Ifm(s, 1), Ofm(s, 1), Model(s)>>
                 [] kind[s] = "pm"              -> <<Model(s)>>
                 [] kind[s] = "runner"          -> <<Env(s)>>

Step == <<"release", "release2", "release3", "release4">>
Releasing(s) == \E i \in 1 .. Len(Step) : pc[s] = Step[i]

(* One free_ifm(), free_ofm() or free_model() of release(), or the runner's *)
(* delete_virtual_env().                                                   *)
Release(s) ==
  \E i \in 1 .. 3 :
    /\ At(s, Step[i]) /\ i <= Len(Returned(s))
    /\ LET h == Returned(s)[i]
       IN IF kind[s] = "api" /\ h.what = "ofm" /\ h \notin held
            THEN req' = req        \* self.ofm is None
            ELSE Call(s, "free", h)
    /\ Goto(s, Step[i + 1])
    /\ releases' = IF i = 1 THEN [releases EXCEPT ![s] = @ + 1] ELSE releases
    /\ UNCHANGED <<client, frame, ok, pair, done, board, faults, signals>>

Released(s) ==
  /\ At(s, Step[Len(Returned(s)) + 1])
  /\ Leave(s, "done")

(* remote_runner: create_virtual_env(), run_remote_model(), then           *)
(* delete_virtual_env().                                                   *)
RunRemote(s) ==
  /\ At(s, "env")
  /\ IF ~ok[s] THEN Leave(s, "error")
     ELSE /\ Goto(s, "release") /\ Call(s, "run", Env(s))
          /\ UNCHANGED <<client, frame, ok, pair, done, releases, board, faults, signals>>

(* Faulty variant: the handler returns after the release.                  *)
SignalReturns(s) ==
  /\ signals < MaxSignals /\ signals' = signals + 1
  /\ kind[s] = "eval" /\ frame[s] > 1 /\ pc[s] \notin Ended
  /\ req' = [req EXCEPT ![s] = @ \o [i \in 1 .. 3 |-> [op |-> "free", h |-> Returned(s)[i]]]]
  /\ releases' = [releases EXCEPT ![s] = @ + 1]
  /\ UNCHANGED <<client, pc, frame, ok, pair, done, board, faults>>

(* Ctrl-C or Ctrl-Z once network_eval has registered its handlers: release *)
(* begins at once, also in the middle of a request or of a release, and    *)
(* sys.exit() follows: the interrupted code never goes on.                 *)
Signal(s) ==
  /\ signals < MaxSignals /\ signals' = signals + 1
  /\ kind[s] \in {"eval", "pm"} /\ frame[s] > 1 /\ pc[s] \notin Ended
  /\ Goto(s, "release")
  /\ UNCHANGED <<client, frame, req, ok, pair, done, releases, board, faults>>

(* An exception nobody catches: a KeyboardInterrupt before that, a         *)
(* connection that broke, a kill.                                          *)
Dies(s) ==
  /\ pc[s] \notin Ended \cup {"off"} /\ faults < MaxFaults
  /\ Goto(s, "error")
  /\ req' = [req EXCEPT ![s] = <<>>]
  /\ up' = [up EXCEPT ![s] = <<>>] /\ down' = [down EXCEPT ![s] = <<>>]
  /\ owner' = IF owner = s THEN None ELSE owner
  /\ faults' = faults + 1
  /\ UNCHANGED <<client, frame, ok, done, releases, held, ifm, ofm, misuse, signals>>

----------------------------------------------------------------------------
(* The service of the board (external).                                    *)
Answer(s, yes) ==
  /\ req' = [req EXCEPT ![s] = Tail(@)]
  /\ ok' = [ok EXCEPT ![s] = yes]

Asked(s, op) == owner = s /\ req[s] # <<>> /\ Head(req[s]).op = op
Subject(s) == Head(req[s]).h

(* A request may fail; connecting the .tar.gz loads its model, connecting  *)
(* for an .elf does not.                                                   *)
Fails == faults < MaxFaults /\ faults' = faults + 1

ServeConnect(s) ==
  /\ Asked(s, "connect")
  /\ \/ /\ Answer(s, TRUE) /\ UNCHANGED faults
        /\ held' = IF kind[s] = "pm" THEN held \cup {Subject(s)} ELSE held
     \/ Fails /\ Answer(s, FALSE) /\ UNCHANGED held
  /\ UNCHANGED <<client, pc, frame, pair, done, releases, owner, ifm, ofm, misuse, signals>>

(* load_model(), create_virtual_env(), allocate_ifm(), allocate_ofm(): a   *)
(* full board gives out no more buffers.                                   *)
Full(h) == h.what \in {"ifm", "ofm"} /\ Cardinality(held) >= Capacity

ServeAlloc(s) ==
  /\ Asked(s, "alloc")
  /\ \/ /\ ~Full(Subject(s)) /\ Answer(s, TRUE)
        /\ held' = held \cup {Subject(s)}
        /\ UNCHANGED faults
     \/ Full(Subject(s)) /\ Answer(s, FALSE) /\ UNCHANGED <<held, faults>>
     \/ Fails /\ Answer(s, FALSE) /\ UNCHANGED held
  /\ UNCHANGED <<client, pc, frame, pair, done, releases, owner, ifm, ofm, misuse, signals>>

(* The service waits for the frame on its end of the pair, and stores it;  *)
(* or it fails, before or after it took the frame.                         *)
ServeUpload(s) ==
  /\ Asked(s, "upload") /\ up[s] # <<>>
  /\ misuse' = IF Subject(s) \in held THEN misuse ELSE misuse \cup {<<s, "run">>}
  /\ \/ /\ ifm' = [ifm EXCEPT ![s] = Head(up[s])]
        /\ up' = [up EXCEPT ![s] = Tail(@)]
        /\ Answer(s, TRUE)
        /\ UNCHANGED <<missed, faults>>
     \/ /\ Fails /\ Answer(s, FALSE)
        /\ \E rest \in {up[s], Tail(up[s])} : up' = [up EXCEPT ![s] = rest]
        /\ missed' = [missed EXCEPT ![s] = @ \cup {frame[s]}]
        /\ UNCHANGED ifm
  /\ UNCHANGED <<client, pc, frame, down, got, releases, owner, held, ofm, signals>>

Needed(s) == IF kind[s] \in {"eval", "api"} THEN Buffers(s) \cup {Model(s)} ELSE {Subject(s)}

ServeRun(s) ==
  /\ Asked(s, "run")
  /\ misuse' = IF Needed(s) \subseteq held THEN misuse ELSE misuse \cup {<<s, "run">>}
  /\ \/ Answer(s, TRUE) /\ ofm' = [ofm EXCEPT ![s] = ifm[s]] /\ UNCHANGED faults
     \/ Fails /\ Answer(s, FALSE) /\ UNCHANGED ofm
  /\ UNCHANGED <<client, pc, frame, pair, done, releases, owner, held, ifm, signals>>

(* The service sends the result, or refuses and sends nothing.             *)
ServeDownload(s) ==
  /\ Asked(s, "download")
  /\ \/ /\ down' = [down EXCEPT ![s] = Append(@, ofm[s])]
        /\ Answer(s, TRUE)
        /\ UNCHANGED faults
     \/ Fails /\ Answer(s, FALSE) /\ UNCHANGED down
  /\ UNCHANGED <<client, pc, frame, up, done, releases, board, signals>>

ServeFree(s) ==
  /\ Asked(s, "free")
  /\ held' = held \ {Subject(s)}
  /\ misuse' = IF Subject(s) \in held THEN misuse ELSE misuse \cup {<<s, "free">>}
  /\ Answer(s, TRUE)
  /\ UNCHANGED <<client, pc, frame, pair, done, releases, owner, ifm, ofm, faults, signals>>
----------------------------------------------------------------------------
Program(s) ==
  \/ Start(s) \/ Tunnel(s) \/ TunnelZmq(s) \/ Copy(s) \/ Connect(s) \/ LoadModel(s)
  \/ AllocateIfm(s) \/ AllocateOfm(s) \/ OfmAllocated(s)
  \/ Upload(s) \/ Run(s) \/ Ran(s) \/ Download(s) \/ NextFrame(s) \/ StatsMissing(s)
  \/ Caught(s) \/ Release(s) \/ Released(s) \/ RunRemote(s)

Service(s) == \/ ServeConnect(s) \/ ServeAlloc(s) \/ ServeUpload(s) \/ ServeRun(s)
              \/ ServeDownload(s) \/ ServeFree(s)

Next == \E s \in Sessions : Program(s) \/ Service(s) \/ Signal(s) \/ Dies(s)

Spec == Init /\ [][Next]_vars

(* The processes and the service run; signals and deaths need not come.    *)
FairSpec ==
  Spec /\ \A s \in Sessions : WF_vars(Program(s)) /\ WF_vars(Service(s))
----------------------------------------------------------------------------
(* The board never runs or fills a model whose buffers were not allocated  *)
(* or were given back: not after a failed allocation, and not when a       *)
(* signal releases in the middle of a frame.  It is asked to free a handle *)
(* twice only when giving back began twice: a signal interrupted a release,*)
(* or init_ifm_ofm() had already freed the ifm.                            *)
NoUseAfterFree ==
  \A s \in Sessions :
    /\ <<s, "run">> \notin misuse
    /\ <<s, "free">> \in misuse => releases[s] > 1

(* What a session that ended by itself or by a signal leaves on the board  *)
(* is exactly the buffers of the batch from the second on: release() frees *)
(* the first ifm and the first ofm only.                                   *)
LeftBehind ==
  \A s \in Sessions : pc[s] = "done" =>
    {h \in held : h.of = s} = {h \in Buffers(s) : h.i > 1}

(* The result a script gets for a frame was computed from that frame, also *)
(* after a run that failed, unless an upload of this or an earlier frame   *)
(* was refused: run_inference() does not look at that answer, and runs on  *)
(* what the buffer held, or on what was left in the pair.                  *)
ResultIsOwn ==
  \A s \in Sessions : \A r \in got[s] :
    r[1] = r[2] \/ \E f \in missed[s] : f <= r[1]

(* A refused download leaves a script in recv() for ever.                  *)
WaitsForOfm(s) == At(s, "download") /\ down[s] = <<>>

(* From wherever it is, a program ends or, when it has no limit, finishes  *)
(* another frame: client and service wait for each other nowhere but after *)
(* a refused download, and a busy board, a failed request or a signal ends *)
(* the program too.  Once it gives its buffers back it ends.               *)
SessionEnds ==
  \A s \in Sessions :
    /\ pc[s] # "off" ~> \/ pc[s] \in Ended \/ WaitsForOfm(s)
                        \/ limit[s] = NoLimit /\ pc[s] = "next"
    /\ Releasing(s) ~> pc[s] \in Ended
============================================================================

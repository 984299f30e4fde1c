------------------------------- MODULE GstApp -------------------------------
(* gst_app: main() and Pipeline::pipeline_driver(), the signal handler, the *)
(* mosquitto thread that serves the KPI commands, and the live trace reader *)
(* that std::async runs beside them; and the LTTng session daemon, which    *)
(* outlives the program and knows a session by the name of the pipeline     *)
(* only.  Several instances of one pipeline run side by side or one after   *)
(* the other.  The graph of the reader owns the KPI sink of KpiSender.      *)
EXTENDS Integers

CONSTANTS
  Procs,       \* instances of gst_app with the same manifest
  NoProc,
  MaxRetry,    \* MAX_RETRY_COUNT of the reader
  MaxSignals,  \* bound: SIGINT, SIGTERM, SIGUSR1, SIGUSR2 over a behaviour
  MaxFaults    \* bound: calls that fail and programs that are killed

ASSUME GstAppAssumption == NoProc \notin Procs /\ MaxRetry \in Nat \ {0}

VARIABLES
  main,       \* where main() stands
  terminate,  \* Pipeline::terminate, not read before start_pipeline() clears it
  left,       \* the bus message that ended the loop
  reading,    \* live_trace_reader_running_status
  callback,   \* the mosquitto thread: absent, waiting, inside handle_callback()
  url,        \* session_url of pipeline_driver() is alive
  session,    \* daemon: who created the session of this name
  handle,     \* LttngSession::_handle is set
  reader,     \* where live_trace_reader_run() stands
  tries,      \* its retry_count
  graph,      \* its variable graph is not NULL
  senders,    \* graphs, each with a KPI sink, that were built and not released
  signals, faults

vars == <<main, terminate, left, reading, callback, url, session, handle,
          reader, tries, graph, senders, signals, faults>>
appVars == <<terminate, left, reading>>
ltrVars == <<reader, tries, graph, senders>>
daemonVars == <<session, handle>>

Gone == {"exited", "crashed"}
Alive(p) == main[p] \notin Gone \cup {"idle"}
Fault == faults < MaxFaults /\ faults' = faults + 1
NoFault == faults' = faults

Init ==
  /\ main = [p \in Procs |-> "idle"]
  /\ terminate = [p \in Procs |-> FALSE] /\ left = [p \in Procs |-> "none"]
  /\ reading = [p \in Procs |-> TRUE]
  /\ callback = [p \in Procs |-> "none"] /\ url = [p \in Procs |-> FALSE]
  /\ session = NoProc /\ handle = [p \in Procs |-> FALSE]
  /\ reader = [p \in Procs |-> "none"] /\ tries = [p \in Procs |-> 0]
  /\ graph = [p \in Procs |-> FALSE] /\ senders = [p \in Procs |-> 0]
  /\ signals = 0 /\ faults = 0

Goto(p, place) == main' = [main EXCEPT ![p] = place]
At(p, place) == main[p] = place

(* The program ends, and its memory with it; what it told the daemon stays. *)
End(p, how) ==
  /\ Goto(p, how)
  /\ terminate' = [terminate EXCEPT ![p] = FALSE] /\ left' = [left EXCEPT ![p] = "none"]
  /\ reading' = [reading EXCEPT ![p] = TRUE]
  /\ callback' = [callback EXCEPT ![p] = "none"] /\ url' = [url EXCEPT ![p] = FALSE]
  /\ reader' = [reader EXCEPT ![p] = "none"] /\ tries' = [tries EXCEPT ![p] = 0]
  /\ graph' = [graph EXCEPT ![p] = FALSE] /\ senders' = [senders EXCEPT ![p] = 0]
  /\ UNCHANGED daemonVars
-----------------------------------------------------------------------------
(* main(): the handlers are installed first, the object they use is set     *)
(* after the constructor, which exits when there is no manifest.            *)
Launch(p) ==
  /\ At(p, "idle") /\ Goto(p, "launch")
  /\ UNCHANGED <<appVars, callback, url, daemonVars, ltrVars, signals, faults>>

Construct(p) ==
  /\ At(p, "launch") /\ UNCHANGED signals
  /\ \/ /\ Goto(p, "build") /\ NoFault
        /\ UNCHANGED <<appVars, callback, url, daemonVars, ltrVars>>
     \/ End(p, "exited") /\ Fault

(* --enable-lttng false goes straight to start_pipeline().                  *)
BuildPipeline(p) ==
  /\ At(p, "build")
  /\ \/ (Goto(p, "mqtt") \/ Goto(p, "play")) /\ NoFault
     \/ Goto(p, "client") /\ Fault
  /\ UNCHANGED <<appVars, callback, url, daemonVars, ltrVars, signals>>

InitMQTTClient(p) ==
  /\ At(p, "mqtt")
  /\ \/ Goto(p, "create") /\ callback' = [callback EXCEPT ![p] = "waits"] /\ NoFault
     \/ Goto(p, "client") /\ UNCHANGED callback /\ Fault
  /\ UNCHANGED <<appVars, url, daemonVars, ltrVars, signals>>

(* LttngSession(): a session of that name is destroyed, whoever made it,    *)
(* and creation tried again; after another error there is no session, and   *)
(* without the memory for it no handle to the one made.                     *)
CreateSession(p) ==
  /\ At(p, "create")
  /\ \/ /\ session = NoProc /\ session' = p /\ Goto(p, "async")
        /\ \/ handle' = [handle EXCEPT ![p] = TRUE] /\ NoFault
           \/ UNCHANGED handle /\ Fault
     \/ session # NoProc /\ Goto(p, "destroy") /\ UNCHANGED daemonVars /\ NoFault
     \/ Goto(p, "async") /\ UNCHANGED daemonVars /\ Fault
  /\ UNCHANGED <<appVars, callback, url, ltrVars, signals>>

DestroyOldSession(p) ==
  /\ At(p, "destroy") /\ Goto(p, "create") /\ session' = NoProc
  /\ UNCHANGED <<appVars, callback, url, handle, ltrVars, signals, faults>>

(* The reader gets pointers into session_url and pipeline_name.             *)
StartReader(p) ==
  /\ At(p, "async") /\ Goto(p, "play")
  /\ url' = [url EXCEPT ![p] = TRUE]
  /\ reader' = [reader EXCEPT ![p] = "make"]
  /\ UNCHANGED <<appVars, callback, daemonVars, tries, graph, senders, signals, faults>>

(* start_pipeline(): the state change first, and then terminate = FALSE,    *)
(* which forgets every signal handled before.                               *)
StartPipeline(p) ==
  /\ At(p, "play") /\ Goto(p, "loop")
  /\ terminate' = [terminate EXCEPT ![p] = FALSE]
  /\ UNCHANGED <<left, reading, callback, url, daemonVars, ltrVars, signals, faults>>

(* Faulty variant: the reader is not told.                                  *)
KeepReading(p) == UNCHANGED reading

(* Every way out of the loop stores TRUE in terminate and stops the reader. *)
StopReading(p) == reading' = [reading EXCEPT ![p] = FALSE]
Terminate(p) == terminate' = [terminate EXCEPT ![p] = TRUE]

(* The loop reads its condition and then polls the bus, so that a signal    *)
(* may come between: no message, APPLICATION and others change nothing.     *)
Poll(p) ==
  /\ At(p, "loop") /\ ~terminate[p] /\ Goto(p, "poll")
  /\ UNCHANGED <<appVars, callback, url, daemonVars, ltrVars, signals, faults>>

PopNothing(p) ==
  /\ At(p, "poll") /\ Goto(p, "loop")
  /\ UNCHANGED <<appVars, callback, url, daemonVars, ltrVars, signals, faults>>

(* ERROR ends the loop, EOS also waits for the reader.                      *)
Pop(p) ==
  /\ At(p, "poll")
  /\ Terminate(p) /\ StopReading(p)
  /\ \/ Goto(p, "loop") /\ left' = [left EXCEPT ![p] = "error"]
     \/ Goto(p, "get") /\ left' = [left EXCEPT ![p] = "eos"]
  /\ UNCHANGED <<callback, url, daemonVars, ltrVars, signals, faults>>

ReaderOver(p) == reader[p] \in {"none", "ended"}
ReaderStopped(p) == ~reading[p]

(* Faulty variant: the future is not waited for.                            *)
GetReaderAtOnce(p) ==
  /\ At(p, "get") /\ Goto(p, "loop")
  /\ UNCHANGED <<appVars, callback, url, daemonVars, ltrVars, signals, faults>>

GetReader(p) ==
  /\ At(p, "get") /\ Goto(p, "loop") /\ ReaderOver(p)
  /\ UNCHANGED <<appVars, callback, url, daemonVars, ltrVars, signals, faults>>

(* pipeline_driver() returns, and with it goes session_url.                 *)
LeaveLoop(p) ==
  /\ At(p, "loop") /\ terminate[p] /\ Goto(p, "client")
  /\ url' = [url EXCEPT ![p] = FALSE]
  /\ UNCHANGED <<appVars, callback, daemonVars, ltrVars, signals, faults>>

(* ~Pipeline(): the client, whose thread is cancelled and joined; the       *)
(* session, the bus and the pipeline; and last, with the members, the       *)
(* future of the reader.                                                    *)
DeleteClient(p) ==
  /\ At(p, "client") /\ Goto(p, "session")
  /\ callback' = [callback EXCEPT ![p] = "none"]
  /\ UNCHANGED <<appVars, url, daemonVars, ltrVars, signals, faults>>

(* Faulty variant: the destructor leaves the session to the daemon.         *)
SessionKept(p) ==
  /\ At(p, "session") /\ Goto(p, "join")
  /\ UNCHANGED <<appVars, callback, url, daemonVars, ltrVars, signals, faults>>

DeleteSession(p) ==
  /\ At(p, "session") /\ Goto(p, "join")
  /\ session' = IF handle[p] THEN NoProc ELSE session
  /\ UNCHANGED <<appVars, callback, url, handle, ltrVars, signals, faults>>

JoinReader(p) ==
  /\ At(p, "join") /\ ReaderOver(p) /\ End(p, "exited")
  /\ UNCHANGED <<signals, faults>>

(* What main() does by itself; a message on the bus may never come.         *)
Main(p) ==
  \/ Construct(p) \/ BuildPipeline(p) \/ InitMQTTClient(p)
  \/ CreateSession(p) \/ DestroyOldSession(p) \/ StartReader(p)
  \/ StartPipeline(p) \/ Poll(p) \/ PopNothing(p) \/ GetReader(p) \/ LeaveLoop(p)
  \/ DeleteClient(p) \/ DeleteSession(p)
  \/ JoinReader(p)
-----------------------------------------------------------------------------
(* The kernel gives a signal of the process to the main thread, which does  *)
(* not block it: the handler is one step of it.  Before the object is known *)
(* the handler writes through a null pointer.                               *)
Signal(p) ==
  /\ Alive(p) /\ signals < MaxSignals /\ signals' = signals + 1
  /\ UNCHANGED faults
  /\ \/ At(p, "launch") /\ End(p, "crashed")
     \/ /\ ~At(p, "launch")
        /\ Terminate(p) /\ StopReading(p)
        /\ UNCHANGED <<main, left, callback, url, daemonVars, ltrVars>>

(* start-kpis and stop-kpis: handle_callback() walks over the elements of   *)
(* the pipeline and sets transmit.                                          *)
Command(p) ==
  /\ Alive(p) /\ callback[p] = "waits"
  /\ callback' = [callback EXCEPT ![p] = "sets"]
  /\ UNCHANGED <<main, appVars, url, daemonVars, ltrVars, signals, faults>>

CommandDone(p) ==
  /\ Alive(p) /\ callback[p] = "sets"
  /\ callback' = [callback EXCEPT ![p] = "waits"]
  /\ UNCHANGED <<main, appVars, url, daemonVars, ltrVars, signals, faults>>
-----------------------------------------------------------------------------
Reads(p, place) == reader[p] = place /\ Alive(p)
ReaderGoto(p, place) == reader' = [reader EXCEPT ![p] = place]

(* live_trace_reader_make_graph() reads session_url.  bt_graph_run_once()   *)
(* aborts the program when there is no graph.                               *)
MakeGraph(p) ==
  /\ Reads(p, "make")
  /\ UNCHANGED signals
  /\ \/ /\ ReaderGoto(p, "run") /\ graph' = [graph EXCEPT ![p] = TRUE]
        /\ senders' = [senders EXCEPT ![p] = @ + 1]
        /\ UNCHANGED <<main, appVars, callback, url, daemonVars, tries>> /\ NoFault
     \/ End(p, "crashed") /\ Fault

(* The loop is over: the graph that is left is released.                    *)
Finish(p) ==
  /\ ReaderGoto(p, "ended") /\ graph' = [graph EXCEPT ![p] = FALSE]
  /\ senders' = [senders EXCEPT ![p] = IF graph[p] THEN @ - 1 ELSE @]

(* One run that does not fail, an ended one included, and the condition of  *)
(* the loop; the reader goes on until it is told to stop.                   *)
RunOnce(p) ==
  /\ Reads(p, "run")
  /\ IF ReaderStopped(p) THEN Finish(p) ELSE UNCHANGED <<reader, graph, senders>>
  /\ UNCHANGED <<main, appVars, callback, url, daemonVars, tries, signals, faults>>

(* STATUS_ERROR is counted, and retried but for the last time; any other    *)
(* error leaves the loop at once.                                           *)
RunFails(p) ==
  /\ Reads(p, "run")
  /\ \/ /\ tries[p] + 1 < MaxRetry
        /\ tries' = [tries EXCEPT ![p] = @ + 1]
        /\ ReaderGoto(p, "sleep") /\ UNCHANGED <<graph, senders>>
     \/ UNCHANGED tries /\ Finish(p)
  /\ UNCHANGED <<main, appVars, callback, url, daemonVars, signals, faults>>

(* Faulty variant: the failed graph is not released.                        *)
RetryKeepsGraph(p) ==
  /\ Reads(p, "sleep")
  /\ graph' = [graph EXCEPT ![p] = FALSE] /\ UNCHANGED senders
  /\ ReaderGoto(p, IF ReaderStopped(p) THEN "ended" ELSE "make")
  /\ UNCHANGED <<main, appVars, callback, url, daemonVars, tries, signals, faults>>

(* After the sleep the failed graph is released, and the condition of the   *)
(* loop read before the next one is made.                                   *)
Retry(p) ==
  /\ Reads(p, "sleep")
  /\ graph' = [graph EXCEPT ![p] = FALSE] /\ senders' = [senders EXCEPT ![p] = @ - 1]
  /\ ReaderGoto(p, IF ReaderStopped(p) THEN "ended" ELSE "make")
  /\ UNCHANGED <<main, appVars, callback, url, daemonVars, tries, signals, faults>>

Reader(p) == MakeGraph(p) \/ RunOnce(p) \/ Retry(p)
-----------------------------------------------------------------------------
(* The program is killed.                                                   *)
Dies(p) ==
  /\ Alive(p) /\ End(p, "crashed") /\ Fault /\ UNCHANGED signals

Outside(p) ==
  \/ Launch(p) \/ Pop(p) \/ Signal(p) \/ Command(p) \/ RunFails(p) \/ Dies(p)

Next ==
  \E p \in Procs : Main(p) \/ CommandDone(p) \/ Reader(p) \/ Outside(p)

Spec == Init /\ [][Next]_vars

(* The threads of a program run: main(), the reader, whose runs return, and *)
(* the mosquitto thread.                                                    *)
Fairness ==
  \A p \in Procs :
    WF_vars(Main(p)) /\ WF_vars(Reader(p)) /\ WF_vars(CommandDone(p))

FairSpec == Spec /\ Fairness
-----------------------------------------------------------------------------
TypeOK ==
  /\ main \in [Procs -> Gone \cup {"idle", "launch", "build", "mqtt", "create",
       "destroy", "async", "play", "loop", "poll", "get",
       "client", "session", "join"}]
  /\ terminate \in [Procs -> BOOLEAN] /\ left \in [Procs -> {"none", "error", "eos"}]
  /\ reading \in [Procs -> BOOLEAN]
  /\ callback \in [Procs -> {"none", "waits", "sets"}] /\ url \in [Procs -> BOOLEAN]
  /\ session \in Procs \cup {NoProc} /\ handle \in [Procs -> BOOLEAN]
  /\ reader \in [Procs -> {"none", "make", "run", "sleep", "ended"}]
  /\ tries \in [Procs -> 0 .. MaxRetry - 1] /\ graph \in [Procs -> BOOLEAN]
  /\ senders \in [Procs -> Int]
  /\ signals \in Nat /\ faults \in Nat

(* What the other threads use is alive: no command walks over the elements  *)
(* after the pipeline is given back, and a reader makes no graph from a     *)
(* session_url that an end of stream has freed.  An ERROR or a signal does  *)
(* not wait for the reader: there the url may go first.                     *)
NothingFreedIsUsed ==
  \A p \in Procs : Alive(p) =>
    /\ callback[p] = "sets" => ~At(p, "join")
    /\ reader[p] = "make" /\ left[p] = "eos" => url[p]

(* An instance has one KPI sink at a time, and none once its reader is over,*)
(* whatever failed and was tried again: two would publish every KPI twice.  *)
OneSender ==
  \A p \in Procs :
    senders[p] \in {0, 1} /\ (reader[p] = "ended" => senders[p] = 0)

(* A session that outlives the instance that made it was made by one that   *)
(* was killed or has no handle to it, however instances destroy each        *)
(* other's sessions.                                                        *)
SessionLeft ==
  session # NoProc /\ At(session, "exited") => ~handle[session]

(* Once the loop is told to end the program ends: neither the reader, which *)
(* two places wait for, nor a retry keeps it.                               *)
ExitIsReached ==
  \A p \in Procs : (main[p] \in {"loop", "poll", "get"} /\ terminate[p]) ~> (main[p] \in Gone)
=============================================================================

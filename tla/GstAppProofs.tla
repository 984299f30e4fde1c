---------------------------- MODULE GstAppProofs ----------------------------
(***************************************************************************)
(* What gst_app promises for every number of instances, retries, signals   *)
(* and failures.                                                           *)
(*                                                                         *)
(* An instance touches only its own variables and the daemon's session, so *)
(* the invariant is one of each instance, and a step of one leaves that of *)
(* the others alone; only SessionLeft relates two of them, and it rests on *)
(* an instance without a handle never getting one again.                   *)
(***************************************************************************)
EXTENDS GstApp, TLAPS

(* Places of main(): before the reader, once it has asked for the session, *)
(* in the loop with what follows its start, and from the loop on.          *)
Early  == {"idle", "launch", "build", "mqtt", "create", "destroy", "async"}
Late   == {"async", "play", "loop", "poll", "get", "client", "session", "join"}
InLoop == {"play", "loop", "poll", "get"}
Ended  == {"loop", "poll", "get", "client", "session", "join"}

(* The graph the reader holds, and the KPI sink in it.                     *)
Graph(p) ==
  /\ graph[p] <=> reader[p] \in {"run", "sleep"}
  /\ senders[p] = IF graph[p] THEN 1 ELSE 0

(* The mosquitto thread is gone before the pipeline is given back.         *)
NoThread(p) == main[p] \in {"session", "join"} => callback[p] = "none"

(* The reader starts with the url and runs beside the loop; an EOS ends it *)
(* before the loop goes on.                                                *)
Url(p) ==
  /\ main[p] \in Early => reader[p] = "none"
  /\ main[p] \in InLoop /\ reader[p] # "none" => url[p]
Waited(p) ==
  left[p] = "eos" => main[p] \in Ended /\ (main[p] # "get" => ReaderOver(p))

(* Who has a handle made the session, and who has left destroyed it.       *)
Handle(p) ==
  /\ handle[p] => main[p] \in Late \cup Gone
  /\ handle[p] /\ main[p] \in {"join", "exited"} => session # p

Local(p) == Graph(p) /\ NoThread(p) /\ Url(p) /\ Waited(p) /\ Handle(p)

Inv == TypeOK /\ \A p \in Procs : Local(p)
-----------------------------------------------------------------------------
(* What an instance may do to another: nothing, but for the session.       *)
Apart(p) ==
  /\ \A q \in Procs \ {p} :
       /\ main'[q] = main[q] /\ left'[q] = left[q] /\ callback'[q] = callback[q]
       /\ url'[q] = url[q] /\ handle'[q] = handle[q] /\ reader'[q] = reader[q]
       /\ graph'[q] = graph[q] /\ senders'[q] = senders[q]
  /\ session' \in {session, NoProc, p}

LEMMA OthersKeep ==
  ASSUME NEW p \in Procs, Inv, Apart(p), NEW q \in Procs \ {p}
  PROVE  Local(q)'
BY GstAppAssumption
   DEF Inv, Apart, Local, Graph, NoThread, Url, Waited, ReaderOver, Handle

LEMMA InitInv == Init => Inv
BY GstAppAssumption
   DEF Init, Inv, TypeOK, Local, Graph, NoThread, Url, Waited, ReaderOver, Handle,
       Gone, Early, Late, Ended, InLoop

(* The end of a program, which four actions share.                         *)
LEMMA EndInv ==
  ASSUME NEW p \in Procs, Inv, NEW how \in Gone, End(p, how),
         how = "exited" => ~handle[p] \/ session # p,
         signals' \in Nat, faults' \in Nat
  PROVE  Inv'
<1> USE DEF End, Goto, appVars, daemonVars, Gone
<1>1. TypeOK'
  BY GstAppAssumption DEF Inv, TypeOK
<1>2. Apart(p)
  BY DEF Inv, TypeOK, Apart
<1>3. Local(p)'
  BY DEF Inv, TypeOK, Local, Graph, NoThread, Url, Waited, ReaderOver, Handle, Early,
      Late, Ended, InLoop
<1> QED BY <1>1, <1>2, <1>3, OthersKeep DEF Inv

LEMMA LaunchInv ==
  ASSUME NEW p \in Procs, Inv, Launch(p)
  PROVE  Inv'
<1> USE GstAppAssumption
    DEF Launch, Goto, At, appVars, ltrVars, daemonVars
<1>1. TypeOK'
  BY DEF Inv, TypeOK, Alive, Gone
<1>2. Apart(p)
  BY DEF Inv, TypeOK, Apart
<1>3. Local(p)'
  BY DEF Inv, TypeOK, Local, Graph, NoThread, Url, Waited, ReaderOver, Handle, Early,
      Late, Ended, InLoop, Gone
<1> QED BY <1>1, <1>2, <1>3, OthersKeep DEF Inv

LEMMA BuildPipelineInv ==
  ASSUME NEW p \in Procs, Inv, BuildPipeline(p)
  PROVE  Inv'
<1> USE GstAppAssumption
    DEF BuildPipeline, Goto, At, appVars, ltrVars, daemonVars, NoFault, Fault
<1>1. TypeOK'
  BY DEF Inv, TypeOK, Alive, Gone
<1>2. Apart(p)
  BY DEF Inv, TypeOK, Apart
<1>3. Local(p)'
  BY DEF Inv, TypeOK, Local, Graph, NoThread, Url, Waited, ReaderOver, Handle, Early,
      Late, Ended, InLoop, Gone
<1> QED BY <1>1, <1>2, <1>3, OthersKeep DEF Inv

LEMMA InitMQTTClientInv ==
  ASSUME NEW p \in Procs, Inv, InitMQTTClient(p)
  PROVE  Inv'
<1> USE GstAppAssumption
    DEF InitMQTTClient, Goto, At, appVars, ltrVars, daemonVars, NoFault, Fault
<1>1. TypeOK'
  BY DEF Inv, TypeOK, Alive, Gone
<1>2. Apart(p)
  BY DEF Inv, TypeOK, Apart
<1>3. Local(p)'
  BY DEF Inv, TypeOK, Local, Graph, NoThread, Url, Waited, ReaderOver, Handle, Early,
      Late, Ended, InLoop, Gone
<1> QED BY <1>1, <1>2, <1>3, OthersKeep DEF Inv

LEMMA CreateSessionInv ==
  ASSUME NEW p \in Procs, Inv, CreateSession(p)
  PROVE  Inv'
<1> USE GstAppAssumption
    DEF CreateSession, Goto, At, appVars, ltrVars, daemonVars, NoFault, Fault
<1>1. TypeOK'
  <2>1. main' \in [Procs -> Gone \cup Early \cup Late]
    BY DEF Inv, TypeOK, Gone, Early, Late
  <2>2. session' \in Procs \cup {NoProc} /\ handle' \in [Procs -> BOOLEAN]
    BY DEF Inv, TypeOK
  <2>3. faults' \in Nat
    BY DEF Inv, TypeOK
  <2> QED BY <2>1, <2>2, <2>3 DEF Inv, TypeOK, Gone, Early, Late
<1>2. Apart(p)
  BY DEF Inv, TypeOK, Apart
<1>3. Local(p)'
  BY DEF Inv, TypeOK, Local, Graph, NoThread, Url, Waited, ReaderOver, Handle, Early,
      Late, Ended, InLoop, Gone
<1> QED BY <1>1, <1>2, <1>3, OthersKeep DEF Inv

LEMMA DestroyOldSessionInv ==
  ASSUME NEW p \in Procs, Inv, DestroyOldSession(p)
  PROVE  Inv'
<1> USE GstAppAssumption
    DEF DestroyOldSession, Goto, At, appVars, ltrVars, daemonVars
<1>1. TypeOK'
  BY DEF Inv, TypeOK, Alive, Gone
<1>2. Apart(p)
  BY DEF Inv, TypeOK, Apart
<1>3. Local(p)'
  BY DEF Inv, TypeOK, Local, Graph, NoThread, Url, Waited, ReaderOver, Handle, Early,
      Late, Ended, InLoop, Gone
<1> QED BY <1>1, <1>2, <1>3, OthersKeep DEF Inv

LEMMA StartReaderInv ==
  ASSUME NEW p \in Procs, Inv, StartReader(p)
  PROVE  Inv'
<1> USE GstAppAssumption
    DEF StartReader, Goto, At, appVars, ltrVars, daemonVars
<1>1. TypeOK'
  BY DEF Inv, TypeOK, Alive, Gone
<1>2. Apart(p)
  BY DEF Inv, TypeOK, Apart
<1>3. Local(p)'
  BY DEF Inv, TypeOK, Local, Graph, NoThread, Url, Waited, ReaderOver, Handle, Early,
      Late, Ended, InLoop, Gone
<1> QED BY <1>1, <1>2, <1>3, OthersKeep DEF Inv

LEMMA StartPipelineInv ==
  ASSUME NEW p \in Procs, Inv, StartPipeline(p)
  PROVE  Inv'
<1> USE GstAppAssumption
    DEF StartPipeline, Goto, At, appVars, ltrVars, daemonVars
<1>1. TypeOK'
  BY DEF Inv, TypeOK, Alive, Gone
<1>2. Apart(p)
  BY DEF Inv, TypeOK, Apart
<1>3. Local(p)'
  BY DEF Inv, TypeOK, Local, Graph, NoThread, Url, Waited, ReaderOver, Handle, Early,
      Late, Ended, InLoop, Gone
<1> QED BY <1>1, <1>2, <1>3, OthersKeep DEF Inv

LEMMA PopInv ==
  ASSUME NEW p \in Procs, Inv, Pop(p)
  PROVE  Inv'
<1> USE GstAppAssumption
    DEF Pop, Goto, At, appVars, ltrVars, daemonVars, Terminate, StopReading
<1>1. TypeOK'
  BY DEF Inv, TypeOK, Alive, Gone
<1>2. Apart(p)
  BY DEF Inv, TypeOK, Apart
<1>3. Local(p)'
  BY DEF Inv, TypeOK, Local, Graph, NoThread, Url, Waited, ReaderOver, Handle, Early,
      Late, Ended, InLoop, Gone
<1> QED BY <1>1, <1>2, <1>3, OthersKeep DEF Inv

LEMMA PollInv ==
  ASSUME NEW p \in Procs, Inv, Poll(p) \/ PopNothing(p)
  PROVE  Inv'
<1> USE GstAppAssumption
    DEF Poll, PopNothing, Goto, At, appVars, ltrVars, daemonVars
<1>1. TypeOK'
  BY DEF Inv, TypeOK, Alive, Gone
<1>2. Apart(p)
  BY DEF Inv, TypeOK, Apart
<1>3. Local(p)'
  BY DEF Inv, TypeOK, Local, Graph, NoThread, Url, Waited, ReaderOver, Handle, Early,
      Late, Ended, InLoop, Gone
<1> QED BY <1>1, <1>2, <1>3, OthersKeep DEF Inv

LEMMA GetReaderInv ==
  ASSUME NEW p \in Procs, Inv, GetReader(p)
  PROVE  Inv'
<1> USE GstAppAssumption
    DEF GetReader, Goto, At, appVars, ltrVars, daemonVars
<1>1. TypeOK'
  BY DEF Inv, TypeOK, Alive, Gone
<1>2. Apart(p)
  BY DEF Inv, TypeOK, Apart
<1>3. Local(p)'
  BY DEF Inv, TypeOK, Local, Graph, NoThread, Url, Waited, ReaderOver, Handle, Early,
      Late, Ended, InLoop, Gone
<1> QED BY <1>1, <1>2, <1>3, OthersKeep DEF Inv

LEMMA LeaveLoopInv ==
  ASSUME NEW p \in Procs, Inv, LeaveLoop(p)
  PROVE  Inv'
<1> USE GstAppAssumption
    DEF LeaveLoop, Goto, At, appVars, ltrVars, daemonVars
<1>1. TypeOK'
  BY DEF Inv, TypeOK, Alive, Gone
<1>2. Apart(p)
  BY DEF Inv, TypeOK, Apart
<1>3. Local(p)'
  BY DEF Inv, TypeOK, Local, Graph, NoThread, Url, Waited, ReaderOver, Handle, Early,
      Late, Ended, InLoop, Gone
<1> QED BY <1>1, <1>2, <1>3, OthersKeep DEF Inv

LEMMA DeleteClientInv ==
  ASSUME NEW p \in Procs, Inv, DeleteClient(p)
  PROVE  Inv'
<1> USE GstAppAssumption
    DEF DeleteClient, Goto, At, appVars, ltrVars, daemonVars
<1>1. TypeOK'
  BY DEF Inv, TypeOK, Alive, Gone
<1>2. Apart(p)
  BY DEF Inv, TypeOK, Apart
<1>3. Local(p)'
  BY DEF Inv, TypeOK, Local, Graph, NoThread, Url, Waited, ReaderOver, Handle, Early,
      Late, Ended, InLoop, Gone
<1> QED BY <1>1, <1>2, <1>3, OthersKeep DEF Inv

LEMMA DeleteSessionInv ==
  ASSUME NEW p \in Procs, Inv, DeleteSession(p)
  PROVE  Inv'
<1> USE GstAppAssumption
    DEF DeleteSession, Goto, At, appVars, ltrVars, daemonVars
<1>1. TypeOK'
  BY DEF Inv, TypeOK, Alive, Gone
<1>2. Apart(p)
  BY DEF Inv, TypeOK, Apart
<1>3. Local(p)'
  BY DEF Inv, TypeOK, Local, Graph, NoThread, Url, Waited, ReaderOver, Handle, Early,
      Late, Ended, InLoop, Gone
<1> QED BY <1>1, <1>2, <1>3, OthersKeep DEF Inv

LEMMA CommandInv ==
  ASSUME NEW p \in Procs, Inv, Command(p)
  PROVE  Inv'
<1> USE GstAppAssumption
    DEF Command, Goto, At, appVars, ltrVars, daemonVars
<1>1. TypeOK'
  BY DEF Inv, TypeOK, Alive, Gone
<1>2. Apart(p)
  BY DEF Inv, TypeOK, Apart
<1>3. Local(p)'
  BY DEF Inv, TypeOK, Local, Graph, NoThread, Url, Waited, ReaderOver, Handle, Early,
      Late, Ended, InLoop, Gone
<1> QED BY <1>1, <1>2, <1>3, OthersKeep DEF Inv

LEMMA CommandDoneInv ==
  ASSUME NEW p \in Procs, Inv, CommandDone(p)
  PROVE  Inv'
<1> USE GstAppAssumption
    DEF CommandDone, Goto, At, appVars, ltrVars, daemonVars
<1>1. TypeOK'
  BY DEF Inv, TypeOK, Alive, Gone
<1>2. Apart(p)
  BY DEF Inv, TypeOK, Apart
<1>3. Local(p)'
  BY DEF Inv, TypeOK, Local, Graph, NoThread, Url, Waited, ReaderOver, Handle, Early,
      Late, Ended, InLoop, Gone
<1> QED BY <1>1, <1>2, <1>3, OthersKeep DEF Inv

LEMMA FinishTypes ==
  ASSUME NEW p \in Procs, Inv, Finish(p)
  PROVE  graph' \in [Procs -> BOOLEAN] /\ senders' \in [Procs -> Int]
<1>1. graph' \in [Procs -> BOOLEAN]
  BY DEF Finish, Inv, TypeOK
<1>2. CASE graph[p]
  BY <1>1, <1>2 DEF Finish, Inv, TypeOK
<1>3. CASE ~graph[p]
  BY <1>1, <1>3 DEF Finish, Inv, TypeOK
<1> QED BY <1>2, <1>3

LEMMA RunOnceInv ==
  ASSUME NEW p \in Procs, Inv, RunOnce(p)
  PROVE  Inv'
<1> USE GstAppAssumption
    DEF RunOnce, Goto, At, appVars, ltrVars, daemonVars, Reads, ReaderGoto,
        ReaderStopped, Finish
<1>1. TypeOK'
  <2>1. reader' \in [Procs -> {"none", "make", "run", "sleep", "ended"}]
    BY DEF Inv, TypeOK
  <2>2. graph' \in [Procs -> BOOLEAN] /\ senders' \in [Procs -> Int]
    BY FinishTypes DEF Inv, TypeOK
  <2> QED BY <2>1, <2>2 DEF Inv, TypeOK
<1>2. Apart(p)
  BY DEF Inv, TypeOK, Apart
<1>3. Local(p)'
  BY DEF Inv, TypeOK, Local, Graph, NoThread, Url, Waited, ReaderOver, Handle, Early,
      Late, Ended, InLoop, Gone
<1> QED BY <1>1, <1>2, <1>3, OthersKeep DEF Inv

LEMMA RunFailsInv ==
  ASSUME NEW p \in Procs, Inv, RunFails(p)
  PROVE  Inv'
<1> USE GstAppAssumption
    DEF RunFails, Goto, At, appVars, ltrVars, daemonVars, Reads, ReaderGoto, Finish
<1>1. TypeOK'
  <2>1. reader' \in [Procs -> {"none", "make", "run", "sleep", "ended"}]
    BY DEF Inv, TypeOK
  <2>2. graph' \in [Procs -> BOOLEAN] /\ senders' \in [Procs -> Int]
    BY FinishTypes DEF Inv, TypeOK
  <2>3. tries' \in [Procs -> 0 .. MaxRetry - 1]
    BY DEF Inv, TypeOK
  <2> QED BY <2>1, <2>2, <2>3 DEF Inv, TypeOK
<1>2. Apart(p)
  BY DEF Inv, TypeOK, Apart
<1>3. Local(p)'
  BY DEF Inv, TypeOK, Local, Graph, NoThread, Url, Waited, ReaderOver, Handle, Early,
      Late, Ended, InLoop, Gone
<1> QED BY <1>1, <1>2, <1>3, OthersKeep DEF Inv

LEMMA RetryInv ==
  ASSUME NEW p \in Procs, Inv, Retry(p)
  PROVE  Inv'
<1> USE GstAppAssumption
    DEF Retry, Goto, At, appVars, ltrVars, daemonVars, Reads, ReaderGoto, ReaderStopped
<1>1. TypeOK'
  BY DEF Inv, TypeOK, Alive, Gone
<1>2. Apart(p)
  BY DEF Inv, TypeOK, Apart
<1>3. Local(p)'
  BY DEF Inv, TypeOK, Local, Graph, NoThread, Url, Waited, ReaderOver, Handle, Early,
      Late, Ended, InLoop, Gone
<1> QED BY <1>1, <1>2, <1>3, OthersKeep DEF Inv

(* The actions with a disjunct that ends the program.                      *)
LEMMA ConstructInv ==
  ASSUME NEW p \in Procs, Inv, Construct(p)
  PROVE  Inv'
<1>a. CASE Goto(p, "build") /\ NoFault /\ UNCHANGED <<appVars, callback, url, daemonVars, ltrVars>>
  <2> USE <1>a DEF Construct, Goto, At, NoFault, appVars, ltrVars, daemonVars
  <2>1. TypeOK'
    BY DEF Inv, TypeOK
  <2>2. Apart(p)
    BY DEF Inv, TypeOK, Apart
  <2>3. Local(p)'
    BY DEF Inv, TypeOK, Local, Graph, NoThread, Url, Waited, ReaderOver, Handle,
        Early, Late, Ended, InLoop, Gone
  <2> QED BY <2>1, <2>2, <2>3, OthersKeep DEF Inv
<1>b. CASE End(p, "exited") /\ Fault
  BY <1>b, EndInv DEF Construct, Fault, Inv, TypeOK, Local, Handle, At, Late, Gone
<1> QED BY <1>a, <1>b DEF Construct

LEMMA JoinReaderInv ==
  ASSUME NEW p \in Procs, Inv, JoinReader(p)
  PROVE  Inv'
BY EndInv DEF JoinReader, Inv, TypeOK, Local, Handle, At, Gone

LEMMA SignalInv ==
  ASSUME NEW p \in Procs, Inv, Signal(p)
  PROVE  Inv'
<1>a. CASE End(p, "crashed")
  BY <1>a, EndInv DEF Signal, Inv, TypeOK, Gone
<1>1. signals' \in Nat /\ faults' = faults
  BY DEF Signal, Inv, TypeOK
<1>b. CASE /\ Terminate(p) /\ StopReading(p)
           /\ UNCHANGED <<main, left, callback, url, daemonVars, ltrVars>>
  <2> USE <1>1, <1>b DEF Terminate, StopReading, ltrVars, daemonVars
  <2>1. TypeOK'
    BY DEF Inv, TypeOK
  <2>2. Apart(p)
    BY DEF Inv, TypeOK, Apart
  <2>3. Local(p)'
    BY DEF Inv, TypeOK, Local, Graph, NoThread, Url, Waited, ReaderOver, Handle,
        Early, Late, Ended, InLoop, Gone
  <2> QED BY <2>1, <2>2, <2>3, OthersKeep DEF Inv
<1> QED BY <1>a, <1>b DEF Signal

LEMMA MakeGraphInv ==
  ASSUME NEW p \in Procs, Inv, MakeGraph(p)
  PROVE  Inv'
<1>a. CASE End(p, "crashed") /\ Fault
  BY <1>a, EndInv DEF MakeGraph, Fault, Inv, TypeOK, Gone
<1>1. Reads(p, "make") /\ UNCHANGED signals
  BY DEF MakeGraph
<1>b. CASE /\ ReaderGoto(p, "run") /\ graph' = [graph EXCEPT ![p] = TRUE]
           /\ senders' = [senders EXCEPT ![p] = @ + 1] /\ NoFault
           /\ UNCHANGED <<main, appVars, callback, url, daemonVars, tries>>
  <2> USE <1>1, <1>b DEF Reads, ReaderGoto, NoFault, appVars, daemonVars
  <2>1. TypeOK'
    BY DEF Inv, TypeOK
  <2>2. Apart(p)
    BY DEF Inv, TypeOK, Apart
  <2>3. Local(p)'
    BY DEF Inv, TypeOK, Local, Graph, NoThread, Url, Waited, ReaderOver, Handle,
        Early, Late, Ended, InLoop, Gone
  <2> QED BY <2>1, <2>2, <2>3, OthersKeep DEF Inv
<1> QED BY <1>a, <1>b DEF MakeGraph

LEMMA DiesInv ==
  ASSUME NEW p \in Procs, Inv, Dies(p)
  PROVE  Inv'
BY EndInv DEF Dies, Fault, Inv, TypeOK, Gone

LEMMA StutterInv ==
  ASSUME Inv, UNCHANGED vars
  PROVE  Inv'
BY DEF vars, Inv, TypeOK, Local, Graph, NoThread, Url, Waited, ReaderOver, Handle

-----------------------------------------------------------------------------
(* The inductive invariant of all instances.                               *)
THEOREM InvHolds == Spec => []Inv
<1>1. ASSUME Inv, NEW p \in Procs, Main(p)
      PROVE  Inv'
  BY <1>1, ConstructInv, BuildPipelineInv, InitMQTTClientInv, CreateSessionInv,
     DestroyOldSessionInv, StartReaderInv, StartPipelineInv, PollInv, GetReaderInv, LeaveLoopInv,
     DeleteClientInv, DeleteSessionInv, JoinReaderInv DEF Main
<1>2. ASSUME Inv, NEW p \in Procs, CommandDone(p) \/ Reader(p)
      PROVE  Inv'
  BY <1>2, CommandDoneInv, MakeGraphInv, RunOnceInv, RetryInv DEF Reader
<1>3. ASSUME Inv, NEW p \in Procs, Outside(p)
      PROVE  Inv'
  BY <1>3, LaunchInv, PopInv, SignalInv, CommandInv, RunFailsInv, DiesInv DEF Outside
<1>4. Inv /\ [Next]_vars => Inv'
  BY <1>1, <1>2, <1>3, StutterInv DEF Next
<1> QED BY InitInv, <1>4, PTL DEF Spec

(* Every variable keeps its type.                                          *)
THEOREM TypeCorrect == Spec => []TypeOK
<1>1. Inv => TypeOK
  BY DEF Inv
<1> QED BY <1>1, InvHolds, PTL

(* The commands and the reader use nothing that was given back, but for    *)
(* the url after an ERROR or a signal.                                     *)
THEOREM ThreadsUseLiveMemory == Spec => []NothingFreedIsUsed
<1>1. Inv => NothingFreedIsUsed
  BY DEF Inv, Local, NoThread, Url, Waited, ReaderOver, NothingFreedIsUsed, At,
      Ended, InLoop
<1> QED BY <1>1, InvHolds, PTL

(* However often the graph fails and is made again, an instance has one    *)
(* KPI sink at a time, and none when its reader is over.                   *)
THEOREM AtMostOneSender == Spec => []OneSender
<1>1. Inv => OneSender
  BY DEF Inv, Local, Graph, OneSender
<1> QED BY <1>1, InvHolds, PTL

(* A session that outlives its instance was made by one that was killed or *)
(* lost its handle.                                                        *)
THEOREM SessionIsDestroyed == Spec => []SessionLeft
<1>1. Inv => SessionLeft
  BY GstAppAssumption DEF Inv, TypeOK, Local, Handle, SessionLeft, At
<1> QED BY <1>1, InvHolds, PTL
=============================================================================
